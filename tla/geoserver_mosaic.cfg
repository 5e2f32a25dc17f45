\* doc/data-storage.md:124: "If layer is timeseries, Coverage Store is
\* ImageMosaic, otherwise it is GeoTIFF."  TLC finds MosaicStays violated.
SPECIFICATION Spec
CONSTANTS
    Rows <- AllRows
    MaxRequests = 2
    MaxFailures = 0
CHECK_DEADLOCK FALSE
INVARIANT MosaicStays
