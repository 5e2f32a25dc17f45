-------------------------- MODULE MCGeoServerLayer --------------------------
(* Instances of GeoServerLayer for TLC: the kinds of layers Layman has.    *)
EXTENDS GeoServerLayer

AllRows ==
    [kind : {"file", "table"}, style : {"sld", "qml"}] \cup
    [kind : {"geotiff", "image_mosaic"}, style : {"sld"}]
=============================================================================
