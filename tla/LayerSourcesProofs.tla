------------------------- MODULE LayerSourcesProofs -------------------------
(***************************************************************************)
(* Theorems about LayerSources: what requests and tasks do to the sources  *)
(* of a layer, for any number of requests, with any of them failing        *)
(* anywhere.                                                               *)
(*                                                                         *)
(* First the order of sources, and what each task and each step of a       *)
(* request do to the row and to what is made of it.  IInv says what is     *)
(* there while a request or a chain is on its way: the steps it has still  *)
(* to do tell what it has deleted and not made again.  JInv says what of   *)
(* it reflects the row: everything that a chain has not still to make      *)
(* again, of a layer that nothing has failed for, or that a chain makes    *)
(* anew from its file.                                                     *)
(***************************************************************************)
EXTENDS LayerSources, SequenceTheorems, WellFoundedInduction, TLAPS

-----------------------------------------------------------------------------
(* The order of sources and of steps.                                      *)

LEMMA OrderIs ==
    /\ Order \in Seq(Sources) /\ Len(Order) = 14 /\ DOMAIN Order = 1 .. 14
    /\ Order[1] = "row" /\ Order[2] = "input_chunk" /\ Order[3] = "input_file" /\ Order[4] = "input_style"
    /\ Order[5] = "gdal" /\ Order[6] = "table" /\ Order[7] = "file_data" /\ Order[8] = "qgis"
    /\ Order[9] = "wfs" /\ Order[10] = "wms" /\ Order[11] = "sld" /\ Order[12] = "status"
    /\ Order[13] = "thumbnail" /\ Order[14] = "soap"
<1>1. Len(Order) = 14
  BY DEF Order
<1>2. DOMAIN Order = 1 .. 14
  BY DEF Order
<1>3. /\ Order[1] = "row" /\ Order[2] = "input_chunk" /\ Order[3] = "input_file" /\ Order[4] = "input_style"
      /\ Order[5] = "gdal" /\ Order[6] = "table" /\ Order[7] = "file_data" /\ Order[8] = "qgis"
      /\ Order[9] = "wfs" /\ Order[10] = "wms" /\ Order[11] = "sld" /\ Order[12] = "status"
      /\ Order[13] = "thumbnail" /\ Order[14] = "soap"
  BY DEF Order
<1>4. Order = [i \in 1 .. 14 |-> Order[i]]
  BY DEF Order
<1>5. \A i \in 1 .. 14 : Order[i] \in Sources
  BY <1>2 DEF Sources, ToSet
<1>6. Order \in [1 .. 14 -> Sources]
  BY <1>4, <1>5
<1>7. Order \in Seq(Sources)
  BY <1>6, SeqDef
<1>. QED  BY <1>1, <1>2, <1>3, <1>7

LEMMA SourcesAre ==
    /\ Sources = {"row", "input_chunk", "input_file", "input_style", "gdal", "table", "file_data",
                  "qgis", "wfs", "wms", "sld", "status", "thumbnail", "soap"}
    /\ Products = {"input_chunk", "input_file", "input_style", "gdal", "table",
                   "qgis", "wfs", "wms", "sld", "thumbnail", "soap"}
    /\ Refreshable = {"input_chunk", "gdal", "table", "file_data",
                      "qgis", "wfs", "wms", "sld", "status", "thumbnail", "soap"}
    /\ \A i \in 1 .. 14 : Order[i] \in Sources
<1>1. Sources = {Order[i] : i \in 1 .. 14}
  BY OrderIs DEF Sources, ToSet
<1>2. Sources = {"row", "input_chunk", "input_file", "input_style", "gdal", "table", "file_data",
                 "qgis", "wfs", "wms", "sld", "status", "thumbnail", "soap"}
  <2>1. \A i \in 1 .. 14 : i \in {1, 2, 3, 4, 5, 6, 7, 8, 9, 10, 11, 12, 13, 14}
    OBVIOUS
  <2>. QED  BY <1>1, <2>1, OrderIs
<1>. QED  BY <1>1, <1>2 DEF Products, Refreshable

LEMMA OrderOnce == \A i, j \in 1 .. 14 : Order[i] = Order[j] => i = j
<1> DEFINE place == [row |-> 1, input_chunk |-> 2, input_file |-> 3, input_style |-> 4, gdal |-> 5, table |-> 6,
                     file_data |-> 7, qgis |-> 8, wfs |-> 9, wms |-> 10, sld |-> 11, status |-> 12,
                     thumbnail |-> 13, soap |-> 14]
<1>1. /\ place["row"] = 1 /\ place["input_chunk"] = 2 /\ place["input_file"] = 3 /\ place["input_style"] = 4
      /\ place["gdal"] = 5 /\ place["table"] = 6 /\ place["file_data"] = 7 /\ place["qgis"] = 8
      /\ place["wfs"] = 9 /\ place["wms"] = 10 /\ place["sld"] = 11 /\ place["status"] = 12
      /\ place["thumbnail"] = 13 /\ place["soap"] = 14
  OBVIOUS
<1> HIDE DEF place
<1>2. ASSUME NEW i \in 1 .. 14 PROVE place[Order[i]] = i
  <2>1. i \in {1, 2, 3, 4, 5, 6, 7, 8, 9, 10, 11, 12, 13, 14}
    OBVIOUS
  <2>2. /\ Order[1] = "row" /\ Order[2] = "input_chunk" /\ Order[3] = "input_file" /\ Order[4] = "input_style"
        /\ Order[5] = "gdal" /\ Order[6] = "table" /\ Order[7] = "file_data" /\ Order[8] = "qgis"
        /\ Order[9] = "wfs" /\ Order[10] = "wms" /\ Order[11] = "sld" /\ Order[12] = "status"
        /\ Order[13] = "thumbnail" /\ Order[14] = "soap"
    BY OrderIs
  <2>. QED  BY <1>1, <2>1, <2>2
<1>. QED  BY <1>2

LEMMA FromIs ==
    /\ From("input_chunk") = Sources \ {"row"}
    /\ From("input_file") = Sources \ {"row", "input_chunk"}
    /\ From("qgis") = {"qgis", "wfs", "wms", "sld", "status", "thumbnail", "soap"}
    /\ From("soap") = {"soap"}
<1>1. ASSUME NEW n \in 1 .. 14
      PROVE  From(Order[n]) = {Order[i] : i \in n .. 14}
  <2>1. {j \in DOMAIN Order : \E k \in 1 .. j : Order[k] = Order[n]} = n .. 14
    <3>1. ASSUME NEW j \in 1 .. 14
          PROVE  (\E k \in 1 .. j : Order[k] = Order[n]) <=> j \in n .. 14
      <4>1. ASSUME NEW k \in 1 .. j, Order[k] = Order[n] PROVE j \in n .. 14
        <5>1. k \in 1 .. 14
          OBVIOUS
        <5>2. k = n
          BY <4>1, <5>1, OrderOnce
        <5>. QED  BY <4>1, <5>2
      <4>2. ASSUME j \in n .. 14 PROVE \E k \in 1 .. j : Order[k] = Order[n]
        <5>1. n \in 1 .. j
          BY <4>2
        <5>. QED  BY <5>1
      <4>. QED  BY <4>1, <4>2
    <3>. QED  BY <3>1, OrderIs
  <2>. QED  BY <2>1 DEF From
<1>2. From("input_chunk") = Sources \ {"row"}
  <2>1. \A i : i \in 2 .. 14 <=> i \in {2, 3, 4, 5, 6, 7, 8, 9, 10, 11, 12, 13, 14}
    OBVIOUS
  <2>. QED  BY <1>1, <2>1, OrderIs, SourcesAre
<1>3. From("input_file") = Sources \ {"row", "input_chunk"}
  <2>1. \A i : i \in 3 .. 14 <=> i \in {3, 4, 5, 6, 7, 8, 9, 10, 11, 12, 13, 14}
    OBVIOUS
  <2>. QED  BY <1>1, <2>1, OrderIs, SourcesAre
<1>4. From("qgis") = {"qgis", "wfs", "wms", "sld", "status", "thumbnail", "soap"}
  <2>1. \A i : i \in 8 .. 14 <=> i \in {8, 9, 10, 11, 12, 13, 14}
    OBVIOUS
  <2>. QED  BY <1>1, <2>1, OrderIs, SourcesAre
<1>5. From("soap") = {"soap"}
  <2>1. \A i : i \in 14 .. 14 <=> i = 14
    OBVIOUS
  <2>. QED  BY <1>1, <2>1, OrderIs, SourcesAre
<1>. QED  BY <1>2, <1>3, <1>4, <1>5

(* A set of members of an order has a first one.                           *)
LEMMA FirstIs ==
    ASSUME NEW T, NEW order \in Seq(T), NEW S, S # {}, \A x \in S : \E i \in 1 .. Len(order) : x = order[i]
    PROVE  \E i \in 1 .. Len(order) : /\ First(order, S) = order[i] /\ order[i] \in S
                                      /\ \A j \in 1 .. i - 1 : order[j] \notin S
<1> DEFINE I == {i \in 1 .. Len(order) : order[i] \in S}
           G(i) == order[i] \in S /\ \A j \in 1 .. i - 1 : order[j] \notin S
<1>1. Len(order) \in Nat /\ DOMAIN order = 1 .. Len(order)
  BY LenProperties
<1>2. I \subseteq Nat /\ I # {}
  BY <1>1
<1>3. PICK i \in I : \A j \in I : ~(<<j, i>> \in OpToRel(<, Nat))
  BY <1>2, WFMin, NatLessThanWellFounded
<1>4. \A j \in I : ~(j < i)
  BY <1>2, <1>3 DEF OpToRel
<1>5. i \in DOMAIN order /\ G(i)
  BY <1>1, <1>2, <1>4
<1>6. PICK k : k = CHOOSE j \in DOMAIN order : G(j)
  OBVIOUS
<1>7. k \in DOMAIN order /\ G(k)
  BY <1>5, <1>6
<1>. QED  BY <1>1, <1>6, <1>7 DEF First

LEMMA TaskIs ==
    ASSUME chain.tasks \subseteq Refreshable, chain.tasks # {}
    PROVE  /\ Task \in chain.tasks
           /\ Task = "gdal"      => "input_chunk" \notin chain.tasks
           /\ Task = "table"     => "gdal" \notin chain.tasks
           /\ Task = "file_data" => "table" \notin chain.tasks
           /\ Task = "qgis"      => "file_data" \notin chain.tasks
           /\ Task = "wfs"       => "qgis" \notin chain.tasks
           /\ Task = "wms"       => "wfs" \notin chain.tasks
           /\ Task = "sld"       => "wms" \notin chain.tasks
           /\ Task = "status"    => "sld" \notin chain.tasks
           /\ Task = "thumbnail" => "status" \notin chain.tasks /\ "wms" \notin chain.tasks
           /\ Task = "soap"      => "thumbnail" \notin chain.tasks
           /\ Task \in {"qgis", "wfs", "wms", "thumbnail", "soap"} => "file_data" \notin chain.tasks
<1>1. chain.tasks \subseteq Sources
  BY SourcesAre
<1>2. \A x \in chain.tasks : \E i \in 1 .. 14 : x = Order[i]
  BY <1>1, OrderIs DEF Sources, ToSet
<1>3. PICK i \in 1 .. 14 : /\ Task = Order[i] /\ Order[i] \in chain.tasks
                           /\ \A j \in 1 .. i - 1 : Order[j] \notin chain.tasks
  <2>1. /\ Order \in Seq(Sources) /\ Len(Order) = 14
        /\ \A x \in chain.tasks : \E i \in 1 .. Len(Order) : x = Order[i]
    BY <1>2, OrderIs
  <2>2. \E i \in 1 .. Len(Order) : /\ First(Order, chain.tasks) = Order[i] /\ Order[i] \in chain.tasks
                                   /\ \A j \in 1 .. i - 1 : Order[j] \notin chain.tasks
    BY <2>1, FirstIs
  <2>. QED  BY <2>1, <2>2 DEF Task
<1>4. \A j \in 1 .. 14 : Order[j] \in chain.tasks => i <= j
  BY <1>3
<1>5. Task = Order[i] /\ i \in {1, 2, 3, 4, 5, 6, 7, 8, 9, 10, 11, 12, 13, 14}
  BY <1>3
<1>6. /\ "input_chunk" \in chain.tasks => i <= 2
      /\ "gdal" \in chain.tasks => i <= 5
      /\ "table" \in chain.tasks => i <= 6
      /\ "file_data" \in chain.tasks => i <= 7
      /\ "qgis" \in chain.tasks => i <= 8
      /\ "wfs" \in chain.tasks => i <= 9
      /\ "wms" \in chain.tasks => i <= 10
      /\ "sld" \in chain.tasks => i <= 11
      /\ "status" \in chain.tasks => i <= 12
      /\ "thumbnail" \in chain.tasks => i <= 13
  BY <1>4, OrderIs
<1>7. /\ Task = "gdal" => i = 5
      /\ Task = "table" => i = 6
      /\ Task = "file_data" => i = 7
      /\ Task = "qgis" => i = 8
      /\ Task = "wfs" => i = 9
      /\ Task = "wms" => i = 10
      /\ Task = "sld" => i = 11
      /\ Task = "status" => i = 12
      /\ Task = "thumbnail" => i = 13
      /\ Task = "soap" => i = 14
  BY <1>5, OrderIs
<1>. QED  BY <1>3, <1>6, <1>7

AllSteps ==
    Steps("delete", Sources) \cup Steps("patch", {"row", "wfs", "wms"})
      \cup {Step("save", "row"), Step("post", "row"), Step("start", "row")}

LEMMA ScheduleIs ==
    /\ Schedule \in Seq(ToSet(Schedule)) /\ Len(Schedule) = 20 /\ DOMAIN Schedule = 1 .. 20
    /\ \A i \in 1 .. 14 : Schedule[i] = Step("delete", Order[15 - i])
    /\ Schedule[15] = Step("save", "row") /\ Schedule[16] = Step("post", "row")
    /\ Schedule[17] = Step("patch", "row") /\ Schedule[18] = Step("patch", "wfs")
    /\ Schedule[19] = Step("patch", "wms") /\ Schedule[20] = Step("start", "row")
    /\ ToSet(Schedule) = AllSteps
<1> DEFINE rest == << Step("save", "row"), Step("post", "row"), Step("patch", "row"),
                      Step("patch", "wfs"), Step("patch", "wms"), Step("start", "row") >>
           T == {Deletes[i] : i \in 1 .. 14} \cup {rest[i] : i \in 1 .. 6}
<1>1. /\ Len(rest) = 6 /\ DOMAIN rest = 1 .. 6 /\ rest = [i \in 1 .. 6 |-> rest[i]]
      /\ rest[1] = Step("save", "row") /\ rest[2] = Step("post", "row") /\ rest[3] = Step("patch", "row")
      /\ rest[4] = Step("patch", "wfs") /\ rest[5] = Step("patch", "wms") /\ rest[6] = Step("start", "row")
  OBVIOUS
<1> HIDE DEF rest
<1>2. rest \in Seq(T)
  <2>1. rest \in [1 .. 6 -> T]
    BY <1>1
  <2>. QED  BY <2>1, SeqDef
<1>3. Deletes = [i \in 1 .. 14 |-> Step("delete", Order[15 - i])]
  BY OrderIs DEF Deletes
<1>4. Deletes \in Seq(T) /\ Len(Deletes) = 14
  <2>1. Deletes \in [1 .. 14 -> T]
    BY <1>3
  <2>2. Deletes \in Seq(T)
    BY <2>1, SeqDef
  <2>. QED  BY <2>1, <2>2, LenProperties
<1>5. /\ Schedule \in Seq(T) /\ Len(Schedule) = 20
      /\ \A i \in 1 .. 20 : Schedule[i] = IF i <= 14 THEN Deletes[i] ELSE rest[i - 14]
  <2>1. Schedule = Deletes \o rest
    BY DEF Schedule, rest
  <2>2. /\ Deletes \o rest \in Seq(T) /\ Len(Deletes \o rest) = Len(Deletes) + Len(rest)
        /\ \A i \in 1 .. Len(Deletes) + Len(rest) :
              (Deletes \o rest)[i] = IF i <= Len(Deletes) THEN Deletes[i] ELSE rest[i - Len(Deletes)]
    BY <1>2, <1>4, ConcatProperties
  <2>3. Len(Deletes) = 14 /\ Len(rest) = 6
    BY <1>1, <1>4
  <2> HIDE DEF T
  <2>4. Schedule \in Seq(T) /\ Len(Schedule) = 20
    BY <2>1, <2>2, <2>3
  <2>5. ASSUME NEW i \in 1 .. 20
        PROVE  Schedule[i] = IF i <= 14 THEN Deletes[i] ELSE rest[i - 14]
    <3>1. i \in 1 .. Len(Deletes) + Len(rest)
      BY <2>3
    <3>2. (Deletes \o rest)[i] = IF i <= Len(Deletes) THEN Deletes[i] ELSE rest[i - Len(Deletes)]
      BY <2>2, <3>1, Zenon
    <3>. QED  BY <2>1, <2>3, <3>2, Zenon
  <2>. QED  BY <2>4, <2>5
<1>6. DOMAIN Schedule = 1 .. 20 /\ Schedule = [i \in 1 .. 20 |-> Schedule[i]]
  BY <1>5, LenProperties
<1>7. Schedule \in [1 .. 20 -> ToSet(Schedule)]
  BY <1>6 DEF ToSet
<1>8. Schedule \in Seq(ToSet(Schedule))
  BY <1>7, SeqDef
<1>9. ASSUME NEW i \in 1 .. 14 PROVE Schedule[i] = Step("delete", Order[15 - i])
  <2>1. Schedule[i] = Deletes[i]
    BY <1>5
  <2>. QED  BY <1>3, <2>1
<1>10. /\ Schedule[15] = Step("save", "row") /\ Schedule[16] = Step("post", "row")
       /\ Schedule[17] = Step("patch", "row") /\ Schedule[18] = Step("patch", "wfs")
       /\ Schedule[19] = Step("patch", "wms") /\ Schedule[20] = Step("start", "row")
  BY <1>1, <1>5
<1>11. ToSet(Schedule) = AllSteps
  <2>1. ASSUME NEW x \in ToSet(Schedule) PROVE x \in AllSteps
    <3>1. PICK i \in 1 .. 20 : x = Schedule[i]
      BY <2>1, <1>6 DEF ToSet
    <3>2. CASE i \in 1 .. 14
      <4>1. 15 - i \in 1 .. 14
        BY <3>2
      <4>. QED  BY <3>1, <3>2, <4>1, <1>9, SourcesAre DEF AllSteps, Steps
    <3>3. CASE i \in {15, 16, 17, 18, 19, 20}
      BY <3>1, <3>3, <1>10 DEF AllSteps, Steps
    <3>. QED  BY <3>2, <3>3
  <2>2. ASSUME NEW s \in Sources PROVE Step("delete", s) \in ToSet(Schedule)
    <3>1. PICK j \in 1 .. 14 : s = Order[j]
      BY OrderIs DEF Sources, ToSet
    <3>2. 15 - j \in 1 .. 14 /\ 15 - (15 - j) = j
      OBVIOUS
    <3>. QED  BY <3>1, <3>2, <1>6, <1>9 DEF ToSet
  <2>3. /\ Steps("patch", {"row", "wfs", "wms"}) \subseteq ToSet(Schedule)
        /\ {Step("save", "row"), Step("post", "row"), Step("start", "row")} \subseteq ToSet(Schedule)
    BY <1>6, <1>10 DEF ToSet, Steps
  <2>. QED  BY <2>1, <2>2, <2>3 DEF AllSteps, Steps
<1>. QED  BY <1>5, <1>6, <1>8, <1>9, <1>10, <1>11

LEMMA StepIs ==
    ASSUME req.todo \subseteq AllSteps, req.todo # {}
    PROVE  /\ NextStep \in req.todo
           /\ \A i, j \in 1 .. 14 : NextStep = Step("delete", Order[i]) /\ i < j =>
                                       Step("delete", Order[j]) \notin req.todo
           /\ NextStep.do # "delete" => \A s \in Sources : Step("delete", s) \notin req.todo
           /\ NextStep.do \notin {"delete", "save"} => Step("save", "row") \notin req.todo
           /\ NextStep.do \in {"patch", "start"} => Step("post", "row") \notin req.todo
           /\ NextStep.do = "start" => req.todo = {Step("start", "row")}
           /\ NextStep.do = "patch" /\ NextStep.on \in {"wfs", "wms"} => Step("patch", "row") \notin req.todo
<1>1. PICK n \in 1 .. 20 : /\ NextStep = Schedule[n] /\ Schedule[n] \in req.todo
                           /\ \A m \in 1 .. n - 1 : Schedule[m] \notin req.todo
  <2>1. \A x \in req.todo : \E i \in 1 .. 20 : x = Schedule[i]
    <3>1. ToSet(Schedule) = AllSteps /\ DOMAIN Schedule = 1 .. 20
      BY ScheduleIs
    <3>. QED  BY <3>1 DEF ToSet
  <2>2. /\ Schedule \in Seq(ToSet(Schedule)) /\ Len(Schedule) = 20
        /\ \A x \in req.todo : \E i \in 1 .. Len(Schedule) : x = Schedule[i]
    BY <2>1, ScheduleIs
  <2>3. \E i \in 1 .. Len(Schedule) : /\ First(Schedule, req.todo) = Schedule[i] /\ Schedule[i] \in req.todo
                                      /\ \A j \in 1 .. i - 1 : Schedule[j] \notin req.todo
    BY <2>2, FirstIs
  <2>. QED  BY <2>2, <2>3 DEF NextStep
<1>2. \A m \in 1 .. 20 : Schedule[m] \in req.todo => n <= m
  BY <1>1
<1>3. NextStep \in req.todo
  BY <1>1
<1>4. \A s \in Sources : Step("delete", s) \in req.todo => n <= 14 /\ \E j \in 1 .. 14 : s = Order[j] /\ n <= 15 - j
  <2>1. SUFFICES ASSUME NEW s \in Sources, Step("delete", s) \in req.todo
                 PROVE  n <= 14 /\ \E j \in 1 .. 14 : s = Order[j] /\ n <= 15 - j
    OBVIOUS
  <2>2. PICK j \in 1 .. 14 : s = Order[j]
    BY OrderIs DEF Sources, ToSet
  <2>3. 15 - j \in 1 .. 14 /\ 15 - (15 - j) = j
    OBVIOUS
  <2>4. Schedule[15 - j] = Step("delete", s)
    BY <2>2, <2>3, ScheduleIs
  <2>. QED  BY <2>1, <2>2, <2>3, <2>4, <1>2
<1>5. n \in {15, 16, 17, 18, 19, 20} \/ (n \in 1 .. 14 /\ NextStep = Step("delete", Order[15 - n]))
  <2>1. CASE n \in 1 .. 14
    BY <2>1, <1>1, ScheduleIs
  <2>. QED  BY <2>1
<1>6. \A i, j \in 1 .. 14 : Order[i] = Order[j] => i = j
  BY OrderOnce
<1>7. \A i, j \in 1 .. 14 : NextStep = Step("delete", Order[i]) /\ i < j => Step("delete", Order[j]) \notin req.todo
  <2>1. SUFFICES ASSUME NEW i \in 1 .. 14, NEW j \in 1 .. 14, NextStep = Step("delete", Order[i]), i < j,
                        Step("delete", Order[j]) \in req.todo
                 PROVE  FALSE
    OBVIOUS
  <2>2. n <= 14 /\ n <= 15 - j
    <3>1. Order[j] \in Sources
      BY SourcesAre
    <3>2. PICK k \in 1 .. 14 : n <= 14 /\ Order[j] = Order[k] /\ n <= 15 - k
      BY <2>1, <3>1, <1>4
    <3>. QED  BY <3>2, <1>6
  <2>3. Order[15 - n] = Order[i]
    BY <2>1, <2>2, <1>5 DEF Step
  <2>4. 15 - n = i
    BY <2>2, <2>3, <1>6
  <2>. QED  BY <2>1, <2>2, <2>4
<1>8. NextStep.do # "delete" => n > 14
  BY <1>5 DEF Step
<1>9. /\ n = 15 => NextStep.do = "save"
      /\ n = 16 => NextStep.do = "post"
      /\ n = 17 => NextStep.do = "patch" /\ NextStep.on = "row"
      /\ n = 18 => NextStep.do = "patch" /\ NextStep.on = "wfs"
      /\ n = 19 => NextStep.do = "patch" /\ NextStep.on = "wms"
      /\ n = 20 => NextStep.do = "start"
      /\ n <= 14 => NextStep.do = "delete"
  <2>1. ASSUME NEW do, NEW t PROVE Step(do, t).do = do /\ Step(do, t).on = t
    BY DEF Step
  <2>2. n <= 14 => NextStep.do = "delete"
    BY <1>5, <2>1
  <2>3. /\ Schedule[15] = Step("save", "row") /\ Schedule[16] = Step("post", "row")
        /\ Schedule[17] = Step("patch", "row") /\ Schedule[18] = Step("patch", "wfs")
        /\ Schedule[19] = Step("patch", "wms") /\ Schedule[20] = Step("start", "row")
    BY ScheduleIs
  <2>. QED  BY <1>1, <2>1, <2>2, <2>3
<1>10. /\ Step("save", "row") \in req.todo => n <= 15
       /\ Step("post", "row") \in req.todo => n <= 16
       /\ Step("patch", "row") \in req.todo => n <= 17
       /\ Step("patch", "wfs") \in req.todo => n <= 18
       /\ Step("patch", "wms") \in req.todo => n <= 19
  BY <1>2, ScheduleIs
<1>11. n > 14 => \A s \in Sources : Step("delete", s) \notin req.todo
  BY <1>4
<1>12. n = 20 => req.todo = {Step("start", "row")}
  BY <1>3, <1>1, <1>10, <1>11, ScheduleIs DEF AllSteps, Steps
<1>. QED  BY <1>3, <1>5, <1>7, <1>8, <1>9, <1>10, <1>11, <1>12

LEMMA DeletesBackwards ==
    ASSUME req.todo \subseteq AllSteps, req.todo # {}
    PROVE  /\ NextStep = Step("delete", "row") =>
                 \A t \in Sources \ {"row"} : Step("delete", t) \notin req.todo
           /\ \A s \in {"input_file", "input_style", "gdal", "table", "file_data"} :
                 NextStep = Step("delete", s) =>
                    \A t \in {"qgis", "wfs", "wms", "sld", "thumbnail"} : Step("delete", t) \notin req.todo
           /\ NextStep = Step("delete", "input_file") =>
                 Step("delete", "gdal") \notin req.todo /\ Step("delete", "table") \notin req.todo
           /\ NextStep = Step("delete", "qgis") =>
                 \A t \in {"wfs", "wms", "sld", "thumbnail"} : Step("delete", t) \notin req.todo
           /\ NextStep = Step("delete", "wms") =>
                 Step("delete", "sld") \notin req.todo /\ Step("delete", "thumbnail") \notin req.todo
<1>1. \A i, j \in 1 .. 14 : NextStep = Step("delete", Order[i]) /\ i < j => Step("delete", Order[j]) \notin req.todo
  BY StepIs
<1>2. ASSUME NextStep = Step("delete", "row"), NEW t \in Sources \ {"row"}
      PROVE  Step("delete", t) \notin req.todo
  <2>1. PICK j \in 1 .. 14 : t = Order[j]
    BY OrderIs DEF Sources, ToSet
  <2>. QED  BY <1>1, <1>2, <2>1, OrderIs
<1>. QED  BY <1>1, <1>2, OrderIs

-----------------------------------------------------------------------------
(* What each source is of.                                                 *)

MadeTypes(m) ==
    /\ m = [s \in Products |-> m[s]]
    /\ \A s \in {"input_chunk", "input_file"} : m[s] \in {None} \cup InputFiles
    /\ \A s \in {"input_style", "sld"} : m[s] \in {None} \cup Styles
    /\ \A s \in {"gdal", "table"} : m[s] \in {None} \cup Versions
    /\ m["qgis"] \in {None} \cup Projects
    /\ \A s \in {"wfs", "wms"} : m[s] \in {None} \cup Layers
    /\ m["thumbnail"] \in {None} \cup Thumbnails
    /\ m["soap"] \in {None} \cup Records

(* The table and the stores of a layer whose row is r.                     *)
TableOf(r, m) == r.source = "TABLE" \/ m["table"] # None
DbStoreOf(r)  == IF r.source = "TABLE" THEN "external" ELSE "internal"
WmsStoreOf(r) == IF r.geodata = "raster" THEN "coverage" ELSE IF r.style = "qml" THEN "qgis" ELSE DbStoreOf(r)

(* What a task has found there before it made a source is still there.     *)
WfsSound(r, m) ==
    m["wfs"] # None =>
       /\ r # None /\ r.geodata = "vector" /\ r.bbox # NoBbox
       /\ m["wfs"].store = DbStoreOf(r) /\ TableOf(r, m)

WmsSound(r, m) ==
    m["wms"] # None =>
       /\ r # None /\ r.geodata # "unknown" /\ r.bbox # NoBbox
       /\ m["wms"].store = WmsStoreOf(r)
       /\ r.geodata = "raster" => m["gdal"] # None
       /\ r.geodata = "vector" => TableOf(r, m)
       /\ WmsStoreOf(r) = "qgis" => m["qgis"] # None

QgisSound(r, m) ==
    m["qgis"] # None =>
       /\ r # None /\ TableOf(r, m) /\ r.bbox # NoBbox
       /\ m["input_style"] # None /\ m["input_style"].lang = "qml"
       /\ m["qgis"].style = m["input_style"]

OthersSound(r, m) ==
    /\ m["table"] # None \/ m["gdal"] # None => m["input_file"] # None
    /\ m["thumbnail"] # None \/ m["sld"] # None => m["wms"] # None
    /\ m["sld"] # None => m["sld"] = IF m["input_style"] = None THEN GenericStyle ELSE m["input_style"]
    /\ r # None /\ r.source = "TABLE" => r.geodata = "vector"

Sound(r, m) == WfsSound(r, m) /\ WmsSound(r, m) /\ QgisSound(r, m) /\ OthersSound(r, m)

Sane(r, m) == r \in Rows /\ MadeTypes(m) /\ Sound(r, m)

Only(m, S) == \A t \in Products \ S : m[t] = made[t]

LEMMA NoneIs ==
    /\ None \notin Versions /\ None # 0 /\ None \notin InputFiles /\ None \notin Styles /\ None \notin Rows
    /\ None \notin Projects /\ None \notin Layers /\ None \notin Thumbnails /\ None \notin Records
    /\ MaxClock \in Nat \ {0} /\ Versions = 0 .. MaxClock \ {0}
    /\ None # "input_chunk" /\ None # "input_file" /\ None # "qgis" /\ None # "soap"
  BY NoneAssumption, MaxClockAssumption DEF Versions

(* A product that is made anew.                                            *)
LEMMA MakingIs ==
    ASSUME MadeTypes(made), NEW s \in Products, NEW x
    PROVE  LET m == [made EXCEPT ![s] = x] IN
           /\ m = [t \in Products |-> m[t]] /\ m[s] = x /\ Only(m, {s})
  BY DEF MadeTypes, Only

-----------------------------------------------------------------------------
(* What each task leaves, if the layer was sound before.                   *)

LEMMA ChunkTask ==
    ASSUME Sane(row, made), made["gdal"] = None, made["table"] = None,
           NEW state \in RefreshInputChunk \cup {ChunksMerged}
    PROVE  Sane(state.row, state.made) /\ state.row = row /\ Only(state.made, {"input_chunk", "input_file"})
<1> DEFINE m == [made EXCEPT !["input_chunk"] = None, !["input_file"] = made["input_chunk"]]
<1>1. state.row = row /\ state.made = m
  BY DEF RefreshInputChunk, Given, ChunksMerged, State
<1>2. /\ m = [t \in Products |-> m[t]] /\ m["input_chunk"] = None /\ m["input_file"] = made["input_chunk"]
      /\ Only(m, {"input_chunk", "input_file"})
  BY SourcesAre DEF Sane, MadeTypes, Only
<1>3. /\ m["gdal"] = None /\ m["table"] = None /\ m["input_style"] = made["input_style"]
      /\ m["qgis"] = made["qgis"] /\ m["wfs"] = made["wfs"] /\ m["wms"] = made["wms"] /\ m["sld"] = made["sld"]
      /\ m["thumbnail"] = made["thumbnail"] /\ m["soap"] = made["soap"]
  BY <1>2, SourcesAre DEF Only
<1> HIDE DEF m
<1>4. MadeTypes(m)
  BY <1>2, <1>3 DEF Sane, MadeTypes
<1>5. Sound(row, m)
  BY <1>2, <1>3 DEF Sane, Sound, WfsSound, WmsSound, QgisSound, OthersSound, TableOf
<1>. QED  BY <1>1, <1>2, <1>4, <1>5 DEF Sane

LEMMA DataTask ==
    ASSUME Sane(row, made), NEW s \in {"gdal", "table"}, NEW state \in Refresh(s)
    PROVE  Sane(state.row, state.made) /\ state.row = row /\ Only(state.made, {s})
<1>1. CASE state = Unchanged
  BY <1>1 DEF Unchanged, State, Only
<1>2. CASE state = Making(s, made["input_file"].v) /\ made["input_file"] # None
  <2> DEFINE m == [made EXCEPT ![s] = made["input_file"].v]
  <2>1. state.row = row /\ state.made = m
    BY <1>2 DEF Making, State
  <2>2. m = [t \in Products |-> m[t]] /\ m[s] = made["input_file"].v /\ Only(m, {s})
    <3>1. s \in Products /\ MadeTypes(made)
      BY SourcesAre DEF Sane
    <3>. QED  BY <3>1, MakingIs
  <2>3. made["input_file"].v \in Versions
    BY <1>2 DEF Sane, MadeTypes, InputFiles
  <2> HIDE DEF m
  <2>4. /\ s # "gdal" => m["gdal"] = made["gdal"]
        /\ s # "table" => m["table"] = made["table"]
        /\ m["input_chunk"] = made["input_chunk"] /\ m["input_file"] = made["input_file"]
        /\ m["input_style"] = made["input_style"]
        /\ m["qgis"] = made["qgis"] /\ m["wfs"] = made["wfs"] /\ m["wms"] = made["wms"] /\ m["sld"] = made["sld"]
        /\ m["thumbnail"] = made["thumbnail"] /\ m["soap"] = made["soap"]
    BY <2>2, SourcesAre DEF Only
  <2>5. MadeTypes(m)
    BY <2>2, <2>3, <2>4 DEF Sane, MadeTypes
  <2>6. Sound(row, m)
    BY <1>2, <2>2, <2>3, <2>4, NoneIs DEF Sane, Sound, WfsSound, WmsSound, QgisSound, OthersSound, TableOf
  <2>. QED  BY <2>1, <2>2, <2>5, <2>6 DEF Sane
<1>. QED
  BY <1>1, <1>2 DEF Refresh, RefreshGdal, RefreshTable, Given, FileIs

LEMMA FileDataTask ==
    ASSUME Sane(row, made), external \in Versions,
           made["qgis"] = None, made["wfs"] = None, made["wms"] = None,
           NEW state \in RefreshFileData
    PROVE  /\ Sane(state.row, state.made) /\ state.made = made
           /\ state.row.bbox # NoBbox
<1> DEFINE geodata == IF row.geodata # "unknown" THEN row.geodata ELSE GeodataOf(made["input_file"].kind)
           data    == IF row.source = "TABLE" THEN external
                      ELSE IF geodata = "vector" THEN made["table"] ELSE made["gdal"]
<1>1. data # None /\ state.made = made /\ state.row = [row EXCEPT !.geodata = geodata, !.bbox = data]
  BY DEF RefreshFileData, Given, Setting, State
<1>2. data \in Versions
  BY <1>1 DEF Sane, MadeTypes
<1>3. geodata \in {"vector", "raster", "unknown"} /\ (row.geodata = "vector" => geodata = "vector")
  BY DEF Sane, Rows, GeodataOf
<1> HIDE DEF geodata, data
<1>4. /\ state.row \in Rows /\ state.row.bbox = data /\ state.row.geodata = geodata
      /\ state.row.source = row.source
  BY <1>1, <1>2, <1>3, NoneIs DEF Sane, Rows
<1>5. Sound(state.row, made)
  BY <1>1, <1>3, <1>4, NoneIs DEF Sane, Sound, WfsSound, WmsSound, QgisSound, OthersSound
<1>. QED  BY <1>1, <1>2, <1>4, <1>5, NoneIs DEF Sane, NoBbox

LEMMA QgisTask ==
    ASSUME Sane(row, made), NEW state \in SaveQgis
    PROVE  /\ Sane(state.row, state.made) /\ state.row = row /\ Only(state.made, {"qgis"})
<1>1. CASE state = Unchanged
  BY <1>1 DEF Unchanged, State, Only
<1>2. CASE /\ state = Making("qgis", QgisProject)
           /\ HasTable /\ row.bbox # NoBbox /\ Lang(made["input_style"]) = "qml"
  <2> DEFINE m == [made EXCEPT !["qgis"] = QgisProject]
  <2>1. state.row = row /\ state.made = m
    BY <1>2 DEF Making, State
  <2>2. m = [t \in Products |-> m[t]] /\ m["qgis"] = QgisProject /\ Only(m, {"qgis"})
    <3>1. "qgis" \in Products /\ MadeTypes(made)
      BY SourcesAre DEF Sane
    <3>. QED  BY <3>1, MakingIs
  <2>3. made["input_style"] # None /\ made["input_style"] \in Styles /\ made["input_style"].lang = "qml"
    BY <1>2 DEF Sane, MadeTypes, Lang
  <2>4. QgisProject \in Projects /\ QgisProject # None /\ QgisProject.style = made["input_style"]
    BY <1>2, <2>3, NoneIs DEF QgisProject, Projects, Sane, Rows, NoBbox, DbStore
  <2> HIDE DEF m
  <2>5. /\ m["gdal"] = made["gdal"] /\ m["table"] = made["table"]
        /\ m["input_chunk"] = made["input_chunk"] /\ m["input_file"] = made["input_file"]
        /\ m["input_style"] = made["input_style"]
        /\ m["wfs"] = made["wfs"] /\ m["wms"] = made["wms"] /\ m["sld"] = made["sld"]
        /\ m["thumbnail"] = made["thumbnail"] /\ m["soap"] = made["soap"]
    BY <2>2, SourcesAre DEF Only
  <2>6. MadeTypes(m)
    BY <2>2, <2>4, <2>5 DEF Sane, MadeTypes
  <2>7. TableOf(row, m)
    BY <1>2, <2>5 DEF HasTable, TableOf
  <2>8. Sound(row, m)
    BY <1>2, <2>2, <2>3, <2>4, <2>5, <2>7, NoneIs DEF Sane, Sound, WfsSound, WmsSound, QgisSound, OthersSound, TableOf
  <2>. QED  BY <2>1, <2>2, <2>6, <2>8 DEF Sane
<1>. QED
  BY <1>1, <1>2 DEF SaveQgis, Given

(* What is published has the values of the row.                            *)
LEMMA PublishedIs ==
    ASSUME row \in Rows, row.bbox # NoBbox, NEW store \in {"internal", "external", "qgis", "coverage"}
    PROVE  /\ Published(store) \in Layers /\ Published(store) # None
           /\ Published(store).store = store
  BY NoneIs DEF Published, Layers, Rows, NoBbox

LEMMA WfsTask ==
    ASSUME Sane(row, made), NEW state \in RefreshWfs
    PROVE  Sane(state.row, state.made) /\ state.row = row /\ Only(state.made, {"wfs"})
<1>1. CASE state = Unchanged
  BY <1>1 DEF Unchanged, State, Only
<1>2. CASE /\ state = Making("wfs", Published(DbStore))
           /\ row.geodata = "vector" /\ HasTable /\ row.bbox # NoBbox
  <2> DEFINE m == [made EXCEPT !["wfs"] = Published(DbStore)]
  <2>1. state.row = row /\ state.made = m
    BY <1>2 DEF Making, State
  <2>2. m = [t \in Products |-> m[t]] /\ m["wfs"] = Published(DbStore) /\ Only(m, {"wfs"})
    <3>1. "wfs" \in Products /\ MadeTypes(made)
      BY SourcesAre DEF Sane
    <3>. QED  BY <3>1, MakingIs
  <2>3. DbStore = DbStoreOf(row) /\ DbStore \in {"internal", "external"}
    BY DEF DbStore, DbStoreOf
  <2>4. Published(DbStore) \in Layers /\ Published(DbStore) # None /\ Published(DbStore).store = DbStoreOf(row)
    BY <1>2, <2>3, PublishedIs DEF Sane
  <2> HIDE DEF m
  <2>5. /\ m["gdal"] = made["gdal"] /\ m["table"] = made["table"]
        /\ m["input_chunk"] = made["input_chunk"] /\ m["input_file"] = made["input_file"]
        /\ m["input_style"] = made["input_style"]
        /\ m["qgis"] = made["qgis"] /\ m["wms"] = made["wms"] /\ m["sld"] = made["sld"]
        /\ m["thumbnail"] = made["thumbnail"] /\ m["soap"] = made["soap"]
    BY <2>2, SourcesAre DEF Only
  <2>6. MadeTypes(m)
    BY <2>2, <2>4, <2>5 DEF Sane, MadeTypes
  <2>7. TableOf(row, m)
    BY <1>2, <2>5 DEF HasTable, TableOf
  <2>8. Sound(row, m)
    BY <1>2, <2>2, <2>4, <2>5, <2>7, NoneIs DEF Sane, Sound, WfsSound, WmsSound, QgisSound, OthersSound, TableOf
  <2>. QED  BY <2>1, <2>2, <2>6, <2>8 DEF Sane
<1>. QED
  BY <1>1, <1>2 DEF RefreshWfs, Given

LEMMA WmsTask ==
    ASSUME Sane(row, made), NEW state \in RefreshWms
    PROVE  Sane(state.row, state.made) /\ state.row = row /\ Only(state.made, {"wms"})
<1>1. /\ state = Making("wms", Published(WmsStore))
      /\ row.bbox # NoBbox /\ row.geodata # "unknown" /\ made["wms"] = None
      /\ row.geodata = "raster" => made["gdal"] # None
      /\ row.geodata = "vector" => HasTable
      /\ WmsStore = "qgis" => made["qgis"] # None
  BY DEF RefreshWms, Given
<1> DEFINE m == [made EXCEPT !["wms"] = Published(WmsStore)]
<1>2. state.row = row /\ state.made = m
  BY <1>1 DEF Making, State
<1>3. m = [t \in Products |-> m[t]] /\ m["wms"] = Published(WmsStore) /\ Only(m, {"wms"})
  <2>1. "wms" \in Products /\ MadeTypes(made)
    BY SourcesAre DEF Sane
  <2>. QED  BY <2>1, MakingIs
<1>4. WmsStore = WmsStoreOf(row) /\ WmsStore \in {"internal", "external", "qgis", "coverage"}
  BY DEF WmsStore, WmsStoreOf, DbStore, DbStoreOf
<1>5. Published(WmsStore) \in Layers /\ Published(WmsStore) # None /\ Published(WmsStore).store = WmsStoreOf(row)
  BY <1>1, <1>4, PublishedIs DEF Sane
<1> HIDE DEF m
<1>6. /\ m["gdal"] = made["gdal"] /\ m["table"] = made["table"]
      /\ m["input_chunk"] = made["input_chunk"] /\ m["input_file"] = made["input_file"]
      /\ m["input_style"] = made["input_style"]
      /\ m["qgis"] = made["qgis"] /\ m["wfs"] = made["wfs"] /\ m["sld"] = made["sld"]
      /\ m["thumbnail"] = made["thumbnail"] /\ m["soap"] = made["soap"]
  BY <1>3, SourcesAre DEF Only
<1>7. MadeTypes(m)
  BY <1>3, <1>5, <1>6 DEF Sane, MadeTypes
<1>8. HasTable <=> TableOf(row, m)
  BY <1>6 DEF HasTable, TableOf
<1>9. WmsSound(row, m)
  BY <1>1, <1>3, <1>4, <1>5, <1>6, <1>8, NoneIs DEF Sane, WmsSound
<1>10. Sound(row, m)
  BY <1>3, <1>5, <1>6, <1>9 DEF Sane, Sound, WfsSound, QgisSound, OthersSound, TableOf
<1>. QED  BY <1>2, <1>3, <1>7, <1>10 DEF Sane

LEMMA SldTask ==
    ASSUME Sane(row, made), NEW state \in RefreshSld
    PROVE  /\ Sane(state.row, state.made) /\ state.row = row /\ Only(state.made, {"sld", "input_style"})
           /\ made["input_style"] # None => state.made["input_style"] = made["input_style"]
<1>1. CASE state = Unchanged
  BY <1>1 DEF Unchanged, State, Only
<1> DEFINE saved == IF GeneratesStyle THEN LaymanStyle(made["gdal"]) ELSE made["input_style"]
           style == IF saved = None THEN GenericStyle ELSE saved
<1>2. CASE /\ state = State(row, [made EXCEPT !["input_style"] = saved, !["sld"] = style])
           /\ made["sld"] = None /\ made["wms"] # None
  <2> DEFINE m == [made EXCEPT !["input_style"] = saved, !["sld"] = style]
  <2>1. state.row = row /\ state.made = m
    BY <1>2 DEF State
  <2>2. /\ m = [t \in Products |-> m[t]] /\ m["input_style"] = saved /\ m["sld"] = style
        /\ Only(m, {"sld", "input_style"})
    BY SourcesAre DEF Sane, MadeTypes, Only
  <2>3. saved \in {None} \cup Styles /\ style \in Styles /\ style # None
    <3>1. GenericStyle \in Styles
      BY NoneIs DEF GenericStyle, Styles
    <3>2. ASSUME GeneratesStyle PROVE LaymanStyle(made["gdal"]) \in Styles
      <4>1. made["gdal"] \in Versions
        BY <1>2, <3>2 DEF GeneratesStyle, Sane, Sound, WmsSound, MadeTypes
      <4>. QED  BY <4>1, NoneIs DEF LaymanStyle, Styles
    <3>. QED  BY <3>1, <3>2, NoneIs DEF Sane, MadeTypes
  <2>4. made["input_style"] # None => saved = made["input_style"]
    BY DEF GeneratesStyle
  <2> HIDE DEF m, saved
  <2>5. /\ m["gdal"] = made["gdal"] /\ m["table"] = made["table"]
        /\ m["input_chunk"] = made["input_chunk"] /\ m["input_file"] = made["input_file"]
        /\ m["qgis"] = made["qgis"] /\ m["wfs"] = made["wfs"] /\ m["wms"] = made["wms"]
        /\ m["thumbnail"] = made["thumbnail"] /\ m["soap"] = made["soap"]
    BY <2>2, SourcesAre DEF Only
  <2>6. MadeTypes(m)
    BY <2>2, <2>3, <2>5 DEF Sane, MadeTypes
  <2>7. Sound(row, m)
    BY <1>2, <2>2, <2>3, <2>4, <2>5 DEF Sane, Sound, WfsSound, WmsSound, QgisSound, OthersSound, TableOf
  <2>. QED  BY <2>1, <2>2, <2>4, <2>6, <2>7 DEF Sane
<1>. QED
  BY <1>1, <1>2 DEF RefreshSld, Given

(* The status is of no matter for the rest.                                *)
LEMMA StatusTask ==
    ASSUME NEW r, NEW m, Sane(r, m), NEW status \in {"PREPARING", "AVAILABLE", "NOT_AVAILABLE"}
    PROVE  Sane([r EXCEPT !.status = status], m)
<1> DEFINE q == [r EXCEPT !.status = status]
<1>1. q \in Rows /\ q.source = r.source /\ q.geodata = r.geodata /\ q.bbox = r.bbox /\ q.style = r.style
  BY DEF Sane, Rows
<1> HIDE DEF q
<1>2. WfsSound(q, m) /\ WmsSound(q, m) /\ QgisSound(q, m) /\ OthersSound(q, m)
  BY <1>1, NoneIs DEF Sane, Sound, WfsSound, WmsSound, QgisSound, OthersSound, TableOf, DbStoreOf, WmsStoreOf
<1>. QED  BY <1>1, <1>2 DEF Sane, Sound, q

LEMMA DataIs ==
    ASSUME Sane(row, made), external \in Versions
    PROVE  /\ Data \in {None} \cup Versions
           /\ made["wms"] # None => Data \in Versions
  BY NoneIs DEF Sane, MadeTypes, Sound, WmsSound, TableOf, Data, Rows

LEMMA ThumbnailTask ==
    ASSUME Sane(row, made), external \in Versions, NEW state \in MakeThumbnail
    PROVE  Sane(state.row, state.made) /\ state.row = row /\ Only(state.made, {"thumbnail"})
<1> DEFINE x == [data |-> Data, style |-> StyleInUse]
           m == [made EXCEPT !["thumbnail"] = x]
<1>1. state.row = row /\ state.made = m /\ made["wms"] # None
  BY DEF MakeThumbnail, Given, Making, State
<1>2. m = [t \in Products |-> m[t]] /\ m["thumbnail"] = x /\ Only(m, {"thumbnail"})
  <2>1. "thumbnail" \in Products /\ MadeTypes(made)
    BY SourcesAre DEF Sane
  <2>. QED  BY <2>1, MakingIs
<1>3. x \in Thumbnails
  <2>1. StyleInUse \in {None} \cup Styles
    BY DEF StyleInUse, Sane, MadeTypes, Projects
  <2>. QED  BY <1>1, <2>1, DataIs DEF Thumbnails
<1> HIDE DEF m, x
<1>4. /\ m["gdal"] = made["gdal"] /\ m["table"] = made["table"]
      /\ m["input_chunk"] = made["input_chunk"] /\ m["input_file"] = made["input_file"]
      /\ m["input_style"] = made["input_style"] /\ m["soap"] = made["soap"]
      /\ m["qgis"] = made["qgis"] /\ m["wfs"] = made["wfs"] /\ m["wms"] = made["wms"] /\ m["sld"] = made["sld"]
  BY <1>2, SourcesAre DEF Only
<1>5. MadeTypes(m)
  BY <1>2, <1>3, <1>4 DEF Sane, MadeTypes
<1>6. Sound(row, m)
  BY <1>1, <1>4 DEF Sane, Sound, WfsSound, WmsSound, QgisSound, OthersSound, TableOf
<1>. QED  BY <1>1, <1>2, <1>5, <1>6 DEF Sane

(* Records are made and patched from rows with an extent.                  *)
LEMMA RecordIs ==
    ASSUME MadeTypes(made), NEW r \in Rows, r.bbox # NoBbox, NEW refresh
    PROVE  Record(r) \in Records /\ PatchedRecord(r, refresh) \in Records
<1>1. Record(r) \in Records
  <2>1. Record(r) = [prop \in {"title", "extent"} |-> IF prop = "title" THEN r.title ELSE r.bbox]
    BY DEF Record, Props, Value
  <2>2. r.title \in Versions /\ r.bbox \in Versions
    BY NoneIs DEF Rows, NoBbox
  <2>. QED  BY <2>1, <2>2 DEF Records
<1>2. ASSUME made["soap"] # None
      PROVE  [prop \in Props |-> IF prop \in refresh THEN Value(r, prop) ELSE made["soap"][prop]] \in Records
  <2>1. r.title \in Versions /\ r.bbox \in Versions
    BY NoneIs DEF Rows, NoBbox
  <2>2. made["soap"].title \in Versions /\ made["soap"].extent \in Versions
    BY <1>2 DEF MadeTypes, Records
  <2>. QED  BY <2>1, <2>2 DEF Records, Props, Value
<1>. QED  BY <1>1, <1>2 DEF PatchedRecord

(* Any record may be written.                                              *)
LEMMA RecordWritten ==
    ASSUME MadeTypes(made), NEW q \in {None} \cup Rows, Sound(q, made), NEW record \in {None} \cup Records
    PROVE  LET m == [made EXCEPT !["soap"] = record] IN
           MadeTypes(m) /\ Sound(q, m) /\ Only(m, {"soap"}) /\ m["soap"] = record
<1> DEFINE m == [made EXCEPT !["soap"] = record]
<1>1. m = [t \in Products |-> m[t]] /\ m["soap"] = record /\ Only(m, {"soap"})
  <2>1. "soap" \in Products
    BY SourcesAre
  <2>. QED  BY <2>1, MakingIs
<1> HIDE DEF m
<1>3. /\ m["gdal"] = made["gdal"] /\ m["table"] = made["table"]
      /\ m["input_chunk"] = made["input_chunk"] /\ m["input_file"] = made["input_file"]
      /\ m["input_style"] = made["input_style"] /\ m["thumbnail"] = made["thumbnail"]
      /\ m["qgis"] = made["qgis"] /\ m["wfs"] = made["wfs"] /\ m["wms"] = made["wms"] /\ m["sld"] = made["sld"]
  BY <1>1, SourcesAre DEF Only
<1>4. MadeTypes(m)
  BY <1>1, <1>3 DEF MadeTypes
<1>5. Sound(q, m)
  BY <1>3 DEF Sound, WfsSound, WmsSound, QgisSound, OthersSound, TableOf
<1>. QED  BY <1>1, <1>4, <1>5 DEF m

(* A record that is made or patched from a row with an extent.             *)
LEMMA RecordTask ==
    ASSUME MadeTypes(made), NEW q \in {None} \cup Rows, Sound(q, made),
           NEW r \in Rows, r.bbox # NoBbox, NEW refresh
    PROVE  LET m == [made EXCEPT !["soap"] = PatchedRecord(r, refresh)] IN
           MadeTypes(m) /\ Sound(q, m) /\ Only(m, {"soap"}) /\ m["soap"] # None
<1>1. PatchedRecord(r, refresh) \in Records
  BY RecordIs
<1>. QED  BY <1>1, RecordWritten, NoneIs

(* What the task may leave of the record.                                  *)
LEMMA SoapIs ==
    ASSUME NEW state \in RefreshSoap
    PROVE  \/ state = Unchanged /\ made["soap"] # None /\ chain.refresh = {}
           \/ state = Making("soap", Record(row)) /\ row.bbox # NoBbox
           \/ state = Making("soap", PatchedRecord(row, chain.refresh)) /\ row.bbox # NoBbox
  BY DEF RefreshSoap, MadeAnew, HasValues, Given

LEMMA SoapTask ==
    ASSUME Sane(row, made), NEW state \in RefreshSoap
    PROVE  Sane(state.row, state.made) /\ state.row = row /\ Only(state.made, {"soap"})
<1>1. CASE state = Unchanged
  BY <1>1 DEF Unchanged, State, Only
<1>2. ASSUME NEW record, state = Making("soap", record), record \in {None} \cup Records
      PROVE  Sane(state.row, state.made) /\ state.row = row /\ Only(state.made, {"soap"})
  <2>1. state.row = row /\ state.made = [made EXCEPT !["soap"] = record]
    BY <1>2 DEF Making, State
  <2>. QED  BY <1>2, <2>1, RecordWritten DEF Sane
<1>3. row.bbox # NoBbox => Record(row) \in Records /\ PatchedRecord(row, chain.refresh) \in Records
  BY RecordIs DEF Sane
<1>. QED  BY <1>1, <1>2, <1>3, SoapIs

(* A record that is made anew may be lost.                                 *)
LEMMA SoapLost ==
    ASSUME Sane(row, made), NEW state, state = Making("soap", None)
    PROVE  Sane(state.row, state.made) /\ state.row = row /\ Only(state.made, {"soap"})
<1>1. state.row = row /\ state.made = [made EXCEPT !["soap"] = None]
  BY DEF Making, State
<1>. QED  BY <1>1, RecordWritten DEF Sane

(* patch_after_feature_change *)
LEMMA ExtentTask ==
    ASSUME Sane(row, made), external \in Versions,
           NEW state \in Given(row.geodata = "vector" /\ Data # None, Setting([row EXCEPT !.bbox = Data]))
    PROVE  Sane(state.row, state.made) /\ state.made = made /\ state.row.bbox # NoBbox
<1>1. state.made = made /\ state.row = [row EXCEPT !.bbox = Data] /\ Data \in Versions
  BY DataIs DEF Given, Setting, State
<1>2. /\ state.row \in Rows /\ state.row.bbox = Data /\ state.row.geodata = row.geodata
      /\ state.row.source = row.source /\ state.row.style = row.style
  BY <1>1, NoneIs DEF Sane, Rows
<1>3. state.row.bbox # NoBbox
  BY <1>1, <1>2, NoneIs DEF NoBbox
<1>4. Sound(state.row, made)
  BY <1>2, <1>3, NoneIs
     DEF Sane, Sound, WfsSound, WmsSound, QgisSound, OthersSound, TableOf, DbStoreOf, WmsStoreOf
<1>. QED  BY <1>1, <1>2, <1>3, <1>4 DEF Sane

LEMMA ExtendedTask ==
    ASSUME Sane(row, made), NEW s \in {"wfs", "wms"}, NEW store, NEW state \in Extended(s, store)
    PROVE  Sane(state.row, state.made) /\ state.row = row /\ Only(state.made, {s})
<1> DEFINE x == [made[s] EXCEPT !.bbox = row.bbox]
           m == [made EXCEPT ![s] = x]
<1>1. state.row = row /\ state.made = m /\ made[s] # None
  BY DEF Extended, Given, Making, State
<1>2. m = [t \in Products |-> m[t]] /\ m[s] = x /\ Only(m, {s})
  <2>1. s \in Products /\ MadeTypes(made)
    BY SourcesAre DEF Sane
  <2>. QED  BY <2>1, MakingIs
<1>3. x \in Layers /\ x.store = made[s].store
  <2>1. row.bbox \in Versions
    BY <1>1, NoneIs DEF Sane, Sound, WfsSound, WmsSound, Rows, NoBbox
  <2>2. made[s] \in Layers
    BY <1>1 DEF Sane, MadeTypes
  <2>. QED  BY <2>1, <2>2 DEF Layers
<1> HIDE DEF m, x
<1>4. /\ m["gdal"] = made["gdal"] /\ m["table"] = made["table"]
      /\ m["input_chunk"] = made["input_chunk"] /\ m["input_file"] = made["input_file"]
      /\ m["input_style"] = made["input_style"] /\ m["thumbnail"] = made["thumbnail"]
      /\ m["qgis"] = made["qgis"] /\ m["sld"] = made["sld"] /\ m["soap"] = made["soap"]
      /\ s # "wfs" => m["wfs"] = made["wfs"]
      /\ s # "wms" => m["wms"] = made["wms"]
  BY <1>2, SourcesAre DEF Only
<1>5. MadeTypes(m)
  BY <1>2, <1>3, <1>4 DEF Sane, MadeTypes
<1>6. WfsSound(row, m) /\ WmsSound(row, m) /\ QgisSound(row, m) /\ OthersSound(row, m)
  BY <1>1, <1>2, <1>3, <1>4, NoneIs DEF Sane, Sound, WfsSound, WmsSound, QgisSound, OthersSound, TableOf
<1>. QED  BY <1>1, <1>2, <1>5, <1>6 DEF Sane, Sound

-----------------------------------------------------------------------------
(* The invariant.                                                          *)

TypeInv ==
    /\ row \in {None} \cup Rows
    /\ MadeTypes(made)
    /\ external \in Versions
    /\ req \in {None} \cup Requests
    /\ chain \in Chains
    /\ survivor \in {None} \cup SurvivingTasks
    /\ clock \in Versions
    /\ again \in BOOLEAN /\ broken \in BOOLEAN /\ outlived \in BOOLEAN

(* The tasks of a chain that publishes are those from one on...            *)
Closed(tasks) ==
    /\ "input_chunk" \in tasks => "gdal" \in tasks
    /\ "gdal" \in tasks => "table" \in tasks
    /\ "table" \in tasks => "file_data" \in tasks
    /\ "file_data" \in tasks => "qgis" \in tasks
    /\ "qgis" \in tasks => "wfs" \in tasks
    /\ "wfs" \in tasks => "wms" \in tasks
    /\ "wms" \in tasks => "sld" \in tasks
    /\ "sld" \in tasks => "status" \in tasks
    /\ "status" \in tasks => "thumbnail" \in tasks
    /\ "thumbnail" \in tasks => "soap" \in tasks

(* ... and nothing is there of what they will make.                        *)
AheadNone(m, tasks) == \A s \in tasks \cap (Products \ {"input_chunk", "soap"}) : m[s] = None

FeatureTasks == {"file_data", "qgis", "wfs", "wms", "thumbnail", "soap"}

ClosedFeatures(tasks) ==
    /\ "file_data" \in tasks => "qgis" \in tasks
    /\ "qgis" \in tasks => "wfs" \in tasks
    /\ "wfs" \in tasks => "wms" \in tasks
    /\ "wms" \in tasks => "thumbnail" \in tasks
    /\ "thumbnail" \in tasks => "soap" \in tasks

ChainInv ==
    Running =>
      /\ row # None /\ req = None /\ chain.tasks # {}
      /\ chain.how = "publish" => Closed(chain.tasks) /\ AheadNone(made, chain.tasks)
      /\ chain.how = "features" =>
            /\ chain.tasks \subseteq FeatureTasks /\ ClosedFeatures(chain.tasks)
            /\ "file_data" \notin chain.tasks => row.bbox # NoBbox
            /\ chain.refresh = {"extent"} /\ ~chain.whole

Deleting(s) == Step("delete", s) \in req.todo

(* What a client has sent. *)
Sent == {"input_chunk", "input_file", "input_style"}

DataInv ==
    req.data # None =>
      /\ req.data.late => req.data.file # None
      /\ req.data.source = "TABLE" => req.data.geodata = "vector"

PostInv ==
    req.how = "post" =>
      /\ req.todo \subseteq {Step("save", "row"), Step("post", "row"), Step("start", "row")}
      /\ Step("start", "row") \in req.todo
      /\ Step("save", "row") \in req.todo => Step("post", "row") \in req.todo
      /\ Step("post", "row") \in req.todo <=> row = None
      /\ req.data # None /\ req.start \in {"input_file", "input_chunk"}
      /\ survivor = None
      /\ \A s \in Products \ Sent : made[s] = None

(* The source from which PATCH makes the layer again. *)
PatchedFrom == IF req.start = "input_chunk" THEN "input_file" ELSE req.start

PatchInv ==
    req.how = "patch" =>
      /\ row # None /\ req.data # None /\ req.start # None
      /\ Step("start", "row") \in req.todo /\ Step("post", "row") \notin req.todo
      /\ \A s \in Sources : Deleting(s) => PatchedFrom # "soap" /\ s \in From(PatchedFrom) \ {"soap"}
      /\ PatchedFrom = "soap" => Step("save", "row") \notin req.todo
      /\ PatchedFrom # "soap" =>
            /\ Step("patch", "wfs") \notin req.todo /\ Step("patch", "wms") \notin req.todo
            /\ \A s \in (From(PatchedFrom) \cap Products) \ ({"soap"} \cup Sent) : made[s] = None \/ Deleting(s)
      /\ PatchedFrom = "soap" /\ Step("patch", "row") \in req.todo =>
            Step("patch", "wfs") \in req.todo /\ Step("patch", "wms") \in req.todo
      /\ PatchedFrom # "input_file" =>
            /\ req.data.source = "FILE" /\ row.source = "FILE" /\ req.data.geodata = row.geodata
            /\ req.data.file = None

DeleteInv ==
    req.how = "delete" =>
      /\ row # None /\ ~again
      /\ req.todo \subseteq Steps("delete", Sources) /\ Deleting("row")
      /\ \A s \in Products : made[s] = None \/ Deleting(s) \/ (s = "soap" /\ outlived)

ReqInv == req # None => req.todo # {} /\ DataInv /\ PostInv /\ PatchInv /\ DeleteInv

(* The style that was in use is there, or is kept, until it is saved.      *)
KeptInv ==
    req # None /\ req.how = "patch" /\ req.inUse # None /\ Step("save", "row") \in req.todo =>
      \/ ~Deleting("qgis") /\ ~Deleting("sld") /\ req.kept = req.inUse
      \/ Deleting("qgis") /\ made["input_style"] = req.inUse
      \/ /\ Deleting("qgis") /\ made["input_style"] = None
         /\ \/ ~Deleting("sld") /\ req.kept = req.inUse
            \/ Deleting("sld") /\ made["sld"] = req.inUse

QueueInv ==
    /\ again => row # None /\ (req # None \/ Running)
    /\ survivor # None => outlived

IInv == TypeInv /\ Sound(row, made) /\ ChainInv /\ ReqInv /\ KeptInv /\ QueueInv

LEMMA InitInv == Init => IInv
<1> SUFFICES ASSUME Init PROVE IInv
  OBVIOUS
<1>1. 1 \in Versions
  BY NoneIs
<1>2. made = [s \in Products |-> None] /\ row = None /\ req = None /\ chain = NoChain
  BY DEF Init, NothingMade
<1>3. MadeTypes(made)
  BY <1>2, SourcesAre DEF MadeTypes
<1>4. Sound(row, made)
  BY <1>2, SourcesAre DEF Sound, WfsSound, WmsSound, QgisSound, OthersSound
<1>5. NoChain \in Chains /\ NoChain.state # "running"
  BY DEF NoChain, Chains
<1>. QED
  BY <1>1, <1>2, <1>3, <1>4, <1>5 DEF Init, IInv, TypeInv, ChainInv, Running, ReqInv, KeptInv, QueueInv

-----------------------------------------------------------------------------
(* The tasks of chains.                                                    *)

LEMMA RunningIs ==
    ASSUME IInv, Running
    PROVE  /\ Sane(row, made) /\ row # None /\ req = None /\ external \in Versions
           /\ chain \in Chains /\ chain.tasks \subseteq Refreshable /\ chain.tasks # {} /\ Task \in chain.tasks
           /\ chain.how \in {"publish", "features"}
<1>1. /\ Sane(row, made) /\ row # None /\ req = None /\ external \in Versions
      /\ chain \in Chains /\ chain.tasks \subseteq Refreshable /\ chain.tasks # {}
      /\ chain.how \in {"publish", "features"}
  BY DEF IInv, TypeInv, ChainInv, Sane, Chains
<1>. QED  BY <1>1, TaskIs

LEMMA PublishTask ==
    ASSUME IInv, Running, chain.how = "publish", NEW state \in Effects(Task)
    PROVE  /\ Sane(state.row, state.made)
           /\ state # Unchanged => AheadNone(state.made, Left)
<1>1. /\ Closed(chain.tasks) /\ AheadNone(made, chain.tasks)
  BY DEF IInv, ChainInv
<1>2. Left = chain.tasks \ {Task}
  BY DEF Left
<1> DEFINE Fine(changed) ==
      /\ Sane(state.row, state.made) /\ Only(state.made, changed)
      /\ changed \cap (Left \ {"input_chunk", "soap"}) = {}
<1>3. CASE Task = "input_chunk"
  <2>1. state \in RefreshInputChunk \cup {ChunksMerged} \/ state = Unchanged
    BY <1>3 DEF Effects
  <2>2. made["gdal"] = None /\ made["table"] = None
    BY <1>1, <1>3, RunningIs, SourcesAre DEF Closed, AheadNone
  <2>3. state # Unchanged => Fine({"input_chunk", "input_file"})
    BY <1>2, <2>1, <2>2, RunningIs, ChunkTask, SourcesAre
  <2>. QED  BY <1>1, <1>2, <2>1, <2>3, RunningIs, SourcesAre DEF AheadNone, Only, Unchanged, State
<1>4. CASE state = Unchanged
  BY <1>4, RunningIs DEF Unchanged, State
<1>5. CASE Task = "soap" /\ state = Making("soap", None)
  <2>1. Sane(state.row, state.made) /\ Only(state.made, {"soap"})
    BY <1>5, RunningIs, SoapLost
  <2>. QED  BY <1>1, <1>2, <1>5, <2>1, SourcesAre DEF AheadNone, Only
<1>6. CASE /\ Task # "input_chunk" /\ state # Unchanged
           /\ ~(Task = "soap" /\ state = Making("soap", None))
  <2>1. state \in Refresh(Task)
    BY <1>6 DEF Effects, Results
  <2>2. CASE Task \in {"gdal", "table"}
    <3>1. Fine({Task})
      BY <1>2, <2>1, <2>2, RunningIs, DataTask
    <3>. QED  BY <1>1, <1>2, <3>1, SourcesAre DEF AheadNone, Only
  <2>3. CASE Task = "file_data"
    <3>1. made["qgis"] = None /\ made["wfs"] = None /\ made["wms"] = None
      BY <1>1, <2>3, RunningIs, SourcesAre DEF Closed, AheadNone
    <3>2. Sane(state.row, state.made) /\ state.made = made
      BY <2>1, <2>3, <3>1, RunningIs, FileDataTask DEF Refresh
    <3>. QED  BY <1>1, <1>2, <3>2 DEF AheadNone
  <2>4. CASE Task = "qgis"
    <3>1. Fine({"qgis"})
      BY <1>2, <2>1, <2>4, RunningIs, QgisTask DEF Refresh
    <3>. QED  BY <1>1, <1>2, <3>1, SourcesAre DEF AheadNone, Only
  <2>5. CASE Task = "wfs"
    <3>1. Fine({"wfs"})
      BY <1>2, <2>1, <2>5, RunningIs, WfsTask DEF Refresh
    <3>. QED  BY <1>1, <1>2, <3>1, SourcesAre DEF AheadNone, Only
  <2>6. CASE Task = "wms"
    <3>1. Fine({"wms"})
      BY <1>2, <2>1, <2>6, RunningIs, WmsTask DEF Refresh
    <3>. QED  BY <1>1, <1>2, <3>1, SourcesAre DEF AheadNone, Only
  <2>7. CASE Task = "sld"
    <3>1. Sane(state.row, state.made) /\ Only(state.made, {"sld", "input_style"})
      BY <2>1, <2>7, RunningIs, SldTask DEF Refresh
    <3>. QED  BY <1>1, <1>2, <2>7, <3>1, RunningIs, SourcesAre DEF AheadNone, Only
  <2>8. CASE Task = "status"
    <3>1. state.row = [row EXCEPT !.status = "AVAILABLE"] /\ state.made = made
      BY <2>1, <2>8 DEF Refresh, RefreshStatus, Setting, State
    <3>2. Sane([row EXCEPT !.status = "AVAILABLE"], made)
      BY RunningIs, StatusTask
    <3>. QED  BY <1>1, <1>2, <3>1, <3>2 DEF AheadNone
  <2>9. CASE Task = "thumbnail"
    <3>1. Fine({"thumbnail"})
      BY <1>2, <2>1, <2>9, RunningIs, ThumbnailTask DEF Refresh
    <3>. QED  BY <1>1, <1>2, <3>1, SourcesAre DEF AheadNone, Only
  <2>10. CASE Task = "soap"
    <3>1. Sane(state.row, state.made) /\ Only(state.made, {"soap"})
      BY <2>1, <2>10, RunningIs, SoapTask DEF Refresh
    <3>. QED  BY <1>1, <1>2, <3>1, SourcesAre DEF AheadNone, Only
  <2>. QED
    BY <1>6, <2>2, <2>3, <2>4, <2>5, <2>6, <2>7, <2>8, <2>9, <2>10, RunningIs, SourcesAre
<1>. QED  BY <1>3, <1>4, <1>5, <1>6

LEMMA FeatureTask ==
    ASSUME IInv, Running, chain.how = "features", NEW state \in Results(Task)
    PROVE  /\ Sane(state.row, state.made)
           /\ Only(state.made, {"qgis", "wfs", "wms", "thumbnail", "soap"})
           /\ state.row.source = row.source /\ state.row.geodata = row.geodata
           /\ state.row.style = row.style /\ state.row.title = row.title
           /\ state.row.bbox # NoBbox \/ state.row = row
           /\ Task = "file_data" => state.row.bbox # NoBbox
<1>1. chain.tasks \subseteq FeatureTasks
  BY DEF IInv, ChainInv
<1>2. Task \in {"file_data", "qgis", "wfs", "wms", "thumbnail", "soap"}
  BY <1>1, RunningIs DEF FeatureTasks
<1>3. state \in FeaturesChanged(Task)
  BY DEF Results
<1>4. CASE Task = "file_data"
  <2>1. state \in Given(row.geodata = "vector" /\ Data # None, Setting([row EXCEPT !.bbox = Data]))
    BY <1>3, <1>4 DEF FeaturesChanged
  <2>2. state.row = [row EXCEPT !.bbox = Data]
    BY <2>1 DEF Given, Setting, State
  <2>3. /\ state.row.source = row.source /\ state.row.geodata = row.geodata
        /\ state.row.style = row.style /\ state.row.title = row.title
    BY <2>2, RunningIs DEF Sane, Rows
  <2>. QED  BY <2>1, <2>3, RunningIs, ExtentTask DEF Only
<1>5. CASE Task = "qgis"
  BY <1>3, <1>5, RunningIs, QgisTask DEF FeaturesChanged, Only
<1>6. CASE Task = "wfs"
  <2>1. state = Unchanged \/ state \in Extended("wfs", DbStore)
    BY <1>3, <1>6 DEF FeaturesChanged
  <2>2. CASE state = Unchanged
    BY <1>6, <2>2, RunningIs DEF Unchanged, State, Only
  <2>3. CASE state \in Extended("wfs", DbStore)
    BY <1>6, <2>3, RunningIs, ExtendedTask DEF Only
  <2>. QED  BY <2>1, <2>2, <2>3
<1>7. CASE Task = "wms"
  <2>1. state \in Extended("wms", WmsStore)
    BY <1>3, <1>7 DEF FeaturesChanged
  <2>. QED  BY <1>7, <2>1, RunningIs, ExtendedTask DEF Only
<1>8. CASE Task = "thumbnail"
  BY <1>3, <1>8, RunningIs, ThumbnailTask DEF FeaturesChanged, Only
<1>9. CASE Task = "soap"
  BY <1>3, <1>9, RunningIs, SoapTask DEF FeaturesChanged, Only
<1>. QED  BY <1>2, <1>4, <1>5, <1>6, <1>7, <1>8, <1>9

(* The chain after one that has ended.                                     *)
LEMMA QueuedIs ==
    ASSUME NEW finished \in Chains, again \in BOOLEAN
    PROVE  /\ ThenQueued(finished) \in Chains
           /\ ThenQueued(finished) = IF again THEN FeaturesChain ELSE finished
           /\ FeaturesChain \in Chains /\ FeaturesChain.state = "running" /\ FeaturesChain.how = "features"
           /\ FeaturesChain.tasks = FeatureTasks /\ FeaturesChain.tasks # {}
           /\ FeaturesChain.whole = FALSE
<1>1. FeaturesChain \in Chains
  BY SourcesAre DEF FeaturesChain, Chains, Props
<1>2. /\ FeaturesChain.state = "running" /\ FeaturesChain.how = "features"
      /\ FeaturesChain.tasks = FeatureTasks /\ FeaturesChain.tasks # {}
      /\ FeaturesChain.whole = FALSE
  BY DEF FeaturesChain, FeatureTasks
<1>. QED  BY <1>1, <1>2 DEF ThenQueued

(* When no request goes on and no chain publishes.                         *)
LEMMA QuietInv ==
    ASSUME TypeInv', Sound(row, made)', req' = None, again' = FALSE, survivor' # None => outlived',
           \/ chain'.state # "running"
           \/ chain' = FeaturesChain /\ row' # None
    PROVE  IInv'
<1>1. QueueInv'
  BY DEF QueueInv
<1>2. ReqInv' /\ KeptInv'
  BY DEF ReqInv, KeptInv
<1>3. ChainInv'
  <2>1. CASE chain'.state # "running"
    BY <2>1 DEF ChainInv, Running
  <2>2. CASE chain' = FeaturesChain /\ row' # None
    BY <2>2 DEF ChainInv, Running, FeaturesChain, FeatureTasks, ClosedFeatures
  <2>. QED  BY <2>1, <2>2
<1>. QED  BY <1>1, <1>2, <1>3 DEF IInv

LEMMA RunTaskInv == IInv /\ RunTask => IInv'
<1> SUFFICES ASSUME IInv, RunTask PROVE IInv'
  OBVIOUS
<1>1. Running /\ again \in BOOLEAN /\ UNCHANGED <<external, req, clock, survivor, broken, outlived>>
  BY DEF RunTask, IInv, TypeInv
<1>2. PICK state \in Results(Task) : row' = state.row /\ made' = state.made
  BY DEF RunTask
<1>3. /\ chain' = IF Left # {} THEN [chain EXCEPT !.tasks = Left]
                  ELSE ThenQueued([chain EXCEPT !.tasks = {}, !.state = "done"])
      /\ again' = (again /\ Left # {})
  BY DEF RunTask
<1>4. Sane(row', made')
  <2>1. CASE chain.how = "features"
    BY <1>1, <1>2, <2>1, FeatureTask
  <2>2. CASE chain.how = "publish"
    <3>1. Task = "input_chunk" => state \in {ChunksMerged}
      BY <1>2, <2>2 DEF Results, Refresh, RefreshInputChunk, Given
    <3>2. state \in Effects(Task)
      BY <1>2, <3>1 DEF Effects
    <3>. QED  BY <1>1, <1>2, <2>2, <3>2, PublishTask
  <2>. QED  BY <1>1, <2>1, <2>2, RunningIs
<1>5. row' # None /\ Left \subseteq chain.tasks /\ Left \subseteq Refreshable
  BY <1>1, <1>4, NoneIs, RunningIs DEF Sane, Left
<1> DEFINE finished == [chain EXCEPT !.tasks = {}, !.state = "done"]
<1>6. finished \in Chains /\ finished.state = "done" /\ [chain EXCEPT !.tasks = Left] \in Chains
  BY <1>1, <1>5, RunningIs DEF Chains
<1>7. chain' \in Chains /\ again' \in BOOLEAN
  BY <1>1, <1>3, <1>6, QueuedIs
<1>8. TypeInv' /\ Sound(row, made)'
  BY <1>1, <1>4, <1>7 DEF IInv, TypeInv, Sane
<1>9. req' = None /\ (survivor' # None => outlived')
  BY <1>1, RunningIs DEF IInv, QueueInv
<1>10. CASE Left = {}
  <2>1. chain' = IF again THEN FeaturesChain ELSE finished
    BY <1>3, <1>10 DEF ThenQueued
  <2>2. again' = FALSE
    BY <1>3, <1>10
  <2>. QED  BY <1>5, <1>6, <1>8, <1>9, <2>1, <2>2, QuietInv
<1>11. CASE Left # {}
  <2>1. /\ chain' = [chain EXCEPT !.tasks = Left] /\ again' = again
        /\ chain'.tasks = Left /\ chain'.how = chain.how /\ chain'.state = "running"
        /\ chain'.refresh = chain.refresh /\ chain'.whole = chain.whole
    BY <1>1, <1>3, <1>11, RunningIs DEF Chains, Running
  <2>2. ReqInv' /\ KeptInv'
    BY <1>9 DEF ReqInv, KeptInv
  <2>3. QueueInv'
    BY <1>5, <1>9, <2>1 DEF QueueInv, Running
  <2>4. chain.how = "publish" => Closed(Left) /\ AheadNone(made', Left)
    <3>1. SUFFICES ASSUME chain.how = "publish" PROVE Closed(Left) /\ AheadNone(made', Left)
      OBVIOUS
    <3>2. Closed(chain.tasks) /\ AheadNone(made, chain.tasks)
      BY <1>1, <3>1 DEF IInv, ChainInv
    <3>3. Closed(Left)
      BY <1>1, <3>2, RunningIs, TaskIs DEF Closed, Left
    <3>4. state \in Effects(Task)
      <4>1. Task = "input_chunk" => state \in {ChunksMerged}
        BY <1>2, <3>1 DEF Results, Refresh, RefreshInputChunk, Given
      <4>. QED  BY <1>2, <4>1 DEF Effects
    <3>5. CASE state = Unchanged
      BY <1>2, <3>2, <3>3, <3>5, <1>5 DEF AheadNone, Unchanged, State
    <3>. QED  BY <1>1, <1>2, <3>1, <3>3, <3>4, <3>5, PublishTask
  <2>5. chain.how = "features" =>
           /\ Left \subseteq FeatureTasks /\ ("file_data" \notin Left => row'.bbox # NoBbox)
           /\ ClosedFeatures(Left) /\ chain.refresh = {"extent"} /\ ~chain.whole
    <3>1. SUFFICES ASSUME chain.how = "features"
                   PROVE  /\ Left \subseteq FeatureTasks /\ ("file_data" \notin Left => row'.bbox # NoBbox)
                          /\ ClosedFeatures(Left) /\ chain.refresh = {"extent"} /\ ~chain.whole
      OBVIOUS
    <3>2. /\ chain.tasks \subseteq FeatureTasks /\ ("file_data" \notin chain.tasks => row.bbox # NoBbox)
          /\ ClosedFeatures(chain.tasks) /\ chain.refresh = {"extent"} /\ ~chain.whole
      BY <1>1, <3>1 DEF IInv, ChainInv
    <3>3. ClosedFeatures(Left)
      BY <1>1, <3>2, RunningIs, TaskIs DEF ClosedFeatures, Left
    <3>. QED  BY <1>1, <1>2, <1>5, <3>1, <3>2, <3>3, FeatureTask DEF Left
  <2>6. ChainInv'
    BY <1>5, <1>9, <1>11, <2>1, <2>4, <2>5 DEF ChainInv
  <2>. QED  BY <1>8, <2>2, <2>3, <2>6 DEF IInv
<1>. QED  BY <1>10, <1>11

LEMMA EffectIs ==
    ASSUME IInv, Running, NEW state \in Effects(Task)
    PROVE  Sane(state.row, state.made)
<1>1. CASE chain.how = "publish"
  BY <1>1, PublishTask
<1>2. CASE chain.how = "features"
  <2>1. Task \in FeatureTasks
    BY <1>2, RunningIs DEF IInv, ChainInv
  <2>2. state = Unchanged \/ state \in Results(Task)
    BY <1>2, <2>1 DEF Effects, FeatureTasks
  <2>3. CASE state = Unchanged
    BY <2>3, RunningIs DEF Unchanged, State
  <2>. QED  BY <1>2, <2>2, <2>3, FeatureTask
<1>. QED  BY <1>1, <1>2, RunningIs

LEMMA FailTaskInv == IInv /\ FailTask => IInv'
<1> SUFFICES ASSUME IInv, FailTask PROVE IInv'
  OBVIOUS
<1>1. /\ Running /\ again' = FALSE /\ broken' = TRUE
      /\ chain' = [chain EXCEPT !.state = "failed"]
      /\ UNCHANGED <<external, req, clock, survivor, outlived>>
  BY DEF FailTask
<1>2. PICK state \in Effects(Task) : /\ row' = [state.row EXCEPT !.status = StatusAfterFail(state)]
                                     /\ made' = state.made
  BY DEF FailTask
<1>3. Sane(state.row, state.made)
  BY <1>1, EffectIs
<1>4. MadeTypes(made') /\ Sound(row', made') /\ row' \in Rows
  <2>1. StatusAfterFail(state) \in {"PREPARING", "AVAILABLE", "NOT_AVAILABLE"}
    BY DEF StatusAfterFail
  <2>2. Sane([state.row EXCEPT !.status = StatusAfterFail(state)], state.made)
    BY <1>3, <2>1, StatusTask
  <2>. QED  BY <1>2, <2>2 DEF Sane
<1>5. chain' \in Chains /\ chain'.state # "running"
  BY <1>1, RunningIs DEF Chains
<1>6. TypeInv' /\ req' = None /\ (survivor' # None => outlived')
  BY <1>1, <1>4, <1>5, RunningIs DEF IInv, TypeInv, QueueInv
<1>. QED  BY <1>1, <1>4, <1>5, <1>6, QuietInv

LEMMA TransactionInv == IInv /\ Transaction => IInv'
<1> SUFFICES ASSUME IInv, Transaction PROVE IInv'
  OBVIOUS
<1>1. /\ row # None /\ row.geodata = "vector" /\ made["wfs"] # None
      /\ req # None => req.how # "delete"
      /\ clock < MaxClock /\ clock' = clock + 1
      /\ UNCHANGED <<row, req, survivor, broken, outlived>>
  BY DEF Transaction, Tick
<1>2. \/ external' = clock + 1 /\ made' = made
      \/ /\ made["wfs"].store # "external" /\ external' = external
         /\ made' = [made EXCEPT !["table"] = clock + 1]
  BY DEF Transaction
<1>3. \/ (req # None \/ Running) /\ again' = TRUE /\ chain' = chain
      \/ req = None /\ ~Running /\ chain' = FeaturesChain /\ again' = again
  BY DEF Transaction
<1>4. /\ row \in Rows /\ MadeTypes(made) /\ external \in Versions /\ req \in {None} \cup Requests /\ chain \in Chains
      /\ clock \in Versions /\ again \in BOOLEAN /\ Sound(row, made)
      /\ ChainInv /\ ReqInv /\ KeptInv /\ QueueInv
  BY <1>1 DEF IInv, TypeInv
<1>5. clock + 1 \in Versions
  BY <1>1, <1>4, NoneIs DEF Versions
<1>6. /\ made' = [t \in Products |-> made'[t]] /\ \A t \in Products \ {"table"} : made'[t] = made[t]
      /\ made'["table"] \in {None} \cup Versions
      /\ made'["table"] # made["table"] => made["table"] # None /\ made'["table"] # None
      /\ made["table"] # None => made'["table"] # None
  <2>1. CASE made' = made
    BY <1>4, <2>1 DEF MadeTypes
  <2>2. CASE made["wfs"].store # "external" /\ made' = [made EXCEPT !["table"] = clock + 1]
    <3>1. made["table"] # None
      BY <1>1, <1>4, <2>2 DEF Sound, WfsSound, DbStoreOf, TableOf
    <3>. QED  BY <1>4, <1>5, <2>2, <3>1, NoneIs, SourcesAre DEF MadeTypes
  <2>. QED  BY <1>2, <2>1, <2>2
<1>7. /\ made'["gdal"] = made["gdal"] /\ made'["input_chunk"] = made["input_chunk"]
      /\ made'["input_file"] = made["input_file"] /\ made'["input_style"] = made["input_style"]
      /\ made'["qgis"] = made["qgis"] /\ made'["wfs"] = made["wfs"] /\ made'["wms"] = made["wms"]
      /\ made'["sld"] = made["sld"] /\ made'["thumbnail"] = made["thumbnail"] /\ made'["soap"] = made["soap"]
  BY <1>6, SourcesAre
<1>8. MadeTypes(made')
  BY <1>4, <1>6, <1>7 DEF MadeTypes
<1>9. Sound(row', made')
  BY <1>1, <1>4, <1>6, <1>7 DEF Sound, WfsSound, WmsSound, QgisSound, OthersSound, TableOf
<1>10. external' \in Versions /\ chain' \in Chains /\ again' \in BOOLEAN
  BY <1>2, <1>3, <1>4, <1>5, QueuedIs
<1>11. TypeInv'
  BY <1>1, <1>4, <1>5, <1>8, <1>10 DEF IInv, TypeInv
<1>12. survivor' # None => outlived'
  BY <1>1, <1>4 DEF QueueInv
<1>13. CASE req = None /\ ~Running /\ chain' = FeaturesChain /\ again' = again
  <2>1. again' = FALSE
    BY <1>4, <1>13 DEF QueueInv
  <2>. QED  BY <1>1, <1>9, <1>11, <1>12, <1>13, <2>1, QuietInv
<1>14. CASE (req # None \/ Running) /\ again' = TRUE /\ chain' = chain
  <2>1. QueueInv'
    BY <1>1, <1>12, <1>14 DEF QueueInv, Running
  <2>2. KeptInv'
    BY <1>1, <1>4, <1>7 DEF KeptInv, Deleting
  <2>3. ChainInv'
    <3>1. SUFFICES ASSUME Running
                   PROVE  ChainInv'
      BY <1>14 DEF ChainInv, Running
    <3>2. chain.how = "publish" => Closed(chain.tasks) /\ AheadNone(made, chain.tasks)
      BY <1>4, <3>1 DEF ChainInv
    <3>3. chain.how = "publish" => AheadNone(made', chain.tasks)
      <4>1. chain.how = "publish" => "table" \notin chain.tasks
        BY <1>1, <3>2, SourcesAre DEF Closed, AheadNone
      <4>. QED  BY <1>6, <3>2, <4>1 DEF AheadNone
    <3>. QED  BY <1>1, <1>4, <1>14, <3>1, <3>2, <3>3 DEF ChainInv, Running
  <2>4. ReqInv'
    <3>1. SUFFICES ASSUME req # None PROVE ReqInv'
      BY <1>1 DEF ReqInv
    <3>2. req.todo # {} /\ DataInv /\ PostInv /\ PatchInv
      BY <1>4, <3>1 DEF ReqInv
    <3>3. req.how = "patch"
      <4>1. req.how \in {"post", "patch", "delete"}
        BY <1>4, <3>1 DEF Requests
      <4>2. req.how # "post"
        BY <1>1, <3>2, SourcesAre DEF PostInv, Sent
      <4>. QED  BY <1>1, <3>1, <4>1, <4>2
    <3>4. DataInv'
      BY <1>1, <3>2 DEF DataInv
    <3>5. PatchInv'
      <4>1. ASSUME PatchedFrom # "soap",
                   NEW s \in (From(PatchedFrom) \cap Products) \ ({"soap"} \cup Sent)
            PROVE  made'[s] = None \/ Deleting(s)
        BY <1>6, <3>2, <3>3, <4>1 DEF PatchInv
      <4>. QED  BY <1>1, <3>2, <3>3, <4>1 DEF PatchInv, PatchedFrom, Deleting
    <3>. QED  BY <1>1, <3>1, <3>2, <3>3, <3>4, <3>5 DEF ReqInv, PostInv, DeleteInv
  <2>. QED  BY <1>9, <1>11, <2>1, <2>2, <2>3, <2>4 DEF IInv
<1>. QED  BY <1>3, <1>13, <1>14

(* A step of the aborted task, which touches nothing but the record.       *)
LEMMA SurvivorInv ==
    ASSUME IInv, survivor # None, survivor' \in {None} \cup SurvivingTasks,
           UNCHANGED <<row, external, req, chain, again, clock, broken, outlived>>,
           MadeTypes(made'), Sound(row, made'), Only(made', {"soap"})
    PROVE  IInv'
<1>1. \A s \in Products \ {"soap"} : made'[s] = made[s]
  BY DEF Only
<1>2. TypeInv' /\ Sound(row, made)'
  BY DEF IInv, TypeInv
<1>3. ChainInv'
  BY <1>1 DEF IInv, ChainInv, Running, AheadNone
<1>4. outlived /\ QueueInv'
  BY DEF IInv, QueueInv, Running
<1>5. KeptInv'
  BY <1>1, SourcesAre DEF IInv, KeptInv, Deleting
<1>6. ReqInv'
  <2>1. SUFFICES ASSUME req # None PROVE ReqInv'
    BY DEF ReqInv
  <2>2. req.todo # {} /\ DataInv /\ PostInv /\ PatchInv /\ DeleteInv
    BY <2>1 DEF IInv, ReqInv
  <2>3. DataInv' /\ PostInv'
    BY <2>2 DEF DataInv, PostInv
  <2>4. PatchInv'
    BY <1>1, <2>2 DEF PatchInv, PatchedFrom, Deleting
  <2>5. DeleteInv'
    BY <1>1, <1>4, <2>2 DEF DeleteInv, Deleting
  <2>. QED  BY <2>2, <2>3, <2>4, <2>5 DEF ReqInv
<1>. QED  BY <1>2, <1>3, <1>4, <1>5, <1>6 DEF IInv

LEMMA SurvivorWritesInv == IInv /\ SurvivorWrites => IInv'
<1> SUFFICES ASSUME IInv, SurvivorWrites PROVE IInv'
  OBVIOUS
<1>1. /\ survivor # None /\ survivor \in SurvivingTasks /\ MadeTypes(made) /\ Sound(row, made)
      /\ row \in {None} \cup Rows
      /\ UNCHANGED <<row, external, req, chain, again, clock, broken, outlived>>
  BY DEF SurvivorWrites, IInv, TypeInv
<1>2. CASE made["wms"] = None
  <2>1. made' = made /\ survivor' = None
    BY <1>2 DEF SurvivorWrites
  <2>. QED  BY <1>1, <2>1, SurvivorInv DEF Only
<1>3. CASE made["wms"] # None
  <2>1. /\ made' = [made EXCEPT !["soap"] = PatchedRecord(survivor.row, {"extent"})]
        /\ survivor' = [survivor EXCEPT !.wrote = TRUE]
    BY <1>3 DEF SurvivorWrites
  <2>2. survivor.row \in Rows /\ survivor.row.bbox # NoBbox /\ survivor' \in SurvivingTasks
    BY <1>1, <2>1 DEF SurvivingTasks
  <2>3. MadeTypes(made') /\ Sound(row, made') /\ Only(made', {"soap"})
    BY <1>1, <2>1, <2>2, RecordTask
  <2>. QED  BY <1>1, <2>2, <2>3, SurvivorInv
<1>. QED  BY <1>2, <1>3

LEMMA SurvivorChecksInv == IInv /\ SurvivorChecks => IInv'
<1> SUFFICES ASSUME IInv, SurvivorChecks PROVE IInv'
  OBVIOUS
<1>1. /\ survivor # None /\ survivor' = None /\ MadeTypes(made) /\ Sound(row, made)
      /\ UNCHANGED <<row, external, req, chain, again, clock, broken, outlived>>
  BY DEF SurvivorChecks, IInv, TypeInv
<1>2. CASE row # None
  <2>1. made' = made
    BY <1>2 DEF SurvivorChecks
  <2>. QED  BY <1>1, <2>1, SurvivorInv DEF Only
<1>3. CASE row = None
  <2>1. made' = [made EXCEPT !["soap"] = None]
    BY <1>3 DEF SurvivorChecks
  <2>2. made' = [t \in Products |-> made'[t]] /\ made'["soap"] = None /\ Only(made', {"soap"})
    <3>1. "soap" \in Products
      BY SourcesAre
    <3>. QED  BY <1>1, <2>1, <3>1, MakingIs
  <2>3. /\ made'["gdal"] = made["gdal"] /\ made'["table"] = made["table"]
        /\ made'["input_chunk"] = made["input_chunk"] /\ made'["input_file"] = made["input_file"]
        /\ made'["input_style"] = made["input_style"] /\ made'["thumbnail"] = made["thumbnail"]
        /\ made'["qgis"] = made["qgis"] /\ made'["wfs"] = made["wfs"]
        /\ made'["wms"] = made["wms"] /\ made'["sld"] = made["sld"]
    BY <2>2, SourcesAre DEF Only
  <2>4. MadeTypes(made')
    BY <1>1, <2>2, <2>3 DEF MadeTypes
  <2>5. Sound(row, made')
    BY <1>1, <2>3 DEF Sound, WfsSound, WmsSound, QgisSound, OthersSound, TableOf
  <2>. QED  BY <1>1, <2>2, <2>4, <2>5, SurvivorInv
<1>. QED  BY <1>2, <1>3

-----------------------------------------------------------------------------
(* Requests that come.                                                     *)

(* Data and styles that clients send.                                      *)
LEMMA SentIs ==
    ASSUME clock \in Versions, clock < MaxClock
    PROVE  /\ clock + 1 \in Versions
           /\ \A data \in Files(clock + 1) \cup {Table} :
                 data \in Datas /\ data # None /\ (data.late => data.file # None)
                   /\ (data.source = "TABLE" => data.geodata = "vector")
           /\ \A data \in Files(clock + 1) : data.file # None /\ data.source = "FILE"
           /\ SentStyles(clock + 1) \subseteq {None} \cup Styles
<1>1. clock + 1 \in Versions
  BY NoneIs DEF Versions
<1>2. ASSUME NEW data \in Files(clock + 1)
      PROVE  data \in Datas /\ data.file # None /\ data.source = "FILE"
  <2>1. PICK kind \in FileKinds, late \in BOOLEAN, geodata \in {"vector", "raster", "unknown"} :
           data = [source |-> "FILE", file |-> [kind |-> kind, v |-> clock + 1], late |-> late, geodata |-> geodata]
    BY DEF Files, SentFiles
  <2>2. [kind |-> kind, v |-> clock + 1] \in InputFiles
    BY <1>1 DEF InputFiles
  <2>. QED  BY <2>1, <2>2, NoneIs DEF Datas
<1>3. Table \in Datas /\ Table.late = FALSE /\ Table.geodata = "vector"
  BY DEF Table, Datas
<1>4. None \notin Datas
  BY NoneAssumption
<1>5. SentStyles(clock + 1) \subseteq {None} \cup Styles
  BY <1>1, NoneIs DEF SentStyles, UserStyle, Styles
<1>. QED  BY <1>1, <1>2, <1>3, <1>4, <1>5

LEMMA RequestIs ==
    ASSUME clock + 1 \in Versions, row \in {None} \cup Rows, row # None => Sane(row, made),
           NEW how \in {"post", "patch", "delete"}, NEW data \in {None} \cup Datas,
           NEW style \in {None} \cup Styles, NEW todo \in SUBSET AllSteps, NEW refresh \in SUBSET Props,
           NEW start \in {None, "input_chunk", "input_file", "qgis", "soap"}
    PROVE  LET r == Request(how, data, style, todo, refresh, start) IN
           /\ r \in Requests /\ r # None
           /\ r.how = how /\ r.todo = todo /\ r.data = data /\ r.style = style /\ r.kept = None
           /\ r.inUse = (IF row = None THEN None ELSE StyleInUse)
           /\ r.refresh = refresh /\ r.start = start
<1>1. row # None => StyleInUse \in {None} \cup Styles
  BY DEF Sane, MadeTypes, Projects, StyleInUse
<1>2. None \notin Requests /\ ToSet(Schedule) = AllSteps
  BY NoneAssumption, ScheduleIs
<1>3. (IF row = None THEN None ELSE StyleInUse) \in {None} \cup Styles
  BY <1>1
<1>4. Request(how, data, style, todo, refresh, start) \in Requests
  BY <1>2, <1>3 DEF Request, Requests
<1>. QED  BY <1>2, <1>4 DEF Request

LEMMA PostIs == IInv /\ Post => IInv'
<1> SUFFICES ASSUME IInv, Post PROVE IInv'
  OBVIOUS
<1>1. /\ row = None /\ req = None /\ ~Running /\ survivor = None
      /\ clock < MaxClock /\ clock' = clock + 1
      /\ made' = NothingMade /\ chain' = NoChain /\ broken' = FALSE /\ outlived' = FALSE
      /\ UNCHANGED <<row, external, again, survivor>>
  BY DEF Post, Tick
<1>2. clock \in Versions /\ external \in Versions /\ again = FALSE
  BY <1>1 DEF IInv, TypeInv, QueueInv
<1> DEFINE todo == {Step("save", "row"), Step("post", "row"), Step("start", "row")}
<1>3. PICK data \in Files(clock + 1) \cup {Table}, style \in SentStyles(clock + 1) :
         req' = Request("post", data, style, todo, Props, Start(data, "input_file"))
  BY DEF Post
<1>4. clock + 1 \in Versions /\ data \in Datas /\ style \in {None} \cup Styles /\ data # None
      /\ (data.late => data.file # None) /\ (data.source = "TABLE" => data.geodata = "vector")
  BY <1>1, <1>2, <1>3, SentIs
<1>5. Start(data, "input_file") \in {"input_chunk", "input_file"}
  BY DEF Start
<1>6. todo \in SUBSET AllSteps
  BY DEF AllSteps, Steps
<1>7. /\ req' \in Requests /\ req' # None /\ req'.how = "post" /\ req'.todo = todo /\ req'.data = data
      /\ req'.start = Start(data, "input_file")
  BY <1>1, <1>3, <1>4, <1>5, <1>6, RequestIs
<1>8. made' = [s \in Products |-> None]
  BY <1>1 DEF NothingMade
<1>9. MadeTypes(made')
  BY <1>8, SourcesAre DEF MadeTypes
<1>10. Sound(row', made')
  BY <1>1, <1>8, SourcesAre DEF Sound, WfsSound, WmsSound, QgisSound, OthersSound
<1>11. NoChain \in Chains /\ NoChain.state # "running"
  BY DEF NoChain, Chains
<1>12. TypeInv'
  BY <1>1, <1>2, <1>4, <1>7, <1>9, <1>11 DEF TypeInv
<1>13. ChainInv' /\ QueueInv' /\ KeptInv'
  BY <1>1, <1>2, <1>7, <1>11 DEF ChainInv, Running, QueueInv, KeptInv
<1>14. PostInv'
  BY <1>1, <1>4, <1>5, <1>7, <1>8 DEF PostInv
<1>15. ReqInv'
  BY <1>4, <1>7, <1>14 DEF ReqInv, DataInv, PatchInv, DeleteInv
<1>. QED  BY <1>10, <1>12, <1>13, <1>15 DEF IInv

(* What a task that was aborted deletes: nothing has been made from it.    *)
LEMMA UnmadeTask ==
    ASSUME IInv, Running, chain.how = "publish", Task \in Products,
           NEW s, s = IF Task = "input_chunk" THEN "input_file" ELSE Task
    PROVE  LET m == [made EXCEPT ![s] = None] IN MadeTypes(m) /\ Sound(row, m)
<1> DEFINE m == [made EXCEPT ![s] = None]
<1>1. Closed(chain.tasks) /\ AheadNone(made, chain.tasks)
  BY DEF IInv, ChainInv
<1>2. s \in Products /\ Task \in chain.tasks /\ MadeTypes(made) /\ Sound(row, made) /\ row # None
  BY RunningIs, SourcesAre DEF Sane
<1>3. m = [t \in Products |-> m[t]] /\ m[s] = None /\ Only(m, {s})
  BY <1>2, MakingIs
<1> HIDE DEF m
<1>4. \A t \in Products : m[t] = made[t] \/ m[t] = None
  BY <1>3 DEF Only
<1>5. MadeTypes(m)
  BY <1>2, <1>3, <1>4, SourcesAre DEF MadeTypes
<1>6. s \in {"input_file", "gdal", "table", "qgis", "wfs", "wms", "sld", "thumbnail", "soap"}
  BY <1>2, RunningIs, SourcesAre
<1>7. CASE s \in {"input_file", "gdal", "table"}
  <2>1. s = "input_file" => Task = "input_chunk"
    BY <1>7, RunningIs, SourcesAre
  <2>2. /\ made["qgis"] = None /\ made["wfs"] = None /\ made["wms"] = None /\ made["sld"] = None
        /\ made["thumbnail"] = None
        /\ s = "input_file" => made["gdal"] = None /\ made["table"] = None
    BY <1>1, <1>2, <1>7, <2>1, SourcesAre DEF Closed, AheadNone
  <2>3. /\ m["qgis"] = None /\ m["wfs"] = None /\ m["wms"] = None /\ m["sld"] = None /\ m["thumbnail"] = None
        /\ s = "input_file" => m["gdal"] = None /\ m["table"] = None
        /\ s # "input_file" => m["input_file"] = made["input_file"]
        /\ m["gdal"] = made["gdal"] \/ m["gdal"] = None
        /\ m["table"] = made["table"] \/ m["table"] = None
    BY <1>3, <1>4, <2>2, SourcesAre DEF Only
  <2>. QED  BY <1>2, <1>5, <2>3 DEF Sound, WfsSound, WmsSound, QgisSound, OthersSound, m
<1>8. CASE s \in {"qgis", "wfs", "wms"}
  <2>1. /\ made["wms"] = None /\ made["sld"] = None /\ made["thumbnail"] = None
    BY <1>1, <1>2, <1>8, SourcesAre DEF Closed, AheadNone
  <2>2. /\ m["wms"] = None /\ m["sld"] = None /\ m["thumbnail"] = None
        /\ m["qgis"] = None \/ m["qgis"] = made["qgis"]
        /\ m["wfs"] = None \/ m["wfs"] = made["wfs"]
        /\ m["gdal"] = made["gdal"] /\ m["table"] = made["table"] /\ m["input_file"] = made["input_file"]
        /\ m["input_style"] = made["input_style"]
    BY <1>3, <1>4, <1>8, <2>1, SourcesAre DEF Only
  <2>. QED  BY <1>2, <1>5, <2>2 DEF Sound, WfsSound, WmsSound, QgisSound, OthersSound, TableOf, m
<1>9. CASE s \in {"sld", "thumbnail", "soap"}
  <2>1. /\ m["wms"] = made["wms"] /\ m["qgis"] = made["qgis"] /\ m["wfs"] = made["wfs"]
        /\ m["sld"] = None \/ m["sld"] = made["sld"]
        /\ m["thumbnail"] = None \/ m["thumbnail"] = made["thumbnail"]
        /\ m["gdal"] = made["gdal"] /\ m["table"] = made["table"] /\ m["input_file"] = made["input_file"]
        /\ m["input_style"] = made["input_style"]
    BY <1>3, <1>4, <1>9, SourcesAre DEF Only
  <2>. QED  BY <1>2, <1>5, <2>1 DEF Sound, WfsSound, WmsSound, QgisSound, OthersSound, TableOf, m
<1>. QED  BY <1>6, <1>7, <1>8, <1>9

LEMMA AbortIs ==
    ASSUME IInv, row # None, req = None, Abort
    PROVE  /\ Sane(row', made')
           /\ chain' \in Chains /\ chain'.state # "running"
           /\ survivor' \in {None} \cup SurvivingTasks /\ outlived' \in BOOLEAN
           /\ survivor' # None => outlived'
           /\ ~Running \/ chain.how = "features" =>
                 /\ row'.source = row.source /\ row'.geodata = row.geodata /\ row'.style = row.style
                 /\ row'.title = row.title
                 /\ Only(made', {"qgis", "wfs", "wms", "thumbnail", "soap"})
<1>1. /\ chain' = IF Running THEN [chain EXCEPT !.state = "aborted"] ELSE chain
      /\ survivor' \in Survivors
      /\ outlived' = (outlived \/ survivor' # survivor)
  BY DEF Abort
<1>2. PICK state \in Aborting : row' = state.row /\ made' = state.made
  BY DEF Abort
<1>3. /\ Sane(row, made) /\ chain \in Chains /\ survivor \in {None} \cup SurvivingTasks
      /\ outlived \in BOOLEAN /\ (survivor # None => outlived)
  BY DEF IInv, TypeInv, Sane, QueueInv
<1>4. chain' \in Chains /\ chain'.state # "running"
  BY <1>1, <1>3 DEF Chains, Running
<1>5. survivor' \in {None} \cup SurvivingTasks
  <2>1. CASE survivor' = survivor
    BY <1>3, <2>1
  <2>2. CASE Running /\ chain.how = "features" /\ Task = "soap" /\ survivor' = [row |-> row, wrote |-> FALSE]
    <3>1. "file_data" \notin chain.tasks
      BY <2>2, RunningIs, TaskIs
    <3>2. row.bbox # NoBbox
      BY <2>2, <3>1 DEF IInv, ChainInv
    <3>. QED  BY <1>3, <2>2, <3>2 DEF SurvivingTasks, Sane
  <2>. QED  BY <1>1, <2>1, <2>2 DEF Survivors
<1>6. CASE state = Unchanged
  BY <1>1, <1>2, <1>3, <1>4, <1>5, <1>6 DEF Unchanged, State, Only
<1>7. CASE Running /\ state # Unchanged
  <2>1. /\ Task \in chain.tasks /\ chain.how \in {"publish", "features"}
        /\ \/ state \in Results(Task)
           \/ /\ chain.how # "features" /\ Task \in Products
              /\ state = Making(IF Task = "input_chunk" THEN "input_file" ELSE Task, None)
    BY <1>2, <1>7, RunningIs DEF Aborting
  <2>2. CASE chain.how = "features"
    <3>1. state \in Results(Task)
      BY <2>1, <2>2
    <3>. QED  BY <1>1, <1>2, <1>3, <1>4, <1>5, <1>7, <2>2, <3>1, FeatureTask
  <2>3. CASE chain.how = "publish"
    <3>1. CASE state \in Results(Task)
      <4>1. Task = "input_chunk" => state \in {ChunksMerged}
        BY <2>3, <3>1 DEF Results, Refresh, RefreshInputChunk, Given
      <4>2. state \in Effects(Task)
        BY <3>1, <4>1 DEF Effects
      <4>3. Sane(row', made')
        BY <1>2, <1>7, <4>2, EffectIs
      <4>. QED  BY <1>1, <1>3, <1>4, <1>5, <1>7, <2>3, <4>3
    <3>2. CASE /\ Task \in Products
               /\ state = Making(IF Task = "input_chunk" THEN "input_file" ELSE Task, None)
      <4>1. PICK s : s = IF Task = "input_chunk" THEN "input_file" ELSE Task
        OBVIOUS
      <4>2. row' = row /\ made' = [made EXCEPT ![s] = None]
        BY <1>2, <3>2, <4>1 DEF Making, State
      <4>3. Sane(row', made')
        BY <1>3, <1>7, <2>3, <3>2, <4>1, <4>2, UnmadeTask DEF Sane
      <4>. QED  BY <1>1, <1>3, <1>4, <1>5, <1>7, <2>3, <4>3
    <3>. QED  BY <2>1, <3>1, <3>2
  <2>. QED  BY <2>1, <2>2, <2>3
<1>. QED  BY <1>2, <1>6, <1>7 DEF Aborting

LEMMA DeleteIs ==
    ASSUME IInv, Delete
    PROVE  IInv' /\ req' # None /\ req'.how = "delete"
<1>1. /\ row # None /\ req = None /\ clock < MaxClock /\ clock' = clock + 1 /\ Abort
      /\ again' = FALSE
      /\ req' = Request("delete", None, None, Steps("delete", Sources), {}, None)
      /\ UNCHANGED <<external, broken>>
  BY DEF Delete, Tick
<1>2. /\ clock \in Versions /\ external \in Versions /\ broken \in BOOLEAN /\ Sane(row, made)
  BY <1>1 DEF IInv, TypeInv, Sane
<1>3. clock + 1 \in Versions
  BY <1>1, <1>2, SentIs
<1>4. /\ Sane(row', made') /\ chain' \in Chains /\ chain'.state # "running"
      /\ survivor' \in {None} \cup SurvivingTasks /\ outlived' \in BOOLEAN /\ (survivor' # None => outlived')
  BY <1>1, AbortIs
<1>5. /\ req' \in Requests /\ req' # None /\ req'.how = "delete" /\ req'.data = None
      /\ req'.todo = Steps("delete", Sources)
  <2>1. Steps("delete", Sources) \in SUBSET AllSteps
    BY DEF AllSteps
  <2>2. {} \in SUBSET Props /\ None \in {None, "input_chunk", "input_file", "qgis", "soap"}
    OBVIOUS
  <2>3. row \in {None} \cup Rows /\ (row # None => Sane(row, made))
    BY <1>2 DEF Sane
  <2>. QED  BY <1>1, <1>3, <2>1, <2>2, <2>3, RequestIs
<1>6. TypeInv'
  BY <1>1, <1>2, <1>3, <1>4, <1>5 DEF TypeInv, Sane
<1>7. row' # None
  BY <1>4, NoneIs DEF Sane
<1>8. ChainInv' /\ QueueInv' /\ KeptInv' /\ Sound(row, made)'
  BY <1>1, <1>4, <1>5 DEF ChainInv, Running, QueueInv, KeptInv, Sane
<1>9. \A s \in Sources : Step("delete", s) \in req'.todo
  BY <1>5 DEF Steps
<1>10. DeleteInv'
  BY <1>1, <1>5, <1>7, <1>9, SourcesAre DEF DeleteInv, Deleting
<1>11. ReqInv'
  BY <1>5, <1>9, <1>10, SourcesAre DEF ReqInv, DataInv, PostInv, PatchInv
<1>. QED  BY <1>5, <1>6, <1>8, <1>11 DEF IInv

(* The steps of PATCH.                                                     *)
LEMMA StepsOfPatchAre ==
    ASSUME NEW from \in {"input_file", "qgis", "soap"}
    PROVE  /\ StepsOfPatch(from) \in SUBSET AllSteps
           /\ Step("start", "row") \in StepsOfPatch(from) /\ Step("post", "row") \notin StepsOfPatch(from)
           /\ \A s : Step("delete", s) \in StepsOfPatch(from) <=> from # "soap" /\ s \in From(from) \ {"soap"}
           /\ Step("save", "row") \in StepsOfPatch(from) <=> from # "soap"
           /\ Step("patch", "row") \in StepsOfPatch(from)
           /\ from # "soap" =>
                 Step("patch", "wfs") \notin StepsOfPatch(from) /\ Step("patch", "wms") \notin StepsOfPatch(from)
           /\ from = "soap" =>
                 Step("patch", "wfs") \in StepsOfPatch(from) /\ Step("patch", "wms") \in StepsOfPatch(from)
<1>1. From(from) \subseteq Sources
  BY FromIs, SourcesAre
<1>2. Before(from) \cap {"row", "wfs", "wms"} = IF from = "soap" THEN {"row", "wfs", "wms"} ELSE {"row"}
  BY FromIs, SourcesAre DEF Before
<1>3. \A do, s, do2, s2 : Step(do, s) = Step(do2, s2) <=> do = do2 /\ s = s2
  BY DEF Step
<1>. QED  BY <1>1, <1>2, <1>3 DEF StepsOfPatch, AllSteps, Steps

LEMMA PatchIs ==
    ASSUME IInv, Patch
    PROVE  /\ IInv'
           /\ req' # None /\ req'.start \in {"input_chunk", "input_file", "qgis", "soap"}
           /\ req'.refresh = SameOrMissing'
<1> DEFINE same == [source |-> row.source, file |-> None, late |-> FALSE, geodata |-> row.geodata]
<1>1. /\ row # None /\ req = None /\ (Running => chain.how = "features")
      /\ clock < MaxClock /\ clock' = clock + 1 /\ Abort
      /\ again' = (again \/ Running)
      /\ UNCHANGED <<external, broken>>
  BY DEF Patch, Tick
<1>2. PICK data \in Files(clock + 1) \cup {Table, same}, style \in SentStyles(clock + 1) :
         req' = Request("patch", data, style, StepsOfPatch(PatchFrom(data, style)), SameOrMissing',
                        Start(data, PatchFrom(data, style)))
  BY DEF Patch
<1>3. /\ clock \in Versions /\ external \in Versions /\ broken \in BOOLEAN /\ again \in BOOLEAN
      /\ Sane(row, made)
  BY <1>1 DEF IInv, TypeInv, Sane
<1>4. /\ clock + 1 \in Versions /\ style \in {None} \cup Styles
  BY <1>1, <1>2, <1>3, SentIs
<1>5. /\ Sane(row', made') /\ chain' \in Chains /\ chain'.state # "running"
      /\ survivor' \in {None} \cup SurvivingTasks /\ outlived' \in BOOLEAN /\ (survivor' # None => outlived')
      /\ row'.source = row.source /\ row'.geodata = row.geodata
      /\ Only(made', {"qgis", "wfs", "wms", "thumbnail", "soap"})
  BY <1>1, AbortIs
<1>6. /\ same \in Datas /\ same.late = FALSE /\ same.file = None
      /\ same.source = row.source /\ same.geodata = row.geodata
      /\ same.source = "TABLE" => same.geodata = "vector"
  BY <1>1, <1>3 DEF Datas, Sane, Rows, Sound, OthersSound
<1> HIDE DEF same
<1>7. /\ data \in Datas /\ data # None
      /\ data.late => data.file # None
      /\ data.source = "TABLE" => data.geodata = "vector"
      /\ data.source \in {"FILE", "TABLE"}
  <2>1. CASE data = same
    <3>1. None \notin Datas
      BY NoneAssumption
    <3>. QED  BY <1>6, <2>1, <3>1 DEF Datas
  <2>2. CASE data \in Files(clock + 1) \cup {Table}
    BY <1>1, <1>3, <2>2, SentIs DEF Datas
  <2>. QED  BY <1>2, <2>1, <2>2
<1>8. PICK from : from = PatchFrom(data, style)
  OBVIOUS
<1>9. from \in {"input_file", "qgis", "soap"}
  BY <1>8 DEF PatchFrom
<1>10. from # "input_file" =>
          data.source = "FILE" /\ row'.source = "FILE" /\ data.geodata = row'.geodata /\ data.file = None
  <2>1. SUFFICES ASSUME from # "input_file"
                 PROVE  data.source = "FILE" /\ row'.source = "FILE" /\ data.geodata = row'.geodata /\ data.file = None
    OBVIOUS
  <2>2. data.file = None /\ data.source # "TABLE"
    BY <1>8, <2>1 DEF PatchFrom
  <2>3. data \notin Files(clock + 1)
    BY <1>1, <1>3, <2>2, SentIs
  <2>4. data # Table
    BY <2>2 DEF Table
  <2>5. data = same
    BY <1>2, <2>3, <2>4
  <2>. QED  BY <1>5, <1>6, <1>7, <2>2, <2>5
<1>11. PICK start : start = Start(data, from)
  OBVIOUS
<1>12. /\ start \in {"input_chunk", "input_file", "qgis", "soap"}
       /\ from = IF start = "input_chunk" THEN "input_file" ELSE start
  BY <1>7, <1>8, <1>9, <1>10, <1>11 DEF Start
<1>13. /\ req' \in Requests /\ req' # None /\ req'.how = "patch" /\ req'.data = data /\ req'.kept = None
       /\ req'.todo = StepsOfPatch(from) /\ req'.start = start /\ req'.inUse = StyleInUse
       /\ req'.refresh = SameOrMissing'
  <2>1. SameOrMissing' \in SUBSET Props
    BY DEF SameOrMissing
  <2>2. StepsOfPatch(from) \in SUBSET AllSteps
    BY <1>9, StepsOfPatchAre
  <2>3. row \in {None} \cup Rows /\ (row # None => Sane(row, made))
    BY <1>3 DEF Sane
  <2>4. req' = Request("patch", data, style, StepsOfPatch(from), SameOrMissing', start)
    BY <1>2, <1>8, <1>11
  <2>5. start \in {None, "input_chunk", "input_file", "qgis", "soap"}
    BY <1>12
  <2> HIDE DEF Request
  <2>6. PICK props \in SUBSET Props : props = SameOrMissing'
    BY <2>1
  <2>7. req' = Request("patch", data, style, StepsOfPatch(from), props, start)
    BY <2>4, <2>6
  <2>. QED  BY <1>1, <1>4, <1>7, <2>2, <2>3, <2>5, <2>6, <2>7, RequestIs
<1>14. TypeInv'
  BY <1>1, <1>3, <1>4, <1>5, <1>13 DEF TypeInv, Sane
<1>15. row' # None
  BY <1>5, NoneIs DEF Sane
<1>16. ChainInv' /\ QueueInv' /\ Sound(row, made)'
  BY <1>1, <1>5, <1>13, <1>15 DEF ChainInv, Running, QueueInv, Sane
<1>17. PatchedFrom' = from
  BY <1>12, <1>13 DEF PatchedFrom
<1>18. PatchInv'
  <2>1. start # None
    BY <1>12, NoneIs
  <2>2. \A s : Deleting(s)' <=> from # "soap" /\ s \in From(from) \ {"soap"}
    BY <1>9, <1>13, StepsOfPatchAre DEF Deleting
  <2>. QED  BY <1>7, <1>9, <1>10, <1>13, <1>15, <1>17, <2>1, <2>2, StepsOfPatchAre DEF PatchInv
<1>19. ReqInv'
  <2>1. DataInv'
    BY <1>7, <1>13 DEF DataInv
  <2>2. req'.todo # {}
    BY <1>9, <1>13, StepsOfPatchAre
  <2>. QED  BY <1>13, <1>18, <2>1, <2>2 DEF ReqInv, PostInv, DeleteInv
<1>20. KeptInv'
  <2>1. SUFFICES ASSUME StyleInUse # None, Step("save", "row") \in req'.todo
                 PROVE  KeptInv'
    BY <1>13 DEF KeptInv
  <2>2. from # "soap"
    BY <1>9, <1>13, <2>1, StepsOfPatchAre
  <2>3. Deleting("qgis")' /\ Deleting("sld")'
    BY <1>9, <1>13, <2>2, StepsOfPatchAre, FromIs, SourcesAre DEF Deleting
  <2>4. made'["input_style"] = made["input_style"] /\ made'["sld"] = made["sld"]
    BY <1>5, SourcesAre DEF Only
  <2>5. made["input_style"] = StyleInUse \/ (made["input_style"] = None /\ made["sld"] = StyleInUse)
    BY <1>3, <2>1 DEF StyleInUse, Sane, Sound, QgisSound, OthersSound
  <2>. QED  BY <1>13, <2>3, <2>4, <2>5 DEF KeptInv
<1>. QED  BY <1>12, <1>13, <1>14, <1>16, <1>19, <1>20 DEF IInv


-----------------------------------------------------------------------------
(* Steps of requests.                                                      *)

LEMMA DoingIs ==
    ASSUME IInv, req # None
    PROVE  /\ req \in Requests /\ req.how \in {"post", "patch", "delete"}
           /\ req.todo \subseteq AllSteps /\ req.todo # {} /\ NextStep \in req.todo
           /\ NextStep = Step(NextStep.do, On)
           /\ ~Running /\ MadeTypes(made) /\ Sound(row, made) /\ row \in {None} \cup Rows
           /\ DataInv /\ PostInv /\ PatchInv /\ DeleteInv /\ KeptInv /\ QueueInv
           /\ ToSet(Schedule) = AllSteps
<1>1. /\ req \in Requests /\ req.how \in {"post", "patch", "delete"}
      /\ req.todo \subseteq AllSteps /\ req.todo # {}
      /\ ~Running /\ MadeTypes(made) /\ Sound(row, made) /\ row \in {None} \cup Rows
      /\ DataInv /\ PostInv /\ PatchInv /\ DeleteInv /\ KeptInv /\ QueueInv
  BY ScheduleIs DEF IInv, TypeInv, ChainInv, ReqInv, Requests
<1>2. NextStep \in req.todo
  BY <1>1, StepIs
<1>3. NextStep = Step(NextStep.do, On)
  BY <1>1, <1>2 DEF AllSteps, Steps, Step, On
<1>. QED  BY <1>1, <1>2, <1>3, ScheduleIs

(* A request that has steps left after this one.                           *)
LEMMA RemainsIs ==
    ASSUME IInv, req # None, NEW r \in Requests, r.todo = req.todo, req.todo # {NextStep}
    PROVE  /\ Done(r) \in Requests /\ Done(r) # None
           /\ Done(r).todo = req.todo \ {NextStep} /\ Done(r).todo # {}
           /\ Done(r).how = r.how /\ Done(r).data = r.data /\ Done(r).start = r.start
           /\ Done(r).refresh = r.refresh /\ Done(r).kept = r.kept /\ Done(r).inUse = r.inUse /\ Done(r).style = r.style
<1>1. Done(r) = [r EXCEPT !.todo = @ \ {NextStep}]
  BY DEF Done
<1>2. req.todo \ {NextStep} # {} /\ req.todo \subseteq ToSet(Schedule)
  BY DoingIs
<1>3. None \notin Requests
  BY NoneAssumption
<1>. QED  BY <1>1, <1>2, <1>3 DEF Requests

(* When the turn of a source comes, nothing made from it is left.          *)
LEMMA LaterGone ==
    ASSUME IInv, Doing("delete")
    PROVE  /\ req # None /\ req.how \in {"patch", "delete"} /\ On \in Sources /\ NextStep = Step("delete", On)
           /\ row # None
           /\ req.how = "patch" =>
                 /\ PatchedFrom # "soap" /\ On \in From(PatchedFrom) \ {"soap"}
                 /\ PatchedFrom \in {"input_file", "qgis"}
           /\ On \in {"input_file", "input_style", "gdal", "table", "file_data"} =>
                 \A t \in {"qgis", "wfs", "wms", "sld", "thumbnail"} : made[t] = None
           /\ On = "input_file" => made["gdal"] = None /\ made["table"] = None
           /\ On = "qgis" => \A t \in {"wfs", "wms", "sld", "thumbnail"} : made[t] = None
           /\ On = "wms" => made["sld"] = None /\ made["thumbnail"] = None
<1>1. req # None /\ NextStep.do = "delete"
  BY DEF Doing
<1>2. NextStep = Step("delete", On) /\ Deleting(On)
  BY <1>1, DoingIs DEF Deleting
<1>3. On \in Sources
  BY <1>1, <1>2, DoingIs, SourcesAre DEF AllSteps, Steps, Step, Deleting
<1>4. req.how # "post"
  BY <1>1, <1>2, DoingIs DEF PostInv, Step, Deleting
<1>5. req.how \in {"patch", "delete"} /\ row # None
  BY <1>1, <1>4, DoingIs DEF PatchInv, DeleteInv
<1>6. req.how = "patch" =>
        /\ PatchedFrom # "soap" /\ On \in From(PatchedFrom) \ {"soap"}
        /\ PatchedFrom \in {"input_file", "qgis"}
  <2>1. SUFFICES ASSUME req.how = "patch"
                 PROVE  /\ PatchedFrom # "soap" /\ On \in From(PatchedFrom) \ {"soap"}
                        /\ PatchedFrom \in {"input_file", "qgis"}
    OBVIOUS
  <2>2. PatchedFrom # "soap" /\ On \in From(PatchedFrom) \ {"soap"} /\ req.start # None
    BY <1>1, <1>2, <1>3, <2>1, DoingIs DEF PatchInv
  <2>3. req.start \in {"input_chunk", "input_file", "qgis", "soap"}
    BY <1>1, <2>2, DoingIs DEF Requests
  <2>. QED  BY <2>2, <2>3 DEF PatchedFrom
<1>7. ASSUME NEW t \in {"gdal", "table", "qgis", "wfs", "wms", "sld", "thumbnail"},
             req.how = "patch" => t \in From(PatchedFrom), ~Deleting(t)
      PROVE  made[t] = None
  <2>1. t \in (From(PatchedFrom) \cap Products) \ ({"soap"} \cup Sent) \/ req.how # "patch"
    BY <1>7, SourcesAre DEF Sent
  <2>2. t \in Products /\ t # "soap"
    BY SourcesAre
  <2>. QED  BY <1>1, <1>5, <1>6, <1>7, <2>1, <2>2, DoingIs DEF PatchInv, DeleteInv
<1>8. req.how = "patch" =>
        /\ \A t \in {"qgis", "wfs", "wms", "sld", "thumbnail"} : t \in From(PatchedFrom)
        /\ On = "input_file" => \A t \in {"gdal", "table"} : t \in From(PatchedFrom)
  BY <1>6, FromIs, SourcesAre
<1>9. req.todo \subseteq AllSteps /\ req.todo # {}
  BY <1>1, DoingIs
<1>10. On \in {"input_file", "input_style", "gdal", "table", "file_data"} =>
          \A t \in {"qgis", "wfs", "wms", "sld", "thumbnail"} : made[t] = None
  BY <1>2, <1>7, <1>8, <1>9, DeletesBackwards DEF Deleting
<1>11. On = "input_file" => made["gdal"] = None /\ made["table"] = None
  BY <1>2, <1>7, <1>8, <1>9, DeletesBackwards DEF Deleting
<1>12. On = "qgis" => \A t \in {"wfs", "wms", "sld", "thumbnail"} : made[t] = None
  BY <1>2, <1>7, <1>8, <1>9, DeletesBackwards DEF Deleting
<1>13. On = "wms" => made["sld"] = None /\ made["thumbnail"] = None
  BY <1>2, <1>7, <1>8, <1>9, DeletesBackwards DEF Deleting
<1>. QED  BY <1>1, <1>2, <1>3, <1>5, <1>6, <1>10, <1>11, <1>12, <1>13

LEMMA DeletedSound ==
    ASSUME IInv, DeleteSource, On # "row"
    PROVE  /\ Sane(row', made') /\ row'.source = row.source
           /\ On # "file_data" => row' = row
           /\ On \in Products => made'[On] = None
           /\ Only(made', {On})
<1>1. /\ Doing("delete") /\ req # None
      /\ row' = IF On = "file_data"
                THEN [row EXCEPT !.bbox = NoBbox, !.geodata = IF row.source = "FILE" THEN "unknown" ELSE @]
                ELSE row
      /\ made' = IF On \in Products THEN [made EXCEPT ![On] = None] ELSE made
  BY DEF DeleteSource, Doing
<1>2. On \in Sources /\ Sane(row, made) /\ row # None
  BY <1>1, DoingIs, LaterGone DEF Sane
<1>3. made' = [t \in Products |-> made'[t]] /\ Only(made', {On}) /\ (On \in Products => made'[On] = None)
  <2>1. CASE On \in Products
    BY <1>1, <1>2, <2>1, MakingIs DEF Sane
  <2>2. CASE On \notin Products
    BY <1>1, <1>2, <2>2 DEF Sane, MadeTypes, Only
  <2>. QED  BY <2>1, <2>2
<1>4. /\ row' \in Rows /\ row'.source = row.source /\ row'.style = row.style
      /\ On # "file_data" => row' = row
      /\ row'.source = "TABLE" => row'.geodata = row.geodata
  <2>1. 0 \in 0 .. MaxClock /\ row \in Rows
    BY <1>2, NoneIs DEF Sane
  <2> DEFINE unknown == IF row.source = "FILE" THEN "unknown" ELSE row.geodata
  <2>2. unknown \in {"vector", "raster", "unknown"} /\ (row.source = "TABLE" => unknown = row.geodata)
    BY <2>1 DEF Rows
  <2>3. CASE On = "file_data"
    <3>1. row' = [row EXCEPT !.bbox = 0, !.geodata = unknown]
      BY <1>1, <2>3 DEF NoBbox
    <3> HIDE DEF unknown
    <3>. QED  BY <2>1, <2>2, <2>3, <3>1 DEF Rows
  <2>. QED  BY <1>1, <2>1, <2>3 DEF Rows
<1>5. \A t \in Products : made'[t] = None \/ (t # On /\ made'[t] = made[t])
  BY <1>3 DEF Only
<1>6. MadeTypes(made')
  BY <1>2, <1>3, <1>5, SourcesAre DEF Sane, MadeTypes
<1>7. CASE On = "row"
  BY <1>7
<1>8. CASE On \in {"input_file", "input_style", "gdal", "table", "file_data"}
  <2>1. /\ made'["qgis"] = None /\ made'["wfs"] = None /\ made'["wms"] = None
        /\ made'["sld"] = None /\ made'["thumbnail"] = None
        /\ On = "input_file" => made'["gdal"] = None /\ made'["table"] = None
        /\ On # "input_file" => made'["input_file"] = made["input_file"]
        /\ made'["gdal"] = None \/ made'["gdal"] = made["gdal"]
        /\ made'["table"] = None \/ made'["table"] = made["table"]
    BY <1>1, <1>3, <1>5, <1>8, LaterGone, SourcesAre DEF Only
  <2>2. Sound(row', made')
    BY <1>2, <1>4, <2>1 DEF Sane, Sound, WfsSound, WmsSound, QgisSound, OthersSound
  <2>. QED  BY <1>3, <1>4, <1>6, <2>2 DEF Sane
<1>9. CASE On \in {"input_chunk", "qgis", "wfs", "wms", "sld", "status", "thumbnail", "soap"}
  <2>1. /\ made'["gdal"] = made["gdal"] /\ made'["table"] = made["table"] /\ row' = row
        /\ made'["input_file"] = made["input_file"] /\ made'["input_style"] = made["input_style"]
        /\ made'["qgis"] = None \/ made'["qgis"] = made["qgis"]
        /\ made'["wfs"] = None \/ made'["wfs"] = made["wfs"]
        /\ made'["wms"] = None \/ (made'["wms"] = made["wms"] /\ made'["qgis"] = made["qgis"])
        /\ made'["sld"] = None \/ (made'["sld"] = made["sld"] /\ made'["wms"] = made["wms"])
        /\ made'["thumbnail"] = None \/ (made'["thumbnail"] = made["thumbnail"] /\ made'["wms"] = made["wms"])
    BY <1>1, <1>3, <1>4, <1>5, <1>9, LaterGone, SourcesAre DEF Only
  <2>2. Sound(row', made')
    BY <1>2, <2>1 DEF Sane, Sound, WfsSound, WmsSound, QgisSound, OthersSound, TableOf
  <2>. QED  BY <1>3, <1>4, <1>6, <2>2 DEF Sane
<1>. QED  BY <1>2, <1>8, <1>9, SourcesAre


LEMMA DeleteSourceInv == IInv /\ DeleteSource => IInv'
<1> SUFFICES ASSUME IInv, DeleteSource PROVE IInv'
  OBVIOUS
<1> DEFINE r == [req EXCEPT !.kept = Kept(On)]
<1>1. /\ Doing("delete") /\ req # None /\ req' = Done(r)
      /\ UNCHANGED <<external, chain, again, clock, survivor, broken, outlived>>
  BY DEF DeleteSource, Doing
<1>2. Kept(On) \in {None} \cup Styles
  BY <1>1, DoingIs DEF Kept, MadeTypes, Requests
<1>3. /\ r \in Requests /\ r.todo = req.todo /\ r.how = req.how /\ r.data = req.data /\ r.start = req.start
      /\ r.kept = Kept(On) /\ r.inUse = req.inUse
  BY <1>1, <1>2, DoingIs DEF Requests
<1> HIDE DEF r
<1>4. NextStep = Step("delete", On) /\ NextStep \in req.todo /\ req.todo \subseteq AllSteps /\ req.todo # {}
  BY <1>1, LaterGone, DoingIs
<1>5. \A do, s, do2, s2 : Step(do, s) = Step(do2, s2) <=> do = do2 /\ s = s2
  BY DEF Step
<1>6. chain'.state # "running" /\ (survivor' # None => outlived')
  BY <1>1, DoingIs DEF Running, QueueInv
<1>7. CASE On = "row"
  <2>1. req.how = "delete"
    BY <1>1, <1>7, LaterGone, FromIs, SourcesAre
  <2>2. ~again /\ req.todo \subseteq Steps("delete", Sources)
    BY <1>1, <2>1, DoingIs DEF DeleteInv
  <2>3. req.todo = {NextStep}
    BY <1>4, <1>7, <2>2, DeletesBackwards DEF Steps
  <2>4. req' = None
    BY <1>1, <1>3, <2>3 DEF Done
  <2>5. row' = None /\ made' = made
    BY <1>7, SourcesAre DEF DeleteSource
  <2>6. \A t \in Products \ {"soap"} : made[t] = None
    BY <1>1, <1>4, <1>7, <2>1, DoingIs, DeletesBackwards DEF DeleteInv, Deleting, Products
  <2>7. MadeTypes(made') /\ Sound(row', made')
    BY <1>1, <2>5, <2>6, DoingIs, SourcesAre DEF Sound, WfsSound, WmsSound, QgisSound, OthersSound
  <2>8. TypeInv'
    BY <1>1, <2>4, <2>5, <2>7 DEF IInv, TypeInv
  <2>9. again' = FALSE
    BY <1>1, <2>2 DEF IInv, TypeInv
  <2>. QED  BY <1>6, <2>4, <2>7, <2>8, <2>9, QuietInv
<1>8. CASE On # "row"
  <2>1. /\ Sane(row', made') /\ row'.source = row.source
        /\ On # "file_data" => row' = row
        /\ On \in Products => made'[On] = None
        /\ \A t \in Products \ {On} : made'[t] = made[t]
    BY <1>8, DeletedSound DEF Only
  <2>2. req.todo # {NextStep}
    BY <1>1, <1>4, <1>5, <1>8, LaterGone, DoingIs DEF PatchInv, DeleteInv, Deleting
  <2>3. /\ req' \in Requests /\ req' # None /\ req'.todo = req.todo \ {NextStep} /\ req'.todo # {}
        /\ req'.how = req.how /\ req'.data = req.data /\ req'.start = req.start
        /\ req'.kept = Kept(On) /\ req'.inUse = req.inUse
    BY <1>1, <1>3, <2>2, RemainsIs
  <2>4. \A s : Deleting(s)' <=> Deleting(s) /\ s # On
    BY <1>4, <1>5, <2>3 DEF Deleting
  <2>5. \A do, s : do # "delete" => (Step(do, s) \in req'.todo <=> Step(do, s) \in req.todo)
    BY <1>4, <1>5, <2>3
  <2>6. row' # None /\ row # None
    BY <1>1, <2>1, NoneIs, LaterGone DEF Sane
  <2>7. TypeInv' /\ Sound(row, made)'
    BY <1>1, <2>1, <2>3 DEF IInv, TypeInv, Sane
  <2>8. ChainInv' /\ QueueInv'
    BY <1>1, <1>6, <2>3, <2>6 DEF ChainInv, Running, QueueInv
  <2>9. PatchedFrom' = PatchedFrom
    BY <2>3 DEF PatchedFrom
  <2>10. PatchInv'
    <3>1. SUFFICES ASSUME req.how = "patch" PROVE PatchInv'
      BY <2>3 DEF PatchInv
    <3>2. PatchedFrom \in {"input_file", "qgis"} /\ On \in From(PatchedFrom) \ {"soap"}
      BY <1>1, <3>1, LaterGone
    <3>3. PatchedFrom # "input_file" =>
            /\ req.data.source = "FILE" /\ row'.source = "FILE" /\ req.data.geodata = row'.geodata
            /\ req.data.file = None
      BY <1>1, <2>1, <3>1, <3>2, DoingIs, FromIs DEF PatchInv
    <3>4. \A s \in (From(PatchedFrom) \cap Products) \ ({"soap"} \cup Sent) : made'[s] = None \/ Deleting(s)'
      BY <1>1, <2>1, <2>4, <3>1, <3>2, DoingIs DEF PatchInv
    <3>. QED  BY <1>1, <2>3, <2>4, <2>5, <2>6, <2>9, <3>1, <3>2, <3>3, <3>4, DoingIs DEF PatchInv
  <2>11. DeleteInv'
    <3>1. SUFFICES ASSUME req.how = "delete" PROVE DeleteInv'
      BY <2>3 DEF DeleteInv
    <3>2. \A s \in Products : made'[s] = None \/ Deleting(s)' \/ (s = "soap" /\ outlived')
      BY <1>1, <2>1, <2>4, <3>1, DoingIs DEF DeleteInv
    <3>. QED  BY <1>1, <1>8, <2>3, <2>4, <2>6, <3>1, <3>2, DoingIs DEF DeleteInv
  <2>12. KeptInv'
    <3>1. SUFFICES ASSUME req.how = "patch", req.inUse # None, Step("save", "row") \in req.todo
                   PROVE  KeptInv'
      BY <2>3, <2>5 DEF KeptInv
    <3>2. \/ ~Deleting("qgis") /\ ~Deleting("sld") /\ req.kept = req.inUse
          \/ Deleting("qgis") /\ made["input_style"] = req.inUse
          \/ /\ Deleting("qgis") /\ made["input_style"] = None
             /\ \/ ~Deleting("sld") /\ req.kept = req.inUse
                \/ Deleting("sld") /\ made["sld"] = req.inUse
      BY <1>1, <3>1, DoingIs DEF KeptInv
    <3>3. Deleting(On)
      BY <1>4 DEF Deleting
    <3>4. On = "qgis" => ~Deleting("sld")
      BY <1>4, DeletesBackwards DEF Deleting
    <3>5. On = "input_style" => ~Deleting("qgis")
      BY <1>4, DeletesBackwards DEF Deleting
    <3>6. /\ On # "input_style" => made'["input_style"] = made["input_style"]
          /\ On # "sld" => made'["sld"] = made["sld"]
      BY <2>1, SourcesAre
    <3>7. /\ On \notin {"sld", "qgis"} => req'.kept = req.kept
          /\ On = "sld" => req'.kept = IF made["sld"] # None THEN made["sld"] ELSE req.kept
          /\ On = "qgis" => req'.kept = IF made["input_style"] # None THEN made["input_style"] ELSE req.kept
      BY <2>3 DEF Kept
    <3>8. CASE ~Deleting("qgis") /\ ~Deleting("sld") /\ req.kept = req.inUse
      BY <2>3, <2>4, <3>3, <3>7, <3>8 DEF KeptInv
    <3>9. CASE Deleting("qgis") /\ made["input_style"] = req.inUse
      BY <2>3, <2>4, <3>1, <3>3, <3>4, <3>5, <3>6, <3>7, <3>9 DEF KeptInv
    <3>10. CASE /\ Deleting("qgis") /\ made["input_style"] = None
                /\ \/ ~Deleting("sld") /\ req.kept = req.inUse
                   \/ Deleting("sld") /\ made["sld"] = req.inUse
      BY <2>3, <2>4, <3>1, <3>3, <3>4, <3>5, <3>6, <3>7, <3>10 DEF KeptInv
    <3>. QED  BY <3>2, <3>8, <3>9, <3>10
  <2>13. ReqInv'
    <3>1. DataInv'
      BY <1>1, <2>3, DoingIs DEF DataInv
    <3>2. PostInv'
      BY <1>1, <2>3, LaterGone DEF PostInv
    <3>. QED  BY <2>3, <2>10, <2>11, <3>1, <3>2 DEF ReqInv
  <2>. QED  BY <2>7, <2>8, <2>12, <2>13 DEF IInv
<1>. QED  BY <1>7, <1>8

(* What happens when a request raises.                                     *)
LEMMA RaisedInv ==
    ASSUME IInv, req # None, Raised, row' = row, MadeTypes(made'), Sound(row, made')
    PROVE  IInv'
<1>1. /\ req' = None /\ chain' = ThenQueued(chain) /\ again' = FALSE /\ broken' = TRUE
      /\ UNCHANGED <<external, clock, survivor, outlived>>
  BY DEF Raised
<1>2. /\ ~Running /\ chain \in Chains /\ again \in BOOLEAN /\ (again => row # None)
      /\ (survivor # None => outlived)
  BY DoingIs DEF IInv, TypeInv, QueueInv
<1>3. chain' \in Chains /\ chain' = IF again THEN FeaturesChain ELSE chain
  BY <1>1, <1>2, QueuedIs
<1>4. TypeInv'
  BY <1>1, <1>3 DEF IInv, TypeInv
<1>5. chain'.state # "running" \/ (chain' = FeaturesChain /\ row' # None)
  BY <1>2, <1>3 DEF Running
<1>. QED  BY <1>1, <1>2, <1>4, <1>5, QuietInv

LEMMA RaiseInv == IInv /\ Raise => IInv'
<1> SUFFICES ASSUME IInv, Raise PROVE IInv'
  OBVIOUS
<1>1. req # None /\ Raised /\ row' = row /\ made' = made
  BY DEF Raise
<1>. QED  BY <1>1, DoingIs, RaisedInv


(* What is saved is not used by anything that is there.                    *)
LEMMA SavedIs ==
    ASSUME IInv, Doing("save"),
           made' = [t \in Products |-> made'[t]], \A t \in Products \ Sent : made'[t] = made[t],
           made'["input_style"] \in {None} \cup Styles,
           \A t \in {"input_chunk", "input_file"} : made'[t] \in {None} \cup InputFiles,
           made["input_file"] # None => made'["input_file"] # None
    PROVE  /\ MadeTypes(made') /\ Sound(row, made') /\ req.how \in {"post", "patch"}
           /\ req # None /\ NextStep = Step("save", "row") /\ \A s \in Sources : ~Deleting(s)
           /\ req.how = "post" => row = None
           /\ req.how = "patch" => PatchedFrom # "soap" /\ row # None
<1>1. req # None /\ NextStep.do = "save"
  BY DEF Doing
<1>2. NextStep = Step("save", "row") /\ Step("save", "row") \in req.todo
  BY <1>1, DoingIs DEF AllSteps, Steps, Step
<1>3. \A s \in Sources : ~Deleting(s)
  BY <1>1, <1>2, DoingIs, StepIs DEF Deleting
<1>4. req.how \in {"post", "patch"}
  BY <1>1, <1>2, DoingIs DEF DeleteInv, Steps, Step
<1>5. req.how = "post" => row = None
  BY <1>1, <1>2, DoingIs DEF PostInv
<1>6. req.how = "patch" => PatchedFrom \in {"input_file", "qgis"} /\ row # None
  <2>1. SUFFICES ASSUME req.how = "patch" PROVE PatchedFrom \in {"input_file", "qgis"} /\ row # None
    OBVIOUS
  <2>2. PatchedFrom # "soap" /\ req.start # None /\ row # None
    BY <1>1, <1>2, <2>1, DoingIs DEF PatchInv
  <2>3. req.start \in {"input_chunk", "input_file", "qgis", "soap"}
    BY <1>1, <2>2, DoingIs DEF Requests
  <2>. QED  BY <2>2, <2>3 DEF PatchedFrom
<1>7. \A s \in {"qgis", "wfs", "wms", "sld", "thumbnail"} : made[s] = None
  <2>1. ASSUME NEW s \in {"qgis", "wfs", "wms", "sld", "thumbnail"} PROVE made[s] = None
    <3>1. s \in Products \ ({"soap"} \cup Sent) /\ s \in Sources
      BY SourcesAre DEF Sent
    <3>2. CASE req.how = "post"
      BY <1>1, <3>1, <3>2, DoingIs DEF PostInv
    <3>3. CASE req.how = "patch"
      <4>1. s \in (From(PatchedFrom) \cap Products) \ ({"soap"} \cup Sent)
        BY <1>6, <3>1, <3>3, FromIs
      <4>. QED  BY <1>1, <1>3, <1>6, <3>1, <3>3, <4>1, DoingIs DEF PatchInv
    <3>. QED  BY <1>4, <3>2, <3>3
  <2>. QED  BY <2>1
<1>8. /\ made'["gdal"] = made["gdal"] /\ made'["table"] = made["table"] /\ made'["soap"] = made["soap"]
      /\ made'["qgis"] = None /\ made'["wfs"] = None /\ made'["wms"] = None
      /\ made'["sld"] = None /\ made'["thumbnail"] = None
  BY <1>7, SourcesAre DEF Sent
<1>9. MadeTypes(made')
  BY <1>1, <1>8, DoingIs, NoneIs DEF MadeTypes
<1>10. Sound(row, made')
  BY <1>1, <1>8, DoingIs DEF Sound, WfsSound, WmsSound, QgisSound, OthersSound
<1>. QED  BY <1>1, <1>2, <1>3, <1>4, <1>5, <1>6, <1>9, <1>10

LEMMA StyleToSaveIs ==
    ASSUME IInv, req # None
    PROVE  StyleToSave \in {None} \cup Styles
  BY DoingIs DEF StyleToSave, Requests

LEMMA SaveRaisesInv == IInv /\ SaveRaises => IInv'
<1> SUFFICES ASSUME IInv, SaveRaises PROVE IInv'
  OBVIOUS
<1>1. /\ Doing("save") /\ req # None /\ Raised /\ row' = row
      /\ made' = [made EXCEPT !["input_style"] = StyleToSave]
  BY DEF SaveRaises, Doing
<1>2. /\ made' = [t \in Products |-> made'[t]] /\ made'["input_style"] \in {None} \cup Styles
      /\ Only(made', {"input_style"})
  <2>1. "input_style" \in Products /\ MadeTypes(made)
    BY <1>1, SourcesAre, DoingIs
  <2>. QED  BY <1>1, <2>1, MakingIs, StyleToSaveIs
<1>3. /\ \A t \in Products \ Sent : made'[t] = made[t]
      /\ made'["input_chunk"] = made["input_chunk"] /\ made'["input_file"] = made["input_file"]
  BY <1>2, SourcesAre DEF Only, Sent
<1>4. \A t \in {"input_chunk", "input_file"} : made'[t] \in {None} \cup InputFiles
  BY <1>1, <1>3, DoingIs DEF MadeTypes
<1>5. MadeTypes(made') /\ Sound(row, made')
  BY <1>1, <1>2, <1>3, <1>4, SavedIs
<1>. QED  BY <1>1, <1>5, RaisedInv

LEMMA SaveInv == IInv /\ Save => IInv'
<1> SUFFICES ASSUME IInv, Save PROVE IInv'
  OBVIOUS
<1>1. /\ Doing("save") /\ req # None /\ req' = Done(req)
      /\ made' = [made EXCEPT
                  !["input_style"] = StyleToSave,
                  !["input_chunk"] = IF req.data.late THEN req.data.file ELSE @,
                  !["input_file"]  = IF req.data.file = None \/ req.data.late THEN @ ELSE req.data.file]
      /\ row' = IF req.how = "patch" THEN [row EXCEPT !.status = "PREPARING"] ELSE row
      /\ UNCHANGED <<external, chain, again, clock, survivor, broken, outlived>>
  BY DEF Save, Doing
<1>2. /\ made' = [t \in Products |-> made'[t]]
      /\ made'["input_style"] = StyleToSave
      /\ made'["input_chunk"] = IF req.data.late THEN req.data.file ELSE made["input_chunk"]
      /\ made'["input_file"] = IF req.data.file = None \/ req.data.late THEN made["input_file"] ELSE req.data.file
      /\ \A t \in Products \ Sent : made'[t] = made[t]
  BY <1>1, DoingIs, SourcesAre DEF MadeTypes, Sent
<1>3. req.data \in Datas /\ (req.data.late => req.data.file # None) /\ req.data.file \in {None} \cup InputFiles
  <2>1. Step("save", "row") \in req.todo
    BY <1>1, DoingIs DEF AllSteps, Steps, Step, Doing
  <2>2. req.data # None
    BY <1>1, <2>1, DoingIs DEF PostInv, PatchInv, DeleteInv, Steps, Step
  <2>. QED  BY <1>1, <2>2, DoingIs DEF Requests, DataInv, Datas
<1>4. /\ \A t \in {"input_chunk", "input_file"} : made'[t] \in {None} \cup InputFiles
      /\ made["input_file"] # None => made'["input_file"] # None
      /\ made'["input_style"] \in {None} \cup Styles
  BY <1>1, <1>2, <1>3, DoingIs, StyleToSaveIs DEF MadeTypes
<1>5. /\ MadeTypes(made') /\ Sound(row, made') /\ req.how \in {"post", "patch"}
      /\ NextStep = Step("save", "row") /\ \A s \in Sources : ~Deleting(s)
      /\ req.how = "post" => row = None
      /\ req.how = "patch" => PatchedFrom # "soap" /\ row # None
  BY <1>1, <1>2, <1>4, SavedIs
<1>6. /\ row' \in {None} \cup Rows /\ Sound(row', made') /\ (row' = None <=> row = None)
      /\ row # None => row'.source = row.source /\ row'.geodata = row.geodata
  <2>1. CASE req.how = "patch"
    <3>1. row' = [row EXCEPT !.status = "PREPARING"] /\ Sane(row, made') /\ row \in Rows
      BY <1>1, <1>5, <2>1, DoingIs DEF Sane
    <3>2. Sane(row', made')
      BY <3>1, StatusTask
    <3>. QED  BY <1>5, <2>1, <3>1, <3>2, NoneIs DEF Sane, Rows
  <2>2. CASE req.how = "post"
    BY <1>1, <1>5, <2>2, DoingIs
  <2>. QED  BY <1>5, <2>1, <2>2
<1>7. req.todo # {NextStep}
  BY <1>1, <1>5, DoingIs DEF PostInv, PatchInv, Step
<1>8. /\ req' \in Requests /\ req' # None /\ req'.todo = req.todo \ {NextStep} /\ req'.todo # {}
      /\ req'.how = req.how /\ req'.data = req.data /\ req'.start = req.start
  BY <1>1, <1>7, DoingIs, RemainsIs
<1>9. /\ \A do, s : do # "save" => (Step(do, s) \in req'.todo <=> Step(do, s) \in req.todo)
      /\ Step("save", "row") \notin req'.todo
  BY <1>5, <1>8 DEF Step
<1>10. TypeInv' /\ Sound(row, made)'
  BY <1>1, <1>5, <1>6, <1>8 DEF IInv, TypeInv
<1>11. ChainInv' /\ QueueInv' /\ KeptInv'
  BY <1>1, <1>6, <1>8, <1>9, DoingIs DEF ChainInv, Running, QueueInv, KeptInv
<1>12. DataInv' /\ DeleteInv'
  BY <1>1, <1>5, <1>8, DoingIs DEF DataInv, DeleteInv
<1>13. PostInv'
  <2>1. SUFFICES ASSUME req.how = "post" PROVE PostInv'
    BY <1>8 DEF PostInv
  <2>2. /\ req'.todo \subseteq {Step("save", "row"), Step("post", "row"), Step("start", "row")}
        /\ Step("start", "row") \in req'.todo
        /\ Step("post", "row") \in req'.todo <=> row' = None
        /\ req'.start \in {"input_file", "input_chunk"} /\ survivor' = None
    BY <1>1, <1>6, <1>8, <1>9, <2>1, DoingIs DEF PostInv
  <2>3. req'.data # None /\ \A s \in Products \ Sent : made'[s] = None
    BY <1>1, <1>2, <1>8, <2>1, DoingIs DEF PostInv
  <2>. QED  BY <1>9, <2>2, <2>3 DEF PostInv
<1>14. PatchInv'
  <2>1. SUFFICES ASSUME req.how = "patch" PROVE PatchInv'
    BY <1>8 DEF PatchInv
  <2>2. PatchedFrom' = PatchedFrom /\ \A s : Deleting(s)' <=> Deleting(s)
    BY <1>8, <1>9 DEF PatchedFrom, Deleting
  <2>3. \A s \in (From(PatchedFrom) \cap Products) \ ({"soap"} \cup Sent) : made'[s] = made[s]
    BY <1>2
  <2>. QED  BY <1>1, <1>5, <1>6, <1>8, <1>9, <2>1, <2>2, <2>3, DoingIs DEF PatchInv
<1>15. ReqInv'
  BY <1>8, <1>12, <1>13, <1>14 DEF ReqInv
<1>. QED  BY <1>10, <1>11, <1>15 DEF IInv


(* A step that neither deletes nor saves.                                  *)
LEMMA LaterSteps ==
    ASSUME IInv, req # None, NextStep.do \in {"post", "patch", "start"}
    PROVE  /\ \A s \in Sources : ~Deleting(s)
           /\ Step("save", "row") \notin req.todo
           /\ req.how \in {"post", "patch"}
           /\ req.how = "post" => NextStep.do # "patch"
           /\ req.how = "patch" =>
                 /\ row # None /\ NextStep.do # "post"
                 /\ PatchedFrom \in {"input_file", "qgis", "soap"}
                 /\ req.start = "soap" <=> PatchedFrom = "soap"
           /\ NextStep.do = "post" => NextStep = Step("post", "row") /\ row = None
           /\ NextStep.do = "start" => NextStep = Step("start", "row") /\ req.todo = {NextStep} /\ row # None
           /\ NextStep.do # "start" => req.todo # {NextStep}
           /\ req.data # None
<1>1. \A s \in Sources : ~Deleting(s)
  BY DoingIs, StepIs DEF Deleting
<1>2. Step("save", "row") \notin req.todo
  BY DoingIs, StepIs
<1>3. req.how \in {"post", "patch"}
  BY DoingIs DEF DeleteInv, Steps, Step
<1>4. \A do, s, do2, s2 : Step(do, s) = Step(do2, s2) <=> do = do2 /\ s = s2
  BY DEF Step
<1>5. NextStep.do \in {"post", "start"} => NextStep = Step(NextStep.do, "row")
  BY DoingIs DEF AllSteps, Steps, Step
<1>6. req.how = "post" =>
        /\ NextStep.do # "patch"
        /\ NextStep.do = "post" => row = None
        /\ NextStep.do = "start" => row # None
        /\ req.data # None /\ Step("start", "row") \in req.todo
  BY <1>4, <1>5, DoingIs, StepIs DEF PostInv
<1>7. req.how = "patch" =>
        /\ row # None /\ NextStep.do # "post" /\ req.data # None
        /\ Step("start", "row") \in req.todo
        /\ PatchedFrom \in {"input_file", "qgis", "soap"}
        /\ req.start = "soap" <=> PatchedFrom = "soap"
  <2>1. SUFFICES ASSUME req.how = "patch"
                 PROVE  /\ row # None /\ NextStep.do # "post" /\ req.data # None
                        /\ Step("start", "row") \in req.todo
                        /\ PatchedFrom \in {"input_file", "qgis", "soap"}
                        /\ req.start = "soap" <=> PatchedFrom = "soap"
    OBVIOUS
  <2>2. row # None /\ req.data # None /\ Step("start", "row") \in req.todo /\ req.start # None
    BY <2>1, DoingIs DEF PatchInv
  <2>3. NextStep.do # "post"
    BY <1>5, <2>1, DoingIs DEF PatchInv
  <2>4. req.start \in {"input_chunk", "input_file", "qgis", "soap"}
    BY <2>2, DoingIs DEF Requests
  <2>. QED  BY <2>2, <2>3, <2>4 DEF PatchedFrom
<1>8. NextStep.do = "start" => req.todo = {NextStep}
  BY <1>5, DoingIs, StepIs
<1>9. NextStep.do # "start" => req.todo # {NextStep}
  BY <1>3, <1>6, <1>7 DEF Step
<1>. QED  BY <1>1, <1>2, <1>3, <1>5, <1>6, <1>7, <1>8, <1>9

(* A request that goes on with all it had to delete and to save done.      *)
LEMMA GoesOnInv ==
    ASSUME IInv, req # None, NextStep.do \in {"post", "patch"}, req' = Done(req),
           UNCHANGED <<external, chain, again, clock, survivor, broken, outlived>>,
           Sane(row', made'), \A t \in Products \ {"wfs", "wms"} : made'[t] = made[t],
           \A t \in {"wfs", "wms"} : made[t] = None => made'[t] = None,
           NextStep.do = "patch" /\ PatchedFrom # "input_file" =>
               row'.source = row.source /\ row'.geodata = row.geodata
    PROVE  IInv'
<1>1. /\ req.todo # {NextStep} /\ \A s \in Sources : ~Deleting(s)
      /\ Step("save", "row") \notin req.todo /\ req.how \in {"post", "patch"}
      /\ NextStep.do = "post" <=> req.how = "post"
      /\ NextStep.do = "post" => NextStep = Step("post", "row")
  BY LaterSteps
<1>2. /\ req' \in Requests /\ req' # None /\ req'.todo = req.todo \ {NextStep} /\ req'.todo # {}
      /\ req'.how = req.how /\ req'.data = req.data /\ req'.start = req.start
  BY <1>1, DoingIs, RemainsIs
<1>3. row' # None
  BY NoneIs DEF Sane
<1>4. TypeInv' /\ Sound(row, made)'
  BY <1>2 DEF IInv, TypeInv, Sane
<1>5. ChainInv' /\ QueueInv' /\ KeptInv'
  BY <1>1, <1>2, <1>3, DoingIs DEF ChainInv, Running, QueueInv, KeptInv
<1>6. DataInv' /\ DeleteInv'
  BY <1>1, <1>2, DoingIs DEF DataInv, DeleteInv
<1>7. \A t \in Products : made[t] = None => made'[t] = None
  OBVIOUS
<1>8. PostInv'
  <2>1. SUFFICES ASSUME req.how = "post" PROVE PostInv'
    BY <1>2 DEF PostInv
  <2>2. NextStep = Step("post", "row")
    BY <1>1, <2>1
  <2>3. /\ req'.todo \subseteq {Step("save", "row"), Step("post", "row"), Step("start", "row")}
        /\ Step("start", "row") \in req'.todo /\ Step("post", "row") \notin req'.todo
        /\ Step("save", "row") \notin req'.todo
    BY <1>1, <1>2, <2>1, <2>2, DoingIs DEF PostInv, Step
  <2>4. \A s \in Products \ Sent : made[s] = None
    BY <2>1, DoingIs DEF PostInv
  <2>5. \A s \in Products \ Sent : made'[s] = None
    BY <1>7, <2>4
  <2>. QED  BY <1>2, <1>3, <2>1, <2>3, <2>5, DoingIs DEF PostInv
<1>9. PatchInv'
  <2>1. SUFFICES ASSUME req.how = "patch" PROVE PatchInv'
    BY <1>2 DEF PatchInv
  <2>2. PatchedFrom' = PatchedFrom
    BY <1>2 DEF PatchedFrom
  <2>3. NextStep.do = "patch" /\ NextStep # Step("start", "row")
    BY <1>1, <2>1 DEF Step
  <2>4. \A s \in Sources : ~Deleting(s)'
    BY <1>1, <1>2 DEF Deleting
  <2>5. \A s \in (From(PatchedFrom) \cap Products) \ ({"soap"} \cup Sent) : PatchedFrom # "soap" => made'[s] = None
    BY <1>1, <1>7, <2>1, DoingIs DEF PatchInv, Products
  <2>6. PatchedFrom = "soap" /\ Step("patch", "row") \in req'.todo =>
           Step("patch", "wfs") \in req'.todo /\ Step("patch", "wms") \in req'.todo
    <3>1. NextStep = Step("patch", "wfs") \/ NextStep = Step("patch", "wms") => Step("patch", "row") \notin req.todo
      BY DoingIs, StepIs DEF Step
    <3>. QED  BY <1>2, <2>1, <3>1, DoingIs DEF PatchInv
  <2>. QED  BY <1>1, <1>2, <1>3, <2>1, <2>2, <2>3, <2>4, <2>5, <2>6, DoingIs DEF PatchInv
<1>10. ReqInv'
  BY <1>2, <1>6, <1>8, <1>9 DEF ReqInv
<1>. QED  BY <1>4, <1>5, <1>10 DEF IInv


LEMMA PostRowInv == IInv /\ PostRow => IInv'
<1> SUFFICES ASSUME IInv, PostRow PROVE IInv'
  OBVIOUS
<1>1. /\ Doing("post") /\ req # None /\ req' = Done(req) /\ NextStep.do = "post"
      /\ row' = [title |-> req.title, style |-> Lang(made["input_style"]), source |-> req.data.source,
                 geodata |-> req.data.geodata, bbox |-> NoBbox, status |-> "PREPARING"]
      /\ UNCHANGED <<made, external, chain, again, clock, survivor, broken, outlived>>
  BY DEF PostRow, Doing
<1>2. req.data # None /\ req.how = "post"
  BY <1>1, LaterSteps
<1>3. req.data \in Datas /\ req.title \in Versions /\ (req.data.source = "TABLE" => req.data.geodata = "vector")
  BY <1>1, <1>2, DoingIs DEF Requests, DataInv
<1>4. Lang(made["input_style"]) \in {"sld", "qml"}
  BY <1>1, DoingIs DEF MadeTypes, Lang, Styles
<1>5. NoBbox \in 0 .. MaxClock
  BY NoneIs DEF NoBbox
<1>6. row' \in Rows /\ row'.source = req.data.source /\ row'.geodata = req.data.geodata
  BY <1>1, <1>3, <1>4, <1>5 DEF Rows, Datas
<1>7. \A s \in Products \ Sent : made[s] = None
  BY <1>1, <1>2, DoingIs DEF PostInv
<1>8. /\ made["gdal"] = None /\ made["table"] = None /\ made["qgis"] = None /\ made["wfs"] = None
      /\ made["wms"] = None /\ made["sld"] = None /\ made["thumbnail"] = None
  BY <1>7, SourcesAre DEF Sent
<1>9. Sound(row', made)
  BY <1>3, <1>6, <1>8 DEF Sound, WfsSound, WmsSound, QgisSound, OthersSound
<1>10. Sane(row', made')
  BY <1>1, <1>6, <1>9, DoingIs DEF Sane
<1>. QED  BY <1>1, <1>10, GoesOnInv

LEMMA PatchRowInv == IInv /\ PatchRow => IInv'
<1> SUFFICES ASSUME IInv, PatchRow PROVE IInv'
  OBVIOUS
<1> DEFINE style == IF req.start = "soap" THEN row.style ELSE Lang(made["input_style"])
<1>1. /\ Doing("patch") /\ req # None /\ req' = Done(req) /\ NextStep.do = "patch"
      /\ row' = [row EXCEPT !.title = req.title, !.style = style,
                            !.source = req.data.source, !.geodata = req.data.geodata]
      /\ UNCHANGED <<made, external, chain, again, clock, survivor, broken, outlived>>
  BY DEF PatchRow, Doing
<1>2. /\ req.data # None /\ req.how = "patch" /\ row # None
      /\ PatchedFrom \in {"input_file", "qgis", "soap"}
      /\ req.start = "soap" <=> PatchedFrom = "soap"
      /\ \A s \in Sources : ~Deleting(s)
  BY <1>1, LaterSteps
<1>3. /\ req.data \in Datas /\ req.title \in Versions
      /\ req.data.source = "TABLE" => req.data.geodata = "vector"
      /\ PatchedFrom # "input_file" => req.data.source = row.source /\ req.data.geodata = row.geodata
  BY <1>1, <1>2, DoingIs DEF Requests, DataInv, PatchInv
<1>4. row \in Rows /\ Sane(row, made)
  BY <1>1, <1>2, DoingIs DEF Sane
<1>5. style \in {"sld", "qml"} /\ (PatchedFrom = "soap" => style = row.style)
  BY <1>2, <1>4 DEF Sane, MadeTypes, Lang, Styles, Rows
<1> HIDE DEF style
<1>6. /\ row' \in Rows /\ row'.source = req.data.source /\ row'.geodata = req.data.geodata
      /\ row'.style = style /\ row'.bbox = row.bbox
  BY <1>1, <1>3, <1>4, <1>5 DEF Rows, Datas
<1>7. CASE PatchedFrom = "soap"
  <2>1. row'.source = row.source /\ row'.geodata = row.geodata /\ row'.style = row.style
    BY <1>3, <1>5, <1>6, <1>7
  <2>2. Sound(row', made)
    BY <1>4, <1>6, <2>1, NoneIs
       DEF Sane, Sound, WfsSound, WmsSound, QgisSound, OthersSound, TableOf, DbStoreOf, WmsStoreOf
  <2>3. Sane(row', made')
    BY <1>1, <1>4, <1>6, <2>2 DEF Sane
  <2>. QED  BY <1>1, <2>1, <2>3, GoesOnInv
<1>8. CASE PatchedFrom \in {"input_file", "qgis"}
  <2>1. \A s \in (From(PatchedFrom) \cap Products) \ ({"soap"} \cup Sent) : made[s] = None
    BY <1>1, <1>2, <1>8, DoingIs DEF PatchInv, Products
  <2>2. /\ made["qgis"] = None /\ made["wfs"] = None
        /\ made["wms"] = None /\ made["sld"] = None /\ made["thumbnail"] = None
    BY <1>8, <2>1, FromIs, SourcesAre DEF Sent
  <2>3. Sound(row', made)
    BY <1>3, <1>4, <1>6, <2>2 DEF Sane, Sound, WfsSound, WmsSound, QgisSound, OthersSound
  <2>4. Sane(row', made')
    BY <1>1, <1>4, <1>6, <2>3 DEF Sane
  <2>. QED  BY <1>1, <1>3, <1>6, <2>4, GoesOnInv
<1>. QED  BY <1>2, <1>7, <1>8

LEMMA PatchGeoServerInv == IInv /\ PatchGeoServer => IInv'
<1> SUFFICES ASSUME IInv, PatchGeoServer PROVE IInv'
  OBVIOUS
<1>1. /\ Doing("patch") /\ req # None /\ req' = Done(req) /\ NextStep.do = "patch" /\ On \in {"wfs", "wms"}
      /\ made' = IF made[On] = None THEN made ELSE [made EXCEPT ![On].title = row.title]
      /\ UNCHANGED <<row, external, chain, again, clock, survivor, broken, outlived>>
  BY DEF PatchGeoServer, Doing
<1>2. row # None /\ Sane(row, made)
  <2>1. row # None
    BY <1>1, LaterSteps
  <2>. QED  BY <1>1, <2>1, DoingIs DEF Sane
<1>3. CASE made[On] = None
  BY <1>1, <1>2, <1>3, GoesOnInv
<1>4. CASE made[On] # None
  <2> DEFINE x == [made[On] EXCEPT !.title = row.title]
  <2>1. made' = [made EXCEPT ![On] = x]
    BY <1>1, <1>4
  <2>2. x \in Layers /\ x.store = made[On].store /\ x # None
    <3>1. made[On] \in Layers /\ row.title \in Versions
      BY <1>1, <1>2, <1>4 DEF Sane, MadeTypes, Rows
    <3>. QED  BY <3>1, NoneIs DEF Layers
  <2> HIDE DEF x
  <2>3. made' = [t \in Products |-> made'[t]] /\ made'[On] = x /\ Only(made', {On})
    <3>1. On \in Products
      BY <1>1, SourcesAre
    <3>. QED  BY <1>2, <2>1, <3>1, MakingIs DEF Sane
  <2>4. /\ made'["gdal"] = made["gdal"] /\ made'["table"] = made["table"]
        /\ made'["input_chunk"] = made["input_chunk"] /\ made'["input_file"] = made["input_file"]
        /\ made'["input_style"] = made["input_style"] /\ made'["thumbnail"] = made["thumbnail"]
        /\ made'["qgis"] = made["qgis"] /\ made'["sld"] = made["sld"] /\ made'["soap"] = made["soap"]
        /\ On # "wfs" => made'["wfs"] = made["wfs"]
        /\ On # "wms" => made'["wms"] = made["wms"]
    BY <1>1, <2>3, SourcesAre DEF Only
  <2>5. MadeTypes(made')
    BY <1>1, <1>2, <2>2, <2>3, <2>4 DEF Sane, MadeTypes
  <2>6. Sound(row', made')
    BY <1>1, <1>2, <1>4, <2>2, <2>3, <2>4 DEF Sane, Sound, WfsSound, WmsSound, QgisSound, OthersSound, TableOf
  <2>7. Sane(row', made')
    BY <1>1, <1>2, <2>5, <2>6 DEF Sane
  <2>8. \A t \in Products \ {"wfs", "wms"} : made'[t] = made[t]
    BY <1>1, <2>3 DEF Only
  <2>9. \A t \in {"wfs", "wms"} : made[t] = None => made'[t] = None
    BY <1>1, <1>4, <2>4
  <2>. QED  BY <1>1, <2>7, <2>8, <2>9, GoesOnInv
<1>. QED  BY <1>3, <1>4

(* Nothing is left of what the chain that starts will make.                *)
LEMMA StartsWhole ==
    ASSUME IInv, Doing("start")
    PROVE  LET tasks == From(req.start) \cap Refreshable IN
           /\ Closed(tasks) /\ AheadNone(made, tasks) /\ tasks # {} /\ tasks \subseteq Refreshable
           /\ req.start \in {"input_chunk", "input_file", "qgis", "soap"}
<1> DEFINE tasks == From(req.start) \cap Refreshable
<1>1. req # None /\ NextStep.do = "start"
  BY DEF Doing
<1>2. req.start \in {"input_chunk", "input_file", "qgis", "soap"}
  <2>1. req.start # None
    BY <1>1, LaterSteps, DoingIs, NoneIs DEF PostInv, PatchInv
  <2>. QED  BY <1>1, <2>1, DoingIs DEF Requests
<1>3. Closed(tasks) /\ tasks # {} /\ tasks \subseteq Refreshable
  BY <1>2, FromIs, SourcesAre DEF Closed
<1>4. AheadNone(made, tasks)
  <2>1. SUFFICES ASSUME NEW s \in tasks \cap (Products \ {"input_chunk", "soap"}) PROVE made[s] = None
    BY DEF AheadNone
  <2>2. s \in (Products \ ({"soap"} \cup Sent)) /\ s \in Sources
    BY <1>3, <2>1, SourcesAre DEF Sent
  <2>3. CASE req.how = "post"
    BY <1>1, <2>2, <2>3, DoingIs DEF PostInv
  <2>4. CASE req.how = "patch"
    <3>1. PatchedFrom # "soap" /\ s \in From(PatchedFrom)
      BY <1>2, <2>1, <2>2, FromIs, SourcesAre DEF PatchedFrom, Sent
    <3>. QED  BY <1>1, <2>2, <2>4, <3>1, DoingIs, LaterSteps DEF PatchInv
  <2>. QED  BY <1>1, <2>3, <2>4, LaterSteps
<1>. QED  BY <1>2, <1>3, <1>4

LEMMA StartChainInv == IInv /\ StartChain => IInv'
<1> SUFFICES ASSUME IInv, StartChain PROVE IInv'
  OBVIOUS
<1>1. /\ Doing("start") /\ req # None /\ NextStep.do = "start" /\ req' = Done(req)
      /\ chain' = PublishingChain("publish", req.start, req.refresh)
      /\ UNCHANGED <<row, made, external, again, clock, survivor, broken, outlived>>
  BY DEF StartChain, Doing
<1>2. req' = None /\ row # None
  BY <1>1, LaterSteps DEF Done
<1> DEFINE tasks == From(req.start) \cap Refreshable
<1>3. /\ Closed(tasks) /\ AheadNone(made, tasks) /\ tasks # {} /\ tasks \subseteq Refreshable
      /\ req.start \in {"input_chunk", "input_file", "qgis", "soap"}
  BY <1>1, StartsWhole
<1>4. /\ chain' \in Chains /\ chain'.tasks = tasks /\ chain'.how = "publish" /\ chain'.state = "running"
  <2>1. req.refresh \in SUBSET Props
    BY <1>1, DoingIs DEF Requests
  <2>. QED  BY <1>1, <1>3, <2>1 DEF PublishingChain, Chains
<1> HIDE DEF tasks
<1>5. TypeInv' /\ Sound(row, made)'
  BY <1>1, <1>2, <1>4 DEF IInv, TypeInv
<1>6. ChainInv'
  BY <1>1, <1>2, <1>3, <1>4 DEF ChainInv
<1>7. QueueInv' /\ ReqInv' /\ KeptInv'
  BY <1>1, <1>2, <1>4, DoingIs DEF QueueInv, Running, ReqInv, KeptInv
<1>. QED  BY <1>5, <1>6, <1>7 DEF IInv


LEMMA NextInv == IInv /\ [Next]_vars => IInv'
<1> SUFFICES ASSUME IInv, [Next]_vars PROVE IInv'
  OBVIOUS
<1>1. CASE Post
  BY <1>1, PostIs
<1>2. CASE Patch
  BY <1>2, PatchIs
<1>3. CASE Delete
  BY <1>3, DeleteIs
<1>4. CASE DeleteSource
  BY <1>4, DeleteSourceInv
<1>5. CASE Save
  BY <1>5, SaveInv
<1>6. CASE SaveRaises
  BY <1>6, SaveRaisesInv
<1>7. CASE PostRow
  BY <1>7, PostRowInv
<1>8. CASE PatchRow
  BY <1>8, PatchRowInv
<1>9. CASE PatchGeoServer
  BY <1>9, PatchGeoServerInv
<1>10. CASE StartChain
  BY <1>10, StartChainInv
<1>11. CASE Raise
  BY <1>11, RaiseInv
<1>12. CASE RunTask
  BY <1>12, RunTaskInv
<1>13. CASE FailTask
  BY <1>13, FailTaskInv
<1>14. CASE Transaction
  BY <1>14, TransactionInv
<1>15. CASE SurvivorWrites
  BY <1>15, SurvivorWritesInv
<1>16. CASE SurvivorChecks
  BY <1>16, SurvivorChecksInv
<1>17. CASE UNCHANGED vars
  BY <1>17 DEF vars, IInv, TypeInv, ChainInv, Running, ReqInv, DataInv, PostInv, PatchInv, PatchedFrom,
               DeleteInv, Deleting, KeptInv, QueueInv
<1>. QED
  BY <1>1, <1>2, <1>3, <1>4, <1>5, <1>6, <1>7, <1>8, <1>9, <1>10, <1>11, <1>12, <1>13, <1>14,
     <1>15, <1>16, <1>17 DEF Next, Work

(* What is there of a layer follows from the steps and the tasks that the  *)
(* request and the chain on their way have not done yet.                   *)
THEOREM Invariant == Spec => []IInv
<1>. QED  BY InitInv, NextInv, PTL DEF Spec

-----------------------------------------------------------------------------
(* What follows.                                                           *)

(* Every column and source keeps values of its type.                       *)
THEOREM Types == Spec => []TypeOK
<1>1. IInv => TypeOK
  <2>1. SUFFICES ASSUME IInv PROVE TypeOK
    OBVIOUS
  <2>2. made = [s \in Products |-> made[s]] /\ ProductsOfType
    BY <2>1 DEF IInv, TypeInv, MadeTypes, ProductsOfType
  <2>3. DOMAIN made = Products
    BY <2>2
  <2>. QED  BY <2>1, <2>2, <2>3 DEF IInv, TypeInv, TypeOK
<1>. QED  BY Invariant, <1>1, PTL

(* No layer is published without what it is published from, wherever a     *)
(* request or a task stops.                                                *)
THEOREM PublishedInOrder == Spec => []InOrder
<1>1. IInv => InOrder
  <2>1. SUFFICES ASSUME IInv PROVE InOrder
    OBVIOUS
  <2>2. Sound(row, made) /\ MadeTypes(made) /\ row \in {None} \cup Rows
    BY <2>1 DEF IInv, TypeInv
  <2>3. made["wfs"] # None => HasTable
    BY <2>2 DEF Sound, WfsSound, TableOf, HasTable
  <2>4. made["wms"] # None =>
          /\ row # None /\ row \in Rows /\ row.geodata # "unknown"
          /\ made["wms"].store = WmsStoreOf(row)
          /\ row.geodata = "raster" => made["gdal"] # None
          /\ row.geodata = "vector" => TableOf(row, made)
          /\ WmsStoreOf(row) = "qgis" => made["qgis"] # None
    BY <2>2 DEF Sound, WmsSound
  <2>5. made["wms"] # None =>
          CASE made["wms"].store = "coverage" -> made["gdal"] # None
            [] made["wms"].store = "internal" -> made["table"] # None
            [] made["wms"].store = "qgis"     -> made["qgis"] # None
            [] made["wms"].store = "external" -> row.source = "TABLE"
    <3>1. SUFFICES ASSUME made["wms"] # None
                   PROVE  CASE made["wms"].store = "coverage" -> made["gdal"] # None
                            [] made["wms"].store = "internal" -> made["table"] # None
                            [] made["wms"].store = "qgis"     -> made["qgis"] # None
                            [] made["wms"].store = "external" -> row.source = "TABLE"
      OBVIOUS
    <3>2. row.geodata \in {"vector", "raster"} /\ row.source \in {"FILE", "TABLE"}
      BY <2>4, <3>1 DEF Rows
    <3>3. CASE row.geodata = "raster"
      BY <2>4, <3>1, <3>3 DEF WmsStoreOf
    <3>4. CASE row.geodata = "vector" /\ row.style = "qml"
      BY <2>4, <3>1, <3>4 DEF WmsStoreOf
    <3>5. CASE row.geodata = "vector" /\ row.style # "qml" /\ row.source = "TABLE"
      BY <2>4, <3>1, <3>5 DEF WmsStoreOf, DbStoreOf
    <3>6. CASE row.geodata = "vector" /\ row.style # "qml" /\ row.source = "FILE"
      BY <2>4, <3>1, <3>6 DEF WmsStoreOf, DbStoreOf, TableOf
    <3>. QED  BY <3>2, <3>3, <3>4, <3>5, <3>6
  <2>6. made["qgis"] # None => HasTable /\ Lang(made["input_style"]) = "qml"
    BY <2>2 DEF Sound, QgisSound, TableOf, HasTable, Lang
  <2>7. /\ made["table"] # None \/ made["gdal"] # None => made["input_file"] # None
        /\ made["thumbnail"] # None \/ made["sld"] # None => made["wms"] # None
    BY <2>2 DEF Sound, OthersSound
  <2>. QED  BY <2>3, <2>5, <2>6, <2>7 DEF InOrder
<1>. QED  BY Invariant, <1>1, PTL

(* The row goes away only as the last step of DELETE.                      *)
LEMMA RowStays ==
    ASSUME IInv, IInv', Next, row # None, row' = None
    PROVE  DeleteSource /\ On = "row"
<1>1. \A r : r \in Rows => r # None
  BY NoneIs
<1>2. CASE Post
  BY <1>2 DEF Post
<1>3. CASE Patch \/ Delete
  <2>1. req = None /\ Abort
    BY <1>3 DEF Patch, Delete
  <2>. QED  BY <1>1, <2>1, AbortIs DEF Sane
<1>4. CASE DeleteSource
  BY <1>1, <1>4, DeletedSound DEF Sane
<1>5. CASE Save
  <2>1. req # None /\ req' = Done(req) /\ Doing("save")
    BY <1>5 DEF Save, Doing
  <2>2. req.how = "patch"
    BY <1>5 DEF Save
  <2>3. req.todo # {NextStep}
    BY <2>1, <2>2, DoingIs DEF PatchInv, Step, Doing
  <2>4. req' # None /\ req'.how = "patch"
    BY <2>1, <2>2, <2>3, DoingIs, RemainsIs
  <2>. QED  BY <2>4 DEF IInv, ReqInv, PatchInv
<1>6. CASE SaveRaises \/ PatchGeoServer \/ StartChain \/ Raise \/ Transaction \/ SurvivorWrites \/ SurvivorChecks
  BY <1>6 DEF SaveRaises, PatchGeoServer, StartChain, Raise, Transaction, SurvivorWrites, SurvivorChecks
<1>7. CASE PostRow
  <2>1. req # None /\ NextStep.do = "post"
    BY <1>7 DEF PostRow, Doing
  <2>. QED  BY <2>1, LaterSteps
<1>8. CASE PatchRow
  <2>1. req # None /\ NextStep.do = "patch" /\ req' = Done(req)
    BY <1>8 DEF PatchRow, Doing
  <2>2. req.how = "patch" /\ req.todo # {NextStep}
    BY <2>1, LaterSteps
  <2>3. req' # None /\ req'.how = "patch"
    BY <2>1, <2>2, DoingIs, RemainsIs
  <2>. QED  BY <2>3 DEF IInv, ReqInv, PatchInv
<1>9. CASE RunTask
  <2>1. Running
    BY <1>9 DEF RunTask
  <2>2. PICK state \in Results(Task) : row' = state.row
    BY <1>9 DEF RunTask
  <2>3. chain.how = "publish" => (Task = "input_chunk" => state \in {ChunksMerged})
    BY <2>2 DEF Results, Refresh, RefreshInputChunk, Given
  <2>4. chain.how = "publish" => state \in Effects(Task)
    BY <2>2, <2>3 DEF Effects
  <2>. QED  BY <1>1, <2>1, <2>2, <2>4, RunningIs, PublishTask, FeatureTask DEF Sane
<1>10. CASE FailTask
  <2>1. Running
    BY <1>10 DEF FailTask
  <2>2. PICK state \in Effects(Task) : row' = [state.row EXCEPT !.status = StatusAfterFail(state)]
    BY <1>10 DEF FailTask
  <2>3. state.row \in Rows
    BY <2>1, <2>2, EffectIs DEF Sane
  <2>4. row' \in Rows
    BY <2>2, <2>3 DEF Rows, StatusAfterFail
  <2>. QED  BY <1>1, <2>4
<1>. QED
  BY <1>2, <1>3, <1>4, <1>5, <1>6, <1>7, <1>8, <1>9, <1>10 DEF Next, Work

(* When the row of a layer is deleted, nothing of the layer is left.       *)
THEOREM DeletesWhole == Spec => DeletedWhole
<1>1. IInv /\ IInv' /\ [Next]_vars => [row # None /\ row' = None /\ ~outlived => made' = NothingMade]_vars
  <2>1. SUFFICES ASSUME IInv, IInv', Next, row # None, row' = None, ~outlived
                 PROVE  made' = NothingMade
    BY DEF vars
  <2>2. DeleteSource /\ On = "row"
    BY <2>1, RowStays
  <2>3. /\ Doing("delete") /\ req # None /\ made' = made /\ NextStep = Step("delete", "row")
        /\ req.how = "delete"
    BY <2>1, <2>2, LaterGone, FromIs, SourcesAre DEF DeleteSource, Doing
  <2>4. \A t \in Products : made[t] = None
    BY <2>1, <2>3, DoingIs, DeletesBackwards DEF DeleteInv, Deleting, Products
  <2>5. made = [s \in Products |-> made[s]]
    <3>1. MadeTypes(made)
      BY <2>1, <2>3, DoingIs
    <3>. QED  BY <3>1 DEF MadeTypes
  <2>. QED  BY <2>3, <2>4, <2>5 DEF NothingMade
<1>2. []IInv /\ [][Next]_vars => [][row # None /\ row' = None /\ ~outlived => made' = NothingMade]_vars
  BY <1>1, PTL
<1>. QED  BY Invariant, <1>2, PTL DEF Spec, DeletedWhole

(* PATCH that makes the layer again without a style of its own saves the   *)
(* style that was in use when it came.                                     *)
THEOREM KeepsStyle == Spec => StyleKept
<1>1. IInv /\ [Next]_vars =>
        [Save /\ req.how = "patch" /\ req.style = None /\ req.inUse # None
           => made'["input_style"] = req.inUse]_vars
  <2>1. SUFFICES ASSUME IInv, Save, req.how = "patch", req.style = None, req.inUse # None
                 PROVE  made'["input_style"] = req.inUse
    BY DEF vars
  <2>2. /\ Doing("save") /\ req # None /\ NextStep.do = "save"
        /\ made'["input_style"] = StyleToSave
    <3>1. /\ Doing("save") /\ req # None /\ NextStep.do = "save"
      BY <2>1 DEF Save, Doing
    <3>2. made = [t \in Products |-> made[t]] /\ "input_style" \in Products
      BY <2>1, <3>1, DoingIs, SourcesAre DEF MadeTypes
    <3>. QED  BY <2>1, <3>1, <3>2 DEF Save
  <2>3. Step("save", "row") \in req.todo
    BY <2>1, <2>2, DoingIs DEF AllSteps, Steps, Step
  <2>4. ~Deleting("qgis")
    BY <2>1, <2>2, DoingIs, StepIs, SourcesAre DEF Deleting
  <2>5. req.kept = req.inUse
    BY <2>1, <2>2, <2>3, <2>4, DoingIs DEF KeptInv
  <2>. QED  BY <2>1, <2>2, <2>5 DEF StyleToSave
<1>2. []IInv /\ [][Next]_vars =>
        [][Save /\ req.how = "patch" /\ req.style = None /\ req.inUse # None
             => made'["input_style"] = req.inUse]_vars
  BY <1>1, PTL
<1>. QED  BY Invariant, <1>2, PTL DEF Spec, StyleKept


-----------------------------------------------------------------------------
(* Sources that reflect the row, the data and the style.                   *)

(* The data, style, project and publication of a layer whose row is r and  *)
(* whose external table has the version x.                                 *)
DataOf(r, m, x) ==
    IF r.source = "TABLE" THEN x ELSE IF r.geodata = "vector" THEN m["table"] ELSE m["gdal"]

StyleOf(m) == IF m["qgis"] # None THEN m["qgis"].style ELSE m["sld"]

ProjectIs(r, m) ==
    /\ m["qgis"] # None /\ m["qgis"].style = m["input_style"]
    /\ m["qgis"].bbox = r.bbox /\ m["qgis"].store = DbStoreOf(r)

(* Sources are right except those to be published (pub), to be refreshed   *)
(* (ref), or to get the title of the row (patches).                        *)
DataReflect(r, m, x, pub, ref) ==
    /\ "gdal" \notin pub /\ m["gdal"] # None => m["input_file"] # None /\ m["gdal"] = m["input_file"].v
    /\ "file_data" \notin ref => r.bbox = DataOf(r, m, x)
    /\ "status" \notin pub => r.status = "AVAILABLE"

StylesReflect(r, m, pub, ref) ==
    /\ "qgis" \notin pub /\ r.style # "qml" => m["qgis"] = None
    /\ "qgis" \notin ref /\ r.style = "qml" => ProjectIs(r, m)
    /\ "sld" \notin pub => (m["sld"] = None <=> r.style = "qml")

WfsReflect(r, m, pub, ref, patches) ==
    /\ "wfs" \notin pub => (m["wfs"] # None <=> r.geodata = "vector")
    /\ "wfs" \notin pub \cup patches /\ m["wfs"] # None => m["wfs"].title = r.title
    /\ "wfs" \notin ref /\ m["wfs"] # None => m["wfs"].bbox = r.bbox

WmsReflect(r, m, pub, ref, patches) ==
    /\ "wms" \notin pub => m["wms"] # None
    /\ "wms" \notin pub \cup patches /\ m["wms"] # None => m["wms"].title = r.title
    /\ "wms" \notin ref /\ m["wms"] # None => m["wms"].bbox = r.bbox

ThumbnailReflects(r, m, x, ref) ==
    "thumbnail" \notin ref => m["thumbnail"] = [data |-> DataOf(r, m, x), style |-> StyleOf(m)]

Reflects(r, m, x, pub, ref, patches) ==
    /\ DataReflect(r, m, x, pub, ref)
    /\ StylesReflect(r, m, pub, ref)
    /\ WfsReflect(r, m, pub, ref, patches) /\ WmsReflect(r, m, pub, ref, patches)
    /\ ThumbnailReflects(r, m, x, ref)

(* A record that is to be published will have the title and the extent of  *)
(* the row, or will get the extent from the queued step.                   *)
RecordReflects(r, m, pub, ref, refresh, queued) ==
    /\ "soap" \notin pub => m["soap"] # None /\ m["soap"].title = r.title
    /\ "soap" \notin ref => m["soap"] # None /\ m["soap"].extent = r.bbox
    /\ "soap" \in pub /\ m["soap"] # None => "title" \in refresh /\ ("extent" \in refresh \/ queued)

ToPublish == IF req # None THEN From(req.start)
             ELSE IF Running /\ chain.how = "publish" THEN chain.tasks ELSE {}

ToRefresh == ToPublish \cup (IF again THEN FeatureTasks ELSE {}) \cup (IF Running THEN chain.tasks ELSE {})

ToPatch == IF req # None THEN {s \in {"wfs", "wms"} : Step("patch", s) \in req.todo} ELSE {}

PropsToRefresh == IF req # None THEN req.refresh ELSE chain.refresh

(* Nothing has failed since the layer came to be, and it is not about to   *)
(* be deleted.                                                             *)
Healthy == row # None /\ ~broken /\ ~outlived /\ (req # None => req.how # "delete")

Whole == Running /\ chain.whole

ReflectInv == Healthy \/ Whole => Reflects(row, made, external, ToPublish, ToRefresh, ToPatch)

RecordInv == Healthy => RecordReflects(row, made, ToPublish, ToRefresh, PropsToRefresh, again)

JInv == IInv /\ ReflectInv /\ RecordInv


LEMMA OfIs ==
    /\ Data = DataOf(row, made, external) /\ StyleInUse = StyleOf(made)
    /\ (ProjectReflects <=> ProjectIs(row, made)) /\ DbStore = DbStoreOf(row) /\ WmsStore = WmsStoreOf(row)
  BY DEF Data, DataOf, StyleInUse, StyleOf, ProjectReflects, ProjectIs, DbStore, DbStoreOf, WmsStore, WmsStoreOf

(* A project as it is saved reflects the row.                              *)
LEMMA ProjectSaved ==
    ASSUME Sane(row, made), row.bbox # NoBbox, Lang(made["input_style"]) = "qml",
           NEW m, m = [made EXCEPT !["qgis"] = QgisProject]
    PROVE  ProjectIs(row, m)
<1>1. m["qgis"] = QgisProject /\ m["input_style"] = made["input_style"]
  BY SourcesAre DEF Sane, MadeTypes
<1>2. QgisProject # None
  <2>1. made["input_style"] # None /\ made["input_style"] \in Styles
    BY DEF Sane, MadeTypes, Lang
  <2>2. QgisProject \in Projects
    BY <2>1, NoneIs DEF QgisProject, Projects, Sane, Rows, NoBbox, DbStore
  <2>. QED  BY <2>2, NoneIs
<1>. QED  BY <1>1, <1>2, OfIs DEF ProjectIs, QgisProject

(* The more is to be done, the less is to be right by now.                 *)
LEMMA Weaker ==
    ASSUME NEW r, NEW m, NEW x, NEW pub, NEW ref, NEW patches, NEW pub2, NEW ref2, NEW patches2,
           pub \subseteq pub2, ref \subseteq ref2, patches \subseteq patches2,
           Reflects(r, m, x, pub, ref, patches)
    PROVE  Reflects(r, m, x, pub2, ref2, patches2)
<1>1. DataReflect(r, m, x, pub2, ref2)
  BY DEF Reflects, DataReflect
<1>2. StylesReflect(r, m, pub2, ref2)
  BY DEF Reflects, StylesReflect
<1>3. WfsReflect(r, m, pub2, ref2, patches2)
  BY DEF Reflects, WfsReflect
<1>4. WmsReflect(r, m, pub2, ref2, patches2)
  BY DEF Reflects, WmsReflect
<1>5. ThumbnailReflects(r, m, x, ref2)
  BY DEF Reflects, ThumbnailReflects
<1>. QED  BY <1>1, <1>2, <1>3, <1>4, <1>5 DEF Reflects

(* A task that publishes makes its source right, and no other wrong.       *)
LEMMA PublishReflects ==
    ASSUME IInv, Running, chain.how = "publish", NEW state \in Results(Task),
           NEW ref, chain.tasks \subseteq ref, Reflects(row, made, external, chain.tasks, ref, {})
    PROVE  Reflects(state.row, state.made, external, Left, ref \ {Task}, {})
<1> DEFINE tasks == chain.tasks
           ref2 == ref \ {Task}
           r == state.row
           m == state.made
<1>1. Closed(tasks) /\ AheadNone(made, tasks) /\ Task \in tasks /\ Sane(row, made) /\ tasks \subseteq Refreshable
  BY RunningIs DEF IInv, ChainInv
<1>2. Left = tasks \ {Task} /\ Left \subseteq ref2
  BY DEF Left
<1>3. state \in Refresh(Task)
  BY DEF Results
<1>4. \A s \in tasks \cap (Products \ {"input_chunk", "soap"}) : made[s] = None
  BY <1>1 DEF AheadNone
<1> HIDE DEF tasks, ref2, r, m
<1>5. CASE Task \in {"input_chunk", "gdal", "table", "file_data"}
  <2>1. {"qgis", "wfs", "wms", "sld", "status", "thumbnail"} \subseteq Left
    BY <1>1, <1>2, <1>5 DEF Closed
  <2>2. /\ StylesReflect(r, m, Left, ref2) /\ WfsReflect(r, m, Left, ref2, {})
        /\ WmsReflect(r, m, Left, ref2, {}) /\ ThumbnailReflects(r, m, external, ref2)
    BY <1>2, <2>1 DEF StylesReflect, WfsReflect, WmsReflect, ThumbnailReflects
  <2>3. "status" \in Left
    BY <2>1
  <2>4. CASE Task = "input_chunk"
    <3>1. "gdal" \in Left /\ "file_data" \in Left
      BY <1>1, <1>2, <2>4 DEF Closed
    <3>. QED  BY <1>2, <2>2, <2>3, <3>1 DEF Reflects, DataReflect, r, m, ref2
  <2>5. CASE Task = "gdal"
    <3>1. "file_data" \in Left /\ made["gdal"] = None
      BY <1>1, <1>2, <1>4, <2>5, SourcesAre DEF Closed
    <3>2. state \in RefreshGdal
      BY <1>3, <2>5 DEF Refresh
    <3>3. m["gdal"] = None \/ (m["input_file"] # None /\ m["gdal"] = m["input_file"].v)
      <4>1. CASE state = Unchanged
        BY <3>1, <4>1 DEF m, Unchanged, State
      <4>2. CASE state = Making("gdal", made["input_file"].v) /\ made["input_file"] # None
        <5>1. m = [made EXCEPT !["gdal"] = made["input_file"].v]
          BY <4>2 DEF m, Making, State
        <5>2. m["gdal"] = made["input_file"].v /\ m["input_file"] = made["input_file"]
          BY <1>1, <5>1, SourcesAre DEF Sane, MadeTypes
        <5>. QED  BY <4>2, <5>2
      <4>. QED  BY <3>2, <4>1, <4>2 DEF RefreshGdal, Given, FileIs
    <3>. QED  BY <1>2, <2>2, <2>3, <3>1, <3>3 DEF Reflects, DataReflect, r, m, ref2
  <2>6. CASE Task = "table"
    <3>1. "file_data" \in Left /\ "gdal" \notin tasks
      BY <1>1, <1>2, <2>6, RunningIs, TaskIs DEF Closed, tasks
    <3>2. m["gdal"] = made["gdal"] /\ m["input_file"] = made["input_file"]
      BY <1>1, <1>3, <2>6, RunningIs, DataTask, SourcesAre DEF Only, m
    <3>. QED  BY <1>2, <2>2, <2>3, <3>1, <3>2 DEF Reflects, DataReflect, r, m, ref2, tasks
  <2>7. CASE Task = "file_data"
    <3>1. "table" \notin tasks /\ "gdal" \notin tasks
      BY <1>1, <2>7, RunningIs, TaskIs DEF Closed, tasks
    <3>2. state \in RefreshFileData
      BY <1>3, <2>7 DEF Refresh
    <3>3. m = made /\ r.bbox = DataOf(r, m, external)
      <4> DEFINE geodata == IF row.geodata # "unknown" THEN row.geodata ELSE GeodataOf(made["input_file"].kind)
                 data    == IF row.source = "TABLE" THEN external
                            ELSE IF geodata = "vector" THEN made["table"] ELSE made["gdal"]
      <4>1. m = made /\ r = [row EXCEPT !.geodata = geodata, !.bbox = data]
        BY <3>2 DEF RefreshFileData, Given, Setting, State, m, r
      <4> HIDE DEF data, geodata
      <4>2. r.geodata = geodata /\ r.bbox = data /\ r.source = row.source
        BY <1>1, <4>1 DEF Sane, Rows
      <4>. QED  BY <4>1, <4>2 DEF DataOf, data
    <3>. QED  BY <1>2, <2>2, <2>3, <3>1, <3>3 DEF Reflects, DataReflect, r, m, ref2, tasks
  <2>. QED  BY <1>5, <2>4, <2>5, <2>6, <2>7
<1>6. CASE Task = "status"
  <2>1. state.row = [row EXCEPT !.status = "AVAILABLE"] /\ m = made
    BY <1>3, <1>6 DEF Refresh, RefreshStatus, Setting, State, m
  <2>2. /\ r.status = "AVAILABLE" /\ r.title = row.title /\ r.style = row.style /\ r.source = row.source
        /\ r.geodata = row.geodata /\ r.bbox = row.bbox
    BY <1>1, <2>1 DEF Sane, Rows, r
  <2>3. DataOf(r, m, external) = DataOf(row, made, external) /\ (ProjectIs(row, made) => ProjectIs(r, m))
    BY <2>1, <2>2 DEF DataOf, ProjectIs, DbStoreOf
  <2>4. DataReflect(r, m, external, Left, ref2)
    BY <1>2, <1>6, <2>1, <2>2, <2>3 DEF Reflects, DataReflect, tasks, ref2
  <2>5. StylesReflect(r, m, Left, ref2)
    BY <1>2, <1>6, <2>1, <2>2, <2>3 DEF Reflects, StylesReflect, tasks, ref2
  <2>6. WfsReflect(r, m, Left, ref2, {}) /\ WmsReflect(r, m, Left, ref2, {})
    BY <1>2, <1>6, <2>1, <2>2 DEF Reflects, WfsReflect, WmsReflect, tasks, ref2
  <2>7. ThumbnailReflects(r, m, external, ref2)
    BY <1>6, <2>1, <2>3 DEF Reflects, ThumbnailReflects, ref2
  <2>. QED  BY <2>4, <2>5, <2>6, <2>7 DEF Reflects, r, m, ref2
<1>7. CASE Task \in {"qgis", "wfs", "wms", "sld", "thumbnail", "soap"}
  <2>1. r = row /\ (Only(m, {Task}) \/ (Task = "sld" /\ Only(m, {"sld", "input_style"})))
    BY <1>3, <1>7, RunningIs, QgisTask, WfsTask, WmsTask, SldTask, ThumbnailTask, SoapTask DEF Refresh, r, m
  <2>2. r = row
    BY <2>1
  <2>3. /\ m["gdal"] = made["gdal"] /\ m["table"] = made["table"] /\ m["input_file"] = made["input_file"]
        /\ Task # "sld" => m["input_style"] = made["input_style"] /\ m["sld"] = made["sld"]
        /\ Task # "qgis" => m["qgis"] = made["qgis"]
        /\ Task # "wfs" => m["wfs"] = made["wfs"]
        /\ Task # "wms" => m["wms"] = made["wms"]
        /\ Task # "thumbnail" => m["thumbnail"] = made["thumbnail"]
    BY <1>7, <2>1, SourcesAre DEF Only
  <2>4. DataOf(r, m, external) = DataOf(row, made, external)
    BY <2>2, <2>3 DEF DataOf
  <2>5. DataReflect(r, m, external, Left, ref2)
    BY <1>2, <1>7, <2>2, <2>3, <2>4 DEF Reflects, DataReflect, tasks, ref2
  <2>6. StylesReflect(r, m, Left, ref2)
    <3>1. CASE Task = "qgis"
      <4>1. "sld" \in Left /\ made["qgis"] = None
        BY <1>1, <1>2, <1>4, <3>1, SourcesAre DEF Closed
      <4>2. state \in SaveQgis
        BY <1>3, <3>1 DEF Refresh
      <4>3. CASE row.style # "qml"
        <5>1. m = made
          BY <4>2, <4>3 DEF SaveQgis, Unchanged, State, m
        <5>. QED  BY <2>2, <4>1, <4>3, <5>1 DEF StylesReflect
      <4>4. CASE row.style = "qml"
        <5>1. /\ m = [made EXCEPT !["qgis"] = QgisProject]
              /\ row.bbox # NoBbox /\ Lang(made["input_style"]) = "qml"
          BY <4>2, <4>4 DEF SaveQgis, Given, Making, State, m
        <5>2. ProjectIs(row, m)
          BY <1>1, <5>1, ProjectSaved
        <5>. QED  BY <2>2, <4>1, <4>4, <5>2 DEF StylesReflect
      <4>. QED  BY <4>3, <4>4
    <3>2. CASE Task = "sld"
      <4>1. made["sld"] = None /\ state \in RefreshSld
        BY <1>1, <1>3, <1>4, <3>2, SourcesAre DEF Refresh
      <4>2. CASE row.style = "qml"
        <5>1. m = made
          BY <4>1, <4>2 DEF RefreshSld, Unchanged, State, m
        <5>. QED  BY <1>2, <2>2, <3>2, <4>1, <4>2, <5>1 DEF Reflects, StylesReflect, ref2, tasks
      <4>3. CASE row.style # "qml"
        <5>1. m["sld"] # None
          <6> DEFINE saved == IF GeneratesStyle THEN LaymanStyle(made["gdal"]) ELSE made["input_style"]
                     style == IF saved = None THEN GenericStyle ELSE saved
          <6>1. state = State(row, [made EXCEPT !["input_style"] = saved, !["sld"] = style])
            BY <4>1, <4>3 DEF RefreshSld, Given
          <6>2. style # None
            <7>1. GenericStyle \in Styles
              BY NoneIs DEF GenericStyle, Styles
            <7>. QED  BY <7>1, NoneIs
          <6> HIDE DEF saved, style
          <6>3. m = [made EXCEPT !["input_style"] = saved, !["sld"] = style]
            BY <6>1 DEF State, m
          <6>4. m["sld"] = style
            BY <1>1, <6>3, SourcesAre DEF Sane, MadeTypes
          <6>. QED  BY <6>2, <6>4
        <5>. QED  BY <1>2, <2>2, <2>3, <3>2, <4>3, <5>1 DEF Reflects, StylesReflect, ref2, tasks
      <4>. QED  BY <4>2, <4>3
    <3>3. CASE Task \in {"wfs", "wms", "thumbnail", "soap"}
      <4>1. ProjectIs(row, made) => ProjectIs(r, m)
        BY <2>2, <2>3, <3>3 DEF ProjectIs
      <4>. QED  BY <1>2, <2>2, <2>3, <3>3, <4>1 DEF Reflects, StylesReflect, ref2, tasks
    <3>. QED  BY <1>7, <3>1, <3>2, <3>3
  <2>7. WfsReflect(r, m, Left, ref2, {})
    <3>1. CASE Task = "wfs"
      <4>1. made["wfs"] = None /\ state \in RefreshWfs
        BY <1>1, <1>3, <1>4, <3>1, SourcesAre DEF Refresh
      <4>2. CASE row.geodata = "raster"
        <5>1. m = made
          BY <4>1, <4>2 DEF RefreshWfs, Unchanged, State, m
        <5>. QED  BY <2>2, <4>1, <4>2, <5>1 DEF WfsReflect
      <4>3. CASE row.geodata # "raster"
        <5>1. /\ row.geodata = "vector" /\ row.bbox # NoBbox
              /\ state = Making("wfs", Published(DbStore))
          BY <4>1, <4>3 DEF RefreshWfs, Given
        <5>2. m["wfs"] = Published(DbStore)
          BY <1>1, <5>1, SourcesAre DEF Making, State, m, Sane, MadeTypes
        <5>3. m["wfs"].title = row.title /\ m["wfs"].bbox = row.bbox
          BY <5>2 DEF Published
        <5>4. m["wfs"] # None
          BY <1>1, <5>1, <5>2, PublishedIs DEF Sane, DbStore
        <5>. QED  BY <2>2, <5>1, <5>3, <5>4 DEF WfsReflect
      <4>. QED  BY <4>2, <4>3
    <3>2. CASE Task # "wfs"
      BY <1>2, <2>2, <2>3, <3>2 DEF Reflects, WfsReflect, ref2, tasks
    <3>. QED  BY <3>1, <3>2
  <2>8. WmsReflect(r, m, Left, ref2, {})
    <3>1. CASE Task = "wms"
      <4>1. state \in RefreshWms
        BY <1>3, <3>1 DEF Refresh
      <4>2. state = Making("wms", Published(WmsStore)) /\ row.bbox # NoBbox
        BY <4>1 DEF RefreshWms, Given
      <4>3. m["wms"] = Published(WmsStore)
        BY <1>1, <4>2, SourcesAre DEF Making, State, m, Sane, MadeTypes
      <4>4. m["wms"].title = row.title /\ m["wms"].bbox = row.bbox
        BY <4>3 DEF Published
      <4>5. m["wms"] # None
        BY <1>1, <4>2, <4>3, PublishedIs DEF Sane, WmsStore, DbStore
      <4>. QED  BY <2>2, <4>4, <4>5 DEF WmsReflect
    <3>2. CASE Task # "wms"
      BY <1>2, <2>2, <2>3, <3>2 DEF Reflects, WmsReflect, ref2, tasks
    <3>. QED  BY <3>1, <3>2
  <2>9. ThumbnailReflects(r, m, external, ref2)
    <3>1. CASE Task = "thumbnail"
      <4>1. state \in MakeThumbnail
        BY <1>3, <3>1 DEF Refresh
      <4>2. m = [made EXCEPT !["thumbnail"] = [data |-> Data, style |-> StyleInUse]]
        BY <4>1 DEF MakeThumbnail, Given, Making, State, m
      <4>3. m["thumbnail"] = [data |-> Data, style |-> StyleInUse]
        BY <1>1, <4>2, SourcesAre DEF Sane, MadeTypes
      <4>4. StyleOf(m) = StyleOf(made)
        BY <2>3, <3>1 DEF StyleOf
      <4>. QED  BY <2>4, <4>3, <4>4, OfIs DEF ThumbnailReflects
    <3>2. CASE Task = "soap"
      <4>1. StyleOf(m) = StyleOf(made)
        BY <2>3, <3>2 DEF StyleOf
      <4>. QED  BY <2>3, <2>4, <3>2, <4>1 DEF Reflects, ThumbnailReflects, ref2
    <3>3. CASE Task \in {"qgis", "wfs", "wms", "sld"}
      <4>1. "thumbnail" \in Left
        BY <1>1, <1>2, <3>3 DEF Closed
      <4>. QED  BY <1>2, <4>1 DEF ThumbnailReflects
    <3>. QED  BY <1>7, <3>1, <3>2, <3>3
  <2>. QED  BY <2>5, <2>6, <2>7, <2>8, <2>9 DEF Reflects, r, m, ref2
<1>8. Task \in Refreshable
  BY <1>1
<1>. QED  BY <1>5, <1>6, <1>7, <1>8, SourcesAre


LEMMA ExtendedIs ==
    ASSUME Sane(row, made), NEW s \in {"wfs", "wms"}, NEW store, NEW state \in Extended(s, store)
    PROVE  /\ made[s] # None /\ state.made[s] # None
           /\ state.made[s].title = made[s].title /\ state.made[s].bbox = row.bbox
<1> DEFINE x == [made[s] EXCEPT !.bbox = row.bbox]
<1>1. state.made = [made EXCEPT ![s] = x] /\ made[s] # None /\ made[s] \in Layers
  BY DEF Extended, Given, Making, State, Sane, MadeTypes
<1>2. x.title = made[s].title /\ x.bbox = row.bbox
  BY <1>1 DEF Layers
<1>3. x \in Layers
  <2>1. Sane(state.row, state.made)
    BY ExtendedTask
  <2>2. row.bbox \in Versions
    BY <1>1, NoneIs DEF Sane, Sound, WfsSound, WmsSound, Rows, NoBbox
  <2>. QED  BY <1>1, <2>2 DEF Layers
<1> HIDE DEF x
<1>4. state.made[s] = x
  BY <1>1, SourcesAre DEF Sane, MadeTypes
<1>. QED  BY <1>1, <1>2, <1>3, <1>4, NoneIs

(* A step of patch_after_feature_change makes its source right, and no     *)
(* other wrong.                                                            *)
LEMMA FeatureReflects ==
    ASSUME IInv, Running, chain.how = "features", NEW state \in Results(Task),
           NEW ref, chain.tasks \subseteq ref, Reflects(row, made, external, {}, ref, {})
    PROVE  Reflects(state.row, state.made, external, {}, ref \ {Task}, {})
<1> DEFINE ref2 == ref \ {Task}
           r == state.row
           m == state.made
<1>1. /\ ClosedFeatures(chain.tasks) /\ chain.tasks \subseteq FeatureTasks
      /\ Task \in chain.tasks /\ Sane(row, made)
  BY RunningIs DEF IInv, ChainInv
<1>2. Task \in {"file_data", "qgis", "wfs", "wms", "thumbnail", "soap"}
  BY <1>1 DEF FeatureTasks
<1>3. state \in FeaturesChanged(Task)
  BY DEF Results
<1> HIDE DEF ref2, r, m
<1>4. CASE Task = "file_data"
  <2>1. {"qgis", "wfs", "wms", "thumbnail"} \subseteq ref2
    BY <1>1, <1>4 DEF ClosedFeatures, ref2
  <2>2. m = made /\ state.row = [row EXCEPT !.bbox = Data]
    BY <1>3, <1>4 DEF FeaturesChanged, Given, Setting, State, m
  <2>3. /\ r.bbox = Data /\ r.source = row.source /\ r.geodata = row.geodata /\ r.style = row.style
        /\ r.title = row.title /\ r.status = row.status
    BY <1>1, <2>2 DEF r, Sane, Rows
  <2>4. DataOf(r, m, external) = Data
    BY <2>2, <2>3, OfIs DEF DataOf
  <2>5. DataReflect(r, m, external, {}, ref2)
    BY <2>2, <2>3, <2>4 DEF Reflects, DataReflect
  <2>6. StylesReflect(r, m, {}, ref2)
    BY <2>1, <2>2, <2>3 DEF Reflects, StylesReflect
  <2>7. WfsReflect(r, m, {}, ref2, {}) /\ WmsReflect(r, m, {}, ref2, {})
    BY <2>1, <2>2, <2>3 DEF Reflects, WfsReflect, WmsReflect
  <2>8. ThumbnailReflects(r, m, external, ref2)
    BY <2>1 DEF ThumbnailReflects
  <2>. QED  BY <2>5, <2>6, <2>7, <2>8 DEF Reflects, r, m, ref2
<1>5. CASE Task \in {"qgis", "wfs", "wms", "thumbnail", "soap"}
  <2>1. r = row
    <3>1. CASE Task = "qgis"
      BY <1>3, <3>1, RunningIs, QgisTask DEF FeaturesChanged, r
    <3>2. CASE Task = "wfs"
      BY <1>3, <3>2, RunningIs, ExtendedTask DEF FeaturesChanged, r, Unchanged, State
    <3>3. CASE Task = "wms"
      BY <1>3, <3>3, RunningIs, ExtendedTask DEF FeaturesChanged, r
    <3>4. CASE Task \in {"thumbnail", "soap"}
      BY <1>3, <3>4, RunningIs, ThumbnailTask, SoapTask DEF FeaturesChanged, r
    <3>. QED  BY <1>5, <3>1, <3>2, <3>3, <3>4
  <2>2. Only(m, {Task})
    <3>1. CASE Task = "qgis"
      BY <1>3, <3>1, RunningIs, QgisTask DEF FeaturesChanged, m
    <3>2. CASE Task = "wfs"
      <4>1. state = Unchanged \/ state \in Extended("wfs", DbStore)
        BY <1>3, <3>2 DEF FeaturesChanged
      <4>2. CASE state = Unchanged
        BY <4>2 DEF Unchanged, State, Only, m
      <4>3. CASE state \in Extended("wfs", DbStore)
        BY <3>2, <4>3, RunningIs, ExtendedTask DEF m
      <4>. QED  BY <4>1, <4>2, <4>3
    <3>3. CASE Task = "wms"
      <4>1. state \in Extended("wms", WmsStore)
        BY <1>3, <3>3 DEF FeaturesChanged
      <4>. QED  BY <3>3, <4>1, RunningIs, ExtendedTask DEF m
    <3>4. CASE Task \in {"thumbnail", "soap"}
      BY <1>3, <3>4, RunningIs, ThumbnailTask, SoapTask DEF FeaturesChanged, m
    <3>. QED  BY <1>5, <3>1, <3>2, <3>3, <3>4
  <2>3. /\ m["gdal"] = made["gdal"] /\ m["table"] = made["table"] /\ m["input_file"] = made["input_file"]
        /\ m["input_style"] = made["input_style"] /\ m["sld"] = made["sld"]
        /\ Task # "qgis" => m["qgis"] = made["qgis"]
        /\ Task # "wfs" => m["wfs"] = made["wfs"]
        /\ Task # "wms" => m["wms"] = made["wms"]
        /\ Task # "thumbnail" => m["thumbnail"] = made["thumbnail"]
    BY <1>5, <2>2, SourcesAre DEF Only
  <2>4. /\ DataOf(r, m, external) = DataOf(row, made, external)
        /\ Task # "qgis" => StyleOf(m) = StyleOf(made) /\ (ProjectIs(row, made) => ProjectIs(r, m))
    BY <2>1, <2>3 DEF DataOf, ProjectIs, DbStoreOf, StyleOf
  <2>5. DataReflect(r, m, external, {}, ref2)
    BY <1>5, <2>1, <2>3, <2>4 DEF Reflects, DataReflect, ref2
  <2>6. StylesReflect(r, m, {}, ref2)
    <3>1. CASE Task = "qgis" /\ row.style # "qml"
      <4>1. m = made
        BY <1>3, <3>1 DEF FeaturesChanged, SaveQgis, Unchanged, State, m
      <4>. QED  BY <2>1, <3>1, <4>1 DEF Reflects, StylesReflect
    <3>2. CASE Task = "qgis" /\ row.style = "qml"
      <4>1. /\ m = [made EXCEPT !["qgis"] = QgisProject]
            /\ row.bbox # NoBbox /\ Lang(made["input_style"]) = "qml"
        BY <1>3, <3>2 DEF FeaturesChanged, SaveQgis, Given, Making, State, m
      <4>2. ProjectIs(row, m)
        BY <1>1, <4>1, ProjectSaved
      <4>. QED  BY <2>1, <2>3, <2>4, <3>2, <4>2 DEF Reflects, StylesReflect
    <3>3. CASE Task # "qgis"
      BY <2>1, <2>3, <2>4, <3>3 DEF Reflects, StylesReflect, ref2
    <3>. QED  BY <3>1, <3>2, <3>3
  <2>7. WfsReflect(r, m, {}, ref2, {})
    <3>1. CASE Task = "wfs"
      <4>1. CASE row.geodata = "raster"
        <5>1. m = made
          BY <1>3, <3>1, <4>1 DEF FeaturesChanged, Unchanged, State, m
        <5>. QED  BY <2>1, <4>1, <5>1 DEF Reflects, WfsReflect
      <4>2. CASE row.geodata # "raster"
        <5>1. state \in Extended("wfs", DbStore)
          BY <1>3, <3>1, <4>2 DEF FeaturesChanged
        <5>2. /\ made["wfs"] # None /\ m["wfs"] # None
              /\ m["wfs"].title = made["wfs"].title /\ m["wfs"].bbox = row.bbox
          BY <1>1, <5>1, ExtendedIs DEF m
        <5>. QED  BY <2>1, <5>2 DEF Reflects, WfsReflect
      <4>. QED  BY <4>1, <4>2
    <3>2. CASE Task # "wfs"
      BY <2>1, <2>3, <3>2 DEF Reflects, WfsReflect, ref2
    <3>. QED  BY <3>1, <3>2
  <2>8. WmsReflect(r, m, {}, ref2, {})
    <3>1. CASE Task = "wms"
      <4>1. state \in Extended("wms", WmsStore)
        BY <1>3, <3>1 DEF FeaturesChanged
      <4>2. /\ made["wms"] # None /\ m["wms"] # None
            /\ m["wms"].title = made["wms"].title /\ m["wms"].bbox = row.bbox
        BY <1>1, <4>1, ExtendedIs DEF m
      <4>. QED  BY <2>1, <4>2 DEF Reflects, WmsReflect
    <3>2. CASE Task # "wms"
      BY <2>1, <2>3, <3>2 DEF Reflects, WmsReflect, ref2
    <3>. QED  BY <3>1, <3>2
  <2>9. ThumbnailReflects(r, m, external, ref2)
    <3>1. CASE Task = "thumbnail"
      <4>1. state \in MakeThumbnail
        BY <1>3, <3>1 DEF FeaturesChanged
      <4>2. m = [made EXCEPT !["thumbnail"] = [data |-> Data, style |-> StyleInUse]]
        BY <4>1 DEF MakeThumbnail, Given, Making, State, m
      <4>3. m["thumbnail"] = [data |-> Data, style |-> StyleInUse]
        BY <1>1, <4>2, SourcesAre DEF Sane, MadeTypes
      <4>. QED  BY <2>4, <3>1, <4>3, OfIs DEF ThumbnailReflects
    <3>2. CASE Task = "soap"
      BY <2>3, <2>4, <3>2 DEF Reflects, ThumbnailReflects, ref2
    <3>3. CASE Task \in {"qgis", "wfs", "wms"}
      <4>1. "thumbnail" \in ref2
        BY <1>1, <3>3 DEF ClosedFeatures, ref2
      <4>. QED  BY <4>1 DEF ThumbnailReflects
    <3>. QED  BY <1>5, <3>1, <3>2, <3>3
  <2>. QED  BY <2>5, <2>6, <2>7, <2>8, <2>9 DEF Reflects, r, m, ref2
<1>. QED  BY <1>2, <1>4, <1>5


(* When all is yet to be made, nothing has to be right.                    *)
LEMMA AllAhead ==
    ASSUME NEW r, NEW m, NEW x, NEW pub, NEW ref, NEW patches, pub \subseteq ref,
           {"gdal", "file_data", "qgis", "wfs", "wms", "sld", "status", "thumbnail"} \subseteq pub
    PROVE  Reflects(r, m, x, pub, ref, patches)
  BY DEF Reflects, DataReflect, StylesReflect, WfsReflect, WmsReflect, ThumbnailReflects

(* When the layer is to be made from its style on, only the data has to.   *)
LEMMA StylesAhead ==
    ASSUME NEW r, NEW m, NEW x, NEW pub, NEW ref, NEW patches, pub \subseteq ref,
           {"qgis", "wfs", "wms", "sld", "status", "thumbnail"} \subseteq pub,
           DataReflect(r, m, x, pub, ref)
    PROVE  Reflects(r, m, x, pub, ref, patches)
  BY DEF Reflects, StylesReflect, WfsReflect, WmsReflect, ThumbnailReflects

(* A source without a task is of no matter.                                *)
LEMMA RefreshableOnly ==
    ASSUME NEW r, NEW m, NEW x, NEW pub, NEW ref, NEW patches,
           Reflects(r, m, x, pub, ref, patches)
    PROVE  Reflects(r, m, x, pub \cap Refreshable, ref \cap Refreshable, patches)
<1>1. {"gdal", "file_data", "qgis", "wfs", "wms", "sld", "status", "thumbnail"} \subseteq Refreshable
  BY SourcesAre
<1>2. DataReflect(r, m, x, pub \cap Refreshable, ref \cap Refreshable)
  BY <1>1 DEF Reflects, DataReflect
<1>3. StylesReflect(r, m, pub \cap Refreshable, ref \cap Refreshable)
  BY <1>1 DEF Reflects, StylesReflect
<1>4. WfsReflect(r, m, pub \cap Refreshable, ref \cap Refreshable, patches)
  BY <1>1 DEF Reflects, WfsReflect
<1>5. WmsReflect(r, m, pub \cap Refreshable, ref \cap Refreshable, patches)
  BY <1>1 DEF Reflects, WmsReflect
<1>6. ThumbnailReflects(r, m, x, ref \cap Refreshable)
  BY <1>1 DEF Reflects, ThumbnailReflects
<1>. QED  BY <1>2, <1>3, <1>4, <1>5, <1>6 DEF Reflects

(* The record after its task.                                              *)
LEMMA RecordAfter ==
    ASSUME Sane(row, made), NEW state \in RefreshSoap
    PROVE  /\ state.made["soap"] # None
           /\ state.made["soap"].title \in {row.title, made["soap"].title}
           /\ made["soap"] = None \/ "title" \in chain.refresh => state.made["soap"].title = row.title
           /\ made["soap"] = None \/ "extent" \in chain.refresh => state.made["soap"].extent = row.bbox
<1>1. CASE state = Unchanged /\ made["soap"] # None /\ chain.refresh = {}
  BY <1>1 DEF Unchanged, State
<1>2. CASE state = Making("soap", Record(row)) /\ row.bbox # NoBbox
  <2>1. state.made["soap"] = Record(row)
    BY <1>2, SourcesAre DEF Making, State, Sane, MadeTypes
  <2>2. Record(row) # None
    BY <1>2, RecordIs, NoneIs DEF Sane
  <2>3. Record(row).title = row.title /\ Record(row).extent = row.bbox
    BY DEF Record, Props, Value
  <2>. QED  BY <2>1, <2>2, <2>3
<1>3. CASE state = Making("soap", PatchedRecord(row, chain.refresh)) /\ row.bbox # NoBbox
  <2>1. state.made["soap"] = PatchedRecord(row, chain.refresh)
    BY <1>3, SourcesAre DEF Making, State, Sane, MadeTypes
  <2>2. PatchedRecord(row, chain.refresh) # None
    BY <1>3, RecordIs, NoneIs DEF Sane
  <2>3. PatchedRecord(row, chain.refresh).title =
          IF made["soap"] = None \/ "title" \in chain.refresh THEN row.title ELSE made["soap"].title
    BY DEF PatchedRecord, Record, Props, Value
  <2>4. made["soap"] = None \/ "extent" \in chain.refresh =>
          PatchedRecord(row, chain.refresh).extent = row.bbox
    BY DEF PatchedRecord, Record, Props, Value
  <2>. QED  BY <2>1, <2>2, <2>3, <2>4
<1>. QED  BY <1>1, <1>2, <1>3, SoapIs

(* The record changes with its task only.                                  *)
LEMMA SoapKept ==
    ASSUME IInv, Running, NEW state \in Results(Task), Task # "soap"
    PROVE  state.made["soap"] = made["soap"]
<1>1. Sane(row, made) /\ chain.how \in {"publish", "features"} /\ external \in Versions
  BY RunningIs
<1>2. CASE chain.how = "publish"
  <2>1. state \in Refresh(Task)
    BY <1>2 DEF Results
  <2>2. CASE Task = "input_chunk"
    <3>1. state = ChunksMerged
      BY <2>1, <2>2 DEF Refresh, RefreshInputChunk, Given
    <3>. QED  BY <1>1, <3>1, SourcesAre DEF ChunksMerged, State, Sane, MadeTypes
  <2>3. CASE Task \in {"file_data", "status"}
    BY <2>1, <2>3 DEF Refresh, RefreshFileData, RefreshStatus, Given, Setting, State
  <2>4. CASE Task \in {"gdal", "table"}
    BY <1>1, <2>1, <2>4, DataTask, SourcesAre DEF Only
  <2>5. CASE Task \in {"qgis", "wfs", "wms", "sld", "thumbnail"}
    BY <1>1, <2>1, <2>5, QgisTask, WfsTask, WmsTask, SldTask, ThumbnailTask, SourcesAre DEF Only, Refresh
  <2>. QED  BY <2>2, <2>3, <2>4, <2>5, RunningIs, SourcesAre
<1>3. CASE chain.how = "features"
  <2>1. state \in FeaturesChanged(Task) /\ Task \in {"file_data", "qgis", "wfs", "wms", "thumbnail"}
    BY <1>3, RunningIs DEF Results, IInv, ChainInv, FeatureTasks
  <2>2. CASE Task = "file_data"
    BY <2>1, <2>2 DEF FeaturesChanged, Given, Setting, State
  <2>3. CASE Task \in {"qgis", "thumbnail"}
    BY <1>1, <2>1, <2>3, QgisTask, ThumbnailTask, SourcesAre DEF Only, FeaturesChanged
  <2>4. CASE Task = "wfs"
    <3>1. state = Unchanged \/ state \in Extended("wfs", DbStore)
      BY <2>1, <2>4 DEF FeaturesChanged
    <3>. QED  BY <1>1, <3>1, ExtendedTask, SourcesAre DEF Only, Unchanged, State
  <2>5. CASE Task = "wms"
    <3>1. state \in Extended("wms", WmsStore)
      BY <2>1, <2>5 DEF FeaturesChanged
    <3>. QED  BY <1>1, <3>1, ExtendedTask, SourcesAre DEF Only
  <2>. QED  BY <2>1, <2>2, <2>3, <2>4, <2>5
<1>. QED  BY <1>1, <1>2, <1>3

LEMMA RunTaskReflects == JInv /\ RunTask => ReflectInv' /\ RecordInv'
<1> SUFFICES ASSUME JInv, RunTask PROVE ReflectInv' /\ RecordInv'
  OBVIOUS
<1>1. /\ Running /\ IInv /\ req = None /\ UNCHANGED <<external, req, clock, survivor, broken, outlived>>
      /\ Task \in chain.tasks /\ Sane(row, made) /\ row # None
      /\ chain.how \in {"publish", "features"} /\ chain \in Chains /\ again \in BOOLEAN
  BY RunningIs DEF JInv, RunTask, IInv, TypeInv
<1>2. PICK state \in Results(Task) : row' = state.row /\ made' = state.made
  BY DEF RunTask
<1>3. /\ chain' = IF Left # {} THEN [chain EXCEPT !.tasks = Left]
                  ELSE ThenQueued([chain EXCEPT !.tasks = {}, !.state = "done"])
      /\ again' = (again /\ Left # {})
  BY DEF RunTask
<1>4. Left = chain.tasks \ {Task}
  BY DEF Left
<1>5. /\ ToPatch = {} /\ ToPatch' = {} /\ PropsToRefresh = chain.refresh
      /\ ToPublish = IF chain.how = "publish" THEN chain.tasks ELSE {}
      /\ ToRefresh = chain.tasks \cup IF again THEN FeatureTasks ELSE {}
  BY <1>1 DEF ToPatch, ToPublish, ToRefresh, PropsToRefresh
<1>6. CASE Left # {}
  <2>1. /\ chain' = [chain EXCEPT !.tasks = Left] /\ again' = again
        /\ chain'.tasks = Left /\ chain'.how = chain.how /\ chain'.state = chain.state
        /\ chain'.refresh = chain.refresh /\ chain'.whole = chain.whole
    BY <1>1, <1>3, <1>6 DEF Chains
  <2>2. /\ ToPublish' = IF chain.how = "publish" THEN Left ELSE {}
        /\ ToRefresh' = Left \cup IF again THEN FeatureTasks ELSE {}
        /\ PropsToRefresh' = chain.refresh
        /\ Whole' <=> Whole
    BY <1>1, <2>1 DEF ToPublish, ToRefresh, PropsToRefresh, Whole, Running
  <2>3. ToRefresh \ {Task} \subseteq ToRefresh'
    BY <1>4, <1>5, <2>2
  <2>4. ReflectInv'
    <3>1. SUFFICES ASSUME Healthy' \/ Whole'
                   PROVE  Reflects(row', made', external, ToPublish', ToRefresh', {})
      BY <1>1, <1>5 DEF ReflectInv
    <3>2. Reflects(row, made, external, ToPublish, ToRefresh, {})
      BY <1>1, <1>5, <2>2, <3>1 DEF JInv, ReflectInv, Healthy
    <3>3. Reflects(row', made', external, ToPublish', ToRefresh \ {Task}, {})
      <4>1. CASE chain.how = "publish"
        <5>1. Reflects(row, made, external, chain.tasks, ToRefresh, {}) /\ chain.tasks \subseteq ToRefresh
          BY <1>5, <3>2, <4>1
        <5>. QED  BY <1>1, <1>2, <2>2, <4>1, <5>1, PublishReflects
      <4>2. CASE chain.how = "features"
        <5>1. Reflects(row, made, external, {}, ToRefresh, {}) /\ chain.tasks \subseteq ToRefresh
          BY <1>5, <3>2, <4>2
        <5>. QED  BY <1>1, <1>2, <2>2, <4>2, <5>1, FeatureReflects
      <4>. QED  BY <1>1, <4>1, <4>2
    <3>. QED  BY <2>3, <3>3, Weaker
  <2>5. RecordInv'
    <3>1. SUFFICES ASSUME Healthy'
                   PROVE  RecordReflects(row', made', ToPublish', ToRefresh', PropsToRefresh', again')
      BY DEF RecordInv
    <3>2. RecordReflects(row, made, ToPublish, ToRefresh, chain.refresh, again)
      BY <1>1, <1>5, <3>1 DEF JInv, RecordInv, Healthy
    <3>3. Task # "soap" /\ "soap" \in Left
      <4>1. CASE chain.how = "publish"
        BY <1>1, <1>4, <1>6, <4>1, RunningIs, TaskIs, SourcesAre DEF IInv, ChainInv, Closed
      <4>2. CASE chain.how = "features"
        BY <1>1, <1>4, <1>6, <4>2, RunningIs, TaskIs DEF IInv, ChainInv, ClosedFeatures, FeatureTasks
      <4>. QED  BY <1>1, <4>1, <4>2
    <3>4. made'["soap"] = made["soap"]
      BY <1>1, <1>2, <3>3, SoapKept
    <3>5. "soap" \in ToRefresh'
      BY <2>2, <3>3
    <3>6. CASE chain.how = "publish"
      <4>1. /\ "soap" \in ToPublish /\ "soap" \in ToPublish'
            /\ made["soap"] # None => "title" \in chain.refresh /\ ("extent" \in chain.refresh \/ again)
        BY <1>4, <1>5, <2>2, <3>2, <3>3, <3>6 DEF RecordReflects
      <4>. QED  BY <2>1, <2>2, <3>4, <3>5, <4>1 DEF RecordReflects
    <3>7. CASE chain.how = "features"
      <4>1. row'.title = row.title
        BY <1>1, <1>2, <3>7, FeatureTask
      <4>. QED  BY <1>5, <2>2, <3>2, <3>4, <3>5, <3>7, <4>1 DEF RecordReflects
    <3>. QED  BY <1>1, <3>6, <3>7
  <2>. QED  BY <2>4, <2>5
<1>7. CASE Left = {}
  <2> DEFINE finished == [chain EXCEPT !.tasks = {}, !.state = "done"]
  <2>1. /\ chain' = IF again THEN FeaturesChain ELSE finished
        /\ again' = FALSE /\ finished.state = "done"
    BY <1>1, <1>3, <1>7 DEF ThenQueued, Chains
  <2>2. /\ ToPublish' = {} /\ ToRefresh' = IF again THEN FeatureTasks ELSE {}
        /\ ~Whole'
    BY <1>1, <2>1 DEF ToPublish, ToRefresh, Whole, Running, FeaturesChain, FeatureTasks
  <2>3. ToRefresh \ {Task} \subseteq ToRefresh'
    BY <1>4, <1>5, <1>7, <2>2
  <2>4. ReflectInv'
    <3>1. SUFFICES ASSUME Healthy'
                   PROVE  Reflects(row', made', external, {}, ToRefresh', {})
      BY <1>1, <1>5, <2>2 DEF ReflectInv
    <3>2. Reflects(row, made, external, ToPublish, ToRefresh, {})
      BY <1>1, <1>5, <3>1 DEF JInv, ReflectInv, Healthy
    <3>3. Reflects(row', made', external, {}, ToRefresh \ {Task}, {})
      <4>1. CASE chain.how = "publish"
        <5>1. Reflects(row, made, external, chain.tasks, ToRefresh, {}) /\ chain.tasks \subseteq ToRefresh
          BY <1>5, <3>2, <4>1
        <5>. QED  BY <1>1, <1>2, <1>7, <4>1, <5>1, PublishReflects
      <4>2. CASE chain.how = "features"
        <5>1. Reflects(row, made, external, {}, ToRefresh, {}) /\ chain.tasks \subseteq ToRefresh
          BY <1>5, <3>2, <4>2
        <5>. QED  BY <1>1, <1>2, <4>2, <5>1, FeatureReflects
      <4>. QED  BY <1>1, <4>1, <4>2
    <3>. QED  BY <2>3, <3>3, Weaker
  <2>5. RecordInv'
    <3>1. SUFFICES ASSUME Healthy'
                   PROVE  RecordReflects(row', made', {}, ToRefresh', PropsToRefresh', again')
      BY <2>2 DEF RecordInv
    <3>2. RecordReflects(row, made, ToPublish, ToRefresh, chain.refresh, again)
      BY <1>1, <1>5, <3>1 DEF JInv, RecordInv, Healthy
    <3>3. Task = "soap" /\ chain.tasks = {"soap"}
      <4>1. CASE chain.how = "publish"
        BY <1>1, <1>4, <1>7, <4>1, RunningIs, TaskIs, SourcesAre DEF IInv, ChainInv, Closed
      <4>2. CASE chain.how = "features"
        BY <1>1, <1>4, <1>7, <4>2, RunningIs, TaskIs DEF IInv, ChainInv, ClosedFeatures, FeatureTasks
      <4>. QED  BY <1>1, <4>1, <4>2
    <3>4. state \in RefreshSoap
      BY <1>2, <3>3 DEF Results, Refresh, FeaturesChanged
    <3>5. /\ row' = row /\ made'["soap"] # None
          /\ made'["soap"].title \in {row.title, made["soap"].title}
          /\ made["soap"] = None \/ "title" \in chain.refresh => made'["soap"].title = row.title
          /\ made["soap"] = None \/ "extent" \in chain.refresh => made'["soap"].extent = row.bbox
      BY <1>1, <1>2, <3>4, RecordAfter, SoapTask
    <3>6. CASE chain.how = "publish"
      BY <1>5, <2>2, <3>2, <3>3, <3>5, <3>6 DEF RecordReflects, FeatureTasks
    <3>7. CASE chain.how = "features"
      <4>1. chain.refresh = {"extent"}
        BY <1>1, <3>7 DEF IInv, ChainInv
      <4>. QED  BY <1>5, <3>2, <3>5, <3>7, <4>1 DEF RecordReflects
    <3>. QED  BY <1>1, <3>6, <3>7
  <2>. QED  BY <2>4, <2>5
<1>. QED  BY <1>6, <1>7

(* What is aborted: nothing else has failed, so the sources reflect each    *)
(* other but for what patch_after_feature_change, queued again, will do.   *)
LEMMA AbortReflects ==
    ASSUME JInv, row # None, req = None, Running => chain.how = "features", Abort, broken' = broken, Healthy'
    PROVE  /\ again => Running
           /\ Reflects(row', made', external, {}, IF Running THEN FeatureTasks ELSE {}, {})
           /\ made'["soap"] # None /\ made'["soap"].title = row'.title
           /\ ~Running => made'["soap"].extent = row'.bbox
<1>1. IInv /\ (again => Running) /\ again \in BOOLEAN
  BY NoneIs DEF JInv, IInv, QueueInv, TypeInv
<1>2. Healthy
  BY DEF Healthy, Abort
<1>3. /\ ToPublish = {} /\ ToPatch = {} /\ PropsToRefresh = chain.refresh
      /\ ToRefresh = (IF again THEN FeatureTasks ELSE {}) \cup (IF Running THEN chain.tasks ELSE {})
  BY DEF ToPublish, ToPatch, PropsToRefresh, ToRefresh
<1>4. Reflects(row, made, external, {}, ToRefresh, {})
  BY <1>2, <1>3 DEF JInv, ReflectInv
<1>5. RecordReflects(row, made, {}, ToRefresh, chain.refresh, again)
  BY <1>2, <1>3 DEF JInv, RecordInv
<1>6. made["soap"] # None /\ made["soap"].title = row.title
  BY <1>5 DEF RecordReflects
<1>7. PICK state \in Aborting : row' = state.row /\ made' = state.made
  BY DEF Abort
<1>8. CASE ~Running
  <2>1. row' = row /\ made' = made /\ ToRefresh = {}
    BY <1>1, <1>3, <1>7, <1>8 DEF Aborting, Unchanged, State
  <2>. QED  BY <1>1, <1>4, <1>5, <1>6, <1>8, <2>1 DEF RecordReflects
<1>9. CASE Running
  <2>1. chain.tasks \subseteq FeatureTasks /\ ToRefresh \subseteq FeatureTasks
    BY <1>1, <1>3, <1>9 DEF IInv, ChainInv
  <2>2. Reflects(row, made, external, {}, FeatureTasks, {})
    BY <1>4, <2>1, Weaker
  <2>3. state = Unchanged \/ state \in Results(Task)
    BY <1>7, <1>9 DEF Aborting
  <2>4. CASE state = Unchanged
    BY <1>1, <1>6, <1>7, <1>9, <2>2, <2>4 DEF Unchanged, State
  <2>5. CASE state \in Results(Task)
    <3>1. Reflects(state.row, state.made, external, {}, FeatureTasks \ {Task}, {})
      BY <1>1, <1>9, <2>1, <2>2, <2>5, FeatureReflects
    <3>2. Reflects(state.row, state.made, external, {}, FeatureTasks, {})
      <4>1. FeatureTasks \ {Task} \subseteq FeatureTasks
        OBVIOUS
      <4>. QED  BY <3>1, <4>1, Weaker
    <3>3. state.row.title = row.title
      BY <1>1, <1>9, <2>5, FeatureTask
    <3>4. state.made["soap"] # None /\ state.made["soap"].title = row.title
      <4>1. CASE Task = "soap"
        <5>1. state \in RefreshSoap
          BY <1>9, <2>5, <4>1 DEF Results, FeaturesChanged
        <5>2. Sane(row, made)
          BY <1>1, <1>9, RunningIs
        <5>. QED  BY <1>6, <5>1, <5>2, RecordAfter
      <4>2. CASE Task # "soap"
        BY <1>1, <1>6, <1>9, <2>5, <4>2, SoapKept
      <4>. QED  BY <4>1, <4>2
    <3>. QED  BY <1>1, <1>7, <1>9, <3>2, <3>3, <3>4
  <2>. QED  BY <2>3, <2>4, <2>5
<1>. QED  BY <1>8, <1>9

(* Metadata that reflects the row is the same everywhere, so that it is    *)
(* patched.                                                                *)
LEMMA SameIs ==
    ASSUME NEW x, NEW ref, Reflects(row', made', x, {}, ref, {}),
           row'.geodata \in {"vector", "raster", "unknown"},
           made'["soap"] # None, made'["soap"].title = row'.title
    PROVE  /\ "title" \in SameOrMissing'
           /\ ref = {} /\ made'["soap"].extent = row'.bbox => "extent" \in SameOrMissing'
<1>1. made'["wms"] # None /\ made'["wms"].title = row'.title /\ (ref = {} => made'["wms"].bbox = row'.bbox)
  BY DEF Reflects, WmsReflect
<1>2. row'.geodata = "vector" =>
         made'["wfs"] # None /\ made'["wfs"].title = row'.title /\ (ref = {} => made'["wfs"].bbox = row'.bbox)
  BY DEF Reflects, WfsReflect
<1>3. Compared("title")' \subseteq {row'.title}
  BY <1>1, <1>2 DEF Compared, PublishedValue, Value
<1>4. ref = {} /\ made'["soap"].extent = row'.bbox => Compared("extent")' \subseteq {row'.bbox}
  BY <1>1, <1>2 DEF Compared, PublishedValue, Value
<1>. QED  BY <1>3, <1>4 DEF SameOrMissing, Props

LEMMA PatchReflects == JInv /\ Patch => ReflectInv' /\ RecordInv'
<1> SUFFICES ASSUME JInv, Patch PROVE ReflectInv' /\ RecordInv'
  OBVIOUS
<1>1. /\ row # None /\ req = None /\ (Running => chain.how = "features") /\ Abort
      /\ again' = (again \/ Running) /\ external' = external /\ broken' = broken
  BY DEF Patch
<1>2. IInv /\ IInv' /\ req' # None /\ req'.start \in {"input_chunk", "input_file", "qgis", "soap"}
      /\ req'.refresh = SameOrMissing'
  BY PatchIs DEF JInv
<1>3. Sane(row', made') /\ chain'.state # "running"
  BY <1>1, <1>2, AbortIs
<1>4. ~Whole'
  BY <1>3 DEF Whole, Running
<1>5. SUFFICES ASSUME Healthy' PROVE ReflectInv' /\ RecordInv'
  BY <1>4 DEF ReflectInv, RecordInv
<1>6. /\ again' <=> Running
      /\ Reflects(row', made', external, {}, IF Running THEN FeatureTasks ELSE {}, {})
      /\ made'["soap"] # None /\ made'["soap"].title = row'.title
      /\ ~Running => made'["soap"].extent = row'.bbox
  BY <1>1, <1>5, AbortReflects
<1>7. /\ ToPublish' = From(req'.start) /\ "soap" \in ToPublish' /\ ToPublish' \subseteq ToRefresh'
      /\ (IF Running THEN FeatureTasks ELSE {}) \subseteq ToRefresh'
      /\ PropsToRefresh' = req'.refresh
  <2>1. "soap" \in From(req'.start)
    BY <1>2, FromIs, SourcesAre
  <2>. QED  BY <1>2, <1>6, <2>1 DEF ToPublish, ToRefresh, PropsToRefresh
<1>8. ReflectInv'
  <2>1. Reflects(row', made', external, ToPublish', ToRefresh', ToPatch')
    BY <1>6, <1>7, Weaker
  <2>. QED  BY <1>1, <2>1 DEF ReflectInv
<1>9. "title" \in SameOrMissing' /\ ("extent" \in SameOrMissing' \/ again')
  <2>1. row'.geodata \in {"vector", "raster", "unknown"}
    BY <1>3 DEF Sane, Rows
  <2>2. Reflects(row', made', external, {}, IF Running THEN FeatureTasks ELSE {}, {})
    BY <1>6
  <2>3. /\ "title" \in SameOrMissing'
        /\ (IF Running THEN FeatureTasks ELSE {}) = {} /\ made'["soap"].extent = row'.bbox =>
              "extent" \in SameOrMissing'
    BY <1>6, <2>1, <2>2, SameIs
  <2>. QED  BY <1>6, <2>3
<1>10. RecordInv'
  BY <1>2, <1>7, <1>9 DEF RecordInv, RecordReflects
<1>. QED  BY <1>8, <1>10

-----------------------------------------------------------------------------
(* Steps of requests, and what reflects what.                              *)

(* A request that goes on with its next step.                              *)
LEMMA GoesOnReflects ==
    ASSUME JInv, req # None, req.how \in {"post", "patch"}, NextStep.do # "start",
           NEW r \in Requests, r.todo = req.todo, r.how = req.how, r.start = req.start, r.refresh = req.refresh,
           req' = Done(r), UNCHANGED <<external, chain, again, broken, outlived>>,
           made'["soap"] = made["soap"], row = None => made["soap"] = None
    PROVE  /\ req.start \in {"input_chunk", "input_file", "qgis", "soap"}
           /\ ToPatch' = {s \in {"wfs", "wms"} : Step("patch", s) \in req.todo /\ NextStep # Step("patch", s)}
           /\ From(req.start) \subseteq ToRefresh'
           /\ RecordInv'
           /\ row # None /\ Healthy' => Reflects(row, made, external, From(req.start), ToRefresh', ToPatch)
           /\ ~Healthy' => ReflectInv'
           /\ Reflects(row', made', external, From(req.start), ToRefresh', ToPatch') => ReflectInv'
<1>1. IInv /\ ~Running /\ ~Running' /\ NextStep \in req.todo /\ MadeTypes(made)
  BY DoingIs DEF JInv, Running
<1>2. req.start \in {"input_chunk", "input_file", "qgis", "soap"}
  <2>1. req.start # None
    BY <1>1, DoingIs, NoneIs DEF PostInv, PatchInv
  <2>. QED  BY <1>1, <2>1, DoingIs DEF Requests
<1>3. req.todo # {NextStep}
  <2>1. Step("start", "row") \in req.todo
    BY <1>1, DoingIs DEF PostInv, PatchInv
  <2>. QED  BY <2>1 DEF Step
<1>4. /\ req' # None /\ req'.todo = req.todo \ {NextStep} /\ req'.how = req.how
      /\ req'.start = req.start /\ req'.refresh = req.refresh
  BY <1>1, <1>3, RemainsIs
<1>5. /\ ToPublish = From(req.start) /\ ToPublish' = From(req.start)
      /\ ToRefresh = From(req.start) \cup (IF again THEN FeatureTasks ELSE {}) /\ ToRefresh' = ToRefresh
      /\ PropsToRefresh = req.refresh /\ PropsToRefresh' = req.refresh
  BY <1>1, <1>4 DEF ToPublish, ToRefresh, PropsToRefresh
<1>6. ToPatch' = {s \in {"wfs", "wms"} : Step("patch", s) \in req.todo /\ NextStep # Step("patch", s)}
  BY <1>4 DEF ToPatch
<1>7. row # None /\ Healthy' => Healthy
  BY <1>4 DEF Healthy
<1>8. row # None /\ Healthy' => Reflects(row, made, external, From(req.start), ToRefresh', ToPatch)
  BY <1>5, <1>7 DEF JInv, ReflectInv
<1>9. RecordInv'
  <2>1. SUFFICES ASSUME Healthy'
                 PROVE  RecordReflects(row', made', From(req.start), ToRefresh', req.refresh, again)
    BY <1>5 DEF RecordInv
  <2>2. "soap" \in From(req.start) /\ "soap" \in ToRefresh'
    BY <1>2, <1>5, FromIs, SourcesAre
  <2>3. CASE row = None
    BY <2>2, <2>3 DEF RecordReflects
  <2>4. CASE row # None
    <3>1. RecordReflects(row, made, From(req.start), ToRefresh, req.refresh, again)
      BY <1>5, <1>7, <2>1, <2>4 DEF JInv, RecordInv
    <3>. QED  BY <2>2, <3>1 DEF RecordReflects
  <2>. QED  BY <2>3, <2>4
<1>10. ~Whole'
  BY <1>1 DEF Whole
<1>11. Reflects(row', made', external, From(req.start), ToRefresh', ToPatch') => ReflectInv'
  BY <1>5 DEF ReflectInv
<1>12. ~Healthy' => ReflectInv'
  BY <1>10 DEF ReflectInv
<1>. QED  BY <1>2, <1>5, <1>6, <1>8, <1>9, <1>11, <1>12

(* What is made again from the file, or from the style.                    *)
LEMMA MadeAgain ==
    ASSUME NEW start \in {"input_chunk", "input_file", "qgis"}, NEW r, NEW m, NEW x, NEW ref, NEW patches,
           From(start) \subseteq ref, start = "qgis" => DataReflect(r, m, x, From(start), ref)
    PROVE  Reflects(r, m, x, From(start), ref, patches)
<1>1. CASE start \in {"input_chunk", "input_file"}
  <2>1. {"gdal", "file_data", "qgis", "wfs", "wms", "sld", "status", "thumbnail"} \subseteq From(start)
    BY <1>1, FromIs, SourcesAre
  <2>. QED  BY <2>1, AllAhead
<1>2. CASE start = "qgis"
  <2>1. {"qgis", "wfs", "wms", "sld", "status", "thumbnail"} \subseteq From(start)
    BY <1>2, FromIs
  <2>. QED  BY <1>2, <2>1, StylesAhead
<1>. QED  BY <1>1, <1>2

LEMMA DeleteSourceReflects == JInv /\ DeleteSource => ReflectInv' /\ RecordInv'
<1> SUFFICES ASSUME JInv, DeleteSource PROVE ReflectInv' /\ RecordInv'
  OBVIOUS
<1> DEFINE r == [req EXCEPT !.kept = Kept(On)]
<1>1. /\ Doing("delete") /\ req # None /\ req' = Done(r) /\ IInv /\ NextStep.do = "delete"
      /\ UNCHANGED <<external, chain, again, clock, survivor, broken, outlived>>
  BY DEF DeleteSource, Doing, JInv
<1>2. Kept(On) \in {None} \cup Styles
  BY <1>1, DoingIs DEF Kept, MadeTypes, Requests
<1>3. /\ r \in Requests /\ r.todo = req.todo /\ r.how = req.how /\ r.start = req.start /\ r.refresh = req.refresh
  BY <1>1, <1>2, DoingIs DEF Requests
<1> HIDE DEF r
<1>4. row # None /\ NextStep = Step("delete", On) /\ ~Running' /\ req.how \in {"patch", "delete"}
  BY <1>1, LaterGone, DoingIs DEF Running
<1>5. CASE req.how = "delete"
  <2>1. ~Healthy'
    <3>1. CASE On = "row"
      BY <3>1 DEF DeleteSource, Healthy
    <3>2. CASE On # "row"
      <4>1. req.todo # {NextStep}
        BY <1>1, <1>4, <1>5, <3>2, DoingIs DEF DeleteInv, Deleting, Step
      <4>2. req' # None /\ req'.how = "delete"
        BY <1>1, <1>3, <1>5, <4>1, RemainsIs
      <4>. QED  BY <4>2 DEF Healthy
    <3>. QED  BY <3>1, <3>2
  <2>. QED  BY <1>4, <2>1 DEF ReflectInv, RecordInv, Whole
<1>6. CASE req.how = "patch"
  <2>1. /\ PatchedFrom \in {"input_file", "qgis"} /\ On \in From(PatchedFrom) \ {"soap"}
    BY <1>1, <1>6, LaterGone
  <2>2. On # "row"
    BY <2>1, FromIs, SourcesAre
  <2>3. Only(made', {On}) /\ (On # "file_data" => row' = row)
    BY <1>1, <2>2, DeletedSound
  <2>4. made'["soap"] = made["soap"]
    BY <2>1, <2>3, SourcesAre DEF Only
  <2>5. /\ req.start \in {"input_chunk", "input_file", "qgis", "soap"}
        /\ From(req.start) \subseteq ToRefresh'
        /\ RecordInv'
        /\ Healthy' => Reflects(row, made, external, From(req.start), ToRefresh', ToPatch)
        /\ ~Healthy' => ReflectInv'
        /\ Reflects(row', made', external, From(req.start), ToRefresh', ToPatch') => ReflectInv'
    BY <1>1, <1>3, <1>4, <1>6, <2>4, GoesOnReflects
  <2>6. req.start \in {"input_chunk", "input_file", "qgis"}
    BY <2>1, <2>5 DEF PatchedFrom
  <2>7. Healthy' /\ req.start = "qgis" => DataReflect(row', made', external, From(req.start), ToRefresh')
    <3>1. SUFFICES ASSUME Healthy', req.start = "qgis"
                   PROVE  DataReflect(row', made', external, From(req.start), ToRefresh')
      OBVIOUS
    <3>2. On \in {"qgis", "wfs", "wms", "sld", "status", "thumbnail"}
      BY <2>1, <3>1, FromIs DEF PatchedFrom
    <3>3. /\ row' = row /\ made'["gdal"] = made["gdal"] /\ made'["table"] = made["table"]
          /\ made'["input_file"] = made["input_file"]
      BY <2>3, <3>2, SourcesAre DEF Only
    <3>. QED  BY <2>5, <3>1, <3>3 DEF Reflects, DataReflect, DataOf
  <2>8. Healthy' => Reflects(row', made', external, From(req.start), ToRefresh', ToPatch')
    BY <2>5, <2>6, <2>7, MadeAgain
  <2>. QED  BY <2>5, <2>8
<1>. QED  BY <1>4, <1>5, <1>6

LEMMA RaisedReflects ==
    ASSUME IInv, req # None, Raised
    PROVE  ReflectInv' /\ RecordInv'
<1>1. ~Running /\ again \in BOOLEAN
  BY DoingIs DEF IInv, TypeInv
<1>2. broken' = TRUE /\ chain' = ThenQueued(chain)
  BY DEF Raised
<1>3. ~Whole'
  BY <1>1, <1>2 DEF Whole, Running, ThenQueued, FeaturesChain
<1>. QED  BY <1>2, <1>3 DEF ReflectInv, RecordInv, Healthy

LEMMA SaveReflects == JInv /\ Save => ReflectInv' /\ RecordInv'
<1> SUFFICES ASSUME JInv, Save PROVE ReflectInv' /\ RecordInv'
  OBVIOUS
<1>1. /\ Doing("save") /\ req # None /\ req' = Done(req) /\ IInv /\ NextStep.do = "save"
      /\ made' = [made EXCEPT
                  !["input_style"] = StyleToSave,
                  !["input_chunk"] = IF req.data.late THEN req.data.file ELSE @,
                  !["input_file"]  = IF req.data.file = None \/ req.data.late THEN @ ELSE req.data.file]
      /\ row' = IF req.how = "patch" THEN [row EXCEPT !.status = "PREPARING"] ELSE row
      /\ UNCHANGED <<external, chain, again, clock, survivor, broken, outlived>>
  BY DEF Save, Doing, JInv
<1>2. /\ made'["input_file"] = IF req.data.file = None \/ req.data.late THEN made["input_file"] ELSE req.data.file
      /\ \A t \in Products \ Sent : made'[t] = made[t]
  BY <1>1, DoingIs, SourcesAre DEF MadeTypes, Sent
<1>3. made'["gdal"] = made["gdal"] /\ made'["table"] = made["table"] /\ made'["soap"] = made["soap"]
  BY <1>2, SourcesAre DEF Sent
<1>4. NextStep = Step("save", "row") /\ Step("save", "row") \in req.todo /\ req.how \in {"post", "patch"}
  BY <1>1, DoingIs DEF AllSteps, Steps, Step, DeleteInv
<1>5. /\ req.how = "post" => row = None /\ made["soap"] = None
      /\ req.how = "patch" => PatchedFrom # "soap" /\ row # None
  BY <1>1, <1>4, DoingIs, SourcesAre DEF PostInv, PatchInv, Sent
<1>6. /\ req.start \in {"input_chunk", "input_file", "qgis", "soap"}
      /\ From(req.start) \subseteq ToRefresh'
      /\ RecordInv'
      /\ row # None /\ Healthy' => Reflects(row, made, external, From(req.start), ToRefresh', ToPatch)
      /\ ~Healthy' => ReflectInv'
      /\ Reflects(row', made', external, From(req.start), ToRefresh', ToPatch') => ReflectInv'
  <2>1. req \in Requests /\ (row = None => made["soap"] = None) /\ NextStep.do # "start"
    BY <1>1, <1>4, <1>5, DoingIs
  <2>. QED  BY <1>1, <1>3, <1>4, <2>1, GoesOnReflects
<1>7. CASE req.how = "post"
  BY <1>1, <1>5, <1>6, <1>7 DEF Healthy
<1>8. CASE req.how = "patch"
  <2>1. req.start \in {"input_chunk", "input_file", "qgis"}
    BY <1>5, <1>6, <1>8 DEF PatchedFrom
  <2>2. Healthy' /\ req.start = "qgis" => DataReflect(row', made', external, From(req.start), ToRefresh')
    <3>1. SUFFICES ASSUME Healthy', req.start = "qgis"
                   PROVE  DataReflect(row', made', external, From(req.start), ToRefresh')
      OBVIOUS
    <3>2. req.data.file = None
      BY <1>1, <1>8, <3>1, DoingIs DEF PatchInv, PatchedFrom
    <3>3. row \in Rows /\ row # None
      BY <1>1, <1>5, <1>8, DoingIs
    <3>4. row'.bbox = row.bbox /\ row'.source = row.source /\ row'.geodata = row.geodata
      BY <1>1, <1>8, <3>3 DEF Rows
    <3>5. "status" \in From(req.start)
      BY <3>1, FromIs
    <3>6. DataReflect(row, made, external, From(req.start), ToRefresh')
      BY <1>6, <3>1, <3>3 DEF Reflects
    <3>. QED  BY <1>2, <1>3, <3>2, <3>4, <3>5, <3>6 DEF DataReflect, DataOf
  <2>3. Healthy' => Reflects(row', made', external, From(req.start), ToRefresh', ToPatch')
    BY <1>6, <2>1, <2>2, MadeAgain
  <2>. QED  BY <1>6, <2>3
<1>. QED  BY <1>4, <1>7, <1>8

LEMMA PostRowReflects == JInv /\ PostRow => ReflectInv' /\ RecordInv'
<1> SUFFICES ASSUME JInv, PostRow PROVE ReflectInv' /\ RecordInv'
  OBVIOUS
<1>1. /\ Doing("post") /\ req # None /\ req' = Done(req) /\ NextStep.do = "post" /\ IInv
      /\ UNCHANGED <<made, external, chain, again, clock, survivor, broken, outlived>>
  BY DEF PostRow, Doing, JInv
<1>2. /\ req.how = "post" /\ req.start \in {"input_file", "input_chunk"} /\ made["soap"] = None
  BY <1>1, LaterSteps, DoingIs, SourcesAre DEF PostInv, Sent
<1>3. /\ From(req.start) \subseteq ToRefresh' /\ RecordInv'
      /\ Reflects(row', made', external, From(req.start), ToRefresh', ToPatch') => ReflectInv'
  <2>1. req \in Requests /\ NextStep.do # "start"
    BY <1>1, DoingIs
  <2>. QED  BY <1>1, <1>2, <2>1, GoesOnReflects
<1>4. Reflects(row', made', external, From(req.start), ToRefresh', ToPatch')
  BY <1>2, <1>3, MadeAgain
<1>. QED  BY <1>3, <1>4

LEMMA PatchRowReflects == JInv /\ PatchRow => ReflectInv' /\ RecordInv'
<1> SUFFICES ASSUME JInv, PatchRow PROVE ReflectInv' /\ RecordInv'
  OBVIOUS
<1> DEFINE style == IF req.start = "soap" THEN row.style ELSE Lang(made["input_style"])
<1>1. /\ Doing("patch") /\ req # None /\ req' = Done(req) /\ NextStep.do = "patch" /\ On = "row" /\ IInv
      /\ row' = [row EXCEPT !.title = req.title, !.style = style,
                            !.source = req.data.source, !.geodata = req.data.geodata]
      /\ UNCHANGED <<made, external, chain, again, clock, survivor, broken, outlived>>
  BY DEF PatchRow, Doing, JInv
<1>2. /\ req.data # None /\ req.how = "patch" /\ row # None /\ row \in Rows
      /\ req.start = "soap" <=> PatchedFrom = "soap"
  BY <1>1, LaterSteps, DoingIs
<1>3. PatchedFrom # "input_file" => req.data.source = row.source /\ req.data.geodata = row.geodata
  BY <1>1, <1>2, DoingIs DEF PatchInv
<1>4. /\ row'.bbox = row.bbox /\ row'.status = row.status /\ row'.style = style
      /\ row'.source = req.data.source /\ row'.geodata = req.data.geodata
  BY <1>1, <1>2 DEF Rows
<1>5. /\ req.start \in {"input_chunk", "input_file", "qgis", "soap"}
      /\ ToPatch' = {s \in {"wfs", "wms"} : Step("patch", s) \in req.todo /\ NextStep # Step("patch", s)}
      /\ From(req.start) \subseteq ToRefresh'
      /\ RecordInv'
      /\ row # None /\ Healthy' => Reflects(row, made, external, From(req.start), ToRefresh', ToPatch)
      /\ ~Healthy' => ReflectInv'
      /\ Reflects(row', made', external, From(req.start), ToRefresh', ToPatch') => ReflectInv'
  <2>1. req \in Requests /\ (row = None => made["soap"] = None) /\ NextStep.do # "start"
    BY <1>1, <1>2, DoingIs
  <2>. QED  BY <1>1, <1>2, <2>1, GoesOnReflects
<1> SUFFICES ASSUME Healthy' PROVE ReflectInv' /\ RecordInv'
  BY <1>5
<1> HIDE DEF style
<1>6. CASE req.start # "soap"
  <2>1. req.start = "qgis" => DataReflect(row', made', external, From(req.start), ToRefresh')
    <3>1. SUFFICES ASSUME req.start = "qgis" PROVE DataReflect(row', made', external, From(req.start), ToRefresh')
      OBVIOUS
    <3>2. row'.source = row.source /\ row'.geodata = row.geodata
      BY <1>3, <1>4, <3>1 DEF PatchedFrom
    <3>. QED  BY <1>1, <1>2, <1>4, <1>5, <3>2 DEF Reflects, DataReflect, DataOf
  <2>2. Reflects(row', made', external, From(req.start), ToRefresh', ToPatch')
    BY <1>5, <1>6, <2>1, MadeAgain
  <2>. QED  BY <1>5, <2>2
<1>7. CASE req.start = "soap"
  <2>1. row'.source = row.source /\ row'.geodata = row.geodata /\ row'.style = row.style
    BY <1>2, <1>3, <1>4, <1>7 DEF style
  <2>2. "wfs" \in ToPatch' /\ "wms" \in ToPatch'
    <3>1. NextStep = Step("patch", "row") /\ NextStep \in req.todo
      BY <1>1, DoingIs
    <3>2. Step("patch", "wfs") \in req.todo /\ Step("patch", "wms") \in req.todo
      BY <1>1, <1>2, <1>7, <3>1, DoingIs DEF PatchInv
    <3>. QED  BY <1>5, <3>1, <3>2 DEF Step
  <2>3. Reflects(row, made, external, From(req.start), ToRefresh', ToPatch)
    BY <1>2, <1>5
  <2>4. DataReflect(row', made', external, From(req.start), ToRefresh')
    BY <1>1, <1>4, <2>1, <2>3 DEF Reflects, DataReflect, DataOf
  <2>5. StylesReflect(row', made', From(req.start), ToRefresh')
    BY <1>1, <1>4, <2>1, <2>3 DEF Reflects, StylesReflect, ProjectIs, DbStoreOf
  <2>6. /\ WfsReflect(row', made', From(req.start), ToRefresh', ToPatch')
        /\ WmsReflect(row', made', From(req.start), ToRefresh', ToPatch')
    BY <1>1, <1>4, <2>1, <2>2, <2>3 DEF Reflects, WfsReflect, WmsReflect
  <2>7. ThumbnailReflects(row', made', external, ToRefresh')
    BY <1>1, <2>1, <2>3 DEF Reflects, ThumbnailReflects, DataOf
  <2>8. Reflects(row', made', external, From(req.start), ToRefresh', ToPatch')
    BY <2>4, <2>5, <2>6, <2>7 DEF Reflects
  <2>. QED  BY <1>5, <2>8
<1>. QED  BY <1>6, <1>7

LEMMA PatchGeoServerReflects == JInv /\ PatchGeoServer => ReflectInv' /\ RecordInv'
<1> SUFFICES ASSUME JInv, PatchGeoServer PROVE ReflectInv' /\ RecordInv'
  OBVIOUS
<1>1. /\ Doing("patch") /\ req # None /\ req' = Done(req) /\ NextStep.do = "patch" /\ On \in {"wfs", "wms"}
      /\ made' = IF made[On] = None THEN made ELSE [made EXCEPT ![On].title = row.title]
      /\ UNCHANGED <<row, external, chain, again, clock, survivor, broken, outlived>> /\ IInv
  BY DEF PatchGeoServer, Doing, JInv
<1>2. req.how = "patch" /\ row # None /\ row \in Rows
  BY <1>1, LaterSteps, DoingIs
<1>3. NextStep = Step("patch", On) /\ MadeTypes(made)
  BY <1>1, DoingIs
<1>4. /\ Only(made', {On})
      /\ made[On] = None => made' = made
      /\ made[On] # None => made'[On] # None /\ made'[On].title = row.title /\ made'[On].bbox = made[On].bbox
  <2>1. CASE made[On] = None
    BY <1>1, <2>1 DEF Only
  <2>2. CASE made[On] # None
    <3> DEFINE x == [made[On] EXCEPT !.title = row.title]
    <3>1. x \in Layers /\ x # None /\ x.title = row.title /\ x.bbox = made[On].bbox
      <4>1. made[On] \in Layers /\ row.title \in Versions
        BY <1>1, <1>2, <1>3, <2>2 DEF MadeTypes, Rows
      <4>. QED  BY <4>1, NoneIs DEF Layers
    <3>2. made' = [made EXCEPT ![On] = x]
      BY <1>1, <2>2
    <3> HIDE DEF x
    <3>3. made'[On] = x /\ Only(made', {On})
      <4>1. On \in Products
        BY <1>1, SourcesAre
      <4>. QED  BY <1>3, <3>2, <4>1, MakingIs
    <3>. QED  BY <2>2, <3>1, <3>3
  <2>. QED  BY <2>1, <2>2
<1>5. /\ made'["gdal"] = made["gdal"] /\ made'["table"] = made["table"]
      /\ made'["input_file"] = made["input_file"] /\ made'["input_style"] = made["input_style"]
      /\ made'["thumbnail"] = made["thumbnail"] /\ made'["qgis"] = made["qgis"]
      /\ made'["sld"] = made["sld"] /\ made'["soap"] = made["soap"]
      /\ On # "wfs" => made'["wfs"] = made["wfs"]
      /\ On # "wms" => made'["wms"] = made["wms"]
  BY <1>1, <1>4, SourcesAre DEF Only
<1>6. /\ ToPatch' = {s \in {"wfs", "wms"} : Step("patch", s) \in req.todo /\ NextStep # Step("patch", s)}
      /\ RecordInv'
      /\ row # None /\ Healthy' => Reflects(row, made, external, From(req.start), ToRefresh', ToPatch)
      /\ ~Healthy' => ReflectInv'
      /\ Reflects(row', made', external, From(req.start), ToRefresh', ToPatch') => ReflectInv'
  <2>1. req \in Requests /\ (row = None => made["soap"] = None) /\ NextStep.do # "start"
    BY <1>1, <1>2, DoingIs
  <2>. QED  BY <1>1, <1>2, <1>5, <2>1, GoesOnReflects
<1>7. ToPatch' = ToPatch \ {On}
  BY <1>1, <1>3, <1>6 DEF ToPatch, Step
<1> SUFFICES ASSUME Healthy' PROVE ReflectInv' /\ RecordInv'
  BY <1>6
<1>8. Reflects(row, made, external, From(req.start), ToRefresh', ToPatch)
  BY <1>2, <1>6
<1>9. DataReflect(row, made', external, From(req.start), ToRefresh')
  BY <1>5, <1>8 DEF Reflects, DataReflect, DataOf
<1>10. StylesReflect(row, made', From(req.start), ToRefresh')
  BY <1>5, <1>8 DEF Reflects, StylesReflect, ProjectIs
<1>11. WfsReflect(row, made', From(req.start), ToRefresh', ToPatch')
  <2>1. WfsReflect(row, made, From(req.start), ToRefresh', ToPatch)
    BY <1>8 DEF Reflects
  <2>2. CASE On = "wfs"
    <3>1. /\ made'["wfs"] = None <=> made["wfs"] = None
          /\ made'["wfs"] # None => made'["wfs"].title = row.title /\ made'["wfs"].bbox = made["wfs"].bbox
      BY <1>4, <2>2
    <3>. QED  BY <2>1, <3>1 DEF WfsReflect
  <2>3. CASE On # "wfs"
    BY <1>5, <1>7, <2>1, <2>3 DEF WfsReflect
  <2>. QED  BY <2>2, <2>3
<1>12. WmsReflect(row, made', From(req.start), ToRefresh', ToPatch')
  <2>1. WmsReflect(row, made, From(req.start), ToRefresh', ToPatch)
    BY <1>8 DEF Reflects
  <2>2. CASE On = "wms"
    <3>1. /\ made'["wms"] = None <=> made["wms"] = None
          /\ made'["wms"] # None => made'["wms"].title = row.title /\ made'["wms"].bbox = made["wms"].bbox
      BY <1>4, <2>2
    <3>. QED  BY <2>1, <3>1 DEF WmsReflect
  <2>3. CASE On # "wms"
    BY <1>5, <1>7, <2>1, <2>3 DEF WmsReflect
  <2>. QED  BY <2>2, <2>3
<1>13. ThumbnailReflects(row, made', external, ToRefresh')
  BY <1>5, <1>8 DEF Reflects, ThumbnailReflects, DataOf, StyleOf
<1>14. Reflects(row', made', external, From(req.start), ToRefresh', ToPatch')
  BY <1>1, <1>9, <1>10, <1>11, <1>12, <1>13 DEF Reflects
<1>. QED  BY <1>6, <1>14

LEMMA StartChainReflects == JInv /\ StartChain => ReflectInv' /\ RecordInv'
<1> SUFFICES ASSUME JInv, StartChain PROVE ReflectInv' /\ RecordInv'
  OBVIOUS
<1>1. /\ Doing("start") /\ req # None /\ NextStep.do = "start" /\ req' = Done(req) /\ IInv
      /\ chain' = PublishingChain("publish", req.start, req.refresh)
      /\ UNCHANGED <<row, made, external, again, clock, survivor, broken, outlived>>
  BY DEF StartChain, Doing, JInv
<1>2. /\ req' = None /\ row # None /\ req.how \in {"post", "patch"} /\ ~Running
      /\ req.todo = {Step("start", "row")}
  BY <1>1, LaterSteps, DoingIs DEF Done
<1> DEFINE tasks == From(req.start) \cap Refreshable
<1>3. /\ tasks \subseteq Refreshable
      /\ req.start \in {"input_chunk", "input_file", "qgis", "soap"}
  BY <1>1, StartsWhole
<1>4. /\ chain'.tasks = tasks /\ chain'.how = "publish" /\ chain'.state = "running"
      /\ chain'.refresh = req.refresh /\ chain'.whole = (req.start \in {"input_chunk", "input_file"})
  BY <1>1 DEF PublishingChain
<1>5. /\ ToPatch = {} /\ ToPatch' = {} /\ PropsToRefresh = req.refresh /\ PropsToRefresh' = req.refresh
      /\ ToPublish = From(req.start) /\ ToPublish' = tasks
      /\ ToRefresh = From(req.start) \cup (IF again THEN FeatureTasks ELSE {})
      /\ ToRefresh' = ToRefresh \cap Refreshable
  <2>1. Running' /\ FeatureTasks \subseteq Refreshable
    BY <1>4, SourcesAre DEF Running, FeatureTasks
  <2>2. ToPatch = {} /\ ToPatch' = {}
    BY <1>1, <1>2 DEF ToPatch, Step
  <2>3. /\ PropsToRefresh = req.refresh /\ PropsToRefresh' = req.refresh
        /\ ToPublish = From(req.start) /\ ToPublish' = tasks
    BY <1>1, <1>2, <1>4, <2>1 DEF PropsToRefresh, ToPublish
  <2>4. ToRefresh = From(req.start) \cup (IF again THEN FeatureTasks ELSE {})
    BY <1>2, <2>3 DEF ToRefresh
  <2>5. ToRefresh' = tasks \cup (IF again THEN FeatureTasks ELSE {})
    BY <1>1, <1>4, <2>1, <2>3 DEF ToRefresh
  <2>. QED  BY <2>1, <2>2, <2>3, <2>4, <2>5
<1>6. Healthy' => Healthy
  BY <1>1, <1>2 DEF Healthy
<1>7. ReflectInv'
  <2>1. CASE Healthy'
    <3>1. Reflects(row, made, external, From(req.start), ToRefresh, {})
      BY <1>5, <1>6, <2>1 DEF JInv, ReflectInv
    <3>2. Reflects(row, made, external, tasks, ToRefresh', {})
      BY <1>5, <3>1, RefreshableOnly
    <3>. QED  BY <1>1, <1>5, <3>2 DEF ReflectInv
  <2>2. CASE Whole'
    <3>1. req.start \in {"input_chunk", "input_file"}
      BY <1>4, <2>2 DEF Whole
    <3>2. {"gdal", "file_data", "qgis", "wfs", "wms", "sld", "status", "thumbnail"} \subseteq tasks
      BY <3>1, FromIs, SourcesAre
    <3>3. tasks \subseteq ToRefresh'
      BY <1>5
    <3>4. Reflects(row, made, external, tasks, ToRefresh', {})
      BY <3>2, <3>3, AllAhead
    <3>. QED  BY <1>1, <1>5, <3>4 DEF ReflectInv
  <2>. QED  BY <2>1, <2>2 DEF ReflectInv
<1>8. RecordInv'
  <2>1. SUFFICES ASSUME Healthy' PROVE RecordReflects(row, made, tasks, ToRefresh', req.refresh, again)
    BY <1>1, <1>5 DEF RecordInv
  <2>2. RecordReflects(row, made, From(req.start), ToRefresh, req.refresh, again)
    BY <1>5, <1>6, <2>1 DEF JInv, RecordInv
  <2>3. "soap" \in From(req.start) /\ "soap" \in tasks /\ "soap" \in ToRefresh'
    BY <1>3, <1>5, FromIs, SourcesAre
  <2>. QED  BY <2>2, <2>3 DEF RecordReflects
<1>. QED  BY <1>7, <1>8

LEMMA TransactionReflects == JInv /\ Transaction => ReflectInv' /\ RecordInv'
<1> SUFFICES ASSUME JInv, Transaction PROVE ReflectInv' /\ RecordInv'
  OBVIOUS
<1>1. /\ row # None /\ (req # None => req.how # "delete") /\ IInv /\ made["wfs"] # None
      /\ UNCHANGED <<row, req, survivor, broken, outlived>>
  BY DEF Transaction, JInv
<1>2. made' = made \/ made' = [made EXCEPT !["table"] = clock + 1]
  BY DEF Transaction
<1>3. \/ (req # None \/ Running) /\ again' = TRUE /\ chain' = chain
      \/ req = None /\ ~Running /\ chain' = FeaturesChain /\ again' = again
  BY DEF Transaction
<1>4. \A t \in Products \ {"table"} : made'[t] = made[t]
  <2>1. MadeTypes(made) /\ "table" \in Products
    BY <1>1, SourcesAre DEF IInv, TypeInv
  <2>. QED  BY <1>2, <2>1, MakingIs DEF Only
<1>5. /\ made'["gdal"] = made["gdal"] /\ made'["input_file"] = made["input_file"]
      /\ made'["input_style"] = made["input_style"] /\ made'["qgis"] = made["qgis"]
      /\ made'["wfs"] = made["wfs"] /\ made'["wms"] = made["wms"]
      /\ made'["sld"] = made["sld"] /\ made'["soap"] = made["soap"]
  BY <1>4, SourcesAre
<1>6. again \in BOOLEAN /\ FeaturesChain.state = "running" /\ FeaturesChain.how = "features"
      /\ FeaturesChain.tasks = FeatureTasks /\ FeaturesChain.whole = FALSE
  BY <1>1 DEF IInv, TypeInv, FeaturesChain, FeatureTasks
<1>7. /\ ToPublish' = ToPublish /\ ToPatch' = ToPatch
      /\ ToRefresh \subseteq ToRefresh' /\ FeatureTasks \subseteq ToRefresh'
      /\ ToPublish # {} => PropsToRefresh' = PropsToRefresh /\ again'
      /\ Whole' => Whole
  <2>1. CASE (req # None \/ Running) /\ again' = TRUE /\ chain' = chain
    BY <1>1, <1>6, <2>1 DEF ToPublish, ToPatch, ToRefresh, PropsToRefresh, Whole, Running
  <2>2. CASE req = None /\ ~Running /\ chain' = FeaturesChain /\ again' = again
    <3>1. ToPublish = {} /\ ToPublish' = {} /\ ToPatch = {} /\ ToPatch' = {} /\ ~Whole'
      BY <1>1, <1>6, <2>2 DEF ToPublish, ToPatch, Whole
    <3>2. ToRefresh \subseteq FeatureTasks
      BY <2>2, <3>1 DEF ToRefresh
    <3>3. FeatureTasks \subseteq ToRefresh'
      BY <1>6, <2>2 DEF ToRefresh, Running
    <3>. QED  BY <3>1, <3>2, <3>3
  <2>. QED  BY <1>3, <2>1, <2>2
<1>8. Healthy' => Healthy
  BY <1>1 DEF Healthy
<1>9. ReflectInv'
  <2>1. SUFFICES ASSUME Healthy \/ Whole
                 PROVE  Reflects(row, made', external', ToPublish, ToRefresh', ToPatch)
    BY <1>1, <1>7, <1>8 DEF ReflectInv
  <2>2. Reflects(row, made, external, ToPublish, ToRefresh', ToPatch)
    <3>1. Reflects(row, made, external, ToPublish, ToRefresh, ToPatch)
      BY <2>1 DEF JInv, ReflectInv
    <3>. QED  BY <1>7, <3>1, Weaker
  <2>3. "file_data" \in ToRefresh' /\ "qgis" \in ToRefresh' /\ "thumbnail" \in ToRefresh'
    BY <1>7 DEF FeatureTasks
  <2>4. DataReflect(row, made', external', ToPublish, ToRefresh')
    BY <1>5, <2>2, <2>3 DEF Reflects, DataReflect
  <2>5. StylesReflect(row, made', ToPublish, ToRefresh')
    BY <1>5, <2>2, <2>3 DEF Reflects, StylesReflect
  <2>6. WfsReflect(row, made', ToPublish, ToRefresh', ToPatch) /\ WmsReflect(row, made', ToPublish, ToRefresh', ToPatch)
    BY <1>5, <2>2 DEF Reflects, WfsReflect, WmsReflect
  <2>7. ThumbnailReflects(row, made', external', ToRefresh')
    BY <2>3 DEF ThumbnailReflects
  <2>. QED  BY <2>4, <2>5, <2>6, <2>7 DEF Reflects
<1>10. RecordInv'
  <2>1. SUFFICES ASSUME Healthy
                 PROVE  RecordReflects(row, made', ToPublish, ToRefresh', PropsToRefresh', again')
    BY <1>1, <1>7, <1>8 DEF RecordInv
  <2>2. RecordReflects(row, made, ToPublish, ToRefresh, PropsToRefresh, again)
    BY <2>1 DEF JInv, RecordInv
  <2>3. "soap" \in ToRefresh'
    BY <1>7 DEF FeatureTasks
  <2>. QED  BY <1>5, <1>7, <2>2, <2>3 DEF RecordReflects
<1>. QED  BY <1>9, <1>10

LEMMA SurvivorReflects == JInv /\ (SurvivorWrites \/ SurvivorChecks) => ReflectInv' /\ RecordInv'
<1> SUFFICES ASSUME JInv, SurvivorWrites \/ SurvivorChecks PROVE ReflectInv' /\ RecordInv'
  OBVIOUS
<1>1. /\ survivor # None /\ IInv
      /\ UNCHANGED <<row, external, req, chain, again, clock, broken, outlived>>
  BY DEF SurvivorWrites, SurvivorChecks, JInv
<1>2. ~Healthy /\ ~Healthy'
  BY <1>1 DEF IInv, QueueInv, Healthy
<1>3. made' = made \/ \E x : made' = [made EXCEPT !["soap"] = x]
  BY DEF SurvivorWrites, SurvivorChecks
<1>4. \A t \in Products \ {"soap"} : made'[t] = made[t]
  <2>1. MadeTypes(made) /\ "soap" \in Products
    BY <1>1, SourcesAre DEF IInv, TypeInv
  <2>2. ASSUME NEW x, made' = [made EXCEPT !["soap"] = x]
        PROVE  \A t \in Products \ {"soap"} : made'[t] = made[t]
    BY <2>1, <2>2, MakingIs DEF Only
  <2>. QED  BY <1>3, <2>2
<1>5. /\ made'["gdal"] = made["gdal"] /\ made'["table"] = made["table"]
      /\ made'["input_file"] = made["input_file"] /\ made'["input_style"] = made["input_style"]
      /\ made'["thumbnail"] = made["thumbnail"] /\ made'["qgis"] = made["qgis"]
      /\ made'["wfs"] = made["wfs"] /\ made'["wms"] = made["wms"] /\ made'["sld"] = made["sld"]
  BY <1>4, SourcesAre
<1>6. ToPublish' = ToPublish /\ ToRefresh' = ToRefresh /\ ToPatch' = ToPatch /\ (Whole' <=> Whole)
  BY <1>1 DEF ToPublish, ToRefresh, ToPatch, Whole, Running
<1>7. ReflectInv'
  <2>1. SUFFICES ASSUME Whole PROVE Reflects(row, made', external, ToPublish, ToRefresh, ToPatch)
    BY <1>1, <1>2, <1>6 DEF ReflectInv
  <2>2. Reflects(row, made, external, ToPublish, ToRefresh, ToPatch)
    BY <2>1 DEF JInv, ReflectInv
  <2>3. DataOf(row, made', external) = DataOf(row, made, external) /\ StyleOf(made') = StyleOf(made)
        /\ (ProjectIs(row, made) => ProjectIs(row, made'))
    BY <1>5 DEF DataOf, StyleOf, ProjectIs
  <2>4. DataReflect(row, made', external, ToPublish, ToRefresh)
    BY <1>5, <2>2, <2>3 DEF Reflects, DataReflect
  <2>5. StylesReflect(row, made', ToPublish, ToRefresh)
    BY <1>5, <2>2, <2>3 DEF Reflects, StylesReflect
  <2>6. WfsReflect(row, made', ToPublish, ToRefresh, ToPatch) /\ WmsReflect(row, made', ToPublish, ToRefresh, ToPatch)
    BY <1>5, <2>2 DEF Reflects, WfsReflect, WmsReflect
  <2>7. ThumbnailReflects(row, made', external, ToRefresh)
    BY <1>5, <2>2, <2>3 DEF Reflects, ThumbnailReflects
  <2>. QED  BY <2>4, <2>5, <2>6, <2>7 DEF Reflects
<1>. QED  BY <1>2, <1>7 DEF RecordInv

LEMMA InitReflects == Init => JInv
<1> SUFFICES ASSUME Init PROVE JInv
  OBVIOUS
<1>1. ~Healthy /\ ~Whole
  BY DEF Init, Healthy, Whole, NoChain
<1>. QED  BY <1>1, InitInv DEF JInv, ReflectInv, RecordInv

LEMMA NextReflects == JInv /\ [Next]_vars => JInv'
<1> SUFFICES ASSUME JInv, [Next]_vars PROVE ReflectInv' /\ RecordInv'
  BY NextInv DEF JInv
<1>1. CASE Post
  <2>1. row' = None /\ chain' = NoChain
    BY <1>1 DEF Post
  <2>. QED  BY <2>1 DEF ReflectInv, RecordInv, Healthy, Whole, Running, NoChain
<1>2. CASE Patch
  BY <1>2, PatchReflects
<1>3. CASE Delete
  <2>1. req' # None /\ req'.how = "delete"
    BY <1>3, DeleteIs DEF JInv
  <2>2. chain'.state # "running"
    <3>1. row # None /\ req = None /\ Abort
      BY <1>3 DEF Delete
    <3>. QED  BY <3>1, AbortIs DEF JInv
  <2>. QED  BY <2>1, <2>2 DEF ReflectInv, RecordInv, Healthy, Whole, Running
<1>4. CASE DeleteSource
  BY <1>4, DeleteSourceReflects
<1>5. CASE Save
  BY <1>5, SaveReflects
<1>6. CASE SaveRaises \/ Raise
  <2>1. req # None /\ Raised
    BY <1>6 DEF SaveRaises, Raise, Doing
  <2>. QED  BY <2>1, RaisedReflects DEF JInv
<1>7. CASE PostRow
  BY <1>7, PostRowReflects
<1>8. CASE PatchRow
  BY <1>8, PatchRowReflects
<1>9. CASE PatchGeoServer
  BY <1>9, PatchGeoServerReflects
<1>10. CASE StartChain
  BY <1>10, StartChainReflects
<1>11. CASE RunTask
  BY <1>11, RunTaskReflects
<1>12. CASE FailTask
  <2>1. broken' = TRUE /\ chain' = [chain EXCEPT !.state = "failed"] /\ chain \in Chains
    BY <1>12 DEF FailTask, JInv, IInv, TypeInv
  <2>2. chain'.state = "failed"
    BY <2>1 DEF Chains
  <2>. QED  BY <2>1, <2>2 DEF ReflectInv, RecordInv, Healthy, Whole, Running
<1>13. CASE Transaction
  BY <1>13, TransactionReflects
<1>14. CASE SurvivorWrites \/ SurvivorChecks
  BY <1>14, SurvivorReflects
<1>15. CASE UNCHANGED vars
  <2>1. ReflectInv'
    BY <1>15 DEF vars, JInv, ReflectInv, Healthy, Whole, Running, ToPublish, ToRefresh, ToPatch
  <2>2. RecordInv'
    BY <1>15 DEF vars, JInv, RecordInv, Healthy, Running, ToPublish, ToRefresh, PropsToRefresh
  <2>. QED  BY <2>1, <2>2
<1>. QED
  BY <1>1, <1>2, <1>3, <1>4, <1>5, <1>6, <1>7, <1>8, <1>9, <1>10, <1>11, <1>12, <1>13, <1>14, <1>15
     DEF Next, Work

(* Whatever a healthy layer, or a chain that makes a layer as a whole, has *)
(* not got to reflects the row, the data and the style.                    *)
THEOREM StepwiseConsistent == Spec => []JInv
<1>. QED  BY InitReflects, NextReflects, PTL DEF Spec


(* A sound layer whose row is r, with nothing left to do.                  *)
PublishedOf(r, store) == [store |-> store, title |-> r.title, bbox |-> r.bbox]

AllReflect(r, m, x) ==
    /\ r.status = "AVAILABLE"
    /\ r.bbox = DataOf(r, m, x)
    /\ m["wfs"] = IF r.geodata = "vector" THEN PublishedOf(r, DbStoreOf(r)) ELSE None
    /\ m["wms"] = PublishedOf(r, WmsStoreOf(r))
    /\ IF r.style = "qml" THEN ProjectIs(r, m) ELSE m["qgis"] = None
    /\ m["sld"] = None <=> r.style = "qml"
    /\ m["sld"] # None /\ m["sld"] # GenericStyle => m["sld"] = m["input_style"]
    /\ m["thumbnail"] = [data |-> DataOf(r, m, x), style |-> StyleOf(m)]
    /\ r.geodata = "raster" => m["gdal"] = m["input_file"].v

LEMMA NothingLeft ==
    ASSUME NEW r, NEW m, NEW x, Sane(r, m), Reflects(r, m, x, {}, {}, {})
    PROVE  AllReflect(r, m, x)
<1>1. r.status = "AVAILABLE" /\ r.bbox = DataOf(r, m, x)
  BY DEF Reflects, DataReflect
<1>2. m["wfs"] = IF r.geodata = "vector" THEN PublishedOf(r, DbStoreOf(r)) ELSE None
  <2>1. CASE m["wfs"] = None
    BY <2>1 DEF Reflects, WfsReflect
  <2>2. CASE m["wfs"] # None
    <3>1. m["wfs"] \in Layers /\ m["wfs"].store = DbStoreOf(r)
      BY <2>2 DEF Sane, MadeTypes, Sound, WfsSound
    <3>2. m["wfs"].title = r.title /\ m["wfs"].bbox = r.bbox /\ r.geodata = "vector"
      BY <2>2 DEF Reflects, WfsReflect
    <3>3. m["wfs"] = PublishedOf(r, DbStoreOf(r))
      BY <3>1, <3>2 DEF PublishedOf, Layers
    <3>. QED  BY <3>2, <3>3
  <2>. QED  BY <2>1, <2>2
<1>3. m["wms"] # None
  BY DEF Reflects, WmsReflect
<1>4. m["wms"] = PublishedOf(r, WmsStoreOf(r))
  <2>1. m["wms"] \in Layers /\ m["wms"].store = WmsStoreOf(r)
    BY <1>3 DEF Sane, MadeTypes, Sound, WmsSound
  <2>2. m["wms"].title = r.title /\ m["wms"].bbox = r.bbox
    BY <1>3 DEF Reflects, WmsReflect
  <2>. QED  BY <2>1, <2>2 DEF PublishedOf, Layers
<1>5. IF r.style = "qml" THEN ProjectIs(r, m) ELSE m["qgis"] = None
  BY DEF Reflects, StylesReflect
<1>6. m["sld"] = None <=> r.style = "qml"
  BY DEF Reflects, StylesReflect
<1>7. m["sld"] # None /\ m["sld"] # GenericStyle => m["sld"] = m["input_style"]
  BY DEF Sane, Sound, OthersSound
<1>8. m["thumbnail"] = [data |-> DataOf(r, m, x), style |-> StyleOf(m)]
  BY DEF Reflects, ThumbnailReflects
<1>9. r.geodata = "raster" => m["gdal"] = m["input_file"].v
  BY <1>3 DEF Sane, Sound, WmsSound, Reflects, DataReflect
<1>. QED  BY <1>1, <1>2, <1>4, <1>5, <1>6, <1>7, <1>8, <1>9 DEF AllReflect

LEMMA AllReflectIs == SourcesReflect <=> AllReflect(row, made, external)
  BY DEF SourcesReflect, AllReflect, Data, DataOf, Published, PublishedOf, DbStore, DbStoreOf,
         WmsStore, WmsStoreOf, ProjectReflects, ProjectIs, StyleInUse, StyleOf

LEMMA AllReflectWillBe == SourcesReflect' <=> AllReflect(row', made', external')
  BY DEF SourcesReflect, AllReflect, Data, DataOf, Published, PublishedOf, DbStore, DbStoreOf,
         WmsStore, WmsStoreOf, ProjectReflects, ProjectIs, StyleInUse, StyleOf

(* When nothing goes on with a layer that nothing has failed for, all its  *)
(* sources, and its metadata, are those of its row, data and style,        *)
(* whatever PATCH and WFS-T requests have come meanwhile.                  *)
THEOREM QuietIsConsistent == Spec => []Consistent
<1>1. JInv => Consistent
  <2>1. SUFFICES ASSUME JInv, row # None, req = None, ~Running, ~broken, ~outlived
                 PROVE  SourcesReflect /\ \A prop \in Props : InSync(prop)
    BY DEF Consistent
  <2>2. Healthy /\ ~again /\ Sane(row, made)
    BY <2>1 DEF Healthy, JInv, IInv, QueueInv, TypeInv, Sane
  <2>3. ToPublish = {} /\ ToRefresh = {} /\ ToPatch = {}
    BY <2>1, <2>2 DEF ToPublish, ToRefresh, ToPatch
  <2>4. Reflects(row, made, external, {}, {}, {})
    BY <2>1, <2>2, <2>3 DEF JInv, ReflectInv
  <2>5. SourcesReflect
    BY <2>2, <2>4, NothingLeft, AllReflectIs
  <2>6. RecordReflects(row, made, {}, {}, PropsToRefresh, again)
    BY <2>1, <2>2, <2>3 DEF JInv, RecordInv
  <2>7. made["soap"].title = row.title /\ made["soap"].extent = row.bbox
    BY <2>6 DEF RecordReflects
  <2>8. \A prop \in Props : InSync(prop)
    BY <2>7 DEF Props, InSync, Value
  <2>. QED  BY <2>5, <2>8
<1>. QED  BY StepwiseConsistent, <1>1, PTL

(* A chain that makes the layer from its file and succeeds leaves it with  *)
(* sources that reflect each other, whatever has failed before.            *)
THEOREM WholeChainRepairs == Spec => Repairs
<1>1. JInv /\ [Next]_vars => [Running /\ chain'.state = "done" /\ chain.whole => SourcesReflect']_vars
  <2>1. SUFFICES ASSUME JInv, Next, Running, chain'.state = "done", chain.whole
                 PROVE  SourcesReflect'
    BY DEF vars
  <2>2. IInv /\ req = None /\ chain.state = "running" /\ chain \in Chains
    BY <2>1, RunningIs DEF JInv, Running
  <2>3. chain' # chain
    BY <2>1, <2>2
  <2>4. ~Post
    BY <2>1 DEF Post
  <2>5. ~Patch /\ ~Delete
    <3>1. ~Abort
      <4>1. SUFFICES ASSUME Abort PROVE FALSE
        OBVIOUS
      <4>2. chain' = [chain EXCEPT !.state = "aborted"]
        BY <2>1, <4>1 DEF Abort
      <4>. QED  BY <2>1, <2>2, <4>2 DEF Chains
    <3>. QED  BY <3>1 DEF Patch, Delete
  <2>6. /\ ~DeleteSource /\ ~Save /\ ~SaveRaises /\ ~PostRow /\ ~PatchRow /\ ~PatchGeoServer /\ ~StartChain
        /\ ~Raise
    BY <2>2 DEF DeleteSource, Save, SaveRaises, PostRow, PatchRow, PatchGeoServer, StartChain, Raise, Doing
  <2>7. ~FailTask
    <3>1. SUFFICES ASSUME FailTask PROVE FALSE
      OBVIOUS
    <3>2. chain' = [chain EXCEPT !.state = "failed"]
      BY <3>1 DEF FailTask
    <3>. QED  BY <2>1, <2>2, <3>2 DEF Chains
  <2>8. ~Transaction
    BY <2>1, <2>3 DEF Transaction
  <2>9. ~SurvivorWrites /\ ~SurvivorChecks
    BY <2>3 DEF SurvivorWrites, SurvivorChecks
  <2>10. RunTask
    BY <2>1, <2>4, <2>5, <2>6, <2>7, <2>8, <2>9 DEF Next, Work
  <2>11. Left = {} /\ ~again /\ external' = external
    <3>1. /\ external' = external
          /\ chain' = IF Left # {} THEN [chain EXCEPT !.tasks = Left]
                      ELSE ThenQueued([chain EXCEPT !.tasks = {}, !.state = "done"])
      BY <2>10 DEF RunTask
    <3>2. Left = {}
      BY <2>1, <2>2, <3>1 DEF Chains
    <3>3. ~again
      BY <2>1, <3>1, <3>2 DEF ThenQueued, FeaturesChain
    <3>. QED  BY <3>1, <3>2, <3>3
  <2>12. PICK state \in Results(Task) : row' = state.row /\ made' = state.made
    BY <2>10 DEF RunTask
  <2>13. chain.how = "publish"
    BY <2>1, <2>2, RunningIs DEF IInv, ChainInv
  <2>14. ToPublish = chain.tasks /\ ToRefresh = chain.tasks /\ ToPatch = {}
    BY <2>1, <2>2, <2>11, <2>13 DEF ToPublish, ToRefresh, ToPatch
  <2>15. Reflects(row, made, external, chain.tasks, chain.tasks, {})
    BY <2>1, <2>14 DEF JInv, ReflectInv, Whole
  <2>16. Reflects(state.row, state.made, external, Left, chain.tasks \ {Task}, {})
    BY <2>1, <2>2, <2>12, <2>13, <2>15, PublishReflects
  <2>17. Reflects(row', made', external', {}, {}, {})
    <3>1. chain.tasks \ {Task} = {}
      BY <2>11 DEF Left
    <3>. QED  BY <2>11, <2>12, <2>16, <3>1
  <2>18. Sane(row', made')
    <3>1. Task = "input_chunk" => state \in {ChunksMerged}
      BY <2>12, <2>13 DEF Results, Refresh, RefreshInputChunk, Given
    <3>2. state \in Effects(Task)
      BY <2>12, <3>1 DEF Effects
    <3>. QED  BY <2>1, <2>2, <2>12, <2>13, <3>2, PublishTask
  <2>. QED  BY <2>17, <2>18, NothingLeft, AllReflectWillBe
<1>2. []JInv /\ [][Next]_vars => [][Running /\ chain'.state = "done" /\ chain.whole => SourcesReflect']_vars
  BY <1>1, PTL
<1>. QED  BY StepwiseConsistent, <1>2, PTL DEF Spec, Repairs
=============================================================================
