------------------------ MODULE GeoServerLayerProofs ------------------------
(***************************************************************************)
(* Theorems about GeoServerLayer, for any kinds of layers, any number of   *)
(* requests and any calls that fail.                                       *)
(*                                                                         *)
(* A plan is the sequence of calls a request or a chain has still to make. *)
(* The invariant says of a plan, and of what is in GeoServer now, what     *)
(* each call will find, and what will be there in the end.                 *)
(***************************************************************************)
EXTENDS GeoServerLayer, SequenceTheorems, TLAPS

Row == [kind : Kinds, style : {"sld", "qml"}, title : Nat \ {0}]

Calls == [method : {"POST", "PUT", "DELETE"}, on : Objects, to : Nat]

(* What a task that is aborted does to undo itself.                        *)
Undos == {<<>>, delete_wfs, delete_wms, delete_sld}

Marks == [method : {"start", "end"}, undo : Undos]

Plans == Seq(Calls \cup Marks)

IsLayer(o) == o[2] = "layer"
IsRule(o) == o[2] = "rule"

(* A store that must be empty to be deleted.                               *)
MustBeEmpty(o) == o[2] = "store" /\ ~IsCoverage(o[3])

StoreOf(layer) == Store(layer[1], layer[3])
LayerOf(store) == Layer(store[1], store[3])

-----------------------------------------------------------------------------
(* Plans that make and change objects.                                     *)

Touches(c, o) == IsCall(c) /\ c.on = o

TouchedBefore(t, i, o) == \E j \in 1 .. i - 1 : Touches(t[j], o)

(* A POST finds its place free, or a DELETE before it frees it.  A layer   *)
(* is the only one of its workspace and its store is there, or will be.    *)
Fresh(g, t, i) ==
    LET o == t[i].on IN
    /\ \A j \in 1 .. i - 1 : Touches(t[j], o) => t[j].method = "DELETE"
    /\ g[o] = 0 \/ TouchedBefore(t, i, o)
    /\ IsLayer(o) =>
          /\ \A p \in Layers : p[1] = o[1] => g[p] = 0 /\ ~TouchedBefore(t, i, p)
          /\ o[3] # "postgresql" => g[StoreOf(o)] # 0 \/ TouchedBefore(t, i, StoreOf(o))

(* Only rules are deleted, and only layers and the default style change.   *)
CallFits(g, t, i) ==
    /\ t[i].method = "POST" => t[i].to # 0 /\ t[i].on # DefaultStyle /\ Fresh(g, t, i)
    /\ t[i].method = "PUT" => /\ t[i].to # 0
                              /\ \/ IsLayer(t[i].on)
                                 \/ t[i].on = DefaultStyle /\ (g[Style] # 0 \/ TouchedBefore(t, i, Style))
    /\ t[i].method = "DELETE" => t[i].to = 0 /\ IsRule(t[i].on)

Fits(g, t) ==
    /\ t \in Plans
    /\ \A i \in 1 .. Len(t) : IsCall(t[i]) => CallFits(g, t, i)

(* The last call that touches o leaves the value v.                        *)
LeftAs(t, o, v) == \E i \in 1 .. Len(t) :
    /\ Touches(t[i], o) /\ t[i].to = v
    /\ \A j \in i + 1 .. Len(t) : ~Touches(t[j], o)

(* The objects of a layer in parts that plans treat one by one.            *)
Part(o) ==
    IF o[2] \in {"layer", "store"} THEN <<o[1], "data">>
    ELSE IF o[2] = "rule" THEN <<o[1], o[3]>>
    ELSE <<"wms", "style">>

DataAndRules(ws) == {<<ws, "data">>, <<ws, "r">>, <<ws, "w">>}

Parts == DataAndRules("wfs") \cup DataAndRules("wms") \cup {<<"wms", "style">>}

Within(t, P) == \A i \in 1 .. Len(t) : IsCall(t[i]) => Part(t[i].on) \in P

(* After the plan, the objects of the parts will be as in e.               *)
ReachesAt(g, t, e, o) ==
    \/ g[o] = e[o] /\ \A i \in 1 .. Len(t) : ~Touches(t[i], o)
    \/ LeftAs(t, o, e[o])

Reaches(g, t, e, P) == \A o \in Objects : Part(o) \in P => ReachesAt(g, t, e, o)

-----------------------------------------------------------------------------
(* Plans that delete, and plans that write what is there.                  *)

(* A store is deleted when its layer is gone.                              *)
Ordered(g, t) ==
    /\ t \in Seq(Calls)
    /\ \A i \in 1 .. Len(t) :
          /\ t[i].method = "DELETE"
          /\ MustBeEmpty(t[i].on) =>
                g[LayerOf(t[i].on)] = 0 \/ \E j \in 1 .. i - 1 : t[j].on = LayerOf(t[i].on)

IsDeleted(t, o) == \E i \in 1 .. Len(t) : o \in GoesWith(t[i].on)

(* Whatever is there will be deleted; the default style goes with others.  *)
Covers(g, t) == \A o \in Objects \ {DefaultStyle} : g[o] # 0 => IsDeleted(t, o)

WritesSame(g, t) ==
    /\ t \in Plans
    /\ \A i \in 1 .. Len(t) : IsCall(t[i]) =>
          t[i].method = "PUT" /\ IsLayer(t[i].on) /\ t[i].to = g[t[i].on]

-----------------------------------------------------------------------------
(* The inductive invariant.                                                *)

NothingIn(g) == \A o \in Objects : g[o] = 0

(* There is no default style without the style and a layer.                *)
DefaultInUse(g) == g[DefaultStyle] # 0 => g[Style] # 0 /\ \E o \in Layers : o[1] = "wms" /\ g[o] # 0

Requests == [what : {"none", "patch", "style", "delete", "metadata"}, todo : Seq(Calls), row : Row \cup {None}]

Chains == [state : {"none", "running", "failed", "aborted", "done"}, publishes : BOOLEAN, aborted : BOOLEAN,
           todo : Plans]

TypeInv ==
    /\ gs \in [Objects -> Nat]
    /\ row \in Row \cup {None}
    /\ request \in Requests
    /\ chain \in Chains
    /\ restyled \in BOOLEAN
    /\ broken \in BOOLEAN
    /\ requests \in Nat

Runs == chain.state = "running"

NoLayerNothing == row = None => NothingIn(gs) /\ request = NoRequest /\ ~Runs

Edits == {"patch", "style", "delete"}

(* The first call will not be done: PATCH of the title of a mosaic that is *)
(* published as GeoTIFF.                                                   *)
Refused(t) == t # <<>> /\ ~Accepts(Head(t))

RequestInv ==
    /\ request.what = "none" => request = NoRequest
    /\ request.what \in Edits => Ordered(gs, request.todo) /\ Covers(gs, request.todo)
    /\ request.what \in {"patch", "style"} => request.row \in Row
    /\ request.what = "delete" => request.row = None
    /\ request.what = "metadata" =>
          /\ ~Runs /\ request.row = row
          /\ Fits(gs, request.todo)
          /\ ~broken /\ Published = row => Reaches(gs, request.todo, Expected(row), Parts)
          /\ ~broken /\ Published # row => Refused(request.todo)

ChainInv ==
    /\ ~Runs => chain.todo = <<>>
    /\ Runs /\ ~chain.aborted => request = NoRequest
    /\ Runs /\ chain.aborted =>
          /\ request.what \in Edits /\ request.todo = Deletes
          /\ Fits(gs, chain.todo) \/ WritesSame(gs, chain.todo) \/ Ordered(gs, chain.todo)
    /\ Runs /\ ~chain.aborted /\ chain.publishes =>
          Fits(gs, chain.todo) /\ Reaches(gs, chain.todo, Expected(Published), Parts)
    /\ Runs /\ ~chain.aborted /\ ~chain.publishes =>
          WritesSame(gs, chain.todo) /\ (~broken => gs = Expected(Published))

IInv == TypeInv /\ DefaultInUse(gs) /\ NoLayerNothing /\ RequestInv /\ ChainInv /\ ExactlyPublished

-----------------------------------------------------------------------------
(* Objects.                                                                *)

LEMMA ObjectCases ==
    ASSUME NEW o
    PROVE  o \in Objects <=>
             \/ o \in Layers
             \/ \E ws \in Workspaces : \E s \in StoresOf(ws) : o = Store(ws, s)
             \/ \E ws \in Workspaces, type \in {"r", "w"} : o = Rule(ws, type)
             \/ o = Style \/ o = DefaultStyle
<1> DEFINE S == UNION {{Store(ws, s) : s \in StoresOf(ws)} : ws \in Workspaces}
           R == {Rule(ws, type) : ws \in Workspaces, type \in {"r", "w"}}
<1>1. o \in S <=> \E ws \in Workspaces : \E s \in StoresOf(ws) : o = Store(ws, s)
  OBVIOUS
<1>2. o \in R <=> \E ws \in Workspaces, type \in {"r", "w"} : o = Rule(ws, type)
  OBVIOUS
<1>3. Objects = Layers \cup S \cup R \cup {Style, DefaultStyle}
  BY DEF Objects
<1> HIDE DEF S, R
<1>. QED  BY <1>1, <1>2, <1>3

LEMMA LayerCases ==
    ASSUME NEW o
    PROVE  o \in Layers <=> \E ws \in Workspaces : \E s \in StoresOf(ws) \cup {"postgresql"} : o = Layer(ws, s)
  BY DEF Layers

LEMMA ObjectFacts ==
    ASSUME NEW o \in Objects
    PROVE  /\ o[2] \in {"layer", "store", "rule", "style", "default"}
           /\ IsLayer(o) <=> o \in Layers
           /\ IsLayer(o) => o[1] \in Workspaces /\ o[3] \in StoresOf(o[1]) \cup {"postgresql"} /\ o = Layer(o[1], o[3])
           /\ o[2] = "store" => o[1] \in Workspaces /\ o[3] \in StoresOf(o[1]) /\ o = Store(o[1], o[3])
           /\ IsRule(o) => o[1] \in Workspaces /\ o[3] \in {"r", "w"} /\ o = Rule(o[1], o[3])
           /\ o[2] = "style" => o = Style
           /\ o[2] = "default" => o = DefaultStyle
<1>1. CASE o \in Layers
  <2>1. PICK ws \in Workspaces : \E s \in StoresOf(ws) \cup {"postgresql"} : o = Layer(ws, s)
    BY <1>1, LayerCases
  <2>2. PICK s \in StoresOf(ws) \cup {"postgresql"} : o = Layer(ws, s)
    BY <2>1
  <2>. QED  BY <2>1, <2>2, <1>1 DEF Layer, IsLayer, IsRule
<1> HIDE DEF Layers
<1>2. o \notin Layers => o[2] # "layer"
  BY ObjectCases DEF Store, Rule, Style, DefaultStyle
<1>3. CASE \E ws \in Workspaces : \E s \in StoresOf(ws) : o = Store(ws, s)
  <2>1. PICK ws \in Workspaces : \E s \in StoresOf(ws) : o = Store(ws, s)
    BY <1>3
  <2>2. PICK s \in StoresOf(ws) : o = Store(ws, s)
    BY <2>1
  <2>. QED  BY <2>1, <2>2, <1>1, <1>2 DEF Store, IsLayer, IsRule
<1>4. CASE \E ws \in Workspaces, type \in {"r", "w"} : o = Rule(ws, type)
  <2>1. PICK ws \in Workspaces, type \in {"r", "w"} : o = Rule(ws, type)
    BY <1>4
  <2>. QED  BY <2>1, <1>1, <1>2 DEF Rule, IsLayer, IsRule
<1>5. CASE o = Style \/ o = DefaultStyle
  BY <1>1, <1>2, <1>5 DEF Style, DefaultStyle, IsLayer, IsRule
<1>. QED  BY <1>1, <1>3, <1>4, <1>5, ObjectCases

LEMMA ObjectsAre ==
    /\ Style \in Objects /\ DefaultStyle \in Objects /\ Style # DefaultStyle
    /\ ~IsLayer(Style) /\ ~IsLayer(DefaultStyle)
    /\ ~IsRule(Style) /\ ~IsRule(DefaultStyle)
    /\ \A ws \in Workspaces, type \in {"r", "w"} :
          Rule(ws, type) \in Objects /\ IsRule(Rule(ws, type)) /\ ~IsLayer(Rule(ws, type))
    /\ \A ws \in Workspaces : \A s \in StoresOf(ws) :
          /\ Store(ws, s) \in Objects /\ ~IsLayer(Store(ws, s)) /\ ~IsRule(Store(ws, s))
          /\ Store(ws, s) # DefaultStyle
          /\ StoreOf(Layer(ws, s)) = Store(ws, s) /\ LayerOf(Store(ws, s)) = Layer(ws, s)
    /\ \A ws \in Workspaces : \A s \in StoresOf(ws) \cup {"postgresql"} :
          Layer(ws, s) \in Objects /\ Layer(ws, s) \in Layers /\ IsLayer(Layer(ws, s)) /\ ~IsRule(Layer(ws, s))
<1>1. Style \in Objects /\ DefaultStyle \in Objects
  BY ObjectCases
<1>2. /\ Style # DefaultStyle
      /\ ~IsLayer(Style) /\ ~IsLayer(DefaultStyle)
      /\ ~IsRule(Style) /\ ~IsRule(DefaultStyle)
  BY DEF Style, DefaultStyle, IsLayer, IsRule
<1>3. \A ws \in Workspaces, type \in {"r", "w"} :
          Rule(ws, type) \in Objects /\ IsRule(Rule(ws, type)) /\ ~IsLayer(Rule(ws, type))
  BY ObjectCases DEF Rule, IsLayer, IsRule
<1>4. \A ws \in Workspaces : \A s \in StoresOf(ws) :
          /\ Store(ws, s) \in Objects /\ ~IsLayer(Store(ws, s)) /\ ~IsRule(Store(ws, s))
          /\ Store(ws, s) # DefaultStyle
          /\ StoreOf(Layer(ws, s)) = Store(ws, s) /\ LayerOf(Store(ws, s)) = Layer(ws, s)
  <2>1. TAKE ws \in Workspaces
  <2>2. TAKE s \in StoresOf(ws)
  <2>3. Store(ws, s) \in Objects
    BY ObjectCases
  <2>. QED  BY <2>3 DEF Store, Layer, DefaultStyle, IsLayer, IsRule, StoreOf, LayerOf
<1>5. \A ws \in Workspaces : \A s \in StoresOf(ws) \cup {"postgresql"} :
          Layer(ws, s) \in Objects /\ Layer(ws, s) \in Layers /\ IsLayer(Layer(ws, s)) /\ ~IsRule(Layer(ws, s))
  <2>1. TAKE ws \in Workspaces
  <2>2. TAKE s \in StoresOf(ws) \cup {"postgresql"}
  <2>3. Layer(ws, s) \in Layers
    BY LayerCases
  <2>4. Layer(ws, s) \in Objects
    BY <2>3, ObjectCases
  <2>. QED  BY <2>3, <2>4 DEF Layer, IsLayer, IsRule
<1>. QED  BY <1>1, <1>2, <1>3, <1>4, <1>5

LEMMA PartsOfObjects ==
    /\ Part(Style) = <<"wms", "style">> /\ Part(DefaultStyle) = <<"wms", "style">>
    /\ \A ws \in Workspaces, type \in {"r", "w"} : Part(Rule(ws, type)) = <<ws, type>>
    /\ \A ws \in Workspaces : \A s \in StoresOf(ws) : Part(Store(ws, s)) = <<ws, "data">>
    /\ \A ws \in Workspaces : \A s \in StoresOf(ws) \cup {"postgresql"} : Part(Layer(ws, s)) = <<ws, "data">>
  BY DEF Part, Workspaces, Layer, Store, Rule, Style, DefaultStyle

LEMMA EveryPart == \A o \in Objects : Part(o) \in Parts
  BY ObjectFacts DEF Part, Parts, DataAndRules, Workspaces, IsLayer, IsRule

-----------------------------------------------------------------------------
(* What one call does.                                                     *)

LEMMA AfterWrites ==
    ASSUME NEW c, c.method # "DELETE"
    PROVE  After(c) = [gs EXCEPT ![c.on] = c.to]
  BY DEF After

LEMMA AfterDelete ==
    ASSUME NEW c \in Calls, c.method = "DELETE", gs \in [Objects -> Nat]
    PROVE  /\ After(c) \in [Objects -> Nat]
           /\ \A o \in Objects : After(c)[o] \in {0, gs[o]}
           /\ \A o \in Objects : o \in GoesWith(c.on) => After(c)[o] = 0
           /\ \A o \in Objects : o \notin GoesWith(c.on) /\ o # DefaultStyle => After(c)[o] = gs[o]
           /\ DefaultInUse(After(c))
           /\ c.on # DefaultStyle /\ DefaultInUse(gs) /\ IsRule(c.on) => After(c) = [gs EXCEPT ![c.on] = 0]
<1> DEFINE left == [o \in Objects |-> IF o \in GoesWith(c.on) THEN 0 ELSE gs[o]]
           gone == left[Style] = 0 \/ \A o \in Layers : o[1] = "wms" => left[o] = 0
<1>1. After(c) = IF gone THEN [left EXCEPT ![DefaultStyle] = 0] ELSE left
  BY DEF After
<1>2. Layers \subseteq Objects
  BY DEF Objects
<1>3. left \in [Objects -> Nat]
  OBVIOUS
<1> HIDE DEF gone
<1>4. After(c) \in [Objects -> Nat]
  <2>1. [left EXCEPT ![DefaultStyle] = 0] \in [Objects -> Nat]
    BY <1>3
  <2>. QED  BY <1>1, <1>3, <2>1
<1>5. \A o \in Objects : After(c)[o] = IF gone /\ o = DefaultStyle THEN 0 ELSE left[o]
  BY <1>1, <1>3
<1>6. \A o \in Objects : After(c)[o] \in {0, gs[o]}
  BY <1>5
<1>7. \A o \in Objects : o \in GoesWith(c.on) => After(c)[o] = 0
  BY <1>5
<1>8. \A o \in Objects : o \notin GoesWith(c.on) /\ o # DefaultStyle => After(c)[o] = gs[o]
  BY <1>5
<1>9. DefaultInUse(After(c))
  BY <1>2, <1>5, ObjectsAre, ObjectFacts DEF gone, DefaultInUse
<1>10. ASSUME DefaultInUse(gs), IsRule(c.on)
       PROVE  After(c) = [gs EXCEPT ![c.on] = 0]
  <2>1. GoesWith(c.on) = {c.on}
    BY <1>10 DEF GoesWith, IsRule
  <2>2. gone => gs[DefaultStyle] = 0
    <3>1. left[Style] = gs[Style]
      BY <2>1, <1>10, ObjectsAre
    <3>2. \A o \in Layers : left[o] = gs[o]
      BY <2>1, <1>2, <1>10, ObjectFacts DEF IsLayer, IsRule
    <3>. QED  BY <3>1, <3>2, <1>10 DEF gone, DefaultInUse
  <2>3. \A o \in Objects : After(c)[o] = [gs EXCEPT ![c.on] = 0][o]
    BY <2>1, <2>2, <1>5
  <2>. QED  BY <2>3, <1>4
<1>. QED  BY <1>4, <1>6, <1>7, <1>8, <1>9, <1>10

-----------------------------------------------------------------------------
(* What is left of a plan.                                                 *)

LEMMA TailFacts ==
    ASSUME NEW S, NEW t \in Seq(S), t # <<>>
    PROVE  /\ Head(t) \in S /\ Head(t) = t[1] /\ 1 \in 1 .. Len(t) /\ Len(t) \in Nat
           /\ Tail(t) \in Seq(S)
           /\ Len(Tail(t)) = Len(t) - 1
           /\ \A i \in 1 .. Len(Tail(t)) : i \in Nat /\ Tail(t)[i] = t[i + 1] /\ i + 1 \in 1 .. Len(t)
  BY HeadTailProperties

LEMMA TouchedAfterHead ==
    ASSUME NEW t \in Plans, t # <<>>, NEW i \in 1 .. Len(Tail(t)), NEW o
    PROVE  TouchedBefore(t, i + 1, o) <=> Touches(Head(t), o) \/ TouchedBefore(Tail(t), i, o)
<1>1. /\ Head(t) = t[1] /\ i \in Nat
      /\ \A j \in 1 .. i - 1 : Tail(t)[j] = t[j + 1]
  BY TailFacts DEF Plans
<1>2. ASSUME TouchedBefore(t, i + 1, o), ~Touches(Head(t), o)
      PROVE  TouchedBefore(Tail(t), i, o)
  <2>1. PICK j \in 1 .. i : Touches(t[j], o)
    BY <1>1, <1>2 DEF TouchedBefore
  <2>2. j - 1 \in 1 .. i - 1 /\ t[(j - 1) + 1] = t[j]
    BY <1>1, <1>2, <2>1
  <2>3. Tail(t)[j - 1] = t[j]
    BY <1>1, <2>2
  <2>. QED  BY <2>1, <2>2, <2>3 DEF TouchedBefore
<1>3. Touches(Head(t), o) => TouchedBefore(t, i + 1, o)
  <2>1. 1 \in 1 .. (i + 1) - 1
    BY <1>1
  <2>. QED  BY <1>1, <2>1 DEF TouchedBefore
<1>4. TouchedBefore(Tail(t), i, o) => TouchedBefore(t, i + 1, o)
  <2>1. ASSUME NEW j \in 1 .. i - 1
        PROVE  j + 1 \in 1 .. (i + 1) - 1
    BY <1>1
  <2>. QED  BY <1>1, <2>1 DEF TouchedBefore
<1>. QED  BY <1>2, <1>3, <1>4

(* What GeoServer has when the head of a plan is done, be it a mark.       *)
Effect(g, h, c) == \A o \in Objects : h[o] = IF Touches(c, o) THEN c.to ELSE g[o]

LEMMA FitsTail ==
    ASSUME NEW g, NEW h, NEW t, Fits(g, t), t # <<>>, Effect(g, h, Head(t))
    PROVE  Fits(h, Tail(t))
<1> DEFINE c == Head(t)
           u == Tail(t)
<1>1. /\ c = t[1] /\ 1 \in 1 .. Len(t) /\ u \in Plans
      /\ \A i \in 1 .. Len(u) : i \in Nat /\ u[i] = t[i + 1] /\ i + 1 \in 1 .. Len(t)
  BY TailFacts DEF Fits, Plans
<1>2. t \in Plans /\ \A i \in 1 .. Len(t) : t[i] \in Calls \cup Marks
  BY DEF Fits, Plans
<1>3. \A o : c.method \in {"POST", "PUT"} /\ Touches(c, o) => c.to # 0
  BY <1>1 DEF Fits, CallFits, Touches
<1>4. \A i \in 1 .. Len(u) : \A o : TouchedBefore(t, i + 1, o) <=> Touches(c, o) \/ TouchedBefore(u, i, o)
  BY <1>2, TouchedAfterHead
<1>5. \A o \in Objects : Touches(c, o) /\ ~IsRule(o) => c.to # 0
  <2>1. \A o \in Objects : Touches(c, o) => c \in Calls
    BY <1>1, <1>2 DEF Touches, IsCall, Marks
  <2>. QED  BY <1>1, <1>3, <2>1 DEF Fits, CallFits, Touches, Calls
<1> HIDE DEF u, c
<1>6. ASSUME NEW i \in 1 .. Len(u), IsCall(u[i])
      PROVE  CallFits(h, u, i)
  <2> DEFINE o == u[i].on
  <2>1. u[i] = t[i + 1] /\ i + 1 \in 1 .. Len(t) /\ CallFits(g, t, i + 1) /\ i \in Nat
    BY <1>1, <1>6 DEF Fits
  <2>2. u[i] \in Calls /\ o \in Objects
    BY <1>2, <1>6, <2>1 DEF IsCall, Marks, Calls
  <2>3. ASSUME u[i].method = "POST"
        PROVE  Fresh(h, u, i)
    <3>1. Fresh(g, t, i + 1)
      BY <2>1, <2>3 DEF CallFits
    <3>2. \A j \in 1 .. i - 1 : Touches(u[j], o) => u[j].method = "DELETE"
      <4>1. ASSUME NEW j \in 1 .. i - 1
            PROVE  u[j] = t[j + 1] /\ j + 1 \in 1 .. (i + 1) - 1
        BY <1>1, <2>1
      <4>. QED  BY <2>1, <3>1, <4>1 DEF Fresh
    <3>3. h[o] = 0 \/ TouchedBefore(u, i, o)
      <4>1. CASE Touches(c, o)
        <5>1. 1 \in 1 .. (i + 1) - 1
          BY <2>1
        <5>2. c.method = "DELETE"
          BY <5>1, <3>1, <4>1, <2>1, <1>1 DEF Fresh
        <5>3. IsCall(c) /\ c.to = 0
          BY <5>2, <4>1, <1>1 DEF Fits, CallFits, Touches
        <5>. QED  BY <5>3, <4>1, <2>2 DEF Effect, c
      <4>2. CASE ~Touches(c, o)
        BY <4>2, <3>1, <2>1, <2>2, <1>4 DEF Effect, c, Fresh
      <4>. QED  BY <4>1, <4>2
    <3>4. ASSUME IsLayer(o), NEW p \in Layers, p[1] = o[1]
          PROVE  h[p] = 0 /\ ~TouchedBefore(u, i, p)
      <4>1. g[p] = 0 /\ ~TouchedBefore(t, i + 1, p)
        BY <3>1, <3>4, <2>1 DEF Fresh
      <4>2. p \in Objects
        BY ObjectCases
      <4>. QED  BY <4>1, <4>2, <1>4 DEF Effect, c
    <3>5. ASSUME IsLayer(o), o[3] # "postgresql"
          PROVE  h[StoreOf(o)] # 0 \/ TouchedBefore(u, i, StoreOf(o))
      <4>1. g[StoreOf(o)] # 0 \/ TouchedBefore(t, i + 1, StoreOf(o))
        BY <3>1, <3>5, <2>1 DEF Fresh
      <4>2. StoreOf(o) \in Objects /\ ~IsRule(StoreOf(o))
        BY <2>2, <3>5, ObjectFacts, ObjectsAre
      <4>. QED  BY <4>1, <4>2, <1>4, <1>5 DEF Effect, c
    <3>. QED  BY <3>2, <3>3, <3>4, <3>5 DEF Fresh
  <2>4. ASSUME u[i].method = "PUT", o = DefaultStyle, ~IsLayer(o)
        PROVE  h[Style] # 0 \/ TouchedBefore(u, i, Style)
    <3>1. g[Style] # 0 \/ TouchedBefore(t, i + 1, Style)
      BY <2>1, <2>4 DEF CallFits
    <3>. QED  BY <3>1, <1>4, <1>5, ObjectsAre DEF Effect, c
  <2>. QED  BY <2>1, <2>3, <2>4 DEF CallFits
<1>. QED  BY <1>1, <1>6 DEF Fits, u

LEMMA ReachesTail ==
    ASSUME NEW g, NEW h, NEW t \in Plans, NEW e, NEW P, Reaches(g, t, e, P), t # <<>>, Effect(g, h, Head(t))
    PROVE  Reaches(h, Tail(t), e, P)
<1> DEFINE u == Tail(t)
<1>1. /\ Head(t) = t[1] /\ 1 \in 1 .. Len(t) /\ Len(t) \in Nat /\ Len(u) = Len(t) - 1
      /\ \A i \in 1 .. Len(u) : i \in Nat /\ u[i] = t[i + 1] /\ i + 1 \in 1 .. Len(t)
  BY TailFacts DEF Plans
<1> HIDE DEF u
<1>2. SUFFICES ASSUME NEW o \in Objects, Part(o) \in P
               PROVE  ReachesAt(h, u, e, o)
  BY DEF Reaches, u
<1>3. ReachesAt(g, t, e, o)
  BY <1>2 DEF Reaches
<1>4. CASE g[o] = e[o] /\ \A i \in 1 .. Len(t) : ~Touches(t[i], o)
  BY <1>1, <1>4 DEF ReachesAt, Effect
<1>5. CASE LeftAs(t, o, e[o])
  <2>1. PICK i \in 1 .. Len(t) : /\ Touches(t[i], o) /\ t[i].to = e[o]
                                 /\ \A j \in i + 1 .. Len(t) : ~Touches(t[j], o)
    BY <1>5 DEF LeftAs
  <2>2. CASE i = 1
    <3>1. h[o] = e[o]
      BY <2>1, <2>2, <1>1 DEF Effect
    <3>2. ASSUME NEW j \in 1 .. Len(u)
          PROVE  j + 1 \in i + 1 .. Len(t) /\ u[j] = t[j + 1]
      BY <1>1, <2>2
    <3>. QED  BY <3>1, <3>2, <2>1 DEF ReachesAt
  <2>3. CASE i # 1
    <3>1. i - 1 \in 1 .. Len(u) /\ (i - 1) + 1 = i
      BY <2>3, <1>1
    <3>2. u[i - 1] = t[i]
      BY <3>1, <1>1
    <3>3. ASSUME NEW j \in (i - 1) + 1 .. Len(u)
          PROVE  j + 1 \in i + 1 .. Len(t) /\ u[j] = t[j + 1]
      BY <1>1, <2>3
    <3>. QED  BY <3>1, <3>2, <3>3, <2>1 DEF ReachesAt, LeftAs
  <2>. QED  BY <2>2, <2>3
<1>. QED  BY <1>3, <1>4, <1>5 DEF ReachesAt

-----------------------------------------------------------------------------
(* Plans one after the other.                                              *)

LEMMA ConcatFacts ==
    ASSUME NEW S, NEW s \in Seq(S), NEW t \in Seq(S)
    PROVE  /\ s \o t \in Seq(S) /\ Len(s) \in Nat /\ Len(t) \in Nat
           /\ Len(s \o t) = Len(s) + Len(t)
           /\ \A i \in 1 .. Len(s) : (s \o t)[i] = s[i] /\ i \in 1 .. Len(s \o t) /\ i \in Nat
           /\ \A i \in 1 .. Len(t) : (s \o t)[Len(s) + i] = t[i] /\ Len(s) + i \in 1 .. Len(s \o t) /\ i \in Nat
           /\ \A k \in 1 .. Len(s \o t) : \/ k \in 1 .. Len(s)
                                          \/ \E i \in 1 .. Len(t) : k = Len(s) + i
<1>1. /\ s \o t \in Seq(S) /\ Len(s) \in Nat /\ Len(t) \in Nat
      /\ Len(s \o t) = Len(s) + Len(t)
      /\ \A i \in 1 .. Len(s) + Len(t) : (s \o t)[i] = IF i <= Len(s) THEN s[i] ELSE t[i - Len(s)]
  BY ConcatProperties
<1>2. \A i \in 1 .. Len(s) : (s \o t)[i] = s[i] /\ i \in 1 .. Len(s \o t) /\ i \in Nat
  BY <1>1
<1>3. ASSUME NEW i \in 1 .. Len(t)
      PROVE  (s \o t)[Len(s) + i] = t[i] /\ Len(s) + i \in 1 .. Len(s \o t) /\ i \in Nat
  BY <1>1, (Len(s) + i) - Len(s) = i
<1>4. ASSUME NEW k \in 1 .. Len(s \o t), k \notin 1 .. Len(s)
      PROVE  \E i \in 1 .. Len(t) : k = Len(s) + i
  <2>1. k - Len(s) \in 1 .. Len(t) /\ k = Len(s) + (k - Len(s))
    BY <1>1, <1>4
  <2>. QED  BY <2>1
<1>. QED  BY <1>1, <1>2, <1>3, <1>4

LEMMA FitsConcat ==
    ASSUME NEW g, NEW s, NEW t, NEW P, NEW Q,
           Fits(g, s), Fits(g, t), Within(s, P), Within(t, Q), P \cap Q = {}
    PROVE  Fits(g, s \o t) /\ Within(s \o t, P \cup Q)
<1> DEFINE u == s \o t
<1>1. /\ u \in Plans /\ Len(s) \in Nat /\ Len(t) \in Nat
      /\ Len(u) = Len(s) + Len(t)
      /\ \A i \in 1 .. Len(s) : u[i] = s[i] /\ i \in 1 .. Len(u) /\ i \in Nat
      /\ \A i \in 1 .. Len(t) : u[Len(s) + i] = t[i] /\ Len(s) + i \in 1 .. Len(u) /\ i \in Nat
      /\ \A k \in 1 .. Len(u) : k \in 1 .. Len(s) \/ \E i \in 1 .. Len(t) : k = Len(s) + i
  BY ConcatFacts DEF Fits, Plans
<1> HIDE DEF u
<1>2. ASSUME NEW k \in 1 .. Len(u), IsCall(u[k])
      PROVE  Part(u[k].on) \in P \cup Q
  <2>1. CASE k \in 1 .. Len(s)
    BY <1>1, <1>2, <2>1 DEF Within
  <2>2. ASSUME NEW j \in 1 .. Len(t), k = Len(s) + j
        PROVE  Part(u[k].on) \in P \cup Q
    <3>1. u[k] = t[j]
      BY <1>1, <2>2
    <3>. QED  BY <1>2, <3>1 DEF Within
  <2>. QED  BY <1>1, <2>1, <2>2
<1>3. ASSUME NEW i \in 1 .. Len(s), IsCall(s[i])
      PROVE  CallFits(g, u, i)
  <2>1. CallFits(g, s, i) /\ u[i] = s[i] /\ i \in Nat
    BY <1>1, <1>3 DEF Fits
  <2>2. \A j \in 1 .. i - 1 : u[j] = s[j]
    BY <1>1
  <2>3. \A o : TouchedBefore(u, i, o) <=> TouchedBefore(s, i, o)
    BY <2>2 DEF TouchedBefore
  <2>4. Fresh(g, s, i) => Fresh(g, u, i)
    BY <2>1, <2>2, <2>3 DEF Fresh
  <2>. QED  BY <2>1, <2>3, <2>4 DEF CallFits
<1>4. ASSUME NEW i \in 1 .. Len(t), IsCall(t[i])
      PROVE  CallFits(g, u, Len(s) + i)
  <2> DEFINE k == Len(s) + i
             o == t[i].on
  <2>1. CallFits(g, t, i) /\ u[k] = t[i] /\ i \in Nat /\ Part(o) \in Q
    BY <1>1, <1>4 DEF Fits, Within
  <2>2. ASSUME NEW j \in 1 .. i - 1
        PROVE  u[Len(s) + j] = t[j] /\ Len(s) + j \in 1 .. k - 1
    BY <1>1
  <2>3. ASSUME NEW j \in 1 .. k - 1
        PROVE  (j \in 1 .. Len(s) /\ u[j] = s[j]) \/ \E m \in 1 .. i - 1 : j = Len(s) + m /\ u[j] = t[m]
    <3>1. CASE j \in 1 .. Len(s)
      BY <3>1, <1>1
    <3>2. CASE j \notin 1 .. Len(s)
      <4>1. j - Len(s) \in 1 .. i - 1 /\ j = Len(s) + (j - Len(s))
        BY <3>2, <1>1
      <4>. QED  BY <4>1, <2>2
    <3>. QED  BY <3>1, <3>2
  <2>4. \A j \in 1 .. Len(s) : \A p : Touches(s[j], p) => Part(p) \notin Q
    BY DEF Within, Touches
  <2> HIDE DEF k
  <2>5. \A p : TouchedBefore(t, i, p) => TouchedBefore(u, k, p)
    BY <2>2 DEF TouchedBefore
  <2>6. \A p : Part(p) \in Q /\ TouchedBefore(u, k, p) => TouchedBefore(t, i, p)
    BY <2>3, <2>4 DEF TouchedBefore
  <2>7. ASSUME t[i].method = "POST"
        PROVE  Fresh(g, u, k)
    <3>1. Fresh(g, t, i)
      BY <2>1, <2>7 DEF CallFits
    <3>2. \A j \in 1 .. k - 1 : Touches(u[j], o) => u[j].method = "DELETE"
      <4>1. SUFFICES ASSUME NEW j \in 1 .. k - 1, Touches(u[j], o)
                     PROVE  u[j].method = "DELETE"
        OBVIOUS
      <4>2. \A m \in 1 .. i - 1 : Touches(t[m], o) => t[m].method = "DELETE"
        BY <3>1 DEF Fresh
      <4>3. PICK m \in 1 .. i - 1 : j = Len(s) + m /\ u[j] = t[m]
        BY <4>1, <2>1, <2>3, <2>4
      <4>. QED  BY <4>1, <4>2, <4>3
    <3>3. ASSUME IsLayer(o), NEW p \in Layers, p[1] = o[1]
          PROVE  g[p] = 0 /\ ~TouchedBefore(u, k, p)
      <4>1. IsLayer(p)
        BY ObjectFacts, ObjectCases
      <4>2. Part(p) = Part(o)
        BY <4>1, <3>3 DEF Part, IsLayer
      <4>. QED  BY <3>1, <3>3, <4>2, <2>1, <2>6 DEF Fresh
    <3>. QED  BY <3>1, <3>2, <3>3, <2>1, <2>5 DEF Fresh
  <2>. QED  BY <2>1, <2>5, <2>7 DEF CallFits, k
<1>5. Fits(g, u)
  BY <1>1, <1>3, <1>4 DEF Fits
<1>6. Within(u, P \cup Q)
  BY <1>2 DEF Within
<1>. QED  BY <1>5, <1>6 DEF u

LEMMA ReachesConcat ==
    ASSUME NEW g, NEW e, NEW s \in Plans, NEW t \in Plans, NEW P, NEW Q,
           Reaches(g, s, e, P), Reaches(g, t, e, Q), Within(s, P), Within(t, Q), P \cap Q = {}
    PROVE  Reaches(g, s \o t, e, P \cup Q)
<1> DEFINE u == s \o t
<1>1. /\ u \in Plans /\ Len(s) \in Nat /\ Len(t) \in Nat
      /\ Len(u) = Len(s) + Len(t)
      /\ \A i \in 1 .. Len(s) : u[i] = s[i] /\ i \in 1 .. Len(u) /\ i \in Nat
      /\ \A i \in 1 .. Len(t) : u[Len(s) + i] = t[i] /\ Len(s) + i \in 1 .. Len(u) /\ i \in Nat
      /\ \A k \in 1 .. Len(u) : k \in 1 .. Len(s) \/ \E i \in 1 .. Len(t) : k = Len(s) + i
  BY ConcatFacts DEF Plans
<1> HIDE DEF u
<1>2. ASSUME NEW o \in Objects, Part(o) \in P
      PROVE  ReachesAt(g, u, e, o)
  <2>1. \A i \in 1 .. Len(t) : ~Touches(t[i], o)
    BY <1>2 DEF Within, Touches
  <2>2. ReachesAt(g, s, e, o)
    BY <1>2 DEF Reaches
  <2>3. CASE g[o] = e[o] /\ \A i \in 1 .. Len(s) : ~Touches(s[i], o)
    BY <2>1, <2>3, <1>1 DEF ReachesAt
  <2>4. CASE LeftAs(s, o, e[o])
    <3>1. PICK i \in 1 .. Len(s) : /\ Touches(s[i], o) /\ s[i].to = e[o]
                                   /\ \A j \in i + 1 .. Len(s) : ~Touches(s[j], o)
      BY <2>4 DEF LeftAs
    <3>2. ASSUME NEW j \in i + 1 .. Len(u)
          PROVE  ~Touches(u[j], o)
      <4>1. CASE j \in 1 .. Len(s)
        BY <4>1, <3>1, <1>1
      <4>2. CASE j \notin 1 .. Len(s)
        <5>1. j \in 1 .. Len(u)
          BY <1>1
        <5>2. PICK m \in 1 .. Len(t) : j = Len(s) + m
          BY <5>1, <4>2, <1>1
        <5>. QED  BY <5>2, <2>1, <1>1
      <4>. QED  BY <4>1, <4>2
    <3>. QED  BY <3>1, <3>2, <1>1 DEF ReachesAt, LeftAs
  <2>. QED  BY <2>2, <2>3, <2>4 DEF ReachesAt
<1>3. ASSUME NEW o \in Objects, Part(o) \in Q
      PROVE  ReachesAt(g, u, e, o)
  <2>1. \A i \in 1 .. Len(s) : ~Touches(s[i], o)
    BY <1>3 DEF Within, Touches
  <2>2. ReachesAt(g, t, e, o)
    BY <1>3 DEF Reaches
  <2>3. CASE g[o] = e[o] /\ \A i \in 1 .. Len(t) : ~Touches(t[i], o)
    BY <2>1, <2>3, <1>1 DEF ReachesAt
  <2>4. CASE LeftAs(t, o, e[o])
    <3>1. PICK i \in 1 .. Len(t) : /\ Touches(t[i], o) /\ t[i].to = e[o]
                                   /\ \A j \in i + 1 .. Len(t) : ~Touches(t[j], o)
      BY <2>4 DEF LeftAs
    <3>2. ASSUME NEW j \in (Len(s) + i) + 1 .. Len(u)
          PROVE  ~Touches(u[j], o)
      <4>1. j \in 1 .. Len(u) /\ j - Len(s) \in i + 1 .. Len(t) /\ j = Len(s) + (j - Len(s))
        BY <1>1
      <4>2. j - Len(s) \in 1 .. Len(t)
        BY <4>1, <1>1
      <4>. QED  BY <4>1, <4>2, <3>1, <1>1
    <3>. QED  BY <3>1, <3>2, <1>1 DEF ReachesAt, LeftAs
  <2>. QED  BY <2>2, <2>3, <2>4 DEF ReachesAt
<1>. QED  BY <1>2, <1>3 DEF Reaches, u

-----------------------------------------------------------------------------
(* The pieces plans are made of.                                           *)

Builds(g, t, e, P) == Fits(g, t) /\ Within(t, P) /\ Reaches(g, t, e, P)

LEMMA BuildsConcat ==
    ASSUME NEW g, NEW e, NEW s, NEW t, NEW P, NEW Q,
           Builds(g, s, e, P), Builds(g, t, e, Q), P \cap Q = {}
    PROVE  Builds(g, s \o t, e, P \cup Q)
<1>1. s \in Plans /\ t \in Plans
  BY DEF Builds, Fits
<1>. QED  BY <1>1, FitsConcat, ReachesConcat DEF Builds

LEMMA CallsArePlans ==
    /\ \A c \in Calls : IsCall(c)
    /\ \A m \in Marks : ~IsCall(m)
    /\ Calls \subseteq Calls \cup Marks
  BY DEF Calls, Marks, IsCall

LEMMA MarkPiece ==
    ASSUME NEW m \in Marks, NEW g, NEW e
    PROVE  Builds(g, <<m>>, e, {})
<1>1. <<m>> \in Plans /\ Len(<<m>>) = 1 /\ <<m>>[1] = m
  BY DEF Plans
<1>2. \A i \in 1 .. Len(<<m>>) : <<m>>[i] = m
  BY <1>1
<1>. QED  BY <1>1, <1>2, CallsArePlans DEF Builds, Fits, Within, Reaches

LEMMA NoCallPiece ==
    ASSUME NEW g, NEW e, NEW P, \A o \in Objects : Part(o) \in P => g[o] = e[o]
    PROVE  Builds(g, <<>>, e, P)
<1>1. <<>> \in Plans /\ Len(<<>>) = 0
  BY DEF Plans
<1>. QED  BY <1>1 DEF Builds, Fits, Within, Reaches, ReachesAt

LEMMA OneCall ==
    ASSUME NEW a \in Calls
    PROVE  /\ <<a>> \in Plans /\ Len(<<a>>) = 1
           /\ \A i \in 1 .. Len(<<a>>) : i = 1 /\ <<a>>[i] = a
           /\ \A o : ~TouchedBefore(<<a>>, 1, o)
           /\ \A o : LeftAs(<<a>>, o, a.to) <=> Touches(a, o)
<1>1. /\ <<a>> \in Plans /\ Len(<<a>>) = 1
      /\ \A i \in 1 .. Len(<<a>>) : i = 1 /\ <<a>>[i] = a
  BY DEF Plans
<1>2. 1 \in 1 .. Len(<<a>>) /\ <<a>>[1] = a
  BY <1>1
<1>3. \A o : ~TouchedBefore(<<a>>, 1, o)
  BY DEF TouchedBefore
<1>4. \A o : LeftAs(<<a>>, o, a.to) <=> Touches(a, o)
  BY <1>1, <1>2 DEF LeftAs
<1>. QED  BY <1>1, <1>3, <1>4

LEMMA TwoCalls ==
    ASSUME NEW a \in Calls, NEW b \in Calls, a.on # b.on
    PROVE  /\ <<a, b>> \in Plans /\ Len(<<a, b>>) = 2
           /\ <<a, b>>[1] = a /\ <<a, b>>[2] = b
           /\ \A i \in 1 .. Len(<<a, b>>) : i \in {1, 2}
           /\ \A o : ~TouchedBefore(<<a, b>>, 1, o)
           /\ \A o : TouchedBefore(<<a, b>>, 2, o) <=> Touches(a, o)
           /\ \A o : Touches(a, o) => LeftAs(<<a, b>>, o, a.to)
           /\ \A o : Touches(b, o) => LeftAs(<<a, b>>, o, b.to)
<1>1. /\ <<a, b>> \in Plans /\ Len(<<a, b>>) = 2
      /\ <<a, b>>[1] = a /\ <<a, b>>[2] = b
  BY DEF Plans
<1>2. \A i \in 1 .. Len(<<a, b>>) : i \in {1, 2}
  BY <1>1
<1>3. 1 \in 1 .. Len(<<a, b>>) /\ 2 \in 1 .. Len(<<a, b>>)
  BY <1>1
<1>4. \A o : ~TouchedBefore(<<a, b>>, 1, o)
  BY DEF TouchedBefore
<1>5. \A o : TouchedBefore(<<a, b>>, 2, o) <=> Touches(a, o)
  BY <1>1 DEF TouchedBefore
<1>6. \A o : Touches(b, o) => LeftAs(<<a, b>>, o, b.to)
  BY <1>1, <1>3 DEF LeftAs
<1>7. \A o : Touches(a, o) => LeftAs(<<a, b>>, o, a.to)
  <2>1. \A o : Touches(a, o) => ~Touches(b, o)
    BY DEF Touches
  <2>2. \A j \in 1 + 1 .. Len(<<a, b>>) : <<a, b>>[j] = b
    BY <1>1
  <2>. QED  BY <1>1, <1>3, <2>1, <2>2 DEF LeftAs
<1>. QED  BY <1>1, <1>2, <1>4, <1>5, <1>6, <1>7

(* A rule is deleted and made: two calls of the same object.               *)
LEMMA RulePiece ==
    ASSUME NEW ws \in Workspaces, NEW type \in {"r", "w"}, NEW v \in Nat \ {0}, NEW g
    PROVE  LET t == ensure_security_roles(ws, type, v) IN
           /\ Fits(g, t) /\ Within(t, {<<ws, type>>})
           /\ \A e : e[Rule(ws, type)] = v => Reaches(g, t, e, {<<ws, type>>})
<1> DEFINE o == Rule(ws, type)
           a == DELETE(o)
           b == POST(o, v)
           t == <<a, b>>
<1>1. t = ensure_security_roles(ws, type, v)
  BY DEF ensure_security_roles, delete_security_roles
<1>2. o \in Objects /\ IsRule(o) /\ ~IsLayer(o) /\ Part(o) = <<ws, type>> /\ o # DefaultStyle
  BY ObjectsAre, PartsOfObjects
<1>3. /\ a \in Calls /\ a.method = "DELETE" /\ a.on = o /\ a.to = 0
      /\ b \in Calls /\ b.method = "POST" /\ b.on = o /\ b.to = v
  BY <1>2 DEF DELETE, POST, Calls
<1> HIDE DEF a, b, o
<1>4. /\ t \in Plans /\ Len(t) = 2 /\ t[1] = a /\ t[2] = b
      /\ \A i \in 1 .. Len(t) : i \in {1, 2}
      /\ 2 \in 1 .. Len(t) /\ 2 + 1 .. Len(t) = {}
  BY <1>3 DEF Plans
<1> HIDE DEF t
<1>5. IsCall(a) /\ IsCall(b)
  BY <1>3, CallsArePlans
<1>6. Fits(g, t)
  <2>1. CallFits(g, t, 1)
    BY <1>2, <1>3, <1>4 DEF CallFits
  <2>2. TouchedBefore(t, 2, o)
    BY <1>3, <1>4, <1>5 DEF TouchedBefore, Touches
  <2>3. \A j \in 1 .. 2 - 1 : t[j].method = "DELETE"
    BY <1>3, <1>4
  <2>4. CallFits(g, t, 2)
    BY <1>2, <1>3, <1>4, <2>2, <2>3 DEF CallFits, Fresh
  <2>. QED  BY <1>4, <2>1, <2>4 DEF Fits
<1>7. Within(t, {<<ws, type>>})
  BY <1>2, <1>3, <1>4 DEF Within
<1>8. ASSUME NEW e, e[o] = v
      PROVE  Reaches(g, t, e, {<<ws, type>>})
  <2>1. SUFFICES ASSUME NEW p \in Objects, Part(p) = <<ws, type>>
                 PROVE  p = o
    BY <1>3, <1>4, <1>5, <1>8 DEF Reaches, ReachesAt, LeftAs, Touches
  <2>2. p[2] = "rule"
    BY <2>1 DEF Part
  <2>3. p[1] = ws /\ p[3] = type
    BY <2>1, <2>2 DEF Part
  <2>. QED  BY <2>2, <2>3, ObjectFacts DEF IsRule, o
<1>. QED  BY <1>1, <1>6, <1>7, <1>8 DEF o

LEMMA StorePiece ==
    ASSUME NEW ws \in Workspaces, NEW s \in StoresOf(ws), NEW v \in Nat \ {0}, NEW g, NothingIn(g),
           NEW e, e[Store(ws, s)] = 1, e[Layer(ws, s)] = v,
           \A o \in Objects : Part(o) = <<ws, "data">> /\ o # Store(ws, s) /\ o # Layer(ws, s) => e[o] = 0
    PROVE  Builds(g, <<POST(Store(ws, s), 1), POST(Layer(ws, s), v)>>, e, {<<ws, "data">>})
<1> DEFINE st == Store(ws, s)
           la == Layer(ws, s)
           a == POST(st, 1)
           b == POST(la, v)
           t == <<a, b>>
<1>1. /\ st \in Objects /\ ~IsLayer(st) /\ Part(st) = <<ws, "data">>
      /\ la \in Objects /\ IsLayer(la) /\ Part(la) = <<ws, "data">> /\ StoreOf(la) = st /\ st # la
      /\ st # DefaultStyle /\ la # DefaultStyle
  BY ObjectsAre, PartsOfObjects
<1>2. /\ a \in Calls /\ a.method = "POST" /\ a.on = st /\ a.to = 1
      /\ b \in Calls /\ b.method = "POST" /\ b.on = la /\ b.to = v
  BY <1>1 DEF POST, Calls
<1> HIDE DEF a, b, st, la
<1>3. IsCall(a) /\ IsCall(b)
  BY <1>2, CallsArePlans
<1>4. /\ t \in Plans /\ Len(t) = 2 /\ t[1] = a /\ t[2] = b
      /\ \A i \in 1 .. Len(t) : i \in {1, 2}
      /\ \A o : ~TouchedBefore(t, 1, o)
      /\ \A o : TouchedBefore(t, 2, o) <=> Touches(a, o)
      /\ LeftAs(t, st, 1) /\ LeftAs(t, la, v)
  BY <1>1, <1>2, <1>3, TwoCalls DEF Touches
<1> HIDE DEF t
<1>5. /\ ~\E j \in 1 .. 1 - 1 : TRUE
      /\ \A j \in 1 .. 2 - 1 : j = 1
  OBVIOUS
<1>6. CallFits(g, t, 1)
  BY <1>1, <1>2, <1>4, <1>5 DEF CallFits, Fresh, NothingIn
<1>7. Fresh(g, t, 2)
  <2>1. \A p \in Layers : g[p] = 0 /\ p # st
    BY <1>1, ObjectFacts, ObjectCases DEF NothingIn
  <2>. QED  BY <1>1, <1>2, <1>3, <1>4, <1>5, <2>1 DEF Fresh, NothingIn, Touches
<1>8. CallFits(g, t, 2)
  BY <1>1, <1>2, <1>4, <1>7 DEF CallFits
<1>9. Reaches(g, t, e, {<<ws, "data">>})
  <2>1. SUFFICES ASSUME NEW o \in Objects, Part(o) = <<ws, "data">>
                 PROVE  ReachesAt(g, t, e, o)
    BY DEF Reaches
  <2>2. CASE o \in {st, la}
    BY <2>2, <1>4 DEF ReachesAt, st, la
  <2>3. CASE o \notin {st, la}
    <3>1. e[o] = 0 /\ g[o] = 0
      BY <2>1, <2>3 DEF st, la, NothingIn
    <3>. QED  BY <3>1, <2>3, <1>2, <1>4 DEF ReachesAt, Touches
  <2>. QED  BY <2>2, <2>3
<1>. QED  BY <1>1, <1>2, <1>4, <1>6, <1>8, <1>9 DEF Builds, Fits, Within, t, a, b, st, la

(* The store "postgresql" is always there.                                 *)
LEMMA LayerPiece ==
    ASSUME NEW ws \in Workspaces, NEW v \in Nat \ {0}, NEW g, NothingIn(g),
           NEW e, e[Layer(ws, "postgresql")] = v,
           \A o \in Objects : Part(o) = <<ws, "data">> /\ o # Layer(ws, "postgresql") => e[o] = 0
    PROVE  Builds(g, <<POST(Layer(ws, "postgresql"), v)>>, e, {<<ws, "data">>})
<1> DEFINE la == Layer(ws, "postgresql")
           b == POST(la, v)
           t == <<b>>
<1>1. la \in Objects /\ IsLayer(la) /\ Part(la) = <<ws, "data">> /\ la[3] = "postgresql" /\ la # DefaultStyle
  BY ObjectsAre, PartsOfObjects DEF Layer
<1>2. b \in Calls /\ b.method = "POST" /\ b.on = la /\ b.to = v
  BY <1>1 DEF POST, Calls
<1> HIDE DEF b, la
<1>3. /\ t \in Plans /\ Len(t) = 1
      /\ \A i \in 1 .. Len(t) : i = 1 /\ t[i] = b
      /\ 1 \in 1 .. Len(t)
      /\ \A o : ~TouchedBefore(t, 1, o)
      /\ LeftAs(t, la, v)
  BY <1>2, CallsArePlans, OneCall DEF Touches
<1> HIDE DEF t
<1>4. Fresh(g, t, 1)
  <2>1. \A p \in Layers : g[p] = 0
    BY ObjectCases DEF NothingIn
  <2>2. ~\E j \in 1 .. 1 - 1 : TRUE
    OBVIOUS
  <2>. QED  BY <1>1, <1>2, <1>3, <2>1, <2>2 DEF Fresh, NothingIn
<1>5. CallFits(g, t, 1)
  BY <1>1, <1>2, <1>3, <1>4 DEF CallFits
<1>6. Reaches(g, t, e, {<<ws, "data">>})
  <2>1. SUFFICES ASSUME NEW o \in Objects, Part(o) = <<ws, "data">>
                 PROVE  ReachesAt(g, t, e, o)
    BY DEF Reaches
  <2>2. CASE o = la
    BY <2>2, <1>3 DEF ReachesAt, la
  <2>3. CASE o # la
    <3>1. e[o] = 0 /\ g[o] = 0
      BY <2>1, <2>3 DEF la, NothingIn
    <3>. QED  BY <3>1, <2>3, <1>2, <1>3 DEF ReachesAt, Touches
  <2>. QED  BY <2>2, <2>3
<1>. QED  BY <1>1, <1>2, <1>3, <1>5, <1>6 DEF Builds, Fits, Within, t, b, la

LEMMA StylePiece ==
    ASSUME NEW g, NothingIn(g), NEW e, e[Style] = 1, e[DefaultStyle] = 1
    PROVE  Builds(g, post_workspace_sld_style, e, {<<"wms", "style">>})
<1> DEFINE a == POST(Style, 1)
           b == PUT(DefaultStyle, 1)
           t == <<a, b>>
<1>1. t = post_workspace_sld_style
  BY DEF post_workspace_sld_style
<1>2. /\ a \in Calls /\ a.method = "POST" /\ a.on = Style /\ a.to = 1
      /\ b \in Calls /\ b.method = "PUT" /\ b.on = DefaultStyle /\ b.to = 1
  BY ObjectsAre DEF POST, PUT, Calls
<1> HIDE DEF a, b
<1>3. IsCall(a) /\ IsCall(b)
  BY <1>2, CallsArePlans
<1>4. /\ t \in Plans /\ Len(t) = 2 /\ t[1] = a /\ t[2] = b
      /\ \A i \in 1 .. Len(t) : i \in {1, 2}
      /\ \A o : ~TouchedBefore(t, 1, o)
      /\ \A o : TouchedBefore(t, 2, o) <=> Touches(a, o)
      /\ LeftAs(t, Style, 1) /\ LeftAs(t, DefaultStyle, 1)
  BY <1>2, <1>3, ObjectsAre, TwoCalls DEF Touches
<1> HIDE DEF t
<1>5. ~\E j \in 1 .. 1 - 1 : TRUE
  OBVIOUS
<1>6. CallFits(g, t, 1)
  BY <1>2, <1>4, <1>5, ObjectsAre DEF CallFits, Fresh, NothingIn
<1>7. CallFits(g, t, 2)
  BY <1>2, <1>3, <1>4 DEF CallFits, Touches
<1>8. Reaches(g, t, e, {<<"wms", "style">>})
  <2>1. SUFFICES ASSUME NEW o \in Objects, Part(o) = <<"wms", "style">>
                 PROVE  o \in {Style, DefaultStyle}
    BY <1>4 DEF Reaches, ReachesAt
  <2>2. o[2] \notin {"layer", "store"}
    BY <2>1 DEF Part
  <2>3. ~IsRule(o)
    BY <2>1, <2>2, ObjectFacts DEF Part, IsRule
  <2>. QED  BY <2>2, <2>3, ObjectFacts DEF IsRule
<1>. QED  BY <1>1, <1>2, <1>4, <1>6, <1>7, <1>8, PartsOfObjects DEF Builds, Fits, Within

(* PATCH of the title: nothing is assumed of what is there.                *)
LEMMA PutPiece ==
    ASSUME NEW ws \in Workspaces, NEW s \in StoresOf(ws) \cup {"postgresql"}, NEW v \in Nat \ {0}, NEW g
    PROVE  LET t == <<PUT(Layer(ws, s), v)>> IN
           /\ Fits(g, t) /\ Within(t, {<<ws, "data">>})
           /\ \A e : /\ e[Layer(ws, s)] = v
                     /\ \A o \in Objects : Part(o) = <<ws, "data">> /\ o # Layer(ws, s) => e[o] = g[o]
                     => Reaches(g, t, e, {<<ws, "data">>})
<1> DEFINE la == Layer(ws, s)
           b == PUT(la, v)
           t == <<b>>
<1>1. la \in Objects /\ IsLayer(la) /\ Part(la) = <<ws, "data">>
  BY ObjectsAre, PartsOfObjects
<1>2. b \in Calls /\ b.method = "PUT" /\ b.on = la /\ b.to = v
  BY <1>1 DEF PUT, Calls
<1> HIDE DEF b, la
<1>3. /\ t \in Plans /\ Len(t) = 1
      /\ \A i \in 1 .. Len(t) : i = 1 /\ t[i] = b
      /\ 1 \in 1 .. Len(t)
      /\ LeftAs(t, la, v)
  BY <1>2, CallsArePlans, OneCall DEF Touches
<1> HIDE DEF t
<1>4. CallFits(g, t, 1)
  BY <1>1, <1>2, <1>3 DEF CallFits
<1>5. ASSUME NEW e, e[la] = v, \A o \in Objects : Part(o) = <<ws, "data">> /\ o # la => e[o] = g[o]
      PROVE  Reaches(g, t, e, {<<ws, "data">>})
  <2>1. SUFFICES ASSUME NEW o \in Objects, Part(o) = <<ws, "data">>
                 PROVE  ReachesAt(g, t, e, o)
    BY DEF Reaches
  <2>2. CASE o = la
    BY <2>2, <1>3, <1>5 DEF ReachesAt
  <2>3. CASE o # la
    BY <2>1, <2>3, <1>2, <1>3, <1>5 DEF ReachesAt, Touches
  <2>. QED  BY <2>2, <2>3
<1>. QED  BY <1>1, <1>2, <1>3, <1>4, <1>5 DEF Fits, Within, t, b, la

-----------------------------------------------------------------------------
(* What is expected of a layer, part by part.                              *)

LEMMA StoresOfLayer ==
    ASSUME NEW r \in Row
    PROVE  /\ WmsStore(r) \in StoresOf("wms") \cup {"postgresql"}
           /\ DbStore(r) \in StoresOf("wfs") \cup {"postgresql"}
           /\ r.kind \in Kinds /\ r.style \in {"sld", "qml"} /\ r.title \in Nat \ {0}
  BY DEF Row, Kinds, WmsStore, DbStore, IsVector, StoresOf

LEMMA PartTells ==
    ASSUME NEW o \in Objects
    PROVE  /\ \A ws : Part(o) = <<ws, "data">> => o[1] = ws /\ o[2] \in {"layer", "store"}
           /\ \A ws : \A type \in {"r", "w"} : Part(o) = <<ws, type>> => o = Rule(ws, type)
           /\ Part(o) = <<"wms", "style">> => o \in {Style, DefaultStyle}
<1>1. CASE o[2] \in {"layer", "store"}
  <2>1. Part(o) = <<o[1], "data">>
    BY <1>1 DEF Part
  <2>2. \A ws : <<o[1], "data">> = <<ws, "data">> => o[1] = ws
    BY Head(<<o[1], "data">>) = o[1], \A ws : Head(<<ws, "data">>) = ws
  <2>3. \A ws : \A type \in {"r", "w", "style"} : <<o[1], "data">> # <<ws, type>>
    BY Head(Tail(<<o[1], "data">>)) = "data", \A ws, type : Head(Tail(<<ws, type>>)) = type
  <2>. QED  BY <1>1, <2>1, <2>2, <2>3
<1>2. CASE IsRule(o)
  <2>1. Part(o) = <<o[1], o[3]>> /\ o[3] \in {"r", "w"} /\ o = Rule(o[1], o[3])
    BY <1>2, ObjectFacts DEF Part, IsRule
  <2>2. \A ws, type : <<o[1], o[3]>> = <<ws, type>> => o[1] = ws /\ o[3] = type
    BY Head(<<o[1], o[3]>>) = o[1], Head(Tail(<<o[1], o[3]>>)) = o[3],
       \A ws, type : Head(<<ws, type>>) = ws /\ Head(Tail(<<ws, type>>)) = type
  <2>. QED  BY <2>1, <2>2
<1>3. CASE o \in {Style, DefaultStyle}
  <2>1. Part(o) = <<"wms", "style">>
    BY <1>3, PartsOfObjects
  <2>2. \A ws : \A type \in {"r", "w", "data"} : <<"wms", "style">> # <<ws, type>>
    BY Head(Tail(<<"wms", "style">>)) = "style", \A ws, type : Head(Tail(<<ws, type>>)) = type
  <2>. QED  BY <1>3, <2>1, <2>2
<1>. QED  BY <1>1, <1>2, <1>3, ObjectFacts DEF IsRule

LEMMA ExpectedIs ==
    ASSUME NEW r \in Row
    PROVE  LET e == Expected(r) IN
           /\ e \in [Objects -> Nat]
           /\ \A o \in Objects : Part(o) = <<"wms", "data">> =>
                 e[o] = IF o = Layer("wms", WmsStore(r)) THEN r.title
                        ELSE IF o = Store("wms", WmsStore(r)) THEN 1 ELSE 0
           /\ \A o \in Objects : Part(o) = <<"wfs", "data">> =>
                 e[o] = IF o = Layer("wfs", DbStore(r)) /\ IsVector(r) THEN r.title
                        ELSE IF o = Store("wfs", DbStore(r)) /\ IsVector(r) THEN 1 ELSE 0
           /\ \A ws \in Workspaces, type \in {"r", "w"} :
                 e[Rule(ws, type)] = IF ws = "wms" \/ IsVector(r) THEN r.title ELSE 0
           /\ \A o \in {Style, DefaultStyle} : e[o] = IF r.style = "sld" THEN 1 ELSE 0
<1> DEFINE e == Expected(r)
<1>1. r.title \in Nat
  BY StoresOfLayer
<1>2. e \in [Objects -> Nat]
  BY <1>1 DEF Expected
<1>3. ASSUME NEW o \in Objects, Part(o) = <<"wms", "data">>
      PROVE  e[o] = IF o = Layer("wms", WmsStore(r)) THEN r.title
                    ELSE IF o = Store("wms", WmsStore(r)) THEN 1 ELSE 0
  <2>1. o[1] = "wms" /\ o[2] \in {"layer", "store"}
    BY <1>3, PartTells
  <2>2. o \notin {Style, DefaultStyle} /\ o[2] # "rule"
        /\ o # Layer("wfs", DbStore(r)) /\ o # Store("wfs", DbStore(r))
    BY <2>1 DEF Style, DefaultStyle, Layer, Store
  <2>3. CASE o = Layer("wms", WmsStore(r))
    <3>1. o # Store("wms", WmsStore(r))
      BY <2>3 DEF Layer, Store
    <3>. QED  BY <2>2, <2>3, <3>1 DEF Expected
  <2>4. CASE o = Store("wms", WmsStore(r))
    <3>1. o # Layer("wms", WmsStore(r))
      BY <2>4 DEF Layer, Store
    <3>. QED  BY <2>2, <2>4, <3>1 DEF Expected
  <2>5. CASE ~(o = Layer("wms", WmsStore(r))) /\ ~(o = Store("wms", WmsStore(r)))
    BY <2>2, <2>5 DEF Expected
  <2>. QED  BY <2>3, <2>4, <2>5
<1>4. ASSUME NEW o \in Objects, Part(o) = <<"wfs", "data">>
      PROVE  e[o] = IF o = Layer("wfs", DbStore(r)) /\ IsVector(r) THEN r.title
                    ELSE IF o = Store("wfs", DbStore(r)) /\ IsVector(r) THEN 1 ELSE 0
  <2>1. o[1] = "wfs" /\ o[2] \in {"layer", "store"}
    BY <1>4, PartTells
  <2>2. o \notin {Style, DefaultStyle} /\ o[2] # "rule"
        /\ o # Layer("wms", WmsStore(r)) /\ o # Store("wms", WmsStore(r))
    BY <2>1 DEF Style, DefaultStyle, Layer, Store
  <2>3. CASE o = Layer("wfs", DbStore(r)) /\ IsVector(r)
    <3>1. o # Store("wfs", DbStore(r))
      BY <2>3 DEF Layer, Store
    <3>. QED  BY <2>2, <2>3, <3>1 DEF Expected
  <2>4. CASE o = Store("wfs", DbStore(r)) /\ IsVector(r)
    <3>1. o # Layer("wfs", DbStore(r))
      BY <2>4 DEF Layer, Store
    <3>. QED  BY <2>2, <2>4, <3>1 DEF Expected
  <2>5. CASE ~(o = Layer("wfs", DbStore(r)) /\ IsVector(r)) /\ ~(o = Store("wfs", DbStore(r)) /\ IsVector(r))
    BY <2>2, <2>5 DEF Expected
  <2>. QED  BY <2>3, <2>4, <2>5
<1>5. ASSUME NEW ws \in Workspaces, NEW type \in {"r", "w"}
      PROVE  e[Rule(ws, type)] = IF ws = "wms" \/ IsVector(r) THEN r.title ELSE 0
  <2> DEFINE o == Rule(ws, type)
  <2>1. o \in Objects /\ o[1] = ws /\ o[2] = "rule"
    BY ObjectsAre DEF Rule
  <2>2. /\ o \notin {Style, DefaultStyle}
        /\ o # Layer("wms", WmsStore(r)) /\ o # Store("wms", WmsStore(r))
        /\ o # Layer("wfs", DbStore(r)) /\ o # Store("wfs", DbStore(r))
    BY <2>1 DEF Style, DefaultStyle, Layer, Store
  <2> HIDE DEF o
  <2>3. e[o] = IF ws = "wms" \/ IsVector(r) THEN r.title ELSE 0
    BY <2>1, <2>2 DEF Expected
  <2>. QED  BY <2>3 DEF o
<1>6. ASSUME NEW o \in {Style, DefaultStyle}
      PROVE  e[o] = IF r.style = "sld" THEN 1 ELSE 0
  <2>1. o \in Objects
    BY ObjectsAre
  <2>2. /\ o[2] # "rule"
        /\ o # Layer("wms", WmsStore(r)) /\ o # Store("wms", WmsStore(r))
        /\ o # Layer("wfs", DbStore(r)) /\ o # Store("wfs", DbStore(r))
    BY DEF Style, DefaultStyle, Layer, Store
  <2>. QED  BY <2>1, <2>2 DEF Expected
<1>. QED  BY <1>2, <1>3, <1>4, <1>5, <1>6

-----------------------------------------------------------------------------
(* Plans that publish and PATCH a layer.                                   *)

RuleParts(ws) == {<<ws, "r">>, <<ws, "w">>}

LEMMA PartsApart ==
    /\ \A ws : <<ws, "r">> # <<ws, "w">> /\ <<ws, "data">> # <<ws, "r">> /\ <<ws, "data">> # <<ws, "w">>
    /\ DataAndRules("wfs") \cap DataAndRules("wms") = {}
    /\ (DataAndRules("wfs") \cup DataAndRules("wms")) \cap {<<"wms", "style">>} = {}
    /\ \A ws : DataAndRules(ws) = {<<ws, "data">>} \cup RuleParts(ws)
    /\ \A ws : {<<ws, "data">>} \cap RuleParts(ws) = {}
<1>1. \A a, b : Head(<<a, b>>) = a /\ Head(Tail(<<a, b>>)) = b
  OBVIOUS
<1>2. \A a, b, c, d : <<a, b>> = <<c, d>> => a = c /\ b = d
  BY <1>1
<1>. QED  BY <1>2 DEF DataAndRules, RuleParts

LEMMA RulesPlan ==
    ASSUME NEW ws \in Workspaces, NEW v \in Nat \ {0}, NEW g
    PROVE  LET t == set_security_rules(ws, v) IN
           /\ Fits(g, t) /\ Within(t, RuleParts(ws))
           /\ \A e : e[Rule(ws, "r")] = v /\ e[Rule(ws, "w")] = v => Reaches(g, t, e, RuleParts(ws))
<1> DEFINE a == ensure_security_roles(ws, "r", v)
           b == ensure_security_roles(ws, "w", v)
<1>1. set_security_rules(ws, v) = a \o b
  BY DEF set_security_rules
<1>2. /\ Fits(g, a) /\ Within(a, {<<ws, "r">>})
      /\ \A e : e[Rule(ws, "r")] = v => Reaches(g, a, e, {<<ws, "r">>})
  BY RulePiece
<1>3. /\ Fits(g, b) /\ Within(b, {<<ws, "w">>})
      /\ \A e : e[Rule(ws, "w")] = v => Reaches(g, b, e, {<<ws, "w">>})
  BY RulePiece
<1>4. a \in Plans /\ b \in Plans
  BY <1>2, <1>3 DEF Fits
<1> HIDE DEF a, b
<1>5. {<<ws, "r">>} \cap {<<ws, "w">>} = {} /\ RuleParts(ws) = {<<ws, "r">>} \cup {<<ws, "w">>}
  BY PartsApart DEF RuleParts
<1>6. Fits(g, a \o b) /\ Within(a \o b, RuleParts(ws))
  BY <1>2, <1>3, <1>5, FitsConcat
<1>7. ASSUME NEW e, e[Rule(ws, "r")] = v, e[Rule(ws, "w")] = v
      PROVE  Reaches(g, a \o b, e, RuleParts(ws))
  <2>1. Reaches(g, a, e, {<<ws, "r">>}) /\ Reaches(g, b, e, {<<ws, "w">>})
    BY <1>2, <1>3, <1>7
  <2>2. Reaches(g, a \o b, e, {<<ws, "r">>} \cup {<<ws, "w">>})
    BY <2>1, <1>2, <1>3, <1>4, <1>5, ReachesConcat
  <2>. QED  BY <2>2, <1>5
<1>. QED  BY <1>1, <1>6, <1>7

LEMMA PairConcat ==
    ASSUME NEW a, NEW b
    PROVE  <<a>> \o <<b>> = <<a, b>> /\ <<>> \o <<b>> = <<b>>
<1> DEFINE S == {a, b}
<1>1. /\ <<a>> \in Seq(S) /\ <<b>> \in Seq(S) /\ <<>> \in Seq(S) /\ <<a, b>> \in Seq(S)
      /\ Len(<<a>>) = 1 /\ Len(<<b>>) = 1 /\ Len(<<>>) = 0 /\ Len(<<a, b>>) = 2
  OBVIOUS
<1>2. <<>> \o <<b>> = <<b>>
  BY <1>1, ConcatEmptySeq
<1>3. /\ <<a>> \o <<b>> \in Seq(S) /\ Len(<<a>> \o <<b>>) = 2
      /\ (<<a>> \o <<b>>)[1] = a /\ (<<a>> \o <<b>>)[2] = b
  BY <1>1, ConcatProperties, <<a>>[1] = a, <<b>>[1] = b
<1>4. \A i \in 1 .. 2 : (<<a>> \o <<b>>)[i] = <<a, b>>[i]
  BY <1>3, <<a, b>>[1] = a, <<a, b>>[2] = b
<1>5. <<a>> \o <<b>> = <<a, b>>
  BY <1>1, <1>3, <1>4, SeqEqual
<1>. QED  BY <1>2, <1>5

LEMMA FromDbBuilds ==
    ASSUME NEW ws \in Workspaces, NEW r \in Row, NEW g, NothingIn(g), NEW e,
           \A o \in Objects : Part(o) = <<ws, "data">> =>
              e[o] = IF o = Layer(ws, DbStore(r)) THEN r.title ELSE IF o = Store(ws, DbStore(r)) THEN 1 ELSE 0
    PROVE  Builds(g, publish_layer_from_db(ws, r), e, {<<ws, "data">>})
<1> DEFINE a == create_db_store(ws)
           b == post_feature_type(ws, DbStore(r), r.title)
<1>1. publish_layer_from_db(ws, r) = IF r.kind = "table" THEN <<a, b>> ELSE <<b>>
  <2>1. <<a>> \o <<b>> = <<a, b>> /\ <<>> \o <<b>> = <<b>>
    BY PairConcat
  <2>. QED  BY <2>1 DEF publish_layer_from_db
<1>2. r.title \in Nat \ {0}
  BY StoresOfLayer
<1>3. CASE r.kind = "table"
  <2> DEFINE s == "external_db"
  <2>1. DbStore(r) = s /\ s \in StoresOf(ws)
    BY <1>3 DEF DbStore, StoresOf
  <2>2. /\ Store(ws, s) \in Objects /\ Part(Store(ws, s)) = <<ws, "data">> /\ Layer(ws, s) # Store(ws, s)
        /\ Layer(ws, s) \in Objects /\ Part(Layer(ws, s)) = <<ws, "data">>
    BY <2>1, ObjectsAre, PartsOfObjects
  <2>3. e[Store(ws, s)] = 1 /\ e[Layer(ws, s)] = r.title
    BY <2>1, <2>2
  <2>4. \A o \in Objects : Part(o) = <<ws, "data">> /\ o # Store(ws, s) /\ o # Layer(ws, s) => e[o] = 0
    BY <2>1
  <2>5. a = POST(Store(ws, s), 1) /\ b = POST(Layer(ws, s), r.title)
    BY <2>1 DEF create_db_store, post_feature_type
  <2>6. Builds(g, <<POST(Store(ws, s), 1), POST(Layer(ws, s), r.title)>>, e, {<<ws, "data">>})
    BY <1>2, <2>1, <2>3, <2>4, StorePiece
  <2>. QED  BY <1>1, <1>3, <2>5, <2>6
<1>4. CASE r.kind # "table"
  <2> DEFINE s == "postgresql"
  <2>1. DbStore(r) = s
    BY <1>4 DEF DbStore
  <2>2. Layer(ws, s) \in Objects /\ Part(Layer(ws, s)) = <<ws, "data">>
    BY ObjectsAre, PartsOfObjects
  <2>3. e[Layer(ws, s)] = r.title
    BY <2>1, <2>2
  <2>4. ASSUME NEW o \in Objects, Part(o) = <<ws, "data">>, o # Layer(ws, s)
        PROVE  e[o] = 0
    <3>1. o # Store(ws, s)
      <4>1. ASSUME o = Store(ws, s)
            PROVE  FALSE
        <5>1. o[2] = "store" /\ o[1] = ws /\ o[3] = s
          BY <4>1 DEF Store
        <5>2. s \in StoresOf(ws)
          BY <5>1, ObjectFacts
        <5>. QED  BY <5>2 DEF StoresOf
      <4>. QED  BY <4>1
    <3>. QED  BY <2>1, <2>4, <3>1
  <2>5. b = POST(Layer(ws, s), r.title)
    BY <2>1 DEF post_feature_type
  <2>6. Builds(g, <<POST(Layer(ws, s), r.title)>>, e, {<<ws, "data">>})
    BY <1>2, <2>3, <2>4, LayerPiece
  <2>. QED  BY <1>1, <1>4, <2>5, <2>6
<1>. QED  BY <1>3, <1>4

LEMMA WfsBuilds ==
    ASSUME NEW r \in Row, NEW g, NothingIn(g)
    PROVE  Builds(g, refresh_wfs(r), Expected(r), DataAndRules("wfs"))
<1> DEFINE e == Expected(r)
<1>1. "wfs" \in Workspaces /\ r.title \in Nat \ {0}
  BY StoresOfLayer DEF Workspaces
<1>2. CASE IsVector(r)
  <2>1. \A o \in Objects : Part(o) = <<"wfs", "data">> =>
          e[o] = IF o = Layer("wfs", DbStore(r)) THEN r.title ELSE IF o = Store("wfs", DbStore(r)) THEN 1 ELSE 0
    BY <1>2, ExpectedIs
  <2>2. e[Rule("wfs", "r")] = r.title /\ e[Rule("wfs", "w")] = r.title
    BY <1>1, <1>2, ExpectedIs
  <2> HIDE DEF e
  <2>3. Builds(g, publish_layer_from_db("wfs", r), e, {<<"wfs", "data">>})
    BY <1>1, <2>1, FromDbBuilds
  <2>4. Builds(g, set_security_rules("wfs", r.title), e, RuleParts("wfs"))
    BY <1>1, <2>2, RulesPlan DEF Builds
  <2>5. refresh_wfs(r) = publish_layer_from_db("wfs", r) \o set_security_rules("wfs", r.title)
    BY <1>2 DEF refresh_wfs
  <2>6. Builds(g, refresh_wfs(r), e, {<<"wfs", "data">>} \cup RuleParts("wfs"))
    BY <2>3, <2>4, <2>5, PartsApart, BuildsConcat
  <2>. QED  BY <2>6, PartsApart DEF e
<1>3. CASE ~IsVector(r)
  <2>1. refresh_wfs(r) = <<>>
    BY <1>3 DEF refresh_wfs
  <2>2. ASSUME NEW o \in Objects, Part(o) \in DataAndRules("wfs")
        PROVE  g[o] = e[o]
    <3>1. CASE Part(o) = <<"wfs", "data">>
      <4>1. e[o] = 0
        BY <3>1, <1>3, ExpectedIs
      <4>. QED  BY <4>1 DEF NothingIn
    <3>2. CASE Part(o) \in RuleParts("wfs")
      <4>1. o = Rule("wfs", "r") \/ o = Rule("wfs", "w")
        BY <3>2, PartTells DEF RuleParts
      <4>2. e[Rule("wfs", "r")] = 0 /\ e[Rule("wfs", "w")] = 0
        BY <1>1, <1>3, ExpectedIs
      <4>. QED  BY <4>1, <4>2 DEF NothingIn
    <3>. QED  BY <2>2, <3>1, <3>2, PartsApart
  <2>. QED  BY <2>1, <2>2, NoCallPiece
<1>. QED  BY <1>2, <1>3

LEMMA WmsBuilds ==
    ASSUME NEW r \in Row, NEW g, NothingIn(g)
    PROVE  Builds(g, refresh_wms(r), Expected(r), DataAndRules("wms"))
<1> DEFINE e == Expected(r)
           s == WmsStore(r)
           pair == <<POST(Store("wms", s), 1), POST(Layer("wms", s), r.title)>>
           data == IF ~IsVector(r) THEN <<create_coverage_store(r.kind), publish_coverage(r.kind, r.title)>>
                   ELSE IF r.style = "qml" THEN publish_layer_from_qgis(r)
                   ELSE publish_layer_from_db("wms", r)
<1>1. "wms" \in Workspaces /\ r.title \in Nat \ {0}
  BY StoresOfLayer DEF Workspaces
<1>2. \A o \in Objects : Part(o) = <<"wms", "data">> =>
          e[o] = IF o = Layer("wms", s) THEN r.title ELSE IF o = Store("wms", s) THEN 1 ELSE 0
  BY ExpectedIs
<1>3. e[Rule("wms", "r")] = r.title /\ e[Rule("wms", "w")] = r.title
  BY <1>1, ExpectedIs
<1> HIDE DEF e
<1>4. Builds(g, data, e, {<<"wms", "data">>})
  <2>1. CASE IsVector(r) /\ r.style # "qml"
    <3>1. s = DbStore(r) /\ data = publish_layer_from_db("wms", r)
      BY <2>1 DEF WmsStore
    <3>. QED  BY <3>1, <1>1, <1>2, FromDbBuilds
  <2>2. CASE ~(IsVector(r) /\ r.style # "qml")
    <3>1. s \in StoresOf("wms") /\ data = pair
      BY <2>2 DEF WmsStore, StoresOf, Row, Kinds, IsVector, publish_layer_from_qgis, create_wms_store, post_wms_layer,
                  create_coverage_store, publish_coverage
    <3>2. /\ Store("wms", s) \in Objects /\ Part(Store("wms", s)) = <<"wms", "data">>
          /\ Layer("wms", s) \in Objects /\ Part(Layer("wms", s)) = <<"wms", "data">>
          /\ Layer("wms", s) # Store("wms", s)
      BY <3>1, <1>1, ObjectsAre, PartsOfObjects
    <3>3. e[Store("wms", s)] = 1 /\ e[Layer("wms", s)] = r.title
      BY <3>2, <1>2
    <3>4. \A o \in Objects : Part(o) = <<"wms", "data">> /\ o # Store("wms", s) /\ o # Layer("wms", s) => e[o] = 0
      BY <1>2
    <3> HIDE DEF s, data
    <3>5. Builds(g, pair, e, {<<"wms", "data">>})
      BY <1>1, <3>1, <3>3, <3>4, StorePiece
    <3>. QED  BY <3>1, <3>5
  <2>. QED  BY <2>1, <2>2
<1>5. Builds(g, set_security_rules("wms", r.title), e, RuleParts("wms"))
  BY <1>1, <1>3, RulesPlan DEF Builds
<1>6. refresh_wms(r) = data \o set_security_rules("wms", r.title)
  BY DEF refresh_wms
<1> HIDE DEF data
<1>7. Builds(g, refresh_wms(r), e, {<<"wms", "data">>} \cup RuleParts("wms"))
  BY <1>4, <1>5, <1>6, PartsApart, BuildsConcat
<1>. QED  BY <1>7, PartsApart DEF e

LEMMA SldBuilds ==
    ASSUME NEW r \in Row, NEW g, NothingIn(g)
    PROVE  Builds(g, refresh_sld(r), Expected(r), {<<"wms", "style">>})
<1> DEFINE e == Expected(r)
<1>1. CASE r.style = "sld"
  <2>1. e[Style] = 1 /\ e[DefaultStyle] = 1
    BY <1>1, ExpectedIs
  <2> HIDE DEF e
  <2>2. Builds(g, post_workspace_sld_style, e, {<<"wms", "style">>})
    BY <2>1, StylePiece
  <2>. QED  BY <1>1, <2>2 DEF refresh_sld, e
<1>2. CASE r.style # "sld"
  <2>1. refresh_sld(r) = <<>>
    BY <1>2 DEF refresh_sld
  <2>2. ASSUME NEW o \in Objects, Part(o) \in {<<"wms", "style">>}
        PROVE  g[o] = e[o]
    <3>1. o \in {Style, DefaultStyle}
      BY <2>2, PartTells
    <3>2. e[o] = 0
      BY <3>1, <1>2, ExpectedIs
    <3>. QED  BY <3>2 DEF NothingIn
  <2>. QED  BY <2>1, <2>2, NoCallPiece
<1>. QED  BY <1>1, <1>2

LEMMA TaskBuilds ==
    ASSUME NEW g, NEW e, NEW P, NEW calls, Builds(g, calls, e, P), NEW undo \in Undos
    PROVE  Builds(g, Task(calls, undo), e, P)
<1> DEFINE a == [method |-> "start", undo |-> <<>>]
           b == [method |-> "end", undo |-> undo]
<1>1. a \in Marks /\ b \in Marks
  BY DEF Marks, Undos
<1> HIDE DEF a, b
<1>2. Builds(g, <<a>>, e, {}) /\ Builds(g, <<b>>, e, {})
  BY <1>1, MarkPiece
<1>3. Builds(g, <<a>> \o calls, e, {} \cup P)
  BY <1>2, BuildsConcat, {} \cap P = {}
<1>4. {} \cup P = P /\ P \cup {} = P /\ P \cap {} = {}
  OBVIOUS
<1>5. Builds(g, <<a>> \o calls, e, P)
  BY <1>3, <1>4
<1>6. Builds(g, (<<a>> \o calls) \o <<b>>, e, P \cup {})
  BY <1>2, <1>4, <1>5, BuildsConcat
<1>. QED  BY <1>4, <1>6 DEF Task, a, b

LEMMA PublishingBuilds ==
    ASSUME NEW r \in Row, NEW g, NothingIn(g)
    PROVE  Builds(g, PublishingChain(r).todo, Expected(r), Parts)
<1> DEFINE e == Expected(r)
           a == Task(refresh_wfs(r), delete_wfs)
           b == Task(refresh_wms(r), delete_wms)
           c == Task(refresh_sld(r), delete_sld)
<1>1. PublishingChain(r).todo = (a \o b) \o c
  BY DEF PublishingChain
<1>2. delete_wfs \in Undos /\ delete_wms \in Undos /\ delete_sld \in Undos
  BY DEF Undos
<1>3. Builds(g, a, e, DataAndRules("wfs"))
  BY <1>2, WfsBuilds, TaskBuilds
<1>4. Builds(g, b, e, DataAndRules("wms"))
  BY <1>2, WmsBuilds, TaskBuilds
<1>5. Builds(g, c, e, {<<"wms", "style">>})
  BY <1>2, SldBuilds, TaskBuilds
<1> HIDE DEF a, b, c, e
<1>6. Builds(g, a \o b, e, DataAndRules("wfs") \cup DataAndRules("wms"))
  BY <1>3, <1>4, PartsApart, BuildsConcat
<1>7. Builds(g, (a \o b) \o c, e, Parts)
  BY <1>5, <1>6, PartsApart, BuildsConcat DEF Parts
<1>. QED  BY <1>1, <1>7 DEF e

(* The same layer with another title.                                      *)
SameKind(q, r) == q.kind = r.kind /\ q.style = r.style

LEMMA PatchPart ==
    ASSUME NEW ws \in Workspaces, NEW s \in StoresOf(ws) \cup {"postgresql"}, NEW v \in Nat \ {0}, NEW g
    PROVE  LET t == <<PUT(Layer(ws, s), v)>> \o set_security_rules(ws, v) IN
           /\ Fits(g, t) /\ Within(t, DataAndRules(ws))
           /\ \A e : /\ e[Layer(ws, s)] = v
                     /\ \A o \in Objects : Part(o) = <<ws, "data">> /\ o # Layer(ws, s) => e[o] = g[o]
                     /\ e[Rule(ws, "r")] = v /\ e[Rule(ws, "w")] = v
                     => Reaches(g, t, e, DataAndRules(ws))
<1> DEFINE a == <<PUT(Layer(ws, s), v)>>
           b == set_security_rules(ws, v)
<1>1. /\ Fits(g, a) /\ Within(a, {<<ws, "data">>})
      /\ \A e : /\ e[Layer(ws, s)] = v
                /\ \A o \in Objects : Part(o) = <<ws, "data">> /\ o # Layer(ws, s) => e[o] = g[o]
                => Reaches(g, a, e, {<<ws, "data">>})
  BY PutPiece
<1>2. /\ Fits(g, b) /\ Within(b, RuleParts(ws))
      /\ \A e : e[Rule(ws, "r")] = v /\ e[Rule(ws, "w")] = v => Reaches(g, b, e, RuleParts(ws))
  BY RulesPlan
<1>3. a \in Plans /\ b \in Plans
  BY <1>1, <1>2 DEF Fits
<1>4. {<<ws, "data">>} \cap RuleParts(ws) = {} /\ DataAndRules(ws) = {<<ws, "data">>} \cup RuleParts(ws)
  BY PartsApart
<1> HIDE DEF a, b
<1>5. Fits(g, a \o b) /\ Within(a \o b, DataAndRules(ws))
  <2>1. Fits(g, a \o b) /\ Within(a \o b, {<<ws, "data">>} \cup RuleParts(ws))
    BY <1>1, <1>2, <1>4, FitsConcat
  <2>. QED  BY <2>1, <1>4
<1>6. ASSUME NEW e, e[Layer(ws, s)] = v,
             \A o \in Objects : Part(o) = <<ws, "data">> /\ o # Layer(ws, s) => e[o] = g[o],
             e[Rule(ws, "r")] = v, e[Rule(ws, "w")] = v
      PROVE  Reaches(g, a \o b, e, DataAndRules(ws))
  <2>1. Reaches(g, a, e, {<<ws, "data">>}) /\ Reaches(g, b, e, RuleParts(ws))
    BY <1>1, <1>2, <1>6
  <2>2. Reaches(g, a \o b, e, {<<ws, "data">>} \cup RuleParts(ws))
    BY <2>1, <1>1, <1>2, <1>3, <1>4, ReachesConcat
  <2>. QED  BY <2>2, <1>4
<1>. QED  BY <1>5, <1>6 DEF a, b

LEMMA PatchWfs ==
    ASSUME NEW r \in Row
    PROVE  /\ Fits(gs, patch_wfs(r)) /\ Within(patch_wfs(r), DataAndRules("wfs"))
           /\ \A q \in Row : SameKind(q, r) /\ gs = Expected(q) =>
                 Reaches(gs, patch_wfs(r), Expected(r), DataAndRules("wfs"))
<1> DEFINE la == Layer("wfs", DbStore(r))
<1>1. /\ "wfs" \in Workspaces /\ DbStore(r) \in StoresOf("wfs") \cup {"postgresql"} /\ r.title \in Nat \ {0}
      /\ la \in Objects /\ Part(la) = <<"wfs", "data">>
  BY StoresOfLayer, ObjectsAre, PartsOfObjects DEF Workspaces
<1>2. ASSUME NEW q \in Row, SameKind(q, r), gs = Expected(q)
      PROVE  /\ IsVector(r) => /\ gs[la] # 0
                               /\ \A o \in Objects : Part(o) = <<"wfs", "data">> /\ o # la => Expected(r)[o] = gs[o]
             /\ ~IsVector(r) => \A o \in Objects : Part(o) \in DataAndRules("wfs") => gs[o] = 0 /\ Expected(r)[o] = 0
  <2>1. DbStore(q) = DbStore(r) /\ IsVector(q) = IsVector(r) /\ q.title # 0
    BY <1>2, StoresOfLayer DEF SameKind, DbStore, IsVector
  <2>2. ASSUME IsVector(r)
        PROVE  /\ gs[la] # 0
               /\ \A o \in Objects : Part(o) = <<"wfs", "data">> /\ o # la => Expected(r)[o] = gs[o]
    <3>1. \A o \in Objects : Part(o) = <<"wfs", "data">> =>
             gs[o] = IF o = la THEN q.title ELSE IF o = Store("wfs", DbStore(r)) THEN 1 ELSE 0
      <4>1. \A o \in Objects : Part(o) = <<"wfs", "data">> =>
               Expected(q)[o] = IF o = Layer("wfs", DbStore(q)) THEN q.title
                                ELSE IF o = Store("wfs", DbStore(q)) THEN 1 ELSE 0
        BY <2>1, <2>2, ExpectedIs
      <4>. QED  BY <1>2, <2>1, <4>1
    <3>2. \A o \in Objects : Part(o) = <<"wfs", "data">> =>
             Expected(r)[o] = IF o = la THEN r.title ELSE IF o = Store("wfs", DbStore(r)) THEN 1 ELSE 0
      BY <2>2, ExpectedIs
    <3>. QED  BY <1>1, <2>1, <3>1, <3>2
  <2>3. ASSUME ~IsVector(r), NEW o \in Objects, Part(o) \in DataAndRules("wfs")
        PROVE  gs[o] = 0 /\ Expected(r)[o] = 0
    <3>1. CASE Part(o) = <<"wfs", "data">>
      BY <1>2, <2>1, <2>3, <3>1, ExpectedIs
    <3>2. CASE Part(o) \in RuleParts("wfs")
      <4>1. o = Rule("wfs", "r") \/ o = Rule("wfs", "w")
        BY <3>2, PartTells DEF RuleParts
      <4>2. /\ Expected(r)[Rule("wfs", "r")] = 0 /\ Expected(r)[Rule("wfs", "w")] = 0
            /\ Expected(q)[Rule("wfs", "r")] = 0 /\ Expected(q)[Rule("wfs", "w")] = 0
        BY <1>1, <2>1, <2>3, ExpectedIs
      <4>. QED  BY <1>2, <4>1, <4>2
    <3>. QED  BY <2>3, <3>1, <3>2, PartsApart
  <2>. QED  BY <2>2, <2>3
<1>3. CASE gs[la] = 0
  <2>1. patch_wfs(r) = <<>>
    BY <1>3 DEF patch_wfs
  <2>2. Builds(gs, <<>>, gs, DataAndRules("wfs"))
    BY NoCallPiece
  <2>3. ASSUME NEW q \in Row, SameKind(q, r), gs = Expected(q)
        PROVE  Reaches(gs, patch_wfs(r), Expected(r), DataAndRules("wfs"))
    <3>1. ~IsVector(r)
      BY <1>2, <1>3, <2>3
    <3>2. \A o \in Objects : Part(o) \in DataAndRules("wfs") => gs[o] = Expected(r)[o]
      BY <1>2, <2>3, <3>1
    <3>3. Builds(gs, <<>>, Expected(r), DataAndRules("wfs"))
      BY <3>2, NoCallPiece
    <3>. QED  BY <2>1, <3>3 DEF Builds
  <2>. QED  BY <2>1, <2>2, <2>3 DEF Builds
<1>4. CASE gs[la] # 0
  <2> DEFINE t == <<PUT(la, r.title)>> \o set_security_rules("wfs", r.title)
  <2>1. patch_wfs(r) = t
    BY <1>4 DEF patch_wfs, patch_feature_type
  <2>2. Fits(gs, t) /\ Within(t, DataAndRules("wfs"))
    BY <1>1, PatchPart
  <2>3. ASSUME NEW q \in Row, SameKind(q, r), gs = Expected(q)
        PROVE  Reaches(gs, t, Expected(r), DataAndRules("wfs"))
    <3> DEFINE e == Expected(r)
    <3>1. IsVector(r)
      BY <1>1, <1>2, <1>4, <2>3 DEF DataAndRules
    <3>2. e[la] = r.title
      BY <1>1, <3>1, ExpectedIs
    <3>3. \A o \in Objects : Part(o) = <<"wfs", "data">> /\ o # la => e[o] = gs[o]
      BY <1>2, <2>3, <3>1
    <3>4. e[Rule("wfs", "r")] = r.title /\ e[Rule("wfs", "w")] = r.title
      BY <1>1, <3>1, ExpectedIs
    <3> HIDE DEF e
    <3>5. Reaches(gs, t, e, DataAndRules("wfs"))
      BY <1>1, <3>2, <3>3, <3>4, PatchPart
    <3>. QED  BY <3>5 DEF e
  <2>. QED  BY <2>1, <2>2, <2>3
<1>. QED  BY <1>3, <1>4

LEMMA PatchWms ==
    ASSUME NEW r \in Row
    PROVE  /\ Fits(gs, patch_wms(r)) /\ Within(patch_wms(r), DataAndRules("wms"))
           /\ \A q \in Row : SameKind(q, r) /\ gs = Expected(q) =>
                 Reaches(gs, patch_wms(r), Expected(r), DataAndRules("wms"))
<1> DEFINE s == WmsStore(r)
           la == Layer("wms", s)
<1>1. /\ "wms" \in Workspaces /\ s \in StoresOf("wms") \cup {"postgresql"} /\ r.title \in Nat \ {0}
      /\ la \in Objects /\ Part(la) = <<"wms", "data">> /\ la \in Layers /\ la[1] = "wms"
  BY StoresOfLayer, ObjectsAre, PartsOfObjects DEF Workspaces, Layer
<1>2. ASSUME NEW q \in Row, SameKind(q, r), gs = Expected(q)
      PROVE  /\ gs[la] # 0
             /\ \A o \in Objects : Part(o) = <<"wms", "data">> /\ o # la => Expected(r)[o] = gs[o]
  <2>1. WmsStore(q) = s /\ q.title # 0
    BY <1>2, StoresOfLayer DEF SameKind, WmsStore, DbStore, IsVector
  <2>2. \A o \in Objects : Part(o) = <<"wms", "data">> =>
           gs[o] = IF o = la THEN q.title ELSE IF o = Store("wms", s) THEN 1 ELSE 0
    BY <1>2, <2>1, ExpectedIs
  <2>3. \A o \in Objects : Part(o) = <<"wms", "data">> =>
           Expected(r)[o] = IF o = la THEN r.title ELSE IF o = Store("wms", s) THEN 1 ELSE 0
    BY ExpectedIs
  <2>. QED  BY <1>1, <2>1, <2>2, <2>3
<1>3. CASE LayersIn("wms") = {}
  <2>1. patch_wms(r) = <<>>
    BY <1>3 DEF patch_wms
  <2>2. Builds(gs, <<>>, gs, DataAndRules("wms"))
    BY NoCallPiece
  <2>3. gs[la] = 0
    BY <1>1, <1>3 DEF LayersIn
  <2>. QED  BY <1>2, <2>1, <2>2, <2>3 DEF Builds
<1>4. CASE LayersIn("wms") # {}
  <2> DEFINE t == <<PUT(la, r.title)>> \o set_security_rules("wms", r.title)
  <2>1. PatchLayer(r, r.title) = PUT(la, r.title)
    BY DEF PatchLayer, patch_coverage, patch_wms_layer, patch_feature_type, WmsStore
  <2>2. patch_wms(r) = t
    BY <1>4, <2>1 DEF patch_wms
  <2>3. Fits(gs, t) /\ Within(t, DataAndRules("wms"))
    BY <1>1, PatchPart
  <2>4. ASSUME NEW q \in Row, SameKind(q, r), gs = Expected(q)
        PROVE  Reaches(gs, t, Expected(r), DataAndRules("wms"))
    <3> DEFINE e == Expected(r)
    <3>1. e[la] = r.title
      BY <1>1, ExpectedIs
    <3>2. \A o \in Objects : Part(o) = <<"wms", "data">> /\ o # la => e[o] = gs[o]
      BY <1>2, <2>4
    <3>3. e[Rule("wms", "r")] = r.title /\ e[Rule("wms", "w")] = r.title
      BY <1>1, ExpectedIs
    <3> HIDE DEF e
    <3>4. Reaches(gs, t, e, DataAndRules("wms"))
      BY <1>1, <3>1, <3>2, <3>3, PatchPart
    <3>. QED  BY <3>4 DEF e
  <2>. QED  BY <2>2, <2>3, <2>4
<1>. QED  BY <1>3, <1>4

LEMMA MetadataPlan ==
    ASSUME NEW r \in Row
    PROVE  LET t == patch_wfs(r) \o patch_wms(r) IN
           /\ Fits(gs, t)
           /\ \A q \in Row : SameKind(q, r) /\ gs = Expected(q) => Reaches(gs, t, Expected(r), Parts)
<1> DEFINE a == patch_wfs(r)
           b == patch_wms(r)
           style == {<<"wms", "style">>}
<1>1. Fits(gs, a) /\ Within(a, DataAndRules("wfs")) /\ Fits(gs, b) /\ Within(b, DataAndRules("wms"))
  BY PatchWfs, PatchWms
<1>2. a \in Plans /\ b \in Plans /\ DataAndRules("wfs") \cap DataAndRules("wms") = {}
  BY <1>1, PartsApart DEF Fits
<1>3. Fits(gs, a \o b) /\ Within(a \o b, DataAndRules("wfs") \cup DataAndRules("wms"))
  BY <1>1, <1>2, FitsConcat
<1>4. ASSUME NEW q \in Row, SameKind(q, r), gs = Expected(q)
      PROVE  Reaches(gs, a \o b, Expected(r), Parts)
  <2> DEFINE e == Expected(r)
             P == DataAndRules("wfs") \cup DataAndRules("wms")
  <2>1. Reaches(gs, a, e, DataAndRules("wfs")) /\ Reaches(gs, b, e, DataAndRules("wms"))
    BY <1>4, PatchWfs, PatchWms
  <2>2. ASSUME NEW o \in Objects, Part(o) \in style
        PROVE  gs[o] = e[o]
    <3>1. o \in {Style, DefaultStyle}
      BY <2>2, PartTells
    <3>. QED  BY <3>1, <1>4, ExpectedIs DEF SameKind
  <2> HIDE DEF a, b, e
  <2>3. Reaches(gs, a \o b, e, P)
    BY <1>1, <1>2, <2>1, ReachesConcat
  <2>4. Builds(gs, <<>>, e, style)
    BY <2>2, NoCallPiece
  <2>5. Builds(gs, a \o b, e, P)
    BY <1>3, <2>3 DEF Builds
  <2>6. P \cap style = {}
    BY PartsApart
  <2>7. Builds(gs, (a \o b) \o <<>>, e, P \cup style)
    BY <2>4, <2>5, <2>6, BuildsConcat
  <2>8. (a \o b) \o <<>> = a \o b
    BY <1>3, ConcatEmptySeq DEF Fits, Plans
  <2>. QED  BY <2>7, <2>8 DEF Builds, Parts, e
<1>. QED  BY <1>3, <1>4

-----------------------------------------------------------------------------
(* Plans that delete, and plans of the change of features.                 *)

LEMMA OrderedConcat ==
    ASSUME NEW g, NEW s, NEW t, Ordered(g, s), Ordered(g, t)
    PROVE  /\ Ordered(g, s \o t)
           /\ \A o : IsDeleted(s, o) \/ IsDeleted(t, o) => IsDeleted(s \o t, o)
<1> DEFINE u == s \o t
<1>1. /\ u \in Seq(Calls) /\ Len(s) \in Nat /\ Len(t) \in Nat
      /\ Len(u) = Len(s) + Len(t)
      /\ \A i \in 1 .. Len(s) : u[i] = s[i] /\ i \in 1 .. Len(u) /\ i \in Nat
      /\ \A i \in 1 .. Len(t) : u[Len(s) + i] = t[i] /\ Len(s) + i \in 1 .. Len(u) /\ i \in Nat
      /\ \A k \in 1 .. Len(u) : k \in 1 .. Len(s) \/ \E i \in 1 .. Len(t) : k = Len(s) + i
  BY ConcatFacts DEF Ordered
<1> DEFINE Fit(v, i) ==
      /\ v[i].method = "DELETE"
      /\ MustBeEmpty(v[i].on) => g[LayerOf(v[i].on)] = 0 \/ \E j \in 1 .. i - 1 : v[j].on = LayerOf(v[i].on)
<1>2. (\A i \in 1 .. Len(s) : Fit(s, i)) /\ (\A i \in 1 .. Len(t) : Fit(t, i))
  BY DEF Ordered
<1> HIDE DEF u
<1>3. ASSUME NEW i \in 1 .. Len(s)
      PROVE  Fit(u, i)
  <2>1. \A j \in 1 .. i - 1 : u[j] = s[j]
    BY <1>1
  <2>. QED  BY <1>1, <1>2, <2>1
<1>4. ASSUME NEW i \in 1 .. Len(t)
      PROVE  Fit(u, Len(s) + i)
  <2>1. ASSUME NEW j \in 1 .. i - 1
        PROVE  u[Len(s) + j] = t[j] /\ Len(s) + j \in 1 .. (Len(s) + i) - 1
    BY <1>1
  <2>2. u[Len(s) + i] = t[i] /\ Fit(t, i)
    BY <1>1, <1>2
  <2>3. ASSUME NEW j \in 1 .. i - 1, t[j].on = LayerOf(t[i].on)
        PROVE  \E k \in 1 .. (Len(s) + i) - 1 : u[k].on = LayerOf(t[i].on)
    BY <2>1, <2>3
  <2>. QED  BY <2>2, <2>3
<1>5. Ordered(g, u)
  <2> HIDE DEF Fit
  <2>1. \A k \in 1 .. Len(u) : Fit(u, k)
    BY <1>1, <1>3, <1>4
  <2>. QED  BY <1>1, <2>1 DEF Ordered, Fit
<1>6. \A o : IsDeleted(s, o) \/ IsDeleted(t, o) => IsDeleted(u, o)
  BY <1>1 DEF IsDeleted
<1>. QED  BY <1>5, <1>6 DEF u

LEMMA OrderedTail ==
    ASSUME NEW g, NEW h, NEW t, Ordered(g, t), t # <<>>,
           \A o \in Objects : h[o] \in {0, g[o]},
           \A o \in Objects : o \in GoesWith(Head(t).on) => h[o] = 0
    PROVE  Ordered(h, Tail(t)) /\ (Covers(g, t) => Covers(h, Tail(t)))
<1> DEFINE u == Tail(t)
<1>1. /\ Head(t) = t[1] /\ 1 \in 1 .. Len(t) /\ Len(t) \in Nat /\ u \in Seq(Calls) /\ Len(u) = Len(t) - 1
      /\ \A i \in 1 .. Len(u) : i \in Nat /\ u[i] = t[i + 1] /\ i + 1 \in 1 .. Len(t)
      /\ \A i \in 1 .. Len(t) : t[i] \in Calls
  BY TailFacts DEF Ordered
<1> HIDE DEF u
<1>2. ASSUME NEW i \in 1 .. Len(u), MustBeEmpty(u[i].on)
      PROVE  h[LayerOf(u[i].on)] = 0 \/ \E j \in 1 .. i - 1 : u[j].on = LayerOf(u[i].on)
  <2> DEFINE la == LayerOf(u[i].on)
  <2>1. g[la] = 0 \/ \E j \in 1 .. (i + 1) - 1 : t[j].on = la
    <3>1. i + 1 \in 1 .. Len(t) /\ t[i + 1] = u[i]
      BY <1>1
    <3>2. g[LayerOf(t[i + 1].on)] = 0 \/ \E j \in 1 .. (i + 1) - 1 : t[j].on = LayerOf(t[i + 1].on)
      BY <1>2, <3>1 DEF Ordered
    <3>. QED  BY <3>1, <3>2
  <2>2. u[i].on \in Objects
    BY <1>1 DEF Calls
  <2>3. la \in Objects
    BY <2>2, <1>2, ObjectFacts, ObjectsAre DEF MustBeEmpty
  <2> HIDE DEF la
  <2>4. CASE g[la] = 0
    BY <2>3, <2>4 DEF la
  <2>5. ASSUME NEW j \in 1 .. (i + 1) - 1, t[j].on = la
        PROVE  h[la] = 0 \/ \E m \in 1 .. i - 1 : u[m].on = la
    <3>1. CASE j = 1
      <4>1. la \in GoesWith(Head(t).on)
        BY <1>1, <2>5, <3>1 DEF GoesWith
      <4>. QED  BY <4>1, <2>3
    <3>2. CASE j # 1
      <4>1. j - 1 \in 1 .. i - 1 /\ (j - 1) + 1 = j /\ j - 1 \in 1 .. Len(u)
        BY <1>1, <3>2
      <4>. QED  BY <4>1, <1>1, <2>5
    <3>. QED  BY <3>1, <3>2
  <2>. QED  BY <2>1, <2>4, <2>5 DEF la
<1>3. Ordered(h, u)
  BY <1>1, <1>2 DEF Ordered
<1>4. ASSUME Covers(g, t), NEW o \in Objects \ {DefaultStyle}, h[o] # 0
      PROVE  \E i \in 1 .. Len(u) : o \in GoesWith(u[i].on)
  <2>1. PICK i \in 1 .. Len(t) : o \in GoesWith(t[i].on)
    BY <1>4 DEF Covers, IsDeleted
  <2>2. i # 1
    BY <1>1, <1>4, <2>1
  <2>3. i - 1 \in 1 .. Len(u) /\ (i - 1) + 1 = i
    BY <1>1, <2>2
  <2>. QED  BY <1>1, <2>1, <2>3
<1>. QED  BY <1>3, <1>4 DEF Covers, IsDeleted, u

(* Deletion of objects that need not be empty.                             *)
LEMMA DeleteIsCall ==
    ASSUME NEW o \in Objects
    PROVE  DELETE(o) \in Calls /\ DELETE(o).method = "DELETE" /\ DELETE(o).on = o
  BY DEF DELETE, Calls

LEMMA RulesOrdered ==
    ASSUME NEW ws \in Workspaces, NEW g
    PROVE  /\ Ordered(g, DeleteRules(ws))
           /\ \A type \in {"r", "w"} : IsDeleted(DeleteRules(ws), Rule(ws, type))
<1> DEFINE a == DELETE(Rule(ws, "r"))
           b == DELETE(Rule(ws, "w"))
           t == <<a, b>>
<1>1. DeleteRules(ws) = t
  BY DEF DeleteRules, delete_security_roles
<1>2. /\ a \in Calls /\ a.method = "DELETE" /\ a.on = Rule(ws, "r")
      /\ b \in Calls /\ b.method = "DELETE" /\ b.on = Rule(ws, "w")
  BY ObjectsAre, DeleteIsCall
<1>3. ~MustBeEmpty(Rule(ws, "r")) /\ ~MustBeEmpty(Rule(ws, "w"))
  BY DEF Rule, MustBeEmpty
<1> HIDE DEF a, b
<1>4. t \in Seq(Calls) /\ Len(t) = 2 /\ t[1] = a /\ t[2] = b /\ \A i \in 1 .. Len(t) : i \in {1, 2}
  BY <1>2
<1>. QED  BY <1>1, <1>2, <1>3, <1>4 DEF Ordered, IsDeleted, GoesWith

LEMMA SldOrdered ==
    ASSUME NEW g
    PROVE  Ordered(g, delete_sld) /\ IsDeleted(delete_sld, Style)
<1> DEFINE a == DELETE(Style)
           t == <<a>>
<1>1. delete_sld = t
  BY DEF delete_sld, delete_workspace_style
<1>2. a \in Calls /\ a.method = "DELETE" /\ a.on = Style
  BY ObjectsAre, DeleteIsCall
<1>3. ~MustBeEmpty(Style)
  BY DEF Style, MustBeEmpty
<1> HIDE DEF a
<1>4. t \in Seq(Calls) /\ Len(t) = 1 /\ t[1] = a /\ \A i \in 1 .. Len(t) : i = 1
  BY <1>2
<1>. QED  BY <1>1, <1>2, <1>3, <1>4 DEF Ordered, IsDeleted, GoesWith

LEMMA WfsOrdered ==
    ASSUME NEW g
    PROVE  /\ Ordered(g, delete_wfs)
           /\ \A o \in Objects : o[1] = "wfs" => IsDeleted(delete_wfs, o)
<1> DEFINE l1 == Layer("wfs", "postgresql")
           l2 == Layer("wfs", "external_db")
           st == Store("wfs", "external_db")
           t == <<DELETE(l1), DELETE(l2), DELETE(st)>>
<1>1. delete_wfs = t \o DeleteRules("wfs")
  BY DEF delete_wfs, delete_feature_type, delete_db_store
<1>2. "wfs" \in Workspaces /\ StoresOf("wfs") = {"external_db"}
  BY DEF Workspaces, StoresOf
<1>3. /\ l1 \in Objects /\ l2 \in Objects /\ st \in Objects
      /\ IsLayer(l1) /\ IsLayer(l2) /\ LayerOf(st) = l2
  BY <1>2, ObjectsAre
<1>4. ~MustBeEmpty(l1) /\ ~MustBeEmpty(l2)
  BY <1>3 DEF MustBeEmpty, IsLayer
<1>5. \A o \in Objects : o[1] = "wfs" => o \in {l1, l2, st} \/ \E type \in {"r", "w"} : o = Rule("wfs", type)
  BY <1>2, ObjectFacts DEF IsLayer, IsRule, Style, DefaultStyle
<1>6. /\ DELETE(l1) \in Calls /\ DELETE(l1).method = "DELETE" /\ DELETE(l1).on = l1
      /\ DELETE(l2) \in Calls /\ DELETE(l2).method = "DELETE" /\ DELETE(l2).on = l2
      /\ DELETE(st) \in Calls /\ DELETE(st).method = "DELETE" /\ DELETE(st).on = st
  BY <1>3, DeleteIsCall
<1> HIDE DEF l1, l2, st
<1>7. /\ t \in Seq(Calls) /\ Len(t) = 3
      /\ t[1] = DELETE(l1) /\ t[2] = DELETE(l2) /\ t[3] = DELETE(st)
      /\ \A i \in 1 .. Len(t) : i \in {1, 2, 3}
  BY <1>6
<1> HIDE DEF t
<1>8. Ordered(g, t)
  <2>1. 2 \in 1 .. 3 - 1
    OBVIOUS
  <2>. QED  BY <1>3, <1>4, <1>6, <1>7, <2>1 DEF Ordered
<1>9. \A o \in {l1, l2, st} : IsDeleted(t, o)
  BY <1>6, <1>7 DEF IsDeleted, GoesWith
<1>. QED  BY <1>1, <1>2, <1>5, <1>8, <1>9, RulesOrdered, OrderedConcat

LEMMA WmsOrdered ==
    ASSUME NEW g
    PROVE  /\ Ordered(g, delete_wms)
           /\ \A o \in Objects \ {Style, DefaultStyle} : o[1] = "wms" => IsDeleted(delete_wms, o)
<1> DEFINE l1 == Layer("wms", "postgresql")
           l2 == Layer("wms", "external_db")
           l3 == Layer("wms", "qgis")
           s3 == Store("wms", "qgis")
           s4 == Store("wms", "geotiff")
           s5 == Store("wms", "image_mosaic")
           s2 == Store("wms", "external_db")
           t == <<DELETE(l1), DELETE(l2), DELETE(l3), DELETE(s3), DELETE(s4), DELETE(s5), DELETE(s2)>>
<1>1. delete_wms_but_rules = t
  BY DEF delete_wms_but_rules, delete_feature_type, delete_wms_layer, delete_wms_store, delete_coverage_store,
         delete_db_store
<1>2. "wms" \in Workspaces /\ StoresOf("wms") = {"external_db", "qgis", "geotiff", "image_mosaic"}
  BY DEF Workspaces, StoresOf
<1>3. /\ l1 \in Objects /\ l2 \in Objects /\ l3 \in Objects
      /\ IsLayer(l1) /\ IsLayer(l2) /\ IsLayer(l3)
      /\ s2 \in Objects /\ s3 \in Objects /\ s4 \in Objects /\ s5 \in Objects
      /\ LayerOf(s2) = l2 /\ LayerOf(s3) = l3
  BY <1>2, ObjectsAre
<1>4. /\ ~MustBeEmpty(l1) /\ ~MustBeEmpty(l2) /\ ~MustBeEmpty(l3)
      /\ ~MustBeEmpty(s4) /\ ~MustBeEmpty(s5)
  BY <1>3 DEF MustBeEmpty, IsLayer, IsCoverage, Store
<1>5. Layer("wms", "geotiff") \in GoesWith(s4) /\ Layer("wms", "image_mosaic") \in GoesWith(s5)
  BY DEF GoesWith, Store, IsCoverage
<1>6. ASSUME NEW o \in Objects \ {Style, DefaultStyle}, o[1] = "wms"
      PROVE  \/ o \in {l1, l2, l3, s2, s3, s4, s5}
             \/ o \in {Layer("wms", "geotiff"), Layer("wms", "image_mosaic")}
             \/ \E type \in {"r", "w"} : o = Rule("wms", type)
  <2>1. CASE IsLayer(o)
    BY <1>2, <1>6, <2>1, ObjectFacts
  <2>2. CASE o[2] = "store"
    BY <1>2, <1>6, <2>2, ObjectFacts
  <2>3. CASE IsRule(o)
    BY <1>6, <2>3, ObjectFacts
  <2>. QED  BY <1>6, <2>1, <2>2, <2>3, ObjectFacts DEF IsLayer, IsRule
<1>7. \A o \in {l1, l2, l3, s2, s3, s4, s5} :
         DELETE(o) \in Calls /\ DELETE(o).method = "DELETE" /\ DELETE(o).on = o
  BY <1>3, DeleteIsCall
<1> HIDE DEF l1, l2, l3, s2, s3, s4, s5
<1>8. /\ t \in Seq(Calls) /\ Len(t) = 7
      /\ t[1] = DELETE(l1) /\ t[2] = DELETE(l2) /\ t[3] = DELETE(l3) /\ t[4] = DELETE(s3)
      /\ t[5] = DELETE(s4) /\ t[6] = DELETE(s5) /\ t[7] = DELETE(s2)
      /\ \A i \in 1 .. Len(t) : i \in {1, 2, 3, 4, 5, 6, 7}
  BY <1>7
<1> HIDE DEF t
<1>9. ASSUME NEW i \in 1 .. Len(t)
      PROVE  /\ t[i].method = "DELETE"
             /\ MustBeEmpty(t[i].on) => \E j \in 1 .. i - 1 : t[j].on = LayerOf(t[i].on)
  <2>1. t[i] \in {DELETE(o) : o \in {l1, l2, l3, s2, s3, s4, s5}}
    BY <1>8
  <2>2. t[i].method = "DELETE"
    BY <1>7, <2>1
  <2>3. i \notin {4, 7} => ~MustBeEmpty(t[i].on)
    BY <1>4, <1>7, <1>8
  <2>4. 3 \in 1 .. 4 - 1 /\ 2 \in 1 .. 7 - 1
    OBVIOUS
  <2>5. /\ t[4].on = s3 /\ t[3].on = LayerOf(s3)
        /\ t[7].on = s2 /\ t[2].on = LayerOf(s2)
    BY <1>3, <1>7, <1>8
  <2>. QED  BY <2>2, <2>3, <2>4, <2>5
<1>10. Ordered(g, t)
  BY <1>8, <1>9 DEF Ordered
<1>11. \A o \in {l1, l2, l3, s2, s3, s4, s5} : \E i \in 1 .. Len(t) : t[i].on = o
  BY <1>7, <1>8
<1>12. \A o \in {l1, l2, l3, s2, s3, s4, s5} : IsDeleted(t, o)
  BY <1>11 DEF IsDeleted, GoesWith
<1>13. IsDeleted(t, Layer("wms", "geotiff")) /\ IsDeleted(t, Layer("wms", "image_mosaic"))
  <2>1. \E i \in 1 .. Len(t) : t[i].on = s4
    BY <1>11
  <2>2. \E i \in 1 .. Len(t) : t[i].on = s5
    BY <1>11
  <2>. QED  BY <1>5, <2>1, <2>2 DEF IsDeleted
<1>14. /\ Ordered(g, DeleteRules("wms"))
       /\ \A type \in {"r", "w"} : IsDeleted(DeleteRules("wms"), Rule("wms", type))
  BY <1>2, RulesOrdered
<1>15. delete_wms = t \o DeleteRules("wms")
  BY <1>1 DEF delete_wms
<1>16. /\ Ordered(g, delete_wms)
       /\ \A o : IsDeleted(t, o) \/ IsDeleted(DeleteRules("wms"), o) => IsDeleted(delete_wms, o)
  BY <1>10, <1>14, <1>15, OrderedConcat
<1>. QED  BY <1>6, <1>12, <1>13, <1>14, <1>16

LEMMA DeletesOrdered ==
    ASSUME NEW g
    PROVE  Ordered(g, Deletes) /\ Covers(g, Deletes)
<1>1. Ordered(g, delete_sld) /\ Ordered(g, delete_wms) /\ Ordered(g, delete_wfs)
  BY SldOrdered, WmsOrdered, WfsOrdered
<1>2. /\ Ordered(g, delete_sld \o delete_wms)
      /\ \A o : IsDeleted(delete_sld, o) \/ IsDeleted(delete_wms, o) => IsDeleted(delete_sld \o delete_wms, o)
  BY <1>1, OrderedConcat
<1>3. /\ Ordered(g, (delete_sld \o delete_wms) \o delete_wfs)
      /\ \A o : IsDeleted(delete_sld \o delete_wms, o) \/ IsDeleted(delete_wfs, o)
                => IsDeleted((delete_sld \o delete_wms) \o delete_wfs, o)
  BY <1>1, <1>2, OrderedConcat
<1>4. Deletes = (delete_sld \o delete_wms) \o delete_wfs
  BY DEF Deletes
<1>5. ASSUME NEW o \in Objects \ {DefaultStyle}
      PROVE  IsDeleted(Deletes, o)
  <2>1. o = Style \/ o[1] \in {"wfs", "wms"}
    BY ObjectFacts DEF IsLayer, IsRule, Workspaces
  <2>2. CASE o = Style
    BY <2>2, <1>2, <1>3, <1>4, SldOrdered
  <2>3. CASE o # Style /\ o[1] = "wms"
    BY <2>3, <1>2, <1>3, <1>4, WmsOrdered
  <2>4. CASE o[1] = "wfs"
    BY <2>4, <1>3, <1>4, WfsOrdered
  <2>. QED  BY <2>1, <2>2, <2>3, <2>4
<1>. QED  BY <1>3, <1>4, <1>5 DEF Covers

(* What undoes a task can be done in any state.                            *)
LEMMA UndoOrdered ==
    ASSUME NEW g, NEW undo \in Undos
    PROVE  Ordered(g, undo)
<1>1. Ordered(g, <<>>)
  BY DEF Ordered
<1>. QED  BY <1>1, SldOrdered, WmsOrdered, WfsOrdered DEF Undos

LEMMA SameConcat ==
    ASSUME NEW g, NEW s, NEW t, WritesSame(g, s), WritesSame(g, t)
    PROVE  WritesSame(g, s \o t)
<1> DEFINE u == s \o t
<1>1. /\ u \in Plans
      /\ \A i \in 1 .. Len(s) : u[i] = s[i]
      /\ \A i \in 1 .. Len(t) : u[Len(s) + i] = t[i]
      /\ \A k \in 1 .. Len(u) : k \in 1 .. Len(s) \/ \E i \in 1 .. Len(t) : k = Len(s) + i
  BY ConcatFacts DEF WritesSame, Plans
<1> HIDE DEF u
<1>2. \A k \in 1 .. Len(u) : (\E i \in 1 .. Len(s) : u[k] = s[i]) \/ (\E i \in 1 .. Len(t) : u[k] = t[i])
  BY <1>1
<1>3. ASSUME NEW k \in 1 .. Len(u), IsCall(u[k])
      PROVE  u[k].method = "PUT" /\ IsLayer(u[k].on) /\ u[k].to = g[u[k].on]
  BY <1>2, <1>3 DEF WritesSame
<1>. QED  BY <1>1, <1>3 DEF WritesSame, u

LEMMA SameTail ==
    ASSUME NEW g, NEW t, WritesSame(g, t), t # <<>>
    PROVE  WritesSame(g, Tail(t))
<1>1. Tail(t) \in Plans /\ \A i \in 1 .. Len(Tail(t)) : Tail(t)[i] = t[i + 1] /\ i + 1 \in 1 .. Len(t)
  BY TailFacts DEF WritesSame, Plans
<1>2. ASSUME NEW i \in 1 .. Len(Tail(t)), IsCall(Tail(t)[i])
      PROVE  LET c == Tail(t)[i] IN c.method = "PUT" /\ IsLayer(c.on) /\ c.to = g[c.on]
  <2>1. i + 1 \in 1 .. Len(t) /\ IsCall(t[i + 1]) /\ Tail(t)[i] = t[i + 1]
    BY <1>1, <1>2
  <2>. QED  BY <2>1 DEF WritesSame
<1>. QED  BY <1>1, <1>2 DEF WritesSame

LEMMA SameTask ==
    ASSUME NEW g, NEW calls, WritesSame(g, calls)
    PROVE  WritesSame(g, Task(calls, <<>>))
<1> DEFINE a == [method |-> "start", undo |-> <<>>]
           b == [method |-> "end", undo |-> <<>>]
<1>1. a \in Marks /\ b \in Marks
  BY DEF Marks, Undos
<1> HIDE DEF a, b
<1>2. \A m \in Marks : <<m>> \in Plans /\ Len(<<m>>) = 1 /\ <<m>>[1] = m
  BY DEF Plans
<1>3. ASSUME NEW m \in Marks
      PROVE  WritesSame(g, <<m>>)
  <2>1. \A i \in 1 .. Len(<<m>>) : <<m>>[i] = m
    BY <1>2
  <2>. QED  BY <1>2, <2>1, CallsArePlans DEF WritesSame
<1>4. WritesSame(g, (<<a>> \o calls) \o <<b>>)
  BY <1>1, <1>3, SameConcat
<1>. QED  BY <1>4 DEF Task, a, b

LEMMA FeaturesSame ==
    ASSUME NEW r \in Row, gs \in [Objects -> Nat]
    PROVE  WritesSame(gs, FeaturesChain(r).todo)
<1>1. ASSUME NEW ws \in Workspaces, NEW s \in StoresOf(ws) \cup {"postgresql"}
      PROVE  WritesSame(gs, <<PUT(Layer(ws, s), gs[Layer(ws, s)])>>)
  <2> DEFINE la == Layer(ws, s)
             c == PUT(la, gs[la])
  <2>1. la \in Objects /\ IsLayer(la)
    BY ObjectsAre
  <2>2. c \in Calls /\ c.method = "PUT" /\ c.on = la /\ c.to = gs[la]
    BY <2>1 DEF PUT, Calls
  <2> HIDE DEF c, la
  <2>. QED  BY <2>1, <2>2, OneCall DEF WritesSame, c, la
<1>2. WritesSame(gs, <<>>)
  BY DEF WritesSame, Plans
<1>3. "wfs" \in Workspaces /\ "wms" \in Workspaces
  BY DEF Workspaces
<1>4. WritesSame(gs, wfs_feature_change(r))
  BY <1>1, <1>2, <1>3, StoresOfLayer DEF wfs_feature_change, patch_feature_type
<1>5. WritesSame(gs, wms_feature_change(r))
  <2>1. IsVector(r) => PatchLayer(r, gs[Layer("wms", WmsStore(r))]) = PUT(Layer("wms", WmsStore(r)), gs[Layer("wms", WmsStore(r))])
    BY DEF PatchLayer, patch_wms_layer, patch_feature_type, WmsStore
  <2>. QED  BY <1>1, <1>2, <1>3, <2>1, StoresOfLayer DEF wms_feature_change
<1>6. WritesSame(gs, Task(wfs_feature_change(r), <<>>) \o Task(wms_feature_change(r), <<>>))
  BY <1>4, <1>5, SameTask, SameConcat
<1>. QED  BY <1>6 DEF FeaturesChain

-----------------------------------------------------------------------------
(* GeoServer accepts, and does, the first call of a plan.                  *)

LEMMA HeadIs ==
    ASSUME NEW t \in Plans, t # <<>>
    PROVE  /\ Head(t) = t[1] /\ 1 \in 1 .. Len(t) /\ Tail(t) \in Plans
           /\ IsCall(Head(t)) => Head(t) \in Calls
           /\ ~IsCall(Head(t)) => Head(t) \in Marks
  BY TailFacts, CallsArePlans DEF Plans

LEMMA FitsHead ==
    ASSUME NEW t, Fits(gs, t), t # <<>>, Head(t).method \in {"POST", "DELETE"}
    PROVE  Accepts(Head(t))
<1> DEFINE c == Head(t)
<1>1. IsCall(c) /\ c \in Calls /\ CallFits(gs, t, 1) /\ c = t[1]
  BY HeadIs DEF Fits, IsCall
<1>2. c.on \in Objects
  BY <1>1 DEF Calls
<1> HIDE DEF c
<1>3. \A o : ~TouchedBefore(t, 1, o)
  BY DEF TouchedBefore
<1>4. CASE c.method = "POST"
  <2>1. Fresh(gs, t, 1)
    BY <1>1, <1>4 DEF CallFits
  <2>2. gs[c.on] = 0
    BY <1>1, <1>3, <2>1 DEF Fresh
  <2>3. ASSUME IsLayer(c.on)
        PROVE  /\ LayersIn(c.on[1]) = {}
               /\ c.on[3] # "postgresql" => gs[Store(c.on[1], c.on[3])] # 0
    BY <1>1, <1>3, <2>1, <2>3 DEF Fresh, LayersIn, StoreOf
  <2>. QED  BY <1>4, <2>2, <2>3 DEF Accepts, IsLayer, c
<1>5. CASE c.method = "DELETE"
  <2>1. c.on[2] # "store"
    BY <1>1, <1>5 DEF CallFits, IsRule
  <2>. QED  BY <1>5, <2>1 DEF Accepts, c
<1>. QED  BY <1>4, <1>5 DEF c

LEMMA OrderedHead ==
    ASSUME NEW t, Ordered(gs, t), t # <<>>
    PROVE  Head(t) \in Calls /\ Head(t).method = "DELETE" /\ Accepts(Head(t))
<1> DEFINE c == Head(t)
<1>1. c = t[1] /\ c \in Calls /\ 1 \in 1 .. Len(t)
  BY TailFacts DEF Ordered
<1>2. c.method = "DELETE" /\ (MustBeEmpty(c.on) => gs[LayerOf(c.on)] = 0)
  BY <1>1 DEF Ordered
<1> HIDE DEF c
<1>. QED  BY <1>1, <1>2 DEF Accepts, MustBeEmpty, LayerOf, c

LEMMA CallDone ==
    ASSUME NEW t \in Plans, t # <<>>, IsCall(Head(t)), Accepts(Head(t)),
           gs \in [Objects -> Nat], DefaultInUse(gs),
           Fits(gs, t) \/ WritesSame(gs, t) \/ Ordered(gs, t)
    PROVE  LET h == After(Head(t)) IN
           /\ h \in [Objects -> Nat] /\ DefaultInUse(h)
           /\ Fits(gs, t) => Effect(gs, h, Head(t))
           /\ WritesSame(gs, t) => h = gs
           /\ Ordered(gs, t) => /\ \A o \in Objects : h[o] \in {0, gs[o]}
                                /\ \A o \in Objects : o \in GoesWith(Head(t).on) => h[o] = 0
<1> DEFINE c == Head(t)
           h == After(c)
<1>1. c = t[1] /\ 1 \in 1 .. Len(t) /\ c \in Calls
  BY HeadIs
<1>2. c.on \in Objects /\ c.to \in Nat /\ c.method \in {"POST", "PUT", "DELETE"}
  BY <1>1 DEF Calls
<1> HIDE DEF c
<1>3. CASE c.method = "DELETE"
  <2>1. /\ h \in [Objects -> Nat] /\ DefaultInUse(h)
        /\ \A o \in Objects : h[o] \in {0, gs[o]}
        /\ \A o \in Objects : o \in GoesWith(c.on) => h[o] = 0
        /\ c.on # DefaultStyle /\ IsRule(c.on) => h = [gs EXCEPT ![c.on] = 0]
    BY <1>1, <1>3, AfterDelete
  <2>2. ~WritesSame(gs, t)
    BY <1>1, <1>3 DEF WritesSame, c
  <2>3. ASSUME Fits(gs, t)
        PROVE  Effect(gs, h, c)
    <3>1. IsRule(c.on) /\ c.to = 0 /\ c.on # DefaultStyle
      BY <1>1, <1>3, <2>3, ObjectsAre DEF Fits, CallFits, c
    <3>2. h = [gs EXCEPT ![c.on] = 0]
      BY <2>1, <3>1
    <3>. QED  BY <3>1, <3>2, <1>1, CallsArePlans DEF Effect, Touches
  <2>. QED  BY <2>1, <2>2, <2>3 DEF c
<1>4. CASE c.method # "DELETE"
  <2>1. h = [gs EXCEPT ![c.on] = c.to]
    BY <1>4, AfterWrites
  <2>2. ~Ordered(gs, t)
    BY <1>1, <1>4, OrderedHead DEF c
  <2>3. WritesSame(gs, t) => h = gs
    <3>1. WritesSame(gs, t) => c.to = gs[c.on]
      BY <1>1 DEF WritesSame, c
    <3>. QED  BY <2>1, <3>1, <1>2
  <2>4. h \in [Objects -> Nat]
    BY <2>1, <1>2
  <2>5. Effect(gs, h, c)
    BY <2>1, <1>1, <1>2, CallsArePlans DEF Effect, Touches
  <2>6. ASSUME Fits(gs, t)
        PROVE  DefaultInUse(h)
    <3>1. CallFits(gs, t, 1)
      BY <1>1, <2>6 DEF Fits, c
    <3>2. c.to # 0
      BY <1>1, <1>2, <1>4, <3>1 DEF CallFits
    <3>3. \A o \in Objects : gs[o] # 0 => h[o] # 0
      BY <2>1, <3>2, <1>2
    <3>4. Layers \subseteq Objects
      BY ObjectCases
    <3>5. CASE c.on # DefaultStyle
      <4>1. h[DefaultStyle] = gs[DefaultStyle]
        BY <2>1, <3>5, ObjectsAre
      <4>. QED  BY <3>3, <3>4, <4>1, ObjectsAre DEF DefaultInUse
    <3>6. CASE c.on = DefaultStyle
      <4>1. c.method = "PUT"
        BY <3>1, <3>6, <1>1, <1>2, <1>4 DEF CallFits
      <4>2. gs[Style] # 0
        BY <1>1, <3>1, <3>6, <4>1, ObjectsAre DEF CallFits, TouchedBefore
      <4>3. LayersIn("wms") # {}
        BY <3>6, <4>1 DEF Accepts, c
      <4>. QED  BY <3>3, <3>4, <4>2, <4>3, ObjectsAre DEF DefaultInUse, LayersIn
    <3>. QED  BY <3>5, <3>6
  <2>. QED  BY <2>2, <2>3, <2>4, <2>5, <2>6 DEF c
<1>. QED  BY <1>3, <1>4 DEF c

-----------------------------------------------------------------------------
(* Each step preserves the invariant.                                      *)

LEMMA RowFacts ==
    /\ \A r \in Row : r # None
    /\ None \notin Row
    /\ requests \in Nat => \A r \in Rows \cup Row : Asked(r) \in Row
    /\ requests \in Nat => \A r \in Row : SameKind(r, Asked(r))
<1>1. \A r \in Row : r # None
  BY DEF Row, None, Kinds
<1>2. ASSUME requests \in Nat, NEW r \in Rows \cup Row
      PROVE  Asked(r) \in Row
  <2>1. r.kind \in Kinds /\ r.style \in {"sld", "qml"} /\ requests + 1 \in Nat \ {0}
    BY <1>2, RowsAssumption DEF Row
  <2>. QED  BY <2>1 DEF Asked, Row
<1>3. \A r \in Row : SameKind(r, Asked(r))
  BY DEF SameKind, Asked
<1>. QED  BY <1>1, <1>2, <1>3

LEMMA NoPlan == <<>> \in Plans /\ <<>> \in Seq(Calls)
  BY DEF Plans

LEMMA NoRequestIs == NoRequest \in Requests /\ NoRequest.what = "none" /\ NoRequest.todo = <<>>
  BY NoPlan DEF NoRequest, Requests

LEMMA IdleIs == Idle \in Chains /\ Idle.state = "none" /\ Idle.todo = <<>>
  BY NoPlan DEF Idle, Chains

LEMMA PublishingIs ==
    ASSUME NEW r \in Row, NothingIn(gs)
    PROVE  /\ PublishingChain(r) \in Chains
           /\ PublishingChain(r).state = "running"
           /\ PublishingChain(r).publishes = TRUE /\ PublishingChain(r).aborted = FALSE
           /\ Fits(gs, PublishingChain(r).todo)
           /\ Reaches(gs, PublishingChain(r).todo, Expected(r), Parts)
<1> DEFINE t == PublishingChain(r).todo
<1>1. Fits(gs, t) /\ Reaches(gs, t, Expected(r), Parts) /\ t \in Plans
  BY PublishingBuilds DEF Builds, Fits
<1>2. PublishingChain(r) = [state |-> "running", publishes |-> TRUE, aborted |-> FALSE, todo |-> t]
  BY DEF PublishingChain
<1> HIDE DEF t
<1>3. PublishingChain(r) \in Chains
  BY <1>1, <1>2 DEF Chains
<1>. QED  BY <1>1, <1>2, <1>3 DEF t

LEMMA AllDeleted ==
    ASSUME gs \in [Objects -> Nat], DefaultInUse(gs), Covers(gs, <<>>)
    PROVE  NothingIn(gs)
<1>1. \A o \in Objects \ {DefaultStyle} : gs[o] = 0
  BY DEF Covers, IsDeleted
<1>2. gs[DefaultStyle] = 0
  BY <1>1, ObjectsAre DEF DefaultInUse
<1>. QED  BY <1>1, <1>2 DEF NothingIn

LEMMA DeletesIs == Deletes \in Seq(Calls) /\ Deletes # <<>>
<1>1. Deletes \in Seq(Calls)
  BY DeletesOrdered DEF Ordered
<1>2. ASSUME Deletes = <<>>
      PROVE  FALSE
  <2>1. Covers([o \in Objects |-> 1], <<>>)
    BY <1>2, DeletesOrdered
  <2>. QED  BY <2>1, ObjectsAre DEF Covers, IsDeleted
<1>. QED  BY <1>1, <1>2

LEMMA InvInit == Init => IInv
<1> SUFFICES ASSUME Init PROVE IInv
  OBVIOUS
<1>1. TypeInv /\ ~Runs
  BY NoRequestIs, IdleIs DEF Init, TypeInv, Runs
<1>2. NothingIn(gs)
  BY DEF Init, NothingIn
<1>3. DefaultInUse(gs)
  BY <1>2, ObjectsAre DEF DefaultInUse, NothingIn
<1>. QED  BY <1>1, <1>2, <1>3, NoRequestIs, IdleIs
          DEF Init, IInv, NoLayerNothing, RequestInv, Edits, ChainInv, ExactlyPublished, Quiet, Runs

LEMMA InvPost ==
    ASSUME IInv, NEW r \in Rows, Post(r)
    PROVE  IInv'
<1>1. /\ gs' = gs /\ request' = request /\ request = NoRequest /\ row = None
      /\ row' = Asked(r) /\ chain' = PublishingChain(row') /\ broken' = FALSE /\ requests' = requests + 1
      /\ restyled' = FALSE /\ Published' = row'
  BY DEF Post, Comes, Published
<1>2. NothingIn(gs) /\ requests \in Nat /\ TypeInv /\ DefaultInUse(gs)
  BY <1>1 DEF IInv, NoLayerNothing, TypeInv
<1>3. row' \in Row /\ row' # None
  BY <1>1, <1>2, RowFacts
<1>4. /\ chain' \in Chains /\ chain'.state = "running" /\ chain'.publishes = TRUE /\ chain'.aborted = FALSE
      /\ Fits(gs, chain'.todo) /\ Reaches(gs, chain'.todo, Expected(Published'), Parts)
  BY <1>1, <1>2, <1>3, PublishingIs
<1>5. TypeInv'
  <2>1. gs' \in [Objects -> Nat] /\ request' \in Requests
    BY <1>1, <1>2 DEF TypeInv
  <2>2. requests \in Nat /\ requests' = requests + 1 /\ broken' = FALSE
    BY <1>1, <1>2
  <2>3. broken' \in BOOLEAN /\ restyled' \in BOOLEAN
    BY <1>1, <2>2
  <2>4. requests' \in Nat
    BY <2>2
  <2>. QED  BY <1>3, <1>4, <2>1, <2>3, <2>4 DEF TypeInv
<1>6. DefaultInUse(gs)' /\ NoLayerNothing'
  BY <1>1, <1>2, <1>3 DEF DefaultInUse, NoLayerNothing
<1>7. RequestInv'
  BY <1>1, NoRequestIs DEF RequestInv, Edits
<1>8. ChainInv' /\ ExactlyPublished'
  BY <1>1, <1>4 DEF ChainInv, ExactlyPublished, Quiet, Runs
<1>. QED  BY <1>5, <1>6, <1>7, <1>8 DEF IInv

(* PATCH and DELETE begin in the same way.                                 *)
LEMMA InvEdit ==
    ASSUME IInv, NEW what \in Edits, NEW next,
           what \in {"patch", "style"} => next \in Row, what = "delete" => next = None,
           Comes, row # None,
           request' = [what |-> what, todo |-> Deletes, row |-> next],
           chain' = [chain EXCEPT !.aborted = chain.state = "running"],
           UNCHANGED <<gs, row, restyled, broken, failures>>
    PROVE  IInv'
<1>1. /\ gs' = gs /\ row' = row /\ broken' = broken /\ request = NoRequest /\ requests' = requests + 1
      /\ restyled' = restyled /\ Published' = Published
  BY DEF Comes, Published
<1>2. request' \in Requests /\ request'.what = what /\ request'.todo = Deletes /\ request'.row = next
  BY DeletesIs DEF Requests, Edits
<1>3. /\ chain' \in Chains /\ chain'.state = chain.state /\ chain'.publishes = chain.publishes
      /\ chain'.todo = chain.todo /\ (chain.state = "running" => chain'.aborted)
  BY DEF IInv, TypeInv, Chains
<1>4. TypeInv' /\ DefaultInUse(gs)'
  BY <1>1, <1>2, <1>3 DEF IInv, TypeInv, DefaultInUse
<1>5. NoLayerNothing'
  BY <1>1 DEF NoLayerNothing
<1>6. RequestInv'
  BY <1>1, <1>2, DeletesOrdered DEF RequestInv, Edits
<1>7. ChainInv'
  <2>1. ~Runs' => chain'.todo = <<>>
    BY <1>3 DEF IInv, ChainInv, Runs
  <2>2. ASSUME Runs'
        PROVE  Fits(gs, chain'.todo) \/ WritesSame(gs, chain'.todo) \/ Ordered(gs, chain'.todo)
    BY <1>3, <2>2 DEF IInv, ChainInv, Runs
  <2>. QED  BY <1>1, <1>2, <1>3, <2>1, <2>2 DEF ChainInv, Runs
<1>8. ExactlyPublished'
  BY <1>2, NoRequestIs DEF ExactlyPublished, Quiet, Edits
<1>. QED  BY <1>4, <1>5, <1>6, <1>7, <1>8 DEF IInv

LEMMA InvPatchDelete ==
    ASSUME IInv, (\E r \in Rows : Patch(r) \/ PatchStyle(r)) \/ Delete
    PROVE  IInv'
<1>1. ASSUME NEW r \in Rows, Patch(r) \/ PatchStyle(r)
      PROVE  IInv'
  <2>1. Asked(r) \in Row
    BY RowFacts DEF IInv, TypeInv
  <2>2. CASE Patch(r)
    BY <2>1, <2>2, InvEdit DEF Patch, Edits
  <2>3. CASE PatchStyle(r)
    BY <2>1, <2>3, InvEdit DEF PatchStyle, Edits
  <2>. QED  BY <1>1, <2>2, <2>3
<1>2. CASE Delete
  BY <1>2, InvEdit DEF Delete, Edits
<1>. QED  BY <1>1, <1>2

(* What is published is the row, or the row without its mosaic.            *)
LEMMA PublishedIs ==
    ASSUME NEW r \in Row
    PROVE  /\ WithoutMosaic(r) \in Row
           /\ r.kind # "image_mosaic" => WithoutMosaic(r) = r
           /\ r.kind = "image_mosaic" => WithoutMosaic(r).kind = "geotiff" /\ WithoutMosaic(r) # r
  BY DEF WithoutMosaic, Row, Kinds

(* The coverage of the mosaic is not there, and it is patched first.       *)
LEMMA MosaicRefused ==
    ASSUME NEW q \in Row, NEW r \in Row, q.kind = "geotiff", r.kind = "image_mosaic", gs = Expected(q)
    PROVE  Refused(patch_wfs(r) \o patch_wms(r))
<1> DEFINE lost == Layer("wms", "image_mosaic")
           there == Layer("wms", "geotiff")
           feature == Layer("wfs", "postgresql")
           put == PUT(lost, r.title)
           rules == set_security_rules("wms", r.title)
<1>1. lost \in Objects /\ there \in Objects /\ there \in Layers /\ feature \in Objects
  BY ObjectsAre DEF Workspaces, StoresOf
<1>2. gs[lost] = 0 /\ gs[feature] = 0 /\ gs[there] # 0
  BY <1>1 DEF Expected, Layer, Store, Style, DefaultStyle, WmsStore, DbStore, IsVector, Row
<1>3. patch_wfs(r) = <<>>
  BY <1>2 DEF patch_wfs, DbStore
<1>4. LayersIn("wms") # {}
  BY <1>1, <1>2 DEF LayersIn, Layer
<1>5. patch_wms(r) = <<put>> \o rules
  BY <1>4 DEF patch_wms, PatchLayer, patch_coverage, IsVector
<1>6. ~Accepts(put)
  BY <1>2 DEF Accepts, PUT, Layer, DefaultStyle
<1>7. put \in Calls
  BY <1>1 DEF PUT, Calls, Row
<1>8. rules \in Plans
  BY RulesPlan DEF Workspaces, Row, Fits
<1> HIDE DEF put, rules
<1>9. <<put>> \o rules \in Plans /\ <<put>> \o rules # <<>> /\ Head(<<put>> \o rules) = put
  BY <1>7, <1>8 DEF Plans
<1>10. <<>> \o (<<put>> \o rules) = <<put>> \o rules
  BY <1>9, ConcatEmptySeq DEF Plans
<1>. QED  BY <1>3, <1>5, <1>6, <1>9, <1>10 DEF Refused

LEMMA MetadataCalls ==
    ASSUME NEW r \in Row
    PROVE  patch_wfs(r) \o patch_wms(r) \in Seq(Calls)
<1>1. r.title \in Nat /\ "wfs" \in Workspaces /\ "wms" \in Workspaces
  BY StoresOfLayer DEF Workspaces
<1>2. ASSUME NEW s \in Seq(Calls), NEW t \in Seq(Calls)
      PROVE  s \o t \in Seq(Calls)
  BY ConcatProperties
<1>3. ASSUME NEW ws \in Workspaces, NEW type \in {"r", "w"}
      PROVE  ensure_security_roles(ws, type, r.title) \in Seq(Calls)
  <2> DEFINE a == DELETE(Rule(ws, type))
             b == POST(Rule(ws, type), r.title)
  <2>1. a \in Calls /\ b \in Calls
    BY <1>1, ObjectsAre DEF DELETE, POST, Calls
  <2> HIDE DEF a, b
  <2>2. <<a, b>> \in Seq(Calls)
    BY <2>1
  <2>. QED  BY <2>2 DEF ensure_security_roles, delete_security_roles, a, b
<1>4. ASSUME NEW ws \in Workspaces
      PROVE  set_security_rules(ws, r.title) \in Seq(Calls)
  BY <1>2, <1>3 DEF set_security_rules
<1>5. ASSUME NEW ws \in Workspaces, NEW s \in StoresOf(ws) \cup {"postgresql"}
      PROVE  <<PUT(Layer(ws, s), r.title)>> \o set_security_rules(ws, r.title) \in Seq(Calls)
  <2> DEFINE a == PUT(Layer(ws, s), r.title)
  <2>1. a \in Calls
    BY <1>1, ObjectsAre DEF PUT, Calls
  <2> HIDE DEF a
  <2>2. <<a>> \in Seq(Calls)
    BY <2>1
  <2>. QED  BY <1>2, <1>4, <2>2 DEF a
<1>6. patch_wfs(r) \in Seq(Calls)
  BY <1>1, <1>5, StoresOfLayer DEF patch_wfs, patch_feature_type
<1>7. PatchLayer(r, r.title) = PUT(Layer("wms", WmsStore(r)), r.title)
  BY DEF PatchLayer, patch_coverage, patch_wms_layer, patch_feature_type, WmsStore
<1>8. patch_wms(r) \in Seq(Calls)
  BY <1>1, <1>5, <1>7, StoresOfLayer DEF patch_wms
<1>. QED  BY <1>2, <1>6, <1>8

LEMMA InvMetadata ==
    ASSUME IInv, PatchMetadata
    PROVE  IInv'
<1>1. /\ request = NoRequest /\ requests' = requests + 1 /\ row # None /\ ~Runs
      /\ row' = Asked(row)
      /\ request' = [what |-> "metadata", todo |-> patch_wfs(row') \o patch_wms(row'), row |-> row']
      /\ gs' = gs /\ chain' = chain /\ broken' = broken /\ restyled' = restyled
  BY DEF PatchMetadata, Comes, Runs
<1>2. row \in Row /\ row' \in Row /\ row' # None /\ SameKind(row, row')
  BY <1>1, RowFacts DEF IInv, TypeInv
<1> DEFINE t == patch_wfs(row') \o patch_wms(row')
<1>3. Fits(gs, t) /\ (gs = Expected(row) => Reaches(gs, t, Expected(row'), Parts))
  BY <1>2, MetadataPlan
<1>4. ~broken => gs = Expected(Published)
  BY <1>1 DEF IInv, ExactlyPublished, Quiet, Runs
<1>5. t \in Seq(Calls)
  BY <1>2, MetadataCalls
<1>6. Published' = row' => Published = row
  BY <1>1, <1>2, PublishedIs DEF Published, SameKind
<1>7. ASSUME Published' # row', ~broken
       PROVE  Refused(t)
  <2>1. restyled /\ row'.kind = "image_mosaic"
    BY <1>1, <1>2, <1>7, PublishedIs DEF Published
  <2>2. Published = WithoutMosaic(row) /\ Published \in Row /\ Published.kind = "geotiff"
    BY <2>1, <1>2, PublishedIs DEF Published, SameKind
  <2>. QED  BY <1>2, <1>4, <1>7, <2>1, <2>2, MosaicRefused
<1> HIDE DEF t
<1>8. ~broken /\ Published' # row' => Refused(request.todo)'
  <2>1. Published' # row' /\ ~broken => request'.todo # <<>> /\ ~Accepts(Head(request'.todo))
    BY <1>1, <1>7 DEF Refused, t
  <2>2. Refused(request.todo)' <=> request'.todo # <<>> /\ ~Accepts(Head(request'.todo))
    BY <1>1 DEF Refused, Accepts, LayersIn
  <2>. QED  BY <2>1, <2>2
<1> HIDE DEF t
<1>9. request' = [what |-> "metadata", todo |-> t, row |-> row']
  BY <1>1 DEF t
<1>10. request' \in Requests /\ request'.what = "metadata" /\ request'.todo = t /\ request'.row = row'
  BY <1>2, <1>5, <1>9 DEF Requests
<1>11. TypeInv'
  <2>1. gs' \in [Objects -> Nat] /\ chain' \in Chains /\ broken' \in BOOLEAN /\ restyled' \in BOOLEAN /\ requests' \in Nat
    BY <1>1 DEF IInv, TypeInv
  <2>. QED  BY <1>2, <1>10, <2>1 DEF TypeInv
<1>12. DefaultInUse(gs)' /\ NoLayerNothing'
  BY <1>1, <1>2 DEF IInv, DefaultInUse, NoLayerNothing
<1>13. ~Runs'
  BY <1>1 DEF Runs
<1>14. RequestInv'
  <2>1. request'.what = "metadata" =>
          /\ ~Runs' /\ request'.row = row'
          /\ Fits(gs, t)
          /\ ~broken /\ Published' = row' => Reaches(gs, t, Expected(row'), Parts)
          /\ ~broken /\ Published' # row' => Refused(request.todo)'
    BY <1>3, <1>4, <1>10, <1>13, <1>6, <1>8
  <2>. QED  BY <1>1, <1>10, <2>1 DEF RequestInv, Edits
<1>15. ChainInv'
  BY <1>1, <1>13 DEF IInv, ChainInv
<1>16. ExactlyPublished'
  BY <1>10, NoRequestIs DEF ExactlyPublished, Quiet
<1>. QED  BY <1>11, <1>12, <1>14, <1>15, <1>16 DEF IInv

LEMMA InvFeatures ==
    ASSUME IInv, FeatureChange
    PROVE  IInv'
<1>1. /\ request = NoRequest /\ requests' = requests + 1 /\ row # None /\ ~Runs
      /\ chain' = FeaturesChain(row)
      /\ gs' = gs /\ row' = row /\ request' = request /\ broken' = broken
      /\ restyled' = restyled /\ Published' = Published
  BY DEF FeatureChange, Comes, Runs, Published
<1>2. row \in Row /\ gs \in [Objects -> Nat] /\ requests \in Nat /\ broken \in BOOLEAN /\ restyled \in BOOLEAN
  BY <1>1 DEF IInv, TypeInv
<1> DEFINE t == FeaturesChain(row).todo
<1>3. WritesSame(gs, t) /\ t \in Plans
  BY <1>2, FeaturesSame DEF WritesSame
<1>4. FeaturesChain(row) = [state |-> "running", publishes |-> FALSE, aborted |-> FALSE, todo |-> t]
  BY DEF FeaturesChain
<1> HIDE DEF t
<1>5. /\ chain' \in Chains /\ chain'.state = "running" /\ chain'.publishes = FALSE /\ chain'.aborted = FALSE
      /\ chain'.todo = t
  BY <1>1, <1>3, <1>4 DEF Chains
<1>6. ~broken => gs = Expected(Published)
  BY <1>1 DEF IInv, ExactlyPublished, Quiet, Runs
<1>7. TypeInv'
  <2>1. request' \in Requests /\ row' \in Row \cup {None}
    BY <1>1 DEF IInv, TypeInv
  <2>2. gs' \in [Objects -> Nat] /\ broken' \in BOOLEAN /\ restyled' \in BOOLEAN /\ requests' \in Nat
    BY <1>1, <1>2
  <2>. QED  BY <1>5, <2>1, <2>2 DEF TypeInv
<1>8. DefaultInUse(gs)' /\ NoLayerNothing'
  BY <1>1 DEF IInv, DefaultInUse, NoLayerNothing
<1>9. RequestInv'
  BY <1>1, NoRequestIs DEF RequestInv, Edits
<1>10. ChainInv' /\ ExactlyPublished'
  BY <1>1, <1>3, <1>5, <1>6 DEF ChainInv, ExactlyPublished, Quiet, Runs
<1>. QED  BY <1>7, <1>8, <1>9, <1>10 DEF IInv

(* The plan of a request has no marks.                                     *)
LEMMA RequestPlan ==
    ASSUME IInv, ~Runs, request.todo # <<>>
    PROVE  LET t == request.todo IN
           /\ t \in Plans /\ IsCall(Head(t)) /\ row # None /\ request # NoRequest
           /\ request.what \in {"patch", "style", "delete", "metadata"}
           /\ request.what \in Edits => Ordered(gs, t) /\ Covers(gs, t)
           /\ request.what = "metadata" => Fits(gs, t)
<1> DEFINE t == request.todo
<1>1. t \in Seq(Calls) /\ request # NoRequest /\ row # None
  BY NoRequestIs DEF IInv, NoLayerNothing, TypeInv, Requests
<1>2. request.what \in {"patch", "style", "delete", "metadata"}
  BY <1>1 DEF IInv, RequestInv, TypeInv, Requests
<1>3. /\ request.what \in Edits => Ordered(gs, t) /\ Covers(gs, t)
      /\ request.what = "metadata" => Fits(gs, t)
  BY DEF IInv, RequestInv
<1>4. t \in Plans
  BY <1>1, CallsArePlans, SeqMonotonic DEF Plans
<1>5. IsCall(Head(t))
  BY <1>1, TailFacts, CallsArePlans
<1>. QED  BY <1>1, <1>2, <1>3, <1>4, <1>5

LEMMA InvRequestCall ==
    ASSUME IInv, RequestCall
    PROVE  IInv'
<1> DEFINE t == request.todo
<1>1. /\ ~Runs /\ t # <<>> /\ Accepts(Head(t)) /\ gs' = After(Head(t))
      /\ request' = [request EXCEPT !.todo = Tail(t)]
      /\ row' = row /\ chain' = chain /\ broken' = broken /\ requests' = requests
      /\ restyled' = restyled /\ Published' = Published
  BY DEF RequestCall, Runs, Published
<1>2. /\ t \in Plans /\ IsCall(Head(t)) /\ row # None /\ request # NoRequest
      /\ request.what \in {"patch", "style", "delete", "metadata"}
      /\ request.what \in Edits => Ordered(gs, t) /\ Covers(gs, t)
      /\ request.what = "metadata" => Fits(gs, t)
  BY <1>1, RequestPlan
<1>3. gs \in [Objects -> Nat] /\ DefaultInUse(gs) /\ request \in Requests /\ t \in Seq(Calls)
  BY DEF IInv, TypeInv, Requests
<1>4. /\ gs' \in [Objects -> Nat] /\ DefaultInUse(gs')
      /\ Fits(gs, t) => Effect(gs, gs', Head(t))
      /\ Ordered(gs, t) => /\ \A o \in Objects : gs'[o] \in {0, gs[o]}
                           /\ \A o \in Objects : o \in GoesWith(Head(t).on) => gs'[o] = 0
  BY <1>1, <1>2, <1>3, CallDone DEF Edits
<1>5. Tail(t) \in Seq(Calls)
  BY <1>1, <1>3, TailFacts
<1> HIDE DEF t
<1>6. request' \in Requests /\ request'.what = request.what /\ request'.row = request.row /\ request'.todo = Tail(t)
  BY <1>1, <1>3, <1>5 DEF Requests
<1>7. TypeInv'
  <2>1. row' \in Row \cup {None} /\ chain' \in Chains /\ restyled' \in BOOLEAN /\ broken' \in BOOLEAN /\ requests' \in Nat
    BY <1>1 DEF IInv, TypeInv
  <2>. QED  BY <1>4, <1>6, <2>1 DEF TypeInv
<1>8. DefaultInUse(gs)' /\ NoLayerNothing'
  BY <1>1, <1>2, <1>4 DEF DefaultInUse, NoLayerNothing
<1>9. Runs' = Runs
  BY <1>1 DEF Runs
<1>10. RequestInv'
  <2>1. request.what \in Edits => Ordered(gs', Tail(t)) /\ Covers(gs', Tail(t))
    BY <1>1, <1>2, <1>4, OrderedTail
  <2>2. request.what = "metadata" => Fits(gs', Tail(t))
    BY <1>1, <1>2, <1>4, FitsTail
  <2>3. request.what = "metadata" /\ ~broken => Published = row /\ Reaches(gs', Tail(t), Expected(row), Parts)
    <3>1. request.what = "metadata" /\ ~broken /\ Published # row => Refused(t)
      BY DEF IInv, RequestInv, t
    <3>2. request.what = "metadata" /\ ~broken => Published = row
      BY <1>1, <3>1 DEF Refused
    <3>3. request.what = "metadata" /\ ~broken => Reaches(gs, t, Expected(row), Parts)
      BY <3>2 DEF IInv, RequestInv, t
    <3>. QED  BY <1>1, <1>2, <1>4, <3>2, <3>3, ReachesTail
  <2>4. /\ request.what \in {"patch", "style"} => request.row \in Row
        /\ request.what = "delete" => request.row = None
        /\ request.what = "metadata" => request.row = row
    BY DEF IInv, RequestInv
  <2>. QED  BY <1>1, <1>2, <1>6, <1>9, <2>1, <2>2, <2>3, <2>4 DEF RequestInv, Edits
<1>11. ChainInv'
  BY <1>1, <1>9 DEF IInv, ChainInv
<1>12. ExactlyPublished'
  BY <1>2, <1>6, NoRequestIs DEF ExactlyPublished, Quiet
<1>. QED  BY <1>7, <1>8, <1>10, <1>11, <1>12 DEF IInv

LEMMA InvRequestFails ==
    ASSUME IInv, RequestFails
    PROVE  IInv'
<1> DEFINE t == request.todo
<1>1. /\ ~Runs /\ t # <<>> /\ Fails(Head(t))
      /\ request' = NoRequest /\ broken' = TRUE
      /\ row' = row /\ chain' = chain /\ requests' = requests /\ restyled' = restyled
  BY DEF RequestFails, Runs
<1>2. t \in Plans /\ IsCall(Head(t)) /\ row # None /\ (Fits(gs, t) \/ Ordered(gs, t))
  BY <1>1, RequestPlan DEF Edits
<1>3. gs \in [Objects -> Nat] /\ DefaultInUse(gs)
  BY DEF IInv, TypeInv
<1>4. gs' \in [Objects -> Nat] /\ DefaultInUse(gs')
  <2>1. Accepts(Head(t)) => After(Head(t)) \in [Objects -> Nat] /\ DefaultInUse(After(Head(t)))
    BY <1>1, <1>2, <1>3, CallDone
  <2>. QED  BY <1>1, <1>3, <2>1 DEF Fails
<1>5. TypeInv'
  <2>1. row' \in Row \cup {None} /\ chain' \in Chains /\ requests' \in Nat /\ restyled' \in BOOLEAN
    BY <1>1 DEF IInv, TypeInv
  <2>2. request' \in Requests
    BY <1>1, NoRequestIs
  <2>3. broken' \in BOOLEAN
    BY <1>1
  <2>. QED  BY <1>4, <2>1, <2>2, <2>3 DEF TypeInv
<1>6. DefaultInUse(gs)' /\ NoLayerNothing'
  BY <1>1, <1>2, <1>4 DEF DefaultInUse, NoLayerNothing
<1>7. RequestInv'
  BY <1>1, NoRequestIs DEF RequestInv, Edits
<1>8. ~Runs'
  BY <1>1 DEF Runs
<1>9. ChainInv' /\ ExactlyPublished'
  BY <1>1, <1>8 DEF IInv, ChainInv, ExactlyPublished, Quiet
<1>. QED  BY <1>5, <1>6, <1>7, <1>9 DEF IInv

(* A plan without calls has reached what it should.                        *)
LEMMA ReachedAll ==
    ASSUME NEW r \in Row, gs \in [Objects -> Nat], Reaches(gs, <<>>, Expected(r), Parts)
    PROVE  gs = Expected(r)
<1> DEFINE e == Expected(r)
<1>1. e \in [Objects -> Nat]
  BY ExpectedIs
<1> HIDE DEF e
<1>2. \A o \in Objects : ReachesAt(gs, <<>>, e, o)
  BY EveryPart DEF Reaches, e
<1>3. \A o \in Objects : gs[o] = e[o]
  BY <1>2 DEF ReachesAt, LeftAs
<1>4. gs = e
  BY <1>1, <1>3
<1>. QED  BY <1>4 DEF e

LEMMA InvRequestEnds ==
    ASSUME IInv, RequestEnds
    PROVE  IInv'
<1>1. /\ ~Runs /\ request # NoRequest /\ request.todo = <<>>
      /\ row' = request.row
      /\ chain' = CASE request.what = "patch"    -> PublishingChain(request.row)
                    [] request.what = "style"    -> PublishingChain(WithoutMosaic(request.row))
                    [] request.what = "delete"   -> Idle
                    [] request.what = "metadata" -> chain
      /\ restyled' = IF request.what = "metadata" THEN restyled ELSE request.what = "style"
      /\ broken' = (broken /\ request.what = "metadata")
      /\ request' = NoRequest /\ gs' = gs /\ requests' = requests
  BY DEF RequestEnds, Runs
<1>2. row # None /\ TypeInv /\ DefaultInUse(gs) /\ gs \in [Objects -> Nat]
  BY <1>1 DEF IInv, NoLayerNothing, TypeInv
<1>3. request.what \in {"patch", "style", "delete", "metadata"} /\ request.row \in Row \cup {None}
  BY <1>1 DEF IInv, RequestInv, TypeInv, Requests
<1>4. request.what \in Edits => NothingIn(gs)
  BY <1>1, <1>2, AllDeleted DEF IInv, RequestInv, Edits
<1>5. RequestInv' /\ DefaultInUse(gs)'
  BY <1>1, <1>2, NoRequestIs DEF RequestInv, Edits, DefaultInUse
<1>6. /\ gs' \in [Objects -> Nat] /\ row' \in Row \cup {None}
      /\ request' \in Requests /\ requests' \in Nat
  BY <1>1, <1>2, <1>3, NoRequestIs DEF TypeInv
<1>7. broken' \in BOOLEAN /\ restyled' \in BOOLEAN
  BY <1>1, <1>2 DEF TypeInv
<1>8. CASE request.what \in {"patch", "style"}
  <2>1. /\ row' = request.row /\ row' \in Row /\ row' # None
        /\ Published' = IF request.what = "style" THEN WithoutMosaic(row') ELSE row'
        /\ chain' = PublishingChain(Published')
    BY <1>1, <1>8, RowFacts DEF IInv, RequestInv, Published
  <2>2. Published' \in Row /\ NothingIn(gs)
    BY <1>4, <1>8, <2>1, PublishedIs DEF Edits
  <2>3. /\ chain' \in Chains /\ chain'.state = "running" /\ chain'.publishes = TRUE /\ chain'.aborted = FALSE
        /\ Fits(gs, chain'.todo) /\ Reaches(gs, chain'.todo, Expected(Published'), Parts)
    BY <2>1, <2>2, PublishingIs
  <2>4. TypeInv'
    BY <1>6, <1>7, <2>3 DEF TypeInv
  <2>5. NoLayerNothing'
    BY <2>1 DEF NoLayerNothing
  <2>6. ChainInv' /\ ExactlyPublished'
    BY <1>1, <2>3 DEF ChainInv, ExactlyPublished, Quiet, Runs
  <2>. QED  BY <1>5, <2>4, <2>5, <2>6 DEF IInv
<1>9. CASE request.what = "delete"
  <2>1. row' = None /\ chain' = Idle
    BY <1>1, <1>9 DEF IInv, RequestInv
  <2>2. chain' \in Chains /\ ~Runs' /\ chain'.todo = <<>>
    BY <2>1, IdleIs DEF Runs
  <2>3. TypeInv'
    BY <1>6, <1>7, <2>2 DEF TypeInv
  <2>4. NoLayerNothing'
    BY <1>1, <1>4, <1>9, <2>2 DEF NoLayerNothing, NothingIn, Edits
  <2>5. ChainInv' /\ ExactlyPublished'
    BY <2>1, <2>2 DEF ChainInv, ExactlyPublished, Quiet
  <2>. QED  BY <1>5, <2>3, <2>4, <2>5 DEF IInv
<1>10. CASE request.what = "metadata"
  <2>1. row' = row /\ chain' = chain /\ broken' = broken /\ restyled' = restyled /\ Published' = Published
    BY <1>1, <1>2, <1>10 DEF IInv, RequestInv, TypeInv, Published
  <2>2. chain' \in Chains /\ ~Runs'
    BY <1>1, <1>2, <2>1 DEF TypeInv, Runs
  <2>3. TypeInv'
    BY <1>6, <1>7, <2>2 DEF TypeInv
  <2>4. NoLayerNothing'
    BY <1>2, <2>1 DEF NoLayerNothing
  <2>5. ChainInv'
    BY <1>1, <2>1, <2>2 DEF IInv, ChainInv
  <2>6. ~broken => gs = Expected(Published)
    <3>1. SUFFICES ASSUME ~broken
                   PROVE  gs = Expected(Published)
      OBVIOUS
    <3>2. Published = row /\ Reaches(gs, <<>>, Expected(row), Parts)
      BY <1>1, <1>10, <3>1 DEF IInv, RequestInv, Refused
    <3>. QED  BY <3>2, <1>2, ReachedAll DEF TypeInv
  <2>7. ExactlyPublished'
    BY <1>1, <2>1, <2>6 DEF ExactlyPublished, Quiet
  <2>. QED  BY <1>5, <2>3, <2>4, <2>5, <2>7 DEF IInv
<1>. QED  BY <1>3, <1>8, <1>9, <1>10

(* The plan of the chain.                                                  *)
LEMMA ChainPlan ==
    ASSUME IInv, Runs
    PROVE  LET t == chain.todo IN
           /\ t \in Plans /\ row \in Row
           /\ Fits(gs, t) \/ WritesSame(gs, t) \/ Ordered(gs, t)
           /\ chain \in Chains /\ gs \in [Objects -> Nat] /\ DefaultInUse(gs)
           /\ ~chain.aborted => request = NoRequest
           /\ chain.aborted => request.what \in Edits /\ request.todo = Deletes
<1>1. chain \in Chains /\ row \in Row /\ chain.todo \in Plans
  BY DEF IInv, TypeInv, NoLayerNothing, Chains
<1>2. chain.aborted \in BOOLEAN /\ chain.publishes \in BOOLEAN
  BY <1>1 DEF Chains
<1>. QED  BY <1>1, <1>2 DEF IInv, ChainInv, TypeInv

LEMMA InvTaskCall ==
    ASSUME IInv, TaskCall
    PROVE  IInv'
<1> DEFINE t == chain.todo
<1>1. /\ Runs /\ t # <<>> /\ IsCall(Head(t)) /\ Accepts(Head(t)) /\ gs' = After(Head(t))
      /\ chain' = [chain EXCEPT !.todo = Tail(t)]
      /\ row' = row /\ request' = request /\ broken' = broken /\ requests' = requests
      /\ restyled' = restyled /\ Published' = Published
  BY DEF TaskCall, Runs, Published
<1>2. /\ t \in Plans /\ row \in Row
      /\ Fits(gs, t) \/ WritesSame(gs, t) \/ Ordered(gs, t)
      /\ chain \in Chains /\ gs \in [Objects -> Nat] /\ DefaultInUse(gs)
      /\ ~chain.aborted => request = NoRequest
      /\ chain.aborted => request.what \in Edits /\ request.todo = Deletes
  BY <1>1, ChainPlan
<1>3. /\ gs' \in [Objects -> Nat] /\ DefaultInUse(gs')
      /\ Fits(gs, t) => Effect(gs, gs', Head(t))
      /\ WritesSame(gs, t) => gs' = gs
      /\ Ordered(gs, t) => /\ \A o \in Objects : gs'[o] \in {0, gs[o]}
                           /\ \A o \in Objects : o \in GoesWith(Head(t).on) => gs'[o] = 0
  BY <1>1, <1>2, CallDone
<1>4. Tail(t) \in Plans
  BY <1>1, <1>2, HeadIs
<1>5. /\ ~chain.aborted /\ chain.publishes => Fits(gs, t) /\ Reaches(gs, t, Expected(Published), Parts)
      /\ ~chain.aborted /\ ~chain.publishes => WritesSame(gs, t) /\ (~broken => gs = Expected(Published))
  BY <1>1 DEF IInv, ChainInv
<1> HIDE DEF t
<1>6. /\ chain' \in Chains /\ chain'.state = chain.state /\ chain'.publishes = chain.publishes
      /\ chain'.aborted = chain.aborted /\ chain'.todo = Tail(t)
  BY <1>1, <1>2, <1>4 DEF Chains
<1>7. Runs'
  BY <1>1, <1>6 DEF Runs
<1>8. TypeInv'
  <2>1. row' \in Row \cup {None} /\ request' \in Requests /\ restyled' \in BOOLEAN /\ broken' \in BOOLEAN /\ requests' \in Nat
    BY <1>1 DEF IInv, TypeInv
  <2>. QED  BY <1>3, <1>6, <2>1 DEF TypeInv
<1>9. DefaultInUse(gs)' /\ NoLayerNothing'
  BY <1>1, <1>2, <1>3, RowFacts DEF DefaultInUse, NoLayerNothing
<1>10. RequestInv'
  <2>1. request.what \in Edits => Ordered(gs', Deletes) /\ Covers(gs', Deletes)
    BY DeletesOrdered
  <2>2. request.what # "metadata"
    BY <1>2, NoRequestIs DEF Edits
  <2>. QED  BY <1>1, <1>2, <2>1, <2>2, NoRequestIs DEF IInv, RequestInv, Edits
<1>11. Fits(gs, t) => Fits(gs', Tail(t))
  BY <1>1, <1>3, FitsTail
<1>12. WritesSame(gs, t) => WritesSame(gs', Tail(t))
  BY <1>1, <1>3, <1>4, SameTail
<1>13. Ordered(gs, t) => Ordered(gs', Tail(t))
  BY <1>1, <1>3, OrderedTail
<1>14. ~chain.aborted /\ chain.publishes => Reaches(gs', Tail(t), Expected(Published), Parts)
  BY <1>1, <1>2, <1>3, <1>5, ReachesTail
<1>15. ~chain.aborted /\ ~chain.publishes /\ ~broken => gs' = Expected(Published)
  BY <1>3, <1>5
<1>16. ChainInv'
  BY <1>1, <1>2, <1>5, <1>6, <1>7, <1>11, <1>12, <1>13, <1>14, <1>15 DEF ChainInv
<1>17. ExactlyPublished'
  BY <1>7 DEF ExactlyPublished, Quiet, Runs
<1>. QED  BY <1>8, <1>9, <1>10, <1>16, <1>17 DEF IInv

LEMMA InvTaskFails ==
    ASSUME IInv, TaskFails
    PROVE  IInv'
<1> DEFINE t == chain.todo
<1>1. /\ Runs /\ t # <<>> /\ IsCall(Head(t)) /\ Fails(Head(t))
      /\ chain' = [chain EXCEPT !.state = "failed", !.todo = <<>>] /\ broken' = TRUE
      /\ row' = row /\ request' = request /\ requests' = requests
      /\ restyled' = restyled /\ Published' = Published
  BY DEF TaskFails, Runs, Published
<1>2. /\ t \in Plans /\ row \in Row
      /\ Fits(gs, t) \/ WritesSame(gs, t) \/ Ordered(gs, t)
      /\ chain \in Chains /\ gs \in [Objects -> Nat] /\ DefaultInUse(gs)
      /\ ~chain.aborted => request = NoRequest
      /\ chain.aborted => request.what \in Edits /\ request.todo = Deletes
  BY <1>1, ChainPlan
<1>3. gs' \in [Objects -> Nat] /\ DefaultInUse(gs')
  <2>1. Accepts(Head(t)) => After(Head(t)) \in [Objects -> Nat] /\ DefaultInUse(After(Head(t)))
    BY <1>1, <1>2, CallDone
  <2>. QED  BY <1>1, <1>2, <2>1 DEF Fails
<1>4. chain' \in Chains /\ chain'.state = "failed" /\ chain'.todo = <<>>
  BY <1>1, <1>2, NoPlan DEF Chains
<1>5. ~Runs'
  BY <1>4 DEF Runs
<1>6. TypeInv'
  <2>1. row' \in Row \cup {None} /\ request' \in Requests /\ restyled' \in BOOLEAN /\ requests' \in Nat
    BY <1>1 DEF IInv, TypeInv
  <2>2. broken' \in BOOLEAN
    BY <1>1
  <2>. QED  BY <1>3, <1>4, <2>1, <2>2 DEF TypeInv
<1>7. DefaultInUse(gs)' /\ NoLayerNothing'
  BY <1>1, <1>2, <1>3, RowFacts DEF DefaultInUse, NoLayerNothing
<1>8. RequestInv'
  <2>1. request.what \in Edits => Ordered(gs', Deletes) /\ Covers(gs', Deletes)
    BY DeletesOrdered
  <2>2. request.what # "metadata"
    BY <1>2, NoRequestIs DEF Edits
  <2>. QED  BY <1>1, <1>2, <2>1, <2>2, NoRequestIs DEF IInv, RequestInv, Edits
<1>9. ChainInv' /\ ExactlyPublished'
  BY <1>1, <1>4, <1>5 DEF ChainInv, ExactlyPublished, Quiet
<1>. QED  BY <1>6, <1>7, <1>8, <1>9 DEF IInv

LEMMA InvLooksAborted ==
    ASSUME IInv, LooksAborted
    PROVE  IInv'
<1> DEFINE t == chain.todo
           left == IF chain.aborted THEN Head(t).undo ELSE Tail(t)
<1>1. /\ Runs /\ t # <<>> /\ ~IsCall(Head(t))
      /\ chain' = [chain EXCEPT !.todo = left]
      /\ gs' = gs /\ row' = row /\ request' = request /\ broken' = broken /\ requests' = requests
      /\ restyled' = restyled /\ Published' = Published
  BY DEF LooksAborted, Runs, Published
<1>2. /\ t \in Plans /\ row \in Row
      /\ Fits(gs, t) \/ WritesSame(gs, t) \/ Ordered(gs, t)
      /\ chain \in Chains /\ gs \in [Objects -> Nat] /\ DefaultInUse(gs)
      /\ ~chain.aborted => request = NoRequest
      /\ chain.aborted => request.what \in Edits /\ request.todo = Deletes
  BY <1>1, ChainPlan
<1>3. Tail(t) \in Plans /\ Head(t).undo \in Undos
  BY <1>1, <1>2, HeadIs DEF Marks
<1>4. Ordered(gs, Head(t).undo) /\ Head(t).undo \in Plans
  <2>1. Ordered(gs, Head(t).undo)
    BY <1>3, UndoOrdered
  <2>. QED  BY <2>1, CallsArePlans, SeqMonotonic DEF Ordered, Plans
<1>5. /\ ~chain.aborted /\ chain.publishes => Fits(gs, t) /\ Reaches(gs, t, Expected(Published), Parts)
      /\ ~chain.aborted /\ ~chain.publishes => WritesSame(gs, t) /\ (~broken => gs = Expected(Published))
  BY <1>1 DEF IInv, ChainInv
<1>6. left \in Plans
  BY <1>3, <1>4
<1>7. Effect(gs, gs, Head(t))
  BY <1>1 DEF Effect, Touches
<1>8. Fits(gs, t) => Fits(gs, Tail(t))
  BY <1>1, <1>7, FitsTail
<1>9. WritesSame(gs, t) => WritesSame(gs, Tail(t))
  BY <1>1, <1>3, SameTail
<1>10. ~chain.aborted /\ chain.publishes => Reaches(gs, Tail(t), Expected(Published), Parts)
  BY <1>1, <1>2, <1>5, <1>7, ReachesTail
<1>11. /\ chain.aborted => Ordered(gs, left)
       /\ ~chain.aborted => left = Tail(t)
  BY <1>4
<1> HIDE DEF t, left
<1>12. /\ chain' \in Chains /\ chain'.state = chain.state /\ chain'.publishes = chain.publishes
       /\ chain'.aborted = chain.aborted /\ chain'.todo = left
  BY <1>1, <1>2, <1>6 DEF Chains
<1>13. Runs'
  BY <1>1, <1>12 DEF Runs
<1>14. TypeInv'
  <2>1. /\ gs' \in [Objects -> Nat] /\ row' \in Row \cup {None} /\ request' \in Requests
        /\ restyled' \in BOOLEAN /\ broken' \in BOOLEAN /\ requests' \in Nat
    BY <1>1 DEF IInv, TypeInv
  <2>. QED  BY <1>12, <2>1 DEF TypeInv
<1>15. DefaultInUse(gs)' /\ NoLayerNothing'
  BY <1>1, <1>2, RowFacts DEF DefaultInUse, NoLayerNothing
<1>16. RequestInv'
  <2>1. request.what # "metadata"
    BY <1>2, NoRequestIs DEF Edits
  <2>. QED  BY <1>1, <2>1 DEF IInv, RequestInv, Edits
<1>17. ChainInv'
  BY <1>1, <1>2, <1>5, <1>8, <1>9, <1>10, <1>11, <1>12, <1>13 DEF ChainInv
<1>18. ExactlyPublished'
  BY <1>13 DEF ExactlyPublished, Quiet, Runs
<1>. QED  BY <1>14, <1>15, <1>16, <1>17, <1>18 DEF IInv

LEMMA InvChainEnds ==
    ASSUME IInv, ChainEnds
    PROVE  IInv'
<1>1. /\ Runs /\ chain.todo = <<>>
      /\ chain' = [chain EXCEPT !.state = IF chain.aborted THEN "aborted" ELSE "done"]
      /\ broken' = (chain.aborted \/ (broken /\ ~chain.publishes))
      /\ gs' = gs /\ row' = row /\ request' = request /\ requests' = requests
      /\ restyled' = restyled /\ Published' = Published
  BY DEF ChainEnds, Runs, Published
<1>2. /\ row \in Row
      /\ chain \in Chains /\ gs \in [Objects -> Nat] /\ DefaultInUse(gs)
      /\ ~chain.aborted => request = NoRequest
      /\ chain.aborted => request.what \in Edits /\ request.todo = Deletes
  BY <1>1, ChainPlan
<1>3. chain' \in Chains /\ chain'.state # "running" /\ chain'.todo = <<>>
  BY <1>1, <1>2 DEF Chains
<1>4. ~Runs'
  BY <1>3 DEF Runs
<1>5. TypeInv'
  <2>1. /\ gs' \in [Objects -> Nat] /\ row' \in Row \cup {None} /\ request' \in Requests
        /\ restyled' \in BOOLEAN /\ requests' \in Nat
    BY <1>1 DEF IInv, TypeInv
  <2>2. broken' \in BOOLEAN
    BY <1>1
  <2>. QED  BY <1>3, <2>1, <2>2 DEF TypeInv
<1>6. DefaultInUse(gs)' /\ NoLayerNothing'
  BY <1>1, <1>2, RowFacts DEF DefaultInUse, NoLayerNothing
<1>7. RequestInv'
  <2>1. request.what # "metadata"
    BY <1>2, NoRequestIs DEF Edits
  <2>. QED  BY <1>1, <2>1 DEF IInv, RequestInv, Edits
<1>8. ChainInv'
  BY <1>3, <1>4 DEF ChainInv
<1>9. ~chain.aborted /\ ~(broken /\ ~chain.publishes) => gs = Expected(Published)
  <2>1. SUFFICES ASSUME ~chain.aborted, chain.publishes
                 PROVE  gs = Expected(Published)
    BY <1>1 DEF IInv, ChainInv
  <2>2. Reaches(gs, <<>>, Expected(Published), Parts)
    BY <1>1, <2>1 DEF IInv, ChainInv
  <2>3. Published \in Row
    BY <1>2, PublishedIs DEF Published
  <2>. QED  BY <1>2, <2>2, <2>3, ReachedAll
<1>10. ExactlyPublished'
  BY <1>1, <1>9 DEF ExactlyPublished, Quiet
<1>. QED  BY <1>5, <1>6, <1>7, <1>8, <1>10 DEF IInv

LEMMA InvStep == IInv /\ [Next]_vars => IInv'
<1> SUFFICES ASSUME IInv, [Next]_vars PROVE IInv'
  OBVIOUS
<1>1. CASE \E r \in Rows : Post(r)
  BY <1>1, InvPost
<1>2. CASE (\E r \in Rows : Patch(r) \/ PatchStyle(r)) \/ Delete
  BY <1>2, InvPatchDelete
<1>3. CASE PatchMetadata
  BY <1>3, InvMetadata
<1>4. CASE FeatureChange
  BY <1>4, InvFeatures
<1>5. CASE RequestCall
  BY <1>5, InvRequestCall
<1>6. CASE RequestFails
  BY <1>6, InvRequestFails
<1>7. CASE RequestEnds
  BY <1>7, InvRequestEnds
<1>8. CASE TaskCall
  BY <1>8, InvTaskCall
<1>9. CASE TaskFails
  BY <1>9, InvTaskFails
<1>10. CASE LooksAborted
  BY <1>10, InvLooksAborted
<1>11. CASE ChainEnds
  BY <1>11, InvChainEnds
<1>12. CASE UNCHANGED vars
  <2>1. Refused(request.todo)' <=> Refused(request.todo)
    BY <1>12 DEF vars, Refused, Accepts, LayersIn
  <2>. QED  BY <1>12, <2>1
            DEF vars, IInv, TypeInv, DefaultInUse, NoLayerNothing, Runs, RequestInv, ChainInv, Published,
                ExactlyPublished, Quiet
<1>. QED  BY <1>1, <1>2, <1>3, <1>4, <1>5, <1>6, <1>7, <1>8, <1>9, <1>10, <1>11, <1>12 DEF Next

LEMMA InvHolds == Spec => []IInv
  BY InvInit, InvStep, PTL DEF Spec

-----------------------------------------------------------------------------
(* The theorems.                                                           *)

(* A layer that is created finds its place free and its store there, and a *)
(* store is empty when it is deleted, whatever was published before and    *)
(* whatever failed: PATCH can always publish the layer again.              *)
(* Code: refresh_wfs and refresh_wms, delete_layer of                      *)
(* layman/layer/geoserver/wfs.py, wms.py, sld.py.                          *)
THEOREM CallsFindTheirPlace == Spec => []CreatesFresh
<1>1. ASSUME IInv
      PROVE  CreatesFresh
  <2>1. ASSUME request.todo # <<>>, Head(request.todo).method \in {"POST", "DELETE"}
        PROVE  Accepts(Head(request.todo))
    <3>1. CASE ~Runs
      BY <1>1, <2>1, <3>1, RequestPlan, FitsHead, OrderedHead DEF Edits
    <3>2. CASE Runs
      <4>1. request.todo = Deletes
        BY <1>1, <2>1, <3>2, ChainPlan, NoRequestIs
      <4>. QED  BY <2>1, <4>1, DeletesOrdered, OrderedHead
    <3>. QED  BY <3>1, <3>2
  <2>2. ASSUME chain.todo # <<>>, Head(chain.todo).method \in {"POST", "DELETE"}
        PROVE  Accepts(Head(chain.todo))
    <3>1. Runs
      BY <1>1, <2>2 DEF IInv, ChainInv
    <3>2. /\ chain.todo \in Plans
          /\ Fits(gs, chain.todo) \/ WritesSame(gs, chain.todo) \/ Ordered(gs, chain.todo)
      BY <1>1, <3>1, ChainPlan
    <3>3. ~WritesSame(gs, chain.todo)
      BY <2>2, <3>2, HeadIs DEF WritesSame, IsCall
    <3>. QED  BY <2>2, <3>2, <3>3, FitsHead, OrderedHead
  <2>. QED  BY <2>1, <2>2 DEF CreatesFresh
<1>. QED  BY <1>1, InvHolds, PTL

(* When the requests and tasks of a layer have succeeded, GeoServer has    *)
(* what its row asks for, and nothing else: no store, layer, style or rule *)
(* of another kind of data or style the layer had, no old title or right.  *)
(* Only a mosaic whose style was changed is published as GeoTIFF.          *)
(* Code: the tasks of layman/layer/geoserver/tasks.py, patch_layer of      *)
(* wfs.py and wms.py, and patch of layman/layer/rest_layer.py.             *)
THEOREM PublishedExactly == Spec => []ExactlyPublished
<1>1. IInv => ExactlyPublished
  BY DEF IInv
<1>. QED  BY <1>1, InvHolds, PTL

(* A layer that is deleted leaves nothing in GeoServer, whatever has       *)
(* failed in its life, nor a rule that a later layer of that name would    *)
(* inherit.                                                                *)
(* Code: delete_layer of layman/layer/geoserver/wfs.py, wms.py, sld.py.    *)
THEOREM NothingIsLeft == Spec => []DeletedFromGeoServer
<1>1. IInv => DeletedFromGeoServer
  BY DEF IInv, NoLayerNothing, NothingIn, DeletedFromGeoServer
<1>. QED  BY <1>1, InvHolds, PTL

=============================================================================
