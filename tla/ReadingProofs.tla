--------------------------- MODULE ReadingProofs ---------------------------
(***************************************************************************)
(* Theorems about what is read without a lock while publications change:   *)
(* the pages of Listing, and GET of a publication of CompleteInfo.  The    *)
(* two have their state apart, and nothing is said of both together.       *)
(*                                                                         *)
(* Listing: a client who goes through the pages is given what he should    *)
(* be (ListedWhole).  First the order of publications is shown to be       *)
(* total, so that the positions of a list are 0, 1, ... without gaps; then *)
(* that a page is an interval of positions; then that a change of one      *)
(* publication moves no other one to the front.  The invariant says of the *)
(* publications that are due how far the client has come.                  *)
(*                                                                         *)
(* CompleteInfo: GET takes no lock, but it reads the lock before it reads  *)
(* the sources.  If nobody had it, and no request has begun since, nobody  *)
(* has it now: sources, the chain and its results stay as they are while   *)
(* GET reads them.  The rest of the invariant says what GET has put        *)
(* together so far.                                                        *)
(***************************************************************************)
EXTENDS Listing, CompleteInfo, FiniteSetTheorems, SequenceTheorems, TLAPS

(* A table of typed rows, and parameters that GET does not refuse.         *)
Sound(tb, r) ==
    /\ DOMAIN tb \subseteq Publications /\ tb \in [DOMAIN tb -> Rows]
    /\ r \in Requests /\ ~Refused(r)
-----------------------------------------------------------------------------
(* Comparison of fractions x/X <= y/Y is transitive.                       *)
LEMMA Ratios ==
    ASSUME NEW x \in Nat, NEW y \in Nat, NEW z \in Nat,
           NEW X \in Nat \ {0}, NEW Y \in Nat \ {0}, NEW Z \in Nat \ {0},
           x * Y <= y * X, y * Z <= z * Y
    PROVE  x * Z <= z * X
<1>1. (x * Y) * Z <= (y * X) * Z
  BY Z3
<1>2. (y * Z) * X <= (z * Y) * X
  BY Z3
<1>3. (y * X) * Z = (y * Z) * X
  BY Z3
<1>4. (x * Z) * Y <= (z * X) * Y
  BY <1>1, <1>2, <1>3, Z3
<1>5. QED
  BY <1>4, Z3

(* The numbers that similarity is computed of.                             *)
LEMMA Sizes ==
    ASSUME NEW tb, NEW r, Sound(tb, r), OrderBy(r) = "bbox", NEW p \in DOMAIN tb
    PROVE  /\ Cardinality(tb[p].bbox \cap OrderingBox(r)) \in Nat
           /\ Cardinality(tb[p].bbox) + Cardinality(OrderingBox(r)) \in Nat \ {0}
<1>1. tb[p] \in Rows
  BY DEF Sound
<1>2. IsFiniteSet(tb[p].bbox)
  BY <1>1, ListingAssumption, FS_EmptySet DEF Rows
<1>3. IsFiniteSet(OrderingBox(r)) /\ OrderingBox(r) # {}
  BY ListingAssumption DEF Sound, OrderingBox, Refused, OrderBy, None
<1>4. Cardinality(OrderingBox(r)) \in Nat \ {0}
  BY <1>3, FS_CardinalityType, FS_EmptySet
<1>5. IsFiniteSet(tb[p].bbox \cap OrderingBox(r))
  BY <1>2, FS_Subset
<1>6. QED
  BY <1>2, <1>4, <1>5, FS_CardinalityType

(* What ORDER BY puts first is a strict weak order.                        *)
LEMMA PrecedesOrder ==
    ASSUME NEW tb, NEW r, Sound(tb, r),
           NEW p \in DOMAIN tb, NEW q \in DOMAIN tb, NEW s \in DOMAIN tb
    PROVE  /\ Precedes(tb, p, q, r) => ~Precedes(tb, q, p, r)
           /\ ~Precedes(tb, p, q, r) /\ ~Precedes(tb, q, s, r) => ~Precedes(tb, p, s, r)
<1>1. /\ tb[p] \in Rows /\ tb[q] \in Rows /\ tb[s] \in Rows
  BY DEF Sound
<1>2. /\ TextRank[tb[p].title] \in Nat /\ TextRank[tb[q].title] \in Nat /\ TextRank[tb[s].title] \in Nat
      /\ tb[p].title \in Nat /\ tb[q].title \in Nat /\ tb[s].title \in Nat
      /\ tb[p].updated_at \in Nat /\ tb[q].updated_at \in Nat /\ tb[s].updated_at \in Nat
  BY <1>1, ListingAssumption DEF Rows
<1>3. CASE OrderBy(r) = "bbox"
  <2> DEFINE n(x) == Cardinality(tb[x].bbox \cap OrderingBox(r))
             d(x) == Cardinality(tb[x].bbox) + Cardinality(OrderingBox(r))
  <2>1. \A x, y : Precedes(tb, x, y, r) <=> n(x) * d(y) > n(y) * d(x)
    BY <1>3 DEF Precedes, ByContent, MoreSimilar
  <2>2. /\ n(p) \in Nat /\ n(q) \in Nat /\ n(s) \in Nat
        /\ d(p) \in Nat \ {0} /\ d(q) \in Nat \ {0} /\ d(s) \in Nat \ {0}
    BY <1>3, Sizes
  <2> HIDE DEF n, d
  <2>3. \A x \in {p, q, s}, y \in {p, q, s} : n(x) * d(y) \in Nat
    BY <2>2
  <2>4. \A x \in {p, q, s}, y \in {p, q, s} : ~Precedes(tb, x, y, r) <=> n(x) * d(y) <= n(y) * d(x)
    BY <2>1, <2>3
  <2>5. ASSUME n(p) * d(q) <= n(q) * d(p), n(q) * d(s) <= n(s) * d(q)
        PROVE  n(p) * d(s) <= n(s) * d(p)
    BY <2>2, <2>5, Ratios
  <2>6. Precedes(tb, p, q, r) => ~Precedes(tb, q, p, r)
    BY <2>1, <2>3, <2>4
  <2>7. QED
    BY <2>4, <2>5, <2>6
<1>4. CASE OrderBy(r) = "full_text"
  BY <1>2, <1>4 DEF Precedes, ByContent
<1>5. CASE OrderBy(r) = "title"
  BY <1>2, <1>5 DEF Precedes, ByContent
<1>6. CASE OrderBy(r) = "last_change"
  BY <1>2, <1>6 DEF Precedes, ByContent
<1>7. CASE OrderBy(r) \notin {"bbox", "full_text", "title", "last_change"}
  BY <1>7 DEF Precedes, ByContent
<1>8. QED
  BY <1>3, <1>4, <1>5, <1>6, <1>7

(* Names of publications are in a strict total order.                      *)
LEMMA AlphabeticOrder ==
    ASSUME NEW p \in Publications, NEW q \in Publications, NEW s \in Publications
    PROVE  /\ ~Alphabetic(p, p)
           /\ Alphabetic(p, q) => ~Alphabetic(q, p)
           /\ Alphabetic(p, q) /\ Alphabetic(q, s) => Alphabetic(p, s)
           /\ p # q => Alphabetic(p, q) \/ Alphabetic(q, p)
<1>1. p \in Nat \X Nat \X Nat /\ q \in Nat \X Nat \X Nat /\ s \in Nat \X Nat \X Nat
  BY ListingAssumption
<1>2. /\ p = <<p[1], p[2], p[3]>> /\ q = <<q[1], q[2], q[3]>>
      /\ p[1] \in Nat /\ p[2] \in Nat /\ p[3] \in Nat
      /\ q[1] \in Nat /\ q[2] \in Nat /\ q[3] \in Nat
      /\ s[1] \in Nat /\ s[2] \in Nat /\ s[3] \in Nat
  BY <1>1
<1>3. p # q => p[1] # q[1] \/ p[2] # q[2] \/ p[3] # q[3]
  BY <1>2
<1>4. QED
  BY <1>2, <1>3 DEF Alphabetic

(* The list is in a strict total order: every pair of publications differs *)
(* in what ORDER BY compares, at the latest in the type.                   *)
LEMMA AheadOrder ==
    ASSUME NEW tb, NEW r, Sound(tb, r),
           NEW p \in DOMAIN tb, NEW q \in DOMAIN tb, NEW s \in DOMAIN tb
    PROVE  /\ ~Ahead(tb, p, p, r)
           /\ Ahead(tb, p, q, r) /\ Ahead(tb, q, s, r) => Ahead(tb, p, s, r)
           /\ p # q => Ahead(tb, p, q, r) \/ Ahead(tb, q, p, r)
<1>1. p \in Publications /\ q \in Publications /\ s \in Publications
  BY DEF Sound
<1> DEFINE Pr(x, y) == Precedes(tb, x, y, r)
<1>2. \A x \in {p, q, s}, y \in {p, q, s} : Pr(x, y) => ~Pr(y, x)
  BY PrecedesOrder
<1>3. \A x \in {p, q, s}, y \in {p, q, s}, z \in {p, q, s} :
          ~Pr(x, y) /\ ~Pr(y, z) => ~Pr(x, z)
  BY PrecedesOrder
<1>4. \A x, y : Ahead(tb, x, y, r) <=> Pr(x, y) \/ (~Pr(y, x) /\ Alphabetic(x, y))
  BY DEF Ahead
<1> HIDE DEF Pr
<1>5. /\ ~Alphabetic(p, p)
      /\ Alphabetic(p, q) /\ Alphabetic(q, s) => Alphabetic(p, s)
      /\ p # q => Alphabetic(p, q) \/ Alphabetic(q, p)
  BY <1>1, AlphabeticOrder
<1>6. ~Ahead(tb, p, p, r)
  BY <1>2, <1>4, <1>5
<1>7. ASSUME Ahead(tb, p, q, r), Ahead(tb, q, s, r)
      PROVE  Ahead(tb, p, s, r)
  BY <1>2, <1>3, <1>4, <1>5, <1>7
<1>8. p # q => Ahead(tb, p, q, r) \/ Ahead(tb, q, p, r)
  BY <1>2, <1>4, <1>5
<1>9. QED
  BY <1>6, <1>7, <1>8

-----------------------------------------------------------------------------
(* Those of the list ahead of a publication.                               *)
Before(tb, p, r) == {q \in Listed(tb, r) : Ahead(tb, q, p, r)}

LEMMA ListIsFinite ==
    ASSUME NEW tb, NEW r, Sound(tb, r)
    PROVE  /\ Listed(tb, r) \subseteq DOMAIN tb /\ IsFiniteSet(Listed(tb, r))
           /\ Cardinality(Listed(tb, r)) \in Nat
           /\ \A p : Skipped(tb, p, r) = Cardinality(Before(tb, p, r)) /\ Skipped(tb, p, r) \in Nat
<1>1. Listed(tb, r) \subseteq DOMAIN tb
  BY DEF Listed
<1>2. IsFiniteSet(Listed(tb, r))
  BY <1>1, ListingAssumption, FS_Subset DEF Sound
<1>3. \A p : Before(tb, p, r) \in SUBSET Listed(tb, r)
  BY DEF Before
<1>4. \A p : IsFiniteSet(Before(tb, p, r))
  BY <1>2, <1>3, FS_Subset
<1>5. \A p : Skipped(tb, p, r) = Cardinality(Before(tb, p, r))
  BY DEF Skipped, Before
<1>6. QED
  BY <1>1, <1>2, <1>4, <1>5, FS_CardinalityType

(* What is ahead is at a smaller position, so no two share one.            *)
LEMMA AheadIsSmaller ==
    ASSUME NEW tb, NEW r, Sound(tb, r), NEW p \in Listed(tb, r), NEW q \in Listed(tb, r),
           Ahead(tb, p, q, r)
    PROVE  Skipped(tb, p, r) < Skipped(tb, q, r)
<1>1. p \in DOMAIN tb /\ q \in DOMAIN tb /\ Listed(tb, r) \subseteq DOMAIN tb
  BY ListIsFinite
<1>2. Before(tb, p, r) \in SUBSET Before(tb, q, r)
  BY <1>1, AheadOrder DEF Before
<1>3. p \in Before(tb, q, r) /\ p \notin Before(tb, p, r)
  BY <1>1, AheadOrder DEF Before
<1>4. IsFiniteSet(Before(tb, q, r))
  BY ListIsFinite, FS_Subset, Before(tb, q, r) \in SUBSET Listed(tb, r) DEF Before
<1>5. /\ Cardinality(Before(tb, p, r)) <= Cardinality(Before(tb, q, r))
      /\ Cardinality(Before(tb, p, r)) # Cardinality(Before(tb, q, r))
  BY <1>2, <1>3, <1>4, FS_Subset
<1>6. QED
  BY <1>5, ListIsFinite

(* Positions are 0, 1, ... to the length of the list, one publication each.*)
LEMMA Positions ==
    ASSUME NEW tb, NEW r, Sound(tb, r)
    PROVE  LET L == Listed(tb, r)
           IN  /\ \A p \in L : Skipped(tb, p, r) \in 0 .. Cardinality(L) - 1
               /\ \A p \in L, q \in L : Skipped(tb, p, r) = Skipped(tb, q, r) => p = q
               /\ \A n \in 0 .. Cardinality(L) - 1 : \E p \in L : Skipped(tb, p, r) = n
<1> DEFINE L == Listed(tb, r)
           N == Cardinality(L)
           f == [p \in L |-> Skipped(tb, p, r)]
<1>1. L \subseteq DOMAIN tb /\ IsFiniteSet(L) /\ N \in Nat /\ \A p : Skipped(tb, p, r) \in Nat
  BY ListIsFinite
<1>2. ASSUME NEW p \in L PROVE Skipped(tb, p, r) \in 0 .. N - 1
  <2>1. Before(tb, p, r) \in SUBSET L /\ p \notin Before(tb, p, r)
    BY <1>1, AheadOrder DEF Before
  <2>2. Cardinality(Before(tb, p, r)) <= N /\ Cardinality(Before(tb, p, r)) # N
    BY <1>1, <2>1, FS_Subset
  <2>3. Skipped(tb, p, r) = Cardinality(Before(tb, p, r)) /\ Skipped(tb, p, r) \in Nat
    BY ListIsFinite
  <2>4. QED
    BY <1>1, <2>2, <2>3
<1>3. ASSUME NEW p \in L, NEW q \in L, Skipped(tb, p, r) = Skipped(tb, q, r)
      PROVE  p = q
  <2>1. SUFFICES ASSUME p # q PROVE FALSE
    OBVIOUS
  <2>2. Ahead(tb, p, q, r) \/ Ahead(tb, q, p, r)
    BY <1>1, <2>1, AheadOrder
  <2>3. Skipped(tb, p, r) < Skipped(tb, q, r) \/ Skipped(tb, q, r) < Skipped(tb, p, r)
    BY <2>2, AheadIsSmaller
  <2>4. QED
    BY <1>1, <1>3, <2>3
<1>4. f \in [L -> 0 .. N - 1] /\ \A p \in L : f[p] = Skipped(tb, p, r)
  BY <1>2
<1>5. f \in Injection(L, 0 .. N - 1)
  <2> HIDE DEF f
  <2>1. \A p \in L, q \in L : f[p] = f[q] => p = q
    BY <1>3, <1>4
  <2>2. QED
    BY <1>4, <2>1 DEF Injection, IsInjective
<1>6. IsFiniteSet(0 .. N - 1) /\ Cardinality(0 .. N - 1) = N
  BY <1>1, FS_Interval
<1>7. f \in Surjection(L, 0 .. N - 1)
  <2> HIDE DEF f
  <2>1. QED
    BY <1>5, <1>6, FS_Injection
<1>8. \A n \in 0 .. N - 1 : \E p \in L : Skipped(tb, p, r) = n
  <2> HIDE DEF f
  <2>1. \A n \in 0 .. N - 1 : \E p \in L : f[p] = n
    BY <1>7 DEF Surjection
  <2>2. QED
    BY <1>4, <2>1
<1>9. QED
  BY <1>2, <1>3, <1>8

-----------------------------------------------------------------------------
(* After an empty page there is nothing left of the list.                  *)
LEMMA EmptyPage ==
    ASSUME NEW tb, NEW r, Sound(tb, r), NEW start \in Nat, r.limit # 0, Page(tb, r, start) = {}
    PROVE  \A p \in Listed(tb, r) : Skipped(tb, p, r) < start
<1> DEFINE L == Listed(tb, r)
           N == Cardinality(L)
<1>1. N \in Nat /\ r.limit \in Nat
  BY ListIsFinite, ListingAssumption DEF Sound
<1>2. \A p \in L : Skipped(tb, p, r) \in 0 .. N - 1
  BY Positions
<1>3. ASSUME start < N PROVE FALSE
  <2>1. start \in 0 .. N - 1
    BY <1>1, <1>3
  <2>2. PICK p \in L : Skipped(tb, p, r) = start
    BY <2>1, Positions
  <2>3. Skipped(tb, p, r) \in start .. (start + r.limit) - 1
    BY <1>1, <2>2
  <2>4. QED
    BY <2>3 DEF Page
<1>4. N <= start
  BY <1>1, <1>3
<1>5. QED
  BY <1>1, <1>2, <1>4

(* A page is the interval of positions that Content-Range tells.           *)
LEMMA PageSpan ==
    ASSUME NEW tb, NEW r, Sound(tb, r), NEW start \in Nat, Page(tb, r, start) # {}
    PROVE  LET size == Cardinality(Page(tb, r, start))
           IN  /\ size \in Nat \ {0} /\ r.limit # 0
               /\ Page(tb, r, start) = {p \in Listed(tb, r) :
                      start <= Skipped(tb, p, r) /\ Skipped(tb, p, r) < start + size}
<1> DEFINE L == Listed(tb, r)
           N == Cardinality(L)
           P == Page(tb, r, start)
           end == IF start + r.limit <= N THEN start + r.limit ELSE N
           f == [p \in P |-> Skipped(tb, p, r)]
<1>1. N \in Nat /\ r.limit \in Nat /\ IsFiniteSet(L)
  BY ListIsFinite, ListingAssumption DEF Sound
<1>2. \A p \in L : Skipped(tb, p, r) \in 0 .. N - 1
  BY Positions
<1>3. P \in SUBSET L /\ \A p \in L : p \in P <=> Skipped(tb, p, r) \in start .. (start + r.limit) - 1
  BY DEF Page
<1>4. \A p \in L : p \in P <=> Skipped(tb, p, r) \in start .. end - 1
  BY <1>1, <1>2, <1>3
<1>5. end \in Nat /\ start < end /\ end <= N /\ r.limit # 0
  BY <1>1, <1>2, <1>3
<1>6. f \in Bijection(P, start .. end - 1)
  <2>1. f \in [P -> start .. end - 1] /\ \A p \in P : f[p] = Skipped(tb, p, r)
    BY <1>3, <1>4
  <2> HIDE DEF f
  <2>2. \A p \in P, q \in P : f[p] = f[q] => p = q
    BY <1>3, <2>1, Positions
  <2>3. ASSUME NEW n \in start .. end - 1 PROVE \E p \in P : f[p] = n
    <3>1. n \in 0 .. N - 1
      BY <1>1, <1>5
    <3>2. PICK p \in L : Skipped(tb, p, r) = n
      BY <3>1, Positions
    <3>3. p \in P
      BY <1>4, <3>2
    <3>4. QED
      BY <2>1, <3>2, <3>3
  <2>4. QED
    BY <2>1, <2>2, <2>3 DEF Bijection, Injection, Surjection, IsInjective
<1>7. IsFiniteSet(P)
  BY <1>1, <1>3, FS_Subset
<1>8. Cardinality(start .. end - 1) = Cardinality(P)
  BY <1>6, <1>7, FS_Bijection DEF ExistsBijection
<1>9. Cardinality(P) = end - start
  <2> HIDE DEF end
  <2>1. Cardinality(start .. end - 1) = end - start
    BY <1>5, FS_Interval
  <2>2. QED
    BY <1>8, <2>1
<1>10. \A p \in L : p \in P <=> start <= Skipped(tb, p, r) /\ Skipped(tb, p, r) < start + Cardinality(P)
  <2> HIDE DEF end, P
  <2>1. start + Cardinality(P) = end
    BY <1>5, <1>9
  <2>2. QED
    BY <1>2, <1>4, <1>5, <2>1
<1>11. QED
  BY <1>3, <1>5, <1>9, <1>10
-----------------------------------------------------------------------------
(* A change of publication p that takes nobody from the list and does not  *)
(* make p older moves no other publication to the front, if publications   *)
(* are ordered by last change or by name.                                  *)
LEMMA NobodyAdvances ==
    ASSUME NEW tb, NEW new, NEW r, Sound(tb, r), Sound(new, r), NEW p,
           OrderBy(r) \in {None, "last_change"},
           Listed(tb, r) \subseteq Listed(new, r),
           \A q \in DOMAIN tb \ {p} : q \in DOMAIN new /\ new[q] = tb[q],
           p \in DOMAIN tb \cap DOMAIN new =>
               \/ new[p].updated_at = tb[p].updated_at
               \/ \A q \in DOMAIN tb : tb[q].updated_at < new[p].updated_at,
           NEW q \in Listed(tb, r) \ {p}
    PROVE  Skipped(tb, q, r) <= Skipped(new, q, r)
<1>1. q \in DOMAIN tb /\ q \in DOMAIN new /\ new[q] = tb[q] /\ Listed(tb, r) \subseteq DOMAIN tb
  BY ListIsFinite
<1>2. ASSUME NEW s \in Listed(tb, r), Ahead(tb, s, q, r)
      PROVE  Ahead(new, s, q, r)
  <2>1. s \in DOMAIN tb /\ s \in DOMAIN new
    BY <1>1, ListIsFinite
  <2>2. tb[s] \in Rows /\ tb[q] \in Rows /\ new[s] \in Rows
    BY <1>1, <2>1 DEF Sound
  <2>3. tb[s].updated_at \in Nat /\ tb[q].updated_at \in Nat /\ new[s].updated_at \in Nat
    BY <2>2 DEF Rows
  <2>4. new[s].updated_at = tb[s].updated_at \/ tb[q].updated_at < new[s].updated_at
    BY <1>1, <2>1
  <2>5. CASE OrderBy(r) = "last_change"
    BY <1>1, <1>2, <2>3, <2>4, <2>5 DEF Ahead, Precedes, ByContent
  <2>6. CASE OrderBy(r) = None
    BY <1>2, <2>6 DEF Ahead, Precedes, ByContent, None
  <2>7. QED
    BY <2>5, <2>6
<1>3. Before(tb, q, r) \in SUBSET Before(new, q, r)
  BY <1>2 DEF Before
<1>4. IsFiniteSet(Before(new, q, r))
  BY ListIsFinite, FS_Subset, Before(new, q, r) \in SUBSET Listed(new, r) DEF Before
<1>5. QED
  BY <1>3, <1>4, FS_Subset, ListIsFinite

-----------------------------------------------------------------------------
(* Types.  Rows are older than current_timestamp, and whoever is given     *)
(* pages asks for what GET does not refuse.                                *)
Recorded ==
    /\ DOMAIN table \subseteq Publications /\ table \in [DOMAIN table -> Rows]
    /\ clock \in Nat /\ \A p \in DOMAIN table : table[p].updated_at < clock
    /\ editor.add \subseteq Names
    /\ editor = [at |-> editor.at, add |-> editor.add, remove |-> editor.remove]

WalkTypes ==
    /\ state \in {"idle", "query", "count", "response", "refused", "end"}
    /\ offset \in Nat /\ total \in Nat /\ content_range \in Nat \X Nat
    /\ seen \in [Publications -> Nat]
    /\ quiet \in BOOLEAN /\ left \in BOOLEAN
    /\ state \notin {"idle", "refused"} => request \in Requests /\ ~Refused(request)

(* Where the client is: at the first page, behind a page with another one  *)
(* perhaps to come, or behind the last one.                                *)
NoPage == <<0, 0>>

Begins   == state = "idle" \/ (state = "query" /\ content_range = NoPage)
Underway == state \in {"query", "response"} /\ content_range # NoPage
Through  == state \in {"count", "end"} \/ (state = "response" /\ content_range = NoPage)

Steps ==
    /\ state = "idle" => content_range = NoPage
    /\ state = "count" => page = {} /\ content_range = NoPage
    /\ state = "query" => offset = IF content_range = NoPage THEN request.offset ELSE content_range[2]
    /\ state = "response" => (page = {} <=> content_range = NoPage)
    /\ Begins => \A p \in Publications : seen[p] = 0

OnlyForward == ~left /\ OrderBy(request) \in {None, "last_change"}

(* Underway the positions of the publications that are due tell which of   *)
(* them have been given to the client.                                     *)
GivenSoFar ==
    LET L == Listed(table, request)
        given(p) == Skipped(table, p, request) < content_range[2]
    IN  Underway =>
        /\ request.limit # 0 /\ request.offset <= content_range[2]
        /\ due \subseteq L
        /\ quiet =>
              /\ total = Cardinality(L)
              /\ due = {p \in L : Skipped(table, p, request) >= request.offset}
              /\ \A p \in Publications : seen[p] = IF p \in due /\ given(p) THEN 1 ELSE 0
        /\ OnlyForward =>
              \A p \in due : seen[p] >= 1 \/ (~given(p) /\ content_range[2] < total)

GivenAll ==
    Through =>
        /\ quiet => \A p \in Publications : seen[p] = IF p \in due THEN 1 ELSE 0
        /\ OnlyForward => \A p \in due : seen[p] >= 1

IInv == Recorded /\ WalkTypes /\ Steps /\ GivenSoFar /\ GivenAll

LEMMA InitHolds == Init => IInv
<1> SUFFICES ASSUME Init PROVE IInv
  OBVIOUS
<1> USE DEF Init
<1>1. PICK tb \in Tables : table = tb
  OBVIOUS
<1>2. Cardinality(Publications) \in Nat
  BY ListingAssumption, FS_CardinalityType
<1>3. Recorded
  <2>1. DOMAIN tb \subseteq Publications /\ tb \in [DOMAIN tb -> Rows]
        /\ \A p \in DOMAIN tb : tb[p].updated_at <= Cardinality(Publications)
    BY ListingAssumption
  <2>2. \A p \in DOMAIN tb : tb[p].updated_at \in Nat
    BY <2>1 DEF Rows
  <2>3. clock \in Nat /\ \A p \in DOMAIN table : table[p].updated_at < clock
    BY <1>1, <1>2, <2>1, <2>2
  <2>4. editor.add \subseteq Names /\ editor = [at |-> editor.at, add |-> editor.add, remove |-> editor.remove]
    BY DEF NoEditor
  <2>5. QED
    BY <1>1, <2>1, <2>3, <2>4 DEF Recorded
<1>4. WalkTypes
  BY DEF WalkTypes
<1>5. Steps /\ GivenSoFar /\ GivenAll
  BY DEF Steps, GivenSoFar, GivenAll, Begins, Underway, Through, NoPage
<1>6. QED
  BY <1>3, <1>4, <1>5 DEF IInv
-----------------------------------------------------------------------------
(* A change of one publication, as the client on its way meets it.         *)
Change(p) ==
    /\ OnItsWay /\ UNCHANGED walk /\ Watched(p)
    /\ \A q \in DOMAIN table \ {p} : q \in DOMAIN table' /\ table'[q] = table[q]
    /\ p \in DOMAIN table \cap DOMAIN table' =>
           table'[p].updated_at = table[p].updated_at \/ table'[p].updated_at = clock

LEMMA ChangeKeeps ==
    ASSUME IInv, NEW p, Change(p), Recorded'
    PROVE  IInv'
<1>1. UNCHANGED <<request, state, offset, page, total, content_range, seen>>
  BY DEF Change, walk
<1>2. /\ due' = (due \ {p}) \cap Listed(table', request)
      /\ quiet' = FALSE
      /\ left' = (left \/ ~(Listed(table, request) \subseteq Listed(table', request)))
  BY DEF Change, Watched
<1>3. WalkTypes'
  BY <1>1, <1>2 DEF IInv, WalkTypes
<1>4. Steps'
  BY <1>1 DEF IInv, Steps, Begins
<1>5. /\ state \in {"query", "count", "response"} /\ request \in Requests /\ ~Refused(request)
      /\ total \in Nat /\ content_range[2] \in Nat
  BY DEF Change, OnItsWay, IInv, WalkTypes
<1>6. Sound(table, request) /\ Sound(table', request)
  BY <1>5 DEF Sound, IInv, Recorded
<1>7. GivenSoFar'
  <2>1. SUFFICES ASSUME Underway
                 PROVE  /\ request.limit # 0 /\ request.offset <= content_range[2]
                        /\ due' \subseteq Listed(table', request)
                        /\ OnlyForward' => \A q \in due' :
                              \/ seen[q] >= 1
                              \/ ~(Skipped(table', q, request) < content_range[2]) /\ content_range[2] < total
    BY <1>1, <1>2 DEF GivenSoFar, Underway, OnlyForward
  <2>2. /\ request.limit # 0 /\ request.offset <= content_range[2] /\ due \subseteq Listed(table, request)
        /\ OnlyForward => \A q \in due :
              \/ seen[q] >= 1
              \/ ~(Skipped(table, q, request) < content_range[2]) /\ content_range[2] < total
    BY <2>1 DEF IInv, GivenSoFar
  <2>3. ASSUME OnlyForward', NEW q \in due'
        PROVE  \/ seen[q] >= 1
               \/ ~(Skipped(table', q, request) < content_range[2]) /\ content_range[2] < total
    <3>1. OnlyForward /\ Listed(table, request) \subseteq Listed(table', request)
      BY <1>1, <1>2, <2>3 DEF OnlyForward
    <3>2. q \in due /\ q \in Listed(table, request) \ {p}
      BY <1>2, <2>2
    <3>3. p \in DOMAIN table \cap DOMAIN table' =>
              \/ table'[p].updated_at = table[p].updated_at
              \/ \A s \in DOMAIN table : table[s].updated_at < table'[p].updated_at
      BY DEF Change, IInv, Recorded
    <3>4. \A s \in DOMAIN table \ {p} : s \in DOMAIN table' /\ table'[s] = table[s]
      BY DEF Change
    <3>5. OrderBy(request) \in {None, "last_change"}
      BY <3>1 DEF OnlyForward
    <3>6. Skipped(table, q, request) <= Skipped(table', q, request)
      BY <1>6, <3>1, <3>2, <3>3, <3>4, <3>5, NobodyAdvances
    <3>7. Skipped(table, q, request) \in Nat /\ Skipped(table', q, request) \in Nat
      BY <1>6, ListIsFinite
    <3>8. QED
      BY <1>5, <2>2, <3>1, <3>2, <3>6, <3>7
  <2>4. QED
    BY <1>2, <2>2, <2>3
<1>8. GivenAll'
  BY <1>1, <1>2 DEF IInv, GivenAll, Through, OnlyForward
<1>9. QED
  BY <1>3, <1>4, <1>7, <1>8 DEF IInv

-----------------------------------------------------------------------------
LEMMA GetKeeps ==
    ASSUME IInv, NEW r \in Requests, Get(r)
    PROVE  IInv'
<1> USE DEF Get
<1>1. /\ state = "idle" /\ content_range' = NoPage /\ request' = r /\ offset' = r.offset
      /\ state' \in {"refused", "query"} /\ (state' = "query" => ~Refused(r))
      /\ \A p \in Publications : seen'[p] = 0
  BY DEF IInv, Steps, Begins
<1>2. Recorded'
  BY DEF IInv, Recorded
<1>3. WalkTypes'
  BY <1>1, ListingAssumption DEF IInv, WalkTypes
<1>4. Steps' /\ GivenSoFar' /\ GivenAll'
  BY <1>1 DEF Steps, GivenSoFar, GivenAll, Begins, Underway, Through
<1>5. QED
  BY <1>2, <1>3, <1>4 DEF IInv

(* A page is given of what is due next: what was given before is ahead of  *)
(* the offset.                                                             *)
LEMMA QueryKeeps ==
    ASSUME IInv, Query
    PROVE  IInv'
<1> USE DEF Query
<1> DEFINE L == Listed(table, request)
           S(p) == Skipped(table, p, request)
<1>1. /\ state = "query" /\ request \in Requests /\ ~Refused(request)
      /\ offset \in Nat /\ request.offset \in Nat /\ total \in Nat
      /\ seen \in [Publications -> Nat] /\ content_range \in Nat \X Nat
      /\ quiet \in BOOLEAN /\ left \in BOOLEAN
      /\ UNCHANGED <<table, clock, editor, request, offset>>
  BY ListingAssumption DEF IInv, WalkTypes
<1>2. Sound(table, request)
  BY <1>1 DEF Sound, IInv, Recorded
<1>3. /\ L \subseteq Publications /\ \A p : S(p) \in Nat
      /\ Cardinality(L) \in Nat /\ \A p \in L : S(p) < Cardinality(L)
  BY <1>2, ListIsFinite, Positions DEF Sound
<1>4. offset = IF content_range = NoPage THEN request.offset ELSE content_range[2]
  BY <1>1 DEF IInv, Steps
<1>5. /\ page' = Page(table, request, offset) /\ page' \subseteq L
      /\ seen' \in [Publications -> Nat]
      /\ \A p \in Publications : seen'[p] = seen[p] + (IF p \in page' THEN 1 ELSE 0)
  BY <1>1 DEF Page
(* What is due before the page is given, also if it is the first one.      *)
<1>6. /\ request.offset <= offset /\ due' \subseteq L
      /\ request.limit = 0 => due' = {}
      /\ quiet' \in BOOLEAN /\ left' \in BOOLEAN
      /\ quiet' =>
            /\ request.limit # 0 => due' = {p \in L : S(p) >= request.offset}
            /\ \A p \in Publications : seen[p] = IF p \in due' /\ S(p) < offset THEN 1 ELSE 0
      /\ OnlyForward' => \A p \in due' : seen[p] >= 1 \/ ~(S(p) < offset)
  <2>1. CASE content_range = NoPage
    <3>1. /\ offset = request.offset
          /\ due' = IF request.limit = 0 THEN {} ELSE {p \in L : S(p) >= offset}
          /\ quiet' = TRUE /\ left' = FALSE
      BY <1>4, <2>1 DEF NoPage
    <3>2. \A p \in Publications : seen[p] = 0
      BY <1>1, <2>1 DEF IInv, Steps, Begins
    <3>3. \A p \in due' : ~(S(p) < offset)
      BY <1>1, <1>3, <3>1
    <3>4. \A p \in Publications : seen[p] = IF p \in due' /\ S(p) < offset THEN 1 ELSE 0
      BY <3>2, <3>3
    <3>5. request.offset <= offset /\ due' \subseteq L
      BY <1>1, <3>1
    <3>6. QED
      BY <3>1, <3>3, <3>4, <3>5
  <2>2. CASE content_range # NoPage
    <3>1. UNCHANGED <<due, quiet, left>> /\ offset = content_range[2]
      BY <1>4, <2>2 DEF NoPage
    <3>2. Underway
      BY <1>1, <2>2 DEF Underway
    <3>3. /\ request.limit # 0 /\ request.offset <= offset /\ due \subseteq L
          /\ quiet => /\ due = {p \in L : S(p) >= request.offset}
                      /\ \A p \in Publications : seen[p] = IF p \in due /\ S(p) < offset THEN 1 ELSE 0
          /\ OnlyForward => \A p \in due : seen[p] >= 1 \/ ~(S(p) < offset)
      BY <3>1, <3>2 DEF IInv, GivenSoFar
    <3>4. QED
      BY <1>1, <3>1, <3>3 DEF OnlyForward
  <2>3. QED
    BY <2>1, <2>2
<1>7. CASE page' = {}
  <2>1. state' = "count" /\ content_range' = NoPage /\ seen' = seen
    BY <1>1, <1>5, <1>7 DEF NoPage
  <2>2. \A p \in due' : S(p) < offset
    BY <1>1, <1>2, <1>5, <1>6, <1>7, EmptyPage
  <2>3. WalkTypes'
    BY <1>1, <1>5, <1>6, <1>7, <2>1 DEF WalkTypes, NoPage
  <2>4. Recorded' /\ Steps' /\ GivenSoFar'
    BY <1>1, <2>1 DEF IInv, Recorded, Steps, GivenSoFar, Begins, Underway
  <2>5. GivenAll'
    <3>1. quiet' => \A p \in Publications : seen'[p] = IF p \in due' THEN 1 ELSE 0
      BY <1>6, <2>1, <2>2
    <3>2. OnlyForward' => \A p \in due' : seen'[p] >= 1
      BY <1>6, <2>1, <2>2
    <3>3. QED
      BY <3>1, <3>2 DEF GivenAll
  <2>6. QED
    BY <2>3, <2>4, <2>5 DEF IInv
<1>8. CASE page' # {}
  <2> DEFINE size == Cardinality(page')
  <2>1. /\ size \in Nat \ {0} /\ request.limit # 0
        /\ page' = {p \in L : offset <= S(p) /\ S(p) < offset + size}
    <3>1. Page(table, request, offset) # {}
      BY <1>5, <1>8
    <3>2. LET n == Cardinality(Page(table, request, offset))
          IN  /\ n \in Nat \ {0} /\ request.limit # 0
              /\ Page(table, request, offset) = {p \in L : offset <= S(p) /\ S(p) < offset + n}
      BY <1>1, <1>2, <3>1, PageSpan
    <3>3. QED
      BY <1>5, <3>2
  <2>2. /\ state' = "response" /\ total' = Cardinality(L)
        /\ content_range' = <<offset + 1, offset + size>>
    BY <1>1, <1>8
  <2> HIDE DEF size
  <2>3. /\ content_range' \in Nat \X Nat /\ content_range'[2] = offset + size
        /\ content_range' # NoPage
    BY <1>1, <2>1, <2>2 DEF NoPage
  <2>4. WalkTypes'
    BY <1>1, <1>3, <1>5, <1>6, <2>2, <2>3 DEF WalkTypes
  <2>5. Recorded' /\ Steps' /\ GivenAll'
    BY <1>1, <1>8, <2>2, <2>3 DEF IInv, Recorded, Steps, GivenAll, Begins, Through
  <2>6. GivenSoFar'
    <3>1. request.offset <= offset + size
      BY <1>1, <1>6, <2>1
    <3>2. quiet' =>
              /\ due' = {p \in L : S(p) >= request.offset}
              /\ \A p \in Publications : seen'[p] = IF p \in due' /\ S(p) < offset + size THEN 1 ELSE 0
      <4>1. SUFFICES ASSUME quiet', NEW p \in Publications
                     PROVE  seen'[p] = IF p \in due' /\ S(p) < offset + size THEN 1 ELSE 0
        BY <1>6, <2>1
      <4>2. /\ p \in due' <=> p \in L /\ S(p) >= request.offset
            /\ seen[p] = IF p \in due' /\ S(p) < offset THEN 1 ELSE 0
        BY <1>6, <2>1, <4>1
      <4>3. p \in page' <=> p \in L /\ offset <= S(p) /\ S(p) < offset + size
        BY <2>1
      <4>4. seen'[p] = seen[p] + (IF p \in page' THEN 1 ELSE 0)
        BY <1>5
      <4>5. S(p) \in Nat
        BY <1>3
      <4> HIDE DEF L, S
      <4>6. QED
        BY <1>1, <1>6, <2>1, <4>2, <4>3, <4>4, <4>5
    <3>3. OnlyForward' => \A p \in due' :
              seen'[p] >= 1 \/ (~(S(p) < offset + size) /\ offset + size < total')
      <4>1. SUFFICES ASSUME OnlyForward', NEW p \in due'
                     PROVE  seen'[p] >= 1 \/ (~(S(p) < offset + size) /\ offset + size < total')
        OBVIOUS
      <4>2. /\ p \in L /\ p \in Publications /\ S(p) \in Nat /\ S(p) < Cardinality(L)
            /\ seen[p] >= 1 \/ ~(S(p) < offset)
        BY <1>3, <1>6, <4>1
      <4>3. p \in page' <=> offset <= S(p) /\ S(p) < offset + size
        BY <2>1, <4>2
      <4>4. seen[p] \in Nat /\ seen'[p] = seen[p] + (IF p \in page' THEN 1 ELSE 0)
        BY <1>1, <1>5, <4>2
      <4> HIDE DEF L, S
      <4>5. QED
        BY <1>1, <1>3, <2>1, <2>2, <4>2, <4>3, <4>4
    <3>4. QED
      BY <1>1, <1>6, <2>1, <2>2, <2>3, <3>1, <3>2, <3>3 DEF GivenSoFar
  <2>7. QED
    BY <2>4, <2>5, <2>6 DEF IInv
<1>9. QED
  BY <1>7, <1>8

LEMMA CountKeeps ==
    ASSUME IInv, Count
    PROVE  IInv'
<1> USE DEF Count
<1>1. state = "count" /\ state' = "response" /\ request \in Requests /\ ~Refused(request)
  BY DEF IInv, WalkTypes
<1>2. total' \in Nat
  BY <1>1, ListIsFinite DEF Sound, IInv, Recorded
<1>3. Recorded' /\ WalkTypes'
  BY <1>1, <1>2 DEF IInv, Recorded, WalkTypes
<1>4. Steps'
  BY <1>1 DEF IInv, Steps, Begins
<1>5. content_range = NoPage /\ content_range' = NoPage
  BY <1>1 DEF IInv, Steps
<1>6. GivenSoFar' /\ GivenAll'
  BY <1>1, <1>5 DEF IInv, GivenSoFar, GivenAll, Underway, Through, OnlyForward
<1>7. QED
  BY <1>3, <1>4, <1>6 DEF IInv

(* The client ends behind the last position of the list as it was when he  *)
(* got the page.                                                           *)
LEMMA ContinueKeeps ==
    ASSUME IInv, Continue
    PROVE  IInv'
<1> USE DEF Continue
<1>1. /\ state = "response" /\ state' \in {"query", "end"} /\ request \in Requests /\ ~Refused(request)
      /\ total \in Nat /\ content_range \in Nat \X Nat /\ (page = {} <=> content_range = NoPage)
      /\ offset' \in Nat
  BY DEF IInv, WalkTypes, Steps
<1>2. /\ UNCHANGED <<table, clock, editor, request, page, total, content_range, seen, due, quiet, left>>
  OBVIOUS
<1>3. Recorded' /\ WalkTypes'
  BY <1>1, <1>2 DEF IInv, Recorded, WalkTypes
<1>4. Sound(table, request)
  BY <1>1 DEF Sound, IInv, Recorded
<1>5. state' = "query" => content_range # NoPage /\ offset' = content_range[2]
  BY <1>1
<1>6. Steps'
  BY <1>1, <1>2, <1>5 DEF Steps, Begins
<1>7. GivenSoFar'
  BY <1>1, <1>2 DEF IInv, GivenSoFar, Underway, OnlyForward
<1>8. GivenAll'
  <2>1. SUFFICES ASSUME state' = "end"
                 PROVE  /\ quiet => \A p \in Publications : seen[p] = IF p \in due THEN 1 ELSE 0
                        /\ OnlyForward => \A p \in due : seen[p] >= 1
    BY <1>1, <1>2, <1>5 DEF GivenAll, Through, OnlyForward
  <2>2. CASE content_range = NoPage
    BY <1>1, <2>2 DEF IInv, GivenAll, Through
  <2>3. CASE content_range # NoPage
    <3>1. Underway /\ content_range[2] >= total
      BY <1>1, <2>1, <2>3 DEF Underway
    <3>2. quiet => /\ total = Cardinality(Listed(table, request))
                   /\ due \subseteq Listed(table, request)
                   /\ \A p \in Publications : seen[p] =
                          IF p \in due /\ Skipped(table, p, request) < content_range[2] THEN 1 ELSE 0
      BY <3>1 DEF IInv, GivenSoFar
    <3>3. \A p \in Listed(table, request) :
              Skipped(table, p, request) \in 0 .. Cardinality(Listed(table, request)) - 1
      BY <1>4, Positions
    <3>4. quiet => \A p \in due : Skipped(table, p, request) < content_range[2]
      BY <1>1, <1>4, <3>1, <3>2, <3>3, ListIsFinite
    <3>5. OnlyForward => \A p \in due : seen[p] >= 1
      BY <1>1, <3>1 DEF IInv, GivenSoFar
    <3>6. QED
      BY <3>2, <3>4, <3>5
  <2>4. QED
    BY <2>2, <2>3
<1>9. QED
  BY <1>3, <1>6, <1>7, <1>8 DEF IInv
-----------------------------------------------------------------------------
(* A row written to table publications.                                    *)
LEMMA RowWritten ==
    ASSUME IInv, OnItsWay, UNCHANGED walk, NEW p \in Publications, NEW row \in Rows,
           table' = With(p, row), Watched(p),
           \/ row.updated_at = clock /\ clock' = clock + 1
           \/ p \in DOMAIN table /\ row.updated_at = table[p].updated_at /\ clock' = clock,
           editor'.add \subseteq Names,
           editor' = [at |-> editor'.at, add |-> editor'.add, remove |-> editor'.remove]
    PROVE  IInv'
<1>1. /\ DOMAIN table \subseteq Publications /\ table \in [DOMAIN table -> Rows]
      /\ clock \in Nat /\ \A q \in DOMAIN table : table[q].updated_at < clock
  BY DEF IInv, Recorded
<1>2. /\ DOMAIN table' = DOMAIN table \cup {p} /\ table'[p] = row
      /\ \A q \in DOMAIN table \ {p} : table'[q] = table[q]
      /\ table' = [q \in DOMAIN table' |-> table'[q]]
  BY DEF With
<1>3. DOMAIN table' \subseteq Publications /\ \A q \in DOMAIN table' : table'[q] \in Rows
  BY <1>1, <1>2
<1>4. table' \in [DOMAIN table' -> Rows]
  BY <1>2, <1>3
<1>5. \A q \in DOMAIN table' : table'[q].updated_at \in Nat
  BY <1>3 DEF Rows
<1>6. clock' \in Nat /\ \A q \in DOMAIN table' : table'[q].updated_at < clock'
  BY <1>1, <1>2, <1>5
<1>7. Recorded'
  BY <1>3, <1>4, <1>6 DEF Recorded
<1>8. Change(p)
  BY <1>2 DEF Change
<1>9. QED
  BY <1>7, <1>8, ChangeKeeps

LEMMA InsertKeeps ==
    ASSUME IInv, NEW p \in Publications, NEW title \in Titles, NEW readers \in Lists,
           insert_publication(p, title, readers)
    PROVE  IInv'
<1> DEFINE row == Row(title, readers \cap {Everyone}, {}, clock)
<1>1. readers \subseteq Names /\ clock \in Nat
  BY ListingAssumption DEF IInv, Recorded
<1>2. row \in Rows /\ row.updated_at = clock
  BY <1>1 DEF Row, Rows
<1>3. /\ editor'.add \subseteq Names
      /\ editor' = [at |-> editor'.at, add |-> editor'.add, remove |-> editor'.remove]
  BY <1>1 DEF insert_publication
<1>4. OnItsWay /\ UNCHANGED walk /\ table' = With(p, row) /\ Watched(p) /\ clock' = clock + 1
  BY DEF insert_publication, Changed
<1> HIDE DEF row
<1>5. QED
  BY <1>2, <1>3, <1>4, RowWritten

LEMMA UpdateKeeps ==
    ASSUME IInv, NEW p \in Publications, NEW title \in Titles, NEW readers \in Lists,
           update_publication(p, title, readers)
    PROVE  IInv'
<1> DEFINE public == Everyone \in readers
           row == [table[p] EXCEPT !.title = title, !.everyone = public, !.updated_at = clock]
<1>1. readers \subseteq Names /\ clock \in Nat /\ table[p] \in Rows
  BY ListingAssumption DEF IInv, Recorded, update_publication
<1>2. row \in Rows /\ row.updated_at = clock
  <2>1. public \in BOOLEAN
    OBVIOUS
  <2> HIDE DEF public
  <2>2. QED
    BY <1>1, <2>1 DEF Rows
<1>3. /\ editor'.add \subseteq Names
      /\ editor' = [at |-> editor'.at, add |-> editor'.add, remove |-> editor'.remove]
  BY <1>1 DEF update_publication
<1>4. OnItsWay /\ UNCHANGED walk /\ table' = With(p, row) /\ Watched(p) /\ clock' = clock + 1
  BY DEF update_publication, Changed
<1> HIDE DEF row
<1>5. QED
  BY <1>2, <1>3, <1>4, RowWritten

LEMMA BoxKeeps ==
    ASSUME IInv, NEW p \in Publications, NEW box \in Boxes, set_bbox(p, box)
    PROVE  IInv'
<1> DEFINE row == [table[p] EXCEPT !.bbox = box]
<1>1. p \in DOMAIN table /\ table[p] \in Rows
  BY DEF IInv, Recorded, set_bbox
<1>2. row \in Rows /\ row.updated_at = table[p].updated_at
  BY <1>1 DEF Rows
<1>3. /\ editor'.add \subseteq Names
      /\ editor' = [at |-> editor'.at, add |-> editor'.add, remove |-> editor'.remove]
  BY DEF IInv, Recorded, set_bbox
<1>4. OnItsWay /\ UNCHANGED walk /\ table' = With(p, row) /\ Watched(p) /\ clock' = clock
  BY DEF set_bbox, Changed
<1> HIDE DEF row
<1>5. QED
  BY <1>1, <1>2, <1>3, <1>4, RowWritten

LEMMA DeleteKeeps ==
    ASSUME IInv, NEW p \in Publications, delete_publication(p)
    PROVE  IInv'
<1> DEFINE row == [table[p] EXCEPT !.rights = {}]
<1>1. p \in DOMAIN table /\ table[p] \in Rows
  BY DEF IInv, Recorded, delete_publication
<1>2. row \in Rows /\ row.updated_at = table[p].updated_at
  BY <1>1 DEF Rows
<1>3. /\ editor'.add \subseteq Names
      /\ editor' = [at |-> editor'.at, add |-> editor'.add, remove |-> editor'.remove]
  BY DEF delete_publication
<1>4. OnItsWay /\ UNCHANGED walk /\ table' = With(p, row) /\ Watched(p) /\ clock' = clock
  BY DEF delete_publication, Changed
<1> HIDE DEF row
<1>5. QED
  BY <1>1, <1>2, <1>3, <1>4, RowWritten

LEMMA DeleteRowKeeps ==
    ASSUME IInv, delete_row
    PROVE  IInv'
<1> USE DEF delete_row
<1>1. /\ DOMAIN table' = DOMAIN table \ {editor.at}
      /\ \A q \in DOMAIN table' : table'[q] = table[q]
      /\ table' = [q \in DOMAIN table' |-> table'[q]]
  OBVIOUS
<1>2. Recorded'
  <2>1. table' \in [DOMAIN table' -> Rows]
    BY <1>1 DEF IInv, Recorded
  <2>2. QED
    BY <1>1, <2>1 DEF IInv, Recorded, NoEditor
<1>3. Change(editor.at)
  BY <1>1 DEF Change
<1>4. QED
  BY <1>2, <1>3, ChangeKeeps

(* A row of table rights inserted or deleted.                              *)
LEMMA RightsWritten ==
    ASSUME IInv, OnItsWay, UNCHANGED <<clock, walk>>, Watched(editor.at),
           NEW rights, editor.at \in DOMAIN table => rights \in SUBSET Names,
           table' = [table EXCEPT ![editor.at].rights = rights],
           editor'.add \subseteq Names,
           editor' = [at |-> editor'.at, add |-> editor'.add, remove |-> editor'.remove]
    PROVE  IInv'
<1>1. /\ DOMAIN table' = DOMAIN table /\ \A q \in DOMAIN table \ {editor.at} : table'[q] = table[q]
      /\ editor.at \in DOMAIN table => table'[editor.at] = [table[editor.at] EXCEPT !.rights = rights]
      /\ table' = [q \in DOMAIN table' |-> table'[q]]
  OBVIOUS
<1>2. \A q \in DOMAIN table : table[q] \in Rows
  BY DEF IInv, Recorded
<1>3. \A q \in DOMAIN table : table'[q] \in Rows /\ table'[q].updated_at = table[q].updated_at
  BY <1>1, <1>2 DEF Rows
<1>4. table' \in [DOMAIN table' -> Rows]
  BY <1>1, <1>3
<1>5. Recorded'
  BY <1>1, <1>3, <1>4 DEF IInv, Recorded
<1>6. Change(editor.at)
  BY <1>1, <1>3 DEF Change
<1>7. QED
  BY <1>5, <1>6, ChangeKeeps

LEMMA InsertRightsKeeps ==
    ASSUME IInv, insert_rights
    PROVE  IInv'
<1>1. PICK name \in editor.add :
          /\ table' = [table EXCEPT ![editor.at].rights = @ \cup {name}]
          /\ editor' = [editor EXCEPT !.add = @ \ {name}]
          /\ Watched(editor.at) /\ UNCHANGED <<clock, walk>>
  BY DEF insert_rights
<1>2. OnItsWay
  BY DEF insert_rights
<1>3. /\ editor.add \subseteq Names /\ editor = [at |-> editor.at, add |-> editor.add, remove |-> editor.remove]
      /\ editor.at \in DOMAIN table => table[editor.at] \in Rows
  BY DEF IInv, Recorded
<1>4. editor' = [at |-> editor'.at, add |-> editor'.add, remove |-> editor'.remove] /\ editor'.add \subseteq Names
  BY <1>1, <1>3
<1> DEFINE rights == table[editor.at].rights \cup {name}
<1>5. table' = [table EXCEPT ![editor.at].rights = rights]
  BY <1>1
<1>6. editor.at \in DOMAIN table => rights \in SUBSET Names
  BY <1>1, <1>3 DEF Rows
<1> HIDE DEF rights
<1>7. QED
  BY <1>1, <1>2, <1>4, <1>5, <1>6, RightsWritten

LEMMA RemoveRightsKeeps ==
    ASSUME IInv, remove_rights
    PROVE  IInv'
<1>1. PICK name \in editor.remove \ {Everyone} :
          /\ table' = [table EXCEPT ![editor.at].rights = @ \ {name}]
          /\ editor' = [editor EXCEPT !.remove = @ \ {name}]
          /\ Watched(editor.at) /\ UNCHANGED <<clock, walk>>
  BY DEF remove_rights
<1>2. OnItsWay
  BY DEF remove_rights
<1>3. /\ editor.add \subseteq Names /\ editor = [at |-> editor.at, add |-> editor.add, remove |-> editor.remove]
      /\ editor.at \in DOMAIN table => table[editor.at] \in Rows
  BY DEF IInv, Recorded
<1>4. editor' = [at |-> editor'.at, add |-> editor'.add, remove |-> editor'.remove] /\ editor'.add \subseteq Names
  BY <1>1, <1>3
<1> DEFINE rights == table[editor.at].rights \ {name}
<1>5. table' = [table EXCEPT ![editor.at].rights = rights]
  BY <1>1
<1>6. editor.at \in DOMAIN table => rights \in SUBSET Names
  BY <1>3 DEF Rows
<1> HIDE DEF rights
<1>7. QED
  BY <1>1, <1>2, <1>4, <1>5, <1>6, RightsWritten

LEMMA EditorEndsKeeps ==
    ASSUME IInv, EditorEnds
    PROVE  IInv'
<1> USE DEF EditorEnds
<1>1. UNCHANGED <<table, clock, request, state, offset, page, total, content_range, seen, due, quiet, left>>
  BY DEF walk
<1>2. Recorded'
  BY <1>1 DEF IInv, Recorded, NoEditor
<1>3. WalkTypes' /\ Steps'
  BY <1>1 DEF IInv, WalkTypes, Steps, Begins
<1>4. GivenSoFar' /\ GivenAll'
  BY <1>1 DEF IInv, GivenSoFar, GivenAll, Underway, Through, OnlyForward
<1>5. QED
  BY <1>2, <1>3, <1>4 DEF IInv

LEMMA StepKeeps == IInv /\ [Next]_vars => IInv'
<1> SUFFICES ASSUME IInv, [Next]_vars PROVE IInv'
  OBVIOUS
<1>1. CASE \E r \in Requests : Get(r)
  BY <1>1, GetKeeps
<1>2. CASE Query
  BY <1>2, QueryKeeps
<1>3. CASE Count
  BY <1>3, CountKeeps
<1>4. CASE Continue
  BY <1>4, ContinueKeeps
<1>5. CASE \E p \in Publications, title \in Titles, readers \in Lists :
               insert_publication(p, title, readers) \/ update_publication(p, title, readers)
  BY <1>5, InsertKeeps, UpdateKeeps
<1>6. CASE \E p \in Publications, box \in Boxes : set_bbox(p, box)
  BY <1>6, BoxKeeps
<1>7. CASE \E p \in Publications : delete_publication(p)
  BY <1>7, DeleteKeeps
<1>8. CASE delete_row
  BY <1>8, DeleteRowKeeps
<1>9. CASE insert_rights
  BY <1>9, InsertRightsKeeps
<1>10. CASE remove_rights
  BY <1>10, RemoveRightsKeeps
<1>11. CASE EditorEnds
  BY <1>11, EditorEndsKeeps
<1>12. CASE UNCHANGED vars
  <2>1. UNCHANGED <<table, clock, editor, request, state, offset, page, total, content_range, seen, due, quiet, left>>
    BY <1>12 DEF vars, walk
  <2>2. Recorded' /\ WalkTypes' /\ Steps'
    BY <2>1 DEF IInv, Recorded, WalkTypes, Steps, Begins
  <2>3. GivenSoFar' /\ GivenAll'
    BY <2>1 DEF IInv, GivenSoFar, GivenAll, Underway, Through, OnlyForward
  <2>4. QED
    BY <2>2, <2>3 DEF IInv
<1>13. QED
  BY <1>1, <1>2, <1>3, <1>4, <1>5, <1>6, <1>7, <1>8, <1>9, <1>10, <1>11, <1>12 DEF Next

(* Whoever goes through all the pages of GET by header Content-Range       *)
(* (get_bare_publications of layman/common/rest.py, get_publication_infos  *)
(* of publications.py) has been given every publication that was listed    *)
(* for him from the first page on, exactly once if nothing has changed and *)
(* at least once if nothing has left the list and what changes moves to    *)
(* the front, for all publications, tables, requests and changes.          *)
THEOREM PagesHold == Spec => []ListedWhole
<1>1. IInv => ListedWhole
  BY DEF IInv, GivenAll, Through, OnlyForward, ListedWhole
<1>2. QED
  BY <1>1, InitHolds, StepKeeps, PTL DEF Spec

-----------------------------------------------------------------------------
(* GET of a publication: types.                                            *)

TaskStates == {"PENDING", "STARTED", "SUCCESS", "FAILURE", "ABORTED"}
Results    == [Keys -> TaskStates]
ChainInfo  == [id : Nat, finished : BOOLEAN, state : {"PENDING", "SUCCESS", "FAILURE", "ABORTED"}]
Statuses   == [Keys -> TaskStates \cup {"", "NOT_AVAILABLE"}]

Pcs == {"idle", "chain", "wait", "lock", "ready", "sources", "states", "tasks", "answered", "raised"}

RequestTypes ==
    /\ source \in [Keys -> Nat] /\ lock \in {"", "request", "chain"}
    /\ chain_info \in ChainInfo /\ results \in Seq(Results) /\ chain_info.id <= Len(results)
    /\ from \in Keys /\ begun \in BOOLEAN /\ requests \in Nat
    /\ task \in Keys \cup {0} /\ by \in Methods /\ abort \in Methods \cup {""}

GetTypes ==
    /\ pc \in Pcs /\ purpose \in {"before", "info", "after"} /\ key \in Keys
    /\ chain \in ChainInfo /\ chain.id <= Len(results)
    /\ lock_read \in BOOLEAN /\ failed \in BOOLEAN
    /\ before \in BOOLEAN /\ after \in BOOLEAN
    /\ info \in [Keys -> Nat] /\ status \in Statuses

-----------------------------------------------------------------------------
(* The inductive invariant.                                                *)

(* Tasks before the first one that failed were successful.                 *)
InOrder(r) == \A j, k \in Keys : j < k /\ r[k] = "FAILURE" => r[j] \in {"SUCCESS", "FAILURE"}

OrderOfTasks == \A id \in 1 .. Len(results) : InOrder(results[id])

(* A chain runs under its lock, or that of the DELETE that has aborted it, *)
(* until its end is recorded.                                              *)
Locked == lock = "chain" \/ (lock = "request" /\ abort = "delete")

LockOfChain ==
    /\ ~chain_info.finished => Locked
    /\ chain_info.finished <=> chain_info.state # "PENDING"

(* What celery knows of a chain that is over, as long as it does.          *)
Ended(r) == r[Last] = "SUCCESS" \/ (\E k \in Keys : r[k] = "FAILURE") \/ (\A k \in Keys : r[k] = "PENDING")

ChainOver == chain_info.finished => Ended(Result(chain_info.id))

(* What GET does and what it does it for.                                  *)
Progress ==
    /\ pc \in {"states", "tasks"} => purpose = "info"
    /\ pc = "answered" => purpose = "after" /\ after = before
    /\ pc = "idle" => purpose = "before"
    /\ failed => pc = "tasks"

(* GET has seen that nobody updates the publication, and none began to.    *)
LockSeen == ~begun /\ pc = "ready" /\ ~lock_read => lock = ""

Undisturbed == ~begun /\ ~before /\ (pc = "sources" \/ purpose # "before")

InfoSoFar == \A k \in Keys : (pc = "sources" => k < key) => info[k] = source[k]

StatusBefore == pc \in {"sources", "states"} \/ (purpose = "info" /\ pc # "tasks") => status = NoState

Unfinished == {"PENDING", "STARTED", "ABORTED"}

(* Of a chain that failed, each task is read; tasks before the failure     *)
(* were successful, and tasks behind it are not available.                 *)
StatusSoFar ==
    pc = "tasks" /\ ~Forgotten(chain) =>
        /\ \E k \in Keys : Result(chain.id)[k] = "FAILURE"
        /\ failed <=> \E j \in Keys : j < key /\ Result(chain.id)[j] = "FAILURE"
        /\ \A j \in Keys : status[j] \notin Unfinished

StatusAfter ==
    purpose = "after" /\ pc # "sources" =>
        \A k \in Keys : /\ ~Forgotten(chain_info) => status[k] \notin Unfinished
                        /\ info[k] = 0 => status[k] # ""

AnswerSoFar ==
    Undisturbed =>
        /\ lock = ""
        /\ pc \in {"states", "tasks"} => chain = chain_info
        /\ InfoSoFar /\ StatusBefore /\ StatusSoFar /\ StatusAfter

InfoInv ==
    /\ RequestTypes /\ GetTypes
    /\ OrderOfTasks /\ LockOfChain /\ ChainOver /\ Progress /\ LockSeen /\ AnswerSoFar

-----------------------------------------------------------------------------
(* Requests and tasks.                                                     *)

(* The next request has a number, too.                                     *)
LEMMA RequestsType == ASSUME InfoInv PROVE requests \in Nat /\ requests + 1 \in Nat
<1>1. requests \in Nat
  BY DEF InfoInv, RequestTypes
<1>. QED  BY <1>1

(* Keys are numbers; the first is 1.                                       *)
LEMMA KeysFacts == Last \in Nat \ {0} /\ Keys \subseteq Nat /\ 1 \in Keys /\ Last \in Keys
BY CompleteInfoAssumption DEF Keys

LEMMA NumberOfChains ==
    ASSUME RequestTypes
    PROVE  results \in Seq(Results) /\ Len(results) \in Nat /\ chain_info.id \in 0 .. Len(results)
<1>1. results \in Seq(Results) /\ chain_info.id \in Nat /\ chain_info.id <= Len(results)
  BY DEF RequestTypes, ChainInfo
<1>2. Len(results) \in Nat
  BY <1>1, LenProperties
<1>. QED  BY <1>1, <1>2

LEMMA ChainsOfInv ==
    ASSUME InfoInv
    PROVE  /\ results \in Seq(Results) /\ Len(results) \in Nat
           /\ chain_info.id \in 0 .. Len(results) /\ chain_info.id <= Len(results)
<1>1. RequestTypes
  BY DEF InfoInv
<1>. QED  BY <1>1, NumberOfChains

(* The states of the tasks of any chain, recorded or not.                  *)
LEMMA ResultType ==
    ASSUME RequestTypes, NEW id \in 0 .. Len(results)
    PROVE  Result(id) \in Results
<1>1. CASE id = 0
  BY <1>1 DEF Result, NoResult, Results, TaskStates
<1>2. CASE id # 0
  <2>1. id \in 1 .. Len(results)
    BY <1>2, NumberOfChains
  <2>. QED  BY <1>2, <2>1, ElementOfSeq DEF Result, RequestTypes
<1>. QED  BY <1>1, <1>2

(* The states of the tasks of one chain are replaced.                      *)
LEMMA OneReplaced ==
    ASSUME results \in Seq(Results), NEW i \in 1 .. Len(results), NEW r \in Results,
           results' = [results EXCEPT ![i] = r]
    PROVE  /\ results' \in Seq(Results) /\ Len(results') = Len(results)
           /\ \A j \in 1 .. Len(results) : results'[j] = IF j = i THEN r ELSE results[j]
BY LenProperties

(* What a step of the chain does to the results.                           *)
LEMMA ChainReplaced ==
    ASSUME RequestTypes, OrderOfTasks, chain_info.id # 0, NEW r \in Results, InOrder(r),
           results' = [results EXCEPT ![chain_info.id] = r]
    PROVE  /\ results' \in Seq(Results) /\ Len(results') = Len(results) /\ OrderOfTasks'
           /\ results'[chain_info.id] = r
<1> DEFINE id == chain_info.id
<1>1. id \in 1 .. Len(results) /\ results \in Seq(Results)
  BY NumberOfChains
<1>2. /\ results' \in Seq(Results) /\ Len(results') = Len(results)
      /\ \A i \in 1 .. Len(results) : results'[i] = IF i = id THEN r ELSE results[i]
  <2> HIDE DEF id
  <2>1. results' = [results EXCEPT ![id] = r]
    BY DEF id
  <2>. QED  BY <1>1, <2>1, OneReplaced
<1>3. OrderOfTasks'
  <2> SUFFICES ASSUME NEW i \in 1 .. Len(results) PROVE InOrder(results'[i])
    BY <1>2 DEF OrderOfTasks, InOrder
  <2>1. results'[i] = r \/ results'[i] = results[i]
    BY <1>2
  <2>. QED  BY <2>1 DEF OrderOfTasks
<1>. QED  BY <1>1, <1>2, <1>3

(* A chain that runs is recorded, and none of its tasks has failed.        *)
LEMMA RunningFacts ==
    ASSUME InfoInv, Running
    PROVE  /\ chain_info.id # 0 /\ chain_info.id \in 1 .. Len(results)
           /\ Result(chain_info.id) = results[chain_info.id] /\ results[chain_info.id] \in Results
           /\ ~chain_info.finished /\ Locked /\ chain_info.state = "PENDING"
           /\ \A k \in Keys : results[chain_info.id][k] # "FAILURE"
<1>1. /\ ~chain_info.finished /\ Result(chain_info.id)[Last] # "SUCCESS"
      /\ \A k \in Keys : Result(chain_info.id)[k] # "FAILURE"
  BY DEF Running, is_chain_ready, is_chain_successful, is_chain_failed
<1>2. chain_info.id # 0
  BY <1>1, KeysFacts DEF Result, NoResult
<1>3. chain_info.id \in 1 .. Len(results)
  BY <1>2, NumberOfChains DEF InfoInv
<1>4. results[chain_info.id] \in Results
  BY <1>3, ElementOfSeq DEF InfoInv, RequestTypes
<1>5. Locked /\ chain_info.state = "PENDING"
  BY <1>1 DEF InfoInv, LockOfChain
<1>. QED  BY <1>1, <1>2, <1>3, <1>4, <1>5 DEF Result

(* A step that leaves the chains alone leaves their results in order.      *)
LEMMA SameChains ==
    ASSUME InfoInv, results' = results, chain_info' = chain_info
    PROVE  /\ Len(results') >= Len(results) /\ OrderOfTasks' /\ ChainOver'
           /\ chain_info' \in ChainInfo /\ results' \in Seq(Results) /\ chain_info'.id <= Len(results')
<1>1. RequestTypes /\ OrderOfTasks
  BY DEF InfoInv
<1>2. Len(results) \in Nat /\ Len(results') = Len(results)
  BY <1>1, NumberOfChains
<1>3. OrderOfTasks' /\ ChainOver'
  BY <1>1 DEF InfoInv, OrderOfTasks, InOrder, ChainOver, Ended, Result
<1>4. chain_info' \in ChainInfo /\ results' \in Seq(Results) /\ chain_info'.id <= Len(results')
  BY <1>1 DEF RequestTypes
<1>5. Len(results') >= Len(results)
  BY <1>2
<1>. QED  BY <1>3, <1>4, <1>5

(* What a step that GET does not make may do: when nobody has the          *)
(* publication, it begins a request, or changes nothing that GET reads.    *)
Apart ==
    /\ UNCHANGED getVars
    /\ RequestTypes' /\ OrderOfTasks' /\ LockOfChain' /\ ChainOver'
    /\ Len(results') >= Len(results)
    /\ ~begun' => ~begun /\ (lock = "" => UNCHANGED <<source, lock, chain_info>>)
    /\ pc = "tasks" /\ lock = "" /\ ~begun' => UNCHANGED results
    /\ Forgotten(chain_info) /\ lock = "" /\ ~begun' => Forgotten(chain_info)'

(* Such a step leaves what GET has read as true as it was.                 *)
LEMMA ApartStep == ASSUME InfoInv, Apart PROVE InfoInv'
<1>1. UNCHANGED <<pc, purpose, key, chain, lock_read, failed, before, after, info, status>>
  BY DEF Apart, getVars
<1>2. /\ ~begun' => ~begun /\ (lock = "" => UNCHANGED <<source, lock, chain_info>>)
      /\ pc = "tasks" /\ lock = "" /\ ~begun' => UNCHANGED results
      /\ Forgotten(chain_info) /\ lock = "" /\ ~begun' => Forgotten(chain_info)'
  BY DEF Apart
<1>3. GetTypes'
  <2>1. Len(results) \in Nat /\ Len(results') \in Nat /\ Len(results') >= Len(results)
    BY NumberOfChains, LenProperties DEF InfoInv, Apart, RequestTypes
  <2>2. GetTypes /\ chain.id \in Nat
    BY DEF InfoInv, GetTypes, ChainInfo
  <2>3. chain'.id <= Len(results')
    BY <1>1, <2>1, <2>2 DEF GetTypes
  <2>. QED  BY <1>1, <2>2, <2>3 DEF GetTypes
<1>4. Progress'
  BY <1>1 DEF InfoInv, Progress
<1>5. LockSeen'
  BY <1>1, <1>2 DEF InfoInv, LockSeen
<1>6. AnswerSoFar'
  <2> SUFFICES ASSUME Undisturbed'
               PROVE  (/\ lock = ""
                       /\ pc \in {"states", "tasks"} => chain = chain_info
                       /\ InfoSoFar /\ StatusBefore /\ StatusSoFar /\ StatusAfter)'
    BY DEF AnswerSoFar
  <2>1. Undisturbed /\ ~begun'
    BY <1>1, <1>2 DEF Undisturbed
  <2>2. lock = "" /\ UNCHANGED <<source, lock, chain_info>>
    BY <1>2, <2>1 DEF InfoInv, AnswerSoFar
  <2>3. InfoSoFar' /\ StatusBefore' /\ StatusAfter'
    BY <1>1, <1>2, <2>1, <2>2 DEF InfoInv, AnswerSoFar, InfoSoFar, StatusBefore, StatusAfter
  <2>4. StatusSoFar'
    BY <1>1, <1>2, <2>1, <2>2 DEF InfoInv, AnswerSoFar, StatusSoFar, Result, Forgotten
  <2>5. (pc \in {"states", "tasks"} => chain = chain_info)'
    BY <1>1, <2>1, <2>2 DEF InfoInv, AnswerSoFar
  <2>. QED  BY <2>2, <2>3, <2>4, <2>5
<1>. QED  BY <1>3, <1>4, <1>5, <1>6 DEF InfoInv, Apart

(* A request takes the lock.                                               *)
LEMMA TakesLockApart ==
    ASSUME InfoInv, NEW method \in Methods, NEW k \in Keys, NEW delete \in BOOLEAN,
           TakesLock(method, k, delete), chain_info.finished,
           \/ chain_info' = chain_info
           \/ chain_info' = [chain_info EXCEPT !.state = "ABORTED"]
           \/ chain_info' = NoChain,
           UNCHANGED <<results, task>>, UNCHANGED getVars
    PROVE  Apart
<1>1. lock' = "request" /\ requests' = requests + 1 /\ from' = k /\ by' = method /\ abort' = ""
  BY DEF TakesLock
<1>2. begun' /\ begun' \in BOOLEAN
  BY Zenon DEF TakesLock
<1>3. source' \in [Keys -> Nat]
  BY DEF InfoInv, RequestTypes, TakesLock
<1>4. /\ chain_info' \in ChainInfo /\ chain_info'.id \in {0, chain_info.id} /\ chain_info'.finished
      /\ chain_info'.state # "PENDING"
  <2>1. chain_info \in ChainInfo /\ chain_info.state # "PENDING"
    BY DEF InfoInv, LockOfChain, RequestTypes
  <2>2. CASE chain_info' = NoChain
    BY <2>2 DEF NoChain, ChainInfo
  <2>3. CASE chain_info' = [chain_info EXCEPT !.state = "ABORTED"]
    BY <2>1, <2>3 DEF ChainInfo
  <2>4. CASE chain_info' = chain_info
    BY <2>1, <2>4
  <2>. QED  BY <2>2, <2>3, <2>4
<1>6. Len(results') >= Len(results) /\ OrderOfTasks' /\ results' \in Seq(Results) /\ chain_info'.id <= Len(results')
  <2>1. results' = results /\ results \in Seq(Results) /\ Len(results) \in Nat /\ chain_info.id <= Len(results)
    BY ChainsOfInv
  <2>3. chain_info'.id <= Len(results)
    BY <1>4, <2>1
  <2>2. OrderOfTasks'
    BY DEF InfoInv, OrderOfTasks, InOrder
  <2>. QED  BY <2>1, <2>2, <2>3
<1>7. RequestTypes'
  <2>1. requests' \in Nat
    BY <1>1, RequestsType
  <2>2. from' \in Keys /\ lock' \in {"", "request", "chain"} /\ by' \in Methods /\ abort' \in Methods \cup {""}
    BY <1>1
  <2>3. task' \in Keys \cup {0}
    BY DEF InfoInv, RequestTypes
  <2>. QED  BY <1>2, <1>3, <1>4, <1>6, <2>1, <2>2, <2>3, Zenon DEF RequestTypes
<1>8. LockOfChain' /\ ChainOver'
  <2>1. ChainOver'
    BY <1>4, KeysFacts DEF InfoInv, ChainOver, Ended, Result, NoResult
  <2>2. LockOfChain'
    BY <1>4, Zenon DEF LockOfChain
  <2>. QED  BY <2>1, <2>2
<1>. QED  BY <1>2, <1>6, <1>7, <1>8, Zenon DEF Apart

LEMMA BeginApart ==
    ASSUME InfoInv, NEW method \in Methods, NEW k \in Keys, NEW delete \in BOOLEAN, Begin(method, k, delete)
    PROVE  Apart
<1>1. /\ TakesLock(method, k, delete) /\ (chain_info' = chain_info \/ chain_info' = NoChain)
      /\ UNCHANGED <<results, task>> /\ UNCHANGED getVars
  BY DEF Begin, Leaves
<1>2. chain_info.finished
  BY DEF InfoInv, LockOfChain, Locked, Begin
<1>. QED  BY <1>1, <1>2, TakesLockApart

LEMMA AbortEndsApart ==
    ASSUME InfoInv, NEW k \in Keys, NEW delete \in BOOLEAN, AbortEnds(k, delete)
    PROVE  Apart
<1>1. /\ TakesLock(abort, k, delete)
      /\ chain_info' = [chain_info EXCEPT !.state = "ABORTED"] \/ chain_info' = NoChain
      /\ UNCHANGED <<results, task>> /\ UNCHANGED getVars /\ chain_info.finished
  BY DEF AbortEnds, Leaves
<1>2. abort \in Methods
  BY DEF AbortEnds, InfoInv, RequestTypes
<1>. QED  BY <1>1, <1>2, TakesLockApart

(* No request begins, or one does.                                         *)
BegunKept == begun' \in BOOLEAN /\ (~begun' => ~begun)

LEMMA set_publication_chain_infoApart ==
    ASSUME InfoInv, set_publication_chain_info
    PROVE  Apart
<1> DEFINE r == [k \in Keys |-> IF k < from THEN "SUCCESS" ELSE "PENDING"]
<1>1. r \in Results /\ InOrder(r)
  BY DEF Results, TaskStates, InOrder
<1>2. /\ lock = "request" /\ lock' = "chain" /\ results' = Append(results, r)
      /\ chain_info' = [id |-> Len(results'), finished |-> FALSE, state |-> "PENDING"]
      /\ UNCHANGED <<source, from, task, by, abort, requests>> /\ UNCHANGED getVars
  BY DEF set_publication_chain_info
<1>3. BegunKept
  BY Zenon DEF InfoInv, RequestTypes, set_publication_chain_info, BegunKept
<1>4. results \in Seq(Results) /\ Len(results) \in Nat
  BY ChainsOfInv
<1>5. /\ results' \in Seq(Results) /\ Len(results') = Len(results) + 1
      /\ \A i \in 1 .. Len(results) : results'[i] = results[i]
      /\ results'[Len(results) + 1] = r
  <2> HIDE DEF r
  <2>. QED  BY <1>1, <1>2, <1>4, AppendProperties
<1>6. /\ Len(results') \in Nat /\ Len(results') >= Len(results)
      /\ chain_info' \in ChainInfo /\ chain_info'.id <= Len(results')
  <2>1. Len(results') \in Nat /\ Len(results') >= Len(results)
    BY <1>4, <1>5
  <2>. QED  BY <1>2, <2>1 DEF ChainInfo
<1>7. RequestTypes'
  <2>1. /\ source' \in [Keys -> Nat] /\ from' \in Keys /\ by' \in Methods /\ requests' \in Nat
        /\ lock' \in {"", "request", "chain"} /\ task' \in Keys \cup {0} /\ abort' \in Methods \cup {""}
    BY <1>2 DEF InfoInv, RequestTypes
  <2>. QED  BY <1>3, <1>5, <1>6, <2>1, Zenon DEF RequestTypes, BegunKept
<1>8. OrderOfTasks'
  <2> SUFFICES ASSUME NEW i \in 1 .. Len(results) + 1 PROVE InOrder(results'[i])
    BY <1>5 DEF OrderOfTasks, InOrder
  <2>1. CASE i \in 1 .. Len(results)
    BY <2>1, <1>5 DEF InfoInv, OrderOfTasks
  <2>2. CASE i = Len(results) + 1
    BY <2>2, <1>1, <1>5
  <2>3. i \in 1 .. Len(results) \/ i = Len(results) + 1
    BY <1>4
  <2>. QED  BY <2>1, <2>2, <2>3
<1>9. LockOfChain' /\ ChainOver'
  BY <1>2 DEF LockOfChain, Locked, ChainOver
<1>. QED  BY <1>2, <1>3, <1>6, <1>7, <1>8, <1>9, Zenon DEF Apart, BegunKept

LEMMA SameLength == ASSUME NEW n \in Nat, NEW m, m = n PROVE m >= n
OBVIOUS

(* What happens to the states of the tasks of the chain that runs.         *)
LEMMA ChainApart ==
    ASSUME InfoInv, Running, NEW r \in Results, InOrder(r),
           results' = [results EXCEPT ![chain_info.id] = r],
           UNCHANGED <<source, chain_info, from, by, requests>>, UNCHANGED getVars,
           task' \in Keys \cup {0}, lock' \in {"request", "chain"}, abort' \in Methods \cup {""}, Locked',
           BegunKept
    PROVE  Apart
<1>1. /\ results' \in Seq(Results) /\ Len(results') = Len(results) /\ OrderOfTasks'
  BY RunningFacts, ChainReplaced DEF InfoInv
<1>2. ~chain_info.finished /\ lock # "" /\ chain_info.state = "PENDING"
  BY RunningFacts DEF Locked
<1>3. Len(results') >= Len(results)
  <2> DEFINE n == Len(results)
             m == Len(results')
  <2>1. n \in Nat
    BY ChainsOfInv, Zenon
  <2>2. m = n
    BY <1>1
  <2> HIDE DEF n, m
  <2>3. m >= n
    BY <2>1, <2>2, SameLength, Zenon
  <2>. QED  BY <2>3 DEF n, m
<1>4. RequestTypes'
  <2>1. /\ source' \in [Keys -> Nat] /\ chain_info' \in ChainInfo /\ chain_info'.id <= Len(results')
        /\ from' \in Keys /\ by' \in Methods /\ requests' \in Nat /\ lock' \in {"", "request", "chain"}
    BY <1>1 DEF InfoInv, RequestTypes
  <2>. QED  BY <1>1, <2>1, Zenon DEF RequestTypes, BegunKept
<1>5. LockOfChain' /\ ChainOver'
  BY <1>2 DEF LockOfChain, ChainOver
<1>. QED  BY <1>1, <1>2, <1>3, <1>4, <1>5, Zenon DEF Apart, BegunKept

(* The lock and the abort are left as they are.                            *)
LEMMA TaskApart ==
    ASSUME InfoInv, Running, NEW r \in Results, InOrder(r),
           results' = [results EXCEPT ![chain_info.id] = r], task' \in Keys \cup {0},
           UNCHANGED <<source, lock, chain_info, from, by, abort, begun, requests, getVars>>
    PROVE  Apart
<1>1. BegunKept
  BY Zenon DEF InfoInv, RequestTypes, BegunKept
<1>2. Locked' /\ lock' \in {"request", "chain"} /\ abort' \in Methods \cup {""}
  BY RunningFacts DEF Locked, InfoInv, RequestTypes
<1>3. UNCHANGED <<source, chain_info, from, by, requests>> /\ UNCHANGED getVars
  OBVIOUS
<1>. QED  BY <1>1, <1>2, <1>3, ChainApart

LEMMA TaskStartsApart == ASSUME InfoInv, NEW k \in Keys, TaskStarts(k) PROVE Apart
<1> DEFINE r == [results[chain_info.id] EXCEPT ![k] = "STARTED"]
<1>1. /\ results' = [results EXCEPT ![chain_info.id] = r]
      /\ Running /\ task' = k
      /\ UNCHANGED <<source, lock, chain_info, from, by, abort, begun, requests, getVars>>
  BY DEF TaskStarts, Current
<1>2. r \in Results
  BY <1>1, RunningFacts DEF Results, TaskStates
<1>3. InOrder(r)
  BY <1>1, RunningFacts DEF InOrder, Results
<1> HIDE DEF r
<1>. QED  BY <1>1, <1>2, <1>3, TaskApart

LEMMA TaskEndsApart == ASSUME InfoInv, NEW k \in Keys, TaskEnds(k) PROVE Apart
<1>1. /\ Running /\ task' = 0
      /\ UNCHANGED <<source, lock, chain_info, from, by, abort, begun, requests, getVars>>
  BY DEF TaskEnds, Current
<1>2. CASE results' = [results EXCEPT ![chain_info.id][k] = "SUCCESS"]
  <2> DEFINE r == [results[chain_info.id] EXCEPT ![k] = "SUCCESS"]
  <2>1. results' = [results EXCEPT ![chain_info.id] = r]
    BY <1>2
  <2>2. r \in Results
    BY <1>1, RunningFacts DEF Results, TaskStates
  <2>3. InOrder(r)
    BY <1>1, RunningFacts DEF InOrder, Results
  <2> HIDE DEF r
  <2>. QED  BY <1>1, <2>1, <2>2, <2>3, TaskApart
<1>3. CASE results' = [results EXCEPT ![chain_info.id] = [j \in Keys |-> IF j < k THEN "SUCCESS" ELSE "FAILURE"]]
  <2> DEFINE r == [j \in Keys |-> IF j < k THEN "SUCCESS" ELSE "FAILURE"]
  <2>1. results' = [results EXCEPT ![chain_info.id] = r]
    BY <1>3
  <2>2. r \in Results
    BY DEF Results, TaskStates
  <2>3. InOrder(r)
    BY DEF InOrder
  <2> HIDE DEF r
  <2>. QED  BY <1>1, <2>1, <2>2, <2>3, TaskApart
<1>. QED  BY <1>2, <1>3 DEF TaskEnds

LEMMA AbortApart == ASSUME InfoInv, NEW method \in Methods, Abort(method) PROVE Apart
<1> DEFINE r == [k \in Keys |-> IF Result(chain_info.id)[k] = "SUCCESS" THEN "SUCCESS" ELSE "ABORTED"]
<1>1. /\ results' = [results EXCEPT ![chain_info.id] = r]
      /\ Running /\ lock = "chain"
      /\ abort' = method /\ lock' = (IF method = "delete" THEN "request" ELSE "chain")
      /\ UNCHANGED <<source, chain_info, from, task, by, requests>> /\ UNCHANGED getVars
  BY DEF Abort
<1>2. BegunKept
  BY Zenon DEF Abort, BegunKept
<1>3. r \in Results /\ InOrder(r)
  BY DEF Results, TaskStates, InOrder
<1>4. Locked' /\ lock' \in {"request", "chain"} /\ abort' \in Methods \cup {""}
  BY <1>1 DEF Locked
<1>5. task' \in Keys \cup {0}
  BY <1>1 DEF InfoInv, RequestTypes
<1> HIDE DEF r
<1>. QED  BY <1>1, <1>2, <1>3, <1>4, <1>5, ChainApart, Zenon

LEMMA TaskWritesApart == ASSUME InfoInv, NEW k \in Keys, TaskWrites(k) PROVE Apart
<1>1. /\ lock # "" /\ UNCHANGED <<lock, chain_info, results, from, task, by, abort, requests>>
      /\ UNCHANGED getVars /\ ~chain_info.finished
  BY RunningFacts DEF TaskWrites, Current, Locked
<1>2. begun' <=> begun
  BY DEF TaskWrites
<1>3. source' \in [Keys -> Nat]
  <2>1. source \in [Keys -> Nat]
    BY DEF InfoInv, RequestTypes
  <2>2. source' = [source EXCEPT ![k] = requests + 1]
    BY DEF TaskWrites
  <2>. QED  BY <2>1, <2>2, RequestsType
<1>4. /\ Len(results') >= Len(results) /\ OrderOfTasks' /\ ChainOver'
      /\ chain_info' \in ChainInfo /\ results' \in Seq(Results) /\ chain_info'.id <= Len(results')
  BY <1>1, SameChains
<1>5. RequestTypes'
  <2>1. begun' \in BOOLEAN
    BY Zenon DEF InfoInv, RequestTypes, TaskWrites
  <2>2. /\ from' \in Keys /\ lock' \in {"", "request", "chain"} /\ requests' \in Nat
        /\ task' \in Keys \cup {0} /\ by' \in Methods /\ abort' \in Methods \cup {""}
    BY <1>1 DEF InfoInv, RequestTypes
  <2>. QED  BY <1>3, <1>4, <2>1, <2>2, Zenon DEF RequestTypes
<1>6. LockOfChain'
  <2>1. LockOfChain
    BY DEF InfoInv
  <2>. QED  BY <1>1, <2>1 DEF LockOfChain, Locked
<1>. QED  BY <1>1, <1>2, <1>4, <1>5, <1>6, Zenon DEF Apart

LEMMA set_publication_chain_finishedApart ==
    ASSUME InfoInv, set_publication_chain_finished
    PROVE  Apart
<1> DEFINE last == IF is_chain_successful(chain_info) THEN "SUCCESS" ELSE "FAILURE"
<1>1. /\ ~chain_info.finished /\ is_chain_ready(chain_info)
      /\ chain_info' = [chain_info EXCEPT !.finished = TRUE, !.state = last]
      /\ UNCHANGED <<source, lock, results, from, task, by, abort, requests>> /\ UNCHANGED getVars
  BY DEF set_publication_chain_finished
<1>2. begun' <=> begun
  BY DEF set_publication_chain_finished
<1>3. Locked /\ lock # "" /\ chain_info.state = "PENDING" /\ chain_info \in ChainInfo
  BY <1>1 DEF InfoInv, LockOfChain, Locked, RequestTypes
<1>4. chain_info' \in ChainInfo /\ chain_info'.id = chain_info.id /\ chain_info'.finished
      /\ chain_info'.state # "PENDING"
  <2>1. last \in {"SUCCESS", "FAILURE"}
    OBVIOUS
  <2> HIDE DEF last
  <2>. QED  BY <1>1, <1>3, <2>1 DEF ChainInfo
<1>5. Len(results') >= Len(results) /\ OrderOfTasks' /\ results' \in Seq(Results) /\ chain_info'.id <= Len(results')
  <2>1. results' = results /\ results \in Seq(Results) /\ Len(results) \in Nat /\ chain_info.id <= Len(results)
    BY <1>1, ChainsOfInv
  <2>2. OrderOfTasks'
    BY <1>1 DEF InfoInv, OrderOfTasks, InOrder
  <2>. QED  BY <1>4, <2>1, <2>2
<1>6. ChainOver'
  <2>1. Ended(Result(chain_info.id))
    BY <1>1, <1>3 DEF is_chain_ready, is_chain_successful, is_chain_failed, Ended
  <2>. QED  BY <1>1, <1>4, <2>1 DEF ChainOver, Ended, Result
<1>7. RequestTypes'
  <2>1. begun' \in BOOLEAN
    BY Zenon DEF InfoInv, RequestTypes, set_publication_chain_finished
  <2>2. /\ source' \in [Keys -> Nat] /\ from' \in Keys /\ lock' \in {"", "request", "chain"} /\ requests' \in Nat
        /\ task' \in Keys \cup {0} /\ by' \in Methods /\ abort' \in Methods \cup {""}
    BY <1>1 DEF InfoInv, RequestTypes
  <2>. QED  BY <1>4, <1>5, <2>1, <2>2, Zenon DEF RequestTypes
<1>8. LockOfChain'
  BY <1>4 DEF LockOfChain
<1>. QED  BY <1>1, <1>2, <1>3, <1>5, <1>6, <1>7, <1>8, Zenon DEF Apart

LEMMA unlock_publicationApart == ASSUME InfoInv, unlock_publication PROVE Apart
<1>1. /\ lock # "" /\ lock' = "" /\ UNCHANGED <<source, chain_info, results, from, task, by, abort, requests>>
      /\ UNCHANGED getVars
  BY DEF unlock_publication
<1>2. begun' <=> begun
  BY DEF unlock_publication
<1>3. RequestTypes'
  BY <1>1 DEF InfoInv, RequestTypes, unlock_publication
<1>4. chain_info.finished
  BY DEF InfoInv, LockOfChain, Locked, unlock_publication
<1>5. LockOfChain'
  BY <1>1, <1>4, Zenon DEF InfoInv, LockOfChain
<1>6. Len(results') >= Len(results) /\ OrderOfTasks' /\ ChainOver'
  BY <1>1, SameChains
<1>. QED  BY <1>1, <1>2, <1>3, <1>5, <1>6, Zenon DEF Apart

(* Forgotten results are those of a chain that is over.                    *)
LEMMA ForgetApart == ASSUME InfoInv, Forget PROVE Apart
<1> DEFINE r == [k \in Keys |-> "PENDING"]
<1>1. r \in Results /\ InOrder(r)
  BY DEF Results, TaskStates, InOrder
<1>2. /\ pc # "tasks" /\ results' = [results EXCEPT ![chain_info.id] = r] /\ results' # results
      /\ UNCHANGED <<source, lock, chain_info, from, task, by, abort, requests>> /\ UNCHANGED getVars
  BY DEF Forget
<1>3. begun' = begun
  BY Zenon DEF Forget
<1>4. chain_info.id # 0
  BY <1>2, NumberOfChains, LenProperties DEF InfoInv
<1>5. /\ results' \in Seq(Results) /\ Len(results') = Len(results) /\ OrderOfTasks'
      /\ results'[chain_info.id] = r
  <2> HIDE DEF r
  <2>. QED  BY <1>1, <1>2, <1>4, ChainReplaced DEF InfoInv
<1>6. Result(chain_info.id)' = r
  BY <1>2, <1>4, <1>5 DEF Result
<1>7. ChainOver'
  BY <1>6 DEF ChainOver, Ended
<1>8. Forgotten(chain_info) => Forgotten(chain_info)'
  BY <1>2, <1>6 DEF Forgotten
<1>9. RequestTypes'
  <2>1. begun' \in BOOLEAN
    BY <1>3, Zenon DEF InfoInv, RequestTypes
  <2>2. /\ source' \in [Keys -> Nat] /\ from' \in Keys /\ lock' \in {"", "request", "chain"} /\ requests' \in Nat
        /\ task' \in Keys \cup {0} /\ by' \in Methods /\ abort' \in Methods \cup {""}
        /\ chain_info' \in ChainInfo /\ chain_info'.id <= Len(results')
    BY <1>2, <1>5 DEF InfoInv, RequestTypes
  <2>. QED  BY <1>5, <2>1, <2>2, Zenon DEF RequestTypes
<1>10. LockOfChain'
  BY <1>2, Zenon DEF InfoInv, LockOfChain, Locked
<1>11. Len(results') >= Len(results)
  BY <1>5, NumberOfChains DEF InfoInv
<1>. QED  BY <1>2, <1>3, <1>5, <1>7, <1>8, <1>9, <1>10, <1>11, Zenon DEF Apart
-----------------------------------------------------------------------------
(* GET.                                                                    *)

(* GET changes nothing of the publication.                                 *)
LEMMA GetReadsOnly ==
    ASSUME InfoInv, UNCHANGED requestVars
    PROVE  /\ UNCHANGED <<source, lock, chain_info, results>> /\ (begun' <=> begun)
           /\ RequestTypes' /\ OrderOfTasks' /\ LockOfChain' /\ ChainOver'
<1>1. UNCHANGED <<source, lock, chain_info, results, from, task, by, abort, requests>> /\ (begun' <=> begun)
  BY DEF requestVars
<1>2. /\ OrderOfTasks' /\ ChainOver'
      /\ chain_info' \in ChainInfo /\ results' \in Seq(Results) /\ chain_info'.id <= Len(results')
  BY <1>1, SameChains
<1>3. RequestTypes'
  <2>1. begun' \in BOOLEAN
    BY Zenon DEF InfoInv, RequestTypes, requestVars
  <2>2. /\ source' \in [Keys -> Nat] /\ from' \in Keys /\ lock' \in {"", "request", "chain"} /\ requests' \in Nat
        /\ task' \in Keys \cup {0} /\ by' \in Methods /\ abort' \in Methods \cup {""}
    BY <1>1 DEF InfoInv, RequestTypes
  <2>. QED  BY <1>2, <2>1, <2>2, Zenon DEF RequestTypes
<1>4. LockOfChain'
  <2>1. LockOfChain
    BY DEF InfoInv
  <2>. QED  BY <1>1, <2>1 DEF LockOfChain, Locked
<1>. QED  BY <1>1, <1>2, <1>3, <1>4

LEMMA GetInv == ASSUME InfoInv, GetInfo PROVE InfoInv'
<1>1. RequestTypes' /\ OrderOfTasks' /\ LockOfChain' /\ ChainOver'
  <2>1. UNCHANGED <<source, lock, chain_info, results, from, task, by, abort, requests>> /\ ~begun'
    BY DEF GetInfo
  <2>2. /\ OrderOfTasks' /\ ChainOver'
        /\ chain_info' \in ChainInfo /\ results' \in Seq(Results) /\ chain_info'.id <= Len(results')
    BY <2>1, SameChains
  <2>3. begun' \in BOOLEAN
    BY Zenon DEF GetInfo
  <2>4. /\ source' \in [Keys -> Nat] /\ from' \in Keys /\ lock' \in {"", "request", "chain"} /\ requests' \in Nat
        /\ task' \in Keys \cup {0} /\ by' \in Methods /\ abort' \in Methods \cup {""}
    BY <2>1 DEF InfoInv, RequestTypes
  <2>5. LockOfChain
    BY DEF InfoInv
  <2>6. LockOfChain'
    BY <2>1, <2>5 DEF LockOfChain, Locked
  <2>7. RequestTypes'
    BY <2>2, <2>3, <2>4, Zenon DEF RequestTypes
  <2>. QED  BY <2>2, <2>6, <2>7
<1>2. pc' = "chain" /\ purpose' = "before" /\ ~failed'
  BY DEF GetInfo
<1>3. Progress' /\ LockSeen' /\ AnswerSoFar'
  BY <1>2 DEF Progress, LockSeen, AnswerSoFar, Undisturbed
<1>4. GetTypes'
  <2>1. chain' \in ChainInfo /\ chain'.id <= Len(results')
    <3>1. chain' = NoChain /\ results' = results
      BY DEF GetInfo
    <3>. QED  BY <3>1, NumberOfChains DEF InfoInv, NoChain, ChainInfo
  <2>2. info' \in [Keys -> Nat] /\ status' \in Statuses
    BY DEF GetInfo, NoState, Statuses
  <2>3. key' \in Keys
    BY KeysFacts DEF GetInfo
  <2>4. lock_read' \in BOOLEAN /\ failed' \in BOOLEAN /\ before' \in BOOLEAN /\ after' \in BOOLEAN
    BY Zenon DEF GetInfo
  <2>. QED  BY <1>2, <2>1, <2>2, <2>3, <2>4, Zenon DEF GetTypes, Pcs
<1>. QED  BY <1>1, <1>3, <1>4 DEF InfoInv

(* GET has read the dict of the chain, waits for it, or gives up.          *)
LEMMA ChainRead ==
    ASSUME InfoInv, pc \in {"chain", "wait"}, UNCHANGED requestVars,
           UNCHANGED <<purpose, key, lock_read, failed, before, after, info, status>>,
           (pc' \in {"wait", "raised"} /\ chain' = chain) \/ HasChain
    PROVE  InfoInv'
<1>1. /\ UNCHANGED <<source, lock, chain_info, results>> /\ (begun' <=> begun)
      /\ RequestTypes' /\ OrderOfTasks' /\ LockOfChain' /\ ChainOver'
  BY GetReadsOnly
<1>2. /\ pc' \in {"wait", "raised", "states", "lock"}
      /\ pc' = "states" => purpose = "info" /\ chain' = chain_info
      /\ chain' \in {chain, chain_info}
  BY DEF HasChain
<1>3. GetTypes'
  <2>1. chain' \in ChainInfo /\ chain'.id <= Len(results')
    BY <1>1, <1>2 DEF InfoInv, GetTypes, RequestTypes
  <2>. QED  BY <1>2, <2>1 DEF InfoInv, GetTypes, Pcs
<1>4. Progress' /\ LockSeen'
  BY <1>2 DEF InfoInv, Progress, LockSeen
<1>5. AnswerSoFar'
  <2> SUFFICES ASSUME Undisturbed'
               PROVE  (/\ lock = ""
                       /\ pc \in {"states", "tasks"} => chain = chain_info
                       /\ InfoSoFar /\ StatusBefore /\ StatusSoFar /\ StatusAfter)'
    BY DEF AnswerSoFar
  <2>1. Undisturbed
    BY <1>1, <1>2 DEF Undisturbed
  <2>2. lock = "" /\ InfoSoFar /\ StatusBefore /\ StatusAfter
    BY <2>1 DEF InfoInv, AnswerSoFar
  <2>. QED  BY <1>1, <1>2, <2>2 DEF InfoSoFar, StatusBefore, StatusSoFar, StatusAfter, Forgotten, Result
<1>. QED  BY <1>1, <1>3, <1>4, <1>5 DEF InfoInv

LEMMA get_publication_chain_infoInv == ASSUME InfoInv, get_publication_chain_info PROVE InfoInv'
BY ChainRead, Zenon DEF get_publication_chain_info

LEMMA WaitedInv == ASSUME InfoInv, Waited PROVE InfoInv'
BY ChainRead, Zenon DEF Waited

LEMMA WaitedTooLongInv == ASSUME InfoInv, WaitedTooLong PROVE InfoInv'
BY ChainRead, Zenon DEF WaitedTooLong

LEMMA get_publication_lockInv == ASSUME InfoInv, get_publication_lock PROVE InfoInv'
<1>1. /\ UNCHANGED <<source, lock, chain_info, results>> /\ (begun' <=> begun)
      /\ RequestTypes' /\ OrderOfTasks' /\ LockOfChain' /\ ChainOver'
  BY GetReadsOnly DEF get_publication_lock
<1>2. /\ pc = "lock" /\ pc' = "ready" /\ (lock_read' <=> lock # "")
      /\ UNCHANGED <<purpose, key, chain, info, status>>
      /\ (failed' <=> failed) /\ (before' <=> before) /\ (after' <=> after)
  BY DEF get_publication_lock
<1>3. GetTypes'
  <2>1. lock_read' \in BOOLEAN
    BY Zenon DEF get_publication_lock
  <2>2. failed' \in BOOLEAN /\ before' \in BOOLEAN /\ after' \in BOOLEAN
    BY Zenon DEF InfoInv, GetTypes, get_publication_lock
  <2>3. /\ purpose' \in {"before", "info", "after"} /\ key' \in Keys
        /\ chain' \in ChainInfo /\ chain'.id <= Len(results')
        /\ info' \in [Keys -> Nat] /\ status' \in Statuses
    BY <1>1, <1>2 DEF InfoInv, GetTypes
  <2>4. pc' \in Pcs
    BY <1>2 DEF Pcs
  <2>. QED  BY <2>1, <2>2, <2>3, <2>4, Zenon DEF GetTypes
<1>4. Progress' /\ LockSeen'
  BY <1>1, <1>2 DEF InfoInv, Progress, LockSeen
<1>5. AnswerSoFar'
  BY <1>1, <1>2 DEF InfoInv, AnswerSoFar, Undisturbed, InfoSoFar, StatusBefore, StatusSoFar, StatusAfter,
                    Forgotten, Result
<1>. QED  BY <1>1, <1>3, <1>4, <1>5 DEF InfoInv

(* The sources are read, after GET has found out whether the publication   *)
(* is being updated.                                                       *)
LEMMA SourcesAreRead ==
    ASSUME InfoInv, pc = "ready", purpose \in {"before", "after"}, UNCHANGED requestVars,
           UNCHANGED <<purpose, chain, lock_read, failed>>, after' \in BOOLEAN,
           ReadSources(is_publication_updating)
    PROVE  InfoInv'
<1>1. /\ UNCHANGED <<source, lock, chain_info, results>> /\ (begun' <=> begun)
      /\ RequestTypes' /\ OrderOfTasks' /\ LockOfChain' /\ ChainOver'
  BY GetReadsOnly
<1>2. /\ pc' = "sources" /\ key' = 1 /\ info' = [k \in Keys |-> 0] /\ status' = NoState
      /\ (before' <=> is_publication_updating)
      /\ UNCHANGED <<purpose, chain>> /\ (lock_read' <=> lock_read) /\ (failed' <=> failed)
  BY DEF ReadSources
<1>3. GetTypes'
  <2>1. before' \in BOOLEAN
    BY Zenon DEF ReadSources, is_publication_updating
  <2>2. lock_read' \in BOOLEAN /\ failed' \in BOOLEAN
    BY Zenon DEF InfoInv, GetTypes
  <2>3. chain' \in ChainInfo /\ chain'.id <= Len(results') /\ purpose' \in {"before", "info", "after"}
    BY <1>1, <1>2 DEF InfoInv, GetTypes
  <2>4. key' \in Keys /\ info' \in [Keys -> Nat] /\ status' \in Statuses /\ pc' \in Pcs
    BY <1>2, KeysFacts DEF NoState, Statuses, Pcs
  <2>. QED  BY <2>1, <2>2, <2>3, <2>4, Zenon DEF GetTypes
<1>4. Progress' /\ LockSeen'
  BY <1>2 DEF InfoInv, Progress, LockSeen
<1>5. AnswerSoFar'
  <2> SUFFICES ASSUME ~begun', ~before'
               PROVE  (/\ lock = ""
                       /\ pc \in {"states", "tasks"} => chain = chain_info
                       /\ InfoSoFar /\ StatusBefore /\ StatusSoFar /\ StatusAfter)'
    BY DEF AnswerSoFar, Undisturbed
  <2>1. ~lock_read /\ ~begun
    BY <1>1, <1>2 DEF is_publication_updating
  <2>2. lock = ""
    BY <2>1 DEF InfoInv, LockSeen
  <2>3. \A k \in Keys : ~(k < key')
    BY <1>2 DEF Keys
  <2>. QED  BY <1>1, <1>2, <2>2, <2>3 DEF InfoSoFar, StatusBefore, StatusSoFar, StatusAfter
<1>. QED  BY <1>1, <1>3, <1>4, <1>5 DEF InfoInv

LEMMA UpdatingBeforeInv == ASSUME InfoInv, UpdatingBefore PROVE InfoInv'
<1>1. after' \in BOOLEAN
  BY Zenon DEF InfoInv, GetTypes, UpdatingBefore
<1>. QED  BY <1>1, SourcesAreRead, Zenon DEF UpdatingBefore

LEMMA AnswerInv == ASSUME InfoInv, Answer PROVE InfoInv'
<1>1. /\ pc = "ready" /\ purpose = "after" /\ UNCHANGED requestVars
      /\ UNCHANGED <<purpose, chain, lock_read, failed>>
  BY DEF Answer
<1>2. after' = is_publication_updating
  BY Zenon DEF Answer
<1>3. after' \in BOOLEAN
  BY <1>2, Zenon DEF is_publication_updating
<1>4. CASE after' # before
  <2>1. ReadSources(after')
    BY <1>4, Zenon DEF Answer
  <2>. QED  BY <1>1, <1>2, <1>3, <2>1, SourcesAreRead, Zenon
<1>5. CASE after' = before
  <2>1. pc' = "answered" /\ UNCHANGED <<key, info, status>>
    BY <1>5 DEF Answer
  <2>2. before' = before
    BY <1>5, Zenon DEF Answer
  <2>3. (before' <=> before) /\ (failed' <=> failed)
    BY <2>2, <1>1, Zenon
  <2>4. /\ UNCHANGED <<source, lock, chain_info, results>> /\ (begun' <=> begun)
        /\ RequestTypes' /\ OrderOfTasks' /\ LockOfChain' /\ ChainOver'
    BY <1>1, GetReadsOnly
  <2>5. GetTypes'
    <3>1. before' \in BOOLEAN /\ lock_read' \in BOOLEAN /\ failed' \in BOOLEAN
      BY <1>1, <2>2, Zenon DEF InfoInv, GetTypes
    <3>2. /\ purpose' \in {"before", "info", "after"} /\ key' \in Keys
          /\ chain' \in ChainInfo /\ chain'.id <= Len(results')
          /\ info' \in [Keys -> Nat] /\ status' \in Statuses
      BY <1>1, <2>1, <2>4 DEF InfoInv, GetTypes
    <3>3. pc' \in Pcs
      BY <2>1 DEF Pcs
    <3>. QED  BY <1>3, <3>1, <3>2, <3>3, Zenon DEF GetTypes
  <2>6. after' = before'
    BY <1>5, <2>2, Zenon
  <2>7. Progress' /\ LockSeen'
    <3>1. ~failed'
      BY <1>1, <2>3 DEF InfoInv, Progress
    <3>. QED  BY <1>1, <2>1, <2>6, <3>1 DEF Progress, LockSeen
  <2>8. AnswerSoFar'
    <3>1. UNCHANGED purpose
      BY <1>1
    <3>. QED  BY <1>1, <2>1, <2>3, <2>4, <3>1
              DEF InfoInv, AnswerSoFar, Undisturbed, InfoSoFar, StatusBefore, StatusSoFar, StatusAfter,
                  Forgotten, Result
  <2>. QED  BY <2>4, <2>5, <2>7, <2>8 DEF InfoInv
<1>. QED  BY <1>4, <1>5

LEMMA get_layer_infoInv == ASSUME InfoInv, get_layer_info PROVE InfoInv'
<1>1. /\ UNCHANGED <<source, lock, chain_info, results>> /\ (begun' <=> begun)
      /\ RequestTypes' /\ OrderOfTasks' /\ LockOfChain' /\ ChainOver'
  BY GetReadsOnly DEF get_layer_info
<1>2. /\ pc = "sources" /\ info' = [info EXCEPT ![key] = source[key]]
      /\ UNCHANGED <<chain, status>> /\ (lock_read' <=> lock_read)
      /\ (failed' <=> failed) /\ (before' <=> before) /\ (after' <=> after)
      /\ \/ key < Last /\ key' = key + 1 /\ pc' = pc /\ purpose' = purpose
         \/ ~(key < Last) /\ key' = 1 /\ pc' = "chain" /\ purpose' = "info"
  BY DEF get_layer_info
<1>3. source \in [Keys -> Nat] /\ key \in Keys /\ info \in [Keys -> Nat]
  BY DEF InfoInv, RequestTypes, GetTypes
<1>4. key' \in Keys /\ info' \in [Keys -> Nat]
  BY <1>2, <1>3, KeysFacts DEF Keys
<1>5. GetTypes'
  <2>1. lock_read' \in BOOLEAN /\ failed' \in BOOLEAN /\ before' \in BOOLEAN /\ after' \in BOOLEAN
    BY Zenon DEF InfoInv, GetTypes, get_layer_info
  <2>2. /\ purpose' \in {"before", "info", "after"} /\ pc' \in Pcs
        /\ chain' \in ChainInfo /\ chain'.id <= Len(results') /\ status' \in Statuses
    BY <1>1, <1>2 DEF InfoInv, GetTypes, Pcs
  <2>. QED  BY <1>4, <2>1, <2>2, Zenon DEF GetTypes
<1>6. Progress' /\ LockSeen'
  BY <1>2 DEF InfoInv, Progress, LockSeen
<1>7. AnswerSoFar'
  <2> SUFFICES ASSUME Undisturbed'
               PROVE  (/\ lock = ""
                       /\ pc \in {"states", "tasks"} => chain = chain_info
                       /\ InfoSoFar /\ StatusBefore /\ StatusSoFar /\ StatusAfter)'
    BY DEF AnswerSoFar
  <2>1. Undisturbed
    BY <1>1, <1>2 DEF Undisturbed
  <2>2. lock = "" /\ InfoSoFar /\ status = NoState
    BY <1>2, <2>1 DEF InfoInv, AnswerSoFar, StatusBefore
  <2>3. InfoSoFar'
    <3> SUFFICES ASSUME NEW k \in Keys, pc' = "sources" => k < key'
                 PROVE  info'[k] = source[k]
      BY <1>1 DEF InfoSoFar
    <3>1. k = key \/ k < key
      <4>1. k \in 1 .. Last /\ key \in 1 .. Last /\ Last \in Nat
        BY <1>3, CompleteInfoAssumption DEF Keys
      <4>. QED  BY <1>2, <4>1
    <3>. QED  BY <1>2, <1>3, <2>2, <3>1 DEF InfoSoFar
  <2>. QED  BY <1>1, <1>2, <2>2, <2>3 DEF StatusBefore, StatusSoFar, StatusAfter
<1>. QED  BY <1>1, <1>5, <1>6, <1>7 DEF InfoInv

LEMMA MissingFacts ==
    ASSUME NEW s \in Statuses
    PROVE  /\ Missing(s) \in Statuses
           /\ \A k \in Keys : /\ s[k] \notin Unfinished => Missing(s)[k] \notin Unfinished
                              /\ info[k] = 0 => Missing(s)[k] # ""
BY DEF Missing, Statuses, TaskStates, Unfinished

(* A chain that is over failed, unless it was successful; by a task, if it *)
(* is known by which.                                                      *)
LEMMA get_info_with_statusesInv == ASSUME InfoInv, get_info_with_statuses PROVE InfoInv'
<1>1. /\ UNCHANGED <<source, lock, chain_info, results>> /\ (begun' <=> begun)
      /\ RequestTypes' /\ OrderOfTasks' /\ LockOfChain' /\ ChainOver'
  BY GetReadsOnly DEF get_info_with_statuses
<1>2. /\ pc = "states" /\ key' = 1 /\ purpose = "info" /\ ~failed
      /\ UNCHANGED <<chain, info>> /\ (lock_read' <=> lock_read)
      /\ (failed' <=> failed) /\ (before' <=> before) /\ (after' <=> after)
  BY DEF get_info_with_statuses, InfoInv, Progress
<1>3. \/ status' = Missing(status) /\ pc' = "chain" /\ purpose' = "after"
      \/ /\ pc' = "tasks" /\ UNCHANGED <<status, purpose>>
         /\ ~is_chain_successful(chain) /\ ~is_chain_failed_without_info(chain)
  BY DEF get_info_with_statuses
<1>4. status \in Statuses /\ status' \in Statuses
  <2>1. status \in Statuses
    BY DEF InfoInv, GetTypes
  <2>. QED  BY <1>3, <2>1, MissingFacts
<1>5. GetTypes'
  <2>1. lock_read' \in BOOLEAN /\ failed' \in BOOLEAN /\ before' \in BOOLEAN /\ after' \in BOOLEAN
    BY Zenon DEF InfoInv, GetTypes, get_info_with_statuses
  <2>2. /\ purpose' \in {"before", "info", "after"} /\ pc' \in Pcs /\ key' \in Keys
        /\ chain' \in ChainInfo /\ chain'.id <= Len(results') /\ info' \in [Keys -> Nat]
    BY <1>1, <1>2, <1>3, KeysFacts DEF InfoInv, GetTypes, Pcs
  <2>. QED  BY <1>4, <2>1, <2>2, Zenon DEF GetTypes
<1>6. Progress' /\ LockSeen'
  BY <1>2, <1>3 DEF Progress, LockSeen
<1>7. AnswerSoFar'
  <2> SUFFICES ASSUME Undisturbed'
               PROVE  (/\ lock = ""
                       /\ pc \in {"states", "tasks"} => chain = chain_info
                       /\ InfoSoFar /\ StatusBefore /\ StatusSoFar /\ StatusAfter)'
    BY DEF AnswerSoFar
  <2>1. Undisturbed
    BY <1>1, <1>2 DEF Undisturbed
  <2>2. lock = "" /\ InfoSoFar /\ status = NoState /\ chain = chain_info
    BY <1>2, <2>1 DEF InfoInv, AnswerSoFar, StatusBefore
  <2>3. InfoSoFar' /\ StatusBefore'
    BY <1>1, <1>2, <1>3, <2>2 DEF InfoSoFar, StatusBefore
  <2>4. StatusAfter'
    BY <1>2, <1>3, <1>4, <2>2, MissingFacts DEF StatusAfter, NoState, Unfinished
  <2>5. ASSUME pc' = "tasks", ~Forgotten(chain)
        PROVE  \E k \in Keys : Result(chain.id)[k] = "FAILURE"
    <3>1. /\ chain.finished /\ chain.state # "PENDING" /\ Ended(Result(chain.id))
          /\ chain.state \in {"PENDING", "SUCCESS", "FAILURE", "ABORTED"}
      BY <2>2 DEF InfoInv, LockOfChain, Locked, ChainOver, RequestTypes, ChainInfo
    <3>2. chain.state \in {"FAILURE", "ABORTED"} /\ Result(chain.id)[Last] # "SUCCESS"
      BY <1>3, <2>5, <3>1 DEF is_chain_successful
    <3>3. CASE chain.state = "FAILURE"
      BY <1>3, <2>5, <3>1, <3>3 DEF is_chain_failed_without_info
    <3>4. CASE chain.state = "ABORTED"
      BY <2>5, <3>1, <3>2, <3>4 DEF Ended, Forgotten
    <3>. QED  BY <3>2, <3>3, <3>4
  <2>6. StatusSoFar'
    <3> SUFFICES ASSUME pc' = "tasks", ~Forgotten(chain)
                 PROVE  (/\ \E k \in Keys : Result(chain.id)[k] = "FAILURE"
                         /\ failed <=> \E j \in Keys : j < key /\ Result(chain.id)[j] = "FAILURE"
                         /\ \A j \in Keys : status[j] \notin Unfinished)'
      BY <1>1, <1>2 DEF StatusSoFar, Forgotten, Result
    <3>1. \A j \in Keys : ~(j < key')
      BY <1>2 DEF Keys
    <3>2. Result(chain.id)' = Result(chain.id)
      BY <1>1, <1>2 DEF Result
    <3>3. \A j \in Keys : status'[j] \notin Unfinished
      <4>1. status' = NoState
        BY <1>3, <2>2
      <4>. QED  BY <4>1 DEF NoState, Unfinished
    <3>. QED  BY <1>2, <2>5, <3>1, <3>2, <3>3
  <2>. QED  BY <1>1, <1>2, <2>2, <2>3, <2>4, <2>6
<1>. QED  BY <1>1, <1>5, <1>6, <1>7 DEF InfoInv

(* The state of a task of a chain of which a task failed: the tasks before *)
(* that one were successful, and the ones behind it are not available.     *)
LEMMA TaskStatusRead ==
    ASSUME InfoInv, Undisturbed, pc = "tasks", ~Forgotten(chain),
           ~(failed \/ Result(chain.id)[key] = "FAILURE")
    PROVE  Result(chain.id)[key] = "SUCCESS" /\ key < Last
<1>1. PICK f \in Keys : Result(chain.id)[f] = "FAILURE"
  BY DEF InfoInv, AnswerSoFar, StatusSoFar
<1>2. key \in 1 .. Last /\ f \in 1 .. Last /\ Last \in Nat
  BY CompleteInfoAssumption DEF Keys, InfoInv, GetTypes
<1>3. ~(f < key) /\ f # key
  BY <1>1 DEF InfoInv, AnswerSoFar, StatusSoFar
<1>4. key < f
  BY <1>2, <1>3
<1>5. chain.id \in 1 .. Len(results) /\ Result(chain.id) = results[chain.id]
  <2>1. chain = chain_info
    BY DEF InfoInv, AnswerSoFar
  <2>2. chain.id # 0
    BY <1>1 DEF Result, NoResult
  <2>. QED  BY <2>1, <2>2, NumberOfChains DEF InfoInv, Result
<1>6. results[chain.id][key] = "SUCCESS"
  <2>1. results[chain.id][key] \in {"SUCCESS", "FAILURE"}
    BY <1>1, <1>4, <1>5 DEF InfoInv, OrderOfTasks, InOrder, GetTypes
  <2>. QED  BY <1>5, <2>1
<1>. QED  BY <1>2, <1>4, <1>5, <1>6

LEMMA TaskStatusInv == ASSUME InfoInv, TaskStatus PROVE InfoInv'
<1> DEFINE result == Result(chain.id)[key]
           filled == IF info[key] = 0 \/ result # "SUCCESS"
                     THEN [status EXCEPT ![key] = IF failed THEN "NOT_AVAILABLE" ELSE result]
                     ELSE status
<1>1. /\ UNCHANGED <<source, lock, chain_info, results>> /\ (begun' <=> begun)
      /\ RequestTypes' /\ OrderOfTasks' /\ LockOfChain' /\ ChainOver'
  BY GetReadsOnly DEF TaskStatus
<1>2. /\ pc = "tasks" /\ UNCHANGED <<chain, info>> /\ (lock_read' <=> lock_read)
      /\ (before' <=> before) /\ (after' <=> after)
      /\ failed' <=> (key < Last /\ (failed \/ result = "FAILURE"))
  BY DEF TaskStatus
<1>3. \/ key < Last /\ status' = filled /\ key' = key + 1 /\ UNCHANGED <<pc, purpose>>
      \/ ~(key < Last) /\ status' = Missing(filled) /\ key' = 1 /\ pc' = "chain" /\ purpose' = "after"
  BY DEF TaskStatus
<1>4. purpose = "info" /\ key \in Keys /\ status \in Statuses
  BY <1>2 DEF InfoInv, Progress, GetTypes
<1>5. result \in TaskStates
  <2>1. chain.id \in 0 .. Len(results)
    BY NumberOfChains DEF InfoInv, GetTypes, ChainInfo
  <2>. QED  BY <1>4, <2>1, ResultType DEF InfoInv, Results
<1>6. filled \in Statuses /\ \A k \in Keys : filled[k] \in {status[k], IF failed THEN "NOT_AVAILABLE" ELSE result}
  <2> HIDE DEF result
  <2>. QED  BY <1>4, <1>5 DEF Statuses
<1>7. status' \in Statuses
  <2> HIDE DEF filled
  <2>. QED  BY <1>3, <1>6, MissingFacts
<1>8. key' \in Keys
  <2>1. key \in 1 .. Last /\ Last \in Nat
    BY <1>4, CompleteInfoAssumption DEF Keys
  <2>2. key' \in 1 .. Last
    BY <1>3, <2>1
  <2>. QED  BY <2>2 DEF Keys
<1>9. GetTypes'
  <2>1. lock_read' \in BOOLEAN /\ failed' \in BOOLEAN /\ before' \in BOOLEAN /\ after' \in BOOLEAN
    BY Zenon DEF InfoInv, GetTypes, TaskStatus
  <2>2. /\ purpose' \in {"before", "info", "after"} /\ pc' \in Pcs
        /\ chain' \in ChainInfo /\ chain'.id <= Len(results') /\ info' \in [Keys -> Nat]
    BY <1>1, <1>2, <1>3, <1>4 DEF InfoInv, GetTypes, Pcs
  <2>. QED  BY <1>7, <1>8, <2>1, <2>2, Zenon DEF GetTypes
<1>10. Progress' /\ LockSeen'
  BY <1>2, <1>3, <1>4 DEF Progress, LockSeen
<1>11. AnswerSoFar'
  <2> SUFFICES ASSUME Undisturbed'
               PROVE  (/\ lock = ""
                       /\ pc \in {"states", "tasks"} => chain = chain_info
                       /\ InfoSoFar /\ StatusBefore /\ StatusSoFar /\ StatusAfter)'
    BY DEF AnswerSoFar
  <2>1. Undisturbed
    BY <1>1, <1>2, <1>4 DEF Undisturbed
  <2>2. lock = "" /\ InfoSoFar /\ chain = chain_info /\ StatusSoFar
    BY <1>2, <2>1 DEF InfoInv, AnswerSoFar
  <2>3. ASSUME ~Forgotten(chain) PROVE \A k \in Keys : filled[k] \notin Unfinished
    <3>1. \A k \in Keys : status[k] \notin Unfinished
      BY <1>2, <2>2, <2>3 DEF StatusSoFar
    <3>2. (IF failed THEN "NOT_AVAILABLE" ELSE result) \notin Unfinished
      BY <1>2, <2>1, <2>3, TaskStatusRead DEF Unfinished
    <3> HIDE DEF filled, result
    <3>. QED  BY <1>6, <3>1, <3>2
  <2>4. InfoSoFar' /\ StatusBefore'
    BY <1>1, <1>2, <1>3, <1>4, <2>2 DEF InfoSoFar, StatusBefore
  <2>5. StatusAfter'
    <3> HIDE DEF filled
    <3>1. Forgotten(chain) => Forgotten(chain_info)'
      BY <1>1, <2>2 DEF Forgotten, Result
    <3>. QED  BY <1>2, <1>3, <1>4, <1>6, <2>3, <3>1, MissingFacts DEF StatusAfter
  <2>6. StatusSoFar'
    <3> SUFFICES ASSUME pc' = "tasks", ~Forgotten(chain)
                 PROVE  (/\ \E k \in Keys : Result(chain.id)[k] = "FAILURE"
                         /\ failed <=> \E j \in Keys : j < key /\ Result(chain.id)[j] = "FAILURE"
                         /\ \A j \in Keys : status[j] \notin Unfinished)'
      BY <1>1, <1>2 DEF StatusSoFar, Forgotten, Result
    <3>1. key < Last /\ status' = filled /\ key' = key + 1
      BY <1>3
    <3>2. Result(chain.id)' = Result(chain.id)
      BY <1>1, <1>2 DEF Result
    <3>3. \A j \in Keys : j < key' <=> (j < key \/ j = key)
      BY <1>4, <3>1, KeysFacts
    <3>4. /\ \E k \in Keys : Result(chain.id)[k] = "FAILURE"
          /\ failed <=> \E j \in Keys : j < key /\ Result(chain.id)[j] = "FAILURE"
      BY <1>2, <2>2 DEF StatusSoFar
    <3>5. failed' <=> (failed \/ Result(chain.id)[key] = "FAILURE")
      BY <1>2, <3>1
    <3>6. (failed <=> \E j \in Keys : j < key /\ Result(chain.id)[j] = "FAILURE")'
      <4> HIDE DEF result, filled
      <4>. QED  BY <1>4, <3>2, <3>3, <3>4, <3>5
    <3>. QED  BY <2>3, <3>1, <3>2, <3>4, <3>6
  <2>. QED  BY <1>1, <1>2, <2>2, <2>4, <2>5, <2>6
<1>. QED  BY <1>1, <1>9, <1>10, <1>11 DEF InfoInv

-----------------------------------------------------------------------------
LEMMA InitInv == ASSUME InitInfo PROVE InfoInv
<1>1. results = <<>> /\ Len(results) = 0
  BY DEF InitInfo
<1>2. results \in Seq(Results)
  BY <1>1
<1>3. /\ chain_info \in ChainInfo /\ chain_info.id <= Len(results)
      /\ chain \in ChainInfo /\ chain.id <= Len(results) /\ NoState \in Statuses
  <2>1. NoChain \in ChainInfo /\ NoChain.id = 0 /\ NoState \in Statuses
    BY DEF NoChain, ChainInfo, NoState, Statuses
  <2>2. chain_info = NoChain /\ chain = NoChain
    BY DEF InitInfo
  <2>. QED  BY <1>1, <2>1, <2>2
<1>4. begun \in BOOLEAN /\ lock_read \in BOOLEAN /\ failed \in BOOLEAN /\ before \in BOOLEAN /\ after \in BOOLEAN
  BY Zenon DEF InitInfo
<1>5. RequestTypes
  <2>1. source \in [Keys -> Nat] /\ from \in Keys /\ requests \in Nat /\ lock \in {"", "request", "chain"}
    BY KeysFacts DEF InitInfo
  <2>2. task \in Keys \cup {0} /\ by \in Methods /\ abort \in Methods \cup {""}
    BY DEF InitInfo, Methods
  <2>. QED  BY <1>2, <1>3, <1>4, <2>1, <2>2, Zenon DEF RequestTypes
<1>6. GetTypes
  <2>1. pc \in Pcs /\ purpose \in {"before", "info", "after"} /\ key \in Keys /\ info \in [Keys -> Nat]
    BY KeysFacts DEF InitInfo, Pcs
  <2>2. status = NoState
    BY DEF InitInfo
  <2>. QED  BY <1>3, <1>4, <2>1, <2>2, Zenon DEF GetTypes
<1>7. OrderOfTasks
  BY <1>1 DEF OrderOfTasks
<1>8. LockOfChain /\ ChainOver /\ Progress /\ LockSeen /\ AnswerSoFar
  BY KeysFacts DEF InitInfo, NoChain, NoResult, Result, ChainOver, Ended, LockOfChain, Progress, LockSeen, AnswerSoFar, Undisturbed
<1>. QED  BY <1>5, <1>6, <1>7, <1>8 DEF InfoInv

LEMMA StepInv == ASSUME InfoInv, [NextInfo]_infoVars PROVE InfoInv'
<1>1. ASSUME NEW k \in Keys, NEW delete \in BOOLEAN,
             AbortEnds(k, delete) \/ \E method \in Methods : Begin(method, k, delete)
      PROVE  InfoInv'
  BY <1>1, AbortEndsApart, BeginApart, ApartStep
<1>8. ASSUME NEW method \in Methods, Abort(method) PROVE InfoInv'
  BY <1>8, AbortApart, ApartStep
<1>2. CASE Updates
  <2>1. ASSUME NEW k \in Keys, TaskStarts(k) \/ TaskWrites(k) \/ TaskEnds(k) PROVE Apart
    BY <2>1, TaskStartsApart, TaskWritesApart, TaskEndsApart
  <2>2. Apart
    BY <1>2, <2>1, set_publication_chain_infoApart, set_publication_chain_finishedApart, unlock_publicationApart
       DEF Updates
  <2>. QED  BY <2>2, ApartStep
<1>3. CASE Forget
  BY <1>3, ForgetApart, ApartStep
<1>4. CASE GetInfo
  BY <1>4, GetInv
<1>5. CASE Reads
  BY <1>5, get_publication_chain_infoInv, WaitedInv, get_publication_lockInv, UpdatingBeforeInv, AnswerInv,
     get_layer_infoInv, get_info_with_statusesInv, TaskStatusInv DEF Reads
<1>6. CASE WaitedTooLong
  BY <1>6, WaitedTooLongInv
<1>7. CASE UNCHANGED infoVars
  <2>1. /\ UNCHANGED requestVars /\ UNCHANGED <<pc, purpose, key, chain, lock_read, failed, before, after, info, status>>
    BY <1>7 DEF infoVars, getVars
  <2>2. UNCHANGED getVars
    BY <2>1 DEF getVars
  <2>3. Len(results') >= Len(results)
    BY <2>1, SameChains DEF requestVars
  <2>4. /\ UNCHANGED <<source, lock, chain_info, results>> /\ (begun' <=> begun)
        /\ RequestTypes' /\ OrderOfTasks' /\ LockOfChain' /\ ChainOver'
    BY <2>1, GetReadsOnly
  <2>5. Forgotten(chain_info) => Forgotten(chain_info)'
    BY <2>4 DEF Forgotten, Result
  <2>6. Apart
    BY <2>2, <2>3, <2>4, <2>5, Zenon DEF Apart
  <2>. QED  BY <2>6, ApartStep
<1>. QED  BY <1>1, <1>2, <1>3, <1>4, <1>5, <1>6, <1>7, <1>8 DEF NextInfo

(* AnswerHolds of CompleteInfo: an answer of GET that is not UPDATING and  *)
(* that no request disturbed shows what the publication has, though        *)
(* get_complete_publication_info reads each thing at its own time and      *)
(* under no lock; for any number of sources, requests and GETs.            *)
THEOREM AnswersHold == SpecInfo => []AnswerHolds
<1>1. ASSUME InfoInv PROVE AnswerHolds
  <2> USE <1>1
  <2> SUFFICES ASSUME pc = "answered", ~after, ~begun
               PROVE  /\ info = source
                      /\ ~Forgotten(chain_info) =>
                            \A k \in Keys : status[k] \notin {"PENDING", "STARTED", "ABORTED"}
                      /\ publication_status = "COMPLETE" => \A k \in Keys : source[k] # 0
    BY DEF AnswerHolds
  <2>1. purpose = "after" /\ ~before
    BY DEF InfoInv, Progress
  <2>2. InfoSoFar /\ StatusAfter
    BY <2>1 DEF InfoInv, AnswerSoFar, Undisturbed
  <2>3. info = source
    <3>1. info \in [Keys -> Nat] /\ source \in [Keys -> Nat]
      BY DEF InfoInv, GetTypes, RequestTypes
    <3>2. \A k \in Keys : info[k] = source[k]
      BY <2>2 DEF InfoSoFar
    <3>. QED  BY <3>1, <3>2
  <2>4. \A k \in Keys : (~Forgotten(chain_info) => status[k] \notin Unfinished) /\ (source[k] = 0 => status[k] # "")
    BY <2>1, <2>2, <2>3 DEF StatusAfter
  <2>5. publication_status = "COMPLETE" => \A k \in Keys : status[k] = ""
    BY DEF publication_status
  <2>. QED  BY <2>3, <2>4, <2>5 DEF Unfinished
<1>. QED  BY <1>1, InitInv, StepInv, PTL DEF SpecInfo
=============================================================================
