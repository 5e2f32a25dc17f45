-------------------------- MODULE AccessRightsProofs --------------------------
(***************************************************************************)
(* Rights end as they were asked for and stay usable, and users are        *)
(* deleted whole: the safety properties of AccessRights, for any number of *)
(* users, workspaces, requests and any lists of names.                     *)
(***************************************************************************)
EXTENDS AccessRights, SequenceTheorems, TLAPS

Names  == Users \cup {Everyone, Role}
Rules  == [Types -> SUBSET Names]
Actor  == Users \cup {Anonym}

Now == {NoStep}
    \cup [step : {"insert"}, p : Publications, asked : [Types -> (SUBSET Names) \ {{}}], actor : Actor]
    \cup [step : {"update"}, p : Publications, asked : Rules, actor : Actor \cup {Nobody}, part : BOOLEAN]
    \cup {s \in [step : {"rights"}, p : Publications, id : Nat, add : Rules, remove : Rules] :
             \A t \in Types : s.p \notin s.add[t]}
    \cup [step : {"unlock", "delete_rights", "delete_row"}, p : Publications]

Patches == [p : Publications, asked : Rules]

Rows == [id : Nat, everyone : SUBSET Types, rights : [Types -> SUBSET (Users \cup {Role})]]

-----------------------------------------------------------------------------
(* What is left to do about a user.                                        *)
Reserving ==
    { <<"ensure_account", "ensure_workspace", "save_in_redis", "ensure_workspace", "ensure_user">>,
      <<"ensure_workspace", "ensure_account", "save_in_redis", "ensure_workspace", "ensure_user">>,
      <<"ensure_workspace", "save_in_redis", "ensure_workspace", "ensure_user">>,
      <<"ensure_account", "save_in_redis", "ensure_workspace", "ensure_user">>,
      <<"save_in_redis", "ensure_workspace", "ensure_user">>,
      <<"ensure_workspace", "ensure_user">>, <<"ensure_user">> }

Saved == { <<"ensure_workspace", "ensure_user">>, <<"ensure_user">> }

(* DELETE of a user before it comes to Redis.                              *)
Finding ==
    { <<"public_publications", "own_publications">>, <<"own_publications">>,
      <<"delete_from_redis", "delete_user_roles", "delete_account", "delete_user", "delete_workspace">>,
      <<"delete_from_redis", "delete_user_roles", "delete_user", "delete_workspace", "delete_account">> }

Unnaming ==
    { <<"delete_user_roles", "delete_account", "delete_user", "delete_workspace">>,
      <<"delete_user_roles", "delete_user", "delete_workspace", "delete_account">> }

BothLeft ==
    { <<"delete_account", "delete_user", "delete_workspace">>,
      <<"delete_user", "delete_workspace", "delete_account">>,
      <<"delete_workspace", "delete_workspace", "delete_account">> }

(* The account is deleted after the rows, or was deleted before.           *)
AccountLast == { <<"delete_workspace", "delete_account">>, <<"delete_account">> }

AccountOnly == { <<"delete_account">> }

RowsLast == { <<"delete_user", "delete_workspace">>, <<"delete_workspace", "delete_workspace">>,
              <<"delete_workspace">> }

Unroled  == BothLeft \cup AccountLast \cup RowsLast
Unnamed  == Unnaming \cup Unroled
Deleting == Finding \cup Unnamed

Requests == [on : Users \cup {Nobody}, now : Now, patch : SUBSET Patches, delete : SUBSET Publications,
             later : {<<>>} \cup Reserving \cup Deleting]

Calm == Finding \cup {<<>>}

Quiet(r) == r.now = NoStep /\ r.patch = {} /\ r.delete = {}

RequestOK(r) ==
    /\ r \in Requests
    /\ r.on = Nobody <=> r.later = <<>>
    /\ r.later \in Reserving \cup Unnamed => Quiet(r)
    /\ r.on = Nobody => r.patch = {}

TypeInv ==
    /\ users \subseteq workspaces \cap Users /\ redis \subseteq Users /\ gone \subseteq Users
    /\ publication \in [Publications -> Rows] /\ accepted \in [Publications -> Rules]
    /\ requests \in Nat
    /\ DOMAIN client = Clients /\ \A c \in Clients : RequestOK(client[c])
    /\ requests = 0 => \A c \in Clients : client[c] = NoClient

-----------------------------------------------------------------------------
Holds(c, p) == client[c].now.p = p

(* A publication no DELETE came in between at is held by one request,      *)
(* which locked it.                                                        *)
HeldByOne ==
    \A p \in Publications \ crossed, c \in Clients : Holds(c, p) =>
        p \in lock /\ \A d \in Clients : Holds(d, p) => c = d

(* Names of rows are what was asked for, apart from the owner and Everyone *)
(* who have no row, and from users deleted meanwhile.                      *)
Fits(p, t, names) ==
    /\ names \subseteq accepted[p][t]
    /\ accepted[p][t] \ names \subseteq gone \cup Owner(p) \cup {Everyone}

(* Of a step of a request at p the rows of p are the result.               *)
StepFits(s) ==
    /\ s.step = "rights" => \A t \in Types :
         /\ s.id = publication[s.p].id
         /\ s.add[t] \subseteq users \cup gone \cup {Role}
         /\ s.add[t] \cap publication[s.p].rights[t] = {}
         /\ Fits(s.p, t, (publication[s.p].rights[t] \cup s.add[t]) \ s.remove[t])
    /\ s.step = "delete_row" => publication[s.p].rights = NoRows
    /\ s.step \notin {"rights", "delete_row"} => \A t \in Types : Fits(s.p, t, publication[s.p].rights[t])

(* What the axioms of rights leave true of what was accepted.              *)
Sensible(p) ==
    /\ accepted[p]["write"] \cap (Users \cup {Everyone}) # {}
    /\ \/ Everyone \in accepted[p]["read"]
       \/ accepted[p]["write"] \ accepted[p]["read"] \subseteq gone \cup {p}

RowsFit(p) ==
    /\ \A t \in Types : Everyone \in accepted[p][t] <=> t \in publication[p].everyone
    /\ Sensible(p)
    /\ \A c \in Clients : Holds(c, p) => StepFits(client[c].now)
    /\ (\A c \in Clients : ~Holds(c, p)) => \A t \in Types : Fits(p, t, publication[p].rights[t])

NotItself == \A p \in Publications, t \in Types : p \notin publication[p].rights[t]

RightsInv ==
    /\ HeldByOne /\ NotItself
    /\ \A p \in Publications \ crossed : Exists(p) => RowsFit(p)

-----------------------------------------------------------------------------
Doing(c, u, what) == client[c].on = u /\ client[c].later \in what

(* A reservation is alone at its user, whose row it is to make.            *)
ReservedAlone(u) ==
    \A c \in Clients : Doing(c, u, Reserving) =>
        /\ u \notin users
        /\ \A d \in Clients : client[d].on = u => c = d
        /\ client[c].later = <<"ensure_user">> => u \in workspaces

Named(u) ==
    /\ \A c \in Clients : Doing(c, u, Unnamed) => u \notin redis
    /\ u \in redis => u \in users \/ \E c \in Clients :
         Doing(c, u, Saved)

(* What a DELETE has deleted stays so.                                     *)
Emptied(u) ==
    \A c \in Clients : /\ Doing(c, u, RowsLast) => u \notin accounts
                       /\ Doing(c, u, AccountOnly) => u \notin users

IsLeft(u) ==
    u \in answered => /\ u \notin users \cup redis \cup accounts \cup members
                      /\ \A c \in Clients : ~Doing(c, u, Reserving)

HasRole(u) ==
    /\ \A c \in Clients : Doing(c, u, Unroled) => u \notin members
    /\ u \in members => u \in workspaces

UserOK(u) ==
    /\ HasRole(u)
    /\ u \notin hasty => ReservedAlone(u) /\ Named(u) /\ Emptied(u) /\ IsLeft(u)

UsersInv == \A u \in Users : UserOK(u)

IInv == TypeInv /\ RightsInv /\ UsersInv

-----------------------------------------------------------------------------
(* What Head and Tail make of the steps left.                              *)

LEMMA ConcatIs ==
    ASSUME NEW S, NEW s \in Seq(S), NEW t \in Seq(S), NEW e \in Seq(S), Len(e) = Len(s) + Len(t),
           \A i \in 1 .. Len(s) : e[i] = s[i], \A i \in 1 .. Len(t) : e[Len(s) + i] = t[i]
    PROVE  s \o t = e
<1>1. Len(s) \in Nat /\ Len(t) \in Nat
  BY LenProperties
<1>2. /\ s \o t \in Seq(S) /\ Len(s \o t) = Len(e)
      /\ \A i \in 1 .. Len(s) + Len(t) : (s \o t)[i] = IF i <= Len(s) THEN s[i] ELSE t[i - Len(s)]
  BY ConcatProperties
<1>3. ASSUME NEW i \in 1 .. Len(e) PROVE (s \o t)[i] = e[i]
  <2>1. CASE i <= Len(s)
    BY <1>1, <1>2, <2>1
  <2>2. CASE ~(i <= Len(s))
    <3>1. i - Len(s) \in 1 .. Len(t) /\ Len(s) + (i - Len(s)) = i
      BY <1>1, <2>2
    <3> QED
      BY <1>2, <2>2, <3>1
  <2> QED
    BY <2>1, <2>2
<1> QED
  BY <1>2, <1>3, SeqEqual

LEMMA Concats ==
    /\ \A a, b : <<a>> \o <<b>> = <<a, b>>
    /\ \A a, b, x : <<a, b>> \o <<x>> = <<a, b, x>> /\ <<a>> \o <<b, x>> = <<a, b, x>>
    /\ \A a, b, x, y, z : <<a, b>> \o <<x, y, z>> = <<a, b, x, y, z>>
<1>1. ASSUME NEW a, NEW b PROVE <<a>> \o <<b>> = <<a, b>>
  <2> DEFINE S == {a, b}
             s == <<a>>
             t == <<b>>
             e == <<a, b>>
  <2>1. s \in Seq(S) /\ t \in Seq(S) /\ e \in Seq(S) /\ Len(s) = 1 /\ Len(t) = 1 /\ Len(e) = 2
    OBVIOUS
  <2>2. \A i \in 1 .. 1 : e[i] = s[i]
    OBVIOUS
  <2>3. \A i \in 1 .. 1 : e[1 + i] = t[i]
    OBVIOUS
  <2> HIDE DEF S, s, t, e
  <2>4. Len(e) = Len(s) + Len(t)
    BY <2>1
  <2>5. \A i \in 1 .. Len(s) : e[i] = s[i]
    BY <2>1, <2>2
  <2>6. \A i \in 1 .. Len(t) : e[Len(s) + i] = t[i]
    BY <2>1, <2>3
  <2>7. s \o t = e
    BY <2>1, <2>4, <2>5, <2>6, ConcatIs
  <2> QED
    BY <2>7 DEF s, t, e
<1>2. ASSUME NEW a, NEW b, NEW x PROVE <<a, b>> \o <<x>> = <<a, b, x>>
  <2> DEFINE S == {a, b, x}
             s == <<a, b>>
             t == <<x>>
             e == <<a, b, x>>
  <2>1. s \in Seq(S) /\ t \in Seq(S) /\ e \in Seq(S) /\ Len(s) = 2 /\ Len(t) = 1 /\ Len(e) = 3
    OBVIOUS
  <2>2. \A i \in 1 .. 2 : e[i] = s[i]
    OBVIOUS
  <2>3. \A i \in 1 .. 1 : e[2 + i] = t[i]
    OBVIOUS
  <2> HIDE DEF S, s, t, e
  <2>4. Len(e) = Len(s) + Len(t)
    BY <2>1
  <2>5. \A i \in 1 .. Len(s) : e[i] = s[i]
    BY <2>1, <2>2
  <2>6. \A i \in 1 .. Len(t) : e[Len(s) + i] = t[i]
    BY <2>1, <2>3
  <2>7. s \o t = e
    BY <2>1, <2>4, <2>5, <2>6, ConcatIs
  <2> QED
    BY <2>7 DEF s, t, e
<1>3. ASSUME NEW a, NEW b, NEW x PROVE <<a>> \o <<b, x>> = <<a, b, x>>
  <2> DEFINE S == {a, b, x}
             s == <<a>>
             t == <<b, x>>
             e == <<a, b, x>>
  <2>1. s \in Seq(S) /\ t \in Seq(S) /\ e \in Seq(S) /\ Len(s) = 1 /\ Len(t) = 2 /\ Len(e) = 3
    OBVIOUS
  <2>2. \A i \in 1 .. 1 : e[i] = s[i]
    OBVIOUS
  <2>3. \A i \in 1 .. 2 : e[1 + i] = t[i]
    OBVIOUS
  <2> HIDE DEF S, s, t, e
  <2>4. Len(e) = Len(s) + Len(t)
    BY <2>1
  <2>5. \A i \in 1 .. Len(s) : e[i] = s[i]
    BY <2>1, <2>2
  <2>6. \A i \in 1 .. Len(t) : e[Len(s) + i] = t[i]
    BY <2>1, <2>3
  <2>7. s \o t = e
    BY <2>1, <2>4, <2>5, <2>6, ConcatIs
  <2> QED
    BY <2>7 DEF s, t, e
<1>4. ASSUME NEW a, NEW b, NEW x, NEW y, NEW z PROVE <<a, b>> \o <<x, y, z>> = <<a, b, x, y, z>>
  <2> DEFINE S == {a, b, x, y, z}
             s == <<a, b>>
             t == <<x, y, z>>
             e == <<a, b, x, y, z>>
  <2>1. s \in Seq(S) /\ t \in Seq(S) /\ e \in Seq(S) /\ Len(s) = 2 /\ Len(t) = 3 /\ Len(e) = 5
    OBVIOUS
  <2>2. \A i \in 1 .. 2 : e[i] = s[i]
    OBVIOUS
  <2>3. \A i \in 1 .. 3 : e[2 + i] = t[i]
    OBVIOUS
  <2> HIDE DEF S, s, t, e
  <2>4. Len(e) = Len(s) + Len(t)
    BY <2>1
  <2>5. \A i \in 1 .. Len(s) : e[i] = s[i]
    BY <2>1, <2>2
  <2>6. \A i \in 1 .. Len(t) : e[Len(s) + i] = t[i]
    BY <2>1, <2>3
  <2>7. s \o t = e
    BY <2>1, <2>4, <2>5, <2>6, ConcatIs
  <2> QED
    BY <2>7 DEF s, t, e
<1> QED
  BY <1>1, <1>2, <1>3, <1>4

LEMMA NothingBefore == \A a, b : <<>> \o <<a>> = <<a>> /\ <<>> \o <<a, b>> = <<a, b>>
<1> SUFFICES ASSUME NEW a, NEW b PROVE <<>> \o <<a>> = <<a>> /\ <<>> \o <<a, b>> = <<a, b>>
  OBVIOUS
<1>1. <<a>> \in Seq({a, b}) /\ <<a, b>> \in Seq({a, b})
  OBVIOUS
<1> QED
  BY <1>1, ConcatEmptySeq

LEMMA HeadOfReserving ==
    ASSUME NEW l \in Reserving
    PROVE  /\ l # <<>> /\ l \notin Deleting
           /\ Head(l) \in {"ensure_account", "ensure_workspace", "save_in_redis", "ensure_user"}
           /\ Head(l) = "ensure_user" => l = <<"ensure_user">> /\ Tail(l) = <<>>
           /\ Head(l) # "ensure_user" => Tail(l) \in Reserving
           /\ Head(l) \in {"ensure_account", "save_in_redis"} => Tail(l) # <<"ensure_user">> /\ l \notin Saved
           /\ Head(l) = "save_in_redis" => Tail(l) \in Saved
           /\ l \in Saved /\ Head(l) # "ensure_user" => Tail(l) \in Saved
<1> USE DEF Reserving, Saved, Deleting, Finding, Unnamed, Unnaming, Unroled, BothLeft, AccountLast, RowsLast
<1>1. CASE l = <<"ensure_account", "ensure_workspace", "save_in_redis", "ensure_workspace", "ensure_user">>
  BY <1>1
<1>2. CASE l = <<"ensure_workspace", "ensure_account", "save_in_redis", "ensure_workspace", "ensure_user">>
  BY <1>2
<1>3. CASE l = <<"ensure_workspace", "save_in_redis", "ensure_workspace", "ensure_user">>
  BY <1>3
<1>4. CASE l = <<"ensure_account", "save_in_redis", "ensure_workspace", "ensure_user">>
  BY <1>4
<1>5. CASE l = <<"save_in_redis", "ensure_workspace", "ensure_user">>
  BY <1>5
<1>6. CASE l = <<"ensure_workspace", "ensure_user">>
  BY <1>6
<1>7. CASE l = <<"ensure_user">>
  BY <1>7
<1> QED
  BY <1>1, <1>2, <1>3, <1>4, <1>5, <1>6, <1>7

LEMMA HeadOfDeleting ==
    ASSUME NEW l \in Deleting
    PROVE  /\ l # <<>>
           /\ Head(l) \in {"public_publications", "own_publications", "delete_from_redis", "delete_user_roles",
                           "delete_account", "delete_user", "delete_workspace"}
           /\ Head(l) \in {"public_publications", "own_publications", "delete_from_redis"} <=> l \in Finding
           /\ Head(l) = "delete_user_roles" <=> l \in Unnaming
           /\ Head(l) = "public_publications" => Tail(l) \in Finding
           /\ Head(l) = "delete_from_redis" => Tail(l) \in Unnaming
           /\ Head(l) = "delete_user_roles" => Tail(l) \in BothLeft
           /\ Head(l) = "delete_account" => Tail(l) \in RowsLast \cup {<<>>}
           /\ Head(l) = "delete_account" /\ Len(l) = 1 => l \in AccountOnly
           /\ Head(l) = "delete_workspace" /\ Len(l) = 1 => l \in RowsLast
           /\ Head(l) = "delete_user" => /\ l \notin AccountLast
                                         /\ IF l \in RowsLast
                                            THEN /\ Tail(l) \in RowsLast
                                                 /\ <<"delete_workspace">> \o Tail(l) \in RowsLast
                                            ELSE /\ Tail(l) \in AccountLast
                                                 /\ <<"delete_workspace">> \o Tail(l) \in BothLeft
                                         /\ <<>> \o Tail(l) = Tail(l)
           /\ Head(l) = "delete_workspace" => \/ l \notin RowsLast /\ Tail(l) \in AccountLast
                                              \/ l \in RowsLast /\ Tail(l) \in RowsLast \cup {<<>>}
<1> USE DEF Deleting, Finding, Unnamed, Unnaming, Unroled, BothLeft, AccountLast, AccountOnly, RowsLast
<1>1. CASE l = <<"public_publications", "own_publications">>
  BY <1>1, Concats
<1>2. CASE l = <<"own_publications">>
  BY <1>2, Concats
<1>3. CASE l = <<"delete_from_redis", "delete_user_roles", "delete_account", "delete_user", "delete_workspace">>
  BY <1>3, Concats
<1>4. CASE l = <<"delete_from_redis", "delete_user_roles", "delete_user", "delete_workspace", "delete_account">>
  BY <1>4, Concats
<1>5. CASE l = <<"delete_user_roles", "delete_account", "delete_user", "delete_workspace">>
  BY <1>5, Concats
<1>6. CASE l = <<"delete_user_roles", "delete_user", "delete_workspace", "delete_account">>
  BY <1>6, Concats
<1>7. CASE l = <<"delete_account", "delete_user", "delete_workspace">>
  BY <1>7, Concats
<1>8. CASE l = <<"delete_user", "delete_workspace", "delete_account">>
  BY <1>8, Concats, NothingBefore
<1>9. CASE l = <<"delete_workspace", "delete_workspace", "delete_account">>
  BY <1>9, Concats
<1>10. CASE l = <<"delete_workspace", "delete_account">>
  BY <1>10, Concats
<1>11. CASE l = <<"delete_account">>
  BY <1>11, Concats
<1>12. CASE l = <<"delete_user", "delete_workspace">>
  BY <1>12, Concats, NothingBefore
<1>13. CASE l = <<"delete_workspace", "delete_workspace">>
  BY <1>13, Concats
<1>14. CASE l = <<"delete_workspace">>
  BY <1>14, Concats
<1> QED
  BY <1>1, <1>2, <1>3, <1>4, <1>5, <1>6, <1>7, <1>8, <1>9, <1>10, <1>11, <1>12, <1>13, <1>14

LEMMA LaterIs ==
    /\ Saved \subseteq Reserving /\ RowsLast \cup AccountLast \cup BothLeft = Unroled
    /\ Unnaming \cup Unroled = Unnamed /\ Finding \cup Unnamed = Deleting
    /\ \A l \in Deleting : l \notin Reserving
    /\ \A l \in Unnaming : l \notin Unroled
    /\ \A l \in BothLeft : l \notin RowsLast \cup AccountLast
    /\ AccountOnly \subseteq AccountLast /\ \A l \in AccountLast : l \notin RowsLast
    /\ <<>> \notin Reserving \cup Deleting
<1>1. \A l \in Deleting : l \notin Reserving
  BY HeadOfReserving
<1>2. <<>> \notin Reserving \cup Deleting
  BY HeadOfReserving, HeadOfDeleting
<1>3. \A l \in Unnaming : l \notin Unroled
  BY DEF Unnaming, Unroled, BothLeft, AccountLast, RowsLast
<1>4. \A l \in BothLeft : l \notin RowsLast \cup AccountLast
  BY DEF BothLeft, AccountLast, RowsLast
<1>5. AccountOnly \subseteq AccountLast /\ \A l \in AccountLast : l \notin RowsLast
  BY DEF AccountLast, AccountOnly, RowsLast
<1>6. Saved \subseteq Reserving
  BY DEF Saved, Reserving
<1>7. /\ RowsLast \cup AccountLast \cup BothLeft = Unroled /\ Unnaming \cup Unroled = Unnamed
      /\ Finding \cup Unnamed = Deleting
  BY DEF Unroled, Unnamed, Deleting
<1> QED
  BY <1>1, <1>2, <1>3, <1>4, <1>5, <1>6, <1>7

LEMMA CalmIs == \A l \in Calm : l \notin Reserving \cup Unnamed
<1> USE DEF Calm, Finding, Reserving, Unnamed, Unnaming, Unroled, BothLeft, AccountLast, RowsLast
<1>1. \A l \in Finding : l \notin Reserving
  BY HeadOfReserving DEF Deleting
<1>2. \A l \in Finding : l \notin Unnamed
  OBVIOUS
<1>3. <<>> \notin Reserving \cup Unnamed
  OBVIOUS
<1> QED
  BY <1>1, <1>2, <1>3

-----------------------------------------------------------------------------
(* Requests.                                                               *)

LEMMA NamesDiffer ==
    /\ Nobody \notin Publications /\ Everyone \notin Publications /\ Role \notin Publications
    /\ Nobody \notin Users /\ Everyone \notin Users /\ Role \notin Users /\ Anonym \notin Users
    /\ Users \subseteq Publications /\ Everyone # Role /\ Role # Nobody
  BY RightsAssumption DEF Publications, Everyone, Role, Anonym, Nobody

LEMMA NowFields ==
    ASSUME NEW s \in Now
    PROVE  /\ s.step \in {"none", "insert", "update", "rights", "unlock", "delete_rights", "delete_row"}
           /\ s.step = "none" <=> s = NoStep
           /\ s.p = Nobody <=> s = NoStep
           /\ s.step # "none" => s.p \in Publications
           /\ s.step = "insert" => s.asked \in [Types -> (SUBSET Names) \ {{}}] /\ s.actor \in Actor
           /\ s.step = "update" => s.asked \in Rules /\ s.actor \in Actor \cup {Nobody} /\ s.part \in BOOLEAN
           /\ s.step = "rights" => /\ s.id \in Nat /\ s.add \in Rules /\ s.remove \in Rules
                                   /\ \A t \in Types : s.p \notin s.add[t]
  BY NamesDiffer DEF Now, NoStep

OnlyChanges(c) ==
    /\ DOMAIN client' = Clients
    /\ \A d \in Clients \ {c} : client'[d] = client[d]

LEMMA NoClientOK == NoClient \in Requests /\ RequestOK(NoClient) /\ NoStep \in Now /\ Quiet(NoClient)
<1>1. NoStep \in Now
  BY DEF Now
<1>2. NoClient \in Requests
  BY <1>1 DEF NoClient, Requests
<1>3. <<>> \notin Reserving \cup Unnamed
  BY CalmIs DEF Calm
<1> QED
  BY <1>1, <1>2, <1>3 DEF RequestOK, NoClient, Quiet

LEMMA Continued ==
    ASSUME TypeInv, NEW c \in Clients, NEW r \in Requests, Continues(c, r),
           r.on = Nobody => r.later = <<>> /\ r.patch = {},
           r.on # Nobody /\ r.later \in {<<>>} \cup Reserving \cup Unnamed => Quiet(r)
    PROVE  /\ OnlyChanges(c) /\ RequestOK(client'[c])
           /\ client'[c].now = r.now /\ client'[c].later = r.later
           /\ client'[c].on = IF r.later = <<>> THEN Nobody ELSE r.on
<1>1. DOMAIN client = Clients
  BY DEF TypeInv
<1>2. client' = [client EXCEPT ![c] = OrOver(r)]
  BY DEF Continues
<1>3. OnlyChanges(c) /\ client'[c] = OrOver(r)
  BY <1>1, <1>2 DEF OnlyChanges
<1>4. <<>> \notin Reserving \cup Unnamed
  BY CalmIs DEF Calm
<1>5. CASE r.now = NoStep /\ r.patch = {} /\ r.delete = {} /\ r.later = <<>>
  <2>1. client'[c] = NoClient
    BY <1>3, <1>5 DEF OrOver
  <2> QED
    BY <1>3, <1>5, <2>1, NoClientOK DEF NoClient
<1>6. CASE ~(r.now = NoStep /\ r.patch = {} /\ r.delete = {} /\ r.later = <<>>)
  <2>1. client'[c] = r
    BY <1>3, <1>6 DEF OrOver
  <2>2. r.later = <<>> => r.on = Nobody
    BY <1>6 DEF Quiet
  <2>3. RequestOK(r)
    BY <2>2, <1>4 DEF RequestOK
  <2> QED
    BY <1>3, <2>1, <2>2, <2>3
<1> QED
  BY <1>5, <1>6

LEMMA RequestFields ==
    ASSUME NEW r \in Requests
    PROVE  /\ r = [on |-> r.on, now |-> r.now, patch |-> r.patch, delete |-> r.delete, later |-> r.later]
           /\ r.on \in Users \cup {Nobody} /\ r.now \in Now /\ r.patch \in SUBSET Patches
           /\ r.delete \in SUBSET Publications /\ r.later \in {<<>>} \cup Reserving \cup Deleting
  BY DEF Requests

(* A request that is at a publication, or begins there.                    *)
LEMMA GoesTo ==
    ASSUME TypeInv, NEW c \in Clients, NEW n \in Now, Goes(c, n),
           client[c].now # NoStep \/ client[c] = NoClient
    PROVE  /\ OnlyChanges(c) /\ RequestOK(client'[c]) /\ client'[c].now = n
           /\ client'[c].later = client[c].later /\ client'[c].on = client[c].on
<1> DEFINE r == [client[c] EXCEPT !.now = n]
<1>1. RequestOK(client[c])
  BY DEF TypeInv
<1>2. /\ r \in Requests /\ r.on = client[c].on /\ r.later = client[c].later /\ r.patch = client[c].patch
      /\ r.now = n
  BY <1>1, RequestFields DEF RequestOK, Requests
<1>3. Continues(c, r)
  BY DEF Goes
<1>4. client[c].now # NoStep => client[c].later \notin Reserving \cup Unnamed
  BY <1>1 DEF RequestOK, Quiet
<1>5. client[c] = NoClient => client[c].on = Nobody
  BY DEF NoClient
<1> HIDE DEF r
<1> QED
  BY <1>1, <1>2, <1>3, <1>4, <1>5, Continued DEF RequestOK

LEMMA Stops ==
    ASSUME TypeInv, NEW c \in Clients, Raises(c)
    PROVE  OnlyChanges(c) /\ client'[c] = NoClient
  BY DEF TypeInv, Raises, OnlyChanges

LEMMA TypeKept ==
    ASSUME TypeInv, NEW c \in Clients, OnlyChanges(c), RequestOK(client'[c]),
           requests' \in Nat \ {0}, users' \subseteq workspaces' \cap Users, redis' \subseteq Users,
           gone' \subseteq Users, publication' \in [Publications -> Rows],
           accepted' \in [Publications -> Rules]
    PROVE  TypeInv'
  BY DEF TypeInv, OnlyChanges

-----------------------------------------------------------------------------
(* Rows of rights.                                                         *)

(* Requests at p, and its rows, stay as they are; users are added, or are  *)
(* deleted and gone.                                                       *)
Untouched(p) ==
    /\ publication'[p] = publication[p] /\ accepted'[p] = accepted[p]
    /\ \A d \in Clients : client[d].now.p = p \/ client'[d].now.p = p => client'[d].now = client[d].now
    /\ gone \subseteq gone' /\ users \ users' \subseteq gone'

LEMMA StepFitsStill ==
    ASSUME NEW s \in Now, s # NoStep, Untouched(s.p), StepFits(s)
    PROVE  StepFits(s)'
<1>1. s.p \in Publications
  BY NowFields
<1>2. /\ publication'[s.p] = publication[s.p] /\ accepted'[s.p] = accepted[s.p]
      /\ gone \subseteq gone' /\ users \ users' \subseteq gone'
  BY DEF Untouched
<1>3. CASE s.step = "rights"
  <2>1. ASSUME NEW t \in Types
        PROVE  /\ s.id = publication'[s.p].id
               /\ s.add[t] \subseteq users' \cup gone' \cup {Role}
               /\ s.add[t] \cap publication'[s.p].rights[t] = {}
               /\ Fits(s.p, t, (publication[s.p].rights[t] \cup s.add[t]) \ s.remove[t])'
    <3>1. /\ s.id = publication[s.p].id
          /\ s.add[t] \subseteq users \cup gone \cup {Role}
          /\ s.add[t] \cap publication[s.p].rights[t] = {}
          /\ Fits(s.p, t, (publication[s.p].rights[t] \cup s.add[t]) \ s.remove[t])
      BY <1>3 DEF StepFits
    <3>2. s.add[t] \subseteq users' \cup gone' \cup {Role}
      BY <1>2, <3>1
    <3>3. Fits(s.p, t, (publication[s.p].rights[t] \cup s.add[t]) \ s.remove[t])'
      BY <1>1, <1>2, <3>1 DEF Fits, Owner
    <3> QED
      BY <1>2, <3>1, <3>2, <3>3
  <2> QED
    BY <1>3, <2>1 DEF StepFits
<1>4. CASE s.step # "rights"
  BY <1>1, <1>2, <1>4 DEF StepFits, Fits, Owner
<1> QED
  BY <1>3, <1>4

LEMMA RowsFitStill ==
    ASSUME TypeInv, NEW p \in Publications, RowsFit(p), Untouched(p)
    PROVE  RowsFit(p)'
<1>1. /\ publication'[p] = publication[p] /\ accepted'[p] = accepted[p]
      /\ gone \subseteq gone' /\ users \ users' \subseteq gone'
  BY DEF Untouched
<1>2. (\A t \in Types : Everyone \in accepted[p][t] <=> t \in publication[p].everyone)'
  BY <1>1 DEF RowsFit
<1>3. Sensible(p)'
  BY <1>1 DEF RowsFit, Sensible
<1>4. ASSUME NEW c \in Clients, Holds(c, p)' PROVE StepFits(client[c].now)'
  <2>1. Holds(c, p) /\ client'[c].now = client[c].now /\ client[c].now \in Now
    BY <1>4 DEF Holds, Untouched, TypeInv, RequestOK, Requests
  <2>2. client[c].now # NoStep
    BY <2>1, NowFields, NamesDiffer DEF Holds
  <2>3. StepFits(client[c].now)
    BY <2>1 DEF RowsFit
  <2>4. PICK s \in Now : s = client[c].now
    BY <2>1
  <2>5. StepFits(s) /\ s.p = p
    BY <2>1, <2>3, <2>4 DEF StepFits, Holds
  <2>6. StepFits(s)'
    BY <2>2, <2>4, <2>5, StepFitsStill
  <2> QED
    BY <2>1, <2>4, <2>6 DEF StepFits, Fits
<1>5. ASSUME \A c \in Clients : ~Holds(c, p)', NEW t \in Types
      PROVE  Fits(p, t, publication[p].rights[t])'
  <2>1. Fits(p, t, publication[p].rights[t])
    BY <1>5 DEF RowsFit, Holds, Untouched
  <2> QED
    BY <1>1, <2>1 DEF Fits, Owner
<1> QED
  BY <1>2, <1>3, <1>4, <1>5 DEF RowsFit

SameRows == UNCHANGED <<publication, accepted, users, gone>>

(* A step that is at no publication.                                       *)
LEMMA RightsKept ==
    ASSUME TypeInv, RightsInv, UNCHANGED <<publication, accepted, crossed>>, lock \cap Publications \subseteq lock',
           \A d \in Clients : client'[d].now = client[d].now, gone \subseteq gone', users \ users' \subseteq gone'
    PROVE  RightsInv'
<1>1. publication' = publication /\ accepted' = accepted
  OBVIOUS
<1>2. HeldByOne' /\ NotItself'
  BY <1>1 DEF RightsInv, HeldByOne, NotItself, Holds
<1>3. ASSUME NEW p \in Publications \ crossed', Exists(p)' PROVE RowsFit(p)'
  <2>1. RowsFit(p)
    BY <1>1, <1>3 DEF RightsInv, Exists
  <2>2. Untouched(p)
    BY <1>1 DEF Untouched
  <2> QED
    BY <2>1, <2>2, RowsFitStill
<1> QED
  BY <1>2, <1>3 DEF RightsInv

(* A request leaves the publication it held.                               *)
LEMMA Released ==
    ASSUME TypeInv, RightsInv, NEW c \in Clients, OnlyChanges(c), client[c].now # NoStep,
           client'[c].now = NoStep, lock' = lock \ {client[c].now.p}, SameRows, crossed' = crossed,
           client[c].now.p \notin crossed /\ Exists(client[c].now.p) =>
               \A t \in Types : Fits(client[c].now.p, t, publication[client[c].now.p].rights[t])
    PROVE  RightsInv'
<1>1. publication' = publication /\ accepted' = accepted /\ users' = users /\ gone' = gone
  BY DEF SameRows
<1>2. \A d \in Clients : client[d].now \in Now
  BY DEF TypeInv, RequestOK, Requests
<1>3. PICK q \in Publications : q = client[c].now.p
  BY <1>2, NowFields
<1>4. \A d \in Clients, p \in Publications : Holds(d, p)' => Holds(d, p) /\ d # c
  BY NamesDiffer DEF Holds, OnlyChanges, NoStep
<1>5. NotItself'
  BY <1>1 DEF RightsInv, NotItself
<1>6. HeldByOne'
  <2>1. ASSUME NEW p \in Publications \ crossed', NEW d \in Clients, Holds(d, p)'
        PROVE  p \in lock' /\ \A e \in Clients : Holds(e, p)' => d = e
    <3>1. Holds(d, p) /\ d # c /\ p \in Publications \ crossed
      BY <1>4, <2>1
    <3>2. p \in lock /\ \A e \in Clients : Holds(e, p) => d = e
      BY <3>1 DEF RightsInv, HeldByOne
    <3>3. p # q
      BY <1>3, <3>1, <3>2 DEF Holds
    <3> QED
      BY <1>3, <1>4, <3>2, <3>3
  <2> QED
    BY <2>1 DEF HeldByOne
<1>7. ASSUME NEW p \in Publications \ crossed', Exists(p)' PROVE RowsFit(p)'
  <2>1. RowsFit(p) /\ p \notin crossed /\ Exists(p)
    BY <1>1, <1>7 DEF RightsInv, Exists
  <2>2. CASE p # q
    <3>1. Untouched(p)
      BY <1>1, <1>3, <2>2, NamesDiffer DEF Untouched, OnlyChanges, NoStep
    <3> QED
      BY <2>1, <3>1, RowsFitStill
  <2>3. CASE p = q
    <3>1. \A d \in Clients : Holds(d, p) => d = c
      BY <1>3, <2>1, <2>3 DEF RightsInv, HeldByOne, Holds
    <3>2. \A d \in Clients : ~Holds(d, p)'
      BY <1>4, <3>1
    <3>3. \A t \in Types : Fits(p, t, publication[p].rights[t])'
      BY <1>1, <1>3, <2>1, <2>3 DEF Fits, Owner
    <3>4. Sensible(p)' /\ (\A t \in Types : Everyone \in accepted[p][t] <=> t \in publication[p].everyone)'
      BY <1>1, <2>1 DEF RowsFit, Sensible
    <3> QED
      BY <3>2, <3>3, <3>4 DEF RowsFit
  <2> QED
    BY <2>2, <2>3
<1> QED
  BY <1>5, <1>6, <1>7 DEF RightsInv

(* A request comes to publication q, with a first step that lets the rows  *)
(* as they are.                                                            *)
LEMMA Taken ==
    ASSUME TypeInv, RightsInv, NEW c \in Clients, OnlyChanges(c), client[c].now = NoStep,
           NEW q \in Publications, client'[c].now.p = q,
           client'[c].now.step \notin {"rights", "delete_row"}, lock' = lock \cup {q}, SameRows,
           \A p \in Publications \ {q} : p \in crossed' <=> p \in crossed,
           q \notin crossed' => \/ q \notin crossed /\ q \notin lock
                                \/ ~Exists(q) /\ \A d \in Clients : ~Holds(d, q)
    PROVE  RightsInv'
<1>1. publication' = publication /\ accepted' = accepted /\ users' = users /\ gone' = gone
  BY DEF SameRows
<1>2. \A d \in Clients, p \in Publications : d # c \/ p # q => (Holds(d, p)' <=> Holds(d, p))
  BY NamesDiffer DEF Holds, OnlyChanges, NoStep
<1>3. NotItself'
  BY <1>1 DEF RightsInv, NotItself
<1>4. q \notin crossed' => \A d \in Clients : ~Holds(d, q)
  BY DEF RightsInv, HeldByOne
<1>5. HeldByOne'
  <2>1. ASSUME NEW p \in Publications \ crossed', NEW d \in Clients, Holds(d, p)'
        PROVE  p \in lock' /\ \A e \in Clients : Holds(e, p)' => d = e
    <3>1. CASE p = q
      BY <1>2, <1>4, <2>1, <3>1
    <3>2. CASE p # q
      <4>1. Holds(d, p) /\ p \in Publications \ crossed
        BY <1>2, <2>1, <3>2
      <4>2. p \in lock /\ \A e \in Clients : Holds(e, p) => d = e
        BY <4>1 DEF RightsInv, HeldByOne
      <4> QED
        BY <1>2, <3>2, <4>2
    <3> QED
      BY <3>1, <3>2
  <2> QED
    BY <2>1 DEF HeldByOne
<1>6. ASSUME NEW p \in Publications \ crossed', Exists(p)' PROVE RowsFit(p)'
  <2>1. Exists(p)
    BY <1>1, <1>6 DEF Exists
  <2>2. CASE p # q
    <3>1. Untouched(p)
      BY <1>1, <2>2, NamesDiffer DEF Untouched, OnlyChanges, NoStep
    <3>2. RowsFit(p)
      BY <1>6, <2>1, <2>2 DEF RightsInv
    <3> QED
      BY <3>1, <3>2, RowsFitStill
  <2>3. CASE p = q
    <3>1. RowsFit(q) /\ q \notin crossed
      BY <1>6, <2>1, <2>3 DEF RightsInv
    <3>2. \A d \in Clients : Holds(d, q)' => d = c
      BY <1>2, <1>4, <1>6, <2>3
    <3>3. \A t \in Types : Fits(q, t, publication[q].rights[t])
      BY <1>4, <1>6, <2>3, <3>1 DEF RowsFit
    <3>4. \A t \in Types : Fits(q, t, publication[q].rights[t])'
      BY <1>1, <3>3 DEF Fits, Owner
    <3>5. Sensible(q)' /\ (\A t \in Types : Everyone \in accepted[q][t] <=> t \in publication[q].everyone)'
      BY <1>1, <3>1 DEF RowsFit, Sensible
    <3>6. StepFits(client[c].now)'
      BY <3>4 DEF StepFits, Fits
    <3> QED
      BY <2>3, <3>2, <3>4, <3>5, <3>6 DEF RowsFit
  <2> QED
    BY <2>2, <2>3
<1> QED
  BY <1>3, <1>5, <1>6 DEF RightsInv

(* A step of a request at the publication it holds.                        *)
LEMMA Worked ==
    ASSUME TypeInv, RightsInv, NEW c \in Clients, OnlyChanges(c),
           NEW q \in Publications, client[c].now.p = q, client'[c].now.p = q,
           UNCHANGED <<lock, crossed, users, gone>>,
           \A p \in Publications \ {q} : publication'[p] = publication[p] /\ accepted'[p] = accepted[p],
           \A t \in Types : q \notin publication'[q].rights[t],
           q \notin crossed /\ Exists(q)' =>
               /\ (\A t \in Types : Everyone \in accepted[q][t] <=> t \in publication[q].everyone)'
               /\ Sensible(q)' /\ StepFits(client[c].now)'
    PROVE  RightsInv'
<1>1. \A d \in Clients, p \in Publications : Holds(d, p)' <=> Holds(d, p)
  BY DEF Holds, OnlyChanges
<1>2. NotItself'
  BY DEF RightsInv, NotItself
<1>3. HeldByOne'
  BY <1>1 DEF RightsInv, HeldByOne
<1>4. ASSUME NEW p \in Publications \ crossed', Exists(p)' PROVE RowsFit(p)'
  <2>1. CASE p # q
    <3>1. Untouched(p)
      BY <2>1 DEF Untouched, OnlyChanges
    <3>2. RowsFit(p)
      BY <1>4, <2>1 DEF RightsInv, Exists
    <3> QED
      BY <3>1, <3>2, RowsFitStill
  <2>2. CASE p = q
    <3>1. \A d \in Clients : Holds(d, q)' => d = c
      BY <1>1, <1>4, <2>2 DEF RightsInv, HeldByOne, Holds
    <3>2. Holds(c, q)'
      BY DEF Holds
    <3> QED
      BY <1>4, <2>2, <3>1, <3>2 DEF RowsFit
  <2> QED
    BY <2>1, <2>2
<1> QED
  BY <1>2, <1>3, <1>4 DEF RightsInv

-----------------------------------------------------------------------------
(* Users.                                                                  *)

(* A step that is about no user, or of a DELETE of one that has only looked *)
(* for publications yet.                                                   *)
LEMMA UsersKept ==
    ASSUME UsersInv, UNCHANGED <<users, redis, accounts, members, hasty, answered>>, workspaces \subseteq workspaces',
           \A d \in Clients :
               \/ client'[d].on = client[d].on /\ client'[d].later = client[d].later
               \/ /\ client[d].later \in Calm /\ client'[d].later \in Calm
                  /\ client'[d].on \in {client[d].on, Nobody} \cup users
    PROVE  UsersInv'
<1>1. ASSUME NEW u \in Users PROVE UserOK(u)'
  <2>1. \A d \in Clients : \A what \in {Reserving, Saved, Unnamed, Unroled, RowsLast, AccountOnly} :
            Doing(d, u, what)' <=> Doing(d, u, what)
    <3>1. \A what \in {Reserving, Saved, Unnamed, Unroled, RowsLast, AccountOnly} :
              what \subseteq Reserving \cup Unnamed
      BY LaterIs
    <3> QED
      BY <3>1, CalmIs DEF Doing
  <2>2. UserOK(u)
    BY DEF UsersInv
  <2>3. HasRole(u)'
    BY <2>1, <2>2 DEF UserOK, HasRole
  <2>4. Named(u) => Named(u)'
    BY <2>1 DEF Named
  <2>5. (Emptied(u) => Emptied(u)') /\ (IsLeft(u) => IsLeft(u)')
    BY <2>1 DEF Emptied, IsLeft
  <2>6. ASSUME ReservedAlone(u), NEW c \in Clients, Doing(c, u, Reserving)'
        PROVE  /\ u \notin users'
               /\ \A d \in Clients : client'[d].on = u => c = d
               /\ client'[c].later = <<"ensure_user">> => u \in workspaces'
    <3>1. Doing(c, u, Reserving)
      BY <2>1, <2>6
    <3>2. /\ u \notin users /\ \A d \in Clients : client[d].on = u => c = d
          /\ client[c].later = <<"ensure_user">> => u \in workspaces
      BY <2>6, <3>1 DEF ReservedAlone
    <3>3. client'[c].later = client[c].later
      BY <3>1, CalmIs DEF Doing
    <3> QED
      BY <3>2, <3>3, NamesDiffer
  <2>7. ReservedAlone(u) => ReservedAlone(u)'
    BY <2>6 DEF ReservedAlone
  <2> QED
    BY <2>2, <2>3, <2>4, <2>5, <2>7 DEF UserOK
<1> QED
  BY <1>1 DEF UsersInv

(* A step about somebody else.                                             *)
LEMMA OtherUser ==
    ASSUME NEW c \in Clients, OnlyChanges(c), NEW v \in Users, UserOK(v), client[c].on # v, client'[c].on # v,
           v \in users' <=> v \in users, v \in redis' <=> v \in redis, v \in accounts' <=> v \in accounts,
           v \in members' <=> v \in members, v \in workspaces' <=> v \in workspaces, v \in hasty' <=> v \in hasty,
           v \in answered' <=> v \in answered
    PROVE  UserOK(v)'
<1>1. \A d \in Clients : \A what : Doing(d, v, what)' <=> Doing(d, v, what)
  BY DEF Doing, OnlyChanges
<1>2. \A d \in Clients : client[d].on = v \/ client'[d].on = v => d # c /\ client'[d] = client[d]
  BY DEF OnlyChanges
<1>3. HasRole(v)'
  BY <1>1 DEF UserOK, HasRole
<1>4. Named(v) => Named(v)'
  BY <1>1 DEF Named
<1>5. (Emptied(v) => Emptied(v)') /\ (IsLeft(v) => IsLeft(v)')
  BY <1>1 DEF Emptied, IsLeft
<1>6. ReservedAlone(v) => ReservedAlone(v)'
  BY <1>1, <1>2 DEF ReservedAlone, Doing
<1> QED
  BY <1>3, <1>4, <1>5, <1>6 DEF UserOK

LEMMA UserStep ==
    ASSUME TypeInv, NEW c \in Clients, NEW name, AtUser(c, name)
    PROVE  /\ client[c].on \in Users /\ client[c].later \in Reserving \cup Deleting /\ Quiet(client[c])
           /\ Head(client[c].later) = name /\ client[c] # NoClient
<1>1. RequestOK(client[c]) /\ client[c].now \in Now
  BY DEF TypeInv, RequestOK, Requests
<1>2. Quiet(client[c]) /\ client[c].later # <<>> /\ Head(client[c].later) = name
  BY <1>1, NowFields DEF AtUser, At, Quiet
<1> QED
  BY <1>1, <1>2, RequestFields DEF RequestOK, NoClient

LEMMA GoesOnTo ==
    ASSUME TypeInv, NEW c \in Clients, Quiet(client[c]), client[c].on \in Users,
           NEW l \in {<<>>} \cup Reserving \cup Deleting, Continues(c, [client[c] EXCEPT !.later = l])
    PROVE  /\ OnlyChanges(c) /\ RequestOK(client'[c]) /\ client'[c].now = NoStep /\ client'[c].later = l
           /\ client'[c].on = IF l = <<>> THEN Nobody ELSE client[c].on
<1> DEFINE r == [client[c] EXCEPT !.later = l]
<1>1. RequestOK(client[c])
  BY DEF TypeInv
<1>2. /\ r \in Requests /\ r.on = client[c].on /\ r.later = l /\ r.now = NoStep /\ Quiet(r)
  BY <1>1, RequestFields DEF RequestOK, Requests, Quiet
<1>3. Continues(c, r)
  OBVIOUS
<1> HIDE DEF r
<1> QED
  BY <1>2, <1>3, Continued, NamesDiffer

-----------------------------------------------------------------------------
(* Steps at a publication.                                                 *)

LEMMA HeldIs ==
    ASSUME TypeInv, NEW c \in Clients, client[c].now # NoStep
    PROVE  /\ client[c].now \in Now /\ client[c].now.p \in Publications /\ client[c].later \in Calm
           /\ client[c] # NoClient /\ requests \in Nat \ {0}
  BY NowFields DEF TypeInv, RequestOK, Requests, Quiet, Calm, Deleting, NoClient

(* What the steps at a publication leave alone.                            *)
LEMMA AtPublication ==
    ASSUME IInv, NEW c \in Clients, NEW n \in Now, client[c].now # NoStep, Goes(c, n),
           workspaces \subseteq workspaces', publication' \in [Publications -> Rows],
           accepted' \in [Publications -> Rules],
           UNCHANGED <<users, redis, accounts, members, gone, hasty, answered, requests>>
    PROVE  TypeInv' /\ UsersInv' /\ OnlyChanges(c) /\ client'[c].now = n
<1>1. TypeInv
  BY DEF IInv
<1>2. /\ OnlyChanges(c) /\ RequestOK(client'[c]) /\ client'[c].now = n
      /\ client'[c].later = client[c].later /\ client'[c].on = client[c].on
  BY <1>1, GoesTo
<1>3. requests' \in Nat \ {0}
  BY <1>1, HeldIs
<1>4. TypeInv'
  BY <1>1, <1>2, <1>3, TypeKept DEF TypeInv
<1>5. UsersInv'
  BY <1>2, UsersKept DEF IInv, OnlyChanges
<1> QED
  BY <1>2, <1>4, <1>5

LEMMA RaisesKeeps ==
    ASSUME IInv, NEW c \in Clients, client[c] # NoClient, Raises(c),
           client[c].now # NoStep /\ client[c].now.p \notin crossed /\ Exists(client[c].now.p) =>
               \A t \in Types : Fits(client[c].now.p, t, publication[client[c].now.p].rights[t])
    PROVE  TypeInv' /\ RightsInv' /\ (client[c].later \in Calm => UsersInv')
<1>1. TypeInv /\ RightsInv /\ UsersInv
  BY DEF IInv
<1>2. OnlyChanges(c) /\ client'[c] = NoClient
  BY <1>1, Stops
<1>3. /\ lock' = lock \ {client[c].now.p}
      /\ UNCHANGED <<users, workspaces, publication, redis, accounts, members,
                     accepted, gone, crossed, hasty, answered, requests>>
  BY DEF Raises
<1>4. requests' \in Nat \ {0}
  BY <1>1, <1>3 DEF TypeInv
<1>5. TypeInv'
  BY <1>1, <1>2, <1>3, <1>4, TypeKept, NoClientOK DEF TypeInv
<1>6. client'[c].now = NoStep /\ client'[c].on = Nobody /\ client'[c].later = <<>>
  BY <1>2 DEF NoClient
<1>7. RightsInv'
  <2>1. CASE client[c].now = NoStep
    <3>1. \A d \in Clients : client'[d].now = client[d].now
      BY <1>2, <1>6, <2>1 DEF OnlyChanges
    <3>2. lock \cap Publications \subseteq lock'
      BY <1>3, <2>1, NamesDiffer DEF NoStep
    <3> QED
      BY <1>1, <1>3, <3>1, <3>2, RightsKept
  <2>2. CASE client[c].now # NoStep
    BY <1>1, <1>2, <1>3, <1>6, <2>2, Released DEF SameRows
  <2> QED
    BY <2>1, <2>2
<1>8. client[c].later \in Calm => UsersInv'
  BY <1>1, <1>2, <1>3, <1>6, UsersKept DEF OnlyChanges, Calm
<1> QED
  BY <1>5, <1>7, <1>8

(* Where rows are as they should be the request has yet to touch them.     *)
LEMMA HeldFits ==
    ASSUME IInv, NEW c \in Clients, client[c].now # NoStep, client[c].now.p \notin crossed,
           Exists(client[c].now.p)
    PROVE  StepFits(client[c].now) /\ RowsFit(client[c].now.p)
<1>1. TypeInv /\ RightsInv
  BY DEF IInv
<1>2. PICK p \in Publications : p = client[c].now.p
  BY <1>1, HeldIs
<1>3. RowsFit(p) /\ Holds(c, p)
  BY <1>1, <1>2 DEF RightsInv, Holds
<1> QED
  BY <1>2, <1>3 DEF RowsFit

LEMMA RaisesFitting ==
    ASSUME IInv, NEW c \in Clients, client[c].now # NoStep, Raises(c),
           client[c].now.step \notin {"rights", "delete_row"}
    PROVE  IInv'
<1>1. client[c].now.p \notin crossed /\ Exists(client[c].now.p) =>
          \A t \in Types : Fits(client[c].now.p, t, publication[client[c].now.p].rights[t])
  BY HeldFits DEF StepFits
<1>2. client[c] # NoClient /\ client[c].later \in Calm
  BY HeldIs DEF IInv
<1> QED
  BY <1>1, <1>2, RaisesKeeps DEF IInv

LEMMA AccessRightsIs ==
    ASSUME TypeInv, NEW p \in Publications
    PROVE  /\ AccessRights(p) \in Rules
           /\ publication[p] \in Rows /\ publication[p].rights \in [Types -> SUBSET (Users \cup {Role})]
           /\ \A t \in Types : AccessRights(p)[t] = Owner(p) \cup publication[p].rights[t]
                                   \cup IF t \in publication[p].everyone THEN {Everyone} ELSE {}
  BY DEF TypeInv, AccessRights, Rows, Rules, Names, Owner

LEMMA AxiomsSay ==
    ASSUME NEW asked \in Rules, NEW old, NEW p, NEW actor, NEW part, check_rights_axioms(p, asked, old, actor, part)
    PROVE  /\ \A t \in Types : asked[t] \cap Users \subseteq users
           /\ asked["write"] # {} => asked["write"] \cap (Users \cup {Everyone}) # {}
           /\ asked # NoRows => \/ Everyone \in Given(asked, old)["read"]
                                \/ Given(asked, old)["write"] \subseteq Given(asked, old)["read"]
  BY DEF check_rights_axioms, only_valid_user_names, at_least_one_can_write, who_can_write_can_read

LEMMA InsertStepIs ==
    ASSUME NEW p \in Publications, NEW asked \in [Types -> (SUBSET Names) \ {{}}], NEW actor \in Actor
    PROVE  /\ insert_publication(p, asked, actor) \in Now
           /\ insert_publication(p, asked, actor).p = p /\ insert_publication(p, asked, actor).step = "insert"
  BY DEF Now, insert_publication

LEMMA UpdateStepIs ==
    ASSUME NEW p \in Publications, NEW asked \in Rules, NEW actor \in Actor \cup {Nobody}, NEW part \in BOOLEAN
    PROVE  /\ update_publication(p, asked, actor, part) \in Now
           /\ update_publication(p, asked, actor, part).p = p
           /\ update_publication(p, asked, actor, part).step = "update"
  BY DEF Now, update_publication

LEMMA SetRightsIs ==
    ASSUME NEW p \in Publications, NEW id \in Nat, NEW add \in Rules, NEW remove \in Rules,
           \A t \in Types : p \notin add[t]
    PROVE  LET n == SetRights(p, id, add, remove) IN
           /\ n \in Now /\ n # NoStep /\ n.p = p /\ n.step \in {"rights", "unlock"}
           /\ n.step = "rights" => n.id = id /\ n.add = add /\ n.remove = remove
           /\ n.step = "unlock" => add = NoRows /\ remove = NoRows
<1>1. unlock(p) \in Now /\ unlock(p).p = p /\ unlock(p).step = "unlock" /\ unlock(p) # NoStep
  BY DEF Now, unlock, NoStep
<1> DEFINE r == [step |-> "rights", p |-> p, id |-> id, add |-> add, remove |-> remove]
<1>2. r \in Now /\ r.p = p /\ r.step = "rights" /\ r.id = id /\ r.add = add /\ r.remove = remove /\ r # NoStep
  BY DEF Now, NoStep
<1> HIDE DEF r
<1>3. SetRights(p, id, add, remove) = IF add = NoRows /\ remove = NoRows THEN unlock(p) ELSE r
  BY DEF SetRights, r
<1> QED
  BY <1>1, <1>2, <1>3

LEMMA SetRightsFit ==
    ASSUME NEW c \in Clients, NEW p \in Publications, NEW id \in Nat, NEW add \in Rules, NEW remove \in Rules,
           client'[c].now = SetRights(p, id, add, remove), id = publication'[p].id,
           \A t \in Types :
              /\ p \notin add[t]
              /\ add[t] \subseteq users' \cup gone' \cup {Role}
              /\ add[t] \cap publication'[p].rights[t] = {}
              /\ Fits(p, t, (publication[p].rights[t] \cup add[t]) \ remove[t])'
    PROVE  StepFits(client[c].now)'
<1>1. \A t \in Types : p \notin add[t]
  OBVIOUS
<1>2. PICK n \in Now :
          /\ n = client'[c].now /\ n.p = p /\ n.step \in {"rights", "unlock"}
          /\ n.step = "rights" => n.id = id /\ n.add = add /\ n.remove = remove
          /\ n.step = "unlock" => add = NoRows /\ remove = NoRows
  <2>1. LET n == SetRights(p, id, add, remove) IN
           /\ n \in Now /\ n # NoStep /\ n.p = p /\ n.step \in {"rights", "unlock"}
           /\ n.step = "rights" => n.id = id /\ n.add = add /\ n.remove = remove
           /\ n.step = "unlock" => add = NoRows /\ remove = NoRows
    BY <1>1, SetRightsIs
  <2> QED
    BY <2>1
<1>3. CASE n.step = "rights"
  BY <1>2, <1>3 DEF StepFits, Fits
<1>4. CASE n.step = "unlock"
  <2>1. ASSUME NEW t \in Types PROVE Fits(p, t, publication[p].rights[t])'
    <3>1. add[t] = {} /\ remove[t] = {}
      BY <1>2, <1>4 DEF NoRows
    <3>2. (publication'[p].rights[t] \cup add[t]) \ remove[t] = publication'[p].rights[t]
      BY <3>1
    <3> QED
      BY <3>2 DEF Fits
  <2> QED
    BY <1>2, <1>4, <2>1 DEF StepFits, Fits
<1> QED
  BY <1>2, <1>3, <1>4

LEMMA InsertKeeps == ASSUME IInv, NEW c \in Clients, Insert(c) PROVE IInv'
<1>1. TypeInv /\ RightsInv
  BY DEF IInv
<1>2. client[c].now \in Now /\ client[c].now.step = "insert"
  BY <1>1 DEF Insert, At, TypeInv, RequestOK, Requests
<1>3. client[c].now # NoStep /\ requests \in Nat \ {0}
  BY <1>1, <1>2, NowFields, HeldIs
<1>4. PICK s \in Now : s = client[c].now
  BY <1>2
<1>5. PICK p \in Publications, asked \in Rules, id \in Nat \ {0} :
          p = s.p /\ asked = s.asked /\ id = requests /\ \A t \in Types : asked[t] # {}
  <2>1. s.p \in Publications /\ s.asked \in [Types -> (SUBSET Names) \ {{}}]
    BY <1>2, <1>3, <1>4, NowFields
  <2>2. s.asked \in Rules /\ \A t \in Types : s.asked[t] # {}
    BY <2>1 DEF Rules
  <2> QED
    BY <1>3, <2>1, <2>2
<1>6. CASE Raises(c)
  BY <1>2, <1>3, <1>6, RaisesFitting
<1>7. CASE ~Raises(c)
  <2>1. PICK add \in Rules : add = [t \in Types |-> NamesForDb(p, asked[t])]
    BY DEF Rules, NamesForDb
  <2>2. \A t \in Types : add[t] = asked[t] \ (Owner(p) \cup {Everyone})
    BY <2>1 DEF NamesForDb
  <2>3. NoRows \in Rules /\ NoRows \in [Types -> SUBSET (Users \cup {Role})]
    BY DEF NoRows, Rules
  <2>4. PICK row \in Rows : row = [id |-> id, everyone |-> {t \in Types : Everyone \in asked[t]}, rights |-> NoRows]
    BY <2>3 DEF Rows
  <2>5. /\ row.id = id /\ row.rights = NoRows
        /\ \A t \in Types : t \in row.everyone <=> Everyone \in asked[t]
    BY <2>4
  <2>6. /\ check_rights_axioms(p, asked, NoRows, s.actor, FALSE)
        /\ workspaces' = workspaces \cup {p} /\ publication' = [publication EXCEPT ![p] = row]
        /\ Goes(c, SetRights(p, id, add, NoRows)) /\ accepted' = [accepted EXCEPT ![p] = asked]
        /\ UNCHANGED <<users, redis, accounts, members, lock, gone, crossed, hasty, answered, requests>>
    BY <1>4, <1>5, <1>7, <2>1, <2>4 DEF Insert
  <2>7. publication \in [Publications -> Rows] /\ accepted \in [Publications -> Rules]
    BY <1>1 DEF TypeInv
  <2>8. /\ \A t \in Types : asked[t] \cap Users \subseteq users
        /\ asked["write"] \cap (Users \cup {Everyone}) # {}
        /\ Everyone \in asked["read"] \/ asked["write"] \subseteq asked["read"]
    <3>1. asked["write"] # {} /\ asked["read"] # {} /\ asked # NoRows
      BY <1>5 DEF Types, NoRows
    <3>2. Given(asked, NoRows)["read"] = asked["read"] /\ Given(asked, NoRows)["write"] = asked["write"]
      BY <3>1 DEF Given, Types
    <3> QED
      BY <2>6, <3>1, <3>2, AxiomsSay
  <2>9. publication'[p] = row /\ accepted'[p] = asked
    BY <2>6, <2>7
  <2>10. publication' \in [Publications -> Rows] /\ accepted' \in [Publications -> Rules]
    BY <2>6, <2>7
  <2>11. ASSUME NEW t \in Types
         PROVE  add[t] \subseteq users \cup {Role} /\ p \notin add[t]
    <3>1. asked[t] \subseteq Names /\ asked[t] \cap Users \subseteq users
      BY <2>8 DEF Rules
    <3> QED
      BY <2>2, <3>1, NamesDiffer DEF Names, Owner
  <2>12. PICK n \in Now : n = SetRights(p, id, add, NoRows) /\ n.p = p
    BY <2>3, <2>11, SetRightsIs
  <2>13. TypeInv' /\ UsersInv' /\ OnlyChanges(c) /\ client'[c].now = n
    BY <1>3, <2>6, <2>10, <2>12, AtPublication
  <2>14. ASSUME NEW t \in Types
         PROVE  /\ p \notin add[t] /\ p \notin publication'[p].rights[t]
                /\ add[t] \subseteq users' \cup gone' \cup {Role}
                /\ add[t] \cap publication'[p].rights[t] = {}
                /\ Fits(p, t, (publication[p].rights[t] \cup add[t]) \ NoRows[t])'
    <3>1. publication'[p].rights[t] = {} /\ NoRows[t] = {}
      BY <2>5, <2>9 DEF NoRows
    <3>2. Fits(p, t, add[t])'
      BY <2>2, <2>6, <2>9 DEF Fits, Owner
    <3>3. (publication'[p].rights[t] \cup add[t]) \ NoRows[t] = add[t]
      BY <3>1
    <3> QED
      BY <2>6, <2>11, <3>1, <3>2, <3>3 DEF Fits
  <2>15. StepFits(client[c].now)'
    BY <2>3, <2>5, <2>9, <2>12, <2>13, <2>14, SetRightsFit
  <2>16. Sensible(p)'
    BY <2>8, <2>9 DEF Sensible
  <2>17. (\A t \in Types : Everyone \in accepted[p][t] <=> t \in publication[p].everyone)'
    BY <2>5, <2>9
  <2>18. \A q \in Publications \ {p} : publication'[q] = publication[q] /\ accepted'[q] = accepted[q]
    BY <2>6, <2>7
  <2>19. client'[c].now.p = p /\ client[c].now.p = p
    BY <1>4, <1>5, <2>12, <2>13
  <2>20. RightsInv'
    BY <1>1, <2>6, <2>13, <2>14, <2>15, <2>16, <2>17, <2>18, <2>19, Worked
  <2> QED
    BY <2>13, <2>20 DEF IInv
<1> QED
  BY <1>6, <1>7

(* What PATCH adds to the rows and removes is the difference to what is    *)
(* asked for.                                                              *)
LEMMA DifferenceIs ==
    ASSUME TypeInv, NotItself, NEW p \in Publications, NEW asked \in Rules, NEW t \in Types
    PROVE  /\ NamesForDb(p, asked[t]) = asked[t] \ (Owner(p) \cup {Everyone})
           /\ NamesForDb(p, AccessRights(p)[t]) = publication[p].rights[t]
<1>1. AccessRights(p)[t] = Owner(p) \cup publication[p].rights[t]
                             \cup IF t \in publication[p].everyone THEN {Everyone} ELSE {}
  BY AccessRightsIs
<1>2. publication[p].rights[t] \subseteq Users \cup {Role}
  BY AccessRightsIs
<1>3. p \notin publication[p].rights[t] /\ Everyone \notin publication[p].rights[t]
  BY <1>2, NamesDiffer DEF NotItself
<1> QED
  BY <1>1, <1>3 DEF NamesForDb, Owner

LEMMA PatchedSensible ==
    ASSUME TypeInv, NEW p \in Publications, NEW asked \in Rules, NEW actor, NEW part, NEW acc,
           \A t \in Types : Fits(p, t, publication[p].rights[t]),
           \A t \in Types : Everyone \in accepted[p][t] <=> t \in publication[p].everyone,
           Sensible(p), check_rights_axioms(p, asked, AccessRights(p), actor, part),
           acc = Given(asked, accepted[p])
    PROVE  /\ acc["write"] \cap (Users \cup {Everyone}) # {}
           /\ Everyone \in acc["read"] \/ acc["write"] \ acc["read"] \subseteq gone \cup {p}
<1>1. /\ acc["read"] = IF asked["read"] = {} THEN accepted[p]["read"] ELSE asked["read"]
      /\ acc["write"] = IF asked["write"] = {} THEN accepted[p]["write"] ELSE asked["write"]
  BY DEF Given, Types
<1> DEFINE all == Given(asked, AccessRights(p))
<1>2. /\ all["read"] = IF asked["read"] = {} THEN AccessRights(p)["read"] ELSE asked["read"]
      /\ all["write"] = IF asked["write"] = {} THEN AccessRights(p)["write"] ELSE asked["write"]
  BY DEF Given, Types
<1>3. /\ asked["write"] # {} => asked["write"] \cap (Users \cup {Everyone}) # {}
      /\ asked # NoRows => Everyone \in all["read"] \/ all["write"] \subseteq all["read"]
  BY AxiomsSay
<1>4. "read" \in Types /\ "write" \in Types
  BY DEF Types
<1>5. acc["write"] \cap (Users \cup {Everyone}) # {}
  BY <1>1, <1>3 DEF Sensible
<1>6. CASE asked = NoRows
  BY <1>1, <1>4, <1>5, <1>6 DEF Sensible, NoRows
<1>7. CASE asked # NoRows
  <2>1. \A t \in Types : AccessRights(p)[t] = Owner(p) \cup publication[p].rights[t]
                             \cup IF t \in publication[p].everyone THEN {Everyone} ELSE {}
    BY AccessRightsIs
  <2>2. \A t \in Types : publication[p].rights[t] \subseteq Users \cup {Role}
    BY AccessRightsIs
  <2>3. \A t \in Types : Everyone \in AccessRights(p)[t] => Everyone \in accepted[p][t]
    BY <2>1, <2>2, NamesDiffer DEF Owner
  <2>4. \A t \in Types : AccessRights(p)[t] \subseteq accepted[p][t] \cup {p}
    BY <2>1, <2>2, NamesDiffer DEF Owner, Fits
  <2>5. \A t \in Types : accepted[p][t] \subseteq AccessRights(p)[t] \cup gone \cup {p}
    BY <2>1 DEF Owner, Fits
  <2> HIDE DEF all
  <2>6. Everyone \in all["read"] => Everyone \in acc["read"]
    BY <1>1, <1>2, <1>4, <2>3
  <2>7. acc["write"] \subseteq all["write"] \cup gone \cup {p}
    BY <1>1, <1>2, <1>4, <2>5
  <2>8. all["read"] \subseteq acc["read"] \cup {p}
    BY <1>1, <1>2, <1>4, <2>4
  <2>9. all["write"] \subseteq all["read"] => acc["write"] \ acc["read"] \subseteq gone \cup {p}
    BY <2>7, <2>8
  <2> QED
    BY <1>3, <1>5, <1>7, <2>6, <2>9
<1> QED
  BY <1>6, <1>7

LEMMA UpdateKeeps == ASSUME IInv, NEW c \in Clients, Update(c) PROVE IInv'
<1>1. TypeInv /\ RightsInv /\ NotItself
  BY DEF IInv, RightsInv
<1>2. client[c].now \in Now /\ client[c].now.step = "update"
  BY <1>1 DEF Update, At, TypeInv, RequestOK, Requests
<1>3. client[c].now # NoStep
  BY <1>2, NowFields
<1>4. PICK s \in Now : s = client[c].now
  BY <1>2
<1>5. PICK p \in Publications, asked \in Rules : p = s.p /\ asked = s.asked
  BY <1>2, <1>4, NowFields
<1>6. CASE Raises(c)
  BY <1>2, <1>3, <1>6, RaisesFitting
<1>7. CASE ~Raises(c)
  <2>1. publication \in [Publications -> Rows] /\ accepted \in [Publications -> Rules]
    BY <1>1 DEF TypeInv
  <2>2. PICK add \in Rules : add = [t \in Types |-> IF asked[t] = {} THEN {}
                                   ELSE NamesForDb(p, asked[t]) \ NamesForDb(p, AccessRights(p)[t])]
    BY DEF Rules, NamesForDb
  <2>3. PICK remove \in Rules : remove = [t \in Types |-> IF asked[t] = {} THEN {}
                                   ELSE ToRemove(NamesForDb(p, AccessRights(p)[t]), NamesForDb(p, asked[t]))]
    <3>1. AccessRights(p) \in Rules
      BY <1>1, AccessRightsIs
    <3>2. [t \in Types |-> IF asked[t] = {} THEN {}
              ELSE ToRemove(NamesForDb(p, AccessRights(p)[t]), NamesForDb(p, asked[t]))] \in Rules
      BY <3>1 DEF Rules, NamesForDb, ToRemove
    <3> QED
      BY <3>2
  <2>4. PICK everyone \in SUBSET Types :
            everyone = {t \in Types : IF asked[t] = {} THEN t \in publication[p].everyone
                                      ELSE Everyone \in asked[t]}
    OBVIOUS
  <2>5. PICK id \in Nat : id = publication[p].id
    BY <2>1 DEF Rows
  <2>6. PICK row \in Rows : row = [publication[p] EXCEPT !.everyone = everyone]
    BY <2>1 DEF Rows
  <2>7. row.rights = publication[p].rights /\ row.id = id /\ row.everyone = everyone
    BY <2>1, <2>5, <2>6 DEF Rows
  <2>8. PICK acc \in Rules : acc = Given(asked, accepted[p])
    <3>1. accepted[p] \in Rules
      BY <2>1
    <3>2. Given(asked, accepted[p]) \in Rules
      BY <3>1 DEF Given, Rules
    <3> QED
      BY <3>2
  <2>9. /\ Exists(p) /\ check_rights_axioms(p, asked, AccessRights(p), s.actor, s.part)
        /\ publication' = [publication EXCEPT ![p].everyone =
                   {t \in Types : IF asked[t] = {} THEN t \in @ ELSE Everyone \in asked[t]}]
        /\ Goes(c, SetRights(p, id, add, remove)) /\ accepted' = [accepted EXCEPT ![p] = Given(asked, @)]
        /\ UNCHANGED <<users, workspaces, redis, accounts, members, lock, gone, crossed, hasty, answered, requests>>
    BY <1>4, <1>5, <1>7, <2>2, <2>3, <2>5 DEF Update
  <2>10. publication' = [publication EXCEPT ![p] = row] /\ accepted' = [accepted EXCEPT ![p] = acc]
    BY <2>1, <2>4, <2>6, <2>8, <2>9
  <2>11. publication'[p] = row /\ accepted'[p] = acc
    BY <2>1, <2>10
  <2>12. publication' \in [Publications -> Rows] /\ accepted' \in [Publications -> Rules]
    BY <2>1, <2>10
  <2>13. ASSUME NEW t \in Types
         PROVE  add[t] \subseteq users \cup {Role} /\ p \notin add[t]
    <3>1. asked[t] \subseteq Names /\ asked[t] \cap Users \subseteq users
      BY <2>9, AxiomsSay DEF Rules
    <3>2. add[t] \subseteq asked[t] \ (Owner(p) \cup {Everyone})
      BY <2>2 DEF NamesForDb
    <3> QED
      BY <3>1, <3>2, NamesDiffer DEF Names, Owner
  <2>14. PICK n \in Now : n = SetRights(p, id, add, remove) /\ n.p = p
    BY <2>13, SetRightsIs
  <2>15. TypeInv' /\ UsersInv' /\ OnlyChanges(c) /\ client'[c].now = n
    BY <1>3, <2>9, <2>12, <2>14, AtPublication
  <2>16. client'[c].now.p = p /\ client[c].now.p = p
    BY <1>4, <1>5, <2>14, <2>15
  <2>17. \A t \in Types : p \notin publication'[p].rights[t]
    BY <1>1, <2>7, <2>11 DEF NotItself
  <2>18. \A q \in Publications \ {p} : publication'[q] = publication[q] /\ accepted'[q] = accepted[q]
    BY <2>1, <2>10
  <2>19. ASSUME p \notin crossed
         PROVE  /\ (\A t \in Types : Everyone \in accepted[p][t] <=> t \in publication[p].everyone)'
                /\ Sensible(p)' /\ StepFits(client[c].now)'
    <3>1. RowsFit(p) /\ StepFits(client[c].now)
      BY <1>3, <1>4, <1>5, <2>9, <2>19, HeldFits
    <3>2. \A t \in Types : Fits(p, t, publication[p].rights[t])
      BY <1>2, <1>4, <1>5, <3>1 DEF StepFits
    <3>3. Sensible(p) /\ \A t \in Types : Everyone \in accepted[p][t] <=> t \in publication[p].everyone
      BY <3>1 DEF RowsFit
    <3>4. Sensible(p)'
      <4>1. /\ acc["write"] \cap (Users \cup {Everyone}) # {}
            /\ Everyone \in acc["read"] \/ acc["write"] \ acc["read"] \subseteq gone \cup {p}
        BY <1>1, <2>8, <2>9, <3>2, <3>3, PatchedSensible
      <4> QED
        BY <2>9, <2>11, <4>1 DEF Sensible
    <3>5. \A t \in Types : acc[t] = IF asked[t] = {} THEN accepted[p][t] ELSE asked[t]
      BY <2>8 DEF Given
    <3>6. (\A t \in Types : Everyone \in accepted[p][t] <=> t \in publication[p].everyone)'
      BY <2>4, <2>7, <2>11, <3>3, <3>5
    <3>7. ASSUME NEW t \in Types
          PROVE  /\ p \notin add[t]
                 /\ add[t] \subseteq users' \cup gone' \cup {Role}
                 /\ add[t] \cap publication'[p].rights[t] = {}
                 /\ Fits(p, t, (publication[p].rights[t] \cup add[t]) \ remove[t])'
      <4>1. publication'[p].rights[t] = publication[p].rights[t]
        BY <2>7, <2>11
      <4>2. CASE asked[t] = {}
        <5>1. add[t] = {} /\ remove[t] = {} /\ acc[t] = accepted[p][t]
          BY <2>2, <2>3, <3>5, <4>2
        <5>2. (publication'[p].rights[t] \cup add[t]) \ remove[t] = publication[p].rights[t]
          BY <4>1, <5>1
        <5> QED
          BY <2>9, <2>11, <2>13, <3>2, <5>1, <5>2 DEF Fits, Owner
      <4>3. CASE asked[t] # {}
        <5>1. add[t] = (asked[t] \ (Owner(p) \cup {Everyone})) \ publication[p].rights[t]
          BY <1>1, <2>2, <4>3, DifferenceIs
        <5>2. remove[t] = publication[p].rights[t] \ (asked[t] \ (Owner(p) \cup {Everyone}))
          BY <1>1, <2>3, <4>3, DifferenceIs DEF ToRemove
        <5>3. (publication'[p].rights[t] \cup add[t]) \ remove[t] = asked[t] \ (Owner(p) \cup {Everyone})
          BY <4>1, <5>1, <5>2
        <5>4. Fits(p, t, (publication[p].rights[t] \cup add[t]) \ remove[t])'
          BY <2>9, <2>11, <3>5, <4>3, <5>3 DEF Fits, Owner
        <5> QED
          BY <2>9, <2>13, <4>1, <5>1, <5>4
      <4> QED
        BY <4>2, <4>3
    <3>8. StepFits(client[c].now)'
      BY <2>7, <2>11, <2>14, <2>15, <3>7, SetRightsFit
    <3> QED
      BY <3>4, <3>6, <3>8
  <2>20. RightsInv'
    BY <1>1, <2>9, <2>15, <2>16, <2>17, <2>18, <2>19, Worked
  <2> QED
    BY <2>15, <2>20 DEF IInv
<1> QED
  BY <1>6, <1>7

LEMMA RightsKeeps == ASSUME IInv, NEW c \in Clients, Rights(c) PROVE IInv'
<1>1. TypeInv /\ RightsInv /\ NotItself
  BY DEF IInv, RightsInv
<1>2. client[c].now \in Now /\ client[c].now.step = "rights"
  BY <1>1 DEF Rights, At, TypeInv, RequestOK, Requests
<1>3. client[c].now # NoStep
  BY <1>2, NowFields
<1>4. PICK s \in Now : s = client[c].now
  BY <1>2
<1>5. PICK p \in Publications, id \in Nat : p = s.p /\ id = s.id
  BY <1>2, <1>4, NowFields
<1>6. s.add \in Rules /\ s.remove \in Rules /\ \A t \in Types : p \notin s.add[t]
  BY <1>2, <1>4, <1>5, NowFields
<1>7. PICK t \in Types : t = IF s.add["read"] = {} /\ s.remove["read"] = {} THEN "write" ELSE "read"
  BY DEF Types
<1>8. PICK add : add = s.add[t] \cap (users \cup {Role})
  OBVIOUS
<1>9. ASSUME p \notin crossed, Exists(p)
      PROVE  /\ RowsFit(p) /\ id = publication[p].id
             /\ \A d \in Types :
                  /\ s.add[d] \subseteq users \cup gone \cup {Role} /\ s.add[d] \cap publication[p].rights[d] = {}
                  /\ Fits(p, d, (publication[p].rights[d] \cup s.add[d]) \ s.remove[d])
  <2>1. RowsFit(p) /\ StepFits(client[c].now)
    BY <1>3, <1>4, <1>5, <1>9, HeldFits
  <2> QED
    BY <1>2, <1>4, <1>5, <2>1 DEF StepFits, Types
<1>10. CASE add # {} /\ (publication[p].id # id \/ add \cap publication[p].rights[t] # {})
  <2>1. Raises(c)
    BY <1>4, <1>5, <1>7, <1>8, <1>10 DEF Rights
  <2>2. p \in crossed \/ ~Exists(p)
    BY <1>8, <1>9, <1>10
  <2>3. client[c] # NoClient /\ client[c].later \in Calm
    BY <1>1, <1>3, HeldIs
  <2> QED
    BY <1>4, <1>5, <2>1, <2>2, <2>3, RaisesKeeps DEF IInv
<1>11. CASE ~(add # {} /\ (publication[p].id # id \/ add \cap publication[p].rights[t] # {}))
  <2>1. publication \in [Publications -> Rows] /\ accepted \in [Publications -> Rules]
    BY <1>1 DEF TypeInv
  <2>2. PICK a \in Rules : a = [s.add EXCEPT ![t] = {}]
    BY <1>6 DEF Rules
  <2>3. PICK r \in Rules : r = [s.remove EXCEPT ![t] = {}]
    BY <1>6 DEF Rules
  <2>4. \A d \in Types : a[d] = (IF d = t THEN {} ELSE s.add[d]) /\ r[d] = IF d = t THEN {} ELSE s.remove[d]
    BY <1>6, <2>2, <2>3 DEF Rules
  <2>5. /\ publication' = IF publication[p].id # id THEN publication
                          ELSE [publication EXCEPT ![p].rights[t] = (@ \cup add) \ s.remove[t]]
        /\ Goes(c, SetRights(p, id, a, r))
        /\ UNCHANGED <<users, workspaces, redis, accounts, members, lock,
                       accepted, gone, crossed, hasty, answered, requests>>
    BY <1>4, <1>5, <1>7, <1>8, <1>11, <2>2, <2>3 DEF Rights
  <2>6. add \subseteq Users \cup {Role} /\ add \subseteq s.add[t] /\ p \notin add
    BY <1>1, <1>6, <1>8 DEF TypeInv
  <2>7. PICK rows \in [Types -> SUBSET (Users \cup {Role})] :
            rows = IF publication[p].id # id THEN publication[p].rights
                   ELSE [publication[p].rights EXCEPT ![t] = (publication[p].rights[t] \cup add) \ s.remove[t]]
    <3>1. publication[p].rights \in [Types -> SUBSET (Users \cup {Role})]
      BY <2>1 DEF Rows
    <3>2. (publication[p].rights[t] \cup add) \ s.remove[t] \in SUBSET (Users \cup {Role})
      BY <2>6, <3>1
    <3> QED
      BY <3>1, <3>2
  <2>8. \A d \in Types : rows[d] = IF publication[p].id = id /\ d = t
                                   THEN (publication[p].rights[t] \cup add) \ s.remove[t]
                                   ELSE publication[p].rights[d]
    BY <2>1, <2>7 DEF Rows
  <2>9. PICK row \in Rows : row = [publication[p] EXCEPT !.rights = rows]
    BY <2>1 DEF Rows
  <2>10. row.rights = rows /\ row.id = publication[p].id /\ row.everyone = publication[p].everyone
    BY <2>1, <2>9 DEF Rows
  <2>11. publication' = [publication EXCEPT ![p] = row]
    <3>1. CASE publication[p].id # id
      <4>1. row = publication[p]
        BY <2>1, <2>7, <2>9, <3>1 DEF Rows
      <4> QED
        BY <2>1, <2>5, <3>1, <4>1
    <3>2. CASE publication[p].id = id
      BY <2>1, <2>5, <2>7, <2>9, <3>2 DEF Rows
    <3> QED
      BY <3>1, <3>2
  <2>12. publication'[p] = row /\ publication' \in [Publications -> Rows]
    BY <2>1, <2>11
  <2>13. PICK n \in Now : n = SetRights(p, id, a, r) /\ n.p = p
    BY <1>6, <2>4, SetRightsIs
  <2>14. TypeInv' /\ UsersInv' /\ OnlyChanges(c) /\ client'[c].now = n
    BY <1>3, <2>1, <2>5, <2>12, <2>13, AtPublication
  <2>15. client'[c].now.p = p /\ client[c].now.p = p
    BY <1>4, <1>5, <2>13, <2>14
  <2>16. \A d \in Types : p \notin publication'[p].rights[d]
    BY <1>1, <2>6, <2>8, <2>10, <2>12 DEF NotItself
  <2>17. \A q \in Publications \ {p} : publication'[q] = publication[q] /\ accepted'[q] = accepted[q]
    BY <2>1, <2>5, <2>11
  <2>18. ASSUME p \notin crossed, Exists(p)'
         PROVE  /\ (\A d \in Types : Everyone \in accepted[p][d] <=> d \in publication[p].everyone)'
                /\ Sensible(p)' /\ StepFits(client[c].now)'
    <3>1. Exists(p)
      BY <2>10, <2>12, <2>18 DEF Exists
    <3>2. RowsFit(p) /\ id = publication[p].id
      BY <1>9, <2>18, <3>1
    <3>3. Sensible(p)' /\ (\A d \in Types : Everyone \in accepted[p][d] <=> d \in publication[p].everyone)'
      BY <2>5, <2>10, <2>12, <3>2 DEF RowsFit, Sensible
    <3>4. ASSUME NEW d \in Types
          PROVE  /\ p \notin a[d]
                 /\ a[d] \subseteq users' \cup gone' \cup {Role}
                 /\ a[d] \cap publication'[p].rights[d] = {}
                 /\ Fits(p, d, (publication[p].rights[d] \cup a[d]) \ r[d])'
      <4>1. /\ s.add[d] \subseteq users \cup gone \cup {Role} /\ s.add[d] \cap publication[p].rights[d] = {}
            /\ Fits(p, d, (publication[p].rights[d] \cup s.add[d]) \ s.remove[d])
        BY <1>9, <2>18, <3>1
      <4>2. CASE d = t
        <5>1. a[d] = {} /\ r[d] = {} /\ publication'[p].rights[d] = (publication[p].rights[d] \cup add) \ s.remove[d]
          BY <2>4, <2>8, <2>10, <2>12, <3>2, <4>2
        <5>2. s.add[d] \ add \subseteq gone /\ add \subseteq s.add[d]
          BY <1>8, <4>1, <4>2
        <5>3. (publication'[p].rights[d] \cup a[d]) \ r[d] = (publication[p].rights[d] \cup add) \ s.remove[d]
          BY <5>1
        <5>4. Fits(p, d, (publication[p].rights[d] \cup a[d]) \ r[d])'
          BY <2>5, <4>1, <5>2, <5>3 DEF Fits, Owner
        <5> QED
          BY <5>1, <5>4
      <4>3. CASE d # t
        <5>1. a[d] = s.add[d] /\ r[d] = s.remove[d] /\ publication'[p].rights[d] = publication[p].rights[d]
          BY <2>4, <2>8, <2>10, <2>12, <4>3
        <5> QED
          BY <1>6, <2>5, <4>1, <5>1 DEF Fits, Owner
      <4> QED
        BY <4>2, <4>3
    <3>5. StepFits(client[c].now)'
      BY <2>10, <2>12, <2>13, <2>14, <3>2, <3>4, SetRightsFit
    <3> QED
      BY <3>3, <3>5
  <2>19. RightsInv'
    BY <1>1, <2>5, <2>14, <2>15, <2>16, <2>17, <2>18, Worked
  <2> QED
    BY <2>14, <2>19 DEF IInv
<1> QED
  BY <1>10, <1>11

LEMMA UnlockKeeps == ASSUME IInv, NEW c \in Clients, Unlock(c) PROVE IInv'
<1>1. TypeInv /\ RightsInv
  BY DEF IInv
<1>2. client[c].now \in Now /\ client[c].now.step = "unlock"
  BY <1>1 DEF Unlock, At, TypeInv, RequestOK, Requests
<1>3. client[c].now # NoStep
  BY <1>2, NowFields
<1>4. /\ lock' = lock \ {client[c].now.p} /\ Goes(c, NoStep)
      /\ UNCHANGED <<users, workspaces, publication, redis, accounts, members, accepted, gone,
                     crossed, hasty, answered, requests>>
  BY DEF Unlock
<1>5. TypeInv' /\ UsersInv' /\ OnlyChanges(c) /\ client'[c].now = NoStep
  BY <1>1, <1>3, <1>4, AtPublication, NoClientOK DEF TypeInv
<1>6. client[c].now.p \notin crossed /\ Exists(client[c].now.p) =>
          \A t \in Types : Fits(client[c].now.p, t, publication[client[c].now.p].rights[t])
  BY <1>2, <1>3, HeldFits DEF StepFits
<1>7. RightsInv'
  BY <1>1, <1>3, <1>4, <1>5, <1>6, Released DEF SameRows
<1> QED
  BY <1>5, <1>7 DEF IInv

LEMMA DeleteRightsKeeps == ASSUME IInv, NEW c \in Clients, DeleteRights(c) PROVE IInv'
<1>1. TypeInv /\ RightsInv
  BY DEF IInv
<1>2. client[c].now \in Now /\ client[c].now.step = "delete_rights"
  BY <1>1 DEF DeleteRights, At, TypeInv, RequestOK, Requests
<1>3. client[c].now # NoStep
  BY <1>2, NowFields
<1>4. PICK p \in Publications : p = client[c].now.p
  BY <1>2, <1>3, NowFields
<1>5. CASE Raises(c)
  BY <1>2, <1>3, <1>5, RaisesFitting
<1>6. CASE ~Raises(c)
  <2>1. publication \in [Publications -> Rows]
    BY <1>1 DEF TypeInv
  <2>2. PICK row \in Rows : row = [publication[p] EXCEPT !.rights = NoRows]
    BY <2>1 DEF Rows, NoRows
  <2>3. row.rights = NoRows /\ row.id = publication[p].id /\ row.everyone = publication[p].everyone
    BY <2>1, <2>2 DEF Rows
  <2>4. PICK n \in Now : n = [step |-> "delete_row", p |-> p]
    BY DEF Now
  <2>5. /\ Exists(p) /\ publication' = [publication EXCEPT ![p] = row] /\ Goes(c, n)
        /\ UNCHANGED <<users, workspaces, redis, accounts, members, lock,
                       accepted, gone, crossed, hasty, answered, requests>>
    BY <1>4, <1>6, <2>1, <2>2, <2>4 DEF DeleteRights
  <2>6. publication'[p] = row /\ publication' \in [Publications -> Rows]
    BY <2>1, <2>5
  <2>7. TypeInv' /\ UsersInv' /\ OnlyChanges(c) /\ client'[c].now = n
    BY <1>1, <1>3, <2>5, <2>6, AtPublication DEF TypeInv
  <2>8. \A t \in Types : p \notin publication'[p].rights[t]
    BY <2>3, <2>6 DEF NoRows
  <2>9. ASSUME p \notin crossed
        PROVE  /\ (\A t \in Types : Everyone \in accepted[p][t] <=> t \in publication[p].everyone)'
               /\ Sensible(p)' /\ StepFits(client[c].now)'
    <3>1. RowsFit(p)
      BY <1>3, <1>4, <2>5, <2>9, HeldFits
    <3>2. Sensible(p)' /\ (\A t \in Types : Everyone \in accepted[p][t] <=> t \in publication[p].everyone)'
      BY <2>3, <2>5, <2>6, <3>1 DEF RowsFit, Sensible
    <3>3. StepFits(client[c].now)'
      BY <2>3, <2>4, <2>6, <2>7 DEF StepFits
    <3> QED
      BY <3>2, <3>3
  <2>10. client'[c].now.p = p
    BY <2>4, <2>7
  <2>11. \A q \in Publications \ {p} : publication'[q] = publication[q] /\ accepted'[q] = accepted[q]
    BY <2>1, <2>5
  <2>12. RightsInv'
    BY <1>1, <1>4, <2>5, <2>7, <2>8, <2>9, <2>10, <2>11, Worked
  <2> QED
    BY <2>7, <2>12 DEF IInv
<1> QED
  BY <1>5, <1>6

LEMMA DeleteRowKeeps == ASSUME IInv, NEW c \in Clients, DeleteRow(c) PROVE IInv'
<1>1. TypeInv /\ RightsInv
  BY DEF IInv
<1>2. client[c].now \in Now /\ client[c].now.step = "delete_row"
  BY <1>1 DEF DeleteRow, At, TypeInv, RequestOK, Requests
<1>3. client[c].now # NoStep
  BY <1>2, NowFields
<1>4. PICK p \in Publications : p = client[c].now.p
  BY <1>2, <1>3, NowFields
<1>5. CASE publication[p].rights # NoRows
  <2>1. Raises(c) /\ client[c] # NoClient /\ client[c].later \in Calm
    BY <1>1, <1>3, <1>4, <1>5, HeldIs DEF DeleteRow
  <2>2. p \in crossed \/ ~Exists(p)
    BY <1>2, <1>3, <1>4, <1>5, HeldFits DEF StepFits
  <2> QED
    BY <1>4, <2>1, <2>2, RaisesKeeps DEF IInv
<1>6. CASE publication[p].rights = NoRows
  <2>1. publication \in [Publications -> Rows]
    BY <1>1 DEF TypeInv
  <2>2. PICK n \in Now : n = unlock(p)
    BY DEF Now, unlock
  <2>3. PICK row \in Rows : row = NoRow
    BY DEF NoRow, NoRows, Rows
  <2>4. /\ publication' = [publication EXCEPT ![p] = row] /\ Goes(c, n)
        /\ UNCHANGED <<users, workspaces, redis, accounts, members, lock,
                       accepted, gone, crossed, hasty, answered, requests>>
    BY <1>4, <1>6, <2>2, <2>3 DEF DeleteRow
  <2>5. publication'[p] = row /\ publication' \in [Publications -> Rows]
    BY <2>1, <2>4
  <2>6. TypeInv' /\ UsersInv' /\ OnlyChanges(c) /\ client'[c].now = n
    BY <1>1, <1>3, <2>4, <2>5, AtPublication DEF TypeInv
  <2>7. ~Exists(p)' /\ \A t \in Types : p \notin publication'[p].rights[t]
    BY <2>3, <2>5 DEF NoRow, NoRows, Exists
  <2>8. client'[c].now.p = p
    BY <2>2, <2>6 DEF unlock
  <2>9. \A q \in Publications \ {p} : publication'[q] = publication[q] /\ accepted'[q] = accepted[q]
    BY <2>1, <2>4
  <2>10. RightsInv'
    BY <1>1, <1>4, <2>4, <2>6, <2>7, <2>8, <2>9, Worked
  <2> QED
    BY <2>6, <2>10 DEF IInv
<1> QED
  BY <1>5, <1>6

-----------------------------------------------------------------------------
(* Requests begin, and come to a publication.                              *)

(* A request that is at no publication comes to q.                         *)
LEMMA ComesTo ==
    ASSUME IInv, NEW c \in Clients, OnlyChanges(c), RequestOK(client'[c]), client[c].now = NoStep,
           client'[c].on = client[c].on, client'[c].later = client[c].later,
           NEW q \in Publications, client'[c].now.p = q, requests' \in Nat \ {0},
           client'[c].now.step \notin {"rights", "delete_row"}, lock' = lock \cup {q},
           UNCHANGED <<users, workspaces, publication, redis, accounts, members, accepted, gone, hasty, answered>>,
           \A p \in Publications \ {q} : p \in crossed' <=> p \in crossed,
           q \notin crossed' => \/ q \notin crossed /\ q \notin lock
                                \/ ~Exists(q) /\ \A d \in Clients : ~Holds(d, q)
    PROVE  IInv'
<1>1. TypeInv /\ RightsInv /\ UsersInv
  BY DEF IInv
<1>2. TypeInv'
  BY <1>1, TypeKept DEF TypeInv
<1>3. RightsInv'
  BY <1>1, Taken DEF SameRows
<1>4. UsersInv'
  BY <1>1, UsersKept DEF OnlyChanges
<1> QED
  BY <1>2, <1>3, <1>4 DEF IInv

LEMMA BeginsIs ==
    ASSUME TypeInv, NEW c \in Clients, Begins(c)
    PROVE  client[c] = NoClient /\ client[c].now = NoStep /\ requests' \in Nat \ {0}
  BY DEF Begins, TypeInv, NoClient

LEMMA ListsAre == \A l \in Lists \cup {{}} : l \in SUBSET Names
  BY RightsAssumption DEF Names

LEMMA PostKeeps ==
    ASSUME IInv, NEW c \in Clients, NEW p \in Publications, NEW actor \in Actors,
           NEW sent \in [Types -> Lists \cup {{}}], Begins(c), Post(c, p, actor, sent)
    PROVE  IInv'
<1>1. TypeInv
  BY DEF IInv
<1>2. client[c] = NoClient /\ client[c].now = NoStep /\ requests' \in Nat \ {0}
  BY <1>1, BeginsIs
<1>3. actor \in Actor
  BY <1>1 DEF Actors, Actor, TypeInv
<1>4. PICK asked \in [Types -> (SUBSET Names) \ {{}}] : asked = PostRights(sent, actor)
  <2>1. \A t \in Types : sent[t] \in SUBSET Names
    BY ListsAre
  <2>2. actor = Anonym \/ {actor} \in (SUBSET Names) \ {{}}
    BY <1>3 DEF Actor, Names
  <2>3. {Everyone} \in (SUBSET Names) \ {{}}
    BY DEF Names
  <2>4. PostRights(sent, actor) \in [Types -> (SUBSET Names) \ {{}}]
    BY <2>1, <2>2, <2>3 DEF PostRights
  <2> QED
    BY <2>4
<1>5. PICK n \in Now : n = insert_publication(p, asked, actor) /\ n.p = p /\ n.step = "insert"
  <2>1. /\ insert_publication(p, asked, actor) \in Now
        /\ insert_publication(p, asked, actor).p = p /\ insert_publication(p, asked, actor).step = "insert"
    BY <1>3, InsertStepIs
  <2> QED
    BY <2>1
<1>6. /\ ~Exists(p) /\ p \notin lock /\ lock' = lock \cup {p} /\ Goes(c, n)
      /\ crossed' = IF \E d \in Clients : client[d].now.p = p THEN crossed ELSE crossed \ {p}
      /\ UNCHANGED <<users, workspaces, publication, redis, accounts, members, accepted, gone, hasty, answered>>
  BY <1>4, <1>5 DEF Post
<1>7. /\ OnlyChanges(c) /\ RequestOK(client'[c]) /\ client'[c].now = n
      /\ client'[c].later = client[c].later /\ client'[c].on = client[c].on
  BY <1>1, <1>2, <1>6, GoesTo
<1>8. p \notin crossed' => p \notin crossed \/ \A d \in Clients : ~Holds(d, p)
  BY <1>6 DEF Holds
<1> QED
  BY <1>2, <1>5, <1>6, <1>7, <1>8, ComesTo

LEMMA PatchKeeps ==
    ASSUME IInv, NEW c \in Clients, NEW p \in Publications, NEW actor \in Actors,
           NEW asked \in [Types -> Lists \cup {{}}], Begins(c), Patch(c, p, actor, asked)
    PROVE  IInv'
<1>1. TypeInv
  BY DEF IInv
<1>2. client[c] = NoClient /\ client[c].now = NoStep /\ requests' \in Nat \ {0}
  BY <1>1, BeginsIs
<1>3. actor \in Actor /\ asked \in Rules
  BY <1>1, ListsAre DEF Actors, Actor, TypeInv, Rules
<1>4. PICK n \in Now : n = update_publication(p, asked, actor, FALSE) /\ n.p = p /\ n.step = "update"
  <2>1. /\ update_publication(p, asked, actor, FALSE) \in Now
        /\ update_publication(p, asked, actor, FALSE).p = p
        /\ update_publication(p, asked, actor, FALSE).step = "update"
    BY <1>3, UpdateStepIs
  <2> QED
    BY <2>1
<1>5. /\ p \notin lock /\ lock' = lock \cup {p} /\ Goes(c, n)
      /\ UNCHANGED <<users, workspaces, publication, redis, accounts, members,
                     accepted, gone, crossed, hasty, answered>>
  BY <1>4 DEF Patch
<1>6. /\ OnlyChanges(c) /\ RequestOK(client'[c]) /\ client'[c].now = n
      /\ client'[c].later = client[c].later /\ client'[c].on = client[c].on
  BY <1>1, <1>2, <1>5, GoesTo
<1> QED
  BY <1>2, <1>4, <1>5, <1>6, ComesTo

LEMMA LockPatchKeeps == ASSUME IInv, NEW c \in Clients, LockPatch(c) PROVE IInv'
<1>1. TypeInv /\ RequestOK(client[c]) /\ client[c].now \in Now
  BY DEF IInv, TypeInv, RequestOK, Requests
<1>2. client[c].now = NoStep
  BY <1>1, NowFields DEF LockPatch, At
<1>3. PICK patch \in client[c].patch :
          IF patch.p \in lock \/ ~Exists(patch.p) THEN Raises(c)
          ELSE /\ lock' = lock \cup {patch.p}
               /\ Continues(c, [client[c] EXCEPT !.patch = @ \ {patch},
                                    !.now = update_publication(patch.p, patch.asked, client[c].on, TRUE)])
               /\ UNCHANGED <<users, workspaces, publication, redis, accounts, members,
                              accepted, gone, crossed, hasty, answered, requests>>
  BY DEF LockPatch
<1>4. patch.p \in Publications /\ patch.asked \in Rules
  BY <1>1, RequestFields DEF RequestOK, Patches
<1>5. /\ client[c].on \in Users /\ client[c].later # <<>> /\ client[c].later \notin Reserving \cup Unnamed
      /\ client[c] # NoClient
  BY <1>1, RequestFields DEF RequestOK, Quiet, NoClient
<1>6. client[c].later \in Calm
  BY <1>1, <1>5, RequestFields, LaterIs DEF RequestOK, Calm
<1>7. CASE Raises(c)
  BY <1>2, <1>5, <1>6, <1>7, RaisesKeeps DEF IInv
<1>8. CASE ~Raises(c)
  <2>1. PICK n \in Now : /\ n = update_publication(patch.p, patch.asked, client[c].on, TRUE)
                         /\ n.p = patch.p /\ n.step = "update"
    <3>1. client[c].on \in Actor \cup {Nobody}
      BY <1>5 DEF Actor
    <3>2. /\ update_publication(patch.p, patch.asked, client[c].on, TRUE) \in Now
          /\ update_publication(patch.p, patch.asked, client[c].on, TRUE).p = patch.p
          /\ update_publication(patch.p, patch.asked, client[c].on, TRUE).step = "update"
      BY <1>4, <3>1, UpdateStepIs
    <3> QED
      BY <3>2
  <2> DEFINE r == [client[c] EXCEPT !.patch = @ \ {patch}, !.now = n]
  <2>2. r \in Requests /\ r.on = client[c].on /\ r.later = client[c].later /\ r.now = n
    BY <1>1, RequestFields DEF RequestOK, Requests
  <2>3. Continues(c, r)
    BY <1>3, <1>8, <2>1
  <2> HIDE DEF r
  <2>4. /\ OnlyChanges(c) /\ RequestOK(client'[c]) /\ client'[c].now = n
        /\ client'[c].later = client[c].later /\ client'[c].on = client[c].on
    BY <1>1, <1>5, <2>2, <2>3, Continued, NamesDiffer
  <2>5. requests' \in Nat \ {0}
    BY <1>1, <1>3, <1>5, <1>8 DEF TypeInv
  <2> QED
    BY <1>2, <1>3, <1>4, <1>8, <2>1, <2>4, <2>5, ComesTo
<1> QED
  BY <1>7, <1>8

LEMMA LockDeleteKeeps == ASSUME IInv, NEW c \in Clients, LockDelete(c) PROVE IInv'
<1>1. TypeInv /\ RequestOK(client[c]) /\ client[c].now \in Now
  BY DEF IInv, TypeInv, RequestOK, Requests
<1>2. client[c].now = NoStep /\ client[c].patch = {}
  BY <1>1, NowFields DEF LockDelete, At
<1>3. PICK p \in client[c].delete :
          /\ lock' = lock \cup {p}
          /\ Continues(c, [client[c] EXCEPT !.delete = @ \ {p}, !.now = [step |-> "delete_rights", p |-> p]])
          /\ crossed' = IF p \in lock THEN crossed \cup {p} ELSE crossed
  BY DEF LockDelete
<1>4. p \in Publications
  BY <1>1, RequestFields DEF RequestOK
<1>5. client[c] # NoClient /\ client[c].later \notin Reserving \cup Unnamed
  BY <1>1 DEF RequestOK, Quiet, NoClient
<1>6. PICK n \in Now : n = [step |-> "delete_rights", p |-> p] /\ n.p = p /\ n.step = "delete_rights"
  <2>1. [step |-> "delete_rights", p |-> p] \in Now
    BY <1>4 DEF Now
  <2>2. PICK n \in Now : n = [step |-> "delete_rights", p |-> p]
    BY <2>1
  <2> QED
    BY <2>2
<1> DEFINE r == [client[c] EXCEPT !.delete = @ \ {p}, !.now = n]
<1>7. r \in Requests /\ r.on = client[c].on /\ r.later = client[c].later /\ r.now = n /\ r.patch = {}
  BY <1>1, <1>2, RequestFields DEF RequestOK, Requests
<1>8. Continues(c, r)
  BY <1>3, <1>6
<1> HIDE DEF r
<1>9. r.on = Nobody <=> r.later = <<>>
  BY <1>1, <1>7 DEF RequestOK
<1>10. /\ OnlyChanges(c) /\ RequestOK(client'[c]) /\ client'[c].now = n
       /\ client'[c].later = client[c].later /\ client'[c].on = client[c].on
  BY <1>1, <1>5, <1>7, <1>8, <1>9, Continued
<1>11. requests' \in Nat \ {0}
  BY <1>1, <1>5 DEF LockDelete, TypeInv
<1>12. UNCHANGED <<users, workspaces, publication, redis, accounts, members, accepted, gone, hasty, answered>>
  BY DEF LockDelete
<1> QED
  BY <1>2, <1>3, <1>4, <1>6, <1>10, <1>11, <1>12, ComesTo

(* A request begins, or goes on to look for publications: nothing is held  *)
(* or changed yet.                                                         *)
LEMMA Looks ==
    ASSUME IInv, NEW c \in Clients, OnlyChanges(c), RequestOK(client'[c]),
           client[c].now = NoStep, client'[c].now = NoStep, requests' \in Nat \ {0},
           UNCHANGED <<users, workspaces, publication, redis, lock, accepted, gone, crossed>>
    PROVE  TypeInv' /\ RightsInv'
<1>1. TypeInv /\ RightsInv
  BY DEF IInv
<1>2. TypeInv'
  BY <1>1, TypeKept DEF TypeInv
<1>3. \A d \in Clients : client'[d].now = client[d].now
  BY DEF OnlyChanges
<1>4. RightsInv'
  BY <1>1, <1>3, RightsKept
<1> QED
  BY <1>2, <1>4

LEMMA DeleteKeeps ==
    ASSUME IInv, NEW c \in Clients, NEW p \in Publications, NEW actor, Begins(c), Delete(c, p, actor)
    PROVE  IInv'
<1>1. TypeInv /\ UsersInv
  BY DEF IInv
<1>2. client[c] = NoClient /\ client[c].now = NoStep /\ requests' \in Nat \ {0}
  BY <1>1, BeginsIs
<1> DEFINE r == [NoClient EXCEPT !.delete = {p}]
<1>3. /\ r \in Requests /\ r.on = Nobody /\ r.later = <<>> /\ r.patch = {} /\ r.now = NoStep
  BY NoClientOK DEF NoClient, Requests
<1>4. /\ Continues(c, r)
      /\ UNCHANGED <<users, workspaces, publication, redis, accounts, members, lock,
                     accepted, gone, crossed, hasty, answered>>
  BY DEF Delete
<1> HIDE DEF r
<1>5. /\ OnlyChanges(c) /\ RequestOK(client'[c]) /\ client'[c].now = NoStep
      /\ client'[c].later = <<>> /\ client'[c].on = Nobody
  BY <1>1, <1>3, <1>4, Continued
<1>6. client[c].on = Nobody /\ client[c].later = <<>>
  BY <1>2 DEF NoClient
<1>7. UsersInv'
  BY <1>1, <1>4, <1>5, <1>6, UsersKept DEF OnlyChanges
<1> QED
  BY <1>2, <1>4, <1>5, <1>7, Looks DEF IInv

LEMMA DeleteUserKeeps ==
    ASSUME IInv, NEW c \in Clients, NEW u \in Users, Begins(c), DeleteUser(c, u)
    PROVE  IInv'
<1>1. TypeInv /\ UsersInv
  BY DEF IInv
<1>2. client[c] = NoClient /\ client[c].now = NoStep /\ requests' \in Nat \ {0}
  BY <1>1, BeginsIs
<1>3. PICK l \in Finding : l = <<"public_publications", "own_publications">>
  BY DEF Finding
<1> DEFINE r == [NoClient EXCEPT !.on = u, !.later = l]
<1>4. /\ r \in Requests /\ r.on = u /\ r.later = l /\ Quiet(r) /\ r.now = NoStep
  BY NoClientOK DEF NoClient, Requests, Deleting, Quiet
<1>5. /\ u \in users /\ Continues(c, r)
      /\ UNCHANGED <<users, workspaces, publication, redis, accounts, members, lock,
                     accepted, gone, crossed, hasty, answered>>
  BY <1>3 DEF DeleteUser
<1> HIDE DEF r
<1>6. l # <<>> /\ l \in Calm
  BY LaterIs DEF Calm
<1>7. /\ OnlyChanges(c) /\ RequestOK(client'[c]) /\ client'[c].now = NoStep
      /\ client'[c].later = l /\ client'[c].on = u
  BY <1>1, <1>4, <1>5, <1>6, Continued, NamesDiffer
<1>8. client[c].later \in Calm
  BY <1>2 DEF NoClient, Calm
<1>9. UsersInv'
  BY <1>1, <1>5, <1>6, <1>7, <1>8, UsersKept DEF OnlyChanges
<1> QED
  BY <1>2, <1>5, <1>7, <1>9, Looks DEF IInv

(* What DELETE of a user finds is to be patched or deleted first.          *)
LEMMA Finds ==
    ASSUME IInv, NEW c \in Clients, NEW name, AtUser(c, name), NEW l \in Finding, client[c].later \in Finding,
           NEW patch \in SUBSET Patches, NEW delete \in SUBSET Publications,
           Continues(c, [client[c] EXCEPT !.later = l, !.delete = delete, !.patch = patch]),
           UNCHANGED <<users, workspaces, publication, redis, accounts, members, lock,
                       accepted, gone, crossed, hasty, answered, requests>>
    PROVE  IInv'
<1>1. TypeInv /\ UsersInv /\ RequestOK(client[c])
  BY DEF IInv, TypeInv
<1>2. client[c].on \in Users /\ Quiet(client[c]) /\ client[c] # NoClient
  BY <1>1, UserStep
<1> DEFINE r == [client[c] EXCEPT !.later = l, !.delete = delete, !.patch = patch]
<1>3. r \in Requests /\ r.on = client[c].on /\ r.later = l /\ r.now = NoStep
  BY <1>1, <1>2, RequestFields DEF RequestOK, Requests, Deleting, Quiet
<1>4. Continues(c, r)
  OBVIOUS
<1> HIDE DEF r
<1>5. l # <<>> /\ l \in Calm /\ client[c].later \in Calm
  BY LaterIs DEF Calm
<1>6. l \notin {<<>>} \cup Reserving \cup Unnamed
  BY <1>5, CalmIs
<1>7. /\ OnlyChanges(c) /\ RequestOK(client'[c]) /\ client'[c].now = NoStep
      /\ client'[c].later = l /\ client'[c].on = client[c].on
  BY <1>1, <1>2, <1>3, <1>4, <1>5, <1>6, Continued, NamesDiffer
<1>8. UsersInv'
  BY <1>1, <1>5, <1>7, UsersKept DEF OnlyChanges
<1>9. requests' \in Nat \ {0} /\ client[c].now = NoStep
  BY <1>1, <1>2 DEF TypeInv, Quiet
<1> QED
  BY <1>7, <1>8, <1>9, Looks DEF IInv

LEMMA PublicPublicationsKeeps == ASSUME IInv, NEW c \in Clients, PublicPublications(c) PROVE IInv'
<1>1. TypeInv
  BY DEF IInv
<1>2. AtUser(c, "public_publications")
  BY DEF PublicPublications
<1>3. PICK l \in Reserving \cup Deleting : l = client[c].later /\ Head(l) = "public_publications"
  BY <1>1, <1>2, UserStep
<1>4. l \in Finding /\ Tail(l) \in Finding
  BY <1>3, HeadOfReserving, HeadOfDeleting
<1>5. PICK u : u = client[c].on
  OBVIOUS
<1>6. PICK named \in SUBSET Publications :
          named = {p \in Publications : Exists(p) /\ IsPublic(p) /\ u \in AccessRights(p)["read"]}
  OBVIOUS
<1>7. PICK deleted \in SUBSET Publications : deleted = {p \in named : check_if_is_only_rw(AccessRights(p), u)}
  OBVIOUS
<1>8. PICK patch \in SUBSET Patches :
          patch = {[p |-> p, asked |-> Without(AccessRights(p), u)] : p \in named \ deleted}
  <2>1. ASSUME NEW p \in Publications PROVE [p |-> p, asked |-> Without(AccessRights(p), u)] \in Patches
    <3>1. AccessRights(p) \in Rules
      BY <1>1, AccessRightsIs
    <3>2. Without(AccessRights(p), u) \in Rules
      BY <3>1 DEF Without, Rules
    <3> QED
      BY <3>2 DEF Patches
  <2> QED
    BY <2>1
<1>9. CASE Raises(c)
  <2>1. client[c].now = NoStep /\ client[c] # NoClient /\ client[c].later \in Calm
    BY <1>1, <1>2, <1>3, <1>4, UserStep DEF Quiet, Calm
  <2> QED
    BY <1>9, <2>1, RaisesKeeps DEF IInv
<1>10. CASE ~Raises(c)
  <2>1. /\ Continues(c, [client[c] EXCEPT !.later = Tail(l), !.delete = deleted, !.patch = patch])
        /\ UNCHANGED <<users, workspaces, publication, redis, accounts, members, lock,
                       accepted, gone, crossed, hasty, answered, requests>>
    BY <1>3, <1>5, <1>6, <1>7, <1>8, <1>10 DEF PublicPublications
  <2> QED
    BY <1>2, <1>3, <1>4, <2>1, Finds
<1> QED
  BY <1>9, <1>10

LEMMA DeleteUserStepsAre ==
    ASSUME NEW providers \in ProviderOrders(<<"delete_account">>, <<"delete_user", "delete_workspace">>)
    PROVE  DeleteUserSteps(providers) \in Finding
<1>1. \/ providers = <<"delete_account", "delete_user", "delete_workspace">>
      \/ providers = <<"delete_user", "delete_workspace", "delete_account">>
  BY Concats DEF ProviderOrders
<1>2. \A x, y, z : <<"delete_from_redis", "delete_user_roles">> \o <<x, y, z>> =
                    <<"delete_from_redis", "delete_user_roles", x, y, z>>
  BY Concats
<1>3. CASE providers = <<"delete_account", "delete_user", "delete_workspace">>
  BY <1>2, <1>3 DEF DeleteUserSteps, Finding
<1>4. CASE providers = <<"delete_user", "delete_workspace", "delete_account">>
  BY <1>2, <1>4 DEF DeleteUserSteps, Finding
<1> QED
  BY <1>1, <1>3, <1>4

LEMMA OwnPublicationsKeeps == ASSUME IInv, NEW c \in Clients, OwnPublications(c) PROVE IInv'
<1>1. TypeInv
  BY DEF IInv
<1>2. AtUser(c, "own_publications")
  BY DEF OwnPublications
<1>3. PICK l \in Reserving \cup Deleting : l = client[c].later /\ Head(l) = "own_publications"
  BY <1>1, <1>2, UserStep
<1>4. client[c].later \in Finding
  BY <1>3, HeadOfReserving, HeadOfDeleting
<1>5. PICK u \in Users : u = client[c].on
  BY <1>1, <1>2, UserStep
<1>6. PICK own \in SUBSET Publications :
          own = IF Exists(u) /\ is_user_in_access_rule(u, AccessRights(u)["write"]) THEN {u} ELSE {}
  BY DEF Publications
<1>7. PICK providers \in ProviderOrders(<<"delete_account">>, <<"delete_user", "delete_workspace">>) :
          Continues(c, [client[c] EXCEPT !.delete = own, !.later = DeleteUserSteps(providers)])
  BY <1>5, <1>6 DEF OwnPublications
<1>8. DeleteUserSteps(providers) \in Finding
  BY DeleteUserStepsAre
<1>9. client[c] = [on |-> client[c].on, now |-> client[c].now, patch |-> client[c].patch,
                   delete |-> client[c].delete, later |-> client[c].later] /\ client[c].patch = {}
  BY <1>1, <1>2, RequestFields DEF TypeInv, RequestOK, AtUser
<1>10. Continues(c, [client[c] EXCEPT !.later = DeleteUserSteps(providers), !.delete = own, !.patch = {}])
  <2>1. [client[c] EXCEPT !.delete = own, !.later = DeleteUserSteps(providers)] =
        [client[c] EXCEPT !.later = DeleteUserSteps(providers), !.delete = own, !.patch = {}]
    BY <1>9
  <2> QED
    BY <1>7, <2>1
<1>11. UNCHANGED <<users, workspaces, publication, redis, accounts, members, lock,
                   accepted, gone, crossed, hasty, answered, requests>>
  BY DEF OwnPublications
<1> QED
  BY <1>2, <1>4, <1>8, <1>10, <1>11, Finds

-----------------------------------------------------------------------------
(* Steps about a user.                                                     *)

LEMMA AloneSaved ==
    ASSUME NEW u \in Users, UserOK(u), u \notin hasty, NEW c \in Clients, Doing(c, u, Reserving)
    PROVE  /\ u \notin users /\ \A d \in Clients : client[d].on = u => c = d
           /\ client[c].later = <<"ensure_user">> => u \in workspaces
           /\ u \in redis => client[c].later \in Saved
<1>1. ReservedAlone(u) /\ Named(u)
  BY DEF UserOK
<1>2. u \notin users /\ \A d \in Clients : client[d].on = u => c = d
  BY <1>1 DEF ReservedAlone
<1> QED
  BY <1>1, <1>2 DEF ReservedAlone, Named, Doing

(* A step of a reservation.                                                *)
LEMMA Reserves ==
    ASSUME NEW u \in Users, UserOK(u), NEW c \in Clients, OnlyChanges(c), Doing(c, u, Reserving),
           \/ client'[c].on = u /\ client'[c].later \in Reserving
           \/ client'[c].on = Nobody /\ client'[c].later = <<>>,
           UNCHANGED <<members, hasty, answered>>, workspaces \subseteq workspaces',
           u \notin hasty =>
              /\ client'[c].later \in Reserving => u \notin users'
              /\ client'[c].later = <<"ensure_user">> => u \in workspaces'
              /\ u \in redis' => u \in users' \/ client'[c].later \in Saved
    PROVE  UserOK(u)'
<1>1. /\ ~Doing(c, u, Unroled)' /\ ~Doing(c, u, Unnamed)' /\ ~Doing(c, u, RowsLast)'
      /\ ~Doing(c, u, AccountOnly)'
  BY LaterIs DEF Doing
<1>2. \A d \in Clients : d # c => client'[d] = client[d]
  BY DEF OnlyChanges
<1>3. HasRole(u)'
  BY <1>1, <1>2 DEF UserOK, HasRole, Doing
<1>4. ASSUME u \notin hasty PROVE ReservedAlone(u)' /\ Named(u)' /\ Emptied(u)' /\ IsLeft(u)'
  <2>1. \A d \in Clients : client[d].on = u => c = d
    BY <1>4, AloneSaved
  <2>2. \A d \in Clients : client'[d].on = u => d = c
    BY <1>2, <2>1
  <2>3. client'[c].on = u => client'[c].later \in Reserving
    BY NamesDiffer
  <2>4. client'[c].later \in Reserving \cup Saved => client'[c].on = u
    BY LaterIs
  <2>5. ReservedAlone(u)'
    BY <1>4, <2>2, <2>3 DEF ReservedAlone, Doing
  <2>6. Named(u)'
    BY <1>1, <1>4, <2>2, <2>4 DEF Named, Doing
  <2>7. Emptied(u)'
    BY <1>1, <2>2 DEF Emptied, Doing
  <2>8. u \notin answered
    BY <1>4 DEF UserOK, IsLeft
  <2>9. IsLeft(u)'
    BY <2>8 DEF IsLeft
  <2> QED
    BY <2>5, <2>6, <2>7, <2>9
<1> QED
  BY <1>3, <1>4 DEF UserOK

(* A step of a DELETE.                                                     *)
LEMMA Deletes ==
    ASSUME NEW u \in Users, UserOK(u), NEW c \in Clients, OnlyChanges(c), Doing(c, u, Deleting),
           \/ client'[c].on = u /\ client'[c].later \in Deleting
           \/ client'[c].on = Nobody /\ client'[c].later = <<>>,
           hasty' = hasty, members' \subseteq members, redis' \subseteq redis, accounts' \subseteq accounts,
           users' \subseteq users,
           client'[c].later \in Unroled => u \notin members',
           u \in members' => u \in workspaces',
           u \notin hasty =>
              /\ client'[c].later \in Unnamed => u \notin redis'
              /\ u \in redis' => u \in users'
              /\ client'[c].later \in RowsLast => u \notin accounts'
              /\ client'[c].later \in AccountOnly => u \notin users'
              /\ u \in answered' => u \in answered \/ u \notin users' \cup redis' \cup accounts' \cup members'
    PROVE  UserOK(u)'
<1>1. \A d \in Clients : d # c => client'[d] = client[d]
  BY DEF OnlyChanges
<1>2. HasRole(u)'
  BY <1>1, NamesDiffer DEF UserOK, HasRole, Doing
<1>3. ASSUME u \notin hasty PROVE ReservedAlone(u)' /\ Named(u)' /\ Emptied(u)' /\ IsLeft(u)'
  <2>1. \A d \in Clients : ~Doing(d, u, Reserving)
    BY <1>3, LaterIs, AloneSaved DEF Doing
  <2>2. \A d \in Clients : ~Doing(d, u, Reserving)'
    BY <1>1, <2>1, LaterIs DEF Doing
  <2>3. ReservedAlone(u)'
    BY <2>2 DEF ReservedAlone
  <2>4. Named(u)'
    BY <1>1, <1>3, NamesDiffer DEF UserOK, Named, Doing
  <2>5. Emptied(u)'
    BY <1>1, <1>3, NamesDiffer DEF UserOK, Emptied, Doing
  <2>6. IsLeft(u)'
    BY <1>3, <2>2 DEF UserOK, IsLeft
  <2> QED
    BY <2>3, <2>4, <2>5, <2>6
<1> QED
  BY <1>2, <1>3 DEF UserOK

LEMMA AboutUser ==
    ASSUME IInv, NEW c \in Clients, NEW name, AtUser(c, name), NEW u \in Users, u = client[c].on,
           NEW l \in {<<>>} \cup Reserving \cup Deleting, Continues(c, [client[c] EXCEPT !.later = l]),
           UNCHANGED <<publication, accepted, crossed, lock, hasty, requests>>,
           users' \subseteq workspaces' \cap Users, redis' \subseteq Users, gone \subseteq gone',
           gone' \subseteq Users, users \ users' \subseteq gone',
           \A v \in Users \ {u} : /\ v \in users' <=> v \in users
                                  /\ v \in redis' <=> v \in redis
                                  /\ v \in accounts' <=> v \in accounts
                                  /\ v \in members' <=> v \in members
                                  /\ v \in workspaces' <=> v \in workspaces
                                  /\ v \in answered' <=> v \in answered,
           UserOK(u)'
    PROVE  IInv'
<1>1. TypeInv /\ RightsInv /\ UsersInv
  BY DEF IInv
<1>2. Quiet(client[c]) /\ client[c] # NoClient
  BY <1>1, UserStep
<1>3. /\ OnlyChanges(c) /\ RequestOK(client'[c]) /\ client'[c].now = NoStep /\ client'[c].later = l
      /\ client'[c].on = IF l = <<>> THEN Nobody ELSE client[c].on
  BY <1>1, <1>2, GoesOnTo
<1>4. requests' \in Nat \ {0}
  BY <1>1, <1>2 DEF TypeInv
<1>5. TypeInv'
  BY <1>1, <1>3, <1>4, TypeKept DEF TypeInv
<1>6. \A d \in Clients : client'[d].now = client[d].now
  BY <1>2, <1>3 DEF OnlyChanges, Quiet
<1>7. RightsInv'
  BY <1>1, <1>6, RightsKept
<1>8. ASSUME NEW v \in Users PROVE UserOK(v)'
  <2>1. CASE v = u
    BY <2>1
  <2>2. CASE v # u
    <3>1. UserOK(v) /\ client[c].on # v /\ client'[c].on # v
      BY <1>1, <1>3, <2>2, NamesDiffer DEF UsersInv
    <3> QED
      BY <1>3, <2>2, <3>1, OtherUser
  <2> QED
    BY <2>1, <2>2
<1> QED
  BY <1>5, <1>7, <1>8 DEF IInv, UsersInv

(* Where a step about u leads.                                             *)
LEMMA StepAbout ==
    ASSUME IInv, NEW c \in Clients, NEW name, AtUser(c, name), NEW u, u = client[c].on,
           NEW l \in {<<>>} \cup Reserving \cup Deleting, Continues(c, [client[c] EXCEPT !.later = l])
    PROVE  /\ OnlyChanges(c) /\ client'[c].later = l
           /\ client'[c].on = IF l = <<>> THEN Nobody ELSE u
  BY UserStep, GoesOnTo DEF IInv

LEMMA AtUserIs ==
    ASSUME IInv, NEW c \in Clients, NEW name, AtUser(c, name)
    PROVE  /\ client[c].on \in Users /\ UserOK(client[c].on)
           /\ client[c].later \in Reserving \cup Deleting /\ Head(client[c].later) = name
           /\ client[c].now = NoStep /\ client[c] # NoClient
           /\ users \subseteq workspaces \cap Users /\ redis \subseteq Users /\ gone \subseteq Users
           /\ \A s : Doing(c, client[c].on, s) <=> client[c].later \in s
  BY UserStep DEF IInv, UsersInv, TypeInv, Quiet, Doing

(* What a reservation has yet to do is not what a DELETE has.              *)
LEMMA ReservingBy ==
    ASSUME NEW l \in Reserving \cup Deleting,
           Head(l) \in {"ensure_account", "ensure_workspace", "save_in_redis", "ensure_user"}
    PROVE  l \in Reserving
  BY HeadOfDeleting

LEMMA DeletingBy ==
    ASSUME NEW l \in Reserving \cup Deleting,
           Head(l) \in {"delete_from_redis", "delete_user_roles", "delete_account", "delete_user", "delete_workspace"}
    PROVE  l \in Deleting
  BY HeadOfReserving

LEMMA EnsureAccountKeeps == ASSUME IInv, NEW c \in Clients, EnsureAccount(c) PROVE IInv'
<1>1. /\ AtUser(c, "ensure_account") /\ accounts' = accounts \cup {client[c].on} /\ GoesOn(c)
      /\ UNCHANGED <<users, workspaces, publication, redis, members, lock,
                     accepted, gone, crossed, hasty, answered, requests>>
  BY DEF EnsureAccount
<1>2. PICK u \in Users : u = client[c].on /\ UserOK(u)
  BY <1>1, AtUserIs
<1>3. PICK l \in Reserving : l = client[c].later /\ Head(l) = "ensure_account" /\ Doing(c, u, Reserving)
  BY <1>1, <1>2, AtUserIs, ReservingBy
<1>4. Tail(l) \in Reserving /\ Tail(l) # <<"ensure_user">> /\ (l \in Saved => Tail(l) \in Saved)
  BY <1>3, HeadOfReserving
<1>5. Continues(c, [client[c] EXCEPT !.later = Tail(l)])
  BY <1>1, <1>3 DEF GoesOn
<1>6. OnlyChanges(c) /\ client'[c].later = Tail(l) /\ client'[c].on = u
  <2>1. PICK m \in Reserving : m = Tail(l) /\ m # <<>>
    BY <1>4, LaterIs
  <2>2. m \in {<<>>} \cup Reserving \cup Deleting /\ Continues(c, [client[c] EXCEPT !.later = m])
    BY <1>5, <2>1
  <2> QED
    BY <1>1, <1>2, <2>1, <2>2, StepAbout
<1>7. UserOK(u)'
  <2>1. u \notin hasty => u \notin users /\ (u \in redis => Tail(l) \in Saved)
    BY <1>2, <1>3, <1>4, AloneSaved
  <2> QED
    BY <1>1, <1>2, <1>3, <1>4, <1>6, <2>1, Reserves
<1> QED
  BY <1>1, <1>2, <1>4, <1>5, <1>7, AboutUser, AtUserIs

LEMMA SaveInRedisKeeps ==
    ASSUME IInv, NEW c \in Clients, AtUser(c, "save_in_redis"), GoesOn(c), redis' = redis \cup {client[c].on},
           UNCHANGED <<users, workspaces, publication, accounts, members, lock,
                       accepted, gone, crossed, hasty, answered, requests>>
    PROVE  IInv'
<1>1. PICK u \in Users : u = client[c].on /\ UserOK(u)
  BY AtUserIs
<1>2. PICK l \in Reserving : l = client[c].later /\ Head(l) = "save_in_redis" /\ Doing(c, u, Reserving)
  BY <1>1, AtUserIs, ReservingBy
<1>3. Tail(l) \in Reserving /\ Tail(l) # <<"ensure_user">> /\ Tail(l) \in Saved
  BY <1>2, HeadOfReserving
<1>4. Continues(c, [client[c] EXCEPT !.later = Tail(l)])
  BY <1>2 DEF GoesOn
<1>5. OnlyChanges(c) /\ client'[c].later = Tail(l) /\ client'[c].on = u
  <2>1. PICK m \in Reserving : m = Tail(l) /\ m # <<>>
    BY <1>3, LaterIs
  <2>2. m \in {<<>>} \cup Reserving \cup Deleting /\ Continues(c, [client[c] EXCEPT !.later = m])
    BY <1>4, <2>1
  <2> QED
    BY <1>1, <2>1, <2>2, StepAbout
<1>6. UserOK(u)'
  <2>1. u \notin hasty => u \notin users
    BY <1>1, <1>2, AloneSaved
  <2> QED
    BY <1>1, <1>2, <1>3, <1>5, <2>1, Reserves
<1> QED
  BY <1>1, <1>3, <1>4, <1>6, AboutUser, AtUserIs

LEMMA EnsureWorkspaceKeeps ==
    ASSUME IInv, NEW c \in Clients, AtUser(c, "ensure_workspace"), GoesOn(c),
           workspaces' = workspaces \cup {client[c].on},
           UNCHANGED <<users, publication, redis, accounts, members, lock,
                       accepted, gone, crossed, hasty, answered, requests>>
    PROVE  IInv'
<1>1. PICK u \in Users : u = client[c].on /\ UserOK(u)
  BY AtUserIs
<1>2. PICK l \in Reserving : l = client[c].later /\ Head(l) = "ensure_workspace" /\ Doing(c, u, Reserving)
  BY <1>1, AtUserIs, ReservingBy
<1>3. Tail(l) \in Reserving /\ (l \in Saved => Tail(l) \in Saved)
  BY <1>2, HeadOfReserving
<1>4. Continues(c, [client[c] EXCEPT !.later = Tail(l)])
  BY <1>2 DEF GoesOn
<1>5. OnlyChanges(c) /\ client'[c].later = Tail(l) /\ client'[c].on = u
  <2>1. PICK m \in Reserving : m = Tail(l) /\ m # <<>>
    BY <1>3, LaterIs
  <2>2. m \in {<<>>} \cup Reserving \cup Deleting /\ Continues(c, [client[c] EXCEPT !.later = m])
    BY <1>4, <2>1
  <2> QED
    BY <1>1, <2>1, <2>2, StepAbout
<1>6. UserOK(u)'
  <2>1. u \notin hasty => u \notin users /\ (u \in redis => Tail(l) \in Saved)
    BY <1>1, <1>2, <1>3, AloneSaved
  <2> QED
    BY <1>1, <1>2, <1>3, <1>5, <2>1, Reserves
<1>7. users \subseteq workspaces \cap Users /\ redis \subseteq Users /\ gone \subseteq Users
  BY AtUserIs
<1> QED
  BY <1>1, <1>3, <1>4, <1>6, <1>7, AboutUser

LEMMA EnsureUserKeeps ==
    ASSUME IInv, NEW c \in Clients, AtUser(c, "ensure_user"), GoesOn(c),
           client[c].on \in workspaces, users' = users \cup {client[c].on},
           UNCHANGED <<workspaces, publication, redis, accounts, members, lock,
                       accepted, gone, crossed, hasty, answered, requests>>
    PROVE  IInv'
<1>1. PICK u \in Users : u = client[c].on /\ UserOK(u)
  BY AtUserIs
<1>2. PICK l \in Reserving : l = client[c].later /\ Head(l) = "ensure_user" /\ Doing(c, u, Reserving)
  BY <1>1, AtUserIs, ReservingBy
<1>3. Tail(l) = <<>>
  BY <1>2, HeadOfReserving
<1>4. Continues(c, [client[c] EXCEPT !.later = Tail(l)])
  BY <1>2 DEF GoesOn
<1>5. OnlyChanges(c) /\ client'[c].later = <<>> /\ client'[c].on = Nobody
  BY <1>1, <1>3, <1>4, StepAbout
<1>6. UserOK(u)'
  BY <1>1, <1>2, <1>5, LaterIs, Reserves
<1>7. users \subseteq workspaces \cap Users /\ redis \subseteq Users /\ gone \subseteq Users
  BY AtUserIs
<1> QED
  BY <1>1, <1>3, <1>4, <1>6, <1>7, AboutUser

(* A step about u that raises: the request is over.                        *)
LEMMA RaisesAbout ==
    ASSUME IInv, NEW c \in Clients, NEW name, AtUser(c, name), Raises(c), NEW u \in Users, u = client[c].on, UserOK(u)'
    PROVE  IInv'
<1>1. OnlyChanges(c) /\ client'[c] = NoClient
  BY Stops DEF IInv
<1>2. client[c].now = NoStep /\ client[c] # NoClient
  BY AtUserIs
<1>3. TypeInv' /\ RightsInv'
  BY <1>2, RaisesKeeps
<1>4. UNCHANGED <<users, workspaces, redis, accounts, members, hasty, answered>>
  BY DEF Raises
<1>5. ASSUME NEW v \in Users, v # u PROVE UserOK(v)'
  <2>1. UserOK(v) /\ client[c].on # v /\ client'[c].on # v
    BY <1>1, <1>5, NamesDiffer DEF IInv, UsersInv, NoClient
  <2> QED
    BY <1>1, <1>4, <2>1, OtherUser
<1> QED
  BY <1>3, <1>5 DEF IInv, UsersInv

LEMMA NoWorkspaceKeeps == ASSUME IInv, NEW c \in Clients, NoWorkspace(c) PROVE IInv'
<1>1. AtUser(c, "ensure_user") /\ client[c].on \notin workspaces /\ Raises(c)
  BY DEF NoWorkspace
<1>2. PICK u \in Users : u = client[c].on /\ UserOK(u)
  BY <1>1, AtUserIs
<1>3. PICK l \in Reserving : l = client[c].later /\ Head(l) = "ensure_user" /\ Doing(c, u, Reserving)
  BY <1>1, <1>2, AtUserIs, ReservingBy
<1>4. u \in hasty
  BY <1>1, <1>2, <1>3, HeadOfReserving, AloneSaved
<1>5. OnlyChanges(c) /\ client'[c].on = Nobody /\ client'[c].later = <<>>
  BY <1>1, Stops DEF IInv, NoClient
<1>6. UNCHANGED <<users, workspaces, redis, accounts, members, hasty, answered>>
  BY <1>1 DEF Raises
<1>7. UserOK(u)'
  BY <1>2, <1>3, <1>4, <1>5, <1>6, Reserves
<1> QED
  BY <1>1, <1>2, <1>7, RaisesAbout

LEMMA DeleteFromRedisKeeps ==
    ASSUME IInv, NEW c \in Clients, AtUser(c, "delete_from_redis"), GoesOn(c),
           redis' = IF client[c].on \in users THEN redis \ {client[c].on} ELSE redis,
           UNCHANGED <<users, workspaces, publication, accounts, members, lock,
                       accepted, gone, crossed, hasty, answered, requests>>
    PROVE  IInv'
<1>1. PICK u \in Users : u = client[c].on /\ UserOK(u)
  BY AtUserIs
<1>2. PICK l \in Deleting : l = client[c].later /\ Head(l) = "delete_from_redis" /\ Doing(c, u, Deleting)
  BY <1>1, AtUserIs, DeletingBy
<1>3. PICK m \in Unnaming : m = Tail(l)
  BY <1>2, HeadOfDeleting
<1>4. m # <<>> /\ m \in Deleting /\ m \notin Unroled /\ m \notin RowsLast /\ m \notin AccountOnly
  BY LaterIs
<1>5. Continues(c, [client[c] EXCEPT !.later = m])
  BY <1>2, <1>3 DEF GoesOn
<1>6. OnlyChanges(c) /\ client'[c].later = m /\ client'[c].on = u
  BY <1>1, <1>4, <1>5, StepAbout
<1>7. l \in Finding /\ l \notin Unnamed
  BY <1>2, HeadOfDeleting, CalmIs DEF Calm
<1>8. UserOK(u)'
  <2>1. u \notin hasty => u \notin redis'
    <3>1. ASSUME u \notin hasty, u \in redis, u \notin users PROVE FALSE
      <4>1. PICK d \in Clients : Doing(d, u, Reserving)
        BY <1>1, <3>1, LaterIs DEF UserOK, Named, Doing
      <4>2. d = c
        BY <1>1, <3>1, <4>1, AloneSaved
      <4> QED
        BY <1>2, <4>1, <4>2, LaterIs DEF Doing
    <3> QED
      BY <1>1, <3>1
  <2>2. u \in members => u \in workspaces
    BY <1>1 DEF UserOK, HasRole
  <2> QED
    BY <1>1, <1>2, <1>4, <1>6, <2>1, <2>2, Deletes
<1> QED
  BY <1>1, <1>4, <1>5, <1>8, AboutUser, AtUserIs

LEMMA DeleteUserRolesKeeps == ASSUME IInv, NEW c \in Clients, DeleteUserRoles(c) PROVE IInv'
<1>1. /\ AtUser(c, "delete_user_roles") /\ GoesOn(c) /\ members' = members \ {client[c].on}
      /\ UNCHANGED <<users, workspaces, publication, redis, accounts, lock, accepted, gone,
                     crossed, hasty, answered, requests>>
  BY DEF DeleteUserRoles
<1>2. PICK u \in Users : u = client[c].on /\ UserOK(u)
  BY <1>1, AtUserIs
<1>3. PICK l \in Deleting : l = client[c].later /\ Head(l) = "delete_user_roles" /\ Doing(c, u, Deleting)
  BY <1>1, <1>2, AtUserIs, DeletingBy
<1>4. PICK m \in BothLeft : m = Tail(l)
  BY <1>3, HeadOfDeleting
<1>5. m # <<>> /\ m \in Deleting /\ m \notin RowsLast /\ m \notin AccountOnly
  BY LaterIs
<1>6. Continues(c, [client[c] EXCEPT !.later = m])
  BY <1>1, <1>3, <1>4 DEF GoesOn
<1>7. OnlyChanges(c) /\ client'[c].later = m /\ client'[c].on = u
  BY <1>1, <1>2, <1>5, <1>6, StepAbout
<1>8. l \in Unnamed /\ l \notin AccountLast
  BY <1>3, HeadOfDeleting, LaterIs
<1>9. UserOK(u)'
  <2>1. u \notin hasty => u \notin redis
    BY <1>2, <1>3, <1>8 DEF UserOK, Named, Doing
  <2> QED
    BY <1>1, <1>2, <1>3, <1>5, <1>7, <1>8, <2>1, Deletes
<1> QED
  BY <1>1, <1>2, <1>5, <1>6, <1>9, AboutUser, AtUserIs

(* A DELETE that came to the account or the rows of the user.              *)
LEMMA Unroling ==
    ASSUME IInv, NEW c \in Clients, NEW name \in {"delete_account", "delete_user", "delete_workspace"},
           AtUser(c, name)
    PROVE  /\ client[c].later \in Unroled /\ Head(client[c].later) = name
           /\ Doing(c, client[c].on, Deleting) /\ client[c].on \notin members
           /\ client[c].on \notin hasty =>
                 /\ client[c].on \notin redis
                 /\ client[c].later \in RowsLast => client[c].on \notin accounts
                 /\ client[c].later \in AccountOnly => client[c].on \notin users
<1>1. PICK u \in Users : u = client[c].on /\ UserOK(u)
  BY AtUserIs
<1>2. PICK l \in Deleting : l = client[c].later /\ Head(l) = name /\ Doing(c, u, Deleting)
  BY <1>1, AtUserIs, DeletingBy
<1>3. l \in Unroled
  BY <1>2, HeadOfDeleting, LaterIs
<1>4. l \in Unnamed
  BY <1>3, LaterIs
<1> QED
  BY <1>1, <1>2, <1>3, <1>4 DEF UserOK, HasRole, Named, Emptied, Doing

LEMMA DeleteAccountKeeps == ASSUME IInv, NEW c \in Clients, DeleteAccount(c) PROVE IInv'
<1>1. /\ AtUser(c, "delete_account") /\ accounts' = accounts \ {client[c].on} /\ GoesOn(c) /\ Answers(c)
      /\ UNCHANGED <<users, workspaces, publication, redis, members, lock, accepted, gone, crossed, hasty, requests>>
  BY DEF DeleteAccount
<1>2. PICK u \in Users : u = client[c].on /\ UserOK(u)
  BY <1>1, AtUserIs
<1>3. PICK l \in Unroled : l = client[c].later /\ Head(l) = "delete_account"
  BY <1>1, Unroling
<1>4. /\ Doing(c, u, Deleting) /\ u \notin members
      /\ u \notin hasty => u \notin redis /\ (l \in AccountOnly => u \notin users)
  BY <1>1, <1>2, <1>3, Unroling
<1>5. PICK m \in RowsLast \cup {<<>>} : m = Tail(l)
  BY <1>3, HeadOfDeleting, LaterIs
<1>6. m \in {<<>>} \cup Deleting /\ m \notin AccountOnly
  BY LaterIs
<1>7. Continues(c, [client[c] EXCEPT !.later = m])
  BY <1>1, <1>3, <1>5 DEF GoesOn
<1>8. OnlyChanges(c) /\ client'[c].later = m /\ client'[c].on = IF m = <<>> THEN Nobody ELSE u
  BY <1>1, <1>2, <1>6, <1>7, StepAbout
<1>9. l \in AccountOnly \/ answered' = answered
  BY <1>1, <1>3, HeadOfDeleting, LaterIs DEF Answers
<1>10. UserOK(u)'
  <2>1. u \in members' => u \in workspaces'
    BY <1>1, <1>4
  <2>2. u \notin hasty => /\ u \notin redis' /\ u \notin accounts'
                          /\ u \in answered' => u \in answered \/ u \notin users' \cup redis' \cup accounts' \cup members'
    BY <1>1, <1>2, <1>4, <1>9
  <2> QED
    BY <1>1, <1>2, <1>4, <1>6, <1>8, <2>1, <2>2, Deletes
<1>11. \A v \in Users \ {u} : v \in answered' <=> v \in answered
  BY <1>1, <1>2 DEF Answers
<1> QED
  BY <1>1, <1>2, <1>6, <1>7, <1>10, <1>11, AboutUser, AtUserIs

LEMMA DeleteUserRowKeeps == ASSUME IInv, NEW c \in Clients, DeleteUserRow(c) PROVE IInv'
<1>1. AtUser(c, "delete_user")
  BY DEF DeleteUserRow
<1>2. PICK u \in Users : u = client[c].on /\ UserOK(u)
  BY <1>1, AtUserIs
<1>3. PICK l \in Unroled : l = client[c].later /\ Head(l) = "delete_user"
  BY <1>1, Unroling
<1>4. /\ Doing(c, u, Deleting) /\ u \notin members
      /\ u \notin hasty => u \notin redis /\ (l \in RowsLast => u \notin accounts)
  BY <1>1, <1>2, <1>3, Unroling
<1>5. users \subseteq workspaces \cap Users /\ redis \subseteq Users /\ gone \subseteq Users
  BY <1>1, AtUserIs
<1>6. CASE u \in users /\ \E p \in Publications, t \in Types : u \in publication[p].rights[t]
  <2>1. Raises(c)
    BY <1>2, <1>6 DEF DeleteUserRow
  <2>2. OnlyChanges(c) /\ client'[c].on = Nobody /\ client'[c].later = <<>>
    BY <2>1, Stops DEF IInv, NoClient
  <2>3. UNCHANGED <<users, workspaces, redis, accounts, members, hasty, answered>>
    BY <2>1 DEF Raises
  <2>4. UserOK(u)'
    BY <1>2, <1>4, <1>5, <1>6, <2>2, <2>3, LaterIs, Deletes
  <2> QED
    BY <1>1, <1>2, <2>1, <2>4, RaisesAbout
<1>7. CASE ~(u \in users /\ \E p \in Publications, t \in Types : u \in publication[p].rights[t])
  <2>1. PICK m \in Unroled : /\ m = (IF u \in users THEN <<"delete_workspace">> ELSE <<>>) \o Tail(l)
                             /\ l \in RowsLast \/ m \notin RowsLast
                             /\ l \in RowsLast \/ u \in users \/ m \in AccountLast
    <3>1. /\ l \in Deleting /\ <<>> \o Tail(l) = Tail(l)
          /\ IF l \in RowsLast THEN Tail(l) \in RowsLast /\ <<"delete_workspace">> \o Tail(l) \in RowsLast
                               ELSE Tail(l) \in AccountLast /\ <<"delete_workspace">> \o Tail(l) \in BothLeft
      BY <1>3, HeadOfDeleting, LaterIs
    <3>2. CASE u \in users
      BY <3>1, <3>2, LaterIs
    <3>3. CASE u \notin users
      BY <3>1, <3>3, LaterIs
    <3> QED
      BY <3>2, <3>3
  <2>2. m \in Deleting /\ m # <<>>
    BY LaterIs
  <2>3. /\ users' = users \ {u} /\ gone' = gone \cup ({u} \cap users)
        /\ Continues(c, [client[c] EXCEPT !.later = m])
        /\ UNCHANGED <<workspaces, publication, redis, accounts, members, lock,
                       accepted, crossed, requests, hasty, answered>>
    BY <1>2, <1>3, <1>7, <2>1 DEF DeleteUserRow
  <2>4. OnlyChanges(c) /\ client'[c].later = m /\ client'[c].on = u
    BY <1>1, <1>2, <2>2, <2>3, StepAbout
  <2>5. UserOK(u)'
    BY <1>2, <1>4, <1>5, <2>1, <2>2, <2>3, <2>4, Deletes
  <2> QED
    BY <1>1, <1>2, <1>5, <2>2, <2>3, <2>5, AboutUser
<1> QED
  BY <1>6, <1>7

LEMMA DeleteWorkspaceKeeps == ASSUME IInv, NEW c \in Clients, DeleteWorkspace(c) PROVE IInv'
<1>1. AtUser(c, "delete_workspace")
  BY DEF DeleteWorkspace
<1>2. PICK u \in Users : u = client[c].on /\ UserOK(u)
  BY <1>1, AtUserIs
<1>3. PICK l \in Unroled : l = client[c].later /\ Head(l) = "delete_workspace"
  BY <1>1, Unroling
<1>4. /\ Doing(c, u, Deleting) /\ u \notin members
      /\ u \notin hasty => u \notin redis /\ (l \in RowsLast => u \notin accounts)
  BY <1>1, <1>2, <1>3, Unroling
<1>5. users \subseteq workspaces \cap Users /\ redis \subseteq Users /\ gone \subseteq Users
  BY <1>1, AtUserIs
<1>6. CASE u \in workspaces /\ (Exists(u) \/ u \in users)
  <2>1. Raises(c)
    BY <1>2, <1>6 DEF DeleteWorkspace
  <2>2. OnlyChanges(c) /\ client'[c].on = Nobody /\ client'[c].later = <<>>
    BY <2>1, Stops DEF IInv, NoClient
  <2>3. UNCHANGED <<users, workspaces, redis, accounts, members, hasty, answered>>
    BY <2>1 DEF Raises
  <2>4. UserOK(u)'
    BY <1>2, <1>4, <1>5, <1>6, <2>2, <2>3, LaterIs, Deletes
  <2> QED
    BY <1>1, <1>2, <2>1, <2>4, RaisesAbout
<1>7. CASE ~(u \in workspaces /\ (Exists(u) \/ u \in users))
  <2>1. PICK m \in {<<>>} \cup Unroled :
            /\ m = Tail(l)
            /\ l \notin RowsLast => m \in AccountLast
            /\ l \in RowsLast \/ m \notin RowsLast
    <3>1. l \in Deleting
      BY LaterIs
    <3> QED
      BY <1>3, <3>1, HeadOfDeleting, LaterIs
  <2>2. m \in {<<>>} \cup Deleting
    BY LaterIs
  <2>3. /\ workspaces' = workspaces \ {u} /\ Continues(c, [client[c] EXCEPT !.later = m])
        /\ UNCHANGED <<users, publication, redis, accounts, members, lock, accepted, gone, crossed, hasty, requests>>
        /\ Answers(c)
    BY <1>2, <1>3, <1>7, <2>1 DEF DeleteWorkspace, GoesOn
  <2>4. OnlyChanges(c) /\ client'[c].later = m /\ client'[c].on = IF m = <<>> THEN Nobody ELSE u
    BY <1>1, <1>2, <2>2, <2>3, StepAbout
  <2>5. u \notin users
    BY <1>5, <1>7
  <2>6. u \notin hasty /\ u \in answered' =>
            u \in answered \/ u \notin users' \cup redis' \cup accounts' \cup members'
    <3>1. l \in RowsLast \/ answered' = answered
      BY <1>3, <2>3, HeadOfDeleting, LaterIs DEF Answers
    <3> QED
      BY <1>4, <2>3, <2>5, <3>1
  <2>7. UserOK(u)'
    BY <1>2, <1>3, <1>4, <2>1, <2>2, <2>3, <2>4, <2>5, <2>6, Deletes
  <2>8. \A v \in Users \ {u} : v \in answered' <=> v \in answered
    BY <1>2, <2>3 DEF Answers
  <2> QED
    BY <1>1, <1>2, <1>5, <2>2, <2>3, <2>5, <2>7, <2>8, AboutUser
<1> QED
  BY <1>6, <1>7

LEMMA AccountFailsKeeps == ASSUME IInv, NEW c \in Clients, AccountFails(c) PROVE IInv'
<1>1. PICK name \in {"ensure_account", "delete_account"} : AtUser(c, name)
  BY DEF AccountFails
<1>2. PICK u \in Users : u = client[c].on /\ UserOK(u)
  BY <1>1, AtUserIs
<1>3. /\ client' = [client EXCEPT ![c] = NoClient]
      /\ UNCHANGED <<users, workspaces, publication, redis, members, lock,
                     accepted, gone, crossed, hasty, answered, requests>>
      /\ \/ AtUser(c, "ensure_account") /\ accounts' \in {accounts, accounts \cup {u}}
         \/ AtUser(c, "delete_account") /\ accounts' \in {accounts, accounts \ {u}}
  BY <1>2 DEF AccountFails
<1>4. OnlyChanges(c) /\ client'[c] = NoClient
  BY <1>3 DEF OnlyChanges, IInv, TypeInv
<1>5. client'[c].on = Nobody /\ client'[c].later = <<>> /\ client'[c].now = NoStep /\ RequestOK(client'[c])
  BY <1>4, NoClientOK DEF NoClient
<1>6. client[c].now = NoStep /\ client[c] # NoClient /\ requests' \in Nat \ {0}
  BY <1>1, <1>3, AtUserIs DEF IInv, TypeInv
<1>7. TypeInv' /\ RightsInv'
  BY <1>3, <1>4, <1>5, <1>6, Looks
<1>8. ASSUME AtUser(c, "ensure_account") PROVE UserOK(u)'
  <2>1. PICK l \in Reserving : l = client[c].later /\ Head(l) = "ensure_account" /\ Doing(c, u, Reserving)
    BY <1>2, <1>8, AtUserIs, ReservingBy
  <2>2. l \notin Saved
    BY <2>1, HeadOfReserving
  <2>3. u \notin hasty => u \notin redis
    BY <1>2, <2>1, <2>2, AloneSaved
  <2> QED
    BY <1>2, <1>3, <1>4, <1>5, <2>1, <2>3, LaterIs, Reserves
<1>9. ASSUME AtUser(c, "delete_account"), accounts' \subseteq accounts PROVE UserOK(u)'
  <2>1. Doing(c, u, Deleting) /\ u \notin members /\ (u \notin hasty => u \notin redis)
    BY <1>2, <1>9, Unroling
  <2> QED
    BY <1>2, <1>3, <1>4, <1>5, <1>9, <2>1, LaterIs, Deletes
<1>10. UserOK(u)'
  BY <1>3, <1>8, <1>9
<1>11. ASSUME NEW v \in Users, v # u PROVE UserOK(v)'
  <2>1. UserOK(v) /\ client[c].on # v /\ client'[c].on # v
    BY <1>2, <1>5, <1>11, NamesDiffer DEF IInv, UsersInv
  <2>2. v \in accounts' <=> v \in accounts
    BY <1>3, <1>11
  <2> QED
    BY <1>3, <1>4, <1>11, <2>1, <2>2, OtherUser
<1> QED
  BY <1>7, <1>10, <1>11 DEF IInv, UsersInv

LEMMA ReservingSteps ==
    ASSUME NEW ensure \in ProviderOrders(<<"ensure_account">>, <<"ensure_workspace">>)
    PROVE  /\ ensure \o <<"save_in_redis", "ensure_workspace", "ensure_user">> \in Reserving
           /\ ensure \o <<"save_in_redis", "ensure_workspace", "ensure_user">> # <<"ensure_user">>
<1>1. \/ ensure = <<"ensure_account", "ensure_workspace">> \/ ensure = <<"ensure_workspace", "ensure_account">>
  BY Concats DEF ProviderOrders
<1>2. \A a, b : <<a, b>> \o <<"save_in_redis", "ensure_workspace", "ensure_user">> =
                <<a, b, "save_in_redis", "ensure_workspace", "ensure_user">>
  <2>1. \A a, b, x, y, z : <<a, b>> \o <<x, y, z>> = <<a, b, x, y, z>>
    BY Concats
  <2>2. ASSUME NEW a, NEW b
        PROVE  <<a, b>> \o <<"save_in_redis", "ensure_workspace", "ensure_user">> =
               <<a, b, "save_in_redis", "ensure_workspace", "ensure_user">>
    BY <2>1
  <2> QED
    BY <2>2
<1>3. CASE ensure = <<"ensure_account", "ensure_workspace">>
  BY <1>2, <1>3 DEF Reserving
<1>4. CASE ensure = <<"ensure_workspace", "ensure_account">>
  BY <1>2, <1>4 DEF Reserving
<1> QED
  BY <1>1, <1>3, <1>4

LEMMA ReserveKeeps == ASSUME IInv, NEW c \in Clients, NEW u \in Users, Begins(c), Reserve(c, u) PROVE IInv'
<1>1. TypeInv /\ UsersInv
  BY DEF IInv
<1>2. client[c] = NoClient /\ client[c].now = NoStep /\ requests' \in Nat \ {0}
  BY <1>1, BeginsIs
<1>3. PICK ensure \in ProviderOrders(<<"ensure_account">>, <<"ensure_workspace">>) :
          Continues(c, [NoClient EXCEPT !.on = u,
              !.later = ensure \o <<"save_in_redis", "ensure_workspace", "ensure_user">>])
  BY DEF Reserve
<1>4. PICK l \in Reserving : /\ l = ensure \o <<"save_in_redis", "ensure_workspace", "ensure_user">>
                             /\ l # <<"ensure_user">>
  BY ReservingSteps
<1> DEFINE r == [NoClient EXCEPT !.on = u, !.later = l]
<1>5. r \in Requests /\ r.on = u /\ r.later = l /\ Quiet(r) /\ r.now = NoStep
  BY NoClientOK DEF NoClient, Requests, Quiet
<1>6. Continues(c, r)
  BY <1>3, <1>4
<1> HIDE DEF r
<1>7. l # <<>> /\ l \notin Deleting
  BY LaterIs
<1>8. /\ OnlyChanges(c) /\ RequestOK(client'[c]) /\ client'[c].now = NoStep
      /\ client'[c].later = l /\ client'[c].on = u
  BY <1>1, <1>5, <1>6, <1>7, Continued, NamesDiffer
<1>9. /\ u \notin redis /\ u \notin workspaces /\ hasty' = IF About(u) THEN hasty \cup {u} ELSE hasty
      /\ answered' = answered \ {u}
      /\ UNCHANGED <<users, workspaces, publication, redis, accounts, members, lock, accepted, gone, crossed>>
  BY DEF Reserve
<1>10. ASSUME NEW v \in Users, v # u PROVE UserOK(v)'
  <2>1. UserOK(v) /\ client[c].on # v /\ client'[c].on # v
    BY <1>1, <1>2, <1>8, <1>10, NamesDiffer DEF UsersInv, NoClient
  <2> QED
    BY <1>8, <1>9, <1>10, <2>1, OtherUser
<1>11. UserOK(u)'
  <2>1. \A d \in Clients : d # c => client'[d] = client[d]
    BY <1>8 DEF OnlyChanges
  <2>2. UserOK(u)
    BY <1>1 DEF UsersInv
  <2>3. l \notin Unroled /\ l \notin Unnamed /\ l \notin RowsLast
    BY <1>7, LaterIs
  <2>4. HasRole(u)'
    BY <1>8, <1>9, <2>1, <2>2, <2>3 DEF UserOK, HasRole, Doing
  <2>5. ASSUME u \notin hasty' PROVE ReservedAlone(u)' /\ Named(u)' /\ Emptied(u)' /\ IsLeft(u)'
    <3>1. \A d \in Clients : client'[d].on = u => d = c
      BY <1>9, <2>1, <2>5 DEF About
    <3>2. u \notin users
      BY <1>1, <1>9 DEF TypeInv
    <3>3. ReservedAlone(u)'
      BY <1>4, <1>8, <1>9, <3>1, <3>2 DEF ReservedAlone, Doing
    <3>4. Named(u)'
      BY <1>8, <1>9, <2>3, <3>1 DEF Named, Doing
    <3>5. Emptied(u)' /\ IsLeft(u)'
      BY <1>8, <1>9, <2>3, <3>1, LaterIs DEF Emptied, IsLeft, Doing
    <3> QED
      BY <3>3, <3>4, <3>5
  <2> QED
    BY <2>4, <2>5 DEF UserOK
<1>12. UsersInv'
  BY <1>10, <1>11 DEF UsersInv
<1> QED
  BY <1>2, <1>8, <1>9, <1>12, Looks DEF IInv

-----------------------------------------------------------------------------
LEMMA InitIInv == Init => IInv
<1> SUFFICES ASSUME Init PROVE IInv
  OBVIOUS
<1> USE DEF Init
<1>1. \A c \in Clients : client[c] = NoClient /\ RequestOK(client[c])
  BY NoClientOK
<1>2. NoRow \in Rows /\ NoRows \in Rules
  BY DEF NoRow, NoRows, Rows, Rules
<1>3. TypeInv
  <2>1. users \subseteq workspaces \cap Users /\ redis \subseteq Users /\ gone \subseteq Users
    OBVIOUS
  <2>2. publication \in [Publications -> Rows] /\ accepted \in [Publications -> Rules]
    BY <1>2
  <2>3. DOMAIN client = Clients /\ requests \in Nat
    OBVIOUS
  <2> QED
    BY <1>1, <2>1, <2>2, <2>3 DEF TypeInv
<1>4. \A c \in Clients, p \in Publications : ~Holds(c, p)
  BY <1>1, NamesDiffer DEF Holds, NoClient, NoStep
<1>5. NotItself /\ \A p \in Publications : ~Exists(p)
  BY DEF NotItself, Exists, NoRow, NoRows
<1>6. RightsInv
  BY <1>4, <1>5 DEF RightsInv, HeldByOne
<1>7. \A c \in Clients, u \in Users : \A what : ~Doing(c, u, what)
  BY <1>1, NamesDiffer DEF Doing, NoClient
<1>8. UsersInv
  BY <1>7 DEF UsersInv, UserOK, HasRole, ReservedAlone, Named, Emptied, IsLeft
<1> QED
  BY <1>3, <1>6, <1>8 DEF IInv

LEMMA StepIInv == IInv /\ [Next]_vars => IInv'
<1> SUFFICES ASSUME IInv, [Next]_vars PROVE IInv'
  OBVIOUS
<1>1. ASSUME NEW c \in Clients, Begins(c), NEW p \in Publications, NEW actor \in Actors, Delete(c, p, actor)
      PROVE  IInv'
  BY <1>1, DeleteKeeps
<1>2. ASSUME NEW c \in Clients, Begins(c), NEW p \in Publications, NEW actor \in Actors,
             NEW asked \in [Types -> Lists \cup {{}}], Post(c, p, actor, asked) \/ Patch(c, p, actor, asked)
      PROVE  IInv'
  BY <1>2, PostKeeps, PatchKeeps
<1>3. ASSUME NEW c \in Clients, Begins(c), NEW u \in Users, Reserve(c, u) \/ DeleteUser(c, u)
      PROVE  IInv'
  BY <1>3, ReserveKeeps, DeleteUserKeeps
<1>4. ASSUME NEW c \in Clients, Insert(c) \/ Update(c) \/ Rights(c) \/ Unlock(c)
      PROVE  IInv'
  BY <1>4, InsertKeeps, UpdateKeeps, RightsKeeps, UnlockKeeps
<1>5. ASSUME NEW c \in Clients, LockPatch(c) \/ LockDelete(c) \/ DeleteRights(c) \/ DeleteRow(c)
      PROVE  IInv'
  BY <1>5, LockPatchKeeps, LockDeleteKeeps, DeleteRightsKeeps, DeleteRowKeeps
<1>6. ASSUME NEW c \in Clients, PublicPublications(c) \/ OwnPublications(c)
      PROVE  IInv'
  BY <1>6, PublicPublicationsKeeps, OwnPublicationsKeeps
<1>7. ASSUME NEW c \in Clients, EnsureAccount(c) \/ DeleteAccount(c) \/ AccountFails(c) PROVE IInv'
  BY <1>7, EnsureAccountKeeps, DeleteAccountKeeps, AccountFailsKeeps
<1>8. ASSUME NEW c \in Clients, Authn(c) PROVE IInv'
  BY <1>8, SaveInRedisKeeps, DeleteFromRedisKeeps DEF Authn
<1>9. ASSUME NEW c \in Clients, EnsureRow(c) PROVE IInv'
  BY <1>9, EnsureWorkspaceKeeps, EnsureUserKeeps DEF EnsureRow
<1>10. ASSUME NEW c \in Clients, DeleteUserRoles(c) \/ NoWorkspace(c) \/ DeleteUserRow(c) \/ DeleteWorkspace(c)
       PROVE  IInv'
  BY <1>10, DeleteUserRolesKeeps, NoWorkspaceKeeps, DeleteUserRowKeeps, DeleteWorkspaceKeeps
<1>11. CASE UNCHANGED vars
  <2>1. TypeInv'
    BY <1>11 DEF vars, IInv, TypeInv
  <2>2. RightsInv'
    BY <1>11, RightsKept DEF vars, IInv
  <2>3. UsersInv'
    BY <1>11, UsersKept DEF vars, IInv
  <2> QED
    BY <2>1, <2>2, <2>3 DEF IInv
<1> QED
  BY <1>1, <1>2, <1>3, <1>4, <1>5, <1>6, <1>7, <1>8, <1>9, <1>10, <1>11 DEF Next

LEMMA Invariant == Spec => []IInv
  BY InitIInv, StepIInv, PTL DEF Spec

-----------------------------------------------------------------------------
(* A publication at rest has no row but what was accepted, and misses none *)
(* but those of users who are gone.                                        *)
LEMMA AtRestFits ==
    ASSUME IInv, NEW p \in Publications, AtRest(p)
    PROVE  /\ RowsFit(p) /\ NotItself /\ \A t \in Types : Fits(p, t, publication[p].rights[t])
           /\ \A t \in Types : AccessRights(p)[t] = Owner(p) \cup publication[p].rights[t]
                                   \cup IF t \in publication[p].everyone THEN {Everyone} ELSE {}
<1>1. RowsFit(p) /\ NotItself
  BY DEF IInv, RightsInv, AtRest
<1>2. \A t \in Types : Fits(p, t, publication[p].rights[t])
  BY <1>1 DEF RowsFit, AtRest, Holds
<1> QED
  BY <1>1, <1>2, AccessRightsIs DEF IInv

(* After any POST, PATCH and deletions of users, the rights of a           *)
(* publication are those last asked for, but for users who were deleted    *)
(* meanwhile: whatever lists are sent and however many users, clients and  *)
(* workspaces there are.                                                   *)
THEOREM RightsStay == Spec => []RightsAsAccepted
<1>1. ASSUME IInv PROVE RightsAsAccepted
  <2> SUFFICES ASSUME NEW p \in Publications, NEW t \in Types, AtRest(p)
               PROVE  /\ AccessRights(p)[t] \subseteq accepted[p][t] \cup Owner(p)
                      /\ accepted[p][t] \ AccessRights(p)[t] \subseteq gone
    BY DEF RightsAsAccepted
  <2>1. Fits(p, t, publication[p].rights[t])
    BY <1>1, AtRestFits
  <2>2. Everyone \in accepted[p][t] <=> t \in publication[p].everyone
    BY <1>1, AtRestFits DEF RowsFit
  <2>3. AccessRights(p)[t] = Owner(p) \cup publication[p].rights[t]
                                   \cup IF t \in publication[p].everyone THEN {Everyone} ELSE {}
    BY <1>1, AtRestFits
  <2> QED
    BY <2>1, <2>2, <2>3 DEF Fits
<1> QED
  BY <1>1, Invariant, PTL

(* The rights of a publication at rest are usable: who can write can read, *)
(* somebody can write, and the owner of a personal workspace can, unless   *)
(* it was a user deleted meanwhile who could.                              *)
THEOREM RightsUsable == Spec => []RightsMakeSense
<1>1. ASSUME IInv PROVE RightsMakeSense
  <2> SUFFICES ASSUME NEW p \in Publications, AtRest(p)
               PROVE  /\ \/ Everyone \in AccessRights(p)["read"]
                         \/ AccessRights(p)["write"] \ AccessRights(p)["read"] \subseteq gone
                      /\ \/ at_least_one_can_write(AccessRights(p)["write"])
                         \/ accepted[p]["write"] \cap gone # {}
                      /\ Owner(p) \subseteq AccessRights(p)["write"]
    BY DEF RightsMakeSense
  <2>1. "read" \in Types /\ "write" \in Types
    BY DEF Types
  <2>2. \A t \in Types : Fits(p, t, publication[p].rights[t])
    BY <1>1, AtRestFits
  <2>3. Sensible(p) /\ NotItself /\ \A t \in Types : Everyone \in accepted[p][t] <=> t \in publication[p].everyone
    BY <1>1, AtRestFits DEF RowsFit
  <2>4. \A t \in Types : AccessRights(p)[t] = Owner(p) \cup publication[p].rights[t]
                                   \cup IF t \in publication[p].everyone THEN {Everyone} ELSE {}
    BY <1>1, AtRestFits
  <2>5. Owner(p) \subseteq AccessRights(p)["write"] /\ Owner(p) \subseteq AccessRights(p)["read"]
    BY <2>1, <2>4
  <2>6. \/ Everyone \in AccessRights(p)["read"]
        \/ AccessRights(p)["write"] \ AccessRights(p)["read"] \subseteq gone
    <3>1. CASE Everyone \in accepted[p]["read"]
      BY <2>1, <2>3, <2>4, <3>1
    <3>2. CASE accepted[p]["write"] \ accepted[p]["read"] \subseteq gone \cup {p} /\ Everyone \notin accepted[p]["read"]
      <4>1. ASSUME NEW x \in AccessRights(p)["write"], x \notin AccessRights(p)["read"]
            PROVE  x \in gone
        <5>1. x \notin Owner(p)
          BY <2>5, <4>1
        <5>2. x \in accepted[p]["write"]
          BY <2>1, <2>2, <2>3, <2>4, <5>1 DEF Fits
        <5>3. CASE x \in accepted[p]["read"]
          <6>1. x \notin publication[p].rights["read"]
            BY <2>1, <2>4, <4>1
          <6>2. x \in gone \cup Owner(p) \cup {Everyone}
            BY <2>1, <2>2, <5>3, <6>1 DEF Fits
          <6> QED
            BY <3>2, <5>1, <5>3, <6>2
        <5>4. CASE x \notin accepted[p]["read"]
          <6>1. x \in gone \cup {p}
            BY <3>2, <5>2, <5>4
          <6>2. x # p
            BY <2>1, <2>3, <2>4, <4>1, <5>1, NamesDiffer DEF NotItself
          <6> QED
            BY <6>1, <6>2
        <5> QED
          BY <5>3, <5>4
      <4> QED
        BY <4>1
    <3> QED
      BY <2>3, <3>1, <3>2 DEF Sensible
  <2>7. at_least_one_can_write(AccessRights(p)["write"]) \/ accepted[p]["write"] \cap gone # {}
    <3>1. PICK x \in accepted[p]["write"] : x \in Users \cup {Everyone}
      BY <2>3 DEF Sensible
    <3>2. x \in AccessRights(p)["write"] \/ x \in gone
      BY <2>1, <2>2, <2>3, <2>4, <3>1 DEF Fits
    <3> QED
      BY <3>1, <3>2 DEF at_least_one_can_write
  <2> QED
    BY <2>5, <2>6, <2>7
<1> QED
  BY <1>1, Invariant, PTL

(* A user whose DELETE was answered has left nothing: no username of an    *)
(* identity, no role, no account in GeoServer and no row, whatever calls   *)
(* of other requests failed; whoever reserves the name before its deletion *)
(* is over is not counted.                                                 *)
THEOREM NothingLeft == Spec => []DeletedLeavesNothing
<1>1. ASSUME IInv PROVE DeletedLeavesNothing
  BY <1>1 DEF IInv, UsersInv, UserOK, IsLeft, DeletedLeavesNothing
<1> QED
  BY <1>1, Invariant, PTL
=============================================================================
