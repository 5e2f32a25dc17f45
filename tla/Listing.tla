------------------------------ MODULE Listing ------------------------------
(***************************************************************************)
(* GET of publications page by page (layman/common/rest.py and             *)
(* layman/common/prime_db_schema/publications.py), while publications are  *)
(* posted, patched and deleted.  A client goes on from page to page by     *)
(* header Content-Range until the last one, as doc/rest.md describes it.   *)
(*                                                                         *)
(* Every statement to the database is a step: the page is one, the total   *)
(* of an empty page another one, PATCH of access rights one for the row    *)
(* of the publication and one for each row of rights.  A bounding box is a *)
(* set of cells of the plane, the transformation of coordinates is left    *)
(* out; a publication is the triple of numbers it is ordered by.           *)
(***************************************************************************)
EXTENDS Naturals, FiniteSets

CONSTANTS
    Publications,      \* <<workspace, name, type>>, numbers in alphabetic order
    Titles, Boxes,     \* titles, numbers in alphabetic order, and bounding boxes publications may have
    TextRank,          \* rank of each title for the text that requests search for, 0 if it does not match
    Lists,             \* readers a request may send
    Actor, ActorRoles, OwnWorkspace,   \* who asks, with what roles, and whose workspace is whose
    Tables,            \* what table publications has when the client comes
    Requests,          \* parameters of GET
    MaxChanges         \* bound of changes of publications

Everyone == "EVERYONE"
Anonym   == "ANONYM"
None     == "none"

Names == {Everyone, Actor, "another"} \cup ActorRoles

(* Rows of table publications, each with its rows of table rights; the     *)
(* bounding box is empty until the publication has data.                   *)
Rows == [title : Titles, bbox : Boxes \cup {{}}, everyone : BOOLEAN, rights : SUBSET Names, updated_at : Nat]

ASSUME ListingAssumption ==
    /\ Publications \subseteq Nat \X Nat \X Nat /\ IsFiniteSet(Publications)
    /\ Titles \subseteq Nat /\ TextRank \in [Titles -> Nat]
    /\ \A box \in Boxes : IsFiniteSet(box)
    /\ Lists \subseteq SUBSET Names \ {{}}
    /\ Actor = Anonym => ActorRoles = {} /\ OwnWorkspace = {}
    /\ \A tb \in Tables :
          /\ DOMAIN tb \subseteq Publications /\ tb \in [DOMAIN tb -> Rows]
          /\ \A p \in DOMAIN tb : tb[p].updated_at <= Cardinality(Publications)
    /\ \A r \in Requests :
          r.limit \in Nat /\ r.offset \in Nat /\ IsFiniteSet(r.bbox) /\ IsFiniteSet(r.ordering)

VARIABLES
    table,      \* rows of table publications, with the readers in table rights
    clock,      \* current_timestamp
    editor,     \* the rows of rights the request in progress has yet to insert and to delete
    request,    \* parameters the client asks with
    state,      \* "idle", "query", "count", "response", "refused", "end"
    offset, page, total, content_range,
    seen,       \* history: how many times each publication has been in a page
    due,        \* history: publications listed from the first page on and not changed since
    quiet,      \* history: no publication has changed since the first page
    left,       \* history: some publication has left the list since the first page
    changes

walk == <<request, state, offset, page, total, content_range, seen>>
vars == <<table, clock, editor, walk, due, quiet, left, changes>>

NoRequest == [text |-> FALSE, bbox |-> {}, bbox_crs |-> FALSE, ordering |-> {}, ordering_crs |-> FALSE,
              order_by |-> None, limit |-> 0, offset |-> 0]
NoEditor  == [at |-> None, add |-> {}, remove |-> {}]
-----------------------------------------------------------------------------
(* The order: what the request says, else by what it filters by.           *)
OrderBy(r) == IF r.order_by # None THEN r.order_by
              ELSE IF r.text THEN "full_text"
              ELSE IF r.bbox # {} \/ r.ordering # {} THEN "bbox"
              ELSE None

OrderingBox(r) == IF r.ordering = {} /\ OrderBy(r) = "bbox" THEN r.bbox ELSE r.ordering

(* The combinations of parameters GET refuses; a CRS of no bounding box    *)
(* passes where the bounding box of the filter takes its place.            *)
Refused(r) ==
    \/ r.order_by = "full_text" /\ ~r.text
    \/ r.order_by = "bbox" /\ r.bbox = {} /\ r.ordering = {}
    \/ r.ordering # {} /\ OrderBy(r) # "bbox"
    \/ r.bbox_crs /\ r.bbox = {}
    \/ r.ordering_crs /\ OrderingBox(r) = {}

(* The WHERE clause.                                                       *)
ReaderAndRoles == IF Actor = Anonym THEN {} ELSE {Actor} \cup ActorRoles

Readable(tb, p) ==
    \/ tb[p].everyone
    \/ Actor # Anonym /\ p[1] \in OwnWorkspace
    \/ tb[p].rights \cap ReaderAndRoles # {}

Overlaps(box, other) == box \cap other # {}

Listed(tb, r) == {p \in DOMAIN tb :
    /\ Readable(tb, p)
    /\ r.text => TextRank[tb[p].title] > 0
    /\ r.bbox # {} => Overlaps(tb[p].bbox, r.bbox)}

(* The ORDER BY clause: similarity is what two boxes share to what they    *)
(* have together; an empty publication has no bounding box, and none.      *)
MoreSimilar(a, b, box) ==
    Cardinality(a \cap box) * (Cardinality(b) + Cardinality(box))
        > Cardinality(b \cap box) * (Cardinality(a) + Cardinality(box))

ByContent(tb, p, q, r) ==
    \/ OrderBy(r) = "full_text" /\ TextRank[tb[p].title] > TextRank[tb[q].title]
    \/ OrderBy(r) = "title" /\ tb[p].title < tb[q].title
    \/ OrderBy(r) = "bbox" /\ MoreSimilar(tb[p].bbox, tb[q].bbox, OrderingBox(r))

(* Faulty: the oldest come first.                                          *)
PrecedesOldest(tb, p, q, r) ==
    ByContent(tb, p, q, r) \/ (OrderBy(r) = "last_change" /\ tb[p].updated_at < tb[q].updated_at)

Precedes(tb, p, q, r) ==
    ByContent(tb, p, q, r) \/ (OrderBy(r) = "last_change" /\ tb[p].updated_at > tb[q].updated_at)

Alphabetic(p, q) ==
    \/ p[1] < q[1]
    \/ p[1] = q[1] /\ p[2] < q[2]
    \/ p[1] = q[1] /\ p[2] = q[2] /\ p[3] < q[3]

Ahead(tb, p, q, r) == Precedes(tb, p, q, r) \/ (~Precedes(tb, q, p, r) /\ Alphabetic(p, q))

Skipped(tb, p, r) == Cardinality({q \in Listed(tb, r) : Ahead(tb, q, p, r)})

(* LIMIT and OFFSET.                                                       *)
Page(tb, r, from) == {p \in Listed(tb, r) : Skipped(tb, p, r) \in from .. (from + r.limit) - 1}
-----------------------------------------------------------------------------
Row(title, readers, bbox, time) ==
    [title |-> title, bbox |-> bbox, everyone |-> Everyone \in readers,
     rights |-> readers \ {Everyone}, updated_at |-> time]

Init ==
    /\ table \in Tables
    /\ clock = Cardinality(Publications) + 1 /\ editor = NoEditor
    /\ request = NoRequest /\ state = "idle" /\ offset = 0 /\ page = {} /\ total = 0 /\ content_range = <<0, 0>>
    /\ seen = [p \in Publications |-> 0]
    /\ due = {} /\ quiet = TRUE /\ left = FALSE /\ changes = 0
-----------------------------------------------------------------------------
(* GET: the parameters are read.                                           *)
Get(r) ==
    /\ state = "idle"
    /\ request' = r
    /\ state' = IF Refused(r) THEN "refused" ELSE "query"
    /\ offset' = r.offset
    /\ UNCHANGED <<table, clock, editor, page, total, content_range, seen, due, quiet, left, changes>>

(* The statement that reads a page, with the total in each of its rows.    *)
Query ==
    /\ state = "query"
    /\ page' = Page(table, request, offset)
    /\ seen' = [p \in Publications |-> seen[p] + (IF p \in page' THEN 1 ELSE 0)]
    /\ state' = IF page' = {} THEN "count" ELSE "response"
    /\ total' = IF page' = {} THEN total ELSE Cardinality(Listed(table, request))
    /\ content_range' = IF page' = {} THEN <<0, 0>> ELSE <<offset + 1, offset + Cardinality(page')>>
    /\ IF offset = request.offset /\ content_range = <<0, 0>>
       THEN /\ due' = IF request.limit = 0 THEN {}
                      ELSE {p \in Listed(table, request) : Skipped(table, p, request) >= offset}
            /\ quiet' = TRUE /\ left' = FALSE
       ELSE UNCHANGED <<due, quiet, left>>
    /\ UNCHANGED <<table, clock, editor, request, offset, changes>>

(* The statement that counts the publications, if the page is empty.       *)
Count ==
    /\ state = "count"
    /\ total' = Cardinality(Listed(table, request)) /\ state' = "response"
    /\ UNCHANGED <<table, clock, editor, request, offset, page, content_range, seen, due, quiet, left, changes>>

(* The client asks for the page after the one it got, if there is one.     *)
Continue ==
    /\ state = "response"
    /\ IF page = {} \/ content_range[2] >= total
       THEN state' = "end" /\ UNCHANGED offset
       ELSE state' = "query" /\ offset' = content_range[2]
    /\ UNCHANGED <<table, clock, editor, request, page, total, content_range, seen, due, quiet, left, changes>>
-----------------------------------------------------------------------------
(* What a change of publication p means to the client on its way.          *)
Watched(p) ==
    LET before == Listed(table, request)
        after  == Listed(table', request)
    IN  /\ due' = (due \ {p}) \cap after
        /\ quiet' = FALSE
        /\ left' = (left \/ ~(before \subseteq after))

With(p, row) == [q \in DOMAIN table \cup {p} |-> IF q = p THEN row ELSE table[q]]

(* Only changes while the client is on its way matter.                     *)
OnItsWay == state \in {"query", "count", "response"}

Changed == OnItsWay /\ editor = NoEditor /\ changes < MaxChanges /\ changes' = changes + 1

(* insert_publication: the row, then the rights.                           *)
insert_publication(p, title, readers) ==
    /\ Changed
    /\ p \notin DOMAIN table
    /\ table' = With(p, Row(title, readers \cap {Everyone}, {}, clock))
    /\ clock' = clock + 1
    /\ editor' = [at |-> p, add |-> readers \ {Everyone}, remove |-> {}]
    /\ Watched(p) /\ UNCHANGED walk

(* update_publication: the row, then what the rights differ in.            *)
update_publication(p, title, readers) ==
    /\ Changed
    /\ p \in DOMAIN table
    /\ table' = With(p, [table[p] EXCEPT !.title = title, !.everyone = Everyone \in readers, !.updated_at = clock])
    /\ clock' = clock + 1
    /\ editor' = [at |-> p, add |-> readers \ ({Everyone} \cup table[p].rights), remove |-> table[p].rights \ readers]
    /\ Watched(p) /\ UNCHANGED walk

(* set_bbox, by a task of the chain of POST or PATCH.                      *)
set_bbox(p, box) ==
    /\ Changed
    /\ p \in DOMAIN table
    /\ table' = With(p, [table[p] EXCEPT !.bbox = box])
    /\ Watched(p) /\ UNCHANGED <<clock, editor, walk>>

(* delete_publication: the rights, then the row.                           *)
delete_publication(p) ==
    /\ Changed
    /\ p \in DOMAIN table
    /\ table' = With(p, [table[p] EXCEPT !.rights = {}])
    /\ editor' = [at |-> p, add |-> {}, remove |-> {Everyone}]
    /\ Watched(p) /\ UNCHANGED <<clock, walk>>

delete_row ==
    /\ OnItsWay
    /\ editor.remove = {Everyone}
    /\ table' = [q \in DOMAIN table \ {editor.at} |-> table[q]]
    /\ editor' = NoEditor
    /\ Watched(editor.at) /\ UNCHANGED <<clock, walk, changes>>

insert_rights ==
    /\ OnItsWay
    /\ \E name \in editor.add :
        /\ table' = [table EXCEPT ![editor.at].rights = @ \cup {name}]
        /\ editor' = [editor EXCEPT !.add = @ \ {name}]
        /\ Watched(editor.at) /\ UNCHANGED <<clock, walk, changes>>

remove_rights ==
    /\ OnItsWay
    /\ editor.add = {}
    /\ \E name \in editor.remove \ {Everyone} :
        /\ table' = [table EXCEPT ![editor.at].rights = @ \ {name}]
        /\ editor' = [editor EXCEPT !.remove = @ \ {name}]
        /\ Watched(editor.at) /\ UNCHANGED <<clock, walk, changes>>

EditorEnds ==
    /\ OnItsWay /\ editor # NoEditor /\ editor.add = {} /\ editor.remove = {}
    /\ editor' = NoEditor
    /\ UNCHANGED <<table, clock, walk, due, quiet, left, changes>>
-----------------------------------------------------------------------------
Next ==
    \/ \E r \in Requests : Get(r)
    \/ Query \/ Count \/ Continue
    \/ \E p \in Publications, title \in Titles, readers \in Lists :
        insert_publication(p, title, readers) \/ update_publication(p, title, readers)
    \/ \E p \in Publications, box \in Boxes : set_bbox(p, box)
    \/ \E p \in Publications : delete_publication(p)
    \/ delete_row \/ insert_rights \/ remove_rights \/ EditorEnds

Spec == Init /\ [][Next]_vars
-----------------------------------------------------------------------------
(* Who goes through all the pages has been given every publication that    *)
(* was there for him from the first page on: exactly once if nothing       *)
(* changed meanwhile, whatever the filter and the order; and at least once *)
(* if publications were only added and patched, none left the list even    *)
(* for the moment between two statements, and the order is by last change  *)
(* or by name.  It rests on an order of publications that is total         *)
(* (w.name, p.name, p.type) and on changes that only move to the front.    *)
ListedWhole ==
    state = "end" =>
        /\ quiet => \A p \in Publications : seen[p] = (IF p \in due THEN 1 ELSE 0)
        /\ ~left /\ OrderBy(request) \in {None, "last_change"} => \A p \in due : seen[p] >= 1
=============================================================================
