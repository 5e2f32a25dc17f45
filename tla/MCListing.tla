----------------------------- MODULE MCListing -----------------------------
(***************************************************************************)
(* Listing for TLC: three publications, two of them in the workspace of    *)
(* somebody else, a plane of two cells, a request of every valid and every *)
(* invalid combination of a few parameters.                                *)
(***************************************************************************)
EXTENDS Listing

ThreePublications == {<<1, 1, 1>>, <<1, 1, 2>>, <<2, 1, 1>>}
TwoBoxes          == {{1}, {1, 2}}
Ranks             == [t \in {1, 2} |-> t - 1]
SomeLists         == {{Everyone}, {"role"}}
Roles             == {"role"}
OwnWorkspaces     == {2}

(* Two or three publications in the table, all of them for everyone,       *)
(* or one of them for a role; boxes and titles in some of the ways.        *)
SomeTables ==
    {[p \in S |-> Row(IF p[3] = 2 THEN 1 ELSE t, IF p[1] = 1 /\ p[3] = 1 THEN l ELSE {Everyone},
                      IF p[1] = 2 THEN b ELSE {1}, IF p[1] = 2 THEN 1 ELSE 1 + p[3])] :
        S \in {ThreePublications, ThreePublications \ {<<1, 1, 2>>}}, t \in {1, 2},
        l \in {{Everyone}, {"role"}}, b \in {{}, {1, 2}}}

Sensible ==
    [text : {FALSE}, bbox : {{}}, bbox_crs : {FALSE}, ordering : {{}}, ordering_crs : {FALSE},
     order_by : {None, "title", "last_change"}, limit : {1, 2}, offset : {0}]
    \cup
    [text : BOOLEAN, bbox : {{}, {2}}, bbox_crs : {FALSE}, ordering : {{}}, ordering_crs : {FALSE},
     order_by : {None}, limit : {1}, offset : {0, 1}]
    \cup
    [text : {FALSE}, bbox : {{}}, bbox_crs : {FALSE}, ordering : {{}}, ordering_crs : {FALSE},
     order_by : {None}, limit : {0}, offset : {0}]

Odd == [text : BOOLEAN, bbox : {{}, {2}}, bbox_crs : BOOLEAN, ordering : {{}, {1}}, ordering_crs : BOOLEAN,
        order_by : {None, "full_text", "bbox", "last_change"}, limit : {3}, offset : {0}]

Similar == [text |-> FALSE, bbox |-> {}, bbox_crs |-> FALSE, ordering |-> {1}, ordering_crs |-> TRUE,
            order_by |-> "bbox", limit |-> 2, offset |-> 0]

SomeRequests == Sensible \cup {Similar} \cup {r \in Odd : Refused(r)}
=============================================================================
