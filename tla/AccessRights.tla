---------------------------- MODULE AccessRights ----------------------------
(***************************************************************************)
(* Users, workspaces and access rights of publications in the prime DB     *)
(* schema (layman/common/prime_db_schema), the username each identity has  *)
(* in Redis (layman/authn/redis.py), roles and accounts of GeoServer;      *)
(* reservation of a username, DELETE of a user (layman/user), and the part *)
(* of POST, PATCH and DELETE of a publication that is about rights.        *)
(* Autocommit makes each statement to the database a step of its own; the  *)
(* model joins statements where nobody can tell: the rows of rights of one *)
(* type, and the workspace and the row of a publication (a failing check   *)
(* between them leaves a public workspace without publications).           *)
(*                                                                         *)
(* There is one publication in a workspace, named as the workspace; an     *)
(* identity reserves one username.                                         *)
(***************************************************************************)
EXTENDS Integers, Sequences

CONSTANTS
    Users,             \* usernames, which are names of personal workspaces too
    PublicWorkspaces,
    Lists,             \* access rights a request may send: sets of names of users and roles
    Clients,           \* requests that may be in progress at once
    MaxRequests,       \* bound of requests
    MayFail            \* whether calls of GeoServer may fail

Everyone == "EVERYONE"
Role     == "ROLE"
Anonym   == "ANONYM"
Nobody   == "NOBODY"

(* Names of users and workspaces are of small letters.                     *)
ASSUME RightsAssumption ==
    /\ Users \cap PublicWorkspaces = {}
    /\ (Users \cup PublicWorkspaces) \cap {Everyone, Role, Anonym, Nobody} = {}
    /\ Lists \subseteq (SUBSET (Users \cup {Everyone, Role})) \ {{}}
    /\ MaxRequests \in Nat /\ MayFail \in BOOLEAN

Types        == {"read", "write"}
Publications == Users \cup PublicWorkspaces

VARIABLES
    users, workspaces,   \* rows of tables users and workspaces
    publication,         \* publication[p]: id (0 if there is no row), flags of everyone, rows of rights
    redis,               \* identities that have their username in Redis
    accounts,            \* users GeoServer has
    members,             \* users with role ROLE
    lock,                \* locked publications
    client,              \* client[c]: what its request does now, and has yet to do
    accepted,   \* history: the rights last asked for
    gone,       \* history: users that have been deleted
    crossed,    \* history: publications that DELETE came to while another request was at them
    hasty,      \* history: users who reserved their name before its deletion was over
    answered,   \* history: users whose DELETE was answered, and who did not reserve the name since
    requests

vars == <<users, workspaces, publication, redis, accounts, members, lock, client,
          accepted, gone, crossed, hasty, answered, requests>>

NoRows   == [t \in Types |-> {}]
NoRow    == [id |-> 0, everyone |-> {}, rights |-> NoRows]
NoStep   == [step |-> "none", p |-> Nobody]

(* A request about user `on` makes the steps `later` when the publications *)
(* it has to patch and to delete are done; `now` is its step at one of     *)
(* them, which it locked.                                                  *)
NoClient == [on |-> Nobody, now |-> NoStep, patch |-> {}, delete |-> {}, later |-> <<>>]

(* Everybody has reserved a username, and nothing is published yet.        *)
Init ==
    /\ users = Users /\ workspaces = Users /\ redis = Users /\ accounts = Users /\ members = Users
    /\ publication = [p \in Publications |-> NoRow]
    /\ lock = {} /\ client = [c \in Clients |-> NoClient]
    /\ accepted = [p \in Publications |-> NoRows] /\ gone = {} /\ crossed = {} /\ hasty = {}
    /\ answered = {} /\ requests = 0
-----------------------------------------------------------------------------
Exists(p) == publication[p].id # 0

Owner(p) == {p} \cap users

IsPublic(p) == Owner(p) = {}

(* access_rights of get_publication_infos                                  *)
AccessRights(p) ==
    [t \in Types |-> Owner(p) \cup publication[p].rights[t]
                       \cup IF t \in publication[p].everyone THEN {Everyone} ELSE {}]

is_user_in_access_rule(actor, names) ==
    \/ Everyone \in names \/ actor \in names
    \/ Role \in names /\ actor \in members

(* Who may be named in access rights.                                      *)
only_valid_user_names(names) == names \cap Users \subseteq users

owner_can_still_write(p, write) == IsPublic(p) \/ Everyone \in write \/ p \in write

at_least_one_can_write(write) == write \cap (Users \cup {Everyone}) # {}

i_can_still_write(actor, write) == is_user_in_access_rule(actor, write)

who_can_write_can_read(read, write) == Everyone \in read \/ write \subseteq read

(* Faulty: only what the request sends is compared.                        *)
GivenAlone(asked, old) == asked

(* A right the request does not send is taken as it was.                   *)
Given(asked, old) == [t \in Types |-> IF asked[t] = {} THEN old[t] ELSE asked[t]]

check_rights_axioms(p, asked, old, actor, part_of_user_delete) ==
    LET all == Given(asked, old) IN
    /\ \A t \in Types : only_valid_user_names(asked[t])
    /\ asked["write"] # {} =>
          /\ owner_can_still_write(p, asked["write"]) /\ at_least_one_can_write(asked["write"])
          /\ part_of_user_delete \/ i_can_still_write(actor, asked["write"])
    /\ asked # NoRows => who_can_write_can_read(all["read"], all["write"])

(* get_user_and_role_names_for_db                                          *)
NamesForDb(p, names) == names \ (Owner(p) \cup {Everyone})
-----------------------------------------------------------------------------
(* Steps.                                                                  *)

(* A request that has nothing left to do is over.                          *)
OrOver(r) == IF r.now = NoStep /\ r.patch = {} /\ r.delete = {} /\ r.later = <<>> THEN NoClient ELSE r

Continues(c, r) == client' = [client EXCEPT ![c] = OrOver(r)]

Goes(c, next) == Continues(c, [client[c] EXCEPT !.now = next])

At(c, name) == client[c].now.step = name

(* The answer is an error, and the lock the request holds is released.     *)
Raises(c) ==
    /\ lock' = lock \ {client[c].now.p} /\ client' = [client EXCEPT ![c] = NoClient]
    /\ UNCHANGED <<users, workspaces, publication, redis, accounts, members,
                   accepted, gone, crossed, hasty, answered, requests>>

insert_publication(p, asked, actor) == [step |-> "insert", p |-> p, asked |-> asked, actor |-> actor]

update_publication(p, asked, actor, part) ==
    [step |-> "update", p |-> p, asked |-> asked, actor |-> actor, part |-> part]

unlock(p) == [step |-> "unlock", p |-> p]

(* insert_rights and remove_rights, of the types that have a row to insert *)
(* or to remove.                                                           *)
SetRights(p, id, add, remove) ==
    IF add = NoRows /\ remove = NoRows THEN unlock(p)
    ELSE [step |-> "rights", p |-> p, id |-> id, add |-> add, remove |-> remove]

Insert(c) ==
    LET s == client[c].now IN
    /\ At(c, "insert")
    /\ IF Exists(s.p) \/ ~check_rights_axioms(s.p, s.asked, NoRows, s.actor, FALSE) THEN Raises(c)
       ELSE /\ workspaces' = workspaces \cup {s.p}
            /\ publication' = [publication EXCEPT ![s.p] =
                   [id |-> requests, everyone |-> {t \in Types : Everyone \in s.asked[t]}, rights |-> NoRows]]
            /\ Goes(c, SetRights(s.p, requests, [t \in Types |-> NamesForDb(s.p, s.asked[t])], NoRows))
            /\ accepted' = [accepted EXCEPT ![s.p] = s.asked]
            /\ UNCHANGED <<users, redis, accounts, members, lock, gone, crossed, hasty, answered, requests>>

(* Faulty: rows of roles stay.                                             *)
UsersToRemove(old, new) == (old \ new) \cap Users

(* Rows the list lacks are those to remove.                                *)
ToRemove(old, new) == old \ new

Update(c) ==
    LET s      == client[c].now
        old    == AccessRights(s.p)
        add    == [t \in Types |-> IF s.asked[t] = {} THEN {}
                                   ELSE NamesForDb(s.p, s.asked[t]) \ NamesForDb(s.p, old[t])]
        remove == [t \in Types |-> IF s.asked[t] = {} THEN {}
                                   ELSE ToRemove(NamesForDb(s.p, old[t]), NamesForDb(s.p, s.asked[t]))]
    IN
    /\ At(c, "update")
    /\ IF ~Exists(s.p) \/ ~check_rights_axioms(s.p, s.asked, old, s.actor, s.part) THEN Raises(c)
       ELSE /\ publication' = [publication EXCEPT ![s.p].everyone =
                   {t \in Types : IF s.asked[t] = {} THEN t \in @ ELSE Everyone \in s.asked[t]}]
            /\ Goes(c, SetRights(s.p, publication[s.p].id, add, remove))
            /\ accepted' = [accepted EXCEPT ![s.p] = Given(s.asked, @)]
            /\ UNCHANGED <<users, workspaces, redis, accounts, members, lock,
                           gone, crossed, hasty, answered, requests>>

(* Read comes before write.  insert_rights takes the users from their      *)
(* table: a user deleted since is passed over.  A row twice, or of a       *)
(* deleted publication, is an error.                                       *)
Rights(c) ==
    LET s    == client[c].now
        t    == IF s.add["read"] = {} /\ s.remove["read"] = {} THEN "write" ELSE "read"
        add  == s.add[t] \cap (users \cup {Role})
        rows == publication[s.p].rights[t]
    IN
    /\ At(c, "rights")
    /\ IF add # {} /\ (publication[s.p].id # s.id \/ add \cap rows # {}) THEN Raises(c)
       ELSE /\ publication' = IF publication[s.p].id # s.id THEN publication
                              ELSE [publication EXCEPT ![s.p].rights[t] = (@ \cup add) \ s.remove[t]]
            /\ Goes(c, SetRights(s.p, s.id, [s.add EXCEPT ![t] = {}], [s.remove EXCEPT ![t] = {}]))
            /\ UNCHANGED <<users, workspaces, redis, accounts, members, lock,
                           accepted, gone, crossed, hasty, answered, requests>>

Unlock(c) ==
    /\ At(c, "unlock") /\ lock' = lock \ {client[c].now.p} /\ Goes(c, NoStep)
    /\ UNCHANGED <<users, workspaces, publication, redis, accounts, members,
                   accepted, gone, crossed, hasty, answered, requests>>

(* The publications DELETE of a user patches, one after another.           *)
LockPatch(c) ==
    /\ At(c, "none")
    /\ \E patch \in client[c].patch :
          IF patch.p \in lock \/ ~Exists(patch.p) THEN Raises(c)
          ELSE /\ lock' = lock \cup {patch.p}
               /\ Continues(c, [client[c] EXCEPT !.patch = @ \ {patch},
                                    !.now = update_publication(patch.p, patch.asked, client[c].on, TRUE)])
               /\ UNCHANGED <<users, workspaces, publication, redis, accounts, members,
                              accepted, gone, crossed, hasty, answered, requests>>

(* DELETE does not wait for other requests.                                *)
LockDelete(c) ==
    /\ At(c, "none") /\ client[c].patch = {}
    /\ \E p \in client[c].delete :
          /\ lock' = lock \cup {p}
          /\ Continues(c, [client[c] EXCEPT !.delete = @ \ {p},
                                            !.now = [step |-> "delete_rights", p |-> p]])
          /\ crossed' = IF p \in lock THEN crossed \cup {p} ELSE crossed
    /\ UNCHANGED <<users, workspaces, publication, redis, accounts, members,
                   accepted, gone, requests, hasty, answered>>

DeleteRights(c) ==
    LET p == client[c].now.p IN
    /\ At(c, "delete_rights")
    /\ IF ~Exists(p) THEN Raises(c)
       ELSE /\ publication' = [publication EXCEPT ![p].rights = NoRows]
            /\ Goes(c, [step |-> "delete_row", p |-> p])
            /\ UNCHANGED <<users, workspaces, redis, accounts, members, lock,
                           accepted, gone, crossed, hasty, answered, requests>>

DeleteRow(c) ==
    LET p == client[c].now.p IN
    /\ At(c, "delete_row")
    /\ IF publication[p].rights # NoRows THEN Raises(c)
       ELSE /\ publication' = [publication EXCEPT ![p] = NoRow]
            /\ Goes(c, unlock(p))
            /\ UNCHANGED <<users, workspaces, redis, accounts, members, lock,
                           accepted, gone, crossed, hasty, answered, requests>>
-----------------------------------------------------------------------------
(* Requests.  Who has no username in Redis is anonymous.                   *)

Actors == redis \cup {Anonym}

Begins(c) == client[c] = NoClient /\ requests < MaxRequests /\ requests' = requests + 1

(* setup_post_access_rights                                                *)
PostRights(asked, actor) ==
    [t \in Types |-> IF asked[t] # {} THEN asked[t] ELSE IF actor = Anonym THEN {Everyone} ELSE {actor}]

Post(c, p, actor, sent) ==
    LET asked == PostRights(sent, actor) IN
    /\ (actor = p \/ IsPublic(p))
    /\ ~Exists(p) /\ p \notin lock
    /\ check_rights_axioms(p, asked, NoRows, actor, FALSE)
    /\ lock' = lock \cup {p}
    /\ Goes(c, insert_publication(p, asked, actor))
    /\ crossed' = IF \E d \in Clients : client[d].now.p = p THEN crossed ELSE crossed \ {p}
    /\ UNCHANGED <<users, workspaces, publication, redis, accounts, members, accepted, gone, hasty, answered>>

MayWrite(actor, p) == Exists(p) /\ is_user_in_access_rule(actor, AccessRights(p)["write"])

Patch(c, p, actor, asked) ==
    /\ MayWrite(actor, p) /\ p \notin lock /\ asked # NoRows
    /\ check_rights_axioms(p, asked, AccessRights(p), actor, FALSE)
    /\ lock' = lock \cup {p}
    /\ Goes(c, update_publication(p, asked, actor, FALSE))
    /\ UNCHANGED <<users, workspaces, publication, redis, accounts, members, accepted, gone, crossed, hasty, answered>>

Delete(c, p, actor) ==
    /\ MayWrite(actor, p)
    /\ Continues(c, [NoClient EXCEPT !.delete = {p}])
    /\ UNCHANGED <<users, workspaces, publication, redis, accounts, members, lock,
                   accepted, gone, crossed, hasty, answered>>

(* The providers are called in the order of a set.                         *)
ProviderOrders(geoserver, database) == {geoserver \o database, database \o geoserver}

About(u) == \E c \in Clients : client[c].on = u

(* reserve_username, after it found that there is no such workspace.       *)
Reserve(c, u) ==
    /\ u \notin redis /\ u \notin workspaces
    /\ \E ensure_whole_user \in ProviderOrders(<<"ensure_account">>, <<"ensure_workspace">>) :
          Continues(c, [NoClient EXCEPT !.on = u,
              !.later = ensure_whole_user \o <<"save_in_redis", "ensure_workspace", "ensure_user">>])
    /\ hasty' = IF About(u) THEN hasty \cup {u} ELSE hasty
    /\ answered' = answered \ {u}
    /\ UNCHANGED <<users, workspaces, publication, redis, accounts, members, lock, accepted, gone, crossed>>

DeleteUser(c, u) ==
    /\ u \in users
    /\ Continues(c, [NoClient EXCEPT !.on = u, !.later = <<"public_publications", "own_publications">>])
    /\ UNCHANGED <<users, workspaces, publication, redis, accounts, members, lock,
                   accepted, gone, crossed, hasty, answered>>
-----------------------------------------------------------------------------
(* Steps about a user.                                                     *)

AtUser(c, name) ==
    /\ At(c, "none") /\ client[c].patch = {} /\ client[c].delete = {}
    /\ client[c].later # <<>> /\ Head(client[c].later) = name

GoesOn(c) == Continues(c, [client[c] EXCEPT !.later = Tail(@)])

check_if_is_only_rw(rights, u) ==
    \A t \in Types : Everyone \notin rights[t] /\ rights[t] \cap Users = {u}

has_only_roles_without_everyone(names) == names \subseteq {Role}

Without(rights, u) == [t \in Types |-> rights[t] \ {u}]

(* delete_user_public_publications: publications of public workspaces that *)
(* name the user as a reader.                                              *)
PublicPublications(c) ==
    LET u       == client[c].on
        named   == {p \in Publications : Exists(p) /\ IsPublic(p) /\ u \in AccessRights(p)["read"]}
        deleted == {p \in named : check_if_is_only_rw(AccessRights(p), u)}
        patched == named \ deleted
        skipped == {p \in patched : has_only_roles_without_everyone(Without(AccessRights(p), u)["write"])}
    IN
    /\ AtUser(c, "public_publications")
    /\ IF skipped # {} THEN Raises(c)
       ELSE /\ Continues(c, [client[c] EXCEPT !.later = Tail(@), !.delete = deleted,
                   !.patch = {[p |-> p, asked |-> Without(AccessRights(p), u)] : p \in patched}])
            /\ UNCHANGED <<users, workspaces, publication, redis, accounts, members, lock,
                           accepted, gone, crossed, hasty, answered, requests>>

(* delete_user begins with what has to be found by the row of the user.    *)
DeleteUserSteps(providers) == <<"delete_from_redis", "delete_user_roles">> \o providers

(* delete_publications, then delete_user.                                  *)
OwnPublications(c) ==
    LET u == client[c].on
        own == IF Exists(u) /\ is_user_in_access_rule(u, AccessRights(u)["write"]) THEN {u} ELSE {}
    IN
    /\ AtUser(c, "own_publications")
    /\ \E delete_whole_user \in ProviderOrders(<<"delete_account">>, <<"delete_user", "delete_workspace">>) :
          Continues(c, [client[c] EXCEPT !.delete = own, !.later = DeleteUserSteps(delete_whole_user)])
    /\ UNCHANGED <<users, workspaces, publication, redis, accounts, members, lock,
                   accepted, gone, crossed, hasty, answered, requests>>

(* DELETE of a user is answered after the last of its steps.               *)
Answers(c) ==
    answered' = IF Len(client[c].later) = 1 THEN answered \cup {client[c].on} ELSE answered

EnsureAccount(c) ==
    /\ AtUser(c, "ensure_account") /\ accounts' = accounts \cup {client[c].on} /\ GoesOn(c)
    /\ UNCHANGED <<users, workspaces, publication, redis, members, lock,
                   accepted, gone, crossed, hasty, answered, requests>>

DeleteAccount(c) ==
    /\ AtUser(c, "delete_account") /\ accounts' = accounts \ {client[c].on} /\ GoesOn(c) /\ Answers(c)
    /\ UNCHANGED <<users, workspaces, publication, redis, members, lock, accepted, gone, crossed, hasty, requests>>

(* Faulty: a failed call is logged, and the DELETE goes on.                *)
FailureLogged(c) ==
    /\ MayFail /\ AtUser(c, "delete_account") /\ GoesOn(c) /\ Answers(c)
    /\ UNCHANGED <<users, workspaces, publication, redis, accounts, members, lock,
                   accepted, gone, crossed, hasty, requests>>

(* A call of GeoServer that fails, done or not, ends the request: it       *)
(* raises HTTPError, and reserve_username cleans up after LaymanError only. *)
AccountFails(c) ==
    LET u == client[c].on IN
    /\ MayFail
    /\ \/ AtUser(c, "ensure_account") /\ accounts' \in {accounts, accounts \cup {u}}
       \/ AtUser(c, "delete_account") /\ accounts' \in {accounts, accounts \ {u}}
    /\ client' = [client EXCEPT ![c] = NoClient]
    /\ UNCHANGED <<users, workspaces, publication, redis, members, lock,
                   accepted, gone, crossed, hasty, answered, requests>>

Authn(c) ==
    LET u == client[c].on IN
    /\ \/ AtUser(c, "save_in_redis") /\ redis' = redis \cup {u}
       \/ AtUser(c, "delete_from_redis") /\ redis' = IF u \in users THEN redis \ {u} ELSE redis
    /\ GoesOn(c)
    /\ UNCHANGED <<users, workspaces, publication, accounts, members, lock,
                   accepted, gone, crossed, hasty, answered, requests>>

DeleteUserRoles(c) ==
    /\ AtUser(c, "delete_user_roles") /\ members' = members \ {client[c].on} /\ GoesOn(c)
    /\ UNCHANGED <<users, workspaces, publication, redis, accounts, lock,
                   accepted, gone, crossed, hasty, answered, requests>>

EnsureRow(c) ==
    LET u == client[c].on IN
    /\ \/ AtUser(c, "ensure_workspace") /\ workspaces' = workspaces \cup {u} /\ UNCHANGED users
       \/ /\ AtUser(c, "ensure_user") /\ u \in workspaces
          /\ users' = users \cup {u} /\ UNCHANGED workspaces
    /\ GoesOn(c)
    /\ UNCHANGED <<publication, redis, accounts, members, lock, accepted, gone, crossed, hasty, answered, requests>>

(* The workspace has been deleted since.                                   *)
NoWorkspace(c) == AtUser(c, "ensure_user") /\ client[c].on \notin workspaces /\ Raises(c)

(* A user that rows of rights refer to cannot be deleted.                  *)
DeleteUserRow(c) ==
    LET u == client[c].on IN
    /\ AtUser(c, "delete_user")
    /\ IF u \in users /\ \E p \in Publications, t \in Types : u \in publication[p].rights[t] THEN Raises(c)
       ELSE /\ users' = users \ {u} /\ gone' = gone \cup ({u} \cap users)
            /\ Continues(c, [client[c] EXCEPT !.later =
                   (IF u \in users THEN <<"delete_workspace">> ELSE <<>>) \o Tail(@)])
            /\ UNCHANGED <<workspaces, publication, redis, accounts, members, lock,
                           accepted, crossed, requests, hasty, answered>>

(* Nor a workspace that publications or users refer to.                    *)
DeleteWorkspace(c) ==
    LET u == client[c].on IN
    /\ AtUser(c, "delete_workspace")
    /\ IF u \in workspaces /\ (Exists(u) \/ u \in users) THEN Raises(c)
       ELSE /\ workspaces' = workspaces \ {u} /\ GoesOn(c) /\ Answers(c)
            /\ UNCHANGED <<users, publication, redis, accounts, members, lock,
                           accepted, gone, crossed, hasty, requests>>

Next ==
    \E c \in Clients :
        \/ /\ Begins(c)
           /\ \/ \E p \in Publications, actor \in Actors :
                    \/ Delete(c, p, actor)
                    \/ \E asked \in [Types -> Lists \cup {{}}] :
                          Post(c, p, actor, asked) \/ Patch(c, p, actor, asked)
              \/ \E u \in Users : Reserve(c, u) \/ DeleteUser(c, u)
        \/ Insert(c) \/ Update(c) \/ Rights(c) \/ Unlock(c)
        \/ LockPatch(c) \/ LockDelete(c) \/ DeleteRights(c) \/ DeleteRow(c)
        \/ PublicPublications(c) \/ OwnPublications(c)
        \/ EnsureAccount(c) \/ DeleteAccount(c) \/ AccountFails(c) \/ Authn(c) \/ DeleteUserRoles(c)
        \/ EnsureRow(c) \/ NoWorkspace(c) \/ DeleteUserRow(c) \/ DeleteWorkspace(c)

Spec == Init /\ [][Next]_vars
-----------------------------------------------------------------------------
(* No request is at p, and none has been overtaken by a DELETE of it.      *)
AtRest(p) ==
    /\ Exists(p) /\ p \notin crossed
    /\ \A c \in Clients : client[c].now.p # p

(* After any POST, PATCH and deletions of users, the rights of a           *)
(* publication are those last asked for, or kept: statement by statement   *)
(* of the difference to the old ones nothing was lost or left, except that *)
(* users who were deleted meanwhile are missing.                           *)
RightsAsAccepted ==
    \A p \in Publications, t \in Types :
        AtRest(p) => /\ AccessRights(p)[t] \subseteq accepted[p][t] \cup Owner(p)
                     /\ accepted[p][t] \ AccessRights(p)[t] \subseteq gone

(* The rights of a publication at rest are usable: who can write can read, *)
(* somebody can write, and the owner of a personal workspace can, unless   *)
(* it was a user deleted meanwhile who could.                              *)
RightsMakeSense ==
    \A p \in Publications :
        LET read == AccessRights(p)["read"] write == AccessRights(p)["write"] IN
        AtRest(p) => /\ Everyone \in read \/ write \ read \subseteq gone
                     /\ at_least_one_can_write(write) \/ accepted[p]["write"] \cap gone # {}
                     /\ Owner(p) \subseteq write

(* A user whose DELETE was answered, and who did not reserve the name      *)
(* again before the deletion was over, has left nothing: no username an    *)
(* identity still has, no role, no account in GeoServer and no row.        *)
DeletedLeavesNothing ==
    \A u \in Users : u \in answered \ hasty => u \notin users \cup redis \cup accounts \cup members

(* A user has an account in GeoServer as long as the workspace (DELETE     *)
(* User deletes the user, doc/rest.md).  Not so: when a call of GeoServer  *)
(* fails after the rows were deleted, the account stays, and a repeated    *)
(* DELETE answers that there is no such user.                              *)
AccountOfWorkspace == \A u \in Users : ~About(u) => (u \in accounts => u \in workspaces)

(* A registered user has a username in Redis, and so can log in: a DELETE  *)
(* of a user deletes all of it or nothing (doc/rest.md, DELETE User).  Not *)
(* so, even when no call fails: rights to what others publish in personal  *)
(* workspaces, or in public ones under EVERYONE, stop it at the row.       *)
UserIsWhole == \A u \in Users : ~About(u) => (u \in users <=> u \in redis)
=============================================================================
