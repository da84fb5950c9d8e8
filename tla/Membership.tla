----------------------------- MODULE Membership -----------------------------
(***************************************************************************)
(* Workspaces, their members and the link from a user's quota row to the   *)
(* workspace that pays (backend/app/services/workspace.py,                 *)
(* backend/app/routes/workspace.py, migration 012_workspaces.sql).         *)
(*                                                                         *)
(* The link decides whose budget the workspace RPC of WorkspaceGate        *)
(* charges.  Creating a workspace is one transaction; adding and removing  *)
(* a member are two statements each, sent one after the other, either of   *)
(* which may fail, or outlive the five seconds its caller waits.           *)
(*                                                                         *)
(* A slug is unique and stands for its workspace.  A request appears here  *)
(* once its actor's role is read (WorkspaceRoleChecker in core/security.py)*)
(* and found sufficient; the role may be lost before the first statement   *)
(* is sent.                                                                *)
(***************************************************************************)
EXTENDS Naturals, FiniteSets

CONSTANTS
    Workspaces,
    Users,
    Granted,     \* the roles that requests ask for
    Requests,    \* requests in progress at once
    None,        \* SQL NULL: a personal user
    Idle,        \* a request slot without a request
    MaxUnderWay  \* bound of the model: requests, and statements that outlive
                 \* their callers, at once

_ROLE_LEVEL == [owner |-> 3, admin |-> 2, member |-> 1]
Roles == DOMAIN _ROLE_LEVEL

ASSUME MembershipAssumption ==
    /\ Granted \subseteq Roles
    /\ None \notin Workspaces
    /\ MaxUnderWay \in Nat

VARIABLES
    created,    \* the rows of workspaces
    role,       \* workspace_members: [<<workspace, user>> -> role]
    linked,     \* user_quotas.workspace_id of each user that has a row
    req,        \* [request -> the statement it waits for, Idle for none]
    late        \* statements sent whose callers no longer wait

vars == <<created, role, linked, req, late>>

Kinds == {"create", "join", "link", "leave", "unlink"}

First == {"create", "join", "leave"}

\* alone is history: no other request or statement for the user met this one.
Statement == [at : Kinds, ws : Workspaces, user : Users, role : Roles,
              alone : BOOLEAN]

Init ==
    /\ created = {}
    /\ role = << >>
    /\ linked = << >>
    /\ req = [r \in Requests |-> Idle]
    /\ late = {}

-----------------------------------------------------------------------------
Waiting(r) == req[r] # Idle

Mine(u) == {r \in Requests : Waiting(r) /\ req[r].user = u}

Busy(u) == Mine(u) # {} \/ \E s \in late : s.user = u

Members(w) == {u \in Users : <<w, u>> \in DOMAIN role}

HasRole(u, w, min_role) ==
    u \in Members(w) /\ _ROLE_LEVEL[role[<<w, u>>]] >= _ROLE_LEVEL[min_role]

\* Seeded fault: any member will do.
Admitted_member(k, w) ==
    IF k = "create" THEN w \notin created
                    ELSE \E v \in Users : HasRole(v, w, "member")

\* The route reads, then sends: a slug that is taken is refused here, and
\* members are added and removed on behalf of an admin or owner.
Admitted(k, w) ==
    IF k = "create" THEN w \notin created
                    ELSE \E v \in Users : HasRole(v, w, "admin")

\* The role that the request gives its user, where it gives one.
Asked(k) == IF k = "join" THEN Granted ELSE {"owner"}

Ask(r, k, w, u, new) ==
    /\ ~Waiting(r)
    /\ Cardinality({q \in Requests : Waiting(q)} \union late) < MaxUnderWay
    /\ Admitted(k, w)
    /\ req' = [q \in Requests |->
                 IF q = r THEN [at |-> k, ws |-> w, user |-> u, role |-> new,
                                alone |-> ~Busy(u)]
                 ELSE IF q \in Mine(u) THEN [req[q] EXCEPT !.alone = FALSE]
                 ELSE req[q]]
    /\ UNCHANGED <<created, role, linked, late>>

-----------------------------------------------------------------------------
Link(u, w) ==
    linked' = IF u \in DOMAIN linked THEN [linked EXCEPT ![u] = w] ELSE linked

\* Seeded fault: nothing is unlinked.
Unlink_never(u) == linked' = linked

\* SET workspace_id = NULL, whichever workspace the row names
Unlink(u) == Link(u, None)

\* An upsert: a member, or an owner, that is there gets the new role.
SetRole(w, u, new) ==
    [m \in DOMAIN role \union {<<w, u>>} |-> IF m = <<w, u>> THEN new ELSE role[m]]

\* INSERT workspace, INSERT owner, UPDATE user_quotas: one transaction
Create(w, u) ==
    /\ w \notin created
    /\ created' = created \union {w}
    /\ role' = SetRole(w, u, "owner")
    /\ Link(u, w)

\* What the database does for a statement.
Run(s) ==
    \/ s.at = "create" /\ Create(s.ws, s.user)
    \/ /\ s.at = "join"
       /\ role' = SetRole(s.ws, s.user, s.role)
       /\ UNCHANGED <<created, linked>>
    \/ /\ s.at = "leave"
       /\ role' = [m \in DOMAIN role \ {<<s.ws, s.user>>} |-> role[m]]
       /\ UNCHANGED <<created, linked>>
    \/ /\ s.at = "link"
       /\ Link(s.user, s.ws)
       /\ UNCHANGED <<created, role>>
    \/ /\ s.at = "unlink"
       /\ Unlink(s.user)
       /\ UNCHANGED <<created, role>>

Follows == [join |-> "link", leave |-> "unlink"]

\* The first statement is answered, the second is sent.
Advance(r) ==
    /\ Waiting(r) /\ req[r].at \in DOMAIN Follows
    /\ Run(req[r])
    /\ req' = [req EXCEPT ![r].at = Follows[@]]
    /\ late' = late

\* The last statement is answered: 201 or 204.
Succeed(r) ==
    /\ Waiting(r) /\ req[r].at \notin DOMAIN Follows
    /\ Run(req[r])
    /\ req' = [req EXCEPT ![r] = Idle]
    /\ late' = late

\* The statement fails, or is never sent: 503 or 404, or no answer after a crash.
Fail(r) ==
    /\ Waiting(r)
    /\ req' = [req EXCEPT ![r] = Idle]
    /\ UNCHANGED <<created, role, linked, late>>

\* The caller gives up after _TIMEOUT, the statement is under way.
TimeOut(r) ==
    /\ Waiting(r)
    /\ late' = late \union {[req[r] EXCEPT !.alone = FALSE]}
    /\ req' = [req EXCEPT ![r] = Idle]
    /\ UNCHANGED <<created, role, linked>>

\* It takes effect after all, or never does.
Late(s) ==
    /\ late' = late \ {s}
    /\ Run(s) \/ UNCHANGED <<created, role, linked>>
    /\ req' = req

\* The quota row of a new user names no workspace.
Provision(u) ==
    /\ u \notin DOMAIN linked
    /\ linked' = [v \in DOMAIN linked \union {u} |-> IF v = u THEN None ELSE linked[v]]
    /\ UNCHANGED <<created, role, req, late>>

-----------------------------------------------------------------------------
Next ==
    \/ \E r \in Requests, k \in First, w \in Workspaces, u \in Users :
         \E new \in Asked(k) : Ask(r, k, w, u, new)
    \/ \E r \in Requests : Advance(r) \/ Succeed(r) \/ Fail(r) \/ TimeOut(r)
    \/ \E s \in late : Late(s)
    \/ \E u \in Users : Provision(u)

Spec == Init /\ [][Next]_vars

-----------------------------------------------------------------------------
(* Every variable holds values of its columns' types, a foreign key names  *)
(* a workspace that exists, and a request waits for a statement it can     *)
(* have sent (the references of 012_workspaces.sql and the waits of        *)
(* services/workspace.py).                                                 *)
TypeOK ==
    /\ created \subseteq Workspaces
    /\ DOMAIN role \subseteq created \X Users
    /\ \A m \in DOMAIN role : role[m] \in Roles
    /\ \E us \in SUBSET Users : linked \in [us -> created \union {None}]
    /\ req \in [Requests -> Statement \union {Idle}]
    /\ late \subseteq Statement

\* The user is charged to a workspace it is a member of, or to none.
Backed(u) ==
    u \in DOMAIN linked /\ linked[u] # None => u \in Members(linked[u])

\* What the request of statement s was for.
Effected(s) ==
    IF s.at = "unlink" THEN s.user \notin Members(s.ws)
    ELSE /\ <<s.ws, s.user>> \in DOMAIN role
         /\ role[<<s.ws, s.user>>] = s.role
         /\ s.user \in DOMAIN linked => linked[s.user] = s.ws

(* Whatever earlier failures, overlaps and second memberships have left    *)
(* behind, a request that met no other for its user and answered success   *)
(* has the effect it was made for, in both tables, and leaves that user    *)
(* charged to a workspace it is a member of, or to none: repeating a       *)
(* failed add_member or remove_member repairs what it left.                *)
AloneSettles ==
    [][\A r \in Requests : \A s \in {req[r]} :
         Succeed(r) /\ s.alone => Backed(s.user)' /\ Effected(s)']_vars

\* Nobody is left with a managing role, and nothing a manager asked for is
\* still on its way.
Abandoned(w) ==
    /\ w \in created
    /\ ~ \E u \in Users : HasRole(u, w, "admin")
    /\ \A r \in Requests : Waiting(r) => req[r].ws # w
    /\ \A s \in late : s.ws # w

(* Managers can demote and remove each other and themselves, also with     *)
(* requests that passed their check before their own role was lost.  Once  *)
(* the last such request is over, nobody can change who belongs to the     *)
(* workspace any more: a member does not become a manager without one      *)
(* (core/security.py:134-156, services/workspace.py:190-232).              *)
AbandonedForGood ==
    [][\A w \in Workspaces :
         Abandoned(w) => Abandoned(w)' /\ Members(w)' = Members(w)]_vars
=============================================================================
