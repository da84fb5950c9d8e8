-------------------------- MODULE MembershipProofs --------------------------
(***************************************************************************)
(* For any users, workspaces and requests: the tables keep their types and *)
(* foreign keys, a request that met no other settles what it was made for, *)
(* and a workspace that has lost its last manager stays as it is.          *)
(***************************************************************************)
EXTENDS Membership, TLAPS

-----------------------------------------------------------------------------
(* What one statement does to the tables.                                  *)

\* A statement under way is one that a request can have sent: only its owner
\* creates a workspace, and all others are about one that exists.
Sent(s, existing) ==
    /\ s \in Statement
    /\ s.at = "create" => s.role = "owner"
    /\ s.at # "create" => s.ws \in existing

Tables ==
    /\ created \subseteq Workspaces
    /\ DOMAIN role \subseteq created \X Users
    /\ \A m \in DOMAIN role : role[m] \in Roles
    /\ \E us \in SUBSET Users : linked \in [us -> created \union {None}]

LEMMA Fields ==
    ASSUME NEW s \in Statement
    PROVE  /\ s.at \in {"create", "join", "link", "leave", "unlink"}
           /\ s.ws \in Workspaces /\ s.user \in Users /\ s.role \in Roles
           /\ s.alone \in BOOLEAN
BY DEF Statement, Kinds

LEMMA SetRoleTypes ==
    ASSUME Tables, created \subseteq created', NEW w \in created', NEW u \in Users,
           NEW new \in Roles, role' = SetRole(w, u, new)
    PROVE  /\ DOMAIN role' = DOMAIN role \union {<<w, u>>}
           /\ DOMAIN role' \subseteq created' \X Users
           /\ role'[<<w, u>>] = new
           /\ \A m \in DOMAIN role \ {<<w, u>>} : role'[m] = role[m]
           /\ \A m \in DOMAIN role' : role'[m] \in Roles
BY DEF Tables, SetRole

LEMMA LinkTypes ==
    ASSUME Tables, NEW u \in Users, NEW w, Link(u, w)
    PROVE  /\ DOMAIN linked' = DOMAIN linked
           /\ u \in DOMAIN linked => linked'[u] = w
           /\ \A cs : created \union {w} \subseteq cs \union {None} /\ created \subseteq cs =>
                \E us \in SUBSET Users : linked' \in [us -> cs \union {None}]
<1>1. PICK us \in SUBSET Users : linked \in [us -> created \union {None}]
  BY DEF Tables
<1>2. CASE u \in DOMAIN linked
  <2>1. linked' = [linked EXCEPT ![u] = w]
    BY <1>2 DEF Link
  <2>2. ASSUME NEW cs, created \union {w} \subseteq cs \union {None}, created \subseteq cs
        PROVE  linked' \in [us -> cs \union {None}]
    BY <1>1, <1>2, <2>1, <2>2
  <2> QED
    BY <1>1, <1>2, <2>1, <2>2
<1>3. CASE u \notin DOMAIN linked
  <2>1. linked' = linked
    BY <1>3 DEF Link
  <2> QED
    BY <1>1, <1>3, <2>1
<1> QED
  BY <1>2, <1>3

\* A statement keeps the types and touches the membership of its user only.
LEMMA RunTables ==
    ASSUME Tables, NEW s, Sent(s, created), Run(s)
    PROVE  /\ Tables' /\ created \subseteq created'
           /\ DOMAIN linked' = DOMAIN linked
           /\ \A m : m # <<s.ws, s.user>> =>
                /\ m \in DOMAIN role' <=> m \in DOMAIN role
                /\ m \in DOMAIN role => role'[m] = role[m]
<1> USE DEF Sent
<1>0. /\ s \in Statement /\ s.ws \in Workspaces /\ s.user \in Users /\ s.role \in Roles
      /\ "owner" \in Roles
  BY Fields DEF Roles, _ROLE_LEVEL
<1>1. CASE s.at = "create" /\ Create(s.ws, s.user)
  <2>1. /\ created' = created \union {s.ws} /\ role' = SetRole(s.ws, s.user, "owner")
        /\ Link(s.user, s.ws)
    BY <1>1 DEF Create
  <2>2. created' \subseteq Workspaces /\ s.ws \in created' /\ created \subseteq created'
    BY <1>0, <2>1 DEF Tables
  <2>3. /\ DOMAIN role' = DOMAIN role \union {<<s.ws, s.user>>}
        /\ DOMAIN role' \subseteq created' \X Users
        /\ \A m \in DOMAIN role \ {<<s.ws, s.user>>} : role'[m] = role[m]
        /\ \A m \in DOMAIN role' : role'[m] \in Roles
    BY <1>0, <2>1, <2>2, SetRoleTypes
  <2>4. /\ DOMAIN linked' = DOMAIN linked
        /\ \E us \in SUBSET Users : linked' \in [us -> created' \union {None}]
    BY <1>0, <2>1, <2>2, LinkTypes
  <2> QED
    BY <2>2, <2>3, <2>4 DEF Tables
<1>2. CASE /\ s.at = "join" /\ role' = SetRole(s.ws, s.user, s.role)
           /\ UNCHANGED <<created, linked>>
  <2>1. /\ DOMAIN role' = DOMAIN role \union {<<s.ws, s.user>>}
        /\ DOMAIN role' \subseteq created' \X Users
        /\ \A m \in DOMAIN role \ {<<s.ws, s.user>>} : role'[m] = role[m]
        /\ \A m \in DOMAIN role' : role'[m] \in Roles
    BY <1>0, <1>2, SetRoleTypes
  <2> QED
    BY <1>2, <2>1 DEF Tables
<1>3. CASE /\ s.at = "leave"
           /\ role' = [m \in DOMAIN role \ {<<s.ws, s.user>>} |-> role[m]]
           /\ UNCHANGED <<created, linked>>
  BY <1>3 DEF Tables
<1>4. CASE /\ s.at \in {"link", "unlink"} /\ UNCHANGED <<created, role>>
           /\ \/ s.at = "link" /\ Link(s.user, s.ws)
              \/ Link(s.user, None)
  <2>1. PICK w \in created \union {None} : Link(s.user, w)
    BY <1>4
  <2>2. /\ DOMAIN linked' = DOMAIN linked
        /\ \E us \in SUBSET Users : linked' \in [us -> created \union {None}]
    BY <1>0, <2>1, LinkTypes
  <2> QED
    BY <1>4, <2>2 DEF Tables
<1> QED
  BY <1>1, <1>2, <1>3, <1>4 DEF Run, Unlink

-----------------------------------------------------------------------------
(* The types.                                                              *)

Under == /\ req \in [Requests -> Statement \union {Idle}]
         /\ \A r \in Requests : Waiting(r) => Sent(req[r], created)
         /\ \A s \in late : Sent(s, created)

Types == Tables /\ Under

LEMMA TypesOK == Types => TypeOK
BY DEF Types, Tables, Under, Sent, TypeOK

LEMMA InitTypes == Init => Types
<1> SUFFICES ASSUME Init PROVE Types
  OBVIOUS
<1>1. Tables
  <2>1. DOMAIN role = {} /\ linked \in [{} -> created \union {None}]
    BY DEF Init
  <2> QED
    BY <2>1 DEF Init, Tables
<1>2. Under
  BY DEF Init, Under, Waiting
<1> QED
  BY <1>1, <1>2 DEF Types

\* What a request asks for is a statement, about a workspace that exists if
\* it does not create one.
LEMMA AskSends ==
    ASSUME Tables, NEW k \in First, NEW w \in Workspaces, NEW u \in Users,
           NEW new \in Asked(k), NEW b \in BOOLEAN, Admitted(k, w)
    PROVE  Sent([at |-> k, ws |-> w, user |-> u, role |-> new, alone |-> b], created)
<1> DEFINE s == [at |-> k, ws |-> w, user |-> u, role |-> new, alone |-> b]
<1>1. new \in Roles /\ (k = "create" => new = "owner")
  BY MembershipAssumption DEF Asked, Roles, _ROLE_LEVEL, First
<1>2. s \in Statement
  BY <1>1 DEF Statement, Kinds, First
<1>3. k # "create" => w \in created
  BY DEF Admitted, HasRole, Members, Tables
<1> QED
  BY <1>1, <1>2, <1>3 DEF Sent

\* A new request leaves the others as they are, except that they have met.
LEMMA AskEffect ==
    ASSUME Types, NEW r \in Requests, NEW k \in First, NEW w \in Workspaces,
           NEW u \in Users, NEW new \in Asked(k), Ask(r, k, w, u, new)
    PROVE  /\ req'[r] = [at |-> k, ws |-> w, user |-> u, role |-> new,
                         alone |-> ~Busy(u)]
           /\ req' \in [Requests -> Statement \union {Idle}]
           /\ \A q \in Requests \ {r} :
                /\ req'[q] # Idle => req[q] # Idle
                /\ req[q] # Idle =>
                     /\ req'[q] \in Statement
                     /\ req'[q].at = req[q].at /\ req'[q].ws = req[q].ws
                     /\ req'[q].user = req[q].user /\ req'[q].role = req[q].role
                     /\ req'[q].alone => req[q].alone /\ req[q].user # u
<1> DEFINE new_s == [at |-> k, ws |-> w, user |-> u, role |-> new, alone |-> ~Busy(u)]
<1>1. /\ Admitted(k, w)
      /\ req' = [q \in Requests |->
                   IF q = r THEN new_s
                   ELSE IF q \in Mine(u) THEN [req[q] EXCEPT !.alone = FALSE]
                   ELSE req[q]]
  BY DEF Ask
<1>2. Busy(u) \in BOOLEAN
  BY DEF Busy
<1>3. new_s \in Statement
  BY <1>1, <1>2, AskSends DEF Types, Sent
<1> HIDE DEF new_s
<1>4. ASSUME NEW q \in Requests \ {r}, req[q] # Idle
      PROVE  /\ req'[q] \in Statement
             /\ req'[q].at = req[q].at /\ req'[q].ws = req[q].ws
             /\ req'[q].user = req[q].user /\ req'[q].role = req[q].role
             /\ req'[q].alone => req[q].alone /\ req[q].user # u
  <2>1. req[q] \in Statement
    BY <1>4 DEF Types, Under
  <2>2. CASE q \in Mine(u)
    <3>1. req'[q] = [req[q] EXCEPT !.alone = FALSE]
      BY <1>1, <2>2
    <3> QED
      BY <2>1, <3>1 DEF Statement
  <2>3. CASE q \notin Mine(u)
    <3>1. req'[q] = req[q] /\ req[q].user # u
      BY <1>1, <1>4, <2>3 DEF Mine, Waiting
    <3> QED
      BY <2>1, <3>1
  <2> QED
    BY <2>2, <2>3
<1>5. ASSUME NEW q \in Requests \ {r}, req[q] = Idle
      PROVE  req'[q] = Idle
  BY <1>1, <1>5 DEF Mine, Waiting
<1>6. req' \in [Requests -> Statement \union {Idle}]
  <2>1. \A q \in Requests : req'[q] \in Statement \union {Idle}
    BY <1>1, <1>3, <1>4, <1>5
  <2> QED
    BY <1>1, <2>1
<1>7. req'[r] = new_s
  BY <1>1
<1> QED
  BY <1>4, <1>5, <1>6, <1>7 DEF new_s

\* The other steps of a request change its own entry only.
Moves(r, next) ==
    /\ req' = [req EXCEPT ![r] = next]
    /\ req[r] # Idle

LEMMA Turns ==
    ASSUME Types, NEW r \in Requests
    PROVE  /\ Advance(r) => /\ Moves(r, [req[r] EXCEPT !.at = Follows[req[r].at]])
                            /\ req[r].at \in {"join", "leave"}
                            /\ Follows[req[r].at] \in {"link", "unlink"}
                            /\ Run(req[r]) /\ late' = late
           /\ Succeed(r) => /\ Moves(r, Idle) /\ Run(req[r]) /\ late' = late
                            /\ req[r].at \in {"create", "link", "unlink"}
           /\ Fail(r) => Moves(r, Idle) /\ UNCHANGED <<created, role, linked, late>>
           /\ TimeOut(r) => /\ Moves(r, Idle) /\ UNCHANGED <<created, role, linked>>
                            /\ late' = late \union {[req[r] EXCEPT !.alone = FALSE]}
<1>1. DOMAIN Follows = {"join", "leave"}
  BY DEF Follows
<1>2. req \in [Requests -> Statement \union {Idle}]
  BY DEF Types, Under
<1>3. ASSUME Advance(r)
      PROVE  /\ Moves(r, [req[r] EXCEPT !.at = Follows[req[r].at]])
             /\ req[r].at \in {"join", "leave"}
             /\ Follows[req[r].at] \in {"link", "unlink"}
             /\ Run(req[r]) /\ late' = late
  <2>1. Waiting(r) /\ req[r].at \in {"join", "leave"} /\ Run(req[r]) /\ late' = late
    BY <1>1, <1>3 DEF Advance
  <2>2. Follows[req[r].at] \in {"link", "unlink"}
    BY <2>1 DEF Follows
  <2>3. req' = [req EXCEPT ![r] = [req[r] EXCEPT !.at = Follows[req[r].at]]]
    BY <1>2, <1>3 DEF Advance
  <2> QED
    BY <2>1, <2>2, <2>3 DEF Moves, Waiting
<1>4. ASSUME Succeed(r)
      PROVE  /\ Moves(r, Idle) /\ Run(req[r]) /\ late' = late
             /\ req[r].at \in {"create", "link", "unlink"}
  <2>1. Waiting(r) /\ req[r] \in Statement
    BY <1>4 DEF Succeed, Types, Under, Sent
  <2>2. req[r].at \in {"create", "link", "unlink"}
    BY <1>1, <1>4, <2>1, Fields DEF Succeed
  <2> QED
    BY <1>4, <2>1, <2>2 DEF Moves, Waiting, Succeed
<1>5. Fail(r) => Moves(r, Idle) /\ UNCHANGED <<created, role, linked, late>>
  BY DEF Moves, Waiting, Fail
<1>6. TimeOut(r) => /\ Moves(r, Idle) /\ UNCHANGED <<created, role, linked>>
                    /\ late' = late \union {[req[r] EXCEPT !.alone = FALSE]}
  BY DEF Moves, Waiting, TimeOut
<1> QED
  BY <1>3, <1>4, <1>5, <1>6

LEMMA NextTypes == Types /\ [Next]_vars => Types'
<1> SUFFICES ASSUME Types, [Next]_vars PROVE Types'
  OBVIOUS
<1> USE DEF Types
<1>1. ASSUME NEW r \in Requests, NEW k \in First, NEW w \in Workspaces,
             NEW u \in Users, NEW new \in Asked(k), Ask(r, k, w, u, new)
      PROVE  Types'
  <2> DEFINE asked == [at |-> k, ws |-> w, user |-> u, role |-> new,
                       alone |-> ~Busy(u)]
  <2>1. UNCHANGED <<created, role, linked, late>> /\ Admitted(k, w)
    BY <1>1 DEF Ask
  <2>2. Busy(u) \in BOOLEAN
    BY DEF Busy
  <2>3. /\ req'[r] = asked /\ req' \in [Requests -> Statement \union {Idle}]
        /\ \A q \in Requests \ {r} :
             /\ req'[q] # Idle => req[q] # Idle
             /\ req[q] # Idle =>
                  /\ req'[q] \in Statement
                  /\ req'[q].at = req[q].at /\ req'[q].ws = req[q].ws
                  /\ req'[q].user = req[q].user /\ req'[q].role = req[q].role
    BY <1>1, AskEffect
  <2>4. Sent(asked, created)
    BY <2>1, <2>2, AskSends
  <2> HIDE DEF asked
  <2>5. ASSUME NEW q \in Requests, req'[q] # Idle PROVE Sent(req'[q], created')
    <3>1. CASE q # r
      <4>1. req[q] # Idle /\ Sent(req[q], created)
        BY <2>3, <2>5, <3>1 DEF Under, Waiting
      <4> QED
        BY <2>1, <2>3, <3>1, <4>1 DEF Sent
    <3> QED
      BY <2>1, <2>3, <2>4, <3>1
  <2>6. Under'
    BY <2>1, <2>3, <2>5 DEF Under, Waiting
  <2> QED
    BY <2>1, <2>6 DEF Tables
<1>2. ASSUME NEW r \in Requests, NEW next \in Statement \union {Idle}, Moves(r, next),
             Tables', created \subseteq created', next # Idle => Sent(next, created'),
             \A s \in late' : s \in late \/ Sent(s, created)
      PROVE  Types'
  <2>1. req' \in [Requests -> Statement \union {Idle}]
    BY <1>2 DEF Moves, Under
  <2>2. ASSUME NEW q \in Requests, req'[q] # Idle PROVE Sent(req'[q], created')
    <3>1. CASE q = r
      <4>1. req'[q] = next
        BY <1>2, <3>1 DEF Moves, Under
      <4> QED
        BY <1>2, <2>2, <4>1
    <3>2. CASE q # r
      <4>1. req'[q] = req[q] /\ Sent(req[q], created)
        BY <1>2, <2>2, <3>2 DEF Moves, Under, Waiting
      <4> QED
        BY <1>2, <4>1 DEF Sent
    <3> QED
      BY <3>1, <3>2
  <2>3. \A s \in late' : Sent(s, created')
    <3>1. \A s \in late' : Sent(s, created)
      BY <1>2 DEF Under
    <3> QED
      BY <1>2, <3>1 DEF Sent
  <2>4. Under'
    BY <2>1, <2>2, <2>3 DEF Under, Waiting, Sent
  <2> QED
    BY <1>2, <2>4
<1>3. ASSUME NEW r \in Requests, Advance(r) PROVE Types'
  <2> DEFINE next == [req[r] EXCEPT !.at = Follows[req[r].at]]
  <2>1. /\ Moves(r, next) /\ req[r].at \in {"join", "leave"}
        /\ Follows[req[r].at] \in {"link", "unlink"} /\ Run(req[r]) /\ late' = late
    BY <1>3, Turns
  <2>2. Sent(req[r], created)
    BY <2>1 DEF Moves, Under, Waiting
  <2>3. Tables' /\ created \subseteq created'
    BY <2>1, <2>2, RunTables
  <2>4. next \in Statement /\ Sent(next, created)
    BY <2>1, <2>2 DEF Sent, Statement, Kinds
  <2>5. Sent(next, created')
    BY <2>3, <2>4 DEF Sent
  <2> HIDE DEF next
  <2> QED
    BY <1>2, <2>1, <2>3, <2>4, <2>5
<1>4. ASSUME NEW r \in Requests, Succeed(r) PROVE Types'
  <2>1. Moves(r, Idle) /\ Run(req[r]) /\ late' = late
    BY <1>4, Turns
  <2>2. Sent(req[r], created)
    BY <2>1 DEF Moves, Under, Waiting
  <2> QED
    BY <1>2, <2>1, <2>2, RunTables
<1>5. ASSUME NEW r \in Requests, Fail(r) PROVE Types'
  <2>1. Moves(r, Idle) /\ UNCHANGED <<created, role, linked, late>>
    BY <1>5, Turns
  <2> QED
    BY <1>2, <2>1 DEF Tables
<1>6. ASSUME NEW r \in Requests, TimeOut(r) PROVE Types'
  <2>1. /\ Moves(r, Idle) /\ UNCHANGED <<created, role, linked>>
        /\ late' = late \union {[req[r] EXCEPT !.alone = FALSE]}
    BY <1>6, Turns
  <2>2. Sent(req[r], created)
    BY <2>1 DEF Moves, Under, Waiting
  <2>3. Sent([req[r] EXCEPT !.alone = FALSE], created)
    BY <2>2 DEF Sent, Statement
  <2> QED
    BY <1>2, <2>1, <2>3 DEF Tables
<1>7. ASSUME NEW s \in late, Late(s) PROVE Types'
  <2>1. Sent(s, created) /\ req' = req /\ late' \subseteq late
    BY <1>7 DEF Late, Under
  <2>2. Tables' /\ created \subseteq created'
    BY <1>7, <2>1, RunTables DEF Late, Tables
  <2> QED
    BY <2>1, <2>2 DEF Under, Waiting, Sent
<1>8. ASSUME NEW u \in Users, Provision(u) PROVE Types'
  <2>1. PICK us \in SUBSET Users : linked \in [us -> created \union {None}]
    BY DEF Tables
  <2>2. linked' \in [us \union {u} -> created \union {None}]
    BY <1>8, <2>1 DEF Provision
  <2>3. UNCHANGED <<created, role, req, late>>
    BY <1>8 DEF Provision
  <2>4. Tables'
    BY <2>2, <2>3 DEF Tables
  <2> QED
    BY <2>3, <2>4 DEF Under, Waiting, Sent
<1>9. CASE UNCHANGED vars
  BY <1>9 DEF vars, Tables, Under, Waiting, Sent
<1> QED
  BY <1>1, <1>3, <1>4, <1>5, <1>6, <1>7, <1>8, <1>9 DEF Next

LEMMA TypesAlways == Spec => []Types
BY InitTypes, NextTypes, PTL DEF Spec

\* The tables keep their types, and no link or membership names a workspace
\* that does not exist.
THEOREM TypeCorrect == Spec => []TypeOK
BY TypesAlways, TypesOK, PTL

-----------------------------------------------------------------------------
(* A request that meets no other for its user.                             *)

\* Such a request is the only one, and what its first statement did stands.
Undisturbed(s, q) ==
    /\ \A p \in Requests \ {q} : req[p] # Idle => req[p].user # s.user
    /\ \A t \in late : t.user # s.user
    /\ s.at = "link" => /\ <<s.ws, s.user>> \in DOMAIN role
                        /\ role[<<s.ws, s.user>>] = s.role
    /\ s.at = "unlink" => <<s.ws, s.user>> \notin DOMAIN role

AloneInv == \A q \in Requests : req[q] # Idle /\ req[q].alone => Undisturbed(req[q], q)

Settled == Types /\ AloneInv

\* A statement for another user disturbs nobody.
LEMMA OthersUndisturbed ==
    ASSUME Types, NEW s, Sent(s, created), Run(s), NEW w, NEW u, u # s.user
    PROVE  /\ <<w, u>> \in DOMAIN role' <=> <<w, u>> \in DOMAIN role
           /\ <<w, u>> \in DOMAIN role => role'[<<w, u>>] = role[<<w, u>>]
<1>1. <<w, u>> # <<s.ws, s.user>>
  OBVIOUS
<1> QED
  BY <1>1, RunTables DEF Types

\* What the statement of a request does for its own user.
LEMMA RunEffect ==
    ASSUME Types, NEW s, Sent(s, created), Run(s)
    PROVE  /\ s.at \in {"create", "join"} => /\ <<s.ws, s.user>> \in DOMAIN role'
                                             /\ role'[<<s.ws, s.user>>] = s.role
           /\ s.at = "leave" => <<s.ws, s.user>> \notin DOMAIN role'
           /\ s.at \in {"link", "unlink"} => role' = role
           /\ s.at \in {"create", "link"} /\ s.user \in DOMAIN linked' =>
                linked'[s.user] = s.ws
           /\ s.at = "unlink" /\ s.user \in DOMAIN linked' => linked'[s.user] = None
<1>0. s \in Statement /\ s.user \in Users /\ s.ws \in Workspaces /\ s.role \in Roles
      /\ Tables
  BY Fields DEF Sent, Types
<1>1. CASE s.at = "create" /\ Create(s.ws, s.user)
  <2>1. /\ created' = created \union {s.ws} /\ role' = SetRole(s.ws, s.user, "owner")
        /\ Link(s.user, s.ws) /\ s.role = "owner"
    BY <1>1 DEF Create, Sent
  <2>2. <<s.ws, s.user>> \in DOMAIN role' /\ role'[<<s.ws, s.user>>] = s.role
    BY <2>1 DEF SetRole
  <2>3. s.user \in DOMAIN linked' => linked'[s.user] = s.ws
    BY <1>0, <2>1, LinkTypes
  <2> QED
    BY <1>1, <2>2, <2>3
<1>2. CASE /\ s.at = "join" /\ role' = SetRole(s.ws, s.user, s.role)
           /\ UNCHANGED <<created, linked>>
  <2>1. <<s.ws, s.user>> \in DOMAIN role' /\ role'[<<s.ws, s.user>>] = s.role
    BY <1>2 DEF SetRole
  <2> QED
    BY <1>2, <2>1
<1>3. CASE /\ s.at = "leave"
           /\ role' = [m \in DOMAIN role \ {<<s.ws, s.user>>} |-> role[m]]
  BY <1>3
<1>4. CASE s.at = "link" /\ Link(s.user, s.ws) /\ UNCHANGED <<created, role>>
  <2>1. s.user \in DOMAIN linked' => linked'[s.user] = s.ws
    BY <1>0, <1>4, LinkTypes
  <2> QED
    BY <1>4, <2>1
<1>5. CASE s.at = "unlink" /\ Link(s.user, None) /\ UNCHANGED <<created, role>>
  <2>1. s.user \in DOMAIN linked' => linked'[s.user] = None
    BY <1>0, <1>5, LinkTypes
  <2> QED
    BY <1>5, <2>1
<1> QED
  BY <1>1, <1>2, <1>3, <1>4, <1>5 DEF Run, Unlink

\* A request that is done, or under way no longer, leaves the others alone.
LEMMA LeavesAlone ==
    ASSUME Settled, NEW r \in Requests, Moves(r, Idle),
           \/ UNCHANGED role
           \/ Run(req[r]),
           \A t \in late' : t \in late \/ t.user = req[r].user
    PROVE  AloneInv'
<1>1. req \in [Requests -> Statement \union {Idle}] /\ Sent(req[r], created)
      /\ req[r] # Idle
  BY DEF Settled, Types, Under, Waiting, Moves
<1>2. req'[r] = Idle /\ \A q \in Requests \ {r} : req'[q] = req[q]
  BY <1>1 DEF Moves
<1> SUFFICES ASSUME NEW q \in Requests, req'[q] # Idle, req'[q].alone
             PROVE  Undisturbed(req[q], q)'
  BY <1>2 DEF AloneInv, Undisturbed
<1>3. q # r /\ req'[q] = req[q] /\ req[q] # Idle /\ req[q].alone
  BY <1>2
<1>4. Undisturbed(req[q], q) /\ req[r].user # req[q].user
  BY <1>1, <1>3 DEF Settled, AloneInv, Undisturbed
<1>5. /\ <<req[q].ws, req[q].user>> \in DOMAIN role' <=>
           <<req[q].ws, req[q].user>> \in DOMAIN role
      /\ <<req[q].ws, req[q].user>> \in DOMAIN role =>
           role'[<<req[q].ws, req[q].user>>] = role[<<req[q].ws, req[q].user>>]
  BY <1>1, <1>4, OthersUndisturbed DEF Settled
<1>6. \A t \in late' : t.user # req[q].user
  BY <1>4 DEF Undisturbed
<1>7. \A p \in Requests \ {q} : req'[p] # Idle => req'[p].user # req'[q].user
  BY <1>2, <1>3, <1>4 DEF Undisturbed
<1> QED
  BY <1>3, <1>4, <1>5, <1>6, <1>7 DEF Undisturbed

LEMMA NextSettled == Settled /\ [Next]_vars => Settled'
<1> SUFFICES ASSUME Settled, [Next]_vars PROVE AloneInv'
  BY NextTypes DEF Settled
<1>0. /\ Types /\ AloneInv /\ req \in [Requests -> Statement \union {Idle}]
  BY DEF Settled, Types, Under
<1>1. ASSUME NEW r \in Requests, NEW k \in First, NEW w \in Workspaces,
             NEW u \in Users, NEW new \in Asked(k), Ask(r, k, w, u, new)
      PROVE  AloneInv'
  <2> DEFINE asked == [at |-> k, ws |-> w, user |-> u, role |-> new,
                       alone |-> ~Busy(u)]
  <2>1. UNCHANGED <<role, late>> /\ req[r] = Idle
    BY <1>1 DEF Ask, Waiting
  <2>2. /\ req'[r] = asked
        /\ \A q \in Requests \ {r} :
             /\ req'[q] # Idle => req[q] # Idle
             /\ req[q] # Idle =>
                  /\ req'[q].at = req[q].at /\ req'[q].ws = req[q].ws
                  /\ req'[q].user = req[q].user /\ req'[q].role = req[q].role
                  /\ req'[q].alone => req[q].alone /\ req[q].user # u
    BY <1>0, <1>1, AskEffect
  <2>3. /\ asked.user = u /\ asked.at \notin {"link", "unlink"}
        /\ asked.alone => ~Busy(u)
    BY DEF First
  <2> HIDE DEF asked
  <2>4. ASSUME asked.alone PROVE Undisturbed(req[r], r)'
    <3>1. /\ \A q \in Requests : req[q] # Idle => req[q].user # u
          /\ \A t \in late : t.user # u
      BY <2>3, <2>4 DEF Busy, Mine, Waiting
    <3> QED
      BY <2>1, <2>2, <2>3, <3>1 DEF Undisturbed
  <2>5. ASSUME NEW q \in Requests \ {r}, req'[q] # Idle, req'[q].alone
        PROVE  Undisturbed(req[q], q)'
    <3>1. /\ req[q] # Idle /\ req[q].alone /\ req[q].user # u
          /\ req'[q].at = req[q].at /\ req'[q].ws = req[q].ws
          /\ req'[q].user = req[q].user /\ req'[q].role = req[q].role
      BY <2>2, <2>5
    <3>2. Undisturbed(req[q], q)
      BY <1>0, <3>1 DEF AloneInv
    <3>3. \A p \in Requests \ {q} : req'[p] # Idle => req'[p].user # req'[q].user
      BY <2>2, <2>3, <3>1, <3>2 DEF Undisturbed
    <3> QED
      BY <2>1, <3>1, <3>2, <3>3 DEF Undisturbed
  <2> QED
    BY <2>2, <2>4, <2>5 DEF AloneInv
<1>2. ASSUME NEW r \in Requests, Advance(r) PROVE AloneInv'
  <2> DEFINE next == [req[r] EXCEPT !.at = Follows[req[r].at]]
  <2>1. /\ Moves(r, next) /\ req[r].at \in {"join", "leave"}
        /\ Run(req[r]) /\ late' = late
    BY <1>0, <1>2, Turns
  <2>2. Sent(req[r], created) /\ req[r] \in Statement /\ req[r] # Idle
    BY <2>1 DEF Moves, Settled, Types, Under, Waiting, Sent
  <2>3. /\ next.ws = req[r].ws /\ next.user = req[r].user
        /\ next.role = req[r].role /\ next.alone = req[r].alone
        /\ req[r].at = "join" => next.at = "link"
        /\ req[r].at = "leave" => next.at = "unlink"
    BY <2>1, <2>2 DEF Statement, Follows
  <2> HIDE DEF next
  <2>4. req'[r] = next /\ \A q \in Requests \ {r} : req'[q] = req[q]
    BY <1>0, <2>1 DEF Moves
  <2>5. ASSUME next.alone PROVE Undisturbed(req[r], r)'
    <3>1. Undisturbed(req[r], r)
      BY <1>0, <2>2, <2>3, <2>5 DEF AloneInv
    <3>2. /\ req[r].at = "join" => /\ <<req[r].ws, req[r].user>> \in DOMAIN role'
                                   /\ role'[<<req[r].ws, req[r].user>>] = req[r].role
          /\ req[r].at = "leave" => <<req[r].ws, req[r].user>> \notin DOMAIN role'
      BY <1>0, <2>1, <2>2, RunEffect
    <3>3. /\ next.at = "link" => req[r].at = "join"
          /\ next.at = "unlink" => req[r].at = "leave"
      BY <2>1, <2>3
    <3> QED
      BY <2>1, <2>3, <2>4, <3>1, <3>2, <3>3 DEF Undisturbed
  <2>6. ASSUME NEW q \in Requests \ {r}, req'[q] # Idle, req'[q].alone
        PROVE  Undisturbed(req[q], q)'
    <3>1. req'[q] = req[q] /\ Undisturbed(req[q], q)
      BY <1>0, <2>4, <2>6 DEF AloneInv
    <3>2. req[r].user # req[q].user
      BY <2>2, <3>1 DEF Undisturbed
    <3>3. /\ <<req[q].ws, req[q].user>> \in DOMAIN role' <=>
               <<req[q].ws, req[q].user>> \in DOMAIN role
          /\ <<req[q].ws, req[q].user>> \in DOMAIN role =>
               role'[<<req[q].ws, req[q].user>>] = role[<<req[q].ws, req[q].user>>]
      BY <1>0, <2>1, <2>2, <3>2, OthersUndisturbed
    <3>4. \A p \in Requests \ {q} : req'[p] # Idle => req'[p].user # req[q].user
      BY <2>3, <2>4, <3>1, <3>2 DEF Undisturbed
    <3> QED
      BY <2>1, <3>1, <3>3, <3>4 DEF Undisturbed
  <2> QED
    BY <2>4, <2>5, <2>6 DEF AloneInv
<1>3. ASSUME NEW r \in Requests, Succeed(r) \/ Fail(r) PROVE AloneInv'
  BY <1>0, <1>3, Turns, LeavesAlone
<1>4. ASSUME NEW r \in Requests, TimeOut(r) PROVE AloneInv'
  <2>1. /\ Moves(r, Idle) /\ UNCHANGED role
        /\ late' = late \union {[req[r] EXCEPT !.alone = FALSE]}
    BY <1>0, <1>4, Turns
  <2>2. [req[r] EXCEPT !.alone = FALSE].user = req[r].user
    BY <1>0, <2>1 DEF Moves, Statement
  <2> QED
    BY <2>1, <2>2, LeavesAlone
<1>5. ASSUME NEW s \in late, Late(s) PROVE AloneInv'
  <2>1. Sent(s, created) /\ req' = req /\ late' \subseteq late
    BY <1>5 DEF Late, Settled, Types, Under
  <2> SUFFICES ASSUME NEW q \in Requests, req[q] # Idle, req[q].alone
               PROVE  Undisturbed(req[q], q)'
    BY <2>1 DEF AloneInv
  <2>2. Undisturbed(req[q], q) /\ s.user # req[q].user
    BY <1>0 DEF AloneInv, Undisturbed
  <2>3. /\ <<req[q].ws, req[q].user>> \in DOMAIN role' <=>
             <<req[q].ws, req[q].user>> \in DOMAIN role
        /\ <<req[q].ws, req[q].user>> \in DOMAIN role =>
             role'[<<req[q].ws, req[q].user>>] = role[<<req[q].ws, req[q].user>>]
    BY <1>0, <1>5, <2>1, <2>2, OthersUndisturbed DEF Late
  <2> QED
    BY <2>1, <2>2, <2>3 DEF Undisturbed
<1>6. ASSUME NEW u \in Users, Provision(u) PROVE AloneInv'
  BY <1>0, <1>6 DEF Provision, AloneInv, Undisturbed
<1>7. CASE UNCHANGED vars
  BY <1>0, <1>7 DEF vars, AloneInv, Undisturbed
<1> QED
  BY <1>1, <1>2, <1>3, <1>4, <1>5, <1>6, <1>7 DEF Next

LEMMA SettledAlways == Spec => []Settled
<1>1. Init => Settled
  BY InitTypes DEF Settled, Init, AloneInv
<1> QED
  BY <1>1, NextSettled, PTL DEF Spec

LEMMA SucceedSettles ==
    ASSUME Settled, NEW r \in Requests, NEW s, s = req[r], Succeed(r), s.alone
    PROVE  Backed(s.user)' /\ Effected(s)'
<1>1. /\ Types /\ Run(req[r]) /\ req[r] # Idle
      /\ req[r].at \in {"create", "link", "unlink"}
  BY Turns DEF Settled, Moves
<1>2. Sent(req[r], created) /\ Undisturbed(req[r], r)
  BY <1>1 DEF Settled, AloneInv, Types, Under, Waiting
<1>3. s = req[r]
  OBVIOUS
<1>4. /\ s \in Statement /\ s.user \in Users
  BY <1>2, <1>3, Fields DEF Sent
<1>5. CASE s.at \in {"create", "link"}
  <2>1. <<s.ws, s.user>> \in DOMAIN role' /\ role'[<<s.ws, s.user>>] = s.role
    BY <1>1, <1>2, <1>3, <1>5, RunEffect DEF Undisturbed
  <2>2. s.user \in DOMAIN linked' => linked'[s.user] = s.ws
    BY <1>1, <1>2, <1>3, <1>5, RunEffect
  <2> QED
    BY <1>3, <1>4, <1>5, <2>1, <2>2 DEF Backed, Effected, Members
<1>6. CASE s.at = "unlink"
  <2>1. <<s.ws, s.user>> \notin DOMAIN role'
    BY <1>1, <1>2, <1>3, <1>6, RunEffect DEF Undisturbed
  <2>2. s.user \in DOMAIN linked' => linked'[s.user] = None
    BY <1>1, <1>2, <1>3, <1>6, RunEffect
  <2> QED
    BY <1>3, <1>6, <2>1, <2>2 DEF Backed, Effected, Members
<1> QED
  BY <1>1, <1>3, <1>5, <1>6

\* Whatever earlier failures and overlaps left behind, a request that met no
\* other for its user and succeeded has the effect it was made for.
THEOREM AloneRequestSettles == Spec => AloneSettles
<1>1. Settled /\ [Next]_vars =>
        [\A r \in Requests : \A s \in {req[r]} :
           Succeed(r) /\ s.alone => Backed(s.user)' /\ Effected(s)']_vars
  BY SucceedSettles
<1> QED
  BY <1>1, SettledAlways, PTL DEF Spec, AloneSettles

-----------------------------------------------------------------------------
(* A workspace without managers.                                           *)

\* Statements for other workspaces change nothing here.
LEMMA ElsewhereKeeps ==
    ASSUME Types, NEW w \in created, NEW s, Sent(s, created), Run(s), s.ws # w
    PROVE  /\ w \in created' /\ Members(w)' = Members(w)
           /\ \A u \in Users : HasRole(u, w, "admin")' => HasRole(u, w, "admin")
<1>1. \A u \in Users : <<w, u>> # <<s.ws, s.user>>
  OBVIOUS
<1>2. /\ w \in created'
      /\ \A u \in Users :
           /\ <<w, u>> \in DOMAIN role' <=> <<w, u>> \in DOMAIN role
           /\ <<w, u>> \in DOMAIN role => role'[<<w, u>>] = role[<<w, u>>]
  BY <1>1, RunTables DEF Types
<1> QED
  BY <1>2 DEF Members, HasRole

LEMMA AbandonedStep ==
    ASSUME Types, [Next]_vars, NEW w \in Workspaces, Abandoned(w)
    PROVE  Abandoned(w)' /\ Members(w)' = Members(w)
<1>0. /\ w \in created /\ req \in [Requests -> Statement \union {Idle}]
      /\ \A u \in Users : ~HasRole(u, w, "admin")
      /\ \A r \in Requests : req[r] # Idle => req[r].ws # w
      /\ \A s \in late : s.ws # w
  BY DEF Abandoned, Waiting, Types, Under
<1>1. ASSUME NEW r \in Requests, NEW k \in First, NEW v \in Workspaces,
             NEW u \in Users, NEW new \in Asked(k), Ask(r, k, v, u, new)
      PROVE  Abandoned(w)' /\ Members(w)' = Members(w)
  <2>1. UNCHANGED <<created, role, late>> /\ Admitted(k, v)
    BY <1>1 DEF Ask
  <2>2. v # w
    BY <1>0, <2>1 DEF Admitted
  <2>3. \A q \in Requests : req'[q] # Idle => req'[q].ws # w
    <3>1. /\ req'[r] = [at |-> k, ws |-> v, user |-> u, role |-> new,
                         alone |-> ~Busy(u)]
          /\ \A q \in Requests \ {r} :
               /\ req'[q] # Idle => req[q] # Idle
               /\ req[q] # Idle => req'[q].ws = req[q].ws
      BY <1>1, AskEffect
    <3>2. req'[r].ws = v
      BY <3>1
    <3> QED
      BY <1>0, <2>2, <3>1, <3>2
  <2> QED
    BY <1>0, <2>1, <2>3 DEF Abandoned, Waiting, Members, HasRole
<1>2. ASSUME NEW r \in Requests, NEW next, Moves(r, next), next # Idle => next.ws # w,
             \/ UNCHANGED <<created, role>>
             \/ Run(req[r]),
             \A t \in late' : t.ws # w
      PROVE  Abandoned(w)' /\ Members(w)' = Members(w)
  <2>1. req[r] # Idle /\ req[r].ws # w /\ Sent(req[r], created)
    BY <1>0, <1>2 DEF Moves, Types, Under, Waiting
  <2>2. \A q \in Requests : req'[q] # Idle => req'[q].ws # w
    BY <1>0, <1>2 DEF Moves
  <2>3. /\ w \in created' /\ Members(w)' = Members(w)
        /\ \A u \in Users : ~HasRole(u, w, "admin")'
    <3>1. CASE UNCHANGED <<created, role>>
      BY <1>0, <3>1 DEF Members, HasRole
    <3>2. CASE Run(req[r])
      BY <1>0, <2>1, <3>2, ElsewhereKeeps
    <3> QED
      BY <1>2, <3>1, <3>2
  <2> QED
    BY <1>2, <2>2, <2>3 DEF Abandoned, Waiting
<1>3. ASSUME NEW r \in Requests, Advance(r)
      PROVE  Abandoned(w)' /\ Members(w)' = Members(w)
  <2> DEFINE next == [req[r] EXCEPT !.at = Follows[req[r].at]]
  <2>1. Moves(r, next) /\ Run(req[r]) /\ late' = late
    BY <1>3, Turns
  <2>2. next.ws # w
    BY <1>0, <2>1 DEF Moves, Statement
  <2> HIDE DEF next
  <2> QED
    BY <1>0, <1>2, <2>1, <2>2
<1>4. ASSUME NEW r \in Requests, Succeed(r) \/ Fail(r)
      PROVE  Abandoned(w)' /\ Members(w)' = Members(w)
  BY <1>0, <1>2, <1>4, Turns
<1>5. ASSUME NEW r \in Requests, TimeOut(r)
      PROVE  Abandoned(w)' /\ Members(w)' = Members(w)
  <2>1. /\ Moves(r, Idle) /\ UNCHANGED <<created, role>>
        /\ late' = late \union {[req[r] EXCEPT !.alone = FALSE]}
    BY <1>5, Turns
  <2>2. [req[r] EXCEPT !.alone = FALSE].ws # w
    BY <1>0, <2>1 DEF Moves, Statement
  <2> QED
    BY <1>0, <1>2, <2>1, <2>2
<1>6. ASSUME NEW s \in late, Late(s)
      PROVE  Abandoned(w)' /\ Members(w)' = Members(w)
  <2>1. Sent(s, created) /\ s.ws # w /\ req' = req /\ late' \subseteq late
    BY <1>0, <1>6 DEF Late, Types, Under
  <2>2. CASE Run(s)
    <3>1. /\ w \in created' /\ Members(w)' = Members(w)
          /\ \A u \in Users : ~HasRole(u, w, "admin")'
      BY <1>0, <2>1, <2>2, ElsewhereKeeps
    <3> QED
      BY <1>0, <2>1, <3>1 DEF Abandoned, Waiting
  <2>3. CASE UNCHANGED <<created, role, linked>>
    BY <1>0, <2>1, <2>3 DEF Abandoned, Waiting, Members, HasRole
  <2> QED
    BY <1>6, <2>2, <2>3 DEF Late
<1>7. ASSUME NEW u \in Users, Provision(u)
      PROVE  Abandoned(w)' /\ Members(w)' = Members(w)
  BY <1>0, <1>7 DEF Provision, Abandoned, Waiting, Members, HasRole
<1>8. CASE UNCHANGED vars
  BY <1>0, <1>8 DEF vars, Abandoned, Waiting, Members, HasRole
<1> QED
  BY <1>1, <1>3, <1>4, <1>5, <1>6, <1>7, <1>8 DEF Next

\* Once nobody is left to manage a workspace, and nothing a manager asked for
\* is on its way, its members stay as they are for good.
THEOREM AbandonedStays == Spec => AbandonedForGood
<1>1. Types /\ [Next]_vars =>
        [\A w \in Workspaces :
           Abandoned(w) => Abandoned(w)' /\ Members(w)' = Members(w)]_vars
  BY AbandonedStep
<1> QED
  BY <1>1, TypesAlways, PTL DEF Spec, AbandonedForGood

=============================================================================
