---------------------------- MODULE AccountsProofs ----------------------------
(***************************************************************************)
(* Proofs about Accounts, for any users and any number of requests that    *)
(* overlap.  The invariant says what a request still knows when it writes: *)
(* a sign-in that waits for its commit has its user, no deletion of the    *)
(* user being under way beside it, and a deletion that nobody overtook     *)
(* leaves another super admin, or deletes none.                            *)
(***************************************************************************)
EXTENDS Accounts, FiniteSetTheorems, TLAPS

USE UsersAssumption, SeededAssumption

\* the writer of a row is alone with it, but for sign-ins beside an update
Excludes(q, t) ==
  Writes(t) /\ q.u = t.u => ~Writes(q) /\ (t.op = "delete" => ~Refers(q))

RoleKnown(t) ==
  /\ t.op = "seed" => t.role = "super_admin"
  /\ t.op \in {"create", "update"} /\ t.pc \in {"write", "commit"} =>
       t.role \in Roles

SessionInv(t) ==
  /\ Refers(t) => role[t.u] # "gone"
  /\ t.op = "delete" /\ t.pc = "commit" => ~t.fresh

\* what a deletion knows that was not overtaken
DeletionInv(t) ==
  t.op = "delete" /\ ~t.late =>
    /\ t.pc = "count" => t.u \in Admins
    /\ t.pc \in {"sessions", "write", "commit"} =>
         t.u \notin Admins \/ \E x \in Admins : x # t.u

\* only a deletion reaches the phases in which it counts and deletes
OfDeletion(t) == t.pc \in {"count", "sessions"} => t.op = "delete"

RequestInv(t) ==
  RoleKnown(t) /\ SessionInv(t) /\ DeletionInv(t) /\ OfDeletion(t)

AccountsInv ==
  /\ TypeOK
  /\ SessionsHaveUsers
  /\ \A w \in Workers : RequestInv(tx[w])
  /\ \A v, w \in Workers : v # w => Excludes(tx[v], tx[w])

-----------------------------------------------------------------------------

LEMMA IdleFacts ==
  /\ Idle \in Request /\ RequestInv(Idle)
  /\ ~Writes(Idle) /\ ~Refers(Idle)
  BY DEF Idle, Request, Phases, Ops, Roles, RequestInv, RoleKnown, SessionInv,
         DeletionInv, OfDeletion, Writes, Refers

\* A step of one request that leaves the tables alone.
LEMMA LocalStep ==
  ASSUME AccountsInv, NEW w \in Workers, NEW t \in Request, RequestInv(t),
         \A v \in Workers \ {w} : Excludes(tx[v], t) /\ Excludes(t, tx[v]),
         tx' = [tx EXCEPT ![w] = t], UNCHANGED <<role, sessions>>
  PROVE  AccountsInv'
<1>1. TypeOK' /\ SessionsHaveUsers'
  BY DEF AccountsInv, TypeOK, SessionsHaveUsers
<1>2. tx'[w] = t /\ \A v \in Workers \ {w} : tx'[v] = tx[v]
  BY DEF AccountsInv, TypeOK
<1>3. ASSUME NEW v \in Workers PROVE RequestInv(tx[v])'
  <2>1. RequestInv(tx'[v])
    BY <1>2 DEF AccountsInv
  <2>2. Admins' = Admins
    BY DEF Admins
  <2> QED
    BY <2>1, <2>2 DEF RequestInv, RoleKnown, SessionInv, DeletionInv, OfDeletion, Refers
<1>4. ASSUME NEW u \in Workers, NEW v \in Workers, u # v
      PROVE  Excludes(tx[u], tx[v])'
  <2>1. Excludes(tx'[u], tx'[v])
    BY <1>2, <1>4 DEF AccountsInv
  <2> QED
    BY <2>1 DEF Excludes, Writes, Refers
<1> QED
  BY <1>1, <1>3, <1>4 DEF AccountsInv

\* A request that is not about to commit excludes nobody and is not excluded.
LEMMA OpenExcludes ==
  ASSUME NEW t, NEW q, t.pc # "commit"
  PROVE  Excludes(t, q) /\ Excludes(q, t)
  BY DEF Excludes, Writes, Refers

\* A request that goes on to phase pc.
LEMMA Moves ==
  ASSUME NEW t \in Request, NEW pc \in Phases
  PROVE  LET q == [t EXCEPT !.pc = pc]
         IN  /\ q \in Request /\ q.pc = pc /\ q.op = t.op /\ q.u = t.u
             /\ q.role = t.role /\ q.found = t.found
             /\ q.late = t.late /\ q.fresh = t.fresh
  BY DEF Request

LEMMA Starts ==
  ASSUME NEW op \in Ops, NEW u \in Users, NEW r \in Roles \cup {"unknown"},
         op = "seed" => r = "super_admin"
  PROVE  /\ Asks(op, u, r) \in Request /\ RequestInv(Asks(op, u, r))
         /\ Asks(op, u, r).pc # "commit"
  BY DEF Asks, Request, Phases, Roles, RequestInv, RoleKnown, SessionInv,
         DeletionInv, OfDeletion, Refers

-----------------------------------------------------------------------------
\* The steps before the commit.

LEMMA BeginKeeps ==
  ASSUME AccountsInv, NEW w \in Workers, NEW u \in Users,
         NEW op \in {"seed", "login"}, Begin(w, op, u)
  PROVE  AccountsInv'
<1>1. op \in Ops /\ "super_admin" \in Roles \cup {"unknown"}
  BY DEF Ops, Roles
<1> QED
  BY <1>1, Starts, OpenExcludes, LocalStep DEF Begin

LEMMA BeginAdminKeeps ==
  ASSUME AccountsInv, NEW w \in Workers, NEW u \in Users,
         NEW op \in {"create", "update", "delete"},
         NEW r \in Roles \cup {"unknown"}, BeginAdmin(w, op, u, r)
  PROVE  AccountsInv'
<1>1. op \in Ops
  BY DEF Ops
<1> QED
  BY <1>1, Starts, OpenExcludes, LocalStep DEF BeginAdmin

LEMMA ReadKeeps ==
  ASSUME AccountsInv, NEW w \in Workers, Read(w)
  PROVE  AccountsInv'
<1> DEFINE t == tx[w]
<1>1. t \in Request /\ RequestInv(t) /\ t.pc = "read" /\ t.op \in Ops
  BY DEF AccountsInv, TypeOK, Read, Request
<1>2. "write" \in Phases /\ "count" \in Phases /\ "sessions" \in Phases
  BY DEF Phases
<1>3. CASE t.op = "seed"
  <2> DEFINE b == role[t.u] # "gone"
             q == [t EXCEPT !.pc = "write", !.found = b]
  <2>1. tx' = [tx EXCEPT ![w] = q] /\ UNCHANGED <<role, sessions>>
    BY <1>3 DEF Read
  <2>2. b \in BOOLEAN
    OBVIOUS
  <2> HIDE DEF b, t
  <2>3. q \in Request /\ q.pc = "write" /\ q.op = "seed" /\ q.role = t.role
    BY <1>1, <1>2, <1>3, <2>2 DEF Request
  <2> USE DEF t
  <2> HIDE DEF q
  <2>4. RequestInv(q)
    BY <1>1, <1>3, <2>3 DEF RequestInv, RoleKnown, SessionInv, DeletionInv, OfDeletion, Refers
  <2> QED
    BY <2>1, <2>3, <2>4, OpenExcludes, LocalStep
<1>4. CASE t.op # "seed"
  <2>1. PICK pc \in {"write", "count", "sessions"} :
          /\ tx' = [tx EXCEPT ![w] = [t EXCEPT !.pc = pc]]
          /\ UNCHANGED <<role, sessions>>
          /\ t.op \in {"create", "update"} => KnownRole(t)
          /\ pc # "write" <=> t.op = "delete"
          /\ t.op = "delete" => (pc = "count" <=> t.u \in Admins)
    <3>1. CASE t.op \in {"login", "create", "update"}
      <4>1. /\ tx' = [tx EXCEPT ![w].pc = "write"] /\ UNCHANGED <<role, sessions>>
            /\ t.op \in {"create", "update"} => KnownRole(t)
        BY <3>1 DEF Read, Goto
      <4> QED
        BY <3>1, <4>1
    <3>2. CASE t.op = "delete"
      <4>1. /\ tx' = [tx EXCEPT ![w].pc = IF t.u \in Admins THEN "count" ELSE "sessions"]
            /\ UNCHANGED <<role, sessions>>
        BY <3>2 DEF Read, Goto
      <4> QED
        BY <3>2, <4>1
    <3> QED
      BY <1>1, <1>4, <3>1, <3>2 DEF Ops
  <2> DEFINE q == [t EXCEPT !.pc = pc]
  <2>2. pc \in Phases
    BY <1>2
  <2>3. /\ q \in Request /\ q.pc = pc /\ q.op = t.op /\ q.u = t.u
        /\ q.role = t.role /\ q.late = t.late
    BY <1>1, <2>2, Moves
  <2> HIDE DEF q
  <2>4. RequestInv(q)
    <3>1. RoleKnown(q)
      BY <1>4, <2>1, <2>3 DEF RoleKnown, KnownRole
    <3>2. SessionInv(q)
      BY <2>3 DEF SessionInv, Refers
    <3>3. DeletionInv(q)
      BY <2>1, <2>3 DEF DeletionInv
    <3>4. OfDeletion(q)
      BY <1>1, <1>4, <2>1, <2>3 DEF OfDeletion, Ops
    <3> QED
      BY <3>1, <3>2, <3>3, <3>4 DEF RequestInv
  <2>5. tx' = [tx EXCEPT ![w] = q] /\ UNCHANGED <<role, sessions>>
    BY <2>1 DEF q
  <2> QED
    BY <2>3, <2>4, <2>5, OpenExcludes, LocalStep
<1> QED
  BY <1>3, <1>4

\* Two super admins: whoever is deleted, another one stays.
LEMMA AnotherAdmin ==
  ASSUME EnoughAdmins, NEW u
  PROVE  \E x \in Admins : x # u
<1> SUFFICES ASSUME Admins \subseteq {u} PROVE FALSE
  OBVIOUS
<1>1. IsFiniteSet({u}) /\ Cardinality({u}) = 1
  BY FS_Singleton
<1>2. Cardinality(Admins) <= 1 /\ Cardinality(Admins) \in Nat
  BY <1>1, FS_Subset, FS_CardinalityType
<1> QED
  BY <1>2 DEF EnoughAdmins

LEMMA CountKeeps ==
  ASSUME AccountsInv, NEW w \in Workers, CountAdmins(w)
  PROVE  AccountsInv'
<1> DEFINE t == tx[w]
           q == [t EXCEPT !.pc = "sessions"]
<1>1. t \in Request /\ RequestInv(t) /\ t.pc = "count"
  BY DEF AccountsInv, TypeOK, CountAdmins
<1>2. "sessions" \in Phases
  BY DEF Phases
<1>3. q \in Request /\ q.pc = "sessions" /\ q.op = t.op /\ q.u = t.u /\ q.role = t.role
  BY <1>1, <1>2, Moves
<1>4. tx' = [tx EXCEPT ![w] = q] /\ UNCHANGED <<role, sessions>>
  BY DEF CountAdmins, Goto
<1> HIDE DEF q
<1>5. RequestInv(q)
  <2>1. \E x \in Admins : x # q.u
    BY AnotherAdmin DEF CountAdmins
  <2> QED
    BY <1>1, <1>3, <2>1 DEF RequestInv, RoleKnown, SessionInv, DeletionInv, OfDeletion, Refers
<1> QED
  BY <1>3, <1>4, <1>5, OpenExcludes, LocalStep

LEMMA DeleteSessionsKeeps ==
  ASSUME AccountsInv, NEW w \in Workers, DeleteSessions(w)
  PROVE  AccountsInv'
<1> DEFINE t == tx[w]
           q == [t EXCEPT !.pc = "write"]
<1>1. t \in Request /\ RequestInv(t) /\ t.pc = "sessions"
  BY DEF AccountsInv, TypeOK, DeleteSessions
<1>2. "write" \in Phases
  BY DEF Phases
<1>3. /\ q \in Request /\ q.pc = "write" /\ q.op = t.op /\ q.u = t.u
      /\ q.role = t.role /\ q.late = t.late
  BY <1>1, <1>2, Moves
<1>4. tx' = [tx EXCEPT ![w] = q] /\ UNCHANGED <<role, sessions>>
  BY DEF DeleteSessions, Goto
<1> HIDE DEF q
<1>5. RequestInv(q)
  BY <1>1, <1>3 DEF RequestInv, RoleKnown, SessionInv, DeletionInv, OfDeletion, Refers
<1> QED
  BY <1>3, <1>4, <1>5, OpenExcludes, LocalStep

LEMMA WriteKeeps ==
  ASSUME AccountsInv, NEW w \in Workers, Write(w)
  PROVE  AccountsInv'
<1> DEFINE t == tx[w]
           q == [t EXCEPT !.pc = "commit"]
<1>1. t \in Request /\ RequestInv(t) /\ t.pc = "write" /\ ReferencesHold(t)
  BY DEF AccountsInv, TypeOK, Write
<1>2. "commit" \in Phases
  BY DEF Phases
<1>3. /\ q \in Request /\ q.pc = "commit" /\ q.op = t.op /\ q.u = t.u
      /\ q.role = t.role /\ q.late = t.late /\ q.fresh = t.fresh
  BY <1>1, <1>2, Moves
<1>4. tx' = [tx EXCEPT ![w] = q] /\ UNCHANGED <<role, sessions>>
  BY DEF Write, Goto
<1> HIDE DEF q
<1>5. RequestInv(q)
  <2>1. RoleKnown(q) /\ DeletionInv(q) /\ OfDeletion(q)
    BY <1>1, <1>3 DEF RequestInv, RoleKnown, DeletionInv, OfDeletion
  <2>2. SessionInv(q)
    BY <1>1, <1>3 DEF SessionInv, ReferencesHold, Refers
  <2> QED
    BY <2>1, <2>2 DEF RequestInv
<1>6. ASSUME NEW v \in Workers \ {w}
      PROVE  Excludes(tx[v], q) /\ Excludes(q, tx[v])
  <2>1. ~(tx[v].u = t.u /\ (Writes(tx[v]) \/ (t.op = "delete" /\ Refers(tx[v]))))
    BY DEF Write, Waits
  <2> QED
    BY <1>3, <2>1 DEF Excludes
<1> QED
  BY <1>3, <1>4, <1>5, <1>6, LocalStep

-----------------------------------------------------------------------------
\* The commits.

\* What the others are after a commit of t, with role r for its user.
LEMMA ToldFacts ==
  ASSUME TypeOK, NEW w \in Workers, NEW t, NEW r, tx' = Told(w, t, r)
  PROVE  /\ tx' \in [Workers -> Request] /\ tx'[w] = Idle
         /\ \A v \in Workers \ {w} :
              /\ tx'[v].pc = tx[v].pc /\ tx'[v].op = tx[v].op
              /\ tx'[v].u = tx[v].u /\ tx'[v].role = tx[v].role
              /\ tx'[v].late = (tx[v].late \/ Overtakes(tx[v], t, r))
              /\ tx'[v].fresh = (tx[v].fresh \/ SignsInAgain(tx[v], t))
<1>1. tx'[w] = Idle
  BY DEF Told
<1>3. ASSUME NEW v \in Workers \ {w}
      PROVE  /\ tx'[v] \in Request
             /\ tx'[v].pc = tx[v].pc /\ tx'[v].op = tx[v].op
             /\ tx'[v].u = tx[v].u /\ tx'[v].role = tx[v].role
             /\ tx'[v].late = (tx[v].late \/ Overtakes(tx[v], t, r))
             /\ tx'[v].fresh = (tx[v].fresh \/ SignsInAgain(tx[v], t))
  <2> DEFINE q == tx[v]
             b == tx[v].late \/ Overtakes(tx[v], t, r)
             c == tx[v].fresh \/ SignsInAgain(tx[v], t)
             s == [q EXCEPT !.late = b, !.fresh = c]
  <2>1. q \in Request /\ b \in BOOLEAN /\ c \in BOOLEAN
    BY DEF TypeOK
  <2>2. tx'[v] = s
    BY DEF Told
  <2> HIDE DEF q, b, c
  <2>3. /\ s \in Request
        /\ s.pc = q.pc /\ s.op = q.op /\ s.u = q.u /\ s.role = q.role
        /\ s.late = b /\ s.fresh = c
    BY <2>1 DEF Request
  <2> HIDE DEF s
  <2>4. /\ tx'[v] \in Request
        /\ tx'[v].pc = tx[v].pc /\ tx'[v].op = tx[v].op
        /\ tx'[v].u = tx[v].u /\ tx'[v].role = tx[v].role
        /\ tx'[v].late = b /\ tx'[v].fresh = c
    BY <2>2, <2>3, Zenon DEF q
  <2>5. tx'[v].late = (tx[v].late \/ Overtakes(tx[v], t, r))
    BY <2>4, Zenon DEF b
  <2>6. tx'[v].fresh = (tx[v].fresh \/ SignsInAgain(tx[v], t))
    BY <2>4, Zenon DEF c
  <2> QED
    BY <2>4, <2>5, <2>6, Zenon
<1>4. tx' = [v \in Workers |-> tx'[v]]
  BY DEF Told
<1> QED
  BY <1>1, <1>3, <1>4, IdleFacts

LEMMA CommitKeeps ==
  ASSUME AccountsInv, NEW w \in Workers, CommitUser(w) \/ CommitLogin(w)
  PROVE  AccountsInv'
<1> DEFINE t == tx[w]
           r == role'[t.u]
<1>1. TypeOK /\ t \in Request /\ RequestInv(t) /\ t.pc = "commit" /\ t.u \in Users
  BY DEF AccountsInv, TypeOK, Request, CommitUser, CommitLogin
<1>3. /\ r \in Roles \cup {"gone"}
      /\ role' = [role EXCEPT ![t.u] = r]
      /\ tx' = Told(w, t, r)
      /\ t.op = "login" => role' = role
      /\ r = "gone" => t.op = "delete" \/ role[t.u] = "gone"
  <2>1. CASE CommitUser(w)
    <3>1. /\ role' = [role EXCEPT ![t.u] = NewRole(t)] /\ tx' = Told(w, t, NewRole(t))
          /\ t.op \in {"seed", "create", "update", "delete"}
      BY <1>1, <2>1 DEF CommitUser, Request, Ops
    <3>2. r = NewRole(t)
      BY <1>1, <3>1 DEF TypeOK
    <3>3. t.op \in {"seed", "create", "update"} => t.role \in Roles /\ t.role # "gone"
      BY <1>1 DEF RequestInv, RoleKnown, Roles
    <3>4. r \in Roles \cup {"gone"} /\ (r = "gone" => t.op = "delete" \/ role[t.u] = "gone")
      BY <3>1, <3>2, <3>3 DEF NewRole, Roles
    <3> HIDE DEF r
    <3> QED
      BY <3>1, <3>2, <3>4
  <2>2. CASE CommitLogin(w)
    <3>1. role' = role /\ tx' = Told(w, t, role[t.u])
      BY <2>2 DEF CommitLogin
    <3> QED
      BY <1>1, <3>1 DEF TypeOK
  <2> QED
    BY <2>1, <2>2
<1> HIDE DEF r
<1>4. /\ tx' \in [Workers -> Request] /\ tx'[w] = Idle
      /\ \A v \in Workers \ {w} :
           /\ tx'[v].pc = tx[v].pc /\ tx'[v].op = tx[v].op
           /\ tx'[v].u = tx[v].u /\ tx'[v].role = tx[v].role
           /\ tx'[v].late = (tx[v].late \/ Overtakes(tx[v], t, r))
           /\ tx'[v].fresh = (tx[v].fresh \/ SignsInAgain(tx[v], t))
  BY <1>1, <1>3, ToldFacts
<1>5. \A u \in Users : role'[u] = IF u = t.u THEN r ELSE role[u]
  BY <1>1, <1>3 DEF TypeOK
<1>6. SessionsHaveUsers' /\ sessions' \subseteq Users
  <2>1. CASE CommitLogin(w)
    <3>1. role[t.u] # "gone" /\ sessions' = sessions \cup {t.u} /\ role' = role
      BY <1>1, <2>1 DEF RequestInv, SessionInv, Refers, CommitLogin
    <3> QED
      BY <1>1, <3>1 DEF AccountsInv, TypeOK, SessionsHaveUsers
  <2>2. CASE CommitUser(w) /\ t.op = "delete"
    <3>1. ~t.fresh
      BY <1>1, <2>2 DEF RequestInv, SessionInv
    <3>2. sessions' = sessions \ {t.u}
      BY <2>2, <3>1 DEF CommitUser
    <3> QED
      BY <1>1, <1>5, <3>2 DEF AccountsInv, TypeOK, SessionsHaveUsers
  <2>3. CASE CommitUser(w) /\ t.op # "delete"
    <3>1. sessions' = sessions
      BY <2>3 DEF CommitUser
    <3> QED
      BY <1>1, <1>3, <1>5, <2>3, <3>1 DEF AccountsInv, TypeOK, SessionsHaveUsers
  <2> QED
    BY <2>1, <2>2, <2>3
<1>7. TypeOK'
  BY <1>1, <1>3, <1>4, <1>6 DEF TypeOK
<1>8. ASSUME NEW v \in Workers \ {w} PROVE RequestInv(tx[v])'
  <2> DEFINE q == tx[v]
  <2>1. q \in Request /\ RequestInv(q) /\ Excludes(q, t) /\ q.u \in Users
    BY DEF AccountsInv, TypeOK, Request
  <2>2. tx'[v].pc = q.pc /\ tx'[v].op = q.op /\ tx'[v].u = q.u /\ tx'[v].role = q.role
    BY <1>4, Zenon
  <2>3. ~tx'[v].late => ~q.late /\ ~Overtakes(q, t, r)
    BY <1>4, Zenon
  <2>4. ~q.fresh /\ ~SignsInAgain(q, t) => ~tx'[v].fresh
    BY <1>4, Zenon
  <2>5. RoleKnown(tx[v])' /\ OfDeletion(tx[v])'
    BY <2>1, <2>2 DEF RequestInv, RoleKnown, OfDeletion
  <2>6. Refers(q) => role'[q.u] # "gone"
    <3> SUFFICES ASSUME Refers(q) PROVE role'[q.u] # "gone"
      OBVIOUS
    <3>1. role[q.u] # "gone"
      BY <2>1 DEF RequestInv, SessionInv
    <3>2. CASE q.u = t.u
      <4>1. t.op # "delete"
        BY <1>1, <2>1, <3>2 DEF Excludes, Writes
      <4> QED
        BY <1>3, <1>5, <2>1, <3>1, <3>2, <4>1
    <3>3. CASE q.u # t.u
      BY <1>5, <2>1, <3>1, <3>3
    <3> QED
      BY <3>2, <3>3
  <2>7. q.op = "delete" /\ q.pc = "commit" => ~tx'[v].fresh
    <3>1. q.op = "delete" /\ q.pc = "commit" => ~q.fresh /\ ~SignsInAgain(q, t)
      BY <2>1 DEF RequestInv, SessionInv, SignsInAgain
    <3> QED
      BY <2>4, <3>1
  <2>8. SessionInv(tx[v])'
    BY <2>2, <2>6, <2>7 DEF SessionInv, Refers
  <2>9. ASSUME q.op = "delete", ~tx'[v].late,
               q.pc \in {"count", "sessions", "write", "commit"}
        PROVE  /\ \A x \in Admins : x \in Admins'
               /\ q.u \notin Admins => q.u \notin Admins'
    <3>1. /\ ~(t.u \in Admins /\ r # "super_admin")
          /\ ~(r = "super_admin" /\ q.u = t.u)
      BY <2>3, <2>9 DEF Overtakes
    <3>2. \A u \in Users : u \in Admins' <=> role'[u] = "super_admin"
      BY DEF Admins
    <3>3. \A u \in Users : u \in Admins <=> role[u] = "super_admin"
      BY DEF Admins
    <3>4. \A x \in Admins : x \in Users /\ x \in Admins'
      BY <1>1, <1>5, <3>1, <3>2, <3>3 DEF Admins
    <3>5. q.u \notin Admins => q.u \notin Admins'
      BY <1>5, <2>1, <3>1, <3>2, <3>3
    <3> QED
      BY <3>4, <3>5
  <2>10. DeletionInv(tx[v])'
    <3> SUFFICES ASSUME q.op = "delete", ~tx'[v].late
                 PROVE  /\ q.pc = "count" => q.u \in Admins'
                        /\ q.pc \in {"sessions", "write", "commit"} =>
                             q.u \notin Admins' \/ \E x \in Admins' : x # q.u
      BY <2>2 DEF DeletionInv
    <3>1. /\ q.pc = "count" => q.u \in Admins
          /\ q.pc \in {"sessions", "write", "commit"} =>
               q.u \notin Admins \/ \E x \in Admins : x # q.u
      BY <2>1, <2>3 DEF RequestInv, DeletionInv
    <3> QED
      BY <2>9, <3>1
  <2> QED
    BY <2>5, <2>8, <2>10 DEF RequestInv
<1>9. RequestInv(tx[w])'
  BY <1>4 DEF Idle, RequestInv, RoleKnown, SessionInv, DeletionInv, OfDeletion, Refers
<1>10. ASSUME NEW u \in Workers, NEW v \in Workers, u # v
       PROVE  Excludes(tx[u], tx[v])'
  <2>1. \A x \in Workers : /\ Writes(tx[x])' => Writes(tx[x]) /\ x # w
                           /\ Refers(tx[x])' => Refers(tx[x]) /\ x # w
    BY <1>4 DEF Writes, Refers, Idle
  <2>2. Excludes(tx[u], tx[v])
    BY <1>10 DEF AccountsInv
  <2> QED
    BY <1>4, <2>1, <2>2 DEF Excludes
<1> QED
  BY <1>6, <1>7, <1>8, <1>9, <1>10 DEF AccountsInv

-----------------------------------------------------------------------------

LEMMA InitHolds == Init => AccountsInv
<1> SUFFICES ASSUME Init PROVE AccountsInv
  OBVIOUS
<1>1. TypeOK /\ SessionsHaveUsers
  BY IdleFacts DEF Init, TypeOK, SessionsHaveUsers
<1>2. \A w \in Workers : tx[w] = Idle
  BY DEF Init
<1> QED
  BY <1>1, <1>2, IdleFacts DEF AccountsInv, Excludes

\* Idle excludes nobody.
LEMMA FailKeeps ==
  ASSUME AccountsInv, NEW w \in Workers, Fail(w)
  PROVE  AccountsInv'
<1>1. Idle.pc # "commit"
  BY DEF Idle
<1> QED
  BY <1>1, IdleFacts, OpenExcludes, LocalStep DEF Fail

LEMMA LogoutKeeps ==
  ASSUME AccountsInv, NEW u \in Users, Logout(u)
  PROVE  AccountsInv'
<1>1. TypeOK' /\ SessionsHaveUsers' /\ Admins' = Admins
  BY DEF AccountsInv, TypeOK, SessionsHaveUsers, Logout, Admins
<1>2. ASSUME NEW v \in Workers PROVE RequestInv(tx[v])'
  BY <1>1 DEF AccountsInv, RequestInv, RoleKnown, SessionInv, DeletionInv,
              OfDeletion, Refers, Logout
<1>3. ASSUME NEW x \in Workers, NEW v \in Workers, x # v
      PROVE  Excludes(tx[x], tx[v])'
  BY <1>3 DEF AccountsInv, Excludes, Writes, Refers, Logout
<1> QED
  BY <1>1, <1>2, <1>3 DEF AccountsInv

LEMMA StutterKeeps == AccountsInv /\ UNCHANGED vars => AccountsInv'
<1> SUFFICES ASSUME AccountsInv, UNCHANGED vars PROVE AccountsInv'
  OBVIOUS
<1>1. TypeOK' /\ SessionsHaveUsers' /\ Admins' = Admins
  BY DEF AccountsInv, TypeOK, SessionsHaveUsers, Admins, vars
<1>2. ASSUME NEW v \in Workers PROVE RequestInv(tx[v])'
  BY <1>1 DEF AccountsInv, RequestInv, RoleKnown, SessionInv, DeletionInv,
              OfDeletion, Refers, vars
<1>3. ASSUME NEW x \in Workers, NEW v \in Workers, x # v
      PROVE  Excludes(tx[x], tx[v])'
  BY <1>3 DEF AccountsInv, Excludes, Writes, Refers, vars
<1> QED
  BY <1>1, <1>2, <1>3 DEF AccountsInv

LEMMA StepHolds == AccountsInv /\ [Next]_vars => AccountsInv'
<1> SUFFICES ASSUME AccountsInv, [Next]_vars PROVE AccountsInv'
  OBVIOUS
<1>1. ASSUME NEW w \in Workers, Step(w) PROVE AccountsInv'
  <2>1. CASE \/ Begin(w, "seed", Seeded)
             \/ \E u \in Users : Begin(w, "login", u)
    BY <2>1, BeginKeeps
  <2>2. CASE \E u \in Users, r \in Roles \cup {"unknown"} :
               \/ BeginAdmin(w, "create", u, r)
               \/ BeginAdmin(w, "update", u, r)
    BY <2>2, BeginAdminKeeps
  <2>3. CASE \E u \in Users : BeginAdmin(w, "delete", u, "other")
    BY <2>3, BeginAdminKeeps DEF Roles
  <2>4. CASE Read(w) \/ CountAdmins(w) \/ DeleteSessions(w) \/ Write(w)
    BY <2>4, ReadKeeps, CountKeeps, DeleteSessionsKeeps, WriteKeeps
  <2>5. CASE CommitUser(w) \/ CommitLogin(w) \/ Fail(w)
    BY <2>5, CommitKeeps, FailKeeps
  <2> QED
    BY <1>1, <2>1, <2>2, <2>3, <2>4, <2>5 DEF Step
<1>2. ASSUME NEW u \in Users, Logout(u) PROVE AccountsInv'
  BY <1>2, LogoutKeeps
<1>3. CASE UNCHANGED vars
  BY <1>3, StutterKeeps
<1> QED
  BY <1>1, <1>2, <1>3 DEF Next

LEMMA InvariantHolds == Spec => []AccountsInv
  BY InitHolds, StepHolds, PTL DEF Spec

-----------------------------------------------------------------------------

(***************************************************************************)
(* The users, their sessions and the requests under way have their types,  *)
(* for any number of requests handled side by side.                        *)
(***************************************************************************)
THEOREM TypesHold == Spec => []TypeOK
<1>1. AccountsInv => TypeOK
  BY DEF AccountsInv
<1> QED
  BY <1>1, InvariantHolds, PTL

(***************************************************************************)
(* Every session belongs to a user that exists, whichever sign-ins overlap *)
(* with the deletion of the user: delete_platform_user deletes the         *)
(* sessions it sees and the foreign key refuses what comes between.        *)
(***************************************************************************)
THEOREM SessionsHold == Spec => []SessionsHaveUsers
<1>1. AccountsInv => SessionsHaveUsers
  BY DEF AccountsInv
<1> QED
  BY <1>1, InvariantHolds, PTL

\* A deletion that nobody overtook leaves a super admin, if there was one.
LEMMA DeletionLeavesAdmin ==
  ASSUME AccountsInv, NEW w \in Workers,
         tx[w].op = "delete", ~tx[w].late, CommitUser(w)
  PROVE  LeavesAnAdmin(w)
<1> DEFINE u == tx[w].u
<1>1. role' = [role EXCEPT ![u] = "gone"] /\ u \in Users
  BY DEF AccountsInv, TypeOK, Request, CommitUser, NewRole
<1>2. u \notin Admins \/ \E x \in Admins : x # u
  BY DEF AccountsInv, RequestInv, DeletionInv, CommitUser
<1>3. \A x \in Admins : x # u => x \in Admins'
  BY <1>1 DEF Admins, AccountsInv, TypeOK
<1> QED
  BY <1>2, <1>3 DEF LeavesAnAdmin

(***************************************************************************)
(* The check of delete_platform_user, which counts without a lock: the     *)
(* last super admin is deleted only by a request that another one has      *)
(* overtaken, whatever the users and however many requests overlap.        *)
(***************************************************************************)
THEOREM LastAdminStays == Spec => LastAdminNeedsOverlap
<1>1. AccountsInv =>
        [\A w \in Workers : tx[w].op = "delete" /\ ~tx[w].late /\ CommitUser(w)
                               => LeavesAnAdmin(w)]_vars
  BY DeletionLeavesAdmin
<1> QED
  BY <1>1, InvariantHolds, PTL DEF LastAdminNeedsOverlap

=============================================================================
