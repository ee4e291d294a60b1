------------------------------- MODULE Accounts -------------------------------
(***************************************************************************)
(* The platform users and their sessions (auth.py, the admin handlers of   *)
(* main.py), and init_db, which seeds the configured super admin again at  *)
(* every start, every validation and every report.                         *)
(*                                                                         *)
(* As in Licensing, a request reads and checks first and writes later, in  *)
(* one transaction; a SELECT sees what is committed and a write waits for  *)
(* uncommitted writes of the same row.  Who may ask is decided before, in  *)
(* a transaction of its own.  Names stand for rows: a user who is deleted  *)
(* and created again has a new id in the code and the old one here, where  *)
(* requests under way can still reach the row.  Passwords are left out.    *)
(***************************************************************************)
EXTENDS Naturals, FiniteSets

CONSTANTS Users,    \* user names
          Seeded,   \* PPAP_SUPER_ADMIN_USER
          Workers   \* request handling threads, of all instances

ASSUME UsersAssumption == IsFiniteSet(Users)
ASSUME SeededAssumption == Seeded \in Users

VARIABLES role,      \* of the row in users, "gone" if there is none
          sessions,  \* the users that have rows in sessions
          tx         \* the request each worker is serving

vars == <<role, sessions, tx>>

Roles == {"super_admin", "other"}

Ops == {"seed", "login", "create", "update", "delete"}

Phases == {"idle", "read", "count", "sessions", "write", "commit"}

(***************************************************************************)
(* u is the user the request is about, found what it read of it, role the  *)
(* role it asks for.  The last two are history values.  late: since this   *)
(* one read u, another request has taken a super admin away, or made u     *)
(* one.  fresh: since this one deleted the sessions of u, u has signed in. *)
(***************************************************************************)
Request == [pc : Phases, op : Ops, u : Users, role : Roles \cup {"unknown"},
            found : BOOLEAN, late : BOOLEAN, fresh : BOOLEAN]

Idle == [pc |-> "idle", op |-> "seed", u |-> Seeded, role |-> "super_admin",
         found |-> FALSE, late |-> FALSE, fresh |-> FALSE]

Admins == {u \in Users : role[u] = "super_admin"}

Writes(t) == t.pc = "commit" /\ t.op \in {"seed", "create", "update", "delete"}

\* a new session refers to the row of its user, which must stay until commit
Refers(t) == t.pc = "commit" /\ t.op = "login"

\* another transaction has written the row of u, or only refers to it
Waits(w, u, shared) ==
  \E v \in Workers \ {w} : /\ tx[v].u = u
                           /\ Writes(tx[v]) \/ (~shared /\ Refers(tx[v]))

-----------------------------------------------------------------------------

Init == /\ role \in [Users -> Roles \cup {"gone"}]
        /\ role[Seeded] = "super_admin"
        /\ sessions = {}
        /\ tx = [w \in Workers |-> Idle]

\* a request that starts
Asks(op, u, r) == [pc |-> "read", op |-> op, u |-> u, role |-> r,
                   found |-> FALSE, late |-> FALSE, fresh |-> FALSE]

\* init_db, or POST /api/auth/login
Begin(w, op, u) ==
  /\ tx[w].pc = "idle"
  /\ tx' = [tx EXCEPT ![w] = Asks(op, u, "super_admin")]
  /\ UNCHANGED <<role, sessions>>

\* require_super_admin_or_403, then create, update or delete
BeginAdmin(w, op, u, r) ==
  /\ tx[w].pc = "idle"
  /\ sessions \cap Admins # {}
  /\ tx' = [tx EXCEPT ![w] = Asks(op, u, r)]
  /\ UNCHANGED <<role, sessions>>

Logout(u) ==
  /\ u \in sessions
  /\ sessions' = sessions \ {u}
  /\ UNCHANGED <<role, tx>>

KnownRole(t) == t.role \in Roles

Goto(w, pc) == /\ tx' = [tx EXCEPT ![w].pc = pc]
               /\ UNCHANGED <<role, sessions>>

\* the SELECT at the beginning, and the checks that follow it
Read(w) ==
  LET t == tx[w]
  IN  /\ t.pc = "read"
      /\ CASE t.op = "seed"   -> /\ tx' = [tx EXCEPT ![w] =
                                     [t EXCEPT !.pc = "write",
                                        !.found = role[t.u] # "gone"]]
                                 /\ UNCHANGED <<role, sessions>>
           [] t.op = "login"  -> t.u \in Admins /\ Goto(w, "write")
           [] t.op = "create" -> /\ KnownRole(t) /\ role[t.u] = "gone"
                                 /\ Goto(w, "write")
           [] t.op = "update" -> /\ KnownRole(t) /\ role[t.u] # "gone"
                                 /\ Goto(w, "write")
           [] t.op = "delete" -> /\ role[t.u] # "gone"
                                 /\ Goto(w, IF t.u \in Admins THEN "count"
                                            ELSE "sessions")

\* Fault: an off-by-one in the check.
EnoughAdminsOne == Cardinality(Admins) >= 1

EnoughAdmins == Cardinality(Admins) > 1

\* SELECT COUNT(*), and the check of delete_platform_user
CountAdmins(w) ==
  /\ tx[w].pc = "count"
  /\ EnoughAdmins
  /\ Goto(w, "sessions")

\* DELETE FROM sessions WHERE user_id = ?
DeleteSessions(w) ==
  /\ tx[w].pc = "sessions"
  /\ Goto(w, "write")

\* a session needs its user, and a user with sessions cannot be deleted
ReferencesHold(t) == CASE t.op = "login"  -> role[t.u] # "gone"
                       [] t.op = "delete" -> ~t.fresh
                       [] OTHER           -> TRUE

\* the INSERT, UPDATE or DELETE in users, or the INSERT into sessions
Write(w) ==
  LET t == tx[w]
  IN  /\ t.pc = "write"
      /\ ~Waits(w, t.u, t.op # "delete")
      /\ ReferencesHold(t)
      /\ t.op = "create" \/ (t.op = "seed" /\ ~t.found) => role[t.u] = "gone"
      /\ Goto(w, "commit")

\* the role of the user after the request; an UPDATE of no row does nothing
NewRole(t) ==
  CASE t.op = "delete"                -> "gone"
    [] t.op = "seed" /\ t.found       -> IF role[t.u] = "gone" THEN "gone"
                                         ELSE "super_admin"
    [] t.op = "update"                -> IF role[t.u] = "gone" THEN "gone"
                                         ELSE t.role
    [] OTHER                          -> t.role

\* history: what the commit of t, after which the role of t.u is r, is to a
\* deletion q under way
Overtakes(q, t, r) ==
  /\ q.op = "delete" /\ q.pc # "read"
  /\ \/ t.u \in Admins /\ r # "super_admin"
     \/ r = "super_admin" /\ q.u = t.u

SignsInAgain(q, t) ==
  q.op = "delete" /\ q.pc = "write" /\ t.op = "login" /\ q.u = t.u

Told(w, t, r) ==
  [v \in Workers |->
     IF v = w THEN Idle
     ELSE [tx[v] EXCEPT !.late = tx[v].late \/ Overtakes(tx[v], t, r),
                        !.fresh = tx[v].fresh \/ SignsInAgain(tx[v], t)]]

CommitUser(w) ==
  LET t == tx[w]
  IN  /\ t.pc = "commit" /\ t.op # "login"
      /\ role' = [role EXCEPT ![t.u] = NewRole(t)]
      /\ sessions' = IF t.op = "delete" /\ ~t.fresh THEN sessions \ {t.u}
                     ELSE sessions
      /\ tx' = Told(w, t, NewRole(t))

CommitLogin(w) ==
  LET t == tx[w]
  IN  /\ t.pc = "commit" /\ t.op = "login"
      /\ sessions' = sessions \cup {t.u}
      /\ tx' = Told(w, t, role[t.u])
      /\ UNCHANGED role

\* a check refuses the request, the database does, or it fails
Fail(w) ==
  /\ tx[w].pc # "idle"
  /\ tx' = [tx EXCEPT ![w] = Idle]
  /\ UNCHANGED <<role, sessions>>

Step(w) == \/ Begin(w, "seed", Seeded)
           \/ \E u \in Users : Begin(w, "login", u)
           \/ \E u \in Users, r \in Roles \cup {"unknown"} :
                \/ BeginAdmin(w, "create", u, r)
                \/ BeginAdmin(w, "update", u, r)
           \/ \E u \in Users : BeginAdmin(w, "delete", u, "other")
           \/ Read(w)
           \/ CountAdmins(w)
           \/ DeleteSessions(w)
           \/ Write(w)
           \/ CommitUser(w)
           \/ CommitLogin(w)
           \/ Fail(w)

Next == \/ \E w \in Workers : Step(w)
        \/ \E u \in Users : Logout(u)

Spec == Init /\ [][Next]_vars

-----------------------------------------------------------------------------

\* Type invariant of users and sessions.
TypeOK == /\ role \in [Users -> Roles \cup {"gone"}]
          /\ sessions \subseteq Users
          /\ tx \in [Workers -> Request]

(***************************************************************************)
(* Every session belongs to a user that exists, whichever sign-ins overlap *)
(* with the deletion: delete_platform_user deletes the sessions it sees,   *)
(* and the foreign key refuses the rest (connect sets PRAGMA foreign_keys).*)
(***************************************************************************)
SessionsHaveUsers == \A u \in sessions : role[u] # "gone"

LeavesAnAdmin(w) == Admins # {} => (Admins)' # {}

(***************************************************************************)
(* The check of delete_platform_user: a deletion leaves users without a    *)
(* super admin only if, after it had read the user, another request took   *)
(* another super admin away or made this user one.  ("Cannot delete the    *)
(* last super admin."; the count takes no lock.)                           *)
(***************************************************************************)
LastAdminNeedsOverlap ==
  [][\A w \in Workers : tx[w].op = "delete" /\ ~tx[w].late /\ CommitUser(w)
                          => LeavesAnAdmin(w)]_vars

=============================================================================
