------------------------------ MODULE Licensing ------------------------------
(***************************************************************************)
(* The licence of one customer: how its engineers activate a computer, sign*)
(* in, and change their passwords (customers.py), and what these requests  *)
(* make of each other when they overlap.                                   *)
(*                                                                         *)
(* A request reads what it needs, checks it, and only then writes, in one  *)
(* transaction.  A SELECT sees what is committed (READ COMMITTED); an      *)
(* UPDATE or INSERT waits for other transactions that have written the same*)
(* row, and computes from its latest version.  A request that is refused or*)
(* fails rolls back.  SQLite's single write lock only removes behaviours.  *)
(*                                                                         *)
(* A PC stands for the Device ID and the host name, which clients send     *)
(* together; NoPC for two blank fields.  Engineers have different e-mail   *)
(* addresses, and a request carries the right licence key and passwords    *)
(* (others change nothing).                                                *)
(***************************************************************************)
EXTENDS Naturals

CONSTANTS Engineers, NoEngineer, PCs, NoPC,
          Temp, Passwords,   \* the temporary password, and those chosen later
          Workers,           \* request handling threads, of all instances
          RequireDevice      \* is the licence bound to a device?

ASSUME NobodyAssumption == NoEngineer \notin Engineers
ASSUME NoPCAssumption == NoPC \notin PCs
ASSUME TempAssumption == Temp \notin Passwords
ASSUME DeviceAssumption == RequireDevice \in BOOLEAN

VARIABLES org,       \* the PC in the row of customers
          eng,       \* the rows of customer_engineers
          usr,       \* the rows of users that mirror them for the sessions
          sessions,  \* pairs of an engineer and the PC of the sign-in
          rebound,   \* history: has an overtaken activation rebound it?
          tx         \* the request each worker is serving

vars == <<org, eng, usr, sessions, rebound, tx>>

Machines == PCs \cup {NoPC}

Secrets == Passwords \cup {Temp}

Engineer == [here : BOOLEAN, dev : Machines, active : BOOLEAN,
             pw : Secrets, must : BOOLEAN]

\* stale is a history value: the login that wrote the row had been overtaken
User == [here : BOOLEAN, pw : Secrets, must : BOOLEAN, stale : BOOLEAN]

Absent == [here |-> FALSE, dev |-> NoPC, active |-> FALSE,
           pw |-> Temp, must |-> TRUE]

NoUser == [here |-> FALSE, pw |-> Temp, must |-> TRUE, stale |-> FALSE]

Ops == {"activate", "login", "change"}

Phases == {"idle",
           "customer", "engineer", "mark", "bind",   \* activate_license
           "join", "find", "mirror",                 \* login_engineer
           "check", "users", "engineers",            \* change_engineer_password
           "commit"}

(***************************************************************************)
(* at is the PC the request comes from, pw the password it chooses or has  *)
(* read, with must; org and found are read too.  late is a history value:  *)
(* a row the request has read was changed since by another request.        *)
(***************************************************************************)
Request == [pc : Phases, op : Ops, e : Engineers \cup {NoEngineer},
            at : Machines, pw : Secrets, must : BOOLEAN, org : Machines,
            found : BOOLEAN, late : BOOLEAN]

Idle == [pc |-> "idle", op |-> "login", e |-> NoEngineer,
         at |-> NoPC, pw |-> Temp, must |-> TRUE, org |-> NoPC,
         found |-> FALSE, late |-> FALSE]

\* the engineer row, customer row or users row is written and not committed
HoldsEngineer(t) == \/ t.op = "activate" /\ t.pc \in {"bind", "commit"}
                    \/ t.op = "change" /\ t.pc = "commit"
HoldsCustomer(t) == t.op = "activate" /\ t.pc = "commit" /\ t.at # NoPC
HoldsUser(t)     == \/ t.op = "login" /\ t.pc = "commit"
                    \/ t.op = "change" /\ t.pc \in {"engineers", "commit"}

-----------------------------------------------------------------------------

\* create_customer: the customer and its first engineer, perhaps with a PC
Init == /\ org \in Machines
        /\ \E first \in Engineers :
             eng = [e \in Engineers |->
                      IF e = first
                      THEN [Absent EXCEPT !.here = TRUE, !.dev = org]
                      ELSE Absent]
        /\ usr = [e \in Engineers |-> NoUser]
        /\ sessions = {}
        /\ rebound = [e \in Engineers |-> FALSE]
        /\ tx = [w \in Workers |-> Idle]

\* add_engineer, by an administrator
AddEngineer(e, m) ==
  /\ ~eng[e].here
  /\ eng' = [eng EXCEPT ![e] = [Absent EXCEPT !.here = TRUE, !.dev = m]]
  /\ UNCHANGED <<org, usr, sessions, rebound, tx>>

\* logout
Logout(s) ==
  /\ s \in sessions
  /\ sessions' = sessions \ {s}
  /\ UNCHANGED <<org, eng, usr, rebound, tx>>

\* POST /api/license/activate, from PC m
BeginActivation(w, e, m) ==
  /\ tx[w].pc = "idle"
  /\ tx' = [tx EXCEPT ![w] =
       [Idle EXCEPT !.pc = "customer", !.op = "activate", !.e = e, !.at = m]]
  /\ UNCHANGED <<org, eng, usr, sessions, rebound>>

\* POST /auth/customer-login, from PC m
BeginLogin(w, e, m) ==
  /\ tx[w].pc = "idle"
  /\ tx' = [tx EXCEPT ![w] =
       [Idle EXCEPT !.pc = "join", !.op = "login", !.e = e, !.at = m]]
  /\ UNCHANGED <<org, eng, usr, sessions, rebound>>

\* POST /api/auth/change-password, by an engineer who is signed in
BeginChange(w, e, p) ==
  /\ tx[w].pc = "idle"
  /\ \E s \in sessions : s[1] = e
  /\ tx' = [tx EXCEPT ![w] =
       [Idle EXCEPT !.pc = "check", !.op = "change", !.e = e, !.pw = p]]
  /\ UNCHANGED <<org, eng, usr, sessions, rebound>>

-----------------------------------------------------------------------------

\* the engineer's own PC, or else the customer's
Approved(row, o) == IF row.dev # NoPC THEN row.dev ELSE o

\* SELECT * FROM customers WHERE license_key = ?
ReadCustomer(w) ==
  /\ tx[w].pc = "customer"
  /\ tx' = [tx EXCEPT ![w] = [@ EXCEPT !.pc = "engineer", !.org = org]]
  /\ UNCHANGED <<org, eng, usr, sessions, rebound>>

\* SELECT * FROM customer_engineers ..., and the checks of activate_license
ReadEngineer(w) ==
  LET t == tx[w]
      d == Approved(eng[t.e], t.org)
  IN  /\ t.pc = "engineer"
      /\ eng[t.e].here
      /\ RequireDevice /\ d # NoPC /\ t.at # NoPC => d = t.at
      /\ tx' = [tx EXCEPT ![w] = [@ EXCEPT !.pc = "mark"]]
      /\ UNCHANGED <<org, eng, usr, sessions, rebound>>

\* UPDATE customer_engineers SET activated = 1, ...
Mark(w) ==
  /\ tx[w].pc = "mark"
  /\ \A v \in Workers \ {w} : HoldsEngineer(tx[v]) => tx[v].e # tx[w].e
  /\ tx' = [tx EXCEPT ![w] =
       [@ EXCEPT !.pc = IF tx[w].at = NoPC THEN "commit" ELSE "bind"]]
  /\ UNCHANGED <<org, eng, usr, sessions, rebound>>

\* UPDATE customers SET device_id = CASE WHEN device_id = '' ...
Bind(w) ==
  /\ tx[w].pc = "bind"
  /\ \A v \in Workers \ {w} : ~HoldsCustomer(tx[v])
  /\ tx' = [tx EXCEPT ![w] = [@ EXCEPT !.pc = "commit"]]
  /\ UNCHANGED <<org, eng, usr, sessions, rebound>>

\* Fault: the decision is taken on the row as the request read it.
BoundStale(t) == IF t.org = NoPC THEN t.at ELSE org

\* the device of the customer after the activation: the first one stays
Bound(t) == IF org = NoPC THEN t.at ELSE org

CommitActivation(w) ==
  LET t == tx[w]
      overtaken(v) == \/ tx[v].pc \in {"engineer", "mark", "bind", "commit"}
                         /\ org # Bound(t)
                      \/ tx[v].pc \in {"mark", "bind", "commit"}
                         /\ tx[v].e = t.e
  IN  /\ t.pc = "commit" /\ t.op = "activate"
      /\ eng' = [eng EXCEPT ![t.e] =
           [@ EXCEPT !.active = TRUE,
                     !.dev = IF t.at = NoPC THEN eng[t.e].dev ELSE t.at]]
      /\ org' = Bound(t)
      /\ rebound' = [rebound EXCEPT ![t.e] = @ \/ t.late]
      /\ tx' = [v \in Workers |->
           IF v = w THEN Idle
           ELSE IF tx[v].op = "activate" /\ overtaken(v)
           THEN [tx[v] EXCEPT !.late = TRUE] ELSE tx[v]]
      /\ UNCHANGED <<usr, sessions>>

-----------------------------------------------------------------------------

\* Fault: only the device of the customer counts.
MaySignInOfCustomer(row, o, m) ==
  /\ row.here /\ row.active
  /\ RequireDevice => m # NoPC /\ o = m

\* the checks of login_engineer
MaySignIn(row, o, m) ==
  /\ row.here /\ row.active
  /\ RequireDevice => m # NoPC /\ Approved(row, o) = m

\* SELECT e.*, c.* ... JOIN customers
ReadJoin(w) ==
  LET t == tx[w]
  IN  /\ t.pc = "join"
      /\ MaySignIn(eng[t.e], org, t.at)
      /\ tx' = [tx EXCEPT ![w] = [@ EXCEPT !.pc = "find",
                             !.pw = eng[t.e].pw, !.must = eng[t.e].must]]
      /\ UNCHANGED <<org, eng, usr, sessions, rebound>>

\* SELECT user_id FROM users WHERE user_id = ?
FindUser(w) ==
  /\ tx[w].pc = "find"
  /\ tx' = [tx EXCEPT ![w] = [@ EXCEPT !.pc = "mirror",
                                       !.found = usr[tx[w].e].here]]
  /\ UNCHANGED <<org, eng, usr, sessions, rebound>>

\* INSERT INTO users, refused if the row is there by now, or UPDATE; then the
\* INSERT INTO sessions
Mirror(w) ==
  LET t == tx[w]
  IN  /\ t.pc = "mirror"
      /\ \A v \in Workers \ {w} : HoldsUser(tx[v]) => tx[v].e # t.e
      /\ t.found \/ ~usr[t.e].here
      /\ tx' = [tx EXCEPT ![w] = [@ EXCEPT !.pc = "commit"]]
      /\ UNCHANGED <<org, eng, usr, sessions, rebound>>

CommitLogin(w) ==
  LET t == tx[w]
  IN  /\ t.pc = "commit" /\ t.op = "login"
      /\ usr' = [usr EXCEPT ![t.e] =
           [here |-> TRUE, pw |-> t.pw, must |-> t.must,
            stale |-> t.late]]
      /\ sessions' = sessions \cup {<<t.e, t.at>>}
      /\ tx' = [tx EXCEPT ![w] = Idle]
      /\ UNCHANGED <<org, eng, rebound>>

-----------------------------------------------------------------------------

\* SELECT * FROM users ..., and the check of the current password
CheckPassword(w) ==
  /\ tx[w].pc = "check"
  /\ usr[tx[w].e].here
  /\ tx' = [tx EXCEPT ![w] = [@ EXCEPT !.pc = "users"]]
  /\ UNCHANGED <<org, eng, usr, sessions, rebound>>

\* UPDATE users SET password...
ChangeUsers(w) ==
  /\ tx[w].pc = "users"
  /\ \A v \in Workers \ {w} : HoldsUser(tx[v]) => tx[v].e # tx[w].e
  /\ tx' = [tx EXCEPT ![w] = [@ EXCEPT !.pc = "engineers"]]
  /\ UNCHANGED <<org, eng, usr, sessions, rebound>>

\* UPDATE customer_engineers SET password...
ChangeEngineers(w) ==
  /\ tx[w].pc = "engineers"
  /\ \A v \in Workers \ {w} : HoldsEngineer(tx[v]) => tx[v].e # tx[w].e
  /\ tx' = [tx EXCEPT ![w] = [@ EXCEPT !.pc = "commit"]]
  /\ UNCHANGED <<org, eng, usr, sessions, rebound>>

\* Fault: the engineer keeps the temporary password.
NewEngineerKeeps(t) == [eng[t.e] EXCEPT !.must = FALSE]

NewEngineer(t) == [eng[t.e] EXCEPT !.pw = t.pw, !.must = FALSE]

CommitChange(w) ==
  LET t == tx[w]
  IN  /\ t.pc = "commit" /\ t.op = "change"
      /\ usr' = [usr EXCEPT ![t.e] =
           [@ EXCEPT !.pw = t.pw, !.must = FALSE, !.stale = FALSE]]
      /\ eng' = [eng EXCEPT ![t.e] = NewEngineer(t)]
      /\ tx' = [v \in Workers |->
           IF v = w THEN Idle
           ELSE IF tx[v].op = "login" /\ tx[v].e = t.e
           THEN [tx[v] EXCEPT !.late = tx[v].pc # "join"] ELSE tx[v]]
      /\ UNCHANGED <<org, sessions, rebound>>

-----------------------------------------------------------------------------

\* a check refuses the request, the database does, or it fails
Fail(w) ==
  /\ tx[w].pc # "idle"
  /\ tx' = [tx EXCEPT ![w] = Idle]
  /\ UNCHANGED <<org, eng, usr, sessions, rebound>>

Step(w) == \/ \E e \in Engineers, m \in Machines :
                BeginActivation(w, e, m) \/ BeginLogin(w, e, m)
           \/ \E e \in Engineers, p \in Passwords : BeginChange(w, e, p)
           \/ ReadCustomer(w)
           \/ ReadEngineer(w)
           \/ Mark(w)
           \/ Bind(w)
           \/ CommitActivation(w)
           \/ ReadJoin(w)
           \/ FindUser(w)
           \/ Mirror(w)
           \/ CommitLogin(w)
           \/ CheckPassword(w)
           \/ ChangeUsers(w)
           \/ ChangeEngineers(w)
           \/ CommitChange(w)
           \/ Fail(w)

Next == \/ \E w \in Workers : Step(w)
        \/ \E e \in Engineers, m \in Machines : AddEngineer(e, m)
        \/ \E s \in sessions : Logout(s)

Spec == Init /\ [][Next]_vars

-----------------------------------------------------------------------------

\* Type invariant of the licence: in particular only activated engineers have
\* users and sessions, and a bound licence has no sign-in without a device.
TypeOK ==
  /\ org \in Machines
  /\ eng \in [Engineers -> Engineer]
  /\ usr \in [Engineers -> User]
  /\ sessions \subseteq Engineers \X (IF RequireDevice THEN PCs ELSE Machines)
  /\ rebound \in [Engineers -> BOOLEAN]
  /\ tx \in [Workers -> Request]
  /\ \A w \in Workers : tx[w].pc # "idle" => tx[w].e \in Engineers
  /\ \A e \in Engineers : usr[e].here => eng[e].here /\ eng[e].active
  /\ \A s \in sessions : usr[s[1]].here

(***************************************************************************)
(* The device of the customer is the first one that was bound, whichever   *)
(* activations overlap: activate_license decides on the row as it is when  *)
(* the UPDATE runs (CASE WHEN device_id = ''), not as it was when read.    *)
(***************************************************************************)
CustomerDeviceNeverRebinds == [][org # NoPC => org' = org]_vars

(***************************************************************************)
(* Every session of a bound licence was opened on the PC that is approved  *)
(* for the engineer, unless an activation of the engineer was overtaken:   *)
(* after its reads another one committed that changed what it decides on,  *)
(* the device of the engineer or of the customer (activate_license,        *)
(* login_engineer).                                                        *)
(***************************************************************************)
SignedInWhereApproved ==
  RequireDevice => \A s \in sessions :
    ~rebound[s[1]] => s[2] = Approved(eng[s[1]], org)

(***************************************************************************)
(* users mirrors the password of the engineer: the two differ only if the  *)
(* latest sign-in read the engineer before a change of password that       *)
(* committed while the sign-in was under way (login_engineer).             *)
(***************************************************************************)
PasswordsAgree ==
  \A e \in Engineers :
    usr[e].here /\ ~usr[e].stale =>
      usr[e].pw = eng[e].pw /\ usr[e].must = eng[e].must

(***************************************************************************)
(* "... then signs in on that PC only" (frontend/app.js): the sessions of  *)
(* an engineer on a bound licence come from one PC.                        *)
(***************************************************************************)
LockedToOnePC ==
  RequireDevice => \A s, t \in sessions : s[1] = t[1] => s[2] = t[2]

=============================================================================
