--------------------------- MODULE LicensingProofs ---------------------------
(***************************************************************************)
(* Proofs about Licensing, for any number of engineers, PCs, passwords and *)
(* overlapping requests.  The invariant says of every request under way    *)
(* what its reads still tell: unless it was overtaken (late), what a login *)
(* has read is still in the row of the engineer, and an activation that    *)
(* passed the device check would pass it again.                            *)
(***************************************************************************)
EXTENDS Licensing, TLAPS

USE NobodyAssumption, NoPCAssumption, TempAssumption, DeviceAssumption

\* each step belongs to one operation
PhaseOfOp(t) ==
  /\ t.pc \in {"customer", "engineer", "mark", "bind"} => t.op = "activate"
  /\ t.pc \in {"join", "find", "mirror"} => t.op = "login"
  /\ t.pc \in {"check", "users", "engineers"} => t.op = "change"

\* a login that passed its checks
LoginInv(t) ==
  t.op = "login" /\ t.pc \in {"find", "mirror", "commit"} =>
    /\ eng[t.e].here /\ eng[t.e].active
    /\ ~t.late => t.pw = eng[t.e].pw /\ t.must = eng[t.e].must
    /\ RequireDevice => /\ t.at \in PCs
                        /\ ~rebound[t.e] => t.at = Approved(eng[t.e], org)

\* an activation that has read the customer, and one that passed its checks
ActivationInv(t) ==
  /\ t.pc = "engineer" /\ ~t.late => t.org = org
  /\ t.op = "activate" /\ t.pc \in {"mark", "bind", "commit"} =>
       /\ eng[t.e].here
       /\ ~t.late /\ RequireDevice =>
            \/ t.at = NoPC
            \/ Approved(eng[t.e], org) \in {NoPC, t.at}

RequestInv(t) == PhaseOfOp(t) /\ LoginInv(t) /\ ActivationInv(t)

LicenceInv == /\ TypeOK
              /\ SignedInWhereApproved
              /\ PasswordsAgree
              /\ \A w \in Workers : RequestInv(tx[w])

-----------------------------------------------------------------------------

LEMMA IdleFacts == Idle \in Request /\ RequestInv(Idle)
  BY DEF Idle, Request, Phases, Ops, Machines, Secrets, RequestInv,
         PhaseOfOp, LoginInv, ActivationInv

\* What a request learns from a read.
LEMMA LearnsOrg ==
  ASSUME NEW q \in Request, NEW p \in Phases, NEW o \in Machines
  PROVE  [q EXCEPT !.pc = p, !.org = o] \in Request
  BY DEF Request

LEMMA LearnsFound ==
  ASSUME NEW q \in Request, NEW p \in Phases, NEW b \in BOOLEAN
  PROVE  [q EXCEPT !.pc = p, !.found = b] \in Request
  BY DEF Request

\* A step that changes one request only keeps the invariant if what it knows
\* of that request is right.
LEMMA LocalStep ==
  ASSUME LicenceInv, NEW w \in Workers, NEW t \in Request, RequestInv(t),
         t.pc # "idle" => t.e \in Engineers,
         tx' = [tx EXCEPT ![w] = t],
         UNCHANGED <<org, eng, usr, sessions, rebound>>
  PROVE  LicenceInv'
<1>1. TypeOK'
  BY DEF LicenceInv, TypeOK
<1>2. SignedInWhereApproved' /\ PasswordsAgree'
  BY DEF LicenceInv, SignedInWhereApproved, PasswordsAgree, Approved
<1>3. ASSUME NEW v \in Workers PROVE RequestInv(tx[v])'
  <2>1. tx'[v] = t \/ tx'[v] = tx[v]
    BY DEF LicenceInv, TypeOK
  <2>2. RequestInv(tx'[v])
    BY <2>1 DEF LicenceInv
  <2> QED
    BY <2>2 DEF RequestInv, PhaseOfOp, LoginInv, ActivationInv, Approved
<1> QED
  BY <1>1, <1>2, <1>3 DEF LicenceInv

\* The steps that read, check, lock, begin or fail.
LEMMA ActivationReads ==
  ASSUME LicenceInv, NEW w \in Workers,
         \/ \E e \in Engineers, m \in Machines : BeginActivation(w, e, m)
         \/ ReadCustomer(w)
         \/ ReadEngineer(w)
         \/ Mark(w)
         \/ Bind(w)
  PROVE  LicenceInv'
<1> DEFINE t == tx'[w]
<1>1. /\ tx[w] \in Request /\ RequestInv(tx[w]) /\ org \in Machines
      /\ tx[w].pc # "idle" => tx[w].e \in Engineers
  BY DEF LicenceInv, TypeOK
<1>2. tx \in [Workers -> Request]
  BY DEF LicenceInv, TypeOK
<1>3. CASE \E e \in Engineers, m \in Machines : BeginActivation(w, e, m)
  <2>1. PICK e \in Engineers, m \in Machines : BeginActivation(w, e, m)
    BY <1>3
  <2>2. t = [Idle EXCEPT !.pc = "customer", !.op = "activate", !.e = e,
                         !.at = m]
    BY <1>2, <2>1 DEF BeginActivation
  <2>3. t \in Request /\ RequestInv(t) /\ t.e \in Engineers
    BY <2>2 DEF Idle, Request, Phases, Ops, Machines, Secrets, RequestInv,
                PhaseOfOp, LoginInv, ActivationInv
  <2>4. tx' = [tx EXCEPT ![w] = t]
    BY <1>2, <2>1, <2>2 DEF BeginActivation
  <2> QED
    BY <2>1, <2>3, <2>4, LocalStep DEF BeginActivation
<1>4. CASE ReadCustomer(w)
  <2>1. t = [tx[w] EXCEPT !.pc = "engineer", !.org = org]
    BY <1>2, <1>4 DEF ReadCustomer
  <2>2. t \in Request
    BY <1>1, <2>1, LearnsOrg DEF Phases
  <2>2a. /\ t.pc = "engineer" /\ t.org = org /\ t.op = tx[w].op
         /\ t.e \in Engineers
    BY <1>1, <1>4, <2>1 DEF Request, ReadCustomer
  <2>2b. RequestInv(t)
    BY <1>1, <1>4, <2>2a DEF ReadCustomer, RequestInv, PhaseOfOp, LoginInv,
                             ActivationInv
  <2>3. tx' = [tx EXCEPT ![w] = t]
    BY <1>2, <1>4, <2>1 DEF ReadCustomer
  <2> QED
    BY <1>4, <2>2, <2>2a, <2>2b, <2>3, LocalStep DEF ReadCustomer
<1>5. CASE ReadEngineer(w)
  <2>1. t = [tx[w] EXCEPT !.pc = "mark"]
    BY <1>2, <1>5 DEF ReadEngineer
  <2>2. t \in Request /\ t.e \in Engineers
    BY <1>1, <1>5, <2>1 DEF ReadEngineer, Request, Phases
  <2>3. RequestInv(t)
    BY <1>1, <1>5, <2>1 DEF ReadEngineer, Request, RequestInv,
                            PhaseOfOp, LoginInv, ActivationInv
  <2>4. tx' = [tx EXCEPT ![w] = t]
    BY <1>2, <1>5, <2>1 DEF ReadEngineer
  <2> QED
    BY <1>5, <2>2, <2>3, <2>4, LocalStep DEF ReadEngineer
<1>6. CASE Mark(w) \/ Bind(w)
  <2>1. PICK p \in {"bind", "commit"} : t = [tx[w] EXCEPT !.pc = p]
    BY <1>2, <1>6 DEF Mark, Bind
  <2>2. tx[w].pc \in {"mark", "bind"} /\ tx' = [tx EXCEPT ![w] = t]
    BY <1>2, <1>6, <2>1 DEF Mark, Bind
  <2>3. t \in Request /\ RequestInv(t) /\ t.e \in Engineers
    BY <1>1, <2>1, <2>2 DEF Request, Phases, RequestInv,
                            PhaseOfOp, LoginInv, ActivationInv
  <2> QED
    BY <1>6, <2>2, <2>3, LocalStep DEF Mark, Bind
<1> QED
  BY <1>3, <1>4, <1>5, <1>6

LEMMA LoginReads ==
  ASSUME LicenceInv, NEW w \in Workers,
         \/ \E e \in Engineers, m \in Machines : BeginLogin(w, e, m)
         \/ ReadJoin(w)
         \/ FindUser(w)
         \/ Mirror(w)
  PROVE  LicenceInv'
<1> DEFINE t == tx'[w]
<1>1. /\ tx[w] \in Request /\ RequestInv(tx[w])
      /\ tx[w].pc # "idle" => tx[w].e \in Engineers
  BY DEF LicenceInv, TypeOK
<1>2. tx \in [Workers -> Request] /\ eng \in [Engineers -> Engineer]
      /\ usr \in [Engineers -> User]
  BY DEF LicenceInv, TypeOK
<1>3. CASE \E e \in Engineers, m \in Machines : BeginLogin(w, e, m)
  <2>1. PICK e \in Engineers, m \in Machines : BeginLogin(w, e, m)
    BY <1>3
  <2>2. t = [Idle EXCEPT !.pc = "join", !.op = "login", !.e = e, !.at = m]
    BY <1>2, <2>1 DEF BeginLogin
  <2>3. t \in Request /\ RequestInv(t) /\ t.e \in Engineers
    BY <2>2 DEF Idle, Request, Phases, Ops, Machines, Secrets, RequestInv,
                PhaseOfOp, LoginInv, ActivationInv
  <2>4. tx' = [tx EXCEPT ![w] = t]
    BY <1>2, <2>1, <2>2 DEF BeginLogin
  <2> QED
    BY <2>1, <2>3, <2>4, LocalStep DEF BeginLogin
<1>4. CASE ReadJoin(w)
  <2> DEFINE row == eng[tx[w].e]
  <2>1. t = [tx[w] EXCEPT !.pc = "find", !.pw = row.pw, !.must = row.must]
    BY <1>2, <1>4 DEF ReadJoin
  <2>2. tx[w].e \in Engineers /\ row \in Engineer
    BY <1>1, <1>2, <1>4 DEF ReadJoin
  <2>3. t \in Request
    BY <1>1, <2>1, <2>2 DEF Request, Phases, Engineer
  <2>4. RequestInv(t)
    BY <1>1, <1>4, <2>1, <2>2 DEF ReadJoin, MaySignIn, Request, Machines,
         RequestInv, PhaseOfOp, LoginInv, ActivationInv
  <2>5. tx' = [tx EXCEPT ![w] = t]
    BY <1>2, <1>4, <2>1 DEF ReadJoin
  <2>6. t.e \in Engineers
    BY <1>1, <2>1, <2>2 DEF Request
  <2> QED
    BY <1>4, <2>3, <2>4, <2>5, <2>6, LocalStep DEF ReadJoin
<1>5. CASE FindUser(w)
  <2> DEFINE f == usr[tx[w].e].here
  <2>1. t = [tx[w] EXCEPT !.pc = "mirror", !.found = f]
    BY <1>2, <1>5 DEF FindUser
  <2>2. tx[w].e \in Engineers /\ usr[tx[w].e] \in User
    BY <1>1, <1>2, <1>5 DEF FindUser
  <2>2a. f \in BOOLEAN
    BY <2>2 DEF User
  <2>3. t \in Request
    <3>1. tx[w] \in Request /\ "mirror" \in Phases
      BY <1>1 DEF Phases
    <3> HIDE DEF t, f
    <3> QED BY <3>1, <2>1, <2>2a, LearnsFound, Zenon
  <2>3a. RequestInv(t) /\ t.e \in Engineers
    BY <1>1, <1>5, <2>1, <2>2 DEF FindUser, Request,
                                  RequestInv, PhaseOfOp, LoginInv, ActivationInv
  <2>4. tx' = [tx EXCEPT ![w] = t]
    BY <1>2, <1>5, <2>1 DEF FindUser
  <2> QED
    BY <1>5, <2>3, <2>3a, <2>4, LocalStep DEF FindUser
<1>6. CASE Mirror(w)
  <2>1. t = [tx[w] EXCEPT !.pc = "commit"]
    BY <1>2, <1>6 DEF Mirror
  <2>2. t \in Request /\ RequestInv(t) /\ t.e \in Engineers
    BY <1>1, <1>6, <2>1 DEF Mirror, Request, Phases, RequestInv,
                            PhaseOfOp, LoginInv, ActivationInv
  <2>3. tx' = [tx EXCEPT ![w] = t]
    BY <1>2, <1>6, <2>1 DEF Mirror
  <2> QED
    BY <1>6, <2>2, <2>3, LocalStep DEF Mirror
<1> QED
  BY <1>3, <1>4, <1>5, <1>6

LEMMA ChangeReads ==
  ASSUME LicenceInv, NEW w \in Workers,
         \/ \E e \in Engineers, p \in Passwords : BeginChange(w, e, p)
         \/ CheckPassword(w)
         \/ ChangeUsers(w)
         \/ ChangeEngineers(w)
         \/ Fail(w)
  PROVE  LicenceInv'
<1> DEFINE t == tx'[w]
<1>1. /\ tx[w] \in Request /\ RequestInv(tx[w])
      /\ tx[w].pc # "idle" => tx[w].e \in Engineers
  BY DEF LicenceInv, TypeOK
<1>2. tx \in [Workers -> Request]
  BY DEF LicenceInv, TypeOK
<1>3. CASE \E e \in Engineers, p \in Passwords : BeginChange(w, e, p)
  <2>1. PICK e \in Engineers, p \in Passwords : BeginChange(w, e, p)
    BY <1>3
  <2>2. t = [Idle EXCEPT !.pc = "check", !.op = "change", !.e = e, !.pw = p]
    BY <1>2, <2>1 DEF BeginChange
  <2>3. t \in Request /\ RequestInv(t) /\ t.e \in Engineers
    BY <2>2 DEF Idle, Request, Phases, Ops, Machines, Secrets, RequestInv,
                PhaseOfOp, LoginInv, ActivationInv
  <2>4. tx' = [tx EXCEPT ![w] = t]
    BY <1>2, <2>1, <2>2 DEF BeginChange
  <2> QED
    BY <2>1, <2>3, <2>4, LocalStep DEF BeginChange
<1>4. CASE CheckPassword(w) \/ ChangeUsers(w) \/ ChangeEngineers(w)
  <2>1. PICK p \in {"users", "engineers", "commit"} :
          t = [tx[w] EXCEPT !.pc = p]
    BY <1>2, <1>4 DEF CheckPassword, ChangeUsers, ChangeEngineers
  <2>2. /\ tx[w].pc \in {"check", "users", "engineers"}
        /\ tx' = [tx EXCEPT ![w] = t]
        /\ UNCHANGED <<org, eng, usr, sessions, rebound>>
    BY <1>2, <1>4, <2>1 DEF CheckPassword, ChangeUsers, ChangeEngineers
  <2>3. t \in Request /\ RequestInv(t) /\ t.e \in Engineers
    BY <1>1, <2>1, <2>2 DEF Request, Phases, RequestInv,
                            PhaseOfOp, LoginInv, ActivationInv
  <2> QED
    BY <2>2, <2>3, LocalStep
<1>5. CASE Fail(w)
  <2>1. tx' = [tx EXCEPT ![w] = Idle] /\ Idle.pc = "idle"
    BY <1>5 DEF Fail, Idle
  <2> QED
    BY <1>5, <2>1, IdleFacts, LocalStep DEF Fail
<1> QED
  BY <1>3, <1>4, <1>5

LEMMA LoginCommits ==
  ASSUME LicenceInv, NEW w \in Workers, CommitLogin(w)
  PROVE  LicenceInv'
<1> DEFINE t == tx[w]
           u == [here |-> TRUE, pw |-> t.pw, must |-> t.must, stale |-> t.late]
<1>1. /\ t \in Request /\ t.e \in Engineers /\ RequestInv(t)
      /\ t.op = "login" /\ t.pc = "commit"
      /\ eng[t.e].here /\ eng[t.e].active
  BY DEF CommitLogin, LicenceInv, TypeOK, RequestInv, LoginInv
<1>2. u \in User
  BY <1>1 DEF Request, User
<1>3. t.at \in IF RequireDevice THEN PCs ELSE Machines
  BY <1>1 DEF RequestInv, LoginInv, Request
<1>4. TypeOK /\ \A e \in Engineers :
        usr'[e] = IF e = t.e THEN u ELSE usr[e]
  BY <1>1 DEF CommitLogin, LicenceInv, TypeOK
<1>5. TypeOK'
  <2>1. usr' \in [Engineers -> User]
    BY <1>2, <1>4 DEF CommitLogin, TypeOK
  <2>2. tx' \in [Workers -> Request] /\ Idle.pc = "idle"
    BY <1>4, IdleFacts DEF CommitLogin, TypeOK, Idle
  <2>3. \A v \in Workers : tx'[v].pc # "idle" => tx'[v].e \in Engineers
    BY <1>4, <2>2 DEF CommitLogin, TypeOK
  <2>4. \A e \in Engineers : usr'[e].here => eng'[e].here /\ eng'[e].active
    BY <1>1, <1>4 DEF CommitLogin, TypeOK
  <2>5. sessions' \subseteq
          Engineers \X (IF RequireDevice THEN PCs ELSE Machines)
    BY <1>1, <1>3, <1>4 DEF CommitLogin, TypeOK
  <2>6. \A s \in sessions' : usr'[s[1]].here
    BY <1>1, <1>4, <2>5 DEF CommitLogin, TypeOK
  <2> QED
    BY <1>4, <2>1, <2>2, <2>3, <2>4, <2>5, <2>6 DEF CommitLogin, TypeOK
<1>6. SignedInWhereApproved'
  BY <1>1 DEF CommitLogin, LicenceInv, SignedInWhereApproved, Approved,
              RequestInv, LoginInv
<1>7. PasswordsAgree'
  BY <1>1, <1>4 DEF CommitLogin, LicenceInv, PasswordsAgree, RequestInv,
                    LoginInv
<1>8. ASSUME NEW v \in Workers PROVE RequestInv(tx[v])'
  <2>1. RequestInv(tx'[v])
    BY <1>4, IdleFacts DEF CommitLogin, LicenceInv, TypeOK
  <2> QED
    BY <2>1 DEF CommitLogin, RequestInv, PhaseOfOp, LoginInv, ActivationInv,
                Approved
<1> QED
  BY <1>5, <1>6, <1>7, <1>8 DEF LicenceInv

LEMMA ChangeCommits ==
  ASSUME LicenceInv, NEW w \in Workers, CommitChange(w)
  PROVE  LicenceInv'
<1> DEFINE t == tx[w]
<1>1. /\ t \in Request /\ t.e \in Engineers
      /\ t.op = "change" /\ t.pc = "commit"
  BY DEF CommitChange, LicenceInv, TypeOK
<1>2. TypeOK
  BY DEF LicenceInv
<1>3. /\ usr[t.e] \in User /\ eng[t.e] \in Engineer /\ t.pw \in Secrets
      /\ \A e \in Engineers :
           /\ usr'[e] = IF e = t.e
                        THEN [usr[e] EXCEPT !.pw = t.pw, !.must = FALSE,
                                            !.stale = FALSE]
                        ELSE usr[e]
           /\ eng'[e] = IF e = t.e
                        THEN [eng[e] EXCEPT !.pw = t.pw, !.must = FALSE]
                        ELSE eng[e]
  BY <1>1, <1>2 DEF CommitChange, NewEngineer, TypeOK, Request
<1>4. \A e \in Engineers :
        /\ usr'[e].here = usr[e].here
        /\ eng'[e].here = eng[e].here /\ eng'[e].active = eng[e].active
        /\ eng'[e].dev = eng[e].dev
        /\ e = t.e => /\ usr'[e].pw = t.pw /\ eng'[e].pw = t.pw
                      /\ usr'[e].must = FALSE /\ eng'[e].must = FALSE
        /\ e # t.e => usr'[e] = usr[e] /\ eng'[e] = eng[e]
  BY <1>3 DEF User, Engineer
<1>5. \A v \in Workers :
        tx'[v] = IF v = w THEN Idle
                 ELSE IF tx[v].op = "login" /\ tx[v].e = t.e
                 THEN [tx[v] EXCEPT !.late = tx[v].pc # "join"] ELSE tx[v]
  BY DEF CommitChange
<1>6. TypeOK'
  <2>1. usr' \in [Engineers -> User]
    <3>1. [usr[t.e] EXCEPT !.pw = t.pw, !.must = FALSE, !.stale = FALSE]
            \in User
      BY <1>3 DEF User
    <3> QED BY <1>2, <1>3, <3>1 DEF CommitChange, TypeOK
  <2>2. eng' \in [Engineers -> Engineer]
    <3>1. [eng[t.e] EXCEPT !.pw = t.pw, !.must = FALSE] \in Engineer
      BY <1>3 DEF Engineer
    <3> QED BY <1>2, <1>3, <3>1 DEF CommitChange, NewEngineer, TypeOK
  <2>3. ASSUME NEW v \in Workers
        PROVE  tx'[v] \in Request /\ (tx'[v].pc # "idle" =>
                                       tx'[v].e \in Engineers)
    <3>1. tx[v] \in Request /\ (tx[v].pc # "idle" => tx[v].e \in Engineers)
      BY <1>2 DEF TypeOK
    <3>2. [tx[v] EXCEPT !.late = tx[v].pc # "join"] \in Request
      BY <3>1 DEF Request
    <3>3. [tx[v] EXCEPT !.late = tx[v].pc # "join"].pc = tx[v].pc
          /\ [tx[v] EXCEPT !.late = tx[v].pc # "join"].e = tx[v].e
      BY <3>1 DEF Request
    <3>4. Idle.pc = "idle"
      BY DEF Idle
    <3>5. \/ tx'[v] = Idle \/ tx'[v] = tx[v]
          \/ tx'[v] = [tx[v] EXCEPT !.late = tx[v].pc # "join"]
      BY <1>5
    <3> QED BY <3>1, <3>2, <3>3, <3>4, <3>5, IdleFacts
  <2>4. tx' \in [Workers -> Request]
    BY <2>3 DEF CommitChange
  <2>5. \A s \in sessions : s[1] \in Engineers
    BY <1>2 DEF TypeOK
  <2>6. \A e \in Engineers : usr'[e].here => eng'[e].here /\ eng'[e].active
    BY <1>2, <1>4 DEF TypeOK
  <2>7. \A s \in sessions' : usr'[s[1]].here
    BY <1>2, <1>4, <2>5 DEF CommitChange, TypeOK
  <2> QED
    BY <1>2, <2>1, <2>2, <2>3, <2>4, <2>6, <2>7 DEF CommitChange, TypeOK
<1>7. SignedInWhereApproved'
  BY <1>2, <1>4 DEF CommitChange, LicenceInv, TypeOK, SignedInWhereApproved,
                    Approved
<1>8. PasswordsAgree'
  BY <1>1, <1>4 DEF LicenceInv, PasswordsAgree
<1>9. ASSUME NEW v \in Workers PROVE RequestInv(tx[v])'
  <2>1. /\ tx[v] \in Request /\ RequestInv(tx[v])
        /\ tx[v].pc # "idle" => tx[v].e \in Engineers
    BY <1>2 DEF LicenceInv, TypeOK
  <2>2. CASE v = w
    <3>1. tx'[v] = Idle /\ Idle.pc = "idle"
      BY <1>5, <2>2 DEF Idle
    <3> QED BY <3>1 DEF RequestInv, PhaseOfOp, LoginInv, ActivationInv
  <2>3. CASE v # w /\ tx[v].op = "login" /\ tx[v].e = t.e
    <3>1. /\ tx'[v].pc = tx[v].pc /\ tx'[v].op = tx[v].op
          /\ tx'[v].e = tx[v].e /\ tx'[v].at = tx[v].at
          /\ tx[v].pc # "join" => tx'[v].late
      BY <1>5, <2>1, <2>3 DEF Request
    <3> QED
      BY <1>1, <1>4, <2>1, <2>3, <3>1 DEF CommitChange, RequestInv, PhaseOfOp,
         LoginInv, ActivationInv, Approved
  <2>4. CASE v # w /\ ~(tx[v].op = "login" /\ tx[v].e = t.e)
    <3>1. tx'[v] = tx[v]
      BY <1>5, <2>4
    <3> QED
      BY <1>1, <1>4, <2>1, <2>4, <3>1 DEF CommitChange, RequestInv, PhaseOfOp,
         LoginInv, ActivationInv, Approved
  <2> QED
    BY <2>2, <2>3, <2>4
<1> QED
  BY <1>6, <1>7, <1>8, <1>9 DEF LicenceInv

LEMMA AdminSteps ==
  ASSUME LicenceInv,
         \/ \E e \in Engineers, m \in Machines : AddEngineer(e, m)
         \/ \E s \in sessions : Logout(s)
  PROVE  LicenceInv'
<1>1. TypeOK
  BY DEF LicenceInv
<1>2. CASE \E s \in sessions : Logout(s)
  <2>1. TypeOK'
    BY <1>1, <1>2 DEF Logout, TypeOK
  <2> QED
    BY <1>2, <2>1 DEF Logout, LicenceInv, SignedInWhereApproved, Approved,
       PasswordsAgree, RequestInv, PhaseOfOp, LoginInv, ActivationInv
<1>3. ASSUME NEW e \in Engineers, NEW m \in Machines, AddEngineer(e, m)
      PROVE  LicenceInv'
  <2>1. /\ ~eng[e].here /\ ~usr[e].here
        /\ [Absent EXCEPT !.here = TRUE, !.dev = m] \in Engineer
        /\ \A f \in Engineers \ {e} : eng'[f] = eng[f]
    BY <1>1, <1>3 DEF AddEngineer, TypeOK, Absent, Engineer, Machines, Secrets
  <2>2. TypeOK'
    BY <1>1, <1>3, <2>1 DEF AddEngineer, TypeOK
  <2>3. \A s \in sessions : s[1] \in Engineers \ {e}
    BY <1>1, <2>1 DEF TypeOK
  <2>4. SignedInWhereApproved' /\ PasswordsAgree'
    BY <1>3, <2>1, <2>3 DEF AddEngineer, LicenceInv, SignedInWhereApproved,
       Approved, PasswordsAgree
  <2>5. ASSUME NEW v \in Workers PROVE RequestInv(tx[v])'
    <3>1. /\ RequestInv(tx[v])
          /\ tx[v].pc # "idle" => tx[v].e \in Engineers
      BY <1>1 DEF LicenceInv, TypeOK
    <3> QED
      BY <1>3, <2>1, <3>1 DEF AddEngineer, RequestInv, PhaseOfOp, LoginInv,
         ActivationInv, Approved
  <2> QED
    BY <2>2, <2>4, <2>5 DEF LicenceInv
<1> QED
  BY <1>2, <1>3

(***************************************************************************)
(* The first activation from a PC decides for engineers and a customer     *)
(* without one; a later one changes nothing, unless it was overtaken.      *)
(***************************************************************************)
LEMMA ActivationCommits ==
  ASSUME LicenceInv, NEW w \in Workers, CommitActivation(w)
  PROVE  LicenceInv'
<1> DEFINE t == tx[w]
           d == IF t.at = NoPC THEN eng[t.e].dev ELSE t.at
<1>1. /\ t \in Request /\ t.e \in Engineers /\ RequestInv(t)
      /\ t.op = "activate" /\ t.pc = "commit" /\ t.at \in Machines
  BY DEF CommitActivation, LicenceInv, TypeOK, Request
<1>2. TypeOK
  BY DEF LicenceInv
<1>3. eng[t.e] \in Engineer /\ d \in Machines
  BY <1>1, <1>2 DEF TypeOK, Engineer
<1>4. \A e \in Engineers :
        /\ eng'[e].here = eng[e].here
        /\ eng[e].active => eng'[e].active
        /\ eng'[e].pw = eng[e].pw /\ eng'[e].must = eng[e].must
        /\ eng'[e].dev = IF e = t.e THEN d ELSE eng[e].dev
        /\ rebound[e] \/ (e = t.e /\ t.late) => rebound'[e]
  <2>1. \A e \in Engineers :
          /\ eng'[e] = IF e = t.e
                       THEN [eng[e] EXCEPT !.active = TRUE, !.dev = d]
                       ELSE eng[e]
          /\ rebound'[e] = IF e = t.e THEN rebound[e] \/ t.late ELSE rebound[e]
    BY <1>1, <1>2 DEF CommitActivation, TypeOK
  <2>2. \A e \in Engineers : eng[e] \in Engineer
    BY <1>2 DEF TypeOK
  <2>3. ASSUME NEW e \in Engineers
        PROVE  /\ eng'[e].here = eng[e].here
               /\ eng[e].active => eng'[e].active
               /\ eng'[e].pw = eng[e].pw /\ eng'[e].must = eng[e].must
               /\ eng'[e].dev = IF e = t.e THEN d ELSE eng[e].dev
    <3>1. CASE e = t.e
      <4> HIDE DEF d
      <4>1. eng'[e] = [eng[e] EXCEPT !.active = TRUE, !.dev = d]
        BY <2>1, <3>1
      <4> QED
        BY <2>2, <3>1, <4>1 DEF Engineer
    <3>2. CASE e # t.e
      BY <2>1, <3>2
    <3> QED
      BY <3>1, <3>2
  <2> QED
    BY <2>1, <2>3
<1>5. /\ org' \in Machines
      /\ org # NoPC => org' = org
      /\ org = NoPC => org' = t.at
      /\ UNCHANGED <<usr, sessions>>
  BY <1>1, <1>2 DEF CommitActivation, Bound, TypeOK
<1>6. ASSUME NEW v \in Workers
      PROVE  /\ tx'[v] \in Request
             /\ tx'[v].pc = "idle" \/
                  /\ v # w
                  /\ tx'[v].pc = tx[v].pc /\ tx'[v].op = tx[v].op
                  /\ tx'[v].e = tx[v].e /\ tx'[v].at = tx[v].at
                  /\ tx'[v].pw = tx[v].pw /\ tx'[v].must = tx[v].must
                  /\ tx'[v].org = tx[v].org
                  /\ tx'[v].late = tx[v].late \/ tx'[v].late = TRUE
                  /\ tx[v].op = "login" => tx'[v].late = tx[v].late
                  /\ tx[v].op = "activate" /\ ~tx'[v].late =>
                       /\ tx[v].pc \in {"engineer", "mark", "bind", "commit"}
                            => org' = org
                       /\ tx[v].pc \in {"mark", "bind", "commit"}
                            => tx[v].e # t.e
  <2> DEFINE over == \/ tx[v].pc \in {"engineer", "mark", "bind", "commit"}
                        /\ org # Bound(t)
                     \/ tx[v].pc \in {"mark", "bind", "commit"}
                        /\ tx[v].e = t.e
  <2>1. tx'[v] = IF v = w THEN Idle
                 ELSE IF tx[v].op = "activate" /\ over
                 THEN [tx[v] EXCEPT !.late = TRUE] ELSE tx[v]
    BY DEF CommitActivation
  <2>2. tx[v] \in Request /\ org' = Bound(t)
    BY <1>2 DEF CommitActivation, TypeOK
  <2>3. CASE v = w
    BY <2>1, <2>3, IdleFacts DEF Idle
  <2>4. CASE v # w /\ tx[v].op = "activate" /\ over
    BY <2>1, <2>2, <2>4 DEF Request
  <2>5. CASE v # w /\ ~(tx[v].op = "activate" /\ over)
    BY <2>1, <2>2, <2>5
  <2> QED
    BY <2>3, <2>4, <2>5
<1>7. TypeOK'
  <2>1. [eng[t.e] EXCEPT !.active = TRUE, !.dev = d] \in Engineer
    BY <1>3 DEF Engineer
  <2>2. eng' \in [Engineers -> Engineer]
    BY <1>2, <2>1 DEF CommitActivation, TypeOK
  <2>3. rebound' \in [Engineers -> BOOLEAN]
    BY <1>2 DEF CommitActivation, TypeOK
  <2>4. /\ tx' \in [Workers -> Request]
        /\ \A v \in Workers : tx'[v].pc # "idle" => tx'[v].e \in Engineers
    BY <1>2, <1>6 DEF CommitActivation, TypeOK
  <2>5. \A e \in Engineers : usr'[e].here => eng'[e].here /\ eng'[e].active
    BY <1>2, <1>4, <1>5 DEF TypeOK
  <2> QED
    BY <1>2, <1>5, <2>2, <2>3, <2>4, <2>5 DEF TypeOK
<1>8. ASSUME NEW e \in Engineers, RequireDevice, ~rebound'[e],
             NEW m \in PCs, m = Approved(eng[e], org)
      PROVE  m = Approved(eng[e], org)'
  <2>1. ~rebound[e] /\ (e = t.e => ~t.late)
    BY <1>4, <1>8
  <2>2. e = t.e => t.at \in {NoPC, m}
    BY <1>1, <1>8, <2>1 DEF RequestInv, ActivationInv
  <2> QED
    BY <1>4, <1>5, <1>8, <2>2 DEF Approved
<1>9. SignedInWhereApproved'
  BY <1>2, <1>4, <1>5, <1>8 DEF LicenceInv, TypeOK, SignedInWhereApproved
<1>10. PasswordsAgree'
  BY <1>4, <1>5 DEF LicenceInv, PasswordsAgree
<1>11. ASSUME NEW v \in Workers PROVE RequestInv(tx[v])'
  <2>1. /\ tx[v] \in Request /\ RequestInv(tx[v])
        /\ tx[v].pc # "idle" => tx[v].e \in Engineers
    BY <1>2 DEF LicenceInv, TypeOK
  <2>2. CASE tx'[v].pc = "idle"
    BY <2>2 DEF RequestInv, PhaseOfOp, LoginInv, ActivationInv
  <2>3. CASE tx'[v].pc # "idle"
    <3>1. PhaseOfOp(tx[v])'
      BY <1>6, <2>1, <2>3 DEF RequestInv, PhaseOfOp
    <3>2. LoginInv(tx[v])'
      <4> SUFFICES ASSUME tx[v].op = "login",
                          tx[v].pc \in {"find", "mirror", "commit"}
                   PROVE  LoginInv(tx[v])'
        BY <1>6, <2>3 DEF LoginInv
      <4>1. /\ tx[v].e \in Engineers
            /\ tx'[v].e = tx[v].e /\ tx'[v].at = tx[v].at
            /\ tx'[v].pw = tx[v].pw /\ tx'[v].must = tx[v].must
            /\ tx'[v].late = tx[v].late
        BY <1>6, <2>1, <2>3
      <4>2. LoginInv(tx[v])
        BY <2>1 DEF RequestInv
      <4>3. RequireDevice /\ ~rebound'[tx[v].e]
              => tx[v].at = Approved(eng[tx[v].e], org)'
        <5> SUFFICES ASSUME RequireDevice, ~rebound'[tx[v].e]
                     PROVE  tx[v].at = Approved(eng[tx[v].e], org)'
          OBVIOUS
        <5>1. ~rebound[tx[v].e]
          BY <1>4, <4>1
        <5>2. tx[v].at \in PCs /\ tx[v].at = Approved(eng[tx[v].e], org)
          BY <4>2, <5>1 DEF LoginInv
        <5>3. tx[v].at = Approved(eng'[tx[v].e], org')
          BY <1>8, <4>1, <5>2 DEF Approved
        <5> QED
          BY <4>1, <5>3
      <4> QED
        BY <1>4, <4>1, <4>2, <4>3 DEF LoginInv
    <3>3. ActivationInv(tx[v])'
      <4>1. tx'[v].pc = "engineer" /\ ~tx'[v].late => tx'[v].org = org'
        BY <1>6, <2>1, <2>3 DEF RequestInv, PhaseOfOp, ActivationInv
      <4>2. ASSUME tx[v].op = "activate",
                   tx[v].pc \in {"mark", "bind", "commit"}
            PROVE  /\ eng'[tx[v].e].here
                   /\ ~tx'[v].late /\ RequireDevice =>
                        \/ tx[v].at = NoPC
                        \/ Approved(eng[tx[v].e], org)' \in {NoPC, tx[v].at}
        <5>1. tx[v].e \in Engineers /\ ActivationInv(tx[v])
          BY <2>1, <4>2 DEF RequestInv
        <5>2. ASSUME ~tx'[v].late
              PROVE  ~tx[v].late /\ org' = org /\ tx[v].e # t.e
          BY <1>6, <2>3, <4>2, <5>2
        <5>3. tx[v].e # t.e => eng'[tx[v].e].dev = eng[tx[v].e].dev
          BY <1>4, <5>1
        <5>4. eng'[tx[v].e].here
          BY <1>4, <4>2, <5>1 DEF ActivationInv
        <5>5. ASSUME ~tx'[v].late, RequireDevice
              PROVE  \/ tx[v].at = NoPC
                     \/ Approved(eng[tx[v].e], org) \in {NoPC, tx[v].at}
          BY <4>2, <5>1, <5>2, <5>5 DEF ActivationInv
        <5>6. ASSUME ~tx'[v].late
              PROVE  Approved(eng[tx[v].e], org)' = Approved(eng[tx[v].e], org)
          BY <1>6, <2>3, <5>2, <5>3, <5>6 DEF Approved
        <5> QED
          BY <5>4, <5>5, <5>6
      <4> QED
        BY <1>6, <2>3, <4>1, <4>2 DEF ActivationInv
    <3> QED
      BY <3>1, <3>2, <3>3 DEF RequestInv
  <2> QED
    BY <2>2, <2>3
<1> QED
  BY <1>7, <1>9, <1>10, <1>11 DEF LicenceInv

-----------------------------------------------------------------------------

LEMMA Invariance == Spec => []LicenceInv
<1>1. Init => LicenceInv
  <2> SUFFICES ASSUME Init PROVE LicenceInv
    OBVIOUS
  <2>1. PICK first \in Engineers :
          eng = [e \in Engineers |->
                   IF e = first THEN [Absent EXCEPT !.here = TRUE, !.dev = org]
                   ELSE Absent]
    BY DEF Init
  <2>2. org \in Machines /\ Absent \in Engineer
        /\ [Absent EXCEPT !.here = TRUE, !.dev = org] \in Engineer
    BY DEF Init, Absent, Engineer, Machines, Secrets
  <2>3. NoUser \in User /\ ~NoUser.here /\ Idle.pc = "idle"
    BY DEF NoUser, User, Secrets, Idle
  <2>4. TypeOK
    BY <2>1, <2>2, <2>3, IdleFacts DEF Init, TypeOK
  <2>5. SignedInWhereApproved /\ PasswordsAgree
    BY <2>3 DEF Init, SignedInWhereApproved, PasswordsAgree
  <2> QED
    BY <2>4, <2>5, IdleFacts DEF Init, LicenceInv
<1>2. LicenceInv /\ [Next]_vars => LicenceInv'
  <2> SUFFICES ASSUME LicenceInv, [Next]_vars PROVE LicenceInv'
    OBVIOUS
  <2>1. CASE UNCHANGED vars
    BY <2>1 DEF vars, LicenceInv, TypeOK, SignedInWhereApproved, Approved,
       PasswordsAgree, RequestInv, PhaseOfOp, LoginInv, ActivationInv
  <2>2. ASSUME NEW w \in Workers, Step(w) PROVE LicenceInv'
    BY <2>2, ActivationReads, LoginReads, ChangeReads, ActivationCommits,
       LoginCommits, ChangeCommits DEF Step
  <2> QED
    BY <2>1, <2>2, AdminSteps DEF Next
<1> QED
  BY <1>1, <1>2, PTL DEF Spec

\* The licence keeps its types; only activated engineers have sessions.
THEOREM TypeCorrect == Spec => []TypeOK
<1>1. LicenceInv => TypeOK
  BY DEF LicenceInv
<1> QED
  BY <1>1, Invariance, PTL

\* Unless an activation was overtaken, sessions come from the approved PC.
THEOREM SignInsApproved == Spec => []SignedInWhereApproved
<1>1. LicenceInv => SignedInWhereApproved
  BY DEF LicenceInv
<1> QED
  BY <1>1, Invariance, PTL

\* Unless a login was overtaken by a change, the two passwords agree.
THEOREM PasswordsMirrored == Spec => []PasswordsAgree
<1>1. LicenceInv => PasswordsAgree
  BY DEF LicenceInv
<1> QED
  BY <1>1, Invariance, PTL

\* No step ever replaces the device of the customer.
THEOREM DeviceStays == Spec => CustomerDeviceNeverRebinds
<1>1. [Next]_vars => [org # NoPC => org' = org]_vars
  <2> SUFFICES ASSUME [Next]_vars, org # NoPC PROVE org' = org
    BY DEF vars
  <2>1. ASSUME NEW w \in Workers, Step(w) PROVE org' = org
    BY <2>1 DEF Step, BeginActivation, BeginLogin, BeginChange, ReadCustomer,
       ReadEngineer, Mark, Bind, CommitActivation, Bound, ReadJoin, FindUser,
       Mirror, CommitLogin, CheckPassword, ChangeUsers, ChangeEngineers,
       CommitChange, Fail
  <2> QED
    BY <2>1 DEF Next, vars, AddEngineer, Logout
<1> QED
  BY <1>1, PTL DEF Spec, CustomerDeviceNeverRebinds

-----------------------------------------------------------------------------
(***************************************************************************)
(* Where the lock holds.  A licence that starts with a device is locked,   *)
(* whichever requests overlap: an activation that passes its check comes   *)
(* from the approved PC, so its commit approves the same PC again, and     *)
(* being overtaken makes no difference.                                    *)
(***************************************************************************)
KnownRequest(t) ==
  /\ t.op = "activate" /\ t.pc \in {"engineer", "mark", "bind", "commit"} =>
       t.org = org
  /\ RequireDevice /\ t.op = "activate" /\ t.pc \in {"mark", "bind", "commit"} =>
       t.at \in {NoPC, Approved(eng[t.e], org)}
  /\ RequireDevice /\ t.op = "login" /\ t.pc \in {"find", "mirror", "commit"} =>
       t.at = Approved(eng[t.e], org)

KnownSessions ==
  RequireDevice => \A s \in sessions : s[2] = Approved(eng[s[1]], org)

KnownInv == /\ org # NoPC
            /\ KnownSessions
            /\ \A w \in Workers : KnownRequest(tx[w])

LEMMA KnownIdle == KnownRequest(Idle)
  BY DEF KnownRequest, Idle

LEMMA KnownLocal ==
  ASSUME KnownInv, TypeOK, NEW w \in Workers, NEW t, KnownRequest(t),
         tx' = [tx EXCEPT ![w] = t], UNCHANGED <<org, eng>>,
         KnownSessions'
  PROVE  KnownInv'
<1>1. ASSUME NEW v \in Workers PROVE KnownRequest(tx[v])'
  <2>1. tx'[v] = t \/ tx'[v] = tx[v]
    BY DEF TypeOK
  <2>2. KnownRequest(tx'[v])
    BY <2>1 DEF KnownInv
  <2> QED
    BY <2>2 DEF KnownRequest, Approved
<1> QED
  BY <1>1 DEF KnownInv

\* The steps that change one request only, apart from the commits.
LEMMA KnownReads ==
  ASSUME LicenceInv, KnownInv, NEW w \in Workers,
         \/ \E e \in Engineers, m \in Machines :
              BeginActivation(w, e, m) \/ BeginLogin(w, e, m)
         \/ \E e \in Engineers, p \in Passwords : BeginChange(w, e, p)
         \/ ReadCustomer(w) \/ ReadEngineer(w) \/ Mark(w) \/ Bind(w)
         \/ ReadJoin(w) \/ FindUser(w) \/ Mirror(w)
         \/ CheckPassword(w) \/ ChangeUsers(w) \/ ChangeEngineers(w)
         \/ Fail(w)
  PROVE  KnownInv'
<1>1. /\ tx[w] \in Request /\ KnownRequest(tx[w]) /\ PhaseOfOp(tx[w])
      /\ TypeOK
  BY DEF LicenceInv, TypeOK, KnownInv, RequestInv
<1>2. UNCHANGED <<org, eng, usr, sessions, rebound>>
  BY DEF BeginActivation, BeginLogin, BeginChange, ReadCustomer,
     ReadEngineer, Mark, Bind, ReadJoin, FindUser, Mirror, CheckPassword,
     ChangeUsers, ChangeEngineers, Fail
<1>3. KnownSessions'
  BY <1>2 DEF KnownInv, KnownSessions, Approved
<1>4. SUFFICES \E t : KnownRequest(t) /\ tx' = [tx EXCEPT ![w] = t]
  BY <1>1, <1>2, <1>3, KnownLocal
<1>5. CASE \E e \in Engineers, m \in Machines :
             BeginActivation(w, e, m) \/ BeginLogin(w, e, m)
  <2>1. PICK e \in Engineers, m \in Machines :
          BeginActivation(w, e, m) \/ BeginLogin(w, e, m)
    BY <1>5
  <2>2. CASE BeginActivation(w, e, m)
    <3> DEFINE t == [Idle EXCEPT !.pc = "customer", !.op = "activate",
                                 !.e = e, !.at = m]
    <3>1. KnownRequest(t)
      BY DEF KnownRequest, Idle
    <3> QED
      BY <2>2, <3>1 DEF BeginActivation
  <2>3. CASE BeginLogin(w, e, m)
    <3> DEFINE t == [Idle EXCEPT !.pc = "join", !.op = "login",
                                 !.e = e, !.at = m]
    <3>1. KnownRequest(t)
      BY DEF KnownRequest, Idle
    <3> QED
      BY <2>3, <3>1 DEF BeginLogin
  <2> QED
    BY <2>1, <2>2, <2>3
<1>6. CASE \E e \in Engineers, p \in Passwords : BeginChange(w, e, p)
  <2>1. PICK e \in Engineers, p \in Passwords : BeginChange(w, e, p)
    BY <1>6
  <2> DEFINE t == [Idle EXCEPT !.pc = "check", !.op = "change",
                               !.e = e, !.pw = p]
  <2>2. KnownRequest(t)
    BY DEF KnownRequest, Idle
  <2> QED
    BY <2>1, <2>2 DEF BeginChange
<1>7. CASE ReadCustomer(w)
  <2> DEFINE t == [tx[w] EXCEPT !.pc = "engineer", !.org = org]
  <2>1. t.org = org /\ t.pc = "engineer" /\ t.op = tx[w].op
    BY <1>1 DEF Request
  <2>2. KnownRequest(t)
    BY <2>1 DEF KnownRequest
  <2> QED
    BY <1>7, <2>2 DEF ReadCustomer
<1>8. CASE ReadEngineer(w)
  <2> DEFINE t == [tx[w] EXCEPT !.pc = "mark"]
  <2>1. /\ t.pc = "mark" /\ t.op = "activate" /\ tx[w].op = "activate"
        /\ t.e = tx[w].e /\ t.at = tx[w].at /\ t.org = tx[w].org
        /\ tx[w].org = org /\ tx[w].pc = "engineer"
    BY <1>1, <1>8 DEF ReadEngineer, Request, PhaseOfOp, KnownRequest
  <2>2. Approved(eng[t.e], org) # NoPC
    BY DEF KnownInv, Approved
  <2>3. RequireDevice => t.at \in {NoPC, Approved(eng[t.e], org)}
    BY <1>8, <2>1, <2>2 DEF ReadEngineer
  <2>4. KnownRequest(t)
    BY <2>1, <2>3 DEF KnownRequest
  <2> QED
    BY <1>8, <2>4 DEF ReadEngineer
<1>9. CASE ReadJoin(w)
  <2> DEFINE t == [tx[w] EXCEPT !.pc = "find",
                        !.pw = eng[tx[w].e].pw, !.must = eng[tx[w].e].must]
  <2>1. /\ t.pc = "find" /\ t.op = "login"
        /\ t.e = tx[w].e /\ t.at = tx[w].at
    BY <1>1, <1>9 DEF ReadJoin, Request, PhaseOfOp
  <2>2. RequireDevice => t.at = Approved(eng[t.e], org)
    BY <1>9, <2>1 DEF ReadJoin, MaySignIn
  <2>3. KnownRequest(t)
    BY <2>1, <2>2 DEF KnownRequest
  <2> QED
    BY <1>9, <2>3 DEF ReadJoin
<1>10. CASE FindUser(w)
  <2> DEFINE t == [tx[w] EXCEPT !.pc = "mirror", !.found = usr[tx[w].e].here]
  <2>1. /\ t.pc = "mirror" /\ t.op = "login" /\ tx[w].pc = "find"
        /\ tx[w].op = "login" /\ t.e = tx[w].e /\ t.at = tx[w].at
    BY <1>1, <1>10 DEF FindUser, Request, PhaseOfOp
  <2>2. KnownRequest(t)
    BY <1>1, <2>1 DEF KnownRequest
  <2> QED
    BY <1>10, <2>2 DEF FindUser
<1>11. CASE Mirror(w)
  <2> DEFINE t == [tx[w] EXCEPT !.pc = "commit"]
  <2>1. /\ t.pc = "commit" /\ t.op = "login" /\ tx[w].pc = "mirror"
        /\ tx[w].op = "login" /\ t.e = tx[w].e /\ t.at = tx[w].at
    BY <1>1, <1>11 DEF Mirror, Request, PhaseOfOp
  <2>2. KnownRequest(t)
    BY <1>1, <2>1 DEF KnownRequest
  <2> QED
    BY <1>11, <2>2 DEF Mirror
<1>12. CASE Mark(w) \/ Bind(w)
  <2>1. PICK p \in {"bind", "commit"} : tx' = [tx EXCEPT ![w] = [@ EXCEPT !.pc = p]]
    BY <1>12 DEF Mark, Bind
  <2> DEFINE t == [tx[w] EXCEPT !.pc = p]
  <2>2. /\ t.pc = p /\ t.op = "activate" /\ tx[w].pc \in {"mark", "bind"}
        /\ tx[w].op = "activate" /\ t.e = tx[w].e /\ t.at = tx[w].at
        /\ t.org = tx[w].org
    BY <1>1, <1>12 DEF Mark, Bind, Request, PhaseOfOp
  <2>3. KnownRequest(t)
    BY <1>1, <2>2 DEF KnownRequest
  <2> QED
    BY <2>1, <2>3
<1>13. CASE CheckPassword(w) \/ ChangeUsers(w) \/ ChangeEngineers(w)
  <2>1. PICK p : tx' = [tx EXCEPT ![w] = [@ EXCEPT !.pc = p]]
    BY <1>13 DEF CheckPassword, ChangeUsers, ChangeEngineers
  <2> DEFINE t == [tx[w] EXCEPT !.pc = p]
  <2>2. t.op = "change"
    BY <1>1, <1>13 DEF CheckPassword, ChangeUsers, ChangeEngineers, Request,
       PhaseOfOp
  <2>3. KnownRequest(t)
    BY <2>2 DEF KnownRequest
  <2> QED
    BY <2>1, <2>3
<1>14. CASE Fail(w)
  BY <1>14, KnownIdle DEF Fail
<1> QED
  BY <1>5, <1>6, <1>7, <1>8, <1>9, <1>10, <1>11, <1>12, <1>13, <1>14

\* A commit approves the PC that was approved already.
LEMMA KnownActivationCommits ==
  ASSUME LicenceInv, KnownInv, NEW w \in Workers, CommitActivation(w)
  PROVE  KnownInv'
<1> DEFINE t == tx[w]
<1>1. /\ t \in Request /\ KnownRequest(t) /\ t.pc = "commit"
      /\ t.op = "activate" /\ t.e \in Engineers /\ eng[t.e] \in Engineer
      /\ TypeOK
  BY DEF LicenceInv, TypeOK, KnownInv, CommitActivation
<1>2. org' = org
  BY DEF CommitActivation, Bound, KnownInv
<1>3. RequireDevice => t.at \in {NoPC, Approved(eng[t.e], org)}
  BY <1>1 DEF KnownRequest
<1>4. ASSUME NEW e \in Engineers, RequireDevice
      PROVE  Approved(eng'[e], org') = Approved(eng[e], org)
  <2>1. CASE e # t.e
    BY <1>1, <1>2, <2>1 DEF CommitActivation, TypeOK
  <2>2. CASE e = t.e
    <3>1. eng'[e].dev = IF t.at = NoPC THEN eng[e].dev ELSE t.at
      BY <1>1, <2>2 DEF CommitActivation, TypeOK, Engineer
    <3> QED
      BY <1>2, <1>3, <1>4, <2>2, <3>1 DEF Approved
  <2> QED
    BY <2>1, <2>2
<1>5. KnownSessions'
  <2>1. \A s \in sessions : s[1] \in Engineers
    BY <1>1 DEF TypeOK
  <2> SUFFICES ASSUME RequireDevice, NEW s \in sessions
               PROVE  s[2] = Approved(eng'[s[1]], org')
    BY DEF KnownSessions, CommitActivation
  <2> QED
    BY <1>4, <2>1 DEF KnownInv, KnownSessions
<1>6. ASSUME NEW v \in Workers PROVE KnownRequest(tx[v])'
  <2>1. CASE tx'[v].pc = "idle"
    BY <2>1 DEF KnownRequest
  <2>2. CASE tx'[v].pc # "idle"
    <3>1. v # w
      BY <2>2, <1>1 DEF CommitActivation, Idle
    <3>2. tx[v] \in Request /\ KnownRequest(tx[v])
      BY <1>1 DEF TypeOK, KnownInv
    <3>3. /\ tx'[v].pc = tx[v].pc /\ tx'[v].op = tx[v].op
          /\ tx'[v].e = tx[v].e /\ tx'[v].at = tx[v].at
          /\ tx'[v].org = tx[v].org
      BY <3>1, <3>2 DEF CommitActivation, Request
    <3>4. tx[v].e \in Engineers
      BY <1>1, <2>2, <3>3 DEF TypeOK
    <3> HIDE DEF t
    <3>5. RequireDevice => Approved(eng'[tx[v].e], org')
                             = Approved(eng[tx[v].e], org)
      BY <1>4, <3>4
    <3> QED
      BY <1>2, <3>2, <3>3, <3>5 DEF KnownRequest
  <2> QED
    BY <2>1, <2>2
<1> QED
  BY <1>2, <1>5, <1>6 DEF KnownInv

\* A sign-in adds a session on the approved PC.
LEMMA KnownLoginCommits ==
  ASSUME LicenceInv, KnownInv, NEW w \in Workers, CommitLogin(w)
  PROVE  KnownInv'
<1>1. /\ TypeOK /\ KnownRequest(tx[w]) /\ tx[w].pc = "commit"
      /\ tx[w].op = "login"
      /\ sessions' = sessions \cup {<<tx[w].e, tx[w].at>>}
      /\ tx' = [tx EXCEPT ![w] = Idle] /\ UNCHANGED <<org, eng>>
  BY DEF LicenceInv, KnownInv, CommitLogin
<1>2. RequireDevice => tx[w].at = Approved(eng[tx[w].e], org)
  BY <1>1 DEF KnownRequest
<1>3. KnownSessions'
  BY <1>1, <1>2 DEF KnownInv, KnownSessions, Approved
<1> QED
  BY <1>1, <1>3, KnownIdle, KnownLocal

\* A change of password does not touch the devices.
LEMMA KnownChangeCommits ==
  ASSUME LicenceInv, KnownInv, NEW w \in Workers, CommitChange(w)
  PROVE  KnownInv'
<1> DEFINE t == tx[w]
<1>1. TypeOK /\ t.e \in Engineers /\ eng[t.e] \in Engineer
  BY DEF LicenceInv, TypeOK, CommitChange
<1>2. org' = org /\ sessions' = sessions
  BY DEF CommitChange
<1>3. \A e \in Engineers : eng'[e].dev = eng[e].dev
  BY <1>1 DEF CommitChange, NewEngineer, TypeOK, Engineer
<1>4. KnownSessions'
  <2>1. \A s \in sessions : s[1] \in Engineers
    BY <1>1 DEF TypeOK
  <2> QED
    BY <1>2, <1>3, <2>1 DEF KnownInv, KnownSessions, Approved
<1>5. ASSUME NEW v \in Workers PROVE KnownRequest(tx[v])'
  <2>1. CASE tx'[v].pc = "idle"
    BY <2>1 DEF KnownRequest
  <2>2. CASE tx'[v].pc # "idle"
    <3>1. v # w
      BY <2>2, <1>1 DEF CommitChange, Idle
    <3>2. tx[v] \in Request /\ KnownRequest(tx[v])
      BY <1>1 DEF TypeOK, KnownInv
    <3>3. /\ tx'[v].pc = tx[v].pc /\ tx'[v].op = tx[v].op
          /\ tx'[v].e = tx[v].e /\ tx'[v].at = tx[v].at
          /\ tx'[v].org = tx[v].org
      BY <3>1, <3>2 DEF CommitChange, Request
    <3>4. eng'[tx[v].e].dev = eng[tx[v].e].dev
      BY <1>1, <1>3, <2>2, <3>3 DEF TypeOK
    <3> QED
      BY <1>2, <3>2, <3>3, <3>4 DEF KnownRequest, Approved
  <2> QED
    BY <2>1, <2>2
<1> QED
  BY <1>2, <1>4, <1>5 DEF KnownInv

\* A new engineer has neither requests past their checks nor sessions.
LEMMA KnownAdminSteps ==
  ASSUME LicenceInv, KnownInv,
         \/ \E e \in Engineers, m \in Machines : AddEngineer(e, m)
         \/ \E s \in sessions : Logout(s)
  PROVE  KnownInv'
<1>1. CASE \E s \in sessions : Logout(s)
  <2>1. sessions' \subseteq sessions /\ UNCHANGED <<org, eng, tx>>
    BY <1>1 DEF Logout
  <2> QED
    BY <2>1 DEF KnownInv, KnownSessions, KnownRequest, Approved
<1>2. CASE \E e \in Engineers, m \in Machines : AddEngineer(e, m)
  <2>1. PICK e \in Engineers, m \in Machines : AddEngineer(e, m)
    BY <1>2
  <2>2. /\ ~eng[e].here /\ UNCHANGED <<org, usr, sessions, tx>>
        /\ \A f \in Engineers \ {e} : eng'[f] = eng[f]
        /\ TypeOK
    BY <2>1 DEF AddEngineer, LicenceInv, TypeOK
  <2>3. \A s \in sessions : s[1] \in Engineers \ {e}
    BY <2>2 DEF TypeOK
  <2>4. KnownSessions'
    BY <2>2, <2>3 DEF KnownInv, KnownSessions, Approved
  <2>5. ASSUME NEW v \in Workers PROVE KnownRequest(tx[v])'
    <3>1. /\ tx[v] \in Request /\ KnownRequest(tx[v]) /\ RequestInv(tx[v])
          /\ tx[v].pc # "idle" => tx[v].e \in Engineers
      BY <2>2 DEF KnownInv, LicenceInv, TypeOK
    <3>2. CASE \/ tx[v].op = "activate" /\ tx[v].pc \in {"mark", "bind", "commit"}
               \/ tx[v].op = "login" /\ tx[v].pc \in {"find", "mirror", "commit"}
      <4>1. eng[tx[v].e].here
        BY <3>1, <3>2 DEF RequestInv, LoginInv, ActivationInv
      <4>2. eng'[tx[v].e] = eng[tx[v].e]
        BY <2>2, <3>1, <3>2, <4>1
      <4> QED
        BY <2>2, <3>1, <4>2 DEF KnownRequest, Approved
    <3>3. CASE ~(\/ tx[v].op = "activate" /\ tx[v].pc \in {"mark", "bind", "commit"}
                 \/ tx[v].op = "login" /\ tx[v].pc \in {"find", "mirror", "commit"})
      BY <2>2, <3>1, <3>3 DEF KnownRequest
    <3> QED
      BY <3>2, <3>3
  <2> QED
    BY <2>2, <2>4, <2>5 DEF KnownInv
<1> QED
  BY <1>1, <1>2

(***************************************************************************)
(* A licence that was created with a device keeps the promise of           *)
(* frontend/app.js, for any number of overlapping requests: the sessions   *)
(* of an engineer come from one PC.  So LockedToOnePC fails only for a     *)
(* licence whose device the first activation binds.                        *)
(***************************************************************************)
THEOREM KnownDeviceLocks == Spec /\ org # NoPC => []LockedToOnePC
<1>1. Init /\ org # NoPC => KnownInv
  <2> SUFFICES ASSUME Init, org # NoPC PROVE KnownInv
    OBVIOUS
  <2> QED
    BY KnownIdle DEF Init, KnownInv, KnownSessions
<1>2. LicenceInv /\ KnownInv /\ [Next]_vars => KnownInv'
  <2> SUFFICES ASSUME LicenceInv, KnownInv, [Next]_vars PROVE KnownInv'
    OBVIOUS
  <2>1. CASE UNCHANGED vars
    BY <2>1 DEF vars, KnownInv, KnownSessions, KnownRequest, Approved
  <2>2. ASSUME NEW w \in Workers, Step(w) PROVE KnownInv'
    BY <2>2, KnownReads, KnownActivationCommits, KnownLoginCommits,
       KnownChangeCommits DEF Step
  <2> QED
    BY <2>1, <2>2, KnownAdminSteps DEF Next
<1>3. KnownInv => LockedToOnePC
  BY DEF KnownInv, KnownSessions, LockedToOnePC
<1> QED
  BY <1>1, <1>2, <1>3, Invariance, PTL DEF Spec

\* Nothing that a request has read was overtaken.
NothingLate == /\ \A w \in Workers : ~tx[w].late
               /\ \A e \in Engineers : ~rebound[e]

LEMMA LateStays ==
  ASSUME NEW t \in Request, ~t.late, NEW q,
         \/ \E p : q = [t EXCEPT !.pc = p]
         \/ \E p, o : q = [t EXCEPT !.pc = p, !.org = o]
         \/ \E p, b : q = [t EXCEPT !.pc = p, !.found = b]
         \/ \E p, x, y : q = [t EXCEPT !.pc = p, !.pw = x, !.must = y]
  PROVE  ~q.late
<1>1. CASE \E p : q = [t EXCEPT !.pc = p]
  BY <1>1 DEF Request
<1>2. CASE \E p, o : q = [t EXCEPT !.pc = p, !.org = o]
  BY <1>2 DEF Request
<1>3. CASE \E p, b : q = [t EXCEPT !.pc = p, !.found = b]
  BY <1>3 DEF Request
<1>4. CASE \E p, x, y : q = [t EXCEPT !.pc = p, !.pw = x, !.must = y]
  BY <1>4 DEF Request
<1> QED
  BY <1>1, <1>2, <1>3, <1>4

(***************************************************************************)
(* A licence keeps the promise as well if its requests are served one at a *)
(* time, whether it starts with a device or not: it takes both, a licence  *)
(* without a device and two requests that overlap, to break it.            *)
(***************************************************************************)
THEOREM OneAtATimeLocks ==
  ASSUME \A v, w \in Workers : v = w
  PROVE  Spec => []LockedToOnePC
<1>1. Init => NothingLate
  BY DEF Init, NothingLate, Idle
<1>2. LicenceInv /\ NothingLate /\ [Next]_vars => NothingLate'
  <2> SUFFICES ASSUME LicenceInv, NothingLate, [Next]_vars
               PROVE  NothingLate'
    OBVIOUS
  <2>1. TypeOK /\ Idle \in Request /\ ~Idle.late
    BY IdleFacts DEF LicenceInv, Idle
  <2>2. CASE UNCHANGED vars
    BY <2>2 DEF vars, NothingLate
  <2>3. ASSUME NEW w \in Workers, Step(w) PROVE NothingLate'
    <3>1. tx[w] \in Request /\ ~tx[w].late /\ \A v \in Workers : v = w
      BY <2>1, <2>3 DEF TypeOK, NothingLate
    <3>2. rebound' = rebound \/ CommitActivation(w)
      BY <2>3 DEF Step, BeginActivation, BeginLogin, BeginChange,
         ReadCustomer, ReadEngineer, Mark, Bind, ReadJoin, FindUser, Mirror,
         CommitLogin, CheckPassword, ChangeUsers, ChangeEngineers,
         CommitChange, Fail
    <3>3. \A e \in Engineers : ~rebound'[e]
      BY <2>1, <3>1, <3>2 DEF CommitActivation, NothingLate, TypeOK
    <3>4. CASE CommitActivation(w) \/ CommitChange(w)
      <4>1. tx'[w] = Idle
        BY <3>4 DEF CommitActivation, CommitChange
      <4> QED
        BY <2>1, <3>1, <3>3, <4>1 DEF NothingLate
    <3>5. CASE ~(CommitActivation(w) \/ CommitChange(w))
      <4>1. ASSUME NEW e \in Engineers, NEW m \in Machines,
                   BeginActivation(w, e, m) \/ BeginLogin(w, e, m)
            PROVE  ~tx'[w].late
        <5>1. PICK p \in {"customer", "join"}, o \in Ops :
                tx' = [tx EXCEPT ![w] = [Idle EXCEPT !.pc = p, !.op = o,
                                                     !.e = e, !.at = m]]
          BY <4>1 DEF BeginActivation, BeginLogin, Ops
        <5>2. tx'[w] = [Idle EXCEPT !.pc = p, !.op = o, !.e = e, !.at = m]
          BY <2>1, <5>1 DEF TypeOK
        <5> QED
          BY <5>2 DEF Idle
      <4>2. ASSUME NEW e \in Engineers, NEW p \in Passwords,
                   BeginChange(w, e, p)
            PROVE  ~tx'[w].late
        <5>1. tx'[w] = [Idle EXCEPT !.pc = "check", !.op = "change",
                                    !.e = e, !.pw = p]
          BY <2>1, <4>2 DEF BeginChange, TypeOK
        <5> QED
          BY <5>1 DEF Idle
      <4>3. CASE ReadCustomer(w) \/ FindUser(w)
        <5>1. \/ \E p, o : tx'[w] = [tx[w] EXCEPT !.pc = p, !.org = o]
              \/ \E p, b : tx'[w] = [tx[w] EXCEPT !.pc = p, !.found = b]
          BY <2>1, <4>3 DEF ReadCustomer, FindUser, TypeOK
        <5>2. ~tx'[w].late
          BY <3>1, <5>1, LateStays
        <5> QED
          BY <3>1, <3>3, <5>2 DEF NothingLate
      <4>4. CASE ReadJoin(w)
        <5>1. \E p, x, y : tx'[w] = [tx[w] EXCEPT !.pc = p, !.pw = x, !.must = y]
          BY <2>1, <4>4 DEF ReadJoin, TypeOK
        <5>2. ~tx'[w].late
          BY <3>1, <5>1, LateStays
        <5> QED
          BY <3>1, <3>3, <5>2 DEF NothingLate
      <4>5. CASE \/ ReadEngineer(w) \/ Mark(w) \/ Bind(w) \/ Mirror(w)
                 \/ CheckPassword(w) \/ ChangeUsers(w) \/ ChangeEngineers(w)
        <5>1. \E p : tx'[w] = [tx[w] EXCEPT !.pc = p]
          BY <2>1, <4>5 DEF ReadEngineer, Mark, Bind, Mirror, CheckPassword,
             ChangeUsers, ChangeEngineers, TypeOK
        <5>2. ~tx'[w].late
          BY <3>1, <5>1, LateStays
        <5> QED
          BY <3>1, <3>3, <5>2 DEF NothingLate
      <4>6. CASE CommitLogin(w) \/ Fail(w)
        BY <2>1, <3>1, <3>3, <4>6 DEF CommitLogin, Fail, TypeOK, NothingLate
      <4> QED
        BY <2>3, <3>1, <3>3, <3>5, <4>1, <4>2, <4>3, <4>4, <4>5, <4>6
           DEF Step, NothingLate
    <3> QED
      BY <3>4, <3>5
  <2>4. CASE \/ \E e \in Engineers, m \in Machines : AddEngineer(e, m)
             \/ \E s \in sessions : Logout(s)
    BY <2>4 DEF AddEngineer, Logout, NothingLate
  <2> QED
    BY <2>2, <2>3, <2>4 DEF Next
<1>3. LicenceInv /\ NothingLate => LockedToOnePC
  <2> SUFFICES ASSUME LicenceInv, NothingLate, RequireDevice,
                      NEW s \in sessions, NEW t \in sessions, s[1] = t[1]
               PROVE  s[2] = t[2]
    BY DEF LockedToOnePC
  <2>1. s[1] \in Engineers
    BY DEF LicenceInv, TypeOK
  <2> QED
    BY <2>1 DEF LicenceInv, SignedInWhereApproved, NothingLate
<1> QED
  BY <1>1, <1>2, <1>3, Invariance, PTL DEF Spec
=============================================================================
