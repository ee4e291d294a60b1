-------------------------- MODULE CaseLedgerProofs --------------------------
(***************************************************************************)
(* Proofs about CaseLedger, for any number of workers, rules and events    *)
(* and for both databases.                                                 *)
(*                                                                         *)
(* TypeOK is not inductive: that the audit trail has no gap depends on the *)
(* rows the open transactions hold.  The invariant IInv adds that at most  *)
(* one transaction holds audit rows, that they follow the committed ones,  *)
(* and that a number which was counted cannot be ahead of them.            *)
(***************************************************************************)
EXTENDS CaseLedger, FiniteSetTheorems, TLAPS

\* how many audit rows a transaction has written when it reaches a statement
Wrote(t) == CASE t.op = "patch"  /\ t.at = 4 -> 1
              [] t.op = "attach" /\ t.at \in {4, 5, 6, 7} -> 1 + t.files
              [] t.op = "attach" /\ t.at = 8 -> 2 + t.files
              [] t.op = "review" /\ t.at = 5 -> 1
              [] OTHER -> 0

Written(w) == Wrote(tx[w])

AuditRows == UNION {[S -> Event] : S \in SUBSET Nat}

Tx == [op : Ops, at : 0..8,
       to : Statuses \cup Verdicts \cup {"keep", "none"},
       rule : Rules \cup {"case"}, locked : BOOLEAN, count : Nat,
       files : 0..MaxFiles, mine : AuditRows]

Typed == /\ status \in Statuses
         /\ audit \in Seq(Event)
         /\ reviews \in [Rules -> Verdicts \cup {"none"}]
         /\ unaudited \in BOOLEAN
         /\ tx \in [Workers -> Tx]

\* an upload that goes on with a file has room for its event
InFiles(t) == t.op = "attach" => /\ t.at <= 3 => t.files = 0
                                 /\ t.at <= 5 => t.files < MaxFiles

InProgram(w) ==
  /\ tx[w].at <= Len(Program(tx[w].op))
  /\ InFiles(tx[w])
  /\ tx[w].at > 0 =>
       /\ tx[w].to \in Targets(tx[w].op)
       /\ tx[w].rule \in IF tx[w].op \in RowOps THEN {"case"} ELSE Rules

\* the uncommitted rows of a transaction follow the committed ones
RowsFollow(w) ==
  tx[w].mine \in [(Len(audit) + 1)..(Len(audit) + Written(w)) -> Event]

OneHolder == \A v, w \in Workers : Written(v) > 0 /\ Written(w) > 0 => v = w

CountBehind(w) ==
  Doing(w, "audit") =>
    /\ tx[w].count <= Len(audit) + Written(w)
    /\ Written(w) > 0 => tx[w].count = Len(audit) + Written(w)

IInv == /\ Typed
        /\ \A w \in Workers : InProgram(w) /\ RowsFollow(w) /\ CountBehind(w)
        /\ OneHolder

-----------------------------------------------------------------------------

Does(t, s) == t.at > 0 /\ Program(t.op)[t.at] = s

\* Where each statement stands in the programs.
LEMMA Statements ==
  ASSUME NEW t \in Tx, t.at <= Len(Program(t.op))
  PROVE  /\ Does(t, "row")    <=> t.at = 1 /\ t.op \in RowOps
         /\ Does(t, "find")   <=> t.at = 1 /\ t.op = "review"
         /\ Does(t, "add")    <=> t.at = 2 /\ t.op = "review"
         /\ Does(t, "erase")  <=> t.at = 1 /\ t.op = "clear"
         /\ Does(t, "count")  <=> \/ t.op = "patch"  /\ t.at = 2
                                  \/ t.op = "attach" /\ t.at \in {2, 4, 6}
                                  \/ t.op = "review" /\ t.at = 3
         /\ Does(t, "audit")  <=> \/ t.op = "patch"  /\ t.at = 3
                                  \/ t.op = "attach" /\ t.at \in {3, 5, 7}
                                  \/ t.op = "review" /\ t.at = 4
         /\ Does(t, "commit") <=> \/ t.op = "patch"  /\ t.at = 4
                                  \/ t.op = "attach" /\ t.at = 8
                                  \/ t.op = "review" /\ t.at = 5
                                  \/ t.op \in {"validate", "report", "clear"}
                                     /\ t.at = 2
  <1>1. t.op \in Ops /\ t.at \in 0..8
    BY DEF Tx
  <1>2. CASE t.op = "patch"
    <2>1. Program(t.op) = <<"row", "count", "audit", "commit">>
      BY <1>2 DEF Program
    <2>2. t.at \in {0, 1, 2, 3, 4}
      BY <1>1, <2>1
    <2>3. \A x : Does(t, x) <=>
                         \/ t.at = 1 /\ x = "row"
                         \/ t.at = 2 /\ x = "count"
                         \/ t.at = 3 /\ x = "audit"
                         \/ t.at = 4 /\ x = "commit"
      BY <2>1, <2>2 DEF Does
    <2> QED BY <1>2, <2>3 DEF RowOps
  <1>3. CASE t.op = "attach"
    <2>1. Program(t.op)
            = <<"row", "count", "audit", "count", "audit",
                "count", "audit", "commit">>
      BY <1>3 DEF Program
    <2>2. t.at \in {0, 1, 2, 3, 4, 5, 6, 7, 8}
      BY <1>1
    <2>3. \A x : Does(t, x) <=>
                         \/ t.at = 1 /\ x = "row"
                         \/ t.at = 2 /\ x = "count"
                         \/ t.at = 3 /\ x = "audit"
                         \/ t.at = 4 /\ x = "count"
                         \/ t.at = 5 /\ x = "audit"
                         \/ t.at = 6 /\ x = "count"
                         \/ t.at = 7 /\ x = "audit"
                         \/ t.at = 8 /\ x = "commit"
      BY <2>1, <2>2 DEF Does
    <2> QED BY <1>3, <2>3 DEF RowOps
  <1>4. CASE t.op \in {"validate", "report"}
    <2>1. Program(t.op) = <<"row", "commit">>
      BY <1>4 DEF Program
    <2>2. t.at \in {0, 1, 2}
      BY <1>1, <2>1
    <2>3. \A x : Does(t, x) <=>
                         \/ t.at = 1 /\ x = "row"
                         \/ t.at = 2 /\ x = "commit"
      BY <2>1, <2>2 DEF Does
    <2> QED BY <1>4, <2>3 DEF RowOps
  <1>5. CASE t.op = "review"
    <2>1. Program(t.op) = <<"find", "add", "count", "audit", "commit">>
      BY <1>5 DEF Program
    <2>2. t.at \in {0, 1, 2, 3, 4, 5}
      BY <1>1, <2>1
    <2>3. \A x : Does(t, x) <=>
                         \/ t.at = 1 /\ x = "find"
                         \/ t.at = 2 /\ x = "add"
                         \/ t.at = 3 /\ x = "count"
                         \/ t.at = 4 /\ x = "audit"
                         \/ t.at = 5 /\ x = "commit"
      BY <2>1, <2>2 DEF Does
    <2> QED BY <1>5, <2>3 DEF RowOps
  <1>6. CASE t.op = "clear"
    <2>1. Program(t.op) = <<"erase", "commit">>
      BY <1>6 DEF Program
    <2>2. t.at \in {0, 1, 2}
      BY <1>1, <2>1
    <2>3. \A x : Does(t, x) <=>
                         \/ t.at = 1 /\ x = "erase"
                         \/ t.at = 2 /\ x = "commit"
      BY <2>1, <2>2 DEF Does
    <2> QED BY <1>6, <2>3 DEF RowOps
  <1> QED BY <1>1, <1>2, <1>3, <1>4, <1>5, <1>6 DEF Ops, RowOps

\* A transaction writes no more than the events of its files and two more.
LEMMA WroteBounded ==
  ASSUME NEW t \in Tx
  PROVE  Wrote(t) \in 0..(MaxFiles + 2) /\ Wrote(t) \in Nat
  <1>1. t.files \in 0..MaxFiles /\ MaxFiles \in Nat
    BY MaxFilesAssumption DEF Tx
  <1>2. \/ Wrote(t) \in {0, 1}
        \/ Wrote(t) = 1 + t.files
        \/ Wrote(t) = 2 + t.files
    BY DEF Wrote
  <1> QED BY <1>1, <1>2

\* The number of committed events is the length of the trail, and a
\* transaction's own rows are as many as the statements that wrote them.
LEMMA Counted ==
  ASSUME Typed, NEW w \in Workers, RowsFollow(w)
  PROVE  /\ Len(audit) \in Nat /\ DOMAIN audit = 1..Len(audit)
         /\ Cardinality(DOMAIN audit) = Len(audit)
         /\ Written(w) \in 0..(MaxFiles + 2)
         /\ DOMAIN tx[w].mine = (Len(audit) + 1)..(Len(audit) + Written(w))
         /\ Cardinality(DOMAIN tx[w].mine) = Written(w)
  <1>1. Len(audit) \in Nat /\ DOMAIN audit = 1..Len(audit)
    BY DEF Typed
  <1>2. Written(w) \in 0..(MaxFiles + 2)
    BY WroteBounded DEF Typed, Written
  <1>3. DOMAIN tx[w].mine = (Len(audit) + 1)..(Len(audit) + Written(w))
    BY DEF RowsFollow
  <1>4. ASSUME NEW a \in Nat, NEW n \in Nat
        PROVE  Cardinality((a + 1)..(a + n)) = n
    BY FS_Interval
  <1>5. ASSUME NEW n \in Nat
        PROVE  Cardinality(1..n) = n
    BY FS_Interval
  <1> QED BY <1>1, <1>2, <1>3, <1>4, <1>5

-----------------------------------------------------------------------------

LEMMA NothingWritten == << >> \in [{} -> Event]
  OBVIOUS

LEMMA IntervalRows ==
  ASSUME NEW a \in Nat, NEW b \in Nat, NEW f \in [a..b -> Event]
  PROVE  f \in AuditRows
  <1>1. a..b \in SUBSET Nat
    OBVIOUS
  <1> QED BY <1>1 DEF AuditRows

LEMMA IdleTyped == Idle \in Tx
  <1>1. 1..0 = {}
    OBVIOUS
  <1>2. << >> \in [1..0 -> Event]
    BY <1>1, NothingWritten
  <1>3. << >> \in AuditRows
    BY <1>2, IntervalRows
  <1> QED BY <1>3, MaxFilesAssumption DEF Idle, Tx, Ops

\* The trail of a new case.
LEMMA FirstTrail ==
  ASSUME Init
  PROVE  /\ audit \in Seq(Event) /\ Len(audit) \in 1..(MaxFiles + 2)
         /\ 1 \in DOMAIN audit /\ audit[1] = FirstEvent(status)
         /\ \A j \in DOMAIN audit : j > 1 => audit[j] \in {FileEvent, LayoutEvent}
  <1>1. \A x \in {"draft", "in_review"} : FirstEvent(x) \in Event
    BY DEF FirstEvent, Event, Kinds, Statuses
  <1>2. LayoutEvent \in Event /\ FileEvent \in Event
    BY DEF LayoutEvent, FileEvent, Event, Kinds
  <1>3. MaxFiles \in Nat /\ MaxFiles >= 1
    BY MaxFilesAssumption
  <1>4. CASE status = "draft" /\ audit = <<FirstEvent(status)>>
    <2>1. DOMAIN audit = {1} /\ audit[1] = FirstEvent(status) /\ Len(audit) = 1
      BY <1>4
    <2>2. audit \in Seq(Event)
      BY <1>1, <1>4
    <2> QED BY <1>3, <2>1, <2>2
  <1>5. ASSUME status = "in_review", NEW n \in 1..MaxFiles, audit = UploadTrail(n)
        PROVE  /\ audit \in Seq(Event) /\ Len(audit) \in 1..(MaxFiles + 2)
               /\ 1 \in DOMAIN audit /\ audit[1] = FirstEvent(status)
               /\ \A j \in DOMAIN audit :
                    j > 1 => audit[j] \in {FileEvent, LayoutEvent}
    <2>1. n + 2 \in Nat /\ n + 2 \in 1..(MaxFiles + 2)
      BY <1>3, <1>5
    <2>2. audit = [i \in 1..(n + 2) |-> CASE i = 1     -> FirstEvent("in_review")
                                          [] i = n + 2 -> LayoutEvent
                                          [] OTHER     -> FileEvent]
      BY <1>5 DEF UploadTrail
    <2>3. audit \in [1..(n + 2) -> Event]
      BY <1>1, <1>2, <2>2
    <2>4. audit \in Seq(Event) /\ Len(audit) = n + 2
      <3>1. ASSUME NEW k \in Nat, NEW f \in [1..k -> Event]
            PROVE  f \in Seq(Event) /\ Len(f) = k
        OBVIOUS
      <3> QED BY <2>1, <2>3, <3>1
    <2>5. 1 \in 1..(n + 2) /\ DOMAIN audit = 1..(n + 2)
      BY <2>1, <2>2
    <2>6. audit[1] = FirstEvent(status)
      BY <1>5, <2>2, <2>5
    <2>7. \A j \in 1..(n + 2) : j > 1 => audit[j] \in {FileEvent, LayoutEvent}
      BY <2>1, <2>2
    <2> QED BY <2>1, <2>4, <2>5, <2>6, <2>7
  <1> QED BY <1>4, <1>5 DEF Init

LEMMA InitHolds == Init => IInv
  <1> SUFFICES ASSUME Init PROVE IInv
    OBVIOUS
  <1>3. audit \in Seq(Event) /\ status \in Statuses
    BY FirstTrail DEF Init, Statuses
  <1>4. Idle \in Tx
    BY IdleTyped
  <1>5. Typed
    BY <1>3, <1>4 DEF Init, Typed
  <1>6. \A w \in Workers : tx[w] = Idle
    BY DEF Init
  <1>7. \A w \in Workers : Written(w) = 0 /\ tx[w].at = 0 /\ tx[w].mine = << >>
    BY <1>6 DEF Written, Wrote, Idle
  <1>8. ASSUME NEW w \in Workers
        PROVE  InProgram(w) /\ RowsFollow(w) /\ CountBehind(w)
    <2>1. InProgram(w)
      BY <1>6, <1>7 DEF InProgram, InFiles, Idle, Program
    <2>2. RowsFollow(w)
      <3>1. Len(audit) \in Nat
        BY <1>3
      <3>2. (Len(audit) + 1)..(Len(audit) + 0) = {}
        BY <3>1
      <3> QED BY <1>4, <1>7, <3>2, NothingWritten DEF RowsFollow
    <2>3. CountBehind(w)
      BY <1>7 DEF CountBehind, Doing
    <2> QED BY <2>1, <2>2, <2>3
  <1> QED BY <1>5, <1>7, <1>8 DEF IInv, OneHolder

\* What a step of one worker that commits nothing has to keep.
LEMMA LocalStep ==
  ASSUME IInv, NEW w \in Workers,
         Typed', audit' = audit,
         \A v \in Workers \ {w} : tx'[v] = tx[v],
         InProgram(w)', RowsFollow(w)', CountBehind(w)',
         Written(w)' > 0 => \A v \in Workers \ {w} : Written(v) = 0
  PROVE  IInv'
  <1>1. ASSUME NEW v \in Workers \ {w}
        PROVE  /\ InProgram(v)' /\ RowsFollow(v)' /\ CountBehind(v)'
               /\ Written(v)' = Written(v)
    <2>1. tx'[v] = tx[v] /\ audit' = audit
      OBVIOUS
    <2>2. InProgram(v) /\ RowsFollow(v) /\ CountBehind(v)
      BY DEF IInv
    <2>3. Written(v)' = Written(v)
      BY <2>1 DEF Written, Wrote
    <2>4. InProgram(v)'
      BY <2>1, <2>2 DEF InProgram
    <2>5. RowsFollow(v)'
      BY <2>1, <2>2, <2>3 DEF RowsFollow
    <2>6. CountBehind(v)'
      BY <2>1, <2>2, <2>3 DEF CountBehind, Doing
    <2> QED BY <2>3, <2>4, <2>5, <2>6
  <1>2. OneHolder'
    <2> SUFFICES ASSUME NEW u \in Workers, NEW v \in Workers,
                        Written(u)' > 0, Written(v)' > 0
                 PROVE  u = v
      BY DEF OneHolder
    <2>1. CASE u # w /\ v # w
      BY <2>1, <1>1 DEF IInv, OneHolder
    <2>2. CASE u = w /\ v # w
      BY <2>2, <1>1
    <2>3. CASE u # w /\ v = w
      BY <2>3, <1>1
    <2> QED BY <2>1, <2>2, <2>3
  <1> QED BY <1>1, <1>2 DEF IInv

\* A worker that becomes idle or starts an operation holds nothing.
LEMMA FreshStep ==
  ASSUME IInv, NEW w \in Workers,
         UNCHANGED <<status, audit, reviews, unaudited>>,
         NEW r \in Tx, tx' = [tx EXCEPT ![w] = r],
         r.at \in {0, 1}, r.mine = << >>,
         InProgram(w)'
  PROVE  IInv'
  <1>1. tx'[w] = r /\ \A v \in Workers \ {w} : tx'[v] = tx[v]
    BY DEF IInv, Typed
  <1>2. Typed'
    BY DEF IInv, Typed
  <1>3. Written(w)' = 0
    BY <1>1 DEF Written, Wrote
  <1>4. RowsFollow(w)'
    <2>1. Len(audit) \in Nat
      BY DEF IInv, Typed
    <2>2. (Len(audit) + 1)..(Len(audit) + 0) = {}
      BY <2>1
    <2> QED BY <1>1, <1>3, <2>2, NothingWritten DEF RowsFollow
  <1>5. CountBehind(w)'
    <2>1. r.at <= Len(Program(r.op))
      BY <1>1 DEF InProgram
    <2>2. ~Does(r, "audit")
      BY <2>1, Statements
    <2> QED BY <1>1, <2>2 DEF CountBehind, Doing, Does
  <1> QED BY <1>1, <1>2, <1>3, <1>4, <1>5, LocalStep

\* A worker that goes on to its next statement without writing an audit row.
LEMMA NextStatement ==
  ASSUME IInv, NEW w \in Workers,
         UNCHANGED <<status, audit, reviews, unaudited>>,
         NEW r \in Tx, tx' = [tx EXCEPT ![w] = r],
         tx[w].at > 0, r.op = tx[w].op, r.to = tx[w].to,
         r.rule = tx[w].rule, r.mine = tx[w].mine,
         r.at <= Len(Program(r.op)), InFiles(r), Wrote(r) = Wrote(tx[w]),
         Does(r, "audit") => r.count = Len(audit) + Wrote(r)
  PROVE  IInv'
  <1>1. tx'[w] = r /\ \A v \in Workers \ {w} : tx'[v] = tx[v]
    BY DEF IInv, Typed
  <1>2. Typed'
    BY DEF IInv, Typed
  <1>3. Written(w)' = Written(w)
    BY <1>1 DEF Written
  <1>4. InProgram(w)'
    BY <1>1 DEF IInv, InProgram
  <1>5. RowsFollow(w)'
    BY <1>1, <1>3 DEF IInv, RowsFollow
  <1>6. CountBehind(w)'
    <2>1. Len(audit) + Wrote(r) <= Len(audit) + Wrote(r)
      <3>1. Len(audit) \in Nat /\ Wrote(r) \in Nat
        BY WroteBounded DEF IInv, Typed
      <3> QED BY <3>1
    <2> QED BY <1>1, <2>1 DEF CountBehind, Doing, Does, Written
  <1>7. Written(w)' > 0 => \A v \in Workers \ {w} : Written(v) = 0
    <2>1. \A v \in Workers : Written(v) \in Nat
      BY WroteBounded DEF IInv, Typed, Written
    <2> QED BY <1>3, <2>1 DEF IInv, OneHolder
  <1> QED BY <1>1, <1>2, <1>4, <1>5, <1>6, <1>7, LocalStep

-----------------------------------------------------------------------------

LEMMA StartTyped ==
  ASSUME NEW x \in Tx, NEW op \in Ops, NEW k \in Rules \cup {"case"},
         NEW to \in Statuses \cup Verdicts \cup {"keep", "none"}
  PROVE  [x EXCEPT !.op = op, !.at = 1, !.to = to, !.rule = k] \in Tx
  <1>1. ASSUME NEW n \in 0..8
        PROVE  [x EXCEPT !.op = op, !.at = n, !.to = to, !.rule = k] \in Tx
    BY DEF Tx
  <1> QED BY <1>1

LEMMA BeginStep ==
  ASSUME IInv, NEW w \in Workers, Begin(w)
  PROVE  IInv'
  <1>a. PICK op \in Ops : \E to \in Targets(op) :
          \E k \in IF op \in RowOps THEN {"case"} ELSE Rules :
            tx' = [tx EXCEPT ![w] = [Idle EXCEPT !.op = op, !.at = 1,
                                                 !.to = to, !.rule = k]]
    BY DEF Begin
  <1>b. PICK to \in Targets(op) :
          \E k \in IF op \in RowOps THEN {"case"} ELSE Rules :
            tx' = [tx EXCEPT ![w] = [Idle EXCEPT !.op = op, !.at = 1,
                                                 !.to = to, !.rule = k]]
    BY <1>a
  <1>1. PICK k \in IF op \in RowOps THEN {"case"} ELSE Rules :
          tx' = [tx EXCEPT ![w] = [Idle EXCEPT !.op = op, !.at = 1,
                                               !.to = to, !.rule = k]]
    BY <1>b
  <1> DEFINE r == [Idle EXCEPT !.op = op, !.at = 1, !.to = to, !.rule = k]
  <1>2. /\ r.op = op /\ r.at = 1 /\ r.to = to /\ r.rule = k /\ r.mine = << >>
        /\ r.files = 0
    BY DEF Idle
  <1>3. r \in Tx
    <2>1. to \in Statuses \cup Verdicts \cup {"keep", "none"}
      BY PatchAssumption DEF Targets, Ops, RowOps, Statuses
    <2>2. k \in Rules \cup {"case"}
      OBVIOUS
    <2> QED BY <2>1, <2>2, IdleTyped, StartTyped
  <1>4. tx'[w] = r
    BY <1>1 DEF IInv, Typed
  <1>5. Len(Program(op)) >= 1
    BY DEF Program, Ops, RowOps
  <1>6. InProgram(w)'
    BY <1>2, <1>4, <1>5, MaxFilesAssumption DEF InProgram, InFiles
  <1>7. UNCHANGED <<status, audit, reviews, unaudited>>
    BY DEF Begin
  <1> HIDE DEF r
  <1> QED BY <1>1, <1>2, <1>3, <1>6, <1>7, FreshStep DEF r

\* Refuse and Fail: the transaction is rolled back.
LEMMA RollbackStep ==
  ASSUME IInv, NEW w \in Workers, Refuse(w) \/ Fail(w)
  PROVE  IInv'
  <1>1. /\ tx' = [tx EXCEPT ![w] = Idle]
        /\ UNCHANGED <<status, audit, reviews, unaudited>>
    BY DEF Refuse, Fail
  <1>2. Idle.at = 0 /\ Idle.mine = << >> /\ Idle.op = "clear"
    BY DEF Idle
  <1>3. tx'[w] = Idle
    BY <1>1 DEF IInv, Typed
  <1>4. InProgram(w)'
    BY <1>2, <1>3 DEF InProgram, InFiles, Program
  <1> QED BY <1>1, <1>2, <1>4, IdleTyped, FreshStep

\* r is the transaction x at its statement n
Moved(r, x, n) == /\ r \in Tx /\ r.at = n
                  /\ r.op = x.op /\ r.to = x.to /\ r.rule = x.rule
                  /\ r.files = x.files /\ r.mine = x.mine

LEMMA Moves ==
  ASSUME NEW x \in Tx, NEW n \in 0..8, NEW c \in Nat
  PROVE  /\ Moved([x EXCEPT !.at = n], x, n)
         /\ Moved([x EXCEPT !.at = n, !.locked = TRUE], x, n)
         /\ Moved([x EXCEPT !.at = n, !.count = c], x, n)
         /\ [x EXCEPT !.at = n, !.count = c].count = c
  BY DEF Moved, Tx

\* The statements before the audit: none writes an audit row or reaches one
\* without a count.
LEMMA StatementStep ==
  ASSUME IInv, NEW w \in Workers,
         UpdateRow(w) \/ FindReview(w) \/ AddReview(w) \/ EraseReview(w)
  PROVE  IInv'
  <1> DEFINE t == tx[w]
  <1>1. t \in Tx /\ t.at <= Len(Program(t.op))
    BY DEF IInv, Typed, InProgram
  <1>2. t.op \in Ops /\ t.at \in 0..8
    BY <1>1 DEF Tx
  <1>3. UNCHANGED <<status, audit, reviews, unaudited>>
    BY DEF UpdateRow, FindReview, AddReview, EraseReview
  <1>4. \E n \in 0..8 :
          /\ \/ tx' = [tx EXCEPT ![w] = [t EXCEPT !.at = n]]
             \/ tx' = [tx EXCEPT ![w] = [t EXCEPT !.at = n, !.locked = TRUE]]
          /\ \/ t.op = "review" /\ t.at \in {1, 2} /\ n \in {2, 3}
             \/ t.op \in RowOps \cup {"clear"} /\ t.at = 1 /\ n = 2
    <2>1. CASE UpdateRow(w)
      <3>1. t.at = 1 /\ t.op \in RowOps
        BY <1>1, <2>1, Statements DEF UpdateRow, Doing, Does
      <3>2. tx' = [tx EXCEPT ![w] = [t EXCEPT !.at = t.at + 1, !.locked = TRUE]]
        BY <2>1 DEF UpdateRow
      <3>3. t.at + 1 \in 0..8 /\ t.at + 2 \in 0..8
        BY <3>1
      <3> QED BY <3>1, <3>2, <3>3
    <2>2. CASE FindReview(w)
      <3>1. t.at = 1 /\ t.op = "review"
        BY <1>1, <2>2, Statements DEF FindReview, Doing, Does
      <3>2. \/ tx' = [tx EXCEPT ![w] = [t EXCEPT !.at = t.at + 2, !.locked = TRUE]]
            \/ tx' = [tx EXCEPT ![w] = [t EXCEPT !.at = t.at + 1]]
        BY <2>2 DEF FindReview
      <3>3. t.at + 1 \in 0..8 /\ t.at + 2 \in 0..8
        BY <3>1
      <3> QED BY <3>1, <3>2, <3>3
    <2>3. CASE AddReview(w)
      <3>1. t.at = 2 /\ t.op = "review"
        BY <1>1, <2>3, Statements DEF AddReview, Doing, Does
      <3>2. tx' = [tx EXCEPT ![w] = [t EXCEPT !.at = t.at + 1, !.locked = TRUE]]
        BY <2>3 DEF AddReview
      <3>3. t.at + 1 \in 0..8
        BY <3>1
      <3> QED BY <3>1, <3>2, <3>3
    <2>4. CASE EraseReview(w)
      <3>1. t.at = 1 /\ t.op = "clear"
        BY <1>1, <2>4, Statements DEF EraseReview, Doing, Does
      <3>2. \/ tx' = [tx EXCEPT ![w] = [t EXCEPT !.at = t.at + 1, !.locked = TRUE]]
            \/ tx' = [tx EXCEPT ![w] = [t EXCEPT !.at = t.at + 1]]
        BY <2>4 DEF EraseReview
      <3>3. t.at + 1 \in 0..8 /\ t.at + 2 \in 0..8
        BY <3>1
      <3> QED BY <3>1, <3>2, <3>3
    <2> QED BY <2>1, <2>2, <2>3, <2>4
  <1>5. PICK n \in 0..8 :
          /\ \/ tx' = [tx EXCEPT ![w] = [t EXCEPT !.at = n]]
             \/ tx' = [tx EXCEPT ![w] = [t EXCEPT !.at = n, !.locked = TRUE]]
          /\ \/ t.op = "review" /\ t.at \in {1, 2} /\ n \in {2, 3}
             \/ t.op \in RowOps \cup {"clear"} /\ t.at = 1 /\ n = 2
    BY <1>4
  <1>6. /\ Moved([t EXCEPT !.at = n], t, n)
        /\ Moved([t EXCEPT !.at = n, !.locked = TRUE], t, n)
    BY <1>1, Moves
  <1>8. InFiles(t)
    BY DEF IInv, InProgram
  <1> HIDE DEF t
  <1>7. ASSUME NEW r, Moved(r, t, n), tx' = [tx EXCEPT ![w] = r]
        PROVE  IInv'
    <2>1. r \in Tx /\ r.op = t.op /\ r.at = n /\ r.files = t.files
      BY <1>7 DEF Moved
    <2>2. r.at <= Len(Program(r.op))
      BY <1>5, <2>1 DEF Program, RowOps
    <2>3. Wrote(r) = Wrote(t) /\ ~Does(r, "audit")
      BY <1>5, <2>1, <2>2, Statements DEF Wrote, RowOps
    <2>4. tx[w].at > 0
      BY <1>5 DEF t
    <2>6. InFiles(r)
      BY <1>5, <1>8, <2>1 DEF InFiles, RowOps
    <2>5. /\ r.op = tx[w].op /\ r.to = tx[w].to /\ r.rule = tx[w].rule
          /\ r.mine = tx[w].mine /\ Wrote(r) = Wrote(tx[w])
      BY <1>7, <2>3 DEF t, Moved
    <2> QED BY <1>3, <1>7, <2>1, <2>2, <2>3, <2>4, <2>5, <2>6, NextStatement
  <1> QED BY <1>5, <1>6, <1>7

LEMMA CountStep ==
  ASSUME IInv, NEW w \in Workers, Count(w)
  PROVE  IInv'
  <1> DEFINE t == tx[w]
             c == Cardinality(DOMAIN audit) + Cardinality(DOMAIN t.mine)
             r == [t EXCEPT !.at = t.at + 1, !.count = c]
  <1>1. t \in Tx /\ t.at <= Len(Program(t.op)) /\ RowsFollow(w) /\ Typed
    BY DEF IInv, Typed, InProgram
  <1>2. \/ t.op = "patch"  /\ t.at = 2
        \/ t.op = "attach" /\ t.at \in {2, 4, 6}
        \/ t.op = "review" /\ t.at = 3
    BY <1>1, Statements DEF Count, Doing, Does
  <1>3. t.at + 1 \in 0..8
    BY <1>2
  <1>4. c = Len(audit) + Wrote(t) /\ c \in Nat
    BY <1>1, Counted DEF Written
  <1>5. /\ tx' = [tx EXCEPT ![w] = r]
        /\ UNCHANGED <<status, audit, reviews, unaudited>>
    BY DEF Count
  <1>6. Moved(r, t, t.at + 1) /\ r.count = c
    <2>1. ASSUME NEW n \in 0..8, NEW d \in Nat
          PROVE  /\ Moved([t EXCEPT !.at = n, !.count = d], t, n)
                 /\ [t EXCEPT !.at = n, !.count = d].count = d
      BY <1>1, Moves
    <2> HIDE DEF c
    <2> QED BY <1>3, <1>4, <2>1
  <1> HIDE DEF c, r
  <1>7. r \in Tx /\ r.op = t.op /\ r.at = t.at + 1 /\ r.files = t.files
    BY <1>6 DEF Moved
  <1>8. r.at <= Len(Program(r.op))
    BY <1>2, <1>7 DEF Program
  <1>9. Wrote(r) = Wrote(t)
    BY <1>2, <1>7 DEF Wrote
  <1>10. /\ r.to = t.to /\ r.rule = t.rule /\ r.mine = t.mine /\ t.at > 0
    BY <1>2, <1>6 DEF Moved
  <1>11. InFiles(r)
    <2>1. InFiles(t)
      BY DEF IInv, InProgram
    <2> HIDE DEF t
    <2> QED BY <1>2, <1>7, <2>1 DEF InFiles
  <1> QED BY <1>4, <1>5, <1>6, <1>7, <1>8, <1>9, <1>10, <1>11, NextStatement

LEMMA EventTyped ==
  ASSUME NEW w \in Workers, Typed, InProgram(w),
         \/ tx[w].op \in {"patch", "attach"}
         \/ tx[w].op = "review",
         tx[w].at > 0
  PROVE  NextEvent(w) \in Event
  <1> DEFINE t == tx[w]
  <1>1. t \in Tx
    BY DEF Typed
  <1>2. t.to \in Targets(t.op) /\ t.rule \in Rules \cup {"case"}
    BY <1>1 DEF InProgram, Tx
  <1>3. t.to \in Statuses \cup Verdicts \cup {"keep"}
    BY <1>2, PatchAssumption DEF Targets, Statuses
  <1>4. (IF t.to = "keep" THEN "none" ELSE t.to)
           \in Statuses \cup Verdicts \cup {"none"}
    BY <1>3
  <1>5. LayoutEvent \in Event /\ FileEvent \in Event
    BY DEF LayoutEvent, FileEvent, Event, Kinds
  <1>6. (CASE t.op = "patch" -> "submission_updated"
           [] t.op = "attach" -> "files_attached"
           [] OTHER -> "rule_reviewed") \in Kinds
    BY DEF Kinds
  <1> QED BY <1>2, <1>4, <1>5, <1>6 DEF NextEvent, Event

\* An event that is inserted follows all events of the case, and the worker
\* is the only one that holds audit rows.
LEMMA AuditFollows ==
  ASSUME IInv, NEW w \in Workers, Doing(w, "audit"),
         ~Collides(w), ~WaitsForId(w)
  PROVE  /\ tx[w].count = Len(audit) + Written(w)
         /\ \A v \in Workers \ {w} : Written(v) = 0
  <1>1. Typed /\ RowsFollow(w) /\ CountBehind(w)
    BY DEF IInv
  <1>2. /\ Len(audit) \in Nat /\ Written(w) \in 0..(MaxFiles + 2)
        /\ DOMAIN audit = 1..Len(audit)
    BY <1>1, Counted
  <1>3. tx[w].count \in Nat
    BY <1>1 DEF Typed, Tx
  <1>4. tx[w].count = Len(audit) + Written(w)
    <2>1. tx[w].count + 1 \notin 1..Len(audit)
      BY <1>2 DEF Collides, Id
    <2> QED BY <1>1, <1>2, <1>3, <2>1 DEF CountBehind
  <1>5. ASSUME NEW v \in Workers \ {w}, Written(v) # 0
        PROVE  FALSE
    <2>1. /\ DOMAIN tx[v].mine = (Len(audit) + 1)..(Len(audit) + Written(v))
          /\ Written(v) \in 0..(MaxFiles + 2)
      BY <1>1, Counted DEF IInv
    <2>2. CASE Written(w) = 0
      <3>1. Id(w) \in DOMAIN tx[v].mine
        BY <1>2, <1>4, <1>5, <2>1, <2>2 DEF Id
      <3> QED BY <3>1 DEF WaitsForId
    <2>3. CASE Written(w) > 0
      BY <1>5, <2>1, <2>3 DEF IInv, OneHolder
    <2> QED BY <1>2, <2>2, <2>3
  <1> QED BY <1>4, <1>5

\* The rows of the worker when it has inserted its next event.
LEMMA AddedRow ==
  ASSUME NEW w \in Workers, NEW a \in Nat, NEW k \in Nat,
         tx[w].mine \in [(a + 1)..(a + k) -> Event],
         NextEvent(w) \in Event, tx[w].count = a + k
  PROVE  AddEvent(w) \in [(a + 1)..(a + (k + 1)) -> Event]
  <1>1. DOMAIN tx[w].mine \cup {Id(w)} = (a + 1)..(a + (k + 1))
    <2>1. DOMAIN tx[w].mine = (a + 1)..(a + k) /\ Id(w) = a + k + 1
      BY DEF Id
    <2>2. (a + 1)..(a + k) \cup {a + k + 1} = (a + 1)..(a + (k + 1))
      OBVIOUS
    <2> QED BY <2>1, <2>2
  <1>2. \A i \in DOMAIN tx[w].mine : tx[w].mine[i] \in Event
    OBVIOUS
  <1>3. AddEvent(w) = [i \in (a + 1)..(a + (k + 1)) |->
                         IF i = Id(w) THEN NextEvent(w) ELSE tx[w].mine[i]]
    BY <1>1 DEF AddEvent
  <1>4. ASSUME NEW i \in (a + 1)..(a + (k + 1))
        PROVE  (IF i = Id(w) THEN NextEvent(w) ELSE tx[w].mine[i]) \in Event
    BY <1>1, <1>2
  <1> QED BY <1>3, <1>4

\* r is the transaction t after an event: its rows are m, and it counts again
\* or commits.
Continues(t, m, r) ==
  /\ r \in Tx /\ r.op = t.op /\ r.to = t.to /\ r.rule = t.rule
  /\ r.locked = t.locked /\ r.mine = m
  /\ r.at \in 3..8 /\ r.at <= Len(Program(r.op)) /\ InFiles(r)
  /\ Wrote(r) = Wrote(t) + 1 /\ ~Does(r, "audit")

LEMMA Recorded ==
  ASSUME NEW t \in Tx, t.at <= Len(Program(t.op)), Does(t, "audit"),
         InFiles(t), NEW x \in AfterEvent(t), NEW m \in AuditRows
  PROVE  Continues(t, m, [x EXCEPT !.mine = m])
  <1> DEFINE r == [x EXCEPT !.mine = m]
  <1>1. \/ t.op = "patch"  /\ t.at = 3
        \/ t.op = "attach" /\ t.at \in {3, 5, 7}
        \/ t.op = "review" /\ t.at = 4
    BY Statements
  <1>2. t.files \in 0..MaxFiles /\ MaxFiles \in Nat \ {0}
    BY MaxFilesAssumption DEF Tx
  <1>3. CASE t.op = "attach" /\ t.at = 5
    <2>1. PICK n \in {6} \cup (IF t.files + 1 < MaxFiles THEN {4} ELSE {}) :
            x = [t EXCEPT !.at = n, !.files = t.files + 1]
      BY <1>3 DEF AfterEvent
    <2> DEFINE f == t.files + 1
    <2>2. n \in {4, 6} /\ f \in 0..MaxFiles
      BY <1>2, <2>1, <1>3 DEF InFiles
    <2> HIDE DEF f
    <2>9. f = t.files + 1
      BY DEF f
    <2>3. /\ r \in Tx /\ r.op = t.op /\ r.to = t.to /\ r.rule = t.rule
          /\ r.locked = t.locked /\ r.mine = m /\ r.at = n /\ r.files = f
      <3>1. x = [t EXCEPT !.at = n, !.files = f] /\ n \in 0..8
        BY <2>1, <2>2 DEF f
      <3> QED BY <2>2, <3>1 DEF Tx
    <2> HIDE DEF r
    <2>4. Len(Program(r.op)) = 8
      BY <1>3, <2>3 DEF Program
    <2>5. Wrote(t) = 1 + t.files /\ Wrote(r) = 1 + f
      <3>1. Wrote(t) = 1 + t.files
        BY <1>3 DEF Wrote
      <3>2. r.op = "attach" /\ r.at \in {4, 6} /\ r.files = f
        BY <1>3, <2>2, <2>3
      <3> QED BY <3>1, <3>2 DEF Wrote
    <2>6. ~Does(r, "audit")
      <3>1. r \in Tx /\ r.at <= Len(Program(r.op)) /\ r.at \notin {3, 5, 7}
        BY <2>2, <2>3, <2>4
      <3> QED BY <1>3, <2>3, <3>1, Statements
    <2>7. Wrote(r) = Wrote(t) + 1
      BY <1>2, <2>5, <2>9
    <2>8. InFiles(r)
      <3>1. n = 4 => f < MaxFiles
        <4>1. n = 4 => t.files + 1 < MaxFiles
          BY <2>1
        <4> QED BY <4>1, <2>9
      <3>2. r.at = n /\ r.files = f /\ n \in {4, 6}
        BY <2>2, <2>3
      <3> QED BY <3>1, <3>2 DEF InFiles
    <2>10. r.at \in 3..8 /\ r.at <= Len(Program(r.op))
      BY <2>2, <2>3, <2>4
    <2>11. Continues(t, m, r)
      BY <2>3, <2>6, <2>7, <2>8, <2>10 DEF Continues
    <2> QED BY <2>11 DEF r
  <1>4. CASE ~(t.op = "attach" /\ t.at = 5)
    <2>1. x = [t EXCEPT !.at = t.at + 1]
      BY <1>4 DEF AfterEvent
    <2> DEFINE n == t.at + 1
    <2>2. n \in 0..8 /\ n = t.at + 1 /\ n \in 3..8
      BY <1>1
    <2> HIDE DEF n
    <2>3. /\ r \in Tx /\ r.op = t.op /\ r.to = t.to /\ r.rule = t.rule
          /\ r.locked = t.locked /\ r.mine = m /\ r.at = n /\ r.files = t.files
      <3>1. x = [t EXCEPT !.at = n]
        BY <2>1 DEF n
      <3> QED BY <2>2, <3>1 DEF Tx
    <2> HIDE DEF r
    <2>4. r.at <= Len(Program(r.op))
      BY <1>1, <2>2, <2>3 DEF Program
    <2>5. Wrote(r) = Wrote(t) + 1
      <3>1. CASE t.op = "attach" /\ t.at = 3 /\ t.files = 0
        BY <3>1, <2>2, <2>3 DEF Wrote
      <3>2. CASE t.op = "attach" /\ t.at = 7
        BY <1>2, <3>2, <2>2, <2>3 DEF Wrote
      <3>4. t.op = "attach" /\ t.at = 3 => t.files = 0
        BY DEF InFiles
      <3>3. CASE t.op # "attach"
        BY <1>1, <3>3, <2>2, <2>3 DEF Wrote
      <3> QED BY <1>1, <1>4, <3>1, <3>2, <3>3, <3>4
    <2>6. ~Does(r, "audit")
      <3>1. r \in Tx /\ r.at = t.at + 1 /\ r.op = t.op
        BY <2>2, <2>3
      <3>2. \/ r.op = "patch"  /\ r.at = 4
            \/ r.op = "attach" /\ r.at \in {4, 8}
            \/ r.op = "review" /\ r.at = 5
        BY <1>1, <1>4, <3>1
      <3> QED BY <2>4, <3>1, <3>2, Statements
    <2>7. InFiles(r)
      BY <1>1, <1>2, <1>4, <2>2, <2>3 DEF InFiles
    <2> QED BY <2>2, <2>3, <2>4, <2>5, <2>6, <2>7 DEF Continues, r
  <1> QED BY <1>3, <1>4

LEMMA AuditStep ==
  ASSUME IInv, NEW w \in Workers, InsertAudit(w)
  PROVE  IInv'
  <1> DEFINE t == tx[w]
  <1>1. /\ t \in Tx /\ t.at <= Len(Program(t.op)) /\ Does(t, "audit")
        /\ Typed /\ InProgram(w) /\ RowsFollow(w)
    BY DEF IInv, Typed, InProgram, InsertAudit, Doing, Does
  <1>2. \/ t.op = "patch"  /\ t.at = 3
        \/ t.op = "attach" /\ t.at \in {3, 5, 7}
        \/ t.op = "review" /\ t.at = 4
    BY <1>1, Statements
  <1>3. /\ t.count = Len(audit) + Wrote(t)
        /\ \A v \in Workers \ {w} : Written(v) = 0
    BY AuditFollows DEF InsertAudit, Written
  <1>4. Len(audit) \in Nat /\ Wrote(t) \in Nat
    BY <1>1, Counted, WroteBounded DEF Written
  <1>5. NextEvent(w) \in Event
    BY <1>1, <1>2, EventTyped
  <1>6. AddEvent(w) \in [(Len(audit) + 1)..(Len(audit) + (Wrote(t) + 1)) -> Event]
    BY <1>1, <1>3, <1>4, <1>5, AddedRow DEF RowsFollow, Written
  <1>7. AddEvent(w) \in AuditRows
    BY <1>4, <1>6, IntervalRows
  <1>8. PICK x \in AfterEvent(t) :
          tx' = [tx EXCEPT ![w] = [x EXCEPT !.mine = AddEvent(w)]]
    BY DEF InsertAudit
  <1> DEFINE r == [x EXCEPT !.mine = AddEvent(w)]
  <1>9. /\ tx' = [tx EXCEPT ![w] = r]
        /\ UNCHANGED <<status, audit, reviews, unaudited>>
    BY <1>8 DEF InsertAudit
  <1>a. /\ r \in Tx /\ r.op = t.op /\ r.to = t.to
        /\ r.rule = t.rule /\ r.mine = AddEvent(w)
        /\ r.at <= Len(Program(r.op)) /\ InFiles(r)
        /\ Wrote(r) = Wrote(t) + 1 /\ ~Does(r, "audit")
    <2>1. InFiles(t)
      BY <1>1 DEF InProgram
    <2>2. /\ t \in Tx /\ t.at <= Len(Program(t.op)) /\ Does(t, "audit")
          /\ x \in AfterEvent(t)
      BY <1>1, <1>8
    <2> HIDE DEF t
    <2>3. Continues(t, AddEvent(w), r)
      BY <1>7, <2>1, <2>2, Recorded
    <2> QED BY <2>3 DEF Continues
  <1> HIDE DEF r
  <1>10. tx'[w] = r /\ \A v \in Workers \ {w} : tx'[v] = tx[v]
    BY <1>1, <1>9 DEF Typed
  <1>11. Typed'
    BY <1>1, <1>a, <1>9 DEF Typed
  <1>14. InProgram(w)'
    BY <1>1, <1>2, <1>a, <1>10 DEF InProgram
  <1>15. RowsFollow(w)'
    BY <1>6, <1>a, <1>9, <1>10 DEF RowsFollow, Written
  <1>16. CountBehind(w)'
    BY <1>a, <1>10 DEF CountBehind, Doing, Does
  <1> QED BY <1>3, <1>9, <1>10, <1>11, <1>14, <1>15, <1>16, LocalStep

\* What is true of the transaction of the worker after its event.
LEMMA AuditDone ==
  ASSUME IInv, NEW w \in Workers, InsertAudit(w)
  PROVE  LET t == tx[w]
             r == tx'[w]
         IN  /\ r.op = t.op /\ r.to = t.to /\ r.rule = t.rule
             /\ r.locked = t.locked /\ r.mine = AddEvent(w)
             /\ t.at \in 3..7 /\ r.at \in 3..8 /\ ~Does(r, "audit")
             /\ t.op = "review" => t.at = 4
  <1> DEFINE t == tx[w]
             r == tx'[w]
  <1>1. /\ t \in Tx /\ t.at <= Len(Program(t.op)) /\ Does(t, "audit")
        /\ Typed /\ InFiles(t) /\ RowsFollow(w) /\ InProgram(w)
    BY DEF IInv, Typed, InProgram, InsertAudit, Doing, Does
  <1>2. \/ t.op = "patch"  /\ t.at = 3
        \/ t.op = "attach" /\ t.at \in {3, 5, 7}
        \/ t.op = "review" /\ t.at = 4
    BY <1>1, Statements
  <1>3. AddEvent(w) \in AuditRows
    <2>1. t.count = Len(audit) + Wrote(t)
      BY AuditFollows DEF InsertAudit, Written
    <2>2. Len(audit) \in Nat /\ Wrote(t) \in Nat
      BY <1>1, Counted, WroteBounded DEF Written
    <2>3. NextEvent(w) \in Event
      BY <1>1, <1>2, EventTyped
    <2>4. AddEvent(w) \in [(Len(audit) + 1)..(Len(audit) + (Wrote(t) + 1)) -> Event]
      BY <1>1, <2>1, <2>2, <2>3, AddedRow DEF RowsFollow, Written
    <2> QED BY <2>2, <2>4, IntervalRows
  <1>4. PICK x \in AfterEvent(tx[w]) :
          tx' = [tx EXCEPT ![w] = [x EXCEPT !.mine = AddEvent(w)]]
    BY DEF InsertAudit
  <1>5. r = [x EXCEPT !.mine = AddEvent(w)]
    BY <1>1, <1>4 DEF Typed
  <1>6. t.at \in 3..7 /\ (t.op = "review" => t.at = 4)
    BY <1>2
  <1> HIDE DEF t, r
  <1>7. /\ r.op = t.op /\ r.to = t.to /\ r.rule = t.rule
        /\ r.locked = t.locked /\ r.mine = AddEvent(w)
        /\ r.at \in 3..8 /\ ~Does(r, "audit")
    <2>0. x \in AfterEvent(t)
      BY DEF t
    <2>1. Continues(t, AddEvent(w), [x EXCEPT !.mine = AddEvent(w)])
      BY <1>1, <1>3, <2>0, Recorded
    <2> QED BY <1>5, <2>1 DEF Continues
  <1> QED BY <1>6, <1>7 DEF t, r

\* What a commit does to the audit trail: it extends it by the rows of the
\* transaction.
LEMMA CommitTrail ==
  ASSUME IInv, NEW w \in Workers, Commit(w)
  PROVE  /\ audit' \in Seq(Event)
         /\ Len(audit') = Len(audit) + Written(w)
         /\ \A i \in 1..Len(audit) : audit'[i] = audit[i]
         /\ Written(w) = 0 => audit' = audit
  <1> DEFINE m == tx[w].mine
             a == Len(audit)
             k == Written(w)
  <1>1. /\ a \in Nat /\ DOMAIN audit = 1..a /\ k \in 0..(MaxFiles + 2)
        /\ DOMAIN m = (a + 1)..(a + k)
    BY Counted DEF IInv
  <1>2. /\ \A i \in 1..a : audit[i] \in Event
        /\ \A i \in (a + 1)..(a + k) : m[i] \in Event
        /\ audit = [i \in 1..a |-> audit[i]]
    <2>1. audit \in Seq(Event)
      BY DEF IInv, Typed
    <2>2. m \in [(a + 1)..(a + k) -> Event]
      BY DEF IInv, RowsFollow
    <2>3. ASSUME NEW S, NEW f \in [S -> Event]
          PROVE  f = [i \in S |-> f[i]] /\ \A i \in S : f[i] \in Event
      OBVIOUS
    <2>4. audit \in [1..a -> Event]
      BY <2>1
    <2> HIDE DEF a, k, m
    <2> QED BY <2>2, <2>3, <2>4
  <1>3. audit' = [i \in DOMAIN audit \cup DOMAIN m |->
                    IF i \in DOMAIN m THEN m[i] ELSE audit[i]]
    BY DEF Commit
  <1> HIDE DEF m, a, k
  <1>4. (1..a) \cup ((a + 1)..(a + k)) = 1..(a + k)
    BY <1>1
  <1>5. audit' = [i \in 1..(a + k) |->
                    IF i \in (a + 1)..(a + k) THEN m[i] ELSE audit[i]]
    BY <1>1, <1>3, <1>4
  <1>6. \A i \in 1..(a + k) : \/ i \in 1..a /\ i \notin (a + 1)..(a + k)
                              \/ i \in (a + 1)..(a + k)
    BY <1>1
  <1>7. audit' \in [1..(a + k) -> Event]
    BY <1>2, <1>5, <1>6
  <1>8. a + k \in Nat
    BY <1>1
  <1>9. audit' \in Seq(Event) /\ Len(audit') = a + k
    <2>1. ASSUME NEW n \in Nat, NEW f \in [1..n -> Event]
          PROVE  f \in Seq(Event) /\ Len(f) = n
      OBVIOUS
    <2> QED BY <1>7, <1>8, <2>1
  <1>10. \A i \in 1..a : audit'[i] = audit[i]
    BY <1>1, <1>5
  <1>11. k = 0 => audit' = audit
    <2> SUFFICES ASSUME k = 0 PROVE audit' = audit
      OBVIOUS
    <2>1. a + k = a /\ (a + 1)..(a + k) = {}
      BY <1>1
    <2> QED BY <1>2, <1>5, <2>1
  <1> QED BY <1>9, <1>10, <1>11 DEF a, k

LEMMA CommitStep ==
  ASSUME IInv, NEW w \in Workers, Commit(w)
  PROVE  IInv'
  <1> DEFINE t == tx[w]
  <1>1. /\ t \in Tx /\ t.at <= Len(Program(t.op))
        /\ Typed /\ InProgram(w) /\ RowsFollow(w)
    BY DEF IInv, Typed, InProgram
  <1>2. t.at > 0 /\ t.to \in Targets(t.op)
    BY <1>1, Statements DEF Commit, Doing, Does, InProgram
  <1>3. status' \in Statuses
    <2>1. t.op \in RowOps /\ t.to # "keep" => t.to \in Statuses
      BY <1>2, PatchAssumption DEF Targets, RowOps, Statuses
    <2> QED BY <1>1, <2>1 DEF Commit, Typed
  <1>4. unaudited' \in BOOLEAN
    <2>1. CASE t.op \in RowOps /\ t.to # "keep"
      <3>1. unaudited' = (t.op \in {"validate", "report"})
        BY <2>1 DEF Commit
      <3> QED BY <3>1
    <2>2. CASE ~(t.op \in RowOps /\ t.to # "keep")
      BY <1>1, <2>2 DEF Commit, Typed
    <2> QED BY <2>1, <2>2
  <1>5. reviews' \in [Rules -> Verdicts \cup {"none"}]
    <2>1. CASE t.op \notin RowOps /\ t.locked
      <3>1. t.to \in Verdicts \cup {"none"} /\ t.rule \in Rules
        BY <1>1, <1>2, <2>1 DEF Targets, RowOps, Tx, Ops, InProgram
      <3>2. reviews' = [reviews EXCEPT ![t.rule] = t.to]
        BY <2>1 DEF Commit
      <3> QED BY <1>1, <3>1, <3>2 DEF Typed
    <2>2. CASE ~(t.op \notin RowOps /\ t.locked)
      BY <1>1, <2>2 DEF Commit, Typed
    <2> QED BY <2>1, <2>2
  <1>6. tx' = [tx EXCEPT ![w] = Idle]
    BY DEF Commit
  <1>7. tx'[w] = Idle /\ \A v \in Workers \ {w} : tx'[v] = tx[v]
    BY <1>1, <1>6 DEF Typed
  <1>8. Typed'
    BY <1>1, <1>3, <1>4, <1>5, <1>6, CommitTrail, IdleTyped DEF Typed
  <1>9. Idle.op = "clear" /\ Idle.at = 0 /\ Idle.mine = << >>
    BY DEF Idle
  <1>10. Len(audit) \in Nat /\ Written(w) \in 0..(MaxFiles + 2) /\ Len(audit)' \in Nat
    <2>1. Len(audit) \in Nat /\ Written(w) \in 0..(MaxFiles + 2)
      BY <1>1, Counted
    <2>2. audit' \in Seq(Event)
      BY <1>8 DEF Typed
    <2> QED BY <2>1, <2>2
  <1>11. InProgram(w)' /\ RowsFollow(w)' /\ CountBehind(w)' /\ Written(w)' = 0
    <2>1. InProgram(w)'
      BY <1>7, <1>9 DEF InProgram, InFiles, Program
    <2>2. Written(w)' = 0
      BY <1>7, <1>9 DEF Written, Wrote
    <2>3. CountBehind(w)'
      BY <1>7, <1>9 DEF CountBehind, Doing
    <2>4. (Len(audit)' + 1)..(Len(audit)' + 0) = {}
      BY <1>10
    <2>5. RowsFollow(w)'
      BY <1>7, <1>9, <2>2, <2>4, NothingWritten DEF RowsFollow
    <2> QED BY <2>1, <2>2, <2>3, <2>5
  <1>12. ASSUME NEW v \in Workers \ {w}
         PROVE  /\ InProgram(v)' /\ RowsFollow(v)' /\ CountBehind(v)'
                /\ Written(v)' = Written(v)
    <2>1. InProgram(v) /\ RowsFollow(v) /\ CountBehind(v) /\ Written(v) \in 0..(MaxFiles + 2)
      BY Counted DEF IInv
    <2>2. Written(v)' = Written(v)
      BY <1>7 DEF Written
    <2>3. InProgram(v)'
      BY <1>7, <2>1 DEF InProgram
    <2>4. Written(v) > 0 => Len(audit)' = Len(audit)
      BY <1>10, CommitTrail DEF IInv, OneHolder
    <2>5. RowsFollow(v)'
      <3>1. CASE Written(v) > 0
        BY <1>7, <2>1, <2>2, <2>4, <3>1 DEF RowsFollow
      <3>2. CASE Written(v) = 0
        <4>1. /\ (Len(audit)' + 1)..(Len(audit)' + 0) = {}
              /\ (Len(audit) + 1)..(Len(audit) + 0) = {}
          BY <1>10
        <4> QED BY <1>7, <2>1, <2>2, <3>2, <4>1 DEF RowsFollow
      <3> QED BY <2>1, <3>1, <3>2
    <2>6. CountBehind(v)'
      <3>1. Doing(v, "audit")' => Doing(v, "audit")
        BY <1>7 DEF Doing
      <3>2. tx[v].count \in Nat
        BY <1>1 DEF Typed, Tx
      <3> QED BY <1>7, <1>10, <2>1, <2>2, <2>4, <3>1, <3>2, CommitTrail
                 DEF CountBehind
    <2> QED BY <2>2, <2>3, <2>5, <2>6
  <1>13. OneHolder'
    BY <1>11, <1>12 DEF IInv, OneHolder
  <1> QED BY <1>8, <1>11, <1>12, <1>13 DEF IInv

-----------------------------------------------------------------------------

LEMMA IdleStep == IInv /\ UNCHANGED vars => IInv'
  <1> SUFFICES ASSUME IInv, UNCHANGED vars PROVE IInv'
    OBVIOUS
  <1>1. UNCHANGED <<status, audit, reviews, unaudited, tx>>
    BY DEF vars
  <1>2. Typed'
    BY <1>1 DEF IInv, Typed
  <1>3. \A w \in Workers : Written(w)' = Written(w)
    BY <1>1 DEF Written
  <1>4. \A w \in Workers : InProgram(w)' /\ RowsFollow(w)' /\ CountBehind(w)'
    BY <1>1, <1>3 DEF IInv, InProgram, RowsFollow, CountBehind, Doing
  <1> QED BY <1>2, <1>3, <1>4 DEF IInv, OneHolder

LEMMA Inductive == IInv /\ [Next]_vars => IInv'
  <1> SUFFICES ASSUME IInv, [Next]_vars PROVE IInv'
    OBVIOUS
  <1>1. ASSUME NEW w \in Workers, Step(w)
        PROVE  IInv'
    BY <1>1, BeginStep, StatementStep, CountStep, AuditStep, CommitStep,
       RollbackStep DEF Step, Work
  <1> QED BY <1>1, IdleStep DEF Next

LEMMA Invariant == Spec => []IInv
  BY InitHolds, Inductive, PTL DEF Spec

LEMMA InvariantTyped == IInv => TypeOK
  <1> SUFFICES ASSUME IInv PROVE TypeOK
    OBVIOUS
  <1>1. ASSUME NEW w \in Workers
        PROVE  /\ tx[w].op \in Ops /\ tx[w].at \in 0..Len(Program(tx[w].op))
               /\ tx[w].at > 0 => tx[w].to \in Targets(tx[w].op)
               /\ tx[w].rule \in Rules \cup {"case"}
               /\ tx[w].locked \in BOOLEAN /\ tx[w].count \in Nat
               /\ tx[w].files \in 0..MaxFiles
               /\ \A i \in DOMAIN tx[w].mine : tx[w].mine[i] \in Event
    <2>1. tx[w] \in Tx /\ InProgram(w) /\ RowsFollow(w)
      BY DEF IInv, Typed
    <2>2. Len(Program(tx[w].op)) \in Nat
      BY <2>1 DEF Program, Tx, Ops, RowOps
    <2>3. /\ tx[w].op \in Ops /\ tx[w].at \in 0..8
          /\ tx[w].rule \in Rules \cup {"case"}
          /\ tx[w].locked \in BOOLEAN /\ tx[w].count \in Nat
          /\ tx[w].files \in 0..MaxFiles
      BY <2>1 DEF Tx
    <2>4. \A i \in DOMAIN tx[w].mine : tx[w].mine[i] \in Event
      BY <2>1 DEF RowsFollow
    <2> QED BY <2>1, <2>2, <2>3, <2>4 DEF InProgram
  <1> QED BY <1>1 DEF IInv, Typed, TypeOK

-----------------------------------------------------------------------------

\* With SQLite a transaction past its first statement has the write lock, and
\* what it has counted stays so.
LockInv ==
  \A w \in Workers : tx[w].at > 1 =>
    /\ \A v \in Workers \ {w} : tx[v].at <= 1
    /\ Doing(w, "audit") => tx[w].count = Len(audit) + Written(w)

\* The part of LockInv that is about the worker of the step.
LEMMA LockTaken ==
  ASSUME IInv, IInv', LockInv, Backend = "sqlite", NEW w \in Workers, Step(w),
         tx'[w].at > 1
  PROVE  /\ \A v \in Workers \ {w} : tx[v].at <= 1
         /\ Doing(w, "audit")' => tx'[w].count = Len(audit)' + Written(w)'
  <1> DEFINE t == tx[w]
             r == tx'[w]
  <1>1. /\ t \in Tx /\ t.at <= Len(Program(t.op)) /\ tx \in [Workers -> Tx]
        /\ r \in Tx /\ r.at <= Len(Program(r.op))
    BY DEF IInv, Typed, InProgram
  <1>2. t.at \in 0..8 /\ t.op \in Ops /\ Idle.at = 0
    BY <1>1 DEF Tx, Idle
  <1>3. Does(r, "audit") <=> Doing(w, "audit")'
    BY DEF Does, Doing
  <1>4. CASE UpdateRow(w) \/ FindReview(w) \/ EraseReview(w)
    <2>1. \A v \in Workers \ {w} : tx[v].at <= 1
      BY <1>4 DEF UpdateRow, FindReview, EraseReview, WriteLockFree
    <2>2. \/ t.at = 1 /\ t.op \in RowOps /\ r = [t EXCEPT !.at = t.at + 1, !.locked = TRUE]
          \/ /\ t.at = 1 /\ t.op \in {"review", "clear"}
             /\ \/ r = [t EXCEPT !.at = t.at + 1]
                \/ r = [t EXCEPT !.at = t.at + 1, !.locked = TRUE]
                \/ r = [t EXCEPT !.at = t.at + 2, !.locked = TRUE]
      BY <1>1, <1>4, Statements DEF UpdateRow, FindReview, EraseReview, Doing, Does
    <2>3. r.op = t.op /\ r.at \in {2, 3} /\ (t.op \in RowOps => r.at = 2)
      <3>1. ASSUME NEW n \in 0..8
            PROVE  /\ [t EXCEPT !.at = n].at = n
                   /\ [t EXCEPT !.at = n].op = t.op
                   /\ [t EXCEPT !.at = n, !.locked = TRUE].at = n
                   /\ [t EXCEPT !.at = n, !.locked = TRUE].op = t.op
        BY <1>1, Moves DEF Moved
      <3>2. t.at + 1 = 2 /\ t.at + 2 = 3 /\ "review" \notin RowOps /\ "clear" \notin RowOps
        BY <2>2 DEF RowOps
      <3>3. CASE t.op \in RowOps
        <4>1. r = [t EXCEPT !.at = 2, !.locked = TRUE]
          BY <2>2, <3>2, <3>3
        <4> QED BY <3>1, <4>1
      <3>4. CASE t.op \notin RowOps
        <4>1. \/ r = [t EXCEPT !.at = 2]
              \/ r = [t EXCEPT !.at = 2, !.locked = TRUE]
              \/ r = [t EXCEPT !.at = 3, !.locked = TRUE]
          BY <2>2, <3>2, <3>4
        <4>2. r = [t EXCEPT !.at = 2] => r.op = t.op /\ r.at = 2
          BY <3>1
        <4>3. r = [t EXCEPT !.at = 2, !.locked = TRUE] => r.op = t.op /\ r.at = 2
          BY <3>1
        <4>4. r = [t EXCEPT !.at = 3, !.locked = TRUE] => r.op = t.op /\ r.at = 3
          BY <3>1
        <4> HIDE DEF r
        <4> QED BY <3>4, <4>1, <4>2, <4>3, <4>4
      <3> QED BY <3>3, <3>4
    <2>4. ~Does(r, "audit")
      BY <1>1, <2>2, <2>3, Statements DEF RowOps
    <2> QED BY <1>3, <2>1, <2>4
  <1>5. CASE AddReview(w)
    <2>1. t.at = 2 /\ t.op = "review"
      BY <1>1, <1>5, Statements DEF AddReview, Doing, Does
    <2>2. r = [t EXCEPT !.at = t.at + 1, !.locked = TRUE]
      BY <1>1, <1>5 DEF AddReview
    <2>3. r.op = "review" /\ r.at = 3
      BY <1>1, <2>1, <2>2 DEF Tx
    <2>4. ~Does(r, "audit")
      BY <1>1, <2>3, Statements
    <2> QED BY <1>3, <2>1, <2>4 DEF LockInv
  <1>6. CASE Count(w)
    <2>1. \/ t.op = "patch"  /\ t.at = 2
          \/ t.op = "attach" /\ t.at \in {2, 4, 6}
          \/ t.op = "review" /\ t.at = 3
      BY <1>1, <1>6, Statements DEF Count, Doing, Does
    <2>2. Cardinality(DOMAIN audit) + Cardinality(DOMAIN t.mine) = Len(audit) + Wrote(t)
      BY Counted DEF IInv, Written
    <2>3. r = [t EXCEPT !.at = t.at + 1, !.count = Len(audit) + Wrote(t)]
      BY <1>1, <1>6, <2>2 DEF Count
    <2>4. /\ r.count = Len(audit) + Wrote(t) /\ r.at = t.at + 1 /\ r.op = t.op
          /\ r.files = t.files
      BY <1>1, <2>3 DEF Tx
    <2>5. Wrote(r) = Wrote(t) /\ audit' = audit
      BY <1>6, <2>1, <2>4 DEF Wrote, Count
    <2> QED BY <2>1, <2>4, <2>5 DEF LockInv, Written
  <1>7. CASE InsertAudit(w)
    <2>1. t.at > 1 /\ ~Does(r, "audit")
      BY <1>2, <1>7, AuditDone
    <2> QED BY <1>3, <2>1 DEF LockInv
  <1>8. CASE Begin(w)
    <2>1. r.at = 1
      BY <1>1, <1>8 DEF Begin, Idle
    <2> QED BY <2>1
  <1>9. CASE Commit(w) \/ Refuse(w) \/ Fail(w)
    <2>1. r.at = 0
      BY <1>1, <1>2, <1>9 DEF Commit, Refuse, Fail
    <2> QED BY <2>1
  <1> QED BY <1>4, <1>5, <1>6, <1>7, <1>8, <1>9 DEF Step, Work

\* A step of one worker leaves the operations of the others where they are, and
\* adds to the trail only if it has the write lock.
LEMMA OthersStay ==
  ASSUME IInv, NEW w \in Workers, Step(w)
  PROVE  /\ \A v \in Workers \ {w} : tx'[v] = tx[v]
         /\ audit' = audit \/ tx[w].at > 1
  <1>1. tx \in [Workers -> Tx] /\ tx[w].at <= Len(Program(tx[w].op))
    BY DEF IInv, Typed, InProgram
  <1>2. \A v \in Workers \ {w} : tx'[v] = tx[v]
    BY <1>1 DEF Step, Work, Begin, UpdateRow, FindReview, AddReview, EraseReview,
                Count, InsertAudit, Refuse, Fail, Commit
  <1>3. Commit(w) => tx[w].at > 1
    BY <1>1, Statements DEF Commit, Doing, Does
  <1>4. audit' = audit \/ Commit(w)
    BY DEF Step, Work, Begin, UpdateRow, FindReview, AddReview, EraseReview,
           Count, InsertAudit, Refuse, Fail
  <1> QED BY <1>2, <1>3, <1>4

LEMMA LockStep ==
  ASSUME IInv, IInv', LockInv, Backend = "sqlite", [Next]_vars
  PROVE  LockInv'
  <1>1. CASE UNCHANGED vars
    BY <1>1 DEF vars, LockInv, Doing, Written
  <1>2. ASSUME NEW w \in Workers, Step(w)
        PROVE  LockInv'
    <2>1. /\ \A v \in Workers \ {w} : tx'[v] = tx[v]
          /\ audit' = audit \/ tx[w].at > 1
      BY <1>2, OthersStay
    <2>2. tx'[w].at > 1 =>
            /\ \A v \in Workers \ {w} : tx[v].at <= 1
            /\ Doing(w, "audit")' => tx'[w].count = Len(audit)' + Written(w)'
      BY <1>2, LockTaken
    <2>3. ASSUME NEW u \in Workers, tx'[u].at > 1
          PROVE  /\ \A v \in Workers \ {u} : tx'[v].at <= 1
                 /\ Doing(u, "audit")' => tx'[u].count = Len(audit)' + Written(u)'
      <3>1. CASE u = w
        BY <2>1, <2>2, <2>3, <3>1
      <3>2. CASE u # w
        <4>1. tx'[u] = tx[u]
          BY <2>1, <3>2
        <4>2. /\ \A v \in Workers \ {u} : tx[v].at <= 1
              /\ Doing(u, "audit") => tx[u].count = Len(audit) + Written(u)
          BY <2>3, <4>1 DEF LockInv
        <4>3. \A v \in Workers : tx[v].at \in 0..8 /\ tx'[v].at \in 0..8
          BY DEF IInv, Typed, Tx
        <4>4. audit' = audit
          BY <2>1, <3>2, <4>2, <4>3
        <4>5. ~(tx'[w].at > 1)
          BY <2>2, <2>3, <3>2, <4>1, <4>3
        <4>6. \A v \in Workers \ {u} : tx'[v].at <= 1
          BY <2>1, <4>2, <4>3, <4>5
        <4>7. Doing(u, "audit")' => tx'[u].count = Len(audit)' + Written(u)'
          BY <4>1, <4>2, <4>4 DEF Doing, Written
        <4> QED BY <4>6, <4>7
      <3> QED BY <3>1, <3>2
    <2> QED BY <2>3 DEF LockInv
  <1> QED BY <1>1, <1>2 DEF Next

-----------------------------------------------------------------------------

\* The writers of the row of the case come one after the other, so what is
\* committed after one of them has counted is the work of reviews.
InRow(t) == t.op \in RowOps /\ t.at > 1

OnlyReviewsAfter(trail, n) ==
  \A i \in DOMAIN trail : i > n => trail[i].kind = "rule_reviewed"

ReviewRows(t) ==
  t.op = "review" => \A i \in DOMAIN t.mine : t.mine[i].kind = "rule_reviewed"

RowInv ==
  /\ \A w \in Workers : /\ InRow(tx[w]) => tx[w].locked
                        /\ ReviewRows(tx[w])
                        /\ InRow(tx[w]) /\ Doing(w, "audit") =>
                             OnlyReviewsAfter(audit, tx[w].count)
  /\ \A v, w \in Workers : InRow(tx[v]) /\ InRow(tx[w]) => v = w

\* The part of RowInv that is about the worker of the step.
LEMMA RowTaken ==
  ASSUME IInv, IInv', RowInv, NEW w \in Workers, Step(w)
  PROVE  /\ InRow(tx'[w]) => tx'[w].locked /\ (InRow(tx[w]) \/ CaseRowFree(w))
         /\ ReviewRows(tx'[w])
         /\ InRow(tx'[w]) /\ Doing(w, "audit")' => OnlyReviewsAfter(audit', tx'[w].count)
  <1> DEFINE t == tx[w]
             r == tx'[w]
  <1>1. /\ t \in Tx /\ t.at <= Len(Program(t.op)) /\ tx \in [Workers -> Tx]
        /\ r \in Tx /\ r.at <= Len(Program(r.op))
    BY DEF IInv, Typed, InProgram
  <1>2. Does(r, "audit") <=> Doing(w, "audit")'
    BY DEF Does, Doing
  <1>3. ReviewRows(t) /\ (InRow(t) => t.locked)
    BY DEF RowInv
  <1>4. ASSUME NEW n \in 0..8, NEW c \in Nat
        PROVE  /\ Moved([t EXCEPT !.at = n], t, n)
               /\ Moved([t EXCEPT !.at = n, !.locked = TRUE], t, n)
               /\ Moved([t EXCEPT !.at = n, !.count = c], t, n)
               /\ [t EXCEPT !.at = n, !.locked = TRUE].locked
               /\ [t EXCEPT !.at = n, !.count = c].locked = t.locked
               /\ [t EXCEPT !.at = n, !.count = c].count = c
    <2>1. /\ [t EXCEPT !.at = n, !.locked = TRUE].locked
          /\ [t EXCEPT !.at = n, !.count = c].locked = t.locked
          /\ [t EXCEPT !.at = n, !.count = c].count = c
      BY <1>1 DEF Tx
    <2> HIDE DEF t
    <2> QED BY <1>1, <2>1, Moves
  <1>5. CASE UpdateRow(w)
    <2>1. t.at = 1 /\ t.op \in RowOps /\ CaseRowFree(w)
      BY <1>1, <1>5, Statements DEF UpdateRow, Doing, Does
    <2>2. r = [t EXCEPT !.at = 2, !.locked = TRUE]
      BY <1>1, <1>5, <2>1 DEF UpdateRow
    <2>3. r.op = t.op /\ r.at = 2 /\ r.locked
      <3>1. 2 \in 0..8 /\ 0 \in Nat
        OBVIOUS
      <3>2. Moved([t EXCEPT !.at = 2, !.locked = TRUE], t, 2)
        BY <1>4, <3>1, Zenon
      <3>3. [t EXCEPT !.at = 2, !.locked = TRUE].locked
        BY <1>4, <3>1, Zenon
      <3> HIDE DEF r, t
      <3>4. Moved(r, t, 2) /\ r.locked
        BY <2>2, <3>2, <3>3, Zenon
      <3> QED BY <3>4 DEF Moved
    <2>4. ~Does(r, "audit") /\ r.op # "review"
      BY <1>1, <2>1, <2>3, Statements DEF RowOps
    <2> QED BY <1>2, <2>1, <2>3, <2>4 DEF ReviewRows
  <1>6. CASE FindReview(w) \/ AddReview(w) \/ EraseReview(w)
    <2>1. t.op \in {"review", "clear"} /\ t.at \in {1, 2}
      BY <1>1, <1>6, Statements DEF FindReview, AddReview, EraseReview, Doing, Does
    <2>2. \E n \in 0..8 : r = [t EXCEPT !.at = n]
                            \/ r = [t EXCEPT !.at = n, !.locked = TRUE]
      <3>1. t.at + 1 \in 0..8 /\ t.at + 2 \in 0..8
        BY <2>1
      <3>2. \/ r = [t EXCEPT !.at = t.at + 1]
            \/ r = [t EXCEPT !.at = t.at + 1, !.locked = TRUE]
            \/ r = [t EXCEPT !.at = t.at + 2, !.locked = TRUE]
        BY <1>1, <1>6 DEF FindReview, AddReview, EraseReview
      <3> HIDE DEF r, t
      <3> QED BY <3>1, <3>2
    <2>3. r.op = t.op /\ r.mine = t.mine
      <3>1. PICK n \in 0..8 : \/ r = [t EXCEPT !.at = n]
                             \/ r = [t EXCEPT !.at = n, !.locked = TRUE]
        BY <2>2, Zenon
      <3>2. /\ Moved([t EXCEPT !.at = n], t, n)
            /\ Moved([t EXCEPT !.at = n, !.locked = TRUE], t, n)
        <4>1. 0 \in Nat
          OBVIOUS
        <4> QED BY <1>4, <4>1, Zenon
      <3> HIDE DEF r, t
      <3>3. Moved(r, t, n)
        BY <3>1, <3>2, Zenon
      <3> QED BY <3>3 DEF Moved
    <2>4. r.op \notin RowOps
      BY <2>1, <2>3 DEF RowOps
    <2> QED BY <1>3, <2>3, <2>4 DEF InRow, ReviewRows
  <1>7. CASE Count(w)
    <2>1. \/ t.op = "patch"  /\ t.at = 2
          \/ t.op = "attach" /\ t.at \in {2, 4, 6}
          \/ t.op = "review" /\ t.at = 3
      BY <1>1, <1>7, Statements DEF Count, Doing, Does
    <2>2. Cardinality(DOMAIN audit) + Cardinality(DOMAIN t.mine) = Len(audit) + Wrote(t)
      BY Counted DEF IInv, Written
    <2>3. /\ Len(audit) \in Nat /\ Wrote(t) \in 0..(MaxFiles + 2) /\ DOMAIN audit = 1..Len(audit)
      BY Counted DEF IInv, Written
    <2>4. r = [t EXCEPT !.at = t.at + 1, !.count = Len(audit) + Wrote(t)]
      BY <1>1, <1>7, <2>2 DEF Count
    <2>5. t.at + 1 \in 0..8 /\ Len(audit) + Wrote(t) \in Nat
      BY <2>1, <2>3
    <2>6. /\ r.op = t.op /\ r.mine = t.mine /\ r.locked = t.locked
          /\ r.count = Len(audit) + Wrote(t)
      <3> HIDE DEF r, t
      <3> QED BY <1>4, <2>4, <2>5 DEF Moved
    <2>7. audit' = audit
      BY <1>7 DEF Count
    <2>8. OnlyReviewsAfter(audit', r.count)
      BY <2>3, <2>6, <2>7 DEF OnlyReviewsAfter
    <2>9. InRow(r) => InRow(t)
      BY <2>1, <2>6 DEF InRow
    <2> QED BY <1>3, <2>6, <2>8, <2>9 DEF ReviewRows
  <1>8. CASE InsertAudit(w)
    <2>1. /\ r.op = t.op /\ r.locked = t.locked /\ r.mine = AddEvent(w)
          /\ t.at \in 3..7 /\ r.at \in 3..8 /\ ~Does(r, "audit")
          /\ t.op = "review" => t.at = 4
      BY <1>8, AuditDone
    <2>2. ReviewRows(r)
      <3> SUFFICES ASSUME t.op = "review", NEW i \in DOMAIN AddEvent(w)
                   PROVE  AddEvent(w)[i].kind = "rule_reviewed"
        BY <2>1 DEF ReviewRows
      <3>1. DOMAIN t.mine = {}
        <4>1. Wrote(t) = 0
          BY <2>1 DEF Wrote
        <4>2. Len(audit) \in Nat /\ DOMAIN t.mine = (Len(audit) + 1)..(Len(audit) + Wrote(t))
          BY Counted DEF IInv, Written
        <4> QED BY <4>1, <4>2
      <3>2. NextEvent(w).kind = "rule_reviewed"
        BY DEF NextEvent
      <3> QED BY <3>1, <3>2 DEF AddEvent
    <2>3. InRow(r) => InRow(t)
      BY <2>1 DEF InRow
    <2> QED BY <1>2, <1>3, <2>1, <2>2, <2>3
  <1>9. CASE Begin(w)
    <2>1. r.at = 1 /\ r.mine = << >>
      BY <1>1, <1>9 DEF Begin, Idle
    <2> QED BY <2>1 DEF InRow, ReviewRows
  <1>10. CASE Commit(w) \/ Refuse(w) \/ Fail(w)
    <2>1. r.at = 0 /\ r.op = "clear"
      BY <1>1, <1>10 DEF Commit, Refuse, Fail, Idle
    <2> QED BY <2>1 DEF InRow, ReviewRows
  <1> QED BY <1>5, <1>6, <1>7, <1>8, <1>9, <1>10 DEF Step, Work

\* What the others know of the trail stays true when one of them commits.
LEMMA TrailOfOthers ==
  ASSUME IInv, RowInv, NEW w \in Workers, Step(w), NEW v \in Workers \ {w},
         InRow(tx[v]), NEW n \in Nat, OnlyReviewsAfter(audit, n)
  PROVE  OnlyReviewsAfter(audit', n)
  <1>1. CASE audit' = audit
    BY <1>1 DEF OnlyReviewsAfter
  <1>2. CASE Commit(w)
    <2>1. tx[w] \in Tx /\ tx[w].at <= Len(Program(tx[w].op))
      BY DEF IInv, Typed, InProgram
    <2>2. tx[w].at > 1
      BY <1>2, <2>1, Statements DEF Commit, Doing, Does
    <2>3. tx[w].op \in {"review", "clear"}
      BY <2>1, <2>2 DEF RowInv, InRow, Tx, Ops
    <2>4. \A i \in DOMAIN tx[w].mine : tx[w].mine[i].kind = "rule_reviewed"
      <3>1. CASE tx[w].op = "review"
        BY <3>1 DEF RowInv, ReviewRows
      <3>2. CASE tx[w].op = "clear"
        <4>1. Written(w) = 0
          BY <3>2 DEF Written, Wrote
        <4>2. /\ Len(audit) \in Nat
              /\ DOMAIN tx[w].mine = (Len(audit) + 1)..(Len(audit) + Written(w))
          BY Counted DEF IInv
        <4>3. DOMAIN tx[w].mine = {}
          BY <4>1, <4>2
        <4> QED BY <4>3
      <3> QED BY <2>3, <3>1, <3>2
    <2>5. audit' = [i \in DOMAIN audit \cup DOMAIN tx[w].mine |->
                      IF i \in DOMAIN tx[w].mine THEN tx[w].mine[i] ELSE audit[i]]
      BY <1>2 DEF Commit
    <2> QED BY <2>4, <2>5 DEF OnlyReviewsAfter
  <1>3. audit' = audit \/ Commit(w)
    BY DEF Step, Work, Begin, UpdateRow, FindReview, AddReview, EraseReview,
           Count, InsertAudit, Refuse, Fail
  <1> QED BY <1>1, <1>2, <1>3

LEMMA RowStep ==
  ASSUME IInv, IInv', RowInv, [Next]_vars
  PROVE  RowInv'
  <1>1. CASE UNCHANGED vars
    BY <1>1 DEF vars, RowInv, Doing, OnlyReviewsAfter
  <1>2. ASSUME NEW w \in Workers, Step(w)
        PROVE  RowInv'
    <2>1. \A v \in Workers \ {w} : tx'[v] = tx[v]
      BY <1>2, OthersStay
    <2>2. /\ InRow(tx'[w]) => tx'[w].locked /\ (InRow(tx[w]) \/ CaseRowFree(w))
          /\ ReviewRows(tx'[w])
          /\ InRow(tx'[w]) /\ Doing(w, "audit")' => OnlyReviewsAfter(audit', tx'[w].count)
      BY <1>2, RowTaken
    <2>3. ASSUME NEW v \in Workers \ {w}
          PROVE  /\ InRow(tx'[v]) => tx'[v].locked
                 /\ ReviewRows(tx'[v])
                 /\ InRow(tx'[v]) /\ Doing(v, "audit")' => OnlyReviewsAfter(audit', tx'[v].count)
      <3>1. tx'[v] = tx[v] /\ tx[v].count \in Nat
        BY <2>1 DEF IInv, Typed, Tx
      <3>2. Doing(v, "audit")' <=> Doing(v, "audit")
        BY <3>1 DEF Doing
      <3>3. InRow(tx[v]) /\ Doing(v, "audit") => OnlyReviewsAfter(audit', tx[v].count)
        BY <1>2, <3>1, TrailOfOthers DEF RowInv
      <3> QED BY <3>1, <3>2, <3>3 DEF RowInv
    <2>4. ASSUME NEW v \in Workers \ {w}, InRow(tx'[v]), InRow(tx'[w])
          PROVE  FALSE
      <3>1. InRow(tx[v]) /\ tx[v].locked /\ tx[v].op \in RowOps
        BY <2>1, <2>4 DEF RowInv, InRow
      <3>2. ~InRow(tx[w])
        BY <3>1 DEF RowInv
      <3> QED BY <2>2, <2>4, <3>1, <3>2 DEF CaseRowFree
    <2>5. \A u, v \in Workers : InRow(tx'[u]) /\ InRow(tx'[v]) => u = v
      <3> SUFFICES ASSUME NEW u \in Workers, NEW v \in Workers,
                          InRow(tx'[u]), InRow(tx'[v]), u # v
                   PROVE  FALSE
        OBVIOUS
      <3>1. CASE u = w \/ v = w
        BY <2>4, <3>1
      <3>2. CASE u # w /\ v # w
        BY <2>1, <3>2 DEF RowInv
      <3> QED BY <3>1, <3>2
    <2>6. \A v \in Workers :
            /\ InRow(tx'[v]) => tx'[v].locked
            /\ ReviewRows(tx'[v])
            /\ InRow(tx'[v]) /\ Doing(v, "audit")' => OnlyReviewsAfter(audit', tx'[v].count)
      BY <2>2, <2>3
    <2> QED BY <2>5, <2>6 DEF RowInv, InRow, ReviewRows
  <1> QED BY <1>1, <1>2 DEF Next

-----------------------------------------------------------------------------

\* The uncommitted rows of a transaction tell what its commit will do: the
\* first reports the status or verdict it sets, the others report nothing.
Told(t) == IF t.to = "keep" THEN "none" ELSE t.to

RowsTell(n, t) ==
  \A i \in DOMAIN t.mine :
    IF i = n + 1 THEN t.mine[i].about = t.rule /\ t.mine[i].value = Told(t)
                 ELSE t.mine[i] \in {FileEvent, LayoutEvent}

ReviewLocks(t) == t.op = "review" /\ t.at >= 3 => t.locked

TrailInv ==
  /\ TrailAccounts
  /\ \A w \in Workers : RowsTell(Len(audit), tx[w]) /\ ReviewLocks(tx[w])

LEMMA AuditTells ==
  ASSUME IInv, TrailInv, NEW w \in Workers, InsertAudit(w)
  PROVE  RowsTell(Len(audit'), tx'[w]) /\ ReviewLocks(tx'[w])
  <1> DEFINE t == tx[w]
             r == tx'[w]
  <1>1. /\ t \in Tx /\ t.at <= Len(Program(t.op)) /\ tx \in [Workers -> Tx]
    BY DEF IInv, Typed, InProgram
  <1>2. \/ t.op = "patch"  /\ t.at = 3
        \/ t.op = "attach" /\ t.at \in {3, 5, 7}
        \/ t.op = "review" /\ t.at = 4
    BY <1>1, Statements DEF InsertAudit, Doing, Does
  <1>3. audit' = audit
    BY DEF InsertAudit
  <1>4. /\ r.op = t.op /\ r.locked = t.locked
        /\ r.to = t.to /\ r.rule = t.rule /\ r.mine = AddEvent(w)
    BY AuditDone
  <1>a. InFiles(t)
    BY DEF IInv, InProgram
  <1>5. ReviewLocks(r)
    <2>1. ReviewLocks(t)
      BY DEF TrailInv
    <2> QED BY <1>2, <1>4, <2>1 DEF ReviewLocks
  <1>6. /\ t.count = Len(audit) + Written(w)
        /\ Len(audit) \in Nat /\ Written(w) \in 0..(MaxFiles + 2)
        /\ DOMAIN t.mine = (Len(audit) + 1)..(Len(audit) + Written(w))
    BY AuditFollows, Counted DEF IInv, InsertAudit
  <1>7. Id(w) = Len(audit) + Written(w) + 1
    BY <1>6 DEF Id
  <1>8. RowsTell(Len(audit), t)
    BY DEF TrailInv
  <1>9. CASE Written(w) = 0
    <2>1. DOMAIN t.mine = {}
      BY <1>6, <1>9
    <2>2. NextEvent(w).about = t.rule /\ NextEvent(w).value = Told(t)
      <3>1. ~(t.op = "attach" /\ t.at \in {5, 7})
        <4>1. t.files \in Nat
          BY <1>1, MaxFilesAssumption DEF Tx
        <4> QED BY <1>9, <4>1 DEF Written, Wrote
      <3> QED BY <3>1 DEF NextEvent, Told
    <2>3. DOMAIN AddEvent(w) = {Id(w)} /\ AddEvent(w)[Id(w)] = NextEvent(w)
      BY <2>1 DEF AddEvent
    <2>4. Id(w) = Len(audit) + 1
      BY <1>6, <1>7, <1>9
    <2>5. Told(r) = Told(t)
      BY <1>4 DEF Told
    <2>6. RowsTell(Len(audit'), r)
      <3> HIDE DEF t, r
      <3> QED BY <1>3, <1>4, <2>2, <2>3, <2>4, <2>5 DEF RowsTell
    <2> QED BY <1>5, <2>6
  <1>10. CASE Written(w) > 0
    <2>1. DOMAIN t.mine # {} /\ Id(w) # Len(audit) + 1 /\ Id(w) \notin DOMAIN t.mine
      <3>1. Len(audit) + 1 \in DOMAIN t.mine
        BY <1>6, <1>10
      <3>2. Id(w) # Len(audit) + 1
        BY <1>6, <1>7, <1>10
      <3>3. Id(w) \notin DOMAIN t.mine
        BY <1>6, <1>7
      <3> QED BY <3>1, <3>2, <3>3
    <2>2. NextEvent(w) \in {FileEvent, LayoutEvent}
      <3>1. t.op = "attach" /\ t.at \in {5, 7}
        BY <1>2, <1>10 DEF Written, Wrote
      <3> QED BY <3>1 DEF NextEvent
    <2>3. /\ DOMAIN AddEvent(w) = DOMAIN t.mine \cup {Id(w)}
          /\ AddEvent(w)[Id(w)] \in {FileEvent, LayoutEvent}
          /\ \A i \in DOMAIN t.mine : AddEvent(w)[i] = t.mine[i]
      BY <2>1, <2>2 DEF AddEvent
    <2>4. Told(r) = Told(t)
      BY <1>4 DEF Told
    <2>5. RowsTell(Len(audit'), r)
      <3> HIDE DEF t, r
      <3> QED BY <1>3, <1>4, <1>8, <2>1, <2>3, <2>4 DEF RowsTell
    <2> QED BY <1>5, <2>5
  <1> QED BY <1>6, <1>9, <1>10

LEMMA RowsTold ==
  ASSUME IInv, TrailInv, NEW w \in Workers, Step(w)
  PROVE  RowsTell(Len(audit'), tx'[w]) /\ ReviewLocks(tx'[w])
  <1> DEFINE t == tx[w]
             r == tx'[w]
  <1>1. t \in Tx /\ t.at <= Len(Program(t.op)) /\ tx \in [Workers -> Tx]
    BY DEF IInv, Typed, InProgram
  <1>2. RowsTell(Len(audit), t) /\ ReviewLocks(t)
    BY DEF TrailInv
  <1>3. ASSUME NEW n \in 0..8, NEW c \in Nat
        PROVE  /\ Moved([t EXCEPT !.at = n], t, n)
               /\ Moved([t EXCEPT !.at = n, !.locked = TRUE], t, n)
               /\ Moved([t EXCEPT !.at = n, !.count = c], t, n)
               /\ [t EXCEPT !.at = n, !.locked = TRUE].locked
               /\ [t EXCEPT !.at = n, !.count = c].locked = t.locked
    <2>1. /\ [t EXCEPT !.at = n, !.locked = TRUE].locked
          /\ [t EXCEPT !.at = n, !.count = c].locked = t.locked
      BY <1>1 DEF Tx
    <2> HIDE DEF t
    <2> QED BY <1>1, <2>1, Moves
  <1>4. ASSUME NEW n \in 0..8, Moved(r, t, n), audit' = audit,
               t.op = "review" /\ n >= 3 => r.locked
        PROVE  RowsTell(Len(audit'), r) /\ ReviewLocks(r)
    <2> HIDE DEF t, r
    <2>1. /\ r.op = t.op /\ r.at = n /\ r.to = t.to /\ r.rule = t.rule
          /\ r.mine = t.mine
      BY <1>4 DEF Moved
    <2>2. Told(r) = Told(t)
      BY <2>1 DEF Told
    <2> QED BY <1>2, <1>4, <2>1, <2>2 DEF RowsTell, ReviewLocks
  <1>5. CASE UpdateRow(w) \/ AddReview(w)
    <2>1. t.at \in {1, 2}
      BY <1>1, <1>5, Statements DEF UpdateRow, AddReview, Doing, Does
    <2>2. t.at + 1 \in 0..8 /\ 0 \in Nat
      BY <2>1
    <2>3. r = [t EXCEPT !.at = t.at + 1, !.locked = TRUE] /\ audit' = audit
      BY <1>1, <1>5 DEF UpdateRow, AddReview
    <2>4. /\ Moved([t EXCEPT !.at = t.at + 1, !.locked = TRUE], t, t.at + 1)
          /\ [t EXCEPT !.at = t.at + 1, !.locked = TRUE].locked
      BY <1>3, <2>2, Zenon
    <2>5. Moved(r, t, t.at + 1) /\ r.locked
      <3> HIDE DEF t, r
      <3> QED BY <2>3, <2>4, Zenon
    <2> QED BY <1>4, <2>2, <2>3, <2>5
  <1>6. CASE FindReview(w) \/ EraseReview(w)
    <2>1. t.at = 1
      BY <1>1, <1>6, Statements DEF FindReview, EraseReview, Doing, Does
    <2>2. t.at + 1 \in 0..8 /\ t.at + 2 \in 0..8 /\ 0 \in Nat /\ ~(t.at + 1 >= 3)
      BY <2>1
    <2>3. \/ r = [t EXCEPT !.at = t.at + 1]
          \/ r = [t EXCEPT !.at = t.at + 1, !.locked = TRUE]
          \/ r = [t EXCEPT !.at = t.at + 2, !.locked = TRUE]
      BY <1>1, <1>6 DEF FindReview, EraseReview
    <2>4. /\ Moved([t EXCEPT !.at = t.at + 1], t, t.at + 1)
          /\ Moved([t EXCEPT !.at = t.at + 1, !.locked = TRUE], t, t.at + 1)
          /\ Moved([t EXCEPT !.at = t.at + 2, !.locked = TRUE], t, t.at + 2)
          /\ [t EXCEPT !.at = t.at + 2, !.locked = TRUE].locked
      BY <1>3, <2>2, Zenon
    <2>5. audit' = audit
      BY <1>6 DEF FindReview, EraseReview
    <2>6. \/ Moved(r, t, t.at + 1)
          \/ Moved(r, t, t.at + 2) /\ r.locked
      <3> HIDE DEF t, r
      <3> QED BY <2>3, <2>4, Zenon
    <2> QED BY <1>4, <2>2, <2>5, <2>6
  <1>7. CASE Count(w)
    <2>1. t.at \in {2, 3, 4, 6} /\ (t.op = "review" => t.at = 3)
      BY <1>1, <1>7, Statements DEF Count, Doing, Does
    <2>2. Cardinality(DOMAIN audit) + Cardinality(DOMAIN t.mine) \in Nat
      <3>1. /\ Cardinality(DOMAIN audit) = Len(audit) /\ Len(audit) \in Nat
            /\ Cardinality(DOMAIN t.mine) = Written(w) /\ Written(w) \in 0..(MaxFiles + 2)
        BY Counted DEF IInv
      <3> QED BY <3>1
    <2>3. t.at + 1 \in 0..8
      BY <2>1
    <2> DEFINE c == Cardinality(DOMAIN audit) + Cardinality(DOMAIN t.mine)
    <2>4. r = [t EXCEPT !.at = t.at + 1, !.count = c] /\ audit' = audit
      BY <1>1, <1>7 DEF Count
    <2> HIDE DEF c
    <2>5. c \in Nat
      BY <2>2 DEF c
    <2>6. /\ Moved([t EXCEPT !.at = t.at + 1, !.count = c], t, t.at + 1)
          /\ [t EXCEPT !.at = t.at + 1, !.count = c].locked = t.locked
      BY <1>3, <2>3, <2>5, Zenon
    <2>7. Moved(r, t, t.at + 1) /\ r.locked = t.locked
      <3> HIDE DEF t, r
      <3> QED BY <2>4, <2>6, Zenon
    <2>8. t.op = "review" /\ t.at + 1 >= 3 => r.locked
      BY <1>2, <2>1, <2>7 DEF ReviewLocks
    <2> QED BY <1>4, <2>3, <2>4, <2>7, <2>8
  <1>8. CASE InsertAudit(w)
    BY <1>8, AuditTells
  <1>9. CASE Begin(w)
    <2>1. r.at = 1 /\ r.mine = << >>
      BY <1>1, <1>9 DEF Begin, Idle
    <2> QED BY <2>1 DEF RowsTell, ReviewLocks
  <1>10. CASE Commit(w) \/ Refuse(w) \/ Fail(w)
    <2>1. r.at = 0 /\ r.mine = << >>
      BY <1>1, <1>10 DEF Commit, Refuse, Fail, Idle
    <2> QED BY <2>1 DEF RowsTell, ReviewLocks
  <1> QED BY <1>5, <1>6, <1>7, <1>8, <1>9, <1>10 DEF Step, Work

\* The rows that a commit adds to the trail, and what it sets.
LEMMA CommitRows ==
  ASSUME IInv, NEW w \in Workers, Commit(w)
  PROVE  /\ Len(audit) \in Nat /\ Written(w) \in Nat /\ DOMAIN audit = 1..Len(audit)
         /\ DOMAIN tx[w].mine = (Len(audit) + 1)..(Len(audit) + Written(w))
         /\ DOMAIN audit' = 1..(Len(audit) + Written(w))
         /\ \A i \in 1..Len(audit) : audit'[i] = audit[i]
         /\ \A i \in DOMAIN tx[w].mine : audit'[i] = tx[w].mine[i]
         /\ tx[w].to \in Targets(tx[w].op)
         /\ tx[w].rule \in IF tx[w].op \in RowOps THEN {"case"} ELSE Rules
         /\ \/ tx[w].op = "patch" /\ Written(w) = 1
            \/ tx[w].op = "attach" /\ Written(w) >= 2
            \/ tx[w].op = "review" /\ tx[w].at = 5 /\ Written(w) = 1
            \/ tx[w].op \in {"validate", "report", "clear"} /\ Written(w) = 0
  <1>1. /\ tx[w] \in Tx /\ tx[w].at <= Len(Program(tx[w].op)) /\ InProgram(w)
    BY DEF IInv, Typed, InProgram
  <1>2. \/ tx[w].op = "patch"  /\ tx[w].at = 4
        \/ tx[w].op = "attach" /\ tx[w].at = 8
        \/ tx[w].op = "review" /\ tx[w].at = 5
        \/ tx[w].op \in {"validate", "report", "clear"} /\ tx[w].at = 2
    BY <1>1, Statements DEF Commit, Doing, Does
  <1>3. /\ tx[w].to \in Targets(tx[w].op)
        /\ tx[w].rule \in IF tx[w].op \in RowOps THEN {"case"} ELSE Rules
    BY <1>1, <1>2 DEF InProgram
  <1>4. \/ tx[w].op = "patch" /\ Written(w) = 1
        \/ tx[w].op = "attach" /\ Written(w) >= 2
        \/ tx[w].op = "review" /\ tx[w].at = 5 /\ Written(w) = 1
        \/ tx[w].op \in {"validate", "report", "clear"} /\ Written(w) = 0
    <2>1. tx[w].files \in Nat
      BY <1>1, MaxFilesAssumption DEF Tx
    <2> QED BY <1>2, <2>1 DEF Written, Wrote
  <1>5. /\ Len(audit) \in Nat /\ DOMAIN audit = 1..Len(audit) /\ Written(w) \in 0..(MaxFiles + 2)
        /\ DOMAIN tx[w].mine = (Len(audit) + 1)..(Len(audit) + Written(w))
    BY Counted DEF IInv
  <1>6. audit' = [i \in DOMAIN audit \cup DOMAIN tx[w].mine |->
                    IF i \in DOMAIN tx[w].mine THEN tx[w].mine[i] ELSE audit[i]]
    BY DEF Commit
  <1>7. DOMAIN audit' = 1..(Len(audit) + Written(w))
    <2>1. 1..Len(audit) \cup (Len(audit) + 1)..(Len(audit) + Written(w))
            = 1..(Len(audit) + Written(w))
      BY <1>5
    <2> QED BY <1>5, <1>6, <2>1
  <1>8. \A i \in 1..Len(audit) : audit'[i] = audit[i]
    BY CommitTrail
  <1>9. \A i \in DOMAIN tx[w].mine : audit'[i] = tx[w].mine[i]
    BY <1>6
  <1> QED BY <1>3, <1>4, <1>5, <1>7, <1>8, <1>9

LEMMA StatusKept ==
  ASSUME IInv, TrailInv, NEW w \in Workers, Commit(w)
  PROVE  StatusMatchesTrail'
  <1> DEFINE t == tx[w]
             n == Len(audit)
             k == Written(w)
             sets == t.op \in RowOps /\ t.to # "keep"
  <1>1. /\ n \in Nat /\ k \in Nat
        /\ DOMAIN audit = 1..n /\ DOMAIN audit' = 1..(n + k)
        /\ DOMAIN t.mine = (n + 1)..(n + k)
        /\ \A i \in 1..n : audit'[i] = audit[i]
        /\ \A i \in (n + 1)..(n + k) : audit'[i] = t.mine[i]
        /\ t.to \in Targets(t.op)
        /\ t.rule \in IF t.op \in RowOps THEN {"case"} ELSE Rules
        /\ \/ t.op = "patch" /\ k = 1
           \/ t.op = "attach" /\ k >= 2
           \/ t.op = "review" /\ k = 1
           \/ t.op \in {"validate", "report", "clear"} /\ k = 0
    BY CommitRows
  <1>2. /\ status' = IF sets THEN t.to ELSE status
        /\ unaudited' = IF sets THEN t.op \in {"validate", "report"} ELSE unaudited
    BY DEF Commit
  <1>3. /\ StatusMatchesTrail
        /\ \A i \in (n + 1)..(n + k) :
             IF i = n + 1 THEN t.mine[i].about = t.rule /\ t.mine[i].value = Told(t)
                          ELSE t.mine[i] \in {FileEvent, LayoutEvent}
    BY <1>1 DEF TrailInv, TrailAccounts, RowsTell
  <1> HIDE DEF n, k, t
  <1>4. /\ k \in Nat
        /\ \A i \in 1..(n + k) : i \in 1..n \/ i \in (n + 1)..(n + k)
    BY <1>1
  <1>5. LayoutEvent.value = "none" /\ FileEvent.value = "none"
    BY DEF LayoutEvent, FileEvent
  <1>6. CASE ~sets /\ unaudited
    BY <1>2, <1>6 DEF StatusMatchesTrail
  <1>7. CASE ~sets /\ ~unaudited
    <2>1. \A i \in (n + 1)..(n + k) :
            ~(audit'[i].about = "case" /\ audit'[i].value # "none")
      <3> SUFFICES ASSUME NEW i \in (n + 1)..(n + k), audit'[i].about = "case"
                   PROVE  audit'[i].value = "none"
        OBVIOUS
      <3>1. CASE i = n + 1
        <4>1. t.op \in RowOps
          BY <1>1, <1>3, <3>1, RulesAssumption
        <4>2. Told(t) = "none"
          BY <1>7, <4>1 DEF Told
        <4> QED BY <1>1, <1>3, <3>1, <4>2
      <3>2. CASE i # n + 1
        BY <1>1, <1>3, <1>5, <3>2
      <3> QED BY <3>1, <3>2
    <2>2. PICK i \in 1..n :
            /\ audit[i].about = "case" /\ audit[i].value # "none"
            /\ audit[i].value = status
            /\ \A j \in 1..n : j > i =>
                 ~(audit[j].about = "case" /\ audit[j].value # "none")
      BY <1>1, <1>3, <1>7 DEF StatusMatchesTrail, Reports
    <2>3. i \in 1..(n + k)
      BY <1>1, <1>4
    <2>4. \A j \in 1..(n + k) : j > i =>
            ~(audit'[j].about = "case" /\ audit'[j].value # "none")
      BY <1>1, <1>4, <2>1, <2>2
    <2>5. status' = status
      BY <1>2, <1>7
    <2> QED BY <1>1, <2>2, <2>3, <2>4, <2>5 DEF StatusMatchesTrail, Reports
  <1>8. CASE sets /\ t.op \in {"validate", "report"}
    BY <1>2, <1>8 DEF StatusMatchesTrail
  <1>9. CASE sets /\ t.op \notin {"validate", "report"}
    <2>1. t.op \in {"patch", "attach"} /\ k >= 1 /\ t.rule = "case"
      BY <1>1, <1>9 DEF RowOps
    <2>2. t.to \in Statuses
      BY <1>1, <1>9, <2>1, PatchAssumption DEF Targets, Statuses
    <2>3. t.to # "none" /\ Told(t) = t.to /\ status' = t.to
      BY <1>2, <1>9, <2>2 DEF Told, Statuses
    <2>4. n + 1 \in (n + 1)..(n + k) /\ n + 1 \in 1..(n + k)
      BY <1>1, <2>1
    <2>5. audit'[n + 1].about = "case" /\ audit'[n + 1].value = t.to
      BY <1>1, <1>3, <2>1, <2>3, <2>4
    <2>6. ASSUME NEW j \in 1..(n + k), j > n + 1
          PROVE  audit'[j].value = "none"
      <3>1. j \in (n + 1)..(n + k) /\ j # n + 1
        BY <1>1, <1>4, <2>6
      <3> QED BY <1>1, <1>3, <1>5, <3>1
    <2> QED BY <1>1, <2>3, <2>4, <2>5, <2>6 DEF StatusMatchesTrail, Reports
  <1> QED BY <1>6, <1>7, <1>8, <1>9

LEMMA ReviewsKept ==
  ASSUME IInv, TrailInv, NEW w \in Workers, Commit(w)
  PROVE  ReviewsMatchTrail'
  <1> DEFINE t == tx[w]
             n == Len(audit)
             k == Written(w)
  <1>1. /\ n \in Nat /\ k \in Nat
        /\ DOMAIN audit = 1..n /\ DOMAIN audit' = 1..(n + k)
        /\ DOMAIN t.mine = (n + 1)..(n + k)
        /\ \A i \in 1..n : audit'[i] = audit[i]
        /\ \A i \in (n + 1)..(n + k) : audit'[i] = t.mine[i]
        /\ t.to \in Targets(t.op)
        /\ t.rule \in IF t.op \in RowOps THEN {"case"} ELSE Rules
        /\ \/ t.op = "patch" /\ k = 1
           \/ t.op = "attach" /\ k >= 2
           \/ t.op = "review" /\ t.at = 5 /\ k = 1
           \/ t.op \in {"validate", "report", "clear"} /\ k = 0
    BY CommitRows
  <1>2. /\ reviews' = IF t.op \notin RowOps /\ t.locked
                      THEN [reviews EXCEPT ![t.rule] = t.to] ELSE reviews
        /\ reviews \in [Rules -> Verdicts \cup {"none"}]
    BY DEF Commit, IInv, Typed
  <1>3. /\ ReviewsMatchTrail /\ ReviewLocks(t)
        /\ \A i \in (n + 1)..(n + k) :
             IF i = n + 1 THEN t.mine[i].about = t.rule /\ t.mine[i].value = Told(t)
                          ELSE t.mine[i] \in {FileEvent, LayoutEvent}
    BY <1>1 DEF TrailInv, TrailAccounts, RowsTell
  <1> HIDE DEF n, k, t
  <1>4. /\ k \in Nat
        /\ \A i \in 1..(n + k) : i \in 1..n \/ i \in (n + 1)..(n + k)
    BY <1>1
  <1>5. ASSUME NEW r \in Rules, reviews'[r] # "none", reviews'[r] = reviews[r],
               t.rule # r
        PROVE  \E i \in DOMAIN audit' :
                 /\ audit'[i].about = r /\ audit'[i].value = reviews'[r]
                 /\ \A j \in DOMAIN audit' : j > i => audit'[j].about # r
    <2>1. PICK i \in 1..n :
            /\ audit[i].about = r /\ audit[i].value = reviews[r]
            /\ \A j \in 1..n : j > i => audit[j].about # r
      BY <1>1, <1>3, <1>5 DEF ReviewsMatchTrail
    <2>2. LayoutEvent.about # r /\ FileEvent.about # r
      BY RulesAssumption DEF LayoutEvent, FileEvent
    <2>3. \A j \in (n + 1)..(n + k) : audit'[j].about # r
      BY <1>1, <1>3, <1>5, <2>2
    <2>4. i \in 1..(n + k) /\ \A j \in 1..(n + k) : j > i => audit'[j].about # r
      BY <1>1, <1>4, <2>1, <2>3
    <2> QED BY <1>1, <1>5, <2>1, <2>4
  <1>6. ASSUME NEW r \in Rules, reviews'[r] # "none"
        PROVE  \E i \in DOMAIN audit' :
                 /\ audit'[i].about = r /\ audit'[i].value = reviews'[r]
                 /\ \A j \in DOMAIN audit' : j > i => audit'[j].about # r
    <2>1. CASE t.op \in RowOps
      <3>1. t.rule # r /\ reviews' = reviews
        BY <1>1, <1>2, <2>1, RulesAssumption
      <3> QED BY <1>5, <1>6, <3>1
    <2>2. CASE t.op \notin RowOps /\ t.rule # r
      <3>1. reviews'[r] = reviews[r]
        BY <1>2, <2>2
      <3> QED BY <1>5, <1>6, <2>2, <3>1
    <2>3. CASE t.op = "clear" /\ t.rule = r
      <3>1. t.to = "none" /\ k = 0
        BY <1>1, <2>3 DEF Targets
      <3>2. reviews' = reviews
        BY <1>2, <1>6, <2>3, <3>1
      <3>3. PICK i \in 1..n :
              /\ audit[i].about = r /\ audit[i].value = reviews[r]
              /\ \A j \in 1..n : j > i => audit[j].about # r
        BY <1>1, <1>3, <1>6, <3>2 DEF ReviewsMatchTrail
      <3>4. DOMAIN audit' = 1..n
        BY <1>1, <3>1
      <3> QED BY <1>1, <3>2, <3>3, <3>4
    <2>4. CASE t.op = "review" /\ t.rule = r
      <3>1. t.locked /\ k = 1 /\ t.op \notin RowOps
        BY <1>1, <1>3, <2>4 DEF ReviewLocks, RowOps
      <3>2. reviews'[r] = t.to
        BY <1>2, <2>4, <3>1
      <3>3. t.to \in Verdicts
        BY <1>1, <2>4 DEF Targets
      <3>4. Told(t) = t.to
        BY <3>3, VerdictAssumption DEF Told
      <3>5. n + 1 \in (n + 1)..(n + k) /\ n + 1 \in 1..(n + k)
        BY <1>1, <3>1
      <3>6. audit'[n + 1].about = r /\ audit'[n + 1].value = t.to
        BY <1>1, <1>3, <2>4, <3>4, <3>5
      <3>7. \A j \in 1..(n + k) : ~(j > n + 1)
        BY <1>1, <3>1
      <3> QED BY <1>1, <3>2, <3>5, <3>6, <3>7
    <2> QED BY <1>1, <2>1, <2>2, <2>3, <2>4 DEF RowOps
  <1> QED BY <1>6 DEF ReviewsMatchTrail

LEMMA TrailStep ==
  ASSUME IInv, IInv', TrailInv, [Next]_vars
  PROVE  TrailInv'
  <1>1. CASE UNCHANGED vars
    BY <1>1 DEF vars, TrailInv, TrailAccounts, StatusMatchesTrail,
                ReviewsMatchTrail, Reports
  <1>2. ASSUME NEW w \in Workers, Step(w)
        PROVE  TrailInv'
    <2>1. RowsTell(Len(audit'), tx'[w]) /\ ReviewLocks(tx'[w])
      BY <1>2, RowsTold
    <2>2. ASSUME NEW v \in Workers \ {w}
          PROVE  RowsTell(Len(audit'), tx'[v]) /\ ReviewLocks(tx'[v])
      <3>1. tx'[v] = tx[v]
        BY <1>2, OthersStay
      <3>2. RowsTell(Len(audit), tx[v]) /\ ReviewLocks(tx[v])
        BY DEF TrailInv
      <3>3. CASE audit' = audit
        BY <3>1, <3>2, <3>3
      <3>4. CASE Commit(w) /\ Written(v) = 0
        <4>1. Len(audit) \in Nat /\ DOMAIN tx[v].mine = (Len(audit) + 1)..(Len(audit) + 0)
          BY <3>4, Counted DEF IInv
        <4>2. DOMAIN tx[v].mine = {}
          BY <4>1
        <4> QED BY <3>1, <3>2, <4>2 DEF RowsTell
      <3>5. CASE Commit(w) /\ Written(v) # 0
        <4>1. Written(v) > 0 /\ Written(w) \in 0..(MaxFiles + 2)
          BY <3>5, Counted DEF IInv
        <4>2. Written(w) = 0
          BY <4>1 DEF IInv, OneHolder
        <4> QED BY <3>1, <3>2, <3>5, <4>2, CommitTrail
      <3>6. audit' = audit \/ Commit(w)
        BY <1>2 DEF Step, Work, Begin, UpdateRow, FindReview, AddReview,
                    EraseReview, Count, InsertAudit, Refuse, Fail
      <3> QED BY <3>3, <3>4, <3>5, <3>6
    <2>3. StatusMatchesTrail' /\ ReviewsMatchTrail'
      <3>1. CASE Commit(w)
        BY <3>1, StatusKept, ReviewsKept
      <3>2. CASE ~Commit(w)
        <4>1. UNCHANGED <<status, audit, reviews, unaudited>>
          BY <1>2, <3>2 DEF Step, Work, Begin, UpdateRow, FindReview, AddReview,
                            EraseReview, Count, InsertAudit, Refuse, Fail
        <4> QED BY <4>1 DEF TrailInv, TrailAccounts, StatusMatchesTrail,
                            ReviewsMatchTrail, Reports
      <3> QED BY <3>1, <3>2
    <2>4. \A v \in Workers : RowsTell(Len(audit'), tx'[v]) /\ ReviewLocks(tx'[v])
      BY <2>1, <2>2
    <2> QED BY <2>3, <2>4 DEF TrailInv, TrailAccounts
  <1> QED BY <1>1, <1>2 DEF Next

LEMMA TrailStarts == Init => TrailInv
  <1> SUFFICES ASSUME Init PROVE TrailInv
    OBVIOUS
  <1>1. \A w \in Workers : RowsTell(Len(audit), tx[w]) /\ ReviewLocks(tx[w])
    BY DEF Init, Idle, RowsTell, ReviewLocks
  <1>2. ReviewsMatchTrail
    BY DEF Init, ReviewsMatchTrail
  <1>3. FirstEvent(status).about = "case" /\ FirstEvent(status).value = status
    BY DEF FirstEvent
  <1>4. LayoutEvent.value = "none" /\ FileEvent.value = "none" /\ status # "none"
    BY DEF Init, LayoutEvent, FileEvent
  <1>5. StatusMatchesTrail
    <2>1. 1 \in DOMAIN audit /\ audit[1] = FirstEvent(status)
      BY FirstTrail
    <2>2. \A j \in DOMAIN audit : j > 1 => audit[j] \in {FileEvent, LayoutEvent}
      BY FirstTrail
    <2> QED BY <1>3, <1>4, <2>1, <2>2 DEF StatusMatchesTrail, Reports
  <1> QED BY <1>1, <1>2, <1>5 DEF TrailInv, TrailAccounts

\* The ledger keeps its types; in particular the committed audit ids of a case
\* are 1..n, although each is a COUNT that other transactions overtake.
THEOREM TypeCorrect == Spec => []TypeOK
  BY Invariant, InvariantTyped, PTL

\* The later events of an upload (those of its files, and layout_detected after
\* them) never collide: the upload's work is not lost to its own late insert.
THEOREM LateEventSafe == Spec => []LateEventNeverCollides
  <1>1. IInv => LateEventNeverCollides
    <2> SUFFICES ASSUME IInv, NEW w \in Workers, Collides(w)
                 PROVE  DOMAIN tx[w].mine = {}
      BY DEF LateEventNeverCollides
    <2>1. /\ Len(audit) \in Nat /\ Written(w) \in 0..(MaxFiles + 2)
          /\ DOMAIN audit = 1..Len(audit)
          /\ DOMAIN tx[w].mine = (Len(audit) + 1)..(Len(audit) + Written(w))
      BY Counted DEF IInv
    <2>2. Written(w) > 0 => tx[w].count = Len(audit) + Written(w)
      BY DEF IInv, CountBehind, Collides
    <2>3. ~(Written(w) > 0)
      BY <2>1, <2>2 DEF Collides, Id
    <2> QED BY <2>1, <2>3
  <1> QED BY <1>1, Invariant, PTL

\* An update or upload loses its audit id only to a rule review: the row of the
\* case, which both take before they count, keeps them apart.
THEOREM OnlyReviewsCollide == Spec => []CollisionIsWithAReview
  <1>1. Init => RowInv
    BY DEF Init, RowInv, InRow, ReviewRows, Idle
  <1>2. IInv /\ IInv' /\ RowInv /\ [Next]_vars => RowInv'
    BY RowStep
  <1>3. IInv /\ RowInv => CollisionIsWithAReview
    <2> SUFFICES ASSUME IInv, RowInv, NEW w \in Workers, Collides(w),
                        tx[w].op \in RowOps
                 PROVE  audit[Id(w)].kind = "rule_reviewed"
      BY DEF CollisionIsWithAReview
    <2>1. tx[w] \in Tx /\ tx[w].at <= Len(Program(tx[w].op))
      BY DEF IInv, Typed, InProgram
    <2>2. tx[w].at > 1 /\ tx[w].count \in Nat
      BY <2>1, Statements DEF Collides, Doing, Does, Tx
    <2>3. OnlyReviewsAfter(audit, tx[w].count)
      BY <2>2 DEF RowInv, InRow, Collides
    <2>4. /\ Len(audit) \in Nat /\ Written(w) \in 0..(MaxFiles + 2)
          /\ DOMAIN audit = 1..Len(audit)
          /\ DOMAIN tx[w].mine = (Len(audit) + 1)..(Len(audit) + Written(w))
      BY Counted DEF IInv
    <2>5. Written(w) > 0 => tx[w].count = Len(audit) + Written(w)
      BY DEF IInv, CountBehind, Collides
    <2>6. Id(w) \in DOMAIN audit
      BY <2>2, <2>4, <2>5 DEF Collides, Id
    <2> QED BY <2>2, <2>3, <2>6 DEF OnlyReviewsAfter, Id
  <1> QED BY <1>1, <1>2, <1>3, Invariant, PTL DEF Spec

\* Status and reviews are what the latest events about them tell, although both
\* are written before their events are numbered and by transactions that overlap.
THEOREM TrailTells == Spec => []TrailAccounts
  <1>1. TrailInv => TrailAccounts
    BY DEF TrailInv
  <1>2. IInv /\ IInv' /\ TrailInv /\ [Next]_vars => TrailInv'
    BY TrailStep
  <1> QED BY <1>1, <1>2, TrailStarts, Invariant, PTL DEF Spec

\* With SQLite no write is ever refused for its audit id: the write lock is
\* taken before the events are counted.
THEOREM SqliteSafe == Spec => []SqliteNeverCollides
  <1>1. Init => (Backend = "sqlite" => LockInv)
    BY DEF Init, LockInv, Idle
  <1>2. IInv /\ IInv' /\ (Backend = "sqlite" => LockInv) /\ [Next]_vars
          => (Backend = "sqlite" => LockInv)'
    BY LockStep
  <1>3. IInv /\ (Backend = "sqlite" => LockInv) => SqliteNeverCollides
    <2> SUFFICES ASSUME IInv, LockInv, Backend = "sqlite", NEW w \in Workers,
                        Collides(w)
                 PROVE  FALSE
      BY DEF SqliteNeverCollides
    <2>1. tx[w] \in Tx /\ tx[w].at <= Len(Program(tx[w].op))
      BY DEF IInv, Typed, InProgram
    <2>2. tx[w].at > 1
      BY <2>1, Statements DEF Collides, Doing, Does
    <2>3. tx[w].count = Len(audit) + Written(w)
      BY <2>2 DEF LockInv, Collides
    <2>4. /\ Len(audit) \in Nat /\ Written(w) \in 0..(MaxFiles + 2)
          /\ DOMAIN audit = 1..Len(audit)
          /\ DOMAIN tx[w].mine = (Len(audit) + 1)..(Len(audit) + Written(w))
      BY Counted DEF IInv
    <2> QED BY <2>3, <2>4 DEF Collides, Id
  <1> QED BY <1>1, <1>2, <1>3, Invariant, PTL DEF Spec

\* A transaction that holds audit rows waits for nobody, so the transactions
\* of a case cannot deadlock.
THEOREM HolderNeverWaits == Spec => []AuditHolderNeverWaits
  <1>1. IInv => AuditHolderNeverWaits
    <2> SUFFICES ASSUME IInv, NEW w \in Workers, DOMAIN tx[w].mine # {}
                 PROVE  ~Waits(w)
      BY DEF AuditHolderNeverWaits
    <2>1. /\ tx[w] \in Tx /\ tx[w].at <= Len(Program(tx[w].op))
          /\ Written(w) \in 0..(MaxFiles + 2) /\ Len(audit) \in Nat
          /\ DOMAIN tx[w].mine = (Len(audit) + 1)..(Len(audit) + Written(w))
      BY Counted DEF IInv, Typed, InProgram
    <2>2. Written(w) > 0
      BY <2>1
    <2>3. tx[w].at \notin {1, 2}
      BY <2>2 DEF Written, Wrote
    <2>4. /\ ~Doing(w, "row") /\ ~Doing(w, "find") /\ ~Doing(w, "erase")
          /\ ~Doing(w, "add")
      BY <2>1, <2>3, Statements DEF Doing, Does
    <2>5. ~WaitsForId(w)
      <3>1. \A v \in Workers \ {w} : Written(v) = 0
        <4>1. \A v \in Workers : Written(v) \in Nat
          BY WroteBounded DEF IInv, Typed, Written
        <4> QED BY <2>2, <4>1 DEF IInv, OneHolder
      <3>2. \A v \in Workers \ {w} : DOMAIN tx[v].mine = {}
        <4>1. \A v \in Workers \ {w} :
                DOMAIN tx[v].mine = (Len(audit) + 1)..(Len(audit) + 0)
          BY <3>1, Counted DEF IInv
        <4> QED BY <2>1, <4>1
      <3> QED BY <3>2 DEF WaitsForId
    <2> QED BY <2>4, <2>5 DEF Waits
  <1> QED BY <1>1, Invariant, PTL

\* The committed audit trail implements the append-only log: whatever the
\* transactions do, committed events are never lost, changed or reordered.
THEOREM TrailImplementsLog == Spec => AppendOnly
  <1>1. Init => Trail!Init
    <2> SUFFICES ASSUME Init PROVE Trail!Init
      OBVIOUS
    <2>1. audit \in Seq(Event)
      BY InitHolds DEF IInv, Typed
    <2>2. Len(audit) \in 1..(MaxFiles + 2)
      BY FirstTrail
    <2> QED BY <2>1, <2>2 DEF Trail!Init, Trail!TypeOK
  <1>2. IInv /\ [Next]_vars => [Trail!Next]_audit
    <2> SUFFICES ASSUME IInv, [Next]_vars, audit' # audit
                 PROVE  Trail!Next
      OBVIOUS
    <2>1. PICK w \in Workers : Commit(w)
      BY DEF Next, Step, Work, vars, Begin, UpdateRow, FindReview, AddReview,
             EraseReview, Count, InsertAudit, Refuse, Fail
    <2>2. /\ audit' \in Seq(Event)
          /\ Len(audit') = Len(audit) + Written(w)
          /\ \A i \in 1..Len(audit) : audit'[i] = audit[i]
          /\ Written(w) # 0
      BY <2>1, CommitTrail
    <2>3. Len(audit) \in Nat /\ Written(w) \in 0..(MaxFiles + 2)
      BY Counted DEF IInv
    <2>4. Len(audit') \in (Len(audit) + 1)..(Len(audit) + (MaxFiles + 2))
      BY <2>2, <2>3, MaxFilesAssumption
    <2> QED BY <2>2, <2>4 DEF Trail!Next, Trail!Record
  <1> QED BY <1>1, <1>2, Invariant, PTL DEF Spec, AppendOnly, Trail!Spec
=============================================================================
