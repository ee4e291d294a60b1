------------------------ MODULE CaseAllocationProofs ------------------------
(***************************************************************************)
(* Proofs about CaseAllocation, for every set of workers and instances and *)
(* every bound.  The two families of properties have inductive invariants  *)
(* of their own: NumberInv for the PPAP numbers, which needs only what the *)
(* database guarantees, and ClaimInv for the case directories, which needs *)
(* that all workers share one disk.                                        *)
(***************************************************************************)
EXTENDS CaseAllocation, TLAPS

USE HostAssumption, BackendAssumption, DiskAssumption, BoundAssumption

\* the cases a request may still insert keep away from the committed ones
OpenInv ==
  \A w \in Workers : req[w].pc = "open" =>
    /\ req[w].cid \notin RowIds
    /\ \A v \in Workers : req[v].pc = "open" /\ v # w
                            => req[v].cid # req[w].cid

\* the request has read its PPAP number
Numbered(w) == \/ req[w].pc \in {"insert", "open"}
               \/ req[w].pc = "mkdir" /\ req[w].op = "create"

\* what a request knows about the numbers at the time it took its own
RequestNumbers ==
  \A w \in Workers : Numbered(w) =>
    /\ req[w].num # 0
    /\ \A k \in 1..(req[w].num - 1) : k \in Numbers(req[w].year)
    /\ req[w].known \subseteq RowIds
    /\ \A r \in rows : r.id \in req[w].known /\ r.year = req[w].year
                         => r.num < req[w].num

\* a case that was committed before another read its number has a smaller one
RowNumbers ==
  \A r, q \in rows :
    r.id \in q.known /\ r.year = q.year => r.num < q.num

KnownRows == \A q \in rows : q.known \subseteq RowIds

\* the primary key of the table
CaseIdsUnique == \A r, q \in rows : r.id = q.id => r = q

NumberInv == /\ TypeOK
             /\ OpenInv
             /\ CaseIdsUnique
             /\ RequestNumbers
             /\ KnownRows
             /\ RowNumbers
             /\ PpapNumbersGapless

\* every worker runs on the same instance
SingleHost == \A v, w \in Workers : Host(v) = Host(w)

\* a claimed directory exists
ClaimsOnDisk == \A w \in Workers : Claimed(w) => req[w].cid \in dirs[Host(w)]

\* a committed case the request did not read is on the disk it scans
RowsSeen ==
  \A w \in Workers : \A c \in RowIds :
    /\ req[w].pc = "scan" => c \in dirs[Host(w)] \/ c <= req[w].top
    /\ Choosing(w) => c \in dirs[Host(w)] \/ c < req[w].cid

ChoiceRivals ==
  \A w \in Workers :
    Choosing(w) /\ req[w].cid \in dirs[Host(w)] => req[w].rival

ClaimInv == /\ TypeOK
            /\ ClaimsOnDisk
            /\ InsertNeverCollides
            /\ RowsSeen
            /\ ChoiceRivals

-----------------------------------------------------------------------------

LEMMA IdleType == Idle \in Request
  BY DEF Idle, Request, Phases

\* A request that moves on and learns its case id, or its PPAP number.
LEMMA RequestUpdate ==
  ASSUME NEW q \in Request, NEW n \in Nat, NEW y \in Nat, NEW k \in SUBSET Nat,
         NEW p \in Phases
  PROVE  /\ [q EXCEPT !.pc = p, !.cid = n] \in Request
         /\ [q EXCEPT !.pc = p, !.year = y, !.num = n, !.known = k] \in Request
  BY DEF Request

LEMMA RowTypes ==
  ASSUME TypeOK
  PROVE  /\ RowIds \subseteq Nat
         /\ \A y : Numbers(y) \subseteq Nat
  BY DEF TypeOK, RowIds, Numbers, Row

\* The allocation state keeps its types; a chosen case id is never zero.
THEOREM TypeCorrect == Spec => []TypeOK
<1>1. Init => TypeOK
  BY IdleType DEF Init, TypeOK, Claimed, Choosing, Idle
<1>2. TypeOK /\ [Next]_vars => TypeOK'
  <2> SUFFICES ASSUME TypeOK, [Next]_vars PROVE TypeOK'
    OBVIOUS
  <2> USE DEF TypeOK
  <2>0. \A w \in Workers : req[w] \in Request
    OBVIOUS
  <2>1. ASSUME NEW w \in Workers, NEW o \in {"create", "upload"}, Begin(w, o)
        PROVE  TypeOK'
    BY <2>1 DEF Begin, Request, Phases, Claimed, Choosing
  <2>2. ASSUME NEW w \in Workers, ReadRows(w) PROVE TypeOK'
    <3>1. PICK m \in RowIds \cup {0} :
                 req' = [req EXCEPT ![w] = [@ EXCEPT !.pc = "scan", !.top = m]]
      BY <2>2 DEF ReadRows
    <3>2. m \in Nat
      BY RowTypes
    <3>3. [req[w] EXCEPT !.pc = "scan", !.top = m] \in Request
      BY <2>0, <3>2 DEF Request, Phases
    <3> QED BY <2>2, <3>1, <3>3 DEF ReadRows, Claimed, Choosing
  <2>3. ASSUME NEW w \in Workers, ScanDirs(w) PROVE TypeOK'
    <3>1. PICK m \in dirs[Host(w)] \cup {req[w].top} :
                 req' = [req EXCEPT ![w] =
                   [@ EXCEPT !.pc = AfterScan(w),
                             !.cid = m + 1]]
      BY <2>3 DEF ScanDirs
    <3>2. m \in Nat /\ m + 1 \in Nat \ {0} /\ AfterScan(w) \in Phases
      BY <2>0 DEF Host, Request, Phases, AfterScan, Phases
    <3>3. [req[w] EXCEPT !.pc = AfterScan(w), !.cid = m + 1] \in Request
      BY <2>0, <3>2, RequestUpdate
    <3>4. req' \in [Workers -> Request]
      BY <3>1, <3>3
    <3>5. req'[w].cid = m + 1 /\ \A v \in Workers \ {w} : req'[v] = req[v]
      BY <2>0, <3>1 DEF Request, Phases
    <3> QED BY <2>3, <3>2, <3>4, <3>5 DEF ScanDirs, Claimed, Choosing
  <2>4. ASSUME NEW w \in Workers, ReadPpap(w) PROVE TypeOK'
    <3>1. PICK m \in Numbers(year) \cup {0} :
                 req' = [req EXCEPT ![w] =
                   [@ EXCEPT !.pc = AfterPpap(w),
                             !.year = year, !.num = m + 1, !.known = RowIds]]
      BY <2>4 DEF ReadPpap
    <3>2. m + 1 \in Nat /\ RowIds \in SUBSET Nat /\ AfterPpap(w) \in Phases
      BY RowTypes DEF AfterPpap, Phases
    <3>3. [req[w] EXCEPT !.pc = AfterPpap(w), !.year = year, !.num = m + 1,
                         !.known = RowIds] \in Request
      BY <2>0, <3>2, RequestUpdate
    <3>4. req' \in [Workers -> Request]
      BY <3>1, <3>3
    <3>5. /\ req'[w].cid = req[w].cid
          /\ \A v \in Workers \ {w} : req'[v] = req[v]
      BY <2>0, <3>1 DEF Request, Phases
    <3>6. Choosing(w) \/ Claimed(w)
      BY <2>0, <2>4 DEF ReadPpap, Choosing, Claimed, Request, Phases
    <3> QED BY <2>4, <3>4, <3>5, <3>6 DEF ReadPpap, Claimed, Choosing
  <2>5. ASSUME NEW w \in Workers, MakeDirs(w) PROVE TypeOK'
    BY <2>5 DEF MakeDirs, Host, Request, Phases, AfterMkdir, Claimed, Choosing
  <2>6. ASSUME NEW w \in Workers, Insert(w) PROVE TypeOK'
    BY <2>6 DEF Insert, Request, Phases, Claimed, Choosing
  <2>7. ASSUME NEW w \in Workers, Commit(w) PROVE TypeOK'
    BY <2>7, IdleType DEF Commit, Request, Phases, Row, Claimed, Choosing, Idle
  <2>8. ASSUME NEW w \in Workers, Fail(w) PROVE TypeOK'
    BY <2>8, IdleType DEF Fail, Claimed, Choosing, Idle
  <2>9. ASSUME NEW i \in Instances, Restart(i) PROVE TypeOK'
    BY <2>9, IdleType DEF Restart, Claimed, Choosing, Idle
  <2>10. ASSUME NEW i \in Instances, NEW c \in RowIds, Touch(i, c) PROVE TypeOK'
    BY <2>10 DEF Touch, RowIds, Row, Claimed, Choosing
  <2>11. CASE NewYear
    BY <2>11 DEF NewYear, Claimed, Choosing
  <2>12. CASE UNCHANGED vars
    BY <2>12 DEF vars, Claimed, Choosing
  <2>13. CASE Next
    BY <2>13, <2>1, <2>2, <2>3, <2>4, <2>5, <2>6, <2>7, <2>8, <2>9, <2>10, <2>11
       DEF Next, Step
  <2> QED BY <2>12, <2>13
<1> QED BY <1>1, <1>2, PTL DEF Spec

-----------------------------------------------------------------------------
(* What each step does to the requests, field by field. *)

Others(w) == \A v \in Workers \ {w} : req'[v] = req[v]

LEMMA BeginEffect ==
  ASSUME TypeOK, NEW w \in Workers, NEW o \in {"create", "upload"}, Begin(w, o)
  PROVE  rows' = rows /\ dirs' = dirs /\ Others(w) /\ req'[w].pc = "rows"
  BY DEF TypeOK, Begin, Others, Request

LEMMA ReadRowsEffect ==
  ASSUME TypeOK, NEW w \in Workers, ReadRows(w)
  PROVE  /\ rows' = rows /\ dirs' = dirs /\ Others(w) /\ req'[w].pc = "scan"
         /\ \A c \in RowIds : c <= req'[w].top
  BY DEF TypeOK, ReadRows, IsTop, Others, Request

LEMMA ScanDirsEffect ==
  ASSUME TypeOK, NEW w \in Workers, ScanDirs(w)
  PROVE  /\ rows' = rows /\ dirs' = dirs /\ Others(w)
         /\ req[w].pc = "scan" /\ req'[w].pc = AfterScan(w)
         /\ req'[w].op = req[w].op
         /\ req[w].top < req'[w].cid
         /\ \A c \in dirs[Host(w)] : c < req'[w].cid
<1>1. PICK m \in dirs[Host(w)] \cup {req[w].top} :
        /\ IsTop(m, dirs[Host(w)] \cup {req[w].top})
        /\ req' = [req EXCEPT ![w] =
             [@ EXCEPT !.pc = AfterScan(w), !.cid = m + 1]]
  BY DEF ScanDirs
<1>2. dirs[Host(w)] \subseteq Nat /\ req[w].top \in Nat
  BY DEF TypeOK, Host, Request
<1>3. m \in Nat /\ \A c \in dirs[Host(w)] \cup {req[w].top} : c < m + 1
  BY <1>1, <1>2 DEF IsTop
<1>4. req'[w].cid = m + 1
  BY <1>1 DEF TypeOK, Request
<1> QED BY <1>1, <1>3, <1>4 DEF ScanDirs, TypeOK, Others, Request

LEMMA ReadPpapEffect ==
  ASSUME TypeOK, NEW w \in Workers, ReadPpap(w)
  PROVE  /\ rows' = rows /\ dirs' = dirs /\ Others(w)
         /\ req[w].pc = "ppap" /\ req'[w].pc = AfterPpap(w)
         /\ req'[w].op = req[w].op /\ req'[w].cid = req[w].cid
         /\ req'[w].rival = req[w].rival
         /\ req'[w].year = year /\ req'[w].known = RowIds
         /\ req'[w].num - 1 \in Numbers(year) \cup {0}
         /\ \A k \in Numbers(year) : k < req'[w].num
         /\ req'[w].num \in Nat \ {0}
<1>1. PICK m \in Numbers(year) \cup {0} :
        /\ IsTop(m, Numbers(year))
        /\ req' = [req EXCEPT ![w] =
             [@ EXCEPT !.pc = AfterPpap(w), !.year = year, !.num = m + 1,
                       !.known = RowIds]]
  BY DEF ReadPpap
<1>2. m \in Nat /\ Numbers(year) \subseteq Nat
  BY RowTypes
<1>3. req'[w].num = m + 1
  BY <1>1 DEF TypeOK, Request
<1>4. \A k \in Numbers(year) : k < m + 1
  BY <1>1, <1>2 DEF IsTop
<1>5. m + 1 \in Nat \ {0} /\ (m + 1) - 1 = m
  BY <1>2
<1>6. /\ rows' = rows /\ dirs' = dirs /\ Others(w)
      /\ req[w].pc = "ppap" /\ req'[w].pc = AfterPpap(w)
      /\ req'[w].op = req[w].op /\ req'[w].cid = req[w].cid
      /\ req'[w].rival = req[w].rival
      /\ req'[w].year = year /\ req'[w].known = RowIds
  BY <1>1 DEF ReadPpap, TypeOK, Others, Request
<1> QED BY <1>3, <1>4, <1>5, <1>6

LEMMA MakeDirsEffect ==
  ASSUME TypeOK, NEW w \in Workers, MakeDirs(w)
  PROVE  /\ rows' = rows
         /\ req[w].pc = "mkdir" /\ req'[w].pc = AfterMkdir(w)
         /\ req[w].cid \notin dirs[Host(w)]
         /\ dirs'[Host(w)] = dirs[Host(w)] \cup {req[w].cid}
         /\ \A v \in Workers :
              /\ v # w => req'[v].pc = req[v].pc
              /\ req'[v].op = req[v].op /\ req'[v].cid = req[v].cid
              /\ req'[v].top = req[v].top /\ req'[v].year = req[v].year
              /\ req'[v].num = req[v].num /\ req'[v].known = req[v].known
              /\ v # w /\ Choosing(v) /\ Host(v) = Host(w) => req'[v].rival
  BY DEF TypeOK, MakeDirs, Host, Request

LEMMA InsertEffect ==
  ASSUME TypeOK, NEW w \in Workers, Insert(w)
  PROVE  /\ rows' = rows /\ dirs' = dirs /\ Others(w)
         /\ req[w].pc = "insert" /\ req'[w].pc = "open"
         /\ req'[w].op = req[w].op /\ req'[w].cid = req[w].cid
         /\ req'[w].year = req[w].year /\ req'[w].num = req[w].num
         /\ req'[w].known = req[w].known
         /\ req[w].cid \notin RowIds
         /\ \A v \in Workers \ {w} : req[v].pc = "open" => req[v].cid # req[w].cid
  BY DEF TypeOK, Insert, Others, Request

LEMMA IdsOfOneMore ==
  ASSUME NEW S, NEW x
  PROVE  {r.id : r \in S \cup {x}} = {r.id : r \in S} \cup {x.id}
  OBVIOUS

LEMMA CommitEffect ==
  ASSUME TypeOK, NEW w \in Workers, Commit(w)
  PROVE  /\ dirs' = dirs /\ Others(w)
         /\ req[w].pc = "open" /\ req'[w].pc = "idle"
         /\ rows' = rows \cup {[id |-> req[w].cid, year |-> req[w].year,
                                num |-> req[w].num, known |-> req[w].known]}
         /\ RowIds' = RowIds \cup {req[w].cid}
<1>1. rows' = rows \cup {[id |-> req[w].cid, year |-> req[w].year,
                          num |-> req[w].num, known |-> req[w].known]}
  BY DEF Commit
<1>2. RowIds' = RowIds \cup {req[w].cid}
  BY <1>1, IdsOfOneMore DEF RowIds
<1> QED BY <1>1, <1>2 DEF TypeOK, Commit, Others, Idle

LEMMA FailEffect ==
  ASSUME TypeOK, NEW w \in Workers, Fail(w)
  PROVE  rows' = rows /\ dirs' = dirs /\ Others(w) /\ req'[w].pc = "idle"
  BY DEF TypeOK, Fail, Others, Idle

LEMMA RestartEffect ==
  ASSUME TypeOK, NEW i \in Instances, Restart(i)
  PROVE  /\ rows' = rows
         /\ \A w \in Workers :
              \/ Host(w) = i /\ req'[w].pc = "idle"
              \/ Host(w) # i /\ req'[w] = req[w] /\ dirs'[Host(w)] = dirs[Host(w)]
  BY DEF TypeOK, Restart, Host, Idle

-----------------------------------------------------------------------------
(* The PPAP numbers. *)

\* No row is added and no request gets a number: the invariant stays.
LEMMA NumbersKept ==
  ASSUME NumberInv, TypeOK', rows' = rows,
         \A w \in Workers :
           /\ Numbered(w)' => Numbered(w)
           /\ req'[w].pc = "open" => req[w].pc = "open"
           /\ Numbered(w)' => /\ req'[w].cid = req[w].cid
                              /\ req'[w].year = req[w].year
                              /\ req'[w].num = req[w].num
                              /\ req'[w].known = req[w].known
  PROVE  NumberInv'
<1>1. RowIds' = RowIds /\ \A y : Numbers(y)' = Numbers(y)
  BY DEF RowIds, Numbers
<1>2. OpenInv'
  BY <1>1 DEF NumberInv, OpenInv, Numbered
<1>3. RequestNumbers'
  BY <1>1 DEF NumberInv, RequestNumbers
<1> QED BY <1>1, <1>2, <1>3 DEF NumberInv, CaseIdsUnique, KnownRows, RowNumbers,
                              PpapNumbersGapless

LEMMA NumbersRead ==
  ASSUME NumberInv, TypeOK', NEW w \in Workers, ReadPpap(w)
  PROVE  NumberInv'
<1> USE DEF NumberInv
<1>1. TypeOK
  OBVIOUS
<1>2. /\ rows' = rows /\ Others(w)
      /\ req[w].pc = "ppap" /\ req'[w].pc = AfterPpap(w)
      /\ req'[w].year = year /\ req'[w].known = RowIds
      /\ req'[w].num - 1 \in Numbers(year) \cup {0}
      /\ \A k \in Numbers(year) : k < req'[w].num
      /\ req'[w].num \in Nat \ {0}
  BY <1>1, ReadPpapEffect
<1>3. RowIds' = RowIds /\ \A y : Numbers(y)' = Numbers(y)
  BY <1>2 DEF RowIds, Numbers
<1>4. OpenInv'
  BY <1>2, <1>3 DEF OpenInv, Others, AfterPpap
<1>5. \A k \in 1..(req'[w].num - 1) : k \in Numbers(year)
  <2>1. CASE req'[w].num - 1 = 0
    BY <2>1
  <2>2. CASE req'[w].num - 1 \in Numbers(year)
    <3>1. PICK r \in rows : r.year = year /\ r.num = req'[w].num - 1
      BY <2>2 DEF Numbers
    <3> QED BY <3>1 DEF PpapNumbersGapless
  <2> QED BY <1>2, <2>1, <2>2
<1>6. \A r \in rows : r.year = year => r.num < req'[w].num
  BY <1>2 DEF Numbers
<1>7. RequestNumbers'
  BY <1>2, <1>3, <1>5, <1>6 DEF RequestNumbers, Others, Numbered
<1> QED BY <1>2, <1>3, <1>4, <1>7 DEF CaseIdsUnique, KnownRows, RowNumbers,
                                      PpapNumbersGapless

LEMMA NumbersInserted ==
  ASSUME NumberInv, TypeOK', NEW w \in Workers, Insert(w)
  PROVE  NumberInv'
<1> USE DEF NumberInv
<1>1. TypeOK
  OBVIOUS
<1>2. /\ rows' = rows /\ Others(w)
      /\ req[w].pc = "insert" /\ req'[w].pc = "open"
      /\ req'[w].op = req[w].op /\ req'[w].cid = req[w].cid
      /\ req'[w].year = req[w].year /\ req'[w].num = req[w].num
      /\ req'[w].known = req[w].known
      /\ req[w].cid \notin RowIds
      /\ \A v \in Workers \ {w} : req[v].pc = "open" => req[v].cid # req[w].cid
  BY <1>1, InsertEffect
<1>3. RowIds' = RowIds /\ \A y : Numbers(y)' = Numbers(y)
  BY <1>2 DEF RowIds, Numbers
<1>4. OpenInv'
  BY <1>2, <1>3 DEF OpenInv, Others
<1>5. \A v \in Workers : /\ Numbered(v)' => Numbered(v)
                         /\ req'[v].year = req[v].year /\ req'[v].num = req[v].num
                         /\ req'[v].known = req[v].known
  BY <1>2 DEF Others, Numbered
<1>6. RequestNumbers'
  BY <1>2, <1>3, <1>5 DEF RequestNumbers
<1> QED BY <1>2, <1>3, <1>4, <1>6 DEF CaseIdsUnique, KnownRows, RowNumbers,
                                      PpapNumbersGapless

LEMMA NumbersCommitted ==
  ASSUME NumberInv, TypeOK', NEW w \in Workers, Commit(w)
  PROVE  NumberInv'
<1> USE DEF NumberInv
<1> DEFINE new == [id |-> req[w].cid, year |-> req[w].year,
                   num |-> req[w].num, known |-> req[w].known]
<1>1. TypeOK
  OBVIOUS
<1>2. /\ Others(w) /\ req[w].pc = "open" /\ req'[w].pc = "idle"
      /\ rows' = rows \cup {new}
      /\ RowIds' = RowIds \cup {req[w].cid}
  BY <1>1, CommitEffect
<1>3. /\ req[w].cid \notin RowIds
      /\ \A v \in Workers \ {w} : req[v].pc = "open" => req[v].cid # req[w].cid
  BY <1>2 DEF OpenInv
<1>4. /\ new.id = req[w].cid /\ new.year = req[w].year
      /\ new.num = req[w].num /\ new.known = req[w].known
  OBVIOUS
<1> HIDE DEF new
<1>5. /\ req[w].num # 0
      /\ \A k \in 1..(req[w].num - 1) : k \in Numbers(req[w].year)
      /\ req[w].known \subseteq RowIds
      /\ \A r \in rows : r.id \in req[w].known /\ r.year = req[w].year
                           => r.num < req[w].num
  BY <1>2 DEF RequestNumbers, Numbered
<1>6. \A r \in rows : r.id \in RowIds
  BY DEF RowIds
<1>7. \A y : Numbers(y) \subseteq Numbers(y)'
  BY <1>2 DEF Numbers
<1>8. \A y : y = new.year => new.num \in Numbers(y)'
  BY <1>2 DEF Numbers
<1>9. OpenInv'
  BY <1>2, <1>3 DEF OpenInv, Others
<1>10. CaseIdsUnique'
  BY <1>2, <1>3, <1>4, <1>6 DEF CaseIdsUnique
<1>11. RequestNumbers'
  <2> SUFFICES ASSUME NEW v \in Workers, Numbered(v)'
               PROVE  /\ req'[v].num # 0
                      /\ \A k \in 1..(req'[v].num - 1) : k \in Numbers(req[v].year)'
                      /\ req'[v].known \subseteq RowIds'
                      /\ \A r \in rows' :
                           r.id \in req'[v].known /\ r.year = req'[v].year
                             => r.num < req'[v].num
    BY DEF RequestNumbers
  <2>1. v # w /\ req'[v] = req[v]
    BY <1>2 DEF Others, Numbered
  <2>2. Numbered(v)
    BY <2>1 DEF Numbered
  <2>3. new.id \notin req[v].known
    BY <1>3, <1>4, <2>2 DEF RequestNumbers
  <2> QED BY <1>2, <1>7, <2>1, <2>2, <2>3 DEF RequestNumbers
<1>12. KnownRows'
  BY <1>2, <1>4, <1>5 DEF KnownRows
<1>13. RowNumbers'
  <2> SUFFICES ASSUME NEW r \in rows', NEW q \in rows',
                      r.id \in q.known, r.year = q.year
               PROVE  r.num < q.num
    BY DEF RowNumbers
  <2>1. r.id \in RowIds
    BY <1>2, <1>4, <1>5 DEF KnownRows
  <2>2. r \in rows
    BY <1>2, <1>3, <1>4, <2>1
  <2> QED BY <1>2, <1>4, <1>5, <2>2 DEF RowNumbers
<1>14. PpapNumbersGapless'
  <2> SUFFICES ASSUME NEW r \in rows', NEW k \in 1..r.num
               PROVE  k \in Numbers(r.year)'
    BY DEF PpapNumbersGapless
  <2>1. CASE r \in rows
    BY <1>7, <2>1 DEF PpapNumbersGapless
  <2>2. CASE r = new
    <3>1. req[w].num \in Nat
      BY <1>1 DEF TypeOK, Request
    <3>2. k = req[w].num \/ k \in 1..(req[w].num - 1)
      BY <1>4, <2>2, <3>1
    <3> QED BY <1>4, <1>5, <1>7, <1>8, <2>2, <3>2
  <2> QED BY <1>2, <2>1, <2>2
<1> QED BY <1>9, <1>10, <1>11, <1>12, <1>13, <1>14

LEMMA NumberInductive == NumberInv /\ TypeOK' /\ [Next]_vars => NumberInv'
<1> SUFFICES ASSUME NumberInv, TypeOK', [Next]_vars PROVE NumberInv'
  OBVIOUS
<1>0. TypeOK
  BY DEF NumberInv
<1>1. ASSUME NEW w \in Workers, NEW o \in {"create", "upload"}, Begin(w, o)
      PROVE  NumberInv'
  BY <1>0, <1>1, BeginEffect, NumbersKept DEF Others, Numbered
<1>2. ASSUME NEW w \in Workers, ReadRows(w) PROVE NumberInv'
  BY <1>0, <1>2, ReadRowsEffect, NumbersKept DEF Others, Numbered
<1>3. ASSUME NEW w \in Workers, ScanDirs(w) PROVE NumberInv'
  BY <1>0, <1>3, ScanDirsEffect, NumbersKept DEF Others, Numbered, AfterScan
<1>4. ASSUME NEW w \in Workers, ReadPpap(w) PROVE NumberInv'
  BY <1>4, NumbersRead
<1>5. ASSUME NEW w \in Workers, MakeDirs(w) PROVE NumberInv'
  BY <1>0, <1>5, MakeDirsEffect, NumbersKept DEF Numbered, AfterMkdir
<1>6. ASSUME NEW w \in Workers, Insert(w) PROVE NumberInv'
  BY <1>6, NumbersInserted
<1>7. ASSUME NEW w \in Workers, Commit(w) PROVE NumberInv'
  BY <1>7, NumbersCommitted
<1>8. ASSUME NEW w \in Workers, Fail(w) PROVE NumberInv'
  BY <1>0, <1>8, FailEffect, NumbersKept DEF Others, Numbered
<1>9. ASSUME NEW i \in Instances, Restart(i) PROVE NumberInv'
  BY <1>0, <1>9, RestartEffect, NumbersKept DEF Numbered
<1>10. ASSUME NEW i \in Instances, NEW c \in RowIds, Touch(i, c) PROVE NumberInv'
  BY <1>10, NumbersKept DEF Touch, Numbered
<1>11. CASE NewYear
  BY <1>11, NumbersKept DEF NewYear, Numbered
<1>12. CASE UNCHANGED vars
  BY <1>12, NumbersKept DEF vars, Numbered
<1> QED
  BY <1>1, <1>2, <1>3, <1>4, <1>5, <1>6, <1>7, <1>8, <1>9, <1>10, <1>11, <1>12
  DEF Next, Step

LEMMA NumberInvariant == Spec => []NumberInv
<1>1. Init => NumberInv
  BY IdleType DEF Init, NumberInv, TypeOK, Claimed, Choosing, Idle, OpenInv,
     CaseIdsUnique, RequestNumbers, Numbered, KnownRows, RowNumbers,
     PpapNumbersGapless
<1> QED BY <1>1, NumberInductive, TypeCorrect, PTL DEF Spec

\* The PPAP numbers of a year are always 1..n: a failed request skips none.
THEOREM GaplessNumbers == Spec => []PpapNumbersGapless
  BY NumberInvariant, PTL DEF NumberInv

\* Two cases share a PPAP id only if their creations overlapped.
THEOREM SharedOnlyByOverlap == Spec => []PpapSharedOnlyByOverlap
<1>1. NumberInv => PpapSharedOnlyByOverlap
  <2> SUFFICES ASSUME NumberInv, NEW r \in rows, NEW q \in rows,
                      r.year = q.year, r.num = q.num, r.id \in q.known
               PROVE  FALSE
    BY DEF PpapSharedOnlyByOverlap
  <2>1. r.num < q.num
    BY DEF NumberInv, RowNumbers
  <2>2. r.num \in Nat /\ q.num \in Nat
    BY DEF NumberInv, TypeOK, Row
  <2> QED BY <2>1, <2>2
<1> QED BY <1>1, NumberInvariant, PTL

-----------------------------------------------------------------------------
(* The case directories, when all workers share one disk. *)

\* Nothing is claimed, chosen or stored: the invariant stays.
LEMMA ClaimsKept ==
  ASSUME ClaimInv, TypeOK', RowIds' = RowIds,
         \A w \in Workers :
           /\ dirs'[Host(w)] = dirs[Host(w)] \/ req'[w].pc = "idle"
           /\ Claimed(w)' => Claimed(w) /\ req'[w].cid = req[w].cid
           /\ Choosing(w)' => /\ Choosing(w)
                              /\ req'[w].cid = req[w].cid
                              /\ req'[w].rival = req[w].rival
           /\ req'[w].pc = "scan" => req[w].pc = "scan" /\ req'[w].top = req[w].top
  PROVE  ClaimInv'
<1> USE DEF ClaimInv
<1>1. \A w \in Workers :
        Claimed(w)' \/ Choosing(w)' \/ req'[w].pc = "scan"
          => dirs'[Host(w)] = dirs[Host(w)]
  BY DEF Claimed, Choosing
<1>2. ClaimsOnDisk'
  BY <1>1 DEF ClaimsOnDisk, Host
<1>3. InsertNeverCollides'
  BY DEF InsertNeverCollides
<1>4. RowsSeen'
  BY <1>1 DEF RowsSeen, Host
<1>5. ChoiceRivals'
  BY <1>1 DEF ChoiceRivals, Host
<1> QED BY <1>2, <1>3, <1>4, <1>5

LEMMA ClaimsScanned ==
  ASSUME ClaimInv, TypeOK', NEW w \in Workers, ScanDirs(w)
  PROVE  ClaimInv'
<1> USE DEF ClaimInv
<1>1. TypeOK
  OBVIOUS
<1>2. /\ rows' = rows /\ dirs' = dirs /\ Others(w)
      /\ req[w].pc = "scan" /\ req'[w].pc = AfterScan(w)
      /\ req'[w].op = req[w].op
      /\ req[w].top < req'[w].cid
      /\ \A c \in dirs[Host(w)] : c < req'[w].cid
  BY <1>1, ScanDirsEffect
<1>3. RowIds' = RowIds /\ RowIds \subseteq Nat
  BY <1>1, <1>2, RowTypes DEF RowIds
<1>4. ~Claimed(w)' /\ req'[w].pc # "scan"
  BY <1>2 DEF Claimed, AfterScan
<1>5. \A v \in Workers \ {w} : /\ Claimed(v)' = Claimed(v)
                               /\ Choosing(v)' = Choosing(v)
  BY <1>2 DEF Others, Claimed, Choosing
<1>6. ClaimsOnDisk'
  BY <1>2, <1>4, <1>5 DEF ClaimsOnDisk, Host, Others
<1>7. InsertNeverCollides'
  BY <1>2, <1>3, <1>4, <1>5 DEF InsertNeverCollides, Others
<1>8. \A c \in RowIds : c \in dirs[Host(w)] \/ c < req'[w].cid
  <2> SUFFICES ASSUME NEW c \in RowIds, c <= req[w].top PROVE c < req'[w].cid
    BY <1>2 DEF RowsSeen
  <2>1. c \in Nat /\ req[w].top \in Nat /\ req'[w].cid \in Nat
    BY <1>1, <1>3 DEF TypeOK, Request
  <2> QED BY <1>2, <2>1
<1>9. RowsSeen'
  BY <1>2, <1>3, <1>4, <1>5, <1>8 DEF RowsSeen, Host, Others
<1>10. req'[w].cid \notin dirs[Host(w)]
  <2>1. req'[w].cid \in Nat
    BY DEF TypeOK, Request
  <2> QED BY <1>2, <2>1
<1>11. ChoiceRivals'
  BY <1>2, <1>5, <1>10 DEF ChoiceRivals, Host, Others
<1> QED BY <1>6, <1>7, <1>9, <1>11

LEMMA ClaimsRowsRead ==
  ASSUME ClaimInv, TypeOK', NEW w \in Workers, ReadRows(w)
  PROVE  ClaimInv'
<1> USE DEF ClaimInv
<1>1. TypeOK
  OBVIOUS
<1>2. /\ rows' = rows /\ dirs' = dirs /\ Others(w) /\ req'[w].pc = "scan"
      /\ \A c \in RowIds : c <= req'[w].top
  BY <1>1, ReadRowsEffect
<1>3. RowIds' = RowIds
  BY <1>2 DEF RowIds
<1>4. ~Claimed(w)' /\ ~Choosing(w)'
  BY <1>2 DEF Claimed, Choosing
<1>5. \A v \in Workers \ {w} : /\ Claimed(v)' = Claimed(v)
                               /\ Choosing(v)' = Choosing(v)
  BY <1>2 DEF Others, Claimed, Choosing
<1>6. ClaimsOnDisk' /\ InsertNeverCollides' /\ ChoiceRivals'
  BY <1>2, <1>3, <1>4, <1>5 DEF ClaimsOnDisk, InsertNeverCollides, ChoiceRivals,
     Host, Others
<1>7. RowsSeen'
  BY <1>2, <1>3, <1>4, <1>5 DEF RowsSeen, Host, Others
<1> QED BY <1>6, <1>7

LEMMA ClaimsMade ==
  ASSUME SingleHost, ClaimInv, TypeOK', NEW w \in Workers, MakeDirs(w)
  PROVE  ClaimInv'
<1> USE DEF ClaimInv
<1>1. TypeOK
  OBVIOUS
<1>2. /\ rows' = rows
      /\ req[w].pc = "mkdir" /\ req'[w].pc = AfterMkdir(w)
      /\ req[w].cid \notin dirs[Host(w)]
      /\ dirs'[Host(w)] = dirs[Host(w)] \cup {req[w].cid}
      /\ \A v \in Workers :
           /\ v # w => req'[v].pc = req[v].pc
           /\ req'[v].op = req[v].op /\ req'[v].cid = req[v].cid
           /\ req'[v].top = req[v].top
           /\ v # w /\ Choosing(v) /\ Host(v) = Host(w) => req'[v].rival
  BY <1>1, MakeDirsEffect
<1>3. RowIds' = RowIds /\ RowIds \subseteq Nat
  BY <1>1, <1>2, RowTypes DEF RowIds
<1>4. \A v \in Workers : Host(v) = Host(w)
  BY DEF SingleHost
<1>5. \A v \in Workers \ {w} : /\ Claimed(v)' = Claimed(v)
                               /\ Choosing(v)' = Choosing(v)
  BY <1>2 DEF Claimed, Choosing
<1>6. ~Choosing(w)' /\ Choosing(w) /\ req'[w].pc # "scan"
  BY <1>2 DEF Choosing, AfterMkdir
<1>7. ClaimsOnDisk'
  BY <1>2, <1>4, <1>5 DEF ClaimsOnDisk, Host
<1>8. req[w].cid \notin RowIds
  <2>1. req[w].cid \in Nat
    BY <1>1 DEF TypeOK, Request
  <2> QED BY <1>2, <1>3, <1>6, <2>1 DEF RowsSeen
<1>9. \A v \in Workers \ {w} : Claimed(v) => req[v].cid # req[w].cid
  BY <1>2, <1>4 DEF ClaimsOnDisk
<1>10. InsertNeverCollides'
  BY <1>2, <1>3, <1>5, <1>8, <1>9 DEF InsertNeverCollides
<1>11. RowsSeen'
  <2> SUFFICES ASSUME NEW v \in Workers, NEW c \in RowIds
               PROVE  /\ req'[v].pc = "scan" =>
                           c \in dirs'[Host(v)] \/ c <= req'[v].top
                      /\ Choosing(v)' => c \in dirs'[Host(v)] \/ c < req'[v].cid
    BY <1>3 DEF RowsSeen, Host
  <2>1. dirs[Host(v)] \subseteq dirs'[Host(v)]
    BY <1>2, <1>4
  <2> QED BY <1>2, <1>5, <1>6, <2>1 DEF RowsSeen
<1>12. ChoiceRivals'
  BY <1>2, <1>4, <1>5, <1>6 DEF ChoiceRivals, Host
<1> QED BY <1>7, <1>10, <1>11, <1>12

LEMMA ClaimsCommitted ==
  ASSUME SingleHost, ClaimInv, TypeOK', NEW w \in Workers, Commit(w)
  PROVE  ClaimInv'
<1> USE DEF ClaimInv
<1>1. TypeOK
  OBVIOUS
<1>2. /\ dirs' = dirs /\ Others(w)
      /\ req[w].pc = "open" /\ req'[w].pc = "idle"
      /\ RowIds' = RowIds \cup {req[w].cid}
  BY <1>1, CommitEffect
<1>3. \A v \in Workers : Host(v) = Host(w)
  BY DEF SingleHost
<1>4. \A v \in Workers \ {w} : /\ Claimed(v)' = Claimed(v)
                               /\ Choosing(v)' = Choosing(v)
  BY <1>2 DEF Others, Claimed, Choosing
<1>5. ~Claimed(w)' /\ ~Choosing(w)' /\ Claimed(w)
  BY <1>2 DEF Claimed, Choosing
<1>6. req[w].cid \in dirs[Host(w)]
  BY <1>5 DEF ClaimsOnDisk
<1>7. ClaimsOnDisk' /\ ChoiceRivals'
  BY <1>2, <1>4, <1>5 DEF ClaimsOnDisk, ChoiceRivals, Host, Others
<1>8. InsertNeverCollides'
  BY <1>2, <1>4, <1>5 DEF InsertNeverCollides, Others
<1>9. RowsSeen'
  BY <1>2, <1>3, <1>4, <1>5, <1>6 DEF RowsSeen, Host, Others
<1> QED BY <1>7, <1>8, <1>9

LEMMA ClaimsTouched ==
  ASSUME ClaimInv, TypeOK', NEW i \in Instances, NEW c \in RowIds, Touch(i, c)
  PROVE  ClaimInv'
<1> USE DEF ClaimInv
<1>1. rows' = rows /\ req' = req /\ RowIds' = RowIds
  BY DEF Touch, RowIds
<1>2. \A w \in Workers : /\ Claimed(w)' = Claimed(w)
                         /\ Choosing(w)' = Choosing(w)
  BY <1>1 DEF Claimed, Choosing
<1>3. \A w \in Workers : \/ dirs'[Host(w)] = dirs[Host(w)]
                         \/ dirs'[Host(w)] = dirs[Host(w)] \cup {c}
  BY DEF Touch, TypeOK, Host
<1>4. ClaimsOnDisk'
  BY <1>1, <1>2, <1>3 DEF ClaimsOnDisk, Host
<1>5. InsertNeverCollides'
  BY <1>1, <1>2 DEF InsertNeverCollides
<1>6. RowsSeen'
  BY <1>1, <1>2, <1>3 DEF RowsSeen, Host
<1>7. ChoiceRivals'
  <2> SUFFICES ASSUME NEW w \in Workers, Choosing(w), req[w].cid \in dirs'[Host(w)]
               PROVE  req[w].rival
    BY <1>1, <1>2 DEF ChoiceRivals, Host
  <2>1. CASE req[w].cid \in dirs[Host(w)]
    BY <2>1 DEF ChoiceRivals
  <2>2. CASE req[w].cid = c
    <3>1. req[w].cid \in Nat
      BY DEF TypeOK, Request
    <3> QED BY <2>2, <3>1 DEF RowsSeen, ChoiceRivals
  <2> QED BY <1>3, <2>1, <2>2
<1> QED BY <1>4, <1>5, <1>6, <1>7

LEMMA ClaimInductive ==
  SingleHost /\ ClaimInv /\ TypeOK' /\ [Next]_vars => ClaimInv'
<1> SUFFICES ASSUME SingleHost, ClaimInv, TypeOK', [Next]_vars PROVE ClaimInv'
  OBVIOUS
<1>0. TypeOK
  BY DEF ClaimInv
<1>1. ASSUME NEW w \in Workers, NEW o \in {"create", "upload"}, Begin(w, o)
      PROVE  ClaimInv'
  BY <1>0, <1>1, BeginEffect, ClaimsKept DEF Others, Claimed, Choosing, RowIds
<1>2. ASSUME NEW w \in Workers, ReadRows(w) PROVE ClaimInv'
  BY <1>2, ClaimsRowsRead
<1>3. ASSUME NEW w \in Workers, ScanDirs(w) PROVE ClaimInv'
  BY <1>3, ClaimsScanned
<1>4. ASSUME NEW w \in Workers, ReadPpap(w) PROVE ClaimInv'
  <2>1. req[w].op \in {"create", "upload"}
    BY <1>0 DEF TypeOK, Request
  <2> QED BY <1>0, <1>4, <2>1, ReadPpapEffect, ClaimsKept
          DEF Others, Claimed, Choosing, RowIds, AfterPpap
<1>5. ASSUME NEW w \in Workers, MakeDirs(w) PROVE ClaimInv'
  BY <1>5, ClaimsMade
<1>6. ASSUME NEW w \in Workers, Insert(w) PROVE ClaimInv'
  BY <1>0, <1>6, InsertEffect, ClaimsKept DEF Others, Claimed, Choosing, RowIds
<1>7. ASSUME NEW w \in Workers, Commit(w) PROVE ClaimInv'
  BY <1>7, ClaimsCommitted
<1>8. ASSUME NEW w \in Workers, Fail(w) PROVE ClaimInv'
  BY <1>0, <1>8, FailEffect, ClaimsKept DEF Others, Claimed, Choosing, RowIds
<1>9. ASSUME NEW i \in Instances, Restart(i) PROVE ClaimInv'
  BY <1>0, <1>9, RestartEffect, ClaimsKept DEF Claimed, Choosing, RowIds
<1>10. ASSUME NEW i \in Instances, NEW c \in RowIds, Touch(i, c) PROVE ClaimInv'
  BY <1>10, ClaimsTouched
<1>11. CASE NewYear
  BY <1>11, ClaimsKept DEF NewYear, Claimed, Choosing, RowIds
<1>12. CASE UNCHANGED vars
  BY <1>12, ClaimsKept DEF vars, Claimed, Choosing, RowIds
<1> QED
  BY <1>1, <1>2, <1>3, <1>4, <1>5, <1>6, <1>7, <1>8, <1>9, <1>10, <1>11, <1>12
  DEF Next, Step

LEMMA ClaimInvariant ==
  ASSUME SingleHost
  PROVE  Spec => []ClaimInv
<1>1. Init => ClaimInv
  BY IdleType DEF Init, ClaimInv, TypeOK, Claimed, Choosing, Idle, ClaimsOnDisk,
     InsertNeverCollides, RowsSeen, ChoiceRivals, RowIds
<1>2. ClaimInv /\ TypeOK' /\ [Next]_vars => ClaimInv'
  BY ClaimInductive
<1> QED BY <1>1, <1>2, TypeCorrect, PTL DEF Spec

\* With one instance, the INSERT of a request that has made its directory never
\* meets another row with the same case id.
THEOREM DirectoryIsTheLock ==
  ASSUME SingleHost
  PROVE  Spec => []InsertNeverCollides
  BY ClaimInvariant, PTL DEF ClaimInv

\* With one instance, mkdir fails only if another request made a directory since
\* the scan: directories left by rolled back requests never block a new one.
THEOREM OnlyRivalsBlock ==
  ASSUME SingleHost
  PROVE  Spec => []ClaimFailsOnlyToARival
<1>1. ClaimInv => ClaimFailsOnlyToARival
  BY DEF ClaimInv, ChoiceRivals, ClaimFailsOnlyToARival, Choosing
<1> QED BY <1>1, ClaimInvariant, PTL

=============================================================================
