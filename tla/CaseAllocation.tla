--------------------------- MODULE CaseAllocation ---------------------------
(***************************************************************************)
(* How a request that opens a new case obtains its two identifiers: the    *)
(* case id (directory and primary key) and the human readable PPAP id.     *)
(*                                                                         *)
(*   create   POST /api/submissions   submissions.create_submission        *)
(*   upload   POST /api/upload        intake.process_uploads, no case_id   *)
(*                                                                         *)
(* Sync handlers run on a thread pool, so requests of one server instance  *)
(* interleave at every statement.  The upload handler runs on the event    *)
(* loop and does not yield: while it works, requests that are on a thread  *)
(* go on, and no other request of the instance starts.  An instance has a  *)
(* disk of its own, all instances share the database.  A SELECT sees what  *)
(* is committed when it runs, a request writes in one transaction, and an  *)
(* exception or a crash rolls the transaction back but leaves the disk.    *)
(***************************************************************************)
EXTENDS Naturals

CONSTANTS Workers,      \* request handling threads
          Instances,    \* running server instances
          HostOf,       \* the instance a worker belongs to
          Backend,      \* "postgres" or "sqlite" (db.connect)
          DurableDisk,  \* does the disk of an instance survive a restart?
          MaxCase,      \* bound on the case ids explored
          MaxYear       \* bound on the years explored

ASSUME HostAssumption == HostOf \in [Workers -> Instances]
ASSUME BackendAssumption == Backend \in {"postgres", "sqlite"}
ASSUME DiskAssumption == DurableDisk \in BOOLEAN
ASSUME BoundAssumption == MaxCase \in Nat /\ MaxYear \in Nat \ {0}

VARIABLES rows,   \* committed rows of the cases table
          dirs,   \* case directories under cases_dir, by instance
          year,   \* the current UTC year
          req     \* the request each worker is serving

vars == <<rows, dirs, year, req>>

(***************************************************************************)
(* known is a history value: the cases committed when the PPAP number was  *)
(* read.  rival is one too: has another request of the same instance made  *)
(* a directory since this one scanned for a free id?                       *)
(***************************************************************************)
Row == [id : Nat, year : Nat, num : Nat, known : SUBSET Nat]

Phases == {"idle", "rows", "scan", "ppap", "mkdir", "insert", "open"}

Request == [pc : Phases,
            op : {"create", "upload"}, top : Nat, cid : Nat,
            year : Nat, num : Nat, known : SUBSET Nat, rival : BOOLEAN]

Idle == [pc |-> "idle", op |-> "create", top |-> 0, cid |-> 0,
         year |-> 0, num |-> 0, known |-> {}, rival |-> FALSE]

RowIds == {r.id : r \in rows}

\* the numbers that follow the prefix "PPAP-<y>-" in the committed rows
Numbers(y) == {r.num : r \in {q \in rows : q.year = y}}

\* max(S, default=0)
IsTop(m, S) == m \in S \cup {0} /\ \A x \in S : x <= m

Host(w) == HostOf[w]

\* the request has made its directory and has not ended
Claimed(w) == \/ req[w].pc \in {"insert", "open"}
              \/ req[w].pc = "ppap" /\ req[w].op = "upload"

\* the request knows its case id and has not made the directory yet
Choosing(w) == \/ req[w].pc = "mkdir"
               \/ req[w].pc = "ppap" /\ req[w].op = "create"

\* create reads the PPAP number before it makes the directory, upload after
AfterScan(w)  == IF req[w].op = "create" THEN "ppap"   ELSE "mkdir"
AfterPpap(w)  == IF req[w].op = "create" THEN "mkdir"  ELSE "insert"
AfterMkdir(w) == IF req[w].op = "create" THEN "insert" ELSE "ppap"

-----------------------------------------------------------------------------

Init == /\ rows = {}
        /\ dirs = [i \in Instances |-> {}]
        /\ year = 1
        /\ req = [w \in Workers |-> Idle]

Begin(w, o) ==
  /\ req[w].pc = "idle"
  /\ \A v \in Workers : Host(v) = Host(w) /\ req[v].pc # "idle"
                          => req[v].op = "create"
  /\ req' = [req EXCEPT ![w] = [@ EXCEPT !.pc = "rows", !.op = o]]
  /\ UNCHANGED <<rows, dirs, year>>

\* next_case_id, first half: SELECT case_id FROM cases
ReadRows(w) ==
  /\ req[w].pc = "rows"
  /\ \E m \in RowIds \cup {0} :
       /\ IsTop(m, RowIds)
       /\ req' = [req EXCEPT ![w] = [@ EXCEPT !.pc = "scan", !.top = m]]
  /\ UNCHANGED <<rows, dirs, year>>

\* Fault: the disk is not scanned.
ScanDirsRowsOnly(w) ==
  /\ req[w].pc = "scan"
  /\ req[w].top < MaxCase
  /\ req' = [req EXCEPT ![w] =
       [@ EXCEPT !.pc = AfterScan(w), !.cid = req[w].top + 1]]
  /\ UNCHANGED <<rows, dirs, year>>

\* next_case_id, second half: the numeric directories of this instance's disk
ScanDirs(w) ==
  /\ req[w].pc = "scan"
  /\ \E m \in dirs[Host(w)] \cup {req[w].top} :
       /\ IsTop(m, dirs[Host(w)] \cup {req[w].top})
       /\ m < MaxCase
       /\ req' = [req EXCEPT ![w] =
            [@ EXCEPT !.pc = AfterScan(w), !.cid = m + 1]]
  /\ UNCHANGED <<rows, dirs, year>>

\* Faults: the number is the case id; the last number is used again.
ReadPpapCaseId(w) ==
  /\ req[w].pc = "ppap"
  /\ req' = [req EXCEPT ![w] =
       [@ EXCEPT !.pc = AfterPpap(w), !.year = year, !.num = req[w].cid,
                 !.known = RowIds]]
  /\ UNCHANGED <<rows, dirs, year>>

ReadPpapLast(w) ==
  /\ req[w].pc = "ppap"
  /\ \E m \in Numbers(year) \cup {0} :
       /\ IsTop(m, Numbers(year))
       /\ req' = [req EXCEPT ![w] =
            [@ EXCEPT !.pc = AfterPpap(w), !.year = year,
                      !.num = IF m = 0 THEN 1 ELSE m, !.known = RowIds]]
  /\ UNCHANGED <<rows, dirs, year>>

\* next_ppap_id
ReadPpap(w) ==
  /\ req[w].pc = "ppap"
  /\ \E m \in Numbers(year) \cup {0} :
       /\ IsTop(m, Numbers(year))
       /\ req' = [req EXCEPT ![w] =
            [@ EXCEPT !.pc = AfterPpap(w), !.year = year, !.num = m + 1,
                      !.known = RowIds]]
  /\ UNCHANGED <<rows, dirs, year>>

\* Fault: exist_ok=True.
MakeDirsExistOk(w) ==
  /\ req[w].pc = "mkdir"
  /\ dirs' = [dirs EXCEPT ![Host(w)] = @ \cup {req[w].cid}]
  /\ req' = [v \in Workers |->
               IF v = w
               THEN [req[w] EXCEPT !.pc = AfterMkdir(w)]
               ELSE IF Choosing(v) /\ Host(v) = Host(w)
               THEN [req[v] EXCEPT !.rival = TRUE]
               ELSE req[v]]
  /\ UNCHANGED <<rows, year>>

\* raw_case_dir.mkdir(parents=True, exist_ok=False), then the work directory
MakeDirs(w) ==
  /\ req[w].pc = "mkdir"
  /\ req[w].cid \notin dirs[Host(w)]
  /\ dirs' = [dirs EXCEPT ![Host(w)] = @ \cup {req[w].cid}]
  /\ req' = [v \in Workers |->
               IF v = w
               THEN [req[w] EXCEPT !.pc = AfterMkdir(w)]
               ELSE IF Choosing(v) /\ Host(v) = Host(w)
               THEN [req[v] EXCEPT !.rival = TRUE]
               ELSE req[v]]
  /\ UNCHANGED <<rows, year>>

(***************************************************************************)
(* insert_case and the first audit event.  case_id is the primary key:     *)
(* PostgreSQL waits for an uncommitted row with the same key and refuses a *)
(* committed one; SQLite waits for every other open write transaction.     *)
(***************************************************************************)
Insert(w) ==
  /\ req[w].pc = "insert"
  /\ req[w].cid \notin RowIds
  /\ \A v \in Workers \ {w} :
       req[v].pc = "open" => Backend = "postgres" /\ req[v].cid # req[w].cid
  /\ req' = [req EXCEPT ![w] = [@ EXCEPT !.pc = "open"]]
  /\ UNCHANGED <<rows, dirs, year>>

\* conn.commit(), after the rest of the request's work
Commit(w) ==
  /\ req[w].pc = "open"
  /\ rows' = rows \cup {[id |-> req[w].cid, year |-> req[w].year,
                         num |-> req[w].num, known |-> req[w].known]}
  /\ req' = [req EXCEPT ![w] = Idle]
  /\ UNCHANGED <<dirs, year>>

(***************************************************************************)
(* Any exception: FileExistsError of mkdir, a unique violation, a lock     *)
(* timeout, an unreadable upload, a lost connection.  closing(connect())   *)
(* rolls the transaction back; nothing removes the directories.            *)
(***************************************************************************)
Fail(w) ==
  /\ req[w].pc # "idle"
  /\ req' = [req EXCEPT ![w] = Idle]
  /\ UNCHANGED <<rows, dirs, year>>

\* files attached to a committed case, or ensure_case_local, on this instance
Touch(i, c) ==
  /\ c \in RowIds
  /\ dirs' = [dirs EXCEPT ![i] = @ \cup {c}]
  /\ UNCHANGED <<rows, year, req>>

\* the instance crashes or is replaced; its open transactions roll back
Restart(i) ==
  /\ req' = [w \in Workers |-> IF Host(w) = i THEN Idle ELSE req[w]]
  /\ dirs' = [dirs EXCEPT ![i] = IF DurableDisk THEN @ ELSE {}]
  /\ UNCHANGED <<rows, year>>

NewYear ==
  /\ year < MaxYear
  /\ year' = year + 1
  /\ UNCHANGED <<rows, dirs, req>>

Step(w) == \/ \E o \in {"create", "upload"} : Begin(w, o)
           \/ ReadRows(w)
           \/ ScanDirs(w)
           \/ ReadPpap(w)
           \/ MakeDirs(w)
           \/ Insert(w)
           \/ Commit(w)
           \/ Fail(w)

Next == \/ \E w \in Workers : Step(w)
        \/ \E i \in Instances : Restart(i)
        \/ \E i \in Instances : \E c \in RowIds : Touch(i, c)
        \/ NewYear

Spec == Init /\ [][Next]_vars

-----------------------------------------------------------------------------

\* Type invariant of the allocation state (rows of cases, directories, requests).
TypeOK == /\ rows \subseteq Row
          /\ dirs \in [Instances -> SUBSET Nat]
          /\ year \in Nat
          /\ req \in [Workers -> Request]
          /\ \A w \in Workers : Claimed(w) \/ Choosing(w) => req[w].cid # 0

(***************************************************************************)
(* On a deployment with one instance the directory works as the lock of    *)
(* the case id: once mkdir has succeeded, the INSERT of create_submission  *)
(* and process_uploads can never meet a committed or uncommitted row with  *)
(* the same case id, whatever the disk lost before.                        *)
(***************************************************************************)
InsertNeverCollides ==
  \A w \in Workers : Claimed(w) =>
    /\ req[w].cid \notin RowIds
    /\ \A v \in Workers : Claimed(v) /\ req[v].cid = req[w].cid => v = w

(***************************************************************************)
(* Directories of rolled back requests never make a later request fail:    *)
(* mkdir (exist_ok=False) finds its directory present only if another      *)
(* request of the instance made one after this request scanned the disk.   *)
(***************************************************************************)
ClaimFailsOnlyToARival ==
  \A w \in Workers :
    req[w].pc = "mkdir" /\ req[w].cid \in dirs[Host(w)] => req[w].rival

(***************************************************************************)
(* PPAP numbers of a year are never skipped, whatever requests fail: the   *)
(* committed numbers are an initial segment 1..n (next_ppap_id).           *)
(***************************************************************************)
PpapNumbersGapless ==
  \A r \in rows : \A k \in 1..r.num : k \in Numbers(r.year)

(***************************************************************************)
(* next_ppap_id takes no lock and the ppap_id column is not unique, so two *)
(* cases can share a PPAP id; they do so only if neither was committed     *)
(* when the other read its number, that is, if their creations overlapped. *)
(***************************************************************************)
PpapSharedOnlyByOverlap ==
  \A r, q \in rows :
    r.year = q.year /\ r.num = q.num => r.id \notin q.known

=============================================================================
