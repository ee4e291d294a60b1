----------------------------- MODULE CaseLedger -----------------------------
(***************************************************************************)
(* The rows the operations on one existing case write, and the order in    *)
(* which concurrent transactions write them: its row in cases (the status),*)
(* its audit_log, its rule reviews.                                        *)
(*                                                                         *)
(*   patch     submissions.update_submission                               *)
(*   attach    intake.process_uploads for an existing case                 *)
(*   validate  the status update after a validation run                    *)
(*   report    the status update after report generation                   *)
(*   review    review.save_rule_review                                     *)
(*   clear     review.clear_rule_review                                    *)
(*                                                                         *)
(* Every operation is one transaction.  PostgreSQL (READ COMMITTED) locks  *)
(* the rows a transaction has written and makes an INSERT wait for an      *)
(* uncommitted row with the same key; SQLite has one write lock, which a   *)
(* transaction takes with its first UPDATE, INSERT or DELETE.  The id of an*)
(* audit event is the number of events of the case plus one.  Operations   *)
(* of different cases share no row.                                        *)
(***************************************************************************)
EXTENDS Naturals, Sequences, FiniteSets

CONSTANTS Workers,     \* request handling threads, of all instances
          Rules,       \* rule keys that are reviewed
          PatchTo,     \* statuses that patches ask for
          Verdicts,    \* verdicts that reviewers give
          Backend,     \* "postgres" or "sqlite"
          MaxFiles,    \* bound: the file events of one upload
          MaxEvents    \* bound: the events after which none are added

Statuses == {"draft", "in_review", "failed", "approved", "submitted"}

ASSUME BackendAssumption == Backend \in {"postgres", "sqlite"}
ASSUME PatchAssumption == PatchTo \subseteq Statuses
ASSUME VerdictAssumption == Verdicts \subseteq {"PASS", "FLAG", "NOT_FOUND"}
ASSUME MaxFilesAssumption == MaxFiles \in Nat \ {0}
ASSUME MaxEventsAssumption == MaxEvents \in Nat
ASSUME RulesAssumption == "case" \notin Rules

VARIABLES status,     \* cases.status
          audit,      \* audit_log: event number -> event, committed
          reviews,    \* case_rule_reviews: rule -> verdict, committed
          unaudited,  \* history: was status last set by an unaudited update?
          tx          \* the operation each worker is executing

vars == <<status, audit, reviews, unaudited, tx>>

RowOps   == {"patch", "attach", "validate", "report"}
Ops      == RowOps \cup {"review", "clear"}

\* file stands for the events of the files and archives of an upload:
\* zip_extracted, file_registered and file_ignored
Kinds == {"submission_created", "case_created", "submission_updated",
          "files_attached", "file", "layout_detected", "rule_reviewed"}

\* value is the status or the verdict the event reports
Event == [kind : Kinds, about : Rules \cup {"case"},
          value : Statuses \cup Verdicts \cup {"none"}]

\* Faults: no audit of a patch; the count before the row lock;
\* the audit before the row lock.
ProgramPatchUnaudited(op) ==
  CASE op = "patch" -> <<"row", "commit">>
    [] op = "attach" -> <<"row", "count", "audit", "count", "audit",
                          "count", "audit", "commit">>
    [] op \in {"validate", "report"} -> <<"row", "commit">>
    [] op = "review" -> <<"find", "add", "count", "audit", "commit">>
    [] op = "clear" -> <<"erase", "commit">>

ProgramCountFirst(op) ==
  CASE op = "patch" -> <<"count", "row", "audit", "commit">>
    [] op = "attach" -> <<"row", "count", "audit", "count", "audit",
                          "count", "audit", "commit">>
    [] op \in {"validate", "report"} -> <<"row", "commit">>
    [] op = "review" -> <<"find", "add", "count", "audit", "commit">>
    [] op = "clear" -> <<"erase", "commit">>

ProgramAuditFirst(op) ==
  CASE op = "patch" -> <<"count", "audit", "row", "commit">>
    [] op = "attach" -> <<"row", "count", "audit", "count", "audit",
                          "count", "audit", "commit">>
    [] op \in {"validate", "report"} -> <<"row", "commit">>
    [] op = "review" -> <<"find", "add", "count", "audit", "commit">>
    [] op = "clear" -> <<"erase", "commit">>

(***************************************************************************)
(* The statements of an operation: row is the UPDATE of cases, count and   *)
(* audit are next_audit_id and insert_audit_event, find and add the UPDATE *)
(* of the review and the INSERT if there was none, erase its DELETE.       *)
(* attach records files_attached, an event for each file and each archive  *)
(* (statements 4 and 5, repeated) and, after the last of them,             *)
(* layout_detected, with UPDATEs of the row it holds already.              *)
(***************************************************************************)
Program(op) ==
  CASE op = "patch" -> <<"row", "count", "audit", "commit">>
    [] op = "attach" -> <<"row", "count", "audit", "count", "audit",
                          "count", "audit", "commit">>
    [] op \in {"validate", "report"} -> <<"row", "commit">>
    [] op = "review" -> <<"find", "add", "count", "audit", "commit">>
    [] op = "clear" -> <<"erase", "commit">>

(***************************************************************************)
(* at is the next statement, 0 when the worker is idle; to the status or   *)
(* verdict to write ("keep": the patch leaves the status alone); locked:   *)
(* does it hold the row it updates?; files: the file events an upload has  *)
(* recorded; mine: its uncommitted audit rows.                             *)
(***************************************************************************)
Idle == [op |-> "clear", at |-> 0, to |-> "keep", rule |-> "case",
         locked |-> FALSE, count |-> 0, files |-> 0, mine |-> << >>]

Doing(w, s) == tx[w].at > 0 /\ Program(tx[w].op)[tx[w].at] = s

\* at sqlite: no other transaction has the write lock
WriteLockFree(w) ==
  Backend = "sqlite" => \A v \in Workers \ {w} : tx[v].at <= 1

CaseRowFree(w) ==
  \A v \in Workers \ {w} : ~(tx[v].locked /\ tx[v].op \in RowOps)

RuleFree(w) ==
  \A v \in Workers \ {w} :
    ~(tx[v].locked /\ tx[v].op \notin RowOps /\ tx[v].rule = tx[w].rule)

-----------------------------------------------------------------------------

\* the statuses an operation may set, or the verdicts
Targets(op) == CASE op = "patch" -> PatchTo \cup {"keep"}
                 [] op \in {"attach", "report"} -> {"in_review"}
                 [] op = "validate" -> {"in_review", "failed"}
                 [] op = "review" -> Verdicts
                 [] op = "clear" -> {"none"}

FirstEvent(s) == [kind |-> IF s = "draft" THEN "submission_created"
                                          ELSE "case_created",
                  about |-> "case", value |-> s]

LayoutEvent == [kind |-> "layout_detected", about |-> "case", value |-> "none"]

FileEvent == [kind |-> "file", about |-> "case", value |-> "none"]

\* the trail of a case created by an upload with n file events
UploadTrail(n) ==
  [i \in 1..(n + 2) |-> CASE i = 1     -> FirstEvent("in_review")
                          [] i = n + 2 -> LayoutEvent
                          [] OTHER     -> FileEvent]

\* the case was created as a draft, or by an upload
Init == /\ \/ status = "draft" /\ audit = <<FirstEvent(status)>>
           \/ status = "in_review" /\ \E n \in 1..MaxFiles : audit = UploadTrail(n)
        /\ reviews = [r \in Rules |-> "none"]
        /\ unaudited = FALSE
        /\ tx = [w \in Workers |-> Idle]

\* the one process of an SQLite installation works on one upload at a time
Begin(w) ==
  /\ tx[w].at = 0
  /\ \E op \in Ops : \E to \in Targets(op) :
     \E r \in IF op \in RowOps THEN {"case"} ELSE Rules :
       /\ Backend = "sqlite" /\ op = "attach" =>
            \A v \in Workers : tx[v].at > 0 => tx[v].op # "attach"
       /\ op \in {"patch", "attach", "review"} =>
            Cardinality(DOMAIN audit) < MaxEvents
       /\ tx' = [tx EXCEPT ![w] = [Idle EXCEPT !.op = op, !.at = 1, !.to = to,
                                               !.rule = r]]
  /\ UNCHANGED <<status, audit, reviews, unaudited>>

\* UPDATE cases ... WHERE case_id = ?
UpdateRow(w) ==
  /\ Doing(w, "row")
  /\ WriteLockFree(w) /\ CaseRowFree(w)
  /\ tx' = [tx EXCEPT ![w] = [@ EXCEPT !.at = tx[w].at + 1, !.locked = TRUE]]
  /\ UNCHANGED <<status, audit, reviews, unaudited>>

\* UPDATE case_rule_reviews: takes the row, or finds none and takes nothing
FindReview(w) ==
  /\ Doing(w, "find")
  /\ WriteLockFree(w)
  /\ \/ /\ reviews[tx[w].rule] # "none"
        /\ RuleFree(w)
        /\ tx' = [tx EXCEPT ![w] = [@ EXCEPT !.at = tx[w].at + 2, !.locked = TRUE]]
     \/ /\ reviews[tx[w].rule] = "none"
        /\ tx' = [tx EXCEPT ![w] = [@ EXCEPT !.at = tx[w].at + 1]]
  /\ UNCHANGED <<status, audit, reviews, unaudited>>

\* INSERT INTO case_rule_reviews
AddReview(w) ==
  /\ Doing(w, "add")
  /\ reviews[tx[w].rule] = "none" /\ RuleFree(w)
  /\ tx' = [tx EXCEPT ![w] = [@ EXCEPT !.at = tx[w].at + 1, !.locked = TRUE]]
  /\ UNCHANGED <<status, audit, reviews, unaudited>>

\* DELETE FROM case_rule_reviews
EraseReview(w) ==
  /\ Doing(w, "erase")
  /\ WriteLockFree(w)
  /\ \/ /\ reviews[tx[w].rule] # "none"
        /\ RuleFree(w)
        /\ tx' = [tx EXCEPT ![w] = [@ EXCEPT !.at = tx[w].at + 1, !.locked = TRUE]]
     \/ /\ reviews[tx[w].rule] = "none"
        /\ tx' = [tx EXCEPT ![w] = [@ EXCEPT !.at = tx[w].at + 1]]
  /\ UNCHANGED <<status, audit, reviews, unaudited>>

\* Fault: the transaction's own rows are not counted.
CountCommitted(w) ==
  /\ Doing(w, "count")
  /\ tx' = [tx EXCEPT ![w] = [@ EXCEPT !.at = tx[w].at + 1,
                                       !.count = Cardinality(DOMAIN audit)]]
  /\ UNCHANGED <<status, audit, reviews, unaudited>>

\* next_audit_id: the committed events of the case and the transaction's own
Count(w) ==
  /\ Doing(w, "count")
  /\ tx' = [tx EXCEPT ![w] = [@ EXCEPT !.at = tx[w].at + 1,
       !.count = Cardinality(DOMAIN audit) + Cardinality(DOMAIN tx[w].mine)]]
  /\ UNCHANGED <<status, audit, reviews, unaudited>>

\* the event the worker's operation records next
NextEvent(w) ==
  LET t == tx[w]
  IN  CASE t.op = "attach" /\ t.at = 5 -> FileEvent
        [] t.op = "attach" /\ t.at = 7 -> LayoutEvent
        [] OTHER -> [kind  |-> CASE t.op = "patch" -> "submission_updated"
                                 [] t.op = "attach" -> "files_attached"
                                 [] OTHER -> "rule_reviewed",
                     about |-> t.rule,
                     value |-> IF t.to = "keep" THEN "none" ELSE t.to]

Id(w) == tx[w].count + 1

\* an INSERT of the worker's next event would meet a row with its id
Collides(w) == Doing(w, "audit") /\ Id(w) \in DOMAIN audit \cup DOMAIN tx[w].mine

\* it has to wait for the end of a transaction with an uncommitted such row
WaitsForId(w) ==
  Doing(w, "audit") /\ \E v \in Workers \ {w} : Id(w) \in DOMAIN tx[v].mine

AddEvent(w) ==
  LET m == tx[w].mine
  IN  [i \in DOMAIN m \cup {Id(w)} |-> IF i = Id(w) THEN NextEvent(w) ELSE m[i]]

\* the transaction t after an event: an upload with more files goes on with
\* the next of them
AfterEvent(t) ==
  IF t.op = "attach" /\ t.at = 5
  THEN {[t EXCEPT !.at = n, !.files = t.files + 1] :
          n \in {6} \cup IF t.files + 1 < MaxFiles THEN {4} ELSE {}}
  ELSE {[t EXCEPT !.at = t.at + 1]}

\* Fault: event_id is not a key.
InsertAuditNoKey(w) ==
  /\ Doing(w, "audit")
  /\ \E t \in AfterEvent(tx[w]) : tx' = [tx EXCEPT ![w] = [t EXCEPT !.mine = AddEvent(w)]]
  /\ UNCHANGED <<status, audit, reviews, unaudited>>

\* insert_audit_event
InsertAudit(w) ==
  /\ Doing(w, "audit")
  /\ ~Collides(w) /\ ~WaitsForId(w)
  /\ \E t \in AfterEvent(tx[w]) : tx' = [tx EXCEPT ![w] = [t EXCEPT !.mine = AddEvent(w)]]
  /\ UNCHANGED <<status, audit, reviews, unaudited>>

Commit(w) ==
  /\ Doing(w, "commit")
  /\ LET t == tx[w]
         sets == t.op \in RowOps /\ t.to # "keep"
     IN  /\ status' = IF sets THEN t.to ELSE status
         /\ unaudited' = IF sets THEN t.op \in {"validate", "report"}
                                 ELSE unaudited
         /\ reviews' = IF t.op \notin RowOps /\ t.locked
                       THEN [reviews EXCEPT ![t.rule] = t.to] ELSE reviews
         /\ audit' = [i \in DOMAIN audit \cup DOMAIN t.mine |->
                        IF i \in DOMAIN t.mine THEN t.mine[i] ELSE audit[i]]
  /\ tx' = [tx EXCEPT ![w] = Idle]

\* an INSERT meets a committed row with its key: UniqueViolation, a rollback
Refuse(w) ==
  /\ \/ Collides(w) /\ ~WaitsForId(w)
     \/ Doing(w, "add") /\ reviews[tx[w].rule] # "none" /\ RuleFree(w)
  /\ tx' = [tx EXCEPT ![w] = Idle]
  /\ UNCHANGED <<status, audit, reviews, unaudited>>

\* an error of the upload, a lock timeout, a crash: the transaction rolls back
Fail(w) ==
  /\ tx[w].at > 0
  /\ tx' = [tx EXCEPT ![w] = Idle]
  /\ UNCHANGED <<status, audit, reviews, unaudited>>

\* the next statement of a transaction, and its end
Work(w) == \/ UpdateRow(w)
           \/ FindReview(w)
           \/ AddReview(w)
           \/ EraseReview(w)
           \/ Count(w)
           \/ InsertAudit(w)
           \/ Refuse(w)
           \/ Commit(w)

Step(w) == Begin(w) \/ Work(w) \/ Fail(w)

Next == \E w \in Workers : Step(w)

Spec == Init /\ [][Next]_vars

\* PostgreSQL queues the waiters of a lock: none is passed over for ever
FairSpec == Spec /\ \A w \in Workers : SF_vars(Work(w))

-----------------------------------------------------------------------------

\* Type invariant of the ledger: the audit trail is a sequence, without gaps.
TypeOK == /\ status \in Statuses
          /\ audit \in Seq(Event)
          /\ reviews \in [Rules -> Verdicts \cup {"none"}]
          /\ unaudited \in BOOLEAN
          /\ \A w \in Workers :
               /\ tx[w].op \in Ops /\ tx[w].at \in 0..Len(Program(tx[w].op))
               /\ tx[w].at > 0 => tx[w].to \in Targets(tx[w].op)
               /\ tx[w].rule \in Rules \cup {"case"}
               /\ tx[w].locked \in BOOLEAN /\ tx[w].count \in Nat
               /\ tx[w].files \in 0..MaxFiles
               /\ \A i \in DOMAIN tx[w].mine : tx[w].mine[i] \in Event

\* The audit trail as the operations' callers may rely on it (AuditLog): what is
\* committed only ever grows at the end, whatever the transactions do, by all the
\* events of an operation at once: those of an upload are two more than its files
\* and archives have.
Trail == INSTANCE AuditLog WITH log <- audit, Most <- MaxFiles + 2
AppendOnly == Trail!Spec

(***************************************************************************)
(* A transaction that has written an audit row never waits for another:    *)
(* nothing can deadlock (update_submission, process_uploads and            *)
(* save_rule_review take the row of the case or of the rule first).        *)
(***************************************************************************)
Waits(w) == \/ Doing(w, "row") /\ ~(WriteLockFree(w) /\ CaseRowFree(w))
            \/ Doing(w, "find") /\ ~(WriteLockFree(w) /\ RuleFree(w))
            \/ Doing(w, "erase") /\ ~(WriteLockFree(w) /\ RuleFree(w))
            \/ Doing(w, "add") /\ ~RuleFree(w)
            \/ WaitsForId(w)

AuditHolderNeverWaits ==
  \A w \in Workers : DOMAIN tx[w].mine # {} => ~Waits(w)

(***************************************************************************)
(* Every transaction ends by itself, without a timeout and whatever the    *)
(* others do: it commits or is refused for its key.                        *)
(***************************************************************************)
EveryOperationEnds == \A w \in Workers : tx[w].at > 0 ~> tx[w].at = 0

(***************************************************************************)
(* The late events of an upload are safe: once files_attached is inserted, *)
(* the events of its files and layout_detected, minutes later, cannot meet *)
(* another event with their ids, so the work of the upload is not lost to a*)
(* unique violation.                                                       *)
(***************************************************************************)
LateEventNeverCollides ==
  \A w \in Workers : Collides(w) => DOMAIN tx[w].mine = {}

(***************************************************************************)
(* The lock on the row of the case orders its writers: an update or upload *)
(* loses its audit id only to a rule review, never to another update or    *)
(* upload (save_rule_review does not touch the row).                       *)
(***************************************************************************)
CollisionIsWithAReview ==
  \A w \in Workers :
    Collides(w) /\ tx[w].op \in RowOps => audit[Id(w)].kind = "rule_reviewed"

(***************************************************************************)
(* SQLite needs no more than its write lock: every operation takes it      *)
(* before it counts the events, so no write is ever refused for its id.    *)
(***************************************************************************)
SqliteNeverCollides == Backend = "sqlite" => \A w \in Workers : ~Collides(w)

(***************************************************************************)
(* Writes and their audit events commit in the same order: unless the last *)
(* write of the status was one that records no event (validation, report), *)
(* the status is the one the latest event that reports a status tells.     *)
(***************************************************************************)
Reports(i) == audit[i].about = "case" /\ audit[i].value # "none"

StatusMatchesTrail ==
  ~unaudited =>
    \E i \in DOMAIN audit :
      /\ Reports(i) /\ audit[i].value = status
      /\ \A j \in DOMAIN audit : j > i => ~Reports(j)

(***************************************************************************)
(* A review in force is the one the latest rule_reviewed event of its rule *)
(* reports, whoever reviewed and cleared the rule concurrently.            *)
(***************************************************************************)
ReviewsMatchTrail ==
  \A r \in Rules : reviews[r] # "none" =>
    \E i \in DOMAIN audit :
      /\ audit[i].about = r /\ audit[i].value = reviews[r]
      /\ \A j \in DOMAIN audit : j > i => audit[j].about # r

\* The audit trail accounts for the state of the case.
TrailAccounts == StatusMatchesTrail /\ ReviewsMatchTrail

=============================================================================
