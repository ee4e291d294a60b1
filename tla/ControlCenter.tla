---------------------------- MODULE ControlCenter ----------------------------
(***************************************************************************)
(* One browser window on the submissions (frontend/app.js): which case its *)
(* parts show, and for which case the server hears what the user does.     *)
(*                                                                         *)
(* A click starts an asynchronous handler.  It sends a request, is resumed *)
(* by the answer and renders it, and sends the next request; the path of   *)
(* every request is built from state.caseId (or state.ppapId, set with it) *)
(* as it is when the request is sent.  Slots are the handlers that may be  *)
(* under way at once: one for a user who waits for every answer.           *)
(*                                                                         *)
(* A human decision is one that differs from the status the model gave.    *)
(* Severity and issues are rendered together with the review and are not   *)
(* state of their own, and the status of a submission is left out.         *)
(* createSubmission is an openSubmission of a case that has no validation. *)
(* The user does not edit while decisions are being saved.                 *)
(***************************************************************************)
EXTENDS Naturals

CONSTANTS Cases, NoCase, Rules,
          Slots,
          Validated,    \* the cases that are validated when the window opens
          MaxFailures   \* requests that fail, or whose answer is lost

ASSUME NoCaseAssumption == NoCase \notin Cases
ASSUME ValidatedAssumption == Validated \subseteq Cases
ASSUME FailuresAssumption == MaxFailures \in Nat

VARIABLES
  validated,          \* cases with a validation on the server
  decided,            \* review rows: the case on the screen when it was saved
  reported,           \* the rules a report calls decided by a human
  saved,              \* history: the rules saved for the case of the payload
                      \* since it was loaded that it does not mark hasHuman
  open,               \* state.caseId and state.ppapId
  header, matrix,     \* the cases whose header and matrix are on the screen
  table,              \* the rows of the review
  payload,            \* state.reviewPayload, from which they can be rendered
  report,             \* the report on the screen
  stale,              \* history: openSubmission has left the old table
  slot,               \* the handler that occupies each slot
  failures

server == <<validated, decided, reported, saved>>
screen == <<open, header, matrix, table, payload, report, stale>>
screenVars == <<server, screen, slot, failures>>

Known == Cases \cup {NoCase}

\* rows marked hasHuman when they were rendered, and rows that are changed
Table == [case : Known, rows : SUBSET Rules, human : SUBSET Rules,
          changed : SUBSET Rules]

Ops == {"open", "refresh", "validate", "generate", "patch", "upload"}

Requests == {"submission", "matrix", "review", "getReport",
             "validate", "save", "generate", "patch", "upload"}

(***************************************************************************)
(* at is the case in the path of the request under way, human what the     *)
(* server said of it; rows and todo belong to saveReviewChanges.           *)
(***************************************************************************)
Handler == [op : Ops \cup {"none"}, req : Requests, at : Known,
            ans : {"sent", "ok", "failed"}, human : SUBSET Rules,
            rows : Table, todo : SUBSET Rules]

EmptyTable == [case |-> NoCase, rows |-> {}, human |-> {}, changed |-> {}]

NoReport == [case |-> NoCase, human |-> {}]

Free == [op |-> "none", req |-> "submission", at |-> NoCase, ans |-> "sent",
         human |-> {}, rows |-> EmptyTable, todo |-> {}]

Human(c) == {r \in Rules : decided[c][r] # NoCase}

-----------------------------------------------------------------------------

ScreenInit ==
  /\ validated = Validated
  /\ decided = [c \in Cases |-> [r \in Rules |-> NoCase]]
  /\ reported = [c \in Cases |-> NoReport]
  /\ saved = {}
  /\ open = NoCase
  /\ header = NoCase
  /\ matrix = NoCase
  /\ table = EmptyTable
  /\ payload = EmptyTable
  /\ report = NoReport
  /\ stale = FALSE
  /\ slot = [s \in Slots |-> Free]
  /\ failures = 0

-----------------------------------------------------------------------------
\* What the user does.

Request(op, req, c) == [Free EXCEPT !.op = op, !.req = req, !.at = c]

Begin(s, h) == /\ slot[s] = Free
               /\ slot' = [slot EXCEPT ![s] = h]
               /\ UNCHANGED <<server, screen, failures>>

\* a click on a row of the list of submissions
OpenSubmission(s, c) == Begin(s, Request("open", "submission", c))

RefreshMatrix(s) ==
  open # NoCase /\ Begin(s, Request("refresh", "matrix", open))

\* the button is disabled while its handler runs
Enabled(op) == open # NoCase /\ \A v \in Slots : slot[v].op # op

ValidateCase(s) ==
  Enabled("validate") /\ Begin(s, Request("validate", "validate", open))

ProcessUpload(s) ==
  Enabled("upload") /\ Begin(s, Request("upload", "upload", open))

PatchStatus(s) ==
  open # NoCase /\ Begin(s, Request("patch", "patch", open))

\* Fault: a decision that was taken back is not deleted.
ToSaveChanged(t) == t.changed \cap t.rows

\* changed rows are PUT, rows with an older decision are DELETEd
ToSave(t) == (t.changed \cup t.human) \cap t.rows

NextSave(h) == IF h.todo = {} THEN [h EXCEPT !.req = "generate", !.at = open]
               ELSE [h EXCEPT !.req = "save", !.at = open]

GenerateReport(s) ==
  /\ Enabled("generate")
  /\ Begin(s, NextSave([Request("generate", "save", open) EXCEPT
                          !.rows = table, !.todo = ToSave(table)]))

\* the user chooses another decision, or the model's again, in a row
Edit(r) ==
  /\ r \in table.rows
  /\ \A s \in Slots : slot[s].op # "generate"
  /\ table' = [table EXCEPT !.changed =
                 IF r \in @ THEN @ \ {r} ELSE @ \cup {r}]
  /\ UNCHANGED <<server, open, header, matrix, payload, report, stale,
                 slot, failures>>

\* a click on a severity renders some of the rows anew
FilterSeverity(some) ==
  /\ payload.case # NoCase
  /\ table' = [payload EXCEPT !.rows = some]
  /\ UNCHANGED <<server, open, header, matrix, payload, report, stale,
                 slot, failures>>

-----------------------------------------------------------------------------
\* What the server does with a request.

MayReport(c) == c \in validated

\* the review row of a rule of case c is written or erased, from table t
Saved(c, t, r) == [decided EXCEPT ![c][r] =
                     IF r \in t.changed THEN t.case ELSE NoCase]

\* the answer comes back, or is lost
Answer(s, h) ==
  \/ /\ slot' = [slot EXCEPT ![s] = [h EXCEPT !.ans = "ok"]]
     /\ UNCHANGED failures
  \/ /\ failures < MaxFailures
     /\ slot' = [slot EXCEPT ![s] = [h EXCEPT !.ans = "failed"]]
     /\ failures' = failures + 1

Asks(s, req) ==
  slot[s].op # "none" /\ slot[s].req = req /\ slot[s].ans = "sent"

ServeValidate(s) ==
  LET c == slot[s].at
  IN  /\ Asks(s, "validate")
      /\ validated' = validated \cup {c}
      /\ Answer(s, slot[s])
      /\ UNCHANGED <<decided, reported, saved, screen>>

ServeSave(s, r) ==
  /\ Asks(s, "save")
  /\ r \in slot[s].todo
  /\ decided' = Saved(slot[s].at, slot[s].rows, r)
  /\ saved' = IF slot[s].at = payload.case /\ r \in slot[s].rows.changed \ slot[s].rows.human
              THEN saved \cup {r} ELSE saved
  /\ Answer(s, [slot[s] EXCEPT !.todo = @ \ {r}])
  /\ UNCHANGED <<validated, reported, screen>>

ServeGenerate(s) ==
  LET c == slot[s].at
  IN  /\ Asks(s, "generate")
      /\ MayReport(c)
      /\ reported' = [reported EXCEPT ![c] = [case |-> c, human |-> Human(c)]]
      /\ Answer(s, [slot[s] EXCEPT !.human = Human(c)])
      /\ UNCHANGED <<validated, decided, saved, screen>>

\* a status or files of the case, of which the screen shows the header
ServeWrite(s) ==
  /\ Asks(s, "patch") \/ Asks(s, "upload")
  /\ Answer(s, slot[s])
  /\ UNCHANGED <<server, screen>>

ServeRead(s) ==
  LET h == slot[s]
  IN  /\ \/ Asks(s, "submission") /\ Answer(s, h)
         \/ Asks(s, "matrix") /\ Answer(s, h)
         \/ /\ Asks(s, "review") /\ h.at \in validated
            /\ Answer(s, [h EXCEPT !.human = Human(h.at)])
         \/ /\ Asks(s, "getReport") /\ reported[h.at] # NoReport
            /\ Answer(s, [h EXCEPT !.human = reported[h.at].human])
      /\ UNCHANGED <<server, screen>>

\* 404: there is no validation, or no report
NotFound(s) ==
  /\ \/ Asks(s, "review") /\ slot[s].at \notin validated
     \/ Asks(s, "generate") /\ ~MayReport(slot[s].at)
     \/ Asks(s, "getReport") /\ reported[slot[s].at] = NoReport
  /\ slot' = [slot EXCEPT ![s].ans = "failed"]
  /\ UNCHANGED <<server, screen, failures>>

\* the request fails and has no effect
RequestFails(s) ==
  /\ slot[s].op # "none" /\ slot[s].ans = "sent"
  /\ failures < MaxFailures
  /\ slot' = [slot EXCEPT ![s].ans = "failed"]
  /\ failures' = failures + 1
  /\ UNCHANGED <<server, screen>>

-----------------------------------------------------------------------------
\* What the handlers do with an answer.

Answered(s, req, ans) ==
  slot[s].op # "none" /\ slot[s].req = req /\ slot[s].ans = ans

Done(s) == slot' = [slot EXCEPT ![s] = Free]

\* the next request of handler h, if the case then open is c
Ask(s, req, c) == slot' = [slot EXCEPT ![s] = Request(slot[s].op, req, c)]

ReceiveSubmission(s) ==
  LET h == slot[s]
  IN  /\ Answered(s, "submission", "ok")
      /\ header' = h.at
      /\ IF h.op = "open" THEN open' = h.at /\ Ask(s, "matrix", h.at)
         ELSE UNCHANGED open /\ Done(s)
      /\ UNCHANGED <<server, matrix, table, payload, report, stale, failures>>

\* loadMatrix shows an error in the place of the matrix
ReceiveMatrix(s) ==
  LET h == slot[s]
  IN  /\ h.op # "none" /\ h.req = "matrix" /\ h.ans # "sent"
      /\ matrix' = IF h.ans = "ok" THEN h.at ELSE NoCase
      /\ CASE h.op = "open"    -> Ask(s, "review", open)
           [] h.op = "upload"  -> Ask(s, "submission", open)
           [] h.op = "refresh" -> Done(s)
      /\ UNCHANGED <<server, open, header, table, payload, report, stale,
                     failures>>

\* Fault: openSubmission does not render the review.
RenderedValidation(h, t) == IF h.op = "open" THEN table ELSE t

Rendered(h, t) == t

AfterReview(s) == IF slot[s].op = "open" THEN Ask(s, "getReport", open)
                  ELSE Ask(s, "submission", open)

ReceiveReview(s) ==
  LET h == slot[s]
  IN  /\ Answered(s, "review", "ok")
      /\ \E same \in SUBSET h.human, some \in SUBSET Rules :
           LET p == [case |-> h.at, rows |-> Rules, human |-> h.human,
                     changed |-> h.human \ same]
           IN  /\ payload' = p
               /\ table' = Rendered(h, [p EXCEPT !.rows = some])
      /\ stale' = FALSE /\ saved' = {}
      /\ AfterReview(s)
      /\ UNCHANGED <<validated, decided, reported, open, header, matrix, report,
                     failures>>

\* the catch block of openSubmission does nothing; validateCase ends
MissReview(s) ==
  /\ Answered(s, "review", "failed")
  /\ IF slot[s].op = "open" THEN stale' = TRUE /\ AfterReview(s)
                            ELSE UNCHANGED stale /\ Done(s)
  /\ UNCHANGED <<server, open, header, matrix, table, payload, report,
                 failures>>

ReceiveReport(s) ==
  LET h == slot[s]
  IN  /\ Answered(s, "getReport", "ok") \/ Answered(s, "generate", "ok")
      /\ report' = [case |-> h.at, human |-> h.human]
      /\ Done(s)
      /\ UNCHANGED <<server, open, header, matrix, table, payload, stale,
                 failures>>

\* Fault: the previous report stays.
HiddenReportKept(r) == r

HiddenReport(r) == NoReport

MissReport(s) ==
  /\ Answered(s, "getReport", "failed")
  /\ report' = HiddenReport(report)
  /\ Done(s)
  /\ UNCHANGED <<server, open, header, matrix, table, payload, stale,
                 failures>>

ReceiveValidation(s) ==
  /\ Answered(s, "validate", "ok")
  /\ Ask(s, "review", open)
  /\ UNCHANGED <<server, screen, failures>>

ReceiveUpload(s) ==
  /\ Answered(s, "upload", "ok")
  /\ open' = slot[s].at
  /\ Ask(s, "matrix", slot[s].at)
  /\ UNCHANGED <<server, header, matrix, table, payload, report, stale,
                 failures>>

ReceivePatch(s) ==
  /\ Answered(s, "patch", "ok")
  /\ header' = slot[s].at
  /\ Done(s)
  /\ UNCHANGED <<server, open, matrix, table, payload, report, stale,
                 failures>>

ReceiveSave(s) ==
  /\ Answered(s, "save", "ok")
  /\ slot' = [slot EXCEPT ![s] = NextSave([@ EXCEPT !.ans = "sent"])]
  /\ UNCHANGED <<server, screen, failures>>

\* an error is shown, and the handler ends
GiveUp(s) ==
  /\ \E req \in {"submission", "validate", "save", "generate", "patch",
                   "upload"} : Answered(s, req, "failed")
  /\ Done(s)
  /\ UNCHANGED <<server, screen, failures>>

-----------------------------------------------------------------------------

User(s) == \/ \E c \in Cases : OpenSubmission(s, c)
           \/ RefreshMatrix(s)
           \/ ValidateCase(s)
           \/ ProcessUpload(s)
           \/ PatchStatus(s)
           \/ GenerateReport(s)

Server(s) == \/ ServeValidate(s)
             \/ \E r \in Rules : ServeSave(s, r)
             \/ ServeGenerate(s)
             \/ ServeWrite(s)
             \/ ServeRead(s)
             \/ NotFound(s)
             \/ RequestFails(s)

Resume(s) == \/ ReceiveSubmission(s)
             \/ ReceiveMatrix(s)
             \/ ReceiveReview(s)
             \/ MissReview(s)
             \/ ReceiveReport(s)
             \/ MissReport(s)
             \/ ReceiveValidation(s)
             \/ ReceiveUpload(s)
             \/ ReceivePatch(s)
             \/ ReceiveSave(s)
             \/ GiveUp(s)

ScreenNext ==
  \/ \E s \in Slots : User(s) \/ Server(s) \/ Resume(s)
  \/ \E r \in Rules : Edit(r)
  \/ \E some \in SUBSET Rules : FilterSeverity(some)

ScreenSpec == ScreenInit /\ [][ScreenNext]_screenVars

-----------------------------------------------------------------------------

AtRest == \A s \in Slots : slot[s] = Free

\* Type invariant; a report exists only of a case that is validated.
ScreenTypeOK ==
  /\ validated \subseteq Cases
  /\ decided \in [Cases -> [Rules -> Known]]
  /\ reported \in [Cases -> [case : Known, human : SUBSET Rules]]
  /\ saved \subseteq Rules
  /\ open \in Known
  /\ header \in Known
  /\ matrix \in Known
  /\ table \in Table
  /\ payload \in Table
  /\ report \in [case : Known, human : SUBSET Rules]
  /\ stale \in BOOLEAN
  /\ slot \in [Slots -> Handler]
  /\ failures \in 0..MaxFailures
  /\ \A c \in Cases : reported[c] # NoReport => c \in validated

(***************************************************************************)
(* When all answers are in, header, matrix and report are of the case that *)
(* is open, or there is none: openSubmission, processUpload and validate-  *)
(* Case leave no part of the case that was open before, whatever fails.    *)
(***************************************************************************)
OneCaseAtRest ==
  AtRest => /\ header = open
            /\ matrix \in {open, NoCase}
            /\ report.case \in {open, NoCase}

(***************************************************************************)
(* A report that is being shown calls every rule decided by a human that   *)
(* was changed on the screen when Generate Report was clicked:             *)
(* saveReviewChanges has saved all rows before the report is requested, or *)
(* there is no report.  Of the rows that were not changed, it counts none  *)
(* that was marked hasHuman when it was rendered (the decision was deleted)*)
(* and, on a case whose own review is on the screen, exactly those saved   *)
(* since the review was loaded and not marked then: their decision was     *)
(* saved and taken back on one screen, hasHuman is still false, and nothing*)
(* deletes it.                                                             *)
(***************************************************************************)
ReportHasDecisions ==
  \A s \in Slots :
    LET h    == slot[s]
        t    == h.rows
        kept == t.rows \ t.changed
    IN  Answered(s, "generate", "ok") =>
          /\ t.rows \cap t.changed \subseteq h.human
          /\ kept \cap t.human \cap h.human = {}
          /\ t.case = h.at => kept \cap h.human = kept \cap saved

(***************************************************************************)
(* Decisions are saved for the case on whose results they were taken, if   *)
(* the submission that is open had a review when it was opened.  casePath  *)
(* does not see to it: it takes the case that is open when the request is  *)
(* sent.                                                                   *)
(***************************************************************************)
SavesOwnResults ==
  \A s \in Slots :
    LET h == slot[s]
    IN  h.op = "generate" /\ h.todo # {} /\ ~stale => h.rows.case = h.at

=============================================================================
