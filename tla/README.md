# PPAP control center: specifications

TLA+ models of the PPAP intake, validation and review service in this
repository, the configurations that check them with TLC, and theorems about
them that TLAPS proves.  `PROJECT.json` lists, in machine-readable form, the
components, the runs, the source lines of every definition, the hazards and the
theorems; this file explains them.

To check a model, `tlc -config MCCaseLedger_postgres.cfg MCCaseLedger`; to check
the proofs, `tlapm CaseLedgerProofs.tla`.

## 1. The system

### Components, their state and their operations

| component | state it keeps | operations |
|---|---|---|
| HTTP layer (`backend/main.py`) | none; one FastAPI process per instance | `def` handlers run on a thread pool and interleave at every statement; `upload_case` and the preview are `async`, run on the event loop and never yield |
| Database (`backend/db.py`, `database.py`) | PostgreSQL or SQLite: cases, files, audit_log, case_rule_reviews, validation_rules, users, sessions, customers, engineers | one connection and one transaction per request; `closing(connect())` rolls back when the handler raises |
| Submissions (`backend/submissions.py`) | rows of cases | create, patch; list, search, dashboard, matrix and severity only read |
| Intake (`backend/upload/intake.py`) | case directories; rows of cases, files, audit_log | upload for a new case, attach to an existing one, preview |
| Extraction and tagging (`backend/extraction`, `backend/tagging`) | JSON files in the case directory | called by the intake, one file at a time |
| Validation (`backend/validation`) | reports and model responses in the case directory | choose the elements, collect evidence, ask the model, normalise the answers, write the report |
| Review (`backend/review.py`) | case_rule_reviews | save, clear, merge into a report |
| Reporting (`backend/reporting`) | report files | generate from the latest validation |
| Rule store (`backend/rule_store.py`) | validation_rules | sync with the catalogue, add, update, enable |
| Accounts (`backend/auth.py`) | users, sessions | sign in, sign out, create, update, delete, seed |
| Licences (`backend/customers.py`) | customers, engineers, mirrored users | create, add engineer, activate, sign in, change password |
| Model client (`backend/anthropic_client.py`) | a window of recent calls per process | ask with a rate limit, retry after a 429 |
| Object storage (`backend/storage.py`) | S3 objects of a case | copy up, copy down |
| Control center (`frontend/app.js`) | one mutable `state` per tab, and what is on the screen | asynchronous handlers |
| Desktop client (`desktop/app.py`) | none | three forms that post to the licence endpoints |

### How they interact

The control center and the desktop client speak HTTP to the handlers of
`main.py`.  A handler calls one of the modules below it with a connection; all
shared state is in the database, on the disk of the instance and, if it is
switched on, in S3.  There are no callbacks and no background jobs: concurrency
comes from requests on the thread pool, from several instances behind one
database (`deploy.yml`: up to four, with disks that do not outlive them), and
from the asynchronous handlers of the browser.

### What is hard

* **Numbers computed before they are claimed.**  Case ids, PPAP numbers, audit
  ids and file ids are read as a maximum or a count in one statement and written
  in a later one.  Only some are protected by a key or by `mkdir`.
* **Checks on rows read earlier.**  Activation, sign-in, deletion of a super
  admin: what was read may have changed when the write runs (READ COMMITTED).
* **Two places that must agree.**  The disk and the rows; the status and the
  audit trail; the password in `customer_engineers` and in `users`; the status
  of an element in the report and after the merge with reviews; the screen and
  the case its next request names.
* **Partial failure.**  A rolled-back request leaves directories behind; the
  model answers some of the rules, or others; one of several saves fails.
* **Locks.**  A review, a patch and an upload of one case take row locks and
  wait for each other's keys.

`PROJECT.json` lists these hazards one by one, at their lines, with the
properties that would catch them.

### What makes each component correct

| component | what must hold | where |
|---|---|---|
| allocation of cases | a claimed id can be inserted, leftovers block nobody; PPAP numbers have no gaps and are shared only by overlap | `CaseAllocation` |
| ledger of a case | the trail only grows, status and reviews agree with it, no deadlock, every transaction ends, the later events of an upload are safe | `CaseLedger`, `AuditLog` |
| validation of an element | a verdict is an answer to the question that was asked; a pass is earned; the merge agrees with the report; the exchange ends | `ElementValidation` |
| licences | sessions come from the approved PC, the two passwords agree, the device of the customer stays | `Licensing` |
| accounts | sessions have users, the last super admin stays | `Accounts` |
| control center | one case on the screen, decisions go to the case they were taken on, a report has all of them | `ControlCenter` |
| package validation and merge | the status is earned, reviews fill no gaps, what the report, the severity view, the health figures and the matrix say of one validation does not contradict | `PackageReport`, `PackageValidation` |
| intake and storage | rows, raw files, JSONs and S3 objects agree; a validation has all evidence; a status has its report | `CaseFiles` |
| rule store | edits survive synchronisation, base rules are missing only where a custom rule was first, the order is kept | `RuleStore` |
| rate limiter | the window is kept, nobody sleeps longer than necessary, somebody gets through | `RateLimiter` |
| tagging | gaps are filled from the nearest known units, the status tells gaps, evidence is the text of its sections, but for what a repeated heading does | `DocumentUnits`, `Tagging` |

## 2. The modules

Each component module declares its parameters as CONSTANTS with named
assumptions, its state, `Init`, one action per statement or handler, `Next`,
`Spec` and its properties.  `MC<module>` instantiates it for TLC.  Theorems
are in `<module>Proofs`; three of these modules serve two components:
`ValidationProofs` an element and the package, `IntakeProofs` `CaseFiles` and
`Tagging`, `ControlCenterProofs` `ControlCenter` and `RuleStore`.  Modules that
are proved together name these definitions apart (`PackageSpec`, `TagSpec`,
`ScreenSpec`).  Operators marked `Fault` are broken
variants of the definition that follows them: each is a plausible mistake in
that code, used to see that a property notices it.  `history` marks state that
only a property reads.

### CaseAllocation

`rows` are the committed rows of `cases`, `dirs` the case directories on the
disk of each instance, `year` the UTC year, `req` the request each worker is
serving.  `create` is `submissions.create_submission`, `upload` is
`intake.process_uploads` without a case id.  A request does `ReadRows` and
`ScanDirs` (`next_case_id`), `ReadPpap` (`next_ppap_id`), `MakeDirs`
(`mkdir(exist_ok=False)`), `Insert` and `Commit`; the two operations do the
middle steps in different orders.  `Fail` is any exception, `Restart` the loss
of an instance (and of its disk, unless `DurableDisk`), `Touch` a later request
that creates the directory of a committed case.  While an upload runs no other
request of its instance starts; those on a thread go on.

### CaseLedger and AuditLog

All transactions on one existing case, statement by statement: `patch`,
`attach`, `validate`, `report`, `review`, `clear`.  `Program` gives the
statements of each, which are actions: `UpdateRow`, `FindReview`, `AddReview`,
`EraseReview`, `Count` (`next_audit_id`), `InsertAudit`, `Commit`.  A
transaction keeps what it has written (`locked`, `mine`) until it commits.
With PostgreSQL it waits for rows others have written and for uncommitted rows
with the same key; with SQLite it waits for the one write lock.  `Refuse` is a
unique violation, `Fail` everything else.  `unaudited` remembers that the last
write of the status was one that records no event.

An attach records one `files_attached`, an event for every ZIP it extracts and
for every file it registers or ignores (`file`: `zip_extracted`,
`file_registered`, `file_ignored`), and at last `layout_detected`: a count and
an INSERT for each (`Program`).  How many of them are of files is chosen from
1 to `MaxFiles`; where the transaction stands in between is all that matters to
the others.  `Most`, the bound of `AuditLog` on the events one transaction adds,
is `MaxFiles + 2`.

`AuditLog` is what readers of the trail rely on: a log that only grows at its
end.  `CaseLedger!AppendOnly` is the refinement, with `log <- audit`.

### ElementValidation

The exchange with the model for one element: `WholeAnswered` and `WholeFailed`
(one call), `BatchAnswered` and `BatchFailed`, `RetryAnswered` and
`RetryFailed` (missing rules again, one by one), `Malformed` (a reply that is no
object ends the run).  A reply is a function from any rules to raw statuses.
`ReportStatus` is the status `_normalize_element_result` computes,
`MergedStatus` the one `apply_rule_reviews` computes later, with reviews.
`said` is history: whatever the model said of a rule when it was asked for it;
`thrown` is the part of it that went with a reply to the whole element which was
partial and made place for the batches.  A verdict that was given can be lost in
this way, and in no other: if the batches then fail, a rule ends as NOT_FOUND
that had an answer (`VerdictIsTheAnswer` says when).  `NumRules` may be 0, as an
administrator can disable every rule of an element.  `set` holds the three settings of the environment and does not change.

With the values the code has by default (both batch sizes 9) an element with
more than nine rules is batched from the start, so the second try in batches is
only reached where the two are set apart; the model has both.  Keys that the
reply to one rule may carry beside its status and that the runner reads
(`dry_run`, `absence_status`, `model_error`) are left out: a reply is its status.

### Licensing

One customer with a licence.  `org` is the PC in its row, `eng` the engineers,
`usr` the rows of `users` that mirror them, `sessions` pairs of an engineer and
the PC of the sign-in.  `activate_license` is `ReadCustomer`, `ReadEngineer`
(with the checks), `Mark`, `Bind`, `CommitActivation`; `login_engineer` is
`ReadJoin`, `FindUser`, `Mirror`, `CommitLogin`; `change_engineer_password` is
`CheckPassword`, `ChangeUsers`, `ChangeEngineers`, `CommitChange`.  Device id
and host name are one value; engineers' roles and names are left out.
`rebound` is history: an activation of this engineer committed although another
one, committed after its reads, had changed the engineer or the device.

### Accounts

`role` is the role of each user name (`"gone"` without a row), `sessions` the
users with rows in the table of that name.  Requests are `seed` (`init_db`, which runs at
every start, validation and merge), `login`, `create`, `update` and `delete`.
Each does `Read` (its SELECT and checks), `delete` also `CountAdmins` and
`DeleteSessions`, then `Write` and a commit.  The foreign key of `sessions` is
`ReferencesHold`.

### ControlCenter

One browser window and the part of the server it talks to.  `open` is
`state.caseId`, `header`, `matrix`, `table` and `report` are what the screen
shows, `payload` is what the table can be rendered from again.  `slot` holds the
asynchronous handlers under way.  A handler sends a request for the case that is
open at that moment, the server does it (`Serve...`), and the handler is resumed
(`Receive...`, `Miss...`, `GiveUp`).  A request may fail without effect, or have
its effect and lose its answer.  A decision is a row changed from what the model
said; `decided` remembers the case that was on the screen when it was saved.
`saved` is history: the rows saved since the review on the screen was loaded.
They are not marked as decided by a human until it is loaded again, so taking
one of them back deletes nothing: a report counts exactly these of the decisions
taken back (`ReportHasDecisions`).

Assumed: the user does not edit while decisions are being saved; the severity
filter renders any subset of the rows; creating a submission is opening one
without a validation.

### PackageReport and PackageValidation

`PackageReport` has no state: it holds what is computed from the results of a
package.  `Selected` are the elements a run looks at, `PackageStatus` and
`ElementStatus` the two roll-ups, `Merged` the merge with human reviews,
`Issues`, `MissingEvidence` and `Counts` the structured report, `Bucket` and
`Health` the severity view and the figures of the dashboard, `Matrix` the
document matrix.  The severity view and the figures are computed from the
validation as it was written, the report from the validation merged with the
reviews, and the properties compare them as they are: a rule that a review has
passed stays critical in the severity view and is no issue of the report, and
nothing else is in one and not in the other (`FindingsReachTheReport`).

`PackageValidation` lets uploads (`Attach`), patches, reviews and report
generation (`Generate`) happen at any moment of a run: `Start` reads the row,
`LoadEvidence` the tagging JSON, `ValidateElement` takes the elements left
(`todo`) one by one, always the first in the sequence of the standard
(`IsFirst`), with any outcome `ElementValidation` can have (`Outcomes`),
`WriteReport` replaces the report, `CommitStatus` sets the status of the case.
`judged` and `fresh` are history.

### CaseFiles

The same case as a directory on the disk of every instance (`disk`), as objects
in S3 (`s3`) and as rows of `files` (`rows`).  An upload makes its directories,
takes the row of the case (`LockCase`), copies and registers file after file,
copies the directory to S3 (`Sync`, `Put`, `PutFails` with any part of it done)
and commits.  A validation downloads the case into an empty directory
(`EnsureLocal`, complete or in part), reads the evidence, truncates and fills
the report, copies up, sets the status.  `Fail` rolls rows back and leaves
files, `Restart` loses a disk and its requests.  `gap` is history: this
directory has missed an upload, in one of four ways that `EvidenceIsComplete`
lists.  A raw file is a place (`raw` for loose files, `work` for what was
extracted), a safe name and a number: that of the copy of a loose file, that of
the directory of a ZIP.  Loose files and directories take the first number that
is free; a member of a ZIP takes its name in the directory whatever is there
(`RawPath`), so two members with one safe name are one file with two rows.  The
case begins as a draft, whose directories were made on the instance that
created it.  That `file_id` is the primary key of `files` is not modelled: that
two rows never have one number is `FileNumbersAgree`.  A download and the copying of one file are one step each; contents of
files are identified with the row that wrote them.

### RateLimiter

`times` is the deque of `_OpenAIRateLimiter`, as ages in ticks; `calls` the call
of `ask` each thread makes: `Wait` (the locked block, which admits or computes
the sleep), `Wake`, `Return` (an answer, an error, or a 429 and the pause before
the second attempt).  `Tick` is the passing of time.  `sent` is history.

### RuleStore

The rules of one element.  `Sync` is `sync_rule_catalog` by an instance of some
release, `add_rule` is `ReadPosition`, `ReadNumbers`, `Insert`, `update_rule` is
`Update`.  Several releases are at work at once during a roll-out.

### DocumentUnits and Tagging

`DocumentUnits` cuts a document into units as `unit_builder` does from the lists
of the extractors.  A block has a kind and a text; `Names` gives the element
that a text names when it is a label, `Short` the texts that may be one where
length counts.  A section of a Word file begins at any paragraph that reads as
its heading and ends at any that reads as the next one (`Section`); pages,
slides and sheets are units of their own.  Units are made of some kinds of
blocks only (`UnitKinds`): tables of slides and comments of workbooks are in
none, and of a table only the first 30 rows are (`rest` stands for the others,
which only the unit of a whole document has).  Every list of blocks is a set of
them in order (`Sorted`, by rank).  Left out: lists of an extraction that repeat
text of other lists, headers and footers, and the order of the texts, shapes and
notes of one slide.

`Tagging` makes the three passes over the units: `Classify` (label, signature,
keywords and file name, with the thresholds of `_classify_unit`), `Continue`
(gaps from the units around them), `Backup` (file name, then the model).  What a
text suggests is any element with any score in `Scores`; what is done with it is
the code's.  `Status` is the summary of the document.  Then a validation goes
over the units once more: `Collect` is one turn of the loops of
`build_case_index`, `element_evidence` and `_cap_chunks`, which add the text of a
unit to the `evidence` of its element with the two caps.  `size` is history.

### How they fit together

The modules describe disjoint pieces of state of one system.  `CaseAllocation`
ends with the commit with which `CaseLedger` and `CaseFiles` begin: the first
has the rows and the trail of the case, the second its files, and both take the
row of the case at the same statement (`LockCase` is the `UPDATE cases` of
`attach` in `CaseLedger`).  The tags that `Tagging` computes are the JSONs of
`CaseFiles` and, as a set of elements with evidence, `tagged` in
`PackageValidation`.  `PackageValidation` takes from `ElementValidation` what an
element may come out with (`Outcomes`), and from the rules of `RuleStore` only
their number.  `RateLimiter` sits under every call of `ElementValidation`.  The
reviews that `PackageReport` merges are those `CaseLedger` writes and
`ControlCenter` sends; `MergedStatus` in `ElementValidation` and `MergedElement`
in `PackageReport` are the same merge, once with many rules and once with many
elements.  `Licensing` and `Accounts` share the table `users` but no rows: an
engineer's row has `user_kind = 'engineer'`, and the handlers of platform users
change and delete only the others.

## 3. What the runs show

| run | instance | shows |
|---|---|---|
| `alloc_single` | 3 workers, 1 instance, 3 case ids, 2 years, disk lost on restart | once `mkdir` has succeeded the insert cannot meet a row with its id; leftovers never make `mkdir` fail; PPAP numbers are 1..n in every year and shared only by overlapping creations |
| `ledger` | 2 transactions, 1 rule, PostgreSQL, uploads with one or two events of files, none begun after the third event, fair locks | the later events of an upload are safe, who loses an audit id to whom, status and reviews agree with the trail, every transaction ends, the trail implements `AuditLog` |
| `element_answers` | 5 rules, 3 settings, 4 raw statuses, 2 stray rules | where verdicts come from and when one is lost, when an element passes, which reviews clear it, that the exchange ends |
| `package` | both standards, levels 1 and 2, one rule for each element but element 4, which has none, evidence for elements 3, 4 and 18, a choice by hand, dry runs, one upload, patch or review (and any clearing of it) | the status of the case is earned, reviews fill no gaps, the views of a result agree |
| `files` | 2 workers on 2 instances with S3, 3 requests, 1 restart; uploads of a loose file or of a ZIP with a junk member and a file of the same name; with one other request, a ZIP with two members of one safe name and a ZIP inside | numbers, raw files (what is extracted replaces nothing but members of the same ZIP), stored paths, evidence, and the report beside a status |
| `rules` | 2 administrators, 3 releases with 1, 2 and 4 base rules, up to 4 rules, 1 edited text | edits survive, base rules yield only to rules that were first, the order is kept |
| `limiter` | 3 threads, 2 requests in 4 ticks, a pause of 2 ticks | the window is kept, no needless sleep, somebody gets through |
| `tagging` | every Word file of up to 4 blocks, with paragraphs that read as headings, and small files of pages, sheets and slides, with long tables; 2 elements; file names with no, one and two elements; evidence of 3 and 4 blocks | how gaps are filled, what the status says, which text is evidence |
| `licensing_two` | 2 engineers, 2 PCs, 2 requests | approved PCs, agreeing passwords, a device that stays |
| `licensing_lock` | 1 engineer, 2 PCs, 2 requests | **violated**: one engineer signed in on two PCs |
| `accounts_admins` | 3 users, 2 requests | the last super admin is deleted only by overlap |
| `screen_waits` | 2 cases (1 validated), 2 rules, 1 failure, 1 handler | one case on the screen, decisions on their own results, reports with the decisions that were saved |

Type invariants are not listed in the runs of modules whose types are proved
(section 4); `SessionsHaveUsers` is proved as well and in no run.

### Bounds, and why they are enough

* Three workers (two for the longer requests) give every pair of operations and,
  with three, one more that interferes with both.  No property relates more than
  two requests.
* `MaxCase = 3` lets two creations collide and a third step over their
  leftovers; `MaxYear = 2` has one change of year.
* `MaxEvents = 3`: no transaction begins after the third event, those under way
  go on: ids can be lost, won again and follow those of another transaction.
  A trail that begins with an upload has three events already, so the cases that
  recorded operations are added to are those that begin as a draft.
  `MaxFiles = 2` has uploads whose events of files come once and twice: with two
  a review can come between any two of them.
  One rule suffices for the reviews: locks of different rules are independent,
  and a second rule is only another event.
* Five rules in batches of two give a full batch, a second one, and a short last
  batch that is not retried; with schema batches of three, a full and a short
  one.  One stray rule is in the first batch and one in the second.
* Element 18 is compulsory on both levels of an AIAG submission and with VDA,
  element 3 never; level 2 adds compulsory elements that no upload has evidence
  for, and element 4 stands for those whose rules are all disabled (the status that the runner
  gives such an element is not in `element_answers`, whose element has rules: the
  exception of `ReviewsClearWhatFailed` is proved, for `NumRules = 0` as well).  Several
  rules of one element are in `element_answers`.  `MaxEdits = 1`
  puts one upload, patch or review between any two steps; clearing is not
  counted, so that the review is taken back in every state.
* Three requests on two instances: an upload here, one there, and a validation
  on either; the restart comes at any moment.  A name that comes twice, as a
  loose file and in a ZIP, meets both ways of making names unique.  A
  ZIP with two members of one name and a ZIP inside comes with one other request,
  without a restart and without a failed copy (`Bounded`, a state constraint):
  what it is for is decided within one upload and between two.
* Three releases: one that is skipped, one that overtakes a custom rule, and
  an older one that synchronises after a newer.
* Two slots and three threads: a full window, one that waits, and one that
  takes the slot it is waiting for.  The pause after a 429 is shorter than the
  window, so that second attempts meet a full one.
* Two elements and four blocks have every neighbourhood the passes tell apart:
  nothing known, one side, both sides that agree or differ, gaps of two units.
  The scores are below, at and above every threshold that a later pass reads.
  A heading, another one, a paragraph that reads as either and one more block
  are enough for text that strays into a section or is cut off from one.
* Two PCs and two engineers: the engineer's own PC can differ from the
  customer's.  One new password besides the temporary one is enough to tell old
  from new.
* In `screen_waits` one failure at any point stands for an unreliable server:
  the handlers keep no memory of earlier failures.

Symmetry is used for workers, instances, rules, PCs, engineers, users and cases
in runs without liveness properties, and only for values the instance does not
distinguish.  Deadlock is checked everywhere but in `element_answers`
and `tagging`, where an element that has its result and a document that is tagged
are done, and in `files`, where all requests may have been made.

### Fairness

* `CaseLedger!FairSpec` asks for strong fairness of the next statement of each
  transaction.  PostgreSQL queues those who wait for a row or a key and serves
  them in order; whoever is passed over gets the lock when it is released, time
  and again.  Nothing is assumed of `Begin` and `Fail`: operations need not
  begin, and no timeout is needed to end one.
* `ElementValidation!Spec` has weak fairness of `Next`: every call to the model
  has a timeout and returns or raises.
* `RateLimiter!FairSpec` has weak fairness of time, of the threads (`Wait`,
  `Wake`) and of the calls to the model (`Return`), and none of `Ask`.  Under it
  somebody gets through.  That everybody does is not so: threads that wake
  compete for the slot again, in no order, and one can lose every time.

### Where code and text disagree

* **Two PCs** (`licensing_lock`, `customers.py:313`).  On a licence created
  without a device, two activations from two PCs both pass a check on rows read
  before either wrote.  The page promises sign-in "on that PC only".  Both
  conditions are needed: `KnownDeviceLocks` and `OneAtATimeLocks` (section 4).

Other behaviour of the code that the models have, and that a reader of the
properties should know:

* PPAP ids can be shared by two cases whose creations overlap; an update or
  upload can lose its work to a review that takes its audit id, with PostgreSQL;
  validation and report generation overwrite the status without an event; the
  last super admin can be deleted by two deletions that overlap.
* Opening a submission without a validation leaves the table of the one before.
  `SavesOwnResults` therefore leaves out submissions that had no review when they
  were opened; on those, Generate Report saves the changed rows for the case that
  is open (`app.js:675`).  Rows are marked as decided when they are rendered, not
  when they are saved, so taking back a decision saved on the same screen
  deletes nothing and the next report still has it (`app.js:1013`);
  `ReportHasDecisions` says that no others come back.
* A reply to a whole element that leaves rules out is thrown away for the batches
  with the answers it has (`runner.py:302-314`), and if the batches fail these
  are lost.
* An element whose rules are all disabled is REVIEW in the report after a failed
  call and PASS after the merge (`review.py:180`).
* A rule that a review has passed stays critical in the severity view, which is
  made of the validation as it was written (`main.py:441, 575, 587, 601`).
* Two members of a ZIP that have one name once it has been made safe are written
  to one file, and the rows of both point to it (`intake.py:312-315`).
* What a rolled-back attach leaves in the directory of tagging JSONs is read as
  evidence by the next validation (`evidence.py:36`).
* `ensure_case_local` downloads only into an empty directory, so a directory
  that has missed an upload misses it until the instance is restarted
  (`EvidenceIsComplete`); such a gap is also how two rows can come to share an
  object, and how a path can be rewritten to an object that does not exist.
* A custom rule that took the number of a later base rule keeps it: that base
  rule is never checked (`BaseRulesYield`).
* In a Word file the k-th table goes to the k-th section wherever it stands,
  tables beyond the number of headings and text before the first heading reach
  nobody.  A paragraph that reads as a heading, a line of a table of contents for
  instance, opens that section once more, and closes the one before it.  Tables
  on slides reach nobody, nor do rows of a table after the 30th.  Chunks after
  the cap of the evidence are dropped without a mark.  `EvidenceIsItsSections`
  states what is left.  Units that are shared context reach no validation at all
  (`shared_chunks` of `evidence.py` is not used).
* A slide title is not among `ClearSources`: a file name that names one element
  overrules it, though the remark at the top of the tagger puts slides first and
  the file name last.

## 4. What is proved

For every value of the constants that satisfies the named assumptions.

| theorem | says |
|---|---|
| `CaseAllocationProofs!TypeCorrect` | types; requests past the scan have an id |
| `...!GaplessNumbers`, `SharedOnlyByOverlap` | `PpapNumbersGapless`, `PpapSharedOnlyByOverlap`, on every deployment |
| `...!DirectoryIsTheLock`, `OnlyRivalsBlock` | `InsertNeverCollides`, `ClaimFailsOnlyToARival`, if all workers are of one instance |
| `CaseLedgerProofs!TypeCorrect` | types; the ids of the trail are 1..n |
| `...!HolderNeverWaits` | no transaction that holds audit rows waits: no deadlock, on both databases |
| `...!LateEventSafe` | a later event of an upload never meets its id |
| `...!SqliteSafe` | on SQLite no operation loses its audit id |
| `...!OnlyReviewsCollide` | `CollisionIsWithAReview`: updates and uploads lose their id only to a review |
| `...!TrailTells` | `TrailAccounts`: status and reviews are what the trail tells |
| `...!TrailImplementsLog` | `CaseLedger` implements `AuditLog` |
| `ValidationProofs!TypesHold` | of an element: types; batches stay within its rules |
| `...!VerdictsAreAnswers`, `PassesAreEarned`, `ReviewsClear` | `VerdictIsTheAnswer`, `PassIsEarned`, `ReviewsClearWhatFailed` |
| `...!CallsRunOut` | n rules take at most 2n + 1 calls: each step uses one up, at the end none is left |
| `...!PackageHolds` | of a package: the invariant below |
| `...!StatusEarned`, `GapsCannotBeReviewed`, `OverallSpeaksForAll` | `StatusIsEarned`, `ReviewsCannotFillGaps`, `OverallCoversTable` |
| `...!FindingsReported`, `HealthIsTold`, `MatrixSaysGaps` | `FindingsReachTheReport`, `HealthTellsGaps`, `MatrixAgrees` |
| `...!CountsAddUp` | the counts of a merged report add up to the rules it had before the merge |
| `...!ElementsFitThePackage` | the exchange about an element ends with a result that the package expects |
| `IntakeProofs!FilesHold` | of the files: the invariant below |
| `...!NumbersAgree`, `RowsOwn`, `PathsAreReal`, `EvidenceHolds`, `StatusIsBacked` | the five properties of `files` |
| `...!TaggingHolds` | of the tagging: the invariant below |
| `...!GapsFilledFromNearest`, `StatusTellsTheGaps` | `GapsAreFilled`, `StatusTellsGaps` |
| `...!TextIsAtHome` | of the units: what a unit may and must have of the blocks that belong to it, if paragraphs read as headings |
| `...!EvidenceCollected`, `EvidenceFromItsSections` | of the evidence: the invariant below, and `EvidenceIsItsSections` |
| `ControlCenterProofs!ScreenHolds` | of the screen: the invariant below, for one handler |
| `...!ScreenShowsOneCase`, `DecisionsSavedWhereTaken`, `ReportAfterDecisions` | `OneCaseAtRest`, `SavesOwnResults`, `ReportHasDecisions`, for one handler |
| `...!TypesHold`, `BaseRulesAreThere`, `OrderIsKept`, `EditsAreKept` | of the rules: types and the three properties of `rules` |
| `LicensingProofs!TypeCorrect`, `SignInsApproved`, `PasswordsMirrored`, `DeviceStays` | types and the three properties of `licensing_two` |
| `...!KnownDeviceLocks` | `LockedToOnePC`, for a licence that starts with a device |
| `...!OneAtATimeLocks` | `LockedToOnePC`, for requests served one at a time |
| `AccountsProofs!TypesHold`, `SessionsHold`, `LastAdminStays` | types, `SessionsHaveUsers`, `LastAdminNeedsOverlap` |
| `RateLimiterProofs!TypesHold`, `LimitIsKept`, `SleepIsNeeded` | types, `WindowKept`, `NoNeedlessSleep` |

Assumed are the named assumptions of the modules, for two theorems of
`CaseAllocation` `SingleHost`, and for those of `ControlCenter` `OneHandler`,
that the user waits for every answer: section 5 says why nothing can be said
without it.  `KnownDeviceLocks` and `OneAtATimeLocks` state their conditions.
Nothing is assumed of how many workers, instances, uploads, users, engineers,
rules, units, threads or releases there are.

**CaseAllocation.**  The properties are not inductive: a request writes what it
read earlier.  `NumberInv` adds what an open request knows: its number follows
the numbers committed when it read, all cases it knew are still there, and two
open inserts have different ids.  It needs only what the database guarantees.
`ClaimInv` adds the link between disk and rows (`RowsSeen`): a committed case
that the request did not read is on the disk it scans.  That holds after a
restart too, because restarting ends the requests of the instance, and fails
with two instances, which is why those two theorems assume `SingleHost`.

**CaseLedger.**  That the trail has no gap depends on rows that are not
committed.  `IInv` says that at most one transaction holds audit rows
(`OneHolder`), that they are the next numbers after the committed ones
(`RowsFollow`), and that a count is never ahead of them (`CountBehind`).  It
follows that a second transaction with the same count waits or is refused, and
that the holder's next id is free.  `LockInv` adds for SQLite that whoever has
written anything is the only writer, so that its count cannot be overtaken.
`RowInv` says that the writers of the row of the case come one after the other,
so that what is committed after a count is the work of reviews.  `TrailInv` says
that the uncommitted audit rows of a transaction tell what its commit is going
to set, and that a review past its first statements holds the row of its rule.

**ElementValidation.**  That a verdict is an answer is only stated of the end,
so `ElementInv` says it of the middle: a rule with a result has the status of
the one answer it was given when asked, or none and NOT_FOUND; a rule without a
result has not been answered (`Answer`).  To keep that, it must be known which
rules are still to come: results are of batches up to the present one, pending
rules are of this batch and have none (`Progress`), so an answer is never given
twice.  `FailuresShow` links the failed call to a rule that did not pass.
`CallsLeft` counts the rules from the present batch on twice, since each may be
asked again, and those pending once.  A step takes it down (`CallsRunOut`)
because a batch in range has a rule (`BatchHasARule`) and pending rules are of
the batch that was just counted.

**PackageValidation.**  A report says something only of the case as the run read
it, so `PackageInv` follows the run: while it is under way every element selected
is still to come or has a result that fits what was read of it (`Fits`, in
`RunInv`), and a finished report is of all elements selected (`Sound`).
`StatusInv` keeps the status of the case with that report until somebody else
sets it, `FreshInv` keeps a run that nothing has changed under with the case.
The other theorems are about `Sound` reports alone and hold of the roll-ups, the
merge and the counts as operators: an automatic run selects exactly the elements
that are compulsory or present; a missing compulsory element keeps its element
and the package from passing, whatever the reviews say; and a health of 100 per
cent with a gap is impossible because the rounding of `Percent` cannot hide one
of nineteen elements.  `ElementsFitThePackage` joins the two modules: what
`ElementValidation` delivers is a member of the `Outcomes` from which
`PackageValidation` draws, so nothing proved of the package rests on a guess
about the element.

**CaseFiles.**  What an upload numbers from the rows and what it writes to the
disk are far apart.  `FilesInv` says that one upload at a time is past the point
where it takes the row of the case (`OneHolder`), so what it has registered
follows the committed rows until its commit and shares no raw file with them
(`UploadInv`).  A directory without a gap has the files of all rows (`DiskInv`),
and what was copied is in S3 and stays there (`CopyInv`), although downloads and
copies stop half way.  `ReportInv` says that a validation which overlaps no
other on its instance is the only writer of the report from its first write on
(`RunInv`), and that only later validations come after the status (`JudgeInv`).
Most actions do not touch a validation: one lemma says what they have in common
(`Quiet`), and the actions are instances of it.

**Tagging.**  `UnitInv` says for every unit what the passes have made of it that
have come to it: unasked and with the element the first pass gave it before
`Continue`; with an element of the nearest unit known, shared, or open because no
unit is known (`AfterContinue`); named by the file or the model (`AfterBackup`).
`CursorInv` says that a pass ends only when it has been at every unit, and that
elements the first pass found stay.  For the evidence two arguments meet.  The
first is about documents alone (`TextIsAtHome`): the i-th member of a sorted set
is the one with i members up to it (`SortedFacts`), so the number of headings up
to a paragraph is its section, and the number of places up to its own is the
page, slide or sheet.  The scan puts a paragraph into section k if the last one
before it that reads as heading k or k + 1 reads as heading k: that is the
heading itself, and the paragraph at home, or a repetition (`SectionFacts`).  The second is `EvidenceInv`: what has been
collected for an element is text of units tagged with it, and as long as all of
it fits, all text of those gone through.

**ControlCenter.**  `ScreenInv` says for which case a request can be under way
(`AtInv`: the open one, but for the first request of `openSubmission`), and which
parts of the screen the handler has still to replace (`ShowsInv`): all other
parts are of the open case, or empty.  `GenerateInv` says of `generateReport`
that every row it need not save any more is on the server as on the screen, and
that the report is asked for when no row is left.

**Licensing.**  `LicenceInv` says of every request what its reads still tell:
unless it was overtaken (`late`), what a login read is still in the engineer's
row, and an activation that passed its check would pass it again.  Two theorems say how far
the disagreement on two PCs goes.  With a device from the start, the approved PC
of an engineer never changes (`KnownInv`): only activations from it pass, so
their commits approve it again, overtaken or not.  With one request at a time,
nothing is ever overtaken (`NothingLate`).  It takes a licence without a device
and requests that overlap.

**Accounts.**  `AccountsInv` says of a deletion that has counted that another
super admin is still there unless it was overtaken (`RequestInv`), and which
requests exclude one another by the row and key locks they hold (`Excludes`):
without the second, a sign-in could slip between the two DELETEs.

**RateLimiter.**  The window is stated on the history, the code decides on the
deque.  `LimiterInv` says that the deque is a suffix of the history and what is
before it has left the window (`Suffix`), that ages are in order (`Ordered`), and
that a sleeping thread has no more time left than the request needs that is
`Limit - 1` before the latest (`SleepInv`).

**RuleStore.**  Positions and numbers are read at different times.  `StoreInv`
says that numbers have no gaps (`NoGaps`), that a position is never beyond its
number and a custom rule lies above what was synchronised before it (`RuleInv`),
and what a call of `add_rule` knows of the rules it has read (`AddInv`): one that
arrives late meets a number in use and fails, one that arrives in time comes
after all others.

Each invariant has a lemma per action; the last lemma combines them, and the
theorems follow from it.

### What is only checked on instances

* Liveness (`EveryOperationEnds`, `EveryElementEnds`, `SomeoneGetsThrough`):
  temporal reasoning under fairness and ENABLED is out of the prover's reach.
  Of `EveryElementEnds` all but the fairness is proved (`CallsRunOut`).

All other properties of the passing runs are proved.

## 5. What is not modelled, and why

* Reading Word, Excel, PowerPoint and PDF files and OCR: third-party formats, no
  state.  What the extractors hand on is in `DocumentUnits` where it decides the
  units.  The word lists and phrases of the tagging heuristics, and the table of
  file types: tables of texts.
* PDF layout, wording of prompts, recommendations and narrative of reports, the
  style of the page.
* Reading of settings; those that change behaviour are constants.
* Migrations of `init_db`: they run before the first request of a new version.
* Lists, searches and counts over all cases: queries that keep nothing.
* The views of the control center that keep nothing between answers: dashboard,
  list, rule library, audit, administration.  Two handlers of the control center
  at once: nothing in `app.js` orders them, so no property of the screen holds
  then, and the run has a user who waits.
* Several customers, roles of engineers, and device id and host name apart.
* Costs, timings, prompts and responses that a validation saves beside its
  report.  `get_report_csv` reads an entry of the report that nothing writes.

## 6. What could be added

**Licensing** with two customers that share an e-mail address
(`customers.py:421`).
