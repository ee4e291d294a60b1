-------------------------- MODULE PackageValidation --------------------------
(***************************************************************************)
(* The validation of a whole package, and what happens to its case around  *)
(* it: a run reads the case, loads the tagged evidence, validates one      *)
(* element after the other, writes the report and sets the status of the   *)
(* case, while uploads, patches and reviews of the same case go on.        *)
(*                                                                         *)
(* One run at a time; overlapping runs are in CaseFiles.  The exchange with*)
(* the model about one element is in ElementValidation.                    *)
(***************************************************************************)
EXTENDS PackageReport

CONSTANTS StartLevels,  \* levels a case may have
          Taggable,     \* elements that uploads bring evidence for
          Choices,      \* sets of elements asked for by hand ({}: none)
          Reviewable,   \* keys of the rules that are reviewed
          MaxEdits      \* bound: uploads, patches and reviews

ASSUME LevelsAssumption == StartLevels \subseteq Levels
ASSUME TaggableAssumption == Taggable \subseteq 1..19
ASSUME ChoicesAssumption == Choices \subseteq SUBSET (1..99)
ASSUME MaxEditsAssumption == MaxEdits \in Nat

VARIABLES standard, level,  \* of the row in cases
          status,           \* of the row in cases
          tagged,           \* elements with a chunk in the tagging JSON
          reviews,          \* case_rule_reviews: key -> verdict
          report,           \* validation_report.json, or NoReport
          run,              \* the validation under way
          judged,           \* history: did a validation set the status last?
          fresh,            \* history: no upload or patch since the run began
          edits             \* number of uploads, patches and reviews so far

packageVars == <<standard, level, status, tagged, reviews, report, run,
                 judged, fresh, edits>>

row == <<standard, level, tagged>>

NoReport  == [standard |-> "none"]
NoReviews == [k \in {} |-> "PASS"]
NoResults == [e \in {} |-> "PASS"]
Idle      == [at |-> "idle"]

-----------------------------------------------------------------------------

PackageInit ==
  /\ standard \in Standards /\ level \in StartLevels
  /\ status = "draft"
  /\ tagged \in SUBSET Taggable
  /\ reviews = NoReviews
  /\ report = NoReport
  /\ run = Idle
  /\ judged = FALSE /\ fresh = FALSE /\ edits = 0

Edit == edits < MaxEdits /\ edits' = edits + 1

\* process_uploads for the case: the form overwrites standard and level
Attach(std, lev, elements) ==
  /\ Edit
  /\ standard' = std /\ level' = lev
  /\ tagged' = tagged \cup elements
  /\ status' = "in_review"
  /\ judged' = FALSE /\ fresh' = FALSE
  /\ UNCHANGED <<reviews, report, run>>

\* update_submission: standard, level or status
PatchScope(std, lev) ==
  /\ Edit
  /\ standard' = std /\ level' = lev
  /\ fresh' = FALSE
  /\ UNCHANGED <<status, tagged, reviews, report, run, judged>>

PatchStatus ==
  /\ Edit
  /\ status' = "approved" /\ judged' = FALSE
  /\ UNCHANGED <<row, reviews, report, run, fresh>>

\* save_rule_review
Review(key, verdict) ==
  /\ Edit
  /\ reviews' = [k \in DOMAIN reviews \cup {key} |->
                   IF k = key THEN verdict ELSE reviews[k]]
  /\ UNCHANGED <<row, status, report, run, judged, fresh>>

\* clear_rule_review
ClearReview(key) ==
  /\ key \in DOMAIN reviews
  /\ reviews' = [k \in DOMAIN reviews \ {key} |-> reviews[k]]
  /\ UNCHANGED <<row, status, report, run, judged, fresh, edits>>

\* generate_report: only the status matters to the case
Generate ==
  /\ report # NoReport
  /\ status' = "in_review" /\ judged' = FALSE
  /\ UNCHANGED <<row, reviews, report, run, fresh, edits>>

-----------------------------------------------------------------------------

\* Fault: the level is counted from zero.
StartLevelBelow(dry, chosen) ==
  /\ run = Idle
  /\ run' = [at |-> "load", standard |-> standard, level |-> level - 1,
             dry |-> dry, chosen |-> chosen]
  /\ fresh' = TRUE
  /\ UNCHANGED <<row, status, reviews, report, judged, edits>>

\* main.validate_case reads the case
Start(dry, chosen) ==
  /\ run = Idle
  /\ run' = [at |-> "load", standard |-> standard, level |-> level,
             dry |-> dry, chosen |-> chosen]
  /\ fresh' = TRUE
  /\ UNCHANGED <<row, status, reviews, report, judged, edits>>

\* load_tagged_documents, build_case_index, _selected_sequence
LoadEvidence ==
  /\ run.at = "load"
  /\ run' = [at |-> "elements", standard |-> run.standard,
             level |-> run.level, dry |-> run.dry, chosen |-> run.chosen,
             present |-> tagged, result |-> NoResults,
             todo |-> Selected(run.standard, run.level, run.chosen, tagged)]
  /\ UNCHANGED <<row, status, reviews, report, judged, fresh, edits>>

\* _validate_element: what may become of element e in this run
Outcomes(e) ==
  LET evidence == e \in run.present
      required == e \in Compulsory(run.standard, run.level)
  IN  CASE run.dry   -> {DryResult(e, evidence, required)}
        [] ~run.dry /\ ~evidence -> {MissingResult(e, required)}
        [] OTHER     -> ModelResults(e, required)

ValidateElement ==
  /\ run.at = "elements"
  /\ \E e \in run.todo :
       /\ IsFirst(run.standard, run.todo, e)
       /\ \E res \in Outcomes(e) :
            run' = [run EXCEPT
              !.todo = run.todo \ {e},
              !.result = [x \in DOMAIN run.result \cup {e} |->
                            IF x = e THEN res ELSE run.result[x]]]
  /\ UNCHANGED <<row, status, reviews, report, judged, fresh, edits>>

\* _build_report, validation_report.json
WriteReport ==
  /\ run.at = "elements" /\ run.todo = {}
  /\ report' = [standard |-> run.standard, level |-> run.level,
                dry |-> run.dry, chosen |-> run.chosen,
                present |-> run.present, result |-> run.result]
  /\ run' = [at |-> "written"]
  /\ UNCHANGED <<row, status, reviews, judged, fresh, edits>>

\* Fault: missing elements do not count if the results are good.
FailsPackageOverall(rep) == Overall(rep) \in {"NOT_FOUND", "REVIEW"}

FailsPackage(rep) ==
  Overall(rep) \in {"NOT_FOUND", "REVIEW"} \/ MissingCompulsory(rep) # {}

\* the UPDATE at the end of main.validate_case
CommitStatus ==
  /\ run.at = "written"
  /\ status' = IF FailsPackage(report) THEN "failed" ELSE "in_review"
  /\ judged' = TRUE
  /\ run' = Idle
  /\ UNCHANGED <<row, reviews, report, fresh, edits>>

\* no tagging folder, an answer that is no object, a crash
Abort ==
  /\ run # Idle
  /\ run' = Idle
  /\ judged' = FALSE
  /\ fresh' = FALSE
  /\ UNCHANGED <<row, status, reviews, report, edits>>

RunStep == LoadEvidence \/ ValidateElement \/ WriteReport \/ CommitStatus

PackageNext ==
  \/ \E std \in Standards, lev \in StartLevels :
       \/ \E e \in Taggable : Attach(std, lev, {e})
       \/ PatchScope(std, lev)
  \/ PatchStatus
  \/ \E key \in Reviewable :
       \/ \E v \in Verdicts : Review(key, v)
       \/ ClearReview(key)
  \/ Generate
  \/ \E dry \in BOOLEAN, chosen \in Choices : Start(dry, chosen)
  \/ RunStep
  \/ Abort

PackageSpec == PackageInit /\ [][PackageNext]_packageVars

-----------------------------------------------------------------------------

\* there is a report, and no run under way
AtRest == report # NoReport /\ run = Idle

(***************************************************************************)
(* The status a validation gives is earned: in_review only if no compulsory*)
(* element of the level lacked evidence, no rule failed and no call to the *)
(* model failed - whatever elements were asked for by hand.                *)
(***************************************************************************)
StatusIsEarned ==
  judged /\ run = Idle =>
    (status = "in_review" <=>
       /\ Required(report) \subseteq report.present
       /\ WithVerdict(report, {"FLAG", "NOT_FOUND"}) = {}
       /\ \A e \in Validated(report) : ~report.result[e].error)

(***************************************************************************)
(* Reviews settle everything but missing evidence: passing every rule on   *)
(* the review screen makes the package pass exactly if no compulsory       *)
(* element lacked evidence (review_payload shows every rule that matters,  *)
(* apply_rule_reviews lets no review stand in for a document).             *)
(***************************************************************************)
PassShown ==
  [k \in UNION {{Key(report.standard, e, r) : r \in RulesIn(report, e)} :
                  e \in OnReviewScreen(report)} |-> "PASS"]

ReviewsCannotFillGaps ==
  AtRest /\ Automatic(report) =>
    (Overall(Merged(report, PassShown)) = "PASS"
       <=> MissingCompulsory(report) = {})

(***************************************************************************)
(* The overall status of the report speaks for every row of its table, the *)
(* elements that were not validated included (_build_element_report gives  *)
(* them a status of its own) - unless elements were picked by hand.        *)
(***************************************************************************)
Settled(s) == s \in {"PASS", "N/A"}

OverallCoversTable ==
  AtRest /\ report.chosen = {} =>
    LET m == Merged(report, reviews)
    IN  Settled(PackageStatus({m.result[e].status : e \in Validated(m)}))
          <=> \A e \in Catalog(m.standard) : Settled(TableStatus(m, e))

(***************************************************************************)
(* A report that is not settled says why, and one that is has no finding   *)
(* but failed calls whose rules were settled by hand.  The severity view is*)
(* taken of the validation before the merge (main calls severity_summary   *)
(* with latest_report): a rule it calls critical is a High issue of the    *)
(* report exactly unless a review has passed that rule - then the report   *)
(* shows no issue, and the severity view still shows a critical one.       *)
(***************************************************************************)
PassedByHand(p) ==
  LET key == Key(report.standard, p[1], p[2])
  IN  key \in DOMAIN reviews /\ reviews[key] = "PASS"

FindingsReachTheReport ==
  AtRest /\ Automatic(report) =>
    LET m == Merged(report, reviews)
    IN  /\ Settled(Overall(m)) => \A i \in Issues(m) : i.kind = "MODEL_ERROR"
        /\ Settled(Overall(m)) \/ Issues(m) # {} \/ MissingEvidence(m) # {}
        /\ \A p \in Bucket(report, "critical") :
             Issue("RULE", p[1], p[2], "High") \in Issues(m) <=> ~PassedByHand(p)

(***************************************************************************)
(* The health figures of the dashboard agree with the level: documents are *)
(* at 100 only if no compulsory element lacks evidence, and the missing    *)
(* documents are as many as the validation found missing.                  *)
(***************************************************************************)
HealthTellsGaps ==
  AtRest /\ Automatic(report) =>
    LET h == Health(report)
    IN  /\ h.missing_documents = Cardinality(MissingCompulsory(report))
        /\ h.documents \in 0..100 /\ h.requirements \in 0..100
        /\ h.documents = 100 <=> MissingCompulsory(report) = {}

(***************************************************************************)
(* The document matrix mixes the case as it is now with the latest report: *)
(* if nothing was uploaded or patched since the run began, its critical    *)
(* rows are the compulsory elements without a document.                    *)
(***************************************************************************)
MatrixAgrees ==
  fresh /\ AtRest /\ Automatic(report) =>
    LET matrix == Matrix(standard, level, tagged, report.result)
    IN  {e \in DOMAIN matrix : matrix[e].severity = "critical"}
          = Compulsory(standard, level) \ tagged
=============================================================================
