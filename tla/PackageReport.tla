---------------------------- MODULE PackageReport ----------------------------
(***************************************************************************)
(* What is computed from the validation of a package, without any state:   *)
(* which elements a submission level asks for, the status of the package,  *)
(* the merge with the human reviews, and the three views of the result     *)
(* (the structured report, the severity buckets with the health figures of *)
(* the dashboard, the document matrix).                                    *)
(*                                                                         *)
(* A report maps each element that was validated to its result: a status   *)
(* for every rule, the status of the element, whether it had evidence,     *)
(* whether the level required it and whether a call to the model failed.   *)
(***************************************************************************)
EXTENDS Integers, Sequences, FiniteSets

CONSTANT RulesOf  \* element number -> the number of its rules that are enabled

Standards == {"aiag_ppap", "vda_ppf"}
Levels    == 1..5

ASSUME RulesOfAssumption == RulesOf \in [1..19 -> Nat]

\* the order in which the elements are validated, and the catalogue's elements
ValidationSequence(std) ==
  IF std = "aiag_ppap"
  THEN <<1, 2, 3, 17, 4, 5, 6, 7, 8, 16, 9, 10, 12, 11, 14, 15, 13, 18>>
  ELSE <<1, 2, 3, 18, 5, 6, 7, 8, 17, 9, 10, 13, 12, 11, 15, 16, 14, 19, 4>>

Catalog(std) == IF std = "aiag_ppap" THEN 1..18 ELSE 1..19

\* LEVEL_POLICIES; a VDA submission has one scope, whatever its level
Compulsory(std, level) ==
  CASE std = "vda_ppf"   -> {1, 5, 6, 7, 8, 9, 10, 11, 12, 13, 15, 18, 19}
    [] level \in {1, 4}  -> {18}
    [] level = 2         -> {1, 9, 14, 18}
    [] OTHER             -> {1, 5, 6, 7, 8, 9, 10, 11, 12, 14, 15, 17, 18}

Optional(std, level) == Catalog(std) \ Compulsory(std, level)

\* Fault: what is present decides, the level does not.
SelectedPresent(std, level, chosen, present) ==
  IF chosen # {} THEN chosen \cap Catalog(std) ELSE present \cap Catalog(std)

\* _selected_sequence as a set; elements the catalogue does not know fall out
Selected(std, level, chosen, present) ==
  Catalog(std) \cap IF chosen # {} THEN chosen
                    ELSE present \cup Compulsory(std, level)

\* the element that the sequence has first among those left
IsFirst(std, todo, e) ==
  LET sequence == ValidationSequence(std)
  IN  \E i \in DOMAIN sequence :
        sequence[i] = e /\ \A j \in 1..(i - 1) : sequence[j] \notin todo

-----------------------------------------------------------------------------

Verdicts == {"PASS", "FLAG", "NOT_FOUND"}

Uniform(e, v) == [r \in 1..RulesOf[e] |-> v]

\* _element_status
ElementStatus(rules) ==
  IF \E r \in DOMAIN rules : rules[r] \in {"FLAG", "NOT_FOUND"}
  THEN "REVIEW" ELSE "PASS"

AbsenceStatus(required) == IF required THEN "NOT_FOUND" ELSE "N/A"

\* _dry_run_response, normalised
DryResult(e, evidence, required) ==
  [rules |-> Uniform(e, "PASS"), status |-> "N/A", evidence |-> evidence,
   required |-> required, error |-> FALSE]

\* _missing_evidence_response, normalised
MissingResult(e, required) ==
  [rules |-> Uniform(e, IF required THEN "NOT_FOUND" ELSE "PASS"),
   status |-> AbsenceStatus(required), evidence |-> FALSE,
   required |-> required, error |-> FALSE]

(***************************************************************************)
(* What _validate_with_model and the normalisation may return for an       *)
(* element with evidence (ElementValidation has the exchange): any verdicts*)
(* or, when a call failed, verdicts of which one at least is NOT_FOUND (no *)
(* verdict at all if the rules of the element are disabled).               *)
(***************************************************************************)
ModelResult(v, err, required) ==
  [rules |-> v, status |-> IF err THEN "REVIEW" ELSE ElementStatus(v),
   evidence |-> TRUE, required |-> required, error |-> err]

ModelResults(e, required) ==
  LET answers == [1..RulesOf[e] -> Verdicts]
      failed  == {v \in answers : \/ RulesOf[e] = 0
                                  \/ \E r \in DOMAIN v : v[r] = "NOT_FOUND"}
  IN  {ModelResult(v, FALSE, required) : v \in answers}
        \cup {ModelResult(v, TRUE, required) : v \in failed}

\* _package_status; also the end of apply_rule_reviews
PackageStatus(statuses) ==
  CASE "NOT_FOUND" \in statuses -> "NOT_FOUND"
    [] "REVIEW" \in statuses    -> "REVIEW"
    [] statuses = {"N/A"}       -> "N/A"
    [] OTHER                    -> "PASS"

(***************************************************************************)
(* A report: standard and level of the case when the run read it, dry_run, *)
(* the elements asked for by hand ({}: none), the elements with evidence,  *)
(* and the results (_build_report).                                        *)
(***************************************************************************)
Validated(rep) == DOMAIN rep.result
Overall(rep)   == PackageStatus({rep.result[e].status : e \in Validated(rep)})
Required(rep)  == Compulsory(rep.standard, rep.level)

\* required_missing_elements, which is level_policy.missing_compulsory_elements
MissingCompulsory(rep) == Required(rep) \ rep.present

\* no elements asked for by hand, and not a dry run
Automatic(rep) == rep.chosen = {} /\ ~rep.dry

-----------------------------------------------------------------------------

\* a review is found under its key: standard, element and number of the rule
Key(std, e, r) == <<std, e, r>>

\* Fault: a review decides over missing evidence too.
MergedElementLenient(std, e, res, reviews) ==
  LET rules == [r \in DOMAIN res.rules |->
                  IF Key(std, e, r) \in DOMAIN reviews
                  THEN reviews[Key(std, e, r)] ELSE res.rules[r]]
  IN  [res EXCEPT !.rules = rules, !.status = ElementStatus(rules)]

\* apply_rule_reviews, one element
MergedElement(std, e, res, reviews) ==
  LET rules == [r \in DOMAIN res.rules |->
                  IF Key(std, e, r) \in DOMAIN reviews
                  THEN reviews[Key(std, e, r)] ELSE res.rules[r]]
  IN  [res EXCEPT !.rules = rules,
                  !.status = IF res.evidence THEN ElementStatus(rules)
                             ELSE AbsenceStatus(res.required)]

Merged(rep, reviews) ==
  [rep EXCEPT !.result =
     [e \in Validated(rep) |->
        MergedElement(rep.standard, e, rep.result[e], reviews)]]

\* review_payload leaves out optional elements without evidence
OnReviewScreen(rep) ==
  {e \in Validated(rep) : rep.result[e].required \/ rep.result[e].evidence}

-----------------------------------------------------------------------------

\* the structured report: a row for every element of the catalogue
Requirement(rep, e) == IF e \in Required(rep) THEN "COMPULSORY" ELSE "OPTIONAL"

Presence(rep, e) ==
  IF e \in Validated(rep)
  THEN IF rep.result[e].evidence THEN "PRESENT" ELSE "NO_TAGGED_EVIDENCE"
  ELSE IF e \in Required(rep) THEN "REQUIRED_MISSING"
  ELSE "OPTIONAL_NOT_SUBMITTED"

TableStatus(rep, e) ==
  IF e \in Validated(rep) THEN rep.result[e].status
  ELSE AbsenceStatus(e \in Required(rep))

\* the rules of an element the report has a verdict for
RulesIn(rep, e) == IF e \in Validated(rep) THEN DOMAIN rep.result[e].rules ELSE {}

WithVerdict(rep, V) ==
  UNION {{<<e, r>> : r \in {x \in RulesIn(rep, e) : rep.result[e].rules[x] \in V}} :
           e \in Catalog(rep.standard)}

\* ISSUE_STATUSES that a rule can have
IssueStatuses == {"FLAG", "NOT_FOUND"}

\* _priority
Priority(rep, e) == IF e \in Required(rep) THEN "High" ELSE "Medium"

(***************************************************************************)
(* _top_issues and _critical_issues: a rule that is not passed, a failed   *)
(* call, a compulsory element without a result.                            *)
(***************************************************************************)
Issue(kind, e, rule, priority) ==
  [kind |-> kind, element |-> e, rule |-> rule, priority |-> priority]

Issues(rep) ==
  {Issue("RULE", p[1], p[2], Priority(rep, p[1])) :
     p \in WithVerdict(rep, IssueStatuses)}
  \cup
  {Issue("MODEL_ERROR", e, 0, Priority(rep, e)) :
     e \in {x \in Validated(rep) : rep.result[x].error}}
  \cup
  {Issue("ELEMENT_MISSING", e, 0, "High") :
     e \in {x \in Catalog(rep.standard) : Presence(rep, x) = "REQUIRED_MISSING"}}

\* _missing_evidence_rows: compulsory elements without evidence have one
MissingEvidence(rep) ==
  {e \in Required(rep) : Presence(rep, e) \in {"NO_TAGGED_EVIDENCE",
                                               "REQUIRED_MISSING"}}

\* _checkpoint_summary, _aggregate_checkpoint_summary
Counts(rep) ==
  [total     |-> Cardinality(WithVerdict(rep, Verdicts)),
   pass      |-> Cardinality(WithVerdict(rep, {"PASS"})),
   flag      |-> Cardinality(WithVerdict(rep, {"FLAG"})),
   not_found |-> Cardinality(WithVerdict(rep, {"NOT_FOUND"}))]

-----------------------------------------------------------------------------

\* Fault: a rule that is not found is critical in optional elements too.
SeverityOfAny(v, required) ==
  CASE v \in {"PASS", "N/A"} -> "passed"
    [] v = "NOT_FOUND"       -> "critical"
    [] OTHER                 -> "warning"

\* _severity_for_rule, for the statuses that rules and elements have
Severity(v, required) ==
  CASE v \in {"PASS", "N/A"} -> "passed"
    [] v = "NOT_FOUND"       -> IF required THEN "critical" ELSE "major"
    [] OTHER                 -> "warning"

\* severity_summary
Bucket(rep, s) ==
  {p \in WithVerdict(rep, Verdicts) :
     Severity(rep.result[p[1]].rules[p[2]], rep.result[p[1]].required) = s}

\* round(100 * a / b): to the nearest integer, halves to the even one
Percent(a, b) ==
  LET q == (100 * a) \div b
      rest == 2 * ((100 * a) % b)
  IN  IF rest > b \/ (rest = b /\ q % 2 = 1) THEN q + 1 ELSE q

AtLeastOne(n) == IF n = 0 THEN 1 ELSE n

HealthRequired(rep) ==
  {e \in Validated(rep) : rep.result[e].required \/ e \in Required(rep)}

\* Fault: only N/A counts as absent.
HealthPresentLenient(rep) ==
  {e \in HealthRequired(rep) : rep.result[e].status # "N/A"}

HealthPresent(rep) ==
  {e \in HealthRequired(rep) : rep.result[e].status \notin {"NOT_FOUND", "N/A"}}

\* _validation_health, of the report as the run wrote it
Health(rep) ==
  LET required == HealthRequired(rep)
  IN  [documents |->
         IF required = {} THEN 100
         ELSE Percent(Cardinality(HealthPresent(rep)), Cardinality(required)),
       requirements |->
         Percent(Cardinality(Bucket(rep, "passed")),
                 AtLeastOne(Cardinality(WithVerdict(rep, Verdicts)))),
       critical |-> Cardinality(Bucket(rep, "critical")),
       missing_documents |->
         Cardinality({e \in required : rep.result[e].status = "NOT_FOUND"})]

(***************************************************************************)
(* document_matrix: standard and level of the case as it is now, the tags  *)
(* on the disk and the latest report (or none).                            *)
(***************************************************************************)
MatrixStatus(results, tagged, e) ==
  IF e \in DOMAIN results THEN results[e].status
  ELSE IF e \in tagged THEN "mapped" ELSE "missing"

Matrix(std, level, tagged, results) ==
  [e \in Catalog(std) |->
     LET required == e \in Compulsory(std, level)
     IN  [required |-> required,
          status   |-> MatrixStatus(results, tagged, e),
          severity |-> IF e \in DOMAIN results
                       THEN Severity(results[e].status, required)
                       ELSE IF required THEN "warning" ELSE "passed"]]
=============================================================================
