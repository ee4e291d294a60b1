-------------------------- MODULE ElementValidation --------------------------
(***************************************************************************)
(* The validation of one element of a case: how the rules of the element   *)
(* are put to the language model (all at once, in batches, one by one      *)
(* again), what becomes of answers that are missing, stray or failed, and  *)
(* the status the element gets from them, first in the validation report   *)
(* and again when the report is merged with the human reviews.             *)
(*                                                                         *)
(* The model may answer a call with any statuses for any rules, those it   *)
(* was asked for and others, or the call may fail.  Of several answers for *)
(* a rule in one reply the last counts, so a reply is a function from rule *)
(* numbers to raw statuses.                                                *)
(***************************************************************************)
EXTENDS Naturals, FiniteSets

CONSTANTS NumRules,  \* enabled rules of the element, in catalog order: there
                     \* may be none (an administrator can disable them all)
          Settings,  \* the settings explored, PPAP_VALIDATION_...
          Raw,       \* the raw statuses the model may give
          Strays     \* the rules it may answer without being asked

(***************************************************************************)
(* batch is RULE_BATCH_SIZE (0: never batched), schema is the batch size   *)
(* SCHEMA_RETRY_RULE_BATCH_SIZE of a second try, retry is                  *)
(* RETRY_MISSING_RULES.                                                    *)
(***************************************************************************)
Setting == [batch : Nat, schema : Nat, retry : BOOLEAN]

ASSUME NumRulesAssumption == NumRules \in Nat
ASSUME SettingsAssumption == Settings \subseteq Setting
ASSUME StrayAssumption == Strays \subseteq 1..NumRules

VARIABLES set,      \* the settings of the process
          element,  \* what decides how the element is validated
          mode,     \* the kind of call that comes next, or how it ended
          size,     \* the batch size in force
          batch,    \* the number of the batch that is being asked
          pending,  \* rules of the batch still to be asked again
          results,  \* the answers collected: rule -> raw status
          failed,   \* did a call fail (model_error)?
          said,     \* history: the statuses given to a rule that was asked,
                    \* in the replies that were kept
          thrown    \* history: the rules answered in a reply thrown away

history == <<said, thrown>>
vars    == <<set, element, mode, size, batch, pending, results, failed,
             history>>

Rules    == 1..NumRules
Statuses == {"PASS", "FLAG", "NOT_FOUND"}
Ended    == {"done", "aborted"}

Element == [dry : BOOLEAN, present : BOOLEAN, required : BOOLEAN]

\* _normalize_checkpoint_result
Normal(s) == CASE s \in {"PASS", "N/A"}         -> "PASS"
               [] s \in {"FLAG", "CONDITIONAL"} -> "FLAG"
               [] OTHER                         -> "NOT_FOUND"

NoAnswers == [r \in {} |-> "PASS"]

\* g where it is defined, f elsewhere
Over(f, g) == [r \in DOMAIN f \cup DOMAIN g |->
                 IF r \in DOMAIN g THEN g[r] ELSE f[r]]

All(S, s) == [r \in S |-> s]

Only(f, S) == [r \in DOMAIN f \cap S |-> f[r]]

\* _rule_batches, counting from 0
Chunk(k, n) == {r \in Rules : r > k * n /\ r <= (k + 1) * n}

Batched == set.batch > 0 /\ NumRules > set.batch

Replies(asked) ==
  UNION {[D -> Raw] : D \in {A \cup S : A \in SUBSET asked,
                                         S \in SUBSET (Strays \ asked)}}

-----------------------------------------------------------------------------

\* _validate_element: a dry run and an element without evidence ask nothing
Init ==
  /\ set \in Settings /\ element \in Element
  /\ size = set.batch /\ batch = 0 /\ pending = {} /\ failed = FALSE
  /\ said = [r \in Rules |-> {}] /\ thrown = {}
  /\ \/ /\ element.dry
        /\ mode = "done" /\ results = All(Rules, "PASS")
     \/ /\ ~element.dry /\ ~element.present
        /\ mode = "done"
        /\ results = All(Rules, IF element.required THEN "NOT_FOUND"
                                                    ELSE "PASS")
     \/ /\ ~element.dry /\ element.present
        /\ mode = IF Batched THEN "batch" ELSE "whole"
        /\ results = NoAnswers

Heard(asked, reply) ==
  /\ said' = [r \in Rules |-> IF r \in asked \cap DOMAIN reply
                              THEN said[r] \cup {Normal(reply[r])} ELSE said[r]]
  /\ UNCHANGED thrown

\* _validate_with_model, one call for all rules: a reply that omits some is
\* thrown away and the rules are asked again in batches
WholeAnswered(reply) ==
  LET missing == Rules \ DOMAIN reply
  IN  /\ mode = "whole"
      /\ IF missing # {} /\ set.schema > 0 /\ NumRules > set.schema
         THEN /\ mode' = "batch" /\ size' = set.schema
              /\ thrown' = DOMAIN reply
              /\ UNCHANGED <<results, said>>
         ELSE /\ mode' = "done" /\ results' = reply
              /\ Heard(Rules, reply)
              /\ UNCHANGED size
      /\ UNCHANGED <<set, element, batch, pending, failed>>

WholeFailed ==
  /\ mode = "whole"
  /\ mode' = "done" /\ failed' = TRUE
  /\ results' = All(Rules, "NOT_FOUND")
  /\ UNCHANGED <<set, element, size, batch, pending, history>>

\* Fault: after the last batch the first one is asked again.
NextBatchWraps ==
  mode' = "batch" /\ batch' = IF (batch + 1) * size < NumRules
                              THEN batch + 1 ELSE 0

\* the batch is complete: the next one, or the end
NextBatch ==
  IF (batch + 1) * size < NumRules
  THEN mode' = "batch" /\ batch' = batch + 1
  ELSE mode' = "done" /\ UNCHANGED batch

\* Fault: the reply is not filtered by the rules of the batch.
BatchAnsweredUnfiltered(reply) ==
  LET asked   == Chunk(batch, size)
      missing == asked \ DOMAIN reply
  IN  /\ mode = "batch"
      /\ results' = Over(results, reply)
      /\ Heard(asked, reply)
      /\ IF set.retry /\ missing # {} /\ Cardinality(asked) > 1
         THEN mode' = "retry" /\ pending' = missing /\ UNCHANGED batch
         ELSE NextBatch /\ UNCHANGED pending
      /\ UNCHANGED <<set, element, size, failed>>

\* _validate_rule_batches: one batch
BatchAnswered(reply) ==
  LET asked   == Chunk(batch, size)
      missing == asked \ DOMAIN reply
  IN  /\ mode = "batch"
      /\ results' = Over(results, Only(reply, asked))
      /\ Heard(asked, reply)
      /\ IF set.retry /\ missing # {} /\ Cardinality(asked) > 1
         THEN mode' = "retry" /\ pending' = missing /\ UNCHANGED batch
         ELSE NextBatch /\ UNCHANGED pending
      /\ UNCHANGED <<set, element, size, failed>>

BatchFailed ==
  /\ mode = "batch"
  /\ results' = Over(results, All(Chunk(batch, size), "NOT_FOUND"))
  /\ failed' = TRUE
  /\ NextBatch
  /\ UNCHANGED <<set, element, size, pending, history>>

NextToAsk == CHOOSE r \in pending : \A q \in pending : r <= q

\* the rule has been asked again: the next one, or the next batch
NextRetry ==
  /\ pending' = pending \ {NextToAsk}
  /\ IF pending' # {} THEN UNCHANGED <<mode, batch>> ELSE NextBatch

\* _retry_missing_rules: one rule; _merge_batch_responses keeps earlier answers
RetryAnswered(reply) ==
  /\ mode = "retry"
  /\ results' = Over(Only(reply, {NextToAsk}), results)
  /\ Heard({NextToAsk}, reply)
  /\ NextRetry
  /\ UNCHANGED <<set, element, size, failed>>

\* Fault: the placeholder for a failed retry is a pass.
RetryFailedPasses ==
  /\ mode = "retry"
  /\ results' = Over(All({NextToAsk}, "PASS"), results)
  /\ failed' = TRUE
  /\ NextRetry
  /\ UNCHANGED <<set, element, size, history>>

RetryFailed ==
  /\ mode = "retry"
  /\ results' = Over(All({NextToAsk}, "NOT_FOUND"), results)
  /\ failed' = TRUE
  /\ NextRetry
  /\ UNCHANGED <<set, element, size, history>>

\* a reply that is JSON but no object is not caught: the whole run fails
Malformed ==
  /\ mode \notin Ended
  /\ mode' = "aborted"
  /\ UNCHANGED <<set, element, size, batch, pending, results, failed, history>>

Next == \/ mode = "whole" /\ \E reply \in Replies(Rules) :
             WholeAnswered(reply)
        \/ WholeFailed
        \/ mode = "batch" /\ \E reply \in Replies(Chunk(batch, size)) :
             BatchAnswered(reply)
        \/ BatchFailed
        \/ mode = "retry" /\ \E reply \in Replies({NextToAsk}) :
             RetryAnswered(reply)
        \/ RetryFailed
        \/ Malformed

\* every call to the model returns or fails: it has a timeout
Spec == Init /\ [][Next]_vars /\ WF_vars(Next)

-----------------------------------------------------------------------------

\* Fault: rules without an answer count as passed.
FinalLenient(r) == IF r \in DOMAIN results THEN Normal(results[r]) ELSE "PASS"

\* _normalize_element_result: a rule without an answer is NOT_FOUND
Final(r) == IF r \in DOMAIN results THEN Normal(results[r]) ELSE "NOT_FOUND"

\* _element_status, and the same choice in apply_rule_reviews
StatusOf(f) == IF \E r \in Rules : f[r] \in {"FLAG", "NOT_FOUND"}
               THEN "REVIEW" ELSE "PASS"

\* element_status in the validation report
ReportStatus ==
  IF element.dry THEN "N/A"
  ELSE IF ~element.present
       THEN IF element.required THEN "NOT_FOUND" ELSE "N/A"
  ELSE IF failed THEN "REVIEW"
  ELSE StatusOf([r \in Rules |-> Final(r)])

\* element_status after apply_rule_reviews; reviews: rule -> verdict
MergedStatus(reviews) ==
  IF ~element.present
  THEN IF element.required THEN "NOT_FOUND" ELSE "N/A"
  ELSE StatusOf(Over([r \in Rules |-> Final(r)], reviews))

-----------------------------------------------------------------------------

\* Type invariant of the validation of an element.
TypeOK == /\ set \in Settings
          /\ element \in Element
          /\ mode \in {"whole", "batch", "retry"} \cup Ended
          /\ size \in {set.batch, set.schema}
          /\ batch \in 0..NumRules
          /\ pending \subseteq Rules
          /\ (mode = "retry") = (pending # {} /\ mode # "aborted")
          /\ DOMAIN results \subseteq Rules
          /\ failed \in BOOLEAN
          /\ said \in [Rules -> SUBSET Statuses]
          /\ thrown \subseteq Rules

\* the model has been asked, and the element has its result
Judged == mode = "done" /\ ~element.dry /\ element.present

(***************************************************************************)
(* The verdict of a rule comes from a reply to a call that asked for that  *)
(* rule, whatever other batches say about it, and an answer is not lost to *)
(* a later call, with one exception: when the one call for all rules is    *)
(* answered for some of them only, that reply is thrown away and its       *)
(* answers with it.  The batches ask for those rules again, and a rule     *)
(* that gets no answer there is NOT_FOUND although it had one.             *)
(***************************************************************************)
VerdictIsTheAnswer ==
  Judged =>
    /\ \A r \in Rules :
         Final(r) \in IF said[r] = {} THEN {"NOT_FOUND"} ELSE said[r]
    /\ thrown # {} => ~Batched /\ thrown # Rules

(***************************************************************************)
(* An element passes only if every one of its rules was put to the model   *)
(* and answered with a pass, in the replies that are kept, and no call     *)
(* failed.  (What a reply said that was thrown away does not count.)       *)
(***************************************************************************)
PassIsEarned ==
  Judged /\ ReportStatus = "PASS" =>
    ~failed /\ \A r \in Rules : said[r] = {"PASS"}

(***************************************************************************)
(* apply_rule_reviews computes the status of an element anew and ignores   *)
(* model_error.  Without a review it still finds the status of the report, *)
(* because every failed call leaves a rule NOT_FOUND, except for an        *)
(* element all of whose rules are disabled: there the failed call shows in *)
(* the report (REVIEW) and the merge, with no reviews at all, passes the   *)
(* element.  Reviews clear an element only by settling every rule that did *)
(* not pass.  (A dry run is not the same either: N/A in the report, PASS   *)
(* or REVIEW after the merge.)                                             *)
(***************************************************************************)
ReviewsClearWhatFailed ==
  /\ mode = "done" /\ ~element.dry =>
       IF Rules = {} /\ failed
       THEN ReportStatus = "REVIEW" /\ MergedStatus(NoAnswers) = "PASS"
       ELSE MergedStatus(NoAnswers) = ReportStatus
  /\ Judged /\ ReportStatus = "REVIEW" =>
       \A S \in SUBSET Rules :
         MergedStatus(All(S, "PASS")) = "PASS"
           <=> {r \in Rules : Final(r) # "PASS"} \subseteq S

\* The validation of an element ends, whatever the model answers.
EveryElementEnds == <>(mode \in Ended)

=============================================================================
