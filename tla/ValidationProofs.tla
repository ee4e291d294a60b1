---------------------------- MODULE ValidationProofs ----------------------------
(***************************************************************************)
(* Proofs about the two levels of validation: ElementValidation, for any   *)
(* number of rules, any settings and any replies, and PackageValidation,   *)
(* for any catalogue of rules, any case levels, any choices of elements    *)
(* and any number of edits; and that the second expects of an element what *)
(* the first delivers.                                                     *)
(*                                                                         *)
(* Of an element, the invariant says that each rule has at most one answer *)
(* and that the result is that answer: no batch touches a rule of another  *)
(* batch (the rules with results end where the batch begins), a rule is    *)
(* asked again only while it has no result, and a failed call leaves a     *)
(* rule that is not found.                                                 *)
(*                                                                         *)
(* Of a package, it says that a run keeps standard, level, choice and      *)
(* evidence as it has read them, and that each result it adds follows from *)
(* them (Fits); so does the report, which has a result for exactly the     *)
(* elements selected.  The properties are then facts about such a report   *)
(* and any reviews.                                                        *)
(***************************************************************************)
EXTENDS ElementValidation, PackageValidation, FiniteSetTheorems,
        WellFoundedInduction, TLAPS

-----------------------------------------------------------------------------
\* The validation of an element.

Asked == ~element.dry /\ element.present

Answer(r) ==
  IF r \in DOMAIN results
  THEN \/ said[r] = {Normal(results[r])}
       \/ said[r] = {} /\ Normal(results[r]) = "NOT_FOUND"
  ELSE said[r] = {}

\* the batch is one of the element
InRange == size > 0 /\ batch * size < NumRules

Progress ==
  /\ mode = "whole" => DOMAIN results = {} /\ batch = 0
  /\ mode \in {"batch", "retry"} => InRange
  /\ mode = "batch" => \A r \in DOMAIN results : r <= batch * size
  /\ mode = "retry" => /\ pending \subseteq Chunk(batch, size) \ DOMAIN results
                       /\ \A r \in DOMAIN results : r <= (batch + 1) * size

FailuresShow ==
  failed => \/ Rules = {}
            \/ \E r \in DOMAIN results : Normal(results[r]) = "NOT_FOUND"

\* only the one call for all rules is thrown away, and only if it left some out
Loss ==
  /\ mode = "whole" => ~Batched
  /\ thrown # {} => ~Batched /\ thrown # Rules

ElementInv ==
  /\ TypeOK
  /\ mode \notin Ended => Asked
  /\ Asked => \A r \in Rules : Answer(r)
  /\ Asked => FailuresShow
  /\ ~Asked => ~failed
  /\ Progress

-----------------------------------------------------------------------------
\* Facts about the operators.

LEMMA NormalType == ASSUME NEW s PROVE Normal(s) \in Statuses
  BY DEF Normal, Statuses

LEMMA OverFacts ==
  ASSUME NEW f, NEW g
  PROVE  /\ DOMAIN Over(f, g) = DOMAIN f \cup DOMAIN g
         /\ \A r \in DOMAIN g : Over(f, g)[r] = g[r]
         /\ \A r \in DOMAIN f \ DOMAIN g : Over(f, g)[r] = f[r]
  BY DEF Over

LEMMA OnlyFacts ==
  ASSUME NEW f, NEW S
  PROVE  /\ DOMAIN Only(f, S) = DOMAIN f \cap S
         /\ \A r \in DOMAIN f \cap S : Only(f, S)[r] = f[r]
  BY DEF Only

LEMMA AllFacts ==
  ASSUME NEW S, NEW s
  PROVE  DOMAIN All(S, s) = S /\ \A r \in S : All(S, s)[r] = s
  BY DEF All

\* Replies are about rules of the element only.
LEMMA RepliesAreOnRules ==
  ASSUME NEW asked \in SUBSET Rules, NEW reply \in Replies(asked)
  PROVE  DOMAIN reply \subseteq Rules
<1>1. PICK D \in {A \cup S : A \in SUBSET asked, S \in SUBSET (Strays \ asked)} :
        reply \in [D -> Raw]
  BY DEF Replies
<1>2. PICK A \in SUBSET asked, S \in SUBSET (Strays \ asked) : D = A \cup S
  BY <1>1
<1>3. D \subseteq Rules
  BY <1>2, StrayAssumption DEF Rules
<1> QED
  BY <1>1, <1>3

\* The order of the numbers, as a relation.
Less == {p \in Nat \X Nat : p[1] < p[2]}

LEMMA SmallestNumber ==
  ASSUME NEW S \in SUBSET Nat, S # {}
  PROVE  \E x \in S : \A y \in S : x <= y
<1>1. IsWellFoundedOn(Less, Nat)
  <2>1. Less = OpToRel(<, Nat)
    BY DEF Less, OpToRel
  <2> QED
    BY <2>1, NatLessThanWellFounded
<1>2. PICK x \in S : \A y \in S : <<y, x>> \notin Less
  BY <1>1, WFMin
<1>3. \A y \in S : x \in Nat /\ y \in Nat /\ <<y, x>> \in Nat \X Nat
  OBVIOUS
<1>4. \A y \in S : ~(y < x)
  BY <1>2, <1>3 DEF Less
<1> QED
  BY <1>3, <1>4

\* The rule to ask again is one of those that are missing.
LEMMA NextIsPending ==
  ASSUME TypeOK, pending # {}
  PROVE  NextToAsk \in pending
<1>1. pending \in SUBSET Nat
  BY NumRulesAssumption DEF TypeOK, Rules
<1>2. \E x \in pending : \A y \in pending : x <= y
  BY <1>1, SmallestNumber
<1> QED
  BY <1>2 DEF NextToAsk

\* The first rule of a batch.
LEMMA BatchHasARule ==
  ASSUME TypeOK, InRange
  PROVE  batch * size + 1 \in Chunk(batch, size)
<1>1. batch \in Nat /\ size \in Nat /\ NumRules \in Nat
  BY NumRulesAssumption, SettingsAssumption DEF TypeOK, Setting
<1>2. batch * size \in Nat /\ (batch + 1) * size = batch * size + size
  BY <1>1
<1> QED
  BY <1>1, <1>2 DEF InRange, Chunk, Rules

-----------------------------------------------------------------------------
\* The results after a call.

\* Rules that had no result get the answers of a reply.
LEMMA AnswersCome ==
  ASSUME TypeOK, \A r \in Rules : Answer(r),
         NEW asked \in SUBSET Rules, asked \cap DOMAIN results = {},
         NEW reply, DOMAIN reply \subseteq Rules, Heard(asked, reply),
         DOMAIN results' = DOMAIN results \cup (asked \cap DOMAIN reply),
         \A r \in DOMAIN results : results'[r] = results[r],
         \A r \in asked \cap DOMAIN reply : results'[r] = reply[r]
  PROVE  /\ said' \in [Rules -> SUBSET Statuses] /\ thrown' = thrown
         /\ DOMAIN results' \subseteq Rules
         /\ \A r \in Rules : Answer(r)'
         /\ FailuresShow /\ failed' = failed => FailuresShow'
<1>1. said' \in [Rules -> SUBSET Statuses] /\ thrown' = thrown
  BY NormalType DEF Heard, TypeOK
<1>2. DOMAIN results' \subseteq Rules
  BY DEF TypeOK
<1>3. ASSUME NEW r \in Rules PROVE Answer(r)'
  <2>1. CASE r \in asked \cap DOMAIN reply
    <3>1. said[r] = {} /\ said'[r] = said[r] \cup {Normal(reply[r])}
      BY <2>1 DEF Answer, Heard
    <3> QED
      BY <2>1, <3>1 DEF Answer
  <2>2. CASE r \notin asked \cap DOMAIN reply
    <3>1. said'[r] = said[r] /\ Answer(r)
      BY <2>2 DEF Heard
    <3> QED
      BY <2>2, <3>1 DEF Answer
  <2> QED
    BY <2>1, <2>2
<1>4. FailuresShow /\ failed' = failed => FailuresShow'
  BY DEF FailuresShow
<1> QED
  BY <1>1, <1>2, <1>3, <1>4

\* Rules that had no result are not found, because a call has failed.
LEMMA FailureComes ==
  ASSUME TypeOK, \A r \in Rules : Answer(r),
         NEW asked \in SUBSET Rules, asked \cap DOMAIN results = {},
         asked # {} \/ Rules = {}, said' = said,
         DOMAIN results' = DOMAIN results \cup asked,
         \A r \in DOMAIN results : results'[r] = results[r],
         \A r \in asked : results'[r] = "NOT_FOUND"
  PROVE  /\ DOMAIN results' \subseteq Rules
         /\ \A r \in Rules : Answer(r)'
         /\ FailuresShow'
<1>1. Normal("NOT_FOUND") = "NOT_FOUND"
  BY DEF Normal
<1>2. DOMAIN results' \subseteq Rules
  BY DEF TypeOK
<1>3. ASSUME NEW r \in Rules PROVE Answer(r)'
  <2>1. CASE r \in asked
    BY <1>1, <2>1 DEF Answer
  <2>2. CASE r \notin asked
    BY <2>2 DEF Answer
  <2> QED
    BY <2>1, <2>2
<1>4. FailuresShow'
  BY <1>1 DEF FailuresShow
<1> QED
  BY <1>2, <1>3, <1>4

\* After a batch, or the last rule that was asked again.
LEMMA BatchEnds ==
  ASSUME TypeOK, InRange, NextBatch, UNCHANGED <<set, element, size>>,
         \A r \in DOMAIN results' : r <= (batch + 1) * size,
         DOMAIN results' \subseteq Rules, pending' = {}
  PROVE  /\ mode' \in {"batch", "done"} /\ batch' \in 0..NumRules
         /\ Progress'
<1>1. batch \in Nat /\ size \in Nat /\ NumRules \in Nat /\ size > 0
  BY NumRulesAssumption, SettingsAssumption DEF TypeOK, Setting, InRange
<1>2. CASE (batch + 1) * size < NumRules
  <2>1. mode' = "batch" /\ batch' = batch + 1
    BY <1>2 DEF NextBatch
  <2>2. (batch + 1) * size >= batch + 1
    <3>1. (batch + 1) * size = (batch + 1) + (batch + 1) * (size - 1)
      BY <1>1
    <3>2. (batch + 1) * (size - 1) >= 0
      BY <1>1
    <3> QED
      BY <1>1, <3>1, <3>2
  <2> QED
    BY <1>1, <1>2, <2>1, <2>2 DEF Progress, InRange
<1>3. CASE ~((batch + 1) * size < NumRules)
  <2>1. mode' = "done" /\ batch' = batch
    BY <1>3 DEF NextBatch
  <2> QED
    BY <2>1 DEF Progress, TypeOK
<1> QED
  BY <1>2, <1>3

\* the first batch of an element has rules
LEMMA FirstIsInRange ==
  ASSUME NEW n \in Nat, NumRules > n
  PROVE  0 * n < NumRules
<1>1. 0 * n = 0
  OBVIOUS
<1>2. NumRules > 0
  BY NumRulesAssumption
<1> QED
  BY <1>1, <1>2

-----------------------------------------------------------------------------
\* The steps.

LEMMA WholeAnsweredKeeps ==
  ASSUME ElementInv, NEW reply \in Replies(Rules), WholeAnswered(reply)
  PROVE  ElementInv'
<1>1. /\ TypeOK /\ Asked /\ mode = "whole" /\ pending = {}
      /\ DOMAIN results = {} /\ batch = 0
      /\ UNCHANGED <<set, element, batch, pending, failed>>
  BY DEF ElementInv, WholeAnswered, Ended, TypeOK, Progress
<1>2. Asked' /\ \A r \in Rules : Answer(r)
  BY <1>1 DEF ElementInv, Asked
<1>3. CASE mode' = "batch"
  <2>1. /\ size' = set.schema /\ UNCHANGED <<results, said>>
        /\ set.schema > 0 /\ NumRules > set.schema
    BY <1>3 DEF WholeAnswered
  <2>2. set.schema \in Nat
    BY <1>1, SettingsAssumption DEF TypeOK, Setting
  <2>3. Progress'
    <3>1. batch' = 0 /\ size' \in Nat /\ size' > 0
      BY <1>1, <2>1, <2>2
    <3>2. 0 * size' < NumRules
      BY <2>1, <2>2, <3>1, FirstIsInRange
    <3>3. InRange'
      BY <3>1, <3>2 DEF InRange
    <3> QED
      BY <1>1, <1>3, <2>1, <3>1, <3>3 DEF Progress
  <2>4. TypeOK'
    <3>1. thrown' \subseteq Rules
      BY <1>3, RepliesAreOnRules DEF WholeAnswered
    <3> QED
      BY <1>1, <1>3, <2>1, <3>1 DEF TypeOK, Ended
  <2>5. (\A r \in Rules : Answer(r)') /\ FailuresShow'
    BY <1>1, <1>2, <2>1 DEF Answer, FailuresShow, ElementInv
  <2> QED
    BY <1>2, <2>3, <2>4, <2>5 DEF ElementInv
<1>4. CASE mode' # "batch"
  <2>1. /\ mode' = "done" /\ results' = reply /\ Heard(Rules, reply)
        /\ size' = size
    BY <1>4 DEF WholeAnswered
  <2>2. DOMAIN reply \subseteq Rules
    BY RepliesAreOnRules
  <2>3. /\ said' \in [Rules -> SUBSET Statuses] /\ thrown' = thrown
        /\ DOMAIN results' \subseteq Rules
        /\ \A r \in Rules : Answer(r)'
        /\ FailuresShow'
    <3>1. FailuresShow
      BY <1>1 DEF ElementInv
    <3> QED
      BY <1>1, <1>2, <2>1, <2>2, <3>1, AnswersCome
  <2>4. Progress'
    BY <2>1 DEF Progress
  <2>5. TypeOK'
    BY <1>1, <2>1, <2>3 DEF TypeOK, Ended
  <2> QED
    BY <1>2, <2>3, <2>4, <2>5 DEF ElementInv
<1> QED
  BY <1>3, <1>4

LEMMA WholeFailedKeeps ==
  ASSUME ElementInv, WholeFailed
  PROVE  ElementInv'
<1>1. /\ TypeOK /\ Asked /\ mode = "whole" /\ mode' = "done" /\ failed' = TRUE
      /\ pending = {} /\ DOMAIN results = {}
      /\ results' = All(Rules, "NOT_FOUND")
      /\ UNCHANGED <<set, element, size, batch, pending, said, thrown>>
  BY DEF ElementInv, WholeFailed, Ended, TypeOK, Progress, history
<1>2. Asked' /\ \A r \in Rules : Answer(r)
  BY <1>1 DEF ElementInv, Asked
<1>4. DOMAIN results' = Rules /\ \A r \in Rules : results'[r] = "NOT_FOUND"
  BY <1>1, AllFacts
<1>5. /\ DOMAIN results' \subseteq Rules
      /\ \A r \in Rules : Answer(r)'
      /\ FailuresShow'
  BY <1>1, <1>2, <1>4, FailureComes
<1>6. Progress' /\ TypeOK'
  BY <1>1, <1>5 DEF Progress, TypeOK, Ended
<1> QED
  BY <1>2, <1>5, <1>6 DEF ElementInv

LEMMA BatchFacts ==
  ASSUME ElementInv, mode \in {"batch", "retry"}
  PROVE  /\ TypeOK /\ Asked /\ InRange /\ FailuresShow
         /\ \A r \in Rules : Answer(r)
         /\ batch * size \in Nat /\ (batch + 1) * size \in Nat
         /\ batch * size <= (batch + 1) * size
         /\ \A r \in Chunk(batch, size) :
              r \in Rules /\ r > batch * size /\ r <= (batch + 1) * size
<1>1. TypeOK /\ Asked /\ InRange /\ FailuresShow /\ \A r \in Rules : Answer(r)
  BY DEF ElementInv, Ended, Progress
<1>2. batch \in Nat /\ size \in Nat
  BY <1>1, NumRulesAssumption, SettingsAssumption DEF TypeOK, Setting
<1>3. (batch + 1) * size = batch * size + size /\ batch * size \in Nat
  BY <1>2
<1> QED
  BY <1>1, <1>2, <1>3 DEF Chunk

LEMMA BatchAnsweredKeeps ==
  ASSUME ElementInv, NEW reply \in Replies(Chunk(batch, size)),
         BatchAnswered(reply)
  PROVE  ElementInv'
<1> DEFINE asked == Chunk(batch, size)
           missing == asked \ DOMAIN reply
<1>1. /\ mode = "batch" /\ results' = Over(results, Only(reply, asked))
      /\ Heard(asked, reply)
      /\ UNCHANGED <<set, element, size, failed>>
  BY DEF BatchAnswered
<1>2. /\ TypeOK /\ Asked /\ InRange /\ FailuresShow
      /\ \A r \in Rules : Answer(r)
      /\ batch * size \in Nat /\ (batch + 1) * size \in Nat
      /\ batch * size <= (batch + 1) * size
      /\ \A r \in asked :
           r \in Rules /\ r > batch * size /\ r <= (batch + 1) * size
  BY <1>1, BatchFacts
<1>3. \A r \in DOMAIN results : r \in Nat /\ r <= batch * size
  BY <1>1, <1>2, NumRulesAssumption DEF ElementInv, Progress, TypeOK, Rules
<1>4. asked \subseteq Rules /\ asked \cap DOMAIN results = {}
  BY <1>2, <1>3, NumRulesAssumption DEF Rules
<1>5. DOMAIN reply \subseteq Rules
  BY <1>4, RepliesAreOnRules
<1>6. /\ DOMAIN results' = DOMAIN results \cup (asked \cap DOMAIN reply)
      /\ \A r \in DOMAIN results : results'[r] = results[r]
      /\ \A r \in asked \cap DOMAIN reply : results'[r] = reply[r]
  <2> DEFINE o == Only(reply, asked)
  <2>1. /\ DOMAIN o = DOMAIN reply \cap asked
        /\ \A r \in DOMAIN reply \cap asked : o[r] = reply[r]
    BY OnlyFacts
  <2>2. results' = Over(results, o)
    BY <1>1
  <2> HIDE DEF asked, o
  <2>3. /\ DOMAIN Over(results, o) = DOMAIN results \cup DOMAIN o
        /\ \A r \in DOMAIN o : Over(results, o)[r] = o[r]
        /\ \A r \in DOMAIN results \ DOMAIN o : Over(results, o)[r] = results[r]
    BY OverFacts
  <2> QED
    BY <1>4, <2>1, <2>2, <2>3
<1> HIDE DEF asked
<1>7. /\ said' \in [Rules -> SUBSET Statuses] /\ thrown' = thrown
      /\ DOMAIN results' \subseteq Rules
      /\ \A r \in Rules : Answer(r)'
      /\ FailuresShow'
  BY <1>1, <1>2, <1>4, <1>5, <1>6, AnswersCome
<1>8. Asked' /\ \A r \in DOMAIN results' : r <= (batch + 1) * size
  BY <1>1, <1>2, <1>3, <1>6 DEF Asked
<1>9. CASE mode' = "retry"
  <2>1. /\ missing # {} /\ pending' = missing /\ batch' = batch
    BY <1>9 DEF BatchAnswered, NextBatch, asked
  <2>2. TypeOK'
    BY <1>1, <1>2, <1>4, <1>7, <1>9, <2>1 DEF TypeOK, Ended
  <2>3. missing \cap DOMAIN results' = {}
    BY <1>4, <1>6
  <2>4. Progress'
    BY <1>1, <1>2, <1>8, <1>9, <2>1, <2>3 DEF Progress, InRange, Chunk, asked, Rules
  <2> QED
    BY <1>7, <1>8, <2>2, <2>4 DEF ElementInv
<1>10. CASE mode' # "retry"
  <2>1. NextBatch /\ pending' = pending /\ pending = {}
    BY <1>1, <1>2, <1>10 DEF BatchAnswered, TypeOK, Ended
  <2>2. mode' \in {"batch", "done"} /\ batch' \in 0..NumRules /\ Progress'
    BY <1>1, <1>2, <1>7, <1>8, <2>1, BatchEnds
  <2>3. TypeOK'
    BY <1>1, <1>2, <1>7, <2>1, <2>2 DEF TypeOK, Ended
  <2> QED
    BY <1>7, <1>8, <2>2, <2>3 DEF ElementInv
<1> QED
  BY <1>9, <1>10

LEMMA BatchFailedKeeps ==
  ASSUME ElementInv, BatchFailed
  PROVE  ElementInv'
<1> DEFINE asked == Chunk(batch, size)
<1>1. /\ mode = "batch" /\ results' = Over(results, All(asked, "NOT_FOUND"))
      /\ failed' = TRUE /\ NextBatch
      /\ UNCHANGED <<set, element, size, pending, said, thrown>>
  BY DEF BatchFailed, history
<1>2. /\ TypeOK /\ Asked /\ InRange /\ FailuresShow
      /\ \A r \in Rules : Answer(r)
      /\ batch * size \in Nat /\ (batch + 1) * size \in Nat
      /\ batch * size <= (batch + 1) * size
      /\ \A r \in asked :
           r \in Rules /\ r > batch * size /\ r <= (batch + 1) * size
  BY <1>1, BatchFacts
<1>3. \A r \in DOMAIN results : r \in Nat /\ r <= batch * size
  BY <1>1, <1>2, NumRulesAssumption DEF ElementInv, Progress, TypeOK, Rules
<1>4. asked \subseteq Rules /\ asked \cap DOMAIN results = {} /\ asked # {}
  BY <1>2, <1>3, BatchHasARule, NumRulesAssumption DEF Rules
<1> HIDE DEF asked
<1>5. /\ DOMAIN results' = DOMAIN results \cup asked
      /\ \A r \in DOMAIN results : results'[r] = results[r]
      /\ \A r \in asked : results'[r] = "NOT_FOUND"
  <2> DEFINE o == All(asked, "NOT_FOUND")
  <2>1. DOMAIN o = asked /\ \A r \in asked : o[r] = "NOT_FOUND"
    BY AllFacts
  <2>2. results' = Over(results, o)
    BY <1>1
  <2> HIDE DEF o
  <2>3. /\ DOMAIN Over(results, o) = DOMAIN results \cup DOMAIN o
        /\ \A r \in DOMAIN o : Over(results, o)[r] = o[r]
        /\ \A r \in DOMAIN results \ DOMAIN o : Over(results, o)[r] = results[r]
    BY OverFacts
  <2> QED
    BY <1>4, <2>1, <2>2, <2>3
<1>6. /\ DOMAIN results' \subseteq Rules
      /\ \A r \in Rules : Answer(r)'
      /\ FailuresShow'
  BY <1>1, <1>2, <1>4, <1>5, FailureComes
<1>7. Asked' /\ \A r \in DOMAIN results' : r <= (batch + 1) * size
  BY <1>1, <1>2, <1>3, <1>5 DEF Asked
<1>8. pending' = {}
  BY <1>1, <1>2 DEF TypeOK, Ended
<1>9. mode' \in {"batch", "done"} /\ batch' \in 0..NumRules /\ Progress'
  BY <1>1, <1>2, <1>6, <1>7, <1>8, BatchEnds
<1>10. TypeOK'
  BY <1>1, <1>2, <1>6, <1>8, <1>9 DEF TypeOK, Ended
<1> QED
  BY <1>6, <1>7, <1>9, <1>10 DEF ElementInv

\* What both outcomes of asking one rule again have in common.
LEMMA RetryKeeps ==
  ASSUME ElementInv, mode = "retry", NextRetry,
         UNCHANGED <<set, element, size>>, failed' \in BOOLEAN,
         said' \in [Rules -> SUBSET Statuses], thrown' = thrown,
         DOMAIN results' \subseteq DOMAIN results \cup {NextToAsk},
         \A r \in Rules : Answer(r)', FailuresShow'
  PROVE  ElementInv'
<1>1. /\ TypeOK /\ Asked /\ InRange /\ FailuresShow
      /\ \A r \in Rules : Answer(r)
      /\ batch * size \in Nat /\ (batch + 1) * size \in Nat
      /\ batch * size <= (batch + 1) * size
      /\ \A r \in Chunk(batch, size) :
           r \in Rules /\ r > batch * size /\ r <= (batch + 1) * size
  BY BatchFacts
<1>2. /\ pending # {} /\ pending \subseteq Chunk(batch, size) \ DOMAIN results
      /\ \A r \in DOMAIN results : r <= (batch + 1) * size
  BY <1>1 DEF ElementInv, Progress, TypeOK
<1>3. NextToAsk \in pending
  BY <1>1, <1>2, NextIsPending
<1>4. /\ DOMAIN results' \subseteq Rules
      /\ \A r \in DOMAIN results' : r <= (batch + 1) * size
      /\ pending' = pending \ {NextToAsk}
      /\ pending' \subseteq Chunk(batch, size) \ DOMAIN results'
  BY <1>1, <1>2, <1>3 DEF TypeOK, NextRetry
<1>5. CASE pending' # {}
  <2>1. UNCHANGED <<mode, batch>>
    BY <1>5 DEF NextRetry
  <2>2. TypeOK'
    BY <1>1, <1>4, <1>5, <2>1 DEF TypeOK, Ended
  <2>3. Progress'
    BY <1>1, <1>4, <2>1 DEF Progress, InRange, Chunk, Rules
  <2> QED
    BY <1>1, <2>1, <2>2, <2>3 DEF ElementInv, Asked
<1>6. CASE pending' = {}
  <2>1. NextBatch
    BY <1>6 DEF NextRetry
  <2>2. mode' \in {"batch", "done"} /\ batch' \in 0..NumRules /\ Progress'
    BY <1>1, <1>4, <1>6, <2>1, BatchEnds
  <2>3. TypeOK'
    BY <1>1, <1>4, <1>6, <2>2 DEF TypeOK, Ended
  <2> QED
    BY <1>1, <2>2, <2>3 DEF ElementInv, Asked
<1> QED
  BY <1>5, <1>6

LEMMA RetryFacts ==
  ASSUME ElementInv, mode = "retry"
  PROVE  /\ TypeOK /\ FailuresShow /\ \A r \in Rules : Answer(r)
         /\ NextToAsk \in Rules /\ NextToAsk \notin DOMAIN results
<1>1. TypeOK /\ FailuresShow /\ \A r \in Rules : Answer(r)
  BY BatchFacts
<1>2. /\ pending # {} /\ pending \subseteq Rules
      /\ pending \cap DOMAIN results = {}
  BY <1>1 DEF ElementInv, Progress, TypeOK
<1>3. NextToAsk \in pending
  BY <1>1, <1>2, NextIsPending
<1> QED
  BY <1>1, <1>2, <1>3

LEMMA RetryAnsweredKeeps ==
  ASSUME ElementInv, mode = "retry", NEW reply \in Replies({NextToAsk}),
         RetryAnswered(reply)
  PROVE  ElementInv'
<1> DEFINE n == NextToAsk
           asked == {n}
<1>1. /\ TypeOK /\ FailuresShow /\ \A r \in Rules : Answer(r)
      /\ asked \in SUBSET Rules /\ asked \cap DOMAIN results = {}
  BY RetryFacts
<1>2. /\ results' = Over(Only(reply, asked), results) /\ Heard(asked, reply)
      /\ NextRetry /\ UNCHANGED <<set, element, size, failed>>
  BY DEF RetryAnswered
<1>3. DOMAIN reply \subseteq Rules
  BY <1>1, RepliesAreOnRules
<1> HIDE DEF asked
<1>4. /\ DOMAIN results' = DOMAIN results \cup (asked \cap DOMAIN reply)
      /\ \A r \in DOMAIN results : results'[r] = results[r]
      /\ \A r \in asked \cap DOMAIN reply : results'[r] = reply[r]
  <2> DEFINE o == Only(reply, asked)
  <2>1. /\ DOMAIN o = DOMAIN reply \cap asked
        /\ \A r \in DOMAIN reply \cap asked : o[r] = reply[r]
    BY OnlyFacts
  <2>2. results' = Over(o, results)
    BY <1>2
  <2> HIDE DEF o
  <2>3. /\ DOMAIN Over(o, results) = DOMAIN o \cup DOMAIN results
        /\ \A r \in DOMAIN results : Over(o, results)[r] = results[r]
        /\ \A r \in DOMAIN o \ DOMAIN results : Over(o, results)[r] = o[r]
    BY OverFacts
  <2> QED
    BY <1>1, <2>1, <2>2, <2>3
<1>5. /\ said' \in [Rules -> SUBSET Statuses] /\ thrown' = thrown
      /\ DOMAIN results' \subseteq Rules
      /\ \A r \in Rules : Answer(r)'
      /\ FailuresShow'
  BY <1>1, <1>2, <1>3, <1>4, AnswersCome
<1>6. DOMAIN results' \subseteq DOMAIN results \cup {NextToAsk}
  BY <1>4 DEF asked
<1>7. failed' \in BOOLEAN
  BY <1>1, <1>2 DEF TypeOK
<1> QED
  BY <1>2, <1>5, <1>6, <1>7, RetryKeeps

LEMMA RetryFailedKeeps ==
  ASSUME ElementInv, RetryFailed
  PROVE  ElementInv'
<1> DEFINE n == NextToAsk
           asked == {n}
<1>1. /\ mode = "retry"
      /\ results' = Over(All(asked, "NOT_FOUND"), results)
      /\ NextRetry /\ failed' = TRUE
      /\ UNCHANGED <<set, element, size, said, thrown>>
  BY DEF RetryFailed, history
<1>2. /\ TypeOK /\ FailuresShow /\ \A r \in Rules : Answer(r)
      /\ asked \in SUBSET Rules /\ asked \cap DOMAIN results = {}
      /\ asked # {}
  BY <1>1, RetryFacts
<1> HIDE DEF asked
<1>3. /\ DOMAIN results' = DOMAIN results \cup asked
      /\ \A r \in DOMAIN results : results'[r] = results[r]
      /\ \A r \in asked : results'[r] = "NOT_FOUND"
  <2> DEFINE o == All(asked, "NOT_FOUND")
  <2>1. DOMAIN o = asked /\ \A r \in asked : o[r] = "NOT_FOUND"
    BY AllFacts
  <2>2. results' = Over(o, results)
    BY <1>1
  <2> HIDE DEF o
  <2>3. /\ DOMAIN Over(o, results) = DOMAIN o \cup DOMAIN results
        /\ \A r \in DOMAIN results : Over(o, results)[r] = results[r]
        /\ \A r \in DOMAIN o \ DOMAIN results : Over(o, results)[r] = o[r]
    BY OverFacts
  <2> QED
    BY <1>2, <2>1, <2>2, <2>3
<1>4. (\A r \in Rules : Answer(r)') /\ FailuresShow'
  BY <1>1, <1>2, <1>3, FailureComes
<1>5. DOMAIN results' \subseteq DOMAIN results \cup {NextToAsk}
  BY <1>3 DEF asked
<1>6. said' \in [Rules -> SUBSET Statuses] /\ failed' \in BOOLEAN
  BY <1>1, <1>2 DEF TypeOK
<1> QED
  BY <1>1, <1>4, <1>5, <1>6, RetryKeeps

LEMMA MalformedKeeps ==
  ASSUME ElementInv, Malformed
  PROVE  ElementInv'
<1>1. /\ mode' = "aborted" /\ TypeOK /\ Asked
      /\ UNCHANGED <<set, element, size, batch, pending, results, failed, said,
                     thrown>>
  BY DEF ElementInv, Malformed, history
<1>2. TypeOK' /\ Progress' /\ Asked'
  BY <1>1 DEF TypeOK, Progress, Ended, Asked
<1>3. (\A r \in Rules : Answer(r)') /\ FailuresShow'
  BY <1>1 DEF ElementInv, Answer, FailuresShow
<1> QED
  BY <1>2, <1>3 DEF ElementInv

LEMMA StutterKeeps == ElementInv /\ UNCHANGED vars => ElementInv'
  BY DEF ElementInv, TypeOK, Asked, Answer, FailuresShow, Progress, InRange,
         Chunk, Rules, vars, history

-----------------------------------------------------------------------------

LEMMA InitHolds == Init => ElementInv
<1> SUFFICES ASSUME Init PROVE ElementInv
  OBVIOUS
<1>1. /\ set \in Settings /\ set \in Setting /\ element \in Element
      /\ size = set.batch /\ batch = 0 /\ pending = {} /\ failed = FALSE
      /\ said = [r \in Rules |-> {}] /\ thrown = {}
  BY SettingsAssumption DEF Init
<1>2. /\ mode \in {"done", "batch", "whole"}
      /\ DOMAIN results \subseteq Rules
      /\ mode # "done" <=> Asked
      /\ mode # "done" => DOMAIN results = {}
      /\ mode = "batch" => Batched
  BY DEF Init, All, NoAnswers, Asked
<1>3. TypeOK
  <2>1. said \in [Rules -> SUBSET Statuses] /\ batch \in 0..NumRules
    BY <1>1, NumRulesAssumption
  <2>2. mode \in {"whole", "batch", "retry"} \cup Ended
    BY <1>2 DEF Ended
  <2> QED
    BY <1>1, <1>2, <2>1, <2>2 DEF TypeOK
<1>4. Progress
  <2>1. set.batch \in Nat
    BY <1>1 DEF Setting
  <2>2. batch * size = 0
    BY <1>1, <2>1
  <2>3. mode = "batch" => InRange
    BY <1>1, <1>2, <2>1, <2>2, NumRulesAssumption DEF Batched, InRange
  <2> QED
    BY <1>1, <1>2, <2>3 DEF Progress
<1> QED
  BY <1>1, <1>2, <1>3, <1>4 DEF ElementInv, Ended, Answer, FailuresShow

LEMMA StepHolds == ElementInv /\ [Next]_vars => ElementInv'
<1> SUFFICES ASSUME ElementInv, [Next]_vars PROVE ElementInv'
  OBVIOUS
<1>1. ASSUME NEW reply \in Replies(Rules), WholeAnswered(reply)
      PROVE  ElementInv'
  BY <1>1, WholeAnsweredKeeps
<1>2. ASSUME NEW reply \in Replies(Chunk(batch, size)), BatchAnswered(reply)
      PROVE  ElementInv'
  BY <1>2, BatchAnsweredKeeps
<1>3. ASSUME mode = "retry", NEW reply \in Replies({NextToAsk}),
             RetryAnswered(reply)
      PROVE  ElementInv'
  BY <1>3, RetryAnsweredKeeps
<1>4. ASSUME WholeFailed \/ BatchFailed \/ RetryFailed \/ Malformed
      PROVE  ElementInv'
  BY <1>4, WholeFailedKeeps, BatchFailedKeeps, RetryFailedKeeps, MalformedKeeps
<1>5. CASE UNCHANGED vars
  BY <1>5, StutterKeeps
<1> QED
  BY <1>1, <1>2, <1>3, <1>4, <1>5 DEF Next

LEMMA InvariantHolds == Spec => []ElementInv
  BY InitHolds, StepHolds, PTL DEF Spec

-----------------------------------------------------------------------------

\* The exchange keeps its types: in particular the batches never run past the
\* rules of the element, and results are of its rules only.
THEOREM TypesHold == Spec => []TypeOK
<1>1. ElementInv => TypeOK
  BY DEF ElementInv
<1> QED
  BY <1>1, InvariantHolds, PTL

\* Answers are lost only with a reply to the one call for all rules that left
\* some of them out.
LEMMA LossHolds == Spec => []Loss
<1>1. Init => Loss
  BY DEF Init, Loss
<1>2. ASSUME Loss, [Next]_vars PROVE Loss'
  <2>1. ASSUME NEW reply \in Replies(Rules), WholeAnswered(reply) PROVE Loss'
    <3>1. ~Batched /\ set' = set
      BY <1>2, <2>1 DEF WholeAnswered, Loss
    <3>2. mode' # "whole"
      BY <2>1 DEF WholeAnswered
    <3>3. thrown' = thrown \/ thrown' # Rules
      BY <2>1 DEF WholeAnswered, Heard
    <3> QED
      BY <1>2, <3>1, <3>2, <3>3 DEF Loss, Batched
  <2>2. ASSUME NEW reply, BatchAnswered(reply) \/ RetryAnswered(reply)
        PROVE  Loss'
    <3>1. UNCHANGED <<set, thrown>>
      BY <2>2 DEF BatchAnswered, RetryAnswered, Heard
    <3>2. mode' # "whole"
      BY <2>2 DEF BatchAnswered, RetryAnswered, NextBatch, NextRetry
    <3> QED
      BY <1>2, <3>1, <3>2 DEF Loss, Batched
  <2>3. ASSUME WholeFailed \/ BatchFailed \/ RetryFailed \/ Malformed
        PROVE  Loss'
    <3>1. UNCHANGED <<set, thrown>>
      BY <2>3 DEF WholeFailed, BatchFailed, RetryFailed, Malformed, history
    <3>2. mode' # "whole"
      BY <2>3 DEF WholeFailed, BatchFailed, RetryFailed, Malformed, NextBatch,
                  NextRetry
    <3> QED
      BY <1>2, <3>1, <3>2 DEF Loss, Batched
  <2>4. CASE UNCHANGED vars
    BY <1>2, <2>4 DEF Loss, Batched, vars, history
  <2> QED
    BY <1>2, <2>1, <2>2, <2>3, <2>4 DEF Next
<1> QED
  BY <1>1, <1>2, PTL DEF Spec

LEMMA VerdictFollows == ElementInv /\ Loss => VerdictIsTheAnswer
<1> SUFFICES ASSUME ElementInv, Loss, Judged, NEW r \in Rules
             PROVE  Final(r) \in IF said[r] = {} THEN {"NOT_FOUND"} ELSE said[r]
  BY DEF VerdictIsTheAnswer, Loss
<1>1. Answer(r)
  BY DEF ElementInv, Judged, Asked
<1> QED
  BY <1>1 DEF Answer, Final

(***************************************************************************)
(* The verdict of a rule is the answer to a call that asked for it, or     *)
(* NOT_FOUND if it has none in a reply that was kept; and only a reply to  *)
(* the one call for all rules, when it left some out, is not kept: for any *)
(* number of rules, batch sizes and stray answers.                         *)
(***************************************************************************)
THEOREM VerdictsAreAnswers == Spec => []VerdictIsTheAnswer
  BY VerdictFollows, InvariantHolds, LossHolds, PTL

LEMMA PassFollows == ElementInv => PassIsEarned
<1> SUFFICES ASSUME ElementInv, Judged, ReportStatus = "PASS"
             PROVE  ~failed /\ \A r \in Rules : said[r] = {"PASS"}
  BY DEF PassIsEarned
<1>1. ~failed
  BY DEF ReportStatus, Judged
<1>2. ASSUME NEW r \in Rules PROVE Final(r) = "PASS"
  <2>1. Final(r) \in Statuses
    BY NormalType DEF Final, Statuses
  <2>2. Final(r) \notin {"FLAG", "NOT_FOUND"}
    BY <1>1 DEF ReportStatus, StatusOf, Judged
  <2> QED
    BY <2>1, <2>2 DEF Statuses
<1>3. ASSUME NEW r \in Rules PROVE said[r] = {"PASS"}
  <2>1. Answer(r)
    BY DEF ElementInv, Judged, Asked
  <2> QED
    BY <1>2, <2>1 DEF Answer, Final
<1> QED
  BY <1>1, <1>3

(***************************************************************************)
(* An element passes only if every rule was asked and answered with a pass *)
(* and nothing else, and no call failed.                                   *)
(***************************************************************************)
THEOREM PassesAreEarned == Spec => []PassIsEarned
  BY PassFollows, InvariantHolds, PTL

LEMMA ReviewsFollow == ElementInv => ReviewsClearWhatFailed
<1> DEFINE F == [r \in Rules |-> Final(r)]
<1> SUFFICES ASSUME ElementInv PROVE ReviewsClearWhatFailed
  OBVIOUS
<1>1. \A r \in Rules : F[r] = Final(r) /\ Final(r) \in Statuses
  BY NormalType DEF Final, Statuses
<1>2. ASSUME mode = "done", ~element.dry
      PROVE  IF Rules = {} /\ failed
             THEN ReportStatus = "REVIEW" /\ MergedStatus(NoAnswers) = "PASS"
             ELSE MergedStatus(NoAnswers) = ReportStatus
  <2>1. CASE ~element.present
    BY <1>2, <2>1 DEF MergedStatus, ReportStatus, ElementInv, Asked
  <2>2. CASE element.present
    <3>1. Over(F, NoAnswers) = F
      BY DEF Over, NoAnswers
    <3>2. MergedStatus(NoAnswers) = StatusOf(F)
      BY <2>2, <3>1 DEF MergedStatus
    <3>3. CASE failed /\ Rules = {}
      BY <1>2, <2>2, <3>2, <3>3 DEF ReportStatus, StatusOf
    <3>5. CASE failed /\ Rules # {}
      <4>1. PICK r \in DOMAIN results : Normal(results[r]) = "NOT_FOUND"
        BY <1>2, <2>2, <3>5 DEF ElementInv, Asked, FailuresShow
      <4>2. r \in Rules /\ Final(r) = "NOT_FOUND"
        BY <4>1 DEF ElementInv, TypeOK, Final
      <4>3. StatusOf(F) = "REVIEW"
        BY <1>1, <4>2 DEF StatusOf
      <4> QED
        BY <1>2, <2>2, <3>2, <3>5, <4>3 DEF ReportStatus
    <3>4. CASE ~failed
      BY <1>2, <2>2, <3>2, <3>4 DEF ReportStatus
    <3> QED
      BY <3>3, <3>4, <3>5
  <2> QED
    BY <2>1, <2>2
<1>3. ASSUME Judged, NEW S \in SUBSET Rules
      PROVE  MergedStatus(All(S, "PASS")) = "PASS"
               <=> {r \in Rules : Final(r) # "PASS"} \subseteq S
  <2> DEFINE G == Over(F, All(S, "PASS"))
  <2>1. \A r \in Rules : G[r] = IF r \in S THEN "PASS" ELSE Final(r)
    BY <1>1 DEF Over, All
  <2> HIDE DEF F, G
  <2>2. MergedStatus(All(S, "PASS")) = StatusOf(G)
    BY <1>3 DEF MergedStatus, Judged, G, F
  <2>3. StatusOf(G) = "PASS" <=> ~ \E r \in Rules : G[r] \in {"FLAG", "NOT_FOUND"}
    BY DEF StatusOf
  <2>4. \A r \in Rules : G[r] \in {"FLAG", "NOT_FOUND"} <=> r \notin S /\ Final(r) # "PASS"
    BY <1>1, <2>1 DEF Statuses
  <2> QED
    BY <2>2, <2>3, <2>4
<1> QED
  BY <1>2, <1>3 DEF ReviewsClearWhatFailed

(***************************************************************************)
(* The merge with reviews finds the status of the report when there are    *)
(* none, unless a call failed for an element all of whose rules are        *)
(* disabled, and reviews clear an element exactly if they settle every     *)
(* rule that did not pass.                                                 *)
(***************************************************************************)
THEOREM ReviewsClear == Spec => []ReviewsClearWhatFailed
  BY ReviewsFollow, InvariantHolds, PTL

-----------------------------------------------------------------------------
(***************************************************************************)
(* The validation of an element cannot go on for ever: every call, whether *)
(* it is answered or fails, leaves fewer that can still come.  A batch that*)
(* is asked may cost a call for each of its rules again, hence twice the   *)
(* rules, and one more for the call that asks for all.                     *)
(***************************************************************************)
Later(n) == {r \in Rules : r > n}

CallsLeft ==
  CASE mode = "whole" -> 2 * NumRules + 1
    [] mode = "batch" -> 2 * Cardinality(Later(batch * size))
    [] mode = "retry" -> 2 * Cardinality(Later((batch + 1) * size))
                           + Cardinality(pending)
    [] OTHER -> 0

LEMMA SizesOfRules ==
  /\ IsFiniteSet(Rules) /\ Cardinality(Rules) = NumRules
  /\ \A S \in SUBSET Rules :
       /\ IsFiniteSet(S) /\ Cardinality(S) \in 0..NumRules
       /\ S # {} => Cardinality(S) > 0
<1>1. IsFiniteSet(Rules) /\ Cardinality(Rules) = NumRules
  BY NumRulesAssumption, FS_Interval DEF Rules
<1>2. ASSUME NEW S \in SUBSET Rules
      PROVE  /\ IsFiniteSet(S) /\ Cardinality(S) \in 0..NumRules
             /\ S # {} => Cardinality(S) > 0
  <2>1. IsFiniteSet(S) /\ Cardinality(S) <= NumRules
    BY <1>1, FS_Subset
  <2>2. Cardinality(S) \in Nat
    BY <2>1, FS_CardinalityType
  <2>3. S # {} => Cardinality(S) # 0
    BY <2>1, FS_EmptySet
  <2> QED
    BY <2>1, <2>2, <2>3, NumRulesAssumption
<1> QED
  BY <1>1, <1>2

\* The rules from a batch on are those of the batch and those of later ones.
LEMMA BatchIsDone ==
  ASSUME ElementInv, mode \in {"batch", "retry"}
  PROVE  /\ Cardinality(Later(batch * size))
              = Cardinality(Later((batch + 1) * size))
                  + Cardinality(Chunk(batch, size))
         /\ Cardinality(Chunk(batch, size)) > 0
         /\ Cardinality(Later(batch * size)) \in 1..NumRules
         /\ Cardinality(Later((batch + 1) * size)) \in 0..NumRules
         /\ (batch + 1) * size < NumRules <=>
              Cardinality(Later((batch + 1) * size)) > 0
<1> DEFINE low  == batch * size
           high == (batch + 1) * size
           C    == Chunk(batch, size)
<1>1. /\ TypeOK /\ InRange /\ low \in Nat /\ high \in Nat /\ low <= high
  BY BatchFacts
<1>2. C = {r \in Rules : r > low /\ r <= high}
  BY DEF Chunk
<1>3. C # {}
  BY <1>1, BatchHasARule
<1> HIDE DEF low, high, C
<1>4. \A r \in Rules : r \in Nat
  BY DEF Rules
<1>5. Later(low) = Later(high) \cup C /\ Later(high) \cap C = {}
  BY <1>1, <1>2, <1>4 DEF Later
<1>6. /\ Later(low) \in SUBSET Rules /\ Later(high) \in SUBSET Rules
      /\ C \in SUBSET Rules
  BY <1>2 DEF Later
<1>7. Cardinality(Later(low)) = Cardinality(Later(high)) + Cardinality(C)
  <2>1. /\ IsFiniteSet(Later(high)) /\ IsFiniteSet(C)
        /\ Cardinality(Later(high)) \in Nat /\ Cardinality(C) \in Nat
    BY <1>6, SizesOfRules
  <2>2. Cardinality(Later(low))
          = Cardinality(Later(high)) + Cardinality(C) - Cardinality({})
    BY <1>5, <2>1, FS_Union
  <2> QED
    BY <2>1, <2>2, FS_EmptySet
<1>8. Cardinality(C) > 0 /\ Cardinality(C) \in 0..NumRules
  BY <1>3, <1>6, SizesOfRules
<1>9. /\ Cardinality(Later(low)) \in 0..NumRules
      /\ Cardinality(Later(high)) \in 0..NumRules
  BY <1>6, SizesOfRules
<1>10. high < NumRules <=> Later(high) # {}
  BY <1>1, <1>4, NumRulesAssumption DEF Later, Rules
<1>11. Later(high) # {} <=> Cardinality(Later(high)) > 0
  <2>1. Cardinality({}) = 0
    BY FS_EmptySet
  <2> QED
    BY <1>6, <2>1, SizesOfRules
<1>12. Cardinality(Later(low)) \in 1..NumRules
  BY <1>7, <1>8, <1>9, NumRulesAssumption
<1> QED
  BY <1>7, <1>8, <1>9, <1>10, <1>11, <1>12 DEF low, high, C

\* Unless the element has ended, a call can still come.
LEMMA CallsInRange ==
  ASSUME ElementInv
  PROVE  /\ CallsLeft \in 0..(2 * NumRules + 1)
         /\ CallsLeft = 0 <=> mode \in Ended
<1>1. mode \in {"whole", "batch", "retry"} \cup Ended /\ pending \in SUBSET Rules
      /\ NumRules \in Nat /\ TypeOK
  BY NumRulesAssumption DEF ElementInv, TypeOK
<1>2. CASE mode = "whole"
  BY <1>1, <1>2 DEF CallsLeft, Ended
<1>3. CASE mode = "batch"
  BY <1>1, <1>3, BatchIsDone DEF CallsLeft, Ended
<1>4. CASE mode = "retry"
  <2> DEFINE p == Cardinality(pending)
             h == Cardinality(Later((batch + 1) * size))
             c == Cardinality(Chunk(batch, size))
  <2>1. pending \subseteq Chunk(batch, size) /\ pending # {}
    BY <1>1, <1>4 DEF ElementInv, Progress, TypeOK
  <2>2. Chunk(batch, size) \in SUBSET Rules
    BY DEF Chunk
  <2>3. p <= c /\ p \in 0..NumRules /\ p > 0 /\ c \in 0..NumRules
    BY <1>1, <2>1, <2>2, SizesOfRules, FS_Subset
  <2>4. h \in 0..NumRules /\ h + c \in 1..NumRules
    BY <1>4, BatchIsDone
  <2>5. CallsLeft = 2 * h + p
    BY <1>4 DEF CallsLeft
  <2> HIDE DEF p, h, c
  <2> QED
    BY <1>1, <1>4, <2>3, <2>4, <2>5 DEF Ended
<1>5. CASE mode \in Ended
  BY <1>1, <1>5 DEF CallsLeft, Ended
<1> QED
  BY <1>1, <1>2, <1>3, <1>4, <1>5

\* After a batch, those of the later ones are left.
LEMMA NextBatchLeaves ==
  ASSUME ElementInv, mode \in {"batch", "retry"}, NextBatch, UNCHANGED size
  PROVE  CallsLeft' = 2 * Cardinality(Later((batch + 1) * size))
<1>1. CASE (batch + 1) * size < NumRules
  <2>1. mode' = "batch" /\ batch' = batch + 1
    BY <1>1 DEF NextBatch
  <2> QED
    BY <2>1 DEF CallsLeft
<1>2. CASE ~((batch + 1) * size < NumRules)
  <2>1. mode' = "done"
    BY <1>2 DEF NextBatch
  <2>2. Cardinality(Later((batch + 1) * size)) = 0
    BY <1>2, BatchIsDone
  <2> QED
    BY <2>1, <2>2 DEF CallsLeft
<1> QED
  BY <1>1, <1>2

LEMMA FewerAfterBatch ==
  ASSUME ElementInv, ElementInv', mode = "batch", UNCHANGED size,
         \/ NextBatch
         \/ /\ mode' = "retry" /\ UNCHANGED batch
            /\ pending' \subseteq Chunk(batch, size)
  PROVE  CallsLeft' < CallsLeft
<1> DEFINE l == Cardinality(Later(batch * size))
           h == Cardinality(Later((batch + 1) * size))
           c == Cardinality(Chunk(batch, size))
           p == Cardinality(pending')
<1>1. /\ l = h + c /\ c > 0 /\ l \in 1..NumRules /\ h \in 0..NumRules
      /\ c \in 0..NumRules /\ NumRules \in Nat
  <2>1. Chunk(batch, size) \in SUBSET Rules
    BY DEF Chunk
  <2> QED
    BY <2>1, BatchIsDone, SizesOfRules, NumRulesAssumption
<1>2. CallsLeft = 2 * l
  BY DEF CallsLeft
<1>3. CASE NextBatch
  <2>1. CallsLeft' = 2 * h
    BY <1>3, NextBatchLeaves
  <2> HIDE DEF l, h, c
  <2> QED
    BY <1>1, <1>2, <2>1
<1>4. CASE /\ mode' = "retry" /\ UNCHANGED batch
           /\ pending' \subseteq Chunk(batch, size)
  <2>1. CallsLeft' = 2 * h + p
    BY <1>4 DEF CallsLeft
  <2>2. Chunk(batch, size) \in SUBSET Rules /\ pending' \in SUBSET Rules
    BY <1>4 DEF Chunk
  <2>3. p <= c /\ p \in 0..NumRules
    BY <1>4, <2>2, SizesOfRules, FS_Subset
  <2> HIDE DEF l, h, c, p
  <2> QED
    BY <1>1, <1>2, <2>1, <2>3
<1> QED
  BY <1>3, <1>4

LEMMA FewerAfterRetry ==
  ASSUME ElementInv, mode = "retry", NextRetry, UNCHANGED size
  PROVE  CallsLeft' < CallsLeft
<1> DEFINE h == Cardinality(Later((batch + 1) * size))
           p == Cardinality(pending)
<1>1. TypeOK /\ pending # {} /\ pending \in SUBSET Rules
  BY DEF ElementInv, TypeOK
<1>2. /\ IsFiniteSet(pending) /\ p \in 0..NumRules /\ p > 0
      /\ h \in 0..NumRules
  BY <1>1, SizesOfRules, BatchIsDone
<1>3. CallsLeft = 2 * h + p
  BY DEF CallsLeft
<1>4. CASE pending' # {}
  <2>1. NextToAsk \in pending /\ pending' = pending \ {NextToAsk}
        /\ UNCHANGED <<mode, batch>>
    BY <1>1, <1>4, NextIsPending DEF NextRetry
  <2>2. Cardinality(pending') = p - 1
    BY <1>2, <2>1, FS_RemoveElement
  <2>3. CallsLeft' = 2 * h + (p - 1)
    BY <2>1, <2>2 DEF CallsLeft
  <2> HIDE DEF h, p
  <2> QED
    BY <1>2, <1>3, <2>3
<1>5. CASE pending' = {}
  <2>1. CallsLeft' = 2 * h
    BY <1>5, NextBatchLeaves DEF NextRetry
  <2> HIDE DEF h, p
  <2> QED
    BY <1>2, <1>3, <2>1
<1> QED
  BY <1>4, <1>5

LEMMA FewerAfterWhole ==
  ASSUME ElementInv', mode = "whole",
         \/ mode' = "done"
         \/ mode' = "batch"
  PROVE  CallsLeft' < CallsLeft
<1>1. CallsLeft = 2 * NumRules + 1 /\ NumRules \in Nat
  BY NumRulesAssumption DEF CallsLeft
<1>2. CASE mode' = "done"
  BY <1>1, <1>2 DEF CallsLeft
<1>3. CASE mode' = "batch"
  <2> DEFINE S == Later(batch' * size')
  <2>1. Cardinality(S) \in 0..NumRules
    BY SizesOfRules DEF Later
  <2>2. CallsLeft' = 2 * Cardinality(S)
    BY <1>3 DEF CallsLeft
  <2> HIDE DEF S
  <2> QED
    BY <1>1, <2>1, <2>2
<1> QED
  BY <1>2, <1>3

LEMMA FewerCalls == ElementInv /\ ElementInv' /\ Next => CallsLeft' < CallsLeft
<1> SUFFICES ASSUME ElementInv, ElementInv', Next
             PROVE  CallsLeft' < CallsLeft
  OBVIOUS
<1>1. CASE mode = "whole" /\ \E reply \in Replies(Rules) : WholeAnswered(reply)
  BY <1>1, FewerAfterWhole DEF WholeAnswered
<1>2. CASE WholeFailed
  BY <1>2, FewerAfterWhole DEF WholeFailed
<1>3. CASE \E reply \in Replies(Chunk(batch, size)) : BatchAnswered(reply)
  <2>1. PICK reply \in Replies(Chunk(batch, size)) : BatchAnswered(reply)
    BY <1>3
  <2>2. /\ mode = "batch" /\ UNCHANGED size
        /\ \/ NextBatch
           \/ /\ mode' = "retry" /\ UNCHANGED batch
              /\ pending' \subseteq Chunk(batch, size)
    BY <2>1 DEF BatchAnswered
  <2> QED
    BY <2>2, FewerAfterBatch
<1>4. CASE BatchFailed
  BY <1>4, FewerAfterBatch DEF BatchFailed
<1>5. CASE \/ mode = "retry" /\ \E reply \in Replies({NextToAsk}) :
                RetryAnswered(reply)
           \/ RetryFailed
  BY <1>5, FewerAfterRetry DEF RetryAnswered, RetryFailed
<1>6. CASE Malformed
  <2>1. mode' = "aborted" /\ mode \notin Ended
    BY <1>6 DEF Malformed
  <2>2. CallsLeft' = 0 /\ CallsLeft # 0 /\ CallsLeft \in 0..(2 * NumRules + 1)
    BY <2>1, CallsInRange DEF CallsLeft
  <2> QED
    BY <2>2, NumRulesAssumption
<1> QED
  BY <1>1, <1>2, <1>3, <1>4, <1>5, <1>6 DEF Next

(***************************************************************************)
(* An element of n rules is validated with at most 2n + 1 calls, whatever  *)
(* the model answers and whichever calls fail: there are never more left,  *)
(* none are left exactly when the element has ended, and every step uses   *)
(* one up.  With the weak fairness of Spec this is why EveryElementEnds.   *)
(***************************************************************************)
THEOREM CallsRunOut ==
  Spec => /\ [](/\ CallsLeft \in 0..(2 * NumRules + 1)
                /\ CallsLeft = 0 <=> mode \in Ended)
          /\ [][CallsLeft' < CallsLeft]_vars
<1>1. ElementInv /\ ElementInv' /\ [Next]_vars
        => [CallsLeft' < CallsLeft]_vars
  BY FewerCalls
<1>2. ElementInv => /\ CallsLeft \in 0..(2 * NumRules + 1)
                    /\ CallsLeft = 0 <=> mode \in Ended
  BY CallsInRange
<1> QED
  BY <1>1, <1>2, InvariantHolds, PTL DEF Spec

-----------------------------------------------------------------------------
\* The validation of a package.

\* res is a result that a run like rep may have for element e
Fits(rep, e, res) ==
  LET required == e \in Required(rep)
  IN  \/ rep.dry /\ res = DryResult(e, e \in rep.present, required)
      \/ ~rep.dry /\ e \notin rep.present /\ res = MissingResult(e, required)
      \/ ~rep.dry /\ e \in rep.present /\ res \in ModelResults(e, required)

\* what a run has read of the case
Scoped(rep) ==
  /\ rep.standard \in Standards /\ rep.level \in Levels
  /\ rep.dry \in BOOLEAN

SelectedIn(rep) == Selected(rep.standard, rep.level, rep.chosen, rep.present)

\* with these fields, and no others
IsReport(rep) ==
  rep \in [standard : Standards, level : Levels, dry : BOOLEAN,
           chosen : {rep.chosen}, present : {rep.present}, result : {rep.result}]

IsRun(r) ==
  r \in [at : {"elements"}, standard : Standards, level : Levels, dry : BOOLEAN,
         chosen : {r.chosen}, present : {r.present}, result : {r.result},
         todo : {r.todo}]

\* a report of a run that is over
Sound(rep) ==
  /\ IsReport(rep) /\ Scoped(rep)
  /\ DOMAIN rep.result = SelectedIn(rep)
  /\ \A e \in DOMAIN rep.result : Fits(rep, e, rep.result[e])

Typed ==
  /\ standard \in Standards /\ level \in Levels
  /\ run.at \in {"idle", "load", "elements", "written"}
  /\ run.at = "idle" => run = Idle
  /\ report = NoReport \/ Sound(report)

RunInv ==
  /\ run.at \in {"load", "elements"} => Scoped(run)
  /\ run.at = "elements" =>
       /\ IsRun(run) /\ run.todo \subseteq SelectedIn(run)
       /\ DOMAIN run.result = SelectedIn(run) \ run.todo
       /\ \A e \in DOMAIN run.result : Fits(run, e, run.result[e])
  /\ run.at = "written" => Sound(report)

\* the status that a validation has set is that of its report
StatusInv ==
  judged /\ run.at # "written" =>
    /\ Sound(report)
    /\ status = IF FailsPackage(report) THEN "failed" ELSE "in_review"

\* rep was made for the case as it is
Current(rep) == rep.standard = standard /\ rep.level = level

FreshInv ==
  fresh =>
    /\ run.at \in {"load", "elements"} => Current(run)
    /\ run.at = "elements" => run.present = tagged
    /\ run.at \in {"idle", "written"} =>
         Sound(report) /\ Current(report) /\ report.present = tagged

PackageInv == Typed /\ RunInv /\ StatusInv /\ FreshInv

-----------------------------------------------------------------------------
\* Facts about one result.

\* What the report, the dashboard and the review screen see of a result.
ResultFacts(rep, e, res) ==
  /\ res \in [rules : {res.rules}, status : {res.status}, evidence : BOOLEAN,
              required : BOOLEAN, error : BOOLEAN]
  /\ res.rules \in [1..RulesOf[e] -> Verdicts]
  /\ res.evidence <=> e \in rep.present
  /\ res.required <=> e \in Required(rep)
  /\ rep.dry =>
       /\ res.status = "N/A" /\ ~res.error
       /\ \A r \in DOMAIN res.rules : res.rules[r] = "PASS"
  /\ ~rep.dry /\ e \notin rep.present =>
       /\ res.status = AbsenceStatus(e \in Required(rep)) /\ ~res.error
       /\ \A r \in DOMAIN res.rules :
            res.rules[r] = IF e \in Required(rep) THEN "NOT_FOUND" ELSE "PASS"
  /\ ~rep.dry /\ e \in rep.present =>
       /\ res.error => res.status = "REVIEW"
       /\ ~res.error => res.status = ElementStatus(res.rules)

LEMMA SelectedFacts ==
  ASSUME NEW rep, Scoped(rep)
  PROVE  /\ SelectedIn(rep) \subseteq Catalog(rep.standard)
         /\ Catalog(rep.standard) \subseteq 1..19
         /\ Required(rep) \subseteq Catalog(rep.standard)
         /\ 18 \in Required(rep)
         /\ rep.chosen = {} => Required(rep) \subseteq SelectedIn(rep)
         /\ rep.chosen = {} => SelectedIn(rep) \subseteq rep.present \cup Required(rep)
<1>1. rep.standard \in {"aiag_ppap", "vda_ppf"} /\ rep.level \in 1..5
  BY DEF Scoped, Standards, Levels
<1>2. Catalog(rep.standard) \subseteq 1..19 /\ 18 \in Catalog(rep.standard)
  BY <1>1 DEF Catalog
<1>3. Required(rep) \subseteq Catalog(rep.standard) /\ 18 \in Required(rep)
  BY <1>1 DEF Required, Compulsory, Catalog
<1>4. SelectedIn(rep) = Catalog(rep.standard) \cap
        (IF rep.chosen # {} THEN rep.chosen ELSE rep.present \cup Required(rep))
  BY DEF SelectedIn, Selected, Required
<1> QED
  BY <1>2, <1>3, <1>4

LEMMA FitsFacts ==
  ASSUME NEW rep, Scoped(rep), NEW e \in 1..19, NEW res, Fits(rep, e, res)
  PROVE  ResultFacts(rep, e, res)
<1> DEFINE required == e \in Required(rep)
           n == RulesOf[e]
<1>1. n \in Nat /\ required \in BOOLEAN /\ rep.dry \in BOOLEAN
  BY RulesOfAssumption DEF Scoped
<1>2. \A v \in Verdicts : Uniform(e, v) \in [1..n -> Verdicts]
        /\ \A r \in 1..n : Uniform(e, v)[r] = v
  BY DEF Uniform
<1>3. "PASS" \in Verdicts /\ "NOT_FOUND" \in Verdicts
  BY DEF Verdicts
<1>4. CASE rep.dry /\ res = DryResult(e, e \in rep.present, required)
  <2> DEFINE u == Uniform(e, "PASS")
             ev == e \in rep.present
  <2>0. ev \in BOOLEAN
    OBVIOUS
  <2>1. u \in [1..n -> Verdicts] /\ DOMAIN u = 1..n /\ \A r \in 1..n : u[r] = "PASS"
    BY <1>2, <1>3
  <2>2. res = [rules |-> u, status |-> "N/A", evidence |-> ev,
               required |-> required, error |-> FALSE]
    BY <1>4 DEF DryResult
  <2> HIDE DEF u, ev
  <2>3. /\ res.rules = u /\ res.status = "N/A" /\ (res.evidence <=> ev)
        /\ (res.required <=> required) /\ ~res.error
        /\ res \in [rules : {res.rules}, status : {res.status}, evidence : BOOLEAN,
                    required : BOOLEAN, error : BOOLEAN]
    BY <1>1, <2>0, <2>2
  <2> QED
    BY <1>1, <1>4, <2>1, <2>3 DEF ResultFacts, ev
<1>5. CASE ~rep.dry /\ e \notin rep.present /\ res = MissingResult(e, required)
  <2> DEFINE v == IF required THEN "NOT_FOUND" ELSE "PASS"
  <2>1. v \in Verdicts
    BY <1>3
  <2> HIDE DEF v
  <2>2. Uniform(e, v) \in [1..n -> Verdicts] /\ \A r \in 1..n : Uniform(e, v)[r] = v
    BY <1>2, <2>1
  <2>3. res = [rules |-> Uniform(e, v), status |-> AbsenceStatus(required),
               evidence |-> FALSE, required |-> required, error |-> FALSE]
    BY <1>5 DEF MissingResult, v
  <2> DEFINE u == Uniform(e, v)
  <2>4. u \in [1..n -> Verdicts] /\ DOMAIN u = 1..n /\ \A r \in 1..n : u[r] = v
    BY <2>2
  <2> HIDE DEF u
  <2>5. /\ res.rules = u /\ res.status = AbsenceStatus(required) /\ ~res.evidence
        /\ (res.required <=> required) /\ ~res.error
        /\ res \in [rules : {res.rules}, status : {res.status}, evidence : BOOLEAN,
                    required : BOOLEAN, error : BOOLEAN]
    BY <1>1, <2>3 DEF u
  <2> QED
    BY <1>1, <1>5, <2>4, <2>5 DEF ResultFacts, v
<1>6. CASE ~rep.dry /\ e \in rep.present /\ res \in ModelResults(e, required)
  <2>1. PICK v \in [1..n -> Verdicts], err \in BOOLEAN :
          /\ res = [rules |-> v, status |-> IF err THEN "REVIEW" ELSE ElementStatus(v),
                    evidence |-> TRUE, required |-> required, error |-> err]
    BY <1>6 DEF ModelResults, ModelResult
  <2> QED
    BY <1>1, <1>6, <2>1 DEF ResultFacts
<1> QED
  BY <1>4, <1>5, <1>6 DEF Fits

\* What is said of a run holds of the report it writes.
LEMMA SameScope ==
  ASSUME NEW a, NEW b, b.standard = a.standard, b.level = a.level, b.dry = a.dry,
         b.chosen = a.chosen, b.present = a.present
  PROVE  /\ Scoped(a) => Scoped(b)
         /\ SelectedIn(b) = SelectedIn(a)
         /\ \A e, res : Fits(a, e, res) => Fits(b, e, res)
  BY DEF Scoped, SelectedIn, Fits, Required

\* What is known of each result of a report.
LEMMA SoundFacts ==
  ASSUME NEW rep, Sound(rep)
  PROVE  /\ Scoped(rep) /\ IsReport(rep) /\ rep.dry \in BOOLEAN
         /\ Validated(rep) = SelectedIn(rep)
         /\ \A e \in Validated(rep) :
              e \in Catalog(rep.standard) /\ ResultFacts(rep, e, rep.result[e])
<1>1. Scoped(rep) /\ DOMAIN rep.result = SelectedIn(rep)
      /\ SelectedIn(rep) \subseteq Catalog(rep.standard)
      /\ Catalog(rep.standard) \subseteq 1..19
  BY SelectedFacts DEF Sound
<1>2. \A e \in DOMAIN rep.result : Fits(rep, e, rep.result[e]) /\ e \in 1..19
  BY <1>1 DEF Sound
<1> QED
  BY <1>1, <1>2, FitsFacts DEF Sound, Validated, Scoped

-----------------------------------------------------------------------------
\* The invariant is kept.

LEMMA InitPackage == PackageInit => PackageInv
<1> SUFFICES ASSUME PackageInit PROVE PackageInv
  OBVIOUS
<1>1. level \in Levels /\ run.at = "idle"
  BY LevelsAssumption DEF PackageInit, Idle
<1> QED
  BY <1>1 DEF PackageInit, PackageInv, Typed, RunInv, StatusInv, FreshInv

\* An upload, a patch, a review or a report touches no validation; if it
\* changes the case, the validation under way is not fresh any more.
LEMMA EditKeeps ==
  ASSUME PackageInv, UNCHANGED <<report, run>>,
         standard' \in Standards, level' \in Levels,
         UNCHANGED row \/ ~fresh', fresh' => fresh,
         UNCHANGED <<status, judged>> \/ ~judged'
  PROVE  PackageInv'
<1>1. Typed'
  BY DEF PackageInv, Typed
<1>2. RunInv'
  BY DEF PackageInv, RunInv
<1>3. StatusInv'
  BY DEF PackageInv, StatusInv
<1>4. FreshInv'
  BY DEF PackageInv, FreshInv, Current, row
<1> QED
  BY <1>1, <1>2, <1>3, <1>4 DEF PackageInv

LEMMA EditsKeep ==
  ASSUME PackageInv,
         \/ \E std \in Standards, lev \in StartLevels :
              \/ \E e \in Taggable : Attach(std, lev, {e})
              \/ PatchScope(std, lev)
         \/ PatchStatus
         \/ \E key \in Reviewable :
              \/ \E v \in Verdicts : Review(key, v)
              \/ ClearReview(key)
         \/ Generate
  PROVE  PackageInv'
<1>1. standard \in Standards /\ level \in Levels
  BY DEF PackageInv, Typed
<1>2. ASSUME NEW std \in Standards, NEW lev \in StartLevels,
             (\E e \in Taggable : Attach(std, lev, {e})) \/ PatchScope(std, lev)
      PROVE  PackageInv'
  <2>1. lev \in Levels
    BY LevelsAssumption
  <2> QED
    BY <1>2, <2>1, EditKeeps DEF Attach, PatchScope
<1>3. CASE PatchStatus \/ Generate
  BY <1>1, <1>3, EditKeeps DEF PatchStatus, Generate, row
<1>4. ASSUME NEW key \in Reviewable,
             (\E v \in Verdicts : Review(key, v)) \/ ClearReview(key)
      PROVE  PackageInv'
  BY <1>1, <1>4, EditKeeps DEF Review, ClearReview, row
<1> QED
  BY <1>2, <1>3, <1>4

LEMMA StartKeeps ==
  ASSUME PackageInv, NEW dry \in BOOLEAN, NEW chosen \in Choices, Start(dry, chosen)
  PROVE  PackageInv'
<1>1. /\ run' = [at |-> "load", standard |-> standard, level |-> level,
                 dry |-> dry, chosen |-> chosen]
      /\ run.at = "idle" /\ UNCHANGED <<standard, level, tagged, status, report, judged>>
  BY DEF Start, row, Idle
<1>2. run'.at = "load" /\ run'.standard = standard /\ run'.level = level /\ run'.dry = dry
  BY <1>1
<1>3. Typed'
  BY <1>1, <1>2 DEF PackageInv, Typed
<1>4. RunInv'
  BY <1>2 DEF PackageInv, Typed, RunInv, Scoped
<1>5. StatusInv'
  BY <1>1, <1>2 DEF PackageInv, StatusInv
<1>6. FreshInv'
  BY <1>1, <1>2 DEF FreshInv, Current
<1> QED
  BY <1>3, <1>4, <1>5, <1>6 DEF PackageInv

LEMMA LoadEvidenceKeeps ==
  ASSUME PackageInv, LoadEvidence
  PROVE  PackageInv'
<1> DEFINE todo == Selected(run.standard, run.level, run.chosen, tagged)
<1>1. /\ run.at = "load"
      /\ run' = [at |-> "elements", standard |-> run.standard, level |-> run.level,
                 dry |-> run.dry, chosen |-> run.chosen, present |-> tagged,
                 result |-> NoResults, todo |-> todo]
      /\ UNCHANGED <<standard, level, tagged, status, report, judged, fresh>>
  BY DEF LoadEvidence, row
<1> HIDE DEF todo
<1>2. /\ run'.at = "elements" /\ run'.standard = run.standard /\ run'.level = run.level
      /\ run'.dry = run.dry /\ run'.chosen = run.chosen /\ run'.present = tagged
      /\ run'.result = NoResults /\ run'.todo = todo
  BY <1>1
<1>3. Scoped(run')
  BY <1>1, <1>2 DEF PackageInv, RunInv, Scoped
<1>4. IsRun(run')
  BY <1>1, <1>2, <1>3 DEF IsRun, Scoped
<1>5. SelectedIn(run') = todo /\ DOMAIN run'.result = {}
  BY <1>2 DEF SelectedIn, NoResults, todo
<1>6. Typed'
  BY <1>1, <1>2 DEF PackageInv, Typed
<1>7. RunInv'
  BY <1>2, <1>3, <1>4, <1>5 DEF RunInv
<1>8. StatusInv'
  BY <1>1, <1>2 DEF PackageInv, StatusInv
<1>9. FreshInv'
  BY <1>1, <1>2 DEF PackageInv, FreshInv, Current
<1> QED
  BY <1>6, <1>7, <1>8, <1>9 DEF PackageInv

LEMMA ValidateElementKeeps ==
  ASSUME PackageInv, ValidateElement
  PROVE  PackageInv'
<1> DEFINE Adds(e, res) ==
             run' = [run EXCEPT !.todo = run.todo \ {e},
                                !.result = [x \in DOMAIN run.result \cup {e} |->
                                              IF x = e THEN res ELSE run.result[x]]]
<1>0. PICK e \in run.todo : \E res \in Outcomes(e) : Adds(e, res)
  BY DEF ValidateElement
<1>1. PICK res \in Outcomes(e) : Adds(e, res)
  BY <1>0
<1> DEFINE result == [x \in DOMAIN run.result \cup {e} |->
                        IF x = e THEN res ELSE run.result[x]]
<1>2. run.at = "elements" /\ UNCHANGED <<standard, level, tagged, status, report, judged, fresh>>
  BY DEF ValidateElement, row
<1>3. /\ IsRun(run) /\ Scoped(run) /\ run.todo \subseteq SelectedIn(run)
      /\ DOMAIN run.result = SelectedIn(run) \ run.todo
      /\ \A x \in DOMAIN run.result : Fits(run, x, run.result[x])
  BY <1>2 DEF PackageInv, RunInv
<1>4. Fits(run, e, res)
  <2>1. run.dry \in BOOLEAN
    BY <1>3 DEF Scoped
  <2> QED
    BY <2>1 DEF Outcomes, Fits, Required
<1>5. /\ DOMAIN result = SelectedIn(run) \ (run.todo \ {e})
      /\ \A x \in DOMAIN result : Fits(run, x, result[x])
  BY <1>3, <1>4
<1>6. run' = [run EXCEPT !.todo = run.todo \ {e}, !.result = result]
  BY <1>1
<1> HIDE DEF result
<1>7. /\ run'.at = "elements" /\ run'.standard = run.standard /\ run'.level = run.level
      /\ run'.dry = run.dry /\ run'.chosen = run.chosen /\ run'.present = run.present
      /\ run'.result = result /\ run'.todo = run.todo \ {e}
  BY <1>3, <1>6 DEF IsRun
<1>8. IsRun(run')
  BY <1>3, <1>6 DEF IsRun
<1>9. /\ Scoped(run') /\ SelectedIn(run') = SelectedIn(run)
      /\ \A x \in DOMAIN result : Fits(run', x, result[x])
  BY <1>3, <1>5, <1>7, SameScope
<1>10. Typed'
  BY <1>2, <1>7 DEF PackageInv, Typed
<1>11. RunInv'
  BY <1>3, <1>5, <1>7, <1>8, <1>9 DEF RunInv
<1>12. StatusInv'
  BY <1>2, <1>7 DEF PackageInv, StatusInv
<1>13. FreshInv'
  BY <1>2, <1>7 DEF PackageInv, FreshInv, Current
<1> QED
  BY <1>10, <1>11, <1>12, <1>13 DEF PackageInv

LEMMA WriteReportKeeps ==
  ASSUME PackageInv, WriteReport
  PROVE  PackageInv'
<1>1. /\ run.at = "elements" /\ run.todo = {} /\ run' = [at |-> "written"]
      /\ report' = [standard |-> run.standard, level |-> run.level, dry |-> run.dry,
                    chosen |-> run.chosen, present |-> run.present, result |-> run.result]
      /\ UNCHANGED <<standard, level, tagged, status, judged, fresh>>
  BY DEF WriteReport, row
<1>2. /\ Scoped(run) /\ DOMAIN run.result = SelectedIn(run)
      /\ \A e \in DOMAIN run.result : Fits(run, e, run.result[e])
  BY <1>1 DEF PackageInv, RunInv
<1>3. /\ report'.standard = run.standard /\ report'.level = run.level
      /\ report'.dry = run.dry /\ report'.chosen = run.chosen
      /\ report'.present = run.present /\ report'.result = run.result
      /\ run'.at = "written"
  BY <1>1
<1>4. IsReport(report')
  BY <1>1, <1>2, <1>3 DEF IsReport, Scoped
<1>5. /\ Scoped(report') /\ SelectedIn(report') = SelectedIn(run)
      /\ \A e \in DOMAIN report'.result : Fits(report', e, report'.result[e])
  BY <1>2, <1>3, SameScope
<1>6. Sound(report')
  BY <1>2, <1>3, <1>4, <1>5 DEF Sound
<1>7. Typed'
  BY <1>1, <1>3, <1>6 DEF PackageInv, Typed
<1>8. RunInv'
  BY <1>3, <1>6 DEF RunInv
<1>9. StatusInv'
  BY <1>3 DEF StatusInv
<1>10. FreshInv'
  BY <1>1, <1>3, <1>6 DEF PackageInv, FreshInv, Current
<1> QED
  BY <1>7, <1>8, <1>9, <1>10 DEF PackageInv

LEMMA EndKeeps ==
  ASSUME PackageInv, CommitStatus \/ Abort
  PROVE  PackageInv'
<1>1. run' = Idle /\ run'.at = "idle" /\ UNCHANGED <<standard, level, tagged, report>>
  BY DEF CommitStatus, Abort, Idle, row
<1>2. Typed' /\ RunInv'
  BY <1>1 DEF PackageInv, Typed, RunInv
<1>3. StatusInv'
  BY <1>1 DEF PackageInv, RunInv, StatusInv, CommitStatus, Abort
<1>4. FreshInv'
  BY <1>1 DEF PackageInv, FreshInv, Current, CommitStatus, Abort
<1> QED
  BY <1>2, <1>3, <1>4 DEF PackageInv

LEMMA NextPackage ==
  ASSUME PackageInv, [PackageNext]_packageVars
  PROVE  PackageInv'
<1>1. CASE UNCHANGED packageVars
  BY <1>1 DEF packageVars, PackageInv, Typed, RunInv, StatusInv, FreshInv, Current
<1>2. ASSUME NEW dry \in BOOLEAN, NEW chosen \in Choices, Start(dry, chosen)
      PROVE  PackageInv'
  BY <1>2, StartKeeps
<1>3. CASE RunStep \/ Abort
  BY <1>3, LoadEvidenceKeeps, ValidateElementKeeps, WriteReportKeeps, EndKeeps DEF RunStep
<1> QED
  BY <1>1, <1>2, <1>3, EditsKeep DEF PackageNext

-----------------------------------------------------------------------------
\* A report and its reviews.

\* A review changes the rules of an element, and its status if it had
\* evidence; nothing else.
LEMMA MergedFacts ==
  ASSUME NEW rep, Sound(rep), NEW rv
  PROVE  LET m == Merged(rep, rv)
         IN  /\ m.standard = rep.standard /\ m.level = rep.level
             /\ Validated(m) = Validated(rep) /\ Required(m) = Required(rep)
             /\ \A e \in Validated(rep) :
                  LET old == rep.result[e]
                      new == m.result[e]
                  IN  /\ DOMAIN new.rules = DOMAIN old.rules
                      /\ \A r \in DOMAIN old.rules :
                           new.rules[r] = IF Key(rep.standard, e, r) \in DOMAIN rv
                                          THEN rv[Key(rep.standard, e, r)]
                                          ELSE old.rules[r]
                      /\ (new.evidence <=> old.evidence)
                      /\ (new.required <=> old.required) /\ (new.error <=> old.error)
                      /\ new.status = IF old.evidence THEN ElementStatus(new.rules)
                                      ELSE AbsenceStatus(old.required)
<1> DEFINE m == Merged(rep, rv)
           result == [e \in Validated(rep) |->
                        MergedElement(rep.standard, e, rep.result[e], rv)]
<1>1. m = [rep EXCEPT !.result = result]
  BY DEF Merged
<1> HIDE DEF result
<1>2. m.standard = rep.standard /\ m.level = rep.level /\ m.result = result
  BY <1>1, SoundFacts DEF IsReport
<1>3. Validated(m) = Validated(rep) /\ Required(m) = Required(rep)
  BY <1>2 DEF Validated, Required, result
<1>4. ASSUME NEW e \in Validated(rep)
      PROVE  LET old == rep.result[e]
                 new == result[e]
             IN  /\ DOMAIN new.rules = DOMAIN old.rules
                 /\ \A r \in DOMAIN old.rules :
                      new.rules[r] = IF Key(rep.standard, e, r) \in DOMAIN rv
                                     THEN rv[Key(rep.standard, e, r)]
                                     ELSE old.rules[r]
                 /\ (new.evidence <=> old.evidence)
                 /\ (new.required <=> old.required) /\ (new.error <=> old.error)
                 /\ new.status = IF old.evidence THEN ElementStatus(new.rules)
                                 ELSE AbsenceStatus(old.required)
  <2> DEFINE old == rep.result[e]
             rules == [r \in DOMAIN old.rules |->
                         IF Key(rep.standard, e, r) \in DOMAIN rv
                         THEN rv[Key(rep.standard, e, r)] ELSE old.rules[r]]
             st == IF old.evidence THEN ElementStatus(rules)
                   ELSE AbsenceStatus(old.required)
  <2>1. result[e] = [old EXCEPT !.rules = rules, !.status = st]
    BY DEF result, MergedElement
  <2>2. old \in [rules : {old.rules}, status : {old.status}, evidence : BOOLEAN,
                 required : BOOLEAN, error : BOOLEAN]
    BY SoundFacts DEF ResultFacts
  <2>3. /\ DOMAIN rules = DOMAIN old.rules
        /\ \A r \in DOMAIN old.rules :
             rules[r] = IF Key(rep.standard, e, r) \in DOMAIN rv
                        THEN rv[Key(rep.standard, e, r)] ELSE old.rules[r]
    OBVIOUS
  <2>4. st = IF old.evidence THEN ElementStatus(rules) ELSE AbsenceStatus(old.required)
    OBVIOUS
  <2> HIDE DEF rules, st, old
  <2>5. /\ result[e].rules = rules /\ result[e].status = st
        /\ (result[e].evidence <=> old.evidence)
        /\ (result[e].required <=> old.required) /\ (result[e].error <=> old.error)
    BY <2>1, <2>2
  <2> QED
    BY <2>3, <2>4, <2>5 DEF old
<1> QED
  BY <1>2, <1>3, <1>4

\* The rules with one of the verdicts V.
LEMMA VerdictFacts ==
  ASSUME NEW rep, Validated(rep) \subseteq Catalog(rep.standard), NEW V
  PROVE  \A p : p \in WithVerdict(rep, V) <=>
           /\ p = <<p[1], p[2]>>
           /\ p[1] \in Validated(rep) /\ p[2] \in DOMAIN rep.result[p[1]].rules
           /\ rep.result[p[1]].rules[p[2]] \in V
<1>1. ASSUME NEW e \in Catalog(rep.standard), NEW p
      PROVE  p \in {<<e, r>> : r \in {x \in RulesIn(rep, e) : rep.result[e].rules[x] \in V}}
               <=> /\ p = <<p[1], p[2]>> /\ p[1] = e
                   /\ e \in Validated(rep) /\ p[2] \in DOMAIN rep.result[e].rules
                   /\ rep.result[e].rules[p[2]] \in V
  BY DEF RulesIn
<1> QED
  BY <1>1 DEF WithVerdict

-----------------------------------------------------------------------------
\* The properties.

\* The invariant holds of every state the program reaches: the report on the
\* disk and the run under way follow from the case as they have read it.
THEOREM PackageHolds == PackageSpec => []PackageInv
<1> QED
  BY InitPackage, NextPackage, PTL DEF PackageSpec

\* A report has no failed rule, no failed call and no missing compulsory
\* element exactly if it does not fail the package.
LEMMA EarnedFacts ==
  ASSUME NEW rep, Sound(rep)
  PROVE  ~FailsPackage(rep) <=>
           /\ Required(rep) \subseteq rep.present
           /\ WithVerdict(rep, {"FLAG", "NOT_FOUND"}) = {}
           /\ \A e \in Validated(rep) : ~rep.result[e].error
<1> DEFINE Bad(e) == rep.result[e].status \in {"NOT_FOUND", "REVIEW"}
           Failed(e) == \E r \in DOMAIN rep.result[e].rules :
                          rep.result[e].rules[r] \in {"FLAG", "NOT_FOUND"}
<1>1. FailsPackage(rep) <=> (\E e \in Validated(rep) : Bad(e))
                            \/ ~(Required(rep) \subseteq rep.present)
  BY DEF FailsPackage, Overall, PackageStatus, MissingCompulsory
<1>2. WithVerdict(rep, {"FLAG", "NOT_FOUND"}) # {} <=> \E e \in Validated(rep) : Failed(e)
  <2> DEFINE bad == WithVerdict(rep, {"FLAG", "NOT_FOUND"})
  <2>1. \A p : p \in bad <=>
          /\ p = <<p[1], p[2]>>
          /\ p[1] \in Validated(rep) /\ p[2] \in DOMAIN rep.result[p[1]].rules
          /\ rep.result[p[1]].rules[p[2]] \in {"FLAG", "NOT_FOUND"}
    BY SoundFacts, VerdictFacts
  <2>2. ASSUME NEW e \in Validated(rep), NEW r \in DOMAIN rep.result[e].rules,
               rep.result[e].rules[r] \in {"FLAG", "NOT_FOUND"}
        PROVE  <<e, r>> \in bad
    <3>1. <<e, r>>[1] = e /\ <<e, r>>[2] = r
      OBVIOUS
    <3> HIDE DEF bad
    <3> QED
      BY <2>1, <2>2, <3>1
  <2> HIDE DEF bad
  <2> QED
    BY <2>1, <2>2 DEF bad
<1>3. ASSUME NEW e \in Validated(rep), Required(rep) \subseteq rep.present
      PROVE  Bad(e) <=> Failed(e) \/ rep.result[e].error
  <2>1. ResultFacts(rep, e, rep.result[e]) /\ rep.dry \in BOOLEAN
    BY SoundFacts
  <2>2. CASE rep.dry
    BY <2>1, <2>2 DEF ResultFacts
  <2>3. CASE ~rep.dry /\ e \notin rep.present
    BY <1>3, <2>1, <2>3 DEF ResultFacts, AbsenceStatus
  <2>4. CASE ~rep.dry /\ e \in rep.present
    BY <2>1, <2>4 DEF ResultFacts, ElementStatus
  <2> QED
    BY <2>1, <2>2, <2>3, <2>4
<1> QED
  BY <1>1, <1>2, <1>3

\* in_review is earned: the status that a validation leaves is in_review if
\* and only if no compulsory element of the level lacked evidence, no rule
\* failed and no call failed (main.validate_case, _package_status).
THEOREM StatusEarned == PackageSpec => []StatusIsEarned
<1>1. PackageInv => StatusIsEarned
  <2> SUFFICES ASSUME PackageInv, judged, run = Idle PROVE
        status = "in_review" <=>
          /\ Required(report) \subseteq report.present
          /\ WithVerdict(report, {"FLAG", "NOT_FOUND"}) = {}
          /\ \A e \in Validated(report) : ~report.result[e].error
    BY DEF StatusIsEarned
  <2>1. Sound(report) /\ status = IF FailsPackage(report) THEN "failed" ELSE "in_review"
    BY DEF PackageInv, StatusInv, Idle
  <2> QED
    BY <2>1, EarnedFacts
<1> QED
  BY <1>1, PackageHolds, PTL

\* The status of an element after the merge, whatever the reviews say.
LEMMA MergedElementStatus ==
  ASSUME NEW rep, Sound(rep), NEW rv, NEW e \in Validated(rep)
  PROVE  LET new == Merged(rep, rv).result[e]
         IN  /\ e \in rep.present => new.status = ElementStatus(new.rules)
             /\ e \notin rep.present => new.status = AbsenceStatus(e \in Required(rep))
             /\ new.evidence <=> e \in rep.present
             /\ new.required <=> e \in Required(rep)
             /\ DOMAIN new.rules = 1..RulesOf[e]
<1> DEFINE old == rep.result[e]
           new == Merged(rep, rv).result[e]
<1>1. /\ old.evidence <=> e \in rep.present
      /\ old.required <=> e \in Required(rep)
      /\ old.required \in BOOLEAN /\ DOMAIN old.rules = 1..RulesOf[e]
  BY SoundFacts DEF ResultFacts
<1>2. /\ DOMAIN new.rules = DOMAIN old.rules
      /\ new.evidence <=> old.evidence
      /\ new.required <=> old.required
      /\ new.status = IF old.evidence THEN ElementStatus(new.rules)
                      ELSE AbsenceStatus(old.required)
  BY MergedFacts
<1> HIDE DEF old, new
<1>3. AbsenceStatus(old.required) = AbsenceStatus(e \in Required(rep))
  BY <1>1 DEF AbsenceStatus
<1> QED
  BY <1>1, <1>2, <1>3 DEF new

\* A run that chose its elements itself has a result for every compulsory one,
\* and for others only if they had evidence.
LEMMA AutomaticFacts ==
  ASSUME NEW rep, Sound(rep), rep.chosen = {}
  PROVE  /\ Required(rep) \subseteq Validated(rep)
         /\ Validated(rep) \subseteq rep.present \cup Required(rep)
         /\ 18 \in Required(rep)
  BY SoundFacts, SelectedFacts

LEMMA GapsStay ==
  ASSUME AtRest, Automatic(report), Sound(report)
  PROVE  Overall(Merged(report, PassShown)) = "PASS" <=> MissingCompulsory(report) = {}
<1> DEFINE m == Merged(report, PassShown)
           statuses == {m.result[e].status : e \in Validated(m)}
           missing == Required(report) \ report.present
<1>1. Validated(m) = Validated(report)
  BY MergedFacts
<1>2. /\ Required(report) \subseteq Validated(report)
      /\ Validated(report) \subseteq report.present \cup Required(report)
      /\ 18 \in Required(report)
  BY AutomaticFacts DEF Automatic
<1>3. ASSUME NEW e \in Validated(report), e \in report.present
      PROVE  m.result[e].status = "PASS"
  <2>1. e \in OnReviewScreen(report)
    <3>1. ResultFacts(report, e, report.result[e])
      BY SoundFacts
    <3>2. report.result[e].evidence
      BY <1>3, <3>1 DEF ResultFacts
    <3> QED
      BY <3>2 DEF OnReviewScreen
  <2>2. DOMAIN report.result[e].rules = RulesIn(report, e)
    BY DEF RulesIn
  <2>3. ASSUME NEW r \in DOMAIN report.result[e].rules
        PROVE  /\ Key(report.standard, e, r) \in DOMAIN PassShown
               /\ PassShown[Key(report.standard, e, r)] = "PASS"
    <3> DEFINE Keys(x) == {Key(report.standard, x, y) : y \in RulesIn(report, x)}
               shown == UNION {Keys(x) : x \in OnReviewScreen(report)}
               k == Key(report.standard, e, r)
    <3>1. k \in Keys(e)
      BY <2>2
    <3>2. PassShown = [y \in shown |-> "PASS"]
      BY DEF PassShown
    <3> HIDE DEF Keys, k
    <3>3. k \in shown
      BY <2>1, <3>1
    <3> HIDE DEF shown
    <3> QED
      BY <3>2, <3>3 DEF k
  <2>4. /\ DOMAIN m.result[e].rules = DOMAIN report.result[e].rules
        /\ \A r \in DOMAIN report.result[e].rules :
             m.result[e].rules[r] =
               IF Key(report.standard, e, r) \in DOMAIN PassShown
               THEN PassShown[Key(report.standard, e, r)] ELSE report.result[e].rules[r]
        /\ m.result[e].status = ElementStatus(m.result[e].rules)
    BY <1>3, MergedFacts, MergedElementStatus
  <2> HIDE DEF m
  <2> QED
    BY <2>3, <2>4 DEF ElementStatus
<1>4. ASSUME NEW e \in Validated(report), e \notin report.present
      PROVE  m.result[e].status = "NOT_FOUND" /\ e \in Required(report)
  BY <1>2, <1>4, MergedElementStatus DEF AbsenceStatus
<1> HIDE DEF m
<1>5. ASSUME missing = {} PROVE Overall(m) = "PASS"
  <2>1. \A e \in Validated(report) : m.result[e].status = "PASS"
    BY <1>2, <1>3, <1>5
  <2>2. statuses = {"PASS"}
    BY <1>1, <1>2, <2>1
  <2> QED
    BY <2>2 DEF Overall, PackageStatus
<1>6. ASSUME missing # {} PROVE Overall(m) # "PASS"
  <2>1. "NOT_FOUND" \in statuses
    BY <1>1, <1>2, <1>4, <1>6
  <2> QED
    BY <2>1 DEF Overall, PackageStatus
<1> QED
  BY <1>5, <1>6 DEF m, MissingCompulsory

\* Reviews settle everything but missing evidence: when every rule on the
\* review screen is passed, the package passes exactly if no compulsory
\* element lacked evidence (apply_rule_reviews, review_payload).
THEOREM GapsCannotBeReviewed == PackageSpec => []ReviewsCannotFillGaps
<1>1. PackageInv => ReviewsCannotFillGaps
  BY GapsStay DEF ReviewsCannotFillGaps, AtRest, PackageInv, Typed
<1> QED
  BY <1>1, PackageHolds, PTL

LEMMA OverallCovers ==
  ASSUME NEW rep, Sound(rep), rep.chosen = {}, NEW rv
  PROVE  LET m == Merged(rep, rv)
         IN  Settled(PackageStatus({m.result[e].status : e \in Validated(m)}))
               <=> \A e \in Catalog(m.standard) : Settled(TableStatus(m, e))
<1> DEFINE m == Merged(rep, rv)
           statuses == {m.result[e].status : e \in Validated(m)}
<1>1. /\ m.standard = rep.standard /\ Validated(m) = Validated(rep)
      /\ Required(m) = Required(rep)
  BY MergedFacts
<1>2. /\ Required(rep) \subseteq Validated(rep)
      /\ Validated(rep) \subseteq Catalog(rep.standard)
  BY SoundFacts, AutomaticFacts
<1>3. \A e \in Validated(rep) :
        m.result[e].status \in {"PASS", "REVIEW", "NOT_FOUND", "N/A"}
  BY MergedElementStatus DEF ElementStatus, AbsenceStatus
<1> HIDE DEF m
<1>4. Settled(PackageStatus(statuses)) <=>
        \A e \in Validated(rep) : Settled(m.result[e].status)
  BY <1>1, <1>3 DEF Settled, PackageStatus
<1>5. \A e \in Catalog(m.standard) :
        TableStatus(m, e) = IF e \in Validated(rep) THEN m.result[e].status ELSE "N/A"
  BY <1>1, <1>2 DEF TableStatus, AbsenceStatus
<1> QED
  BY <1>1, <1>2, <1>4, <1>5 DEF Settled, m

\* The overall status of the report speaks for every row of its table, also
\* for the elements that no validation has looked at, whatever the reviews
\* (_build_element_report, apply_rule_reviews).
THEOREM OverallSpeaksForAll == PackageSpec => []OverallCoversTable
<1>1. PackageInv => OverallCoversTable
  BY OverallCovers DEF OverallCoversTable, AtRest, PackageInv, Typed
<1> QED
  BY <1>1, PackageHolds, PTL

LEMMA FindingsCover ==
  ASSUME NEW rep, Sound(rep), Automatic(rep),
         NEW rv, \A k \in DOMAIN rv : rv[k] \in Verdicts
  PROVE  LET m == Merged(rep, rv)
             settled(p) == LET k == Key(rep.standard, p[1], p[2])
                           IN  k \in DOMAIN rv /\ rv[k] = "PASS"
         IN  /\ Settled(Overall(m)) => \A i \in Issues(m) : i.kind = "MODEL_ERROR"
             /\ Settled(Overall(m)) \/ Issues(m) # {} \/ MissingEvidence(m) # {}
             /\ \A p \in Bucket(rep, "critical") :
                  Issue("RULE", p[1], p[2], "High") \in Issues(m) <=> ~settled(p)
<1> DEFINE m == Merged(rep, rv)
           Bad(e, r) == m.result[e].rules[r] \in {"FLAG", "NOT_FOUND"}
           issues == WithVerdict(m, IssueStatuses)
           settled(p) == LET k == Key(rep.standard, p[1], p[2])
                         IN  k \in DOMAIN rv /\ rv[k] = "PASS"
<1>0. \A e \in Validated(rep) :
        /\ DOMAIN m.result[e].rules = DOMAIN rep.result[e].rules
        /\ \A r \in DOMAIN rep.result[e].rules :
             m.result[e].rules[r] = IF Key(rep.standard, e, r) \in DOMAIN rv
                                    THEN rv[Key(rep.standard, e, r)]
                                    ELSE rep.result[e].rules[r]
  BY MergedFacts
<1>1. /\ m.standard = rep.standard /\ Validated(m) = Validated(rep)
      /\ Required(m) = Required(rep)
  BY MergedFacts
<1>2. /\ Required(rep) \subseteq Validated(rep)
      /\ Validated(rep) \subseteq rep.present \cup Required(rep)
      /\ Validated(rep) \subseteq Catalog(rep.standard)
  BY SoundFacts, AutomaticFacts DEF Automatic
<1>3. \A e \in Validated(rep) :
        /\ e \in rep.present => m.result[e].status = ElementStatus(m.result[e].rules)
        /\ e \notin rep.present => m.result[e].status = "NOT_FOUND"
        /\ m.result[e].evidence <=> e \in rep.present
        /\ m.result[e].required <=> e \in Required(rep)
  BY <1>2, MergedElementStatus DEF AbsenceStatus
<1>4. \A p : p \in issues <=>
        /\ p = <<p[1], p[2]>>
        /\ p[1] \in Validated(m) /\ p[2] \in DOMAIN m.result[p[1]].rules
        /\ Bad(p[1], p[2])
  BY <1>1, <1>2, VerdictFacts DEF IssueStatuses
<1>5. Overall(m) = PackageStatus({m.result[e].status : e \in Validated(m)})
  BY DEF Overall
<1> HIDE DEF m
<1>6. Settled(Overall(m)) =>
        \A e \in Validated(m) : m.result[e].status \notin {"NOT_FOUND", "REVIEW"}
  BY <1>5 DEF Settled, PackageStatus
<1>7. Settled(Overall(m)) => issues = {}
  <2> SUFFICES ASSUME Settled(Overall(m)), NEW p \in issues PROVE FALSE
    OBVIOUS
  <2>1. p[1] \in Validated(rep) /\ p[2] \in DOMAIN m.result[p[1]].rules /\ Bad(p[1], p[2])
    BY <1>1, <1>4
  <2>2. m.result[p[1]].status \in {"NOT_FOUND", "REVIEW"}
    BY <1>3, <2>1 DEF ElementStatus
  <2> QED
    BY <1>1, <1>6, <2>1, <2>2
<1>8. {e \in Catalog(m.standard) : Presence(m, e) = "REQUIRED_MISSING"} = {}
  BY <1>1, <1>2 DEF Presence
<1>9. Settled(Overall(m)) => \A i \in Issues(m) : i.kind = "MODEL_ERROR"
  BY <1>7, <1>8 DEF Issues, Issue
<1>10. ASSUME ~Settled(Overall(m))
       PROVE  Issues(m) # {} \/ MissingEvidence(m) # {}
  <2>1. PICK e \in Validated(rep) : m.result[e].status \in {"NOT_FOUND", "REVIEW"}
    <3>1. \A e \in Validated(rep) :
            m.result[e].status \in {"PASS", "REVIEW", "NOT_FOUND"}
      BY <1>3 DEF ElementStatus
    <3> QED
      BY <1>1, <1>5, <1>10, <3>1 DEF Settled, PackageStatus
  <2>2. CASE e \in rep.present
    <3>1. PICK r \in DOMAIN m.result[e].rules : Bad(e, r)
      BY <1>3, <2>1, <2>2 DEF ElementStatus
    <3>2. <<e, r>> = <<<<e, r>>[1], <<e, r>>[2]>>
      OBVIOUS
    <3>3. <<e, r>> \in issues
      BY <1>1, <1>4, <3>1, <3>2
    <3> HIDE DEF issues
    <3> QED
      BY <3>3 DEF Issues, issues
  <2>3. CASE e \notin rep.present
    <3>1. e \in Required(m) /\ Presence(m, e) = "NO_TAGGED_EVIDENCE"
      BY <1>1, <1>2, <1>3, <2>3 DEF Presence
    <3> QED
      BY <3>1 DEF MissingEvidence
  <2> QED
    BY <2>2, <2>3
<1>11. ASSUME NEW p \in Bucket(rep, "critical")
       PROVE  Issue("RULE", p[1], p[2], "High") \in Issues(m) <=> ~settled(p)
  <2> DEFINE k == Key(rep.standard, p[1], p[2])
  <2>1. /\ p \in WithVerdict(rep, Verdicts)
        /\ Severity(rep.result[p[1]].rules[p[2]], rep.result[p[1]].required) = "critical"
    BY DEF Bucket
  <2>2. /\ p = <<p[1], p[2]>> /\ p[1] \in Validated(rep)
        /\ p[2] \in DOMAIN rep.result[p[1]].rules
    BY <1>2, <2>1, VerdictFacts
  <2>3. /\ rep.result[p[1]].rules[p[2]] = "NOT_FOUND"
        /\ rep.result[p[1]].required
    BY <2>1 DEF Severity
  <2>4. p[1] \in Required(rep)
    <3>1. ResultFacts(rep, p[1], rep.result[p[1]])
      BY <2>2, SoundFacts
    <3> QED
      BY <2>3, <3>1 DEF ResultFacts
  <2>5. /\ p[2] \in DOMAIN m.result[p[1]].rules
        /\ m.result[p[1]].rules[p[2]]
              = IF k \in DOMAIN rv THEN rv[k] ELSE "NOT_FOUND"
    BY <1>0, <2>2, <2>3
  <2> HIDE DEF k
  <2>6. Bad(p[1], p[2]) <=> ~(k \in DOMAIN rv /\ rv[k] = "PASS")
    BY <2>5 DEF Verdicts
  <2>7. p \in issues <=> Bad(p[1], p[2])
    BY <1>1, <1>4, <2>2, <2>5
  <2>8. Priority(m, p[1]) = "High"
    BY <1>1, <2>4 DEF Priority
  <2>9. Issue("RULE", p[1], p[2], "High") \in Issues(m) <=> p \in issues
    <3> DEFINE i == Issue("RULE", p[1], p[2], "High")
    <3>1. i.kind = "RULE" /\ i.element = p[1] /\ i.rule = p[2]
      BY DEF Issue
    <3>2. p \in issues => i \in Issues(m)
      BY <2>8 DEF Issues
    <3>3. ASSUME i \in Issues(m) PROVE p \in issues
      <4>1. PICK q \in issues : i = Issue("RULE", q[1], q[2], Priority(m, q[1]))
        BY <3>1, <3>3 DEF Issues, Issue
      <4>2. q[1] = p[1] /\ q[2] = p[2]
        BY <4>1, <3>1 DEF Issue
      <4>3. q = <<q[1], q[2]>>
        BY <1>4, <4>1
      <4> QED
        BY <2>2, <4>1, <4>2, <4>3
    <3> QED
      BY <3>2, <3>3
  <2> QED
    BY <2>6, <2>7, <2>9 DEF k
<1> QED
  BY <1>9, <1>10, <1>11 DEF m

\* The reviews of a case are verdicts.
ReviewsInv == \A key \in DOMAIN reviews : reviews[key] \in Verdicts

LEMMA ReviewsHold == PackageSpec => []ReviewsInv
<1>1. PackageInit => ReviewsInv
  BY DEF PackageInit, NoReviews, ReviewsInv
<1>2. ASSUME ReviewsInv, [PackageNext]_packageVars PROVE ReviewsInv'
  <2>1. CASE UNCHANGED reviews
    BY <1>2, <2>1 DEF ReviewsInv
  <2>2. ASSUME NEW key \in Reviewable, NEW v \in Verdicts, Review(key, v)
        PROVE  ReviewsInv'
    BY <1>2, <2>2 DEF Review, ReviewsInv
  <2>3. ASSUME NEW key \in Reviewable, ClearReview(key) PROVE ReviewsInv'
    BY <1>2, <2>3 DEF ClearReview, ReviewsInv
  <2> QED
    BY <1>2, <2>1, <2>2, <2>3
       DEF PackageNext, packageVars, Attach, PatchScope, PatchStatus, Generate,
           Start, RunStep, LoadEvidence, ValidateElement, WriteReport,
           CommitStatus, Abort
<1> QED
  BY <1>1, <1>2, PTL DEF PackageSpec

\* Findings reach the report: one that is not settled names an issue or a
\* missing document, one that is settled has no issue but failed calls, and a
\* rule the severity view of the validation calls critical is a High issue of
\* the merged report exactly unless a review has passed it (_top_issues,
\* _missing_evidence_rows, severity_summary, apply_rule_reviews).
THEOREM FindingsReported == PackageSpec => []FindingsReachTheReport
<1>1. PackageInv /\ ReviewsInv => FindingsReachTheReport
  BY FindingsCover DEF FindingsReachTheReport, PassedByHand, ReviewsInv, AtRest,
                       PackageInv, Typed
<1> QED
  BY <1>1, PackageHolds, ReviewsHold, PTL

\* What an automatic validation says of an element, before any review.
LEMMA AutomaticStatus ==
  ASSUME NEW rep, Sound(rep), Automatic(rep), NEW e \in Validated(rep)
  PROVE  /\ e \in rep.present => rep.result[e].status \in {"PASS", "REVIEW"}
         /\ e \notin rep.present =>
              rep.result[e].status = "NOT_FOUND" /\ e \in Required(rep)
<1>1. ResultFacts(rep, e, rep.result[e]) /\ ~rep.dry
  BY SoundFacts DEF Automatic
<1>2. Validated(rep) \subseteq rep.present \cup Required(rep)
  BY AutomaticFacts DEF Automatic
<1>3. CASE e \in rep.present
  BY <1>1, <1>3 DEF ResultFacts, ElementStatus
<1>4. CASE e \notin rep.present
  BY <1>1, <1>2, <1>4 DEF ResultFacts, AbsenceStatus
<1> QED
  BY <1>3, <1>4

\* The matrix of a fresh case says what its validation says: its critical rows
\* are the compulsory elements without a document (document_matrix).
THEOREM MatrixSaysGaps == PackageSpec => []MatrixAgrees
<1>1. PackageInv => MatrixAgrees
  <2> SUFFICES ASSUME PackageInv, fresh, AtRest, Automatic(report)
               PROVE  {e \in DOMAIN Matrix(standard, level, tagged, report.result) :
                         Matrix(standard, level, tagged, report.result)[e].severity
                           = "critical"}
                      = Compulsory(standard, level) \ tagged
    BY DEF MatrixAgrees
  <2> DEFINE matrix == Matrix(standard, level, tagged, report.result)
             required == Compulsory(standard, level)
  <2>1. /\ Sound(report) /\ Current(report) /\ report.present = tagged
        /\ DOMAIN report.result = Validated(report)
    BY DEF PackageInv, FreshInv, AtRest, Idle, Validated
  <2>2. /\ Required(report) = required /\ required \subseteq Catalog(standard)
        /\ required \subseteq Validated(report)
        /\ Validated(report) \subseteq Catalog(standard)
    BY <2>1, SoundFacts, SelectedFacts, AutomaticFacts DEF Current, Required, Automatic
  <2>3. DOMAIN matrix = Catalog(standard)
    BY DEF Matrix
  <2>4. ASSUME NEW e \in Catalog(standard)
        PROVE  matrix[e].severity =
                 IF e \in DOMAIN report.result
                 THEN Severity(report.result[e].status, e \in required)
                 ELSE IF e \in required THEN "warning" ELSE "passed"
    BY DEF Matrix
  <2> HIDE DEF matrix, required
  <2>5. ASSUME NEW e \in Catalog(standard)
        PROVE  matrix[e].severity = "critical" <=> e \in required /\ e \notin tagged
    <3>1. CASE e \in Validated(report) /\ e \in tagged
      <4>1. report.result[e].status \in {"PASS", "REVIEW"}
        BY <2>1, <3>1, AutomaticStatus
      <4> QED
        BY <2>1, <2>4, <3>1, <4>1 DEF Severity
    <3>2. CASE e \in Validated(report) /\ e \notin tagged
      <4>1. report.result[e].status = "NOT_FOUND" /\ e \in required
        BY <2>1, <2>2, <3>2, AutomaticStatus
      <4> QED
        BY <2>1, <2>4, <3>2, <4>1 DEF Severity
    <3>3. CASE e \notin Validated(report)
      BY <2>1, <2>2, <2>4, <3>3
    <3> QED
      BY <3>1, <3>2, <3>3
  <2> QED
    BY <2>2, <2>3, <2>5 DEF matrix, required
<1> QED
  BY <1>1, PackageHolds, PTL

-----------------------------------------------------------------------------
\* The health figures.

\* A percentage is one.
LEMMA PercentFacts ==
  ASSUME NEW a \in Nat, NEW b \in Nat \ {0}, a <= b
  PROVE  Percent(a, b) \in 0..100
<1> DEFINE q == (100 * a) \div b
           r == (100 * a) % b
<1>1. q \in Int /\ r \in 0..(b - 1) /\ 100 * a = b * q + r
  OBVIOUS
<1> HIDE DEF q, r
<1>2. q >= 0
  BY <1>1
<1>3. q <= 100 /\ (q = 100 => r = 0)
  BY <1>1
<1> QED
  BY <1>1, <1>2, <1>3 DEF Percent, q, r

\* Of at most 19 elements, all but one is less than 100 percent.
LEMMA PercentExact ==
  ASSUME NEW a \in Nat, NEW b \in 1..19, a <= b
  PROVE  Percent(a, b) = 100 <=> a = b
  BY DEF Percent

\* A report has finitely many rules, those of its elements.
LEMMA FiniteRules ==
  ASSUME NEW rep, Sound(rep), NEW V
  PROVE  IsFiniteSet(WithVerdict(rep, V))
<1> DEFINE Found(e) == {x \in RulesIn(rep, e) : rep.result[e].rules[x] \in V}
           Pairs(e) == {<<e, r>> : r \in Found(e)}
<1>1. ASSUME NEW e \in Catalog(rep.standard)
      PROVE  IsFiniteSet(Pairs(e))
  <2>1. IsFiniteSet(RulesIn(rep, e))
    <3>1. CASE e \in Validated(rep)
      <4>1. ResultFacts(rep, e, rep.result[e]) /\ e \in 1..19
        BY <3>1, SoundFacts, SelectedFacts
      <4>2. DOMAIN rep.result[e].rules = 1..RulesOf[e] /\ RulesOf[e] \in Nat
        BY <4>1, RulesOfAssumption DEF ResultFacts
      <4> QED
        BY <3>1, <4>2, FS_Interval DEF RulesIn
    <3>2. CASE e \notin Validated(rep)
      BY <3>2, FS_EmptySet DEF RulesIn
    <3> QED
      BY <3>1, <3>2
  <2>2. IsFiniteSet(Found(e))
    BY <2>1, FS_Subset
  <2>3. IsFiniteSet({e} \X Found(e))
    BY <2>2, FS_Singleton, FS_Product
  <2>4. Pairs(e) \subseteq {e} \X Found(e)
    OBVIOUS
  <2> HIDE DEF Found, Pairs
  <2> QED
    BY <2>3, <2>4, FS_Subset
<1> DEFINE elements == Catalog(rep.standard)
           all == {Pairs(e) : e \in elements}
<1>2. IsFiniteSet(all)
  <2>1. IsFiniteSet(1..19)
    BY 1 \in Int, 19 \in Int, FS_Interval
  <2>2. IsFiniteSet(elements)
    BY <2>1, SoundFacts, SelectedFacts, FS_Subset
  <2> DEFINE f == [e \in elements |-> Pairs(e)]
  <2> HIDE DEF Pairs, elements
  <2>3. f \in Surjection(elements, all)
    BY DEF Surjection
  <2> HIDE DEF f, all
  <2> QED
    BY <2>2, <2>3, FS_Surjection
<1> QED
  BY <1>1, <1>2, FS_UNION DEF WithVerdict

LEMMA HealthFacts ==
  ASSUME NEW rep, Sound(rep), Automatic(rep)
  PROVE  LET h == Health(rep)
         IN  /\ h.missing_documents = Cardinality(MissingCompulsory(rep))
             /\ h.documents \in 0..100 /\ h.requirements \in 0..100
             /\ h.documents = 100 <=> MissingCompulsory(rep) = {}
<1> DEFINE required == Required(rep)
           present == required \cap rep.present
           missing == required \ rep.present
           rules == WithVerdict(rep, Verdicts)
           passed == Bucket(rep, "passed")
<1>1. /\ Validated(rep) \subseteq rep.present \cup required
      /\ required \subseteq Validated(rep) /\ required \subseteq 1..19 /\ 18 \in required
  BY SoundFacts, SelectedFacts, AutomaticFacts DEF Automatic
<1>2. \A e \in Validated(rep) : rep.result[e].required <=> e \in required
  BY SoundFacts DEF ResultFacts
<1>3. HealthRequired(rep) = required
  BY <1>1, <1>2 DEF HealthRequired
<1>4. \A e \in required :
        /\ e \in rep.present => rep.result[e].status \in {"PASS", "REVIEW"}
        /\ e \notin rep.present => rep.result[e].status = "NOT_FOUND"
  BY <1>1, AutomaticStatus
<1>5. /\ HealthPresent(rep) = present
      /\ {e \in required : rep.result[e].status = "NOT_FOUND"} = missing
  BY <1>3, <1>4 DEF HealthPresent
<1> DEFINE a == Cardinality(present)
           b == Cardinality(required)
           c == Cardinality(passed)
           n == Cardinality(rules)
           d == AtLeastOne(n)
           crit == Cardinality(Bucket(rep, "critical"))
<1>6. Health(rep) =
        [documents |-> IF required = {} THEN 100 ELSE Percent(a, b),
         requirements |-> Percent(c, d),
         critical |-> crit,
         missing_documents |-> Cardinality(missing)]
  BY <1>3, <1>5 DEF Health
<1>7. a \in Nat /\ b \in 1..19 /\ a <= b /\ (a = b <=> missing = {})
  <2>1. IsFiniteSet(1..19) /\ Cardinality(1..19) = 19
    <3> DEFINE k == 19
    <3>1. k \in Int /\ 1 \in Int /\ ~(1 > k) /\ k - 1 + 1 = 19
      OBVIOUS
    <3> HIDE DEF k
    <3>2. IsFiniteSet(1..k) /\ Cardinality(1..k) = IF 1 > k THEN 0 ELSE k - 1 + 1
      BY <3>1, FS_Interval
    <3> QED
      BY <3>1, <3>2 DEF k
  <2>2. IsFiniteSet(required) /\ b <= 19 /\ b \in Nat
    BY <1>1, <2>1, FS_Subset, FS_CardinalityType
  <2>3. b # 0
    BY <1>1, <2>2, FS_EmptySet
  <2>4. IsFiniteSet(present) /\ a \in Nat /\ a <= b /\ (a = b => present = required)
    BY <2>2, FS_Subset, FS_CardinalityType
  <2>5. present = required <=> missing = {}
    OBVIOUS
  <2> HIDE DEF a, b, present, missing, required
  <2> QED
    BY <2>2, <2>3, <2>4, <2>5 DEF a, b
<1>8. c \in Nat /\ d \in Nat \ {0} /\ c <= d
  <2>1. IsFiniteSet(rules) /\ passed \subseteq rules
    BY FiniteRules DEF Bucket
  <2>2. n \in Nat /\ c \in Nat /\ c <= n
    BY <2>1, FS_Subset, FS_CardinalityType
  <2> HIDE DEF n, c
  <2> QED
    BY <2>2 DEF AtLeastOne
<1> HIDE DEF a, b, c, d, crit
<1>9. MissingCompulsory(rep) = missing
  BY DEF MissingCompulsory
<1>10. required # {}
  BY <1>1
<1> HIDE DEF required, missing
<1>11. /\ Health(rep).documents = Percent(a, b)
       /\ Health(rep).requirements = Percent(c, d)
       /\ Health(rep).missing_documents = Cardinality(missing)
  BY <1>6, <1>10
<1>12. Percent(a, b) \in 0..100 /\ (Percent(a, b) = 100 <=> a = b)
  <2>1. b \in Nat \ {0}
    BY <1>7
  <2> QED
    BY <1>7, <2>1, PercentFacts, PercentExact
<1> QED
  BY <1>7, <1>8, <1>9, <1>11, <1>12, PercentFacts

\* The dashboard tells the gaps: its documents are at 100 percent exactly if no
\* compulsory element lacks evidence, its percentages are percentages, and it
\* counts as many missing documents as the level lacks (_validation_health).
THEOREM HealthIsTold == PackageSpec => []HealthTellsGaps
<1>1. PackageInv => HealthTellsGaps
  BY HealthFacts DEF HealthTellsGaps, AtRest, PackageInv, Typed
<1> QED
  BY <1>1, PackageHolds, PTL

-----------------------------------------------------------------------------
\* From the element to the package.

\* the result of the element, as the report has it
Delivered ==
  [rules |-> [r \in Rules |-> Final(r)], status |-> ReportStatus,
   evidence |-> element.present, required |-> element.required, error |-> failed]

\* without a question, the answer is made up
UnaskedInv ==
  ~Asked =>
    results = All(Rules, IF ~element.dry /\ element.required
                         THEN "NOT_FOUND" ELSE "PASS")

\* The exchange about an element ends with a result that PackageValidation
\* lets a run add for it (Outcomes), if the numbers of rules agree.
DeliversWhatIsExpected ==
  mode = "done" =>
    \A e \in 1..19 : RulesOf[e] = NumRules =>
      /\ element.dry => Delivered = DryResult(e, element.present, element.required)
      /\ ~element.dry /\ ~element.present =>
           Delivered = MissingResult(e, element.required)
      /\ ~element.dry /\ element.present =>
           Delivered \in ModelResults(e, element.required)

LEMMA UnaskedHolds == Spec => []UnaskedInv
<1>1. Init => UnaskedInv
  BY DEF Init, UnaskedInv, Asked
<1>2. ElementInv /\ UnaskedInv /\ [Next]_vars => UnaskedInv'
  <2> SUFFICES ASSUME ElementInv, UnaskedInv, [Next]_vars PROVE UnaskedInv'
    OBVIOUS
  <2>1. CASE UNCHANGED vars
    BY <2>1 DEF vars, UnaskedInv, Asked
  <2>2. CASE Next
    <3>1. mode \notin Ended /\ element' = element
      BY <2>2 DEF Next, Ended, WholeAnswered, WholeFailed, BatchAnswered, BatchFailed,
                  RetryAnswered, RetryFailed, Malformed
    <3> QED
      BY <3>1 DEF ElementInv, UnaskedInv, Asked
  <2> QED
    BY <2>1, <2>2
<1> QED
  BY <1>1, <1>2, InvariantHolds, PTL DEF Spec

\* Any verdicts may be a result, and those with a rule that is not found, or
\* with no rule at all, also after a failed call.
LEMMA ResultsOfTheModel ==
  ASSUME NEW e, NEW required, NEW v \in [1..RulesOf[e] -> Verdicts]
  PROVE  /\ ModelResult(v, FALSE, required) \in ModelResults(e, required)
         /\ RulesOf[e] = 0 \/ (\E r \in DOMAIN v : v[r] = "NOT_FOUND") =>
              ModelResult(v, TRUE, required) \in ModelResults(e, required)
<1> DEFINE answers == [1..RulesOf[e] -> Verdicts]
           unknown == {w \in answers : \/ RulesOf[e] = 0
                                      \/ \E r \in DOMAIN w : w[r] = "NOT_FOUND"}
           good == {ModelResult(w, FALSE, required) : w \in answers}
           bad  == {ModelResult(w, TRUE, required) : w \in unknown}
<1>1. ModelResults(e, required) = good \cup bad
  BY DEF ModelResults
<1>2. ModelResult(v, FALSE, required) \in good
  OBVIOUS
<1>3. ASSUME RulesOf[e] = 0 \/ \E r \in DOMAIN v : v[r] = "NOT_FOUND"
      PROVE  ModelResult(v, TRUE, required) \in bad
  BY <1>3
<1> QED
  BY <1>1, <1>2, <1>3

LEMMA DeliveryFollows == ElementInv /\ UnaskedInv => DeliversWhatIsExpected
<1> SUFFICES ASSUME ElementInv, UnaskedInv, mode = "done",
                    NEW e \in 1..19, RulesOf[e] = NumRules
             PROVE  /\ element.dry => Delivered = DryResult(e, element.present, element.required)
                    /\ ~element.dry /\ ~element.present =>
                         Delivered = MissingResult(e, element.required)
                    /\ ~element.dry /\ element.present =>
                         Delivered \in ModelResults(e, element.required)
  BY DEF DeliversWhatIsExpected
<1> DEFINE final == [r \in Rules |-> Final(r)]
<1>1. /\ element.dry \in BOOLEAN /\ element.present \in BOOLEAN
      /\ element.required \in BOOLEAN /\ failed \in BOOLEAN
  BY DEF ElementInv, TypeOK, Element
<1>2. Rules = 1..RulesOf[e]
  BY DEF Rules
<1>3. CASE element.dry
  <2>1. results = All(Rules, "PASS") /\ failed = FALSE
    BY <1>1, <1>3 DEF ElementInv, UnaskedInv, Asked
  <2>2. final = Uniform(e, "PASS")
    <3>1. \A r \in Rules : Final(r) = "PASS"
      BY <2>1, AllFacts DEF Final, Normal
    <3> QED
      BY <1>2, <3>1 DEF Uniform
  <2>3. ReportStatus = "N/A"
    BY <1>3 DEF ReportStatus
  <2> HIDE DEF final
  <2> QED
    BY <1>3, <2>1, <2>2, <2>3 DEF Delivered, DryResult, final
<1>4. CASE ~element.dry /\ ~element.present
  <2> DEFINE v == IF element.required THEN "NOT_FOUND" ELSE "PASS"
  <2>1. results = All(Rules, v) /\ failed = FALSE
    BY <1>1, <1>4 DEF ElementInv, UnaskedInv, Asked
  <2>2. final = Uniform(e, v)
    <3>1. \A r \in Rules : Final(r) = v
      BY <2>1, AllFacts DEF Final, Normal
    <3> QED
      BY <1>2, <3>1 DEF Uniform
  <2>3. ReportStatus = AbsenceStatus(element.required)
    BY <1>4 DEF ReportStatus, AbsenceStatus
  <2>4. element.present = FALSE
    BY <1>1, <1>4
  <2> HIDE DEF final
  <2> QED
    BY <1>4, <2>1, <2>2, <2>3, <2>4 DEF Delivered, MissingResult, final
<1>5. CASE ~element.dry /\ element.present
  <2>1. final \in [1..RulesOf[e] -> Verdicts]
    <3>1. \A r \in Rules : Final(r) \in Verdicts
      BY NormalType DEF Final, Statuses, Verdicts
    <3> QED
      BY <1>2, <3>1
  <2>2. failed => RulesOf[e] = 0 \/ \E r \in 1..RulesOf[e] : final[r] = "NOT_FOUND"
    <3> SUFFICES ASSUME failed, RulesOf[e] # 0
                 PROVE  \E r \in Rules : final[r] = "NOT_FOUND"
      BY <1>2
    <3>0. Rules # {}
      <4>1. 1 \in 1..RulesOf[e]
        BY RulesOfAssumption
      <4> QED
        BY <1>2, <4>1
    <3>1. PICK r \in DOMAIN results : Normal(results[r]) = "NOT_FOUND"
      BY <1>5, <3>0 DEF ElementInv, Asked, FailuresShow
    <3>2. r \in Rules
      BY DEF ElementInv, TypeOK
    <3> QED
      BY <3>1, <3>2 DEF Final
  <2>3. ReportStatus = IF failed THEN "REVIEW" ELSE ElementStatus(final)
    BY <1>5 DEF ReportStatus, StatusOf, ElementStatus
  <2>4. element.present = TRUE
    BY <1>1, <1>5
  <2>5. Delivered = ModelResult(final, failed, element.required)
    BY <2>3, <2>4 DEF Delivered, ModelResult
  <2> HIDE DEF final
  <2>6. CASE failed
    <3>1. failed = TRUE
      BY <1>1, <2>6
    <3>2. RulesOf[e] = 0 \/ \E r \in DOMAIN final : final[r] = "NOT_FOUND"
      BY <2>1, <2>2, <2>6
    <3>3. Delivered = ModelResult(final, TRUE, element.required)
      BY <2>5, <3>1
    <3> QED
      BY <1>5, <2>1, <3>2, <3>3, ResultsOfTheModel
  <2>7. CASE ~failed
    <3>1. failed = FALSE
      BY <1>1, <2>7
    <3>2. Delivered = ModelResult(final, FALSE, element.required)
      BY <2>5, <3>1
    <3> QED
      BY <1>5, <2>1, <3>2, ResultsOfTheModel
  <2> QED
    BY <1>5, <2>6, <2>7
<1> QED
  BY <1>3, <1>4, <1>5

\* What the exchange about an element delivers - in a dry run, without
\* evidence, or after any replies and failures of the model - is a result
\* that the validation of a package reckons with (_validate_element).
THEOREM ElementsFitThePackage == Spec => []DeliversWhatIsExpected
<1> QED
  BY UnaskedHolds, InvariantHolds, DeliveryFollows, PTL

-----------------------------------------------------------------------------
\* The counts of the report.

\* Three kinds that cover a finite set and exclude one another add up to it.
LEMMA ThreeKinds ==
  ASSUME NEW A, NEW B, NEW C, NEW S, IsFiniteSet(S), S = A \cup B \cup C,
         A \cap B = {}, A \cap C = {}, B \cap C = {}
  PROVE  Cardinality(S) = Cardinality(A) + Cardinality(B) + Cardinality(C)
<1>1. /\ IsFiniteSet(A) /\ IsFiniteSet(B) /\ IsFiniteSet(C)
      /\ Cardinality(A) \in Nat /\ Cardinality(B) \in Nat
      /\ Cardinality(C) \in Nat
  BY FS_Subset, FS_CardinalityType
<1>2. Cardinality({}) = 0
  BY FS_EmptySet
<1>3. /\ IsFiniteSet(A \cup B) /\ Cardinality(A \cup B) \in Nat
      /\ Cardinality(A \cup B) = Cardinality(A) + Cardinality(B)
  <2>1. IsFiniteSet(A \cup B) /\ Cardinality(A \cup B) \in Nat
    BY <1>1, FS_Union, FS_CardinalityType
  <2>2. Cardinality(A \cup B) = Cardinality(A) + Cardinality(B) - Cardinality({})
    BY <1>1, FS_Union
  <2> QED
    BY <1>1, <1>2, <2>1, <2>2
<1>4. Cardinality(S)
        = Cardinality(A \cup B) + Cardinality(C) - Cardinality({})
  <2>1. (A \cup B) \cap C = {}
    OBVIOUS
  <2> QED
    BY <1>1, <1>3, <2>1, FS_Union
<1> QED
  BY <1>1, <1>2, <1>3, <1>4

(***************************************************************************)
(* _checkpoint_summary, _aggregate_checkpoint_summary: whatever was decided*)
(* by hand, the three counts of the merged report add up to the total, and *)
(* that is the number of rules with a verdict before the merge: reviews    *)
(* move a rule from one count to another, and lose or add none.            *)
(***************************************************************************)
THEOREM CountsAddUp ==
  ASSUME NEW rep, Sound(rep), NEW rv, \A k \in DOMAIN rv : rv[k] \in Verdicts
  PROVE  LET merged == Counts(Merged(rep, rv))
         IN  /\ merged.total = merged.pass + merged.flag + merged.not_found
             /\ merged.total = Counts(rep).total
<1> DEFINE m == Merged(rep, rv)
           S == WithVerdict(m, Verdicts)
           A == WithVerdict(m, {"PASS"})
           B == WithVerdict(m, {"FLAG"})
           C == WithVerdict(m, {"NOT_FOUND"})
<1>1. /\ m.standard = rep.standard /\ Validated(m) = Validated(rep)
      /\ \A e \in Validated(rep) :
           /\ DOMAIN m.result[e].rules = DOMAIN rep.result[e].rules
           /\ \A r \in DOMAIN rep.result[e].rules :
                m.result[e].rules[r] = IF Key(rep.standard, e, r) \in DOMAIN rv
                                       THEN rv[Key(rep.standard, e, r)]
                                       ELSE rep.result[e].rules[r]
  BY MergedFacts
<1>2. \A e \in Validated(rep) :
        /\ e \in Catalog(rep.standard)
        /\ \A r \in DOMAIN rep.result[e].rules :
             rep.result[e].rules[r] \in Verdicts
  <2> SUFFICES ASSUME NEW e \in Validated(rep)
               PROVE  /\ e \in Catalog(rep.standard)
                      /\ \A r \in DOMAIN rep.result[e].rules :
                           rep.result[e].rules[r] \in Verdicts
    OBVIOUS
  <2>1. e \in Catalog(rep.standard) /\ ResultFacts(rep, e, rep.result[e])
    BY SoundFacts
  <2>2. rep.result[e].rules \in [1..RulesOf[e] -> Verdicts]
    BY <2>1 DEF ResultFacts
  <2> QED
    BY <2>1, <2>2
<1>3. \A e \in Validated(rep) : \A r \in DOMAIN rep.result[e].rules :
        m.result[e].rules[r] \in Verdicts
  BY <1>1, <1>2
<1>4. Validated(m) \subseteq Catalog(m.standard)
  BY <1>1, <1>2
<1> HIDE DEF m
<1>5. ASSUME NEW V
      PROVE  \A p : p \in WithVerdict(m, V) <=>
               /\ p = <<p[1], p[2]>> /\ p[1] \in Validated(rep)
               /\ p[2] \in DOMAIN rep.result[p[1]].rules
               /\ m.result[p[1]].rules[p[2]] \in V
  BY <1>1, <1>4, VerdictFacts
<1>6. \A p : p \in WithVerdict(rep, Verdicts) <=>
               /\ p = <<p[1], p[2]>> /\ p[1] \in Validated(rep)
               /\ p[2] \in DOMAIN rep.result[p[1]].rules
               /\ rep.result[p[1]].rules[p[2]] \in Verdicts
  <2>1. Validated(rep) \subseteq Catalog(rep.standard)
    BY <1>2
  <2> QED
    BY <2>1, VerdictFacts
<1>7. S = WithVerdict(rep, Verdicts)
  BY <1>2, <1>3, <1>5, <1>6
<1>8. S = A \cup B \cup C
  BY <1>5 DEF Verdicts
<1>9. A \cap B = {} /\ A \cap C = {} /\ B \cap C = {}
  BY <1>5
<1>10. IsFiniteSet(S)
  BY <1>7, FiniteRules
<1>11. /\ Counts(m).total = Cardinality(S) /\ Counts(m).pass = Cardinality(A)
       /\ Counts(m).flag = Cardinality(B)
       /\ Counts(m).not_found = Cardinality(C)
       /\ Counts(rep).total = Cardinality(WithVerdict(rep, Verdicts))
  BY DEF Counts
<1> HIDE DEF S, A, B, C
<1>12. Cardinality(S) = Cardinality(A) + Cardinality(B) + Cardinality(C)
  BY <1>8, <1>9, <1>10, ThreeKinds
<1> QED
  BY <1>7, <1>11, <1>12 DEF m
=============================================================================
