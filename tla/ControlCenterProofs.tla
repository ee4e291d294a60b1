-------------------------- MODULE ControlCenterProofs --------------------------
(***************************************************************************)
(* Proofs about ControlCenter, for any cases, rules and failures and a     *)
(* user who waits for every answer (OneHandler), and about RuleStore, for  *)
(* any number of administrators who edit its rules from the control center.*)
(***************************************************************************)
EXTENDS ControlCenter, RuleStore, TLAPS

-----------------------------------------------------------------------------
\* The control center.

\* one handler at a time: the user waits for every answer
OneHandler == \E s : Slots = {s}

\* the requests of each handler
Sends(h) ==
  \/ h.op = "open" /\ h.req \in {"submission", "matrix", "review", "getReport"}
  \/ h.op = "refresh" /\ h.req = "matrix"
  \/ h.op = "validate" /\ h.req \in {"validate", "review", "submission"}
  \/ h.op = "generate" /\ h.req \in {"save", "generate"}
  \/ h.op = "patch" /\ h.req = "patch"
  \/ h.op = "upload" /\ h.req \in {"upload", "matrix", "submission"}

\* openSubmission has yet to show the matrix, the review, the report
Opening(h, reqs) == h.op = "open" /\ h.req \in reqs

\* the request is for the case that is open, but for the first of openSubmission
AtInv(s) ==
  LET h == slot[s]
  IN  h.op # "none" =>
        Sends(h) /\ h.at \in Cases /\ (h.at = open \/ Opening(h, {"submission"}))

\* what the screen shows is of the case that is open, or still to be replaced
ShowsInv(s) ==
  LET h == slot[s]
  IN  /\ header = open
      /\ Opening(h, {"matrix"}) \/ matrix \in {open, NoCase}
      /\ Opening(h, {"matrix", "review", "getReport"})
           \/ report.case \in {open, NoCase}
      /\ table.rows # {} => table.case # NoCase
      /\ \/ stale \/ Opening(h, {"matrix", "review"})
         \/ payload.case \in {open, NoCase} /\ (table.rows # {} => table.case = open)

\* decisions are saved one after the other, and all before the report
GenerateInv(s) ==
  LET h == slot[s]
      t == h.rows
  IN  h.op = "generate" =>
        /\ t.rows # {} => t.case # NoCase /\ (stale \/ t.case = h.at)
        /\ h.todo \subseteq ToSave(t)
        /\ \A r \in ToSave(t) \ h.todo :
             decided[h.at][r] # NoCase <=> r \in t.changed
        /\ h.req = "generate" => h.todo = {}
        /\ h.req = "generate" /\ h.ans = "ok" => h.human = Human(h.at)

SlotInv(s) == AtInv(s) /\ ShowsInv(s) /\ GenerateInv(s)

ScreenInv == ScreenTypeOK /\ \A s \in Slots : SlotInv(s)

\* Facts about handlers.

LEMMA FreeFacts ==
  /\ Free \in Handler /\ Free.op = "none" /\ Free.ans = "sent"
  /\ EmptyTable \in Table /\ EmptyTable.rows = {} /\ EmptyTable.case = NoCase
<1>1. EmptyTable \in Table /\ EmptyTable.rows = {} /\ EmptyTable.case = NoCase
  BY DEF EmptyTable, Table, Known
<1> QED
  BY <1>1 DEF Free, Handler, Requests, Known

LEMMA RequestFacts ==
  ASSUME NEW op \in Ops, NEW req \in Requests, NEW c \in Known
  PROVE  LET h == Request(op, req, c)
         IN  /\ h \in Handler /\ h.op = op /\ h.req = req /\ h.at = c
             /\ h.ans = "sent"
<1> DEFINE h1 == [Free EXCEPT !.op = op]
           h2 == [h1 EXCEPT !.req = req]
           h3 == [h2 EXCEPT !.at = c]
<1>1. Free \in Handler /\ Free.ans = "sent"
  BY FreeFacts
<1>2. h1 \in Handler /\ h1.op = op /\ h1.ans = "sent"
  BY <1>1 DEF Handler
<1> HIDE DEF h1
<1>3. h2 \in Handler /\ h2.op = op /\ h2.req = req /\ h2.ans = "sent"
  BY <1>2 DEF Handler
<1> HIDE DEF h2
<1>4. /\ h3 \in Handler /\ h3.op = op /\ h3.req = req /\ h3.at = c
      /\ h3.ans = "sent"
  BY <1>3 DEF Handler
<1>5. Request(op, req, c) = h3
  BY DEF Request, h1, h2
<1> QED
  BY <1>4, <1>5

LEMMA SlotFacts ==
  ASSUME NEW s, Slots = {s}, slot \in [Slots -> Handler], NEW h \in Handler,
         slot' = [slot EXCEPT ![s] = h]
  PROVE  slot' \in [Slots -> Handler] /\ slot'[s] = h
  OBVIOUS

\* What the user starts.
LEMMA BeginKeeps ==
  ASSUME NEW s, Slots = {s}, ScreenTypeOK, SlotInv(s), slot[s] = Free,
         NEW op \in Ops, NEW req \in Requests, NEW c \in Cases,
         LET h == Request(op, req, c) IN Sends(h) /\ op # "generate" /\ Begin(s, h),
         c = open \/ (op = "open" /\ req = "submission")
  PROVE  ScreenTypeOK' /\ SlotInv(s)'
<1> DEFINE h == Request(op, req, c)
<1>1. h \in Handler /\ h.op = op /\ h.req = req /\ h.at = c /\ h.ans = "sent"
  BY RequestFacts DEF Known
<1>2. Sends(h) /\ slot' = [slot EXCEPT ![s] = h] /\ UNCHANGED <<server, screen, failures>>
  BY DEF Begin
<1> HIDE DEF h
<1>3. slot' \in [Slots -> Handler] /\ slot'[s] = h
  BY <1>1, <1>2, SlotFacts DEF ScreenTypeOK
<1>4. ScreenTypeOK'
  BY <1>2, <1>3 DEF ScreenTypeOK, server, screen
<1>5. AtInv(s)' /\ GenerateInv(s)'
  BY <1>1, <1>2, <1>3 DEF AtInv, GenerateInv, Opening, Sends, screen
<1>6. ShowsInv(s)'
  BY <1>1, <1>2, <1>3, FreeFacts DEF SlotInv, ShowsInv, Opening, screen
<1> QED
  BY <1>4, <1>5, <1>6 DEF SlotInv

\* An answer that arrives, or is lost.
LEMMA AnswerFacts ==
  ASSUME NEW s, Slots = {s}, ScreenTypeOK, NEW k \in Handler, Answer(s, k)
  PROVE  LET h == slot'[s]
         IN  /\ slot' \in [Slots -> Handler] /\ failures' \in 0..MaxFailures
             /\ h.op = k.op /\ h.req = k.req /\ h.at = k.at /\ h.rows = k.rows
             /\ h.human = k.human /\ h.todo = k.todo
             /\ h.ans \in {"ok", "failed"}
<1>1. ASSUME NEW a \in {"ok", "failed"}
      PROVE  LET h == [k EXCEPT !.ans = a]
             IN  /\ h \in Handler /\ h.op = k.op /\ h.req = k.req /\ h.at = k.at
                 /\ h.rows = k.rows /\ h.human = k.human /\ h.todo = k.todo
                 /\ h.ans = a
  BY DEF Handler
<1>2. failures' \in 0..MaxFailures
  BY FailuresAssumption DEF Answer, ScreenTypeOK
<1>3. PICK a \in {"ok", "failed"} : slot' = [slot EXCEPT ![s] = [k EXCEPT !.ans = a]]
  BY DEF Answer
<1> DEFINE h == [k EXCEPT !.ans = a]
<1>4. h \in Handler
  BY <1>1
<1>5. slot' = [slot EXCEPT ![s] = h]
  BY <1>3
<1>6. slot' \in [Slots -> Handler] /\ slot'[s] = h
  <2> HIDE DEF h
  <2> QED
    BY <1>4, <1>5, SlotFacts DEF ScreenTypeOK
<1> QED
  BY <1>1, <1>2, <1>6

\* The screen stays as it is while a request is under way.
LEMMA ScreenStays ==
  ASSUME NEW s, AtInv(s), ShowsInv(s), UNCHANGED screen,
         slot'[s].op = slot[s].op, slot'[s].req = slot[s].req,
         slot'[s].at = slot[s].at
  PROVE  AtInv(s)' /\ ShowsInv(s)'
<1>1. UNCHANGED <<open, header, matrix, table, payload, report, stale>>
  BY DEF screen
<1> QED
  BY <1>1 DEF AtInv, ShowsInv, Sends, Opening

\* A request of a handler other than generateReport.
LEMMA ServesOthers ==
  ASSUME NEW s, Slots = {s}, ScreenTypeOK, SlotInv(s), NEW k \in Handler,
         Answer(s, k), UNCHANGED screen,
         k.op = slot[s].op, k.req = slot[s].req, k.at = slot[s].at,
         k.op # "generate",
         validated \subseteq validated', validated' \subseteq Cases,
         UNCHANGED <<decided, reported, saved>>
  PROVE  ScreenTypeOK' /\ SlotInv(s)'
<1>1. /\ slot' \in [Slots -> Handler] /\ failures' \in 0..MaxFailures
      /\ slot'[s].op = k.op /\ slot'[s].req = k.req /\ slot'[s].at = k.at
  BY AnswerFacts
<1>2. ScreenTypeOK'
  BY <1>1 DEF ScreenTypeOK, screen
<1>3. AtInv(s)' /\ ShowsInv(s)'
  BY <1>1, ScreenStays DEF SlotInv
<1>4. GenerateInv(s)'
  BY <1>1 DEF GenerateInv
<1> QED
  BY <1>2, <1>3, <1>4 DEF SlotInv

\* What a handler is waiting for.
LEMMA Waits ==
  ASSUME NEW s, Slots = {s}, ScreenTypeOK, AtInv(s), slot[s].op # "none"
  PROVE  slot[s] \in Handler /\ Sends(slot[s]) /\ slot[s].at \in Cases
  BY DEF ScreenTypeOK, AtInv

LEMMA ValidateKeeps ==
  ASSUME NEW s, Slots = {s}, ScreenTypeOK, SlotInv(s), ServeValidate(s)
  PROVE  ScreenTypeOK' /\ SlotInv(s)'
<1>1. /\ slot[s].op # "none" /\ slot[s].req = "validate"
      /\ validated' = validated \cup {slot[s].at}
      /\ Answer(s, slot[s]) /\ UNCHANGED <<decided, reported, saved, screen>>
  BY DEF ServeValidate, Asks
<1>2. slot[s] \in Handler /\ Sends(slot[s]) /\ slot[s].at \in Cases
  BY <1>1, Waits DEF SlotInv
<1>3. slot[s].op # "generate"
  BY <1>1, <1>2 DEF Sends
<1>4. validated' \subseteq Cases
  BY <1>1, <1>2 DEF ScreenTypeOK
<1> QED
  BY <1>1, <1>2, <1>3, <1>4, ServesOthers

LEMMA WriteKeeps ==
  ASSUME NEW s, Slots = {s}, ScreenTypeOK, SlotInv(s), ServeWrite(s)
  PROVE  ScreenTypeOK' /\ SlotInv(s)'
<1>1. /\ slot[s].op # "none" /\ slot[s].req \in {"patch", "upload"}
      /\ Answer(s, slot[s])
      /\ UNCHANGED <<validated, decided, reported, saved, screen>>
  BY DEF ServeWrite, Asks, server
<1>2. slot[s] \in Handler /\ Sends(slot[s])
  BY <1>1, Waits DEF SlotInv
<1>3. slot[s].op # "generate"
  BY <1>1, <1>2 DEF Sends
<1>4. validated' \subseteq Cases
  BY <1>1 DEF ScreenTypeOK
<1> QED
  BY <1>1, <1>2, <1>3, <1>4, ServesOthers

LEMMA ReadKeeps ==
  ASSUME NEW s, Slots = {s}, ScreenTypeOK, SlotInv(s), ServeRead(s)
  PROVE  ScreenTypeOK' /\ SlotInv(s)'
<1>1. /\ slot[s].op # "none"
      /\ slot[s].req \in {"submission", "matrix", "review", "getReport"}
      /\ UNCHANGED <<validated, decided, reported, saved, screen>>
  BY DEF ServeRead, Asks, server
<1>2. slot[s] \in Handler /\ Sends(slot[s]) /\ slot[s].at \in Cases
  BY <1>1, Waits DEF SlotInv
<1>3. ASSUME NEW u \in SUBSET Rules
      PROVE  LET k == [slot[s] EXCEPT !.human = u]
             IN  /\ k \in Handler /\ k.op = slot[s].op /\ k.req = slot[s].req
                 /\ k.at = slot[s].at
  BY <1>2 DEF Handler
<1>4. Human(slot[s].at) \in SUBSET Rules /\ reported[slot[s].at].human \in SUBSET Rules
  BY <1>2 DEF Human, ScreenTypeOK
<1>5. PICK k \in Handler : /\ Answer(s, k) /\ k.op = slot[s].op
                           /\ k.req = slot[s].req /\ k.at = slot[s].at
  BY <1>2, <1>3, <1>4 DEF ServeRead
<1>6. slot[s].op # "generate"
  BY <1>1, <1>2 DEF Sends
<1>7. validated' \subseteq Cases
  BY <1>1 DEF ScreenTypeOK
<1> QED
  BY <1>1, <1>5, <1>6, <1>7, ServesOthers

LEMMA SavedFacts ==
  ASSUME ScreenTypeOK, NEW c \in Cases, NEW t \in Table, NEW r \in Rules
  PROVE  /\ Saved(c, t, r) \in [Cases -> [Rules -> Known]]
         /\ Saved(c, t, r)[c][r] = IF r \in t.changed THEN t.case ELSE NoCase
         /\ \A d \in Cases, q \in Rules :
              d # c \/ q # r => Saved(c, t, r)[d][q] = decided[d][q]
<1>1. decided \in [Cases -> [Rules -> Known]]
  BY DEF ScreenTypeOK
<1> DEFINE v == IF r \in t.changed THEN t.case ELSE NoCase
<1>2. v \in Known
  BY DEF Table, Known
<1>3. Saved(c, t, r) = [decided EXCEPT ![c][r] = v]
  BY DEF Saved
<1> HIDE DEF v
<1>4. /\ Saved(c, t, r) \in [Cases -> [Rules -> Known]]
      /\ Saved(c, t, r)[c][r] = v
      /\ \A d \in Cases, q \in Rules :
           d # c \/ q # r => Saved(c, t, r)[d][q] = decided[d][q]
  BY <1>1, <1>2, <1>3
<1> QED
  BY <1>4 DEF v

LEMMA SaveKeeps ==
  ASSUME NEW s, Slots = {s}, ScreenTypeOK, SlotInv(s),
         NEW r \in Rules, ServeSave(s, r)
  PROVE  ScreenTypeOK' /\ SlotInv(s)'
<1> DEFINE h == slot[s]
           t == h.rows
           c == h.at
           k == [h EXCEPT !.todo = @ \ {r}]
<1>1. /\ h.op # "none" /\ h.req = "save" /\ r \in h.todo
      /\ decided' = Saved(c, t, r) /\ Answer(s, k)
      /\ saved' = saved \/ saved' = saved \cup {r}
      /\ UNCHANGED <<validated, reported, screen>>
  BY DEF ServeSave, Asks
<1>2. h \in Handler /\ Sends(h) /\ c \in Cases
  BY <1>1, Waits DEF SlotInv
<1>3. h.op = "generate" /\ t \in Table
  BY <1>1, <1>2 DEF Sends, Handler
<1>4. /\ k \in Handler /\ k.op = h.op /\ k.req = h.req /\ k.at = c /\ k.rows = t
      /\ k.todo = h.todo \ {r}
  BY <1>2 DEF Handler
<1>5. /\ t.rows # {} => t.case # NoCase /\ (stale \/ t.case = c)
      /\ h.todo \subseteq ToSave(t)
      /\ \A q \in ToSave(t) \ h.todo : decided[c][q] # NoCase <=> q \in t.changed
  BY <1>3 DEF SlotInv, GenerateInv
<1> HIDE DEF k
<1>6. /\ slot' \in [Slots -> Handler] /\ failures' \in 0..MaxFailures
      /\ slot'[s].op = k.op /\ slot'[s].req = k.req /\ slot'[s].at = k.at
      /\ slot'[s].rows = k.rows /\ slot'[s].todo = k.todo
  BY <1>1, <1>4, AnswerFacts
<1>7. /\ decided' \in [Cases -> [Rules -> Known]]
      /\ decided'[c][r] = IF r \in t.changed THEN t.case ELSE NoCase
      /\ \A q \in Rules : q # r => decided'[c][q] = decided[c][q]
  BY <1>1, <1>2, <1>3, SavedFacts
<1>8. ScreenTypeOK'
  BY <1>1, <1>6, <1>7 DEF ScreenTypeOK, screen
<1>9. AtInv(s)' /\ ShowsInv(s)'
  BY <1>1, <1>4, <1>6, ScreenStays DEF SlotInv
<1>10. GenerateInv(s)'
  <2> HIDE DEF h, t, c
  <2>1. ToSave(t) \subseteq Rules /\ ToSave(t) \subseteq t.rows
    BY <1>3 DEF ToSave, Table
  <2>2. ASSUME NEW q \in ToSave(t) \ k.todo
        PROVE  decided'[c][q] # NoCase <=> q \in t.changed
    <3>1. CASE q = r
      <4>1. t.case # NoCase
        BY <1>1, <1>5, <2>1
      <4> QED
        BY <3>1, <4>1, <1>7
    <3>2. CASE q # r
      <4>1. q \in ToSave(t) \ h.todo /\ q \in Rules
        BY <3>2, <2>1, <1>4
      <4> QED
        BY <3>2, <4>1, <1>5, <1>7
    <3> QED
      BY <3>1, <3>2
  <2>3. k.todo \subseteq ToSave(t)
    BY <1>4, <1>5
  <2>4. stale' = stale /\ k.req = "save"
    BY <1>1, <1>4 DEF screen
  <2> QED
    BY <1>4, <1>5, <1>6, <2>2, <2>3, <2>4 DEF GenerateInv
<1> QED
  BY <1>8, <1>9, <1>10 DEF SlotInv

LEMMA GenerateKeeps ==
  ASSUME NEW s, Slots = {s}, ScreenTypeOK, SlotInv(s), ServeGenerate(s)
  PROVE  ScreenTypeOK' /\ SlotInv(s)'
<1> DEFINE h == slot[s]
           c == h.at
           v == [case |-> c, human |-> Human(c)]
           k == [h EXCEPT !.human = Human(c)]
<1>1. /\ h.op # "none" /\ h.req = "generate" /\ c \in validated
      /\ reported' = [reported EXCEPT ![c] = v] /\ Answer(s, k)
      /\ UNCHANGED <<validated, decided, saved, screen>>
  BY DEF ServeGenerate, Asks, MayReport
<1>2. h \in Handler /\ Sends(h) /\ c \in Cases
  BY <1>1, Waits DEF SlotInv
<1>3. h.op = "generate"
  BY <1>1, <1>2 DEF Sends
<1>4. Human(c) \in SUBSET Rules
  BY DEF Human
<1>5. /\ k \in Handler /\ k.op = h.op /\ k.req = h.req /\ k.at = c
      /\ k.rows = h.rows /\ k.todo = h.todo /\ k.human = Human(c)
  BY <1>2, <1>4 DEF Handler
<1>6. v \in [case : Known, human : SUBSET Rules]
  BY <1>2, <1>4 DEF Known
<1>7. GenerateInv(s)
  BY DEF SlotInv
<1> HIDE DEF k, v
<1>8. /\ slot' \in [Slots -> Handler] /\ failures' \in 0..MaxFailures
      /\ slot'[s].op = k.op /\ slot'[s].req = k.req /\ slot'[s].at = k.at
      /\ slot'[s].rows = k.rows /\ slot'[s].todo = k.todo
      /\ slot'[s].human = k.human
  BY <1>1, <1>5, AnswerFacts
<1>9. ScreenTypeOK'
  BY <1>1, <1>6, <1>8 DEF ScreenTypeOK, screen
<1>10. AtInv(s)' /\ ShowsInv(s)'
  BY <1>1, <1>5, <1>8, ScreenStays DEF SlotInv
<1>11. GenerateInv(s)'
  BY <1>1, <1>5, <1>7, <1>8 DEF GenerateInv, Human, screen
<1> QED
  BY <1>9, <1>10, <1>11 DEF SlotInv

\* A request that fails.
LEMMA FailureKeeps ==
  ASSUME NEW s, Slots = {s}, ScreenTypeOK, SlotInv(s),
         slot[s].op # "none", slot' = [slot EXCEPT ![s].ans = "failed"],
         failures' \in 0..MaxFailures, UNCHANGED <<server, screen>>
  PROVE  ScreenTypeOK' /\ SlotInv(s)'
<1> DEFINE k == [slot[s] EXCEPT !.ans = "failed"]
<1>1. slot[s] \in Handler
  BY Waits DEF SlotInv
<1>2. /\ k \in Handler /\ k.op = slot[s].op /\ k.req = slot[s].req
      /\ k.at = slot[s].at /\ k.rows = slot[s].rows /\ k.todo = slot[s].todo
      /\ k.ans = "failed"
  BY <1>1 DEF Handler
<1>3. slot' = [slot EXCEPT ![s] = k]
  OBVIOUS
<1> HIDE DEF k
<1>4. slot' \in [Slots -> Handler] /\ slot'[s] = k
  BY <1>2, <1>3, SlotFacts DEF ScreenTypeOK
<1>5. UNCHANGED <<validated, decided, reported, saved>> /\ UNCHANGED screen
  BY DEF server
<1>6. ScreenTypeOK'
  BY <1>4, <1>5 DEF ScreenTypeOK, screen
<1>7. AtInv(s)' /\ ShowsInv(s)'
  BY <1>2, <1>4, <1>5, ScreenStays DEF SlotInv
<1>8. GenerateInv(s)'
  BY <1>2, <1>4, <1>5 DEF SlotInv, GenerateInv, screen
<1> QED
  BY <1>6, <1>7, <1>8 DEF SlotInv

LEMMA ServerKeeps ==
  ASSUME NEW s, Slots = {s}, ScreenTypeOK, SlotInv(s), Server(s)
  PROVE  ScreenTypeOK' /\ SlotInv(s)'
<1>1. CASE ServeValidate(s)
  BY <1>1, ValidateKeeps
<1>2. CASE \E r \in Rules : ServeSave(s, r)
  BY <1>2, SaveKeeps
<1>3. CASE ServeGenerate(s)
  BY <1>3, GenerateKeeps
<1>4. CASE ServeWrite(s)
  BY <1>4, WriteKeeps
<1>5. CASE ServeRead(s)
  BY <1>5, ReadKeeps
<1>6. CASE NotFound(s)
  <2>1. failures' \in 0..MaxFailures
    BY <1>6 DEF NotFound, ScreenTypeOK
  <2>2. slot[s].op # "none"
    BY <1>6 DEF NotFound, Asks
  <2>3. slot' = [slot EXCEPT ![s].ans = "failed"] /\ UNCHANGED <<server, screen>>
    BY <1>6 DEF NotFound
  <2> QED
    BY <2>1, <2>2, <2>3, FailureKeeps
<1>7. CASE RequestFails(s)
  <2>1. failures' \in 0..MaxFailures
    BY <1>7, FailuresAssumption DEF RequestFails, ScreenTypeOK
  <2>2. /\ slot[s].op # "none" /\ slot' = [slot EXCEPT ![s].ans = "failed"]
        /\ UNCHANGED <<server, screen>>
    BY <1>7 DEF RequestFails
  <2> QED
    BY <2>1, <2>2, FailureKeeps
<1> QED
  BY <1>1, <1>2, <1>3, <1>4, <1>5, <1>6, <1>7 DEF Server

\* The next request of a handler, and its end.
LEMMA AskFacts ==
  ASSUME NEW s, Slots = {s}, ScreenTypeOK, slot[s].op # "none",
         NEW req \in Requests, NEW c \in Cases, Ask(s, req, c)
  PROVE  LET h == slot'[s]
         IN  /\ slot' \in [Slots -> Handler] /\ h.op = slot[s].op
             /\ h.req = req /\ h.at = c /\ h.ans = "sent"
<1>1. slot[s].op \in Ops
  BY DEF ScreenTypeOK, Handler
<1> DEFINE h == Request(slot[s].op, req, c)
<1>2. /\ h \in Handler /\ h.op = slot[s].op /\ h.req = req /\ h.at = c
      /\ h.ans = "sent"
  BY <1>1, RequestFacts DEF Known
<1>3. slot' = [slot EXCEPT ![s] = h]
  BY DEF Ask
<1> HIDE DEF h
<1>4. slot' \in [Slots -> Handler] /\ slot'[s] = h
  BY <1>2, <1>3, SlotFacts DEF ScreenTypeOK
<1> QED
  BY <1>2, <1>4

LEMMA DoneFacts ==
  ASSUME NEW s, Slots = {s}, ScreenTypeOK, Done(s)
  PROVE  slot' \in [Slots -> Handler] /\ slot'[s].op = "none"
<1>1. slot' = [slot EXCEPT ![s] = Free] /\ Free \in Handler /\ Free.op = "none"
  BY FreeFacts DEF Done
<1>2. slot' \in [Slots -> Handler] /\ slot'[s] = Free
  BY <1>1, SlotFacts DEF ScreenTypeOK
<1> QED
  BY <1>1, <1>2

\* A handler that is not generateReport is resumed.
LEMMA ResumeKeeps ==
  ASSUME NEW s, SlotInv(s), UNCHANGED <<validated, decided, reported, failures>>,
         saved' \in SUBSET Rules, ScreenTypeOK,
         slot' \in [Slots -> Handler], slot'[s].op # "generate",
         open' \in Known, header' \in Known, matrix' \in Known,
         table' \in Table, payload' \in Table,
         report' \in [case : Known, human : SUBSET Rules], stale' \in BOOLEAN,
         AtInv(s)', ShowsInv(s)'
  PROVE  ScreenTypeOK' /\ SlotInv(s)'
<1>1. ScreenTypeOK'
  BY DEF ScreenTypeOK
<1>2. GenerateInv(s)'
  BY DEF GenerateInv
<1> QED
  BY <1>1, <1>2 DEF SlotInv

LEMMA SubmissionKeeps ==
  ASSUME NEW s, Slots = {s}, ScreenTypeOK, SlotInv(s), ReceiveSubmission(s)
  PROVE  ScreenTypeOK' /\ SlotInv(s)'
<1>1. /\ slot[s].op # "none" /\ slot[s].req = "submission" /\ header' = slot[s].at
      /\ UNCHANGED <<server, failures>>
      /\ UNCHANGED <<matrix, table, payload, report, stale>>
  BY DEF ReceiveSubmission, Answered
<1>2. Sends(slot[s]) /\ slot[s].at \in Cases
  BY <1>1, Waits DEF SlotInv
<1>3. CASE slot[s].op = "open"
  <2>1. open' = slot[s].at /\ Ask(s, "matrix", slot[s].at)
    BY <1>3 DEF ReceiveSubmission
  <2>2. /\ slot' \in [Slots -> Handler] /\ slot'[s].op = "open"
        /\ slot'[s].req = "matrix" /\ slot'[s].at = slot[s].at
    BY <1>1, <1>2, <1>3, <2>1, AskFacts DEF Requests
  <2>3. AtInv(s)' /\ ShowsInv(s)'
    BY <1>1, <1>2, <2>1, <2>2 DEF SlotInv, AtInv, ShowsInv, Sends, Opening
  <2> QED
    BY <1>1, <1>2, <2>1, <2>2, <2>3, ResumeKeeps DEF ScreenTypeOK, server, Known
<1>4. CASE slot[s].op # "open"
  <2>1. open' = open /\ Done(s)
    BY <1>4 DEF ReceiveSubmission
  <2>2. slot' \in [Slots -> Handler] /\ slot'[s].op = "none"
    BY <2>1, DoneFacts
  <2>3. slot[s].at = open
    BY <1>1, <1>4 DEF SlotInv, AtInv, Opening
  <2>4. AtInv(s)' /\ ShowsInv(s)'
    BY <1>1, <1>4, <2>1, <2>2, <2>3 DEF SlotInv, AtInv, ShowsInv, Opening
  <2> QED
    BY <1>1, <1>2, <2>1, <2>2, <2>4, ResumeKeeps DEF ScreenTypeOK, server, Known
<1> QED
  BY <1>3, <1>4

LEMMA MatrixKeeps ==
  ASSUME NEW s, Slots = {s}, ScreenTypeOK, SlotInv(s), ReceiveMatrix(s)
  PROVE  ScreenTypeOK' /\ SlotInv(s)'
<1>1. /\ slot[s].op # "none" /\ slot[s].req = "matrix"
      /\ UNCHANGED <<server, failures>>
      /\ UNCHANGED <<open, header, table, payload, report, stale>>
      /\ matrix' = IF slot[s].ans = "ok" THEN slot[s].at ELSE NoCase
  BY DEF ReceiveMatrix
<1>2. Sends(slot[s]) /\ slot[s].at \in Cases /\ slot[s].at = open
  BY <1>1, Waits DEF SlotInv, AtInv, Opening
<1>3. matrix' \in {open, NoCase}
  BY <1>1, <1>2
<1>4. AtInv(s)' /\ ShowsInv(s)' /\ slot' \in [Slots -> Handler] /\ slot'[s].op # "generate"
  <2>1. CASE slot[s].op = "open"
    <3>1. Ask(s, "review", open)
      BY <2>1 DEF ReceiveMatrix
    <3>2. /\ slot' \in [Slots -> Handler] /\ slot'[s].op = "open"
          /\ slot'[s].req = "review" /\ slot'[s].at = open
      BY <1>1, <1>2, <2>1, <3>1, AskFacts DEF Requests
    <3> QED
      BY <1>1, <1>2, <1>3, <3>2 DEF SlotInv, AtInv, ShowsInv, Sends, Opening
  <2>2. CASE slot[s].op = "upload"
    <3>1. Ask(s, "submission", open)
      BY <2>2 DEF ReceiveMatrix
    <3>2. /\ slot' \in [Slots -> Handler] /\ slot'[s].op = "upload"
          /\ slot'[s].req = "submission" /\ slot'[s].at = open
      BY <1>1, <1>2, <2>2, <3>1, AskFacts DEF Requests
    <3> QED
      BY <1>1, <1>2, <1>3, <2>2, <3>2 DEF SlotInv, AtInv, ShowsInv, Sends, Opening
  <2>3. CASE slot[s].op = "refresh"
    <3>1. Done(s)
      BY <2>3 DEF ReceiveMatrix
    <3>2. slot' \in [Slots -> Handler] /\ slot'[s].op = "none"
      BY <3>1, DoneFacts
    <3> QED
      BY <1>1, <1>2, <1>3, <2>3, <3>2 DEF SlotInv, AtInv, ShowsInv, Opening
  <2> QED
    BY <1>1, <1>2, <2>1, <2>2, <2>3 DEF Sends
<1>5. matrix' \in Known
  BY <1>3 DEF ScreenTypeOK, Known
<1> QED
  BY <1>1, <1>4, <1>5, ResumeKeeps DEF ScreenTypeOK, server

LEMMA AfterReviewFacts ==
  ASSUME NEW s, Slots = {s}, ScreenTypeOK, slot[s].op \in {"open", "validate"},
         open \in Cases, AfterReview(s)
  PROVE  /\ slot' \in [Slots -> Handler] /\ slot'[s].at = open
         /\ \/ slot[s].op = "open" /\ slot'[s].op = "open"
               /\ slot'[s].req = "getReport"
            \/ slot[s].op = "validate" /\ slot'[s].op = "validate"
               /\ slot'[s].req = "submission"
<1>1. CASE slot[s].op = "open"
  <2>1. Ask(s, "getReport", open)
    BY <1>1 DEF AfterReview
  <2> QED
    BY <1>1, <2>1, AskFacts DEF Requests
<1>2. CASE slot[s].op = "validate"
  <2>1. Ask(s, "submission", open)
    BY <1>2 DEF AfterReview
  <2> QED
    BY <1>2, <2>1, AskFacts DEF Requests
<1> QED
  BY <1>1, <1>2

LEMMA ReviewKeeps ==
  ASSUME NEW s, Slots = {s}, ScreenTypeOK, SlotInv(s), ReceiveReview(s)
  PROVE  ScreenTypeOK' /\ SlotInv(s)'
<1>1. /\ slot[s].op # "none" /\ slot[s].req = "review" /\ AfterReview(s)
      /\ stale' = FALSE /\ saved' = {}
      /\ UNCHANGED <<validated, decided, reported, failures>>
      /\ UNCHANGED <<open, header, matrix, report>>
  BY DEF ReceiveReview, Answered
<1>2. /\ slot[s] \in Handler /\ Sends(slot[s]) /\ slot[s].at \in Cases
      /\ slot[s].at = open
  BY <1>1, Waits DEF SlotInv, AtInv, Opening
<1>3. slot[s].op \in {"open", "validate"}
  BY <1>1, <1>2 DEF Sends
<1>4. /\ slot' \in [Slots -> Handler] /\ slot'[s].at = open
      /\ \/ slot[s].op = "open" /\ slot'[s].op = "open"
            /\ slot'[s].req = "getReport"
         \/ slot[s].op = "validate" /\ slot'[s].op = "validate"
            /\ slot'[s].req = "submission"
  BY <1>1, <1>2, <1>3, AfterReviewFacts
<1>5. /\ payload' \in Table /\ payload'.case = open
      /\ table' \in Table /\ table'.case = open
  <2>1. PICK same \in SUBSET slot[s].human, some \in SUBSET Rules :
          LET p == [case |-> slot[s].at, rows |-> Rules, human |-> slot[s].human,
                    changed |-> slot[s].human \ same]
          IN  payload' = p /\ table' = [p EXCEPT !.rows = some]
    BY DEF ReceiveReview, Rendered
  <2> DEFINE p == [case |-> slot[s].at, rows |-> Rules, human |-> slot[s].human,
                   changed |-> slot[s].human \ same]
  <2>2. slot[s].human \subseteq Rules
    BY <1>2 DEF Handler
  <2>3. p \in Table /\ p.case = open
    BY <1>2, <2>2 DEF Table, Known
  <2>4. payload' = p /\ table' = [p EXCEPT !.rows = some]
    BY <2>1
  <2> HIDE DEF p
  <2>5. [p EXCEPT !.rows = some] \in Table /\ [p EXCEPT !.rows = some].case = open
    BY <2>3 DEF Table
  <2> QED
    BY <2>3, <2>4, <2>5
<1>6. open # NoCase
  BY <1>2, NoCaseAssumption
<1>7. AtInv(s)' /\ ShowsInv(s)'
  BY <1>1, <1>2, <1>4, <1>5, <1>6 DEF SlotInv, AtInv, ShowsInv, Sends, Opening
<1>8. slot'[s].op # "generate"
  BY <1>4
<1> QED
  BY <1>1, <1>4, <1>5, <1>7, <1>8, ResumeKeeps DEF ScreenTypeOK, server

LEMMA MissReviewKeeps ==
  ASSUME NEW s, Slots = {s}, ScreenTypeOK, SlotInv(s), MissReview(s)
  PROVE  ScreenTypeOK' /\ SlotInv(s)'
<1>1. /\ slot[s].op # "none" /\ slot[s].req = "review"
      /\ UNCHANGED <<server, failures>>
      /\ UNCHANGED <<open, header, matrix, table, payload, report>>
  BY DEF MissReview, Answered
<1>2. Sends(slot[s]) /\ slot[s].at \in Cases /\ slot[s].at = open
  BY <1>1, Waits DEF SlotInv, AtInv, Opening
<1>3. CASE slot[s].op = "open"
  <2>1. stale' = TRUE /\ AfterReview(s)
    BY <1>3 DEF MissReview
  <2>2. /\ slot' \in [Slots -> Handler] /\ slot'[s].at = open
        /\ slot'[s].op = "open" /\ slot'[s].req = "getReport"
    BY <1>2, <1>3, <2>1, AfterReviewFacts
  <2>3. AtInv(s)' /\ ShowsInv(s)'
    BY <1>1, <1>2, <1>3, <2>1, <2>2 DEF SlotInv, AtInv, ShowsInv, Sends, Opening
  <2> QED
    BY <1>1, <2>1, <2>2, <2>3, ResumeKeeps DEF ScreenTypeOK, server
<1>4. CASE slot[s].op # "open"
  <2>1. stale' = stale /\ Done(s)
    BY <1>4 DEF MissReview
  <2>2. slot' \in [Slots -> Handler] /\ slot'[s].op = "none"
    BY <2>1, DoneFacts
  <2>3. AtInv(s)' /\ ShowsInv(s)'
    BY <1>1, <1>4, <2>1, <2>2 DEF SlotInv, AtInv, ShowsInv, Opening
  <2> QED
    BY <1>1, <2>1, <2>2, <2>3, ResumeKeeps DEF ScreenTypeOK, server
<1> QED
  BY <1>3, <1>4

LEMMA ReportKeeps ==
  ASSUME NEW s, Slots = {s}, ScreenTypeOK, SlotInv(s), ReceiveReport(s)
  PROVE  ScreenTypeOK' /\ SlotInv(s)'
<1>1. /\ slot[s].op # "none" /\ slot[s].req \in {"getReport", "generate"} /\ Done(s)
      /\ report' = [case |-> slot[s].at, human |-> slot[s].human]
      /\ UNCHANGED <<server, failures>>
      /\ UNCHANGED <<open, header, matrix, table, payload, stale>>
  BY DEF ReceiveReport, Answered
<1>2. /\ slot[s] \in Handler /\ Sends(slot[s]) /\ slot[s].at \in Cases
      /\ slot[s].at = open
  BY <1>1, Waits DEF SlotInv, AtInv, Opening
<1>3. slot' \in [Slots -> Handler] /\ slot'[s].op = "none"
  BY <1>1, DoneFacts
<1>4. report' \in [case : Known, human : SUBSET Rules] /\ report'.case = open
  BY <1>1, <1>2 DEF Handler, Known
<1>5. AtInv(s)' /\ ShowsInv(s)'
  BY <1>1, <1>3, <1>4 DEF SlotInv, AtInv, ShowsInv, Opening
<1> QED
  BY <1>1, <1>3, <1>4, <1>5, ResumeKeeps DEF ScreenTypeOK, server

LEMMA MissReportKeeps ==
  ASSUME NEW s, Slots = {s}, ScreenTypeOK, SlotInv(s), MissReport(s)
  PROVE  ScreenTypeOK' /\ SlotInv(s)'
<1>1. /\ slot[s].req = "getReport" /\ Done(s)
      /\ report' = NoReport
      /\ UNCHANGED <<server, failures>>
      /\ UNCHANGED <<open, header, matrix, table, payload, stale>>
  BY DEF MissReport, Answered, HiddenReport
<1>2. slot' \in [Slots -> Handler] /\ slot'[s].op = "none"
  BY <1>1, DoneFacts
<1>3. report' \in [case : Known, human : SUBSET Rules] /\ report'.case = NoCase
  BY <1>1 DEF NoReport, Known
<1>4. AtInv(s)' /\ ShowsInv(s)'
  BY <1>1, <1>2, <1>3 DEF SlotInv, AtInv, ShowsInv, Opening
<1> QED
  BY <1>1, <1>2, <1>3, <1>4, ResumeKeeps DEF ScreenTypeOK, server

LEMMA ValidationKeeps ==
  ASSUME NEW s, Slots = {s}, ScreenTypeOK, SlotInv(s), ReceiveValidation(s)
  PROVE  ScreenTypeOK' /\ SlotInv(s)'
<1>1. /\ slot[s].op # "none" /\ slot[s].req = "validate" /\ Ask(s, "review", open)
      /\ UNCHANGED <<server, failures>> /\ UNCHANGED screen
  BY DEF ReceiveValidation, Answered
<1>2. Sends(slot[s]) /\ slot[s].at \in Cases /\ slot[s].at = open
  BY <1>1, Waits DEF SlotInv, AtInv, Opening
<1>3. /\ slot' \in [Slots -> Handler] /\ slot'[s].op = "validate"
      /\ slot'[s].req = "review" /\ slot'[s].at = open
  BY <1>1, <1>2, AskFacts DEF Requests, Sends
<1>4. UNCHANGED <<open, header, matrix, table, payload, report, stale>>
  BY <1>1 DEF screen
<1>5. AtInv(s)' /\ ShowsInv(s)'
  BY <1>1, <1>2, <1>3, <1>4 DEF SlotInv, AtInv, ShowsInv, Sends, Opening
<1> QED
  BY <1>1, <1>3, <1>4, <1>5, ResumeKeeps DEF ScreenTypeOK, server

LEMMA UploadKeeps ==
  ASSUME NEW s, Slots = {s}, ScreenTypeOK, SlotInv(s), ReceiveUpload(s)
  PROVE  ScreenTypeOK' /\ SlotInv(s)'
<1>1. /\ slot[s].op # "none" /\ slot[s].req = "upload" /\ open' = slot[s].at
      /\ Ask(s, "matrix", slot[s].at) /\ UNCHANGED <<server, failures>>
      /\ UNCHANGED <<header, matrix, table, payload, report, stale>>
  BY DEF ReceiveUpload, Answered
<1>2. Sends(slot[s]) /\ slot[s].at \in Cases /\ slot[s].at = open
  BY <1>1, Waits DEF SlotInv, AtInv, Opening
<1>3. /\ slot' \in [Slots -> Handler] /\ slot'[s].op = "upload"
      /\ slot'[s].req = "matrix" /\ slot'[s].at = open
  BY <1>1, <1>2, AskFacts DEF Requests, Sends
<1>4. AtInv(s)' /\ ShowsInv(s)'
  BY <1>1, <1>2, <1>3 DEF SlotInv, AtInv, ShowsInv, Sends, Opening
<1> QED
  BY <1>1, <1>2, <1>3, <1>4, ResumeKeeps DEF ScreenTypeOK, server

LEMMA PatchKeeps ==
  ASSUME NEW s, Slots = {s}, ScreenTypeOK, SlotInv(s), ReceivePatch(s)
  PROVE  ScreenTypeOK' /\ SlotInv(s)'
<1>1. /\ slot[s].op # "none" /\ slot[s].req = "patch" /\ Done(s)
      /\ header' = slot[s].at /\ UNCHANGED <<server, failures>>
      /\ UNCHANGED <<open, matrix, table, payload, report, stale>>
  BY DEF ReceivePatch, Answered
<1>2. slot[s].at = open
  BY <1>1 DEF SlotInv, AtInv, Opening
<1>3. slot' \in [Slots -> Handler] /\ slot'[s].op = "none"
  BY <1>1, DoneFacts
<1>4. AtInv(s)' /\ ShowsInv(s)'
  BY <1>1, <1>2, <1>3 DEF SlotInv, AtInv, ShowsInv, Opening
<1> QED
  BY <1>1, <1>2, <1>3, <1>4, ResumeKeeps DEF ScreenTypeOK, server

LEMMA GiveUpKeeps ==
  ASSUME NEW s, Slots = {s}, ScreenTypeOK, SlotInv(s), GiveUp(s)
  PROVE  ScreenTypeOK' /\ SlotInv(s)'
<1>1. /\ slot[s].req \notin {"matrix", "review", "getReport"} /\ Done(s)
      /\ UNCHANGED <<server, failures>> /\ UNCHANGED screen
  BY DEF GiveUp, Answered
<1>2. slot' \in [Slots -> Handler] /\ slot'[s].op = "none"
  BY <1>1, DoneFacts
<1>3. UNCHANGED <<open, header, matrix, table, payload, report, stale>>
  BY <1>1 DEF screen
<1>4. AtInv(s)' /\ ShowsInv(s)'
  BY <1>1, <1>2, <1>3 DEF SlotInv, AtInv, ShowsInv, Opening
<1> QED
  BY <1>1, <1>2, <1>3, <1>4, ResumeKeeps DEF ScreenTypeOK, server

\* generateReport: the next decision, or the report once all are saved.
LEMMA NextSaveFacts ==
  ASSUME NEW h \in Handler, h.op = "generate", open \in Cases
  PROVE  LET k == NextSave(h)
         IN  /\ k \in Handler /\ k.op = "generate" /\ k.at = open
             /\ k.rows = h.rows /\ k.todo = h.todo /\ k.ans = h.ans
             /\ k.req \in {"save", "generate"}
             /\ k.req = "generate" => k.todo = {}
<1>1. ASSUME NEW q \in {"save", "generate"}
      PROVE  LET k == [h EXCEPT !.req = q, !.at = open]
             IN  /\ k \in Handler /\ k.op = "generate" /\ k.at = open
                 /\ k.rows = h.rows /\ k.todo = h.todo /\ k.ans = h.ans
                 /\ k.req = q
  <2> DEFINE j == [h EXCEPT !.req = q]
             k == [j EXCEPT !.at = open]
  <2>1. /\ j \in Handler /\ j.op = "generate" /\ j.rows = h.rows
        /\ j.todo = h.todo /\ j.ans = h.ans /\ j.req = q
    BY DEF Handler, Requests
  <2>2. k = [h EXCEPT !.req = q, !.at = open]
    OBVIOUS
  <2> HIDE DEF j
  <2>3. /\ k \in Handler /\ k.op = "generate" /\ k.at = open
        /\ k.rows = h.rows /\ k.todo = h.todo /\ k.ans = h.ans /\ k.req = q
    BY <2>1 DEF Handler, Known
  <2> HIDE DEF k
  <2> QED
    BY <2>2, <2>3
<1>2. CASE h.todo = {}
  BY <1>1, <1>2 DEF NextSave
<1>3. CASE h.todo # {}
  BY <1>1, <1>3 DEF NextSave
<1> QED
  BY <1>2, <1>3

LEMMA ReceiveSaveFacts ==
  ASSUME NEW s, Slots = {s}, ScreenTypeOK, SlotInv(s), ReceiveSave(s)
  PROVE  LET h == slot[s]
             k == slot'[s]
         IN  /\ slot' \in [Slots -> Handler] /\ open \in Cases /\ h.at = open
             /\ h.op = "generate" /\ h.rows \in Table
             /\ k.op = "generate" /\ k.at = open /\ k.rows = h.rows
             /\ k.todo = h.todo /\ k.ans = "sent"
             /\ k.req \in {"save", "generate"} /\ (k.req = "generate" => k.todo = {})
             /\ UNCHANGED <<server, screen, failures>>
<1> DEFINE h == slot[s]
           g == [h EXCEPT !.ans = "sent"]
           k == NextSave(g)
<1>1. /\ h.op # "none" /\ h.req = "save" /\ slot' = [slot EXCEPT ![s] = k]
      /\ UNCHANGED <<server, failures>> /\ UNCHANGED screen
  BY DEF ReceiveSave, Answered
<1>2. /\ h \in Handler /\ Sends(h) /\ h.at \in Cases /\ h.at = open
  BY <1>1, Waits DEF SlotInv, AtInv, Opening
<1>3. h.op = "generate"
  BY <1>1, <1>2 DEF Sends
<1>4. /\ g \in Handler /\ g.op = "generate" /\ g.rows = h.rows
      /\ g.todo = h.todo /\ g.ans = "sent"
  BY <1>2, <1>3 DEF Handler
<1> HIDE DEF g
<1>5. /\ k \in Handler /\ k.op = "generate" /\ k.at = open
      /\ k.rows = h.rows /\ k.todo = h.todo /\ k.ans = "sent"
      /\ k.req \in {"save", "generate"} /\ (k.req = "generate" => k.todo = {})
  BY <1>2, <1>4, NextSaveFacts
<1> HIDE DEF k
<1>6. slot' \in [Slots -> Handler] /\ slot'[s] = k
  BY <1>1, <1>5, SlotFacts DEF ScreenTypeOK
<1>7. h.rows \in Table
  BY <1>2 DEF Handler
<1> QED
  BY <1>1, <1>2, <1>3, <1>5, <1>6, <1>7

LEMMA ReceiveSaveKeeps ==
  ASSUME NEW s, Slots = {s}, ScreenTypeOK, SlotInv(s), ReceiveSave(s)
  PROVE  ScreenTypeOK' /\ SlotInv(s)'
<1> DEFINE h == slot[s]
           k == slot'[s]
<1>1. /\ slot' \in [Slots -> Handler] /\ open \in Cases /\ h.at = open
      /\ h.op = "generate" /\ h.rows \in Table
      /\ k.op = "generate" /\ k.at = open /\ k.rows = h.rows
      /\ k.todo = h.todo /\ k.ans = "sent"
      /\ k.req \in {"save", "generate"} /\ (k.req = "generate" => k.todo = {})
      /\ UNCHANGED <<server, screen, failures>>
  BY ReceiveSaveFacts
<1>2. UNCHANGED <<open, header, matrix, table, payload, report, stale>>
  BY <1>1 DEF screen
<1>3. UNCHANGED <<validated, decided, reported, saved, failures>>
  BY <1>1 DEF server
<1>4. ScreenTypeOK'
  BY <1>1, <1>2, <1>3 DEF ScreenTypeOK
<1>5. AtInv(s)' /\ ShowsInv(s)'
  BY <1>1, <1>2 DEF SlotInv, AtInv, ShowsInv, Sends, Opening
<1>6. GenerateInv(s)'
  BY <1>1, <1>2, <1>3 DEF SlotInv, GenerateInv
<1> QED
  BY <1>4, <1>5, <1>6 DEF SlotInv

LEMMA GenerateReportFacts ==
  ASSUME NEW s, Slots = {s}, ScreenTypeOK, GenerateReport(s)
  PROVE  LET k == slot'[s]
         IN  /\ slot' \in [Slots -> Handler] /\ slot[s] = Free /\ open \in Cases
             /\ k.op = "generate" /\ k.at = open /\ k.rows = table
             /\ k.todo = ToSave(table) /\ k.ans = "sent"
             /\ k.req \in {"save", "generate"} /\ (k.req = "generate" => k.todo = {})
             /\ UNCHANGED <<server, screen, failures>>
<1> DEFINE f == Request("generate", "save", open)
           g == [f EXCEPT !.rows = table, !.todo = ToSave(table)]
           k == NextSave(g)
<1>1. /\ open # NoCase /\ slot[s] = Free /\ slot' = [slot EXCEPT ![s] = k]
      /\ UNCHANGED <<server, screen, failures>>
  BY DEF GenerateReport, Begin, Enabled
<1>2. open \in Cases /\ table \in Table
  BY <1>1 DEF ScreenTypeOK, Known
<1>3. ToSave(table) \in SUBSET Rules
  BY <1>2 DEF ToSave, Table
<1>4. f \in Handler /\ f.op = "generate" /\ f.ans = "sent"
  BY <1>2, RequestFacts DEF Ops, Requests, Known
<1> HIDE DEF f
<1>5. /\ g \in Handler /\ g.op = "generate" /\ g.ans = "sent"
      /\ g.rows = table /\ g.todo = ToSave(table)
  <2> DEFINE j == [f EXCEPT !.rows = table]
             i == [j EXCEPT !.todo = ToSave(table)]
  <2>1. j \in Handler /\ j.op = "generate" /\ j.ans = "sent" /\ j.rows = table
    BY <1>2, <1>4 DEF Handler
  <2>2. i = g
    OBVIOUS
  <2> HIDE DEF j
  <2>3. /\ i \in Handler /\ i.op = "generate" /\ i.ans = "sent"
        /\ i.rows = table /\ i.todo = ToSave(table)
    BY <1>3, <2>1 DEF Handler
  <2> HIDE DEF i, g
  <2> QED
    BY <2>2, <2>3
<1> HIDE DEF g
<1>6. /\ k \in Handler /\ k.op = "generate" /\ k.at = open
      /\ k.rows = table /\ k.todo = ToSave(table) /\ k.ans = "sent"
      /\ k.req \in {"save", "generate"} /\ (k.req = "generate" => k.todo = {})
  BY <1>2, <1>5, NextSaveFacts
<1> HIDE DEF k
<1>7. slot' \in [Slots -> Handler] /\ slot'[s] = k
  BY <1>1, <1>6, SlotFacts DEF ScreenTypeOK
<1> QED
  BY <1>1, <1>2, <1>6, <1>7

LEMMA GenerateReportKeeps ==
  ASSUME NEW s, Slots = {s}, ScreenTypeOK, SlotInv(s), GenerateReport(s)
  PROVE  ScreenTypeOK' /\ SlotInv(s)'
<1> DEFINE k == slot'[s]
<1>1. /\ slot' \in [Slots -> Handler] /\ slot[s] = Free /\ open \in Cases
      /\ k.op = "generate" /\ k.at = open /\ k.rows = table
      /\ k.todo = ToSave(table) /\ k.ans = "sent"
      /\ k.req \in {"save", "generate"} /\ (k.req = "generate" => k.todo = {})
      /\ UNCHANGED <<server, screen, failures>>
  BY GenerateReportFacts
<1>2. UNCHANGED <<open, header, matrix, table, payload, report, stale>>
  BY <1>1 DEF screen
<1>3. UNCHANGED <<validated, decided, reported, saved>> /\ UNCHANGED failures
  BY <1>1 DEF server
<1>4. ScreenTypeOK'
  BY <1>1, <1>2, <1>3 DEF ScreenTypeOK
<1>5. slot[s].op = "none"
  BY <1>1, FreeFacts
<1>6. AtInv(s)' /\ ShowsInv(s)'
  BY <1>1, <1>2, <1>5 DEF SlotInv, AtInv, ShowsInv, Sends, Opening
<1>7. GenerateInv(s)'
  BY <1>1, <1>2, <1>3, <1>5 DEF SlotInv, ShowsInv, GenerateInv, Opening
<1> QED
  BY <1>4, <1>6, <1>7 DEF SlotInv

LEMMA UserKeeps ==
  ASSUME NEW s, Slots = {s}, ScreenTypeOK, SlotInv(s), User(s)
  PROVE  ScreenTypeOK' /\ SlotInv(s)'
<1>1. open # NoCase => open \in Cases
  BY DEF ScreenTypeOK, Known
<1>2. ASSUME NEW c \in Cases, OpenSubmission(s, c)
      PROVE  ScreenTypeOK' /\ SlotInv(s)'
  <2>1. Begin(s, Request("open", "submission", c)) /\ slot[s] = Free
    BY <1>2 DEF OpenSubmission, Begin
  <2>2. "open" \in Ops /\ "submission" \in Requests
    BY DEF Ops, Requests
  <2>3. Sends(Request("open", "submission", c))
    BY <2>2, RequestFacts DEF Sends, Known
  <2> QED
    BY <2>1, <2>2, <2>3, BeginKeeps
<1>3. ASSUME NEW op \in Ops, NEW req \in Requests, open # NoCase,
             Begin(s, Request(op, req, open)),
             <<op, req>> \in {<<"refresh", "matrix">>, <<"validate", "validate">>,
                              <<"upload", "upload">>, <<"patch", "patch">>}
      PROVE  ScreenTypeOK' /\ SlotInv(s)'
  <2>1. Sends(Request(op, req, open)) /\ op # "generate"
    BY <1>1, <1>3, RequestFacts DEF Sends, Known
  <2>2. slot[s] = Free
    BY <1>3 DEF Begin
  <2> QED
    BY <1>1, <1>3, <2>1, <2>2, BeginKeeps
<1>4. CASE RefreshMatrix(s)
  BY <1>3, <1>4 DEF RefreshMatrix, Ops, Requests
<1>5. CASE ValidateCase(s)
  BY <1>3, <1>5 DEF ValidateCase, Enabled, Ops, Requests
<1>6. CASE ProcessUpload(s)
  BY <1>3, <1>6 DEF ProcessUpload, Enabled, Ops, Requests
<1>7. CASE PatchStatus(s)
  BY <1>3, <1>7 DEF PatchStatus, Ops, Requests
<1>8. CASE GenerateReport(s)
  BY <1>8, GenerateReportKeeps
<1> QED
  BY <1>2, <1>4, <1>5, <1>6, <1>7, <1>8 DEF User

LEMMA ResumedKeeps ==
  ASSUME NEW s, Slots = {s}, ScreenTypeOK, SlotInv(s), Resume(s)
  PROVE  ScreenTypeOK' /\ SlotInv(s)'
  BY SubmissionKeeps, MatrixKeeps, ReviewKeeps, MissReviewKeeps, ReportKeeps,
     MissReportKeeps, ValidationKeeps, UploadKeeps, PatchKeeps,
     ReceiveSaveKeeps, GiveUpKeeps DEF Resume

\* What the user does to the table without a request.
LEMMA TableKeeps ==
  ASSUME NEW s, ScreenTypeOK, SlotInv(s), table' \in Table,
         \/ table'.case = table.case /\ table'.rows = table.rows
         \/ payload.case # NoCase /\ table'.case = payload.case,
         UNCHANGED <<server, open, header, matrix, payload, report, stale,
                     slot, failures>>
  PROVE  ScreenTypeOK' /\ SlotInv(s)'
<1>1. ScreenTypeOK'
  BY DEF ScreenTypeOK, server
<1>2. AtInv(s)' /\ ShowsInv(s)'
  BY DEF SlotInv, AtInv, ShowsInv, Opening
<1>3. GenerateInv(s)'
  BY DEF SlotInv, GenerateInv, Human, server
<1> QED
  BY <1>1, <1>2, <1>3 DEF SlotInv

LEMMA EditKeeps ==
  ASSUME NEW s, ScreenTypeOK, SlotInv(s), NEW r \in Rules, Edit(r)
  PROVE  ScreenTypeOK' /\ SlotInv(s)'
<1>1. table \in Table
  BY DEF ScreenTypeOK
<1> DEFINE u == IF r \in table.changed THEN table.changed \ {r}
                ELSE table.changed \cup {r}
<1>2. u \in SUBSET Rules
  BY <1>1 DEF Table
<1>3. /\ table' = [table EXCEPT !.changed = u]
      /\ UNCHANGED <<server, open, header, matrix, payload, report, stale,
                     slot, failures>>
  BY DEF Edit
<1> HIDE DEF u
<1>4. table' \in Table /\ table'.case = table.case /\ table'.rows = table.rows
  BY <1>1, <1>2, <1>3 DEF Table
<1> QED
  BY <1>3, <1>4, TableKeeps

LEMMA FilterKeeps ==
  ASSUME NEW s, ScreenTypeOK, SlotInv(s), NEW some \in SUBSET Rules,
         FilterSeverity(some)
  PROVE  ScreenTypeOK' /\ SlotInv(s)'
<1>1. /\ payload.case # NoCase /\ table' = [payload EXCEPT !.rows = some]
      /\ UNCHANGED <<server, open, header, matrix, payload, report, stale,
                     slot, failures>>
  BY DEF FilterSeverity
<1>2. payload \in Table
  BY DEF ScreenTypeOK
<1>3. table' \in Table /\ table'.case = payload.case
  BY <1>1, <1>2 DEF Table
<1> QED
  BY <1>1, <1>3, TableKeeps

\* The inductive invariant, for one handler.
THEOREM ScreenHolds == ASSUME OneHandler PROVE ScreenSpec => []ScreenInv
<1>1. PICK s : Slots = {s}
  BY DEF OneHandler
<1>2. ScreenInit => ScreenInv
  <2> SUFFICES ASSUME ScreenInit PROVE ScreenInv
    OBVIOUS
  <2>1. NoReport \in [case : Known, human : SUBSET Rules] /\ NoReport.case = NoCase
    BY DEF NoReport, Known
  <2>2. slot \in [Slots -> Handler] /\ slot[s] = Free
    BY <1>1, FreeFacts DEF ScreenInit
  <2>3. 0 \in 0..MaxFailures
    BY FailuresAssumption
  <2>4. decided \in [Cases -> [Rules -> Known]]
    BY DEF ScreenInit, Known
  <2>5. reported \in [Cases -> [case : Known, human : SUBSET Rules]]
    BY <2>1 DEF ScreenInit
  <2>6. ScreenTypeOK
    BY <2>1, <2>2, <2>3, <2>4, <2>5, FreeFacts, ValidatedAssumption
       DEF ScreenInit, ScreenTypeOK, Known
  <2>7. SlotInv(s)
    BY <2>1, <2>2, FreeFacts
       DEF ScreenInit, SlotInv, AtInv, ShowsInv, GenerateInv, Opening
  <2> QED
    BY <1>1, <2>6, <2>7 DEF ScreenInv
<1>3. ScreenInv /\ [ScreenNext]_screenVars => ScreenInv'
  <2> SUFFICES ASSUME ScreenInv, [ScreenNext]_screenVars PROVE ScreenInv'
    OBVIOUS
  <2>1. ScreenTypeOK /\ SlotInv(s)
    BY <1>1 DEF ScreenInv
  <2>2. ScreenTypeOK' /\ SlotInv(s)'
    <3>1. CASE User(s)
      BY <1>1, <2>1, <3>1, UserKeeps
    <3>2. CASE Server(s)
      BY <1>1, <2>1, <3>2, ServerKeeps
    <3>3. CASE Resume(s)
      BY <1>1, <2>1, <3>3, ResumedKeeps
    <3>4. CASE \E r \in Rules : Edit(r)
      BY <2>1, <3>4, EditKeeps
    <3>5. CASE \E some \in SUBSET Rules : FilterSeverity(some)
      BY <2>1, <3>5, FilterKeeps
    <3>6. CASE UNCHANGED screenVars
      <4>1. table' \in Table /\ table'.case = table.case /\ table'.rows = table.rows
        BY <2>1, <3>6 DEF ScreenTypeOK, screenVars, screen
      <4>2. UNCHANGED <<server, open, header, matrix, payload, report, stale,
                        slot, failures>>
        BY <3>6 DEF screenVars, screen
      <4> QED
        BY <2>1, <4>1, <4>2, TableKeeps
    <3> QED
      BY <1>1, <3>1, <3>2, <3>3, <3>4, <3>5, <3>6 DEF ScreenNext
  <2> QED
    BY <1>1, <2>2 DEF ScreenInv
<1> QED
  BY <1>2, <1>3, PTL DEF ScreenSpec

(***************************************************************************)
(* When all answers are in, header, matrix and report are of one case:     *)
(* until then only openSubmission has parts left to replace (ShowsInv).    *)
(***************************************************************************)
THEOREM ScreenShowsOneCase ==
  ASSUME OneHandler PROVE ScreenSpec => []OneCaseAtRest
<1>1. ScreenInv => OneCaseAtRest
  BY FreeFacts DEF OneHandler, ScreenInv, SlotInv, ShowsInv, Opening,
                   OneCaseAtRest, AtRest
<1> QED
  BY <1>1, ScreenHolds, PTL

(***************************************************************************)
(* Decisions are saved for the case on whose results they were taken, but  *)
(* for a submission that was opened while the table of another was left.   *)
(***************************************************************************)
THEOREM DecisionsSavedWhereTaken ==
  ASSUME OneHandler PROVE ScreenSpec => []SavesOwnResults
<1>1. ScreenInv => SavesOwnResults
  <2> SUFFICES ASSUME ScreenInv, NEW s \in Slots, slot[s].op = "generate",
                      slot[s].todo # {}, ~stale
               PROVE  slot[s].rows.case = slot[s].at
    BY DEF SavesOwnResults
  <2>1. GenerateInv(s)
    BY DEF ScreenInv, SlotInv
  <2>2. slot[s].rows.rows # {}
    BY <2>1 DEF GenerateInv, ToSave
  <2> QED
    BY <2>1, <2>2 DEF GenerateInv
<1> QED
  BY <1>1, ScreenHolds, PTL

(***************************************************************************)
(* What the history of saved decisions knows: the rows on the screen are   *)
(* those of the payload, and the decisions of the case of the payload that *)
(* were not there when it was loaded are the saved ones.                   *)
(***************************************************************************)
LoadedInv ==
  /\ table.case = payload.case /\ table.human = payload.human
  /\ saved \cap payload.human = {}
  /\ payload.case \in Cases =>
       \A r \in Rules \ payload.human :
         decided[payload.case][r] # NoCase <=> r \in saved

\* the answers and the rows a handler goes on with
AskedInv(s) ==
  LET h == slot[s]
  IN  /\ h.op # "none" /\ h.req = "review" /\ h.ans = "ok" => h.human = Human(h.at)
      /\ h.op = "generate" =>
           h.rows.case = payload.case /\ h.rows.human = payload.human

LEMMA LoadedStays ==
  ASSUME LoadedInv, UNCHANGED <<decided, saved, payload>>,
         table'.case = table.case, table'.human = table.human
  PROVE  LoadedInv'
  BY DEF LoadedInv

\* A step that loads no review.
LEMMA AskedStays ==
  ASSUME NEW s, LoadedInv, AskedInv(s), UNCHANGED payload,
         LET h == slot[s]
             k == slot'[s]
         IN  /\ k.op = "generate" =>
                  \/ h.op = "generate" /\ k.rows = h.rows
                  \/ k.rows = table
             /\ k.op # "none" /\ k.req = "review" => k.ans # "ok"
  PROVE  AskedInv(s)'
  BY DEF LoadedInv, AskedInv

LEMMA UserSaves ==
  ASSUME NEW s, Slots = {s}, ScreenTypeOK, LoadedInv, AskedInv(s), User(s)
  PROVE  LoadedInv' /\ AskedInv(s)'
<1>1. UNCHANGED <<decided, saved, payload, table>>
  BY DEF User, OpenSubmission, RefreshMatrix, ValidateCase, ProcessUpload,
         PatchStatus, GenerateReport, Begin, server, screen
<1>2. ASSUME NEW op \in Ops, NEW req \in Requests, NEW c \in Cases,
             Begin(s, Request(op, req, c)), op # "generate"
      PROVE  AskedInv(s)'
  <2> DEFINE h == Request(op, req, c)
  <2>1. h \in Handler /\ h.op = op /\ h.ans = "sent"
    BY RequestFacts DEF Known
  <2>2. slot' = [slot EXCEPT ![s] = h]
    BY <1>2 DEF Begin
  <2> HIDE DEF h
  <2>3. slot'[s] = h
    BY <2>1, <2>2, SlotFacts DEF ScreenTypeOK
  <2> QED
    BY <1>1, <1>2, <2>1, <2>3, AskedStays
<1>3. LoadedInv'
  BY <1>1, LoadedStays
<1>4. open # NoCase => open \in Cases
  BY DEF ScreenTypeOK, Known
<1>5. CASE \E c \in Cases : OpenSubmission(s, c)
  BY <1>2, <1>3, <1>5 DEF OpenSubmission, Ops, Requests
<1>6. CASE RefreshMatrix(s)
  BY <1>2, <1>3, <1>4, <1>6 DEF RefreshMatrix, Ops, Requests
<1>7. CASE ValidateCase(s)
  BY <1>2, <1>3, <1>4, <1>7 DEF ValidateCase, Enabled, Ops, Requests
<1>8. CASE ProcessUpload(s)
  BY <1>2, <1>3, <1>4, <1>8 DEF ProcessUpload, Enabled, Ops, Requests
<1>9. CASE PatchStatus(s)
  BY <1>2, <1>3, <1>4, <1>9 DEF PatchStatus, Ops, Requests
<1>10. CASE GenerateReport(s)
  <2>1. slot'[s].rows = table /\ slot'[s].ans = "sent"
    BY <1>10, GenerateReportFacts
  <2> QED
    BY <1>1, <1>3, <2>1, AskedStays
<1> QED
  BY <1>5, <1>6, <1>7, <1>8, <1>9, <1>10 DEF User

\* A decision of the case of the payload is saved, or of another case.
LEMMA SaveSaves ==
  ASSUME NEW s, Slots = {s}, ScreenTypeOK, SlotInv(s), LoadedInv, AskedInv(s),
         NEW r \in Rules, ServeSave(s, r)
  PROVE  LoadedInv' /\ AskedInv(s)'
<1> DEFINE h == slot[s]
           t == h.rows
           c == h.at
           k == [h EXCEPT !.todo = @ \ {r}]
<1>1. /\ h.op # "none" /\ h.req = "save" /\ r \in h.todo
      /\ decided' = Saved(c, t, r) /\ Answer(s, k)
      /\ saved' = IF c = payload.case /\ r \in t.changed \ t.human
                  THEN saved \cup {r} ELSE saved
      /\ UNCHANGED <<table, payload>>
  BY DEF ServeSave, Asks, screen
<1>2. h \in Handler /\ Sends(h) /\ c \in Cases
  BY <1>1, Waits DEF SlotInv
<1>3. h.op = "generate" /\ t \in Table
  BY <1>1, <1>2 DEF Sends, Handler
<1>4. k \in Handler /\ k.op = h.op /\ k.req = h.req /\ k.rows = t
  BY <1>2 DEF Handler
<1>5. t.case # NoCase /\ r \in t.rows /\ (r \in t.changed \/ r \in t.human)
  BY <1>1, <1>3 DEF SlotInv, GenerateInv, ToSave
<1> HIDE DEF k
<1>6. slot'[s].op = k.op /\ slot'[s].req = k.req /\ slot'[s].rows = k.rows
  BY <1>1, <1>4, AnswerFacts
<1>7. /\ decided'[c][r] = IF r \in t.changed THEN t.case ELSE NoCase
      /\ \A d \in Cases, q \in Rules :
           d # c \/ q # r => decided'[d][q] = decided[d][q]
  BY <1>1, <1>2, <1>3, SavedFacts
<1>8. t.human = payload.human
  BY <1>3 DEF AskedInv
<1>9. AskedInv(s)'
  BY <1>1, <1>4, <1>6, AskedStays
<1>10. LoadedInv'
  <2> HIDE DEF h, t, c
  <2>1. ASSUME payload.case \in Cases, NEW q \in Rules \ payload.human
        PROVE  decided'[payload.case][q] # NoCase <=> q \in saved'
    <3>1. decided[payload.case][q] # NoCase <=> q \in saved
      BY <2>1 DEF LoadedInv
    <3>2. CASE payload.case = c /\ q = r
      BY <1>1, <1>5, <1>7, <1>8, <3>2
    <3>3. CASE ~(payload.case = c /\ q = r)
      <4>1. decided'[payload.case][q] = decided[payload.case][q]
        BY <1>7, <2>1, <3>3
      <4>2. q \in saved' <=> q \in saved
        BY <1>1, <3>3
      <4> QED
        BY <3>1, <4>1, <4>2
    <3> QED
      BY <3>2, <3>3
  <2>2. saved' \cap payload.human = {}
    BY <1>1, <1>8 DEF LoadedInv
  <2> QED
    BY <1>1, <2>1, <2>2 DEF LoadedInv
<1> QED
  BY <1>9, <1>10

LEMMA ServerSaves ==
  ASSUME NEW s, Slots = {s}, ScreenTypeOK, SlotInv(s), LoadedInv, AskedInv(s),
         Server(s)
  PROVE  LoadedInv' /\ AskedInv(s)'
<1>1. CASE \E r \in Rules : ServeSave(s, r)
  BY <1>1, SaveSaves
<1>2. CASE ServeValidate(s) \/ ServeWrite(s) \/ ServeGenerate(s)
  <2>1. PICK k \in Handler :
          /\ Answer(s, k) /\ k.op = slot[s].op /\ k.req = slot[s].req
          /\ k.rows = slot[s].rows
    <3>1. Human(slot[s].at) \in SUBSET Rules
      BY DEF Human
    <3>2. slot[s] \in Handler
      BY DEF ScreenTypeOK
    <3>3. LET k == [slot[s] EXCEPT !.human = Human(slot[s].at)]
          IN  /\ k \in Handler /\ k.op = slot[s].op /\ k.req = slot[s].req
              /\ k.rows = slot[s].rows
      BY <3>1, <3>2 DEF Handler
    <3> QED
      BY <1>2, <3>2, <3>3 DEF ServeValidate, ServeWrite, ServeGenerate
  <2>2. /\ UNCHANGED <<decided, saved, payload, table>>
        /\ slot[s].req \in {"validate", "patch", "upload", "generate"}
    BY <1>2 DEF ServeValidate, ServeWrite, ServeGenerate, Asks, server, screen
  <2>3. /\ slot'[s].op = k.op /\ slot'[s].req = k.req /\ slot'[s].rows = k.rows
    BY <2>1, AnswerFacts
  <2>4. AskedInv(s)'
    BY <2>1, <2>2, <2>3, AskedStays
  <2> QED
    BY <2>2, <2>4, LoadedStays
<1>3. CASE ServeRead(s)
  <2>1. /\ slot[s].op # "none"
        /\ slot[s].req \in {"submission", "matrix", "review", "getReport"}
        /\ UNCHANGED <<decided, saved, payload, table>>
    BY <1>3 DEF ServeRead, Asks, server, screen
  <2>2. slot[s] \in Handler /\ Sends(slot[s]) /\ slot[s].at \in Cases
    BY <2>1, Waits DEF SlotInv
  <2>3. slot[s].op # "generate"
    BY <2>1, <2>2 DEF Sends
  <2>4. ASSUME NEW u \in SUBSET Rules
        PROVE  LET k == [slot[s] EXCEPT !.human = u]
               IN  /\ k \in Handler /\ k.op = slot[s].op /\ k.req = slot[s].req
                   /\ k.at = slot[s].at /\ k.human = u
    BY <2>2 DEF Handler
  <2>5. Human(slot[s].at) \in SUBSET Rules /\ reported[slot[s].at].human \in SUBSET Rules
    BY <2>2 DEF Human, ScreenTypeOK
  <2>6. PICK k \in Handler :
          /\ Answer(s, k) /\ k.op = slot[s].op /\ k.req = slot[s].req
          /\ k.at = slot[s].at
          /\ slot[s].req = "review" => k.human = Human(slot[s].at)
    BY <1>3, <2>2, <2>4, <2>5 DEF ServeRead, Asks
  <2>7. /\ slot'[s].op = k.op /\ slot'[s].req = k.req /\ slot'[s].at = k.at
        /\ slot'[s].human = k.human
    BY <2>6, AnswerFacts
  <2>8. AskedInv(s)'
    BY <2>1, <2>3, <2>6, <2>7 DEF AskedInv, Human
  <2> QED
    BY <2>1, <2>8, LoadedStays
<1>4. CASE NotFound(s) \/ RequestFails(s)
  <2> DEFINE k == [slot[s] EXCEPT !.ans = "failed"]
  <2>1. /\ slot' = [slot EXCEPT ![s] = k]
        /\ UNCHANGED <<decided, saved, payload, table>>
    BY <1>4 DEF NotFound, RequestFails, server, screen
  <2>2. k \in Handler /\ k.op = slot[s].op /\ k.rows = slot[s].rows /\ k.ans = "failed"
    BY DEF ScreenTypeOK, Handler
  <2> HIDE DEF k
  <2>3. slot'[s] = k
    BY <2>1, <2>2, SlotFacts DEF ScreenTypeOK
  <2>4. AskedInv(s)'
    BY <2>1, <2>2, <2>3, AskedStays
  <2> QED
    BY <2>1, <2>4, LoadedStays
<1> QED
  BY <1>1, <1>2, <1>3, <1>4 DEF Server

\* A review that is loaded knows the decisions there are.
LEMMA ReviewSaves ==
  ASSUME NEW s, Slots = {s}, ScreenTypeOK, SlotInv(s), AskedInv(s),
         ReceiveReview(s)
  PROVE  LoadedInv' /\ AskedInv(s)'
<1> DEFINE h == slot[s]
<1>1. /\ h.op # "none" /\ h.req = "review" /\ h.ans = "ok" /\ AfterReview(s)
      /\ UNCHANGED decided /\ saved' = {}
  BY DEF ReceiveReview, Answered
<1>2. h \in Handler /\ Sends(h) /\ h.at \in Cases /\ h.at = open
  BY <1>1, Waits DEF SlotInv, AtInv, Opening
<1>3. h.human = Human(h.at)
  BY <1>1 DEF AskedInv
<1>4. h.op \in {"open", "validate"}
  BY <1>1, <1>2 DEF Sends
<1>5. AskedInv(s)'
  BY <1>1, <1>2, <1>4, AfterReviewFacts DEF AskedInv
<1>6. /\ payload'.case = h.at /\ payload'.human = h.human
      /\ table'.case = h.at /\ table'.human = h.human
  BY DEF ReceiveReview, Rendered
<1>7. LoadedInv'
  BY <1>1, <1>2, <1>3, <1>6 DEF LoadedInv, Human
<1> QED
  BY <1>5, <1>7

LEMMA ResumedSaves ==
  ASSUME NEW s, Slots = {s}, ScreenTypeOK, SlotInv(s), LoadedInv, AskedInv(s),
         Resume(s)
  PROVE  LoadedInv' /\ AskedInv(s)'
<1>1. CASE ReceiveReview(s)
  BY <1>1, ReviewSaves
<1>2. CASE ReceiveSave(s)
  <2>1. /\ slot[s].op = "generate" /\ slot'[s].rows = slot[s].rows
        /\ slot'[s].ans = "sent" /\ UNCHANGED <<server, screen>>
    BY <1>2, ReceiveSaveFacts
  <2>2. UNCHANGED <<decided, saved, payload, table>>
    BY <2>1 DEF server, screen
  <2> QED
    BY <2>1, <2>2, LoadedStays, AskedStays
<1>3. ASSUME ~ReceiveReview(s), ~ReceiveSave(s)
      PROVE  LoadedInv' /\ AskedInv(s)'
  <2>1. UNCHANGED <<decided, saved, payload, table>>
    BY <1>3 DEF Resume, ReceiveSubmission, ReceiveMatrix, MissReview, ReceiveReport,
      MissReport, ReceiveValidation, ReceiveUpload, ReceivePatch, GiveUp, server, screen
  <2>2. ASSUME Done(s) PROVE AskedInv(s)'
    <3>1. slot'[s].op = "none"
      BY <2>2, DoneFacts
    <3> QED
      BY <2>1, <3>1, AskedStays
  <2>3. ASSUME NEW req \in Requests, NEW c \in Cases, Ask(s, req, c),
               slot[s].op # "none", slot[s].op # "generate"
        PROVE  AskedInv(s)'
    <3>1. slot'[s].op = slot[s].op /\ slot'[s].ans = "sent"
      BY <2>3, AskFacts
    <3> QED
      BY <2>1, <2>3, <3>1, AskedStays
  <2>4. slot[s].op # "none" => slot[s].at \in Cases /\ Sends(slot[s])
    BY Waits DEF SlotInv
  <2>5. slot[s].op # "none" /\ slot[s].req # "submission" => slot[s].at = open
    BY DEF SlotInv, AtInv, Opening
  <2>6. LoadedInv'
    BY <2>1, LoadedStays
  <2>7. CASE ReceiveSubmission(s)
    BY <2>6, <2>2, <2>3, <2>4, <2>7 DEF ReceiveSubmission, Answered, Requests, Sends
  <2>8. CASE ReceiveMatrix(s)
    BY <2>6, <2>2, <2>3, <2>4, <2>5, <2>8 DEF ReceiveMatrix, Requests, Sends
  <2>9. CASE MissReview(s)
    BY <2>6, <2>2, <2>3, <2>4, <2>5, <2>9
       DEF MissReview, AfterReview, Answered, Requests, Sends
  <2>10. CASE ReceiveReport(s) \/ MissReport(s) \/ ReceivePatch(s) \/ GiveUp(s)
    BY <2>6, <2>2, <2>10 DEF ReceiveReport, MissReport, ReceivePatch, GiveUp
  <2>11. CASE ReceiveValidation(s)
    BY <2>6, <2>3, <2>4, <2>5, <2>11 DEF ReceiveValidation, Answered, Requests, Sends
  <2>12. CASE ReceiveUpload(s)
    BY <2>6, <2>3, <2>4, <2>5, <2>12 DEF ReceiveUpload, Answered, Requests, Sends
  <2> QED
    BY <1>3, <2>7, <2>8, <2>9, <2>10, <2>11, <2>12 DEF Resume
<1> QED
  BY <1>1, <1>2, <1>3

\* What the user does to the table loads and saves nothing.
LEMMA TableSaves ==
  ASSUME NEW s, LoadedInv, AskedInv(s),
         UNCHANGED <<decided, saved, payload, slot>>,
         table'.case = payload.case, table'.human = payload.human
  PROVE  LoadedInv' /\ AskedInv(s)'
  BY DEF LoadedInv, AskedInv, Human

SavedInv == LoadedInv /\ \A s \in Slots : AskedInv(s)

LEMMA SavedHolds == ASSUME OneHandler PROVE ScreenSpec => []SavedInv
<1>1. PICK s : Slots = {s}
  BY DEF OneHandler
<1>2. ScreenInit => SavedInv
  BY <1>1, FreeFacts, NoCaseAssumption
     DEF ScreenInit, SavedInv, LoadedInv, AskedInv
<1>3. ScreenInv /\ SavedInv /\ [ScreenNext]_screenVars => SavedInv'
  <2> SUFFICES ASSUME ScreenInv, SavedInv, [ScreenNext]_screenVars
               PROVE  SavedInv'
    OBVIOUS
  <2>1. ScreenTypeOK /\ SlotInv(s) /\ LoadedInv /\ AskedInv(s)
    BY <1>1 DEF ScreenInv, SavedInv
  <2>2. LoadedInv' /\ AskedInv(s)'
    <3>1. CASE User(s)
      BY <1>1, <2>1, <3>1, UserSaves
    <3>2. CASE Server(s)
      BY <1>1, <2>1, <3>2, ServerSaves
    <3>3. CASE Resume(s)
      BY <1>1, <2>1, <3>3, ResumedSaves
    <3>4. CASE \E r \in Rules : Edit(r)
      <4>1. /\ table'.case = table.case /\ table'.human = table.human
            /\ UNCHANGED <<decided, saved, payload, slot>>
        BY <2>1, <3>4 DEF Edit, server, ScreenTypeOK, Table
      <4> QED
        BY <2>1, <4>1, TableSaves DEF LoadedInv
    <3>5. CASE \E some \in SUBSET Rules : FilterSeverity(some)
      <4>1. /\ table'.case = payload.case /\ table'.human = payload.human
            /\ UNCHANGED <<decided, saved, payload, slot>>
        BY <2>1, <3>5 DEF FilterSeverity, server, ScreenTypeOK, Table
      <4> QED
        BY <2>1, <4>1, TableSaves
    <3>6. CASE UNCHANGED screenVars
      <4>1. UNCHANGED <<decided, saved, payload, slot, table>>
        BY <3>6 DEF screenVars, server, screen
      <4> QED
        BY <2>1, <4>1, TableSaves DEF LoadedInv
    <3> QED
      BY <1>1, <3>1, <3>2, <3>3, <3>4, <3>5, <3>6 DEF ScreenNext
  <2> QED
    BY <1>1, <2>2 DEF SavedInv
<1> QED
  BY <1>2, <1>3, ScreenHolds, PTL DEF ScreenSpec

(***************************************************************************)
(* A report on the screen counts the decisions that were on it and none    *)
(* that was deleted, and of what was taken back exactly the decisions that *)
(* were saved on the same screen: all rows are saved before the report is  *)
(* requested, and only rows marked when they were rendered are deleted.    *)
(***************************************************************************)
THEOREM ReportAfterDecisions ==
  ASSUME OneHandler PROVE ScreenSpec => []ReportHasDecisions
<1>1. ScreenInv /\ SavedInv => ReportHasDecisions
  <2> SUFFICES ASSUME ScreenInv, SavedInv, NEW s \in Slots,
                      Answered(s, "generate", "ok")
               PROVE  LET h    == slot[s]
                          t    == h.rows
                          kept == t.rows \ t.changed
                      IN  /\ t.rows \cap t.changed \subseteq h.human
                          /\ kept \cap t.human \cap h.human = {}
                          /\ t.case = h.at =>
                               kept \cap h.human = kept \cap saved
    BY DEF ReportHasDecisions
  <2> DEFINE h == slot[s]
             t == h.rows
  <2>1. /\ h.op # "none" /\ h.req = "generate" /\ h.ans = "ok"
        /\ AtInv(s) /\ GenerateInv(s) /\ LoadedInv /\ AskedInv(s) /\ h \in Handler
    BY DEF Answered, ScreenInv, SlotInv, SavedInv, ScreenTypeOK
  <2>2. h.op = "generate" /\ h.at \in Cases
    BY <2>1 DEF AtInv, Sends
  <2>3. /\ h.todo = {} /\ h.human = Human(h.at)
        /\ \A r \in ToSave(t) \ h.todo :
             decided[h.at][r] # NoCase <=> r \in t.changed
    BY <2>1, <2>2 DEF GenerateInv
  <2>4. t.rows \subseteq Rules /\ t.changed \subseteq Rules
    BY <2>1 DEF Handler, Table
  <2>5. /\ t.case = payload.case /\ t.human = payload.human
        /\ saved \cap t.human = {}
    BY <2>1, <2>2 DEF AskedInv, LoadedInv
  <2>6. t.case = h.at =>
          \A r \in Rules \ t.human : r \in h.human <=> r \in saved
    BY <2>1, <2>2, <2>3, <2>5 DEF LoadedInv, Human
  <2> HIDE DEF h, t
  <2>7. \A r \in t.rows : r \in t.changed => r \in h.human
    BY <2>3, <2>4 DEF ToSave, Human
  <2>8. \A r \in t.rows \ t.changed : r \in t.human => r \notin h.human
    BY <2>3, <2>4 DEF ToSave, Human
  <2> QED
    BY <2>4, <2>5, <2>6, <2>7, <2>8 DEF h, t
<1> QED
  BY <1>1, ScreenHolds, SavedHolds, PTL

-----------------------------------------------------------------------------
(***************************************************************************)
(* The rule store.  The invariant says why numbers and positions go        *)
(* together although they are read at different times: numbers have no     *)
(* gaps and a position is never beyond its number, so a rule that arrives  *)
(* late meets a number in use and fails, and one that arrives in time      *)
(* comes after all others.                                                 *)
(***************************************************************************)

USE ReleasesAssumption, BaseAssumption

NoGaps(t) == \A n \in DOMAIN t : 1..n \subseteq DOMAIN t

\* what is known of a rule once it is there
RuleInv(t) ==
  \A n \in DOMAIN t : /\ t[n].position <= n
                      /\ t[n].custom => n > Base[t[n].since]

\* what a call of add_rule under way knows of the rules t
AddInv(a, t) ==
  /\ a.at # "idle" => a.position = 1 \/ \E n \in DOMAIN t : a.position <= n + 1
  /\ a.at = "insert" => /\ a.number = 1 \/ a.number - 1 \in DOMAIN t
                        /\ a.position <= a.number
  /\ a.at # "idle" /\ ~a.raced => \A n \in DOMAIN t : t[n].position < a.position

StoreInv == /\ TypeOK
            /\ NoGaps(rows)
            /\ RuleInv(rows)
            /\ 1..Base[synced] \subseteq Numbers
            /\ PositionsFollowNumbers
            /\ \A w \in Workers : AddInv(adds[w], rows)

-----------------------------------------------------------------------------

LEMMA IdleFacts == Idle \in Add /\ \A t : AddInv(Idle, t)
  BY DEF Idle, Add, AddInv

\* A call that has been overtaken knows less, and nothing that more rules
\* could make wrong.
LEMMA RacedFacts ==
  ASSUME NEW a \in Add, NEW t, NEW u, DOMAIN t \subseteq DOMAIN u, AddInv(a, t)
  PROVE  /\ [a EXCEPT !.raced = TRUE] \in Add
         /\ AddInv([a EXCEPT !.raced = TRUE], u)
  BY DEF Add, AddInv

\* What a call learns from its second read.
LEMMA ReadsNumber ==
  ASSUME NEW a \in Add, NEW m \in Nat
  PROVE  [a EXCEPT !.at = "insert", !.number = m + 1] \in Add
<1>1. ASSUME NEW n \in Nat \ {0}
      PROVE  [a EXCEPT !.at = "insert", !.number = n] \in Add
  BY DEF Add
<1>2. m + 1 \in Nat \ {0}
  OBVIOUS
<1> DEFINE n == m + 1
<1>3. n \in Nat \ {0}
  BY <1>2
<1> HIDE DEF n
<1>4. [a EXCEPT !.at = "insert", !.number = n] \in Add
  BY <1>1, <1>3
<1> QED
  BY <1>4, Zenon DEF n

\* A step that leaves the rules alone and changes one call.
LEMMA CallStep ==
  ASSUME StoreInv, NEW w \in Workers, NEW a \in Add, AddInv(a, rows),
         adds' = [adds EXCEPT ![w] = a], UNCHANGED <<rows, synced>>
  PROVE  StoreInv'
<1>1. TypeOK'
  BY DEF StoreInv, TypeOK, Numbers
<1>2. /\ NoGaps(rows)' /\ RuleInv(rows)' /\ PositionsFollowNumbers'
      /\ (1..Base[synced] \subseteq Numbers)'
  BY DEF StoreInv, NoGaps, RuleInv, PositionsFollowNumbers, Numbers
<1>3. ASSUME NEW v \in Workers PROVE AddInv(adds[v], rows)'
  <2>1. AddInv(adds'[v], rows)
    BY DEF StoreInv, TypeOK
  <2> QED
    BY <2>1 DEF AddInv
<1> QED
  BY <1>1, <1>2, <1>3 DEF StoreInv

-----------------------------------------------------------------------------

LEMMA InitHolds == Init => StoreInv
<1> SUFFICES ASSUME Init PROVE StoreInv
  OBVIOUS
<1>1. Numbers = {}
  BY DEF Init, Numbers
<1>2. TypeOK
  <2>1. rows \in [Numbers -> Row]
    BY <1>1 DEF Init, Numbers
  <2> QED
    BY <1>1, <2>1, IdleFacts DEF Init, TypeOK
<1>3. 1..Base[synced] \subseteq Numbers
  BY DEF Init
<1>4. \A w \in Workers : AddInv(adds[w], rows)
  BY IdleFacts DEF Init
<1> QED
  BY <1>1, <1>2, <1>3, <1>4
  DEF StoreInv, NoGaps, RuleInv, PositionsFollowNumbers, Numbers

LEMMA SyncKeeps ==
  ASSUME StoreInv, NEW r \in 1..Releases, Sync(r)
  PROVE  StoreInv'
<1>1. TypeOK /\ NoGaps(rows) /\ RuleInv(rows) /\ PositionsFollowNumbers
  BY DEF StoreInv
<1>2. Base[r] \in Nat /\ Base[synced] \in Nat /\ synced \in 0..Releases
  BY <1>1 DEF TypeOK
<1>3. /\ Numbers' = Numbers \cup 1..Base[r]
      /\ \A n \in Numbers : rows'[n] = rows[n]
      /\ \A n \in 1..Base[r] : n \notin Numbers => rows'[n] = BaseRow(n)
      /\ rows' = [n \in Numbers' |-> rows'[n]]
  BY DEF Sync, Inserted, Numbers
<1>4. \A n \in 1..Base[r] : /\ BaseRow(n) \in Row /\ BaseRow(n).position = n
                             /\ BaseRow(n).custom = FALSE
  BY DEF BaseRow, Row
<1>5. \A n \in Numbers' : n \in Nat \ {0} /\ rows'[n] \in Row
  BY <1>1, <1>3, <1>4 DEF TypeOK
<1>6. synced' \in 0..Releases /\ (synced' = r \/ synced' = synced)
  BY <1>2 DEF Sync
<1>7. \A v \in Workers : adds'[v] \in Add /\ AddInv(adds'[v], rows')
  <2>1. CASE 1..Base[r] \subseteq Numbers
    <3>1. Numbers' = Numbers /\ rows' = rows
      BY <1>1, <1>3, <2>1 DEF TypeOK
    <3> QED
      BY <2>1, <3>1 DEF Sync, StoreInv, TypeOK
  <2>2. CASE ~(1..Base[r] \subseteq Numbers)
    <3> SUFFICES ASSUME NEW v \in Workers
                 PROVE  adds'[v] \in Add /\ AddInv(adds'[v], rows')
      OBVIOUS
    <3>1. adds'[v] = [adds[v] EXCEPT !.raced = TRUE]
      BY <2>2 DEF Sync, Raced
    <3>2. adds[v] \in Add /\ AddInv(adds[v], rows)
      BY DEF StoreInv, TypeOK
    <3>3. DOMAIN rows \subseteq DOMAIN rows'
      BY <1>3 DEF Numbers
    <3> QED
      BY <3>1, <3>2, <3>3, RacedFacts
  <2> QED
    BY <2>1, <2>2
<1>8. TypeOK'
  <2>1. adds' = [v \in Workers |-> adds'[v]]
    BY <1>1 DEF Sync, Raced, TypeOK
  <2> QED
    BY <1>3, <1>5, <1>6, <1>7, <2>1 DEF TypeOK
<1>9. NoGaps(rows')
  BY <1>1, <1>2, <1>3 DEF NoGaps, Numbers, TypeOK
<1>10. RuleInv(rows')
  <2> SUFFICES ASSUME NEW n \in Numbers'
               PROVE  /\ rows'[n].position <= n
                      /\ rows'[n].custom => n > Base[rows'[n].since]
    BY DEF RuleInv, Numbers
  <2>1. CASE n \in Numbers
    BY <1>1, <1>3, <2>1 DEF RuleInv, Numbers
  <2>2. CASE n \notin Numbers
    BY <1>3, <1>4, <2>2
  <2> QED
    BY <2>1, <2>2
<1>11. 1..Base[synced'] \subseteq Numbers'
  BY <1>3, <1>6 DEF StoreInv
<1>12. PositionsFollowNumbers'
  <2> SUFFICES ASSUME NEW m \in Numbers', NEW n \in Numbers', m < n, ~rows'[n].raced
               PROVE  rows'[m].position < rows'[n].position
    BY DEF PositionsFollowNumbers
  <2>1. CASE n \in Numbers
    <3>1. m \in Numbers
      BY <1>1, <1>5, <2>1 DEF NoGaps, Numbers, TypeOK
    <3> QED
      BY <1>1, <1>3, <2>1, <3>1 DEF PositionsFollowNumbers
  <2>2. CASE n \notin Numbers
    <3>1. rows'[n].position = n
      BY <1>3, <1>4, <2>2
    <3>2. rows'[m].position <= m /\ rows'[m].position \in Nat /\ m \in Nat /\ n \in Nat
      BY <1>5, <1>10 DEF RuleInv, Numbers, Row
    <3> QED
      BY <3>1, <3>2
  <2> QED
    BY <2>1, <2>2
<1> QED
  BY <1>7, <1>8, <1>9, <1>10, <1>11, <1>12
  DEF StoreInv, NoGaps, RuleInv, AddInv, Numbers

LEMMA ReadPositionKeeps ==
  ASSUME StoreInv, NEW w \in Workers, ReadPosition(w)
  PROVE  StoreInv'
<1>1. PICK p \in {0} \cup {rows[n].position : n \in Numbers} :
        /\ LastPosition(p)
        /\ adds' = [adds EXCEPT ![w] = [at |-> "numbers", position |-> p + 1,
                                        number |-> 1, raced |-> FALSE]]
  BY DEF ReadPosition
<1> DEFINE a == [at |-> "numbers", position |-> p + 1, number |-> 1, raced |-> FALSE]
<1>2. TypeOK /\ RuleInv(rows)
  BY DEF StoreInv
<1>3. \A n \in Numbers : rows[n].position \in Nat \ {0} /\ n \in Nat
  BY <1>2 DEF TypeOK, Row
<1>4. p \in Nat /\ p + 1 \in Nat \ {0}
  BY <1>3
<1>5. a.at = "numbers" /\ a.position = p + 1 /\ a.number = 1 /\ a.raced = FALSE
  OBVIOUS
<1>6. a \in Add
  BY <1>4 DEF Add
<1>7. AddInv(a, rows)
  <2>1. a.position = 1 \/ \E n \in Numbers : a.position <= n + 1
    <3>1. CASE p = 0
      BY <1>5, <3>1
    <3>2. CASE p # 0
      <4>1. PICK n \in Numbers : rows[n].position = p
        BY <1>1, <3>2 DEF LastPosition
      <4>2. p <= n
        BY <1>2, <4>1 DEF RuleInv, Numbers
      <4> QED
        BY <1>3, <1>4, <1>5, <4>2
    <3> QED
      BY <3>1, <3>2
  <2>2. \A n \in Numbers : rows[n].position < a.position
    BY <1>1, <1>3, <1>4, <1>5 DEF LastPosition
  <2> QED
    BY <1>5, <2>1, <2>2 DEF AddInv, Numbers
<1> HIDE DEF a
<1>8. adds' = [adds EXCEPT ![w] = a] /\ UNCHANGED <<rows, synced>>
  BY <1>1 DEF ReadPosition, a
<1> QED
  BY <1>6, <1>7, <1>8, CallStep

LEMMA ReadNumbersKeeps ==
  ASSUME StoreInv, NEW w \in Workers, ReadNumbers(w)
  PROVE  StoreInv'
<1>1. PICK m \in {0} \cup Numbers :
        /\ LastNumber(m)
        /\ adds' = [adds EXCEPT ![w] = [@ EXCEPT !.at = "insert", !.number = m + 1]]
  BY DEF ReadNumbers
<1> DEFINE a == [adds[w] EXCEPT !.at = "insert", !.number = m + 1]
<1>2. TypeOK /\ adds[w] \in Add /\ AddInv(adds[w], rows) /\ adds[w].at = "numbers"
  BY DEF StoreInv, TypeOK, ReadNumbers
<1>3. m \in Nat /\ \A n \in Numbers : n \in Nat /\ n <= m
  BY <1>1, <1>2 DEF TypeOK, LastNumber
<1>4. /\ a.at = "insert" /\ a.number = m + 1
      /\ a.position = adds[w].position /\ a.raced = adds[w].raced
  BY <1>2 DEF Add
<1>5. a \in Add
  BY <1>2, <1>3, ReadsNumber
<1>6. AddInv(a, rows)
  <2>1. adds[w].position = 1 \/ \E n \in Numbers : adds[w].position <= n + 1
    BY <1>2 DEF AddInv, Numbers
  <2>2. a.position <= m + 1
    BY <1>2, <1>3, <1>4, <2>1 DEF Add
  <2>3. a.number = 1 \/ a.number - 1 \in Numbers
    BY <1>3, <1>4
  <2> QED
    BY <1>2, <1>4, <2>1, <2>2, <2>3 DEF AddInv, Numbers
<1> HIDE DEF a
<1>7. adds' = [adds EXCEPT ![w] = a] /\ UNCHANGED <<rows, synced>>
  BY <1>1 DEF ReadNumbers, a
<1> QED
  BY <1>5, <1>6, <1>7, CallStep

LEMMA InsertKeeps ==
  ASSUME StoreInv, NEW w \in Workers, Insert(w)
  PROVE  StoreInv'
<1>1. TypeOK /\ NoGaps(rows) /\ RuleInv(rows) /\ PositionsFollowNumbers
  BY DEF StoreInv
<1> DEFINE k == adds[w].number
<1>2. PICK text \in Texts, enabled \in BOOLEAN :
        rows' = [n \in Numbers \cup {k} |->
                   IF n \in Numbers THEN rows[n] ELSE NewRow(w, text, enabled)]
  BY DEF Insert
<1> DEFINE new == NewRow(w, text, enabled)
<1>3. /\ adds[w] \in Add /\ AddInv(adds[w], rows)
      /\ adds[w].at = "insert" /\ k \notin Numbers
  BY DEF Insert, StoreInv, TypeOK
<1>4. k \in Nat \ {0} /\ adds[w].position <= k /\ (k = 1 \/ k - 1 \in Numbers)
  BY <1>3 DEF Add, AddInv, Numbers
<1>5. /\ new.position = adds[w].position /\ new.raced = adds[w].raced
      /\ new.since = synced /\ new \in Row
  BY <1>1, <1>3 DEF NewRow, Row, Add, TypeOK
<1> HIDE DEF new
<1>6. /\ Numbers' = Numbers \cup {k} /\ rows'[k] = new
      /\ \A n \in Numbers : rows'[n] = rows[n]
      /\ rows' = [n \in Numbers' |-> rows'[n]]
  BY <1>2, <1>3 DEF Numbers, new
<1> HIDE DEF k
<1>7. synced' = synced
  BY DEF Insert
<1>8. \A v \in Workers : adds'[v] \in Add /\ AddInv(adds'[v], rows')
  <2> SUFFICES ASSUME NEW v \in Workers
               PROVE  adds'[v] \in Add /\ AddInv(adds'[v], rows')
    OBVIOUS
  <2>1. adds'[v] = Idle \/ adds'[v] = [adds[v] EXCEPT !.raced = TRUE]
    BY DEF Insert, Raced
  <2>2. adds[v] \in Add /\ AddInv(adds[v], rows)
    BY DEF StoreInv, TypeOK
  <2>3. DOMAIN rows \subseteq DOMAIN rows'
    BY <1>6 DEF Numbers
  <2> QED
    BY <2>1, <2>2, <2>3, RacedFacts, IdleFacts
<1>9. TypeOK'
  <2>1. adds' = [v \in Workers |-> adds'[v]]
    BY DEF Insert, Raced
  <2>2. \A n \in Numbers' : n \in Nat \ {0} /\ rows'[n] \in Row
    BY <1>1, <1>4, <1>5, <1>6 DEF TypeOK
  <2> QED
    BY <1>1, <1>6, <1>7, <1>8, <2>1, <2>2 DEF TypeOK
<1>10. 1..k \subseteq Numbers'
  <2>1. CASE k = 1
    BY <1>6, <2>1
  <2>2. CASE k - 1 \in Numbers
    <3>1. 1..(k - 1) \subseteq Numbers
      BY <1>1, <2>2 DEF NoGaps, Numbers
    <3> QED
      BY <1>4, <1>6, <3>1
  <2> QED
    BY <1>4, <2>1, <2>2
<1>11. NoGaps(rows')
  BY <1>1, <1>6, <1>10 DEF NoGaps, Numbers
<1>12. RuleInv(rows')
  <2>1. k > Base[synced]
    <3>1. 1..Base[synced] \subseteq Numbers /\ Base[synced] \in Nat
      BY <1>1 DEF StoreInv, TypeOK
    <3> QED
      BY <1>3, <1>4, <3>1
  <2> QED
    BY <1>1, <1>4, <1>5, <1>6, <2>1 DEF RuleInv, Numbers
<1>13. PositionsFollowNumbers'
  <2> SUFFICES ASSUME NEW m \in Numbers', NEW n \in Numbers', m < n, ~rows'[n].raced
               PROVE  rows'[m].position < rows'[n].position
    BY DEF PositionsFollowNumbers
  <2>1. CASE n \in Numbers
    <3>1. m \in Numbers
      BY <1>1, <1>4, <1>6, <2>1 DEF NoGaps, Numbers, TypeOK
    <3> QED
      BY <1>1, <1>6, <2>1, <3>1 DEF PositionsFollowNumbers
  <2>2. CASE n = k
    <3>1. m \in Numbers
      BY <1>4, <1>6, <2>2
    <3>2. rows[m].position < adds[w].position
      BY <1>3, <1>5, <1>6, <2>2, <3>1 DEF AddInv, Numbers
    <3> QED
      BY <1>5, <1>6, <2>2, <3>1, <3>2
  <2> QED
    BY <1>6, <2>1, <2>2
<1> QED
  BY <1>6, <1>7, <1>8, <1>9, <1>11, <1>12, <1>13
  DEF StoreInv, NoGaps, RuleInv, AddInv, Numbers

LEMMA UpdateKeeps ==
  ASSUME StoreInv, NEW k \in Numbers, Update(k)
  PROVE  StoreInv'
<1>1. TypeOK /\ NoGaps(rows) /\ RuleInv(rows) /\ PositionsFollowNumbers
  BY DEF StoreInv
<1>2. PICK text \in Texts, enabled \in BOOLEAN :
        rows' = [rows EXCEPT ![k] = [@ EXCEPT !.text = text, !.enabled = enabled]]
  BY DEF Update
<1>3. Numbers' = Numbers /\ UNCHANGED <<adds, synced>>
  BY <1>1, <1>2 DEF Update, TypeOK, Numbers
<1>4. \A n \in Numbers : /\ rows'[n] \in Row
                         /\ rows'[n].position = rows[n].position
                         /\ rows'[n].raced = rows[n].raced
                         /\ rows'[n].custom = rows[n].custom
                         /\ rows'[n].since = rows[n].since
  BY <1>1, <1>2 DEF TypeOK, Row
<1>5. TypeOK'
  BY <1>1, <1>2, <1>3, <1>4 DEF TypeOK, Numbers
<1>6. NoGaps(rows') /\ RuleInv(rows')
  BY <1>1, <1>3, <1>4 DEF NoGaps, RuleInv, Numbers
<1>7. PositionsFollowNumbers'
  BY <1>1, <1>3, <1>4 DEF PositionsFollowNumbers
<1>8. \A v \in Workers : AddInv(adds'[v], rows')
  BY <1>3, <1>4 DEF StoreInv, AddInv, Numbers
<1> QED
  BY <1>3, <1>5, <1>6, <1>7, <1>8 DEF StoreInv, NoGaps, RuleInv, AddInv, Numbers

LEMMA StepHolds == StoreInv /\ [Next]_vars => StoreInv'
<1> SUFFICES ASSUME StoreInv, [Next]_vars PROVE StoreInv'
  OBVIOUS
<1>1. ASSUME NEW r \in 1..Releases, Sync(r) PROVE StoreInv'
  BY <1>1, SyncKeeps
<1>2. ASSUME NEW w \in Workers, AddRule(w) PROVE StoreInv'
  <2>1. CASE Fail(w)
    BY <2>1, IdleFacts, CallStep DEF Fail
  <2> QED
    BY <1>2, <2>1, ReadPositionKeeps, ReadNumbersKeeps, InsertKeeps DEF AddRule
<1>3. ASSUME NEW n \in Numbers, Update(n) PROVE StoreInv'
  BY <1>3, UpdateKeeps
<1>4. CASE UNCHANGED vars
  BY <1>4 DEF vars, StoreInv, TypeOK, NoGaps, RuleInv, PositionsFollowNumbers,
              AddInv, Numbers
<1> QED
  BY <1>1, <1>2, <1>3, <1>4 DEF Next

LEMMA InvariantHolds == Spec => []StoreInv
  BY InitHolds, StepHolds, PTL DEF Spec

-----------------------------------------------------------------------------

\* The table and the calls of add_rule keep their types.
THEOREM TypesHold == Spec => []TypeOK
<1>1. StoreInv => TypeOK
  BY DEF StoreInv
<1> QED
  BY <1>1, InvariantHolds, PTL

\* A rule of an administrator keeps a base rule out only where the base rule
\* came with a later release than the newest one synchronised.
THEOREM BaseRulesAreThere == Spec => []BaseRulesYield
<1>1. StoreInv => BaseRulesYield
  BY DEF StoreInv, BaseRulesYield, RuleInv, Numbers
<1> QED
  BY <1>1, InvariantHolds, PTL

\* The order of the library is the order of the numbers, but for rules that
\* were added while others were inserted.
THEOREM OrderIsKept == Spec => []PositionsFollowNumbers
<1>1. StoreInv => PositionsFollowNumbers
  BY DEF StoreInv
<1> QED
  BY <1>1, InvariantHolds, PTL

\* No step but update_rule changes or removes a rule that is there.
THEOREM EditsAreKept == Spec => EditsSurvive
<1>1. [Next]_vars =>
        [(\A n \in Numbers : Kept(n)) \/ (\E n \in Numbers : Update(n))]_vars
  <2> SUFFICES ASSUME Next
               PROVE  (\A n \in Numbers : Kept(n)) \/ (\E n \in Numbers : Update(n))
    OBVIOUS
  <2>1. ASSUME NEW r \in 1..Releases, Sync(r) PROVE \A n \in Numbers : Kept(n)
    BY <2>1 DEF Sync, Inserted, Kept, Numbers
  <2>2. ASSUME NEW w \in Workers, AddRule(w) PROVE \A n \in Numbers : Kept(n)
    BY <2>2 DEF AddRule, ReadPosition, ReadNumbers, Insert, Fail, Kept, Numbers
  <2> QED
    BY <2>1, <2>2 DEF Next
<1> QED
  BY <1>1, PTL DEF Spec, EditsSurvive
=============================================================================
