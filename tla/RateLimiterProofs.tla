-------------------------- MODULE RateLimiterProofs --------------------------
(***************************************************************************)
(* Proofs about RateLimiter, for any number of threads, any limit and any  *)
(* window.  The invariant ties the deque to the history: the deque is a    *)
(* suffix of the requests made, what is before it has left the window, and *)
(* a sleeping thread waits for the request that is Limit - 1 before the    *)
(* latest, or for an earlier one.                                          *)
(***************************************************************************)
EXTENDS RateLimiter, SequenceTheorems, TLAPS

USE LimitAssumption, WindowAssumption

\* q holds the latest of the requests s, the others have left the window
Suffix(q, s) ==
  /\ Len(q) <= Len(s)
  /\ \A i \in 1..Len(q) : q[i] = s[Len(s) - Len(q) + i]
  /\ \A i \in 1..(Len(s) - Len(q)) : s[i] = Window

Ordered(s) == \A i, j \in 1..Len(s) : i <= j => s[j] <= s[i]

\* what a call c knows of the requests s while it sleeps
SleepInv(c, s) ==
  c.at = "sleep" /\ c.left > 0 =>
    /\ Len(s) >= Limit
    /\ c.left <= Window - s[Len(s) - Limit + 1]

LimiterInv == /\ TypeOK
              /\ Suffix(times, sent)
              /\ Ordered(sent)
              /\ \A w \in Workers : SleepInv(calls[w], sent)

-----------------------------------------------------------------------------
\* The operators on the deque and on the history.

\* What popleft() leaves of the deque.
LEMMA KeptFacts ==
  ASSUME times \in Seq(Ages), NEW k \in 0..Len(times)
  PROVE  /\ Kept(k) \in Seq(Ages)
         /\ Len(Kept(k)) = Len(times) - k
         /\ \A i \in 1..(Len(times) - k) : Kept(k)[i] = times[k + i]
<1>1. k + 1 \in 1..(Len(times) + 1) /\ Len(times) \in Nat
  OBVIOUS
<1>2. \A i \in (k + 1)..Len(times) : times[i] \in Ages
  OBVIOUS
<1> QED
  BY <1>1, <1>2, SubSeqProperties DEF Kept

\* The history after one more request.
LEMMA LatestFacts ==
  ASSUME NEW s \in Seq(Ages), Len(s) <= Limit + 1,
         NEW t, t = Latest(Append(s, 0))
  PROVE  /\ t \in Seq(Ages)
         /\ Len(t) = IF Len(s) = Limit + 1 THEN Len(s) ELSE Len(s) + 1
         /\ t[Len(t)] = 0
         /\ \A i \in 1..(Len(t) - 1) : t[i] = s[Len(s) - Len(t) + 1 + i]
<1> DEFINE a == Append(s, 0)
<1>1. /\ a \in Seq(Ages) /\ Len(a) = Len(s) + 1 /\ a[Len(s) + 1] = 0
      /\ \A i \in 1..Len(s) : a[i] = s[i]
  BY DEF Ages
<1>2. CASE Len(s) = Limit + 1
  <2>1. t = Tail(a) /\ a # <<>>
    BY <1>1, <1>2 DEF Latest
  <2>2. /\ t \in Seq(Ages) /\ Len(t) = Len(a) - 1
        /\ \A i \in 1..Len(t) : t[i] = a[i + 1]
    BY <1>1, <2>1, HeadTailProperties
  <2> QED
    BY <1>1, <1>2, <2>2
<1>3. CASE Len(s) # Limit + 1
  <2>1. t = a
    BY <1>1, <1>3 DEF Latest
  <2>2. Len(t) - 1 = Len(s) /\ Len(s) \in Nat
    BY <1>1, <2>1
  <2>3. ASSUME NEW i \in 1..(Len(t) - 1)
        PROVE  t[i] = s[Len(s) - Len(t) + 1 + i]
    <3>1. i \in 1..Len(s) /\ Len(s) - Len(t) + 1 + i = i
      BY <2>2
    <3>2. t[i] = s[i]
      BY <1>1, <2>1, <3>1
    <3> QED
      BY <3>1, <3>2
  <2> QED
    BY <1>1, <1>3, <2>1, <2>3
<1> QED
  BY <1>2, <1>3

\* Time passes for a sequence of requests.
LEMMA OlderFacts ==
  ASSUME NEW s \in Seq(Ages), NEW t, t = [i \in DOMAIN s |-> Older(s[i])]
  PROVE  /\ t \in Seq(Ages) /\ Len(t) = Len(s)
         /\ \A i \in 1..Len(s) : t[i] = Older(s[i])
         /\ Ordered(s) => Ordered(t)
<1>1. DOMAIN s = 1..Len(s) /\ Len(s) \in Nat /\ \A i \in 1..Len(s) : s[i] \in Ages
  OBVIOUS
<1>2. \A i \in 1..Len(s) : Older(s[i]) \in Ages
  BY <1>1 DEF Older, Ages
<1>3. t \in Seq(Ages) /\ Len(t) = Len(s)
  BY <1>1, <1>2
<1>4. \A i \in 1..Len(s) : t[i] = Older(s[i])
  BY <1>1
<1>5. Ordered(s) => Ordered(t)
  BY <1>1, <1>3, <1>4 DEF Ordered, Older, Ages
<1> QED
  BY <1>3, <1>4, <1>5

\* A step of one thread that only sets its call, to one that is not asleep.
LEMMA AwakeStep ==
  ASSUME LimiterInv, NEW w \in Workers, NEW c \in Call, c.at # "sleep",
         calls' = [calls EXCEPT ![w] = c], UNCHANGED <<times, sent>>
  PROVE  LimiterInv'
<1>1. TypeOK' /\ Suffix(times, sent)' /\ Ordered(sent)'
  BY DEF LimiterInv, TypeOK, Suffix, Ordered
<1>2. ASSUME NEW v \in Workers PROVE SleepInv(calls[v], sent)'
  <2>1. SleepInv(calls'[v], sent)
    BY DEF LimiterInv, TypeOK, SleepInv
  <2> QED
    BY <2>1 DEF SleepInv
<1> QED
  BY <1>1, <1>2 DEF LimiterInv

\* The calls a thread can be making after a step.
LEMMA CallUpdates ==
  ASSUME NEW c \in Call
  PROVE  /\ [c EXCEPT !.at = "wait"] \in Call
         /\ [c EXCEPT !.at = "send"] \in Call
         /\ \A n \in Nat : [c EXCEPT !.at = "sleep", !.left = n] \in Call
  BY DEF Call, Places

-----------------------------------------------------------------------------
\* The steps.

LEMMA InitHolds == Init => LimiterInv
<1> SUFFICES ASSUME Init PROVE LimiterInv
  OBVIOUS
<1>1. Idle \in Call /\ Idle.at # "sleep"
  BY DEF Idle, Call, Places
<1>2. TypeOK
  BY <1>1 DEF Init, TypeOK
<1> QED
  BY <1>1, <1>2 DEF Init, LimiterInv, Suffix, Ordered, SleepInv

LEMMA AdmitKeeps ==
  ASSUME LimiterInv, NEW w \in Workers, Admit(w)
  PROVE  LimiterInv'
<1>1. TypeOK /\ Suffix(times, sent) /\ Ordered(sent)
  BY DEF LimiterInv
<1>2. PICK k \in 0..Len(times) : /\ Expires(k)
                                 /\ Len(Kept(k)) < Limit
                                 /\ times' = Append(Kept(k), 0)
  BY DEF Admit
<1> DEFINE q == Kept(k)
<1>3. /\ q \in Seq(Ages) /\ Len(q) = Len(times) - k
      /\ \A i \in 1..Len(q) : q[i] = times[k + i]
  BY <1>1, KeptFacts DEF TypeOK
<1>4. /\ sent \in Seq(Ages) /\ Len(sent) <= Limit + 1 /\ sent' = Latest(Append(sent, 0))
  BY <1>1 DEF Admit, TypeOK
<1>5. /\ sent' \in Seq(Ages)
      /\ Len(sent') = IF Len(sent) = Limit + 1 THEN Len(sent) ELSE Len(sent) + 1
      /\ sent'[Len(sent')] = 0
      /\ \A i \in 1..(Len(sent') - 1) : sent'[i] = sent[Len(sent) - Len(sent') + 1 + i]
  BY <1>4, LatestFacts
<1>6. /\ times' \in Seq(Ages) /\ Len(times') = Len(q) + 1 /\ times'[Len(q) + 1] = 0
      /\ \A i \in 1..Len(q) : times'[i] = q[i]
  BY <1>2, <1>3 DEF Ages
<1>7. TypeOK'
  <2>1. calls' \in [Workers -> Call]
    BY <1>1, CallUpdates DEF Admit, TypeOK
  <2>2. Len(q) < Limit
    BY <1>2
  <2>3. Len(times') <= Limit /\ Len(sent') <= Limit + 1
    BY <1>3, <1>4, <1>5, <1>6, <2>2
  <2> QED
    BY <1>5, <1>6, <2>1, <2>3 DEF TypeOK
<1>8. Suffix(q, sent)
  <2>1. Len(times) \in Nat /\ Len(times) <= Len(sent) /\ Len(sent) \in Nat
    BY <1>1 DEF TypeOK, Suffix
  <2>2. \A i \in 1..Len(q) : q[i] = sent[Len(sent) - Len(q) + i]
    <3> SUFFICES ASSUME NEW i \in 1..Len(q)
                 PROVE  q[i] = sent[Len(sent) - Len(q) + i]
      OBVIOUS
    <3>1. k + i \in 1..Len(times) /\ Len(sent) - Len(times) + (k + i) = Len(sent) - Len(q) + i
      BY <1>3, <2>1
    <3>2. times[k + i] = sent[Len(sent) - Len(times) + (k + i)]
      BY <1>1, <3>1 DEF Suffix
    <3> QED
      BY <1>3, <3>1, <3>2
  <2>3. \A i \in 1..k : times[i] = Window
    <3> SUFFICES ASSUME NEW i \in 1..k PROVE times[i] = Window
      OBVIOUS
    <3>1. times[i] >= Window
      BY <1>2 DEF Expires, Expired
    <3>2. times[i] \in Ages
      BY <1>1, <2>1 DEF TypeOK
    <3> QED
      BY <3>1, <3>2 DEF Ages
  <2>4. \A i \in 1..(Len(sent) - Len(q)) : sent[i] = Window
    <3> SUFFICES ASSUME NEW i \in 1..(Len(sent) - Len(q)) PROVE sent[i] = Window
      OBVIOUS
    <3>1. CASE i <= Len(sent) - Len(times)
      BY <1>1, <2>1, <3>1 DEF Suffix
    <3>2. CASE i > Len(sent) - Len(times)
      <4>1. i - (Len(sent) - Len(times)) \in 1..k
        BY <1>3, <2>1, <3>2
      <4>2. times[i - (Len(sent) - Len(times))]
              = sent[Len(sent) - Len(times) + (i - (Len(sent) - Len(times)))]
        BY <1>1, <2>1, <4>1 DEF Suffix
      <4>3. Len(sent) - Len(times) + (i - (Len(sent) - Len(times))) = i
        BY <2>1
      <4> QED
        BY <2>3, <4>1, <4>2, <4>3
    <3> QED
      BY <2>1, <3>1, <3>2
  <2> QED
    BY <1>3, <2>1, <2>2, <2>4 DEF Suffix
<1>9. Suffix(times', sent')
  <2>1. Len(q) \in Nat /\ Len(sent) \in Nat /\ Len(q) <= Len(sent) /\ Len(q) <= Limit - 1
    BY <1>2, <1>3, <1>4, <1>8 DEF Suffix
  <2>2. Len(times') <= Len(sent')
    BY <1>4, <1>5, <1>6, <2>1
  <2>3. \A i \in 1..Len(times') : times'[i] = sent'[Len(sent') - Len(times') + i]
    <3> SUFFICES ASSUME NEW i \in 1..Len(times')
                 PROVE  times'[i] = sent'[Len(sent') - Len(times') + i]
      OBVIOUS
    <3>1. CASE i = Len(q) + 1
      BY <1>4, <1>5, <1>6, <2>1, <3>1
    <3>2. CASE i # Len(q) + 1
      <4>1. i \in 1..Len(q)
        BY <1>6, <2>1, <3>2
      <4> DEFINE j == Len(sent') - Len(times') + i
      <4>2. j \in 1..(Len(sent') - 1)
            /\ Len(sent) - Len(sent') + 1 + j = Len(sent) - Len(q) + i
        BY <1>4, <1>5, <1>6, <2>1, <2>2, <4>1
      <4>3. sent'[j] = sent[Len(sent) - Len(q) + i]
        BY <1>5, <4>2
      <4>4. q[i] = sent[Len(sent) - Len(q) + i]
        BY <1>8, <4>1 DEF Suffix
      <4> QED
        BY <1>6, <4>1, <4>3, <4>4
    <3> QED
      BY <3>1, <3>2
  <2>4. \A i \in 1..(Len(sent') - Len(times')) : sent'[i] = Window
    <3> SUFFICES ASSUME NEW i \in 1..(Len(sent') - Len(times')) PROVE sent'[i] = Window
      OBVIOUS
    <3>1. i \in 1..(Len(sent') - 1)
          /\ Len(sent) - Len(sent') + 1 + i \in 1..(Len(sent) - Len(q))
      BY <1>4, <1>5, <1>6, <2>1, <2>2
    <3>2. sent[Len(sent) - Len(sent') + 1 + i] = Window
      BY <1>8, <3>1 DEF Suffix
    <3> QED
      BY <1>5, <3>1, <3>2
  <2> QED
    BY <2>2, <2>3, <2>4 DEF Suffix
<1>10. Ordered(sent')
  <2> SUFFICES ASSUME NEW i \in 1..Len(sent'), NEW j \in 1..Len(sent'), i <= j
               PROVE  sent'[j] <= sent'[i]
    BY DEF Ordered
  <2>1. sent'[i] \in Ages /\ sent'[j] \in Ages
    BY <1>5
  <2>2. CASE j = Len(sent')
    BY <1>5, <2>1, <2>2 DEF Ages
  <2>3. CASE j # Len(sent')
    <3> DEFINE d == Len(sent) - Len(sent') + 1
    <3>1. i \in 1..(Len(sent') - 1) /\ j \in 1..(Len(sent') - 1)
      BY <1>5, <2>3
    <3>2. d + i \in 1..Len(sent) /\ d + j \in 1..Len(sent) /\ d + i <= d + j
      BY <1>4, <1>5, <3>1
    <3>3. sent[d + j] <= sent[d + i]
      BY <1>1, <3>2 DEF Ordered
    <3> QED
      BY <1>5, <3>1, <3>3
  <2> QED
    BY <2>2, <2>3
<1>11. ASSUME NEW v \in Workers PROVE SleepInv(calls'[v], sent')
  <2> SUFFICES ASSUME calls'[v].at = "sleep", calls'[v].left > 0
               PROVE  /\ Len(sent') >= Limit
                      /\ calls'[v].left <= Window - sent'[Len(sent') - Limit + 1]
    BY DEF SleepInv
  <2>1. calls'[v] = calls[v] /\ calls[v] \in Call
    BY <1>1 DEF Admit, TypeOK, Call
  <2>2. Len(sent) >= Limit /\ calls[v].left <= Window - sent[Len(sent) - Limit + 1]
    BY <2>1 DEF LimiterInv, SleepInv
  <2> DEFINE n == Len(sent) - Limit + 1
             m == Len(sent') - Limit + 1
  <2>3. n \in 1..Len(sent) /\ m \in 1..Len(sent') /\ Len(sent') = Limit + 1 /\ m = 2
    BY <1>4, <1>5, <2>2
  <2>4. sent[n] \in Ages /\ sent'[m] \in Ages
    BY <1>4, <1>5, <2>3
  <2>5. sent'[m] <= sent[n]
    <3>1. CASE m = Len(sent')
      BY <1>5, <2>4, <3>1 DEF Ages
    <3>2. CASE m # Len(sent')
      <4>1. m \in 1..(Len(sent') - 1)
            /\ Len(sent) - Len(sent') + 1 + m = n + 1 /\ n + 1 \in 1..Len(sent)
        BY <1>4, <2>2, <2>3, <3>2
      <4>2. sent'[m] = sent[n + 1]
        BY <1>5, <4>1
      <4>3. sent[n + 1] <= sent[n]
        BY <1>1, <2>3, <4>1 DEF Ordered
      <4> QED
        BY <4>2, <4>3
    <3> QED
      BY <3>1, <3>2
  <2>6. calls[v].left \in Nat
    BY <2>1 DEF Call
  <2> QED
    BY <2>1, <2>2, <2>3, <2>4, <2>5, <2>6 DEF Ages
<1> QED
  BY <1>7, <1>9, <1>10, <1>11 DEF LimiterInv, Suffix, Ordered, SleepInv

LEMMA RefuseKeeps ==
  ASSUME LimiterInv, NEW w \in Workers, Refuse(w)
  PROVE  LimiterInv'
<1>1. TypeOK /\ Suffix(times, sent) /\ Ordered(sent)
  BY DEF LimiterInv
<1>2. PICK k \in 0..Len(times) :
        /\ Expires(k)
        /\ Len(Kept(k)) >= Limit
        /\ times' = Kept(k)
        /\ calls' = [calls EXCEPT ![w] = [@ EXCEPT !.at = "sleep",
                                                   !.left = WaitFor(Kept(k))]]
  BY DEF Refuse
<1>3. /\ Kept(k) \in Seq(Ages) /\ Len(Kept(k)) = Len(times) - k
      /\ \A i \in 1..(Len(times) - k) : Kept(k)[i] = times[k + i]
  BY <1>1, KeptFacts DEF TypeOK
<1>4. Len(times) \in Nat /\ Len(times) <= Limit /\ times \in Seq(Ages)
  BY <1>1 DEF TypeOK
<1>5. k = 0 /\ Len(times) = Limit
  BY <1>2, <1>3, <1>4
<1>6. Kept(k) = times
  BY <1>3, <1>4, <1>5, SeqEqual
<1>7. times[1] \in Ages /\ ~Expired(times[1])
  BY <1>2, <1>4, <1>5 DEF Expires
<1> DEFINE n == Window - times[1]
           c == [calls[w] EXCEPT !.at = "sleep", !.left = n]
<1>8. n \in Nat \ {0}
  BY <1>7 DEF Ages, Expired
<1>9. c \in Call /\ c.left = n
  BY <1>1, <1>8, CallUpdates DEF TypeOK, Call
<1>10. calls' = [calls EXCEPT ![w] = c] /\ UNCHANGED <<times, sent>>
  BY <1>2, <1>6 DEF WaitFor, Refuse
<1>11. TypeOK' /\ Suffix(times, sent)' /\ Ordered(sent)'
  BY <1>1, <1>9, <1>10 DEF TypeOK, Suffix, Ordered
<1>12. SleepInv(c, sent)
  <2>1. Len(sent) \in Nat /\ Limit <= Len(sent)
    BY <1>1, <1>5 DEF TypeOK, Suffix
  <2>2. times[1] = sent[Len(sent) - Limit + 1]
    BY <1>1, <1>5 DEF Suffix
  <2> QED
    BY <1>8, <1>9, <2>1, <2>2 DEF SleepInv
<1>13. ASSUME NEW v \in Workers PROVE SleepInv(calls[v], sent)'
  <2>1. calls'[v] = c \/ calls'[v] = calls[v]
    BY <1>1, <1>10 DEF TypeOK
  <2>2. SleepInv(calls'[v], sent)
    BY <1>12, <2>1 DEF LimiterInv
  <2> QED
    BY <1>10, <2>2 DEF SleepInv
<1> QED
  BY <1>11, <1>13 DEF LimiterInv

LEMMA TickKeeps ==
  ASSUME LimiterInv, Tick
  PROVE  LimiterInv'
<1>1. TypeOK /\ Suffix(times, sent) /\ Ordered(sent)
  BY DEF LimiterInv
<1>2. /\ times' \in Seq(Ages) /\ Len(times') = Len(times)
      /\ \A i \in 1..Len(times) : times'[i] = Older(times[i])
  BY <1>1, OlderFacts DEF Tick, TypeOK
<1>3. /\ sent' \in Seq(Ages) /\ Len(sent') = Len(sent) /\ Ordered(sent')
      /\ \A i \in 1..Len(sent) : sent'[i] = Older(sent[i])
  BY <1>1, OlderFacts DEF Tick, TypeOK
<1>4. \A v \in Workers : /\ calls'[v] \in Call
                         /\ calls'[v].at = calls[v].at
                         /\ calls'[v].left = Less(calls[v].left)
  <2> SUFFICES ASSUME NEW v \in Workers
               PROVE  /\ calls'[v] \in Call
                      /\ calls'[v].at = calls[v].at
                      /\ calls'[v].left = Less(calls[v].left)
    OBVIOUS
  <2>1. calls[v] \in Call
    BY <1>1 DEF TypeOK
  <2>2. Less(calls[v].left) \in Nat
    BY <2>1 DEF Call, Less
  <2>3. calls'[v] = [calls[v] EXCEPT !.left = Less(calls[v].left)]
    BY DEF Tick
  <2> QED
    BY <2>1, <2>2, <2>3 DEF Call
<1>5. TypeOK'
  BY <1>1, <1>2, <1>3, <1>4 DEF Tick, TypeOK
<1>6. Suffix(times', sent')
  <2>1. Len(times) \in Nat /\ Len(sent) \in Nat /\ Len(times) <= Len(sent)
    BY <1>1 DEF TypeOK, Suffix
  <2>2. ASSUME NEW i \in 1..Len(times)
        PROVE  times'[i] = sent'[Len(sent) - Len(times) + i]
    <3>1. Len(sent) - Len(times) + i \in 1..Len(sent)
      BY <2>1
    <3>2. times[i] = sent[Len(sent) - Len(times) + i]
      BY <1>1 DEF Suffix
    <3> QED
      BY <1>2, <1>3, <3>1, <3>2
  <2>3. \A i \in 1..(Len(sent) - Len(times)) : sent'[i] = Window
    BY <1>1, <1>3, <2>1 DEF Suffix, Older
  <2> QED
    BY <1>2, <1>3, <2>1, <2>2, <2>3 DEF Suffix
<1>7. ASSUME NEW v \in Workers PROVE SleepInv(calls'[v], sent')
  <2> SUFFICES ASSUME calls'[v].at = "sleep", calls'[v].left > 0
               PROVE  /\ Len(sent') >= Limit
                      /\ calls'[v].left <= Window - sent'[Len(sent') - Limit + 1]
    BY DEF SleepInv
  <2>1. calls[v].left \in Nat
    BY <1>1 DEF TypeOK, Call
  <2>2. calls[v].at = "sleep" /\ calls'[v].left = calls[v].left - 1 /\ calls[v].left > 0
    BY <1>4, <2>1 DEF Less
  <2>3. Len(sent) >= Limit /\ calls[v].left <= Window - sent[Len(sent) - Limit + 1]
    BY <2>2 DEF LimiterInv, SleepInv
  <2> DEFINE m == Len(sent) - Limit + 1
  <2>4. m \in 1..Len(sent) /\ Len(sent) \in Nat /\ sent[m] \in Ages
    BY <1>1, <2>3 DEF TypeOK
  <2>5. sent'[m] = Older(sent[m])
    BY <1>3, <2>4
  <2> QED
    BY <1>3, <2>1, <2>2, <2>3, <2>4, <2>5 DEF Older, Ages
<1> QED
  BY <1>3, <1>5, <1>6, <1>7 DEF LimiterInv, Suffix, Ordered, SleepInv

LEMMA StepHolds == LimiterInv /\ [Next]_vars => LimiterInv'
<1> SUFFICES ASSUME LimiterInv, [Next]_vars PROVE LimiterInv'
  OBVIOUS
<1>1. CASE Tick
  BY <1>1, TickKeeps
<1>2. ASSUME NEW w \in Workers, Ask(w) PROVE LimiterInv'
  <2>1. [calls[w] EXCEPT !.at = "wait"] \in Call
    BY CallUpdates DEF LimiterInv, TypeOK
  <2>2. [calls[w] EXCEPT !.at = "wait"].at # "sleep"
    BY DEF LimiterInv, TypeOK, Call
  <2> QED
    BY <1>2, <2>1, <2>2, AwakeStep DEF Ask
<1>3. ASSUME NEW w \in Workers, Wait(w) PROVE LimiterInv'
  BY <1>3, AdmitKeeps, RefuseKeeps DEF Wait
<1>4. ASSUME NEW w \in Workers, Wake(w) PROVE LimiterInv'
  <2>1. [calls[w] EXCEPT !.at = "wait"] \in Call
    BY CallUpdates DEF LimiterInv, TypeOK
  <2>2. [calls[w] EXCEPT !.at = "wait"].at # "sleep"
    BY DEF LimiterInv, TypeOK, Call
  <2> QED
    BY <1>4, <2>1, <2>2, AwakeStep DEF Wake
<1>5. ASSUME NEW w \in Workers, Return(w) PROVE LimiterInv'
  <2>1. CASE Answer(w)
    <3>1. Idle \in Call /\ Idle.at # "sleep"
      BY DEF Idle, Call, Places
    <3> QED
      BY <2>1, <3>1, AwakeStep DEF Answer
  <2>2. CASE RateLimited(w)
    <3> DEFINE c == [at |-> "backoff", attempt |-> 2, left |-> RetryAfter]
    <3>1. c \in Call
      BY WindowAssumption DEF Call, Places
    <3>2. c.at # "sleep"
      OBVIOUS
    <3>3. calls' = [calls EXCEPT ![w] = c] /\ UNCHANGED <<times, sent>>
      BY <2>2 DEF RateLimited
    <3> QED
      BY <3>1, <3>2, <3>3, AwakeStep
  <2> QED
    BY <1>5, <2>1, <2>2 DEF Return
<1>6. CASE UNCHANGED vars
  BY <1>6 DEF vars, LimiterInv, TypeOK, Suffix, Ordered, SleepInv
<1> QED
  BY <1>1, <1>2, <1>3, <1>4, <1>5, <1>6 DEF Next

LEMMA InvariantHolds == Spec => []LimiterInv
  BY InitHolds, StepHolds, PTL DEF Spec

-----------------------------------------------------------------------------

\* The deque, the calls and the history keep their types: the deque of
\* _OpenAIRateLimiter never holds more than requests_per_minute times.
THEOREM TypesHold == Spec => []TypeOK
<1>1. LimiterInv => TypeOK
  BY DEF LimiterInv
<1> QED
  BY <1>1, InvariantHolds, PTL

\* No thread, no waking order and no second attempt puts more than
\* requests_per_minute requests into a window.
THEOREM LimitIsKept == Spec => []WindowKept
<1>1. LimiterInv => WindowKept
  <2> SUFFICES ASSUME LimiterInv, Len(sent) = Limit + 1 PROVE sent[1] = Window
    BY DEF WindowKept
  <2>1. Len(times) \in Nat /\ Len(times) <= Limit
    BY DEF LimiterInv, TypeOK
  <2>2. 1 \in 1..(Len(sent) - Len(times))
    BY <2>1
  <2> QED
    BY <2>2 DEF LimiterInv, Suffix
<1> QED
  BY <1>1, InvariantHolds, PTL

\* A thread that still has time to sleep would be refused if it woke.
THEOREM SleepIsNeeded == Spec => []NoNeedlessSleep
<1>1. LimiterInv => NoNeedlessSleep
  <2> SUFFICES ASSUME LimiterInv, NEW w \in Workers, calls[w].at = "sleep",
                      calls[w].left > 0
               PROVE  Full
    BY DEF NoNeedlessSleep
  <2>1. Len(sent) >= Limit /\ calls[w].left <= Window - sent[Len(sent) - Limit + 1]
    BY DEF LimiterInv, SleepInv
  <2>2. sent[Len(sent) - Limit + 1] \in Ages /\ calls[w].left \in Nat
    BY <2>1 DEF LimiterInv, TypeOK, Call
  <2> QED
    BY <2>1, <2>2 DEF Full, Ages
<1> QED
  BY <1>1, InvariantHolds, PTL
=============================================================================
