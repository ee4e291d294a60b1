----------------------------- MODULE RateLimiter -----------------------------
(***************************************************************************)
(* The client of the language model and its rate limiter.  Every thread of *)
(* an instance (one per request) asks through the one _OpenAIRateLimiter:  *)
(* a deque with the times of the last requests, under a lock that is not   *)
(* held while a thread sleeps.  A request refused with status 429 is made  *)
(* once more after a pause, and needs a second slot.                       *)
(*                                                                         *)
(* time.monotonic() is read under the lock; the locked block is one step.  *)
(* Times are kept as ages, in ticks, that stop at Window.                  *)
(***************************************************************************)
EXTENDS Integers, Sequences

CONSTANTS Workers,
          Limit,        \* requests_per_minute; <= 0 would turn it off
          Window,       \* window_seconds
          RetryAfter    \* retry_after_429_seconds

ASSUME LimitAssumption == Limit \in Nat \ {0}
ASSUME WindowAssumption == Window \in Nat \ {0} /\ RetryAfter \in Nat

VARIABLES
  times,   \* _request_times: the age of each request, the oldest first
  calls,   \* the call of ask() that each thread is making
  sent     \* history: the ages of the Limit + 1 latest requests

vars == <<times, calls, sent>>

Places == {"idle", "wait", "sleep", "send", "backoff"}

Call == [at : Places, attempt : 1..2, left : Nat]

Idle == [at |-> "idle", attempt |-> 1, left |-> 0]

Ages == 0..Window

-----------------------------------------------------------------------------

Init == /\ times = <<>>
        /\ calls = [w \in Workers |-> Idle]
        /\ sent = <<>>

Ask(w) ==
  /\ calls[w].at = "idle"
  /\ calls' = [calls EXCEPT ![w] = [@ EXCEPT !.at = "wait"]]
  /\ UNCHANGED <<times, sent>>

\* Fault: a request leaves the window a tick before its time.
ExpiredEarly(age) == age >= Window - 1

\* Fault: nothing is ever taken out of the deque.
ExpiredNever(age) == FALSE

\* now - self._request_times[0] >= window_seconds
Expired(age) == age >= Window

\* popleft() as long as the oldest has expired, k times
Expires(k) ==
  /\ \A i \in 1..k : Expired(times[i])
  /\ k < Len(times) => ~Expired(times[k + 1])

Kept(k) == SubSeq(times, k + 1, Len(times))

Latest(s) == IF Len(s) > Limit + 1 THEN Tail(s) ELSE s

\* fewer than Limit in the window: the request is noted and may be sent
Admit(w) ==
  /\ calls[w].at = "wait"
  /\ \E k \in 0..Len(times) :
       /\ Expires(k)
       /\ Len(Kept(k)) < Limit
       /\ times' = Append(Kept(k), 0)
  /\ sent' = Latest(Append(sent, 0))
  /\ calls' = [calls EXCEPT ![w] = [@ EXCEPT !.at = "send"]]

\* Fault: the time is counted from the latest request, not from the oldest.
WaitForLatest(q) == Window - q[Len(q)]

\* window_seconds - (now - self._request_times[0]), at least a tick here
WaitFor(q) == Window - q[1]

\* the window is full: sleep until the oldest request leaves it
Refuse(w) ==
  /\ calls[w].at = "wait"
  /\ \E k \in 0..Len(times) :
       /\ Expires(k)
       /\ Len(Kept(k)) >= Limit
       /\ times' = Kept(k)
       /\ calls' = [calls EXCEPT ![w] = [@ EXCEPT !.at = "sleep",
                                                  !.left = WaitFor(Kept(k))]]
  /\ UNCHANGED sent

\* time.sleep() returns: there may be another thread in the slot already
Wake(w) ==
  /\ calls[w].at \in {"sleep", "backoff"} /\ calls[w].left = 0
  /\ calls' = [calls EXCEPT ![w] = [@ EXCEPT !.at = "wait"]]
  /\ UNCHANGED <<times, sent>>

\* a text, an empty text, an error of the API or the connection, a timeout
Answer(w) ==
  /\ calls[w].at = "send"
  /\ calls' = [calls EXCEPT ![w] = Idle]
  /\ UNCHANGED <<times, sent>>

\* RateLimitError at the first attempt; at the second it is an Answer
RateLimited(w) ==
  /\ calls[w].at = "send" /\ calls[w].attempt = 1
  /\ calls' = [calls EXCEPT ![w] =
       [at |-> "backoff", attempt |-> 2, left |-> RetryAfter]]
  /\ UNCHANGED <<times, sent>>

Older(age) == IF age < Window THEN age + 1 ELSE age

Less(n) == IF n > 0 THEN n - 1 ELSE n

\* time passes, for the requests under way as well
Tick ==
  /\ times' = [i \in DOMAIN times |-> Older(times[i])]
  /\ sent' = [i \in DOMAIN sent |-> Older(sent[i])]
  /\ calls' = [w \in Workers |-> [calls[w] EXCEPT !.left = Less(@)]]

Wait(w) == Admit(w) \/ Refuse(w)

Return(w) == Answer(w) \/ RateLimited(w)

Next == Tick \/ \E w \in Workers : Ask(w) \/ Wait(w) \/ Wake(w) \/ Return(w)

Spec == Init /\ [][Next]_vars

\* threads run, time passes and requests time out; nothing makes anyone ask
Fairness ==
  /\ WF_vars(Tick)
  /\ \A w \in Workers : WF_vars(Wait(w)) /\ WF_vars(Wake(w)) /\ WF_vars(Return(w))

FairSpec == Spec /\ Fairness

-----------------------------------------------------------------------------

TypeOK ==
  /\ times \in Seq(Ages) /\ Len(times) <= Limit
  /\ calls \in [Workers -> Call]
  /\ sent \in Seq(Ages) /\ Len(sent) <= Limit + 1

(***************************************************************************)
(* What the limiter promises: no Limit + 1 requests within a window, the   *)
(* second attempts after a 429 included, whichever threads make them and   *)
(* however they wake.  The request Limit before the latest has left it.    *)
(***************************************************************************)
WindowKept == Len(sent) = Limit + 1 => sent[1] = Window

(***************************************************************************)
(* A thread sleeps no longer than it must: as long as it has time left,    *)
(* the window is full, whatever other threads have done meanwhile.         *)
(***************************************************************************)
Full == Len(sent) >= Limit /\ sent[Len(sent) - Limit + 1] < Window

NoNeedlessSleep ==
  \A w \in Workers : calls[w].at = "sleep" /\ calls[w].left > 0 => Full

(***************************************************************************)
(* When threads wait, one of them gets through: the limiter never wedges.  *)
(* (Which one is not settled: the queue of sleepers has no order, and one  *)
(* of them can lose every slot to others.)                                 *)
(***************************************************************************)
SomeoneGetsThrough ==
  (\E w \in Workers : calls[w].at \in {"wait", "sleep"})
    ~> (\E w \in Workers : calls[w].at = "send")
=============================================================================
