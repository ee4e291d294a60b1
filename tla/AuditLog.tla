------------------------------ MODULE AuditLog ------------------------------
(***************************************************************************)
(* What the audit trail of a case promises: events are only ever added at  *)
(* the end, those of one operation at once.  Nothing is lost, overwritten, *)
(* reordered or skipped.                                                   *)
(***************************************************************************)
EXTENDS Naturals, Sequences

CONSTANTS Event,   \* the events there may be
          Most     \* the most events one operation records

VARIABLE log

TypeOK == log \in Seq(Event)

\* a new case has the events of its creation
Init == TypeOK /\ Len(log) \in 1..Most

Record == /\ log' \in Seq(Event)
          /\ Len(log') \in (Len(log) + 1)..(Len(log) + Most)
          /\ \A i \in 1..Len(log) : log'[i] = log[i]

Next == Record

Spec == Init /\ [][Next]_log
=============================================================================
