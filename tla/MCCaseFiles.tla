----------------------------- MODULE MCCaseFiles -----------------------------
(* Small instances of CaseFiles for TLC. *)
EXTENDS CaseFiles, TLC

CONSTANTS w1, w2, h1, h2, d1, d2

File(d, zip) == [doc |-> d, kind |-> "file", zip |-> zip]

Junk(d, zip) == [File(d, zip) EXCEPT !.kind = "junk"]

\* a loose file; a ZIP with a junk file and a file of the same name
TwoUploads == {<<File(d1, 0)>>, <<Junk(d1, 1), File(d1, 1)>>}

\* beside them, a ZIP with two files of one safe name and a nested ZIP
AllUploads ==
  TwoUploads \cup {<<Junk(d1, 1), File(d2, 1), File(d2, 1), File(d2, 2)>>}

NestedSeen ==
  \/ \E w \in Workers : \E k \in DOMAIN tx[w].upload : tx[w].upload[k].doc = d2
  \/ \E h \in Hosts : \E p \in disk[h].raw \cup s3.raw : p[2] = d2
  \/ \E i \in DOMAIN rows : rows[i].of[2] = 2

\* bound: with such a ZIP, one other request, no restart and no failed copy
Bounded ==
  NestedSeen =>
    /\ requests < MaxRequests /\ restarts = 0
    /\ \A w \in Workers : tx[w].at \in {"commit", "status"} => tx[w].synced

Symmetry == Permutations(Workers) \cup Permutations(Hosts)
=============================================================================
