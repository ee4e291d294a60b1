------------------------------ MODULE RuleStore ------------------------------
(***************************************************************************)
(* The rules of one element in the table validation_rules.  Each release   *)
(* of the program brings a catalogue of base rules, which every validation *)
(* and every look at the library inserts if they are not there; super      *)
(* administrators add rules of their own and edit all of them.  Requests   *)
(* of any number of instances, of several releases during a roll-out.      *)
(*                                                                         *)
(* add_rule reads the last position and the numbers in use and inserts,    *)
(* three statements that other requests come between: only the constraint  *)
(* UNIQUE (standard_id, element_number, rule_id) stands in the way.        *)
(***************************************************************************)
EXTENDS Integers

CONSTANTS Workers,
          Releases,    \* how many releases there are
          Base,        \* number of base rules of each release, 0 before any
          Texts,       \* descriptions and referenced elements an edit can give
          CatalogText, \* those of the catalogue
          MaxRules     \* bound: rules of the element

ASSUME ReleasesAssumption == Releases \in Nat
ASSUME BaseAssumption ==
  /\ Base \in [0..Releases -> Nat]
  /\ Base[0] = 0
  /\ \A r, s \in 0..Releases : r <= s => Base[r] <= Base[s]
ASSUME MaxRulesAssumption == MaxRules \in Nat

VARIABLES
  rows,     \* number (rule_id) -> the rule
  adds,     \* the call of add_rule that each worker serves
  synced    \* history: the newest release that has inserted its rules

vars == <<rows, adds, synced>>

(***************************************************************************)
(* History of a rule: since, the newest release synchronised before it was *)
(* added; raced, whether rules were inserted while it was being added.     *)
(***************************************************************************)
Row == [custom : BOOLEAN, position : Nat \ {0}, text : Texts \cup {CatalogText},
        enabled : BOOLEAN, since : 0..Releases, raced : BOOLEAN]

Add == [at : {"idle", "numbers", "insert"}, position : Nat \ {0},
        number : Nat \ {0}, raced : BOOLEAN]

Idle == [at |-> "idle", position |-> 1, number |-> 1, raced |-> FALSE]

Numbers == DOMAIN rows

Init == /\ rows = [n \in {} |-> 0]
        /\ adds = [w \in Workers |-> Idle]
        /\ synced = 0

\* what a call under way has read is no longer so
Raced == [w \in Workers |-> [adds[w] EXCEPT !.raced = TRUE]]

-----------------------------------------------------------------------------
\* sync_rule_catalog, one transaction, by an instance of release r.

BaseRow(n) == [custom |-> FALSE, position |-> n, text |-> CatalogText,
               enabled |-> TRUE, since |-> 0, raced |-> FALSE]

\* Fault: the rows of the catalogue replace what is there.
InsertedReplacing(r) ==
  [n \in Numbers \cup 1..Base[r] |->
     IF n \in 1..Base[r] THEN BaseRow(n) ELSE rows[n]]

\* Fault: the catalogue is inserted once, into an empty table.
InsertedOnce(r) ==
  IF Numbers # {} THEN rows ELSE [n \in 1..Base[r] |-> BaseRow(n)]

\* INSERT OR IGNORE: a number in use keeps its rule, whosever it is
Inserted(r) ==
  [n \in Numbers \cup 1..Base[r] |->
     IF n \in Numbers THEN rows[n] ELSE BaseRow(n)]

Sync(r) ==
  /\ rows' = Inserted(r)
  /\ adds' = IF 1..Base[r] \subseteq Numbers THEN adds ELSE Raced
  /\ synced' = IF r > synced THEN r ELSE synced

-----------------------------------------------------------------------------
\* add_rule

\* Fault: the last position is that of the rules that are enabled.
LastEnabledPosition(p) ==
  LET enabled == {n \in Numbers : rows[n].enabled}
  IN  /\ p = 0 => enabled = {}
      /\ p # 0 => \E n \in enabled : rows[n].position = p
      /\ \A n \in enabled : rows[n].position <= p

\* COALESCE(MAX(position), 0)
LastPosition(p) ==
  /\ p = 0 => Numbers = {}
  /\ p # 0 => \E n \in Numbers : rows[n].position = p
  /\ \A n \in Numbers : rows[n].position <= p

ReadPosition(w) ==
  /\ adds[w].at = "idle"
  /\ \E p \in {0} \cup {rows[n].position : n \in Numbers} :
       /\ LastPosition(p)
       /\ adds' = [adds EXCEPT ![w] = [at |-> "numbers", position |-> p + 1,
                                       number |-> 1, raced |-> FALSE]]
  /\ UNCHANGED <<rows, synced>>

\* max(existing_ids, default=0)
LastNumber(m) ==
  /\ m = 0 => Numbers = {}
  /\ \A n \in Numbers : n <= m

ReadNumbers(w) ==
  /\ adds[w].at = "numbers"
  /\ \E m \in {0} \cup Numbers :
       /\ LastNumber(m)
       /\ m < MaxRules
       /\ adds' = [adds EXCEPT ![w] = [@ EXCEPT !.at = "insert",
                                                !.number = m + 1]]
  /\ UNCHANGED <<rows, synced>>

NewRow(w, text, enabled) ==
  [custom |-> TRUE, position |-> adds[w].position, text |-> text,
   enabled |-> enabled, since |-> synced, raced |-> adds[w].raced]

\* the INSERT and its commit
Insert(w) ==
  /\ adds[w].at = "insert"
  /\ adds[w].number \notin Numbers
  /\ \E text \in Texts, enabled \in BOOLEAN :
       rows' = [n \in Numbers \cup {adds[w].number} |->
                  IF n \in Numbers THEN rows[n] ELSE NewRow(w, text, enabled)]
  /\ adds' = [Raced EXCEPT ![w] = Idle]
  /\ UNCHANGED synced

\* the constraint is violated, or the request fails in another way
Fail(w) ==
  /\ adds[w].at # "idle"
  /\ adds' = [adds EXCEPT ![w] = Idle]
  /\ UNCHANGED <<rows, synced>>

\* update_rule
Update(n) ==
  /\ \E text \in Texts, enabled \in BOOLEAN :
       rows' = [rows EXCEPT ![n] = [@ EXCEPT !.text = text, !.enabled = enabled]]
  /\ UNCHANGED <<adds, synced>>

-----------------------------------------------------------------------------

AddRule(w) == ReadPosition(w) \/ ReadNumbers(w) \/ Insert(w) \/ Fail(w)

Next == \/ \E r \in 1..Releases : Sync(r)
        \/ \E w \in Workers : AddRule(w)
        \/ \E n \in Numbers : Update(n)

Spec == Init /\ [][Next]_vars

-----------------------------------------------------------------------------

\* rows maps numbers to rules; calls under way are well formed
TypeOK ==
  /\ Numbers \subseteq Nat \ {0}
  /\ rows \in [Numbers -> Row]
  /\ adds \in [Workers -> Add]
  /\ synced \in 0..Releases

(***************************************************************************)
(* Nothing but update_rule changes a rule that is there: no validation, no *)
(* new release and no other addition touches the edits of administrators,  *)
(* and no rule disappears (reviews refer to it).                           *)
(***************************************************************************)
Kept(n) == n \in DOMAIN rows' /\ rows'[n] = rows[n]

EditsSurvive ==
  [][(\A n \in Numbers : Kept(n)) \/ (\E n \in Numbers : Update(n))]_vars

(***************************************************************************)
(* After a release has been synchronised every number of its catalogue has *)
(* a rule, and it is the base rule unless an administrator's rule took the *)
(* number before: under an earlier release, or before the first look at    *)
(* the library (add_rule does not synchronise).  Such a base rule is never *)
(* checked.                                                                *)
(***************************************************************************)
BaseRulesYield ==
  \A n \in 1..Base[synced] :
    n \in Numbers /\ (rows[n].custom => n > Base[rows[n].since])

(***************************************************************************)
(* Rules are listed by position, then by rule_id as a text ("10" before    *)
(* "9"): positions follow the numbers strictly, but for rules that were    *)
(* added while others were inserted.                                       *)
(***************************************************************************)
PositionsFollowNumbers ==
  \A m, n \in Numbers :
    m < n /\ ~rows[n].raced => rows[m].position < rows[n].position
=============================================================================
