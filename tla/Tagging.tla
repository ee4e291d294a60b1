------------------------------- MODULE Tagging -------------------------------
(***************************************************************************)
(* The tagger: it gives the units of an uploaded document the elements     *)
(* they belong to, in three passes over the units.  The first classifies   *)
(* each unit by itself; the second fills gaps from the units around them;  *)
(* the third asks the file name, and at last the language model.  A unit   *)
(* may also be shared context, which is no element's evidence.  At last a  *)
(* validation goes over the units and collects the text for each element.  *)
(*                                                                         *)
(* What the heuristics find in a text is any element, with any of Scores   *)
(* (keyword score and margin to the second); what they do with it is not.  *)
(***************************************************************************)
EXTENDS DocumentUnits

CONSTANTS None,
          Documents,     \* records [blocks, format, names, failed]
          Scores,        \* pairs <<score, margin>> of a keyword match
          MaxUnit, MaxPrimary   \* limits of the evidence, in blocks

ASSUME NoneAssumption == None \notin Elements
ASSUME NamesAssumption == \A d \in Documents : d.names \in Seq(Elements)
ASSUME ScoresAssumption == Scores \subseteq Nat \X Nat
ASSUME DocumentsAssumption ==
  \A d \in Documents : d.blocks \in Seq(Block) /\ d.format \in Formats
ASSUME LimitsAssumption == MaxUnit \in Nat /\ MaxPrimary \in Nat

VARIABLES
  doc,     \* names: the elements of the file name; failed: no extraction
  units,   \* its units
  tags,    \* the prediction of each unit classified so far
  known,   \* the elements after the first pass, None for the others
  pass, cursor,  \* the pass and its next unit
  evidence,      \* for each element, the text collected so far
  size           \* for each element, how long that text would be uncut

tagVars == <<doc, units, tags, known, pass, cursor, evidence, size>>

Content == [element : Elements \cup {None}, score : Nat, margin : Nat]

NoContent == [element |-> None, score |-> 0, margin |-> 0]

\* content is what the keywords say; it is forgotten when no longer needed
Prediction == [element : Elements \cup {None}, shared : BOOLEAN,
               content : Content, asked : BOOLEAN]

TagInit ==
  /\ doc \in Documents
  /\ units = Units(doc.blocks, doc.format)
  /\ tags = <<>> /\ known = <<>>
  /\ pass = "classify" /\ cursor = 1
  /\ evidence = [e \in Elements |-> <<>>]
  /\ size = [e \in Elements |-> 0]

HasText(u) == u.text # <<>>

\* _predict_content: element None stands for a score of 0
Contents(u) ==
  {NoContent} \cup
  IF HasText(u)
  THEN {[element |-> e, score |-> s[1], margin |-> s[2]] :
          e \in Elements, s \in Scores}
  ELSE {}

\* _predict_by_signature: phrases that are typical of an element
Signatures(u) == {None} \cup IF HasText(u) THEN Elements ELSE {}

-----------------------------------------------------------------------------
\* _classify_unit

LabelResult(u) == IF u.label \in Elements THEN u.label ELSE None

\* _content_result_to_prediction
Convincing(c) == \/ c.score >= 24 /\ c.margin >= 8
                 \/ c.score >= 16 /\ c.margin >= 12

\* a label may only be overruled by the file name if it is a slide's title
ClearSources == {"document", "heading", "page_title", "sheet_name"}

\* _should_use_filename_context
OverruledByName(element, u, c) ==
  /\ element # None /\ Len(doc.names) = 1 /\ element # doc.names[1]
  /\ ~(LabelResult(u) # None /\ u.source \in ClearSources)
  /\ ~(c.score >= 60 /\ c.margin >= 20)

\* the label, then a signature, then the keywords
Evidently(u, metadata, signature, c) ==
  IF LabelResult(u) # None THEN LabelResult(u)
  ELSE IF metadata THEN None
  ELSE IF signature # None THEN signature
  ELSE IF Convincing(c) THEN c.element ELSE None

Classified(u, metadata, signature, c) ==
  LET first == Evidently(u, metadata, signature, c)
      element == IF OverruledByName(first, u, c) THEN doc.names[1] ELSE first
      shared == metadata /\ element = None
  IN  [element |-> element, shared |-> shared, asked |-> FALSE,
       content |-> IF element # None \/ shared THEN NoContent ELSE c]

\* the file or the unit is called metadata, or its text is generic
Classify ==
  /\ pass = "classify" /\ cursor \in DOMAIN units
  /\ \E metadata \in BOOLEAN, c \in Contents(units[cursor]),
        signature \in Signatures(units[cursor]) :
       tags' = Append(tags, Classified(units[cursor], metadata, signature, c))
  /\ cursor' = cursor + 1
  /\ UNCHANGED <<doc, units, known, pass, evidence, size>>

\* the next pass; the second first notes which elements are known
NextPass ==
  /\ pass # "done" /\ cursor \notin DOMAIN units
  /\ pass' = CASE pass = "classify" -> "continue"
               [] pass = "continue" -> "backup"
               [] pass = "backup"   -> "collect"
               [] pass = "collect"  -> "done"
  /\ known' = IF pass = "classify" THEN [k \in DOMAIN tags |-> tags[k].element]
              ELSE known
  /\ cursor' = 1
  /\ UNCHANGED <<doc, units, tags, evidence, size>>

-----------------------------------------------------------------------------
\* _fill_continuity_and_fallbacks

Open(p) == p.element = None /\ ~p.shared

Tagged(p, element) == [p EXCEPT !.element = element, !.content = NoContent]

Shared(p) == [p EXCEPT !.shared = TRUE, !.content = NoContent]

KnownBefore(k) == {j \in DOMAIN known : j < k /\ known[j] # None}

KnownAfter(k) == {j \in DOMAIN known : j > k /\ known[j] # None}

\* Fault: the first element known, not the one before this unit.
PreviousFirst(k) ==
  IF KnownBefore(k) = {} THEN None ELSE known[Min(KnownBefore(k))]

Previous(k) == IF KnownBefore(k) = {} THEN None ELSE known[Max(KnownBefore(k))]

Following(k) == IF KnownAfter(k) = {} THEN None ELSE known[Min(KnownAfter(k))]

\* _nearby_content_result
Nearby(c, elements) == c.element \in elements /\ c.score >= 12 /\ c.margin >= 4

Continued(p, before, after) ==
  IF before # None /\ after # None /\ before # after
  THEN IF Nearby(p.content, {before, after}) THEN Tagged(p, p.content.element)
       ELSE Shared(p)
  ELSE IF before # None THEN Tagged(p, before)
  ELSE IF after # None THEN Tagged(p, after)
  ELSE p

Continue ==
  /\ pass = "continue" /\ cursor \in DOMAIN units
  /\ tags' = IF Open(tags[cursor])
             THEN [tags EXCEPT ![cursor] =
                     Continued(@, Previous(cursor), Following(cursor))]
             ELSE tags
  /\ cursor' = cursor + 1
  /\ UNCHANGED <<doc, units, known, pass, evidence, size>>

\* _file_backup_prediction
NameBackup(c) == IF c.element \in Range(doc.names) THEN c.element ELSE doc.names[1]

\* the model is not asked
Skipped(u, c) ==
  \/ doc.failed \/ ~HasText(u)
  \/ c.score = 0 /\ doc.names = <<>>

\* the answer of the model: an element, nothing usable or an error
Answered(p, element) == Tagged([p EXCEPT !.asked = TRUE], element)

Backup ==
  LET p == tags[cursor]
  IN  /\ pass = "backup" /\ cursor \in DOMAIN units
      /\ \/ ~Open(p) /\ UNCHANGED tags
         \/ /\ Open(p) /\ doc.names # <<>>
            /\ tags' = [tags EXCEPT ![cursor] = Tagged(p, NameBackup(p.content))]
         \/ \* or there is no key, or the fallback is turned off
            /\ Open(p) /\ doc.names = <<>>
            /\ UNCHANGED tags
         \/ /\ Open(p) /\ doc.names = <<>> /\ ~Skipped(units[cursor], p.content)
            /\ \E element \in Elements \cup {None} :
                 tags' = [tags EXCEPT ![cursor] = Answered(p, element)]
      /\ cursor' = cursor + 1
      /\ UNCHANGED <<doc, units, known, pass, evidence, size>>

-----------------------------------------------------------------------------
\* What a validation makes of the tags (validation/evidence.py).

\* text[:n]
Prefix(text, n) == IF n < Len(text) THEN SubSeq(text, 1, n) ELSE text

\* build_case_index: every unit has its text again, cut to max_unit_chars
Chunk(k) == Prefix(units[k].text, MaxUnit)

\* element_evidence, _cap_chunks: the chunks that are tagged with an element
\* one after the other, as far as they fit
Collect ==
  LET p == tags[cursor]
  IN  /\ pass = "collect" /\ cursor \in DOMAIN units
      /\ IF p.element # None /\ ~p.shared
         THEN /\ evidence' = [evidence EXCEPT ![p.element] =
                               @ \o Prefix(Chunk(cursor), MaxPrimary - Len(@))]
              /\ size' = [size EXCEPT ![p.element] = @ + Len(units[cursor].text)]
         ELSE UNCHANGED <<evidence, size>>
      /\ cursor' = cursor + 1
      /\ UNCHANGED <<doc, units, tags, known, pass>>

TagNext == Classify \/ NextPass \/ Continue \/ Backup \/ Collect

TagSpec == TagInit /\ [][TagNext]_tagVars

-----------------------------------------------------------------------------
\* What the tagging JSON says.

Found == {tags[k].element : k \in DOMAIN tags} \ {None}

\* Fault: only a failed question of the model leaves a gap.
GapFailedOnly(p) == p.asked /\ p.element = None

\* unresolved; a failed question leaves the unit unresolved
Gap(p) == Open(p)

\* _summary_status
Status == IF Found = {} THEN "Needs Review"
          ELSE IF \E k \in DOMAIN tags : Gap(tags[k]) THEN "Pending Gamma Verification"
          ELSE IF Cardinality(Found) > 1 THEN "Multi-element Verified"
          ELSE "Verified"

\* primary_element
Primary == IF Cardinality(Found) = 1 THEN CHOOSE e \in Found : TRUE ELSE None

\* tags and passes are well formed
TagTypeOK ==
  /\ doc \in Documents
  /\ tags \in Seq(Prediction)
  /\ known \in Seq(Elements \cup {None})
  /\ pass \in {"classify", "continue", "backup", "collect", "done"}

\* the pass is over for this unit: it has an element or is shared context
Settled(p) == p.element # None \/ p.shared

(***************************************************************************)
(* How gaps are filled.  If any unit was classified by itself, neither the *)
(* file name nor the model decides anything: an open unit takes an element *)
(* of the nearest ones known, or is shared between two that differ.        *)
(* Otherwise the file name settles every unit that is not shared, and the  *)
(* model is asked only if the file name says nothing.                      *)
(***************************************************************************)
Between(j, k) == (j + 1)..(k - 1) \cup (k + 1)..(j - 1)

GapsAreFilled ==
  pass = "done" =>
    \A k \in DOMAIN tags :
      known[k] = None /\ ~tags[k].shared =>
        IF \E j \in DOMAIN known : known[j] # None
        THEN \E j \in DOMAIN known :
               /\ tags[k].element = known[j] /\ known[j] # None
               /\ \A n \in Between(j, k) : known[n] = None
        ELSE /\ doc.names # <<>> => tags[k].element \in Range(doc.names)
             /\ tags[k].asked => doc.names = <<>>

(***************************************************************************)
(* A document that is called verified has no unit without an element, but  *)
(* for shared context; a document waits for the model only if nothing but  *)
(* the model has tagged any unit of it.                                    *)
(***************************************************************************)
StatusTellsGaps ==
  pass = "done" =>
    /\ Status \in {"Verified", "Multi-element Verified"}
         => \A k \in DOMAIN tags : Settled(tags[k])
    /\ Status = "Pending Gamma Verification"
         => /\ doc.names = <<>> /\ \A k \in DOMAIN known : known[k] = None
            /\ \A k \in DOMAIN tags : tags[k].element # None => tags[k].asked

(***************************************************************************)
(* The text that a validation of element e reads is text of the sections   *)
(* tagged e, and all of it that fits in.  The one exception is a paragraph *)
(* of a Word file that reads as a heading elsewhere: from there on text of *)
(* another section gets in, and behind one that reads as the next heading  *)
(* text of the own section is lost.  Not counted are the tables of a Word  *)
(* file (they go to the section of their number), what stands before the   *)
(* first heading, which reaches nobody, and blocks that units are not made *)
(* of: tables of slides, comments in a workbook, rows after the 30th.      *)
(***************************************************************************)
IsTable(b) == doc.format = "word" /\ doc.blocks[b].kind = "table"

HomeOf(b) == Home(doc.blocks, doc.format, b)

HomeTag(b) == IF HomeOf(b) = 0 THEN None ELSE tags[HomeOf(b)].element

\* a section tagged e was opened again by a paragraph
Stray(e, b) ==
  \E k \in DOMAIN tags :
    tags[k].element = e /\ OpenedAgain(doc.blocks, doc.format, k, b)

\* the section was closed by a paragraph that reads as the next heading
CutOff(b) == ClosedEarly(doc.blocks, doc.format, HomeOf(b), b)

\* neither a unit nor all units of the element together are too long
Fits(e) == /\ \A k \in DOMAIN tags :
                tags[k].element = e => Len(units[k].text) <= MaxUnit
           /\ size[e] <= MaxPrimary

EvidenceIsItsSections ==
  pass = "done" =>
    \A e \in Elements :
      /\ Len(evidence[e]) <= MaxPrimary
      /\ \A b \in Range(evidence[e]) :
           IsTable(b) \/ HomeTag(b) = e \/ Stray(e, b)
      /\ Fits(e) =>
           \A b \in DOMAIN doc.blocks :
             /\ HomeTag(b) = e
             /\ doc.blocks[b].kind \in UnitKinds(doc.format)
             => b \in Range(evidence[e]) \/ CutOff(b)
=============================================================================
