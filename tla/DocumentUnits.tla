---------------------------- MODULE DocumentUnits ----------------------------
(***************************************************************************)
(* How an extracted document is cut into units (tagging/unit_builder.py).  *)
(* A document is a sequence of blocks.  In a Word file they are headings,  *)
(* paragraphs and tables, and the extractor keeps three lists that do not  *)
(* say how they interleave: the text of a section is found again by        *)
(* scanning the paragraphs for one that reads as its heading, and the k-th *)
(* table goes to the k-th section, wherever it stands.  In the other       *)
(* formats a block knows its page, slide or sheet.                         *)
(***************************************************************************)
EXTENDS Integers, SequencesExt

CONSTANTS Elements,   \* submission artifacts
          Scope,      \* what a text names that names no element
          Texts,      \* what blocks say
          Names,      \* the element that a text names if it is a label
          Short       \* the texts of no more than 120 characters

ASSUME TextsAssumption == Names \in [Texts -> Elements \cup {Scope}]

\* place: the page, slide or sheet, 1 in a Word file; heading: the name of a
\* sheet as well; rest: the rows of a table after the 30th; blank: an empty
\* page
Block == [kind : {"heading", "text", "table", "rest", "blank"},
          text : Texts, place : Nat \ {0}]

Formats == {"word", "pages", "sheets", "slides"}

\* the members of a finite set of numbers in their order: the i-th is the one
\* that i members do not exceed
Sorted(S) ==
  [i \in 1..Cardinality(S) |->
     CHOOSE x \in S : Cardinality({y \in S : y <= x}) = i]

Of(blocks, kinds) == Sorted({b \in DOMAIN blocks : blocks[b].kind \in kinds})

\* extract_paragraphs, extract_headings, extract_tables: headings are
\* paragraphs as well, and no list says what stands between its members
Paragraphs(blocks) == Of(blocks, {"heading", "text"})

Headings(blocks) == Of(blocks, {"heading"})

Tables(blocks) == Of(blocks, {"table"})

(***************************************************************************)
(* A unit: its label (the element it names, or Scope), where the label     *)
(* comes from, and its text, the blocks it consists of.                    *)
(***************************************************************************)
Unit(label, source, text) == [label |-> label, source |-> source, text |-> text]

\* the first of the parts says what it is about, if it may serve as a label
Label(blocks, parts, usable) ==
  IF parts # <<>> /\ blocks[parts[1]].text \in usable
  THEN Names[blocks[parts[1]].text] ELSE Scope

\* _is_good_label_text
ShortOnes(blocks, parts) == SelectSeq(parts, LAMBDA b : blocks[b].text \in Short)

\* _build_whole_document_unit, for a Word file without headings: every row of
\* its tables, and the first short text is its label
WholeDocument(blocks) ==
  LET parts == Of(blocks, {"heading", "text"}) \o Of(blocks, {"table", "rest"})
  IN  <<Unit(Label(blocks, ShortOnes(blocks, parts), Short), "document", parts)>>

\* Fault: a section does not end where the next one begins.
SectionToTheEnd(blocks, k) ==
  Sorted({b \in Range(Paragraphs(blocks)) : b >= Headings(blocks)[k]})

(***************************************************************************)
(* The paragraphs of section k: those after a paragraph with the text of   *)
(* its heading, be it that heading or not, up to one with the text of the  *)
(* next heading.                                                           *)
(***************************************************************************)
Reads(blocks, k) ==
  {b \in Range(Paragraphs(blocks)) :
     k \in DOMAIN Headings(blocks) /\ blocks[b].text = blocks[Headings(blocks)[k]].text}

Section(blocks, k) ==
  LET LastOf(b) == LET before == {c \in Reads(blocks, k) \cup Reads(blocks, k + 1) :
                                    c <= b}
                   IN  IF before = {} THEN 0 ELSE Max(before)
  IN  Sorted({b \in Range(Paragraphs(blocks)) : LastOf(b) \in Reads(blocks, k)})

\* _build_word_units: the heading comes twice, once as the first part
WordUnits(blocks) ==
  LET headings == Headings(blocks)
      tables   == Tables(blocks)
      Table(k) == IF k <= Len(tables) THEN <<tables[k]>> ELSE <<>>
  IN  [k \in DOMAIN headings |->
         Unit(Names[blocks[headings[k]].text], "heading",
              <<headings[k]>> \o Section(blocks, k) \o Table(k))]

\* a unit for each place, of the blocks of two groups of kinds, labelled by
\* the first of them
PlacedUnits(blocks, source, first, second, usable) ==
  LET places == Sorted({blocks[b].place : b \in DOMAIN blocks})
      At(p, kinds) == Sorted({b \in DOMAIN blocks : /\ blocks[b].place = p
                                                   /\ blocks[b].kind \in kinds})
      Parts(p) == At(p, first) \o At(p, second)
  IN  [i \in DOMAIN places |->
         Unit(Label(blocks, Parts(places[i]), usable), source, Parts(places[i]))]

\* _build_excel_units: the name of the sheet and its tables, no comments
SheetUnits(blocks) ==
  PlacedUnits(blocks, "sheet_name", {"heading"}, {"table"}, Texts)

\* _build_powerpoint_units: texts, shapes and notes, no tables
SlideUnits(blocks) ==
  PlacedUnits(blocks, "slide_title", {"heading", "text"}, {}, Texts)

\* _build_pdf_units: "Page n" is the label if the first text is long
PageUnits(blocks) ==
  PlacedUnits(blocks, "page_title", {"heading", "text"}, {"table"}, Short)

Cut(blocks, format) ==
  CASE format = "sheets" -> SheetUnits(blocks)
    [] format = "slides" -> SlideUnits(blocks)
    [] format = "pages"  -> PageUnits(blocks)
    [] format = "word"   -> WordUnits(blocks)

\* _build_units
Units(blocks, format) ==
  IF Cut(blocks, format) = <<>> THEN WholeDocument(blocks) ELSE Cut(blocks, format)

(***************************************************************************)
(* What a reader of the file would say: the unit that block b belongs to,  *)
(* 0 for what stands before the first heading.                             *)
(***************************************************************************)
Home(blocks, format, b) ==
  IF format # "word"
  THEN Cardinality({blocks[c].place : c \in
                      {d \in DOMAIN blocks : blocks[d].place <= blocks[b].place}})
  ELSE IF Headings(blocks) = <<>> THEN 1
  ELSE Cardinality({c \in 1..b : blocks[c].kind = "heading"})

\* the kinds of blocks that the units of a format are made of; the tables of
\* a Word file go by their numbers
UnitKinds(format) ==
  CASE format = "sheets" -> {"heading", "table"}
    [] format = "slides" -> {"heading", "text"}
    [] format = "pages"  -> {"heading", "text", "table"}
    [] format = "word"   -> {"heading", "text"}

\* paragraph c reads as the k-th heading but is not it
Repeats(blocks, k, c) == c \in Reads(blocks, k) /\ c # Headings(blocks)[k]

\* section k was opened again before b, by a paragraph
OpenedAgain(blocks, format, k, b) ==
  format = "word" /\ \E c \in 1..b : Repeats(blocks, k, c)

\* within section k a paragraph before b reads as the next heading
ClosedEarly(blocks, format, k, b) ==
  /\ format = "word"
  /\ \E c \in 1..b : Home(blocks, format, c) = k /\ Repeats(blocks, k + 1, c)
=============================================================================
