------------------------------ MODULE MCTagging ------------------------------
(* Small documents for Tagging. *)
EXTENDS Tagging, TLC

CONSTANTS a, b,                \* elements
          tA, tB, tC, tP       \* texts

\* tA and tB name an element; tB is too long for the label of a page
MCNames == tA :> a @@ tB :> b @@ tC :> Scope @@ tP :> Scope

B(kind, text, place) == [kind |-> kind, text |-> text, place |-> place]

\* every Word file of up to four blocks: headings that occur twice, and
\* paragraphs that read as a heading, included
WordBlocks == {B("heading", t, 1) : t \in {tA, tB, tC}}
                \cup {B("text", t, 1) : t \in {tA, tP}} \cup {B("table", tP, 1)}

Rest == B("rest", tP, 1)

WordFiles == UNION {[1..n -> WordBlocks] : n \in 0..4}
               \cup {<<x, B("table", tP, 1), Rest>> : x \in WordBlocks}

\* pages and slides: titles, texts, tables, an empty one
OnPage(p) == {B("heading", tA, p), B("heading", tB, p), B("text", tP, p),
              B("table", tP, p)}

PlacedFiles ==
  {<<x, y, z>> : x \in OnPage(1) \cup {B("blank", tP, 1)},
                 y \in OnPage(2), z \in OnPage(2) \cup OnPage(3)}

\* sheets: a name first, then tables and comments
SheetFiles ==
  {<<B("heading", t, 1), x, B("heading", u, 2), y>> :
     t \in {tA, tC}, u \in {tB, tC}, x \in {B("table", tP, 1), B("text", tA, 1)},
     y \in {B("table", tA, 2), B("text", tP, 2)}}
  \cup {<<B("heading", t, 1), B("table", tP, 1), Rest, B("heading", u, 2)>> :
          t \in {tA, tC}, u \in {tB, tC}}

FileNames == {<<>>, <<a>>, <<a, b>>, <<b, a>>}

In(blocks, formats) ==
  [blocks : blocks, format : formats, names : FileNames, failed : {FALSE}]

SmallDocuments ==
  In(WordFiles, {"word"}) \cup In(PlacedFiles, {"pages", "slides"})
    \cup In(SheetFiles, {"sheets"})
    \cup {[d EXCEPT !.failed = TRUE] : d \in In({<<B("text", tP, 1)>>}, {"word"})}

\* below, at and above each threshold that a later pass or a caller looks at
SomeScores == {<<2, 2>>, <<12, 4>>, <<16, 12>>, <<24, 8>>, <<60, 20>>}
=============================================================================
