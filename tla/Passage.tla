------------------------------ MODULE Passage ------------------------------
(***************************************************************************)
(* Which passage of a Google Doc a comment is shown with (_context.py).  A  *)
(* comment says what it quotes and not where; the document is a sequence of *)
(* elements, and the passage is chosen by the one the quote is found in.    *)
(*                                                                         *)
(* A text is a sequence of words, the newline being one of them.           *)
(***************************************************************************)
EXTENDS Integers, Sequences, FiniteSets, FiniteSetsExt, SequencesExt

CONSTANTS
  Elements,   \* the elements a document is made of: kind, level and rows of text
  Quotes,     \* what comments quote
  Newline,    \* the word that ends a line
  Blank,      \* the words that are only space
  MaxElements, MaxChars

NotAHeading == 99
OPEN == "[["
CLOSE == "]]"

\* Rows end in a newline; but for a table, whose cells end in one each, an element has
\* no other.  The brackets that mark a selection do not occur in prose (_context.py:56).
ASSUME PassageAssumption ==
  /\ \A e \in Elements :
       /\ e.kind \in {"paragraph", "table", "other"} /\ e.level \in 0 .. NotAHeading
       /\ e.rows \in Seq(Seq(STRING))
       /\ \A i \in DOMAIN e.rows : \A j \in DOMAIN e.rows[i] :
            /\ e.rows[i][j] # OPEN
            /\ j = Len(e.rows[i]) => e.rows[i][j] = Newline
            /\ e.kind # "table" /\ e.rows[i][j] = Newline => i = Len(e.rows) /\ j = Len(e.rows[i])
  /\ Quotes \subseteq Seq(STRING)
  /\ MaxElements \in Nat /\ MaxChars \in Nat

VARIABLES
  blocks,    \* the document
  request,   \* the quote asked for and the elements wanted on either side
  context    \* the passage it was given

passageVars == <<blocks, request, context>>

\* The text of an element: its rows after one another.
TextOf(b) == FlattenSeq(b.rows)
is_heading(b) == b.kind = "paragraph" /\ b.level < NotAHeading
has_text(text) == \E i \in DOMAIN text : text[i] \notin Blank

joined(bs) == FlattenSeq([i \in DOMAIN bs |-> TextOf(bs[i])])

StartsIn(text, quote) ==
  {i \in 1 .. Len(text) - Len(quote) + 1 : SubSeq(text, i, i + Len(quote) - 1) = quote}
Holds(text, quote) == StartsIn(text, quote) # {}

\* str.count: from the left, without overlaps.
count(text, quote) ==
  LET From[i \in 1 .. Len(text) + 1] ==
        IF i > Len(text) THEN 0
        ELSE IF i \in StartsIn(text, quote) THEN 1 + From[i + Len(quote)] ELSE From[i + 1]
  IN  From[1]

occurrences(bs, quote) ==
  LET Upto[k \in 0 .. Len(bs)] == IF k = 0 THEN 0 ELSE Upto[k - 1] + count(TextOf(bs[k]), quote)
  IN  Upto[Len(bs)]

\* The elements that the first occurrence in the text of the whole touches.
spanning(bs, quote) ==
  LET start == Min(StartsIn(joined(bs), quote))
      Before(i) == Len(joined(SubSeq(bs, 1, i - 1)))
  IN  {i \in DOMAIN bs : Before(i) < start + Len(quote) - 1
                         /\ Before(i) + Len(TextOf(bs[i])) >= start}

more_senior(level, seen) == level < seen

\* Backwards from an element: each heading more senior than the last one taken,
\* up to a title.
heading_path(bs, at) ==
  LET From[i \in 0 .. at] ==
        [seen \in 0 .. NotAHeading |->
           IF i = 0 THEN <<>>
           ELSE IF is_heading(bs[i]) /\ more_senior(bs[i].level, seen)
                  THEN (IF bs[i].level = 0 THEN <<>> ELSE From[i - 1][bs[i].level]) \o <<i>>
                  ELSE From[i - 1][seen]]
  IN  From[at][NotAHeading]

\* The place of an element among the paragraphs that have text, and their number.
paragraph_position(bs, at) ==
  LET those == {i \in DOMAIN bs : bs[i].kind = "paragraph" /\ has_text(TextOf(bs[i]))}
  IN  [index |-> IF at \in those THEN Cardinality({i \in those : i <= at}) ELSE 0,
       total |-> Cardinality(those)]

\* The first occurrence is marked in place.
delimit(text, quote) ==
  IF ~Holds(text, quote) THEN text
  ELSE LET i == Min(StartsIn(text, quote))
       IN  SubSeq(text, 1, i - 1) \o <<OPEN>> \o quote \o <<CLOSE>>
           \o SubSeq(text, i + Len(quote), Len(text))

\* What is cut is followed by a note that it is, which the limit does not count.
TRUNCATED == "... [truncated]"
cap(text) == IF Len(text) <= MaxChars THEN text ELSE Append(SubSeq(text, 1, MaxChars), TRUNCATED)

Nowhere(kind) == [kind |-> kind, text |-> <<>>, index |-> 0, path |-> <<>>,
                  truncated |-> FALSE, candidates |-> <<>>, at |-> {}]
Found(kind, bs, at, text, quote) ==
  [Nowhere(kind) EXCEPT
     !.text = cap(delimit(text, quote)), !.truncated = Len(delimit(text, quote)) > MaxChars,
     !.at = at, !.index = paragraph_position(bs, Min(at)).index,
     !.path = heading_path(bs, Min(at))]

\* Mutant: a quote that crosses elements is not found.
element_scoped(bs, quote) == Nowhere("not_found")
repeated(bs, quote) == count(joined(bs), quote) > 1

\* The quote is inside no element.
build_spanning(bs, quote) ==
  IF ~Holds(joined(bs), quote) THEN Nowhere("not_found")
  ELSE IF repeated(bs, quote) THEN Nowhere("ambiguous")
  ELSE LET touched == spanning(bs, quote)
       IN  Found("spanning", bs, touched,
                 joined(SubSeq(bs, Min(touched), Max(touched))), quote)

\* Inside one: the whole table or its row under the header; a heading and what it
\* heads; the paragraph.
lines(header, row) == IF <<>> \in {header, row} THEN header \o row ELSE header \o <<Newline>> \o row
passage_at(bs, at, quote) ==
  LET b == bs[at]
      here == SelectInSeq(b.rows, LAMBDA r : Holds(r, quote))
      heads == SelectInSubSeq(bs, at + 1, Len(bs),
                              LAMBDA x : ~is_heading(x) /\ has_text(TextOf(x)))
  IN  CASE b.kind = "table" /\ Len(TextOf(b)) <= MaxChars -> [kind |-> "table", text |-> TextOf(b)]
        [] b.kind = "table" /\ Len(TextOf(b)) > MaxChars ->
             [kind |-> "table_row",
              text |-> lines(IF here = 1 THEN <<>> ELSE b.rows[1],
                             IF here = 0 THEN <<>> ELSE b.rows[here])]
        [] is_heading(b) -> [kind |-> "heading_and_following",
                             text |-> TextOf(b) \o IF heads = 0 THEN <<>> ELSE TextOf(bs[heads])]
        [] OTHER -> [kind |-> "paragraph", text |-> TextOf(b)]

\* The elements with text on either side, when the caller wants them.
extended(bs, at, passage, paragraphs) ==
  LET lo == IF at > paragraphs THEN at - paragraphs ELSE 1
      hi == IF at + paragraphs < Len(bs) THEN at + paragraphs ELSE Len(bs)
      Full(s) == FlattenSeq([i \in DOMAIN s |-> IF has_text(TextOf(s[i])) THEN TextOf(s[i]) ELSE <<>>])
  IN  IF paragraphs = 0 THEN passage
      ELSE [kind |-> IF passage.kind = "paragraph" THEN "paragraphs" ELSE passage.kind,
            text |-> Full(SubSeq(bs, lo, at - 1)) \o passage.text \o Full(SubSeq(bs, at + 1, hi))]

ambiguous(found) == found > 1

build(bs, quote, paragraphs) ==
  LET found == occurrences(bs, quote)
      holding == {i \in DOMAIN bs : Holds(TextOf(bs[i]), quote)}
  IN  IF ~has_text(quote) THEN Nowhere("no_quote")
      ELSE IF found = 0 THEN build_spanning(bs, quote)
      ELSE IF ambiguous(found)
        THEN [Nowhere("ambiguous") EXCEPT
                !.candidates = [k \in 1 .. Cardinality(holding) |->
                                  SetToSortSeq(holding, LAMBDA i, j : i < j)[k]]]
      ELSE LET at == Min(holding)
               passage == extended(bs, at, passage_at(bs, at, quote), paragraphs)
           IN  Found(passage.kind, bs, {at}, passage.text, quote)

-----------------------------------------------------------------------------
NoRequest == [quote |-> <<>>, paragraphs |-> 0]

PassageInit == blocks = <<>> /\ request = NoRequest /\ context = Nowhere("none")

\* Somebody edits the document.
WriteElement(e) ==
  /\ Len(blocks) < MaxElements
  /\ blocks' = Append(blocks, e)
  /\ request' = NoRequest /\ context' = Nowhere("none")

\* comment_contexts for one comment.
AskContext(quote, paragraphs) ==
  /\ context = Nowhere("none")
  /\ request' = [quote |-> quote, paragraphs |-> paragraphs]
  /\ context' = build(blocks, quote, paragraphs)
  /\ UNCHANGED blocks

\* A comment on a spreadsheet or a deck: no passage lookup there.
AskElsewhere ==
  /\ context = Nowhere("none")
  /\ context' = Nowhere("unsupported")
  /\ UNCHANGED <<blocks, request>>

PassageNext ==
  \/ \E e \in Elements : WriteElement(e)
  \/ \E quote \in Quotes, paragraphs \in 0 .. 1 : AskContext(quote, paragraphs)
  \/ AskElsewhere

PassageSpec == PassageInit /\ [][PassageNext]_passageVars
=============================================================================
