------------------------- MODULE PassageProperties -------------------------
(***************************************************************************)
(* What a reader of a passage relies on, against what the text of the whole *)
(* document says.                                                          *)
(***************************************************************************)
EXTENDS Passage

Placed == {"paragraph", "paragraphs", "heading_and_following", "table", "table_row", "spanning"}
Asked == context.kind \notin {"none", "unsupported"} /\ has_text(request.quote)
Whole == joined(blocks)

\* The kinds; a passage keeps to the limit of its length, the note of a cut one apart.
PassageTypeOK ==
  /\ context.kind \in Placed \cup {"none", "unsupported", "no_quote", "not_found", "ambiguous"}
  /\ Len(context.text) <= MaxChars + (IF context.truncated THEN 1 ELSE 0)
  /\ \A i \in DOMAIN context.path : context.path[i] \in DOMAIN blocks

\* A quote is said to be absent exactly when the text of the document does not
\* have it, also when it crosses elements (_context.py:197-239, #405).
AbsentIsAbsent ==
  Asked => (context.kind = "not_found" <=> ~Holds(Whole, request.quote))

\* Where a quote is once, but for places that overlap: those str.count takes for one.
Once(text, quote) ==
  /\ Holds(text, quote)
  /\ \A s, t \in StartsIn(text, quote) : s < t + Len(quote)

\* A quote is given a passage if and only if it is in one element once and in no other,
\* or in none and across elements once.
PlacedByElement ==
  Asked =>
    LET holding == {i \in DOMAIN blocks : Holds(TextOf(blocks[i]), request.quote)}
    IN  context.kind \in Placed <=>
          \/ \E i \in DOMAIN blocks : holding = {i} /\ Once(TextOf(blocks[i]), request.quote)
          \/ holding = {} /\ Once(Whole, request.quote)

\* "Never guessed" (_context.py:38-44): but for a table, what is given a passage is
\* nowhere else in the text of the whole document.  For a table the code does guess:
\* a quote that crosses its cells may stand across paragraphs as well, and the count
\* element by element does not see that one.
Tabular == context.kind \in {"table", "table_row"}
NeverGuessed ==
  Asked /\ context.kind \in Placed /\ ~Tabular => Once(Whole, request.quote)

\* What a passage marks is the quote where it is in the document: the words before
\* the mark and the words after it are those of the element it was found in, as far
\* as the passage is not cut.  A row of a long table and a table shown with its
\* neighbours are left out: the one need not have the quote, and in the other it may
\* stand across the border as well, and is marked there.
MarkedInPlace ==
  /\ Asked /\ context.kind \in Placed
  /\ Tabular => context.kind = "table" /\ request.paragraphs = 0
  => LET mark == SelectInSeq(context.text, LAMBDA w : w = OPEN)
         text == joined(SubSeq(blocks, Min(context.at), Max(context.at)))
         start == Min(StartsIn(text, request.quote))
         after == mark + Len(request.quote) + 2
     IN  /\ mark # 0 \/ context.truncated
         /\ mark # 0 =>
              /\ mark >= start
              /\ SubSeq(context.text, mark - start + 1, mark - 1) = SubSeq(text, 1, start - 1)
         /\ ~context.truncated =>
              SubSeq(context.text, after, after + Len(text) - start - Len(request.quote))
                = SubSeq(text, start + Len(request.quote), Len(text))

\* The headings a passage is said to be under are those no later heading above it
\* equals or outranks (_context.py:176-196).
UnderItsHeadings ==
  Asked /\ context.kind \in Placed =>
    LET at == Min(context.at)
        above == {i \in 1 .. at : is_heading(blocks[i])}
        governing == {i \in above : \A j \in above : j > i => blocks[j].level > blocks[i].level}
    IN  {context.path[i] : i \in DOMAIN context.path} = governing

\* The passage shown with a comment is the one it is about: there if and only if the
\* quote is in one element once, or else across some once; outside tables, where the whole
\* text has it only there; marked at the quote, under its own headings
\* (_context.py:160-398).
PassageIsItsOwn ==
  AbsentIsAbsent /\ PlacedByElement /\ NeverGuessed /\ MarkedInPlace /\ UnderItsHeadings
=============================================================================
