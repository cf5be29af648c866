------------------------------ MODULE TextEdits ------------------------------
(***************************************************************************)
(* The edits a language server asks for (lsp/util/edit.go).  The content   *)
(* of a document is the sequence of its characters, two of which make a    *)
(* line ending; the edits are made in its lines.  A position counts lines  *)
(* and characters from zero; the conversion from the server's encoding to  *)
(* bytes lands on the boundary of a character, so a character is one unit  *)
(* here.  An edit has the position it starts at, the one it ends at, and   *)
(* its new text, given by its lines: it is split at "\n" whatever the      *)
(* document's ending is, so a "\r" before that stays at the end of a line. *)
(***************************************************************************)
EXTENDS Integers, Sequences, SequencesExt

Return == "\r"

Newline == "\n"

\* One ending for all of the document, although it may have both.
lineEnding(content) ==
  IF \E k \in 2..Len(content) : content[k - 1] = Return /\ content[k] = Newline
  THEN <<Return, Newline>> ELSE <<Newline>>

EndsWith(text, ending) ==
  /\ Len(text) >= Len(ending)
  /\ SubSeq(text, Len(text) - Len(ending) + 1, Len(text)) = ending

\* The lines of a text that goes on with the character c.
addCharacter(lines, c, ending) ==
  LET line == Append(Last(lines), c)
  IN  IF EndsWith(line, ending)
      THEN Append(Append(Front(lines), SubSeq(line, 1, Len(line) - Len(ending))), <<>>)
      ELSE Append(Front(lines), line)

splitLines(content, ending) ==
  FoldLeft(LAMBDA lines, c : addCharacter(lines, c, ending), << <<>> >>, content)

joinLines(lines, ending) ==
  FlattenSeq([i \in DOMAIN lines |-> IF i = 1 THEN lines[i] ELSE ending \o lines[i]])

Before(p, q) == p[1] < q[1] \/ (p[1] = q[1] /\ p[2] < q[2])

\* Half-open ranges: adjacent ones do not overlap.
rangesOverlap(e, f) == ~(\/ e.start[1] > f.end[1] \/ f.start[1] > e.end[1]
                         \/ e.start[1] = f.end[1] /\ e.start[2] >= f.end[2]
                         \/ f.start[1] = e.end[1] /\ f.start[2] >= e.end[2])

\* No new text: neither a line nor a part of one.
Empty(text) == text = << <<>> >>

Cut(line, n) == IF n > Len(line) THEN Len(line) ELSE n

\* The lines around the range, its first line up to the range, the new text
\* and the last line from the end of the range on; a range that ends past the
\* last line ends in it, and a line left empty by a removal goes.
applyTextEdit(lines, e) ==
  LET endLine == IF e.end[1] >= Len(lines) THEN Len(lines) - 1 ELSE e.end[1]
      first   == lines[e.start[1] + 1]
      last    == lines[endLine + 1]
      prefix  == SubSeq(first, 1, Cut(first, e.start[2]))
      suffix  == SubSeq(last, Cut(last, e.end[2]) + 1, Len(last))
      n       == Len(e.text)
      middle  == IF Empty(e.text) THEN (IF prefix \o suffix = <<>> THEN <<>> ELSE <<prefix \o suffix>>)
                 ELSE IF n = 1 THEN <<prefix \o e.text[1] \o suffix>>
                 ELSE <<prefix \o e.text[1]>> \o SubSeq(e.text, 2, n - 1) \o <<e.text[n] \o suffix>>
  IN  SubSeq(lines, 1, e.start[1]) \o middle \o SubSeq(lines, endLine + 2, Len(lines))

\* The file is left alone.
Rejected == [ok |-> FALSE, lines |-> <<>>]

Edited(lines) == [ok |-> TRUE, lines |-> lines]

Written(text) == [ok |-> TRUE, text |-> text]

\* Mutant: the edits with the earlier start first.
SortingsUp(edits) ==
  {s \in [DOMAIN edits -> DOMAIN edits] :
     /\ \A i, j \in DOMAIN edits : i # j => s[i] # s[j]
     /\ \A i, j \in DOMAIN edits : i < j => ~Before(edits[s[j]].start, edits[s[i]].start)}

\* The edits with the later start first; the sort is not stable, so edits of
\* one start come in any order.
Sortings(edits) ==
  {s \in [DOMAIN edits -> DOMAIN edits] :
     /\ \A i, j \in DOMAIN edits : i # j => s[i] # s[j]
     /\ \A i, j \in DOMAIN edits : i < j => ~Before(edits[s[i]].start, edits[s[j]].start)}

Step(r, e) ==
  IF r.ok /\ e.start[1] < Len(r.lines) THEN Edited(applyTextEdit(r.lines, e)) ELSE Rejected

\* A document that ended with its ending ends with it.
Ended(text, content, ending) ==
  IF EndsWith(content, ending) /\ ~EndsWith(text, ending) THEN text \o ending ELSE text

\* What may become of the file.
applyTextEdits(content, edits) ==
  LET ending == lineEnding(content)
      lines  == splitLines(content, ending)
  IN  IF \E i, j \in DOMAIN edits : i < j /\ rangesOverlap(edits[i], edits[j]) THEN {Rejected}
      ELSE {LET r == FoldLeft(Step, Edited(lines), [i \in DOMAIN edits |-> edits[s[i]]])
            IN  IF r.ok THEN Written(Ended(joinLines(r.lines, ending), content, ending))
                ELSE Rejected : s \in Sortings(edits)}

-----------------------------------------------------------------------------
(* The reference: all the edits refer to the document as it was, whose      *)
(* ending and that of the new texts is one character.                       *)

Flat(lines) == joinLines(lines, <<Newline>>)

\* A text of the reference as it is written with an ending.
Rendered(text, ending) ==
  FlattenSeq([k \in DOMAIN text |-> IF text[k] = Newline THEN ending ELSE <<text[k]>>])

\* The characters before a position.
OffsetOf(lines, p) == Len(Flat(SubSeq(lines, 1, p[1]))) + (IF p[1] > 0 THEN 1 ELSE 0) + p[2]

\* The edit that does nothing.
Nothing == [start |-> <<0, 0>>, end |-> <<0, 0>>, text |-> << <<>> >>]

\* At every place of the document the texts of the edits that start there, and
\* the character unless an edit removes it.
Simultaneously(lines, edits) ==
  LET old == Flat(lines)
      From(e) == OffsetOf(lines, e.start)
      To(e)   == OffsetOf(lines, e.end)
      Text(o) == FlattenSeq([i \in DOMAIN edits |->
                   IF From(edits[i]) = o THEN Flat(edits[i].text) ELSE <<>>])
      Gone(o) == \E i \in DOMAIN edits : From(edits[i]) <= o /\ o < To(edits[i])
  IN  FlattenSeq([n \in 1..(Len(old) + 1) |->
        Text(n - 1) \o (IF n > Len(old) \/ Gone(n - 1) THEN <<>> ELSE <<old[n]>>)])
=============================================================================
