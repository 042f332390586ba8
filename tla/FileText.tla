------------------------------ MODULE FileText ------------------------------
(***************************************************************************)
(* What the file tools compute: the lines that read_file returns, and the  *)
(* texts that edit_file and replace_lines write (tools/filesystem).        *)
(*                                                                         *)
(* A text is a sequence of characters.  Places in it are offsets, that is, *)
(* numbers of characters before the place; lines count from 1.             *)
(***************************************************************************)
EXTENDS Integers, FiniteSets, Sequences, SequencesExt

CONSTANTS
  Characters,
  Newline,
  Null,       \* a field that is missing or of another type
  Refused,    \* no text: the call is answered with an error
  Width       \* bits of an int

Texts == Seq(Characters)

ASSUME NewlineAssumption == Newline \in Characters
ASSUME NullAssumption == Null \notin Texts
ASSUME RefusedAssumption == Refused \notin Texts
ASSUME WidthAssumption == Width \in Nat \ {0}

\* json's get<int>() keeps the low bits of a number.
ToInt(n) == ((n + 2^(Width - 1)) % 2^Width) - 2^(Width - 1)

-----------------------------------------------------------------------------
(***************************************************************************)
(* Lines.                                                                  *)
(***************************************************************************)
Newlines(text) == {i \in DOMAIN text : text[i] = Newline}

EndsOpen(text) == text # << >> /\ Last(text) # Newline

TotalLines(text) == Cardinality(Newlines(text)) + IF EndsOpen(text) THEN 1 ELSE 0

\* After the n-th newline, or at the end when there are fewer.
AfterLines(text, n) ==
  IF n < 1 THEN 0
  ELSE IF n > Cardinality(Newlines(text)) THEN Len(text)
  ELSE CHOOSE i \in Newlines(text) :
         Cardinality({j \in Newlines(text) : j <= i}) = n

-----------------------------------------------------------------------------
(***************************************************************************)
(* read_file with an offset or a limit (52-92).                            *)
(***************************************************************************)
\* Mutant of LinesBefore: lines that count from 0.
LinesFromZero(offset) == IF offset < 1 THEN 0 ELSE offset

LinesBefore(offset) == IF offset < 1 THEN 0 ELSE offset - 1

\* A limit below zero is none.
ReadLines(text, offset, limit) ==
  LET before == LinesBefore(offset)
      end == IF limit < 0 THEN Len(text) ELSE AfterLines(text, before + limit)
  IN  IF before > Cardinality(Newlines(text)) THEN Refused
      ELSE SubSeq(text, AfterLines(text, before) + 1, end)

-----------------------------------------------------------------------------
(***************************************************************************)
(* edit_file (68-99): items are applied  one after the other, each to the  *)
(* first match, and all of them or none.                                   *)
(***************************************************************************)
MatchesAt(text, search, offset) ==
  SubSeq(text, offset + 1, offset + Len(search)) = search

Matches(text, search) ==
  {offset \in 0..(Len(text) - Len(search)) : MatchesAt(text, search, offset)}

\* Mutant of Place: the last match.
LastPlace(text, search) ==
  CHOOSE offset \in Matches(text, search) :
    \A other \in Matches(text, search) : other <= offset

Place(text, search) ==
  CHOOSE offset \in Matches(text, search) :
    \A other \in Matches(text, search) : offset <= other

ApplyItem(text, item) ==
  IF \/ text = Refused
     \/ item.search = Null \/ item.replace = Null
     \/ Matches(text, item.search) = {}
  THEN Refused
  ELSE LET offset == Place(text, item.search)
       IN  SubSeq(text, 1, offset) \o item.replace
             \o SubSeq(text, offset + Len(item.search) + 1, Len(text))

Edited(text, items) == FoldLeft(ApplyItem, text, items)

-----------------------------------------------------------------------------
(***************************************************************************)
(* replace_lines (69-134).                                                 *)
(***************************************************************************)
\* Mutant of Ended: the content may run into the next line.
LeftOpen(content) == content

Ended(content) ==
  IF EndsOpen(content) THEN Append(content, Newline) ELSE content

InRange(text, start_line, end_line) ==
  /\ start_line \in 1..TotalLines(text)
  /\ end_line \in start_line..TotalLines(text)

LinesReplaced(text, start_line, end_line, content) ==
  IF ~InRange(text, start_line, end_line) THEN Refused
  ELSE SubSeq(text, 1, AfterLines(text, start_line - 1)) \o Ended(content)
         \o SubSeq(text, AfterLines(text, end_line) + 1, Len(text))

-----------------------------------------------------------------------------
(***************************************************************************)
(* References, which the properties of FileTools compare these with.       *)
(***************************************************************************)
\* A text cut behind every newline.
Lines(text) ==
  LET add(lines, c) ==
        IF lines = << >> \/ ~EndsOpen(Last(lines)) THEN Append(lines, <<c>>)
        ELSE [lines EXCEPT ![Len(lines)] = Append(@, c)]
  IN  FoldLeft(add, << >>, text)

\* What chunks of so many lines, read one after another until none is left,
\* hold together.
InChunks(text, limit) ==
  LET chunk(k) == ReadLines(text, 1 + (k - 1) * limit, limit)
      none == CHOOSE k \in 1..(Len(text) + 2) :
                /\ chunk(k) \in {<< >>, Refused}
                /\ \A j \in 1..(k - 1) : chunk(j) \notin {<< >>, Refused}
  IN  FlattenSeq([k \in 1..(none - 1) |-> chunk(k)])

\* The text without the first of its places where search is, and with replace.
IsEdit(text, item, new) ==
  \E offset \in 0..Len(text) :
    LET rest == SubSeq(text, offset + 1, Len(text))
    IN  /\ IsPrefix(item.search, rest)
        /\ \A earlier \in 0..(offset - 1) :
             ~IsPrefix(item.search, SubSeq(text, earlier + 1, Len(text)))
        /\ IsPrefix(SubSeq(text, 1, offset) \o item.replace, new)
        /\ SubSeq(new, offset + Len(item.replace) + 1, Len(new))
             = SubSeq(rest, Len(item.search) + 1, Len(rest))
=============================================================================
