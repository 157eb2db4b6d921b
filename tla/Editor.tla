------------------------------- MODULE Editor --------------------------------
(***************************************************************************)
(* What the editor's commands do to its text: motions by word and line     *)
(* (ui/motion.go) and edits of whole lines (ui/edit.go).  An offset is the *)
(* number of lexemes left of it.                                           *)
(***************************************************************************)
EXTENDS Format

(* Motions *)

WordStart(s, at) ==
  LET starts == {i \in 0..at : \A j \in (i + 1)..at : s[j] \in Letters}
  IN CHOOSE i \in starts : \A j \in starts : i <= j

wordLeft(s, at) ==
  LET words == {i \in 1..at : IsWord(s[i])}
      last  == CHOOSE i \in words : \A j \in words : j <= i
  IN IF words = {} THEN 0 ELSE IF s[last] \in Letters THEN WordStart(s, last) ELSE last - 1

wordRight(s, at) ==
  LET words == {i \in (at + 1)..Len(s) : IsWord(s[i])}
      first == CHOOSE i \in words : \A j \in words : i <= j
      ends  == {e \in first..Len(s) : \A k \in first..e : s[k] \in Letters}
  IN IF words = {} THEN Len(s) ELSE IF ends = {} THEN first ELSE CHOOSE e \in ends : \A k \in ends : k <= e

lineStartAt(s, at) ==
  LET breaks == {i \in 1..at : s[i] = "nl"}
  IN IF breaks = {} THEN 0 ELSE CHOOSE i \in breaks : \A j \in breaks : j <= i

lineEndAt(s, at) ==
  LET breaks == {i \in (at + 1)..Len(s) : s[i] = "nl"}
  IN IF breaks = {} THEN Len(s) ELSE (CHOOSE i \in breaks : \A j \in breaks : i <= j) - 1

-----------------------------------------------------------------------------
(* Edits: a replacement of the lexemes between two offsets. *)

Replacement(start, end, new) == [start |-> start, end |-> end, text |-> new]

deleteWordLeft(s, at)    == Replacement(wordLeft(s, at), at, <<>>)
deleteToLineStart(s, at) == Replacement(lineStartAt(s, at), at, <<>>)

\* The whole lines between two offsets.
lineSpan(s, from, to) == [start |-> lineStartAt(s, from), end |-> lineEndAt(s, to)]
Block(s, span) == SubSeq(s, span.start + 1, span.end)

duplicateLines(s, from, to) ==
  LET span == lineSpan(s, from, to)
  IN Replacement(span.start, span.end, Block(s, span) \o <<"nl">> \o Block(s, span))

\* The line break after the lines goes with them, or the one before them when
\* they are the last.
deleteLines(s, from, to) ==
  LET span == lineSpan(s, from, to)
  IN CASE span.end < Len(s) -> Replacement(span.start, span.end + 1, <<>>)
       [] span.end = Len(s) /\ span.start > 0 -> Replacement(span.start - 1, span.end, <<>>)
       [] OTHER -> Replacement(span.start, span.end, <<>>)

\* Where the content of the line that begins after `at' begins, and whether
\* there is any.
Indent(s, at) ==
  LET e == lineEndAt(s, at)
      content == {i \in (at + 1)..e : s[i] # "sp"}
  IN IF content = {} THEN e ELSE (CHOOSE i \in content : \A j \in content : i <= j) - 1
Blank(s, at) == Indent(s, at) = lineEndAt(s, at)
Commented(s, at) == ~Blank(s, at) /\ s[Indent(s, at) + 1] = "--"

toggleComment(s, from, to) ==
  LET span    == lineSpan(s, from, to)
      starts  == {span.start} \cup {i \in (span.start + 1)..span.end : s[i] = "nl"}
      content == {at \in starts : ~Blank(s, at)}
      undo    == content # {} /\ \A at \in content : Commented(s, at)
      marks   == {Indent(s, at) : at \in content}
      Lexeme(i) == CASE undo /\ i - 1 \in marks -> <<>>
                     [] ~undo /\ i - 1 \in marks -> <<"--", s[i]>>
                     [] OTHER -> <<s[i]>>
  IN Replacement(span.start, span.end,
                 FlattenSeq([k \in 1..(span.end - span.start) |-> Lexeme(span.start + k)]))
=============================================================================
