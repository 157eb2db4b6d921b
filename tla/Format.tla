------------------------------- MODULE Format --------------------------------
(***************************************************************************)
(* The layout of SQL, one clause per line (sqlformat/format.go).  It       *)
(* changes the whitespace between tokens only; the case of reserved words, *)
(* which it also changes, is not told apart here.                          *)
(***************************************************************************)
EXTENDS Sql

Spaces == {"nl", "sp"}

\* A word right after one of these is a name whatever it spells.
MakesAName(s, tk) == tk.kind = "punct" /\ s[tk.pos] \in {".", "@"}

\* A level of parentheses.
Frame(clauseLevel, indent) ==
  [clauseLevel |-> clauseLevel, indent |-> indent, clause |-> "none", between |-> FALSE]

\* The formatter: the lines laid out, the one under way, and the indent the
\* next token starts a line at, if it does.
Formatter == [stack |-> <<Frame(TRUE, 0)>>, lines |-> <<>>, cur |-> <<>>, pending |-> {}, blank |-> FALSE]
TopFrame(f) == Last(f.stack)
WithTop(f, frame) == [f EXCEPT !.stack = Append(Front(@), frame)]

AtLineStart(f) == \A i \in DOMAIN f.cur : f.cur[i] \in Spaces

TrimRight(line) ==
  LET kept == {i \in DOMAIN line : line[i] # "sp"}
  IN IF kept = {} THEN <<>> ELSE SubSeq(line, 1, CHOOSE i \in kept : \A j \in kept : j <= i)

NewlineAlways(f, indent, blank) ==
  [f EXCEPT !.lines = Append(@, TrimRight(f.cur)), !.cur = [k \in 1..indent |-> "sp"]]
\* At the start of a line only the indent changes, so that two rules asking
\* for a break make one.
Newline(f, indent, blank) ==
  LET done == IF AtLineStart(f) THEN f.lines ELSE Append(f.lines, TrimRight(f.cur))
  IN [f EXCEPT !.lines = IF blank /\ (done = <<>> \/ Last(done) # <<>>) THEN Append(done, <<>>) ELSE done,
               !.cur = [k \in 1..indent |-> "sp"]]

conditionClause == {"WHERE", "HAVING", "ON"}
joinWords == {"LEFT", "RIGHT", "INNER", "OUTER", "CROSS", "NATURAL"}

\* Whether the reserved word at i opens a line.
StartsClause(s, toks, i) ==
  LET word     == s[toks[i].pos]
      prevWord == IF i > 1 /\ toks[i - 1].kind = "word" THEN s[toks[i - 1].pos] ELSE ""
      prevIs(p) == i > 1 /\ IsPunct(s, toks[i - 1], p)
  IN \/ word \in {"SELECT", "FROM", "WHERE", "GROUP", "ORDER", "HAVING", "LIMIT", "UNION"}
     \/ word = "VALUES" /\ ~prevIs("=") /\ ~prevIs(",")
     \/ word = "SET" /\ prevWord \notin {"CHARACTER", "CHARSET"}
     \/ word = "ON" /\ i < Len(toks) /\ IsKeyword(s, toks[i + 1], "DUPLICATE")
     \/ /\ word \in {"LEFT", "RIGHT"} /\ prevWord \notin joinWords
        /\ ~(i < Len(toks) /\ IsPunct(s, toks[i + 1], "("))
     \/ word \in {"INNER", "CROSS", "NATURAL", "STRAIGHT_JOIN", "JOIN"} /\ prevWord \notin joinWords

\* What separates token i from the one before it.
Gap(s, toks, i) == IF i = 1 THEN <<>> ELSE SubSeq(s, toks[i - 1].end + 1, toks[i].pos - 1)
OnItsOwnLine(s, toks, i) == \E k \in DOMAIN Gap(s, toks, i) : Gap(s, toks, i)[k] = "nl"
Parted(s, toks, i) ==
  \/ \E k \in DOMAIN Gap(s, toks, i) : Gap(s, toks, i)[k] \in Spaces
  \/ i > 1 /\ toks[i - 1].kind = "word" /\ toks[i].kind = "word"

\* The breaks owed before token i: the one pending, which a remark on the same
\* line leaves pending, and a comment's own.
Owed(f, s, toks, i) ==
  LET comment == toks[i].kind = "comment"
      flush   == f.pending # {} /\ ~(comment /\ ~OnItsOwnLine(s, toks, i))
      g       == IF flush THEN [Newline(f, CHOOSE n \in f.pending : TRUE, f.blank) EXCEPT !.pending = {}, !.blank = FALSE]
                 ELSE f
  IN IF comment /\ OnItsOwnLine(s, toks, i) THEN Newline(g, TopFrame(g).indent, FALSE) ELSE g

\* What a word that is no name does to its frame and its line.
OfTheWord(f, s, toks, i) ==
  LET word   == s[toks[i].pos]
      fr     == TopFrame(f)
      opens  == fr.clauseLevel /\ StartsClause(s, toks, i)
      fr1    == IF opens THEN [fr EXCEPT !.clause = IF word = "ON" THEN "ON DUPLICATE" ELSE word, !.between = FALSE]
                ELSE fr
      g      == IF opens THEN Newline(f, fr.indent, FALSE) ELSE f
      closes == word = "AND" /\ fr1.between
      breaks == word \in {"AND", "OR", "XOR"} /\ ~closes /\ fr1.clauseLevel /\ fr1.clause \in conditionClause
      fr2    == [fr1 EXCEPT !.between = (@ \/ word = "BETWEEN") /\ ~closes,
                            !.clause = IF word = "ON" /\ fr1.clauseLevel /\ @ # "ON DUPLICATE" THEN "ON" ELSE @]
      h      == WithTop(g, fr2)
  IN IF breaks THEN Newline(h, fr2.indent + 1, FALSE) ELSE h

Popped(f, s, tk) ==
  IF ~IsPunct(s, tk, ")") \/ Len(f.stack) = 1 THEN f
  ELSE LET below == Front(f.stack)
           g == IF TopFrame(f).clauseLevel THEN Newline(f, Last(below).indent, FALSE) ELSE f
       IN [g EXCEPT !.stack = below]

Wrote(f, s, toks, i) ==
  LET space == IF ~AtLineStart(f) /\ Parted(s, toks, i) THEN <<"sp">> ELSE <<>>
  IN [f EXCEPT !.cur = @ \o space \o SubSeq(s, toks[i].pos, toks[i].end)]

IsLineComment(s, tk) == tk.kind = "comment" /\ s[tk.pos] \in LineComments

NothingOwed(f, fr, s, toks, i) == f
\* What token i leaves to the next one; `fr' is the frame it began in.
AfterToken(f, fr, s, toks, i) ==
  LET tk       == toks[i]
      next     == i < Len(toks)
      subquery == next /\ \E w \in {"SELECT", "WITH"} : IsKeyword(s, toks[i + 1], w)
  IN CASE IsPunct(s, tk, "(") ->
            IF subquery THEN [f EXCEPT !.stack = Append(@, Frame(TRUE, fr.indent + 1)), !.pending = {fr.indent + 1}]
            ELSE [f EXCEPT !.stack = Append(@, Frame(FALSE, fr.indent))]
       [] IsPunct(s, tk, ",") -> IF fr.clauseLevel /\ fr.clause = "SELECT" THEN [f EXCEPT !.pending = {fr.indent + 1}] ELSE f
       [] IsPunct(s, tk, ";") ->
            LET g == [f EXCEPT !.stack = <<Frame(TRUE, 0)>>]
            IN IF next THEN [g EXCEPT !.pending = {0}, !.blank = TRUE] ELSE g
       [] IsLineComment(s, tk) -> IF f.pending = {} THEN [f EXCEPT !.pending = {TopFrame(f).indent}] ELSE f
       [] OTHER -> f

IsName(s, toks, i) == toks[i].kind # "word" \/ (i > 1 /\ MakesAName(s, toks[i - 1]))
Put(f, s, toks, i) == AfterToken(Wrote(Popped(f, s, toks[i]), s, toks, i), TopFrame(f), s, toks, i)
FormatToken(f, s, toks, i) ==
  Put(IF IsName(s, toks, i) THEN Owed(f, s, toks, i) ELSE OfTheWord(Owed(f, s, toks, i), s, toks, i), s, toks, i)

Joined(lines) == FlattenSeq([k \in DOMAIN lines |-> IF k = 1 THEN lines[k] ELSE <<"nl">> \o lines[k]])

AllLines(f) == Joined(Append(f.lines, TrimRight(f.cur)))
Body(s, toks) ==
  LET after[i \in 0..Len(toks)] == IF i = 0 THEN Formatter ELSE FormatToken(after[i - 1], s, toks, i)
  IN AllLines(after[Len(toks)])

\* The self-check.
StripSpace(s) == SelectSeq(s, LAMBDA x : x \notin Spaces)
KindsAndTexts(s, toks) == [k \in DOMAIN toks |-> <<toks[k].kind, SubSeq(s, toks[k].pos, toks[k].end)>>]
TokensOf(s) == KindsAndTexts(s, Tokenize(s))
SameStatement(before, after) == StripSpace(before) = StripSpace(after) /\ TokensOf(before) = TokensOf(after)

LaidOut(s, toks) ==
  IF toks = <<>> THEN s ELSE SubSeq(s, 1, toks[1].pos - 1) \o Body(s, toks) \o SubSeq(s, Last(toks).end + 1, Len(s))

\* The text laid out, or why it is refused.
SelfChecked(s, out) ==
  IF SameStatement(s, out) THEN [err |-> "none", out |-> out] ELSE [err |-> "changed", out |-> s]
FormatTokens(s, toks) ==
  IF OpensOne(s, toks) THEN [err |-> "version comment", out |-> s] ELSE SelfChecked(s, LaidOut(s, toks))
FormatText(s) == FormatTokens(s, Tokenize(s))

\* Offsets are counted in lexemes left of them.
WithinToken(at, tk) == tk.pos - 1 < at /\ at < tk.end
Splits(s, toks, from, to) ==
  \E i \in DOMAIN toks :
    \/ WithinToken(from, toks[i]) \/ WithinToken(to, toks[i])
    \/ toks[i].pos - 1 = from /\ i > 1 /\ MakesAName(s, toks[i - 1])

FormatRange(s, toks, from, to) ==
  LET selected == SubSeq(s, from + 1, to)
  IN IF Splits(s, toks, from, to) THEN [err |-> "splits token", out |-> selected] ELSE FormatText(selected)

\* The offset of the same character in the text laid out.
Offset(before, after, at) ==
  LET n == Len(StripSpace(SubSeq(before, 1, at)))
      same == {i \in 0..(Len(after) - 1) : after[i + 1] \notin Spaces /\ Len(StripSpace(SubSeq(after, 1, i))) = n}
  IN IF same = {} THEN Len(after) ELSE CHOOSE i \in same : TRUE
=============================================================================
