------------------------------- MODULE SqlText -------------------------------
(***************************************************************************)
(* Every text of up to MaxTyped lexemes typed after a beginning, and       *)
(* what must hold of the client's reading (module Sql) and its layout      *)
(* (module Format).                                                        *)
(***************************************************************************)
EXTENDS Format

CONSTANTS
  Typable,    \* what is typed
  Beginnings, \* texts there already
  MaxTyped    \* bound: lexemes typed

ASSUME TextsAreStrings == Typable \subseteq STRING /\ Beginnings \subseteq Seq(STRING)

VARIABLES
  script,  \* the text
  typed    \* lexemes of it typed

ScriptInit == script \in Beginnings /\ typed = 0

Type ==
  /\ typed < MaxTyped
  /\ \E x \in Typable : script' = Append(script, x)
  /\ typed' = typed + 1

ScriptNext == Type
ScriptSpec == ScriptInit /\ [][ScriptNext]_<<script, typed>>

-----------------------------------------------------------------------------
(* What the server makes of the same text: its lexer leaves an executable    *)
(* comment only at a "*/" outside of a literal, and passes over one from a   *)
(* version on it has not.  It takes "--1" for two signs and a number and,     *)
(* being MariaDB, runs what "/*M!" opens.                                     *)

ServerStep(in, c) ==
  CASE in \in Quotes         -> IF c = in THEN "code" ELSE IF in = "q" /\ c = "bs" THEN "q escaped" ELSE in
    [] in = "q escaped"      -> "q"
    [] in \in LineComments   -> IF c = "nl" THEN "code" ELSE in
    [] in \in BlockComments \cup {"/*!9"} -> IF c = "*/" THEN "code" ELSE in
    [] OTHER                 -> IF c \in Quotes \cup {"#", "--", "/*", "/*!9"} THEN c ELSE "code"

\* What it is inside of after each lexeme.
Server(s) ==
  LET inside[i \in 0..Len(s)] == IF i = 0 THEN "code" ELSE ServerStep(inside[i - 1], s[i]) IN inside
\* The places of the lexemes it runs.
Runs(s, inside) ==
  {i \in 1..Len(s) : inside[i - 1] = "code" /\ inside[i] = "code" /\ s[i] \notin {"nl", "sp", "*/", "/*!", "/*M!"}}
Executed(s) == Runs(s, Server(s))

\* How many parentheses are open after each lexeme.
Inward(c, depth) == IF c = "(" THEN depth + 1 ELSE IF c = ")" /\ depth > 0 THEN depth - 1 ELSE depth
DepthsOf(s, ran) ==
  LET deep[i \in 0..Len(s)] ==
        IF i = 0 THEN 0 ELSE IF i \in ran THEN Inward(s[i], deep[i - 1]) ELSE deep[i - 1] IN deep

\* Where the two lexers part, for st the client's before the i-th lexeme: at
\* what only one of them takes for a comment, and at a "*/" that ends for one of
\* them the literal or comment it is inside of an executable comment.
PartAt(st, s, i) ==
  \/ st.in \in {"code", "word"} /\ s[i] \in {"--1", "/*M!", "/*!9"}
  \/ st.in \notin {"code", "word", "/*"} /\ i = st.ends
TheyPart(s, after) == \E i \in DOMAIN s : PartAt(after[i - 1], s, i)

-----------------------------------------------------------------------------
(* What the properties say of a text.  Each takes what it needs twice as a   *)
(* parameter.                                                                *)

\* A read, by the lexemes the server runs.
IsARead(s, ran) ==
  /\ \A i \in ran : s[i] = ";" => \E j \in ran : j < i /\ s[j] = "("
  /\ \E i \in ran : /\ \A j \in ran : j < i => s[j] = "("
                   /\ s[i] \in {"SELECT", "WITH", "TABLE", "VALUES", "SHOW", "DESCRIBE", "DESC", "EXPLAIN"}
  /\ \A i \in ran : s[i] \notin {"UPDATE", "DELETE", "INTO"}
ServerReads(s) == IsARead(s, Executed(s))
\* What dv query sends of a statement.
Sent(s, toks) == IF AutoLimit(s, toks) THEN AppendLimit(s, toks) ELSE CutOf(s, toks)

\* The statement cut out of its text has the tokens there that it had in it.
ReadsTheSame(toks, sql) ==
  Tokenize(sql) = [k \in DOMAIN toks |-> Token(toks[k].kind, toks[k].pos - (toks[1].pos - 1),
                                               toks[k].end - (toks[1].pos - 1), toks[k].depth)]

\* Nothing of a text is left open: no literal, no parenthesis.
NothingOpen(s, after, toks) ==
  /\ after[Len(s)].depth = 0
  /\ \A i \in DOMAIN toks : toks[i].kind \in {"string", "ident"} => after[toks[i].end].in = "code"

\* The server's locking clauses.
Locks(s, ran, i) ==
  \E j \in ran : /\ j > i /\ \A k \in ran : ~(i < k /\ k < j)
                 /\ <<s[i], s[j]>> \in {<<"FOR", "UPDATE">>, <<"FOR", "SHARE">>, <<"LOCK", "IN">>}
\* Every FOR and LOCK at the top of the statement begins one.
TheyAllLock(s, ran, depths) ==
  \A i \in ran : s[i] \in {"FOR", "LOCK"} /\ depths[i - 1] = 0 => Locks(s, ran, i)

\* Out is sql with two lexemes more after the a-th, for the server too: it runs
\* them, and of the others those it ran.
OnlyTheLimitAdded(sql, ran, out, seen, a) ==
  /\ Len(out) = Len(sql) + 2 /\ out[a + 1] = "LIMIT" /\ {a + 1, a + 2} \subseteq seen
  /\ \A i \in DOMAIN sql : LET j == IF i <= a THEN i ELSE i + 2
                            IN out[j] = sql[i] /\ (j \in seen <=> i \in ran)
\* That place is at the top, and nothing runs after it but a locking clause.
EndsIt(sql, ran, depths, a) ==
  /\ depths[a] = 0
  /\ (\A i \in ran : i <= a) \/ (a + 1 \in ran /\ Locks(sql, ran, a + 1))
LimitSeen(sql, ran, depths, out, seen) ==
  \E a \in 0..Len(sql) : OnlyTheLimitAdded(sql, ran, out, seen, a) /\ EndsIt(sql, ran, depths, a)

\* A statement cut out of its text, and no literal and no parenthesis left open.
IsWhole(toks, sql) == ReadsTheSame(toks, sql) /\ NothingOpen(sql, Lexed(sql), Tokenize(sql))
IsClear(sql) ==
  ~TheyPart(sql, Lexed(sql)) /\ TheyAllLock(sql, Executed(sql), DepthsOf(sql, Executed(sql)))
SeenIn(sql, out) ==
  out # sql => LimitSeen(sql, Executed(sql), DepthsOf(sql, Executed(sql)), out, Executed(out))

\* The last statement that begins at or before the caret, or the first one.
LastReached(stmts, offset) ==
  LET begun == {k \in DOMAIN stmts : stmts[k][1].pos - 1 <= offset}
  IN IF begun = {} THEN stmts[1] ELSE stmts[CHOOSE k \in begun : \A m \in begun : m <= k]
Reached(stmts) ==
  stmts # <<>> => \A offset \in 0..Len(script) : TheOneAt(stmts, offset) = LastReached(stmts, offset)

Selections == {r \in (0..Len(script)) \X (0..Len(script)) : r[1] < r[2]}
EndsInSpace(s, toks) == \E i \in DOMAIN toks : s[toks[i].end] = "sp"
\* The text with the selection laid out, if it was, has the tokens it had.
TokensKept(toks, r, laid) ==
  /\ laid.err = "none" =>
       TokensOf(SubSeq(script, 1, r[1]) \o laid.out \o SubSeq(script, r[2] + 1, Len(script))) = KindsAndTexts(script, toks)
  /\ laid.err = "changed" => EndsInSpace(script, toks)
KeptEverywhere(toks) == \A r \in Selections : TokensKept(toks, r, FormatRange(script, toks, r[1], r[2]))

Again(once) == once.err = "none" => FormatText(once.out) = once

-----------------------------------------------------------------------------
(* Properties *)

(* What dv query lets through and sends is, once the server reads it by its *)
(* own rules, one read: no comment, literal or second statement hides a      *)
(* write from the client, wherever the text has nothing that only one of the *)
(* two takes for a comment (headless.Admit).                                 *)
AdmittedIsARead ==
  Admit(script) /\ ~TheyPart(script, Lexed(script)) => ServerReads(Sent(script, Split(script)[1]))

(* The LIMIT the client adds is one the server sees at the top of the        *)
(* statement, after everything but a locking clause, and it runs the rest of *)
(* the statement as it did before: no comment swallows the LIMIT, no literal *)
(* or subquery takes it.  So wherever the two lexers agree on the statement, *)
(* and its FOR and LOCK begin locking clauses (sqlparse.AppendLimit).        *)
LimitIsSeen ==
  \A toks \in ToSet(Split(script)) :
    AutoLimit(script, toks) /\ IsWhole(toks, CutOf(script, toks)) /\ IsClear(CutOf(script, toks)) =>
      SeenIn(CutOf(script, toks), AppendLimit(script, toks))

(* What Ctrl+Enter runs is the last statement that begins at or before the   *)
(* caret, or the first one: never one the caret has not reached              *)
(* (sqlparse.StatementAt).                                                   *)
CaretRunsItsStatement == Reached(Split(script))

(* Laying out a selection, the whole text included, changes no token in it  *)
(* or around it: no comment comes to swallow what followed it, no two words  *)
(* are joined, no literal is touched.  And the self-check never has to       *)
(* refuse what the layout made, but of a line comment, or an open literal,   *)
(* that ends in a space (sqlformat.FormatRange).                             *)
FormatKeepsTheStatement == ~HasExecutableComment(script) => KeptEverywhere(Tokenize(script))

(* Laying out a text already laid out changes nothing: the breaks that two   *)
(* rules ask for, and those a comment or a semicolon owes the next token,    *)
(* come out the same the second time (sqlformat.Format).                     *)
FormatIsStable == Again(FormatText(script))

-----------------------------------------------------------------------------
(* What the code says of itself and does not keep: README, Disagreements.    *)

(* What dv query admits is "a plain read" (admit.go).  SELECT 5--1 INTO ...  *)
(* is not, nor is what MariaDB runs of a comment.                            *)
NothingHidesAWrite == Admit(script) => ServerReads(Sent(script, Split(script)[1]))

(* A trailing comment never swallows the LIMIT, and only a locking clause    *)
(* follows it (AppendLimit's comment).  It comes before any FOR, and before  *)
(* what only the client takes for a comment.                                 *)
LimitEndsTheStatement ==
  \A toks \in ToSet(Split(script)) :
    AutoLimit(script, toks) /\ IsWhole(toks, CutOf(script, toks)) =>
      SeenIn(CutOf(script, toks), AppendLimit(script, toks))

(* A statement cut out of a text reads as it did inside of it.  Its span     *)
(* leaves out the marks of an executable comment that opens or ends it       *)
(* (sqlparse.trimSpan).                                                      *)
CutReadsTheSame == \A toks \in ToSet(Split(script)) : ReadsTheSame(toks, CutOf(script, toks))

(* The layout never changes a text, so that its self-check only ever finds a *)
(* mistake of the layout.  It trims the space a line comment ends in         *)
(* (format.go: errChanged "indicates a bug here").                           *)
NeverRefused == FormatText(script).err # "changed"
=============================================================================
