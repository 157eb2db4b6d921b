------------------------------- MODULE Sql -----------------------------------
(***************************************************************************)
(* What the client makes of SQL text before the server sees it: its tokens *)
(* and statements (sqlparse/token.go, statement.go), the LIMIT it adds     *)
(* (limit.go), and what dv query lets through (headless/admit.go).         *)
(*                                                                         *)
(* A text is a sequence of lexemes.  A keyword is one, with the space      *)
(* around it, and so is a letter of a name; what opens or closes a         *)
(* literal, a comment or a parenthesis is one each, and means nothing      *)
(* inside another literal or comment.                                      *)
(***************************************************************************)
EXTENDS Naturals, FiniteSets, Sequences, SequencesExt

CONSTANTS
  Letters  \* lexemes that join with the letter after them into one word

Quotes  == {"q", "bt"}  \* a quote, a backtick
Marks   == {"bs", "#", "--", "--1", "nl", "sp", "/*", "/*M!", "*/", "/*!", "/*!9"}
Puncts  == {"(", ")", ";", ",", ".", "=", "@"}
\* "--" has the space the server wants after it, "--1" a digit in its place.
LineComments  == {"#", "--", "--1"}
BlockComments == {"/*", "/*M!"}  \* the second is MariaDB's to execute
Executable    == {"/*!", "/*!9"} \* the second from a version on the server has not
Openers == Quotes \cup LineComments \cup BlockComments
IsWord(x) == x \notin Quotes \cup Marks \cup Puncts

ASSUME LettersAreWords == \A x \in Letters : IsWord(x)

-----------------------------------------------------------------------------
(* Tokenize.  The lexer between two lexemes: what it is inside of, where     *)
(* that began, the parenthesis depth, and the "*/" that ends the executable  *)
(* comment it is in, which is the first one after its opening whatever lies  *)
(* between; 0 outside of one.                                                *)

Token(k, first, last, d) == [kind |-> k, pos |-> first, end |-> last, depth |-> d]

Began == [in |-> "code", from |-> 0, depth |-> 0, ends |-> 0, toks |-> <<>>]

Emit(st, k, first, last) == [st EXCEPT !.in = "code", !.toks = Append(@, Token(k, first, last, st.depth))]

KindOf(in) == CASE in \in {"q", "q escaped", "q doubled"} -> "string"
                [] in \in {"bt", "bt doubled"} -> "ident"
                [] in = "word" -> "word"
                [] OTHER -> "comment"

FirstClose(s, i) ==
  LET closes == {j \in (i + 1)..Len(s) : s[j] = "*/"}
  IN IF closes = {} THEN Len(s) + 1 ELSE CHOOSE j \in closes : \A k \in closes : j <= k

InCode(st, s, i) ==
  LET c == s[i]
  IN CASE c \in Openers -> [st EXCEPT !.in = c, !.from = i]
       [] c \in Executable -> [st EXCEPT !.ends = IF @ = 0 THEN FirstClose(s, i) ELSE @]
       [] c \in {"nl", "sp"} -> st
       [] c = "("   -> [Emit(st, "punct", i, i) EXCEPT !.depth = @ + 1]
       [] c = ")"   -> LET d == IF st.depth > 0 THEN st.depth - 1 ELSE 0
                       IN Emit([st EXCEPT !.depth = d], "punct", i, i)
       [] IsWord(c) -> IF c \in Letters THEN [st EXCEPT !.in = "word", !.from = i] ELSE Emit(st, "word", i, i)
       [] OTHER     -> Emit(st, "punct", i, i)

\* scanQuoted: a quote that is doubled or, but for a backtick, escaped, is part
\* of the literal.
InQuote(st, s, i) ==
  LET q == st.in
  IN CASE s[i] = "bs" /\ q = "q" -> [st EXCEPT !.in = "q escaped"]
       [] s[i] = q /\ i < Len(s) /\ i + 1 # st.ends /\ s[i + 1] = q ->
            [st EXCEPT !.in = IF q = "q" THEN "q doubled" ELSE "bt doubled"]
       [] s[i] = q /\ ~(i < Len(s) /\ i + 1 # st.ends /\ s[i + 1] = q) -> Emit(st, KindOf(q), st.from, i)
       [] OTHER -> st

Closing(st, i) ==
  [(IF st.in = "code" THEN st ELSE Emit(st, KindOf(st.in), st.from, i - 1)) EXCEPT !.ends = 0]

LexStep(st, s, i) ==
  IF i = st.ends THEN Closing(st, i)
  ELSE CASE st.in = "code" -> InCode(st, s, i)
         [] st.in = "word" -> IF s[i] \in Letters THEN st ELSE InCode(Emit(st, "word", st.from, i - 1), s, i)
         [] st.in \in Quotes -> InQuote(st, s, i)
         [] st.in \in {"q escaped", "q doubled"} -> [st EXCEPT !.in = "q"]
         [] st.in = "bt doubled" -> [st EXCEPT !.in = "bt"]
         [] st.in \in LineComments -> IF s[i] = "nl" THEN Emit(st, "comment", st.from, i - 1) ELSE st
         [] st.in \in BlockComments -> IF s[i] = "*/" THEN Emit(st, "comment", st.from, i) ELSE st

\* The lexer after each lexeme, and after the last.
Lexed(s) ==
  LET after[i \in 0..Len(s)] == IF i = 0 THEN Began ELSE LexStep(after[i - 1], s, i) IN after
Lex(s) == Lexed(s)[Len(s)]

\* A literal or a comment nobody closed runs to the end of the input.
AtTheEndOf(s, st) == IF st.in = "code" THEN st.toks ELSE Emit(st, KindOf(st.in), st.from, Len(s)).toks
Tokenize(s) == AtTheEndOf(s, Lex(s))

-----------------------------------------------------------------------------
(* Statements.  A statement is the sequence of its tokens; s is their text.  *)

IsKeyword(s, tk, name) == tk.kind = "word" /\ s[tk.pos] = name
IsPunct(s, tk, p) == tk.kind = "punct" /\ s[tk.pos] = p

IsEmpty(toks) == \A i \in DOMAIN toks : toks[i].kind = "comment"

\* Split: at the semicolons outside of every parenthesis.
Separates(s, tk) == IsPunct(s, tk, ";") /\ tk.depth = 0

Cuts(s, toks) == {0} \cup {i \in 1..Len(toks) : Separates(s, toks[i])}
\* The tokens from a cut to the next one.
After(s, toks, c) ==
  LET later == {i \in Cuts(s, toks) \cup {Len(toks) + 1} : i > c}
  IN SubSeq(toks, c + 1, (CHOOSE i \in later : \A j \in later : i <= j) - 1)

Groups(s, toks) ==
  LET full == {c \in Cuts(s, toks) : ~IsEmpty(After(s, toks, c))}
  IN [k \in 1..Cardinality(full) |->
        After(s, toks, CHOOSE c \in full : Cardinality({d \in full : d < c}) = k - 1)]
Split(s) == Groups(s, Tokenize(s))

\* trimSpan: a statement's own text, from its first token to its last.
CutOf(s, toks) == SubSeq(s, toks[1].pos, Last(toks).end)

AtOrNext(stmts, offset) ==
  LET meant == {k \in 1..Len(stmts) : offset <= Last(stmts[k]).end \/ k = Len(stmts)}
  IN IF stmts = <<>> THEN <<>> ELSE stmts[CHOOSE k \in meant : \A m \in meant : k <= m]
\* StatementAt, for a caret right of `offset' lexemes: space between two
\* statements belongs to the first.
TheOneAt(stmts, offset) ==
  LET meant == {k \in 1..Len(stmts) :
                  \/ offset <= Last(stmts[k]).end
                  \/ k < Len(stmts) /\ offset < stmts[k + 1][1].pos - 1
                  \/ k = Len(stmts)}
  IN IF stmts = <<>> THEN <<>> ELSE stmts[CHOOSE k \in meant : \A m \in meant : k <= m]
StatementAt(s, offset) == TheOneAt(Split(s), offset)

Words(toks) == SelectSeq(toks, LAMBDA tk : tk.kind = "word")

\* The first word, past comments and parentheses; "" when something else leads.
Verb(s, toks) ==
  LET rest == {i \in DOMAIN toks : toks[i].kind # "comment" /\ ~IsPunct(s, toks[i], "(")}
  IN IF rest = {} \/ toks[Min(rest)].kind # "word" THEN "" ELSE s[toks[Min(rest)].pos]

verbs == {"SELECT", "WITH", "TABLE", "VALUES", "INSERT", "REPLACE", "UPDATE", "DELETE",
          "TRUNCATE", "DROP", "CREATE", "ALTER", "RENAME"}
ASSUME LettersAreNoKeywords ==
  Letters \cap (verbs \cup {"EXPLAIN", "ANALYZE", "FROM", "INTO", "LIMIT", "5", "FOR", "LOCK", "IN", "SHARE"}) = {}

verbKinds == [w \in verbs |->
  CASE w \in {"SELECT", "WITH", "TABLE", "VALUES"} -> "select"
    [] w \in {"INSERT", "REPLACE"} -> "insert"
    [] w = "UPDATE" -> "update"
    [] w = "DELETE" -> "delete"
    [] w = "TRUNCATE" -> "truncate"
    [] w = "DROP" -> "drop"
    [] OTHER -> "ddl"]

\* wrappedKind: ANALYZE runs what it wraps, EXPLAIN only with ANALYZE.
WrappedKind(s, toks) ==
  LET words   == Words(toks)
      verb    == s[words[1].pos]
      Runs(i) == \E j \in 1..(i - 1) : s[words[j].pos] = "ANALYZE"
      tells   == {i \in 2..Len(words) :
                    \/ s[words[i].pos] \in {"TABLE", "LOCAL", "NO_WRITE_TO_BINLOG"} /\ Runs(i)
                    \/ s[words[i].pos] \in verbs}
      at      == CHOOSE i \in tells : \A j \in tells : i <= j
  IN IF tells = {} \/ ~Runs(at) THEN IF verb = "EXPLAIN" THEN "read" ELSE "other"
     ELSE IF s[words[at].pos] \in {"TABLE", "LOCAL", "NO_WRITE_TO_BINLOG"} THEN "read"
     ELSE verbKinds[s[words[at].pos]]

SecondWordIs(s, toks, name) ==
  LET words == Words(toks) IN Len(words) > 1 /\ s[words[2].pos] = name

Kind(s, toks) ==
  LET verb == Verb(s, toks)
  IN CASE verb \in {"SHOW", "DESCRIBE", "DESC", "CHECK"} -> "read"
       [] verb \in {"EXPLAIN", "ANALYZE"} -> WrappedKind(s, toks)
       [] verb \in {"USE", "SET", "LOCK", "UNLOCK"} -> "session"
       [] verb \in {"BEGIN", "COMMIT", "ROLLBACK", "SAVEPOINT"} -> "transaction"
       [] verb = "START" -> IF SecondWordIs(s, toks, "TRANSACTION") THEN "transaction" ELSE "other"
       [] verb = "RELEASE" -> IF SecondWordIs(s, toks, "SAVEPOINT") THEN "transaction" ELSE "other"
       [] verb \in verbs -> verbKinds[verb]
       [] OTHER -> "other"

ReturnsRows(kind) == kind \notin {"insert", "update", "delete", "truncate", "drop", "ddl"}

HasTopLevelKeyword(s, toks, name) ==
  \E i \in DOMAIN toks : toks[i].depth = 0 /\ IsKeyword(s, toks[i], name)

-----------------------------------------------------------------------------
(* The LIMIT *)

ReadsATable(s, toks) == \E w \in {"FROM", "TABLE"} : HasTopLevelKeyword(s, toks, w)

AutoLimit(s, toks) ==
  /\ ~IsEmpty(toks) /\ Kind(s, toks) = "select"
  /\ ~HasTopLevelKeyword(s, toks, "LIMIT") /\ ReadsATable(s, toks)

AtTheEnd(s, toks) == Last(toks).end
\* Before a locking clause, or after the last token that is not a comment.
LimitInsertionPoint(s, toks) ==
  LET locking == {i \in DOMAIN toks : toks[i].depth = 0 /\ \E w \in {"FOR", "LOCK"} : IsKeyword(s, toks[i], w)}
      code    == {i \in DOMAIN toks : toks[i].kind # "comment"}
  IN IF locking # {} THEN toks[Min(locking)].pos - 1 ELSE toks[Max(code)].end

\* The statement's text with the clause in it.
AppendLimit(s, toks) ==
  LET sql == CutOf(s, toks)
      at  == LimitInsertionPoint(s, toks) - (toks[1].pos - 1)
  IN IF HasTopLevelKeyword(s, toks, "LIMIT") \/ HasTopLevelKeyword(s, toks, "INTO") THEN sql
     ELSE SubSeq(sql, 1, at) \o <<"LIMIT", "5">> \o SubSeq(sql, at + 1, Len(sql))

-----------------------------------------------------------------------------
(* Admit *)

InAToken(toks, i) == \E k \in DOMAIN toks : toks[k].pos <= i /\ i <= toks[k].end
OpensOne(s, toks) == \E i \in DOMAIN s : s[i] \in Executable /\ ~InAToken(toks, i)
HasExecutableComment(s) == OpensOne(s, Tokenize(s))

AdmitKind(s, toks) ==
  LET verb == Verb(s, toks)
      kind == Kind(s, toks)
  IN /\ ~(verb \in {"EXPLAIN", "ANALYZE"} /\ \E i \in DOMAIN toks : IsKeyword(s, toks[i], "ANALYZE"))
     /\ kind = "select" \/ (kind = "read" /\ verb \in {"SHOW", "DESCRIBE", "DESC", "EXPLAIN"})

refusedCalls == {"SLEEP", "BENCHMARK", "GET_LOCK", "LOAD_FILE"}

AdmitTopWords(s, toks) == \A i \in DOMAIN toks : toks[i].depth = 0 => ~IsKeyword(s, toks[i], "UPDATE")
\* No clause that turns the SELECT into something else.
AdmitWords(s, toks) ==
  \A i \in DOMAIN toks :
    LET W(name) == IsKeyword(s, toks[i], name)
        Next1(name) == i < Len(toks) /\ IsKeyword(s, toks[i + 1], name)
        calls == i < Len(toks) /\ IsPunct(s, toks[i + 1], "(")
        afterFor == i > 1 /\ IsKeyword(s, toks[i - 1], "FOR")
    IN ~ \/ W("INTO") \/ W("UPDATE") \/ W("DELETE")
         \/ W("SHARE") /\ afterFor
         \/ W("LOCK") /\ Next1("IN")
         \/ (W("INSERT") \/ W("REPLACE")) /\ ~calls
         \/ calls /\ \E f \in refusedCalls : W(f)

AdmitOnly(s, stmts) ==
  /\ Len(stmts) = 1
  /\ ~HasExecutableComment(s)
  /\ AdmitKind(s, stmts[1]) /\ AdmitWords(s, stmts[1])
Admit(s) == AdmitOnly(s, Split(s))
=============================================================================
