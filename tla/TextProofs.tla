------------------------------ MODULE TextProofs ------------------------------
(***************************************************************************)
(* What holds of the SQL in the editor for every text.  First the client's *)
(* reading of one (module Sql): its tokens, its statements, and the one    *)
(* Ctrl+Enter runs.  Then the server's reading of what the client lets     *)
(* through (module SqlText): until they come upon a lexeme they read       *)
(* differently the two go through a text in step, so that what the server  *)
(* runs is what the client has tokens of.  Then the LIMIT: the server      *)
(* goes through a text with the clause in it as it went through the one    *)
(* without, and runs the clause where no parenthesis is open.  Then the    *)
(* completion menu (module Completion): what it offers belongs to the word *)
(* at the caret, since every way a candidate gets into it, or stays in it, *)
(* is through a lookup for the text and the caret there are.               *)
(***************************************************************************)
EXTENDS SqlText, Completion, SequenceTheorems, FiniteSetTheorems, TLAPS

-----------------------------------------------------------------------------
(* Finite sets of numbers: their elements in order, and the least of them.   *)
(* The prover has no induction to offer; what would be proved by one is      *)
(* proved by the least counterexample, which this gives.                     *)

Below(S, c) == {d \in S : d < c}
Rank(S, c) == Cardinality(Below(S, c))

LEMMA RankIsANumber ==
  ASSUME NEW S \in SUBSET Nat, IsFiniteSet(S), NEW c
  PROVE  IsFiniteSet(Below(S, c)) /\ Rank(S, c) \in Nat
<1>1. Below(S, c) \in SUBSET S
  BY DEF Below
<1>2. IsFiniteSet(Below(S, c))
  BY <1>1, FS_Subset
<1>3. QED
  BY <1>2, FS_CardinalityType DEF Rank

\* Of two numbers the greater has the greater rank.
LEMMA RankOrders ==
  ASSUME NEW S \in SUBSET Nat, IsFiniteSet(S), NEW c \in S, NEW d \in S, c < d
  PROVE  Rank(S, c) < Rank(S, d)
<1>1. Below(S, c) \in SUBSET Below(S, d) /\ c \in Below(S, d) /\ c \notin Below(S, c)
  <2>1. \A e \in S : e \in Nat
    OBVIOUS
  <2>2. (\A e \in S : e < c => e < d) /\ ~(c < c)
    BY <2>1
  <2>3. QED
    BY <2>1, <2>2 DEF Below
<1>2. Rank(S, c) <= Rank(S, d)
  BY <1>1, RankIsANumber, FS_Subset DEF Rank
<1>3. Rank(S, c) # Rank(S, d)
  BY <1>1, RankIsANumber, FS_Subset DEF Rank
<1>4. QED
  BY <1>2, <1>3, RankIsANumber

LEMMA RankIsLess ==
  ASSUME NEW S \in SUBSET Nat, IsFiniteSet(S), NEW c \in S
  PROVE  Rank(S, c) \in 0..(Cardinality(S) - 1) /\ Cardinality(S) \in Nat
<1>1. Below(S, c) \in SUBSET (S \ {c})
  BY DEF Below
<1>2. IsFiniteSet(S \ {c}) /\ Cardinality(S \ {c}) = Cardinality(S) - 1 /\ Cardinality(S) \in Nat
  BY FS_RemoveElement, FS_CardinalityType
<1>3. Rank(S, c) <= Cardinality(S) - 1
  BY <1>1, <1>2, FS_Subset DEF Rank
<1>4. QED
  BY <1>2, <1>3, RankIsANumber

\* Each rank is some element's: a set of n numbers has a first, ..., an n-th.
LEMMA EveryRankIsTaken ==
  ASSUME NEW S \in SUBSET Nat, IsFiniteSet(S), NEW k \in 1..Cardinality(S)
  PROVE  \E c \in S : Rank(S, c) = k - 1
<1> DEFINE n == Cardinality(S)
           ranked == [c \in S |-> Rank(S, c)]
<1>1. n \in Nat
  BY FS_CardinalityType
<1>2. IsFiniteSet(0..(n - 1)) /\ Cardinality(0..(n - 1)) = n
  <2> HIDE DEF n
  <2>1. QED
    BY <1>1, FS_Interval
<1>3. ranked \in [S -> 0..(n - 1)]
  BY RankIsLess
<1>4. \A c, d \in S : ranked[c] = ranked[d] => c = d
  <2>1. ASSUME NEW c \in S, NEW d \in S, c # d PROVE Rank(S, c) # Rank(S, d)
    <3>1. c < d \/ d < c
      BY <2>1
    <3>2. Rank(S, c) < Rank(S, d) \/ Rank(S, d) < Rank(S, c)
      BY <3>1, RankOrders
    <3>3. QED
      BY <3>2, RankIsANumber
  <2>2. QED
    BY <2>1
<1> HIDE DEF ranked
<1>5. ranked \in Injection(S, 0..(n - 1))
  BY <1>3, <1>4 DEF Injection, IsInjective
<1>6. ranked \in Surjection(S, 0..(n - 1))
  BY <1>1, <1>2, <1>5, FS_Injection
<1>7. k - 1 \in 0..(n - 1)
  BY <1>1
<1>8. \E c \in S : ranked[c] = k - 1
  BY <1>6, <1>7 DEF Surjection
<1>9. QED
  BY <1>8 DEF ranked

LEMMA Least ==
  ASSUME NEW S \in SUBSET Nat, IsFiniteSet(S), S # {}
  PROVE  \E c \in S : \A d \in S : c <= d
<1>1. Cardinality(S) \in Nat /\ Cardinality(S) # 0
  BY FS_CardinalityType, FS_EmptySet
<1>2. 1 \in 1..Cardinality(S)
  BY <1>1
<1>3. PICK c \in S : Rank(S, c) = 0
  <2>1. \E c \in S : Rank(S, c) = 1 - 1
    BY <1>2, EveryRankIsTaken
  <2>2. QED
    BY <2>1
<1>4. ASSUME NEW d \in S, d < c PROVE FALSE
  <2>1. Rank(S, d) < 0 /\ Rank(S, d) \in Nat
    BY <1>3, <1>4, RankOrders, RankIsANumber
  <2>2. QED
    BY <2>1
<1>5. QED
  BY <1>4

-----------------------------------------------------------------------------
(* The lexer goes through the whole text *)

\* f is the lexer after each of the first n lexemes.
Goes(f, s, n) == f = [i \in 0..n |-> IF i = 0 THEN Began ELSE LexStep(f[i - 1], s, i)]

LEMMA PartIsFinite == ASSUME NEW n \in Nat, NEW S \in SUBSET (0..n) PROVE IsFiniteSet(S) /\ S \in SUBSET Nat
<1>1. IsFiniteSet(0..n)
  BY FS_Interval
<1>2. IsFiniteSet(S)
  BY <1>1, FS_Subset
<1>3. QED
  BY <1>2

LEMMA OneMore ==
  ASSUME NEW s, NEW m \in Nat \ {0}, NEW f, Goes(f, s, m - 1)
  PROVE  \E g : Goes(g, s, m)
<1> DEFINE g == [i \in 0..m |-> IF i = m THEN LexStep(f[m - 1], s, m) ELSE f[i]]
<1>1. \A i \in 0..(m - 1) : f[i] = IF i = 0 THEN Began ELSE LexStep(f[i - 1], s, i)
  BY DEF Goes
<1>2. ASSUME NEW i \in 0..m PROVE g[i] = IF i = 0 THEN Began ELSE LexStep(g[i - 1], s, i)
  <2>1. CASE i = m
    <3>1. g[i] = LexStep(f[m - 1], s, m) /\ g[i - 1] = f[m - 1] /\ i # 0
      BY <2>1
    <3>2. QED
      BY <2>1, <3>1
  <2>2. CASE i # m /\ i # 0
    <3>1. g[i] = f[i] /\ g[i - 1] = f[i - 1] /\ i \in 0..(m - 1)
      BY <2>2
    <3>2. QED
      BY <1>1, <2>2, <3>1
  <2>3. CASE i # m /\ i = 0
    <3>1. g[i] = f[i] /\ i \in 0..(m - 1)
      BY <2>3
    <3>2. QED
      BY <1>1, <2>3, <3>1
  <2>4. QED
    BY <2>1, <2>2, <2>3
<1>3. g = [i \in 0..m |-> g[i]]
  OBVIOUS
<1> HIDE DEF g
<1>4. QED
  BY <1>2, <1>3 DEF Goes

LEMMA ItGoes ==
  ASSUME NEW s, Len(s) \in Nat
  PROVE  \E f : Goes(f, s, Len(s))
<1> DEFINE Stuck == {n \in 0..Len(s) : ~\E f : Goes(f, s, n)}
<1>1. SUFFICES ASSUME Stuck # {} PROVE FALSE
  OBVIOUS
<1>2. Stuck \in SUBSET (0..Len(s))
  OBVIOUS
<1>3. PICK m \in Stuck : \A n \in Stuck : m <= n
  <2> HIDE DEF Stuck
  <2>1. QED
    BY <1>1, <1>2, PartIsFinite, Least
<1>4. CASE m = 0
  <2>1. Goes([i \in 0..0 |-> Began], s, 0)
    BY DEF Goes
  <2>2. QED
    BY <1>3, <1>4, <2>1
<1>5. CASE m # 0
  <2>1. m \in Nat \ {0} /\ m - 1 \in 0..Len(s) /\ m - 1 < m
    BY <1>3, <1>5
  <2>2. \E f : Goes(f, s, m - 1)
    <3>1. m - 1 \notin Stuck
      BY <1>3, <2>1
    <3>2. QED
      BY <2>1, <3>1
  <2>3. \E f : Goes(f, s, m)
    BY <2>1, <2>2, OneMore
  <2>4. QED
    BY <1>3, <2>3
<1>6. QED
  BY <1>4, <1>5

\* The lexer after each lexeme of a whole text.
IsRun(f, s) == \A i \in 0..Len(s) : f[i] = IF i = 0 THEN Began ELSE LexStep(f[i - 1], s, i)

\* What Lexed gives is such a run, and Lex its end.
LEMMA LexedIsARun ==
  ASSUME NEW s, Len(s) \in Nat
  PROVE  IsRun(Lexed(s), s)
<1> DEFINE f == CHOOSE g : Goes(g, s, Len(s))
<1>1. Goes(f, s, Len(s))
  BY ItGoes
<1>2. Lexed(s) = f
  BY DEF Lexed, Goes
<1> HIDE DEF f
<1>3. IsRun(f, s)
  BY <1>1 DEF Goes, IsRun
<1>4. QED
  BY <1>2, <1>3

-----------------------------------------------------------------------------
(* Between two lexemes: the tokens so far are in the order of the text, none *)
(* overlaps another, and what the lexer is inside of began after them.       *)

Kinds == {"word", "string", "ident", "comment", "punct"}
Insides == Openers \cup {"word", "q escaped", "q doubled", "bt doubled"}
TokenRecords == [kind : Kinds, pos : Nat, end : Nat, depth : Nat]

\* Each token ends before the next one begins.
InOrder(toks) ==
  /\ \A k \in 1..Len(toks) : 1 <= toks[k].pos /\ toks[k].pos <= toks[k].end
  /\ \A j, k \in 1..Len(toks) : j < k => toks[j].end < toks[k].pos
Until(toks, n) == \A k \in 1..Len(toks) : toks[k].end <= n

IsState(st) ==
  st = [in |-> st.in, from |-> st.from, depth |-> st.depth, ends |-> st.ends, toks |-> st.toks]

\* A lexer's state that has tokens only of the first n lexemes.
Holds(st, n) ==
  /\ IsState(st) /\ st.depth \in Nat
  /\ st.toks \in Seq(TokenRecords) /\ InOrder(st.toks) /\ Until(st.toks, n)

LexInv(st, n) ==
  \/ st.in = "code" /\ Holds(st, n)
  \/ st.in \in Insides /\ st.from \in 1..n /\ Holds(st, st.from - 1)

\* What is changed of a state, and nothing else is.
LEMMA EmitIs ==
  ASSUME NEW st, IsState(st), NEW k, NEW first, NEW last
  PROVE  Emit(st, k, first, last)
           = [in |-> "code", from |-> st.from, depth |-> st.depth, ends |-> st.ends,
              toks |-> Append(st.toks, Token(k, first, last, st.depth))]
<1> DEFINE mid == [st EXCEPT !.in = "code"]
           toks == Append(st.toks, Token(k, first, last, st.depth))
<1>1. mid = [in |-> "code", from |-> st.from, depth |-> st.depth, ends |-> st.ends, toks |-> st.toks]
  BY DEF IsState
<1>2. Emit(st, k, first, last) = [mid EXCEPT !.toks = toks]
  BY DEF Emit
<1> HIDE DEF mid, toks
<1>3. [mid EXCEPT !.toks = toks]
        = [in |-> "code", from |-> st.from, depth |-> st.depth, ends |-> st.ends, toks |-> toks]
  BY <1>1
<1>4. QED
  BY <1>2, <1>3 DEF toks

LEMMA InIs ==
  ASSUME NEW st, NEW n, Holds(st, n), NEW c
  PROVE  Holds([st EXCEPT !.in = c], n) /\ [st EXCEPT !.in = c].in = c /\ [st EXCEPT !.in = c].from = st.from
<1> DEFINE new == [st EXCEPT !.in = c]
<1>1. new = [in |-> c, from |-> st.from, depth |-> st.depth, ends |-> st.ends, toks |-> st.toks]
  BY DEF Holds, IsState
<1> HIDE DEF new
<1>2. Holds(new, n) /\ new.in = c /\ new.from = st.from
  BY <1>1 DEF Holds, IsState
<1>3. QED
  BY <1>2 DEF new

Opened(st, c, i) == [st EXCEPT !.in = c, !.from = i]

LEMMA OpenedIs ==
  ASSUME NEW st, NEW n, Holds(st, n), NEW c, NEW i
  PROVE  Holds(Opened(st, c, i), n) /\ Opened(st, c, i).in = c /\ Opened(st, c, i).from = i
<1> DEFINE mid == [st EXCEPT !.in = c]
           new == [mid EXCEPT !.from = i]
<1>1. mid = [in |-> c, from |-> st.from, depth |-> st.depth, ends |-> st.ends, toks |-> st.toks]
  BY DEF Holds, IsState
<1>2. Opened(st, c, i) = new
  BY DEF Opened
<1> HIDE DEF mid
<1>3. new = [in |-> c, from |-> i, depth |-> st.depth, ends |-> st.ends, toks |-> st.toks]
  BY <1>1
<1> HIDE DEF new
<1>4. Holds(new, n) /\ new.in = c /\ new.from = i
  BY <1>3 DEF Holds, IsState
<1>5. QED
  BY <1>2, <1>4

LEMMA EndsIs ==
  ASSUME NEW st, NEW n, Holds(st, n), NEW e
  PROVE  LET new == [st EXCEPT !.ends = e]
         IN Holds(new, n) /\ new.in = st.in /\ new.from = st.from
<1> DEFINE new == [st EXCEPT !.ends = e]
<1>1. new = [in |-> st.in, from |-> st.from, depth |-> st.depth, ends |-> e, toks |-> st.toks]
  BY DEF Holds, IsState
<1> HIDE DEF new
<1>2. Holds(new, n) /\ new.in = st.in /\ new.from = st.from
  BY <1>1 DEF Holds, IsState
<1>3. QED
  BY <1>2 DEF new

LEMMA DepthIs ==
  ASSUME NEW st, NEW n, Holds(st, n), NEW d \in Nat
  PROVE  LET new == [st EXCEPT !.depth = d]
         IN Holds(new, n) /\ new.in = st.in /\ new.from = st.from
<1> DEFINE new == [st EXCEPT !.depth = d]
<1>1. new = [in |-> st.in, from |-> st.from, depth |-> d, ends |-> st.ends, toks |-> st.toks]
  BY DEF Holds, IsState
<1> HIDE DEF new
<1>2. Holds(new, n) /\ new.in = st.in /\ new.from = st.from
  BY <1>1 DEF Holds, IsState
<1>3. QED
  BY <1>2 DEF new

LEMMA HoldsMore == ASSUME NEW m \in Nat, NEW n \in Nat, m <= n, NEW st, Holds(st, m) PROVE Holds(st, n)
<1>1. \A k \in 1..Len(st.toks) : st.toks[k].end \in Nat
  <2>1. \A k \in 1..Len(st.toks) : st.toks[k] \in TokenRecords
    BY ElementOfSeq DEF Holds
  <2>2. QED
    BY <2>1 DEF TokenRecords
<1>2. Until(st.toks, n)
  BY <1>1 DEF Holds, Until
<1>3. QED
  BY <1>2 DEF Holds

LEMMA KindOfIsOne == ASSUME NEW in \in Insides PROVE KindOf(in) \in Kinds
BY DEF KindOf, Kinds, Insides, Openers, Quotes, LineComments, BlockComments, Executable

\* A token emitted after the ones there are.
LEMMA EmitHolds ==
  ASSUME NEW st, NEW k \in Kinds, NEW first \in Nat \ {0}, NEW last \in Nat, first <= last,
         Holds(st, first - 1)
  PROVE  Emit(st, k, first, last).in = "code" /\ Holds(Emit(st, k, first, last), last)
<1> DEFINE tk == Token(k, first, last, st.depth)
           toks == Append(st.toks, tk)
           new == Emit(st, k, first, last)
           n == Len(st.toks)
<1>1. tk \in TokenRecords /\ tk.pos = first /\ tk.end = last
  BY DEF Holds, Token, TokenRecords
<1>2. new = [in |-> "code", from |-> st.from, depth |-> st.depth, ends |-> st.ends, toks |-> toks]
  BY EmitIs DEF Holds
<1>3. st.toks \in Seq(TokenRecords) /\ st.depth \in Nat /\ InOrder(st.toks) /\ Until(st.toks, first - 1)
  BY DEF Holds
<1> HIDE DEF tk, new
<1>4. /\ toks \in Seq(TokenRecords) /\ n \in Nat /\ Len(toks) = n + 1
      /\ toks[n + 1] = tk /\ \A j \in 1..n : toks[j] = st.toks[j]
  BY <1>1, <1>3
<1>5. \A j \in 1..n : st.toks[j].end \in Nat /\ st.toks[j].pos \in Nat
  <2>1. \A j \in 1..n : st.toks[j] \in TokenRecords
    BY <1>3, ElementOfSeq
  <2>2. QED
    BY <2>1 DEF TokenRecords
<1> HIDE DEF toks, n
<1>6. Until(toks, last)
  <2>1. ASSUME NEW j \in 1..(n + 1) PROVE toks[j].end <= last
    <3>1. CASE j = n + 1
      BY <1>1, <1>4, <3>1
    <3>2. CASE j # n + 1
      <4>1. j \in 1..n
        BY <1>4, <3>2
      <4>2. st.toks[j].end <= first - 1
        BY <1>3, <4>1 DEF Until, n
      <4>3. QED
        BY <1>4, <1>5, <4>1, <4>2
    <3>3. QED
      BY <3>1, <3>2
  <2>2. QED
    BY <1>4, <2>1 DEF Until
<1>7. InOrder(toks)
  <2>1. \A j \in 1..n : st.toks[j].end < first
    BY <1>3, <1>5 DEF Until, n
  <2>2. ASSUME NEW j \in 1..(n + 1) PROVE 1 <= toks[j].pos /\ toks[j].pos <= toks[j].end
    <3>1. CASE j = n + 1
      BY <1>1, <1>4, <3>1
    <3>2. CASE j # n + 1
      BY <1>3, <1>4, <3>2 DEF InOrder, n
    <3>3. QED
      BY <3>1, <3>2
  <2>3. ASSUME NEW j \in 1..(n + 1), NEW l \in 1..(n + 1), j < l PROVE toks[j].end < toks[l].pos
    <3>1. j \in 1..n /\ toks[j] = st.toks[j]
      BY <1>4, <2>3
    <3>2. CASE l = n + 1
      BY <1>1, <1>4, <2>1, <3>1, <3>2
    <3>3. CASE l # n + 1
      <4>1. l \in 1..n /\ toks[l] = st.toks[l]
        BY <1>4, <3>3
      <4>2. QED
        BY <1>3, <2>3, <3>1, <4>1 DEF InOrder, n
    <3>4. QED
      BY <3>2, <3>3
  <2>4. QED
    BY <1>4, <2>2, <2>3 DEF InOrder
<1>8. QED
  BY <1>2, <1>3, <1>4, <1>6, <1>7 DEF Holds, IsState, new

-----------------------------------------------------------------------------
(* One lexeme more *)

LEMMA InCodeKeeps ==
  ASSUME NEW s, NEW i \in Nat \ {0}, NEW st, st.in = "code", Holds(st, i - 1)
  PROVE  LexInv(InCode(st, s, i), i)
<1> DEFINE c == s[i]
           d == IF st.depth > 0 THEN st.depth - 1 ELSE 0
           Ending(e) == [st EXCEPT !.ends = e]
           Deeper(e) == [e EXCEPT !.depth = @ + 1]
           Shallower == Emit([st EXCEPT !.depth = d], "punct", i, i)
<1>0. i - 1 \in Nat /\ i - 1 <= i /\ i <= i /\ i \in 1..i
  OBVIOUS
<1>1. \A x \in Insides : LexInv(Opened(st, x, i), i)
  BY <1>0, OpenedIs DEF LexInv
<1>2. \A e : LexInv(Ending(e), i)
  <2>1. ASSUME NEW e PROVE LexInv(Ending(e), i)
    <3> DEFINE new == [st EXCEPT !.ends = e]
    <3>1. Holds(new, i - 1) /\ new.in = st.in
      BY EndsIs
    <3> HIDE DEF new
    <3>2. LexInv(new, i)
      BY <1>0, <3>1, HoldsMore DEF LexInv
    <3>3. QED
      BY <3>2 DEF new
  <2>2. QED
    BY <2>1
<1>3. LexInv(st, i)
  BY <1>0, HoldsMore DEF LexInv
<1>4. \A k \in Kinds : Emit(st, k, i, i).in = "code" /\ Holds(Emit(st, k, i, i), i)
  BY <1>0, EmitHolds
<1>5. LexInv(Deeper(Emit(st, "punct", i, i)), i)
  <2> DEFINE e == Emit(st, "punct", i, i)
  <2>1. e.in = "code" /\ Holds(e, i)
    BY <1>4 DEF Kinds
  <2> HIDE DEF e
  <2>2. e.depth + 1 \in Nat
    BY <2>1 DEF Holds
  <2> DEFINE new == [e EXCEPT !.depth = e.depth + 1]
  <2>3. Holds(new, i) /\ new.in = "code"
    BY <2>1, <2>2, DepthIs
  <2> HIDE DEF new
  <2>4. LexInv(new, i)
    BY <2>3 DEF LexInv
  <2>5. QED
    BY <2>4 DEF new, e
<1>6. LexInv(Shallower, i)
  <2> DEFINE new == [st EXCEPT !.depth = d]
  <2>1. d \in Nat
    BY DEF Holds
  <2> HIDE DEF d
  <2>2. Holds(new, i - 1)
    BY <2>1, DepthIs
  <2> HIDE DEF new
  <2>3. Emit(new, "punct", i, i).in = "code" /\ Holds(Emit(new, "punct", i, i), i)
    BY <1>0, <2>2, EmitHolds DEF Kinds
  <2>4. QED
    BY <2>3 DEF LexInv, new
<1>7. \A k \in Kinds : LexInv(Emit(st, k, i, i), i)
  BY <1>4 DEF LexInv
<1>8. /\ Openers \cup {"word"} \subseteq Insides
      /\ {"word", "punct"} \subseteq Kinds
  BY DEF Insides, Kinds
<1>9. \E e : InCode(st, s, i)
               = CASE c \in Openers -> Opened(st, c, i)
                   [] c \in Executable -> Ending(e)
                   [] c \in {"nl", "sp"} -> st
                   [] c = "(" -> Deeper(Emit(st, "punct", i, i))
                   [] c = ")" -> Shallower
                   [] IsWord(c) -> IF c \in Letters THEN Opened(st, "word", i) ELSE Emit(st, "word", i, i)
                   [] OTHER -> Emit(st, "punct", i, i)
  BY DEF InCode, Opened
<1> HIDE DEF c, d, Ending, Deeper, Shallower
<1>10. c \in Letters => IsWord(c)
  BY LettersAreWords
<1>11. CASE c \in Openers
  BY <1>1, <1>8, <1>9, <1>10, <1>11 DEF IsWord, Openers, Quotes, Executable, Marks, Puncts, LineComments, BlockComments
<1>12. CASE c \notin Openers
  BY <1>1, <1>2, <1>3, <1>5, <1>6, <1>7, <1>8, <1>9, <1>10, <1>12
     DEF IsWord, Openers, Quotes, Executable, Marks, Puncts, LineComments, BlockComments
<1>13. QED
  BY <1>11, <1>12

\* What a literal, a word or a comment is, when it ends before the end.
LEMMA EndsHere ==
  ASSUME NEW st, NEW i \in Nat \ {0}, NEW k \in Kinds, NEW last \in {i - 1, i},
         st.from \in 1..(i - 1), Holds(st, st.from - 1)
  PROVE  Emit(st, k, st.from, last).in = "code" /\ Holds(Emit(st, k, st.from, last), last)
<1>1. st.from \in Nat \ {0} /\ last \in Nat /\ st.from <= last
  OBVIOUS
<1>2. QED
  BY <1>1, EmitHolds

LEMMA InsideStays ==
  ASSUME NEW st, NEW i \in Nat \ {0}, st.from \in 1..(i - 1), Holds(st, st.from - 1), NEW c \in Insides
  PROVE  LexInv([st EXCEPT !.in = c], i)
<1> DEFINE new == [st EXCEPT !.in = c]
<1>1. Holds(new, st.from - 1) /\ new.in = c /\ new.from = st.from
  BY InIs
<1> HIDE DEF new
<1>2. new.from \in 1..i
  BY <1>1
<1>3. LexInv(new, i)
  BY <1>1, <1>2 DEF LexInv
<1>4. QED
  BY <1>3 DEF new

LEMMA ClosingKeeps ==
  ASSUME NEW i \in Nat \ {0}, NEW st, LexInv(st, i - 1)
  PROVE  LexInv(Closing(st, i), i)
<1> DEFINE e == IF st.in = "code" THEN st ELSE Emit(st, KindOf(st.in), st.from, i - 1)
           new == [e EXCEPT !.ends = 0]
<1>1. e.in = "code" /\ Holds(e, i - 1)
  <2>1. CASE st.in = "code"
    BY <2>1 DEF LexInv, Insides, Openers, Quotes, LineComments, BlockComments, Executable
  <2>2. CASE st.in # "code"
    <3>1. st.in \in Insides /\ st.from \in 1..(i - 1) /\ Holds(st, st.from - 1)
      BY <2>2 DEF LexInv
    <3>2. QED
      BY <2>2, <3>1, KindOfIsOne, EndsHere
  <2>3. QED
    BY <2>1, <2>2
<1>2. Closing(st, i) = new
  BY DEF Closing
<1> HIDE DEF e
<1>3. Holds(new, i - 1) /\ new.in = "code"
  BY <1>1, EndsIs
<1> HIDE DEF new
<1>4. Holds(new, i)
  BY <1>3, HoldsMore
<1>5. QED
  BY <1>2, <1>3, <1>4 DEF LexInv

LEMMA InQuoteKeeps ==
  ASSUME NEW s, NEW i \in Nat \ {0}, NEW st, st.in \in Quotes,
         st.from \in 1..(i - 1), Holds(st, st.from - 1)
  PROVE  LexInv(InQuote(st, s, i), i)
<1>1. st.in \in Insides /\ st.from \in 1..i
  <2>1. \A n \in 1..(i - 1) : n \in 1..i
    OBVIOUS
  <2>2. QED
    BY <2>1 DEF Insides, Openers
<1>2. \A c \in {"q escaped", "q doubled", "bt doubled"} : LexInv([st EXCEPT !.in = c], i)
  BY InsideStays DEF Insides
<1>3. LexInv(Emit(st, KindOf(st.in), st.from, i), i)
  BY <1>1, KindOfIsOne, EndsHere DEF LexInv
<1>4. LexInv(st, i)
  BY <1>1 DEF LexInv
<1>5. \/ InQuote(st, s, i) = st
      \/ InQuote(st, s, i) = Emit(st, KindOf(st.in), st.from, i)
      \/ \E c \in {"q escaped", "q doubled", "bt doubled"} : InQuote(st, s, i) = [st EXCEPT !.in = c]
  BY DEF InQuote
<1>6. QED
  BY <1>2, <1>3, <1>4, <1>5

LEMMA LexStepKeeps ==
  ASSUME NEW s, NEW i \in Nat \ {0}, NEW st, LexInv(st, i - 1)
  PROVE  LexInv(LexStep(st, s, i), i)
<1> DEFINE Word == Emit(st, "word", st.from, i - 1)
           Back(c) == [st EXCEPT !.in = c]
           Comment(last) == Emit(st, "comment", st.from, last)
<1>1. LexStep(st, s, i)
        = IF i = st.ends THEN Closing(st, i)
          ELSE CASE st.in = "code" -> InCode(st, s, i)
                 [] st.in = "word" -> IF s[i] \in Letters THEN st ELSE InCode(Word, s, i)
                 [] st.in \in Quotes -> InQuote(st, s, i)
                 [] st.in \in {"q escaped", "q doubled"} -> Back("q")
                 [] st.in = "bt doubled" -> Back("bt")
                 [] st.in \in LineComments -> IF s[i] = "nl" THEN Comment(i - 1) ELSE st
                 [] st.in \in BlockComments -> IF s[i] = "*/" THEN Comment(i) ELSE st
  BY DEF LexStep
<1> USE DEF Openers, Quotes, LineComments, BlockComments, Executable
<1>2. CASE i = st.ends
  <2> HIDE DEF Word, Back, Comment
  <2>1. QED
    BY <1>1, <1>2, ClosingKeeps
<1>3. CASE i # st.ends /\ st.in = "code"
  <2>1. Holds(st, i - 1)
    BY <1>3 DEF LexInv, Insides
  <2>2. LexInv(InCode(st, s, i), i)
    BY <1>3, <2>1, InCodeKeeps
  <2> HIDE DEF Word, Back, Comment
  <2>3. QED
    BY <1>1, <1>3, <2>2
<1>4. CASE i # st.ends /\ st.in # "code"
  <2>1. st.in \in Insides /\ st.from \in 1..(i - 1) /\ Holds(st, st.from - 1)
    BY <1>4 DEF LexInv
  <2>2. LexInv(st, i)
    <3>1. st.from \in 1..i
      BY <2>1
    <3>2. QED
      BY <2>1, <3>1 DEF LexInv
  <2>3. LexInv(Back("q"), i) /\ LexInv(Back("bt"), i)
    <3>1. "q" \in Insides /\ "bt" \in Insides
      BY DEF Insides
    <3>2. QED
      BY <2>1, <3>1, InsideStays
  <2>4. LexInv(InCode(Word, s, i), i)
    <3>1. Word.in = "code" /\ Holds(Word, i - 1)
      BY <2>1, EndsHere DEF Kinds
    <3> HIDE DEF Word
    <3>2. QED
      BY <3>1, InCodeKeeps
  <2>5. st.in \in Quotes => LexInv(InQuote(st, s, i), i)
    BY <2>1, InQuoteKeeps
  <2>6. \A last \in {i - 1, i} : LexInv(Comment(last), i)
    <3>1. ASSUME NEW last \in {i - 1, i} PROVE LexInv(Comment(last), i)
      <4>1. Comment(last).in = "code" /\ Holds(Comment(last), last)
        BY <2>1, EndsHere DEF Kinds
      <4> HIDE DEF Comment
      <4>2. Holds(Comment(last), i)
        BY <4>1, HoldsMore
      <4>3. QED
        BY <4>1, <4>2 DEF LexInv
    <3>2. QED
      BY <3>1
  <2> HIDE DEF Word, Back, Comment
  <2>7. QED
    BY <1>1, <1>4, <2>1, <2>2, <2>3, <2>4, <2>5, <2>6 DEF Insides
<1>5. QED
  BY <1>2, <1>3, <1>4

-----------------------------------------------------------------------------
(* The whole text *)

LEMMA BeganHolds == LexInv(Began, 0)
BY DEF LexInv, Holds, IsState, Began, InOrder, Until

LEMMA RunKeeps ==
  ASSUME NEW s, Len(s) \in Nat, NEW f, IsRun(f, s)
  PROVE  \A i \in 0..Len(s) : LexInv(f[i], i)
<1> DEFINE Bad == {i \in 0..Len(s) : ~LexInv(f[i], i)}
<1>1. SUFFICES ASSUME Bad # {} PROVE FALSE
  OBVIOUS
<1>2. Bad \in SUBSET (0..Len(s))
  OBVIOUS
<1>3. PICK m \in Bad : \A i \in Bad : m <= i
  <2> HIDE DEF Bad
  <2>1. QED
    BY <1>1, <1>2, PartIsFinite, Least
<1>4. CASE m = 0
  BY <1>3, <1>4, BeganHolds DEF IsRun
<1>5. CASE m # 0
  <2>1. m \in Nat \ {0} /\ m \in 0..Len(s) /\ m - 1 \in 0..Len(s) /\ m - 1 < m
    BY <1>3, <1>5
  <2>2. LexInv(f[m - 1], m - 1)
    <3>1. m - 1 \notin Bad
      BY <1>3, <2>1
    <3>2. QED
      BY <2>1, <3>1
  <2>3. LexInv(f[m], m)
    BY <1>5, <2>1, <2>2, LexStepKeeps DEF IsRun
  <2>4. QED
    BY <1>3, <2>3
<1>6. QED
  BY <1>4, <1>5

LEMMA LexKeeps ==
  ASSUME NEW s, Len(s) \in Nat
  PROVE  LexInv(Lex(s), Len(s))
<1> DEFINE f == Lexed(s)
<1>1. IsRun(f, s) /\ Lex(s) = f[Len(s)]
  BY LexedIsARun DEF Lex
<1> HIDE DEF f
<1>2. Len(s) \in 0..Len(s)
  OBVIOUS
<1>3. QED
  BY <1>1, <1>2, RunKeeps

(* The tokens of any text are in its order, none is empty, no two overlap,   *)
(* and all lie in it: what every position taken from one rests on            *)
(* (sqlparse.Tokenize).                                                      *)
THEOREM TokensAreInOrder ==
  ASSUME NEW s, Len(s) \in Nat
  PROVE  Tokenize(s) \in Seq(TokenRecords) /\ InOrder(Tokenize(s)) /\ Until(Tokenize(s), Len(s))
<1> DEFINE st == Lex(s)
<1>1. LexInv(st, Len(s))
  BY LexKeeps
<1>2. CASE st.in = "code"
  <2>1. Holds(st, Len(s))
    BY <1>1, <1>2 DEF LexInv, Insides, Openers, Quotes, LineComments, BlockComments, Executable
  <2>2. Tokenize(s) = st.toks
    BY <1>2 DEF Tokenize, AtTheEndOf
  <2>3. QED
    BY <2>1, <2>2 DEF Holds
<1>3. CASE st.in # "code"
  <2> DEFINE e == Emit(st, KindOf(st.in), st.from, Len(s))
  <2>1. st.in \in Insides /\ st.from \in 1..Len(s) /\ Holds(st, st.from - 1)
    BY <1>1, <1>3 DEF LexInv
  <2>2. KindOf(st.in) \in Kinds /\ st.from \in Nat \ {0} /\ st.from <= Len(s)
    BY <2>1, KindOfIsOne
  <2>3. Holds(e, Len(s))
    BY <2>1, <2>2, EmitHolds
  <2>4. Tokenize(s) = e.toks
    BY <1>3 DEF Tokenize, AtTheEndOf
  <2>5. QED
    BY <2>3, <2>4 DEF Holds
<1>4. QED
  BY <1>2, <1>3

-----------------------------------------------------------------------------
(* The statements *)

\* Where the tokens of the statement after a cut end.
Following(s, toks, c) ==
  CHOOSE i \in {j \in Cuts(s, toks) \cup {Len(toks) + 1} : j > c} :
    \A j \in {k \in Cuts(s, toks) \cup {Len(toks) + 1} : k > c} : i <= j

LEMMA FollowingIsNext ==
  ASSUME NEW s, NEW toks \in Seq(TokenRecords), NEW c \in Cuts(s, toks)
  PROVE  /\ Following(s, toks, c) \in (c + 1)..(Len(toks) + 1)
         /\ \A d \in Cuts(s, toks) : d > c => Following(s, toks, c) <= d
         /\ c \in 0..Len(toks)
<1> DEFINE n == Len(toks)
           later == {j \in Cuts(s, toks) \cup {n + 1} : j > c}
<1>1. n \in Nat /\ Cuts(s, toks) \in SUBSET (0..n)
  BY DEF Cuts
<1> HIDE DEF n
<1>2. later \in SUBSET (0..(n + 1)) /\ n + 1 \in later
  BY <1>1
<1>3. PICK i \in later : \A j \in later : i <= j
  <2> HIDE DEF later
  <2>1. n + 1 \in Nat
    BY <1>1
  <2>2. QED
    BY <1>2, <2>1, PartIsFinite, Least
<1>4. Following(s, toks, c) \in later /\ \A j \in later : Following(s, toks, c) <= j
  <2>1. Following(s, toks, c) = CHOOSE k \in later : \A j \in later : k <= j
    BY DEF Following, n
  <2> HIDE DEF later
  <2>2. QED
    BY <1>3, <2>1
<1>5. QED
  BY <1>1, <1>2, <1>4 DEF n

\* A statement's first and last token.
LEMMA EndsOfAfter ==
  ASSUME NEW s, NEW toks \in Seq(TokenRecords), NEW c \in Cuts(s, toks), ~IsEmpty(After(s, toks, c))
  PROVE  LET f == Following(s, toks, c)
         IN /\ c + 1 \in 1..Len(toks) /\ f - 1 \in (c + 1)..Len(toks)
            /\ After(s, toks, c)[1] = toks[c + 1]
            /\ Last(After(s, toks, c)) = toks[f - 1]
<1> DEFINE f == Following(s, toks, c)
           g == After(s, toks, c)
           n == Len(toks)
<1>1. f \in (c + 1)..(n + 1) /\ c \in 0..n /\ n \in Nat
  BY FollowingIsNext
<1>2. g = SubSeq(toks, c + 1, f - 1)
  BY DEF After, Following
<1>3. g # <<>>
  BY DEF IsEmpty
<1> HIDE DEF f, g
<1>4. c + 1 \in Int /\ f - 1 \in Int /\ \A i \in (c + 1)..(f - 1) : toks[i] \in TokenRecords
  <2>1. \A i \in (c + 1)..(f - 1) : i \in 1..n
    BY <1>1
  <2>2. \A i \in 1..n : toks[i] \in TokenRecords
    BY ElementOfSeq
  <2> HIDE DEF n
  <2>3. QED
    BY <1>1, <2>1, <2>2
<1>5. /\ Len(g) = IF c + 1 <= f - 1 THEN (f - 1) - (c + 1) + 1 ELSE 0
      /\ \A i \in 1..((f - 1) - (c + 1) + 1) : g[i] = toks[(c + 1) + i - 1]
      /\ g \in Seq(TokenRecords)
  BY <1>2, <1>4, SubSeqProperties
<1> HIDE DEF n
<1>6. c + 1 <= f - 1
  BY <1>1, <1>3, <1>5
<1>7. c + 1 \in 1..n /\ f - 1 \in (c + 1)..n
  BY <1>1, <1>6
<1>8. g[1] = toks[c + 1] /\ g[Len(g)] = toks[f - 1]
  <2> DEFINE k == (f - 1) - (c + 1) + 1
  <2>1. 1 \in 1..k /\ k \in 1..k /\ (c + 1) + 1 - 1 = c + 1 /\ (c + 1) + k - 1 = f - 1 /\ Len(g) = k
    BY <1>1, <1>5, <1>6
  <2>2. \A i \in 1..k : g[i] = toks[(c + 1) + i - 1]
    BY <1>5
  <2> HIDE DEF k
  <2>3. QED
    BY <2>1, <2>2
<1>9. QED
  BY <1>7, <1>8 DEF Last, f, g, n

First(stmts, k) == stmts[k][1].pos
End(stmts, k) == Last(stmts[k]).end

\* Each statement ends, and something lies between, before the next begins.
Apart(stmts) ==
  /\ Len(stmts) \in Nat /\ stmts = [k \in 1..Len(stmts) |-> stmts[k]]
  /\ \A k \in 1..Len(stmts) :
       First(stmts, k) \in Nat \ {0} /\ End(stmts, k) \in Nat /\ First(stmts, k) <= End(stmts, k)
  /\ \A j, k \in 1..Len(stmts) : j < k => End(stmts, j) + 1 < First(stmts, k)

\* Of two cuts, what is after the first ends before the second, a semicolon.
LEMMA CutsPart ==
  ASSUME NEW s, NEW toks \in Seq(TokenRecords), InOrder(toks),
         NEW c \in Cuts(s, toks), NEW d \in Cuts(s, toks), c < d,
         ~IsEmpty(After(s, toks, c)), ~IsEmpty(After(s, toks, d))
  PROVE  Last(After(s, toks, c)).end + 1 < After(s, toks, d)[1].pos
<1> DEFINE f == Following(s, toks, c)
           n == Len(toks)
<1>1. /\ f - 1 \in 1..n /\ f <= d /\ d + 1 \in 1..n /\ d \in 0..n /\ c \in 0..n /\ f \in Int
      /\ Last(After(s, toks, c)) = toks[f - 1] /\ After(s, toks, d)[1] = toks[d + 1]
  BY EndsOfAfter, FollowingIsNext
<1> HIDE DEF f
<1>2. d \in 1..n /\ f - 1 < d /\ d < d + 1
  BY <1>1
<1>3. \A i \in 1..n : toks[i].pos \in Nat /\ toks[i].end \in Nat
  <2>1. \A i \in 1..n : toks[i] \in TokenRecords
    BY ElementOfSeq
  <2>2. QED
    BY <2>1 DEF TokenRecords
<1>4. toks[f - 1].end < toks[d].pos /\ toks[d].pos <= toks[d].end /\ toks[d].end < toks[d + 1].pos
  BY <1>1, <1>2 DEF InOrder
<1>5. toks[f - 1].end \in Nat /\ toks[d].pos \in Nat /\ toks[d].end \in Nat /\ toks[d + 1].pos \in Nat
  BY <1>1, <1>2, <1>3
<1>6. toks[f - 1].end + 1 < toks[d + 1].pos
  <2>1. \A x, y, z, w \in Nat : x < y /\ y <= z /\ z < w => x + 1 < w
    OBVIOUS
  <2>2. QED
    BY <1>4, <1>5, <2>1
<1>7. QED
  BY <1>1, <1>6

(* The statements of a text follow one another in it with a semicolon        *)
(* between, whatever literals and comments it has (sqlparse.Split).          *)
THEOREM StatementsAreApart ==
  ASSUME NEW s, Len(s) \in Nat
  PROVE  Apart(Split(s))
<1> DEFINE toks == Tokenize(s)
           full == {c \in Cuts(s, toks) : ~IsEmpty(After(s, toks, c))}
           n == Cardinality(full)
           cut(k) == CHOOSE c \in full : Cardinality({d \in full : d < c}) = k - 1
           stmts == Split(s)
<1>1. toks \in Seq(TokenRecords) /\ InOrder(toks)
  BY TokensAreInOrder
<1> HIDE DEF toks
<1>2. IsFiniteSet(full) /\ full \in SUBSET Nat /\ full \subseteq Cuts(s, toks)
  <2>1. Len(toks) \in Nat /\ full \in SUBSET (0..Len(toks))
    BY <1>1 DEF Cuts
  <2>2. full \subseteq Cuts(s, toks)
    OBVIOUS
  <2> HIDE DEF full
  <2>3. QED
    BY <2>1, <2>2, PartIsFinite
<1>3. \A c \in full : ~IsEmpty(After(s, toks, c))
  OBVIOUS
<1>4. stmts = [k \in 1..n |-> After(s, toks, cut(k))]
  BY DEF Split, Groups, toks
<1> HIDE DEF full, stmts
<1>5. n \in Nat
  BY <1>2, FS_CardinalityType
<1>6. \A k \in 1..n : cut(k) \in full /\ Rank(full, cut(k)) = k - 1
  <2>1. ASSUME NEW k \in 1..n PROVE cut(k) \in full /\ Rank(full, cut(k)) = k - 1
    <3>1. \E c \in full : Rank(full, c) = k - 1
      BY <1>2, EveryRankIsTaken
    <3>2. \E c \in full : Cardinality({d \in full : d < c}) = k - 1
      BY <3>1 DEF Rank, Below
    <3>3. cut(k) \in full /\ Cardinality({d \in full : d < cut(k)}) = k - 1
      BY <3>2
    <3> HIDE DEF cut
    <3>4. QED
      BY <3>3 DEF Rank, Below
  <2>2. QED
    BY <2>1
<1> HIDE DEF cut, n
<1>7. /\ Len(stmts) = n /\ stmts = [k \in 1..n |-> stmts[k]]
      /\ \A k \in 1..n : stmts[k] = After(s, toks, cut(k))
  BY <1>4, <1>5
<1>8. ASSUME NEW j \in 1..n, NEW k \in 1..n, j < k PROVE cut(j) < cut(k)
  <2>1. cut(j) \in Nat /\ cut(k) \in Nat /\ cut(j) \in full /\ cut(k) \in full
    BY <1>2, <1>6
  <2>2. Rank(full, cut(j)) = j - 1 /\ Rank(full, cut(k)) = k - 1 /\ j - 1 < k - 1 /\ k \in Int
    BY <1>6, <1>8
  <2>3. cut(j) # cut(k)
    BY <2>2
  <2>4. ~(cut(k) < cut(j))
    <3>1. ASSUME cut(k) < cut(j) PROVE FALSE
      <4>1. Rank(full, cut(k)) < Rank(full, cut(j))
        BY <1>2, <2>1, <3>1, RankOrders
      <4>2. QED
        BY <2>2, <4>1
    <3>2. QED
      BY <3>1
  <2>5. QED
    BY <2>1, <2>3, <2>4
<1>9. ASSUME NEW j \in 1..n, NEW k \in 1..n, j < k PROVE End(stmts, j) + 1 < First(stmts, k)
  <2>1. cut(j) < cut(k) /\ cut(j) \in Cuts(s, toks) /\ cut(k) \in Cuts(s, toks)
    BY <1>2, <1>6, <1>8, <1>9
  <2>2. ~IsEmpty(After(s, toks, cut(j))) /\ ~IsEmpty(After(s, toks, cut(k)))
    BY <1>3, <1>6
  <2>3. Last(After(s, toks, cut(j))).end + 1 < After(s, toks, cut(k))[1].pos
    BY <1>1, <2>1, <2>2, CutsPart
  <2>4. QED
    BY <1>7, <2>3 DEF End, First
<1>10. ASSUME NEW k \in 1..n
       PROVE  First(stmts, k) \in Nat \ {0} /\ End(stmts, k) \in Nat /\ First(stmts, k) <= End(stmts, k)
  <2> DEFINE c == cut(k)
             f == Following(s, toks, c)
  <2>1. c \in Cuts(s, toks) /\ ~IsEmpty(After(s, toks, c))
    BY <1>2, <1>3, <1>6
  <2>2. /\ c + 1 \in 1..Len(toks) /\ f - 1 \in (c + 1)..Len(toks)
        /\ After(s, toks, c)[1] = toks[c + 1] /\ Last(After(s, toks, c)) = toks[f - 1]
    BY <1>1, <2>1, EndsOfAfter
  <2>3. First(stmts, k) = toks[c + 1].pos /\ End(stmts, k) = toks[f - 1].end
    BY <1>7, <2>2 DEF First, End
  <2>4. c \in Int /\ f - 1 \in 1..Len(toks) /\ (c + 1 = f - 1 \/ c + 1 < f - 1)
    <3>1. c \in 0..Len(toks) /\ Len(toks) \in Nat
      BY <1>1, <2>1, FollowingIsNext
    <3> HIDE DEF f, c
    <3>2. QED
      BY <2>2, <3>1
  <2> HIDE DEF c, f
  <2>5. \A i \in 1..Len(toks) : toks[i].pos \in Nat /\ toks[i].end \in Nat
    <3>1. \A i \in 1..Len(toks) : toks[i] \in TokenRecords
      BY <1>1, ElementOfSeq
    <3>2. QED
      BY <3>1 DEF TokenRecords
  <2>6. 1 <= toks[c + 1].pos /\ toks[c + 1].pos <= toks[c + 1].end /\ toks[f - 1].pos <= toks[f - 1].end
    BY <1>1, <2>2, <2>4 DEF InOrder
  <2>7. c + 1 < f - 1 => toks[c + 1].end < toks[f - 1].pos
    BY <1>1, <2>2, <2>4 DEF InOrder
  <2>8. QED
    BY <2>2, <2>3, <2>4, <2>5, <2>6, <2>7
<1>11. QED
  BY <1>5, <1>7, <1>9, <1>10 DEF Apart, stmts

-----------------------------------------------------------------------------
(* The one at the caret *)

\* The least statement meant is the greatest one begun.
LEMMA MeantIsReached ==
  ASSUME NEW stmts, Apart(stmts), stmts # <<>>, NEW offset \in Nat
  PROVE  TheOneAt(stmts, offset) = LastReached(stmts, offset)
<1> DEFINE n == Len(stmts)
           P(k) == First(stmts, k)
           E(k) == End(stmts, k)
           meant == {k \in 1..n : offset <= E(k) \/ (k < n /\ offset < P(k + 1) - 1) \/ k = n}
           begun == {k \in 1..n : P(k) - 1 <= offset}
<1>1. /\ n \in Nat \ {0}
      /\ \A k \in 1..n : P(k) \in Nat \ {0} /\ E(k) \in Nat /\ P(k) <= E(k)
      /\ \A j, k \in 1..n : j < k => E(j) + 1 < P(k)
  <2>1. Len(stmts) = 0 => stmts = <<>>
    BY DEF Apart
  <2>2. QED
    BY <2>1 DEF Apart
<1>2. TheOneAt(stmts, offset) = stmts[CHOOSE k \in meant : \A m \in meant : k <= m]
  <2>1. meant = {k \in 1..Len(stmts) :
                   \/ offset <= Last(stmts[k]).end
                   \/ k < Len(stmts) /\ offset < stmts[k + 1][1].pos - 1
                   \/ k = Len(stmts)}
    BY DEF First, End
  <2> HIDE DEF meant
  <2>2. QED
    BY <2>1 DEF TheOneAt
<1>3. LastReached(stmts, offset)
        = IF begun = {} THEN stmts[1] ELSE stmts[CHOOSE k \in begun : \A m \in begun : m <= k]
  <2>1. DOMAIN stmts = 1..Len(stmts)
    BY DEF Apart
  <2>2. QED
    BY <2>1 DEF LastReached, First
<1> HIDE DEF n, P, E
<1>4. n \in meant /\ meant \in SUBSET (0..n)
  BY <1>1
<1>5. PICK m \in meant : \A k \in meant : m <= k
  <2> HIDE DEF meant
  <2>1. QED
    BY <1>1, <1>4, PartIsFinite, Least
<1>6. TheOneAt(stmts, offset) = stmts[m]
  <2>1. \A k \in meant : k \in Nat
    BY <1>1
  <2>2. \A k \in meant : (\A l \in meant : k <= l) => k = m
    BY <1>5, <2>1
  <2> HIDE DEF meant
  <2>3. (CHOOSE k \in meant : \A l \in meant : k <= l) = m
    BY <1>5, <2>2
  <2>4. QED
    BY <1>2, <2>3
<1>7. m \in 1..n
  BY <1>5
<1>8. m # 1 => m \in begun
  <2>1. SUFFICES ASSUME m # 1 PROVE m \in begun
    OBVIOUS
  <2>2. m - 1 \in 1..n /\ m - 1 < n /\ (m - 1) + 1 = m /\ ~(m <= m - 1)
    BY <1>1, <1>7, <2>1
  <2>3. m - 1 \notin meant
    BY <1>5, <2>2
  <2>4. ~(offset < P((m - 1) + 1) - 1)
    BY <2>2, <2>3
  <2>5. P(m) \in Nat
    BY <1>1, <1>7
  <2>6. QED
    BY <1>7, <2>2, <2>4, <2>5
<1>9. \A k \in begun : k <= m
  <2>1. SUFFICES ASSUME NEW k \in begun, m < k PROVE FALSE
    BY <1>7
  <2>2. m + 1 \in 1..n /\ m < n /\ k \in 1..n /\ m < m + 1 /\ (m + 1 = k \/ m + 1 < k)
    BY <1>1, <1>7, <2>1
  <2>3. P(m + 1) \in Nat /\ P(k) \in Nat /\ E(m) \in Nat /\ E(m + 1) \in Nat
    BY <1>1, <1>7, <2>2
  <2>4. E(m) + 1 < P(m + 1)
    BY <1>1, <1>7, <2>2
  <2>5. P(m + 1) <= P(k)
    <3>1. m + 1 < k => E(m + 1) + 1 < P(k) /\ P(m + 1) <= E(m + 1)
      BY <1>1, <2>2
    <3>2. QED
      BY <2>2, <2>3, <3>1
  <2>6. offset < P(m + 1) - 1
    <3>1. offset <= E(m) \/ offset < P(m + 1) - 1
      BY <1>5, <2>2
    <3>2. QED
      BY <2>3, <2>4, <3>1
  <2>7. P(k) - 1 <= offset
    BY <2>1
  <2>8. QED
    BY <2>3, <2>5, <2>6, <2>7
<1>10. CASE begun = {}
  BY <1>3, <1>6, <1>8, <1>10
<1>11. CASE begun # {}
  <2>1. m \in begun
    <3>1. CASE m # 1
      BY <1>8, <3>1
    <3>2. CASE m = 1
      <4>1. PICK k \in begun : TRUE
        BY <1>11
      <4>2. k = 1
        BY <1>9, <3>2, <4>1
      <4>3. QED
        BY <3>2, <4>1, <4>2
    <3>3. QED
      BY <3>1, <3>2
  <2>2. \A k \in begun : k \in Nat
    BY <1>1
  <2>3. \A k \in begun : (\A l \in begun : l <= k) => k = m
    BY <1>9, <2>1, <2>2
  <2> HIDE DEF begun
  <2>4. (CHOOSE k \in begun : \A l \in begun : l <= k) = m
    BY <1>9, <2>1, <2>3
  <2>5. QED
    BY <1>3, <1>6, <1>11, <2>4
<1>12. QED
  BY <1>10, <1>11

LEMMA ScriptsAreTexts == ScriptSpec => [](script \in Seq(STRING))
<1>1. ScriptInit => script \in Seq(STRING)
  BY TextsAreStrings DEF ScriptInit
<1>2. script \in Seq(STRING) /\ [ScriptNext]_<<script, typed>> => (script \in Seq(STRING))'
  <2> DEFINE S == STRING
  <2>1. Typable \subseteq S
    BY TextsAreStrings
  <2> HIDE DEF S
  <2>2. script \in Seq(S) /\ [ScriptNext]_<<script, typed>> => script' \in Seq(S)
    BY <2>1 DEF ScriptNext, Type
  <2>3. QED
    BY <2>2 DEF S
<1>3. QED
  BY <1>1, <1>2, PTL DEF ScriptSpec

(* What Ctrl+Enter runs, whatever is typed and wherever the caret is, is the *)
(* last statement that begins at or before it, or the first one: never one   *)
(* the caret has not reached (sqlparse.StatementAt).                         *)
THEOREM CaretRuns == ScriptSpec => []CaretRunsItsStatement
<1>1. script \in Seq(STRING) => CaretRunsItsStatement
  <2>1. SUFFICES ASSUME script \in Seq(STRING), Split(script) # <<>>, NEW offset \in 0..Len(script)
                 PROVE  TheOneAt(Split(script), offset) = LastReached(Split(script), offset)
    BY DEF CaretRunsItsStatement, Reached
  <2>2. Len(script) \in Nat /\ offset \in Nat
    BY <2>1
  <2>3. QED
    BY <2>1, <2>2, StatementsAreApart, MeantIsReached
<1>2. QED
  BY <1>1, ScriptsAreTexts, PTL

-----------------------------------------------------------------------------
(* What one lexeme more makes of a state, whole *)

State(in, from, depth, ends, toks) ==
  [in |-> in, from |-> from, depth |-> depth, ends |-> ends, toks |-> toks]
With(st, in, toks) == State(in, st.from, st.depth, st.ends, toks)

\* In no literal and no comment.
Codes == {"code", "word"}

\* The depth of the token c is, and the one after it.
Bracket(c, depth, d, after) ==
  IF c = "(" THEN d = depth /\ after = depth + 1
  ELSE IF c = ")" THEN d = (IF depth > 0 THEN depth - 1 ELSE 0) /\ after = d
  ELSE d = depth /\ after = depth

\* Where the executable comment ends that the i-th lexeme begins, or goes on in.
Closes(st, s, i) == IF st.ends = 0 THEN FirstClose(s, i) ELSE st.ends
\* From a state in code, by the i-th lexeme.
Grows(st, new, s, i) ==
  \/ s[i] \in Openers /\ new = State(s[i], i, st.depth, st.ends, st.toks)
  \/ s[i] \in Letters /\ new = State("word", i, st.depth, st.ends, st.toks)
  \/ s[i] \in Executable /\ \E e : e = Closes(st, s, i) /\ new = State("code", st.from, st.depth, e, st.toks)
  \/ s[i] \in {"nl", "sp"} /\ new = st
  \/ \E k \in {"word", "punct"}, d, after \in Nat :
       /\ s[i] \notin Openers \cup Letters \cup Executable \cup {"nl", "sp"}
       /\ k = "word" <=> IsWord(s[i])
       /\ Bracket(s[i], st.depth, d, after)
       /\ new = State("code", st.from, after, st.ends, Append(st.toks, Token(k, i, i, d)))

LEMMA FieldsOfState ==
  ASSUME NEW in, NEW from, NEW depth, NEW ends, NEW toks
  PROVE  LET st == State(in, from, depth, ends, toks)
         IN IsState(st) /\ st.in = in /\ st.from = from /\ st.depth = depth /\ st.ends = ends /\ st.toks = toks
BY DEF State, IsState

LEMMA InChanged ==
  ASSUME NEW st, IsState(st), NEW c
  PROVE  [st EXCEPT !.in = c] = State(c, st.from, st.depth, st.ends, st.toks)
BY DEF IsState, State

LEMMA EmitShape ==
  ASSUME NEW st, IsState(st), NEW k, NEW first, NEW last
  PROVE  Emit(st, k, first, last) = With(st, "code", Append(st.toks, Token(k, first, last, st.depth)))
BY EmitIs DEF State, With

LEMMA InCodeForms ==
  ASSUME NEW s, NEW i, NEW st, IsState(st), st.in = "code", st.depth \in Nat
  PROVE  Grows(st, InCode(st, s, i), s, i)
<1> DEFINE c == s[i]
           d == IF st.depth > 0 THEN st.depth - 1 ELSE 0
           Ending(e) == [st EXCEPT !.ends = e]
           Up == [Emit(st, "punct", i, i) EXCEPT !.depth = @ + 1]
           Lower == [st EXCEPT !.depth = d]
           Down == Emit(Lower, "punct", i, i)
           One(k) == Emit(st, k, i, i)
<1>1. \A x : Opened(st, x, i) = State(x, i, st.depth, st.ends, st.toks)
  <2>1. ASSUME NEW x PROVE Opened(st, x, i) = State(x, i, st.depth, st.ends, st.toks)
    <3> DEFINE mid == [st EXCEPT !.in = x]
               new == [mid EXCEPT !.from = i]
    <3>1. mid = State(x, st.from, st.depth, st.ends, st.toks)
      BY InChanged
    <3>2. Opened(st, x, i) = new
      BY DEF Opened
    <3> HIDE DEF mid
    <3>3. new = State(x, i, st.depth, st.ends, st.toks)
      BY <3>1 DEF State
    <3>4. QED
      BY <3>2, <3>3
  <2>2. QED
    BY <2>1
<1>2. \A e : Ending(e) = State("code", st.from, st.depth, e, st.toks)
  BY DEF State, IsState
<1>3. \A k : One(k) = State("code", st.from, st.depth, st.ends, Append(st.toks, Token(k, i, i, st.depth)))
  BY EmitShape DEF With
<1>4. Up = State("code", st.from, st.depth + 1, st.ends, Append(st.toks, Token("punct", i, i, st.depth)))
  <2> DEFINE one == Emit(st, "punct", i, i)
             more == Append(st.toks, Token("punct", i, i, st.depth))
  <2>1. one = State("code", st.from, st.depth, st.ends, more)
    BY <1>3
  <2> HIDE DEF one, more
  <2>2. [one EXCEPT !.depth = one.depth + 1] = State("code", st.from, st.depth + 1, st.ends, more)
    <3>1. one.depth = st.depth
      BY <2>1 DEF State
    <3> DEFINE deeper == st.depth + 1
    <3> HIDE DEF deeper
    <3>2. [one EXCEPT !.depth = deeper] = State("code", st.from, deeper, st.ends, more)
      BY <2>1 DEF State
    <3>3. QED
      BY <3>1, <3>2 DEF deeper
  <2>3. QED
    BY <2>2 DEF one, more
<1>5. Down = State("code", st.from, d, st.ends, Append(st.toks, Token("punct", i, i, d)))
  <2> HIDE DEF d
  <2>1. Lower = State("code", st.from, d, st.ends, st.toks)
    BY DEF State, IsState
  <2> HIDE DEF Lower
  <2>2. IsState(Lower) /\ Lower.from = st.from /\ Lower.depth = d /\ Lower.ends = st.ends /\ Lower.toks = st.toks
    BY <2>1, FieldsOfState
  <2>3. QED
    BY <2>2, EmitShape DEF With
<1> DEFINE e == Closes(st, s, i)
<1>6. InCode(st, s, i)
               = CASE c \in Openers -> Opened(st, c, i)
                   [] c \in Executable -> Ending(e)
                   [] c \in {"nl", "sp"} -> st
                   [] c = "(" -> Up
                   [] c = ")" -> Down
                   [] IsWord(c) -> IF c \in Letters THEN Opened(st, "word", i) ELSE One("word")
                   [] OTHER -> One("punct")
  <2>1. [st EXCEPT !.ends = IF @ = 0 THEN FirstClose(s, i) ELSE @] = Ending(e)
    BY DEF Closes
  <2> HIDE DEF e
  <2>2. QED
    BY <2>1 DEF InCode, Opened
<1> DEFINE new == InCode(st, s, i)
<1> HIDE DEF Ending, Up, Down, One, new
<1>7. (c \in Letters => IsWord(c)) /\ d \in Nat /\ st.depth + 1 \in Nat
  BY LettersAreWords
<1> DEFINE Opens(x) == Opened(st, x, i)
<1>8. new = CASE c \in Openers -> Opens(c)
              [] c \in Executable -> Ending(e)
              [] c \in {"nl", "sp"} -> st
              [] c = "(" -> Up
              [] c = ")" -> Down
              [] IsWord(c) -> IF c \in Letters THEN Opens("word") ELSE One("word")
              [] OTHER -> One("punct")
  BY <1>6 DEF Openers, new, Executable
<1>9. \A x : Opens(x) = State(x, i, st.depth, st.ends, st.toks)
  BY <1>1
<1>10. IsWord(c) => c \notin Openers \cup Executable \cup {"nl", "sp", "(", ")"}
  BY DEF IsWord, Openers, Quotes, Executable, Marks, Puncts, LineComments, BlockComments
<1>11. \A x \in {"(", ")"} : x \notin Openers \cup Executable \cup {"nl", "sp"}
  BY DEF Openers, Quotes, LineComments, BlockComments, Executable
<1>21. \A x \in {"(", ")"} : ~IsWord(x) /\ x \notin Letters
  BY LettersAreWords DEF IsWord, Puncts
<1> HIDE DEF Opens, c, d
<1>12. \/ c \in Openers /\ new = Opens(c)
       \/ c \in Executable /\ new = Ending(e)
       \/ c \in {"nl", "sp"} /\ new = st
       \/ c = "(" /\ new = Up
       \/ c = ")" /\ new = Down
       \/ IsWord(c) /\ c \in Letters /\ new = Opens("word")
       \/ IsWord(c) /\ c \notin Letters /\ new = One("word")
       \/ /\ c \notin Openers \cup Executable \cup {"nl", "sp", "(", ")"} /\ ~IsWord(c)
          /\ new = One("punct")
  BY <1>8
<1>13. ASSUME NEW k \in {"word", "punct"}, NEW f \in Nat, NEW g \in Nat,
              c \notin Openers \cup Letters \cup Executable \cup {"nl", "sp"}, k = "word" <=> IsWord(c), Bracket(c, st.depth, f, g),
              new = State("code", st.from, g, st.ends, Append(st.toks, Token(k, i, i, f)))
       PROVE  Grows(st, new, s, i)
  BY <1>13 DEF Grows, c
<1>14. CASE (c \in Openers /\ new = Opens(c)) \/ (IsWord(c) /\ c \in Letters /\ new = Opens("word"))
  BY <1>9, <1>14 DEF Grows, c, new
<1>15. CASE (c \in Executable /\ new = Ending(e)) \/ (c \in {"nl", "sp"} /\ new = st)
  BY <1>2, <1>15 DEF Grows, c, new, e
<1>16. CASE c = "(" /\ new = Up
  BY <1>4, <1>7, <1>10, <1>11, <1>13, <1>16, <1>21 DEF Bracket, new
<1>17. CASE c = ")" /\ new = Down
  BY <1>5, <1>7, <1>10, <1>11, <1>13, <1>17, <1>21 DEF Bracket, d, new
<1>18. CASE IsWord(c) /\ c \notin Letters /\ new = One("word")
  BY <1>3, <1>10, <1>13, <1>18 DEF Bracket, new
<1>19. CASE /\ c \notin Openers \cup Executable \cup {"nl", "sp", "(", ")"} /\ ~IsWord(c)
            /\ new = One("punct")
  BY <1>3, <1>7, <1>13, <1>19 DEF Bracket, new
<1>20. QED
  BY <1>12, <1>14, <1>15, <1>16, <1>17, <1>18, <1>19

\* Inside a literal or a comment: what it becomes, and where it ends.
Stays(in, c, s, i) ==
  \/ in \in Quotes /\ s[i] # in /\ ~(in = "q" /\ s[i] = "bs") /\ c = in
  \/ in = "q" /\ s[i] = "bs" /\ c = "q escaped"
  \/ in = "q" /\ s[i] = "q" /\ i < Len(s) /\ s[i + 1] = "q" /\ c = "q doubled"
  \/ in = "bt" /\ s[i] = "bt" /\ i < Len(s) /\ s[i + 1] = "bt" /\ c = "bt doubled"
  \/ in \in {"q escaped", "q doubled"} /\ c = "q"
  \/ in = "bt doubled" /\ c = "bt"
  \/ in \in LineComments /\ s[i] # "nl" /\ c = in
  \/ in \in BlockComments /\ s[i] # "*/" /\ c = in
Ends(in, s, i, last) ==
  \/ in \in Quotes /\ s[i] = in /\ last = i
  \/ in \in LineComments /\ s[i] = "nl" /\ last = i - 1
  \/ in \in BlockComments /\ s[i] = "*/" /\ last = i

\* The first of two quotes that stand for one.
Doubled == {"q doubled", "bt doubled"}
Twice(st, s, i) == s[i] = st.in /\ i < Len(s) /\ i + 1 # st.ends /\ s[i + 1] = st.in

\* The state with what it is inside of made a token that ends there.
Ended(st, kind, last) == With(st, "code", Append(st.toks, Token(kind, st.from, last, st.depth)))

Moves(st, new, s, i) ==
  \/ st.in = "code" /\ Grows(st, new, s, i)
  \/ st.in = "word" /\ s[i] \in Letters /\ new = st
  \/ st.in = "word" /\ s[i] \notin Letters /\ Grows(Ended(st, "word", i - 1), new, s, i)
  \/ /\ st.in \notin Codes
     /\ \E c \in Insides \ {"word"} :
          new = With(st, c, st.toks) /\ Stays(st.in, c, s, i) /\ (c \in Doubled => Twice(st, s, i))
  \/ /\ st.in \notin Codes
     /\ \E last \in {i - 1, i} :
          new = Ended(st, KindOf(st.in), last) /\ Ends(st.in, s, i, last) /\ ~(st.in \in Quotes /\ Twice(st, s, i))

LEMMA MovesAre ==
  ASSUME NEW s, NEW i, NEW st, NEW new, Moves(st, new, s, i)
  PROVE  \/ st.in = "code" /\ Grows(st, new, s, i)
         \/ st.in = "word" /\ s[i] \in Letters /\ new = st
         \/ st.in = "word" /\ s[i] \notin Letters /\ Grows(Ended(st, "word", i - 1), new, s, i)
         \/ st.in \notin Codes /\ \E c \in Insides \ {"word"} : new = With(st, c, st.toks) /\ Stays(st.in, c, s, i)
         \/ st.in \notin Codes /\ \E last \in {i - 1, i} : new = Ended(st, KindOf(st.in), last) /\ Ends(st.in, s, i, last)
BY DEF Moves

LEMMA InQuoteForms ==
  ASSUME NEW s, NEW i, NEW st, IsState(st), st.in \in Quotes
  PROVE  Moves(st, InQuote(st, s, i), s, i)
<1> DEFINE new == InQuote(st, s, i)
           twice == Twice(st, s, i)
           Back(c) == [st EXCEPT !.in = c]
<1>1. /\ s[i] = "bs" /\ st.in = "q" => new = Back("q escaped")
      /\ s[i] # "bs" \/ st.in # "q" =>
           /\ twice => new = Back(IF st.in = "q" THEN "q doubled" ELSE "bt doubled")
           /\ s[i] = st.in /\ ~twice => new = Emit(st, KindOf(st.in), st.from, i)
           /\ s[i] # st.in => new = st
  BY DEF InQuote, Quotes, Twice
<1>2. \A c : Back(c) = With(st, c, st.toks)
  BY InChanged DEF With
<1>3. Emit(st, KindOf(st.in), st.from, i) = Ended(st, KindOf(st.in), i)
  BY EmitShape DEF Ended
<1>4. st = With(st, st.in, st.toks)
  BY DEF With, State, IsState
<1> HIDE DEF new, Back
<1>5. st.in \notin Codes /\ st.in \in Insides \ {"word"}
  BY DEF Codes, Quotes, Openers, Insides
<1>6. \A c \in Insides \ {"word"} :
        new = With(st, c, st.toks) /\ Stays(st.in, c, s, i) /\ (c \in Doubled => twice) => Moves(st, new, s, i)
  BY <1>5 DEF Moves
<1>7. CASE s[i] = "bs" /\ st.in = "q"
  <2>1. new = With(st, "q escaped", st.toks)
    BY <1>1, <1>2, <1>7
  <2>2. Stays(st.in, "q escaped", s, i) /\ "q escaped" \in Insides \ {"word"} /\ "q escaped" \notin Doubled
    BY <1>7 DEF Stays, Insides, Doubled
  <2>3. QED
    BY <1>6, <2>1, <2>2 DEF new
<1>8. CASE (s[i] # "bs" \/ st.in # "q") /\ twice
  BY <1>1, <1>2, <1>6, <1>8 DEF Stays, Insides, Quotes, Twice, new
<1>9. CASE (s[i] # "bs" \/ st.in # "q") /\ s[i] = st.in /\ ~twice
  BY <1>1, <1>3, <1>5, <1>9 DEF Moves, Ends, new
<1>10. CASE (s[i] # "bs" \/ st.in # "q") /\ s[i] # st.in
  <2>1. new = With(st, st.in, st.toks)
    BY <1>1, <1>4, <1>10
  <2>2. Stays(st.in, st.in, s, i)
    BY <1>10 DEF Stays
  <2>3. QED
    BY <1>5, <1>6, <2>1, <2>2 DEF new, Doubled, Quotes
<1>11. QED
  BY <1>7, <1>8, <1>9, <1>10

\* Where an executable comment ends, what it is inside of does.
LEMMA ClosingForm ==
  ASSUME NEW i, NEW st, IsState(st)
  PROVE  Closing(st, i) = IF st.in = "code" THEN State("code", st.from, st.depth, 0, st.toks)
                          ELSE State("code", st.from, st.depth, 0, Ended(st, KindOf(st.in), i - 1).toks)
<1> DEFINE e == IF st.in = "code" THEN st ELSE Emit(st, KindOf(st.in), st.from, i - 1)
<1>1. Closing(st, i) = [e EXCEPT !.ends = 0]
  BY DEF Closing
<1>2. IsState(e) /\ e.in = "code" /\ e.from = st.from /\ e.depth = st.depth
  BY EmitShape, FieldsOfState DEF With
<1>3. e.toks = IF st.in = "code" THEN st.toks ELSE Ended(st, KindOf(st.in), i - 1).toks
  BY EmitShape DEF Ended
<1> HIDE DEF e
<1>4. [e EXCEPT !.ends = 0] = State("code", e.from, e.depth, 0, e.toks)
  BY <1>2 DEF State, IsState
<1>5. QED
  BY <1>1, <1>2, <1>3, <1>4

LEMMA StepForms ==
  ASSUME NEW s, NEW i, NEW st, IsState(st), st.in \in {"code"} \cup Insides, st.depth \in Nat, i # st.ends
  PROVE  Moves(st, LexStep(st, s, i), s, i)
<1> DEFINE new == LexStep(st, s, i)
           Word == Emit(st, "word", st.from, i - 1)
           Back(c) == [st EXCEPT !.in = c]
           Comment(last) == Emit(st, "comment", st.from, last)
<1>1. new = CASE st.in = "code" -> InCode(st, s, i)
              [] st.in = "word" -> IF s[i] \in Letters THEN st ELSE InCode(Word, s, i)
              [] st.in \in Quotes -> InQuote(st, s, i)
              [] st.in \in {"q escaped", "q doubled"} -> Back("q")
              [] st.in = "bt doubled" -> Back("bt")
              [] st.in \in LineComments -> IF s[i] = "nl" THEN Comment(i - 1) ELSE st
              [] st.in \in BlockComments -> IF s[i] = "*/" THEN Comment(i) ELSE st
  BY DEF LexStep
<1>2. \A c : Back(c) = With(st, c, st.toks)
  BY InChanged DEF With
<1>3. Word = Ended(st, "word", i - 1) /\ \A last : Comment(last) = Ended(st, "comment", last)
  BY EmitShape DEF Ended
<1>4. st = With(st, st.in, st.toks)
  BY DEF With, State, IsState
<1> HIDE DEF new, Word, Back, Comment
<1> USE DEF Insides, Openers, Quotes, LineComments, BlockComments, Executable
<1>5. /\ st.in = "code" => new = InCode(st, s, i)
      /\ st.in = "word" /\ s[i] \in Letters => new = st
      /\ st.in = "word" /\ s[i] \notin Letters => new = InCode(Word, s, i)
      /\ st.in \in Quotes => new = InQuote(st, s, i)
      /\ st.in \in {"q escaped", "q doubled"} => new = Back("q")
      /\ st.in = "bt doubled" => new = Back("bt")
      /\ st.in \in LineComments /\ s[i] = "nl" => new = Comment(i - 1)
      /\ st.in \in BlockComments /\ s[i] = "*/" => new = Comment(i)
      /\ (st.in \in LineComments /\ s[i] # "nl") \/ (st.in \in BlockComments /\ s[i] # "*/") => new = st
  BY <1>1
<1>6. \A c \in Insides \ {"word"} :
        st.in \notin Codes /\ new = With(st, c, st.toks) /\ Stays(st.in, c, s, i) /\ c \notin Doubled =>
          Moves(st, new, s, i)
  BY DEF Moves
<1>7. CASE st.in = "code"
  BY <1>5, <1>7, InCodeForms DEF Moves, new
<1>8. CASE st.in = "word"
  <2>1. IsState(Word) /\ Word.in = "code" /\ Word.depth = st.depth
    BY <1>3 DEF Ended, With, State, IsState
  <2>2. Grows(Word, InCode(Word, s, i), s, i)
    BY <2>1, InCodeForms
  <2>3. QED
    BY <1>3, <1>5, <1>8, <2>2 DEF Moves, new
<1>9. CASE st.in \in Quotes
  BY <1>5, <1>9, InQuoteForms DEF new
<1>10. CASE st.in \in {"q escaped", "q doubled", "bt doubled"}
  <2> DEFINE c == IF st.in = "bt doubled" THEN "bt" ELSE "q"
  <2>1. new = With(st, c, st.toks)
    BY <1>2, <1>5, <1>10
  <2>2. Stays(st.in, c, s, i) /\ c \in Insides \ {"word"} /\ c \notin Doubled /\ st.in \notin Codes
    BY <1>10 DEF Stays, Codes, Doubled
  <2>3. QED
    BY <1>6, <2>1, <2>2 DEF new
<1>11. CASE (st.in \in LineComments /\ s[i] # "nl") \/ (st.in \in BlockComments /\ s[i] # "*/")
  BY <1>4, <1>5, <1>6, <1>11 DEF Stays, Codes, Doubled, new
<1>12. CASE (st.in \in LineComments /\ s[i] = "nl") \/ (st.in \in BlockComments /\ s[i] = "*/")
  <2>1. KindOf(st.in) = "comment" /\ st.in \notin Codes
    BY <1>12 DEF KindOf, Codes
  <2>2. \E last \in {i - 1, i} : new = Ended(st, KindOf(st.in), last) /\ Ends(st.in, s, i, last)
    BY <1>3, <1>5, <1>12, <2>1 DEF Ends
  <2>3. st.in \notin Quotes
    BY <1>12
  <2>4. QED
    BY <2>1, <2>2, <2>3 DEF Moves, new
<1>13. QED
  BY <1>7, <1>8, <1>9, <1>10, <1>11, <1>12

-----------------------------------------------------------------------------
(* The server reads the same text in step with the client: for it a quote    *)
(* that will be doubled has ended its literal, and the second opens another. *)

Sees(in) == IF in \in Codes \cup Doubled THEN "code" ELSE in
\* A quote is taken for the first of two only when the second is there.
Foreseen(in, s, i) ==
  /\ in = "q doubled" => i < Len(s) /\ s[i + 1] = "q"
  /\ in = "bt doubled" => i < Len(s) /\ s[i + 1] = "bt"

LEMMA GrowsIn ==
  ASSUME NEW s, NEW i, NEW st, NEW new, st.in = "code", Grows(st, new, s, i)
  PROVE  \/ s[i] \in Openers /\ new.in = s[i]
         \/ s[i] \notin Openers /\ new.in \in Codes
<1>1. s[i] \in Letters \cup Executable \cup {"nl", "sp"} => s[i] \notin Openers
  BY LettersAreWords DEF IsWord, Openers, Quotes, Executable, Marks, LineComments, BlockComments
<1>2. \A in, from, depth, ends, toks : State(in, from, depth, ends, toks).in = in
  BY DEF State
<1>3. QED
  BY <1>1, <1>2 DEF Grows, Codes

LEMMA StepInStep ==
  ASSUME NEW s, NEW i \in Nat \ {0}, NEW st, NEW new, st.in \in {"code"} \cup Insides,
         Moves(st, new, s, i), Foreseen(st.in, s, i - 1)
  PROVE  /\ new.in \in {"code"} \cup Insides /\ Foreseen(new.in, s, i)
         /\ ~PartAt(st, s, i) => ServerStep(Sees(st.in), s[i]) = Sees(new.in)
         /\ new.in \in Doubled => st.in \in Quotes
         /\ st.in \in Doubled => new.in \in Quotes
<1> DEFINE c == s[i]
           a == st.in
           b == new.in
<1>1. \A in, toks : With(st, in, toks).in = in
  BY DEF With, State
<1>2. \/ a \in Codes /\ c \in Openers /\ b = c
      \/ a \in Codes /\ c \notin Openers /\ b \in Codes
      \/ a \notin Codes /\ b \in Insides \ {"word"} /\ Stays(a, b, s, i)
      \/ a \notin Codes /\ b = "code" /\ \E last : Ends(a, s, i, last)
  <2>1. c \in Letters => c \notin Openers
    BY LettersAreWords DEF IsWord, Openers, Quotes, Executable, Marks, LineComments, BlockComments
  <2>2. CASE a \in Codes
    <3>1. Ended(st, "word", i - 1).in = "code"
      BY <1>1 DEF Ended
    <3>2. QED
      BY <2>1, <2>2, <3>1, GrowsIn DEF Moves, Codes
  <2>3. CASE a \notin Codes
    <3>1. a # "code" /\ a # "word"
      BY <2>3 DEF Codes
    <3>2. QED
      BY <1>1, <2>3, <3>1, MovesAre DEF Ended
  <2>4. QED
    BY <2>2, <2>3
<1>3. a = "q doubled" => c = "q"
  <2>1. i - 1 + 1 = i
    OBVIOUS
  <2>2. QED
    BY <2>1, Zenon DEF Foreseen
<1>4. a = "bt doubled" => c = "bt"
  <2>1. i - 1 + 1 = i
    OBVIOUS
  <2>2. QED
    BY <2>1, Zenon DEF Foreseen
<1>10. ~PartAt(st, s, i) /\ a \in Codes => c \notin {"--1", "/*M!", "/*!9"}
  BY DEF PartAt, Codes
<1> DEFINE apart == PartAt(st, s, i)
<1> HIDE DEF a, b, c, apart
<1> USE DEF ServerStep, Sees, Codes, Doubled, Openers, Quotes, LineComments, BlockComments, Insides, Executable
<1>5. CASE a \in Codes /\ c \in Openers /\ b = c
  BY <1>5, <1>10 DEF Foreseen, a, b, c, apart
<1>6. CASE a \in Codes /\ c \notin Openers /\ b \in Codes
  BY <1>6, <1>10 DEF Foreseen, a, b, c, apart
<1>7. CASE a \notin Codes /\ b \in Insides \ {"word"} /\ Stays(a, b, s, i)
  <2>1. Foreseen(b, s, i)
    BY <1>7 DEF Foreseen, Stays
  <2>2. ServerStep(Sees(a), c) = Sees(b)
    BY <1>3, <1>4, <1>7 DEF Stays, c
  <2>3. b \in Doubled => a \in Quotes
    BY <1>7 DEF Stays
  <2>4. a \in Doubled => b \in Quotes
    BY <1>7 DEF Stays
  <2>5. QED
    BY <1>7, <2>1, <2>2, <2>3, <2>4 DEF a, b, c
<1>8. CASE a \notin Codes /\ b = "code" /\ \E last : Ends(a, s, i, last)
  <2>1. a \in Openers /\ ServerStep(Sees(a), c) = Sees(b)
    BY <1>8 DEF Ends, c
  <2>2. QED
    BY <1>8, <2>1 DEF Foreseen, a, b, c
<1>9. QED
  BY <1>2, <1>5, <1>6, <1>7, <1>8

LEMMA InvIs ==
  ASSUME NEW st, NEW n, LexInv(st, n)
  PROVE  /\ IsState(st) /\ st.in \in {"code"} \cup Insides /\ st.depth \in Nat /\ st.toks \in Seq(TokenRecords)
         /\ st.in # "code" => st.from \in 1..n
BY DEF LexInv, Holds

\* A state is that of a closed one, or a move from the one before.
LEMMA RunMoves ==
  ASSUME NEW s, Len(s) \in Nat, NEW f, IsRun(f, s), NEW i \in 1..Len(s)
  PROVE  /\ i \in Nat \ {0} /\ i \in 0..Len(s) /\ i - 1 \in 0..Len(s)
         /\ LexInv(f[i - 1], i - 1) /\ LexInv(f[i], i)
         /\ i # f[i - 1].ends => Moves(f[i - 1], f[i], s, i)
         /\ i = f[i - 1].ends => f[i] = Closing(f[i - 1], i)
<1>1. i \in Nat \ {0} /\ i \in 0..Len(s) /\ i - 1 \in 0..Len(s)
  OBVIOUS
<1>2. f[i] = LexStep(f[i - 1], s, i)
  BY <1>1 DEF IsRun
<1>3. LexInv(f[i - 1], i - 1) /\ LexInv(f[i], i)
  BY <1>1, RunKeeps
<1> DEFINE st == f[i - 1]
<1> HIDE DEF st
<1>4. IsState(st) /\ st.in \in {"code"} \cup Insides /\ st.depth \in Nat
  BY <1>3, InvIs DEF st
<1>5. i # st.ends => Moves(st, LexStep(st, s, i), s, i)
  BY <1>4, StepForms
<1>6. i = st.ends => LexStep(st, s, i) = Closing(st, i)
  BY DEF LexStep
<1>7. QED
  BY <1>1, <1>2, <1>3, <1>5, <1>6 DEF st

-----------------------------------------------------------------------------
(* What one lexeme more makes of a state, as a function of that lexeme, and  *)
(* of what the lexer looks ahead for.                                        *)

Deeper(c, depth) ==
  IF c = "(" THEN depth + 1 ELSE IF c = ")" THEN IF depth > 0 THEN depth - 1 ELSE 0 ELSE depth
Level(c, depth) == IF c = ")" THEN Deeper(c, depth) ELSE depth

\* What it is inside of becomes a token, which ends there or before.
Breaks(in, c, here, twice) ==
  \/ here /\ in # "code"
  \/ ~here /\ in = "word" /\ c \notin Letters
  \/ ~here /\ in \in Quotes /\ c = in /\ ~twice
  \/ ~here /\ in \in LineComments /\ c = "nl"
  \/ ~here /\ in \in BlockComments /\ c = "*/"
LastOf(in, i, here) == IF ~here /\ in \in Quotes \cup BlockComments THEN i ELSE i - 1
\* The lexeme is a token.
Tells(in, c, here) == ~here /\ in \in Codes /\ c \notin Openers \cup Letters \cup Executable \cup {"nl", "sp"}
Begins(in, c, here) == ~here /\ in \in Codes /\ (c \in Openers \/ (in = "code" /\ c \in Letters))

StaysIn(in, c) ==
  IF in \in {"q escaped", "q doubled"} THEN "q"
  ELSE IF in = "bt doubled" THEN "bt"
  ELSE IF in = "q" /\ c = "bs" THEN "q escaped"
  ELSE IF in = "q" /\ c = "q" THEN "q doubled"
  ELSE IF in = "bt" /\ c = "bt" THEN "bt doubled"
  ELSE in
InAfter(in, c, here, twice) ==
  IF here THEN "code"
  ELSE IF in \in Codes THEN IF c \in Openers THEN c ELSE IF c \in Letters THEN "word" ELSE "code"
  ELSE IF Breaks(in, c, here, twice) THEN "code" ELSE StaysIn(in, c)
EndsAfter(st, c, here, close) ==
  IF here THEN 0 ELSE IF st.in \in Codes /\ c \in Executable /\ st.ends = 0 THEN close ELSE st.ends

Broken(st, c, i, here, twice) ==
  IF Breaks(st.in, c, here, twice)
  THEN Append(st.toks, Token(KindOf(st.in), st.from, LastOf(st.in, i, here), st.depth))
  ELSE st.toks
Told(toks, st, c, i, here) ==
  IF Tells(st.in, c, here)
  THEN Append(toks, Token(IF IsWord(c) THEN "word" ELSE "punct", i, i, Level(c, st.depth)))
  ELSE toks

Stepped(st, c, i, here, twice, close) ==
  State(InAfter(st.in, c, here, twice),
        IF Begins(st.in, c, here) THEN i ELSE st.from,
        IF ~here /\ st.in \in Codes THEN Deeper(c, st.depth) ELSE st.depth,
        EndsAfter(st, c, here, close),
        Told(Broken(st, c, i, here, twice), st, c, i, here))

LEMMA GrowsIs ==
  ASSUME NEW s, NEW i, NEW b, IsState(b), b.in = "code", NEW new, Grows(b, new, s, i)
  PROVE  LET c == s[i]
         IN new = State(IF c \in Openers THEN c ELSE IF c \in Letters THEN "word" ELSE "code",
                        IF c \in Openers \cup Letters THEN i ELSE b.from,
                        Deeper(c, b.depth),
                        IF c \in Executable THEN Closes(b, s, i) ELSE b.ends,
                        IF c \notin Openers \cup Letters \cup Executable \cup {"nl", "sp"}
                        THEN Append(b.toks, Token(IF IsWord(c) THEN "word" ELSE "punct", i, i, Level(c, b.depth)))
                        ELSE b.toks)
<1> DEFINE c == s[i]
<1>1. b = State("code", b.from, b.depth, b.ends, b.toks)
  BY DEF IsState, State
<1>2. c \in Letters \cup Executable \cup {"nl", "sp"} => c \notin Openers /\ c \notin {"(", ")"}
  BY LettersAreWords DEF IsWord, Openers, Quotes, Executable, Marks, Puncts, LineComments, BlockComments
<1>3. /\ c \in Letters => c \notin Executable \cup {"nl", "sp"}
      /\ c \in {"nl", "sp"} => c \notin Executable
  BY LettersAreWords DEF IsWord, Executable, Marks
<1>4. c \in Openers => c \notin Executable \cup {"(", ")", "nl", "sp"}
  BY DEF Openers, Quotes, LineComments, BlockComments, Executable
<1>5. c \notin {"(", ")"} => Deeper(c, b.depth) = b.depth
  BY DEF Deeper
<1> HIDE DEF c
<1>6. CASE c \in Openers /\ new = State(c, i, b.depth, b.ends, b.toks)
  BY <1>4, <1>5, <1>6 DEF c
<1>7. CASE c \in Letters /\ new = State("word", i, b.depth, b.ends, b.toks)
  BY <1>2, <1>3, <1>5, <1>7 DEF c
<1>8. CASE c \in Executable /\ new = State("code", b.from, b.depth, Closes(b, s, i), b.toks)
  BY <1>2, <1>3, <1>5, <1>8 DEF c
<1>9. CASE c \in {"nl", "sp"} /\ new = b
  <2>1. c \notin Executable /\ c \notin Letters
    BY <1>3, <1>9
  <2>2. QED
    BY <1>1, <1>2, <1>5, <1>9, <2>1 DEF c
<1>10. ASSUME NEW k \in {"word", "punct"}, NEW d, NEW after,
              c \notin Openers \cup Letters \cup Executable \cup {"nl", "sp"}, k = "word" <=> IsWord(c),
              Bracket(c, b.depth, d, after),
              new = State("code", b.from, after, b.ends, Append(b.toks, Token(k, i, i, d)))
       PROVE  new = State("code", b.from, Deeper(c, b.depth), b.ends,
                          Append(b.toks, Token(IF IsWord(c) THEN "word" ELSE "punct", i, i, Level(c, b.depth))))
  <2>1. after = Deeper(c, b.depth) /\ d = Level(c, b.depth)
    BY <1>10 DEF Bracket, Deeper, Level
  <2>2. k = IF IsWord(c) THEN "word" ELSE "punct"
    BY <1>10
  <2>3. QED
    BY <1>10, <2>1, <2>2
<1>11. CASE \E k \in {"word", "punct"}, d, after \in Nat :
              /\ c \notin Openers \cup Letters \cup Executable \cup {"nl", "sp"}
              /\ k = "word" <=> IsWord(c)
              /\ Bracket(c, b.depth, d, after)
              /\ new = State("code", b.from, after, b.ends, Append(b.toks, Token(k, i, i, d)))
  <2>1. c \notin Openers \cup Letters \cup Executable \cup {"nl", "sp"}
    BY <1>11
  <2>2. new = State("code", b.from, Deeper(c, b.depth), b.ends,
                    Append(b.toks, Token(IF IsWord(c) THEN "word" ELSE "punct", i, i, Level(c, b.depth))))
    BY <1>10, <1>11
  <2>3. QED
    BY <2>1, <2>2 DEF c
<1>12. QED
  BY <1>6, <1>7, <1>8, <1>9, <1>11 DEF Grows, c

LEMMA StepIs ==
  ASSUME NEW s, NEW i, NEW st, IsState(st), st.in \in {"code"} \cup Insides, st.depth \in Nat
  PROVE  LexStep(st, s, i) = Stepped(st, s[i], i, i = st.ends, Twice(st, s, i), FirstClose(s, i))
<1> DEFINE c == s[i]
           here == i = st.ends
           twice == Twice(st, s, i)
           close == FirstClose(s, i)
           new == LexStep(st, s, i)
           tk(last) == Token(KindOf(st.in), st.from, last, st.depth)
<1>1. CASE here
  <2>1. new = Closing(st, i)
    BY <1>1 DEF LexStep
  <2>2. Ended(st, KindOf(st.in), i - 1).toks = Append(st.toks, tk(i - 1))
    BY DEF Ended, With, State
  <2>3. new = State("code", st.from, st.depth, 0, IF st.in = "code" THEN st.toks ELSE Append(st.toks, tk(i - 1)))
    BY <2>1, <2>2, ClosingForm
  <2> HIDE DEF tk, new
  <2>4. /\ ~Begins(st.in, c, here) /\ ~Tells(st.in, c, here)
        /\ InAfter(st.in, c, here, twice) = "code" /\ EndsAfter(st, c, here, close) = 0
        /\ (st.in # "code" <=> Breaks(st.in, c, here, twice)) /\ LastOf(st.in, i, here) = i - 1
    BY <1>1 DEF Begins, Tells, InAfter, EndsAfter, Breaks, LastOf
  <2> HIDE DEF here, twice, close, c
  <2>5. Told(Broken(st, c, i, here, twice), st, c, i, here)
          = IF st.in = "code" THEN st.toks ELSE Append(st.toks, tk(i - 1))
    BY <2>4 DEF Told, Broken, tk
  <2>6. QED
    BY <1>1, <2>3, <2>4, <2>5 DEF Stepped, here, twice, close, c, new
<1>2. CASE ~here
  <2>1. Moves(st, new, s, i)
    BY <1>2, StepForms
  <2> HIDE DEF new
  <2>2. CASE st.in = "code" /\ Grows(st, new, s, i)
    <3>1. st.in \in Codes /\ ~Breaks(st.in, c, here, twice) /\ Closes(st, s, i) = (IF st.ends = 0 THEN close ELSE st.ends)
      BY <1>2, <2>2 DEF Codes, Breaks, Closes, Openers, Quotes, LineComments, BlockComments, Executable
    <3>2. /\ InAfter(st.in, c, here, twice) = (IF c \in Openers THEN c ELSE IF c \in Letters THEN "word" ELSE "code")
          /\ Begins(st.in, c, here) <=> c \in Openers \cup Letters
          /\ EndsAfter(st, c, here, close) = IF c \in Executable THEN Closes(st, s, i) ELSE st.ends
          /\ Tells(st.in, c, here) <=> c \notin Openers \cup Letters \cup Executable \cup {"nl", "sp"}
      BY <1>2, <2>2, <3>1 DEF InAfter, Begins, EndsAfter, Tells
    <3> HIDE DEF here, twice, close
    <3>3. new = State(IF c \in Openers THEN c ELSE IF c \in Letters THEN "word" ELSE "code",
                      IF c \in Openers \cup Letters THEN i ELSE st.from,
                      Deeper(c, st.depth),
                      IF c \in Executable THEN Closes(st, s, i) ELSE st.ends,
                      IF c \notin Openers \cup Letters \cup Executable \cup {"nl", "sp"}
                      THEN Append(st.toks, Token(IF IsWord(c) THEN "word" ELSE "punct", i, i, Level(c, st.depth)))
                      ELSE st.toks)
      BY <2>2, GrowsIs
    <3> HIDE DEF c
    <3>4. Told(Broken(st, c, i, here, twice), st, c, i, here)
            = IF c \notin Openers \cup Letters \cup Executable \cup {"nl", "sp"}
              THEN Append(st.toks, Token(IF IsWord(c) THEN "word" ELSE "punct", i, i, Level(c, st.depth)))
              ELSE st.toks
      BY <3>1, <3>2 DEF Told, Broken
    <3>5. QED
      BY <1>2, <3>1, <3>2, <3>3, <3>4 DEF Stepped, new, here, twice, close, c
  <2>3. CASE st.in = "word" /\ c \in Letters /\ new = st
    <3>1. st = State("word", st.from, st.depth, st.ends, st.toks)
      BY <2>3 DEF IsState, State
    <3>2. c \notin Openers /\ c \notin Executable \cup {"(", ")"}
      BY <2>3, LettersAreWords DEF IsWord, Openers, Quotes, Executable, Marks, Puncts, LineComments, BlockComments
    <3>3. /\ InAfter(st.in, c, here, twice) = "word" /\ ~Begins(st.in, c, here)
          /\ EndsAfter(st, c, here, close) = st.ends /\ Deeper(c, st.depth) = st.depth
          /\ ~Breaks(st.in, c, here, twice) /\ ~Tells(st.in, c, here)
      BY <1>2, <2>3, <3>2 DEF InAfter, Begins, EndsAfter, Deeper, Breaks, Tells, Codes, Openers, Quotes, LineComments, BlockComments, Executable
    <3> HIDE DEF here, twice, close, c
    <3>4. Told(Broken(st, c, i, here, twice), st, c, i, here) = st.toks
      BY <3>3 DEF Told, Broken
    <3>5. QED
      BY <2>3, <3>1, <3>3, <3>4 DEF Stepped, new, here, twice, close, c
  <2>4. CASE st.in = "word" /\ c \notin Letters /\ Grows(Ended(st, "word", i - 1), new, s, i)
    <3> DEFINE b == Ended(st, "word", i - 1)
    <3>1. /\ IsState(b) /\ b.in = "code" /\ b.from = st.from /\ b.depth = st.depth /\ b.ends = st.ends
          /\ b.toks = Append(st.toks, Token("word", st.from, i - 1, st.depth))
      BY DEF Ended, With, State, IsState
    <3> HIDE DEF b
    <3>2. st.in \in Codes /\ Closes(b, s, i) = (IF st.ends = 0 THEN close ELSE st.ends)
      BY <2>4, <3>1 DEF Codes, Closes
    <3>3. Breaks(st.in, c, here, twice) /\ LastOf(st.in, i, here) = i - 1 /\ KindOf(st.in) = "word"
      BY <1>2, <2>4 DEF Breaks, LastOf, KindOf, Quotes, BlockComments
    <3>4. /\ InAfter(st.in, c, here, twice) = (IF c \in Openers THEN c ELSE IF c \in Letters THEN "word" ELSE "code")
          /\ Begins(st.in, c, here) <=> c \in Openers \cup Letters
          /\ EndsAfter(st, c, here, close) = IF c \in Executable THEN Closes(b, s, i) ELSE st.ends
          /\ Tells(st.in, c, here) <=> c \notin Openers \cup Letters \cup Executable \cup {"nl", "sp"}
      BY <1>2, <2>4, <3>2 DEF InAfter, Begins, EndsAfter, Tells
    <3> HIDE DEF here, twice, close
    <3>5. new = State(IF c \in Openers THEN c ELSE IF c \in Letters THEN "word" ELSE "code",
                      IF c \in Openers \cup Letters THEN i ELSE b.from,
                      Deeper(c, b.depth),
                      IF c \in Executable THEN Closes(b, s, i) ELSE b.ends,
                      IF c \notin Openers \cup Letters \cup Executable \cup {"nl", "sp"}
                      THEN Append(b.toks, Token(IF IsWord(c) THEN "word" ELSE "punct", i, i, Level(c, b.depth)))
                      ELSE b.toks)
      <4>1. Grows(b, new, s, i)
        BY <2>4 DEF b
      <4>2. QED
        BY <3>1, <4>1, GrowsIs
    <3> HIDE DEF c
    <3>6. Told(Broken(st, c, i, here, twice), st, c, i, here)
            = IF c \notin Openers \cup Letters \cup Executable \cup {"nl", "sp"}
              THEN Append(b.toks, Token(IF IsWord(c) THEN "word" ELSE "punct", i, i, Level(c, b.depth)))
              ELSE b.toks
      BY <3>1, <3>3, <3>4 DEF Told, Broken
    <3>7. QED
      BY <1>2, <3>1, <3>2, <3>4, <3>5, <3>6 DEF Stepped, new, here, twice, close, c
  <2>5. ASSUME st.in \notin Codes
        PROVE  /\ ~Begins(st.in, c, here) /\ ~Tells(st.in, c, here) /\ EndsAfter(st, c, here, close) = st.ends
               /\ InAfter(st.in, c, here, twice) = IF Breaks(st.in, c, here, twice) THEN "code" ELSE StaysIn(st.in, c)
    BY <1>2, <2>5 DEF Begins, Tells, EndsAfter, InAfter
  <2>6. ASSUME NEW d \in Insides \ {"word"}, st.in \notin Codes, new = With(st, d, st.toks), Stays(st.in, d, s, i),
               d \in Doubled => twice
        PROVE  new = Stepped(st, c, i, here, twice, close)
    <3>1. ~Breaks(st.in, c, here, twice) /\ d = StaysIn(st.in, c)
      BY <1>2, <2>6 DEF Stays, Breaks, StaysIn, Openers, Quotes, LineComments, BlockComments, Doubled, Codes, Executable
    <3> HIDE DEF here, twice, close, c
    <3>2. Told(Broken(st, c, i, here, twice), st, c, i, here) = st.toks
      BY <2>5, <2>6, <3>1 DEF Told, Broken
    <3>3. QED
      BY <2>5, <2>6, <3>1, <3>2 DEF Stepped, With
  <2>7. ASSUME NEW last \in {i - 1, i}, st.in \notin Codes, new = Ended(st, KindOf(st.in), last), Ends(st.in, s, i, last),
               ~(st.in \in Quotes /\ twice)
        PROVE  new = Stepped(st, c, i, here, twice, close)
    <3>1. Breaks(st.in, c, here, twice) /\ last = LastOf(st.in, i, here)
      BY <1>2, <2>7 DEF Ends, Breaks, LastOf, Openers, Quotes, LineComments, BlockComments, Executable
    <3> HIDE DEF here, twice, close, c
    <3>2. Told(Broken(st, c, i, here, twice), st, c, i, here) = Append(st.toks, tk(last))
      BY <2>5, <2>7, <3>1 DEF Told, Broken
    <3>3. QED
      BY <2>5, <2>7, <3>1, <3>2 DEF Stepped, Ended, With
  <2>8. CASE st.in \in Codes
    BY <2>1, <2>2, <2>3, <2>4, <2>8 DEF Moves, Codes
  <2>9. CASE st.in \notin Codes
    <3> DEFINE A(d) == new = With(st, d, st.toks) /\ Stays(st.in, d, s, i) /\ (d \in Doubled => twice)
               B(last) == /\ new = Ended(st, KindOf(st.in), last) /\ Ends(st.in, s, i, last)
                          /\ ~(st.in \in Quotes /\ twice)
               C == new = Stepped(st, c, i, here, twice, close)
    <3>1. (\E d \in Insides \ {"word"} : A(d)) \/ (\E last \in {i - 1, i} : B(last))
      BY <2>1, <2>9 DEF Moves, Codes
    <3>2. \A d \in Insides \ {"word"} : A(d) => C
      BY <2>6, <2>9
    <3>3. \A last \in {i - 1, i} : B(last) => C
      BY <2>7, <2>9
    <3> HIDE DEF A, B, C
    <3>4. C
      BY <3>1, <3>2, <3>3
    <3>5. QED
      BY <3>4 DEF C, new, c, here, twice, close
  <2>10. QED
    BY <2>8, <2>9
<1>3. QED
  BY <1>1, <1>2

-----------------------------------------------------------------------------
(* Where the lexer leaves an executable comment.                             *)

\* A part of the first n numbers with 0 and with what follows any of it.
LEMMA Upwards ==
  ASSUME NEW n \in Nat, NEW P \in SUBSET (0..n), 0 \in P, \A m \in 1..n : m - 1 \in P => m \in P
  PROVE  \A m \in 0..n : m \in P
<1> DEFINE Bad == (0..n) \ P
<1>1. SUFFICES ASSUME Bad # {} PROVE FALSE
  OBVIOUS
<1>2. Bad \in SUBSET (0..n)
  OBVIOUS
<1>3. PICK m \in Bad : \A i \in Bad : m <= i
  <2> HIDE DEF Bad
  <2>1. QED
    BY <1>1, <1>2, PartIsFinite, Least
<1>4. m \in 1..n /\ m - 1 \in 0..n /\ ~(m <= m - 1)
  BY <1>3
<1>5. m - 1 \in P
  BY <1>3, <1>4
<1>6. QED
  BY <1>3, <1>4, <1>5

\* The first "*/" after the i-th lexeme, or past the end of s.
IsClose(x, s, i) ==
  /\ x \in (i + 1)..(Len(s) + 1)
  /\ x <= Len(s) => s[x] = "*/"
  /\ \A k \in (i + 1)..Len(s) : s[k] = "*/" => x <= k

LEMMA FirstCloseIs ==
  ASSUME NEW s, Len(s) \in Nat, NEW i \in 0..Len(s)
  PROVE  IsClose(FirstClose(s, i), s, i)
<1> DEFINE N == Len(s)
           closes == {j \in (i + 1)..N : s[j] = "*/"}
<1>1. N \in Nat /\ i \in 0..N
  OBVIOUS
<1>2. CASE closes = {}
  <2>1. FirstClose(s, i) = N + 1
    BY <1>2 DEF FirstClose
  <2>2. N + 1 \in (i + 1)..(N + 1) /\ ~(N + 1 <= N)
    BY <1>1
  <2>3. \A k \in (i + 1)..N : s[k] # "*/"
    BY <1>2
  <2>4. QED
    BY <2>1, <2>2, <2>3 DEF IsClose
<1>3. CASE closes # {}
  <2>1. closes \in SUBSET (0..N)
    BY <1>1
  <2>2. \E j \in closes : \A k \in closes : j <= k
    <3> HIDE DEF closes
    <3>1. QED
      BY <1>1, <1>3, <2>1, PartIsFinite, Least
  <2> DEFINE x == CHOOSE j \in closes : \A k \in closes : j <= k
  <2>3. FirstClose(s, i) = x
    BY <1>3 DEF FirstClose
  <2>4. x \in closes /\ \A k \in closes : x <= k
    BY <2>2
  <2> HIDE DEF x
  <2>5. x \in (i + 1)..N /\ s[x] = "*/"
    BY <2>4
  <2>6. x \in (i + 1)..(N + 1)
    BY <1>1, <2>5
  <2>7. QED
    BY <2>3, <2>4, <2>5, <2>6 DEF IsClose
<1>4. QED
  BY <1>2, <1>3

\* The executable comment the lexer is in, if any, ends ahead of it.
Ahead(st, s, i) ==
  st.ends \in Nat /\ (st.ends = 0 \/ (st.ends > i /\ (st.ends <= Len(s) => s[st.ends] = "*/")))

LEMMA EndIsAhead ==
  ASSUME NEW s, Len(s) \in Nat, NEW f, IsRun(f, s)
  PROVE  \A i \in 0..Len(s) : Ahead(f[i], s, i)
<1> DEFINE N == Len(s)
           P == {i \in 0..N : Ahead(f[i], s, i)}
<1>1. N \in Nat
  OBVIOUS
<1>2. 0 \in P
  <2>1. f[0] = Began
    BY <1>1 DEF IsRun
  <2>2. QED
    BY <1>1, <2>1 DEF Ahead, Began
<1>3. ASSUME NEW m \in 1..N, m - 1 \in P PROVE m \in P
  <2> DEFINE st == f[m - 1]
             here == m = st.ends
             x == FirstClose(s, m)
  <2>1. LexInv(st, m - 1) /\ m \in 0..N /\ m \in Nat \ {0}
    BY <1>1, RunMoves
  <2>2. f[m] = LexStep(st, s, m)
    BY <2>1 DEF IsRun
  <2>3. Ahead(st, s, m - 1)
    BY <1>3
  <2> HIDE DEF st
  <2>4. f[m].ends = EndsAfter(st, s[m], here, x)
    <3>1. f[m] = Stepped(st, s[m], m, here, Twice(st, s, m), x)
      BY <2>1, <2>2, InvIs, StepIs
    <3>2. QED
      BY <3>1 DEF Stepped, State
  <2>5. x \in (m + 1)..(N + 1) /\ (x <= N => s[x] = "*/")
    BY <1>1, <2>1, FirstCloseIs DEF IsClose
  <2> HIDE DEF x
  <2>6. f[m].ends \in {0, x} \/ (f[m].ends = st.ends /\ m # st.ends)
    BY <2>4 DEF EndsAfter
  <2>7. f[m].ends \in Nat /\ (f[m].ends = 0 \/ (f[m].ends > m /\ (f[m].ends <= N => s[f[m].ends] = "*/")))
    BY <1>1, <2>1, <2>3, <2>5, <2>6 DEF Ahead
  <2>8. QED
    BY <2>1, <2>7 DEF Ahead
<1>4. P \in SUBSET (0..N)
  OBVIOUS
<1> HIDE DEF P
<1>5. \A m \in 0..N : m \in P
  BY <1>1, <1>2, <1>3, <1>4, Upwards
<1>6. QED
  BY <1>5 DEF P

LEMMA AllForeseen ==
  ASSUME NEW s, Len(s) \in Nat, NEW f, IsRun(f, s)
  PROVE  \A i \in 0..Len(s) : Foreseen(f[i].in, s, i)
<1> DEFINE N == Len(s)
           P == {i \in 0..N : Foreseen(f[i].in, s, i)}
<1>1. N \in Nat
  OBVIOUS
<1>2. 0 \in P
  <2>1. f[0] = Began
    BY <1>1 DEF IsRun
  <2>2. f[0].in = "code"
    BY <2>1 DEF Began
  <2>3. Foreseen(f[0].in, s, 0)
    BY <2>2 DEF Foreseen
  <2>4. QED
    BY <1>1, <2>3
<1>3. ASSUME NEW m \in 1..N, m - 1 \in P PROVE m \in P
  <2> DEFINE st == f[m - 1]
  <2>1. /\ LexInv(st, m - 1) /\ m \in 0..N /\ m \in Nat \ {0}
        /\ m # st.ends => Moves(st, f[m], s, m)
        /\ m = st.ends => f[m] = Closing(st, m)
    BY <1>1, RunMoves
  <2>2. IsState(st) /\ st.in \in {"code"} \cup Insides /\ Foreseen(st.in, s, m - 1)
    BY <1>3, <2>1, InvIs
  <2> HIDE DEF st
  <2>3. CASE m = st.ends
    <3>1. f[m].in = "code"
      BY <2>1, <2>2, <2>3, ClosingForm DEF State
    <3>2. QED
      BY <2>1, <3>1 DEF Foreseen
  <2>4. CASE m # st.ends
    BY <2>1, <2>2, <2>4, StepInStep
  <2>5. QED
    BY <2>3, <2>4
<1>4. P \in SUBSET (0..N)
  OBVIOUS
<1> HIDE DEF P
<1>5. \A m \in 0..N : m \in P
  BY <1>1, <1>2, <1>3, <1>4, Upwards
<1>6. QED
  BY <1>5 DEF P

\* The server reads s in step with the run f.
TogetherAt(s, f, i) ==
  /\ ServerStep(Sees(f[i - 1].in), s[i]) = Sees(f[i].in)
  /\ (f[i - 1].in \in Codes /\ f[i].in \in Codes) = (Sees(f[i - 1].in) = "code" /\ Sees(f[i].in) = "code")
Together(s, f) == \A i \in 1..Len(s) : TogetherAt(s, f, i)

LEMMA InStep ==
  ASSUME NEW s, Len(s) \in Nat, NEW f, IsRun(f, s), NEW i \in 1..Len(s), ~PartAt(f[i - 1], s, i)
  PROVE  TogetherAt(s, f, i)
<1> DEFINE st == f[i - 1]
           a == f[i - 1].in
           b == f[i].in
<1>1. /\ i \in Nat \ {0} /\ i - 1 \in 0..Len(s) /\ LexInv(st, i - 1)
      /\ i # st.ends => Moves(st, f[i], s, i)
      /\ i = st.ends => f[i] = Closing(st, i)
  BY RunMoves
<1>2. IsState(st) /\ st.in \in {"code"} \cup Insides
  BY <1>1, InvIs
<1>3. Foreseen(st.in, s, i - 1) /\ Ahead(st, s, i - 1)
  BY <1>1, AllForeseen, EndIsAhead
<1>4. ~PartAt(st, s, i)
  OBVIOUS
<1>5. CASE i # st.ends
  <2>1. /\ ServerStep(Sees(a), s[i]) = Sees(b)
        /\ b \in Doubled => a \in Quotes
        /\ a \in Doubled => b \in Quotes
    BY <1>1, <1>2, <1>3, <1>4, <1>5, StepInStep
  <2> HIDE DEF a, b
  <2>2. (a \in Codes /\ b \in Codes) = (Sees(a) = "code" /\ Sees(b) = "code")
    BY <2>1 DEF Sees, Codes, Doubled, Quotes
  <2>3. QED
    BY <2>1, <2>2 DEF TogetherAt, a, b
<1>6. CASE i = st.ends
  <2> HIDE DEF st
  <2>1. b = "code"
    BY <1>1, <1>2, <1>6, ClosingForm DEF State
  <2>2. st.in \in {"code", "word", "/*"}
    BY <1>4, <1>6 DEF PartAt
  <2>3. s[i] = "*/"
    BY <1>1, <1>3, <1>6 DEF Ahead
  <2>4. a = st.in
    BY DEF st
  <2> HIDE DEF a, b
  <2>5. ServerStep(Sees(a), "*/") = "code" /\ Sees(b) = "code"
    BY <2>1, <2>2, <2>4 DEF ServerStep, Sees, Codes, Doubled, Quotes, LineComments, BlockComments
  <2>6. (a \in Codes /\ b \in Codes) = (Sees(a) = "code" /\ Sees(b) = "code")
    BY <2>1, <2>2, <2>4 DEF Sees, Codes, Doubled
  <2>7. QED
    BY <2>3, <2>5, <2>6 DEF TogetherAt, a, b
<1>7. QED
  BY <1>5, <1>6

LEMMA AllTogether ==
  ASSUME NEW s \in Seq(STRING), NEW f, IsRun(f, s), ~TheyPart(s, f)
  PROVE  Together(s, f) /\ \A i \in 1..Len(s) : ~PartAt(f[i - 1], s, i)
<1>1. Len(s) \in Nat /\ DOMAIN s = 1..Len(s)
  OBVIOUS
<1>2. \A i \in 1..Len(s) : ~PartAt(f[i - 1], s, i)
  BY <1>1 DEF TheyPart
<1>3. QED
  BY <1>1, <1>2, InStep DEF Together

LEMMA Appended ==
  ASSUME NEW toks \in Seq(TokenRecords), NEW tk
  PROVE  LET new == Append(toks, tk)
         IN /\ Len(toks) \in Nat /\ Len(new) = Len(toks) + 1 /\ new[Len(toks) + 1] = tk
            /\ \A k \in 1..Len(toks) : new[k] = toks[k]
            /\ \A k \in 1..Len(new) : k = Len(toks) + 1 \/ k \in 1..Len(toks)
OBVIOUS

LEMMA TokenIs ==
  ASSUME NEW toks \in Seq(TokenRecords), NEW k \in 1..Len(toks)
  PROVE  /\ toks[k].pos \in Nat /\ toks[k].end \in Nat /\ toks[k].depth \in Nat
         /\ toks[k].kind \in Kinds
<1>1. toks[k] \in TokenRecords
  BY ElementOfSeq
<1>2. QED
  BY <1>1 DEF TokenRecords

-----------------------------------------------------------------------------
(* What the server runs of a text are the words and the punctuation the      *)
(* client has tokens of, and the depth of a token tells whether a            *)
(* parenthesis is open before it.                                            *)

\* Literals nobody closed, at the end of the text.
AtEnd(f, s, e) == f[e].in \in Codes \/ (e = Len(s) /\ f[e].in \in {"q", "bt", "q escaped"})
Fits(tk, s, f) ==
  /\ f[tk.pos - 1].in \in Codes
  /\ tk.kind \in {"word", "punct"} => f[tk.pos].in \in Codes /\ (tk.kind = "word" <=> IsWord(s[tk.pos]))
  /\ tk.kind # "comment" => AtEnd(f, s, tk.end)

Runnable(s, f, j) == f[j - 1].in \in Codes /\ f[j].in \in Codes /\ s[j] \notin Executable \cup {"nl", "sp", "*/", "/*M!"}
IsOf(tk, s, j) ==
  \/ tk.kind \in {"word", "punct"} /\ tk.pos = j
  \/ tk.kind = "word" /\ tk.pos <= j /\ j <= tk.end /\ s[j] \in Letters

\* One of the first n tokens opens a parenthesis, and none of them since is
\* outside of it.
Open(toks, s, n) ==
  \E j \in 1..n : IsPunct(s, toks[j], "(") /\ \A m \in (j + 1)..n : toks[m].depth # 0
Nested(toks, depth, s) ==
  /\ \A k \in 1..Len(toks) : toks[k].depth # 0 => Open(toks, s, k - 1)
  /\ depth # 0 => Open(toks, s, Len(toks))

RunInv(st, n, s, f) ==
  /\ \A k \in 1..Len(st.toks) : Fits(st.toks[k], s, f)
  /\ \A j \in 1..n : Runnable(s, f, j) =>
       \/ \E k \in 1..Len(st.toks) : IsOf(st.toks[k], s, j)
       \/ st.in = "word" /\ st.from <= j /\ s[j] \in Letters
  /\ Nested(st.toks, st.depth, s)
  /\ st.in # "code" => f[st.from - 1].in \in Codes
  /\ st.in = "word" => f[st.from].in \in Codes /\ s[st.from] \in Letters

LEMMA NestedMore ==
  ASSUME NEW s, NEW toks \in Seq(TokenRecords), NEW depth, Nested(toks, depth, s), NEW tk, NEW after,
         tk.depth # 0 => depth # 0,
         after # 0 => IsPunct(s, tk, "(") \/ (depth # 0 /\ tk.depth # 0)
  PROVE  Nested(Append(toks, tk), after, s)
<1> DEFINE n == Len(toks)
           new == Append(toks, tk)
<1>1. n \in Nat /\ Len(new) = n + 1 /\ new[n + 1] = tk /\ \A k \in 1..n : new[k] = toks[k]
  BY Appended
<1>2. /\ \A k \in 1..n : toks[k].depth # 0 => Open(toks, s, k - 1)
      /\ depth # 0 => Open(toks, s, n)
  BY DEF Nested
<1> HIDE DEF n, new
<1>3. \A k \in 0..n : Open(toks, s, k) => Open(new, s, k)
  <2>1. SUFFICES ASSUME NEW k \in 0..n, Open(toks, s, k) PROVE Open(new, s, k)
    OBVIOUS
  <2>2. PICK j \in 1..k : IsPunct(s, toks[j], "(") /\ \A m \in (j + 1)..k : toks[m].depth # 0
    BY <2>1 DEF Open
  <2>3. j \in 1..n /\ \A m \in (j + 1)..k : m \in 1..n
    BY <1>1, <2>2
  <2>4. new[j] = toks[j] /\ \A m \in (j + 1)..k : new[m] = toks[m]
    BY <1>1, <2>3
  <2>5. QED
    BY <2>2, <2>4 DEF Open
<1>4. ASSUME NEW k \in 1..(n + 1), new[k].depth # 0 PROVE Open(new, s, k - 1)
  <2>1. CASE k = n + 1
    <3>1. k - 1 = n /\ n \in 0..n
      BY <1>1, <2>1
    <3>2. Open(new, s, n)
      BY <1>1, <1>2, <1>3, <1>4, <2>1, <3>1
    <3>3. QED
      BY <3>1, <3>2
  <2>2. CASE k # n + 1
    <3>1. k \in 1..n /\ k - 1 \in 0..n
      BY <1>1, <2>2
    <3>2. toks[k].depth # 0
      BY <1>1, <1>4, <3>1
    <3>3. QED
      BY <1>2, <1>3, <3>1, <3>2
  <2>3. QED
    BY <2>1, <2>2
<1>5. ASSUME after # 0 PROVE Open(new, s, n + 1)
  <2>1. CASE IsPunct(s, tk, "(")
    <3>1. n + 1 \in 1..(n + 1) /\ \A m \in (n + 1 + 1)..(n + 1) : FALSE
      BY <1>1
    <3>2. IsPunct(s, new[n + 1], "(")
      BY <1>1, <2>1
    <3>3. QED
      BY <3>1, <3>2 DEF Open
  <2>2. CASE depth # 0 /\ tk.depth # 0
    <3>1. PICK j \in 1..n : IsPunct(s, toks[j], "(") /\ \A m \in (j + 1)..n : toks[m].depth # 0
      BY <1>2, <2>2 DEF Open
    <3>2. j \in 1..(n + 1)
      BY <1>1, <3>1
    <3>3. ASSUME NEW m \in (j + 1)..(n + 1) PROVE new[m].depth # 0
      <4>1. CASE m = n + 1
        BY <1>1, <2>2, <4>1
      <4>2. CASE m # n + 1
        <5>1. m \in 1..n /\ m \in (j + 1)..n
          BY <1>1, <3>1, <4>2
        <5>2. QED
          BY <1>1, <3>1, <5>1
      <4>3. QED
        BY <4>1, <4>2
    <3>4. IsPunct(s, new[j], "(")
      BY <1>1, <3>1
    <3>5. QED
      BY <3>2, <3>3, <3>4 DEF Open
  <2>3. QED
    BY <1>5, <2>1, <2>2
<1>6. QED
  BY <1>1, <1>4, <1>5 DEF Nested, new

\* A token more: all fit, and what was some token's still is.
LEMMA TokenMore ==
  ASSUME NEW s, NEW f, NEW toks \in Seq(TokenRecords), NEW tk, Fits(tk, s, f),
         \A k \in 1..Len(toks) : Fits(toks[k], s, f)
  PROVE  LET new == Append(toks, tk)
         IN /\ \A k \in 1..Len(new) : Fits(new[k], s, f)
            /\ \A j : (\E k \in 1..Len(toks) : IsOf(toks[k], s, j)) \/ IsOf(tk, s, j) =>
                 \E k \in 1..Len(new) : IsOf(new[k], s, j)
<1> DEFINE n == Len(toks)
           new == Append(toks, tk)
<1>1. /\ n \in Nat /\ Len(new) = n + 1 /\ new[n + 1] = tk /\ \A k \in 1..n : new[k] = toks[k]
      /\ \A k \in 1..Len(new) : k = n + 1 \/ k \in 1..n
  BY Appended
<1>2. \A k \in 1..n : Fits(toks[k], s, f)
  OBVIOUS
<1>3. n + 1 \in 1..Len(new) /\ \A k \in 1..n : k \in 1..Len(new)
  BY <1>1
<1> HIDE DEF n, new
<1>4. \A k \in 1..Len(new) : Fits(new[k], s, f)
  BY <1>1, <1>2
<1>5. \A j : (\E k \in 1..n : IsOf(toks[k], s, j)) \/ IsOf(tk, s, j) => \E k \in 1..Len(new) : IsOf(new[k], s, j)
  BY <1>1, <1>3
<1>6. QED
  BY <1>4, <1>5 DEF n, new

LEMMA GrowsKeeps ==
  ASSUME NEW s, Len(s) \in Nat, NEW i \in 1..Len(s), NEW f, NEW b, b.in = "code", b.toks \in Seq(TokenRecords),
         b.depth \in Nat, RunInv(b, i - 1, s, f), f[i - 1].in \in Codes, Grows(b, f[i], s, i)
  PROVE  RunInv(f[i], i, s, f)
<1> DEFINE new == f[i]
<1>1. /\ \A k \in 1..Len(b.toks) : Fits(b.toks[k], s, f)
      /\ \A j \in 1..(i - 1) : Runnable(s, f, j) => \E k \in 1..Len(b.toks) : IsOf(b.toks[k], s, j)
      /\ Nested(b.toks, b.depth, s)
  BY DEF RunInv
<1>2. \A in, from, depth, ends, toks :
        LET st == State(in, from, depth, ends, toks)
        IN st.in = in /\ st.from = from /\ st.depth = depth /\ st.toks = toks
  BY DEF State
<1>3. Grows(b, new, s, i) /\ b.in = "code" /\ f[i - 1].in \in Codes
  OBVIOUS
<1>4. \A j \in 1..i : j \in 1..(i - 1) \/ j = i
  OBVIOUS
<1>5. Runnable(s, f, i) => new.in \in Codes /\ s[i] \notin Executable \cup {"nl", "sp"}
  BY DEF Runnable
<1>6. CASE s[i] \in Openers /\ new = State(s[i], i, b.depth, b.ends, b.toks)
  <2>1. new.in = s[i] /\ new.from = i /\ new.depth = b.depth /\ new.toks = b.toks
    BY <1>2, <1>6
  <2>2. new.in \notin Codes
    BY <1>6, <2>1 DEF Codes, Openers, Quotes, LineComments, BlockComments, Executable
  <2>3. ~Runnable(s, f, i)
    BY <1>5, <2>2
  <2> HIDE DEF new
  <2>4. RunInv(new, i, s, f)
    BY <1>1, <1>3, <1>4, <2>1, <2>2, <2>3 DEF RunInv, Codes
  <2>5. QED
    BY <2>4 DEF new
<1>7. CASE s[i] \in Letters /\ new = State("word", i, b.depth, b.ends, b.toks)
  <2>1. new.in = "word" /\ new.from = i /\ new.depth = b.depth /\ new.toks = b.toks /\ i <= i
    BY <1>2, <1>7
  <2>2. new.in \in Codes
    BY <2>1 DEF Codes
  <2>3. f[i].in \in Codes
    BY <2>2
  <2> HIDE DEF new
  <2>4. RunInv(new, i, s, f)
    BY <1>1, <1>3, <1>4, <1>7, <2>1, <2>2, <2>3 DEF RunInv
  <2>5. QED
    BY <2>4 DEF new
<1>8. CASE s[i] \in {"nl", "sp"} /\ new = b
  <2>1. ~Runnable(s, f, i)
    BY <1>5, <1>8
  <2> HIDE DEF new
  <2>2. RunInv(new, i, s, f)
    BY <1>1, <1>3, <1>4, <1>8, <2>1 DEF RunInv
  <2>3. QED
    BY <2>2 DEF new
<1>11. CASE s[i] \in Executable /\ \E e : new = State("code", b.from, b.depth, e, b.toks)
  <2>1. new.in = "code" /\ new.depth = b.depth /\ new.toks = b.toks
    BY <1>2, <1>11
  <2>2. ~Runnable(s, f, i)
    BY <1>5, <1>11
  <2> HIDE DEF new
  <2>3. RunInv(new, i, s, f)
    BY <1>1, <1>3, <1>4, <2>1, <2>2 DEF RunInv
  <2>4. QED
    BY <2>3 DEF new
<1>9. CASE \E k \in {"word", "punct"}, d, after \in Nat :
             /\ s[i] \notin Openers \cup Executable \cup {"nl", "sp"}
             /\ k = "word" <=> IsWord(s[i])
             /\ Bracket(s[i], b.depth, d, after)
             /\ new = State("code", b.from, after, b.ends, Append(b.toks, Token(k, i, i, d)))
  <2>1. PICK k \in {"word", "punct"}, d \in Nat, after \in Nat :
             /\ k = "word" <=> IsWord(s[i])
             /\ Bracket(s[i], b.depth, d, after)
             /\ new = State("code", b.from, after, b.ends, Append(b.toks, Token(k, i, i, d)))
    BY <1>9
  <2> DEFINE tk == Token(k, i, i, d)
             toks == Append(b.toks, tk)
  <2>2. new.in = "code" /\ new.depth = after /\ new.toks = toks
    BY <2>1 DEF State
  <2>3. tk.kind = k /\ tk.pos = i /\ tk.end = i /\ tk.depth = d
    BY DEF Token
  <2>4. f[i].in \in Codes
    BY <2>2 DEF Codes
  <2> HIDE DEF new, tk
  <2>5. Fits(tk, s, f)
    BY <1>3, <2>1, <2>3, <2>4 DEF Fits, AtEnd
  <2>6. /\ \A l \in 1..Len(toks) : Fits(toks[l], s, f)
        /\ \A j : (\E l \in 1..Len(b.toks) : IsOf(b.toks[l], s, j)) \/ IsOf(tk, s, j) =>
             \E l \in 1..Len(toks) : IsOf(toks[l], s, j)
    BY <1>1, <2>5, TokenMore
  <2>7. IsOf(tk, s, i)
    BY <2>3 DEF IsOf
  <2>8. Nested(toks, after, s)
    <3>1. s[i] = "(" => IsPunct(s, tk, "(")
      <4>1. ~IsWord("(")
        BY DEF IsWord, Puncts
      <4>2. QED
        BY <2>1, <2>3, <4>1 DEF IsPunct
    <3>2. /\ d # 0 => b.depth # 0
          /\ after # 0 => s[i] = "(" \/ (b.depth # 0 /\ d # 0)
      BY <2>1 DEF Bracket
    <3>3. QED
      BY <1>1, <2>3, <3>1, <3>2, NestedMore
  <2> HIDE DEF toks
  <2>9. RunInv(new, i, s, f)
    BY <1>1, <1>4, <2>2, <2>6, <2>7, <2>8 DEF RunInv
  <2>10. QED
    BY <2>9 DEF new
<1>10. QED
  BY <1>3, <1>6, <1>7, <1>8, <1>9, <1>11 DEF Grows

LEMMA StepKeepsRun ==
  ASSUME NEW s, Len(s) \in Nat, NEW f, IsRun(f, s), NEW i \in 1..Len(s), ~PartAt(f[i - 1], s, i),
         RunInv(f[i - 1], i - 1, s, f)
  PROVE  RunInv(f[i], i, s, f)
<1> DEFINE st == f[i - 1]
           new == f[i]
           word == Ended(st, "word", i - 1)
<1>1. /\ LexInv(st, i - 1) /\ i \in Nat \ {0} /\ i - 1 \in 0..Len(s)
      /\ i # st.ends => Moves(st, new, s, i)
      /\ i = st.ends => new = Closing(st, i)
  <2> HIDE DEF word, st, new
  <2>1. /\ i \in Nat \ {0} /\ i - 1 \in 0..Len(s) /\ LexInv(f[i - 1], i - 1)
        /\ i # f[i - 1].ends => Moves(f[i - 1], f[i], s, i)
        /\ i = f[i - 1].ends => f[i] = Closing(f[i - 1], i)
    BY RunMoves
  <2>2. QED
    BY <2>1 DEF st, new
<1>14. ~PartAt(st, s, i) /\ Ahead(st, s, i - 1)
  BY <1>1, EndIsAhead
<1>2. /\ \A k \in 1..Len(st.toks) : Fits(st.toks[k], s, f)
      /\ \A j \in 1..(i - 1) : Runnable(s, f, j) =>
           \/ \E k \in 1..Len(st.toks) : IsOf(st.toks[k], s, j)
           \/ st.in = "word" /\ st.from <= j /\ s[j] \in Letters
      /\ Nested(st.toks, st.depth, s)
      /\ st.in # "code" => f[st.from - 1].in \in Codes
      /\ st.in = "word" => f[st.from].in \in Codes /\ s[st.from] \in Letters
  BY DEF RunInv
<1>3. IsState(st) /\ st.toks \in Seq(TokenRecords) /\ st.depth \in Nat /\ (st.in # "code" => st.from \in 1..(i - 1))
  BY <1>1, InvIs
<1>4. RunInv(st, i - 1, s, f) /\ f[i - 1].in = st.in
  OBVIOUS
<1>5. \A j \in 1..i : j \in 1..(i - 1) \/ j = i
  OBVIOUS
<1>6. Runnable(s, f, i) => st.in \in Codes /\ new.in \in Codes
  BY DEF Runnable
<1> HIDE DEF st
<1>7. \A kind, last : LET e == Ended(st, kind, last)
                      IN /\ e.in = "code" /\ e.depth = st.depth
                         /\ e.toks = Append(st.toks, Token(kind, st.from, last, st.depth))
  BY DEF Ended, With, State
<1>8. CASE st.in = "code" /\ Grows(st, new, s, i)
  BY <1>3, <1>4, <1>8, GrowsKeeps DEF Codes
<1>9. CASE st.in = "word" /\ s[i] \in Letters /\ new = st
  <2> HIDE DEF new
  <2>1. st.from <= i
    BY <1>1, <1>3, <1>9
  <2>2. RunInv(new, i, s, f)
    BY <1>2, <1>5, <1>9, <2>1 DEF RunInv
  <2>3. QED
    BY <2>2 DEF new
<1>10. CASE st.in = "word" /\ s[i] \notin Letters /\ Grows(word, new, s, i)
  <2> DEFINE tk == Token("word", st.from, i - 1, st.depth)
             toks == Append(st.toks, tk)
  <2>1. word.in = "code" /\ word.depth = st.depth /\ word.toks = toks
    BY <1>7
  <2>2. tk.kind = "word" /\ tk.pos = st.from /\ tk.end = i - 1 /\ tk.depth = st.depth
    BY DEF Token
  <2>3. word.toks \in Seq(TokenRecords)
    <3>1. st.in \in Insides /\ st.in # "code"
      BY <1>10 DEF Insides
    <3>2. st.from \in 1..(i - 1) /\ Holds(st, st.from - 1) /\ i - 1 \in {i - 1, i}
      BY <1>1, <3>1 DEF LexInv
    <3>3. Holds(Emit(st, "word", st.from, i - 1), i - 1)
      BY <1>1, <3>2, EndsHere DEF Kinds
    <3>4. Emit(st, "word", st.from, i - 1) = word
      BY <1>3, EmitShape DEF Ended
    <3>5. QED
      BY <3>3, <3>4 DEF Holds
  <2>4. Grows(word, new, s, i) /\ f[i - 1].in \in Codes
    BY <1>4, <1>10 DEF Codes
  <2> HIDE DEF new, tk, word
  <2>5. Fits(tk, s, f)
    <3>1. IsWord(s[st.from])
      BY <1>2, <1>10, LettersAreWords
    <3>2. QED
      BY <1>2, <1>10, <2>2, <2>4, <3>1 DEF Fits, AtEnd
  <2>6. /\ \A l \in 1..Len(toks) : Fits(toks[l], s, f)
        /\ \A j : (\E l \in 1..Len(st.toks) : IsOf(st.toks[l], s, j)) \/ IsOf(tk, s, j) =>
             \E l \in 1..Len(toks) : IsOf(toks[l], s, j)
    BY <1>2, <1>3, <2>5, TokenMore
  <2>7. \A j \in 1..(i - 1) : st.from <= j /\ s[j] \in Letters => IsOf(tk, s, j)
    BY <2>2 DEF IsOf
  <2>8. Nested(toks, st.depth, s)
    BY <1>2, <1>3, <2>2, NestedMore
  <2> HIDE DEF toks
  <2>9. RunInv(word, i - 1, s, f)
    BY <1>2, <2>1, <2>6, <2>7, <2>8 DEF RunInv
  <2>10. QED
    BY <1>3, <2>1, <2>3, <2>4, <2>9, GrowsKeeps DEF new
<1>11. CASE st.in \notin Codes /\ \E c \in Insides \ {"word"} : new = With(st, c, st.toks)
  <2>1. new.toks = st.toks /\ new.from = st.from /\ new.depth = st.depth /\ new.in # "word"
    BY <1>11 DEF With, State
  <2>2. ~Runnable(s, f, i) /\ st.in # "word" /\ st.in # "code"
    BY <1>6, <1>11 DEF Codes
  <2> HIDE DEF new
  <2>3. RunInv(new, i, s, f)
    BY <1>2, <1>5, <2>1, <2>2 DEF RunInv
  <2>4. QED
    BY <2>3 DEF new
<1>12. CASE st.in \notin Codes /\ \E last \in {i - 1, i} : new = Ended(st, KindOf(st.in), last) /\ Ends(st.in, s, i, last)
  <2>1. PICK last \in {i - 1, i} : new = Ended(st, KindOf(st.in), last) /\ Ends(st.in, s, i, last)
    BY <1>12
  <2> DEFINE kind == KindOf(st.in)
             tk == Token(kind, st.from, last, st.depth)
             toks == Append(st.toks, tk)
  <2>2. new.in = "code" /\ new.depth = st.depth /\ new.toks = toks
    BY <1>7, <2>1
  <2>3. kind \notin {"word", "punct"} /\ (kind # "comment" => last = i)
    BY <2>1 DEF KindOf, Ends, Openers, Quotes, LineComments, BlockComments, Executable
  <2>4. tk.kind = kind /\ tk.pos = st.from /\ tk.end = last /\ tk.depth = st.depth
    BY DEF Token
  <2>5. ~Runnable(s, f, i) /\ st.in # "word" /\ st.in # "code"
    BY <1>6, <1>12 DEF Codes
  <2>6. f[i].in \in Codes
    BY <2>2 DEF Codes
  <2> HIDE DEF new, tk, kind
  <2>7. Fits(tk, s, f)
    BY <1>2, <2>3, <2>4, <2>5, <2>6 DEF Fits, AtEnd
  <2>8. /\ \A l \in 1..Len(toks) : Fits(toks[l], s, f)
        /\ \A j : (\E l \in 1..Len(st.toks) : IsOf(st.toks[l], s, j)) \/ IsOf(tk, s, j) =>
             \E l \in 1..Len(toks) : IsOf(toks[l], s, j)
    BY <1>2, <1>3, <2>7, TokenMore
  <2>9. Nested(toks, st.depth, s)
    BY <1>2, <1>3, <2>4, NestedMore
  <2> HIDE DEF toks
  <2>10. RunInv(new, i, s, f)
    BY <1>2, <1>5, <2>2, <2>5, <2>8, <2>9 DEF RunInv
  <2>11. QED
    BY <2>10 DEF new
<1>15. CASE i = st.ends /\ st.in = "code"
  <2>1. new = State("code", st.from, st.depth, 0, st.toks)
    BY <1>1, <1>3, <1>15, ClosingForm
  <2>2. new.in = "code" /\ new.toks = st.toks /\ new.depth = st.depth
    BY <2>1 DEF State
  <2>3. s[i] = "*/"
    BY <1>1, <1>14, <1>15 DEF Ahead
  <2>4. ~Runnable(s, f, i)
    BY <2>3 DEF Runnable
  <2> HIDE DEF new
  <2>5. RunInv(new, i, s, f)
    BY <1>2, <1>5, <1>15, <2>2, <2>4 DEF RunInv
  <2>6. QED
    BY <2>5 DEF new
<1>16. CASE i = st.ends /\ st.in # "code"
  <2> DEFINE kind == KindOf(st.in)
             tk == Token(kind, st.from, i - 1, st.depth)
             toks == Append(st.toks, tk)
  <2>1. new = State("code", st.from, st.depth, 0, Ended(st, kind, i - 1).toks)
    BY <1>1, <1>3, <1>16, ClosingForm
  <2>2. new.in = "code" /\ new.depth = st.depth /\ new.toks = toks
    BY <1>7, <2>1 DEF State
  <2>3. s[i] = "*/"
    BY <1>1, <1>14, <1>16 DEF Ahead
  <2>4. ~Runnable(s, f, i)
    BY <2>3 DEF Runnable
  <2>5. st.in \in {"word", "/*"}
    BY <1>14, <1>16 DEF PartAt
  <2>6. kind = IF st.in = "word" THEN "word" ELSE "comment"
    BY <2>5 DEF KindOf
  <2>7. tk.kind = kind /\ tk.pos = st.from /\ tk.end = i - 1 /\ tk.depth = st.depth
    BY DEF Token
  <2> HIDE DEF new, tk, kind
  <2>8. Fits(tk, s, f)
    <3>1. st.in = "word" => IsWord(s[st.from]) /\ f[i - 1].in \in Codes
      BY <1>2, <1>4, LettersAreWords DEF Codes
    <3>2. QED
      BY <1>2, <1>16, <2>5, <2>6, <2>7, <3>1 DEF Fits, AtEnd
  <2>9. /\ \A l \in 1..Len(toks) : Fits(toks[l], s, f)
        /\ \A j : (\E l \in 1..Len(st.toks) : IsOf(st.toks[l], s, j)) \/ IsOf(tk, s, j) =>
             \E l \in 1..Len(toks) : IsOf(toks[l], s, j)
    BY <1>2, <1>3, <2>8, TokenMore
  <2>10. \A j \in 1..(i - 1) : st.in = "word" /\ st.from <= j /\ s[j] \in Letters => IsOf(tk, s, j)
    BY <2>6, <2>7 DEF IsOf
  <2>11. Nested(toks, st.depth, s)
    BY <1>2, <1>3, <2>7, NestedMore
  <2> HIDE DEF toks
  <2>12. RunInv(new, i, s, f)
    BY <1>2, <1>5, <2>2, <2>4, <2>9, <2>10, <2>11 DEF RunInv
  <2>13. QED
    BY <2>12 DEF new
<1>13. QED
  BY <1>1, <1>8, <1>9, <1>10, <1>11, <1>12, <1>15, <1>16, MovesAre

LEMMA BeganRuns ==
  ASSUME NEW s, NEW f
  PROVE  RunInv(Began, 0, s, f)
<1>1. Began.in = "code" /\ Began.depth = 0 /\ Len(Began.toks) = 0
  BY DEF Began
<1>2. RunInv(Began, 0, s, f)
  BY <1>1 DEF RunInv, Nested
<1>3. QED
  BY <1>2

\* All of it holds at every lexeme of a text on which the two lexers agree.
LEMMA RunHolds ==
  ASSUME NEW s \in Seq(STRING), NEW f, IsRun(f, s), ~TheyPart(s, f)
  PROVE  \A i \in 0..Len(s) : RunInv(f[i], i, s, f)
<1> DEFINE N == Len(s)
           P == {i \in 0..N : RunInv(f[i], i, s, f)}
<1>1. N \in Nat /\ \A i \in 1..N : ~PartAt(f[i - 1], s, i)
  BY AllTogether
<1>2. 0 \in P
  <2>1. f[0] = Began
    BY <1>1 DEF IsRun
  <2>2. QED
    BY <1>1, <2>1, BeganRuns
<1>3. ASSUME NEW m \in 1..N, m - 1 \in P PROVE m \in P
  <2>1. RunInv(f[m], m, s, f)
    BY <1>1, <1>3, StepKeepsRun
  <2>2. QED
    BY <1>1, <2>1
<1>4. P \in SUBSET (0..N)
  OBVIOUS
<1> HIDE DEF P
<1>5. \A m \in 0..N : m \in P
  BY <1>1, <1>2, <1>3, <1>4, Upwards
<1>6. QED
  BY <1>5 DEF P

\* What its tokens are then, the one at the end included.
WellRead(toks, s, f) ==
  /\ \A k \in 1..Len(toks) : Fits(toks[k], s, f)
  /\ \A j \in 1..Len(s) : Runnable(s, f, j) => \E k \in 1..Len(toks) : IsOf(toks[k], s, j)
  /\ \A k \in 1..Len(toks) : toks[k].depth # 0 => Open(toks, s, k - 1)

LEMMA TokensAreWellRead ==
  ASSUME NEW s \in Seq(STRING), NEW f, IsRun(f, s), Lex(s) = f[Len(s)], ~TheyPart(s, f)
  PROVE  WellRead(Tokenize(s), s, f)
<1> DEFINE N == Len(s)
           st == f[N]
<1>1. N \in Nat /\ N \in 0..N
  OBVIOUS
<1>2. RunInv(st, N, s, f) /\ Foreseen(st.in, s, N) /\ LexInv(st, N)
  BY <1>1, RunHolds, RunKeeps, AllForeseen
<1>3. Lex(s) = st /\ st = f[N]
  OBVIOUS
<1> HIDE DEF st
<1>4. CASE st.in = "code"
  BY <1>2, <1>3, <1>4 DEF Tokenize, AtTheEndOf, RunInv, WellRead, Nested
<1>5. CASE st.in # "code"
  <2> DEFINE kind == KindOf(st.in)
             tk == Token(kind, st.from, N, st.depth)
             toks == Append(st.toks, tk)
  <2>1. IsState(st) /\ st.toks \in Seq(TokenRecords) /\ st.in \in Insides
    BY <1>2, <1>5, InvIs
  <2>2. Tokenize(s) = toks
    <3>1. Tokenize(s) = Ended(st, kind, N).toks
      BY <1>3, <1>5, <2>1, EmitShape DEF Tokenize, AtTheEndOf, Ended
    <3>2. QED
      BY <3>1 DEF Ended, With, State
  <2>3. tk.kind = kind /\ tk.pos = st.from /\ tk.end = N /\ tk.depth = st.depth
    BY DEF Token
  <2>4. /\ \A k \in 1..Len(st.toks) : Fits(st.toks[k], s, f)
        /\ \A j \in 1..N : Runnable(s, f, j) =>
             \/ \E k \in 1..Len(st.toks) : IsOf(st.toks[k], s, j)
             \/ st.in = "word" /\ st.from <= j /\ s[j] \in Letters
        /\ Nested(st.toks, st.depth, s)
        /\ f[st.from - 1].in \in Codes
        /\ st.in = "word" => f[st.from].in \in Codes /\ s[st.from] \in Letters
    BY <1>2, <1>5 DEF RunInv
  <2>5. kind # "comment" => AtEnd(f, s, N)
    <3>1. st.in \notin {"q doubled", "bt doubled"}
      <4>1. ~(N < N)
        BY <1>1
      <4>2. QED
        BY <1>2, <4>1, Zenon DEF Foreseen
    <3>2. kind # "comment" => st.in \in {"q", "q escaped", "bt", "word"}
      BY <2>1, <3>1 DEF KindOf
    <3>3. QED
      BY <1>3, <3>2 DEF AtEnd, Codes
  <2>6. kind # "punct" /\ (kind = "word" => st.in = "word") /\ (st.in = "word" => kind = "word")
    BY DEF KindOf
  <2> HIDE DEF tk, kind
  <2>7. Fits(tk, s, f)
    BY <2>3, <2>4, <2>5, <2>6, LettersAreWords DEF Fits
  <2>8. /\ \A l \in 1..Len(toks) : Fits(toks[l], s, f)
        /\ \A j : (\E l \in 1..Len(st.toks) : IsOf(st.toks[l], s, j)) \/ IsOf(tk, s, j) =>
             \E l \in 1..Len(toks) : IsOf(toks[l], s, j)
    BY <2>1, <2>4, <2>7, TokenMore
  <2>9. \A j \in 1..N : st.in = "word" /\ st.from <= j /\ s[j] \in Letters => IsOf(tk, s, j)
    <3>1. \A j \in 1..N : j <= N
      BY <1>1
    <3>2. QED
      BY <2>3, <2>6, <3>1 DEF IsOf
  <2>10. Nested(toks, 0, s)
    BY <2>1, <2>3, <2>4, NestedMore
  <2> HIDE DEF toks
  <2>11. QED
    BY <2>2, <2>4, <2>8, <2>9, <2>10 DEF WellRead, Nested
<1>6. QED
  BY <1>4, <1>5

-----------------------------------------------------------------------------
(* The server's reading of a text is the one sequence of states in step *)

LEMMA ServerIs ==
  ASSUME NEW t, Len(t) \in Nat, NEW g, g[0] = "code", \A j \in 1..Len(t) : g[j] = ServerStep(g[j - 1], t[j])
  PROVE  \A j \in 0..Len(t) : Server(t)[j] = g[j]
<1> DEFINE N == Len(t)
           Read(h) == h = [i \in 0..N |-> IF i = 0 THEN "code" ELSE ServerStep(h[i - 1], t[i])]
           own == CHOOSE h : Read(h)
           h0 == [j \in 0..N |-> g[j]]
<1>1. Server(t) = own
  BY DEF Server
<1>2. N \in Nat /\ g[0] = "code" /\ \A j \in 1..N : g[j] = ServerStep(g[j - 1], t[j])
  OBVIOUS
<1> HIDE DEF N
<1>3. Read(h0)
  <2>1. ASSUME NEW i \in 0..N PROVE h0[i] = IF i = 0 THEN "code" ELSE ServerStep(h0[i - 1], t[i])
    <3>1. CASE i = 0
      BY <1>2, <3>1
    <3>2. CASE i # 0
      <4>1. i \in 1..N /\ i - 1 \in 0..N
        BY <1>2, <3>2
      <4>2. QED
        BY <1>2, <3>2, <4>1
    <3>3. QED
      BY <3>1, <3>2
  <2>2. QED
    BY <2>1
<1> HIDE DEF h0
<1>4. Read(own)
  BY <1>3
<1> HIDE DEF own
<1>5. \A i \in 0..N : own[i] = IF i = 0 THEN "code" ELSE ServerStep(own[i - 1], t[i])
  <2>1. own = [i \in 0..N |-> IF i = 0 THEN "code" ELSE ServerStep(own[i - 1], t[i])]
    BY <1>4
  <2>2. QED
    BY <2>1
<1> DEFINE Bad == {j \in 0..N : own[j] # g[j]}
<1>6. Bad = {}
  <2>1. SUFFICES ASSUME Bad # {} PROVE FALSE
    OBVIOUS
  <2>2. Bad \in SUBSET (0..N)
    OBVIOUS
  <2>3. PICK m \in Bad : \A n \in Bad : m <= n
    <3> HIDE DEF Bad
    <3>1. QED
      BY <1>2, <2>1, <2>2, PartIsFinite, Least
  <2>4. m \in 0..N /\ own[m] # g[m]
    BY <2>3
  <2>5. m # 0
    BY <1>2, <1>5, <2>4
  <2>6. m \in 1..N /\ m - 1 \in 0..N /\ m - 1 < m
    BY <1>2, <2>4, <2>5
  <2>7. own[m - 1] = g[m - 1]
    <3>1. m - 1 \notin Bad
      BY <2>3, <2>6
    <3>2. QED
      BY <2>6, <3>1
  <2>8. QED
    BY <1>2, <1>5, <2>4, <2>5, <2>6, <2>7
<1>7. QED
  BY <1>1, <1>6 DEF N

\* The text t is s from p to e with k lexemes of a LIMIT after the a-th.
Made(t, s, p, e, a, k) ==
  LET M == e - p + 1
  IN /\ p \in 1..Len(s) /\ e \in p..Len(s) /\ a \in 0..M /\ k \in {0, 2}
     /\ Len(t) = M + k
     /\ \A j \in 1..a : t[j] = s[p - 1 + j]
     /\ \A j \in (a + 1)..(a + k) : t[j] \in {"LIMIT", "5"}
     /\ \A j \in (a + k + 1)..(M + k) : t[j] = s[p - 1 + j - k]

\* Where a lexeme of s is in t.
At(q, p, a, k) == IF q <= p - 1 + a THEN q - p + 1 ELSE q - p + 1 + k

\* Each lexeme of the cut is in t, and runs there if it ran in s; nothing else runs but what was put in.
RunsAlike(t, s, f, p, e, a, k) ==
  \A q \in p..e : /\ At(q, p, a, k) \in 1..Len(t) /\ t[At(q, p, a, k)] = s[q]
                  /\ At(q, p, a, k) \in Executed(t) <=> Runnable(s, f, q)
NothingElse(t, p, e, a, k) ==
  \A j \in Executed(t) : (\E q \in p..e : j = At(q, p, a, k)) \/ (j > a /\ t[j] \in {"LIMIT", "5"})

\* The server runs what was put in where the client's lexer was in code.
ClauseRuns(t, f, p, a, k) == k = 2 /\ f[p - 1 + a].in \in Codes => {a + 1, a + 2} \subseteq Executed(t)

LEMMA AlikeAt ==
  ASSUME NEW t, NEW s, NEW f, NEW p, NEW e, NEW a, NEW k, RunsAlike(t, s, f, p, e, a, k), NEW q \in p..e
  PROVE  /\ At(q, p, a, k) \in 1..Len(t) /\ t[At(q, p, a, k)] = s[q]
         /\ At(q, p, a, k) \in Executed(t) <=> Runnable(s, f, q)
BY DEF RunsAlike

LEMMA MadeRuns ==
  ASSUME NEW s, Len(s) \in Nat, NEW f, NEW t, NEW p, NEW e, NEW a, NEW k, Made(t, s, p, e, a, k),
         Together(s, f), f[p - 1].in \in Codes, AtEnd(f, s, p - 1 + a)
  PROVE  RunsAlike(t, s, f, p, e, a, k) /\ NothingElse(t, p, e, a, k) /\ ClauseRuns(t, f, p, a, k)
<1> DEFINE M == e - p + 1
           in(i) == Sees(f[i].in)
           cut == in(p - 1 + a)
           next == ServerStep(cut, t[a + 1])
           g == [j \in 0..(M + k) |-> IF j <= a THEN in(p - 1 + j)
                                      ELSE IF j <= a + k THEN IF j = a + 1 THEN next ELSE ServerStep(next, t[a + 2])
                                      ELSE in(p - 1 + j - k)]
<1>1. /\ p \in Nat \ {0} /\ e \in Nat /\ p <= e /\ e <= Len(s) /\ a \in Nat /\ a <= M /\ k \in {0, 2} /\ M \in Nat
      /\ Len(t) = M + k
      /\ \A j \in 1..a : t[j] = s[p - 1 + j]
      /\ \A j \in (a + 1)..(a + k) : t[j] \in {"LIMIT", "5"}
      /\ \A j \in (a + k + 1)..(M + k) : t[j] = s[p - 1 + j - k]
  BY DEF Made
<1>2. \A i \in 1..Len(s) : /\ ServerStep(in(i - 1), s[i]) = in(i)
                           /\ (f[i - 1].in \in Codes /\ f[i].in \in Codes) = (in(i - 1) = "code" /\ in(i) = "code")
  BY DEF Together, TogetherAt
<1>3. in(p - 1) = "code"
  BY DEF Sees
<1>4. cut = "code" \/ (a = M /\ cut \in {"q", "bt", "q escaped"})
  <2> DEFINE last == p - 1 + a
             i == f[last].in
  <2>1. last = Len(s) => a = M
    BY <1>1
  <2>2. i \in Codes \/ (last = Len(s) /\ i \in {"q", "bt", "q escaped"})
    BY DEF AtEnd
  <2>3. cut = Sees(i)
    OBVIOUS
  <2> HIDE DEF last, i, cut, M
  <2>4. QED
    BY <2>1, <2>2, <2>3 DEF Sees, Codes, Doubled
<1> HIDE DEF M, in
<1>5. k = 2 => /\ cut = "code" => next = "code" /\ ServerStep(next, t[a + 2]) = "code"
               /\ cut # "code" => next # "code" /\ ServerStep(next, t[a + 2]) # "code"
  <2>1. k = 2 => t[a + 1] \in {"LIMIT", "5"} /\ t[a + 2] \in {"LIMIT", "5"}
    BY <1>1
  <2> HIDE DEF cut
  <2> DEFINE x == t[a + 1]
             y == t[a + 2]
  <2> HIDE DEF x, y
  <2>2. k = 2 => x \in {"LIMIT", "5"} /\ y \in {"LIMIT", "5"}
    BY <2>1 DEF x, y
  <2>3. x \in {"LIMIT", "5"} /\ cut = "code" => ServerStep(cut, x) = "code"
    BY DEF ServerStep, Openers, Quotes, LineComments, BlockComments, Executable
  <2>4. x \in {"LIMIT", "5"} /\ cut \in {"q", "bt", "q escaped"} => ServerStep(cut, x) \in Quotes
    BY DEF ServerStep, Openers, Quotes, LineComments, BlockComments, Executable
  <2>5. \A z \in Quotes : y \in {"LIMIT", "5"} => ServerStep(z, y) \in Quotes
    BY DEF ServerStep, Openers, Quotes, LineComments, BlockComments, Executable
  <2>6. y \in {"LIMIT", "5"} => ServerStep("code", y) = "code"
    BY DEF ServerStep, Openers, Quotes, LineComments, BlockComments, Executable
  <2>7. QED
    BY <1>4, <2>2, <2>3, <2>4, <2>5, <2>6 DEF x, y, Quotes
<1>6. /\ \A j \in 0..a : g[j] = in(p - 1 + j)
      /\ k = 2 => g[a + 1] = next /\ g[a + 2] = ServerStep(next, t[a + 2])
      /\ \A j \in (a + k + 1)..(M + k) : g[j] = in(p - 1 + j - k)
  BY <1>1
<1> HIDE DEF g
<1>7. g[a + k] = cut \/ a = M
  <2>1. CASE k = 0
    <3>1. a + k = a /\ a \in 0..a
      BY <1>1, <2>1
    <3>2. QED
      BY <1>6, <3>1
  <2>2. CASE k = 2
    <3>1. a + k = a + 2
      BY <2>2
    <3> HIDE DEF cut, next
    <3>2. QED
      BY <1>4, <1>5, <1>6, <2>2, <3>1
  <2>3. QED
    BY <1>1, <2>1, <2>2
\* Places in t that are places in s.
<1>8. ASSUME NEW j \in 1..a
      PROVE  LET q == p - 1 + j
             IN /\ q \in 1..Len(s) /\ t[j] = s[q] /\ g[j] = in(q) /\ g[j - 1] = in(q - 1)
  <2> DEFINE q == p - 1 + j
  <2>1. q \in 1..Len(s) /\ j \in 0..a /\ j - 1 \in 0..a /\ p - 1 + (j - 1) = q - 1
    BY <1>1 DEF M
  <2>2. t[j] = s[q] /\ g[j] = in(q)
    BY <1>1, <1>6, <2>1
  <2>3. g[j - 1] = in(p - 1 + (j - 1))
    BY <1>6, <2>1
  <2> HIDE DEF q
  <2>4. QED
    BY <2>1, <2>2, <2>3 DEF q
<1>9. ASSUME NEW j \in (a + k + 1)..(M + k)
      PROVE  LET q == p - 1 + j - k
             IN /\ q \in 1..Len(s) /\ t[j] = s[q] /\ g[j] = in(q) /\ g[j - 1] = in(q - 1)
  <2> DEFINE q == p - 1 + j - k
  <2>1. q \in 1..Len(s) /\ a # M
    BY <1>1 DEF M
  <2>2. t[j] = s[q] /\ g[j] = in(q)
    BY <1>1, <1>6
  <2>3. g[j - 1] = in(q - 1)
    <3>1. CASE j = a + k + 1
      <4>1. j - 1 = a + k /\ q - 1 = p - 1 + a
        BY <1>1, <3>1
      <4>2. QED
        BY <1>7, <2>1, <4>1
    <3>2. CASE j # a + k + 1
      <4>1. j - 1 \in (a + k + 1)..(M + k) /\ p - 1 + (j - 1) - k = q - 1
        BY <1>1, <3>2
      <4>2. g[j - 1] = in(p - 1 + (j - 1) - k)
        BY <1>6, <4>1
      <4>3. QED
        BY <4>1, <4>2
    <3>3. QED
      BY <3>1, <3>2
  <2>4. QED
    BY <2>1, <2>2, <2>3
<1>10. \A j \in 1..(M + k) : \/ j \in 1..a \/ j \in (a + k + 1)..(M + k)
                             \/ k = 2 /\ (j = a + 1 \/ j = a + 2)
  BY <1>1
<1> DEFINE Step(j) == g[j] = ServerStep(g[j - 1], t[j])
<1>11. \A j \in 1..(M + k) : Step(j)
  <2>1. ASSUME NEW j \in 1..a PROVE Step(j)
    BY <1>2, <1>8
  <2>2. ASSUME NEW j \in (a + k + 1)..(M + k) PROVE Step(j)
    BY <1>2, <1>9
  <2>3. k = 2 => Step(a + 1) /\ Step(a + 2)
    <3>1. a + 1 - 1 = a /\ a + 2 - 1 = a + 1 /\ a \in 0..a
      BY <1>1
    <3>2. g[a] = cut
      BY <1>6, <3>1
    <3> HIDE DEF cut
    <3>3. QED
      BY <1>6, <3>1, <3>2
  <2> HIDE DEF Step
  <2>4. QED
    BY <1>10, <2>1, <2>2, <2>3
<1>12. g[0] = "code"
  <2>1. 0 \in 0..a /\ p - 1 + 0 = p - 1
    BY <1>1
  <2>2. g[0] = in(p - 1 + 0)
    BY <1>6, <2>1
  <2>3. QED
    BY <1>3, <2>1, <2>2
<1>13. Len(t) \in Nat /\ Len(t) = M + k
  BY <1>1
<1>14. \A j \in 0..Len(t) : Server(t)[j] = g[j]
  BY <1>11, <1>12, <1>13, ServerIs
<1>15. \A j : j \in Executed(t) <=> /\ j \in 1..(M + k) /\ g[j - 1] = "code" /\ g[j] = "code"
                                    /\ t[j] \notin {"nl", "sp", "*/", "/*!", "/*M!"}
  <2>1. \A j \in 1..Len(t) : j - 1 \in 0..Len(t) /\ j \in 0..Len(t)
    BY <1>13
  <2>2. QED
    BY <1>13, <1>14, <2>1 DEF Executed, Runs
\* A place in t with that of s.
<1>16. ASSUME NEW j \in 1..(M + k), NEW q \in 1..Len(s), t[j] = s[q], g[j] = in(q), g[j - 1] = in(q - 1)
       PROVE  j \in Executed(t) <=> Runnable(s, f, q)
  <2>1. g[j] = ServerStep(g[j - 1], t[j])
    BY <1>11
  <2>2. ServerStep("code", "/*!9") # "code"
    BY DEF ServerStep, Quotes, LineComments, BlockComments
  <2>3. QED
    BY <1>2, <1>15, <1>16, <2>1, <2>2 DEF Runnable, Executable
<1>17. ASSUME NEW q \in p..e
       PROVE  /\ At(q, p, a, k) \in 1..Len(t) /\ t[At(q, p, a, k)] = s[q]
              /\ (At(q, p, a, k) \in Executed(t) <=> Runnable(s, f, q))
  <2> DEFINE j == At(q, p, a, k)
  <2>1. CASE q <= p - 1 + a
    <3>1. j = q - p + 1
      BY <2>1 DEF At
    <3>2. j \in 1..a /\ p - 1 + j = q /\ j \in 1..(M + k)
      BY <1>1, <2>1, <3>1
    <3> HIDE DEF j
    <3>3. q \in 1..Len(s) /\ t[j] = s[q] /\ g[j] = in(q) /\ g[j - 1] = in(q - 1)
      BY <1>8, <3>2
    <3>4. j \in Executed(t) <=> Runnable(s, f, q)
      BY <1>16, <3>2, <3>3
    <3>5. QED
      BY <1>13, <3>2, <3>3, <3>4 DEF j
  <2>2. CASE ~(q <= p - 1 + a)
    <3>1. j = q - p + 1 + k
      BY <2>2 DEF At
    <3>2. j \in (a + k + 1)..(M + k) /\ p - 1 + j - k = q /\ j \in 1..(M + k)
      BY <1>1, <2>2, <3>1 DEF M
    <3> HIDE DEF j
    <3>3. q \in 1..Len(s) /\ t[j] = s[q] /\ g[j] = in(q) /\ g[j - 1] = in(q - 1)
      BY <1>9, <3>2
    <3>4. j \in Executed(t) <=> Runnable(s, f, q)
      BY <1>16, <3>2, <3>3
    <3>5. QED
      BY <1>13, <3>2, <3>3, <3>4 DEF j
  <2>3. QED
    BY <2>1, <2>2
<1>18. ASSUME NEW j \in Executed(t)
       PROVE  (\E q \in p..e : j = At(q, p, a, k)) \/ (j > a /\ t[j] \in {"LIMIT", "5"})
  <2>1. j \in 1..(M + k)
    BY <1>15
  <2>2. CASE j \in 1..a
    <3>1. p - 1 + j \in p..e /\ j = At(p - 1 + j, p, a, k)
      BY <1>1, <2>2 DEF At, M
    <3>2. QED
      BY <3>1
  <2>3. CASE j \in (a + k + 1)..(M + k)
    <3>1. p - 1 + j - k \in p..e /\ j = At(p - 1 + j - k, p, a, k)
      BY <1>1, <2>3 DEF At, M
    <3>2. QED
      BY <3>1
  <2>4. CASE k = 2 /\ (j = a + 1 \/ j = a + 2)
    <3>1. j \in (a + 1)..(a + k) /\ j > a
      BY <1>1, <2>4
    <3>2. QED
      BY <1>1, <3>1
  <2>5. QED
    BY <1>10, <2>1, <2>2, <2>3, <2>4
<1>20. ASSUME k = 2, f[p - 1 + a].in \in Codes PROVE {a + 1, a + 2} \subseteq Executed(t)
  <2>1. cut = "code"
    BY <1>20 DEF in, Sees
  <2>2. next = "code" /\ ServerStep(next, t[a + 2]) = "code"
    BY <1>5, <1>20, <2>1
  <2> HIDE DEF next
  <2>3. a \in 0..a /\ g[a] = cut
    BY <1>1, <1>6
  <2>4. g[a] = "code" /\ g[a + 1] = "code" /\ g[a + 2] = "code"
    <3> HIDE DEF cut
    <3>1. QED
      BY <1>6, <1>20, <2>1, <2>2, <2>3
  <2>5. a + 1 \in (a + 1)..(a + k) /\ a + 2 \in (a + 1)..(a + k) /\ a + 1 - 1 = a /\ a + 2 - 1 = a + 1
        /\ a + 1 \in 1..(M + k) /\ a + 2 \in 1..(M + k)
    BY <1>1, <1>20
  <2>6. t[a + 1] \in {"LIMIT", "5"} /\ t[a + 2] \in {"LIMIT", "5"}
    BY <1>1, <2>5
  <2> DEFINE x == a + 1
             y == a + 2
  <2> HIDE DEF g, M
  <2>11. x - 1 = a /\ y - 1 = a + 1
    <3> HIDE <2>5
    <3>1. a \in Nat
      BY <1>1
    <3>2. QED
      BY <3>1
  <2>7. /\ x \in 1..(M + k) /\ g[x - 1] = "code" /\ g[x] = "code" /\ t[x] \in {"LIMIT", "5"}
        /\ y \in 1..(M + k) /\ g[y - 1] = "code" /\ g[y] = "code" /\ t[y] \in {"LIMIT", "5"}
    BY <2>4, <2>5, <2>6, <2>11
  <2> HIDE DEF x, y
  <2>8. x \in Executed(t) /\ y \in Executed(t)
    <3> DEFINE ran == Executed(t)
    <3> HIDE DEF ran
    <3>1. \A z : z \in {"LIMIT", "5"} => z \notin {"nl", "sp", "*/", "/*!", "/*M!"}
      OBVIOUS
    <3>2. QED
      BY <1>15, <2>7, <3>1, Zenon DEF ran
  <2>9. QED
    BY <2>8 DEF x, y
<1>19. QED
  <2>1. RunsAlike(t, s, f, p, e, a, k)
    BY <1>17 DEF RunsAlike
  <2>2. NothingElse(t, p, e, a, k)
    BY <1>18 DEF NothingElse
  <2>3. ClauseRuns(t, f, p, a, k)
    BY <1>20 DEF ClauseRuns
  <2>4. QED
    BY <2>1, <2>2, <2>3

ReadVerbs == {"SELECT", "WITH", "TABLE", "VALUES", "SHOW", "DESCRIBE", "DESC", "EXPLAIN"}
\* What runs of s from p to e is a read, its verb before anything after x.
OneRead(s, f, p, e, x) ==
  /\ \A q \in p..e : Runnable(s, f, q) =>
       /\ s[q] \notin {"UPDATE", "DELETE", "INTO"}
       /\ s[q] = ";" => \E r \in p..(q - 1) : Runnable(s, f, r) /\ s[r] = "("
  /\ \E v \in p..e : /\ v <= x /\ Runnable(s, f, v) /\ s[v] \in ReadVerbs
                     /\ \A q \in p..(v - 1) : Runnable(s, f, q) => s[q] = "("

LEMMA MadeIsARead ==
  ASSUME NEW s, Len(s) \in Nat, NEW f, NEW t, NEW p, NEW e, NEW a, NEW k, Made(t, s, p, e, a, k),
         Together(s, f), f[p - 1].in \in Codes, AtEnd(f, s, p - 1 + a), OneRead(s, f, p, e, p - 1 + a)
  PROVE  ServerReads(t)
<1> DEFINE at(q) == At(q, p, a, k)
           ran == Executed(t)
           runs(q) == Runnable(s, f, q)
           x == p - 1 + a
<1>1. /\ \A q \in p..e : at(q) \in 1..Len(t) /\ t[at(q)] = s[q] /\ (at(q) \in ran <=> runs(q))
      /\ \A j \in ran : (\E q \in p..e : j = at(q)) \/ (j > a /\ t[j] \in {"LIMIT", "5"})
  <2>1. RunsAlike(t, s, f, p, e, a, k) /\ NothingElse(t, p, e, a, k)
    BY MadeRuns
  <2>2. QED
    BY <2>1, AlikeAt DEF NothingElse
<1>2. p \in Nat /\ e \in Nat /\ a \in Nat /\ k \in {0, 2} /\ Len(t) \in Nat
  BY DEF Made
<1>3. \A q \in p..e : at(q) \in Nat
  BY <1>1, <1>2
<1>4. \A q, r \in p..e : q < r => at(q) < at(r)
  BY <1>2 DEF At
<1>5. \A q \in p..e : q <= x => at(q) <= a
  BY <1>2 DEF At
<1>6. OneRead(s, f, p, e, x)
  OBVIOUS
<1>7. /\ \A q \in p..e : runs(q) =>
           /\ s[q] \notin {"UPDATE", "DELETE", "INTO"}
           /\ s[q] = ";" => \E r \in p..(q - 1) : runs(r) /\ s[r] = "("
      /\ \E v \in p..e : /\ v <= x /\ runs(v) /\ s[v] \in ReadVerbs
                         /\ \A q \in p..(v - 1) : runs(q) => s[q] = "("
  BY <1>6 DEF OneRead
<1> HIDE DEF at, ran, runs, x
<1>8. ASSUME NEW i \in ran, t[i] = ";" PROVE \E j \in ran : j < i /\ t[j] = "("
  <2>1. PICK q \in p..e : i = at(q)
    BY <1>1, <1>8
  <2>2. runs(q) /\ s[q] = ";"
    BY <1>1, <1>8, <2>1
  <2>3. PICK r \in p..(q - 1) : runs(r) /\ s[r] = "("
    BY <1>7, <2>2
  <2>4. r \in p..e /\ r < q
    BY <1>2
  <2>5. at(r) \in ran /\ at(r) < i /\ t[at(r)] = "("
    BY <1>1, <1>4, <2>1, <2>3, <2>4
  <2>6. QED
    BY <2>5
<1>9. \E i \in ran : (\A j \in ran : j < i => t[j] = "(") /\ t[i] \in ReadVerbs
  <2>1. PICK v \in p..e : /\ v <= x /\ runs(v) /\ s[v] \in ReadVerbs
                          /\ \A q \in p..(v - 1) : runs(q) => s[q] = "("
    BY <1>7
  <2>2. at(v) \in ran /\ t[at(v)] \in ReadVerbs /\ at(v) <= a /\ at(v) \in Nat
    BY <1>1, <1>3, <1>5, <2>1
  <2>3. ASSUME NEW j \in ran, j < at(v) PROVE t[j] = "("
    <3>1. ~(j > a)
      <4>1. j \in Nat
        BY <1>2 DEF ran, Executed, Runs
      <4>2. QED
        BY <1>2, <2>2, <2>3, <4>1
    <3>2. PICK q \in p..e : j = at(q)
      BY <1>1, <3>1
    <3>3. runs(q) /\ at(q) < at(v) /\ t[j] = s[q]
      BY <1>1, <2>3, <3>2
    <3>4. ~(v < q) /\ q # v
      <4>1. \A m, n \in Nat : ~(m < n /\ n < m) /\ ~(m < m)
        OBVIOUS
      <4>2. at(q) \in Nat /\ at(v) \in Nat
        BY <1>3
      <4>3. v < q => at(v) < at(q)
        BY <1>4
      <4>4. QED
        BY <3>3, <4>1, <4>2, <4>3
    <3>5. q \in p..(v - 1)
      BY <1>2, <3>4
    <3>6. QED
      BY <2>1, <3>3, <3>5
  <2>4. QED
    BY <2>2, <2>3
<1>10. \A i \in ran : t[i] \notin {"UPDATE", "DELETE", "INTO"}
  <2>1. TAKE i \in ran
  <2>2. CASE i > a /\ t[i] \in {"LIMIT", "5"}
    BY <2>2
  <2>3. ASSUME NEW q \in p..e, i = at(q) PROVE t[i] \notin {"UPDATE", "DELETE", "INTO"}
    BY <1>1, <1>7, <2>3
  <2>4. QED
    BY <1>1, <2>2, <2>3
<1>11. QED
  BY <1>8, <1>9, <1>10 DEF ServerReads, IsARead, ReadVerbs, ran

-----------------------------------------------------------------------------
(* A statement is the tokens between two cuts of its text *)

IsPart(stmt, s, toks, c, b) ==
  /\ c \in Nat /\ b \in (c + 1)..Len(toks)
  /\ DOMAIN stmt = 1..(b - c) /\ \A i \in 1..(b - c) : stmt[i] = toks[c + i]
  /\ CutOf(s, stmt) = SubSeq(s, toks[c + 1].pos, toks[b].end)
  /\ c # 0 => Separates(s, toks[c])
  /\ \A k \in (c + 1)..b : ~Separates(s, toks[k])

LEMMA EachCut ==
  ASSUME NEW s, Len(s) \in Nat, NEW k \in DOMAIN Split(s)
  PROVE  \E c \in Cuts(s, Tokenize(s)) :
           ~IsEmpty(After(s, Tokenize(s), c)) /\ Split(s)[k] = After(s, Tokenize(s), c)
<1> DEFINE toks == Tokenize(s)
           full == {c \in Cuts(s, toks) : ~IsEmpty(After(s, toks, c))}
           n == Cardinality(full)
           cut(m) == CHOOSE c \in full : Cardinality({d \in full : d < c}) = m - 1
           stmts == Split(s)
<1>1. toks \in Seq(TokenRecords)
  BY TokensAreInOrder
<1> HIDE DEF toks
<1>2. IsFiniteSet(full) /\ full \in SUBSET Nat
  <2>1. Len(toks) \in Nat /\ full \in SUBSET (0..Len(toks))
    BY <1>1 DEF Cuts
  <2> HIDE DEF full
  <2>2. QED
    BY <2>1, PartIsFinite
<1>3. \A c \in full : c \in Cuts(s, toks) /\ ~IsEmpty(After(s, toks, c))
  OBVIOUS
<1>4. stmts = [m \in 1..n |-> After(s, toks, cut(m))] /\ k \in DOMAIN stmts
  BY DEF Split, Groups, toks
<1> HIDE DEF full, stmts
<1>5. n \in Nat
  BY <1>2, FS_CardinalityType
<1>6. k \in 1..n
  <2> HIDE DEF n, cut
  <2>1. QED
    BY <1>4
<1>7. cut(k) \in full
  <2>1. \E c \in full : Rank(full, c) = k - 1
    BY <1>2, <1>6, EveryRankIsTaken
  <2>2. \E c \in full : Cardinality({d \in full : d < c}) = k - 1
    BY <2>1 DEF Rank, Below
  <2>3. QED
    BY <2>2
<1> HIDE DEF cut, n
<1>8. stmts[k] = After(s, toks, cut(k))
  BY <1>4, <1>6
<1>9. QED
  BY <1>3, <1>7, <1>8 DEF toks, stmts

LEMMA ItsCut ==
  ASSUME NEW s, Len(s) \in Nat, Len(Split(s)) = 1
  PROVE  \E c \in Cuts(s, Tokenize(s)) :
           ~IsEmpty(After(s, Tokenize(s), c)) /\ Split(s)[1] = After(s, Tokenize(s), c)
<1> DEFINE stmts == Split(s)
<1>1. Apart(stmts) /\ Len(stmts) = 1
  BY StatementsAreApart
<1>2. 1 \in DOMAIN stmts
  <2> HIDE DEF stmts
  <2>1. QED
    BY <1>1 DEF Apart
<1>3. QED
  BY <1>2, EachCut

LEMMA AfterIsPart ==
  ASSUME NEW s, NEW toks \in Seq(TokenRecords), NEW c \in Cuts(s, toks), ~IsEmpty(After(s, toks, c))
  PROVE  After(s, toks, c) \in Seq(TokenRecords) /\ \E b : IsPart(After(s, toks, c), s, toks, c, b)
<1> DEFINE g == After(s, toks, c)
           n == Len(toks)
           next == Following(s, toks, c)
           b == next - 1
<1>1. /\ next \in (c + 1)..(n + 1) /\ c \in 0..n /\ n \in Nat
      /\ \A d \in Cuts(s, toks) : d > c => next <= d
  BY FollowingIsNext
<1>2. c + 1 \in 1..n /\ b \in (c + 1)..n /\ g[1] = toks[c + 1] /\ Last(g) = toks[b]
  BY EndsOfAfter
<1>3. g = SubSeq(toks, c + 1, b)
  BY DEF After, Following
<1> HIDE DEF g, next
<1>4. /\ Len(g) = IF c + 1 <= b THEN b - (c + 1) + 1 ELSE 0
      /\ \A i \in 1..(b - (c + 1) + 1) : g[i] = toks[(c + 1) + i - 1]
      /\ g \in Seq(TokenRecords)
  <2>1. c + 1 \in Int /\ b \in Int
    BY <1>1
  <2>2. \A i \in (c + 1)..b : toks[i] \in TokenRecords
    <3>1. \A i \in (c + 1)..b : i \in 1..n
      BY <1>1
    <3>2. \A i \in 1..n : toks[i] \in TokenRecords
      BY ElementOfSeq
    <3> HIDE DEF n, b
    <3>3. QED
      BY <3>1, <3>2
  <2> HIDE DEF b
  <2>3. QED
    BY <1>3, <2>1, <2>2, SubSeqProperties
<1> HIDE DEF b
<1>5. c \in Nat /\ b \in (c + 1)..n /\ b - (c + 1) + 1 = b - c /\ Len(g) = b - c
  BY <1>1, <1>2, <1>4
<1>6. DOMAIN g = 1..(b - c)
  BY <1>4, <1>5
<1>7. \A i \in 1..(b - c) : g[i] = toks[c + i]
  <2>1. ASSUME NEW i \in 1..(b - c) PROVE g[i] = toks[c + i]
    <3>1. i \in 1..(b - (c + 1) + 1) /\ (c + 1) + i - 1 = c + i
      BY <1>5
    <3>2. g[i] = toks[(c + 1) + i - 1]
      BY <1>4, <3>1
    <3>3. QED
      BY <3>1, <3>2
  <2>2. QED
    BY <2>1
<1>8. CutOf(s, g) = SubSeq(s, toks[c + 1].pos, toks[b].end)
  BY <1>2 DEF CutOf
<1>9. c # 0 => Separates(s, toks[c])
  BY DEF Cuts
<1>10. ASSUME NEW k \in (c + 1)..b, Separates(s, toks[k]) PROVE FALSE
  <2>1. k \in 1..n /\ k > c /\ k < next
    BY <1>1, <1>5 DEF b
  <2>2. k \in Cuts(s, toks)
    BY <1>10, <2>1 DEF Cuts, n
  <2>3. next <= k
    BY <1>1, <2>1, <2>2
  <2>4. QED
    BY <1>1, <2>1, <2>3
<1>11. IsPart(g, s, toks, c, b)
  BY <1>5, <1>6, <1>7, <1>8, <1>9, <1>10 DEF IsPart, n
<1>12. QED
  BY <1>4, <1>11 DEF g

\* Its tokens are the text's from the one after c to b.
Between(stmt, toks, c, b) ==
  /\ \A k \in (c + 1)..b : k \in 1..Len(toks) /\ k - c \in DOMAIN stmt /\ stmt[k - c] = toks[k]
  /\ \A i \in DOMAIN stmt : c + i \in (c + 1)..b /\ stmt[i] = toks[c + i]
  /\ c + 1 \in (c + 1)..b /\ b \in (c + 1)..b /\ c \in Nat /\ b \in Nat

LEMMA InThePart ==
  ASSUME NEW stmt, NEW s, NEW toks \in Seq(TokenRecords), NEW c, NEW b, IsPart(stmt, s, toks, c, b)
  PROVE  Between(stmt, toks, c, b)
<1>1. /\ c \in Nat /\ b \in (c + 1)..Len(toks) /\ Len(toks) \in Nat
      /\ DOMAIN stmt = 1..(b - c) /\ \A i \in 1..(b - c) : stmt[i] = toks[c + i]
  BY DEF IsPart
<1>2. ASSUME NEW k \in (c + 1)..b PROVE k \in 1..Len(toks) /\ k - c \in DOMAIN stmt /\ stmt[k - c] = toks[k]
  <2>1. k \in 1..Len(toks) /\ k - c \in 1..(b - c) /\ c + (k - c) = k
    BY <1>1
  <2>2. stmt[k - c] = toks[c + (k - c)]
    BY <1>1, <2>1
  <2>3. QED
    BY <1>1, <2>1, <2>2
<1>3. \A i \in DOMAIN stmt : c + i \in (c + 1)..b /\ stmt[i] = toks[c + i]
  BY <1>1
<1>4. c + 1 \in (c + 1)..b /\ b \in (c + 1)..b /\ c \in Nat /\ b \in Nat
  BY <1>1
<1>5. QED
  BY <1>2, <1>3, <1>4 DEF Between

LEMMA Positions ==
  ASSUME NEW s, Len(s) \in Nat, NEW toks \in Seq(TokenRecords), InOrder(toks), Until(toks, Len(s))
  PROVE  /\ \A k \in 1..Len(toks) : /\ toks[k].pos \in Nat \ {0} /\ toks[k].end \in Nat
                                    /\ toks[k].pos <= toks[k].end /\ toks[k].end <= Len(s)
         /\ \A j, k \in 1..Len(toks) : j < k => toks[j].end < toks[k].pos /\ toks[j].pos < toks[k].pos
         \* What lies in a token between two others, in the text, is between them.
         /\ \A i, j, k \in 1..Len(toks), q \in Nat :
              /\ toks[k].pos <= q /\ q <= toks[k].end
              /\ i <= j /\ toks[i].pos <= q /\ q <= toks[j].end
              => k \in i..j
<1> DEFINE n == Len(toks)
           pos(k) == toks[k].pos
           end(k) == toks[k].end
<1>1. \A k \in 1..n : pos(k) \in Nat /\ end(k) \in Nat
  BY TokenIs
<1>2. /\ \A k \in 1..n : 1 <= pos(k) /\ pos(k) <= end(k) /\ end(k) <= Len(s)
      /\ \A j, k \in 1..n : j < k => end(j) < pos(k)
  BY DEF InOrder, Until
<1>3. n \in Nat
  OBVIOUS
<1> HIDE DEF n, pos, end
<1>4. \A j, k \in 1..n : j < k => pos(j) < pos(k)
  BY <1>1, <1>2
<1>5. ASSUME NEW i \in 1..n, NEW j \in 1..n, NEW k \in 1..n, NEW q \in Nat,
             pos(k) <= q, q <= end(k), i <= j, pos(i) <= q, q <= end(j)
      PROVE  k \in i..j
  <2>1. ~(k < i)
    <3>1. k < i => end(k) < pos(i)
      BY <1>2
    <3>2. QED
      BY <1>1, <1>5, <3>1
  <2>2. ~(j < k)
    <3>1. j < k => end(j) < pos(k)
      BY <1>2
    <3>2. QED
      BY <1>1, <1>5, <3>1
  <2>3. QED
    BY <1>3, <2>1, <2>2
<1>6. \A k \in 1..n : pos(k) \in Nat \ {0}
  BY <1>1, <1>2
<1>7. QED
  BY <1>1, <1>2, <1>4, <1>5, <1>6 DEF n, pos, end

-----------------------------------------------------------------------------
(* What the client admits: the verb, and what runs with it *)

LEMMA MinOfPart ==
  ASSUME NEW n \in Nat, NEW S \in SUBSET (0..n), S # {}
  PROVE  Min(S) \in S /\ \A i \in S : Min(S) <= i
<1>1. \E c \in S : \A d \in S : c <= d
  BY PartIsFinite, Least
<1>2. QED
  BY <1>1 DEF Min

LEMMA KindOfVerb ==
  ASSUME NEW s, NEW toks, AdmitKind(s, toks)
  PROVE  \/ Verb(s, toks) \in ReadVerbs
         \/ Verb(s, toks) = "ANALYZE" /\ ~\E i \in DOMAIN toks : IsKeyword(s, toks[i], "ANALYZE")
<1> DEFINE verb == Verb(s, toks)
           kind == Kind(s, toks)
           wrapped == WrappedKind(s, toks)
           second(name) == SecondWordIs(s, toks, name)
<1>1. kind = CASE verb \in {"SHOW", "DESCRIBE", "DESC", "CHECK"} -> "read"
               [] verb \in {"EXPLAIN", "ANALYZE"} -> wrapped
               [] verb \in {"USE", "SET", "LOCK", "UNLOCK"} -> "session"
               [] verb \in {"BEGIN", "COMMIT", "ROLLBACK", "SAVEPOINT"} -> "transaction"
               [] verb = "START" -> IF second("TRANSACTION") THEN "transaction" ELSE "other"
               [] verb = "RELEASE" -> IF second("SAVEPOINT") THEN "transaction" ELSE "other"
               [] verb \in verbs -> verbKinds[verb]
               [] OTHER -> "other"
  BY DEF Kind
<1>2. /\ ~(verb \in {"EXPLAIN", "ANALYZE"} /\ \E i \in DOMAIN toks : IsKeyword(s, toks[i], "ANALYZE"))
      /\ kind = "select" \/ (kind = "read" /\ verb \in {"SHOW", "DESCRIBE", "DESC", "EXPLAIN"})
  BY DEF AdmitKind
<1> HIDE DEF verb, kind, wrapped, second
<1>3. \A w \in verbs : verbKinds[w] = "select" => w \in {"SELECT", "WITH", "TABLE", "VALUES"}
  BY DEF verbKinds, verbs
<1>4. kind = "select" => verb \in {"EXPLAIN", "ANALYZE"} \/ (verb \in verbs /\ verbKinds[verb] = "select")
  BY <1>1
<1>5. QED
  BY <1>2, <1>3, <1>4 DEF ReadVerbs, verb

\* Nothing but comments and parentheses comes before the verb.
LeadsPart(s, toks, c, k) ==
  /\ toks[k].kind = "word" /\ s[toks[k].pos] \in ReadVerbs
  /\ \A j \in (c + 1)..(k - 1) : toks[j].kind = "comment" \/ IsPunct(s, toks[j], "(")

LEMMA ItsVerb ==
  ASSUME NEW stmt, NEW s, NEW toks \in Seq(TokenRecords), NEW c, NEW b, IsPart(stmt, s, toks, c, b),
         AdmitKind(s, stmt)
  PROVE  \E k \in (c + 1)..b : LeadsPart(s, toks, c, k)
<1> DEFINE rest == {i \in DOMAIN stmt : stmt[i].kind # "comment" /\ ~IsPunct(s, stmt[i], "(")}
           i0 == Min(rest)
<1>1. Verb(s, stmt) = IF rest = {} \/ stmt[i0].kind # "word" THEN "" ELSE s[stmt[i0].pos]
  BY DEF Verb
<1>2. /\ Verb(s, stmt) \in ReadVerbs
         \/ (Verb(s, stmt) = "ANALYZE" /\ ~\E i \in DOMAIN stmt : IsKeyword(s, stmt[i], "ANALYZE"))
  BY KindOfVerb
<1>3. /\ \A k \in (c + 1)..b : k - c \in DOMAIN stmt /\ stmt[k - c] = toks[k]
      /\ \A i \in DOMAIN stmt : c + i \in (c + 1)..b /\ stmt[i] = toks[c + i]
      /\ c \in Nat /\ b \in Nat /\ DOMAIN stmt = 1..(b - c) /\ b - c \in Nat
  <2>1. c \in Nat /\ b \in (c + 1)..Len(toks) /\ DOMAIN stmt = 1..(b - c)
    BY DEF IsPart
  <2>2. b \in Nat /\ b - c \in Nat
    BY <2>1
  <2>3. /\ \A k \in (c + 1)..b : k - c \in DOMAIN stmt /\ stmt[k - c] = toks[k]
        /\ \A i \in DOMAIN stmt : c + i \in (c + 1)..b /\ stmt[i] = toks[c + i]
    <3>1. Between(stmt, toks, c, b)
      BY InThePart
    <3>2. QED
      BY <3>1 DEF Between
  <2>4. QED
    BY <2>1, <2>2, <2>3
<1>4. rest # {} /\ stmt[i0].kind = "word" /\ Verb(s, stmt) = s[stmt[i0].pos]
  BY <1>1, <1>2 DEF ReadVerbs
<1>5. i0 \in rest /\ \A i \in rest : i0 <= i
  <2>1. rest \in SUBSET (0..(b - c))
    BY <1>3
  <2> HIDE DEF rest
  <2>2. QED
    BY <1>3, <1>4, <2>1, MinOfPart
<1>6. i0 \in 1..(b - c) /\ \A i \in DOMAIN stmt : i < i0 => stmt[i].kind = "comment" \/ IsPunct(s, stmt[i], "(")
  <2> HIDE DEF i0
  <2>1. \A i \in DOMAIN stmt : i \in Nat
    BY <1>3
  <2>2. i0 \in 1..(b - c)
    BY <1>3, <1>5
  <2>3. \A i \in DOMAIN stmt : i < i0 => i \notin rest
    BY <1>5, <2>1, <2>2
  <2>4. QED
    BY <2>2, <2>3
<1> HIDE DEF i0, rest
<1> DEFINE k == c + i0
<1>7. k \in (c + 1)..b /\ stmt[i0] = toks[k] /\ i0 \in DOMAIN stmt
  BY <1>3, <1>6
<1>8. ~IsKeyword(s, stmt[i0], "ANALYZE") \/ Verb(s, stmt) \in ReadVerbs
  BY <1>2, <1>7
<1>9. Verb(s, stmt) \in ReadVerbs
  BY <1>2, <1>4, <1>8 DEF IsKeyword
<1>10. ASSUME NEW j \in (c + 1)..(k - 1) PROVE toks[j].kind = "comment" \/ IsPunct(s, toks[j], "(")
  <2>1. j \in (c + 1)..b /\ j - c < i0
    BY <1>3, <1>6, <1>7
  <2>2. j - c \in DOMAIN stmt /\ stmt[j - c] = toks[j]
    BY <1>3, <2>1
  <2>3. QED
    BY <1>6, <2>1, <2>2
<1>11. LeadsPart(s, toks, c, k)
  BY <1>4, <1>7, <1>9, <1>10 DEF LeadsPart
<1>12. QED
  BY <1>7, <1>11

\* What runs of an admitted statement is a read.
LEMMA PartIsOneRead ==
  ASSUME NEW s \in Seq(STRING), NEW f, NEW toks \in Seq(TokenRecords), InOrder(toks), Until(toks, Len(s)),
         WellRead(toks, s, f), NEW stmt, NEW c, NEW b, IsPart(stmt, s, toks, c, b), AdmitWords(s, stmt),
         NEW k0 \in (c + 1)..b, LeadsPart(s, toks, c, k0), NEW x, toks[k0].pos <= x
  PROVE  OneRead(s, f, toks[c + 1].pos, toks[b].end, x)
<1> DEFINE n == Len(toks)
           pos(k) == toks[k].pos
           end(k) == toks[k].end
           p == pos(c + 1)
           e == end(b)
<1>1. Len(s) \in Nat /\ n \in Nat
  OBVIOUS
<1>2. /\ \A k \in 1..n : pos(k) \in Nat \ {0} /\ end(k) \in Nat /\ pos(k) <= end(k) /\ end(k) <= Len(s)
      /\ \A j, k \in 1..n : j < k => end(j) < pos(k) /\ pos(j) < pos(k)
      /\ \A i, j, k \in 1..n, q \in Nat :
           pos(k) <= q /\ q <= end(k) /\ i <= j /\ pos(i) <= q /\ q <= end(j) => k \in i..j
  BY <1>1, Positions
<1>3. /\ \A k \in (c + 1)..b : k \in 1..n /\ k - c \in DOMAIN stmt /\ stmt[k - c] = toks[k]
      /\ c + 1 \in (c + 1)..b /\ b \in (c + 1)..b /\ c \in Nat /\ b \in Nat
  <2>1. Between(stmt, toks, c, b)
    BY InThePart
  <2>2. QED
    BY <2>1 DEF Between
<1>4. /\ \A k \in 1..n : Fits(toks[k], s, f)
      /\ \A j \in 1..Len(s) : Runnable(s, f, j) => \E k \in 1..n : IsOf(toks[k], s, j)
      /\ \A k \in 1..n : toks[k].depth # 0 => Open(toks, s, k - 1)
  BY DEF WellRead
<1>5. /\ c # 0 => Separates(s, toks[c])
      /\ \A k \in (c + 1)..b : ~Separates(s, toks[k])
  BY DEF IsPart
<1>6. /\ toks[k0].kind = "word" /\ s[pos(k0)] \in ReadVerbs
      /\ \A j \in (c + 1)..(k0 - 1) : toks[j].kind = "comment" \/ IsPunct(s, toks[j], "(")
  BY DEF LeadsPart
<1> HIDE DEF n, pos, end
<1>7. c + 1 \in 1..n /\ b \in 1..n /\ k0 \in 1..n /\ c + 1 <= b
  BY <1>3
<1>8. p \in Nat \ {0} /\ e \in Nat /\ e <= Len(s) /\ \A q \in p..e : q \in 1..Len(s)
  <2>1. pos(c + 1) \in Nat \ {0} /\ end(b) \in Nat /\ end(b) <= Len(s)
    BY <1>2, <1>7
  <2>2. QED
    BY <1>1, <2>1
\* The token of what runs.
<1>9. ASSUME NEW q \in p..e, Runnable(s, f, q) PROVE \E k \in (c + 1)..b : IsOf(toks[k], s, q) /\ pos(k) <= q /\ q <= end(k)
  <2>1. PICK k \in 1..n : IsOf(toks[k], s, q)
    BY <1>4, <1>8, <1>9
  <2>2. pos(k) <= q /\ q <= end(k)
    BY <1>2, <2>1 DEF IsOf, pos, end
  <2>3. q \in Nat /\ pos(c + 1) <= q /\ q <= end(b)
    BY <1>8
  <2>4. k \in (c + 1)..b
    BY <1>2, <1>7, <2>2, <2>3
  <2>5. QED
    BY <2>1, <2>2, <2>4
\* What is no letter of a name is a token of its own.
<1>10. ASSUME NEW q \in p..e, Runnable(s, f, q), s[q] \notin Letters
       PROVE  \E k \in (c + 1)..b : /\ toks[k].kind \in {"word", "punct"} /\ pos(k) = q
                                    /\ (toks[k].kind = "word" <=> IsWord(s[q]))
  <2>1. PICK k \in (c + 1)..b : IsOf(toks[k], s, q)
    BY <1>9, <1>10
  <2>2. toks[k].kind \in {"word", "punct"} /\ pos(k) = q
    BY <1>10, <2>1 DEF IsOf, pos
  <2>3. Fits(toks[k], s, f)
    BY <1>3, <1>4
  <2>4. QED
    BY <2>2, <2>3 DEF Fits, pos
<1>11. ASSUME NEW q \in p..e, Runnable(s, f, q), s[q] \in {"UPDATE", "DELETE", "INTO"} PROVE FALSE
  <2>1. s[q] \notin Letters /\ IsWord(s[q])
    BY <1>11, LettersAreNoKeywords DEF verbs, IsWord, Quotes, Executable, Marks, Puncts
  <2>2. PICK k \in (c + 1)..b : toks[k].kind = "word" /\ pos(k) = q
    BY <1>10, <1>11, <2>1
  <2>3. k - c \in DOMAIN stmt /\ stmt[k - c] = toks[k]
    BY <1>3
  <2>4. IsKeyword(s, stmt[k - c], s[q])
    BY <2>2, <2>3 DEF IsKeyword, pos
  <2>5. \A i \in DOMAIN stmt : ~IsKeyword(s, stmt[i], "UPDATE") /\ ~IsKeyword(s, stmt[i], "DELETE") /\ ~IsKeyword(s, stmt[i], "INTO")
    BY DEF AdmitWords
  <2>6. QED
    BY <1>11, <2>3, <2>4, <2>5
\* A semicolon within it is inside of a parenthesis that it has, too.
<1>12. ASSUME NEW q \in p..e, Runnable(s, f, q), s[q] = ";"
       PROVE  \E r \in p..(q - 1) : Runnable(s, f, r) /\ s[r] = "("
  <2>1. s[q] \notin Letters /\ ~IsWord(s[q])
    BY <1>12, LettersAreWords DEF IsWord, Puncts
  <2>2. PICK k \in (c + 1)..b : toks[k].kind = "punct" /\ pos(k) = q
    BY <1>10, <1>12, <2>1
  <2>3. toks[k].depth # 0
    BY <1>5, <1>12, <2>2 DEF Separates, IsPunct, pos
  <2>4. k \in 1..n
    BY <1>3
  <2>5. PICK j \in 1..(k - 1) : IsPunct(s, toks[j], "(") /\ \A m \in (j + 1)..(k - 1) : toks[m].depth # 0
    BY <1>4, <2>3, <2>4 DEF Open
  <2>6. j \in 1..n /\ j < k
    BY <1>1, <2>4
  <2>7. c + 1 <= j
    <3>1. SUFFICES ASSUME j <= c PROVE FALSE
      BY <1>3, <2>6
    <3>2. c # 0 /\ Separates(s, toks[c])
      BY <1>3, <1>5, <2>6, <3>1
    <3>3. j # c
      BY <2>5, <3>2 DEF IsPunct, Separates
    <3>4. c \in (j + 1)..(k - 1)
      BY <1>3, <2>6, <3>1, <3>3
    <3>5. QED
      BY <2>5, <3>2, <3>4 DEF Separates
  <2>8. pos(c + 1) <= pos(j)
    <3>1. c + 1 < j => pos(c + 1) < pos(j)
      BY <1>2, <1>7, <2>6
    <3>2. c + 1 = j \/ c + 1 < j
      BY <1>1, <1>3, <2>6, <2>7
    <3>3. pos(c + 1) \in Nat /\ pos(j) \in Nat
      BY <1>2, <1>7, <2>6
    <3>4. QED
      BY <3>1, <3>2, <3>3
  <2>9. pos(j) < pos(k)
    BY <1>2, <2>4, <2>6
  <2>10. pos(j) \in p..(q - 1)
    BY <1>2, <1>8, <2>2, <2>6, <2>8, <2>9
  <2>11. Fits(toks[j], s, f)
    BY <1>4, <2>6
  <2>12. Runnable(s, f, pos(j)) /\ s[pos(j)] = "("
    BY <2>5, <2>11 DEF Fits, IsPunct, Runnable, Executable, pos
  <2>13. QED
    BY <2>10, <2>12
<1> DEFINE v == pos(k0)
<1>13. v \in p..e
  <2>1. c + 1 < k0 => pos(c + 1) < pos(k0)
    BY <1>2, <1>7
  <2>2. k0 < b => end(k0) < pos(b)
    BY <1>2, <1>7
  <2>3. (c + 1 = k0 \/ c + 1 < k0) /\ (k0 = b \/ k0 < b)
    BY <1>3
  <2>4. pos(c + 1) <= v
    BY <1>2, <1>7, <2>1, <2>3
  <2>5. v <= end(b)
    BY <1>2, <1>7, <2>2, <2>3
  <2>6. QED
    BY <1>2, <1>7, <1>8, <2>4, <2>5
<1>14. Runnable(s, f, v)
  <2>1. Fits(toks[k0], s, f)
    BY <1>4, <1>7
  <2>2. QED
    BY <1>6, <2>1 DEF Fits, Runnable, Executable, ReadVerbs, pos
<1>15. ASSUME NEW q \in p..(v - 1), Runnable(s, f, q) PROVE s[q] = "("
  <2>1. q \in p..e /\ q \in Nat /\ q < v
    BY <1>2, <1>7, <1>8, <1>13
  <2>2. PICK k \in (c + 1)..b : IsOf(toks[k], s, q) /\ pos(k) <= q
    BY <1>9, <1>15, <2>1
  <2>3. k < k0
    <3>1. k \in 1..n
      BY <1>3
    <3>2. pos(k) < v
      <4>1. pos(k) \in Nat /\ v \in Nat
        BY <1>2, <1>7, <3>1
      <4>2. QED
        BY <2>1, <2>2, <4>1
    <3>3. k0 < k => pos(k0) < pos(k)
      BY <1>2, <1>7, <3>1
    <3>4. pos(k) \in Nat /\ pos(k0) \in Nat
      BY <1>2, <1>7, <3>1
    <3>5. k \in Nat /\ k0 \in Nat /\ ~(pos(k) < v /\ v < pos(k))
      BY <1>3, <3>1, <3>4
    <3>6. ~(k0 < k) /\ k # k0
      BY <3>2, <3>3, <3>4, <3>5
    <3>7. QED
      BY <3>5, <3>6
  <2>4. k \in (c + 1)..(k0 - 1)
    BY <1>3, <2>3
  <2>5. IsPunct(s, toks[k], "(")
    BY <1>6, <2>2, <2>4 DEF IsOf
  <2>6. QED
    BY <2>2, <2>5 DEF IsOf, IsPunct
<1>16. v <= x
  BY DEF pos
<1>17. OneRead(s, f, p, e, x)
  BY <1>6, <1>11, <1>12, <1>13, <1>14, <1>15, <1>16 DEF OneRead
<1>18. QED
  BY <1>17 DEF pos, end

-----------------------------------------------------------------------------
(* What is sent is the statement's text, or that text with a LIMIT in it *)

LEMMA CutIsMade ==
  ASSUME NEW s \in Seq(STRING), NEW p \in 1..Len(s), NEW e \in p..Len(s), NEW a \in 0..(e - p + 1)
  PROVE  /\ Made(SubSeq(s, p, e), s, p, e, a, 0)
         /\ SubSeq(s, p, e) \in Seq(STRING) /\ Len(SubSeq(s, p, e)) = e - p + 1
         /\ \A j \in 1..(e - p + 1) : SubSeq(s, p, e)[j] = s[p - 1 + j]
<1> DEFINE S == STRING
           M == e - p + 1
           t == SubSeq(s, p, e)
<1>1. Len(s) \in Nat /\ p \in Nat \ {0} /\ e \in Nat /\ p <= e /\ e <= Len(s) /\ M \in Nat /\ a \in 0..M
  OBVIOUS
<1>2. \A i \in p..e : s[i] \in S
  <2>1. \A i \in p..e : i \in 1..Len(s)
    BY <1>1
  <2>2. s \in Seq(S)
    OBVIOUS
  <2> HIDE DEF S
  <2>3. QED
    BY <2>1, <2>2, ElementOfSeq
<1> HIDE DEF S
<1>3. /\ t \in Seq(S) /\ Len(t) = IF p <= e THEN e - p + 1 ELSE 0
      /\ \A j \in 1..(e - p + 1) : t[j] = s[p + j - 1]
  BY <1>1, <1>2, SubSeqProperties
<1>4. Len(t) = M
  BY <1>1, <1>3
<1>5. ASSUME NEW j \in 1..M PROVE t[j] = s[p - 1 + j]
  <2>1. p + j - 1 = p - 1 + j
    BY <1>1
  <2>2. t[j] = s[p + j - 1]
    BY <1>3
  <2>3. QED
    BY <2>1, <2>2
<1> HIDE DEF t
<1>6. ASSUME NEW j \in (a + 0 + 1)..(M + 0) PROVE t[j] = s[p - 1 + j - 0]
  <2>1. j \in 1..M /\ p - 1 + j - 0 = p - 1 + j
    BY <1>1
  <2>2. QED
    BY <1>5, <2>1
<1>7. Len(t) = M + 0 /\ (\A j \in 1..a : j \in 1..M) /\ \A j \in (a + 1)..(a + 0) : FALSE
  BY <1>1, <1>4
<1>8. Made(t, s, p, e, a, 0)
  BY <1>1, <1>5, <1>6, <1>7 DEF Made
<1>9. QED
  BY <1>3, <1>4, <1>5, <1>8 DEF t, S

\* t is a sequence with two elements more after its a-th.
IsTwoMore(t, sql, a, added) ==
  /\ Len(t) = Len(sql) + 2
  /\ \A j \in 1..a : t[j] = sql[j]
  /\ \A j \in (a + 1)..(a + 2) : t[j] = added[j - a]
  /\ \A j \in (a + 3)..(Len(sql) + 2) : t[j] = sql[j - 2]

LEMMA FirstOfTwo ==
  ASSUME NEW t, NEW sql, NEW a \in Nat, NEW added, IsTwoMore(t, sql, a, added)
  PROVE  t[a + 1] = added[1]
<1>1. a + 1 \in (a + 1)..(a + 2) /\ a + 1 - a = 1
  OBVIOUS
<1>2. QED
  BY <1>1 DEF IsTwoMore

LEMMA TwoMore ==
  ASSUME NEW S, NEW sql \in Seq(S), NEW a \in 0..Len(sql), NEW added \in Seq(S), Len(added) = 2
  PROVE  IsTwoMore(SubSeq(sql, 1, a) \o added \o SubSeq(sql, a + 1, Len(sql)), sql, a, added)
<1> DEFINE M == Len(sql)
           head == SubSeq(sql, 1, a)
           tail == SubSeq(sql, a + 1, M)
           front == head \o added
           t == front \o tail
<1>1. M \in Nat /\ a \in Nat /\ a <= M /\ \A j \in 1..M : sql[j] \in S
  BY ElementOfSeq
<1>2. (\A j \in 1..a : sql[j] \in S) /\ (\A j \in (a + 1)..M : sql[j] \in S)
  BY <1>1
<1> HIDE DEF M
<1>3. head \in Seq(S) /\ Len(head) = a /\ \A j \in 1..a : head[j] = sql[j]
  <2>1. head = SubSeq(sql, 1, a) /\ 1 \in Int /\ a \in Int
    BY <1>1
  <2> HIDE DEF head
  <2>2. /\ head \in Seq(S) /\ Len(head) = IF 1 <= a THEN a - 1 + 1 ELSE 0
        /\ \A j \in 1..(a - 1 + 1) : head[j] = sql[1 + j - 1]
    BY <1>2, <2>1, SubSeqProperties
  <2>3. Len(head) = a /\ a - 1 + 1 = a
    BY <1>1, <2>2
  <2>4. \A j \in 1..a : 1 + j - 1 = j
    BY <1>1
  <2>5. QED
    BY <2>2, <2>3, <2>4
<1>4. tail \in Seq(S) /\ Len(tail) = M - a /\ \A j \in 1..(M - a) : tail[j] = sql[a + j]
  <2> DEFINE n == M - (a + 1) + 1
  <2>1. tail = SubSeq(sql, a + 1, M) /\ a + 1 \in Int /\ M \in Int
    BY <1>1
  <2> HIDE DEF tail
  <2>2. /\ tail \in Seq(S) /\ Len(tail) = IF a + 1 <= M THEN n ELSE 0
        /\ \A j \in 1..n : tail[j] = sql[a + 1 + j - 1]
    BY <1>2, <2>1, SubSeqProperties
  <2>3. n = M - a
    BY <1>1
  <2>4. Len(tail) = M - a
    BY <1>1, <2>2
  <2>5. \A j \in 1..(M - a) : a + 1 + j - 1 = a + j
    BY <1>1
  <2> HIDE DEF n
  <2>6. QED
    BY <2>2, <2>3, <2>4, <2>5
<1> HIDE DEF head, tail
<1>5. /\ front \in Seq(S) /\ Len(front) = a + 2
      /\ \A i \in 1..(a + 2) : front[i] = IF i <= a THEN head[i] ELSE added[i - a]
  <2>1. front = head \o added
    OBVIOUS
  <2> HIDE DEF front
  <2>2. /\ front \in Seq(S) /\ Len(front) = Len(head) + Len(added)
        /\ \A i \in 1..(Len(head) + Len(added)) : front[i] = IF i <= Len(head) THEN head[i] ELSE added[i - Len(head)]
    BY <1>3, <2>1, ConcatProperties
  <2>3. Len(head) = a /\ Len(added) = 2
    BY <1>3
  <2>4. QED
    BY <2>2, <2>3
<1> HIDE DEF front
<1>6. /\ Len(t) = a + 2 + (M - a)
      /\ \A i \in 1..(a + 2 + (M - a)) : t[i] = IF i <= a + 2 THEN front[i] ELSE tail[i - (a + 2)]
  <2>1. t = front \o tail
    OBVIOUS
  <2> HIDE DEF t
  <2>2. /\ Len(t) = Len(front) + Len(tail)
        /\ \A i \in 1..(Len(front) + Len(tail)) : t[i] = IF i <= Len(front) THEN front[i] ELSE tail[i - Len(front)]
    BY <1>4, <1>5, <2>1, ConcatProperties
  <2>3. Len(front) = a + 2 /\ Len(tail) = M - a
    BY <1>4, <1>5
  <2>4. QED
    BY <2>2, <2>3
<1> HIDE DEF t
<1>7. Len(t) = M + 2 /\ a + 2 + (M - a) = M + 2
  BY <1>1, <1>6
<1>8. ASSUME NEW j \in 1..a PROVE t[j] = sql[j]
  <2>1. j \in 1..(a + 2) /\ j <= a /\ j <= a + 2 /\ j \in 1..(M + 2)
    BY <1>1
  <2>2. QED
    BY <1>3, <1>5, <1>6, <1>7, <2>1
<1>9. ASSUME NEW j \in (a + 1)..(a + 2) PROVE t[j] = added[j - a]
  <2>1. j \in 1..(a + 2) /\ ~(j <= a) /\ j <= a + 2 /\ j \in 1..(M + 2)
    BY <1>1
  <2>2. QED
    BY <1>5, <1>6, <1>7, <2>1
<1>10. ASSUME NEW j \in (a + 3)..(M + 2) PROVE t[j] = sql[j - 2]
  <2> DEFINE i == j - (a + 2)
  <2>1. j \in 1..(M + 2) /\ ~(j <= a + 2) /\ i \in 1..(M - a) /\ a + i = j - 2
    BY <1>1
  <2>2. t[j] = tail[i]
    BY <1>6, <1>7, <2>1
  <2> HIDE DEF i
  <2>3. tail[i] = sql[a + i]
    BY <1>4, <2>1
  <2>4. QED
    BY <2>1, <2>2, <2>3
<1>11. QED
  <2>1. IsTwoMore(t, sql, a, added)
    BY <1>7, <1>8, <1>9, <1>10 DEF IsTwoMore, M
  <2>2. QED
    BY <2>1 DEF t, front, head, tail, M

LEMMA LimitIsMade ==
  ASSUME NEW s \in Seq(STRING), NEW p \in 1..Len(s), NEW e \in p..Len(s), NEW a \in 0..(e - p + 1),
         NEW sql, sql = SubSeq(s, p, e)
  PROVE  Made(SubSeq(sql, 1, a) \o <<"LIMIT", "5">> \o SubSeq(sql, a + 1, Len(sql)), s, p, e, a, 2)
<1> DEFINE M == e - p + 1
           added == <<"LIMIT", "5">>
           S == STRING \cup {"LIMIT", "5"}
           t == SubSeq(sql, 1, a) \o added \o SubSeq(sql, a + 1, Len(sql))
<1>1. sql \in Seq(STRING) /\ Len(sql) = M /\ \A j \in 1..M : sql[j] = s[p - 1 + j]
  BY CutIsMade
<1>2. added \in Seq(S) /\ Len(added) = 2 /\ added[1] = "LIMIT" /\ added[2] = "5"
  OBVIOUS
<1>3. sql \in Seq(S)
  <2> DEFINE T == STRING
  <2>1. sql \in Seq(T) /\ T \subseteq S
    BY <1>1
  <2> HIDE DEF T, S
  <2>2. QED
    BY <2>1
<1>4. /\ Len(s) \in Nat /\ p \in 1..Len(s) /\ e \in p..Len(s) /\ p \in Nat \ {0} /\ e \in Nat /\ M \in Nat
      /\ a \in 0..M /\ a \in Nat /\ a <= M
  OBVIOUS
<1> HIDE DEF M, added, S
<1>5. a \in 0..Len(sql)
  BY <1>1, <1>4
<1>6. /\ Len(t) = Len(sql) + 2
      /\ \A j \in 1..a : t[j] = sql[j]
      /\ \A j \in (a + 1)..(a + 2) : t[j] = added[j - a]
      /\ \A j \in (a + 3)..(Len(sql) + 2) : t[j] = sql[j - 2]
  <2>1. IsTwoMore(t, sql, a, added)
    BY <1>2, <1>3, <1>5, TwoMore
  <2> HIDE DEF t
  <2>2. QED
    BY <2>1 DEF IsTwoMore
<1> HIDE DEF t
<1>7. ASSUME NEW j \in 1..a PROVE t[j] = s[p - 1 + j]
  <2>1. j \in 1..M
    BY <1>4
  <2>2. QED
    BY <1>1, <1>6, <2>1
<1>8. ASSUME NEW j \in (a + 1)..(a + 2) PROVE t[j] \in {"LIMIT", "5"}
  <2>1. j - a = 1 \/ j - a = 2
    BY <1>4
  <2>2. QED
    BY <1>2, <1>6, <2>1
<1>9. ASSUME NEW j \in (a + 2 + 1)..(M + 2) PROVE t[j] = s[p - 1 + j - 2]
  <2>1. j \in (a + 3)..(M + 2) /\ j - 2 \in 1..M /\ p - 1 + (j - 2) = p - 1 + j - 2
    BY <1>4
  <2>2. t[j] = sql[j - 2] /\ sql[j - 2] = s[p - 1 + (j - 2)]
    BY <1>1, <1>6, <2>1
  <2>3. QED
    BY <2>1, <2>2
<1>10. Len(t) = M + 2
  BY <1>1, <1>6
<1>11. Made(t, s, p, e, a, 2)
  BY <1>4, <1>7, <1>8, <1>9, <1>10 DEF Made, M
<1>12. QED
  BY <1>11 DEF t, added

LEMMA MaxOfPart ==
  ASSUME NEW n \in Nat, NEW S \in SUBSET (0..n), S # {}
  PROVE  Max(S) \in S /\ \A i \in S : i <= Max(S)
<1> DEFINE D == {d \in 0..n : n - d \in S}
<1>1. D # {} /\ D \in SUBSET (0..n)
  <2>1. PICK i \in S : TRUE
    OBVIOUS
  <2>2. n - i \in 0..n /\ n - (n - i) = i
    OBVIOUS
  <2>3. QED
    BY <2>2
<1>2. PICK d \in D : \A x \in D : d <= x
  <2> HIDE DEF D
  <2>1. QED
    BY <1>1, PartIsFinite, Least
<1>3. n - d \in S /\ d \in 0..n
  OBVIOUS
<1>4. ASSUME NEW i \in S PROVE i <= n - d
  <2>1. n - i \in 0..n /\ n - (n - i) = i
    OBVIOUS
  <2>2. n - i \in D
    BY <2>1
  <2>3. d <= n - i
    BY <1>2, <2>2
  <2>4. QED
    BY <1>3, <2>1, <2>3
<1>5. \E x \in S : \A y \in S : x >= y
  <2>1. \A y \in S : n - d >= y
    <3>1. \A y \in S : y \in Int
      OBVIOUS
    <3>2. QED
      BY <1>3, <1>4, <3>1
  <2>2. QED
    BY <1>3, <2>1
<1>6. Max(S) \in S /\ \A y \in S : Max(S) >= y
  BY <1>5 DEF Max
<1>7. \A y \in S : y \in Int
  OBVIOUS
<1>8. QED
  BY <1>6, <1>7

-----------------------------------------------------------------------------
(* Where the LIMIT goes is after the verb and in code *)

LEMMA LimitIsAfterTheVerb ==
  ASSUME NEW s \in Seq(STRING), NEW f, NEW toks \in Seq(TokenRecords), InOrder(toks), Until(toks, Len(s)),
         WellRead(toks, s, f), NEW stmt, NEW c, NEW b, IsPart(stmt, s, toks, c, b),
         NEW k0 \in (c + 1)..b, LeadsPart(s, toks, c, k0)
  PROVE  LET x == LimitInsertionPoint(s, stmt)
         IN x \in Nat /\ toks[k0].pos <= x /\ x <= toks[b].end /\ AtEnd(f, s, x)
<1> DEFINE n == Len(toks)
           pos(k) == toks[k].pos
           end(k) == toks[k].end
           locking == {i \in DOMAIN stmt : stmt[i].depth = 0 /\ \E w \in {"FOR", "LOCK"} : IsKeyword(s, stmt[i], w)}
           code == {i \in DOMAIN stmt : stmt[i].kind # "comment"}
           x == LimitInsertionPoint(s, stmt)
<1>1. Len(s) \in Nat /\ n \in Nat
  OBVIOUS
<1>2. /\ \A k \in 1..n : pos(k) \in Nat \ {0} /\ end(k) \in Nat /\ pos(k) <= end(k) /\ end(k) <= Len(s)
      /\ \A j, k \in 1..n : j < k => end(j) < pos(k) /\ pos(j) < pos(k)
  BY <1>1, Positions
<1>3. /\ \A k \in (c + 1)..b : k \in 1..n /\ k - c \in DOMAIN stmt /\ stmt[k - c] = toks[k]
      /\ \A i \in DOMAIN stmt : c + i \in (c + 1)..b /\ stmt[i] = toks[c + i]
      /\ c \in Nat /\ b \in Nat
  <2>1. Between(stmt, toks, c, b)
    BY InThePart
  <2>2. QED
    BY <2>1 DEF Between
<1>4. DOMAIN stmt = 1..(b - c) /\ b - c \in Nat /\ b \in (c + 1)..n
  BY <1>1 DEF IsPart
<1>5. \A k \in 1..n : Fits(toks[k], s, f)
  BY DEF WellRead
<1>6. /\ toks[k0].kind = "word" /\ s[pos(k0)] \in ReadVerbs
      /\ \A j \in (c + 1)..(k0 - 1) : toks[j].kind = "comment" \/ IsPunct(s, toks[j], "(")
  BY DEF LeadsPart
<1>7. x = IF locking # {} THEN stmt[Min(locking)].pos - 1 ELSE stmt[Max(code)].end
  BY DEF LimitInsertionPoint
<1>8. locking \in SUBSET (0..(b - c)) /\ code \in SUBSET (0..(b - c))
  BY <1>4
<1>9. k0 - c \in code
  BY <1>3, <1>6
<1>10. /\ \A i \in locking : i \in DOMAIN stmt /\ \E w \in {"FOR", "LOCK"} : IsKeyword(s, stmt[i], w)
       /\ \A i \in code : i \in DOMAIN stmt /\ stmt[i].kind # "comment"
  OBVIOUS
<1> HIDE DEF n, pos, end, locking, code, x
<1>11. k0 \in 1..n /\ b \in 1..n
  BY <1>3, <1>4, <1>1
\* The end of a token of the statement.
<1>12. ASSUME NEW k \in (c + 1)..b PROVE end(k) <= end(b) /\ pos(k) <= end(b) /\ k \in 1..n
  <2>1. k \in 1..n /\ (k = b \/ k < b)
    BY <1>3
  <2>2. k < b => end(k) < pos(b)
    BY <1>2, <1>11, <2>1
  <2>3. /\ pos(k) \in Nat /\ end(k) \in Nat /\ pos(k) <= end(k)
        /\ pos(b) \in Nat /\ end(b) \in Nat /\ pos(b) <= end(b)
    BY <1>2, <1>11, <2>1
  <2>4. QED
    BY <2>1, <2>2, <2>3
<1>13. CASE locking # {}
  <2> DEFINE l == Min(locking)
             k == c + l
  <2>1. l \in locking
    BY <1>4, <1>8, <1>13, MinOfPart
  <2> HIDE DEF l
  <2>2. PICK w \in {"FOR", "LOCK"} : IsKeyword(s, stmt[l], w)
    BY <1>10, <2>1
  <2>3. k \in (c + 1)..b /\ stmt[l] = toks[k]
    BY <1>3, <1>10, <2>1
  <2>4. toks[k].kind = "word" /\ s[pos(k)] = w
    BY <2>2, <2>3 DEF IsKeyword, pos
  <2>5. k # k0
    BY <1>6, <2>4 DEF ReadVerbs
  <2>6. k0 < k
    <3>1. k \notin (c + 1)..(k0 - 1)
      BY <1>6, <2>4 DEF IsPunct
    <3> HIDE DEF k
    <3>2. QED
      BY <1>3, <2>3, <2>5, <3>1
  <2>7. x = pos(k) - 1
    BY <1>7, <1>13, <2>3 DEF pos, l
  <2> HIDE DEF k
  <2>8. k \in 1..n /\ pos(k) <= end(b)
    BY <1>12, <2>3
  <2>9. pos(k0) < pos(k)
    BY <1>2, <1>11, <2>6, <2>8
  <2>10. pos(k) \in Nat \ {0} /\ pos(k0) \in Nat /\ end(b) \in Nat
    BY <1>2, <1>11, <2>8
  <2>11. x \in Nat /\ pos(k0) <= x /\ x <= end(b)
    BY <2>7, <2>8, <2>9, <2>10
  <2>12. AtEnd(f, s, x)
    <3>1. f[pos(k) - 1].in \in Codes
      BY <1>5, <2>8 DEF Fits, pos
    <3>2. QED
      BY <2>7, <3>1 DEF AtEnd
  <2>13. QED
    BY <2>11, <2>12 DEF pos, end, x
<1>14. CASE locking = {}
  <2> DEFINE l == Max(code)
             k == c + l
  <2>1. l \in code /\ \A i \in code : i <= l
    BY <1>4, <1>8, <1>9, MaxOfPart
  <2> HIDE DEF l
  <2>2. k \in (c + 1)..b /\ stmt[l] = toks[k] /\ toks[k].kind # "comment" /\ l \in 1..(b - c)
    BY <1>3, <1>4, <1>10, <2>1
  <2>3. k0 <= k
    <3>1. k0 - c <= l
      BY <1>9, <2>1
    <3>2. k = c + l /\ k0 \in Nat /\ c \in Nat /\ l \in Nat
      BY <1>3, <1>4, <2>2
    <3> HIDE DEF k
    <3>3. QED
      BY <3>1, <3>2
  <2>4. x = end(k)
    BY <1>7, <1>14, <2>2 DEF end, l
  <2> HIDE DEF k
  <2>5. k \in 1..n /\ end(k) <= end(b)
    BY <1>12, <2>2
  <2>6. k0 < k => pos(k0) < pos(k)
    BY <1>2, <1>11, <2>5
  <2>7. pos(k) \in Nat /\ end(k) \in Nat /\ pos(k0) \in Nat /\ pos(k) <= end(k) /\ (k0 = k \/ k0 < k)
    BY <1>2, <1>3, <1>11, <2>2, <2>3, <2>5
  <2>8. x \in Nat /\ pos(k0) <= x /\ x <= end(b)
    BY <2>4, <2>5, <2>6, <2>7
  <2>9. AtEnd(f, s, x)
    BY <1>5, <2>2, <2>4, <2>5 DEF Fits, end
  <2>10. QED
    BY <2>8, <2>9 DEF pos, end, x
<1>15. QED
  BY <1>13, <1>14

-----------------------------------------------------------------------------
(* What is let through is a read *)

LEMMA SentIsRead ==
  ASSUME NEW s \in Seq(STRING), Admit(s), ~TheyPart(s, Lexed(s))
  PROVE  ServerReads(Sent(s, Split(s)[1]))
<1> DEFINE toks == Tokenize(s)
           stmt == Split(s)[1]
<1>1. Len(s) \in Nat /\ Len(Split(s)) = 1 /\ AdmitKind(s, stmt) /\ AdmitWords(s, stmt)
  BY DEF Admit, AdmitOnly
<1>2. PICK f : IsRun(f, s) /\ Lex(s) = f[Len(s)] /\ ~TheyPart(s, f)
  BY <1>1, LexedIsARun DEF Lex
<1>3. toks \in Seq(TokenRecords) /\ InOrder(toks) /\ Until(toks, Len(s))
  BY <1>1, TokensAreInOrder
<1>4. WellRead(toks, s, f)
  BY <1>1, <1>2, TokensAreWellRead
<1>5. PICK c \in Cuts(s, toks) : ~IsEmpty(After(s, toks, c)) /\ stmt = After(s, toks, c)
  BY <1>1, ItsCut
<1> HIDE DEF toks, stmt
<1>6. PICK b : IsPart(stmt, s, toks, c, b)
  BY <1>3, <1>5, AfterIsPart
<1>7. PICK k0 \in (c + 1)..b : LeadsPart(s, toks, c, k0)
  BY <1>1, <1>3, <1>6, ItsVerb
<1> DEFINE p == toks[c + 1].pos
           e == toks[b].end
           v == toks[k0].pos
           sql == SubSeq(s, p, e)
<1>8. CutOf(s, stmt) = sql
  BY <1>6 DEF IsPart
<1>9. Between(stmt, toks, c, b)
  BY <1>3, <1>6, InThePart
<1>10. c + 1 \in 1..Len(toks) /\ b \in 1..Len(toks) /\ k0 \in 1..Len(toks) /\ c \in Nat /\ b \in Nat
  BY <1>9 DEF Between
<1>11. p \in Nat \ {0} /\ e \in Nat /\ v \in Nat /\ p <= v /\ v <= e /\ e <= Len(s)
  <2>1. /\ \A k \in 1..Len(toks) : /\ toks[k].pos \in Nat \ {0} /\ toks[k].end \in Nat
                                   /\ toks[k].pos <= toks[k].end /\ toks[k].end <= Len(s)
        /\ \A j, k \in 1..Len(toks) : j < k => toks[j].end < toks[k].pos /\ toks[j].pos < toks[k].pos
    BY <1>1, <1>3, Positions
  <2>2. c + 1 < k0 => toks[c + 1].pos < toks[k0].pos
    BY <1>10, <2>1
  <2>3. k0 < b => toks[k0].end < toks[b].pos
    BY <1>10, <2>1
  <2>4. (c + 1 = k0 \/ c + 1 < k0) /\ (k0 = b \/ k0 < b)
    BY <1>10
  <2> DEFINE T == toks[k0]
             B == toks[b]
  <2>5. /\ p \in Nat \ {0} /\ v \in Nat /\ T.end \in Nat /\ v <= T.end /\ B.pos \in Nat /\ e \in Nat /\ B.pos <= e
        /\ e <= Len(s)
    BY <1>10, <2>1
  <2>6. (p = v \/ p < v) /\ (T.end = e \/ T.end < B.pos)
    BY <2>2, <2>3, <2>4
  <2> HIDE DEF p, e, v, T, B
  <2>7. QED
    BY <1>1, <2>5, <2>6
<1>12. Together(s, f)
  BY <1>2, AllTogether
<1>13. f[p - 1].in \in Codes /\ AtEnd(f, s, v)
  <2>1. Fits(toks[c + 1], s, f) /\ Fits(toks[k0], s, f)
    BY <1>4, <1>10 DEF WellRead
  <2>2. toks[k0].kind = "word"
    BY <1>7 DEF LeadsPart
  <2>3. QED
    BY <2>1, <2>2 DEF Fits, AtEnd
\* What runs of it is a read, with the LIMIT anywhere after the verb.
<1>14. \A x : v <= x => OneRead(s, f, p, e, x)
  BY <1>1, <1>3, <1>4, <1>6, <1>7, PartIsOneRead
<1>15. p \in 1..Len(s) /\ e \in p..Len(s)
  BY <1>1, <1>11
<1> HIDE DEF p, e, v
<1>16. ServerReads(sql)
  <2> DEFINE a == v - p + 1
  <2>1. a \in 0..(e - p + 1) /\ p - 1 + a = v
    BY <1>11
  <2>2. Made(sql, s, p, e, a, 0)
    BY <1>15, <2>1, CutIsMade
  <2>3. v <= v
    BY <1>11
  <2>4. AtEnd(f, s, p - 1 + a) /\ OneRead(s, f, p, e, p - 1 + a)
    BY <1>13, <1>14, <2>1, <2>3
  <2> HIDE DEF a, sql
  <2>5. QED
    BY <1>1, <1>12, <1>13, <2>2, <2>4, MadeIsARead
<1> DEFINE x == LimitInsertionPoint(s, stmt)
           a == x - (p - 1)
           longer == SubSeq(sql, 1, a) \o <<"LIMIT", "5">> \o SubSeq(sql, a + 1, Len(sql))
<1>17. ServerReads(longer)
  <2>1. x \in Nat /\ v <= x /\ x <= e /\ AtEnd(f, s, x)
    BY <1>3, <1>4, <1>6, <1>7, LimitIsAfterTheVerb DEF v, e
  <2> HIDE DEF x
  <2>2. a \in 0..(e - p + 1) /\ p - 1 + a = x
    BY <1>11, <2>1
  <2> HIDE DEF a
  <2>3. Made(longer, s, p, e, a, 2)
    BY <1>15, <2>2, LimitIsMade
  <2>4. AtEnd(f, s, p - 1 + a) /\ OneRead(s, f, p, e, p - 1 + a)
    BY <1>14, <2>1, <2>2
  <2> HIDE DEF longer
  <2>5. QED
    BY <1>1, <1>12, <1>13, <2>3, <2>4, MadeIsARead
<1>18. AppendLimit(s, stmt) \in {sql, longer}
  <2>1. stmt[1].pos = p
    <3>1. stmt[1] = toks[c + 1]
      BY <1>3, <1>5, EndsOfAfter
    <3>2. QED
      BY <3>1 DEF p
  <2> HIDE DEF sql
  <2>2. QED
    BY <1>8, <2>1 DEF AppendLimit
<1> HIDE DEF sql, longer
<1>19. Sent(s, stmt) \in {sql, longer}
  BY <1>8, <1>18 DEF Sent
<1>20. QED
  BY <1>16, <1>17, <1>19 DEF stmt

(* What dv query lets through and sends, with or without the LIMIT it adds,  *)
(* is one read for the server, by its own rules, whatever the text the two   *)
(* lexers do not part in: apart from the two ways they part (a -- with no    *)
(* space after it, a /*M! or versioned comment), no comment, literal or      *)
(* second statement hides a write from the client, and the LIMIT opens no    *)
(* way for one (headless.Admit, sqlparse.AppendLimit).                       *)
THEOREM AdmittedRunsARead == ScriptSpec => []AdmittedIsARead
<1>1. script \in Seq(STRING) => AdmittedIsARead
  BY SentIsRead DEF AdmittedIsARead
<1>2. QED
  BY <1>1, ScriptsAreTexts, PTL

-----------------------------------------------------------------------------
(* Where the tokens of a text begin and end.                                 *)

\* A place in code where the lexer is not in the middle of a word.
BetweenTokens(s, f, a) ==
  /\ f[a].in \in Codes /\ f[a].depth = 0
  /\ f[a].in = "word" /\ a < Len(s) => s[a + 1] \notin Letters \/ a + 1 = f[a].ends

BrokenOne(st, i, here) == Token(KindOf(st.in), st.from, LastOf(st.in, i, here), st.depth)
ToldOne(st, c, i) == Token(IF IsWord(c) THEN "word" ELSE "punct", i, i, Level(c, st.depth))
\* The tokens after one lexeme more are those there were, and at most two.
AddsTo(e, st, c, i, here, twice) ==
  /\ \A k \in 1..Len(st.toks) : k \in 1..Len(e) /\ e[k] = st.toks[k]
  /\ \A k \in 1..Len(e) : \/ k \in 1..Len(st.toks) /\ e[k] = st.toks[k]
                          \/ Breaks(st.in, c, here, twice) /\ e[k] = BrokenOne(st, i, here)
                          \/ Tells(st.in, c, here) /\ e[k] = ToldOne(st, c, i)
  /\ Tells(st.in, c, here) => \E k \in 1..Len(e) : e[k] = ToldOne(st, c, i)

LEMMA ToldAddsTo ==
  ASSUME NEW i \in Nat \ {0}, NEW st, LexInv(st, i - 1), NEW c, NEW here, NEW twice
  PROVE  AddsTo(Told(Broken(st, c, i, here, twice), st, c, i, here), st, c, i, here, twice)
<1> DEFINE b == Broken(st, c, i, here, twice)
           e == Told(b, st, c, i, here)
           n == Len(st.toks)
           one == BrokenOne(st, i, here)
           two == ToldOne(st, c, i)
<1>1. /\ st.toks \in Seq(TokenRecords) /\ n \in Nat /\ st.in \in {"code"} \cup Insides /\ st.depth \in Nat
      /\ st.in # "code" => st.from \in 1..(i - 1)
  BY InvIs
<1>2. /\ b \in Seq(TokenRecords) /\ Len(b) \in Nat
      /\ \A k \in 1..n : k \in 1..Len(b) /\ b[k] = st.toks[k]
      /\ \A k \in 1..Len(b) : k \in 1..n \/ (Breaks(st.in, c, here, twice) /\ b[k] = one)
  <2>1. CASE Breaks(st.in, c, here, twice)
    <3>1. st.in # "code" /\ LastOf(st.in, i, here) \in Nat
      BY <2>1 DEF Breaks, Openers, Quotes, LineComments, BlockComments, LastOf, Executable
    <3>2. one \in TokenRecords
      <4>1. KindOf(st.in) \in Kinds /\ st.from \in Nat
        BY <1>1, <3>1, KindOfIsOne
      <4>2. QED
        BY <1>1, <3>1, <4>1 DEF BrokenOne, Token, TokenRecords
    <3>3. b = Append(st.toks, one)
      BY <2>1 DEF Broken, BrokenOne
    <3> HIDE DEF one, b
    <3>4. b \in Seq(TokenRecords)
      BY <1>1, <3>2, <3>3
    <3>5. QED
      BY <1>1, <2>1, <3>3, <3>4, Appended
  <2>2. CASE ~Breaks(st.in, c, here, twice)
    <3>1. b = st.toks
      BY <2>2 DEF Broken
    <3>2. QED
      BY <1>1, <3>1
  <2>3. QED
    BY <2>1, <2>2
<1> HIDE DEF b, one, two, n
<1>3. CASE Tells(st.in, c, here)
  <2>1. e = Append(b, two)
    BY <1>3 DEF Told, ToldOne, two
  <2> HIDE DEF e
  <2>2. /\ Len(e) = Len(b) + 1 /\ e[Len(b) + 1] = two /\ \A k \in 1..Len(b) : e[k] = b[k]
        /\ \A k \in 1..Len(e) : k = Len(b) + 1 \/ k \in 1..Len(b)
    BY <1>2, <2>1, Appended
  <2>3. Len(b) + 1 \in 1..Len(e) /\ \A k \in 1..Len(b) : k \in 1..Len(e)
    BY <1>2, <2>2
  <2>4. AddsTo(e, st, c, i, here, twice)
    BY <1>2, <1>3, <2>2, <2>3 DEF AddsTo, one, two, n
  <2>5. QED
    BY <2>4 DEF e, b
<1>4. CASE ~Tells(st.in, c, here)
  <2>1. e = b
    BY <1>4 DEF Told
  <2> HIDE DEF e
  <2>2. AddsTo(e, st, c, i, here, twice)
    BY <1>2, <1>4, <2>1 DEF AddsTo, one, n
  <2>3. QED
    BY <2>2 DEF e, b
<1>5. QED
  BY <1>3, <1>4

\* Where a token begins is in code; what it begins and what it ends with.
Placed(tk, s, f) ==
  /\ f[tk.pos - 1].in \in Codes
  /\ tk.kind = "word" => f[tk.pos - 1].depth = tk.depth
  /\ tk.kind \in {"word", "punct"} => f[tk.end].in \in Codes
  /\ f[tk.end].in = "word" /\ tk.end < Len(s) => s[tk.end + 1] \notin Letters \/ tk.end + 1 = f[tk.end].ends
ReadInv(st, s, f) ==
  /\ \A k \in 1..Len(st.toks) : Placed(st.toks[k], s, f)
  /\ st.in # "code" => f[st.from - 1].in \in Codes
  /\ st.in = "word" => f[st.from - 1].depth = st.depth

\* The depth is that of a place before, unless a parenthesis came since.
DepthInv(st, a, depth) ==
  st.depth = depth \/ \E k \in 1..Len(st.toks) : st.toks[k].kind = "punct" /\ st.toks[k].pos > a

LEMMA StepPlaces ==
  ASSUME NEW s, Len(s) \in Nat, NEW f, IsRun(f, s), NEW i \in 1..Len(s), ReadInv(f[i - 1], s, f)
  PROVE  /\ ReadInv(f[i], s, f)
         /\ \A a \in 0..(i - 1), depth \in Nat : DepthInv(f[i - 1], a, depth) => DepthInv(f[i], a, depth)
<1> DEFINE st == f[i - 1]
           c == s[i]
           here == i = st.ends
           twice == Twice(st, s, i)
           close == FirstClose(s, i)
           e == Told(Broken(st, c, i, here, twice), st, c, i, here)
           one == BrokenOne(st, i, here)
           two == ToldOne(st, c, i)
           new == f[i]
<1>1. i \in Nat \ {0} /\ i \in 0..Len(s) /\ i - 1 \in Nat /\ i - 1 + 1 = i /\ i # 0 /\ LexInv(st, i - 1)
  BY RunMoves
<1>2. /\ st.in \in {"code"} \cup Insides /\ st.depth \in Nat /\ st.toks \in Seq(TokenRecords)
      /\ st.in # "code" => st.from \in 1..(i - 1)
  BY <1>1, InvIs
<1>3. new = Stepped(st, c, i, here, twice, close)
  <2>1. new = LexStep(st, s, i)
    BY <1>1 DEF IsRun
  <2>2. QED
    BY <1>1, <2>1, InvIs, StepIs
<1>4. /\ new.in = InAfter(st.in, c, here, twice)
      /\ new.from = (IF Begins(st.in, c, here) THEN i ELSE st.from)
      /\ new.depth = (IF ~here /\ st.in \in Codes THEN Deeper(c, st.depth) ELSE st.depth)
      /\ new.toks = e
  BY <1>3 DEF Stepped, State
<1>5. AddsTo(e, st, c, i, here, twice)
  BY <1>1, ToldAddsTo
<1>6. /\ \A k \in 1..Len(st.toks) : Placed(st.toks[k], s, f)
      /\ st.in # "code" => f[st.from - 1].in \in Codes
      /\ st.in = "word" => f[st.from - 1].depth = st.depth
  BY DEF ReadInv
<1>7. s[i] = c /\ f[i - 1] = st /\ f[i] = new /\ (here <=> i = st.ends)
  OBVIOUS
<1>8. c \in Letters => c \notin {"(", ")"} /\ c \notin Openers
  BY LettersAreWords DEF IsWord, Openers, Quotes, Puncts, Executable, Marks, LineComments, BlockComments
<1> HIDE DEF st, c, here, twice, close, e, new, one, two
<1>9. Breaks(st.in, c, here, twice) => Placed(one, s, f)
  <2> SUFFICES ASSUME Breaks(st.in, c, here, twice) PROVE Placed(one, s, f)
    OBVIOUS
  <2> DEFINE last == LastOf(st.in, i, here)
  <2>1. st.in # "code" /\ (last = i \/ last = i - 1)
    BY DEF Breaks, LastOf, Openers, Quotes, LineComments, BlockComments, Executable
  <2>2. one.kind = KindOf(st.in) /\ one.pos = st.from /\ one.end = last /\ one.depth = st.depth
    BY DEF one, BrokenOne, Token
  <2>3. KindOf(st.in) # "punct" /\ (KindOf(st.in) = "word" => st.in = "word")
    BY DEF KindOf
  <2>4. st.in = "word" => last = i - 1
    BY DEF LastOf, Quotes, BlockComments
  <2>5. last = i => new.in = "code"
    <3>1. last = i => ~here /\ st.in \notin Codes
      BY <1>1 DEF LastOf, Codes, Quotes, BlockComments
    <3>2. QED
      BY <1>4, <3>1 DEF InAfter
  <2>6. st.in = "word" => c \notin Letters \/ here
    BY DEF Breaks, Openers, Quotes, LineComments, BlockComments, Executable
  <2> HIDE DEF last
  <2>7. f[one.pos - 1].in \in Codes
    BY <1>6, <2>1, <2>2
  <2>8. one.kind = "word" => f[one.pos - 1].depth = one.depth
    BY <1>6, <2>2, <2>3
  <2>9. one.kind \in {"word", "punct"} => f[one.end].in \in Codes
    BY <1>7, <2>2, <2>3, <2>4 DEF Codes
  <2>10. f[one.end].in = "word" => s[one.end + 1] \notin Letters \/ one.end + 1 = f[one.end].ends
    <3>1. CASE last = i
      BY <1>7, <2>2, <2>5, <3>1
    <3>2. CASE last = i - 1
      BY <1>1, <1>7, <2>2, <2>6, <3>2
    <3>3. QED
      BY <2>1, <3>1, <3>2
  <2>11. QED
    BY <2>7, <2>8, <2>9, <2>10 DEF Placed
<1>10. Tells(st.in, c, here) => Placed(two, s, f)
  <2> SUFFICES ASSUME Tells(st.in, c, here) PROVE Placed(two, s, f)
    OBVIOUS
  <2>1. st.in \in Codes /\ new.in = "code"
    BY <1>4 DEF Tells, InAfter
  <2>2. two.pos = i /\ two.end = i /\ two.depth = Level(c, st.depth) /\ (two.kind = "word" => IsWord(c))
    BY DEF two, ToldOne, Token
  <2>3. IsWord(c) => Level(c, st.depth) = st.depth
    BY DEF IsWord, Level, Puncts
  <2>4. QED
    BY <1>7, <2>1, <2>2, <2>3 DEF Placed, Codes
<1>11. ReadInv(new, s, f)
  <2>1. \A k \in 1..Len(new.toks) : Placed(new.toks[k], s, f)
    BY <1>4, <1>5, <1>6, <1>9, <1>10 DEF AddsTo, one, two
  <2>2. new.in # "code" => f[new.from - 1].in \in Codes
    <3>1. CASE Begins(st.in, c, here)
      BY <1>4, <1>7, <3>1 DEF Begins
    <3>2. CASE ~Begins(st.in, c, here)
      <4>1. new.in # "code" => st.in # "code"
        BY <1>4, <3>2 DEF InAfter, Begins, Codes
      <4>2. QED
        BY <1>4, <1>6, <3>2, <4>1
    <3>3. QED
      BY <3>1, <3>2
  <2>3. new.in = "word" => f[new.from - 1].depth = new.depth
    <3> SUFFICES ASSUME new.in = "word" PROVE f[new.from - 1].depth = new.depth
      OBVIOUS
    <3>1. ~here
      BY <1>4 DEF InAfter
    <3>2. st.in \in Codes
      BY <1>2, <1>4, <3>1 DEF InAfter, StaysIn, Codes
    <3>3. c \in Letters
      BY <1>4, <3>1, <3>2 DEF InAfter, Openers, Quotes, LineComments, BlockComments, Executable
    <3>4. new.depth = st.depth
      BY <1>4, <1>8, <3>3 DEF Deeper
    <3>5. CASE st.in = "code"
      BY <1>4, <1>7, <3>1, <3>2, <3>3, <3>4, <3>5 DEF Begins
    <3>6. CASE st.in = "word"
      BY <1>4, <1>6, <1>8, <3>3, <3>4, <3>6 DEF Begins
    <3>7. QED
      BY <3>2, <3>5, <3>6 DEF Codes
  <2>4. QED
    BY <2>1, <2>2, <2>3 DEF ReadInv
<1>12. ASSUME NEW a \in 0..(i - 1), NEW depth \in Nat, DepthInv(st, a, depth) PROVE DepthInv(new, a, depth)
  <2>1. CASE \E k \in 1..Len(st.toks) : st.toks[k].kind = "punct" /\ st.toks[k].pos > a
    BY <1>4, <1>5, <2>1 DEF AddsTo, DepthInv
  <2>2. CASE st.depth = depth /\ new.depth = st.depth
    BY <2>2 DEF DepthInv
  <2>3. CASE new.depth # st.depth
    <3>1. ~here /\ st.in \in Codes /\ c \in {"(", ")"}
      BY <1>4, <2>3 DEF Deeper
    <3>2. Tells(st.in, c, here) /\ ~IsWord(c)
      BY <1>8, <3>1 DEF Tells, IsWord, Puncts, Openers, Quotes, LineComments, BlockComments, Executable
    <3>3. two.kind = "punct" /\ two.pos = i /\ i > a
      BY <1>1, <3>2 DEF two, ToldOne, Token
    <3>4. QED
      BY <1>4, <1>5, <3>2, <3>3 DEF AddsTo, DepthInv, two
  <2>4. QED
    BY <1>12, <2>1, <2>2, <2>3 DEF DepthInv
<1>13. QED
  BY <1>11, <1>12 DEF new, st

LEMMA RunPlaces ==
  ASSUME NEW s, Len(s) \in Nat, NEW f, IsRun(f, s)
  PROVE  \A i \in 0..Len(s) : ReadInv(f[i], s, f)
<1> DEFINE N == Len(s)
           P == {i \in 0..N : ReadInv(f[i], s, f)}
<1>1. N \in Nat
  OBVIOUS
<1>2. 0 \in P
  <2>1. f[0] = Began /\ Began.in = "code" /\ Len(Began.toks) = 0
    BY <1>1 DEF IsRun, Began
  <2>2. ReadInv(Began, s, f)
    BY <2>1 DEF ReadInv
  <2>3. QED
    BY <1>1, <2>1, <2>2
<1>3. ASSUME NEW m \in 1..N, m - 1 \in P PROVE m \in P
  <2>1. ReadInv(f[m], s, f)
    BY <1>3, StepPlaces
  <2>2. QED
    BY <1>1, <2>1
<1>4. P \in SUBSET (0..N)
  OBVIOUS
<1> HIDE DEF P
<1>5. \A m \in 0..N : m \in P
  BY <1>1, <1>2, <1>3, <1>4, Upwards
<1>6. QED
  BY <1>5 DEF P

LEMMA DepthsHold ==
  ASSUME NEW s, Len(s) \in Nat, NEW f, IsRun(f, s), NEW a \in 0..Len(s)
  PROVE  \A i \in a..Len(s) : DepthInv(f[i], a, f[a].depth)
<1> DEFINE N == Len(s)
           d == f[a].depth
           P == {i \in 0..N : i >= a => DepthInv(f[i], a, d)}
<1>1. N \in Nat /\ a \in 0..N /\ d \in Nat /\ DepthInv(f[a], a, d)
  <2>1. LexInv(f[a], a)
    BY RunKeeps
  <2>2. QED
    BY <2>1, InvIs DEF DepthInv
<1> HIDE DEF d
<1>2. 0 \in P
  BY <1>1
<1>3. ASSUME NEW m \in 1..N, m - 1 \in P PROVE m \in P
  <2>1. CASE m <= a
    <3>1. m >= a => m = a
      BY <1>1, <2>1
    <3>2. QED
      BY <1>1, <3>1
  <2>2. CASE ~(m <= a)
    <3>1. a \in 0..(m - 1) /\ m - 1 >= a
      BY <1>1, <2>2
    <3>2. DepthInv(f[m - 1], a, d)
      BY <1>3, <3>1
    <3>3. ReadInv(f[m - 1], s, f)
      BY <1>1, RunPlaces
    <3>4. DepthInv(f[m], a, d)
      BY <1>1, <3>1, <3>2, <3>3, StepPlaces
    <3>5. QED
      BY <1>1, <3>4
  <2>3. QED
    BY <2>1, <2>2
<1>4. P \in SUBSET (0..N)
  OBVIOUS
<1> HIDE DEF P
<1>5. \A m \in 0..N : m \in P
  BY <1>1, <1>2, <1>3, <1>4, Upwards
<1>6. ASSUME NEW i \in a..N PROVE DepthInv(f[i], a, d)
  <2>1. i \in 0..N /\ i >= a
    BY <1>1
  <2>2. QED
    BY <1>5, <2>1 DEF P
<1>7. QED
  BY <1>6 DEF d

\* The tokens of a text are those the run has at its end, and what it is then
\* still inside of.
LEMMA TokensArePlaced ==
  ASSUME NEW s, Len(s) \in Nat, NEW f, IsRun(f, s), Lex(s) = f[Len(s)]
  PROVE  /\ \A k \in 1..Len(Tokenize(s)) : Placed(Tokenize(s)[k], s, f)
         /\ \A k \in 1..Len(f[Len(s)].toks) : k \in 1..Len(Tokenize(s)) /\ Tokenize(s)[k] = f[Len(s)].toks[k]
<1> DEFINE N == Len(s)
           st == f[N]
           toks == Tokenize(s)
<1>1. N \in Nat /\ N \in 0..N /\ st = f[N] /\ Lex(s) = st
  OBVIOUS
<1>2. ReadInv(st, s, f) /\ LexInv(st, N)
  BY <1>1, RunPlaces, RunKeeps
<1> HIDE DEF st
<1>3. CASE st.in = "code"
  <2>1. toks = st.toks
    BY <1>1, <1>3 DEF Tokenize, AtTheEndOf
  <2>2. QED
    BY <1>2, <2>1 DEF ReadInv, st
<1>4. CASE st.in # "code"
  <2> DEFINE kind == KindOf(st.in)
             tk == Token(kind, st.from, N, st.depth)
  <2>1. IsState(st) /\ st.toks \in Seq(TokenRecords)
    BY <1>2, InvIs
  <2>2. toks = Append(st.toks, tk)
    <3>1. Emit(st, kind, st.from, N).toks = Append(st.toks, tk)
      BY <2>1, EmitShape DEF With, State
    <3>2. QED
      BY <1>1, <1>4, <3>1 DEF Tokenize, AtTheEndOf
  <2>3. Placed(tk, s, f)
    <3>1. tk.kind = kind /\ tk.pos = st.from /\ tk.end = N /\ tk.depth = st.depth
      BY DEF Token
    <3>2. kind # "punct" /\ (kind = "word" => st.in = "word")
      BY DEF KindOf
    <3>3. ~(N < N)
      BY <1>1
    <3> HIDE DEF tk, kind
    <3>4. QED
      BY <1>1, <1>2, <1>4, <3>1, <3>2, <3>3 DEF Placed, ReadInv, Codes
  <2> HIDE DEF tk, toks
  <2>4. /\ Len(st.toks) \in Nat /\ Len(toks) = Len(st.toks) + 1 /\ toks[Len(st.toks) + 1] = tk
        /\ \A k \in 1..Len(st.toks) : toks[k] = st.toks[k]
        /\ \A k \in 1..Len(toks) : k = Len(st.toks) + 1 \/ k \in 1..Len(st.toks)
    BY <2>1, <2>2, Appended
  <2>5. \A k \in 1..Len(toks) : Placed(toks[k], s, f)
    BY <1>2, <2>3, <2>4 DEF ReadInv
  <2>6. \A k \in 1..Len(st.toks) : k \in 1..Len(toks) /\ toks[k] = st.toks[k]
    BY <2>4
  <2>7. QED
    BY <2>5, <2>6 DEF toks, st
<1>5. QED
  BY <1>3, <1>4

\* Before a keyword at the top of a text, and after the last of its tokens
\* that is no comment, the lexer is in code.
LEMMA GapBefore ==
  ASSUME NEW s, Len(s) \in Nat, NEW f, IsRun(f, s), Lex(s) = f[Len(s)], NEW m \in 1..Len(Tokenize(s)),
         Tokenize(s)[m].kind = "word", Tokenize(s)[m].depth = 0, s[Tokenize(s)[m].pos] \notin Letters
  PROVE  BetweenTokens(s, f, Tokenize(s)[m].pos - 1) /\ Tokenize(s)[m].pos - 1 \in 0..Len(s)
<1> DEFINE tk == Tokenize(s)[m]
<1>1. Placed(tk, s, f)
  BY TokensArePlaced
<1>2. tk.pos \in Nat \ {0} /\ tk.end \in Nat /\ tk.pos <= tk.end /\ tk.end <= Len(s)
  BY TokensAreInOrder, Positions
<1> HIDE DEF tk
<1>3. tk.pos - 1 + 1 = tk.pos /\ tk.pos - 1 \in 0..Len(s)
  BY <1>2
<1>4. QED
  BY <1>1, <1>3 DEF BetweenTokens, Placed, tk

LEMMA GapAfter ==
  ASSUME NEW s, Len(s) \in Nat, NEW f, IsRun(f, s), Lex(s) = f[Len(s)], NEW m \in 1..Len(Tokenize(s)),
         Tokenize(s)[m].kind # "comment", \A k \in 1..Len(Tokenize(s)) : k > m => Tokenize(s)[k].kind = "comment",
         NothingOpen(s, f, Tokenize(s))
  PROVE  BetweenTokens(s, f, Tokenize(s)[m].end) /\ Tokenize(s)[m].end \in 0..Len(s)
<1> DEFINE N == Len(s)
           toks == Tokenize(s)
           tk == toks[m]
           a == tk.end
<1>1. Placed(tk, s, f)
  BY TokensArePlaced
<1>2. /\ toks \in Seq(TokenRecords) /\ \A k \in 1..Len(toks) : toks[k].pos \in Nat \ {0} /\ toks[k].end \in Nat
                                   /\ toks[k].pos <= toks[k].end /\ toks[k].end <= N
      /\ \A j, k \in 1..Len(toks) : j < k => toks[j].end < toks[k].pos
  BY TokensAreInOrder, Positions
<1>3. tk.kind \in Kinds /\ N \in Nat /\ a \in 0..N /\ Len(toks) \in Nat
  BY <1>2, TokenIs
<1>4. f[a].in \in Codes
  <2>1. tk.kind \in {"string", "ident"} => f[a].in = "code"
    <3>1. m \in DOMAIN toks
      BY <1>2
    <3>2. QED
      BY <3>1 DEF NothingOpen
  <2>2. QED
    BY <1>1, <1>3, <2>1 DEF Placed, Kinds, Codes
<1>5. f[a].depth = 0
  <2>1. DepthInv(f[N], a, f[a].depth)
    <3>1. N \in a..N
      BY <1>3
    <3>2. QED
      BY <1>3, <3>1, DepthsHold
  <2>2. f[N].depth = 0
    BY DEF NothingOpen
  <2>3. ASSUME NEW k \in 1..Len(f[N].toks), f[N].toks[k].kind = "punct", f[N].toks[k].pos > a PROVE FALSE
    <3>1. k \in 1..Len(toks) /\ toks[k] = f[N].toks[k]
      BY TokensArePlaced
    <3>2. ~(k > m)
      BY <2>3, <3>1
    <3>3. toks[k].pos <= a
      <4>1. k = m \/ k < m
        BY <1>3, <3>1, <3>2
      <4>2. k < m => toks[k].end < tk.pos
        BY <1>2, <3>1
      <4>3. /\ toks[k].pos \in Nat /\ toks[k].end \in Nat /\ toks[k].pos <= toks[k].end
            /\ tk.pos \in Nat /\ tk.end \in Nat /\ tk.pos <= tk.end
        BY <1>2, <3>1
      <4> HIDE DEF toks
      <4>4. QED
        BY <4>1, <4>2, <4>3
    <3>4. toks[k].pos \in Nat
      BY <1>2, <3>1
    <3>5. QED
      BY <1>3, <2>3, <3>1, <3>3, <3>4
  <2>4. QED
    BY <2>1, <2>2, <2>3 DEF DepthInv
<1>6. QED
  BY <1>1, <1>3, <1>4, <1>5 DEF BetweenTokens, Placed

-----------------------------------------------------------------------------
(* A statement is cut out of its text, and the LIMIT put into it.           *)

\* sql is cut out of a text, from where its statement begins.
Cutting(s, stmt, sql, p) ==
  /\ stmt \in Seq(TokenRecords) /\ Len(stmt) \in Nat \ {0} /\ stmt[1].pos = p /\ p \in Nat \ {0}
  /\ sql \in Seq(STRING) /\ p - 1 + Len(sql) <= Len(s)
  /\ \A j \in 1..Len(sql) : sql[j] = s[p - 1 + j]

LEMMA StatementIsCut ==
  ASSUME NEW s \in Seq(STRING), NEW stmt \in ToSet(Split(s))
  PROVE  Cutting(s, stmt, CutOf(s, stmt), stmt[1].pos)
<1> DEFINE toks == Tokenize(s)
<1>1. Len(s) \in Nat
  OBVIOUS
<1>2. PICK k \in DOMAIN Split(s) : stmt = Split(s)[k]
  BY DEF ToSet
<1>3. PICK c \in Cuts(s, toks) : ~IsEmpty(After(s, toks, c)) /\ stmt = After(s, toks, c)
  BY <1>1, <1>2, EachCut
<1>4. toks \in Seq(TokenRecords) /\ InOrder(toks) /\ Until(toks, Len(s))
  BY <1>1, TokensAreInOrder
<1> HIDE DEF toks
<1>5. stmt \in Seq(TokenRecords)
  BY <1>3, <1>4, AfterIsPart
<1>6. PICK b : IsPart(stmt, s, toks, c, b)
  BY <1>3, <1>4, AfterIsPart
<1>7. Between(stmt, toks, c, b) /\ b \in (c + 1)..Len(toks) /\ DOMAIN stmt = 1..(b - c)
  BY <1>4, <1>6, InThePart DEF IsPart
<1>8. c + 1 \in 1..Len(toks) /\ b \in 1..Len(toks) /\ c \in Nat /\ b \in Nat /\ c + 1 <= b
  BY <1>7 DEF Between
<1> DEFINE p == toks[c + 1].pos
           e == toks[b].end
           sql == SubSeq(s, p, e)
<1>9. stmt[1].pos = p /\ CutOf(s, stmt) = sql
  <2>1. 1 \in DOMAIN stmt
    BY <1>7, <1>8
  <2>2. stmt[1] = toks[c + 1]
    BY <1>7, <2>1 DEF Between
  <2>3. QED
    BY <1>6, <2>2 DEF IsPart
<1>10. p \in 1..Len(s) /\ e \in p..Len(s) /\ p \in Nat \ {0} /\ e \in Nat
  <2>1. /\ \A k2 \in 1..Len(toks) : /\ toks[k2].pos \in Nat \ {0} /\ toks[k2].end \in Nat
                                    /\ toks[k2].pos <= toks[k2].end /\ toks[k2].end <= Len(s)
        /\ \A j, k2 \in 1..Len(toks) : j < k2 => toks[j].end < toks[k2].pos /\ toks[j].pos < toks[k2].pos
    BY <1>1, <1>4, Positions
  <2>2. c + 1 < b => toks[c + 1].end < toks[b].pos
    BY <1>8, <2>1
  <2>3. /\ p \in Nat \ {0} /\ toks[c + 1].end \in Nat /\ p <= toks[c + 1].end
        /\ toks[b].pos \in Nat /\ e \in Nat /\ toks[b].pos <= e /\ e <= Len(s)
    BY <1>8, <2>1
  <2>4. c + 1 = b => toks[c + 1].end = e
    OBVIOUS
  <2> HIDE DEF p, e
  <2>5. QED
    BY <1>1, <1>8, <2>2, <2>3, <2>4
<1> HIDE DEF p, e
<1>11. sql \in Seq(STRING) /\ Len(sql) = e - p + 1 /\ \A j \in 1..(e - p + 1) : sql[j] = s[p - 1 + j]
  <2>1. 0 \in 0..(e - p + 1)
    BY <1>10
  <2>2. QED
    BY <1>10, <2>1, CutIsMade
<1> HIDE DEF sql
<1>12. Len(stmt) \in Nat \ {0}
  BY <1>5, <1>7, <1>8
<1>13. p - 1 + Len(sql) <= Len(s)
  BY <1>1, <1>10, <1>11
<1>14. Cutting(s, stmt, sql, p)
  BY <1>5, <1>9, <1>10, <1>11, <1>12, <1>13 DEF Cutting
<1>15. QED
  BY <1>9, <1>14

\* The i-th token is where it was, moved by p - 1.
IsShifted(one, tk, s, sql, p) ==
  /\ tk.kind = one.kind /\ tk.depth = one.depth /\ one.pos = tk.pos + (p - 1) /\ one.end = tk.end + (p - 1)
  /\ tk.pos \in 1..Len(sql) /\ tk.end \in tk.pos..Len(sql) /\ s[one.pos] = sql[tk.pos]

LEMMA Shifted ==
  ASSUME NEW s \in Seq(STRING), NEW stmt, NEW sql, NEW p, Cutting(s, stmt, sql, p), ReadsTheSame(stmt, sql)
  PROVE  Len(Tokenize(sql)) = Len(stmt) /\ \A i \in 1..Len(stmt) : IsShifted(stmt[i], Tokenize(sql)[i], s, sql, p)
<1> DEFINE toks == Tokenize(sql)
           n == Len(stmt)
<1>1. /\ stmt \in Seq(TokenRecords) /\ n \in Nat /\ DOMAIN stmt = 1..n /\ stmt[1].pos = p /\ p \in Nat \ {0}
      /\ Len(sql) \in Nat /\ \A j \in 1..Len(sql) : sql[j] = s[p - 1 + j]
  BY DEF Cutting
<1>2. toks = [k \in 1..n |-> Token(stmt[k].kind, stmt[k].pos - (p - 1), stmt[k].end - (p - 1), stmt[k].depth)]
  BY <1>1 DEF ReadsTheSame
<1>3. toks \in Seq(TokenRecords) /\ InOrder(toks) /\ Until(toks, Len(sql))
  BY <1>1, TokensAreInOrder
<1> HIDE DEF toks, n
<1>4. Len(toks) = n
  BY <1>1, <1>2
<1>5. ASSUME NEW i \in 1..n PROVE IsShifted(stmt[i], toks[i], s, sql, p)
  <2> DEFINE one == stmt[i]
             tk == toks[i]
  <2>1. one.pos \in Nat /\ one.end \in Nat
    BY <1>1, TokenIs DEF n
  <2>2. tk = Token(one.kind, one.pos - (p - 1), one.end - (p - 1), one.depth)
    BY <1>2
  <2>3. tk.pos \in Nat \ {0} /\ tk.end \in Nat /\ tk.pos <= tk.end /\ tk.end <= Len(sql)
    BY <1>1, <1>3, <1>4, Positions
  <2> HIDE DEF one, tk
  <2>4. tk.kind = one.kind /\ tk.depth = one.depth /\ tk.pos = one.pos - (p - 1) /\ tk.end = one.end - (p - 1)
    BY <2>2 DEF Token
  <2>5. /\ one.pos = tk.pos + (p - 1) /\ one.end = tk.end + (p - 1) /\ tk.pos \in 1..Len(sql) /\ tk.end \in tk.pos..Len(sql)
        /\ one.pos = p - 1 + tk.pos
    <3>1. p \in Nat \ {0} /\ Len(sql) \in Nat
      BY <1>1
    <3> DEFINE x == tk.pos
               y == tk.end
               z == Len(sql)
    <3>2. x \in Nat \ {0} /\ y \in Nat /\ x <= y /\ y <= z /\ z \in Nat
      BY <2>3, <3>1
    <3>3. x = one.pos - (p - 1) /\ y = one.end - (p - 1)
      BY <2>4
    <3> DEFINE v == one.pos
               w == one.end
    <3> HIDE DEF x, y, z, v, w
    <3>4. v \in Nat /\ w \in Nat /\ x = v - (p - 1) /\ y = w - (p - 1)
      BY <2>1, <3>3 DEF v, w
    <3>5. v = x + (p - 1) /\ w = y + (p - 1) /\ v = p - 1 + x
      BY <3>1, <3>2, <3>4
    <3>6. x \in 1..z /\ y \in x..z
      BY <3>2
    <3>7. QED
      BY <3>5, <3>6 DEF x, y, z, v, w
  <2>6. s[one.pos] = sql[tk.pos]
    BY <1>1, <2>5
  <2>7. IsShifted(one, tk, s, sql, p)
    BY <2>4, <2>5, <2>6 DEF IsShifted
  <2>8. QED
    BY <2>7 DEF one, tk
<1>6. QED
  BY <1>4, <1>5 DEF toks, n

\* The place is before a locking clause, the m-th token, or after the m-th one
\* and only comments follow.
LimitAt(a, m, s, stmt, toks) ==
  \/ a = toks[m].pos - 1 /\ \E w \in {"FOR", "LOCK"} : IsKeyword(s, stmt[m], w)
  \/ a = toks[m].end /\ \A i \in 1..Len(stmt) : i > m => stmt[i].kind = "comment"

LEMMA LimitGoesThere ==
  ASSUME NEW s \in Seq(STRING), NEW stmt, NEW sql, NEW p, Cutting(s, stmt, sql, p), ReadsTheSame(stmt, sql),
         NothingOpen(sql, Lexed(sql), Tokenize(sql)), ~IsEmpty(stmt), NEW a, a = LimitInsertionPoint(s, stmt) - (p - 1)
  PROVE  a \in 0..Len(sql) /\ BetweenTokens(sql, Lexed(sql), a) /\ \E m \in 1..Len(stmt) : LimitAt(a, m, s, stmt, Tokenize(sql))
<1> DEFINE n == Len(stmt)
           toks == Tokenize(sql)
           f == Lexed(sql)
           locking == {i \in DOMAIN stmt : stmt[i].depth = 0 /\ \E w \in {"FOR", "LOCK"} : IsKeyword(s, stmt[i], w)}
           code == {i \in DOMAIN stmt : stmt[i].kind # "comment"}
           x == LimitInsertionPoint(s, stmt)
<1>1. n \in Nat /\ DOMAIN stmt = 1..n /\ p \in Nat \ {0} /\ Len(sql) \in Nat
  BY DEF Cutting
<1>2. Len(toks) = n /\ \A i \in 1..n : IsShifted(stmt[i], toks[i], s, sql, p)
  BY Shifted
<1>3. IsRun(f, sql) /\ Lex(sql) = f[Len(sql)]
  BY <1>1, LexedIsARun DEF Lex
<1>4. x = IF locking # {} THEN stmt[Min(locking)].pos - 1 ELSE stmt[Max(code)].end
  BY DEF LimitInsertionPoint
<1>5. locking \in SUBSET (0..n) /\ code \in SUBSET (0..n)
  BY <1>1
<1>6. code # {}
  BY DEF IsEmpty
<1>7. /\ \A i \in locking : i \in 1..n /\ stmt[i].depth = 0 /\ \E w \in {"FOR", "LOCK"} : IsKeyword(s, stmt[i], w)
      /\ \A i \in code : i \in 1..n /\ stmt[i].kind # "comment"
      /\ \A i \in 1..n : stmt[i].kind # "comment" => i \in code
  BY <1>1
<1> HIDE DEF n, toks, f, locking, code, x
<1>8. CASE locking # {}
  <2> DEFINE m == Min(locking)
             tk == toks[m]
             one == stmt[m]
  <2>1. m \in locking
    BY <1>1, <1>5, <1>8, MinOfPart
  <2>2. x = one.pos - 1
    BY <1>4, <1>8
  <2> HIDE DEF m
  <2>3. m \in 1..n /\ one.depth = 0
    BY <1>7, <2>1
  <2>4. PICK w \in {"FOR", "LOCK"} : IsKeyword(s, one, w)
    BY <1>7, <2>1
  <2>5. IsShifted(one, tk, s, sql, p)
    BY <1>2, <2>3
  <2> HIDE DEF one, tk
  <2>6. tk.kind = "word" /\ tk.depth = 0 /\ sql[tk.pos] \notin Letters
    BY <2>3, <2>4, <2>5, LettersAreNoKeywords DEF IsShifted, IsKeyword
  <2>7. a = tk.pos - 1
    <3>1. a = x - (p - 1)
      BY DEF x
    <3>2. one.pos = tk.pos + (p - 1) /\ tk.pos \in 1..Len(sql)
      BY <2>5 DEF IsShifted
    <3> DEFINE u == one.pos
               v == tk.pos
    <3> HIDE DEF u, v, x
    <3>3. a = u - 1 - (p - 1) /\ u = v + (p - 1) /\ v \in Nat
      BY <1>1, <2>2, <3>1, <3>2 DEF u, v
    <3>4. a = v - 1
      BY <1>1, <3>3
    <3>5. QED
      BY <3>4 DEF v
  <2>8. BetweenTokens(sql, f, tk.pos - 1) /\ tk.pos - 1 \in 0..Len(sql)
    BY <1>1, <1>2, <1>3, <2>3, <2>6, GapBefore DEF tk, toks
  <2>9. LimitAt(a, m, s, stmt, toks)
    BY <2>4, <2>7 DEF LimitAt, one, tk
  <2>10. QED
    BY <2>3, <2>7, <2>8, <2>9 DEF f, n, toks
<1>9. CASE locking = {}
  <2> DEFINE m == Max(code)
             tk == toks[m]
             one == stmt[m]
  <2>1. m \in code /\ \A i \in code : i <= m
    BY <1>1, <1>5, <1>6, MaxOfPart
  <2>2. x = one.end
    BY <1>4, <1>9
  <2> HIDE DEF m
  <2>3. m \in 1..n /\ one.kind # "comment"
    BY <1>7, <2>1
  <2>4. \A i \in 1..n : i > m => stmt[i].kind = "comment"
    <3>1. ASSUME NEW i \in 1..n, i > m, stmt[i].kind # "comment" PROVE FALSE
      <4>1. i <= m
        BY <1>7, <2>1, <3>1
      <4>2. QED
        BY <1>1, <2>3, <3>1, <4>1
    <3>2. QED
      BY <3>1
  <2>5. IsShifted(one, tk, s, sql, p)
    BY <1>2, <2>3
  <2> HIDE DEF one, tk
  <2>6. tk.kind # "comment"
    BY <2>3, <2>5 DEF IsShifted
  <2>7. a = tk.end
    <3>1. a = x - (p - 1)
      BY DEF x
    <3>2. one.end = tk.end + (p - 1) /\ tk.pos \in 1..Len(sql) /\ tk.end \in tk.pos..Len(sql)
      BY <2>5 DEF IsShifted
    <3> DEFINE u == one.end
               v == tk.end
    <3>3. v \in Nat
      BY <1>1, <3>2
    <3> HIDE DEF u, v, x
    <3>4. a = u - (p - 1) /\ u = v + (p - 1)
      BY <2>2, <3>1, <3>2 DEF u, v
    <3>5. a = v
      BY <1>1, <3>3, <3>4
    <3>6. QED
      BY <3>5 DEF v
  <2>8. \A k \in 1..Len(toks) : k > m => toks[k].kind = "comment"
    BY <1>2, <2>4 DEF IsShifted
  <2>9. BetweenTokens(sql, f, tk.end) /\ tk.end \in 0..Len(sql)
    BY <1>1, <1>2, <1>3, <2>3, <2>6, <2>8, GapAfter DEF tk, toks, f
  <2>10. LimitAt(a, m, s, stmt, toks)
    BY <2>4, <2>7 DEF LimitAt, tk, n
  <2>11. QED
    BY <2>3, <2>7, <2>9, <2>10 DEF f, n, toks
<1>10. QED
  BY <1>8, <1>9

\* How many parentheses are open, for the server, at each lexeme of a text.
LEMMA DepthsAre ==
  ASSUME NEW s, Len(s) \in Nat, NEW ran, NEW g, g[0] = 0,
         \A j \in 1..Len(s) : g[j] = IF j \in ran THEN Inward(s[j], g[j - 1]) ELSE g[j - 1]
  PROVE  \A j \in 0..Len(s) : DepthsOf(s, ran)[j] = g[j]
<1> DEFINE N == Len(s)
           Next1(h, i) == IF i \in ran THEN Inward(s[i], h[i - 1]) ELSE h[i - 1]
           Read(h) == h = [i \in 0..N |-> IF i = 0 THEN 0 ELSE IF i \in ran THEN Inward(s[i], h[i - 1]) ELSE h[i - 1]]
           own == CHOOSE h : Read(h)
           h0 == [j \in 0..N |-> g[j]]
<1>1. DepthsOf(s, ran) = own
  BY DEF DepthsOf
<1>2. N \in Nat /\ g[0] = 0 /\ \A j \in 1..N : g[j] = Next1(g, j)
  OBVIOUS
<1> HIDE DEF N
<1>3. Read(h0)
  <2>1. ASSUME NEW i \in 0..N
        PROVE  h0[i] = IF i = 0 THEN 0 ELSE IF i \in ran THEN Inward(s[i], h0[i - 1]) ELSE h0[i - 1]
    <3>1. CASE i = 0
      BY <1>2, <3>1
    <3>2. CASE i # 0
      <4>1. i \in 1..N /\ i - 1 \in 0..N
        BY <1>2, <3>2
      <4>2. QED
        BY <1>2, <3>2, <4>1
    <3>3. QED
      BY <3>1, <3>2
  <2>2. QED
    BY <2>1
<1> HIDE DEF h0
<1>4. Read(own)
  BY <1>3
<1> HIDE DEF own
<1>5. \A i \in 0..N : own[i] = IF i = 0 THEN 0 ELSE Next1(own, i)
  <2>1. own = [i \in 0..N |-> IF i = 0 THEN 0 ELSE IF i \in ran THEN Inward(s[i], own[i - 1]) ELSE own[i - 1]]
    BY <1>4
  <2>2. QED
    BY <2>1
<1> DEFINE P == {j \in 0..N : own[j] = g[j]}
<1>6. 0 \in P
  BY <1>2, <1>5
<1>7. ASSUME NEW m \in 1..N, m - 1 \in P PROVE m \in P
  <2>1. own[m - 1] = g[m - 1] /\ m \in 0..N /\ m # 0
    BY <1>2, <1>7
  <2>2. Next1(own, m) = Next1(g, m)
    BY <2>1
  <2> HIDE DEF Next1
  <2>3. own[m] = g[m]
    BY <1>2, <1>5, <2>1, <2>2
  <2>4. QED
    BY <2>1, <2>3
<1>8. P \in SUBSET (0..N)
  OBVIOUS
<1> HIDE DEF P
<1>9. \A m \in 0..N : m \in P
  BY <1>2, <1>6, <1>7, <1>8, Upwards
<1>10. QED
  BY <1>1, <1>9 DEF P, N

\* They are those of the client's lexer.
LEMMA DepthsAgree ==
  ASSUME NEW s, Len(s) \in Nat, NEW f, IsRun(f, s), NEW ran, \A i \in 1..Len(s) : i \in ran <=> Runnable(s, f, i)
  PROVE  \A i \in 0..Len(s) : DepthsOf(s, ran)[i] = f[i].depth
<1> DEFINE g == [i \in 0..Len(s) |-> f[i].depth]
<1>1. g[0] = 0
  <2>1. 0 \in 0..Len(s) /\ f[0] = Began
    BY DEF IsRun
  <2>2. QED
    BY <2>1 DEF Began
<1>2. ASSUME NEW i \in 1..Len(s)
      PROVE  g[i] = IF i \in ran THEN Inward(s[i], g[i - 1]) ELSE g[i - 1]
  <2> DEFINE st == f[i - 1]
             c == s[i]
             here == i = st.ends
             d == st.depth
             twice == Twice(st, s, i)
             close == FirstClose(s, i)
  <2>1. LexInv(st, i - 1) /\ i \in 0..Len(s) /\ i - 1 \in 0..Len(s) /\ i \in Nat \ {0}
    BY RunMoves
  <2>2. f[i] = LexStep(st, s, i)
    BY <2>1 DEF IsRun
  <2>3. IsState(st) /\ st.in \in {"code"} \cup Insides /\ d \in Nat
    BY <2>1, InvIs
  <2>4. Ahead(st, s, i - 1)
    BY <2>1, EndIsAhead
  <2>5. i \in ran <=> Runnable(s, f, i)
    OBVIOUS
  <2>6. g[i] = f[i].depth /\ g[i - 1] = d
    BY <2>1
  <2>7. Runnable(s, f, i) <=> st.in \in Codes /\ f[i].in \in Codes /\ c \notin Executable \cup {"nl", "sp", "*/", "/*M!"}
    BY DEF Runnable
  <2> HIDE DEF g, st
  <2>8. f[i] = Stepped(st, c, i, here, twice, close)
    BY <2>2, <2>3, StepIs
  <2>9. /\ f[i].depth = IF ~here /\ st.in \in Codes THEN Deeper(c, d) ELSE d
        /\ f[i].in = InAfter(st.in, c, here, twice)
    BY <2>8 DEF Stepped, State
  <2>10. here => c = "*/"
    BY <2>1, <2>4 DEF Ahead
  <2> HIDE DEF here, d, twice, c
  <2>11. CASE Runnable(s, f, i)
    <3>1. f[i].depth = Deeper(c, d)
      BY <2>7, <2>9, <2>10, <2>11
    <3>2. Deeper(c, d) = Inward(c, d)
      BY <2>3 DEF Deeper, Inward
    <3>3. QED
      BY <2>5, <2>6, <2>11, <3>1, <3>2 DEF c
  <2>12. CASE ~Runnable(s, f, i)
    <3>1. ~here /\ st.in \in Codes => c \notin {"(", ")"}
      <4>1. SUFFICES ASSUME ~here, st.in \in Codes, c \in {"(", ")"} PROVE FALSE
        OBVIOUS
      <4>2. c \notin Openers /\ c \notin Letters /\ c \notin Executable \cup {"nl", "sp", "*/", "/*M!"}
        BY <4>1, LettersAreWords DEF IsWord, Puncts, Openers, Quotes, LineComments, BlockComments, Executable
      <4>3. f[i].in = "code"
        BY <2>9, <4>1, <4>2 DEF InAfter
      <4>4. QED
        BY <2>7, <2>12, <4>1, <4>2, <4>3 DEF Codes
    <3>2. f[i].depth = d
      BY <2>9, <3>1 DEF Deeper
    <3>3. QED
      BY <2>5, <2>6, <2>12, <3>2
  <2>13. QED
    BY <2>11, <2>12
<1> HIDE DEF g
<1>3. \A i \in 0..Len(s) : DepthsOf(s, ran)[i] = g[i]
  BY <1>1, <1>2, DepthsAre
<1>4. QED
  BY <1>3 DEF g

\* What runs of a text, with and without the LIMIT.
RunsOf(sql, f, out, a) ==
  /\ \A q \in 1..Len(sql) : q \in Executed(sql) <=> Runnable(sql, f, q)
  /\ {a + 1, a + 2} \subseteq Executed(out)
  /\ Len(out) = Len(sql) + 2 /\ out[a + 1] = "LIMIT"
  /\ \A q \in 1..Len(sql) : LET j == IF q <= a THEN q ELSE q + 2
                            IN out[j] = sql[q] /\ (j \in Executed(out) <=> Runnable(sql, f, q))

AlikeAfter(t, s, f, e, a) ==
  \A q \in 1..e : LET j == IF q <= a THEN q ELSE q + 2
                 IN t[j] = s[q] /\ (j \in Executed(t) <=> Runnable(s, f, q))

LEMMA AlikeAgain ==
  ASSUME NEW t, NEW s, NEW f, NEW e \in Nat, NEW a \in Nat, RunsAlike(t, s, f, 1, e, a, 2)
  PROVE  AlikeAfter(t, s, f, e, a)
<1>1. ASSUME NEW q \in 1..e
      PROVE  LET j == IF q <= a THEN q ELSE q + 2
             IN t[j] = s[q] /\ (j \in Executed(t) <=> Runnable(s, f, q))
  <2> DEFINE j == IF q <= a THEN q ELSE q + 2
  <2>1. At(q, 1, a, 2) = j
    BY DEF At
  <2>2. t[At(q, 1, a, 2)] = s[q] /\ (At(q, 1, a, 2) \in Executed(t) <=> Runnable(s, f, q))
    BY AlikeAt
  <2> HIDE DEF j
  <2>3. t[j] = s[q] /\ (j \in Executed(t) <=> Runnable(s, f, q))
    BY <2>1, <2>2
  <2>4. QED
    BY <2>3 DEF j
<1>2. QED
  BY <1>1 DEF AlikeAfter

LEMMA LimitRuns ==
  ASSUME NEW sql \in Seq(STRING), Len(sql) # 0, NEW f, IsRun(f, sql), ~TheyPart(sql, f), NEW a \in 0..Len(sql),
         f[a].in \in Codes, NEW out, out = SubSeq(sql, 1, a) \o <<"LIMIT", "5">> \o SubSeq(sql, a + 1, Len(sql))
  PROVE  RunsOf(sql, f, out, a)
<1> DEFINE N == Len(sql)
<1>1. N \in Nat /\ 1 \in 1..N /\ N \in 1..N /\ a \in 0..(N - 1 + 1) /\ a \in Nat /\ 1 - 1 + a = a /\ N - 1 + 1 = N
  OBVIOUS
<1>2. Together(sql, f)
  BY AllTogether
<1>3. f[1 - 1].in \in Codes
  <2>1. 0 \in 0..N /\ 1 - 1 = 0
    BY <1>1
  <2>2. f[0] = Began
    BY <2>1 DEF IsRun
  <2>3. QED
    BY <2>1, <2>2 DEF Began, Codes
<1>4. AtEnd(f, sql, 1 - 1 + a) /\ AtEnd(f, sql, 1 - 1 + 0)
  <2>1. f[a].in \in Codes /\ f[0].in \in Codes
    BY <1>3
  <2>2. AtEnd(f, sql, a) /\ AtEnd(f, sql, 0)
    BY <2>1 DEF AtEnd
  <2>3. 1 - 1 + a = a /\ 1 - 1 + 0 = 0
    BY <1>1
  <2>4. QED
    BY <2>2, <2>3
<1>5. SubSeq(sql, 1, N) = sql
  OBVIOUS
<1>6. Made(out, sql, 1, N, a, 2)
  BY <1>1, <1>5, LimitIsMade
<1>7. Made(sql, sql, 1, N, 0, 0)
  <2>1. \A j \in 1..N : 1 - 1 + j - 0 = j
    BY <1>1
  <2>2. \A j \in (0 + 0 + 1)..(N + 0) : sql[j] = sql[1 - 1 + j - 0]
    BY <1>1, <2>1
  <2>3. (\A j \in 1..0 : FALSE) /\ (\A j \in (0 + 1)..(0 + 0) : FALSE) /\ N + 0 = N /\ 0 \in 0..N
    BY <1>1
  <2>4. QED
    BY <1>1, <2>2, <2>3 DEF Made
<1>8. out[a + 1] = "LIMIT"
  <2> DEFINE added == <<"LIMIT", "5">>
             S == STRING \cup {"LIMIT", "5"}
  <2>1. added \in Seq(S) /\ Len(added) = 2 /\ added[1] = "LIMIT" /\ out = SubSeq(sql, 1, a) \o added \o SubSeq(sql, a + 1, N)
    OBVIOUS
  <2>2. sql \in Seq(S)
    <3> DEFINE T == STRING
    <3>1. sql \in Seq(T) /\ T \subseteq S
      OBVIOUS
    <3> HIDE DEF T, S
    <3>2. QED
      BY <3>1
  <2> HIDE DEF added, S
  <2>3. IsTwoMore(out, sql, a, added)
    BY <2>1, <2>2, TwoMore
  <2>4. a \in Nat
    BY <1>1
  <2>5. out[a + 1] = added[1]
    BY <2>3, <2>4, FirstOfTwo
  <2>6. QED
    BY <2>1, <2>5
<1>9. Len(out) = N + 2
  BY <1>1, <1>6 DEF Made
<1>10. ASSUME NEW q \in 1..N PROVE q \in Executed(sql) <=> Runnable(sql, f, q)
  <2>1. At(q, 1, 0, 0) = q
    BY <1>1 DEF At
  <2>2. At(q, 1, 0, 0) \in Executed(sql) <=> Runnable(sql, f, q)
    <3>1. RunsAlike(sql, sql, f, 1, N, 0, 0)
      BY <1>1, <1>2, <1>3, <1>4, <1>7, MadeRuns
    <3>2. QED
      BY <3>1, AlikeAt
  <2>3. QED
    BY <2>1, <2>2
<1>11. AlikeAfter(out, sql, f, N, a)
  <2>1. RunsAlike(out, sql, f, 1, N, a, 2)
    BY <1>1, <1>2, <1>3, <1>4, <1>6, MadeRuns
  <2>2. N \in Nat /\ a \in Nat
    BY <1>1
  <2>3. QED
    BY <2>1, <2>2, AlikeAgain
<1>12. {a + 1, a + 2} \subseteq Executed(out)
  <2>1. f[1 - 1 + a].in \in Codes
    BY <1>1
  <2>2. ClauseRuns(out, f, 1, a, 2)
    BY <1>1, <1>2, <1>3, <1>4, <1>6, MadeRuns
  <2>3. QED
    BY <2>1, <2>2 DEF ClauseRuns
<1>13. QED
  BY <1>8, <1>9, <1>10, <1>11, <1>12 DEF RunsOf, AlikeAfter

LEMMA LimitIsThere ==
  ASSUME script \in Seq(STRING), NEW stmt \in ToSet(Split(script)), NEW sql, sql = CutOf(script, stmt),
         AutoLimit(script, stmt), IsWhole(stmt, sql), IsClear(sql), NEW out, out = AppendLimit(script, stmt), out # sql
  PROVE  LimitSeen(sql, Executed(sql), DepthsOf(sql, Executed(sql)), out, Executed(out))
<1> DEFINE n == Len(stmt)
           N == Len(sql)
           p == stmt[1].pos
           a == LimitInsertionPoint(script, stmt) - (p - 1)
           f == Lexed(sql)
           toks == Tokenize(sql)
           ran == Executed(sql)
           depths == DepthsOf(sql, ran)
<1>1. Cutting(script, stmt, sql, p)
  BY StatementIsCut
<1>2. n \in Nat /\ N \in Nat /\ sql \in Seq(STRING)
  BY <1>1 DEF Cutting
<1>3. ~IsEmpty(stmt) /\ ReadsTheSame(stmt, sql) /\ NothingOpen(sql, f, toks)
  BY DEF AutoLimit, IsWhole
<1>4. Len(toks) = n /\ \A i \in 1..n : IsShifted(stmt[i], toks[i], script, sql, p)
  <2> HIDE DEF n, p
  <2>1. QED
    BY <1>1, <1>3, Shifted DEF n
<1>5. out = SubSeq(sql, 1, a) \o <<"LIMIT", "5">> \o SubSeq(sql, a + 1, N)
  BY DEF AppendLimit
<1> HIDE DEF n
<1>6. a \in 0..N /\ BetweenTokens(sql, f, a) /\ \E m \in 1..n : LimitAt(a, m, script, stmt, toks)
  BY <1>1, <1>3, LimitGoesThere DEF n
<1> HIDE DEF a, p
<1>7. PICK m \in 1..n : LimitAt(a, m, script, stmt, toks)
  BY <1>6
<1>8. IsRun(f, sql) /\ Lex(sql) = f[N] /\ ~TheyPart(sql, f) /\ TheyAllLock(sql, ran, depths)
  BY <1>2, LexedIsARun DEF Lex, IsClear
<1>9. /\ toks \in Seq(TokenRecords) /\ \A j \in 1..n : /\ toks[j].pos \in Nat \ {0} /\ toks[j].end \in Nat
                                                     /\ toks[j].pos <= toks[j].end
      /\ \A i, j \in 1..n : i < j => toks[i].end < toks[j].pos
  BY <1>2, <1>4, TokensAreInOrder, Positions
<1>10. WellRead(toks, sql, f)
  BY <1>2, <1>8, TokensAreWellRead
<1> HIDE DEF f, toks
<1>11. IsShifted(stmt[m], toks[m], script, sql, p)
  BY <1>4
<1>12. f[a].in \in Codes /\ f[a].depth = 0 /\ N # 0
  <2>1. toks[m].pos \in 1..N
    BY <1>11 DEF IsShifted
  <2>2. N # 0
    BY <2>1
  <2>3. QED
    BY <1>6, <2>2 DEF BetweenTokens
<1>13. RunsOf(sql, f, out, a)
  BY <1>2, <1>5, <1>6, <1>8, <1>12, LimitRuns
<1>14. ran \subseteq 1..N /\ \A i \in 1..N : i \in ran <=> Runnable(sql, f, i)
  BY <1>13 DEF RunsOf, Executed, Runs
<1> HIDE DEF ran
<1>15. depths[a] = 0
  <2>1. depths[a] = f[a].depth
    BY <1>2, <1>6, <1>8, <1>14, DepthsAgree
  <2>2. QED
    BY <1>12, <2>1
<1> HIDE DEF depths
<1>16. OnlyTheLimitAdded(sql, ran, out, Executed(out), a)
  <2>1. DOMAIN sql = 1..N
    BY <1>2
  <2>2. \A q \in 1..N : LET j == IF q <= a THEN q ELSE q + 2
                        IN out[j] = sql[q] /\ (j \in Executed(out) <=> q \in ran)
    BY <1>13, <1>14 DEF RunsOf
  <2>3. QED
    BY <1>13, <2>1, <2>2 DEF RunsOf, OnlyTheLimitAdded
<1>17. (\A i \in ran : i <= a) \/ (a + 1 \in ran /\ Locks(sql, ran, a + 1))
  <2>1. CASE a = toks[m].pos - 1 /\ \E w \in {"FOR", "LOCK"} : IsKeyword(script, stmt[m], w)
    <3> DEFINE x == toks[m].pos
    <3>1. toks[m].kind = "word" /\ sql[x] \in {"FOR", "LOCK"} /\ x \in 1..N
      BY <1>11, <2>1 DEF IsShifted, IsKeyword
    <3>2. f[x - 1].in \in Codes /\ f[x].in \in Codes
      <4>1. Fits(toks[m], sql, f)
        BY <1>4, <1>10 DEF WellRead
      <4>2. QED
        BY <3>1, <4>1 DEF Fits
    <3> HIDE DEF x
    <3>3. Runnable(sql, f, x)
      BY <3>1, <3>2 DEF Runnable, Executable
    <3>4. x = a + 1 /\ x - 1 = a
      <4>1. a = x - 1
        BY <2>1 DEF x
      <4>2. QED
        BY <1>2, <3>1, <4>1
    <3>5. x \in ran /\ depths[x - 1] = 0
      BY <1>14, <1>15, <3>1, <3>3, <3>4
    <3>6. Locks(sql, ran, x)
      BY <1>8, <3>1, <3>5 DEF TheyAllLock
    <3>7. QED
      BY <3>4, <3>5, <3>6
  <2>2. CASE a = toks[m].end /\ \A i \in 1..Len(stmt) : i > m => stmt[i].kind = "comment"
    <3>1. ASSUME NEW i \in ran PROVE i <= a
      <4>1. i \in 1..N /\ Runnable(sql, f, i)
        BY <1>14
      <4>2. PICK k \in 1..n : IsOf(toks[k], sql, i)
        BY <1>4, <1>10, <4>1 DEF WellRead
      <4>3. toks[k].kind # "comment"
        BY <4>2 DEF IsOf
      <4>4. ~(k > m)
        <5>1. toks[k].kind = stmt[k].kind
          BY <1>4 DEF IsShifted
        <5>2. QED
          BY <2>2, <4>3, <5>1 DEF n
      <4>5. /\ toks[k].pos \in Nat /\ toks[k].end \in Nat /\ toks[k].pos <= toks[k].end
            /\ toks[m].pos \in Nat /\ toks[m].end \in Nat /\ toks[m].pos <= toks[m].end
            /\ k < m => toks[k].end < toks[m].pos
        BY <1>9
      <4>6. i = toks[k].pos \/ i <= toks[k].end
        BY <4>2 DEF IsOf
      <4>7. k = m \/ k < m
        BY <1>2, <4>4
      <4> DEFINE b == toks[k].pos
                 c == toks[k].end
                 d == toks[m].pos
                 e == toks[m].end
      <4>8. i \in Nat /\ b \in Nat /\ c \in Nat /\ b <= c /\ (i = b \/ i <= c) /\ d \in Nat /\ e \in Nat /\ d <= e
            /\ (c = e \/ c < d) /\ a = e
        BY <1>2, <2>2, <4>1, <4>5, <4>6, <4>7
      <4> HIDE DEF b, c, d, e
      <4>9. QED
        BY <4>8
    <3>2. QED
      BY <3>1
  <2>3. QED
    BY <1>7, <2>1, <2>2 DEF LimitAt
<1>18. EndsIt(sql, ran, depths, a)
  BY <1>15, <1>17 DEF EndsIt
<1>19. LimitSeen(sql, ran, depths, out, Executed(out))
  BY <1>6, <1>16, <1>18 DEF LimitSeen
<1>20. QED
  BY <1>19 DEF ran, depths

(* The LIMIT the client adds to a statement is one the server runs, at the   *)
(* top of it and before nothing it runs but a locking clause, and it runs    *)
(* of the rest what it ran without, whatever the text, executable comments   *)
(* in it or not: wherever the statement reads as it did in its text and      *)
(* leaves nothing open, and the two lexers agree on it and on its locking    *)
(* clauses (sqlparse.AppendLimit).                                           *)
THEOREM LimitIsAlwaysSeen == ScriptSpec => []LimitIsSeen
<1>1. script \in Seq(STRING) => LimitIsSeen
  BY LimitIsThere DEF LimitIsSeen, SeenIn
<1>2. QED
  BY <1>1, ScriptsAreTexts, PTL

-----------------------------------------------------------------------------
(* The menu: what must be in it *)

\* Candidates that overwrite the word that ends at the caret of a text.
AreFor(candidates, s, at) ==
  \A i \in DOMAIN candidates :
    candidates[i].from = WordStart(s, at) /\ candidates[i].to = at

\* A menu has the four fields of completionMenu.
MenuIsOne(m) ==
  m = [candidates |-> m.candidates, selected |-> m.selected, top |-> m.top, anchor |-> m.anchor]

\* The inductive invariant.
MenuInv == MenuIsOne(menu) /\ AreFor(menu.candidates, text, caret)

-----------------------------------------------------------------------------
(* The lookup *)

\* rank gives every candidate the word's ends, and Suggest asks for no more
\* than the word at the offset.
LEMMA RankKeepsTheWord ==
  ASSUME NEW candidates, NEW position, NEW to, NEW i \in DOMAIN rank(candidates, position, to)
  PROVE  /\ rank(candidates, position, to)[i].from = position.from
         /\ rank(candidates, position, to)[i].to = to
BY DEF rank

LEMMA NothingIsForAnyWord == ASSUME NEW s, NEW at PROVE AreFor(<<>>, s, at)
BY DEF AreFor

(* What is looked up at an offset overwrites the word that ends there, in    *)
(* every text, schema and catalogue (complete.Suggest, CompletionAt).        *)
THEOREM SuggestIsForTheWord ==
  ASSUME NEW s, NEW offset, NEW sc
  PROVE  AreFor(Suggest(s, offset, sc), s, offset)
<1> DEFINE position == CompletionAt(s, offset)
<1>1. position.kind = "none" \/ position.from = WordStart(s, offset)
  BY DEF CompletionAt, CompletionIn
<1> HIDE DEF position
<1>2. Suggest(s, offset, sc) = Answers(position, offset, sc)
  BY DEF Suggest, position
<1>3. CASE position.kind = "none"
  BY <1>2, <1>3, NothingIsForAnyWord DEF Answers
<1>4. CASE position.kind # "none" /\ position.from = WordStart(s, offset)
  <2>1. \/ Answers(position, offset, sc) = <<>>
        \/ \E candidates : Answers(position, offset, sc) = rank(candidates, position, offset)
    BY DEF Answers
  <2>2. QED
    BY <1>2, <1>4, <2>1, RankKeepsTheWord, NothingIsForAnyWord DEF AreFor
<1>5. QED
  BY <1>1, <1>3, <1>4

-----------------------------------------------------------------------------
(* The menu *)

LEMMA ClosedIsEmpty == MenuIsOne(Closed) /\ Closed.candidates = <<>>
BY DEF Closed, MenuIsOne

\* Moving the highlight leaves the candidates.
LEMMA MovedKeeps ==
  ASSUME NEW m, MenuIsOne(m), NEW to
  PROVE  MenuIsOne(Moved(m, to)) /\ Moved(m, to).candidates = m.candidates
<1> DEFINE at == Clamp(to, Len(m.candidates))
           top == IF at < m.top THEN at
                  ELSE IF at >= m.top + popupRows THEN at - popupRows + 1 ELSE m.top
<1>1. Moved(m, to) = [m EXCEPT !.selected = at, !.top = top]
  BY DEF Moved
<1> HIDE DEF at, top
<1>2. Moved(m, to) = [candidates |-> m.candidates, selected |-> at, top |-> top,
                      anchor |-> m.anchor]
  BY <1>1 DEF MenuIsOne
<1>3. QED
  BY <1>2 DEF MenuIsOne

\* So does narrowing the list: it holds what was found.
LEMMA SetHolds ==
  ASSUME NEW m, NEW candidates
  PROVE  MenuIsOne(Set(m, candidates)) /\ Set(m, candidates).candidates = candidates
<1> DEFINE new == [candidates |-> candidates, selected |-> 1, top |-> 1, anchor |-> m.anchor]
<1>1. MenuIsOne(new) /\ new.candidates = candidates
  BY DEF MenuIsOne
<1>2. \/ Set(m, candidates) = new
      \/ \E to : Set(m, candidates) = Moved(new, to)
  BY DEF Set
<1> HIDE DEF new
<1>3. QED
  BY <1>1, <1>2, MovedKeeps

\* A frame scrolls the menu and changes nothing else of it.
LEMMA DrawKeeps ==
  ASSUME NEW m, MenuIsOne(m), NEW f, Draw(m, f)
  PROVE  MenuIsOne(menu') /\ menu'.candidates = m.candidates
BY DEF Draw, MenuIsOne

\* A menu drawn closed is for any word.
LEMMA DrawnClosed ==
  ASSUME NEW f, Draw(Closed, f)
  PROVE  MenuInv'
BY ClosedIsEmpty, DrawKeeps DEF MenuInv, AreFor

\* Narrowed to a text and an offset in it, the menu is for the word there.
LEMMA NarrowedIsForTheWord ==
  ASSUME NEW s, NEW at
  PROVE  MenuIsOne(Narrowed(s, at)) /\ AreFor(Narrowed(s, at).candidates, s, at)
<1> DEFINE found == Suggest(s, at, schema)
<1>1. AreFor(found, s, at)
  BY SuggestIsForTheWord
<1> HIDE DEF found
<1>2. Narrowed(s, at) \in {Closed, Set(menu, found)}
  BY DEF Narrowed, Kept, found
<1>3. QED
  BY <1>1, <1>2, ClosedIsEmpty, SetHolds, NothingIsForAnyWord

LEMMA EditKeeps ==
  ASSUME NEW s, NEW at, NEW narrowed, Edit(s, at, narrowed),
         narrowed \in {Closed, Narrowed(s, at)}
  PROVE  MenuInv'
<1>1. text' = s /\ caret' = at /\ Draw(narrowed, focus)
  BY DEF Edit
<1>2. MenuIsOne(narrowed) /\ AreFor(narrowed.candidates, s, at)
  BY ClosedIsEmpty, NarrowedIsForTheWord, NothingIsForAnyWord
<1>3. MenuIsOne(menu') /\ menu'.candidates = narrowed.candidates
  BY <1>1, <1>2, DrawKeeps
<1>4. QED
  BY <1>1, <1>2, <1>3 DEF MenuInv, AreFor, WordStart

-----------------------------------------------------------------------------
(* The actions *)

LEMMA MenuInit == ASSUME Init PROVE MenuInv
BY ClosedIsEmpty DEF Init, MenuInv, AreFor

LEMMA MenuStep ==
  ASSUME MenuInv, [Next]_vars
  PROVE  MenuInv'
<1> USE DEF MenuInv
<1>1. CASE TypeRune
  BY <1>1, EditKeeps DEF TypeRune
<1>2. CASE Backspace
  BY <1>2, EditKeeps DEF Backspace
<1>3. CASE Paste
  BY <1>3, EditKeeps DEF Paste
<1>4. ASSUME NEW c, Accept(c) PROVE MenuInv'
  BY <1>4, DrawnClosed DEF Accept
<1>5. CASE showCompletion
  <2> DEFINE found == Suggest(text, caret, schema)
  <2>1. AreFor(found, text, caret)
    BY SuggestIsForTheWord
  <2>2. Offer(found)
    BY <1>5 DEF showCompletion
  <2> HIDE DEF found
  <2>3. CASE Draw(Closed, focus)
    BY <2>3, DrawnClosed
  <2>4. CASE Accept(found[1])
    BY <1>4, <2>4
  <2>5. CASE /\ Draw(Set([Closed EXCEPT !.anchor = found[1].from], found), focus)
             /\ UNCHANGED <<text, caret, schema, focus>>
    <3>1. MenuIsOne(menu') /\ menu'.candidates = found
      BY <2>5, SetHolds, DrawKeeps
    <3>2. QED
      BY <2>1, <2>5, <3>1 DEF AreFor, WordStart
  <2>6. QED
    BY <2>2, <2>3, <2>4, <2>5 DEF Offer
<1>6. CASE MoveHighlight
  <2>1. PICK step \in {0, 2} : Draw(Moved(menu, menu.selected + step - 1), focus)
    BY <1>6 DEF MoveHighlight
  <2>2. MenuIsOne(menu') /\ menu'.candidates = menu.candidates
    BY <2>1, MovedKeeps, DrawKeeps
  <2>3. QED
    BY <1>6, <2>2 DEF MoveHighlight, AreFor, WordStart
<1>7. CASE AcceptCurrent
  BY <1>4, <1>7 DEF AcceptCurrent
<1>8. CASE Escape
  BY <1>8, DrawnClosed DEF Escape
<1>9. CASE ClickRow
  BY <1>4, <1>9 DEF ClickRow
<1>10. CASE MoveCaret
  BY <1>10, DrawnClosed DEF MoveCaret
<1>11. CASE MoveCursor
  BY <1>11, DrawnClosed DEF MoveCursor
<1>12. CASE EditCommand
  BY <1>12, EditKeeps DEF EditCommand, applyEdit
<1>13. CASE formatQuery
  <2>1. \E laid : Replaced(laid)
    BY <1>13 DEF formatQuery
  <2>2. QED
    BY <2>1, EditKeeps DEF Replaced
<1>14. CASE MoveFocus
  BY <1>14, DrawnClosed DEF MoveFocus
<1>15. CASE Recall
  BY <1>15, DrawnClosed DEF Recall
<1>16. CASE SetSchema
  <2>1. MenuIsOne(menu') /\ menu'.candidates = menu.candidates
    BY <1>16, DrawKeeps DEF SetSchema
  <2>2. QED
    BY <1>16, <2>1 DEF SetSchema, AreFor, WordStart
<1>17. CASE UNCHANGED vars
  BY <1>17 DEF vars, AreFor, MenuIsOne, WordStart
<1>18. QED
  BY <1>1, <1>2, <1>3, <1>5, <1>6, <1>7, <1>8, <1>9, <1>10, <1>11, <1>12, <1>13, <1>14,
     <1>15, <1>16, <1>17 DEF Next

-----------------------------------------------------------------------------
(* The theorems *)

\* The inductive invariant: what the property says, of a menu with its fields.
THEOREM MenuInvariance == Spec => []MenuInv
<1>1. Init => MenuInv
  BY MenuInit
<1>2. MenuInv /\ [Next]_vars => MenuInv'
  BY MenuStep
<1>3. QED
  BY <1>1, <1>2, PTL DEF Spec

(* What accepting a candidate would overwrite is exactly the word at the     *)
(* caret, whatever was typed, pasted, deleted, laid out or recalled since    *)
(* the candidates were looked up (narrowCompletion, acceptCandidate).        *)
THEOREM MenuIsForTheWord == Spec => []CandidatesAreForTheWord
<1>1. MenuInv => CandidatesAreForTheWord
  BY DEF MenuInv, AreFor, CandidatesAreForTheWord
<1>2. QED
  BY <1>1, MenuInvariance, PTL
=============================================================================
