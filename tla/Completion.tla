----------------------------- MODULE Completion -----------------------------
(***************************************************************************)
(* Completion in the editor: what a caret position asks for                *)
(* (sqlparse/complete.go), which names answer it (complete/complete.go),   *)
(* and the menu over the word being typed (ui/completion.go).  The lookup  *)
(* runs inside the keystroke, on the local catalogue.                      *)
(***************************************************************************)
EXTENDS Editor

CONSTANTS
  Lexemes,       \* what is typed
  Schemas,
  TablesOf,      \* schema -> its tables in the catalogue, a sequence of names
  ColumnsOf,     \* table -> its columns
  Keywords,      \* the keywords offered, each a text
  Spelled,       \* keyword -> its letters
  MaxCandidates,
  popupRows,
  Recalled,      \* statements the history holds
  MaxLexemes     \* bound: length of a text typed

ASSUME CompletionAssumption == MaxCandidates \in Nat \ {0} /\ popupRows \in Nat \ {0}

VARIABLES
  text,
  caret,   \* lexemes left of it
  schema,  \* the one unqualified names are looked up in
  focus,   \* "editor", or "elsewhere" in the same window
  menu,    \* candidates, highlighted one, first row shown, where the word starts
  box      \* rows of the menu in the last frame

vars == <<text, caret, schema, focus, menu, box>>

-----------------------------------------------------------------------------
(* The tables of a statement *)

NameOf(s, tk) == IF tk.kind = "ident" THEN SubSeq(s, tk.pos + 1, tk.end - 1) ELSE SubSeq(s, tk.pos, tk.end)

reservedAfterTable ==
  {"WHERE", "GROUP", "ORDER", "HAVING", "LIMIT", "JOIN", "ON", "USING", "SET", "SELECT", "UNION",
   "FOR", "LOCK", "INTO", "AS"}
isAliasToken(s, tk) == tk.kind = "ident" \/ (tk.kind = "word" /\ s[tk.pos] \notin reservedAfterTable)

AliasWithoutAs(s, toks, i) ==
  IF i < Len(toks) /\ isAliasToken(s, toks[i + 1])
  THEN [alias |-> NameOf(s, toks[i + 1]), last |-> i + 1] ELSE [alias |-> <<>>, last |-> i]
\* An optional alias after token i, with or without AS, and where it ends.
AliasAfter(s, toks, i) ==
  LET next == IF i < Len(toks) /\ IsKeyword(s, toks[i + 1], "AS") THEN i + 2 ELSE i + 1
  IN IF next <= Len(toks) /\ isAliasToken(s, toks[next])
     THEN [alias |-> NameOf(s, toks[next]), last |-> next]
     ELSE [alias |-> <<>>, last |-> i]

Ref(sc, name, alias, derived) == [schema |-> sc, name |-> name, alias |-> alias, derived |-> derived]

readTableRef(s, toks, i) ==
  LET qualified == i + 2 <= Len(toks) /\ IsPunct(s, toks[i + 1], ".")
      at == IF qualified THEN i + 2 ELSE i
      al == AliasAfter(s, toks, at)
  IN [ref |-> Ref(IF qualified THEN NameOf(s, toks[i]) ELSE <<>>, NameOf(s, toks[at]), al.alias, FALSE),
      last |-> al.last]

\* To the parenthesis that closes the one at `open', and its alias.
readDerived(s, toks, open) ==
  LET closes == {j \in (open + 1)..Len(toks) : IsPunct(s, toks[j], ")") /\ toks[j].depth = toks[open].depth}
      close  == IF closes = {} THEN Len(toks) + 1 ELSE CHOOSE j \in closes : \A k \in closes : j <= k
      al     == AliasAfter(s, toks, close)
  IN [ref |-> Ref(<<>>, <<>>, al.alias, TRUE), last |-> al.last]

introducesTable == {"FROM", "JOIN", "INTO", "UPDATE"}

\* One token of the walk; `next' is the first one not read yet.
WalkRefs(s, toks, w, i) ==
  LET tk == toks[i]
      Read(r, more) == [refs |-> Append(w.refs, r.ref), expecting |-> more,
                        next |-> IF more THEN r.last + 2 ELSE r.last + 1]
      Comma(r) == r.last < Len(toks) /\ IsPunct(s, toks[r.last + 1], ",")
  IN CASE i < w.next \/ tk.kind = "comment" -> w
       [] tk.depth = 0 /\ \E k \in introducesTable : IsKeyword(s, tk, k) -> [w EXCEPT !.expecting = TRUE]
       [] ~w.expecting -> w
       [] IsPunct(s, tk, "(") -> Read(readDerived(s, toks, i), FALSE)
       [] tk.depth # 0 \/ tk.kind \notin {"word", "ident"} -> [w EXCEPT !.expecting = FALSE]
       [] OTHER -> Read(readTableRef(s, toks, i), Comma(readTableRef(s, toks, i)))

TableRefs(s, toks) ==
  LET after[i \in 0..Len(toks)] ==
        IF i = 0 THEN [refs |-> <<>>, expecting |-> FALSE, next |-> 1] ELSE WalkRefs(s, toks, after[i - 1], i)
  IN after[Len(toks)].refs

\* An alias wins; failing that, a table answers to its own name.
ResolveQualifier(refs, qualifier) ==
  LET aliased == SelectSeq(refs, LAMBDA r : r.alias # <<>> /\ r.alias = qualifier)
      named   == SelectSeq(refs, LAMBDA r : r.alias = <<>> /\ r.name = qualifier)
  IN aliased \o named

-----------------------------------------------------------------------------
(* What a caret position asks for *)

\* The identifier that ends right before position `at'.
identifierEndingAt(s, at) ==
  IF at > 0 /\ s[at] = "bt"
  THEN LET opens == {i \in 1..(at - 1) : s[i] = "bt"}
       IN IF opens = {} THEN <<>> ELSE SubSeq(s, (CHOOSE i \in opens : \A j \in opens : j <= i) + 1, at - 1)
  ELSE SubSeq(s, WordStart(s, at) + 1, at)

clauseKeywords(w) ==
  CASE w \in {"SELECT", "WHERE", "HAVING", "ON", "SET", "BY", "AND", "OR"} -> "column"
    [] w \in {"FROM", "JOIN", "INTO", "UPDATE", "TABLE"} -> "table"
    [] OTHER -> "none"

\* The most recent clause keyword before a position.
clauseKind(s, toks, offset) ==
  LET told == SelectSeq(toks, LAMBDA tk : tk.kind = "word" /\ tk.end <= offset /\ clauseKeywords(s[tk.pos]) # "none")
  IN IF told = <<>> THEN "none" ELSE clauseKeywords(s[Last(told).pos])

CompletionIn(s, toks, offset) ==
  LET inside == \E i \in DOMAIN toks : /\ toks[i].kind \in {"string", "comment"}
                                       /\ toks[i].pos <= offset /\ offset <= toks[i].end
      start == WordStart(s, offset)
      dot == IF start > 0 /\ s[start] = "." THEN identifierEndingAt(s, start - 1) ELSE <<>>
  IN IF toks = <<>> \/ inside
     THEN [kind |-> "none", prefix |-> <<>>, qualifier |-> <<>>, refs |-> <<>>, from |-> offset]
     ELSE [kind |-> IF dot # <<>> THEN "qualified" ELSE clauseKind(s, toks, start),
           prefix |-> SubSeq(s, start + 1, offset), qualifier |-> dot,
           refs |-> TableRefs(s, toks), from |-> start]
CompletionAt(s, offset) == CompletionIn(s, StatementAt(s, offset), offset)

-----------------------------------------------------------------------------
(* Suggest *)

Named(names) == [i \in DOMAIN names |-> [text |-> names[i], keyword |-> FALSE]]
tables(sc)  == IF sc \in Schemas THEN Named(TablesOf[sc]) ELSE <<>>
columns(sc, t) == IF sc \in Schemas /\ t \in Range(TablesOf[sc]) THEN Named(ColumnsOf[t]) ELSE <<>>
schemaOf(ref, sc) == IF ref.schema # <<>> THEN ref.schema ELSE sc

\* A column of two tables is offered once.
columnsInScope(refs, sc) ==
  LET all == FlattenSeq([i \in DOMAIN refs |-> IF refs[i].derived THEN <<>> ELSE columns(schemaOf(refs[i], sc), refs[i].name)])
  IN SelectSeq([i \in DOMAIN all |-> [c |-> all[i], again |-> \E j \in 1..(i - 1) : all[j] = all[i]]],
               LAMBDA x : ~x.again)

qualified(position, sc) ==
  LET ref == ResolveQualifier(position.refs, position.qualifier)
      own == IF ref = <<>> \/ ref[1].derived THEN <<>> ELSE columns(schemaOf(ref[1], sc), ref[1].name)
  IN IF own # <<>> THEN own ELSE tables(position.qualifier)

SpellingOf(c) == IF c.keyword THEN Spelled[c.text] ELSE c.text
Within(s, part) == \E i \in 0..(Len(s) - Len(part)) : SubSeq(s, i + 1, i + Len(part)) = part

\* Matches at the start of a name before those inside of it, names before
\* keywords; both orders are stable.
rankOf(c, prefix) == (IF IsPrefix(prefix, SpellingOf(c)) THEN 0 ELSE 2) + (IF c.keyword THEN 1 ELSE 0)

rank(candidates, position, to) ==
  LET matched == SelectSeq(candidates, LAMBDA c : Within(SpellingOf(c), position.prefix))
      ordered == FlattenSeq([k \in 1..4 |-> SelectSeq(matched, LAMBDA c : rankOf(c, position.prefix) = k - 1)])
  IN [i \in 1..(IF Len(ordered) < MaxCandidates THEN Len(ordered) ELSE MaxCandidates) |->
        [text |-> ordered[i].text, from |-> position.from, to |-> to]]

Answers(position, offset, sc) ==
  LET inScope  == columnsInScope(position.refs, sc)
      words    == [i \in DOMAIN Keywords |-> [text |-> Keywords[i], keyword |-> TRUE]]
  IN CASE position.kind = "table"     -> rank(tables(sc) \o words, position, offset)
       [] position.kind = "column"    -> rank([i \in DOMAIN inScope |-> inScope[i].c] \o words, position, offset)
       [] position.kind = "qualified" -> rank(qualified(position, sc), position, offset)
       [] OTHER -> <<>>
Suggest(s, offset, sc) == Answers(CompletionAt(s, offset), offset, sc)

-----------------------------------------------------------------------------
(* The menu *)

Closed == [candidates |-> <<>>, selected |-> 1, top |-> 1, anchor |-> 0]
isOpen == menu.candidates # <<>>

Clamp(n, most) == IF n < 1 THEN 1 ELSE IF n > most THEN most ELSE n

MovedUnscrolled(m, to) == [m EXCEPT !.selected = Clamp(to, Len(m.candidates))]
Moved(m, to) ==
  LET at == Clamp(to, Len(m.candidates))
  IN [m EXCEPT !.selected = at,
               !.top = IF at < @ THEN at ELSE IF at >= @ + popupRows THEN at - popupRows + 1 ELSE @]

\* set: the highlight stays on the same name when it is still there.
Set(m, candidates) ==
  LET keep == IF m.candidates = <<>> THEN <<>> ELSE m.candidates[m.selected].text
      same == {i \in DOMAIN candidates : candidates[i].text = keep}
      new  == [candidates |-> candidates, selected |-> 1, top |-> 1, anchor |-> m.anchor]
  IN IF same = {} THEN new ELSE Moved(new, CHOOSE i \in same : \A j \in same : i <= j)

\* drawCompletion, which follows every event: as many rows as the pane has
\* room for at the word, none when the editor has no focus or the word is
\* scrolled out; the highlight is always one of them.
Draw(m, f) ==
  \E rows \in 0..popupRows :
    /\ rows <= Len(m.candidates) /\ (f # "editor" => rows = 0)
    /\ box' = rows
    /\ menu' = IF rows > 0 /\ m.selected >= m.top + rows THEN [m EXCEPT !.top = m.selected - rows + 1] ELSE m

Splice(from, to, new) == SubSeq(text, 1, from) \o new \o SubSeq(text, to + 1, Len(text))

Accept(c) ==
  /\ Len(Splice(c.from, c.to, c.text)) <= MaxLexemes + 1
  /\ text' = Splice(c.from, c.to, c.text)
  /\ caret' = c.from + Len(c.text)
  /\ focus' = "editor"
  /\ Draw(Closed, "editor")
  /\ UNCHANGED schema

NarrowedByPrefix(s, at) == IF isOpen /\ WordStart(s, at) = menu.anchor THEN menu ELSE Closed
\* narrowCompletion, once the editor has taken a key or a paste.
Kept(found) == IF ~isOpen \/ found = <<>> \/ found[1].from # menu.anchor THEN Closed ELSE Set(menu, found)
Narrowed(s, at) == Kept(Suggest(s, at, schema))

\* The text typed, pasted or deleted at the caret.
Edit(s, at, narrowed) ==
  /\ focus = "editor"
  /\ text' = s /\ caret' = at
  /\ Draw(narrowed, focus)
  /\ UNCHANGED <<schema, focus>>

Insert(new) == Splice(caret, caret, new)

TypeRune ==
  \E x \in Lexemes : Len(text) < MaxLexemes /\ Edit(Insert(<<x>>), caret + 1, Narrowed(Insert(<<x>>), caret + 1))
Backspace ==
  /\ caret > 0
  /\ LET s == Splice(caret - 1, caret, <<>>) IN Edit(s, caret - 1, Narrowed(s, caret - 1))
Paste ==
  \E x, y \in Lexemes :
    Len(text) + 2 <= MaxLexemes /\ Edit(Insert(<<x, y>>), caret + 2, Narrowed(Insert(<<x, y>>), caret + 2))

\* The completion key: it closes an open menu first.
Offer(found) ==
  CASE Len(found) = 0 -> Draw(Closed, focus) /\ UNCHANGED <<text, caret, schema, focus>>
    [] Len(found) = 1 -> Accept(found[1])
    [] OTHER -> /\ Draw(Set([Closed EXCEPT !.anchor = found[1].from], found), focus)
                /\ UNCHANGED <<text, caret, schema, focus>>
showCompletion == Offer(Suggest(text, caret, schema))

\* While it is open the menu has the arrows, Enter, Tab and Escape.
MoveHighlight ==
  /\ isOpen
  /\ \E step \in {0, 2} : Draw(Moved(menu, menu.selected + step - 1), focus)
  /\ UNCHANGED <<text, caret, schema, focus>>
AcceptCurrent == isOpen /\ Accept(menu.candidates[menu.selected])
Escape == isOpen /\ Draw(Closed, focus) /\ UNCHANGED <<text, caret, schema, focus>>

\* A click on a row that was drawn takes what that row showed.
ClickRow ==
  \E y \in 0..(box - 1) : isOpen /\ menu.top + y <= Len(menu.candidates) /\ Accept(menu.candidates[menu.top + y])

\* Any other key, and a press outside of the menu, close it; in the editor
\* they may move the caret.
MoveCaret ==
  /\ focus = "editor"
  /\ caret' \in 0..Len(text)
  /\ Draw(Closed, focus)
  /\ UNCHANGED <<text, schema, focus>>

\* The editor's own keys: the menu has closed before they act, and nothing is
\* selected.
MoveCursor ==
  /\ focus = "editor"
  /\ caret' \in {wordLeft(text, caret), wordRight(text, caret), lineStartAt(text, caret), lineEndAt(text, caret)}
  /\ Draw(Closed, focus)
  /\ UNCHANGED <<text, schema, focus>>

applyEdit(e) ==
  LET s == Splice(e.start, e.end, e.text)
  IN Len(s) <= MaxLexemes /\ Edit(s, e.start + Len(e.text), Closed)

EditCommand ==
  \/ applyEdit(deleteWordLeft(text, caret)) \/ applyEdit(deleteToLineStart(text, caret))
  \/ applyEdit(duplicateLines(text, caret, caret)) \/ applyEdit(deleteLines(text, caret, caret))
  \/ applyEdit(toggleComment(text, caret, caret))

Replaced(laid) ==
  IF laid.err # "none" \/ laid.out = text THEN Edit(text, caret, Closed)
  ELSE Len(laid.out) <= MaxLexemes + 1 /\ Edit(laid.out, Offset(text, laid.out, caret), Closed)
formatQuery == Replaced(FormatRange(text, Tokenize(text), 0, Len(text)))

\* The focus leaves the editor, which closes the menu, or comes back with a
\* press or a key the menu does not have.
MoveFocus ==
  /\ focus' = IF focus = "editor" THEN "elsewhere" ELSE "editor"
  /\ Draw(Closed, focus')
  /\ UNCHANGED <<text, caret, schema>>

\* A statement taken from the history's dialog, which had the focus.
Recall ==
  \E s \in Recalled :
    /\ text' = s /\ caret' = Len(s) /\ focus' = "editor"
    /\ Draw(Closed, focus')
    /\ UNCHANGED schema

SetSchema ==
  /\ schema' \in Schemas
  /\ Draw(menu, focus)
  /\ UNCHANGED <<text, caret, focus>>

Init ==
  /\ text = <<>> /\ caret = 0 /\ focus = "editor"
  /\ schema \in Schemas
  /\ menu = Closed /\ box = 0

Next ==
  \/ TypeRune \/ Backspace \/ Paste
  \/ showCompletion \/ MoveHighlight \/ AcceptCurrent \/ Escape \/ ClickRow
  \/ MoveCaret \/ MoveCursor \/ EditCommand \/ formatQuery \/ MoveFocus \/ Recall \/ SetSchema

Spec == Init /\ [][Next]_vars

-----------------------------------------------------------------------------
(* FROM lists, as they may be written, and whether they are read back. *)

Entries == {Ref(q, <<"a">>, al, FALSE) : q \in {<<>>, <<"b">>}, al \in {<<>>, <<"c">>}}
             \cup {Ref(<<>>, <<>>, <<"c">>, TRUE)}
Written(r, as) ==
  (IF r.derived THEN <<"(", "SELECT", "FROM", "d", ")">>
   ELSE IF r.schema = <<>> THEN r.name ELSE r.schema \o <<".">> \o r.name)
    \o (IF r.alias = <<>> THEN <<>> ELSE IF as THEN <<"AS">> \o r.alias ELSE <<"sp">> \o r.alias)
List(refs, as, joined) ==
  <<"SELECT", "FROM">> \o FlattenSeq([i \in DOMAIN refs |->
     (IF i = 1 THEN <<>> ELSE IF joined THEN <<"JOIN">> ELSE <<",">>) \o Written(refs[i], as)]) \o <<"WHERE", "a">>
ReadBack(refs) ==
  \A as, joined \in BOOLEAN :
    LET s == List(refs, as, joined) IN TableRefs(s, Split(s)[1]) = refs
Lists == UNION {[1..n -> Entries] : n \in 1..3}

-----------------------------------------------------------------------------
(* Properties *)

(* What accepting a candidate would overwrite is always exactly the word at  *)
(* the caret, whatever was typed, pasted or deleted since it was looked up   *)
(* (narrowCompletion, acceptCandidate).                                      *)
CandidatesAreForTheWord ==
  \A i \in DOMAIN menu.candidates :
    menu.candidates[i].from = WordStart(text, caret) /\ menu.candidates[i].to = caret

(* The highlighted candidate, which Enter accepts, is one of the rows drawn  *)
(* whenever any is, however little room there is and however the list        *)
(* narrowed (completionMenu.set and move, drawCompletion).                   *)
HighlightIsDrawn ==
  isOpen => /\ menu.selected \in DOMAIN menu.candidates
            /\ box > 0 => menu.top <= menu.selected /\ menu.selected < menu.top + box

(* The tables read from a statement are those it was written with: every     *)
(* FROM list of up to three entries, named, qualified, aliased or derived,   *)
(* gives back its entries in order, as long as a derived table is the last   *)
(* (sqlparse.TableRefs).                                                     *)
RefsAreTheTables ==
  text = <<>> /\ ~isOpen =>
    \A refs \in Lists : (\A i \in 1..(Len(refs) - 1) : ~refs[i].derived) => ReadBack(refs)

(* Violated: the same of every list.  After a derived table a comma ends     *)
(* the list (TableRefs: "lists the tables a statement reads or writes").     *)
EveryTableIsListed == text = <<>> => \A refs \in Lists : ReadBack(refs)

(* Violated: an open menu belongs to an editor that has the keyboard.  The   *)
(* completion key opens it from any pane, where nothing draws it and Enter   *)
(* writes into the text (bindCompletion: "The menu closes when the editor    *)
(* loses focus, which covers every dialog, every pane switch and every click *)
(* elsewhere at once").                                                      *)
OpenMenuHasTheKeyboard == isOpen => focus = "editor"
=============================================================================
