------------------------------- MODULE Results -------------------------------
(***************************************************************************)
(* The result buffer and the grid over it.                                 *)
(*                                                                         *)
(* A statement's rows land in the buffer from consume's goroutine as they  *)
(* arrive; everything else happens on the interface's goroutine, which     *)
(* sorts, searches, copies, saves and opens rows meanwhile.  Sorting,      *)
(* searching and rendering read the buffer many times over, and the row    *)
(* count may have grown between two reads.                                 *)
(*                                                                         *)
(* Rows are counted from one, in the buffer as in the grid, where 0 is the *)
(* header: the code's gridRow - 1 is the same row counted from zero.       *)
(***************************************************************************)
EXTENDS Ordering, FiniteSets, SequencesExt

CONSTANTS
  ColumnType, \* the declared type of each column, from the left
  Rows,       \* what a row may be
  Wanted,     \* the value searched for
  BufferMax,  \* Defaults.BufferMax
  MaxAnswer,  \* bound: rows the server has for a statement
  MaxStarts   \* bound: statements

ASSUME ColumnsAreTyped == ColumnType \in Seq(STRING) /\ ColumnType # <<>> /\ Wanted \in Cells
ASSUME SizesAreNatural == BufferMax \in Nat \ {0} /\ MaxAnswer \in Nat /\ MaxStarts \in Nat

Columns == 1..Len(ColumnType)

ASSUME RowsHaveTheColumns == Rows \subseteq [Columns -> Cells]

VARIABLES
  stream,   \* consume's goroutine, and App.running
  left,     \* rows of the answer the buffer has not been given
  starts,
  header,   \* Buffer.columns is set
  rows,     \* Buffer.rows
  sortCol, sortDesc, order, \* gridContent; column 0 and no order when unsorted
  sel,      \* the grid's selection
  dialog,   \* what is over the panes
  origin,   \* searchOrigin
  search,   \* App.search
  op, at, acc, quiet, \* what the interface is in the middle of, and since when nothing arrived
  report,   \* what the last step came to
  file      \* what is at the path a result is saved to

bufVars    == <<header, rows>>
streamVars == <<stream, left, starts>>
gridVars   == <<sortCol, sortDesc, order>>
opVars     == <<op, at, acc, quiet>>
uiVars     == <<sel, dialog, origin, search>>
vars == <<bufVars, streamVars, gridVars, opVars, uiVars, report, file>>

\* Where the selection may be, and the cells there may be.
Places  == [row : 0..(BufferMax + 1), col : Columns]
CellMax == BufferMax * Len(ColumnType)
Home    == [row |-> 1, col |-> 1]

\* The search prompt, opened by / or by ?.
Prompts == {"forward prompt", "backward prompt"}

GridTyped ==
  /\ header \in BOOLEAN
  /\ rows \in Seq(Rows) /\ Len(rows) <= BufferMax
  /\ sortCol \in {0} \cup Columns /\ sortDesc \in BOOLEAN
  /\ order \in Seq(1..BufferMax) /\ Len(order) <= BufferMax

OpTyped ==
  /\ op \in {"idle", "copy", "save", "sort", "typed", "next", "previous"}
  /\ at \in 0..(CellMax + 1)
  /\ acc \in Seq(0..BufferMax) /\ Len(acc) <= BufferMax /\ quiet \in BOOLEAN

PanesTyped ==
  /\ stream \in {"none", "sent", "rows", "over"}
  /\ left \in 0..MaxAnswer /\ starts \in 0..MaxStarts
  /\ sel \in Places /\ origin \in Places
  /\ dialog \in {"none", "formats", "path", "row"} \cup Prompts
  /\ search \in {"none", "forward", "backward"}
  /\ report \in {"none", "sorted", "unsorted", "so far", "copied", "saved", "refused",
                 "failed", "match", "no match"}
  /\ file \in {"absent", "someone's", "whole", "part"}

TypeOK == GridTyped /\ OpTyped /\ PanesTyped

Init ==
  /\ stream = "none" /\ left = 0 /\ starts = 0
  /\ header = FALSE /\ rows = <<>>
  /\ sortCol = 0 /\ sortDesc = FALSE /\ order = <<>>
  /\ sel = Home /\ dialog = "none" /\ origin = Home /\ search = "none"
  /\ op = "idle" /\ at = 0 /\ acc = <<>> /\ quiet = TRUE
  /\ report = "none"
  /\ file \in {"absent", "someone's"}

-----------------------------------------------------------------------------
(* gridContent *)

ColumnCount == IF header THEN Len(ColumnType) ELSE 0
RowCount == Len(rows)
AtCapacity == RowCount >= BufferMax
Running == stream # "none"

\* Stable: rows equal on the column stay as the server sent them.
Before(i, j, col, desc) ==
  LET c == Compare(rows[i][col], rows[j][col], OrderFor(ColumnType[col]))
  IN (IF desc THEN c > 0 ELSE c < 0) \/ (c = 0 /\ i < j)

OrderOf(col, desc) ==
  [k \in 1..RowCount |->
     CHOOSE i \in 1..RowCount :
       Cardinality({j \in 1..RowCount : Before(j, i, col, desc)}) = k - 1]

NotCovered == order = <<>>
\* The order in hand misses rows, or there is none (builtFor is its length).
Outgrown == Len(order) # RowCount

\* reorder: what order is once a reader has asked for it.
OrderNow ==
  IF sortCol = 0 \/ ColumnCount = 0 THEN <<>>
  ELSE IF Outgrown THEN OrderOf(sortCol, sortDesc) ELSE order

Reorder == order' = OrderNow

\* bufferRow and gridRow, through an order just asked for.
BufferRow(o, g) == IF g \in DOMAIN o THEN o[g] ELSE g
GridRowStays(o, b) == b
GridRow(o, b) == IF \E g \in DOMAIN o : o[g] = b THEN CHOOSE g \in DOMAIN o : o[g] = b ELSE b

Cycled(c) ==
  CASE sortCol # c -> <<c, FALSE>>
    [] sortCol = c /\ ~sortDesc -> <<c, TRUE>>
    [] OTHER -> <<0, FALSE>>

-----------------------------------------------------------------------------
(* The statement *)

ResetLater  == UNCHANGED bufVars
ResetBuffer == header' = FALSE /\ rows' = <<>>
Unsort == sortCol' = 0 /\ sortDesc' = FALSE /\ order' = <<>>

\* App.start, from the editor, the tables tab, or a batch going on: the last
\* one does not ask what is over the panes.
Start ==
  /\ ~Running /\ op = "idle" /\ starts < MaxStarts
  /\ stream' = "sent" /\ left' \in 0..MaxAnswer /\ starts' = starts + 1
  /\ ResetBuffer /\ Unsort
  /\ UNCHANGED <<opVars, uiVars, file>>

\* switchTo: the other session starts with an empty grid.
Switched ==
  /\ ~Running /\ op = "idle" /\ dialog = "none" /\ header
  /\ ResetBuffer /\ Unsort
  /\ UNCHANGED <<streamVars, opVars, uiVars, file>>

\* SetColumns, and each Append, from consume's goroutine.
Header ==
  /\ stream = "sent"
  /\ stream' = "rows" /\ header' = TRUE /\ rows' = <<>>
  /\ quiet' = (op = "idle")
  /\ UNCHANGED <<left, starts, gridVars, op, at, acc, uiVars, file>>

Append1 ==
  /\ stream = "rows" /\ left > 0
  /\ left' = left - 1
  /\ IF AtCapacity THEN UNCHANGED <<rows, quiet>>
     ELSE /\ \E r \in Rows : rows' = Append(rows, r)
          /\ quiet' = (op = "idle")
  /\ UNCHANGED <<stream, starts, header, gridVars, op, at, acc, uiVars, file>>

\* Read to the end, stopped at the cap, failed or cancelled.
StreamOver ==
  /\ stream \in {"sent", "rows"}
  /\ stream' = "over"
  /\ UNCHANGED <<left, starts, bufVars, gridVars, opVars, uiVars, file>>

\* The last update consume queues for the interface.
Finished ==
  /\ stream = "over" /\ op = "idle"
  /\ stream' = "none"
  /\ UNCHANGED <<left, starts, bufVars, gridVars, opVars, uiVars, file>>

Draw ==
  /\ op = "idle" /\ header /\ Reorder
  /\ order' # order
  /\ UNCHANGED <<bufVars, streamVars, sortCol, sortDesc, opVars, uiVars, file>>

-----------------------------------------------------------------------------
(* Moving, sorting, and reading one row *)

OpEnds == op' = "idle" /\ at' = 0 /\ acc' = <<>> /\ quiet' = TRUE

OnGrid == op = "idle" /\ dialog = "none"

Move ==
  /\ OnGrid /\ header
  /\ \E g \in 1..RowCount, c \in Columns : sel' = [row |-> g, col |-> c]
  /\ UNCHANGED <<bufVars, streamVars, gridVars, dialog, origin, search, opVars, file>>

\* sortColumn: which row the selection is on, before the order is dropped.
Sort ==
  /\ OnGrid /\ header
  /\ LET to == Cycled(sel.col)
     IN sortCol' = to[1] /\ sortDesc' = to[2]
  /\ order' = <<>>
  /\ op' = "sort" /\ at' = BufferRow(OrderNow, sel.row)
  /\ UNCHANGED <<bufVars, streamVars, uiVars, acc, quiet, file>>

\* Where it is in the new order, over the rows there are by now; the notice.
SortSelects ==
  /\ op = "sort"
  /\ Reorder
  /\ sel' = [sel EXCEPT !.row = GridRow(OrderNow, at)]
  /\ report' = CASE sortCol = 0 -> "unsorted"
                 [] sortCol # 0 /\ (AtCapacity \/ Running) -> "so far"
                 [] OTHER -> "sorted"
  /\ OpEnds
  /\ UNCHANGED <<bufVars, streamVars, sortCol, sortDesc, dialog, origin, search, file>>

\* showRow and stepRow: the row under the selection, read down the page.
ShowRow ==
  /\ op = "idle"
  /\ \/ dialog = "none" /\ UNCHANGED sel
     \/ /\ dialog = "row"
        /\ \E d \in {-1, 1} : /\ sel.row + d \in 1..RowCount
                              /\ sel' = [sel EXCEPT !.row = @ + d]
  /\ Reorder
  /\ dialog' = IF BufferRow(OrderNow, sel'.row) \in 1..RowCount THEN "row" ELSE "none"
  /\ UNCHANGED <<bufVars, streamVars, sortCol, sortDesc, origin, search, opVars, file>>

\* copyRow, and copyCell, whose key cancels while a statement is running.
CopyRow ==
  /\ OnGrid
  /\ Reorder
  /\ BufferRow(OrderNow, sel.row) \in 1..RowCount
  /\ report' = "copied"
  /\ UNCHANGED <<bufVars, streamVars, sortCol, sortDesc, opVars, uiVars, file>>

-----------------------------------------------------------------------------
(* Copying and saving the whole result *)

ShowCopyFormats ==
  /\ OnGrid /\ header
  /\ dialog' = "formats"
  /\ UNCHANGED <<bufVars, streamVars, gridVars, sel, origin, search, opVars, file>>

\* Any of the dialogs, closed without an answer.
Dismiss ==
  /\ op = "idle" /\ dialog \in {"formats", "path", "row"}
  /\ dialog' = "none"
  /\ UNCHANGED <<bufVars, streamVars, gridVars, sel, origin, search, opVars, file>>

Begin(o) ==
  /\ op' = o /\ at' = 1 /\ acc' = <<>> /\ quiet' = TRUE

\* Markdown and JSON are rendered at once; CSV asks for a path first.
ChooseFormat ==
  /\ op = "idle" /\ dialog = "formats"
  /\ \/ dialog' = "none" /\ Begin("copy")
     \/ dialog' = "path" /\ UNCHANGED opVars
  /\ UNCHANGED <<bufVars, streamVars, gridVars, sel, origin, search, file>>

ChoosePath ==
  /\ op = "idle" /\ dialog = "path"
  /\ dialog' = "none" /\ Begin("save")
  /\ UNCHANGED <<bufVars, streamVars, gridVars, sel, origin, search, file>>

\* One turn of resultText's loop: the row count and the order are asked again.
RenderRow ==
  /\ op \in {"copy", "save"} /\ at <= RowCount
  /\ Reorder
  /\ LET b == BufferRow(OrderNow, at)
     IN acc' = Append(acc, IF b \in 1..RowCount THEN b ELSE 0)
  /\ at' = at + 1
  /\ UNCHANGED <<bufVars, streamVars, sortCol, sortDesc, uiVars, op, quiet, file>>

CopyEnds ==
  /\ op = "copy" /\ at > RowCount
  /\ report' = "copied"
  /\ OpEnds
  /\ UNCHANGED <<bufVars, streamVars, gridVars, uiVars, file>>

\* O_EXCL
Creates == file = "absent"

\* writeResultFile: a file that is there is refused; one half written stays.
SaveEnds ==
  /\ op = "save" /\ at > RowCount
  /\ IF Creates
     THEN \/ file' = "whole" /\ report' = "saved"
          \/ file' \in {file, "part"} /\ report' = "failed"
     ELSE UNCHANGED file /\ report' = "refused"
  /\ OpEnds
  /\ UNCHANGED <<bufVars, streamVars, gridVars, uiVars>>

-----------------------------------------------------------------------------
(* Searching the cells *)

ShowSearch ==
  /\ OnGrid
  /\ dialog' \in Prompts /\ origin' = sel
  /\ UNCHANGED <<bufVars, streamVars, gridVars, sel, search, opVars, file>>

\* A character typed or taken away: matching starts over from the origin.
TypePattern ==
  /\ op = "idle" /\ dialog \in Prompts
  /\ \/ Begin("typed") /\ UNCHANGED sel
     \/ sel' = origin /\ UNCHANGED opVars
  /\ UNCHANGED <<bufVars, streamVars, gridVars, dialog, origin, search, file>>

\* Enter keeps the selection and what to look for next; Escape, or Enter on an
\* empty field, goes back to the origin.
EndSearch ==
  /\ op = "idle" /\ dialog \in Prompts
  /\ dialog' = "none" /\ origin' = Home
  /\ \/ search' = (IF dialog = "forward prompt" THEN "forward" ELSE "backward") /\ UNCHANGED sel
     \/ sel' = origin /\ UNCHANGED search
  /\ UNCHANGED <<bufVars, streamVars, gridVars, opVars, file>>

SearchAgain ==
  /\ OnGrid /\ search # "none"
  /\ \E o \in {"next", "previous"} : Begin(o)
  /\ UNCHANGED <<bufVars, streamVars, gridVars, uiVars, file>>

\* The number of cells is the one there was when the search began.
Seeking == op \in {"typed", "next", "previous"}
Backward == IF op = "typed" THEN dialog = "backward prompt"
            ELSE (search = "backward") # (op = "previous")

\* What the try-th look is at: the cell itself when typing, which n has to leave.
Sought(total, try) ==
  LET start == IF op = "typed" THEN origin ELSE sel
      from  == LET f == (start.row - 1) * Len(ColumnType) + start.col - 1
               IN IF f < 0 THEN 0 ELSE IF f > total - 1 THEN total - 1 ELSE f
      i     == try - 1 + (IF op = "typed" THEN 0 ELSE 1)
      k     == (from + (IF Backward THEN total - (i % total) ELSE i)) % total
  IN [row |-> k \div Len(ColumnType) + 1, col |-> (k % Len(ColumnType)) + 1]

TriesShort(total) == at > total - 1
TriesOver(total) == at > total

SearchStep ==
  /\ Seeking
  /\ LET total == IF at = 1 THEN RowCount * ColumnCount ELSE Len(acc) * Len(ColumnType)
     IN IF total = 0 \/ TriesOver(total)
        THEN /\ report' = "no match"
             /\ sel' = IF op = "typed" THEN origin ELSE sel
             /\ OpEnds /\ UNCHANGED gridVars
        ELSE LET cell  == Sought(total, at)
                 found == rows[BufferRow(OrderNow, cell.row)][cell.col] = Wanted
             IN /\ Reorder /\ UNCHANGED <<sortCol, sortDesc>>
                /\ report' = IF found THEN "match" ELSE "none"
                /\ sel' = IF found THEN cell ELSE sel
                /\ IF found THEN OpEnds
                   ELSE /\ at' = at + 1 /\ UNCHANGED <<op, quiet>>
                        /\ acc' = IF at = 1 THEN [k \in 1..RowCount |-> 0] ELSE acc
  /\ UNCHANGED <<bufVars, streamVars, dialog, origin, search, file>>

-----------------------------------------------------------------------------
Arrivals == Header \/ Append1 \/ StreamOver

Silent ==
  \/ Start \/ Switched \/ Arrivals \/ Finished \/ Draw
  \/ Move \/ Sort \/ ShowRow
  \/ ShowCopyFormats \/ Dismiss \/ ChooseFormat \/ ChoosePath \/ RenderRow
  \/ ShowSearch \/ TypePattern \/ EndSearch \/ SearchAgain

Next ==
  \/ Silent /\ report' = "none"
  \/ SortSelects \/ CopyRow \/ CopyEnds \/ SaveEnds \/ SearchStep

Spec == Init /\ [][Next]_vars

-----------------------------------------------------------------------------
(* Properties *)

Rendering == op \in {"copy", "save"}

(* A result is rendered whole and in the order the grid shows, whatever was  *)
(* sorted before and however many rows had arrived by then, as long as none  *)
(* arrives while it is being rendered.                                       *)
CopyIsWhole ==
  Rendering /\ at > RowCount /\ quiet =>
    /\ ToSet(acc) = 1..RowCount /\ Len(acc) = RowCount
    /\ \A i, j \in 1..Len(acc) : i < j =>
         IF sortCol = 0 THEN acc[i] < acc[j] ELSE Before(acc[i], acc[j], sortCol, sortDesc)

(* What is rendered is rows of the result in the buffer, also when rows or   *)
(* another statement's header arrive meanwhile.                              *)
CopiesOnlyWhatThereIs == Rendering => ToSet(acc) \subseteq 1..RowCount

(* A search finds a match wherever there is one, from any cell, either way   *)
(* and under any order; what it selects is a match.                          *)
SearchFindsWhatIsThere ==
  [][Seeking /\ op' = "idle" /\ quiet =>
       IF report' = "no match"
       THEN \A r \in 1..RowCount, c \in Columns : rows[r][c] # Wanted
       ELSE rows[BufferRow(order', sel'.row)][sel'.col] = Wanted]_vars

(* Sorting keeps the selection on the row it was on (sortColumn's comment),  *)
(* although rows arrive between the two reads of the order.                  *)
SortKeepsTheRow ==
  [][op = "sort" /\ op' = "idle" => BufferRow(order', sel'.row) = at]_vars

-----------------------------------------------------------------------------
(* What the code says of itself and does not keep: README, Disagreements.    *)

(* resultText's comment: the rows are rendered "in the order the grid shows  *)
(* it", each of them once.                                                   *)
CopyHoldsEachRowOnce == Rendering => IsInjective(acc)

(* sortNotice's comment: being at capacity and still arriving "are the two   *)
(* ways the rows in hand are not the query's answer"; otherwise the notice   *)
(* says sorted without reservation.                                          *)
SortedMeansTheAnswer ==
  [][op = "sort" /\ op' = "idle" /\ report' = "sorted" => left = 0]_vars
=============================================================================
