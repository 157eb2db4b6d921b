------------------------------ MODULE Ordering ------------------------------
(***************************************************************************)
(* How the values of one column are put in sequence (result/order.go).     *)
(* Values reach the client as bytes: what a cell reads as, a number, a     *)
(* time or neither, is given by the constants.                             *)
(***************************************************************************)
EXTENDS Integers

CONSTANTS
  Cells,     \* what a cell may hold
  Null,      \* the cell that is NULL
  Readable,  \* the cells that parse as the column's number or time
  NaNs,      \* those that parse as not a number
  Parsed,    \* the number, or the moment, of a readable cell
  Text       \* the place of a cell's formatted text among all texts

ASSUME CellsAssumption ==
  /\ Null \in Cells /\ NaNs \subseteq Readable /\ Readable \subseteq Cells
  /\ Parsed \in [Readable -> Int] /\ Text \in [Cells -> Int]

Orders == {"OrderText", "OrderNumber", "OrderTime"}

Sign(n) == IF n < 0 THEN -1 ELSE IF n > 0 THEN 1 ELSE 0

\* Families of declared types, by the words OrderFor looks for in their names.
OrderFor(type) ==
  CASE type \in {"INT", "DECIMAL", "NUMERIC", "FLOAT", "DOUBLE", "YEAR"} -> "OrderNumber"
    [] type \in {"DATE", "TIME"} -> "OrderTime"
    [] OTHER -> "OrderText"

CompareText(a, b) == Sign(Text[a] - Text[b])

\* NaN equals itself and is above everything else, "which is what sort
\* actually requires".
CompareNumber(a, b) ==
  CASE a \in NaNs /\ b \in NaNs -> 0
    [] a \in NaNs /\ b \notin NaNs -> 1
    [] a \notin NaNs /\ b \in NaNs -> -1
    [] OTHER -> Sign(Parsed[a] - Parsed[b])

\* What cannot be read sorts after what can, and then on its text.
CompareParsed(a, b) ==
  CASE a \in Readable /\ b \in Readable -> CompareNumber(a, b)
    [] a \in Readable /\ b \notin Readable -> -1
    [] a \notin Readable /\ b \in Readable -> 1
    [] OTHER -> CompareText(a, b)

\* NULL first, as in an ascending ORDER BY.
Compare(a, b, order) ==
  CASE a = Null /\ b = Null -> 0
    [] a = Null /\ b # Null -> -1
    [] a # Null /\ b = Null -> 1
    [] OTHER -> IF order = "OrderText" THEN CompareText(a, b) ELSE CompareParsed(a, b)
=============================================================================
