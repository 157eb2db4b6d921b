---------------------------- MODULE ResultsProofs ----------------------------
EXTENDS Results, SequenceTheorems, FiniteSetTheorems, TLAPS

-----------------------------------------------------------------------------
(* Compare is a total preorder on a column's values, whatever they are: what *)
(* sort.SliceStable needs of the comparison it is given.                     *)

AtMost(a, b, kind) == Compare(a, b, kind) <= 0

LEMMA CompareIsASign ==
  ASSUME NEW a \in Cells, NEW b \in Cells, NEW kind \in Orders
  PROVE  Compare(a, b, kind) \in {-1, 0, 1}
BY CellsAssumption DEF Compare, CompareText, CompareParsed, CompareNumber, Sign

(* Swapping the values swaps the answer, for NaN and unreadable text too.    *)
THEOREM CompareIsAntisymmetric ==
  ASSUME NEW a \in Cells, NEW b \in Cells, NEW kind \in Orders
  PROVE  Compare(b, a, kind) = -Compare(a, b, kind)
<1>1. CompareText(b, a) = -CompareText(a, b)
  BY CellsAssumption DEF CompareText, Sign
<1>2. a \in Readable /\ b \in Readable => CompareNumber(b, a) = -CompareNumber(a, b)
  BY CellsAssumption DEF CompareNumber, Sign
<1>3. CompareParsed(b, a) = -CompareParsed(a, b)
  BY <1>1, <1>2 DEF CompareParsed
<1> QED
  BY <1>1, <1>3 DEF Compare

(* The order is one: a value is not before one that is before it.            *)
THEOREM CompareIsTransitive ==
  ASSUME NEW a \in Cells, NEW b \in Cells, NEW c \in Cells, NEW kind \in Orders,
         AtMost(a, b, kind), AtMost(b, c, kind)
  PROVE  AtMost(a, c, kind)
<1>1. ASSUME CompareText(a, b) <= 0, CompareText(b, c) <= 0
      PROVE  CompareText(a, c) <= 0
  BY <1>1, CellsAssumption DEF CompareText, Sign
<1>2. ASSUME a \in Readable, b \in Readable, c \in Readable,
             CompareNumber(a, b) <= 0, CompareNumber(b, c) <= 0
      PROVE  CompareNumber(a, c) <= 0
  BY <1>2, CellsAssumption DEF CompareNumber, Sign
<1>3. ASSUME CompareParsed(a, b) <= 0, CompareParsed(b, c) <= 0
      PROVE  CompareParsed(a, c) <= 0
  BY <1>1, <1>2, <1>3 DEF CompareParsed
<1> QED
  BY <1>1, <1>3 DEF AtMost, Compare

-----------------------------------------------------------------------------
(* Ranks: a strict total order on 1..n puts exactly one element at each place *)

LEMMA Ranking ==
  ASSUME NEW n \in Nat, NEW R,
         \A i \in 1..n : <<i, i>> \notin R,
         \A i, j, k \in 1..n : <<i, j>> \in R /\ <<j, k>> \in R => <<i, k>> \in R,
         \A i, j \in 1..n : i # j => <<i, j>> \in R \/ <<j, i>> \in R
  PROVE  /\ \A k \in 1..n : \E i \in 1..n :
              Cardinality({j \in 1..n : <<j, i>> \in R}) = k - 1
         /\ \A i \in 1..n : Cardinality({j \in 1..n : <<j, i>> \in R}) \in 0..(n - 1)
         /\ \A i, j \in 1..n : <<i, j>> \in R =>
              Cardinality({l \in 1..n : <<l, i>> \in R})
                < Cardinality({l \in 1..n : <<l, j>> \in R})
<1> DEFINE below(i) == {j \in 1..n : <<j, i>> \in R}
           rank == [i \in 1..n |-> Cardinality(below(i))]
<1>1. IsFiniteSet(1..n) /\ Cardinality(1..n) = n
  BY FS_Interval
<1>2. IsFiniteSet(0..(n - 1)) /\ Cardinality(0..(n - 1)) = n
  BY FS_Interval
<1>3. \A i \in 1..n : IsFiniteSet(below(i)) /\ Cardinality(below(i)) \in Nat
  <2>1. ASSUME NEW i \in 1..n PROVE IsFiniteSet(below(i)) /\ Cardinality(below(i)) \in Nat
    <3>1. below(i) \in SUBSET (1..n)
      OBVIOUS
    <3> HIDE DEF below
    <3>2. IsFiniteSet(below(i))
      BY <1>1, <3>1, FS_Subset
    <3>3. QED
      BY <3>2, FS_CardinalityType
  <2>2. QED
    BY <2>1
<1>4. \A i \in 1..n : Cardinality(below(i)) \in 0..(n - 1)
  <2>1. ASSUME NEW i \in 1..n PROVE Cardinality(below(i)) \in 0..(n - 1)
    <3>1. below(i) \in SUBSET ((1..n) \ {i})
      OBVIOUS
    <3>2. IsFiniteSet((1..n) \ {i}) /\ Cardinality((1..n) \ {i}) = n - 1
      BY <1>1, FS_RemoveElement
    <3> HIDE DEF below
    <3>3. Cardinality(below(i)) <= n - 1
      BY <3>1, <3>2, FS_Subset
    <3>4. QED
      BY <1>3, <3>3
  <2>2. QED
    BY <2>1
<1>5. ASSUME NEW i \in 1..n, NEW j \in 1..n, <<i, j>> \in R
      PROVE  Cardinality(below(i)) < Cardinality(below(j))
  <2>1. below(i) \in SUBSET below(j) /\ i \in below(j) /\ i \notin below(i)
    BY <1>5
  <2> HIDE DEF below
  <2>2. Cardinality(below(i)) <= Cardinality(below(j))
    BY <1>3, <2>1, FS_Subset
  <2>3. Cardinality(below(i)) # Cardinality(below(j))
    BY <1>3, <2>1, FS_Subset
  <2>4. QED
    BY <1>3, <2>2, <2>3
<1>6. rank \in Injection(1..n, 0..(n - 1))
  <2>1. rank \in [1..n -> 0..(n - 1)]
    BY <1>4
  <2>2. \A i, j \in 1..n : rank[i] = rank[j] => i = j
    <3>1. ASSUME NEW i \in 1..n, NEW j \in 1..n, i # j PROVE rank[i] # rank[j]
      <4>1. <<i, j>> \in R \/ <<j, i>> \in R
        BY <3>1
      <4> HIDE DEF below
      <4>2. \/ Cardinality(below(i)) < Cardinality(below(j))
            \/ Cardinality(below(j)) < Cardinality(below(i))
        BY <1>5, <4>1
      <4>3. QED
        BY <1>3, <4>2
    <3>2. QED
      BY <3>1
  <2> HIDE DEF rank
  <2>3. QED
    BY <2>1, <2>2 DEF Injection, IsInjective
<1>7. rank \in Surjection(1..n, 0..(n - 1))
  BY <1>1, <1>2, <1>6, FS_Injection
<1>8. \A k \in 1..n : \E i \in 1..n : rank[i] = k - 1
  <2>1. \A t \in 0..(n - 1) : \E i \in 1..n : rank[i] = t
    BY <1>7 DEF Surjection
  <2>2. \A k \in 1..n : k - 1 \in 0..(n - 1)
    OBVIOUS
  <2> HIDE DEF rank
  <2>3. QED
    BY <2>1, <2>2
<1>9. QED
  BY <1>4, <1>5, <1>8

-----------------------------------------------------------------------------
(* The order of the rows *)

USE SizesAreNatural

RowsTyped == rows \in Seq(Rows) /\ Len(rows) <= BufferMax

LEMMA CellTypes ==
  ASSUME RowsTyped, NEW i \in 1..RowCount, NEW col \in Columns
  PROVE  rows[i][col] \in Cells /\ OrderFor(ColumnType[col]) \in Orders
<1>1. rows[i] \in [Columns -> Cells]
  BY RowsHaveTheColumns, ElementOfSeq DEF RowsTyped, RowCount
<1>2. OrderFor(ColumnType[col]) \in Orders
  BY DEF OrderFor, Orders
<1>3. QED
  BY <1>1, <1>2

(* Before is a strict total order of the rows, whatever they hold: no two    *)
(* rows tie.                                                                 *)
LEMMA BeforeIsStrict ==
  ASSUME RowsTyped, NEW col \in Columns, NEW desc \in BOOLEAN,
         NEW i \in 1..RowCount, NEW j \in 1..RowCount, NEW k \in 1..RowCount
  PROVE  /\ ~Before(i, i, col, desc)
         /\ i # j => Before(i, j, col, desc) \/ Before(j, i, col, desc)
         /\ Before(i, j, col, desc) /\ Before(j, k, col, desc) => Before(i, k, col, desc)
<1> DEFINE ord == OrderFor(ColumnType[col])
           c(x, y) == Compare(rows[x][col], rows[y][col], ord)
<1>1. \A x, y \in {i, j, k} : c(x, y) \in {-1, 0, 1} /\ c(y, x) = -c(x, y)
  BY CellTypes, CompareIsASign, CompareIsAntisymmetric
<1>2. \A x, y, z \in {i, j, k} : c(x, y) <= 0 /\ c(y, z) <= 0 => c(x, z) <= 0
  BY CellTypes, CompareIsTransitive DEF AtMost
<1>3. \A x, y \in {i, j, k} :
        Before(x, y, col, desc)
          <=> (IF desc THEN c(x, y) > 0 ELSE c(x, y) < 0) \/ (c(x, y) = 0 /\ x < y)
  BY DEF Before
<1> HIDE DEF c
<1>4. c(i, i) = 0 /\ i \in Nat /\ j \in Nat /\ k \in Nat
  BY <1>1 DEF RowsTyped, RowCount
<1>5. ~Before(i, i, col, desc)
  BY <1>3, <1>4
<1>6. i # j => Before(i, j, col, desc) \/ Before(j, i, col, desc)
  BY <1>1, <1>3, <1>4
<1>7. ASSUME Before(i, j, col, desc), Before(j, k, col, desc)
      PROVE  Before(i, k, col, desc)
  <2>1. CASE desc
    BY <1>1, <1>2, <1>3, <1>4, <1>7, <2>1
  <2>2. CASE ~desc
    BY <1>1, <1>2, <1>3, <1>4, <1>7, <2>2
  <2>3. QED
    BY <2>1, <2>2
<1>8. QED
  BY <1>5, <1>6, <1>7

(* An order that holds each of its rows once, and in the order of Before.    *)
Arranges(o, col, desc) ==
  /\ o \in Seq(1..Len(o))
  /\ \A b \in 1..Len(o) : \E g \in 1..Len(o) : o[g] = b
  /\ \A g, h \in 1..Len(o) : g < h => Before(o[g], o[h], col, desc)

(* A stable sort: the order holds every row once, and each before those that *)
(* follow it, ascending or descending, equal rows as the server sent them.   *)
THEOREM OrderIsAStableSort ==
  ASSUME RowsTyped, NEW col \in Columns, NEW desc \in BOOLEAN
  PROVE  Arranges(OrderOf(col, desc), col, desc) /\ Len(OrderOf(col, desc)) = RowCount
<1> DEFINE n == RowCount
           R == {p \in (1..n) \X (1..n) : Before(p[1], p[2], col, desc)}
           rank(i) == Cardinality({j \in 1..n : <<j, i>> \in R})
           o == OrderOf(col, desc)
<1>1. n \in Nat
  BY DEF RowsTyped, RowCount
<1>2. \A i, j \in 1..n : <<i, j>> \in R <=> Before(i, j, col, desc)
  OBVIOUS
<1>3. \A i \in 1..n : rank(i) = Cardinality({j \in 1..n : Before(j, i, col, desc)})
  <2>1. \A i \in 1..n : {j \in 1..n : <<j, i>> \in R} = {j \in 1..n : Before(j, i, col, desc)}
    BY <1>2
  <2>2. QED
    BY <2>1
<1> HIDE DEF R, n
<1>4. /\ \A i \in 1..n : <<i, i>> \notin R
      /\ \A i, j, k \in 1..n : <<i, j>> \in R /\ <<j, k>> \in R => <<i, k>> \in R
      /\ \A i, j \in 1..n : i # j => <<i, j>> \in R \/ <<j, i>> \in R
  BY <1>2, BeforeIsStrict DEF n
<1>5. /\ \A k \in 1..n : \E i \in 1..n : rank(i) = k - 1
      /\ \A i \in 1..n : rank(i) \in 0..(n - 1)
      /\ \A i, j \in 1..n : <<i, j>> \in R => rank(i) < rank(j)
  BY <1>1, <1>4, Ranking, ZenonT(30)
<1> HIDE DEF rank
<1>6. \A i, j \in 1..n : rank(i) = rank(j) => i = j
  <2>1. ASSUME NEW i \in 1..n, NEW j \in 1..n, i # j PROVE rank(i) # rank(j)
    <3>1. rank(i) \in Int /\ rank(j) \in Int
      BY <1>1, <1>5
    <3>2. rank(i) < rank(j) \/ rank(j) < rank(i)
      BY <1>4, <1>5, <2>1
    <3>3. QED
      BY <3>1, <3>2
  <2>2. QED
    BY <2>1
<1> DEFINE pick(k) == CHOOSE i \in 1..RowCount :
                        Cardinality({j \in 1..RowCount : Before(j, i, col, desc)}) = k - 1
<1>7. o = [k \in 1..n |-> pick(k)]
  BY DEF OrderOf, n
<1>8. \A k \in 1..n : pick(k) \in 1..n /\ rank(pick(k)) = k - 1
  <2>1. ASSUME NEW k \in 1..n PROVE pick(k) \in 1..n /\ rank(pick(k)) = k - 1
    <3>1. PICK i \in 1..n : rank(i) = k - 1
      BY <1>5
    <3>2. QED
      BY <1>3, <3>1 DEF n
  <2>2. QED
    BY <2>1
<1> HIDE DEF o, pick
<1>9. /\ o \in [1..n -> 1..n]
      /\ \A k \in 1..n : rank(o[k]) = k - 1
  BY <1>7, <1>8
<1>10. o \in Seq(1..n) /\ Len(o) = n
  BY <1>1, <1>9
<1>11. \A b \in 1..n : \E g \in 1..n : o[g] = b
  <2>1. ASSUME NEW b \in 1..n PROVE \E g \in 1..n : o[g] = b
    <3>1. rank(b) + 1 \in 1..n
      BY <1>1, <1>5
    <3>2. PICK g \in 1..n : g = rank(b) + 1
      BY <3>1
    <3>3. o[g] \in 1..n /\ rank(o[g]) = g - 1
      BY <1>9
    <3>4. g - 1 = rank(b)
      BY <1>5, <3>2
    <3>5. o[g] = b
      BY <1>6, <3>3, <3>4
    <3>6. QED
      BY <3>5
  <2>2. QED
    BY <2>1
<1>12. \A g, h \in 1..n : g < h => Before(o[g], o[h], col, desc)
  <2>1. ASSUME NEW g \in 1..n, NEW h \in 1..n, g < h PROVE Before(o[g], o[h], col, desc)
    <3>1. /\ o[g] \in 1..n /\ o[h] \in 1..n
          /\ rank(o[g]) = g - 1 /\ rank(o[h]) = h - 1
      BY <1>9
    <3>2. ~(<<o[h], o[g]>> \in R) /\ o[g] # o[h]
      BY <1>1, <1>5, <2>1, <3>1
    <3>3. QED
      BY <1>2, <1>4, <3>1, <3>2
  <2>2. QED
    BY <2>1
<1>13. QED
  BY <1>10, <1>11, <1>12 DEF Arranges, o, n

-----------------------------------------------------------------------------
(* The inductive invariant *)

\* A statement that was sent has no rows before its header, and a result
\* without a header has no rows and no order.
HeaderFirst ==
  /\ stream = "sent" => ~header
  /\ stream = "rows" => header
  /\ ~header => rows = <<>> /\ order = <<>>

\* The order in hand arranges the rows that were there when it was built.
OrderIsSorted ==
  order # <<>> => /\ sortCol # 0 /\ Len(order) <= RowCount
                  /\ Arranges(order, sortCol, sortDesc)

\* What is rendered so far: a row of the buffer for each turn of the loop, and
\* while nothing arrives the one the grid shows there.
RenderedSoFar ==
  Rendering =>
    /\ at \in 1..(RowCount + 1) /\ Len(acc) = at - 1
    /\ \A k \in 1..(at - 1) : acc[k] \in 1..RowCount
    /\ quiet => \A k \in 1..(at - 1) : acc[k] = BufferRow(OrderNow, k)

\* The row a sort keeps is one the selection can be on.
SortIsOfARow == op = "sort" => at <= BufferMax + 1

\* The try-th cell a search looks at, and that it is no match.
Misses(try) ==
  LET cell == Sought(RowCount * Len(ColumnType), try)
  IN rows[BufferRow(OrderNow, cell.row)][cell.col] # Wanted

\* What a search has looked at so far is no match, while nothing arrives.
LookedSoFar ==
  Seeking =>
    /\ at >= 1
    /\ at > 1 => at - 1 <= Len(acc) * Len(ColumnType)
    /\ quiet => /\ at > 1 => header /\ Len(acc) = RowCount
                /\ \A try \in 1..(at - 1) : Misses(try)

ResultsInv ==
  /\ HeaderFirst /\ OrderIsSorted
  /\ RenderedSoFar /\ SortIsOfARow /\ LookedSoFar

-----------------------------------------------------------------------------
(* The order a reader gets *)

LEMMA TypedRows == ASSUME GridTyped PROVE RowsTyped /\ RowCount \in 0..BufferMax
<1>1. RowsTyped
  BY DEF GridTyped, RowsTyped
<1>2. Len(rows) \in Nat /\ Len(rows) <= BufferMax
  BY <1>1 DEF RowsTyped
<1>3. QED
  BY <1>1, <1>2 DEF RowCount

\* Reading the grid's rows through an order of them.
Permutes(o) ==
  /\ \A g \in 1..RowCount : BufferRow(o, g) \in 1..RowCount
  /\ \A b \in 1..RowCount : \E g \in 1..RowCount : BufferRow(o, g) = b

\* Asked for the order, the grid gives none of an unsorted result and else one
\* that arranges every row there is.
LEMMA OrderNowIs ==
  ASSUME GridTyped, HeaderFirst, OrderIsSorted
  PROVE  /\ OrderNow \in Seq(1..BufferMax) /\ Len(OrderNow) <= BufferMax
         /\ IF sortCol = 0 \/ ~header THEN OrderNow = <<>>
            ELSE Arranges(OrderNow, sortCol, sortDesc) /\ Len(OrderNow) = RowCount
<1>1. ColumnCount = 0 <=> ~header
  BY ColumnsAreTyped, EmptySeq DEF ColumnCount, GridTyped
<1>2. CASE sortCol = 0 \/ ~header
  <2>1. OrderNow = <<>>
    BY <1>1, <1>2 DEF OrderNow
  <2>2. <<>> \in Seq(1..BufferMax) /\ Len(<<>>) = 0
    OBVIOUS
  <2>3. QED
    BY <1>2, <2>1, <2>2
<1>3. CASE ~(sortCol = 0 \/ ~header)
  <2>1. sortCol \in Columns /\ sortDesc \in BOOLEAN /\ RowsTyped
    BY <1>3, TypedRows DEF GridTyped
  <2>2. RowCount \in Nat /\ RowCount <= BufferMax
    BY <2>1 DEF RowsTyped, RowCount
  <2>3. CASE Outgrown
    <3>1. OrderNow = OrderOf(sortCol, sortDesc)
      BY <1>1, <1>3, <2>3 DEF OrderNow
    <3>2. Arranges(OrderNow, sortCol, sortDesc) /\ Len(OrderNow) = RowCount
      BY <2>1, <3>1, OrderIsAStableSort
    <3> HIDE DEF OrderNow
    <3>3. OrderNow \in Seq(1..RowCount)
      BY <3>2 DEF Arranges
    <3>4. OrderNow \in Seq(1..BufferMax)
      BY <2>2, <3>3
    <3>5. QED
      BY <1>3, <2>2, <3>2, <3>4
  <2>4. CASE ~Outgrown
    <3>1. OrderNow = order /\ Len(order) = RowCount
      BY <1>1, <1>3, <2>4 DEF OrderNow, Outgrown
    <3>2. CASE order # <<>>
      BY <1>3, <3>1, <3>2 DEF OrderIsSorted, GridTyped
    <3>3. CASE order = <<>>
      BY <1>3, <3>1, <3>3, EmptySeq DEF Arranges
    <3>4. QED
      BY <3>2, <3>3
  <2>5. QED
    BY <2>3, <2>4
<1>4. QED
  BY <1>2, <1>3

\* So each row of the grid is a row of the buffer, and each of those is shown.
LEMMA EveryRowIsShown ==
  ASSUME GridTyped, HeaderFirst, OrderIsSorted
  PROVE  Permutes(OrderNow)
<1>1. RowCount \in Nat
  BY DEF GridTyped, RowCount
<1>2. CASE sortCol = 0 \/ ~header
  <2>1. OrderNow = <<>>
    BY <1>2, OrderNowIs
  <2>2. \A g \in 1..RowCount : BufferRow(OrderNow, g) = g
    BY <2>1 DEF BufferRow
  <2>3. QED
    BY <2>2 DEF Permutes
<1>3. CASE ~(sortCol = 0 \/ ~header)
  <2>1. Arranges(OrderNow, sortCol, sortDesc) /\ Len(OrderNow) = RowCount
    BY <1>3, OrderNowIs
  <2> HIDE DEF OrderNow
  <2>2. OrderNow \in [1..RowCount -> 1..RowCount]
    <3>1. \A g \in 1..Len(OrderNow) : OrderNow[g] \in 1..Len(OrderNow)
      BY <2>1, ElementOfSeq DEF Arranges
    <3>2. OrderNow = [g \in 1..Len(OrderNow) |-> OrderNow[g]]
      BY <2>1 DEF Arranges
    <3>3. QED
      BY <2>1, <3>1, <3>2
  <2>3. ASSUME NEW g \in 1..RowCount PROVE BufferRow(OrderNow, g) = OrderNow[g]
    BY <2>2 DEF BufferRow
  <2>4. \A b \in 1..RowCount : \E g \in 1..RowCount : OrderNow[g] = b
    BY <2>1 DEF Arranges
  <2>5. \A b \in 1..RowCount : \E g \in 1..RowCount : BufferRow(OrderNow, g) = b
    BY <2>3, <2>4
  <2>6. \A g \in 1..RowCount : BufferRow(OrderNow, g) \in 1..RowCount
    BY <2>2, <2>3
  <2>7. QED
    BY <2>5, <2>6 DEF Permutes
<1>4. QED
  BY <1>2, <1>3

\* Asked again, with no row come meanwhile, it is the same.
LEMMA OrderNowStays ==
  ASSUME GridTyped, HeaderFirst, OrderIsSorted,
         UNCHANGED <<header, rows, sortCol, sortDesc>>, order' \in {order, OrderNow}
  PROVE  OrderNow' = OrderNow
<1>1. ColumnCount' = ColumnCount /\ RowCount' = RowCount
  BY DEF ColumnCount, RowCount
<1>2. OrderOf(sortCol, sortDesc)' = OrderOf(sortCol, sortDesc)
  BY <1>1 DEF OrderOf, Before, RowCount
<1>3. CASE order' = order
  BY <1>1, <1>2, <1>3 DEF OrderNow, Outgrown
<1>4. CASE order' = OrderNow
  <2>1. CASE sortCol = 0 \/ ColumnCount = 0
    BY <1>1, <2>1 DEF OrderNow
  <2>2. CASE ~(sortCol = 0 \/ ColumnCount = 0)
    <3>1. header
      BY <2>2 DEF ColumnCount, GridTyped
    <3>2. Len(OrderNow) = RowCount
      BY <2>2, <3>1, OrderNowIs
    <3>3. ~Outgrown'
      BY <1>1, <1>4, <3>2 DEF Outgrown
    <3>4. OrderNow' = order'
      BY <1>1, <2>2, <3>3 DEF OrderNow
    <3>5. QED
      BY <1>4, <3>4
  <2>3. QED
    BY <2>1, <2>2
<1>5. QED
  BY <1>3, <1>4

\* Nor does it stop being sorted when it is dropped, kept or asked for.
LEMMA StaysSorted ==
  ASSUME GridTyped, HeaderFirst, OrderIsSorted,
         UNCHANGED <<header, rows, sortCol, sortDesc>>, order' \in {order, OrderNow}
  PROVE  OrderIsSorted' /\ (~header => order' = <<>>)
<1>1. RowCount' = RowCount /\ RowCount \in Nat
  BY DEF RowCount, GridTyped
<1>2. \A i, j : Before(i, j, sortCol, sortDesc)' <=> Before(i, j, sortCol, sortDesc)
  BY DEF Before
<1>3. CASE order' = order
  BY <1>1, <1>3 DEF OrderIsSorted, HeaderFirst, Arranges, Before
<1>4. CASE order' = OrderNow
  <2>1. order' # <<>> => /\ sortCol # 0 /\ header
                         /\ Len(order') = RowCount
                         /\ Arranges(order', sortCol, sortDesc)
    BY <1>4, OrderNowIs
  <2>2. CASE order' = <<>>
    BY <2>2 DEF OrderIsSorted
  <2>3. CASE order' # <<>>
    <3>1. /\ order' \in Seq(1..Len(order'))
          /\ \A b \in 1..Len(order') : \E g \in 1..Len(order') : order'[g] = b
          /\ \A g, h \in 1..Len(order') :
               g < h => Before(order'[g], order'[h], sortCol, sortDesc)
      BY <2>1, <2>3 DEF Arranges
    <3>2. Arranges(order, sortCol, sortDesc)'
      BY <3>1, <1>2 DEF Arranges
    <3>3. QED
      BY <1>1, <2>1, <2>3, <3>2 DEF OrderIsSorted
  <2>4. QED
    BY <2>1, <2>2, <2>3
<1>5. QED
  BY <1>3, <1>4

\* A row that arrives leaves the order of those there were.
LEMMA ArrivalStaysSorted ==
  ASSUME GridTyped, OrderIsSorted, NEW r \in Rows, rows' = Append(rows, r),
         UNCHANGED <<sortCol, sortDesc, order>>
  PROVE  OrderIsSorted'
<1>1. /\ Len(rows') = Len(rows) + 1 /\ Len(rows) \in Nat
      /\ \A i \in 1..Len(rows) : rows'[i] = rows[i]
  BY DEF GridTyped
<1>2. CASE order = <<>>
  BY <1>2 DEF OrderIsSorted
<1>3. CASE order # <<>>
  <2>1. Len(order) <= Len(rows) /\ Arranges(order, sortCol, sortDesc) /\ sortCol # 0
    BY <1>3 DEF OrderIsSorted, RowCount
  <2>2. \A g \in 1..Len(order) : order[g] \in 1..Len(order)
    BY <2>1, ElementOfSeq DEF Arranges
  <2>3. \A g \in 1..Len(order) : rows'[order[g]] = rows[order[g]]
    BY <1>1, <2>1, <2>2 DEF GridTyped
  <2>4. \A g, h \in 1..Len(order) : g < h => Before(order[g], order[h], sortCol, sortDesc)'
    <3>1. ASSUME NEW g \in 1..Len(order), NEW h \in 1..Len(order), g < h
          PROVE  Before(order[g], order[h], sortCol, sortDesc)'
      <4>1. Before(order[g], order[h], sortCol, sortDesc)
        BY <2>1, <3>1 DEF Arranges
      <4>2. rows'[order[g]] = rows[order[g]] /\ rows'[order[h]] = rows[order[h]]
        BY <2>3, <3>1
      <4>3. QED
        BY <1>1, <4>1, <4>2 DEF Before
    <3>2. QED
      BY <3>1
  <2>6. Arranges(order, sortCol, sortDesc)'
    BY <2>1, <2>4 DEF Arranges
  <2>7. QED
    BY <1>1, <2>1, <2>6 DEF OrderIsSorted, RowCount, GridTyped
<1>4. QED
  BY <1>2, <1>3

-----------------------------------------------------------------------------
(* Typing *)

\* The dimensions of the grid, as the numbers they are.
LEMMA Widths ==
  /\ Len(ColumnType) \in Nat /\ Len(ColumnType) >= 1 /\ 1 \in Columns
  /\ Home \in Places
  /\ CellMax \in Nat /\ BufferMax <= CellMax
<1>1. Len(ColumnType) \in Nat /\ Len(ColumnType) >= 1
  BY ColumnsAreTyped, EmptySeq
<1>2. \A m, n \in Nat : n >= 1 => m <= m * n
  BY Z3
<1>3. BufferMax <= BufferMax * Len(ColumnType)
  BY <1>1, <1>2
<1>4. BufferMax * Len(ColumnType) \in Nat
  BY <1>1
<1>5. QED
  BY <1>1, <1>3, <1>4 DEF Columns, Home, Places, CellMax

-----------------------------------------------------------------------------
(* Cells in a line: cell k of rows C wide is in row k \div C, column k % C    *)

LEMMA Mono ==
  ASSUME NEW a \in Nat, NEW b \in Nat, NEW C \in Nat, a <= b
  PROVE  C * a <= C * b
OBVIOUS

LEMMA Euclid ==
  ASSUME NEW k \in Nat, NEW C \in Nat \ {0}
  PROVE  k \div C \in Nat /\ k % C \in 0..(C - 1) /\ k = C * (k \div C) + (k % C)
<1> DEFINE q == k \div C
           r == k % C
<1>1. q \in Int /\ r \in 0..(C - 1) /\ q >= 0
  <2>1. q \in Int
    OBVIOUS
  <2>2. r \in 0..(C - 1)
    OBVIOUS
  <2>3. q >= 0
    BY <2>1
  <2>4. QED
    BY <2>1, <2>2, <2>3
<1>2. k - r = C * q
  <2>1. k \in Int /\ C \in Int /\ C > 0
    OBVIOUS
  <2>2. QED
    BY <2>1, SMT
<1> HIDE DEF q, r
<1>3. q \in Nat /\ r \in 0..(C - 1) /\ k = C * q + r
  BY <1>1, <1>2
<1>4. QED
  BY <1>3 DEF q, r

LEMMA Unique ==
  ASSUME NEW C \in Nat \ {0}, NEW q \in Nat, NEW r \in 0..(C - 1),
         NEW p \in Nat, NEW s \in 0..(C - 1), C * q + r = C * p + s
  PROVE  q = p /\ r = s
<1>1. CASE q < p
  <2>1. C * (q + 1) <= C * p
    BY <1>1, Mono
  <2>2. C * (q + 1) = C * q + C
    OBVIOUS
  <2>3. QED
    BY <2>1, <2>2
<1>2. CASE p < q
  <2>1. C * (p + 1) <= C * q
    BY <1>2, Mono
  <2>2. C * (p + 1) = C * p + C
    OBVIOUS
  <2>3. QED
    BY <2>1, <2>2
<1>3. CASE p = q
  BY <1>3
<1>4. QED
  BY <1>1, <1>2, <1>3

LEMMA Divided ==
  ASSUME NEW C \in Nat \ {0}, NEW q \in Nat, NEW r \in 0..(C - 1)
  PROVE  (C * q + r) \div C = q /\ (C * q + r) % C = r
<1> DEFINE k == C * q + r
<1>1. k \in Nat
  <2>1. C * q \in Nat
    OBVIOUS
  <2>2. QED
    BY <2>1
<1>2. k \div C \in Nat /\ k % C \in 0..(C - 1) /\ k = C * (k \div C) + (k % C)
  <2> HIDE DEF k
  <2>1. QED
    BY <1>1, Euclid, ZenonT(30)
<1>3. QED
  BY <1>2, Unique, SMTT(30)

LEMMA InRange ==
  ASSUME NEW k \in Nat, NEW C \in Nat \ {0}, NEW n \in Nat, k < C * n
  PROVE  k \div C < n
<1>1. SUFFICES ASSUME n <= k \div C PROVE FALSE
  BY Euclid
<1>2. C * n <= C * (k \div C)
  BY Euclid, <1>1, Mono
<1>3. C * n \in Nat /\ C * (k \div C) \in Nat
  BY Euclid
<1>4. QED
  BY Euclid, <1>2, <1>3

LEMMA AroundOnce ==
  ASSUME NEW t \in Nat \ {0}, NEW k \in 0..(t - 1)
  PROVE  k % t = k /\ (k + t) % t = k /\ t % t = 0
<1>1. k = t * 0 + k /\ k + t = t * 1 + k /\ t = t * 1 + 0 /\ 0 \in 0..(t - 1)
  OBVIOUS
<1>2. (t * 0 + k) % t = k /\ (t * 1 + k) % t = k /\ (t * 1 + 0) % t = 0
  BY Divided
<1>3. QED
  BY <1>1, <1>2

\* From any of t cells in a ring, t steps either way come by each of them.
LEMMA Around ==
  ASSUME NEW t \in Nat \ {0}, NEW from \in 0..(t - 1), NEW k \in 0..(t - 1)
  PROVE  /\ \E i \in 0..(t - 1) : (from + i) % t = k
         /\ \E i \in 0..(t - 1) : (from + (t - i)) % t = k
<1>1. \E i \in 0..(t - 1) : from + i \in {k, k + t}
  <2>1. CASE k >= from
    <3>1. k - from \in 0..(t - 1) /\ from + (k - from) = k
      BY <2>1
    <3>2. QED
      BY <3>1
  <2>2. CASE k < from
    <3>1. (k - from) + t \in 0..(t - 1) /\ from + ((k - from) + t) = k + t
      BY <2>2
    <3>2. QED
      BY <3>1
  <2>3. QED
    BY <2>1, <2>2
<1>2. \E i \in 0..(t - 1) : from + (t - i) \in {k, k + t}
  <2>1. CASE k > from
    <3>1. (from - k) + t \in 0..(t - 1) /\ from + (t - ((from - k) + t)) = k
      BY <2>1
    <3>2. QED
      BY <3>1
  <2>2. CASE k <= from
    <3>1. from - k \in 0..(t - 1) /\ from + (t - (from - k)) = k + t
      BY <2>2
    <3>2. QED
      BY <3>1
  <2>3. QED
    BY <2>1, <2>2
<1>3. \A m \in {k, k + t} : m % t = k
  BY AroundOnce
<1>4. QED
  BY <1>1, <1>2, <1>3

-----------------------------------------------------------------------------
(* The cells a search goes by *)

\* TypeOK of where a search begins.
Begun == origin \in Places /\ sel \in Places

Width == Len(ColumnType)

\* Where a search begins, as a number, and the cell as one.
From(total) ==
  LET start == IF op = "typed" THEN origin ELSE sel
      f == (start.row - 1) * Width + start.col - 1
  IN IF f < 0 THEN 0 ELSE IF f > total - 1 THEN total - 1 ELSE f

CellNumber(total, i) ==
  (From(total) + (IF Backward THEN total - (i % total) ELSE i)) % total

LEMMA SoughtByNumber ==
  ASSUME NEW total, NEW try
  PROVE  LET k == CellNumber(total, try - 1 + (IF op = "typed" THEN 0 ELSE 1))
         IN Sought(total, try) = [row |-> k \div Width + 1, col |-> (k % Width) + 1]
BY DEF Sought, CellNumber, From, Width

LEMMA FromIsACell ==
  ASSUME Begun, NEW total \in Nat \ {0}
  PROVE  From(total) \in 0..(total - 1)
<1> DEFINE start == IF op = "typed" THEN origin ELSE sel
           f == (start.row - 1) * Width + start.col - 1
<1>1. start.row \in Int /\ start.col \in Int /\ Width \in Int
  BY Widths DEF Begun, Places, Columns, Width
<1>2. f \in Int
  <2>1. (start.row - 1) * Width \in Int
    BY <1>1
  <2>2. QED
    BY <1>1, <2>1
<1>3. From(total) = IF f < 0 THEN 0 ELSE IF f > total - 1 THEN total - 1 ELSE f
  BY DEF From
<1> HIDE DEF f
<1>4. QED
  BY <1>2, <1>3

LEMMA CellNumberIsACell ==
  ASSUME Begun, NEW total \in Nat \ {0}, NEW i \in Nat
  PROVE  CellNumber(total, i) \in 0..(total - 1)
<1>1. i % total \in 0..(total - 1)
  BY Euclid
<1> DEFINE m == From(total) + (IF Backward THEN total - (i % total) ELSE i)
<1>2. m \in Nat
  BY <1>1, FromIsACell
<1>3. CellNumber(total, i) = m % total
  BY DEF CellNumber
<1> HIDE DEF m
<1>4. QED
  BY <1>2, <1>3, Euclid

\* What is looked at is a cell of the rows there were.
LEMMA SoughtIsACell ==
  ASSUME Begun, NEW n \in Nat \ {0}, NEW try \in Nat \ {0}
  PROVE  Sought(n * Width, try) \in [row : 1..n, col : Columns]
<1> DEFINE total == Width * n
           i == try - 1 + (IF op = "typed" THEN 0 ELSE 1)
           k == CellNumber(total, i)
<1>1. Width \in Nat \ {0} /\ n * Width = total
  BY Widths DEF Width
<1>2. total \in Nat \ {0} /\ i \in Nat
  <2>1. Width * 1 <= Width * n /\ total \in Nat
    BY <1>1, Mono
  <2>2. QED
    BY <1>1, <2>1
<1>3. k \in 0..(total - 1)
  <2> HIDE DEF total, i
  <2>1. QED
    BY <1>2, CellNumberIsACell
<1>4. Sought(total, try) = [row |-> k \div Width + 1, col |-> (k % Width) + 1]
  BY SoughtByNumber
<1> HIDE DEF k
<1>5. k \in Nat /\ k < Width * n
  BY <1>2, <1>3
<1>6. k \div Width \in 0..(n - 1)
  <2>1. k \div Width < n
    BY <1>1, <1>5, InRange
  <2>2. k \div Width \in Nat
    BY <1>1, <1>5, Euclid
  <2>3. \A q \in Nat : q < n => q \in 0..(n - 1)
    OBVIOUS
  <2>4. QED
    BY <2>1, <2>2, <2>3
<1>7. k % Width \in 0..(Width - 1)
  BY <1>1, <1>5, Euclid
<1> HIDE DEF total
<1>8. QED
  BY <1>1, <1>4, <1>6, <1>7 DEF Columns, Width

\* Every one of them comes up by the time there are no more tries.
LEMMA EveryCellIsSought ==
  ASSUME Begun, NEW n \in Nat \ {0}, NEW r \in 1..n, NEW c \in Columns
  PROVE  \E try \in 1..(n * Width) : Sought(n * Width, try) = [row |-> r, col |-> c]
<1> DEFINE total == Width * n
           k == Width * (r - 1) + (c - 1)
<1>1. Width \in Nat \ {0} /\ n * Width = total /\ c - 1 \in 0..(Width - 1)
  BY Widths DEF Width, Columns
<1>2. r - 1 \in Nat /\ k \div Width = r - 1 /\ k % Width = c - 1
  <2>1. r - 1 \in Nat
    OBVIOUS
  <2> DEFINE q == r - 1
             s == c - 1
  <2>2. q \in Nat /\ s \in 0..(Width - 1) /\ k = Width * q + s
    BY <1>1, <2>1
  <2> HIDE DEF q, s
  <2>3. (Width * q + s) \div Width = q /\ (Width * q + s) % Width = s
    BY <1>1, <2>2, Divided
  <2>4. QED
    BY <2>1, <2>2, <2>3 DEF q, s
<1>3. total \in Nat \ {0} /\ k \in 0..(total - 1)
  <2>1. Width * ((r - 1) + 1) <= Width * n /\ Width * n \in Nat
    BY <1>1, Mono
  <2>2. Width * ((r - 1) + 1) = Width * (r - 1) + Width
    BY <1>1
  <2>3. Width * (r - 1) \in Nat
    BY <1>1
  <2>4. QED
    BY <1>1, <2>1, <2>2, <2>3
<1> HIDE DEF total, k
<1>4. \E i \in 0..(total - 1) : CellNumber(total, i) = k
  <2>1. From(total) \in 0..(total - 1)
    BY <1>3, FromIsACell
  <2>2. \A i \in 0..(total - 1) : i % total = i
    BY <1>3, AroundOnce
  <2>3. CASE Backward
    <3>1. PICK i \in 0..(total - 1) : (From(total) + (total - i)) % total = k
      BY <1>3, <2>1, Around, ZenonT(30)
    <3>2. CellNumber(total, i) = (From(total) + (total - i)) % total
      BY <2>2, <2>3 DEF CellNumber
    <3>3. QED
      BY <3>1, <3>2
  <2>4. CASE ~Backward
    <3>1. PICK i \in 0..(total - 1) : (From(total) + i) % total = k
      BY <1>3, <2>1, Around, ZenonT(30)
    <3>2. CellNumber(total, i) = (From(total) + i) % total
      BY <2>4 DEF CellNumber
    <3>3. QED
      BY <3>1, <3>2
  <2>5. QED
    BY <2>3, <2>4
<1>5. CellNumber(total, total) = CellNumber(total, 0)
  <2>1. From(total) \in 0..(total - 1)
    BY <1>3, FromIsACell
  <2>2. total % total = 0 /\ 0 % total = 0 /\ total - 0 = total /\ From(total) + 0 = From(total)
    BY <1>3, <2>1, AroundOnce
  <2>3. From(total) % total = From(total) /\ (From(total) + total) % total = From(total)
    BY <1>3, <2>1, AroundOnce
  <2>4. QED
    BY <2>2, <2>3 DEF CellNumber
<1>6. \E try \in 1..total :
        CellNumber(total, try - 1 + (IF op = "typed" THEN 0 ELSE 1)) = k
  <2>1. PICK i \in 0..(total - 1) : CellNumber(total, i) = k
    BY <1>4
  <2>2. CASE op = "typed"
    <3>1. i + 1 \in 1..total /\ (i + 1) - 1 + 0 = i
      BY <1>3
    <3>2. QED
      BY <2>1, <2>2, <3>1
  <2>3. CASE op # "typed" /\ i # 0
    <3>1. i \in 1..total /\ i - 1 + 1 = i
      BY <1>3, <2>3
    <3>2. QED
      BY <2>1, <2>3, <3>1
  <2>4. CASE op # "typed" /\ i = 0
    <3>1. total \in 1..total /\ total - 1 + 1 = total
      BY <1>3
    <3>2. QED
      BY <1>5, <2>1, <2>4, <3>1
  <2>5. QED
    BY <2>2, <2>3, <2>4
<1>7. PICK try \in 1..total :
        CellNumber(total, try - 1 + (IF op = "typed" THEN 0 ELSE 1)) = k
  BY <1>6
<1>8. Sought(total, try) = [row |-> k \div Width + 1, col |-> (k % Width) + 1]
  BY <1>7, SoughtByNumber
<1>9. Sought(total, try) = [row |-> r, col |-> c]
  BY <1>1, <1>2, <1>8 DEF Columns
<1>10. QED
  BY <1>1, <1>9

-----------------------------------------------------------------------------
(* The actions keep the types *)

LEMMA Typed ==
  ASSUME TypeOK
  PROVE  /\ GridTyped /\ RowCount \in 0..BufferMax /\ Begun
         /\ at \in Nat /\ acc \in Seq(0..BufferMax) /\ Len(acc) \in 0..BufferMax
<1>1. GridTyped /\ RowCount \in 0..BufferMax
  BY TypedRows DEF TypeOK
<1>2. Begun
  BY DEF TypeOK, PanesTyped, Begun
<1>3. at \in Nat
  BY Widths DEF TypeOK, OpTyped
<1>4. acc \in Seq(0..BufferMax)
  BY DEF TypeOK, OpTyped
<1>5. Len(acc) \in 0..BufferMax
  BY <1>4 DEF TypeOK, OpTyped
<1>6. QED
  BY <1>1, <1>2, <1>3, <1>4, <1>5

LEMMA Nothing ==
  /\ <<>> \in Seq(Rows) /\ <<>> \in Seq(1..BufferMax) /\ <<>> \in Seq(0..BufferMax)
  /\ Len(<<>>) = 0
OBVIOUS

LEMMA TypeInit == ASSUME Init PROVE TypeOK
<1>1. GridTyped
  <2>1. rows \in Seq(Rows) /\ Len(rows) <= BufferMax
    BY Nothing DEF Init
  <2>2. order \in Seq(1..BufferMax) /\ Len(order) <= BufferMax
    BY Nothing DEF Init
  <2>3. header \in BOOLEAN /\ sortCol \in {0} \cup Columns /\ sortDesc \in BOOLEAN
    BY DEF Init
  <2>4. QED
    BY <2>1, <2>2, <2>3 DEF GridTyped
<1>2. OpTyped
  BY Nothing, Widths DEF Init, OpTyped
<1>3. PanesTyped
  BY Nothing, Widths DEF Init, PanesTyped
<1>4. QED
  BY <1>1, <1>2, <1>3 DEF TypeOK

-----------------------------------------------------------------------------
(* What a step does to the grid *)

\* The order is kept or asked for, a statement or a session starts over, its
\* header comes, a row comes, or the user sorts.
LEMMA GridMoves ==
  ASSUME [Next]_vars
  PROVE  \/ /\ UNCHANGED <<header, rows, sortCol, sortDesc>> /\ order' \in {order, OrderNow}
            /\ stream' \in {stream, "over", "none"}
         \/ /\ ResetBuffer /\ Unsort
            /\ stream' \in {"sent", "none"} /\ op = "idle" /\ UNCHANGED opVars
         \/ Header \/ Append1 \/ Sort
<1> USE DEF bufVars, gridVars, streamVars, Reorder
<1>1. CASE Start
  BY <1>1 DEF Start
<1>2. CASE Switched
  BY <1>2 DEF Switched, Running
<1>3. CASE Header \/ Append1 \/ Sort
  BY <1>3
<1>4. CASE StreamOver
  BY <1>4 DEF StreamOver
<1>5. CASE Finished
  BY <1>5 DEF Finished
<1>6. CASE Draw
  BY <1>6 DEF Draw
<1>7. CASE Move
  BY <1>7 DEF Move
<1>8. CASE ShowRow
  BY <1>8 DEF ShowRow
<1>9. CASE ShowCopyFormats
  BY <1>9 DEF ShowCopyFormats
<1>10. CASE Dismiss
  BY <1>10 DEF Dismiss
<1>11. CASE ChooseFormat
  BY <1>11 DEF ChooseFormat
<1>12. CASE ChoosePath
  BY <1>12 DEF ChoosePath
<1>13. CASE RenderRow
  BY <1>13 DEF RenderRow
<1>14. CASE ShowSearch
  BY <1>14 DEF ShowSearch
<1>15. CASE TypePattern
  BY <1>15 DEF TypePattern
<1>16. CASE EndSearch
  BY <1>16 DEF EndSearch
<1>17. CASE SearchAgain
  BY <1>17 DEF SearchAgain
<1>18. CASE SortSelects
  BY <1>18 DEF SortSelects
<1>19. CASE CopyRow
  BY <1>19 DEF CopyRow
<1>20. CASE CopyEnds
  BY <1>20 DEF CopyEnds
<1>21. CASE SaveEnds
  BY <1>21 DEF SaveEnds
<1>22. CASE SearchStep
  BY <1>22 DEF SearchStep
<1>23. CASE UNCHANGED vars
  BY <1>23 DEF vars
<1>24. QED
  BY <1>1, <1>2, <1>3, <1>4, <1>5, <1>6, <1>7, <1>8, <1>9, <1>10, <1>11, <1>12, <1>13,
     <1>14, <1>15, <1>16, <1>17, <1>18, <1>19, <1>20, <1>21, <1>22, <1>23
     DEF Next, Silent, Arrivals

LEMMA GridKeepsTypes ==
  ASSUME TypeOK, ResultsInv, [Next]_vars
  PROVE  GridTyped'
<1>1. CASE UNCHANGED <<header, rows, sortCol, sortDesc>> /\ order' \in {order, OrderNow}
  <2>1. order' \in Seq(1..BufferMax) /\ Len(order') <= BufferMax
    BY <1>1, OrderNowIs DEF TypeOK, GridTyped, ResultsInv
  <2>2. QED
    BY <1>1, <2>1 DEF TypeOK, GridTyped
<1>2. CASE ResetBuffer /\ Unsort
  <2>1. rows' \in Seq(Rows) /\ Len(rows') <= BufferMax
    BY <1>2, Nothing DEF ResetBuffer
  <2>2. order' \in Seq(1..BufferMax) /\ Len(order') <= BufferMax
    BY <1>2, Nothing DEF Unsort
  <2>3. header' \in BOOLEAN /\ sortCol' \in {0} \cup Columns /\ sortDesc' \in BOOLEAN
    BY <1>2 DEF ResetBuffer, Unsort
  <2>4. QED
    BY <2>1, <2>2, <2>3 DEF GridTyped
<1>3. CASE Header
  <2>1. rows' \in Seq(Rows) /\ Len(rows') <= BufferMax
    BY <1>3, Nothing DEF Header
  <2>2. header' \in BOOLEAN /\ UNCHANGED gridVars
    BY <1>3 DEF Header
  <2>3. QED
    BY <2>1, <2>2 DEF TypeOK, GridTyped, gridVars
<1>4. CASE Append1
  <2>1. rows' \in Seq(Rows) /\ Len(rows') <= BufferMax
    <3>1. rows \in Seq(Rows) /\ Len(rows) <= BufferMax
      BY DEF TypeOK, GridTyped
    <3>2. CASE AtCapacity
      BY <1>4, <3>1, <3>2 DEF Append1
    <3>3. CASE ~AtCapacity
      <4>1. PICK r \in Rows : rows' = Append(rows, r)
        BY <1>4, <3>3 DEF Append1
      <4>2. Len(rows) < BufferMax
        BY <3>1, <3>3 DEF AtCapacity, RowCount
      <4>3. QED
        BY <3>1, <4>1, <4>2
    <3>4. QED
      BY <3>2, <3>3
  <2>2. UNCHANGED <<header, sortCol, sortDesc, order>>
    BY <1>4 DEF Append1, gridVars
  <2>3. QED
    BY <2>1, <2>2 DEF TypeOK, GridTyped
<1>5. CASE Sort
  <2>1. order' \in Seq(1..BufferMax) /\ Len(order') <= BufferMax
    BY <1>5, Nothing DEF Sort
  <2>2. sortCol' \in {0} \cup Columns /\ sortDesc' \in BOOLEAN
    <3>1. sel.col \in Columns
      BY DEF TypeOK, PanesTyped, Places
    <3>2. QED
      BY <1>5, <3>1 DEF Sort, Cycled
  <2>3. UNCHANGED <<header, rows>>
    BY <1>5 DEF Sort, bufVars
  <2>4. QED
    BY <2>1, <2>2, <2>3 DEF TypeOK, GridTyped
<1>6. QED
  BY <1>1, <1>2, <1>3, <1>4, <1>5, GridMoves


LEMMA OrderStaysSorted ==
  ASSUME TypeOK, ResultsInv, [Next]_vars
  PROVE  HeaderFirst' /\ OrderIsSorted'
<1> USE DEF TypeOK, ResultsInv
<1>1. CASE /\ UNCHANGED <<header, rows, sortCol, sortDesc>> /\ order' \in {order, OrderNow}
           /\ stream' \in {stream, "over", "none"}
  BY <1>1, StaysSorted DEF HeaderFirst
<1>2. CASE ResetBuffer /\ Unsort /\ stream' \in {"sent", "none"}
  BY <1>2 DEF ResetBuffer, Unsort, HeaderFirst, OrderIsSorted
<1>3. CASE Header
  <2>1. order = <<>>
    BY <1>3 DEF Header, HeaderFirst
  <2>2. QED
    BY <1>3, <2>1 DEF Header, HeaderFirst, OrderIsSorted, gridVars
<1>4. CASE Append1
  <2>1. header /\ UNCHANGED <<stream, header, sortCol, sortDesc, order>>
    BY <1>4 DEF Append1, HeaderFirst, gridVars
  <2>2. HeaderFirst'
    BY <1>4, <2>1 DEF HeaderFirst, GridTyped, Append1
  <2>3. CASE rows' = rows
    BY <2>1, <2>2, <2>3, StaysSorted
  <2>4. CASE rows' # rows
    <3>1. PICK r \in Rows : rows' = Append(rows, r)
      BY <1>4, <2>4 DEF Append1
    <3>2. QED
      BY <2>1, <2>2, <3>1, ArrivalStaysSorted
  <2>5. QED
    BY <2>2, <2>3, <2>4
<1>5. CASE Sort
  BY <1>5 DEF Sort, HeaderFirst, OrderIsSorted, bufVars, streamVars
<1>6. QED
  BY <1>1, <1>2, <1>3, <1>4, <1>5, GridMoves

-----------------------------------------------------------------------------
(* What a step does to what the interface is in the middle of *)

LEMMA OpMoves ==
  ASSUME [Next]_vars
  PROVE  \/ UNCHANGED opVars /\ (op = "idle" \/ UNCHANGED uiVars)
         \/ Header \/ Append1 \/ Sort \/ RenderRow \/ SearchStep
         \/ OpEnds /\ op \in {"sort", "copy", "save"}
         \/ op = "idle" /\ \E o \in {"copy", "save", "typed", "next", "previous"} : Begin(o)
<1> USE DEF uiVars, opVars
<1>1. CASE Start
  BY <1>1 DEF Start
<1>2. CASE Switched
  BY <1>2 DEF Switched
<1>3. CASE Header \/ Append1 \/ Sort \/ RenderRow \/ SearchStep
  BY <1>3
<1>4. CASE StreamOver
  BY <1>4 DEF StreamOver
<1>5. CASE Finished
  BY <1>5 DEF Finished
<1>6. CASE Draw
  BY <1>6 DEF Draw
<1>7. CASE Move
  BY <1>7 DEF Move, OnGrid
<1>8. CASE ShowRow
  BY <1>8 DEF ShowRow
<1>9. CASE ShowCopyFormats
  BY <1>9 DEF ShowCopyFormats, OnGrid
<1>10. CASE Dismiss
  BY <1>10 DEF Dismiss
<1>11. CASE ChooseFormat
  BY <1>11 DEF ChooseFormat
<1>12. CASE ChoosePath
  BY <1>12 DEF ChoosePath
<1>14. CASE ShowSearch
  BY <1>14 DEF ShowSearch, OnGrid
<1>15. CASE TypePattern
  BY <1>15 DEF TypePattern
<1>16. CASE EndSearch
  BY <1>16 DEF EndSearch
<1>17. CASE SearchAgain
  BY <1>17 DEF SearchAgain, OnGrid
<1>18. CASE SortSelects
  BY <1>18 DEF SortSelects
<1>19. CASE CopyRow
  BY <1>19 DEF CopyRow
<1>20. CASE CopyEnds
  BY <1>20 DEF CopyEnds
<1>21. CASE SaveEnds
  BY <1>21 DEF SaveEnds
<1>23. CASE UNCHANGED vars
  BY <1>23 DEF vars
<1>24. QED
  BY <1>1, <1>2, <1>3, <1>4, <1>5, <1>6, <1>7, <1>8, <1>9, <1>10, <1>11, <1>12,
     <1>14, <1>15, <1>16, <1>17, <1>18, <1>19, <1>20, <1>21, <1>23
     DEF Next, Silent, Arrivals

\* A search looks at a cell of the rows there were when it began.
LEMMA SearchLooks ==
  ASSUME TypeOK, ResultsInv, SearchStep,
         NEW total, total = IF at = 1 THEN RowCount * ColumnCount
                            ELSE Len(acc) * Len(ColumnType),
         ~(total = 0 \/ TriesOver(total))
  PROVE  /\ \E n \in 1..BufferMax : /\ n = IF at = 1 THEN RowCount ELSE Len(acc)
                                    /\ total = n * Width
                                    /\ at \in 1..total
                                    /\ Sought(total, at) \in [row : 1..n, col : Columns]
         /\ at \in 1..CellMax /\ Sought(total, at) \in Places
<1>1. at \in Nat /\ at >= 1
  BY Typed DEF ResultsInv, LookedSoFar, SearchStep
<1> DEFINE n == IF at = 1 THEN RowCount ELSE Len(acc)
<1>2. n \in 0..BufferMax
  BY Typed
<1>3. total = n * Width /\ n # 0
  BY <1>2, Widths DEF ColumnCount, Width
<1> HIDE DEF n
<1>4. n \in 1..BufferMax
  BY <1>2, <1>3
<1>5. Begun /\ n \in Nat \ {0} /\ at \in Nat \ {0}
  BY <1>1, <1>4, Typed
<1>6. Sought(total, at) \in [row : 1..n, col : Columns]
  BY <1>3, <1>5, SoughtIsACell
<1>7. at \in 1..total
  BY <1>1, <1>3, <1>4, Widths DEF TriesOver, Width
<1>8. total <= CellMax
  <2>1. Width * n <= Width * BufferMax
    BY <1>4, Widths, Mono DEF Width
  <2>2. QED
    BY <1>3, <1>4, <2>1, Widths DEF Width, CellMax
<1>9. Sought(total, at) \in Places
  BY <1>4, <1>6 DEF Places
<1>10. at \in 1..CellMax
  BY <1>7, <1>8, Widths
<1>11. QED
  BY <1>3, <1>4, <1>6, <1>7, <1>9, <1>10 DEF n

\* The step a search takes: it ends without a match, with one, or goes on.
LEMMA SearchMoves ==
  ASSUME SearchStep,
         NEW total, total = IF at = 1 THEN RowCount * ColumnCount
                            ELSE Len(acc) * Len(ColumnType)
  PROVE  /\ UNCHANGED <<bufVars, sortCol, sortDesc, streamVars, dialog, origin, search, file>>
         /\ IF total = 0 \/ TriesOver(total)
            THEN /\ report' = "no match" /\ OpEnds /\ UNCHANGED gridVars
                 /\ sel' = IF op = "typed" THEN origin ELSE sel
            ELSE /\ order' = OrderNow /\ sel' \in {sel, Sought(total, at)}
                 /\ LET cell == Sought(total, at)
                    IN IF rows[BufferRow(OrderNow, cell.row)][cell.col] = Wanted
                       THEN report' = "match" /\ sel' = cell /\ OpEnds
                       ELSE /\ report' = "none" /\ UNCHANGED <<sel, op, quiet>>
                            /\ at' = at + 1
                            /\ acc' = IF at = 1 THEN [k \in 1..RowCount |-> 0] ELSE acc
BY DEF SearchStep, Reorder, gridVars

\* Where it stops before it is out of tries is a match.
LEMMA SearchStopsOnAMatch ==
  ASSUME SearchStep, op' = "idle",
         ~LET total == IF at = 1 THEN RowCount * ColumnCount ELSE Len(acc) * Len(ColumnType)
          IN total = 0 \/ TriesOver(total)
  PROVE  report' = "match" /\ rows[BufferRow(order', sel'.row)][sel'.col] = Wanted
<1> DEFINE total == IF at = 1 THEN RowCount * ColumnCount ELSE Len(acc) * Len(ColumnType)
           cell  == Sought(total, at)
           found == rows[BufferRow(OrderNow, cell.row)][cell.col] = Wanted
<1>1. /\ order' = OrderNow /\ report' = IF found THEN "match" ELSE "none"
      /\ sel' = IF found THEN cell ELSE sel
      /\ IF found THEN OpEnds ELSE UNCHANGED op
  BY DEF SearchStep, Reorder
<1>2. op # "idle"
  BY DEF SearchStep, Seeking
<1>3. found
  <2> HIDE DEF found
  <2>1. QED
    BY <1>1, <1>2
<1> HIDE DEF cell, total
<1>4. sel' = cell /\ report' = "match"
  BY <1>1, <1>3
<1>5. QED
  BY <1>1, <1>3, <1>4

LEMMA OpKeepsTypes ==
  ASSUME TypeOK, ResultsInv, [Next]_vars
  PROVE  OpTyped'
<1>1. CASE UNCHANGED opVars
  BY <1>1 DEF TypeOK, OpTyped, opVars
<1>2. CASE Header \/ Append1
  BY <1>2 DEF TypeOK, OpTyped, Header, Append1, opVars
<1>3. CASE Sort
  <2>1. BufferRow(OrderNow, sel.row) \in 0..(BufferMax + 1)
    <3>1. OrderNow \in Seq(1..BufferMax) /\ sel.row \in 0..(BufferMax + 1)
      BY OrderNowIs DEF TypeOK, PanesTyped, Places, ResultsInv
    <3>2. DOMAIN OrderNow = 1..Len(OrderNow) /\ \A g \in 1..Len(OrderNow) : OrderNow[g] \in 1..BufferMax
      BY <3>1
    <3>3. QED
      BY <3>1, <3>2 DEF BufferRow
  <2>2. at' \in 0..(CellMax + 1)
    BY <1>3, <2>1, Widths DEF Sort
  <2>3. op' = "sort" /\ UNCHANGED <<acc, quiet>>
    BY <1>3 DEF Sort
  <2>4. QED
    BY <2>2, <2>3 DEF TypeOK, OpTyped
<1>4. CASE RenderRow
  <2>1. at <= RowCount /\ RowCount \in 0..BufferMax /\ at \in Nat
    BY <1>4, Typed DEF RenderRow
  <2>2. at' \in 0..(CellMax + 1)
    BY <1>4, <2>1, Widths DEF RenderRow
  <2>3. Len(acc) = at - 1
    BY <1>4 DEF RenderRow, Rendering, ResultsInv, RenderedSoFar
  <2>4. PICK b \in 0..BufferMax : acc' = Append(acc, b)
    BY <1>4, <2>1 DEF RenderRow
  <2>5. acc' \in Seq(0..BufferMax)
    BY <2>4, Typed
  <2>6. Len(acc') <= BufferMax
    BY <2>1, <2>3, <2>4, Typed
  <2>7. UNCHANGED <<op, quiet>>
    BY <1>4 DEF RenderRow
  <2>8. QED
    BY <2>2, <2>5, <2>6, <2>7 DEF TypeOK, OpTyped
<1>5. CASE OpEnds
  <2>1. acc' \in Seq(0..BufferMax) /\ Len(acc') <= BufferMax
    BY <1>5, Nothing DEF OpEnds
  <2>2. op' = "idle" /\ at' \in 0..(CellMax + 1) /\ quiet' \in BOOLEAN
    BY <1>5, Widths DEF OpEnds
  <2>3. QED
    BY <2>1, <2>2 DEF OpTyped
<1>6. CASE \E o \in {"copy", "save", "typed", "next", "previous"} : Begin(o)
  <2>1. acc' \in Seq(0..BufferMax) /\ Len(acc') <= BufferMax
    BY <1>6, Nothing DEF Begin
  <2>2. /\ op' \in {"copy", "save", "typed", "next", "previous"}
        /\ at' \in 0..(CellMax + 1) /\ quiet' \in BOOLEAN
    BY <1>6, Widths DEF Begin
  <2>3. QED
    BY <2>1, <2>2 DEF OpTyped
<1>7. CASE SearchStep
  <2> DEFINE total == IF at = 1 THEN RowCount * ColumnCount ELSE Len(acc) * Len(ColumnType)
  <2>1. CASE OpEnds
    BY <1>5, <2>1
  <2>2. CASE ~OpEnds
    <3>1. /\ ~(total = 0 \/ TriesOver(total))
          /\ UNCHANGED <<op, quiet>> /\ at' = at + 1
          /\ acc' = IF at = 1 THEN [k \in 1..RowCount |-> 0] ELSE acc
      BY <1>7, <2>2, SearchMoves
    <3>2. at' \in 0..(CellMax + 1)
      BY <1>7, <3>1, SearchLooks, Widths
    <3>3. acc' \in Seq(0..BufferMax) /\ Len(acc') <= BufferMax
      <4>1. /\ [k \in 1..RowCount |-> 0] \in Seq(0..BufferMax)
            /\ Len([k \in 1..RowCount |-> 0]) <= BufferMax
        BY Typed
      <4>2. QED
        BY <3>1, <4>1, Typed
    <3>4. QED
      BY <3>1, <3>2, <3>3 DEF TypeOK, OpTyped
  <2>3. QED
    BY <2>1, <2>2
<1>8. QED
  BY <1>1, <1>2, <1>3, <1>4, <1>5, <1>6, <1>7, OpMoves

\* The row sorted to is one of the grid, or where the selection was.
LEMMA GridRowIsARow ==
  ASSUME TypeOK, ResultsInv, op = "sort"
  PROVE  GridRow(OrderNow, at) \in 0..(BufferMax + 1)
<1>1. OrderNow \in Seq(1..BufferMax) /\ Len(OrderNow) <= BufferMax
  BY OrderNowIs DEF TypeOK, ResultsInv
<1>2. DOMAIN OrderNow \subseteq 1..BufferMax
  BY <1>1
<1>3. at \in 0..(BufferMax + 1)
  BY Typed DEF ResultsInv, SortIsOfARow
<1>4. QED
  BY <1>2, <1>3 DEF GridRow

LEMMA PanesKeepTypes ==
  ASSUME TypeOK, ResultsInv, [Next]_vars
  PROVE  PanesTyped'
<1> USE DEF bufVars, gridVars, streamVars, opVars, uiVars
<1>9. /\ left \in 0..MaxAnswer /\ starts \in 0..MaxStarts
      /\ sel \in Places /\ RowCount \in 0..BufferMax
  BY Typed DEF TypeOK, PanesTyped
<1>1. ASSUME Silent, report' = "none"
      PROVE  PanesTyped'
  <2>1. CASE Start
    <3>1. starts' \in 0..MaxStarts /\ left' \in 0..MaxAnswer
      BY <1>9, <2>1 DEF Start
    <3>2. QED
      BY <1>1, <2>1, <3>1 DEF Start, TypeOK, PanesTyped
  <2>2. CASE Switched
    BY <1>1, <2>2 DEF Switched, TypeOK, PanesTyped
  <2>3. CASE Header
    BY <1>1, <2>3 DEF Header, TypeOK, PanesTyped
  <2>4. CASE Append1
    <3>1. left' \in 0..MaxAnswer
      BY <1>9, <2>4 DEF Append1
    <3>2. QED
      BY <1>1, <2>4, <3>1 DEF Append1, TypeOK, PanesTyped
  <2>5. CASE StreamOver
    BY <1>1, <2>5 DEF StreamOver, TypeOK, PanesTyped
  <2>6. CASE Finished
    BY <1>1, <2>6 DEF Finished, TypeOK, PanesTyped
  <2>7. CASE Draw
    BY <1>1, <2>7 DEF Draw, TypeOK, PanesTyped
  <2>8. CASE Move
    <3>1. sel' \in Places
      <4>1. PICK g \in 1..RowCount, c \in Columns : sel' = [row |-> g, col |-> c]
        BY <2>8 DEF Move
      <4>2. g \in 0..(BufferMax + 1)
        BY <1>9
      <4>3. QED
        BY <1>9, <4>1, <4>2 DEF Places
    <3>2. QED
      BY <1>1, <2>8, <3>1 DEF Move, TypeOK, PanesTyped
  <2>9. CASE Sort
    BY <1>1, <2>9 DEF Sort, TypeOK, PanesTyped
  <2>10. CASE ShowRow
    <3>1. CASE UNCHANGED sel
      BY <1>1, <2>10, <3>1 DEF ShowRow, TypeOK, PanesTyped
    <3>2. CASE ~UNCHANGED sel
      <4>1. PICK d \in {-1, 1} : sel.row + d \in 1..RowCount /\ sel' = [sel EXCEPT !.row = @ + d]
        BY <2>10, <3>2 DEF ShowRow
      <4>2. sel.row + d \in 0..(BufferMax + 1)
        BY <1>9, <4>1 DEF Places
      <4>4. sel' \in Places
        BY <1>9, <4>1, <4>2 DEF Places
      <4>5. QED
        BY <1>1, <2>10, <4>4 DEF ShowRow, TypeOK, PanesTyped
    <3>3. QED
      BY <3>1, <3>2
  <2>11. CASE ShowCopyFormats
    BY <1>1, <2>11 DEF ShowCopyFormats, TypeOK, PanesTyped
  <2>12. CASE Dismiss
    BY <1>1, <2>12 DEF Dismiss, TypeOK, PanesTyped
  <2>13. CASE ChooseFormat
    BY <1>1, <2>13 DEF ChooseFormat, TypeOK, PanesTyped
  <2>14. CASE ChoosePath
    BY <1>1, <2>14 DEF ChoosePath, TypeOK, PanesTyped
  <2>15. CASE RenderRow
    BY <1>1, <2>15 DEF RenderRow, TypeOK, PanesTyped
  <2>16. CASE ShowSearch
    BY <1>1, <2>16 DEF ShowSearch, TypeOK, PanesTyped
  <2>17. CASE TypePattern
    BY <1>1, <2>17 DEF TypePattern, TypeOK, PanesTyped
  <2>18. CASE EndSearch
    BY <1>1, <2>18, Widths DEF EndSearch, TypeOK, PanesTyped
  <2>19. CASE SearchAgain
    BY <1>1, <2>19 DEF SearchAgain, TypeOK, PanesTyped
  <2>20. QED
    BY <1>1, <2>1, <2>2, <2>3, <2>4, <2>5, <2>6, <2>7, <2>8, <2>9, <2>10, <2>11, <2>12,
       <2>13, <2>14, <2>15, <2>16, <2>17, <2>18, <2>19 DEF Silent, Arrivals
<1>2. CASE SortSelects
  <2>1. sel' \in Places
    <3>1. sel' = [sel EXCEPT !.row = GridRow(OrderNow, at)]
      BY <1>2 DEF SortSelects
    <3>2. GridRow(OrderNow, at) \in 0..(BufferMax + 1)
      BY <1>2, GridRowIsARow DEF SortSelects
    <3>3. QED
      BY <1>9, <3>1, <3>2 DEF Places
  <2>2. report' \in {"unsorted", "so far", "sorted"}
    BY <1>2 DEF SortSelects
  <2>3. QED
    BY <1>2, <2>1, <2>2 DEF SortSelects, TypeOK, PanesTyped
<1>3. CASE CopyRow
  BY <1>3 DEF CopyRow, TypeOK, PanesTyped
<1>4. CASE CopyEnds
  BY <1>4 DEF CopyEnds, TypeOK, PanesTyped
<1>5. CASE SaveEnds
  BY <1>5 DEF SaveEnds, TypeOK, PanesTyped
<1>6. CASE SearchStep
  <2> DEFINE total == IF at = 1 THEN RowCount * ColumnCount ELSE Len(acc) * Len(ColumnType)
  <2>1. sel' \in Places
    <3>1. CASE total = 0 \/ TriesOver(total)
      BY <1>6, <3>1, SearchMoves DEF TypeOK, PanesTyped
    <3>2. CASE ~(total = 0 \/ TriesOver(total))
      <4> DEFINE cell == Sought(total, at)
      <4>1. cell \in Places
        BY <1>6, <3>2, SearchLooks
      <4>2. sel' \in {sel, cell}
        BY <1>6, <3>2, SearchMoves
      <4>3. QED
        BY <1>9, <4>1, <4>2
    <3>3. QED
      BY <3>1, <3>2
  <2>2. report' \in {"match", "none", "no match"}
    BY <1>6, SearchMoves
  <2>3. UNCHANGED <<streamVars, dialog, origin, search, file>>
    BY <1>6, SearchMoves
  <2>4. QED
    BY <2>1, <2>2, <2>3 DEF TypeOK, PanesTyped
<1>7. CASE UNCHANGED vars
  <2>1. UNCHANGED <<stream, left, starts, sel, origin, dialog, search, report, file>>
    BY <1>7 DEF vars
  <2>2. PanesTyped
    BY DEF TypeOK
  <2>3. QED
    BY <2>1, <2>2 DEF PanesTyped
<1>8. QED
  BY <1>1, <1>2, <1>3, <1>4, <1>5, <1>6, <1>7 DEF Next

-----------------------------------------------------------------------------
(* The actions keep the rest of the invariant *)

LEMMA SortStaysOfARow ==
  ASSUME TypeOK, ResultsInv, [Next]_vars
  PROVE  SortIsOfARow'
<1> USE DEF SortIsOfARow
<1>1. CASE UNCHANGED <<op, at>>
  BY <1>1 DEF ResultsInv
<1>2. CASE Sort
  <2>1. OrderNow \in Seq(1..BufferMax) /\ sel.row \in 0..(BufferMax + 1)
    BY OrderNowIs DEF TypeOK, PanesTyped, Places, ResultsInv
  <2>2. /\ DOMAIN OrderNow = 1..Len(OrderNow)
        /\ \A g \in 1..Len(OrderNow) : OrderNow[g] \in 1..BufferMax
    BY <2>1
  <2>3. BufferRow(OrderNow, sel.row) <= BufferMax + 1
    BY <2>1, <2>2 DEF BufferRow
  <2>4. QED
    BY <1>2, <2>3 DEF Sort
<1>3. CASE op' # "sort"
  BY <1>3
<1>4. CASE RenderRow \/ SearchStep
  <2>1. RenderRow => op' # "sort"
    BY DEF RenderRow
  <2>2. SearchStep => op' # "sort"
    BY DEF SearchStep, Seeking, OpEnds
  <2>3. QED
    BY <1>4, <2>1, <2>2
<1>5. QED
  BY <1>1, <1>2, <1>3, <1>4, OpMoves DEF Header, Append1, OpEnds, Begin, opVars

\* While a result is rendered or searched, the grid is not sorted nor emptied.
LEMMA GridStands ==
  ASSUME TypeOK, ResultsInv, [Next]_vars, op # "idle", ~Header,
         rows' = rows \/ ~Append1
  PROVE  /\ UNCHANGED <<header, rows, sortCol, sortDesc>> /\ OrderNow' = OrderNow
         /\ RowCount' = RowCount
<1>1. ~Sort
  BY DEF Sort, OnGrid
<1>2. UNCHANGED <<header, rows, sortCol, sortDesc>> /\ order' \in {order, OrderNow}
  <2>1. Append1 /\ rows' = rows => UNCHANGED <<header, rows, sortCol, sortDesc, order>>
    BY DEF Append1, gridVars
  <2>2. QED
    BY <1>1, <2>1, GridMoves
<1>3. OrderNow' = OrderNow
  BY <1>2, OrderNowStays DEF TypeOK, ResultsInv
<1>4. QED
  BY <1>2, <1>3 DEF RowCount

\* A row or a header that comes in the middle of something is noted.
LEMMA ArrivalsAreNoted ==
  ASSUME TypeOK, ResultsInv, op # "idle", Header \/ (Append1 /\ rows' # rows)
  PROVE  /\ UNCHANGED <<op, at, acc>> /\ quiet' = FALSE
         /\ RowCount' \in Int /\ RowCount' >= RowCount
<1>1. CASE Header
  <2>1. rows = <<>> /\ rows' = <<>>
    BY <1>1 DEF Header, ResultsInv, HeaderFirst
  <2>2. RowCount' = 0 /\ RowCount = 0
    BY <2>1, Nothing DEF RowCount
  <2>3. UNCHANGED <<op, at, acc>> /\ quiet' = (op = "idle")
    BY <1>1 DEF Header
  <2>4. quiet' = FALSE
    BY <2>3
  <2>5. RowCount' \in Int /\ RowCount' >= RowCount
    BY <2>2
  <2>6. QED
    BY <2>3, <2>4, <2>5
<1>2. CASE Append1 /\ rows' # rows
  <2>1. PICK r \in Rows : rows' = Append(rows, r)
    BY <1>2 DEF Append1
  <2>2. RowCount' = RowCount + 1 /\ RowCount \in Nat
    BY <2>1 DEF RowCount, TypeOK, GridTyped
  <2>3. UNCHANGED <<op, at, acc>> /\ quiet' = (op = "idle")
    BY <1>2 DEF Append1
  <2>4. quiet' = FALSE
    BY <2>3
  <2>5. RowCount' \in Int /\ RowCount' >= RowCount
    BY <2>2
  <2>6. QED
    BY <2>3, <2>4, <2>5
<1>3. QED
  BY <1>1, <1>2

LEMMA RenderedStays ==
  ASSUME TypeOK, ResultsInv, [Next]_vars
  PROVE  RenderedSoFar'
<1> SUFFICES ASSUME Rendering'
             PROVE  /\ at' \in 1..(RowCount' + 1) /\ Len(acc') = at' - 1
                    /\ \A k \in 1..(at' - 1) : acc'[k] \in 1..RowCount'
                    /\ quiet' => \A k \in 1..(at' - 1) : acc'[k] = BufferRow(OrderNow', k)
  BY DEF RenderedSoFar, BufferRow
<1>0. RowCount \in 0..BufferMax
  BY Typed
<1>1. CASE \E o \in {"copy", "save", "typed", "next", "previous"} : Begin(o)
  <2>1. at' = 1 /\ acc' = <<>> /\ Len(<<>>) = 0
    BY <1>1 DEF Begin
  <2>3. at' \in 1..(RowCount' + 1) /\ Len(acc') = at' - 1
    <3>1. rows' \in Seq(Rows)
      BY GridKeepsTypes DEF GridTyped
    <3>2. QED
      BY <2>1, <3>1 DEF RowCount
  <2>4. \A k \in 1..(at' - 1) : FALSE
    BY <2>1
  <2>5. QED
    BY <2>3, <2>4
<1>2. ASSUME Rendering, UNCHANGED opVars \/ Header \/ Append1
      PROVE  /\ at' \in 1..(RowCount' + 1) /\ Len(acc') = at' - 1
             /\ \A k \in 1..(at' - 1) : acc'[k] \in 1..RowCount'
             /\ quiet' => \A k \in 1..(at' - 1) : acc'[k] = BufferRow(OrderNow', k)
  <2>1. op # "idle"
    BY <1>2 DEF Rendering
  <2>2. /\ at \in 1..(RowCount + 1) /\ Len(acc) = at - 1
        /\ \A k \in 1..(at - 1) : acc[k] \in 1..RowCount
        /\ quiet => \A k \in 1..(at - 1) : acc[k] = BufferRow(OrderNow, k)
    BY <1>2 DEF ResultsInv, RenderedSoFar
  <2>3. CASE Header \/ (Append1 /\ rows' # rows)
    <3>1. /\ UNCHANGED <<op, at, acc>> /\ quiet' = FALSE
          /\ RowCount' \in Int /\ RowCount' >= RowCount
      BY <2>1, <2>3, ArrivalsAreNoted
    <3>2. at' \in 1..(RowCount' + 1) /\ Len(acc') = at' - 1
      BY <1>0, <2>2, <3>1 DEF RowCount
    <3>3. \A k \in 1..(at' - 1) : acc'[k] \in 1..RowCount'
      BY <1>0, <2>2, <3>1
    <3>4. QED
      BY <3>1, <3>2, <3>3
  <2>4. CASE ~(Header \/ (Append1 /\ rows' # rows))
    <3>1. OrderNow' = OrderNow /\ RowCount' = RowCount
      BY <2>1, <2>4, GridStands
    <3>2. UNCHANGED opVars
      BY <1>2, <2>4 DEF Append1, opVars
    <3>3. QED
      BY <2>2, <3>1, <3>2 DEF opVars
  <2>5. QED
    BY <2>3, <2>4
<1>3. CASE RenderRow
  <2>1. Rendering /\ op # "idle" /\ ~Header /\ ~Append1
    BY <1>3 DEF RenderRow, Rendering, Header, Append1, streamVars
  <2>2. /\ OrderNow' = OrderNow /\ RowCount' = RowCount
        /\ at' = at + 1 /\ at <= RowCount /\ quiet' = quiet
        /\ acc' = Append(acc, IF BufferRow(OrderNow, at) \in 1..RowCount
                              THEN BufferRow(OrderNow, at) ELSE 0)
    <3>1. OrderNow' = OrderNow /\ RowCount' = RowCount
      BY <2>1, GridStands
    <3>2. QED
      BY <1>3, <3>1 DEF RenderRow
  <2>3. /\ at \in 1..(RowCount + 1) /\ Len(acc) = at - 1
        /\ \A k \in 1..(at - 1) : acc[k] \in 1..RowCount
        /\ quiet => \A k \in 1..(at - 1) : acc[k] = BufferRow(OrderNow, k)
    BY <2>1 DEF ResultsInv, RenderedSoFar
  <2>4. BufferRow(OrderNow, at) \in 1..RowCount
    BY <1>0, <2>2, <2>3, EveryRowIsShown DEF Permutes, TypeOK, ResultsInv
  <2> DEFINE b == BufferRow(OrderNow, at)
  <2>5. acc' = Append(acc, b) /\ acc \in Seq(0..BufferMax) /\ b \in 0..BufferMax
    BY <1>0, <2>2, <2>4, Typed
  <2>6. /\ Len(acc') = at /\ acc'[at] = b
        /\ \A k \in 1..(at - 1) : acc'[k] = acc[k]
    <3> HIDE DEF b
    <3>1. QED
      BY <2>3, <2>5
  <2>7. QED
    BY <1>0, <2>2, <2>3, <2>4, <2>6
<1>4. CASE Sort \/ SearchStep \/ OpEnds
  BY <1>4 DEF Sort, SearchStep, Seeking, OpEnds, Rendering
<1>5. QED
  BY <1>1, <1>2, <1>3, <1>4, OpMoves DEF Header, Append1, opVars, Rendering

LEMMA MissesStays ==
  ASSUME UNCHANGED <<op, sel, origin, dialog, search, rows>>, OrderNow' = OrderNow, NEW try
  PROVE  Misses(try)' <=> Misses(try)
BY DEF Misses, Sought, Backward, RowCount

LEMMA LookedStays ==
  ASSUME TypeOK, ResultsInv, [Next]_vars
  PROVE  LookedSoFar'
<1> SUFFICES ASSUME Seeking'
             PROVE  /\ at' >= 1
                    /\ at' > 1 => at' - 1 <= Len(acc') * Len(ColumnType)
                    /\ quiet' => /\ at' > 1 => header' /\ Len(acc') = RowCount'
                                 /\ \A try \in 1..(at' - 1) : Misses(try)'
  BY DEF LookedSoFar
<1>0. RowCount \in 0..BufferMax /\ at \in Nat
  BY Typed
<1>1. CASE \E o \in {"copy", "save", "typed", "next", "previous"} : Begin(o)
  <2>1. at' = 1
    BY <1>1 DEF Begin
  <2>2. QED
    BY <2>1
<1>2. ASSUME Seeking,
             (UNCHANGED opVars /\ (op = "idle" \/ UNCHANGED uiVars)) \/ Header \/ Append1
      PROVE  /\ at' >= 1
             /\ at' > 1 => at' - 1 <= Len(acc') * Len(ColumnType)
             /\ quiet' => /\ at' > 1 => header' /\ Len(acc') = RowCount'
                          /\ \A try \in 1..(at' - 1) : Misses(try)'
  <2>1. op # "idle"
    BY <1>2 DEF Seeking
  <2>2. /\ at >= 1
        /\ at > 1 => at - 1 <= Len(acc) * Len(ColumnType)
        /\ quiet => /\ at > 1 => header /\ Len(acc) = RowCount
                    /\ \A try \in 1..(at - 1) : Misses(try)
    BY <1>2 DEF ResultsInv, LookedSoFar
  <2>3. CASE Header \/ (Append1 /\ rows' # rows)
    <3>1. UNCHANGED <<op, at, acc>> /\ quiet' = FALSE
      BY <2>1, <2>3, ArrivalsAreNoted
    <3>2. QED
      BY <2>2, <3>1
  <2>4. CASE ~(Header \/ (Append1 /\ rows' # rows))
    <3>1. OrderNow' = OrderNow /\ RowCount' = RowCount /\ UNCHANGED <<header, rows>>
      BY <2>1, <2>4, GridStands
    <3>2. UNCHANGED <<op, at, acc, quiet, sel, dialog, origin, search>>
      BY <1>2, <2>1, <2>4 DEF Append1, opVars, uiVars
    <3>3. \A try : Misses(try)' <=> Misses(try)
      BY <3>1, <3>2, MissesStays
    <3>4. QED
      BY <2>2, <3>1, <3>2, <3>3
  <2>5. QED
    BY <2>3, <2>4
<1>3. CASE SearchStep
  <2> DEFINE total == IF at = 1 THEN RowCount * ColumnCount ELSE Len(acc) * Len(ColumnType)
  <2>1. ~OpEnds
    BY DEF OpEnds, Seeking
  <2>2. ~(total = 0 \/ TriesOver(total))
    BY <1>3, <2>1, SearchMoves
  <2>3. /\ UNCHANGED <<bufVars, dialog, origin, search>> /\ order' = OrderNow
        /\ sortCol' = sortCol /\ sortDesc' = sortDesc
        /\ UNCHANGED <<sel, op, quiet>> /\ at' = at + 1
        /\ acc' = IF at = 1 THEN [k \in 1..RowCount |-> 0] ELSE acc
        /\ LET cell == Sought(total, at)
           IN rows[BufferRow(OrderNow, cell.row)][cell.col] # Wanted
    BY <1>3, <2>1, <2>2, SearchMoves
  <2>4. Seeking /\ UNCHANGED <<header, rows>> /\ RowCount' = RowCount /\ OrderNow' = OrderNow
    BY <1>3, <2>3, OrderNowStays DEF SearchStep, RowCount, bufVars, TypeOK, ResultsInv
  <2>5. PICK n \in 1..BufferMax : /\ n = IF at = 1 THEN RowCount ELSE Len(acc)
                                  /\ total = n * Width /\ at \in 1..total
    BY <1>3, <2>2, SearchLooks
  <2>6. Len(acc') = n
    <3>1. Len([k \in 1..RowCount |-> 0]) = RowCount
      BY <1>0
    <3>2. QED
      BY <2>3, <2>5, <3>1
  <2>7. at' >= 1 /\ at' - 1 <= Len(acc') * Len(ColumnType)
    BY <1>0, <2>3, <2>5, <2>6 DEF Width
  <2>8. ASSUME quiet
        PROVE  header /\ Len(acc') = RowCount /\ \A try \in 1..at : Misses(try)
    <3>1. header
      <4>1. CASE at = 1
        BY <1>0, <2>2, <4>1 DEF ColumnCount
      <4>2. CASE at # 1
        BY <1>0, <2>4, <2>8, <4>2 DEF ResultsInv, LookedSoFar
      <4>3. QED
        BY <4>1, <4>2
    <3>2. n = RowCount
      BY <1>0, <2>4, <2>5, <2>8 DEF ResultsInv, LookedSoFar
    <3>3. total = RowCount * Len(ColumnType)
      BY <2>5, <3>2 DEF Width
    <3> HIDE DEF total
    <3>4. Misses(at)
      BY <2>3, <3>3 DEF Misses
    <3>5. \A try \in 1..(at - 1) : Misses(try)
      BY <2>4, <2>8 DEF ResultsInv, LookedSoFar
    <3>6. \A try \in 1..at : try \in 1..(at - 1) \/ try = at
      BY <1>0
    <3>7. QED
      BY <2>6, <3>1, <3>2, <3>4, <3>5, <3>6
  <2>9. \A try : Misses(try)' <=> Misses(try)
    BY <2>3, <2>4, MissesStays
  <2>10. at' - 1 = at
    BY <1>0, <2>3
  <2>11. quiet' = quiet
    BY <2>3
  <2>12. QED
    BY <2>4, <2>7, <2>8, <2>9, <2>10, <2>11
<1>4. CASE Sort \/ RenderRow \/ OpEnds
  BY <1>4 DEF Sort, RenderRow, OpEnds, Seeking
<1>5. QED
  BY <1>1, <1>2, <1>3, <1>4, OpMoves DEF Header, Append1, opVars, Seeking

-----------------------------------------------------------------------------
(* The theorems *)

LEMMA InvariantInit == ASSUME Init PROVE TypeOK /\ ResultsInv
<1>1. TypeOK
  BY TypeInit
<1>2. HeaderFirst /\ OrderIsSorted
  BY DEF Init, HeaderFirst, OrderIsSorted
<1>3. RenderedSoFar /\ SortIsOfARow /\ LookedSoFar
  BY DEF Init, RenderedSoFar, SortIsOfARow, LookedSoFar, Rendering, Seeking
<1>4. QED
  BY <1>1, <1>2, <1>3 DEF ResultsInv

\* The inductive invariant, with the types: what a result's rows and their order
\* are at any time, and what a copy or a search has gone through so far.
THEOREM Invariance == Spec => [](TypeOK /\ ResultsInv)
<1>1. Init => TypeOK /\ ResultsInv
  BY InvariantInit
<1>2. TypeOK /\ ResultsInv /\ [Next]_vars => (TypeOK /\ ResultsInv)'
  <2> SUFFICES ASSUME TypeOK, ResultsInv, [Next]_vars PROVE (TypeOK /\ ResultsInv)'
    OBVIOUS
  <2>1. TypeOK'
    BY GridKeepsTypes, OpKeepsTypes, PanesKeepTypes DEF TypeOK
  <2>2. ResultsInv'
    BY OrderStaysSorted, RenderedStays, SortStaysOfARow, LookedStays DEF ResultsInv
  <2>3. QED
    BY <2>1, <2>2
<1>3. QED
  BY <1>1, <1>2, PTL DEF Spec

(* The buffer, the order of its rows and everything the interface is in the  *)
(* middle of keep their types: no index a reader follows leaves the grid.    *)
THEOREM TypeCorrect == Spec => []TypeOK
BY Invariance, PTL

(* A copy or a saved file holds every row of the result once, in the order   *)
(* the grid shows, when no row came while it was rendered (resultText).      *)
THEOREM CopyIsTheResult == Spec => []CopyIsWhole
<1>1. TypeOK /\ ResultsInv => CopyIsWhole
  <2> SUFFICES ASSUME TypeOK, ResultsInv, Rendering, at > RowCount, quiet
               PROVE  /\ ToSet(acc) = 1..RowCount /\ Len(acc) = RowCount
                      /\ \A i, j \in 1..Len(acc) : i < j =>
                           IF sortCol = 0 THEN acc[i] < acc[j]
                           ELSE Before(acc[i], acc[j], sortCol, sortDesc)
    BY DEF CopyIsWhole
  <2> HIDE DEF OrderNow
  <2>1. RowCount \in 0..BufferMax /\ acc \in Seq(0..BufferMax) /\ at \in Nat
    BY Typed
  <2>2. /\ at \in 1..(RowCount + 1) /\ Len(acc) = at - 1
        /\ \A k \in 1..(at - 1) : acc[k] = BufferRow(OrderNow, k)
    BY DEF ResultsInv, RenderedSoFar
  <2>3. Len(acc) = RowCount /\ \A k \in 1..RowCount : acc[k] = BufferRow(OrderNow, k)
    BY <2>1, <2>2
  <2>4. Permutes(OrderNow)
    BY EveryRowIsShown DEF TypeOK, ResultsInv
  <2>5. ToSet(acc) = 1..RowCount
    <3>1. ToSet(acc) = {acc[k] : k \in 1..RowCount}
      BY <2>1, <2>3 DEF ToSet
    <3>2. QED
      BY <2>3, <2>4, <3>1 DEF Permutes
  <2>6. ASSUME NEW i \in 1..RowCount, NEW j \in 1..RowCount, i < j
        PROVE  IF sortCol = 0 THEN acc[i] < acc[j]
               ELSE Before(acc[i], acc[j], sortCol, sortDesc)
    <3>1. header
      BY <2>6, Nothing DEF ResultsInv, HeaderFirst, RowCount
    <3>2. CASE sortCol = 0
      <4>1. OrderNow = <<>>
        BY <3>2, OrderNowIs DEF TypeOK, ResultsInv
      <4>2. acc[i] = i /\ acc[j] = j
        BY <2>3, <4>1 DEF BufferRow
      <4>3. QED
        BY <2>6, <3>2, <4>2
    <3>3. CASE sortCol # 0
      <4>1. Arranges(OrderNow, sortCol, sortDesc) /\ Len(OrderNow) = RowCount
        BY <3>1, <3>3, OrderNowIs DEF TypeOK, ResultsInv
      <4>2. \A k \in 1..RowCount : BufferRow(OrderNow, k) = OrderNow[k]
        BY <4>1 DEF BufferRow, Arranges
      <4>3. Before(OrderNow[i], OrderNow[j], sortCol, sortDesc)
        BY <2>6, <4>1 DEF Arranges
      <4>4. QED
        BY <2>3, <3>3, <4>2, <4>3
    <3>4. QED
      BY <3>2, <3>3
  <2>7. QED
    BY <2>3, <2>5, <2>6
<1>2. QED
  BY <1>1, Invariance, PTL

(* Whatever arrives meanwhile, a copy holds only rows of the buffer it was   *)
(* made from (resultText's bufferRow check never writes an absent row).      *)
THEOREM CopyIsOfRows == Spec => []CopiesOnlyWhatThereIs
<1>1. TypeOK /\ ResultsInv => CopiesOnlyWhatThereIs
  <2> SUFFICES ASSUME TypeOK, ResultsInv, Rendering PROVE ToSet(acc) \subseteq 1..RowCount
    BY DEF CopiesOnlyWhatThereIs
  <2>1. /\ Len(acc) = at - 1
        /\ \A k \in 1..(at - 1) : acc[k] \in 1..RowCount
    BY DEF ResultsInv, RenderedSoFar
  <2>2. ToSet(acc) = {acc[k] : k \in 1..Len(acc)}
    BY Typed DEF ToSet
  <2>3. QED
    BY <2>1, <2>2
<1>2. QED
  BY <1>1, Invariance, PTL

(* Sorting keeps the selection on the row it was on, rows arriving or not    *)
(* between the two orders sortColumn asks for.                               *)
THEOREM SortKeepsTheSelection == Spec => SortKeepsTheRow
<1>1. TypeOK /\ ResultsInv /\ [Next]_vars =>
        (op = "sort" /\ op' = "idle" => BufferRow(order', sel'.row) = at)
  <2> SUFFICES ASSUME TypeOK, ResultsInv, [Next]_vars, op = "sort", op' = "idle"
               PROVE  BufferRow(order', sel'.row) = at
    OBVIOUS
  <2>1. SortSelects
    BY OpMoves DEF Next, Silent, Arrivals, vars, Start, Switched, Header, Append1, StreamOver,
       Finished, Draw, Move, OnGrid, Sort, ShowRow, ShowCopyFormats, Dismiss, ChooseFormat,
       ChoosePath, RenderRow, ShowSearch, TypePattern, EndSearch, SearchAgain, CopyRow,
       CopyEnds, SaveEnds, SearchStep, Seeking, opVars
  <2>2. order' = OrderNow /\ sel'.row = GridRow(OrderNow, at)
    BY <2>1 DEF SortSelects, Reorder, TypeOK, PanesTyped, Places
  <2>3. Permutes(OrderNow) /\ OrderNow \in Seq(1..BufferMax) /\ RowCount \in 0..BufferMax
    BY EveryRowIsShown, OrderNowIs, Typed DEF TypeOK, ResultsInv
  <2>4. OrderNow = <<>> \/ Len(OrderNow) = RowCount
    BY OrderNowIs DEF TypeOK, ResultsInv
  <2> HIDE DEF OrderNow
  <2>5. CASE \E g \in DOMAIN OrderNow : OrderNow[g] = at
    <3>1. /\ GridRow(OrderNow, at) \in DOMAIN OrderNow
          /\ OrderNow[GridRow(OrderNow, at)] = at
      BY <2>5 DEF GridRow
    <3>2. QED
      BY <2>2, <3>1 DEF BufferRow
  <2>6. CASE ~\E g \in DOMAIN OrderNow : OrderNow[g] = at
    <3>1. GridRow(OrderNow, at) = at
      BY <2>6 DEF GridRow
    <3>2. at \notin DOMAIN OrderNow
      <4>1. SUFFICES ASSUME at \in DOMAIN OrderNow PROVE FALSE
        OBVIOUS
      <4>2. DOMAIN OrderNow = 1..RowCount
        BY <2>3, <2>4, <4>1
      <4>3. PICK g \in 1..RowCount : BufferRow(OrderNow, g) = at
        BY <2>3, <4>1, <4>2 DEF Permutes
      <4>4. QED
        BY <2>6, <4>2, <4>3 DEF BufferRow
    <3>3. QED
      BY <2>2, <3>1, <3>2 DEF BufferRow
  <2>7. QED
    BY <2>5, <2>6
<1>2. TypeOK /\ ResultsInv /\ [Next]_vars =>
        [op = "sort" /\ op' = "idle" => BufferRow(order', sel'.row) = at]_vars
  BY <1>1
<1>3. QED
  BY <1>2, Invariance, PTL DEF Spec, SortKeepsTheRow

(* A search finds a match wherever there is one, from any cell, either way   *)
(* round and under any order, and stops on one (searchFrom, repeatSearch).   *)
THEOREM SearchIsComplete == Spec => SearchFindsWhatIsThere
<1>1. TypeOK /\ ResultsInv /\ [Next]_vars =>
        (Seeking /\ op' = "idle" /\ quiet =>
           IF report' = "no match"
           THEN \A r \in 1..RowCount, c \in Columns : rows[r][c] # Wanted
           ELSE rows[BufferRow(order', sel'.row)][sel'.col] = Wanted)
  <2> SUFFICES ASSUME TypeOK, ResultsInv, [Next]_vars, Seeking, op' = "idle", quiet
               PROVE  IF report' = "no match"
                      THEN \A r \in 1..RowCount, c \in Columns : rows[r][c] # Wanted
                      ELSE rows[BufferRow(order', sel'.row)][sel'.col] = Wanted
    OBVIOUS
  <2> DEFINE total == IF at = 1 THEN RowCount * ColumnCount ELSE Len(acc) * Len(ColumnType)
  <2>1. SearchStep
    BY OpMoves DEF Seeking, opVars, Header, Append1, Sort, OnGrid, RenderRow, Begin
  <2>2. CASE total = 0 \/ TriesOver(total)
    <3>1. report' = "no match"
      BY <2>1, <2>2, SearchMoves
    <3>2. ASSUME NEW r \in 1..RowCount, NEW c \in Columns PROVE rows[r][c] # Wanted
      <4>1. RowCount \in Nat \ {0} /\ at \in Nat /\ at >= 1 /\ header
        BY Typed, Nothing DEF ResultsInv, LookedSoFar, HeaderFirst, RowCount
      <4>2. RowCount * Width \in Nat \ {0}
        <5>1. Width * 1 <= Width * RowCount
          BY <4>1, Widths, Mono DEF Width
        <5>2. QED
          BY <4>1, <5>1, Widths DEF Width
      <4>3. total = RowCount * Width
        BY <4>1 DEF ResultsInv, LookedSoFar, ColumnCount, Width
      <4>4. \A try \in 1..(RowCount * Width) : Misses(try)
        <5>1. at > RowCount * Width
          BY <2>2, <4>2, <4>3 DEF TriesOver
        <5>2. \A try \in 1..(at - 1) : Misses(try)
          BY DEF ResultsInv, LookedSoFar
        <5>3. QED
          BY <4>1, <4>2, <5>1, <5>2
      <4>5. PICK g \in 1..RowCount : BufferRow(OrderNow, g) = r
        BY EveryRowIsShown DEF Permutes, TypeOK, ResultsInv
      <4>6. Begun
        BY Typed
      <4>7. PICK try \in 1..(RowCount * Width) :
              Sought(RowCount * Width, try) = [row |-> g, col |-> c]
        BY <4>1, <4>6, EveryCellIsSought
      <4>8. QED
        BY <4>4, <4>5, <4>7 DEF Misses, Width
    <3>3. QED
      BY <3>1, <3>2
  <2>3. CASE ~(total = 0 \/ TriesOver(total))
    BY <2>1, <2>3, SearchStopsOnAMatch
  <2>4. QED
    BY <2>2, <2>3
<1>2. QED
  BY <1>1, Invariance, PTL DEF Spec, SearchFindsWhatIsThere
=============================================================================
