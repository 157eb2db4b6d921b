-------------------------- MODULE DataSourcesProofs --------------------------
(***************************************************************************)
(* What the datasource list promises for any names, servers, passwords and *)
(* bounds.  ListInv, JobIsSound and TypeOK are inductive together: a       *)
(* pointer outside the array would spoil the types.  On top of them come   *)
(* PasswordIsCarried and ProbeIsRight, step by step through a commit.      *)
(***************************************************************************)
EXTENDS DataSources, SequenceTheorems, FiniteSetTheorems, TLAPS

USE NoneIsOutside, EnvironmentType, BoundIsNumber

-----------------------------------------------------------------------------
(* The inductive invariant *)

\* What is in use of the array is what the file says.
ListIsTheFile ==
  /\ cfg.len <= Len(cfg.array)
  /\ Listed = file

NamesAreUnique == \A i, j \in DOMAIN file : file[i].name = file[j].name => i = j

\* Nobody points outside the array.
InTheArray(pointer) == pointer.at <= Len(cfg.array)
PointersAreInRange ==
  /\ InTheArray(conn) /\ InTheArray(connecting)
  /\ \A i \in DOMAIN list : InTheArray(list[i].ptr)

\* The items are the entries, one for one.
ItemsAreTheEntries ==
  open /\ Idle =>
    /\ Len(list) = Len(file)
    /\ \A i \in DOMAIN list : list[i].label = file[i].name

\* Where the password a rename carries over is filed, step by step.
PasswordIsCarried ==
  owed.password # None /\ ~misread =>
    /\ owed.old \in Names /\ owed.new \in Names /\ owed.old # owed.new
    /\ Environment[owed.old] = None
    /\ keychain[owed.old] = owed.password \/ keychain[owed.new] = owed.password
    /\ Idle \/ (job.old = owed.old /\ job.new = owed.new /\ job.password = None)
    /\ job.step = "secrets" => keychain[owed.old] = owed.password
    /\ job.step = "delete" => keychain[owed.new] = owed.password

\* What commit is about to leave under the new name is what was foretold.
ProbeIsRight ==
  job.new # None /\ job.password = None /\ ~misread =>
    /\ job.step = "secrets" =>
         Renames(job.old, job.new) /\ job.foretold = ProbePassword(job.old, job.new)
    /\ job.step = "delete" =>
         Renames(job.old, job.new) /\ job.foretold = Get(keychain, job.new)
    /\ job.step = "finish" => job.foretold = Get(keychain, job.new)

\* A commit in progress is about an entry.
JobIsSound ==
  /\ Idle <=> job.step = "none"
  /\ job.step = "secrets" => job.new # None /\ ~misread
  /\ job.step = "secrets" /\ job.password = None => job.old # None
  /\ job.step = "delete" => job.old # None

ListInv == ListIsTheFile /\ NamesAreUnique /\ PointersAreInRange /\ ItemsAreTheEntries
-----------------------------------------------------------------------------
(* Sequences and slices *)

LEMMA SeqByElements ==
  ASSUME NEW S, NEW n \in Nat, NEW f \in [1..n -> S]
  PROVE  f \in Seq(S) /\ Len(f) = n /\ DOMAIN f = 1..n
OBVIOUS

LEMMA SamePrefix ==
  ASSUME NEW S, NEW s \in Seq(S), NEW n \in 0..Len(s), NEW t \in Seq(S), Len(t) = n,
         \A i \in 1..n : s[i] = t[i]
  PROVE  SubSeq(s, 1, n) = t
BY SubSeqProperties, SeqEqual

(* A reader sees the first len elements of the array.                        *)
LEMMA ListedIs ==
  ASSUME TypeOK, ListIsTheFile
  PROVE  /\ Listed \in Seq(DataSource) /\ Len(Listed) = cfg.len
         /\ cfg.array \in Seq(DataSource \cup {Zero}) /\ cfg.len \in Nat
         /\ \A i \in 1..cfg.len : Listed[i] = cfg.array[i]
<1>1. /\ cfg.array \in Seq(DataSource \cup {Zero}) /\ cfg.len \in Nat
      /\ file \in Seq(DataSource)
  BY DEF TypeOK
<1>2. /\ Len(Listed) = cfg.len
      /\ \A i \in 1..cfg.len : Listed[i] = cfg.array[i]
  BY <1>1, SubSeqProperties DEF ListIsTheFile, Listed
<1>3. QED
  BY <1>1, <1>2 DEF ListIsTheFile

(* Writing entries over an array leaves its length, and they are what is     *)
(* read back.                                                                *)
LEMMA OverwrittenIs ==
  ASSUME TypeOK, NEW entries \in Seq(DataSource), Len(entries) <= Len(cfg.array)
  PROVE  /\ Overwritten(entries) \in Seq(DataSource \cup {Zero})
         /\ Len(Overwritten(entries)) = Len(cfg.array)
         /\ SubSeq(Overwritten(entries), 1, Len(entries)) = entries
<1>1. cfg.array \in Seq(DataSource \cup {Zero}) /\ DOMAIN cfg.array = 1..Len(cfg.array)
  BY DEF TypeOK
<1>2. Overwritten(entries) \in [1..Len(cfg.array) -> DataSource \cup {Zero}]
  BY <1>1 DEF Overwritten
<1>3. /\ Overwritten(entries) \in Seq(DataSource \cup {Zero})
      /\ Len(Overwritten(entries)) = Len(cfg.array)
  <2> HIDE DEF Overwritten
  <2>1. Len(cfg.array) \in Nat
    BY <1>1
  <2>2. QED
    BY <1>2, <2>1, SeqByElements
<1>4. \A i \in 1..Len(entries) : Overwritten(entries)[i] = entries[i]
  BY <1>1 DEF Overwritten
<1>5. entries \in Seq(DataSource \cup {Zero})
  OBVIOUS
<1>6. QED
  <2> HIDE DEF Overwritten
  <2>1. QED
    BY <1>3, <1>4, <1>5, SamePrefix

LEMMA Counting ==
  ASSUME NEW n \in Nat
  PROVE  /\ Cardinality(1..n) = n
         /\ \A p \in 1..n : Cardinality((1..n) \ {p}) = n - 1
<1>1. IsFiniteSet(1..n) /\ Cardinality(1..n) = IF 1 > n THEN 0 ELSE n - 1 + 1
  BY FS_Interval
<1>2. Cardinality(1..n) = n
  BY <1>1
<1>3. \A p \in 1..n : Cardinality((1..n) \ {p}) = Cardinality(1..n) - 1
  BY <1>1, FS_RemoveElement
<1>4. QED
  BY <1>2, <1>3

(* The filter of remove drops one entry and keeps the order of the others.   *)
LEMMA WithoutIs ==
  ASSUME TypeOK, ListInv, NEW name \in NamesOf(Listed)
  PROVE  \E p \in 1..cfg.len :
           /\ Without(name) \in Seq(DataSource) /\ Len(Without(name)) = cfg.len - 1
           /\ \A k \in 1..(cfg.len - 1) :
                Without(name)[k] = Listed[IF k < p THEN k ELSE k + 1]
<1>1. /\ Listed \in Seq(DataSource) /\ Len(Listed) = cfg.len /\ cfg.len \in Nat
      /\ \A i, j \in 1..cfg.len : Listed[i].name = Listed[j].name => i = j
  BY ListedIs DEF ListInv, ListIsTheFile, NamesAreUnique
<1>2. PICK p \in 1..cfg.len : Listed[p].name = name
  BY <1>1 DEF NamesOf
<1>3. DOMAIN Listed = 1..cfg.len /\ cfg.len >= 1
  BY <1>1, <1>2
<1> HIDE DEF Listed
<1>4. Kept(name) = (1..cfg.len) \ {p}
  BY <1>1, <1>2, <1>3 DEF Kept
<1>5. cfg.len - 1 \in Nat
  BY <1>1, <1>3
<1>6. Cardinality(Kept(name)) = cfg.len - 1
  BY <1>1, <1>4, Counting
<1>7. ASSUME NEW i \in Kept(name)
      PROVE  Cardinality({j \in Kept(name) : j <= i}) = IF i < p THEN i ELSE i - 1
  <2>1. i \in 1..cfg.len /\ i # p
    BY <1>4
  <2>2. /\ Cardinality(1..i) = i
        /\ p \in 1..i => Cardinality((1..i) \ {p}) = i - 1
    BY <2>1, Counting
  <2>3. CASE i < p
    <3>1. {j \in Kept(name) : j <= i} = 1..i
      BY <1>1, <1>4, <2>1, <2>3
    <3>2. QED
      BY <2>2, <2>3, <3>1
  <2>4. CASE i > p
    <3>1. {j \in Kept(name) : j <= i} = (1..i) \ {p} /\ p \in 1..i
      BY <1>1, <1>2, <1>4, <2>1, <2>4
    <3>2. Cardinality({j \in Kept(name) : j <= i}) = i - 1
      BY <2>2, <3>1
    <3>3. QED
      BY <1>1, <1>2, <2>1, <2>4, <3>2
  <2>5. QED
    BY <1>1, <1>2, <2>1, <2>3, <2>4
<1>8. ASSUME NEW k \in 1..(cfg.len - 1)
      PROVE  (CHOOSE i \in Kept(name) : Cardinality({j \in Kept(name) : j <= i}) = k)
               = IF k < p THEN k ELSE k + 1
  <2> DEFINE q == IF k < p THEN k ELSE k + 1
             upto(i) == Cardinality({j \in Kept(name) : j <= i})
  <2>1. q \in Kept(name) /\ upto(q) = k
    <3>1. q \in Kept(name) /\ k = IF q < p THEN q ELSE q - 1
      BY <1>1, <1>2, <1>4
    <3> HIDE DEF q
    <3>2. QED
      BY <1>7, <3>1
  <2>2. \A i \in Kept(name) : upto(i) = k => i = q
    <3>1. ASSUME NEW i \in Kept(name), upto(i) = k PROVE i = q
      <4>1. i \in 1..cfg.len /\ i # p /\ k = IF i < p THEN i ELSE i - 1
        BY <1>4, <1>7, <3>1
      <4>2. QED
        BY <1>1, <1>2, <4>1
    <3>2. QED
      BY <3>1
  <2> HIDE DEF q, upto
  <2>3. (CHOOSE i \in Kept(name) : upto(i) = k) = q
    BY <2>1, <2>2
  <2>4. QED
    BY <2>3 DEF q, upto
<1>9. /\ DOMAIN Without(name) = 1..(cfg.len - 1)
      /\ \A k \in 1..(cfg.len - 1) :
           Without(name)[k] = Listed[IF k < p THEN k ELSE k + 1]
  BY <1>6, <1>8 DEF Without
<1>10. Without(name) \in [1..(cfg.len - 1) -> DataSource]
  <2>1. Without(name) = [k \in 1..(cfg.len - 1) |-> Without(name)[k]]
    BY <1>6 DEF Without
  <2>2. \A k \in 1..(cfg.len - 1) : Without(name)[k] \in DataSource
    BY <1>1, <1>2, <1>3, <1>9
  <2> HIDE DEF Without
  <2>3. QED
    BY <2>1, <2>2
<1>11. QED
  BY <1>5, <1>9, <1>10, SeqByElements

(* What commit makes of the list: as long as the list or one longer, and no  *)
(* name twice, since validateDataSource has looked.                          *)
LEMMA WithIs ==
  ASSUME TypeOK, ListInv, NEW editing \in Names \cup {None}, NEW candidate \in DataSource,
         Valid(editing, candidate)
  PROVE  /\ With(editing, candidate) \in Seq(DataSource)
         /\ Len(With(editing, candidate)) = IF editing = None THEN cfg.len + 1 ELSE cfg.len
         /\ \A i, j \in DOMAIN With(editing, candidate) :
              With(editing, candidate)[i].name = With(editing, candidate)[j].name => i = j
<1> DEFINE w == With(editing, candidate)
<1>1. /\ Listed \in Seq(DataSource) /\ Len(Listed) = cfg.len /\ cfg.len \in Nat
      /\ \A i, j \in 1..cfg.len : Listed[i].name = Listed[j].name => i = j
  BY ListedIs DEF ListInv, ListIsTheFile, NamesAreUnique
<1>2. \A i \in 1..cfg.len : Listed[i].name = candidate.name => candidate.name = editing
  BY <1>1 DEF Valid, NamesOf
<1> HIDE DEF Listed
<1>3. CASE editing = None
  <2>1. w = Append(Listed, candidate) /\ candidate.name # None
    BY <1>3 DEF With, DataSource
  <2>2. /\ w \in Seq(DataSource) /\ Len(w) = cfg.len + 1
        /\ w[cfg.len + 1] = candidate
        /\ \A i \in 1..cfg.len : w[i] = Listed[i]
    BY <1>1, <2>1, AppendProperties
  <2> HIDE DEF w
  <2>3. \A i, j \in 1..(cfg.len + 1) : w[i].name = w[j].name => i = j
    <3>1. \A i \in 1..cfg.len : w[i].name # candidate.name
      BY <1>2, <1>3, <2>1, <2>2
    <3>2. ASSUME NEW i \in 1..(cfg.len + 1), NEW j \in 1..(cfg.len + 1), w[i].name = w[j].name
          PROVE  i = j
      <4>1. CASE i = cfg.len + 1 \/ j = cfg.len + 1
        BY <1>1, <2>2, <3>1, <3>2, <4>1
      <4>2. CASE i \in 1..cfg.len /\ j \in 1..cfg.len
        BY <1>1, <2>2, <3>2, <4>2
      <4>3. QED
        BY <1>1, <4>1, <4>2
    <3>3. QED
      BY <3>2
  <2>4. QED
    BY <1>3, <2>2, <2>3 DEF w
<1>4. CASE editing # None
  <2>1. w = [i \in 1..cfg.len |-> IF Listed[i].name = editing THEN candidate ELSE Listed[i]]
    BY <1>1, <1>4 DEF With
  <2>2. w \in [1..cfg.len -> DataSource]
    BY <1>1, <2>1
  <2> HIDE DEF w
  <2>3. w \in Seq(DataSource) /\ Len(w) = cfg.len /\ DOMAIN w = 1..cfg.len
    BY <1>1, <2>2, SeqByElements
  <2>4. \A i, j \in 1..cfg.len : w[i].name = w[j].name => i = j
    BY <1>1, <1>2, <2>1
  <2>5. QED
    BY <1>4, <2>3, <2>4 DEF w
<1>5. QED
  BY <1>3, <1>4

(* A pointer left in an array no longer used points nowhere.                 *)
LEMMA LeftIs ==
  ASSUME NEW array \in Seq(DataSource \cup {Zero}), NEW pointer \in Pointer,
         pointer.at <= Len(array)
  PROVE  LeftIn(array, pointer) \in Pointer /\ LeftIn(array, pointer).at = 0
BY DEF LeftIn, Pointer

(* A new array becomes the list, and the pointers keep their types.          *)
LEMMA NewArrayIs ==
  ASSUME TypeOK, PointersAreInRange,
         NEW entries \in Seq(DataSource),
         NEW old \in Seq(DataSource \cup {Zero}), Len(old) = Len(cfg.array),
         NewArray(entries, old)
  PROVE  /\ cfg' \in [array : Seq(DataSource \cup {Zero}), len : Nat]
         /\ cfg'.len <= Len(cfg'.array) /\ Listed' = entries
         /\ list' \in Seq([label : Names, ptr : Pointer]) /\ Len(list') = Len(list)
         /\ \A i \in DOMAIN list : list'[i].label = list[i].label
         /\ conn' \in Pointer /\ connecting' \in Pointer
         /\ PointersAreInRange'
<1>1. PICK room \in 0..MaxSlack :
        cfg' = [array |-> entries \o [i \in 1..room |-> Zero], len |-> Len(entries)]
  BY DEF NewArray
<1>2. /\ [i \in 1..room |-> Zero] \in Seq(DataSource \cup {Zero})
      /\ Len([i \in 1..room |-> Zero]) = room
      /\ room \in Nat
  OBVIOUS
<1>3. /\ cfg'.array \in Seq(DataSource \cup {Zero}) /\ cfg'.len = Len(entries)
      /\ Len(cfg'.array) = Len(entries) + room
      /\ \A i \in 1..Len(entries) : cfg'.array[i] = entries[i]
  BY <1>1, <1>2, ConcatProperties
<1>4. cfg' \in [array : Seq(DataSource \cup {Zero}), len : Nat] /\ cfg'.len <= Len(cfg'.array)
  BY <1>1, <1>2, <1>3
<1>5. Listed' = entries
  <2>1. SubSeq(cfg'.array, 1, Len(entries)) = entries
    BY <1>2, <1>3, SamePrefix
  <2>2. QED
    BY <1>3, <2>1 DEF Listed
<1>6. \A i \in DOMAIN list : /\ list[i].label \in Names
                            /\ LeftIn(old, list[i].ptr) \in Pointer
                            /\ LeftIn(old, list[i].ptr).at = 0
  <2>1. \A i \in DOMAIN list : list[i] \in [label : Names, ptr : Pointer]
    <3>1. DOMAIN list = 1..Len(list) /\ list \in Seq([label : Names, ptr : Pointer])
      BY DEF TypeOK
    <3>2. QED
      BY <3>1, ElementOfSeq
  <2>2. \A i \in DOMAIN list : list[i].label \in Names /\ list[i].ptr \in Pointer
    BY <2>1
  <2>3. \A i \in DOMAIN list : list[i].ptr.at <= Len(old)
    BY DEF PointersAreInRange, InTheArray
  <2>4. QED
    BY <2>2, <2>3, LeftIs
<1>7. /\ conn' \in Pointer /\ conn'.at = 0
      /\ connecting' \in Pointer /\ connecting'.at = 0
  BY LeftIs DEF NewArray, TypeOK, PointersAreInRange, InTheArray
<1>8. /\ DOMAIN list' = DOMAIN list
      /\ \A i \in DOMAIN list :
           list'[i] = [label |-> list[i].label, ptr |-> LeftIn(old, list[i].ptr)]
  BY DEF NewArray
<1>9. list' \in Seq([label : Names, ptr : Pointer]) /\ Len(list') = Len(list)
  <2>1. DOMAIN list = 1..Len(list) /\ Len(list) \in Nat
    BY DEF TypeOK
  <2>2. list' \in [1..Len(list) -> [label : Names, ptr : Pointer]]
    <3>1. list' = [i \in 1..Len(list) |->
                     [label |-> list[i].label, ptr |-> LeftIn(old, list[i].ptr)]]
      BY <2>1 DEF NewArray
    <3>2. QED
      BY <1>6, <2>1, <3>1
  <2> DEFINE Item == [label : Names, ptr : Pointer]
             items == list'
  <2>3. items \in [1..Len(list) -> Item] /\ Len(list) \in Nat
    BY <2>1, <2>2
  <2> HIDE DEF Item, items
  <2>4. items \in Seq(Item) /\ Len(items) = Len(list)
    BY <2>3, SeqByElements
  <2>5. QED
    BY <2>4 DEF Item, items
<1>10. PointersAreInRange'
  BY <1>3, <1>6, <1>7, <1>8 DEF PointersAreInRange, InTheArray
<1>11. QED
  BY <1>4, <1>5, <1>7, <1>8, <1>9, <1>10

(* A pointer in range gives an entry, or nothing.                            *)
LEMMA DerefIs ==
  ASSUME TypeOK, NEW pointer \in Pointer, InTheArray(pointer)
  PROVE  Deref(pointer) \in DataSource \cup {Zero}
<1>1. pointer.at \in Nat /\ pointer.ds \in DataSource \cup {Zero}
  BY DEF Pointer
<1>2. cfg.array \in Seq(DataSource \cup {Zero})
  BY DEF TypeOK
<1>3. CASE pointer.at = 0
  BY <1>1, <1>3 DEF Deref
<1>4. CASE pointer.at # 0
  <2>1. pointer.at \in 1..Len(cfg.array)
    BY <1>1, <1>2, <1>4 DEF InTheArray
  <2>2. QED
    BY <1>2, <1>4, <2>1, ElementOfSeq DEF Deref
<1>5. QED
  BY <1>3, <1>4

(* A list just drawn has an item per entry, pointing at it.                  *)
LEMMA RenderedIs ==
  ASSUME NEW entries \in Seq(DataSource)
  PROVE  /\ Rendered(entries) \in Seq([label : Names, ptr : Pointer])
         /\ Len(Rendered(entries)) = Len(entries)
         /\ DOMAIN Rendered(entries) = 1..Len(entries)
         /\ \A i \in 1..Len(entries) :
              Rendered(entries)[i].label = entries[i].name /\ Rendered(entries)[i].ptr.at = i
<1>1. DOMAIN entries = 1..Len(entries) /\ Len(entries) \in Nat
  OBVIOUS
<1>2. \A i \in 1..Len(entries) : entries[i].name \in Names /\ At(i) \in Pointer /\ At(i).at = i
  <2>1. \A i \in 1..Len(entries) : entries[i] \in DataSource
    BY ElementOfSeq
  <2>2. QED
    BY <1>1, <2>1 DEF At, Pointer, DataSource
<1>3. Rendered(entries) \in [1..Len(entries) -> [label : Names, ptr : Pointer]]
  BY <1>1, <1>2 DEF Rendered
<1>4. \A i \in 1..Len(entries) :
        Rendered(entries)[i].label = entries[i].name /\ Rendered(entries)[i].ptr.at = i
  BY <1>1, <1>2 DEF Rendered
<1> DEFINE Item == [label : Names, ptr : Pointer]
<1> HIDE DEF Rendered, Item
<1>5. Rendered(entries) \in [1..Len(entries) -> Item]
  BY <1>3 DEF Item
<1>6. /\ Rendered(entries) \in Seq(Item) /\ Len(Rendered(entries)) = Len(entries)
      /\ DOMAIN Rendered(entries) = 1..Len(entries)
  BY <1>1, <1>5, SeqByElements
<1>7. QED
  BY <1>4, <1>6 DEF Item

-----------------------------------------------------------------------------
(* The types, in two halves *)

ListTypes ==
  /\ cfg \in [array : Seq(DataSource \cup {Zero}), len : Nat]
  /\ file \in Seq(DataSource)
  /\ list \in Seq([label : Names, ptr : Pointer])
  /\ conn \in Pointer /\ connecting \in Pointer

OtherTypes ==
  /\ keychain \in [Names -> Passwords \cup {None}]
  /\ open \in BOOLEAN
  /\ current \in Names \cup {None}
  /\ opened \in DataSource \cup {Zero}
  /\ job \in [step : {"none", "secrets", "delete", "finish"},
              old : Names \cup {None}, new : Names \cup {None},
              password : Passwords \cup {None}, foretold : Passwords \cup {None}]
  /\ owed \in [old : Names \cup {None}, new : Names \cup {None},
               password : Passwords \cup {None}]
  /\ misread \in BOOLEAN

LEMMA InitInvariant == Init => TypeOK /\ ListInv /\ JobIsSound /\ PasswordIsCarried /\ ProbeIsRight
<1> SUFFICES ASSUME Init
    PROVE  TypeOK /\ ListInv /\ JobIsSound /\ PasswordIsCarried /\ ProbeIsRight
  OBVIOUS
<1>1. ListTypes
  BY DEF Init, ListTypes, NoPointer, Pointer
<1>2. OtherTypes
  <2>1. keychain \in [Names -> Passwords \cup {None}]
    BY DEF Init
  <2>2. QED
    BY <2>1 DEF Init, OtherTypes, NoJob, Nothing
<1>3. TypeOK
  BY <1>1, <1>2 DEF TypeOK, ListTypes, OtherTypes
<1>4. ListIsTheFile
  BY DEF Init, ListIsTheFile, Listed
<1>5. NamesAreUnique /\ PointersAreInRange /\ ItemsAreTheEntries
  BY DEF Init, NamesAreUnique, PointersAreInRange, ItemsAreTheEntries, InTheArray, NoPointer
<1>6. JobIsSound /\ PasswordIsCarried /\ ProbeIsRight
  BY DEF Init, JobIsSound, PasswordIsCarried, ProbeIsRight, Idle, NoJob, Nothing
<1>7. QED
  BY <1>3, <1>4, <1>5, <1>6 DEF ListInv

-----------------------------------------------------------------------------
(* The list, the file and who points where *)

\* What an edit that has written entries over the array leaves.
LEMMA InPlace ==
  ASSUME TypeOK, ListInv, NEW entries \in Seq(DataSource), Len(entries) <= Len(cfg.array),
         cfg' = [array |-> Overwritten(entries), len |-> Len(entries)],
         UNCHANGED pointers
  PROVE  /\ cfg' \in [array : Seq(DataSource \cup {Zero}), len : Nat]
         /\ cfg'.len <= Len(cfg'.array) /\ Listed' = entries
         /\ list' = list /\ conn' = conn /\ connecting' = connecting
         /\ PointersAreInRange'
<1>1. /\ Overwritten(entries) \in Seq(DataSource \cup {Zero})
      /\ Len(Overwritten(entries)) = Len(cfg.array)
      /\ SubSeq(Overwritten(entries), 1, Len(entries)) = entries
  BY OverwrittenIs
<1>2. Len(entries) \in Nat
  OBVIOUS
<1> HIDE DEF Overwritten
<1>3. cfg'.array = Overwritten(entries) /\ cfg'.len = Len(entries)
  OBVIOUS
<1>4. PointersAreInRange'
  BY <1>1, <1>3 DEF ListInv, PointersAreInRange, InTheArray, pointers
<1>5. Listed' = entries
  BY <1>1, <1>3 DEF Listed
<1>6. QED
  BY <1>1, <1>2, <1>3, <1>4, <1>5 DEF pointers

LEMMA RemoveSavedKeeps ==
  ASSUME TypeOK, ListInv, NEW name \in Names, RemoveSaved(name)
  PROVE  ListTypes' /\ ListInv'
<1> DEFINE w == Without(name)
<1>1. PICK p \in 1..cfg.len :
        /\ w \in Seq(DataSource) /\ Len(w) = cfg.len - 1
        /\ \A k \in 1..(cfg.len - 1) : w[k] = Listed[IF k < p THEN k ELSE k + 1]
  BY WithoutIs DEF RemoveSaved
<1>2. cfg.len \in Nat /\ cfg.len <= Len(cfg.array) /\ Listed = file /\ file \in Seq(DataSource)
      /\ Len(Listed) = cfg.len
  BY ListedIs DEF ListInv, ListIsTheFile, TypeOK
<1>3. file' = w /\ cfg' = [array |-> Overwritten(w), len |-> Len(w)] /\ UNCHANGED pointers
  BY DEF RemoveSaved
<1> HIDE DEF w
<1>4. Len(w) <= Len(cfg.array)
  <2>1. Len(cfg.array) \in Nat
    BY DEF TypeOK
  <2>2. QED
    BY <1>1, <1>2, <2>1
<1>5. /\ cfg' \in [array : Seq(DataSource \cup {Zero}), len : Nat]
      /\ cfg'.len <= Len(cfg'.array) /\ Listed' = w
      /\ list' = list /\ conn' = conn /\ connecting' = connecting
      /\ PointersAreInRange'
  BY <1>1, <1>3, <1>4, InPlace
<1>6. NamesAreUnique'
  <2>1. ASSUME NEW i \in 1..(cfg.len - 1), NEW j \in 1..(cfg.len - 1), w[i].name = w[j].name
        PROVE  i = j
    <3> DEFINE a == IF i < p THEN i ELSE i + 1
               b == IF j < p THEN j ELSE j + 1
    <3>1. a \in 1..cfg.len /\ b \in 1..cfg.len
      BY <1>2
    <3>2. file[a].name = file[b].name
      BY <1>1, <1>2, <2>1
    <3> HIDE DEF a, b
    <3>3. a = b
      BY <1>2, <3>1, <3>2 DEF ListInv, NamesAreUnique
    <3>4. QED
      BY <1>2, <3>3 DEF a, b
  <2>2. QED
    BY <1>1, <1>3, <2>1 DEF NamesAreUnique
<1>7. ItemsAreTheEntries'
  BY DEF RemoveSaved, ItemsAreTheEntries, Idle, NoJob
<1>8. ListTypes'
  BY <1>1, <1>3, <1>5 DEF ListTypes, TypeOK
<1>9. ListIsTheFile'
  BY <1>3, <1>5 DEF ListIsTheFile
<1>10. QED
  BY <1>5, <1>6, <1>7, <1>8, <1>9 DEF ListInv

(* A save that failed leaves the list as it was, in a new array.             *)
LEMMA RollBackKeeps ==
  ASSUME TypeOK, ListInv, NEW old \in Seq(DataSource \cup {Zero}), Len(old) = Len(cfg.array),
         RollBack(old), UNCHANGED <<file, open, job>>
  PROVE  ListTypes' /\ ListInv'
<1>1. /\ Listed \in Seq(DataSource) /\ Listed = file /\ PointersAreInRange
  BY ListedIs DEF ListInv, ListIsTheFile
<1>2. /\ cfg' \in [array : Seq(DataSource \cup {Zero}), len : Nat]
      /\ cfg'.len <= Len(cfg'.array) /\ Listed' = Listed
      /\ list' \in Seq([label : Names, ptr : Pointer]) /\ Len(list') = Len(list)
      /\ \A i \in DOMAIN list : list'[i].label = list[i].label
      /\ conn' \in Pointer /\ connecting' \in Pointer
      /\ PointersAreInRange'
  <2> HIDE DEF Listed
  <2>1. NewArray(Listed, old)
    BY DEF RollBack
  <2>2. QED
    BY <1>1, <2>1, NewArrayIs
<1>3. ListTypes'
  BY <1>2 DEF ListTypes, TypeOK
<1>4. ListIsTheFile' /\ NamesAreUnique'
  BY <1>1, <1>2 DEF ListIsTheFile, NamesAreUnique, ListInv
<1>5. ItemsAreTheEntries'
  <2>1. DOMAIN list = 1..Len(list) /\ DOMAIN list' = 1..Len(list')
    BY <1>2 DEF TypeOK
  <2>2. QED
    BY <1>2, <2>1 DEF ItemsAreTheEntries, ListInv, Idle
<1>6. QED
  BY <1>2, <1>3, <1>4, <1>5 DEF ListInv

LEMMA RemoveRefusedKeeps ==
  ASSUME TypeOK, ListInv, NEW name \in Names, RemoveRefused(name)
  PROVE  ListTypes' /\ ListInv'
<1> DEFINE w == Without(name)
<1>1. w \in Seq(DataSource) /\ Len(w) = cfg.len - 1
  BY WithoutIs DEF RemoveRefused
<1>2. RollBack(Overwritten(w)) /\ UNCHANGED <<file, open, job>>
  BY DEF RemoveRefused
<1> HIDE DEF w
<1>3. Len(w) <= Len(cfg.array)
  <2>1. Len(cfg.array) \in Nat /\ cfg.len \in Nat /\ cfg.len <= Len(cfg.array)
    BY DEF TypeOK, ListInv, ListIsTheFile
  <2>2. QED
    BY <1>1, <2>1
<1>4. /\ Overwritten(w) \in Seq(DataSource \cup {Zero})
      /\ Len(Overwritten(w)) = Len(cfg.array)
  BY <1>1, <1>3, OverwrittenIs
<1> HIDE DEF Overwritten, RollBack
<1>5. QED
  BY <1>2, <1>4, RollBackKeeps

LEMMA CommitSavedKeeps ==
  ASSUME TypeOK, ListInv, NEW editing \in Names \cup {None}, NEW candidate \in DataSource,
         NEW password \in Passwords \cup {None}, CommitSaved(editing, candidate, password)
  PROVE  ListTypes' /\ ListInv'
<1> DEFINE w == With(editing, candidate)
<1>1. /\ w \in Seq(DataSource)
      /\ Len(w) = IF editing = None THEN cfg.len + 1 ELSE cfg.len
      /\ \A i, j \in DOMAIN w : w[i].name = w[j].name => i = j
  BY WithIs DEF CommitSaved
<1>2. file' = w
  BY DEF CommitSaved
<1>3. /\ cfg.len \in Nat /\ cfg.len <= Len(cfg.array) /\ Len(cfg.array) \in Nat
      /\ cfg.array \in Seq(DataSource \cup {Zero})
  BY DEF TypeOK, ListInv, ListIsTheFile
<1>4. /\ cfg' \in [array : Seq(DataSource \cup {Zero}), len : Nat]
      /\ cfg'.len <= Len(cfg'.array) /\ Listed' = w
      /\ list' \in Seq([label : Names, ptr : Pointer])
      /\ conn' \in Pointer /\ connecting' \in Pointer
      /\ PointersAreInRange'
  <2>1. CASE Fits(editing)
    <3>1. cfg' = [array |-> Overwritten(w), len |-> Len(w)] /\ UNCHANGED pointers
      BY <2>1 DEF CommitSaved
    <3> HIDE DEF w
    <3>2. Len(w) <= Len(cfg.array)
      BY <1>1, <1>3, <2>1 DEF Fits
    <3>3. /\ cfg' \in [array : Seq(DataSource \cup {Zero}), len : Nat]
          /\ cfg'.len <= Len(cfg'.array) /\ Listed' = w
          /\ list' = list /\ conn' = conn /\ connecting' = connecting
          /\ PointersAreInRange'
      BY <1>1, <3>1, <3>2, InPlace
    <3>4. QED
      BY <3>3 DEF TypeOK
  <2>2. CASE ~Fits(editing)
    <3>1. NewArray(w, cfg.array)
      BY <2>2 DEF CommitSaved
    <3> HIDE DEF w
    <3>2. QED
      BY <1>1, <1>3, <3>1, NewArrayIs DEF ListInv
  <2>3. QED
    BY <2>1, <2>2
<1>5. job'.step # "none"
  BY DEF CommitSaved, FirstStep
<1> HIDE DEF w
<1>6. ItemsAreTheEntries'
  BY <1>5 DEF ItemsAreTheEntries, Idle, NoJob
<1>7. NamesAreUnique' /\ ListIsTheFile'
  BY <1>1, <1>2, <1>4 DEF NamesAreUnique, ListIsTheFile
<1>8. ListTypes'
  BY <1>1, <1>2, <1>4 DEF ListTypes
<1>9. QED
  BY <1>4, <1>6, <1>7, <1>8 DEF ListInv

LEMMA CommitRefusedKeeps ==
  ASSUME TypeOK, ListInv, NEW editing \in Names \cup {None}, NEW candidate \in DataSource,
         CommitRefused(editing, candidate)
  PROVE  ListTypes' /\ ListInv'
<1> DEFINE w == With(editing, candidate)
           old == IF Fits(editing) THEN Overwritten(w) ELSE cfg.array
<1>1. w \in Seq(DataSource) /\ Len(w) = IF editing = None THEN cfg.len + 1 ELSE cfg.len
  BY WithIs DEF CommitRefused
<1>2. RollBack(old) /\ UNCHANGED <<file, open, job>>
  BY DEF CommitRefused
<1>3. /\ cfg.len \in Nat /\ cfg.len <= Len(cfg.array) /\ Len(cfg.array) \in Nat
      /\ cfg.array \in Seq(DataSource \cup {Zero})
  BY DEF TypeOK, ListInv, ListIsTheFile
<1> HIDE DEF w
<1>4. old \in Seq(DataSource \cup {Zero}) /\ Len(old) = Len(cfg.array)
  <2>1. CASE Fits(editing)
    <3>1. Len(w) <= Len(cfg.array)
      BY <1>1, <1>3, <2>1 DEF Fits
    <3>2. /\ Overwritten(w) \in Seq(DataSource \cup {Zero})
          /\ Len(Overwritten(w)) = Len(cfg.array)
      BY <1>1, <3>1, OverwrittenIs
    <3>3. QED
      BY <2>1, <3>2
  <2>2. CASE ~Fits(editing)
    BY <1>3, <2>2
  <2>3. QED
    BY <2>1, <2>2
<1> HIDE DEF old, RollBack
<1>5. QED
  BY <1>2, <1>4, RollBackKeeps

(* renderList draws the list of the file.                                    *)
LEMMA RedrawKeeps ==
  ASSUME TypeOK, ListInv, Redraw, UNCHANGED <<cfg, file, conn, connecting>>
  PROVE  ListTypes' /\ ListInv'
<1>1. /\ Listed \in Seq(DataSource) /\ Listed = file /\ Len(Listed) = cfg.len
      /\ cfg.len \in Nat /\ cfg.len <= Len(cfg.array) /\ Len(cfg.array) \in Nat
  BY ListedIs DEF ListInv, ListIsTheFile, TypeOK
<1>2. list' = Rendered(Listed)
  BY DEF Redraw
<1>3. Listed' = Listed
  BY DEF Listed
<1> HIDE DEF Listed
<1>4. /\ list' \in Seq([label : Names, ptr : Pointer]) /\ Len(list') = Len(file)
      /\ DOMAIN list' = 1..Len(file)
      /\ \A i \in 1..Len(file) : list'[i].label = file[i].name /\ list'[i].ptr.at = i
  BY <1>1, <1>2, RenderedIs
<1>5. ListTypes'
  BY <1>4 DEF ListTypes, TypeOK
<1>6. PointersAreInRange'
  BY <1>1, <1>4 DEF ListInv, PointersAreInRange, InTheArray
<1>7. ListIsTheFile' /\ NamesAreUnique' /\ ItemsAreTheEntries'
  BY <1>1, <1>3, <1>4 DEF ListInv, ListIsTheFile, NamesAreUnique, ItemsAreTheEntries
<1>8. QED
  BY <1>5, <1>6, <1>7 DEF ListInv

(* A step that writes neither the list nor the array.                        *)
LEMMA UntouchedKeeps ==
  ASSUME TypeOK, ListInv, UNCHANGED <<cfg, file>>,
         \/ list' = list /\ (open' /\ Idle' => open /\ Idle)
         \/ list' = <<>> /\ ~open',
         conn' \in {conn, connecting, NoPointer},
         \/ connecting' \in {conn, connecting, NoPointer}
         \/ \E i \in DOMAIN list : connecting' = list[i].ptr
  PROVE  ListTypes' /\ ListInv'
<1>1. list' \in Seq([label : Names, ptr : Pointer])
  <2> DEFINE Item == [label : Names, ptr : Pointer]
  <2>1. list \in Seq(Item)
    BY DEF TypeOK
  <2> HIDE DEF Item
  <2>2. list' \in Seq(Item)
    BY <2>1, EmptySeq
  <2>3. QED
    BY <2>2 DEF Item
<1>2. NoPointer \in Pointer /\ InTheArray(NoPointer)
  BY DEF TypeOK, NoPointer, Pointer, InTheArray
<1>3. \A i \in DOMAIN list : list[i].ptr \in Pointer /\ InTheArray(list[i].ptr)
  <2>1. \A i \in DOMAIN list : list[i] \in [label : Names, ptr : Pointer]
    <3>1. DOMAIN list = 1..Len(list) /\ list \in Seq([label : Names, ptr : Pointer])
      BY DEF TypeOK
    <3>2. QED
      BY <3>1, ElementOfSeq
  <2>2. QED
    BY <2>1 DEF ListInv, PointersAreInRange
<1>4. conn' \in Pointer /\ InTheArray(conn') /\ connecting' \in Pointer /\ InTheArray(connecting')
  BY <1>2, <1>3 DEF TypeOK, ListInv, PointersAreInRange
<1>5. ListTypes'
  BY <1>1, <1>4 DEF ListTypes, TypeOK
<1>6. PointersAreInRange'
  BY <1>3, <1>4 DEF PointersAreInRange, InTheArray
<1>7. ItemsAreTheEntries'
  BY DEF ListInv, ItemsAreTheEntries
<1>8. ListIsTheFile' /\ NamesAreUnique'
  BY DEF ListInv, ListIsTheFile, NamesAreUnique, Listed
<1>9. QED
  BY <1>5, <1>6, <1>7, <1>8 DEF ListInv

LEMMA ListKept ==
  ASSUME TypeOK, ListInv, JobIsSound, [Next]_vars
  PROVE  ListTypes' /\ ListInv'
<1>1. ASSUME NEW name \in Names, RemoveSaved(name) PROVE ListTypes' /\ ListInv'
  BY <1>1, RemoveSavedKeeps
<1>2. ASSUME NEW name \in Names, RemoveRefused(name) PROVE ListTypes' /\ ListInv'
  BY <1>2, RemoveRefusedKeeps
<1>3. ASSUME NEW editing \in Names \cup {None}, NEW candidate \in DataSource,
             CommitRefused(editing, candidate)
      PROVE  ListTypes' /\ ListInv'
  BY <1>3, CommitRefusedKeeps
<1>4. ASSUME NEW editing \in Names \cup {None}, NEW candidate \in DataSource,
             NEW password \in Passwords \cup {None}, CommitSaved(editing, candidate, password)
      PROVE  ListTypes' /\ ListInv'
  BY <1>4, CommitSavedKeeps
<1>5. ASSUME KeychainRefuses \/ Finish \/ Show PROVE ListTypes' /\ ListInv'
  <2>1. Redraw /\ UNCHANGED <<cfg, file, conn, connecting>>
    BY <1>5 DEF KeychainRefuses, Finish, Show
  <2> HIDE DEF Redraw
  <2>2. QED
    BY <2>1, RedrawKeeps
<1>6. ASSUME SetTyped \/ Move \/ NothingToMove \/ DeleteOld PROVE ListTypes' /\ ListInv'
  <2>1. UNCHANGED <<cfg, file, list, conn, connecting>> /\ job'.step # "none"
    BY <1>6 DEF SetTyped, Move, NothingToMove, DeleteOld, GoTo, pointers, TypeOK
  <2>2. ~Idle'
    BY <2>1 DEF Idle, NoJob
  <2>3. QED
    BY <2>1, <2>2, UntouchedKeeps
<1>7. ASSUME Close \/ Reconnect \/ Connected \/ ConnectFails PROVE ListTypes' /\ ListInv'
  <2>1. /\ UNCHANGED <<cfg, file>>
        /\ \/ list' = list /\ open' = open /\ job' = job
           \/ list' = <<>> /\ ~open'
        /\ conn' \in {conn, connecting, NoPointer}
        /\ connecting' \in {conn, connecting, NoPointer}
    BY <1>7 DEF Close, Reconnect, Connected, ConnectFails
  <2>2. QED
    BY <2>1, UntouchedKeeps DEF Idle
<1>8. ASSUME NEW i \in DOMAIN list, ChooseInLauncher(list[i]) \/ ChooseInApp(list[i])
      PROVE  ListTypes' /\ ListInv'
  <2>1. /\ UNCHANGED <<cfg, file>>
        /\ \/ list' = list /\ open' = open /\ job' = job
           \/ list' = <<>> /\ ~open'
        /\ conn' = conn
        /\ connecting' = NoPointer \/ connecting' = list[i].ptr
    BY <1>8 DEF ChooseInLauncher, ChooseInApp
  <2>2. QED
    BY <2>1, UntouchedKeeps DEF Idle
<1>9. ASSUME Restart PROVE ListTypes' /\ ListInv'
  <2>1. file \in Seq(DataSource) /\ Len(file) \in Nat /\ file \in Seq(DataSource \cup {Zero})
    BY DEF TypeOK
  <2>2. /\ cfg' = [array |-> file, len |-> Len(file)] /\ list' = Rendered(file)
        /\ conn' = NoPointer /\ connecting' = NoPointer /\ file' = file
    BY <1>9 DEF Restart
  <2>3. Listed' = file
    BY <2>1, <2>2, SamePrefix DEF Listed
  <2>4. /\ list' \in Seq([label : Names, ptr : Pointer]) /\ Len(list') = Len(file)
        /\ DOMAIN list' = 1..Len(file)
        /\ \A i \in 1..Len(file) : list'[i].label = file[i].name /\ list'[i].ptr.at = i
    BY <2>1, <2>2, RenderedIs
  <2>5. ListTypes'
    BY <2>1, <2>2, <2>4 DEF ListTypes, NoPointer, Pointer
  <2>6. PointersAreInRange'
    BY <2>1, <2>2, <2>4 DEF PointersAreInRange, InTheArray, NoPointer
  <2>7. ListIsTheFile' /\ NamesAreUnique' /\ ItemsAreTheEntries'
    BY <2>1, <2>2, <2>3, <2>4 DEF ListInv, ListIsTheFile, NamesAreUnique, ItemsAreTheEntries
  <2>8. QED
    BY <2>5, <2>6, <2>7 DEF ListInv
<1>10. ASSUME UNCHANGED vars PROVE ListTypes' /\ ListInv'
  BY <1>10, UntouchedKeeps DEF vars, pointers, Idle
<1>11. QED
  BY <1>1, <1>2, <1>3, <1>4, <1>5, <1>6, <1>7, <1>8, <1>9, <1>10
     DEF Next, EditStep, KeychainStep, SessionStep

-----------------------------------------------------------------------------
(* The keychain and what is left of a commit *)

LEMMA OtherKept ==
  ASSUME TypeOK, ListInv, JobIsSound, [Next]_vars
  PROVE  OtherTypes' /\ JobIsSound'
<1>0. OtherTypes
  BY DEF TypeOK, OtherTypes
<1> USE <1>0 DEF OtherTypes, JobIsSound, Idle, NoJob, GoTo
<1>1. ASSUME NEW name \in Names, RemoveSaved(name) PROVE OtherTypes' /\ JobIsSound'
  BY <1>1 DEF RemoveSaved, Nothing
<1>2. ASSUME NEW name \in Names, RemoveRefused(name) PROVE OtherTypes' /\ JobIsSound'
  BY <1>2 DEF RemoveRefused
<1>3. ASSUME NEW editing \in Names \cup {None}, NEW candidate \in DataSource,
             CommitRefused(editing, candidate)
      PROVE  OtherTypes' /\ JobIsSound'
  BY <1>3 DEF CommitRefused
<1>4. ASSUME NEW editing \in Names \cup {None}, NEW candidate \in DataSource,
             NEW password \in Passwords \cup {None}, CommitSaved(editing, candidate, password)
      PROVE  OtherTypes' /\ JobIsSound'
  <2>1. job' \in [step : {"none", "secrets", "delete", "finish"},
                  old : Names \cup {None}, new : Names \cup {None},
                  password : Passwords \cup {None}, foretold : Passwords \cup {None}]
    <3>1. candidate.name \in Names
      BY DEF DataSource
    <3>2. FirstStep(editing, candidate.name, password) \in {"secrets", "finish"}
      BY DEF FirstStep
    <3>3. ProbePassword(editing, candidate.name) \in Passwords \cup {None}
      BY <3>1 DEF ProbePassword, Renames, Get
    <3>4. QED
      BY <1>4, <3>1, <3>2, <3>3 DEF CommitSaved
  <2>2. owed' \in [old : Names \cup {None}, new : Names \cup {None},
                   password : Passwords \cup {None}]
    BY <1>4 DEF CommitSaved, Renames, DataSource, Nothing
  <2>3. JobIsSound'
    BY <1>4 DEF CommitSaved, FirstStep, Renames, DataSource
  <2>4. QED
    BY <1>4, <2>1, <2>2, <2>3 DEF CommitSaved
<1>5. ASSUME KeychainRefuses PROVE OtherTypes' /\ JobIsSound'
  BY <1>5 DEF KeychainRefuses
<1>6. ASSUME SetTyped PROVE OtherTypes' /\ JobIsSound'
  BY <1>6 DEF SetTyped, Renames
<1>7. ASSUME Move PROVE OtherTypes' /\ JobIsSound'
  BY <1>7 DEF Move, Get
<1>8. ASSUME NothingToMove PROVE OtherTypes' /\ JobIsSound'
  BY <1>8 DEF NothingToMove
<1>9. ASSUME DeleteOld PROVE OtherTypes' /\ JobIsSound'
  BY <1>9 DEF DeleteOld
<1>10. ASSUME Finish PROVE OtherTypes' /\ JobIsSound'
  BY <1>10 DEF Finish
<1>11. ASSUME Show PROVE OtherTypes' /\ JobIsSound'
  <2>1. Deref(conn) \in DataSource \cup {Zero}
    BY DerefIs DEF TypeOK, ListInv, PointersAreInRange
  <2>2. Deref(conn).name \in Names \cup {None}
    BY <2>1 DEF DataSource, Zero
  <2>3. QED
    BY <1>11, <2>2 DEF Show
<1>12. ASSUME Close PROVE OtherTypes' /\ JobIsSound'
  BY <1>12 DEF Close
<1>13. ASSUME Reconnect PROVE OtherTypes' /\ JobIsSound'
  BY <1>13 DEF Reconnect
<1>14. ASSUME Connected PROVE OtherTypes' /\ JobIsSound'
  <2>1. Deref(connecting) \in DataSource \cup {Zero}
    BY DerefIs DEF TypeOK, ListInv, PointersAreInRange
  <2>2. QED
    BY <1>14, <2>1 DEF Connected
<1>15. ASSUME ConnectFails PROVE OtherTypes' /\ JobIsSound'
  BY <1>15 DEF ConnectFails
<1>16. ASSUME NEW i \in DOMAIN list, ChooseInLauncher(list[i]) PROVE OtherTypes' /\ JobIsSound'
  BY <1>16 DEF ChooseInLauncher
<1>17. ASSUME NEW i \in DOMAIN list, ChooseInApp(list[i]) PROVE OtherTypes' /\ JobIsSound'
  BY <1>17 DEF ChooseInApp
<1>18. ASSUME Restart PROVE OtherTypes' /\ JobIsSound'
  BY <1>18 DEF Restart, Zero
<1>19. ASSUME UNCHANGED vars PROVE OtherTypes' /\ JobIsSound'
  BY <1>19 DEF vars, pointers
<1>20. QED
  BY <1>1, <1>2, <1>3, <1>4, <1>5, <1>6, <1>7, <1>8, <1>9, <1>10, <1>11, <1>12,
     <1>13, <1>14, <1>15, <1>16, <1>17, <1>18, <1>19
     DEF Next, EditStep, KeychainStep, SessionStep

(* A rename whose read of the keychain tells what is there carries the       *)
(* password over at each of its steps.                                       *)
LEMMA PasswordKept ==
  ASSUME TypeOK, ListInv, JobIsSound, PasswordIsCarried, [Next]_vars
  PROVE  PasswordIsCarried'
<1>0. OtherTypes
  BY DEF TypeOK, OtherTypes
<1> USE <1>0 DEF OtherTypes, JobIsSound, Idle, NoJob, GoTo, PasswordIsCarried
<1>1. ASSUME NEW name \in Names, RemoveSaved(name) PROVE PasswordIsCarried'
  BY <1>1 DEF RemoveSaved, Nothing
<1>2. ASSUME NEW name \in Names, RemoveRefused(name) PROVE PasswordIsCarried'
  BY <1>2 DEF RemoveRefused
<1>3. ASSUME NEW editing \in Names \cup {None}, NEW candidate \in DataSource,
             CommitRefused(editing, candidate)
      PROVE  PasswordIsCarried'
  BY <1>3 DEF CommitRefused
<1>4. ASSUME NEW editing \in Names \cup {None}, NEW candidate \in DataSource,
             NEW password \in Passwords \cup {None}, CommitSaved(editing, candidate, password)
      PROVE  PasswordIsCarried'
  BY <1>4 DEF CommitSaved, FirstStep, Renames, DataSource, Nothing
<1>5. ASSUME KeychainRefuses PROVE PasswordIsCarried'
  BY <1>5 DEF KeychainRefuses
<1>6. ASSUME SetTyped PROVE PasswordIsCarried'
  BY <1>6 DEF SetTyped, Renames
<1>7. ASSUME Move PROVE PasswordIsCarried'
  BY <1>7 DEF Move, Get
<1>8. ASSUME NothingToMove PROVE PasswordIsCarried'
  BY <1>8 DEF NothingToMove, Get
<1>9. ASSUME DeleteOld PROVE PasswordIsCarried'
  BY <1>9 DEF DeleteOld
<1>10. ASSUME Finish PROVE PasswordIsCarried'
  BY <1>10 DEF Finish
<1>11. ASSUME Show PROVE PasswordIsCarried'
  BY <1>11 DEF Show
<1>12. ASSUME Close PROVE PasswordIsCarried'
  BY <1>12 DEF Close
<1>13. ASSUME Reconnect PROVE PasswordIsCarried'
  BY <1>13 DEF Reconnect
<1>14. ASSUME Connected PROVE PasswordIsCarried'
  BY <1>14 DEF Connected
<1>15. ASSUME ConnectFails PROVE PasswordIsCarried'
  BY <1>15 DEF ConnectFails
<1>16. ASSUME NEW i \in DOMAIN list, ChooseInLauncher(list[i]) PROVE PasswordIsCarried'
  BY <1>16 DEF ChooseInLauncher
<1>17. ASSUME NEW i \in DOMAIN list, ChooseInApp(list[i]) PROVE PasswordIsCarried'
  BY <1>17 DEF ChooseInApp
<1>18. ASSUME Restart PROVE PasswordIsCarried'
  BY <1>18 DEF Restart
<1>19. ASSUME UNCHANGED vars PROVE PasswordIsCarried'
  BY <1>19 DEF vars, pointers
<1>20. QED
  BY <1>1, <1>2, <1>3, <1>4, <1>5, <1>6, <1>7, <1>8, <1>9, <1>10, <1>11, <1>12,
     <1>13, <1>14, <1>15, <1>16, <1>17, <1>18, <1>19
     DEF Next, EditStep, KeychainStep, SessionStep

(* What the Test button answered for is what the commit leaves.              *)
LEMMA ProbeKept ==
  ASSUME TypeOK, ListInv, JobIsSound, ProbeIsRight, [Next]_vars
  PROVE  ProbeIsRight'
<1>0. OtherTypes
  BY DEF TypeOK, OtherTypes
<1> USE <1>0 DEF OtherTypes, JobIsSound, Idle, NoJob, GoTo, ProbeIsRight
<1>1. ASSUME NEW name \in Names, RemoveSaved(name) PROVE ProbeIsRight'
  BY <1>1 DEF RemoveSaved
<1>2. ASSUME NEW name \in Names, RemoveRefused(name) PROVE ProbeIsRight'
  BY <1>2 DEF RemoveRefused
<1>3. ASSUME NEW editing \in Names \cup {None}, NEW candidate \in DataSource,
             CommitRefused(editing, candidate)
      PROVE  ProbeIsRight'
  BY <1>3 DEF CommitRefused
<1>4. ASSUME NEW editing \in Names \cup {None}, NEW candidate \in DataSource,
             NEW password \in Passwords \cup {None}, CommitSaved(editing, candidate, password)
      PROVE  ProbeIsRight'
  BY <1>4 DEF CommitSaved, FirstStep, Renames, ProbePassword, Get, DataSource
<1>5. ASSUME KeychainRefuses PROVE ProbeIsRight'
  BY <1>5 DEF KeychainRefuses
<1>6. ASSUME SetTyped PROVE ProbeIsRight'
  BY <1>6 DEF SetTyped, Renames
<1>7. ASSUME Move PROVE ProbeIsRight'
  BY <1>7 DEF Move, Get, ProbePassword, Renames
<1>8. ASSUME NothingToMove PROVE ProbeIsRight'
  BY <1>8 DEF NothingToMove, Get, ProbePassword, Renames
<1>9. ASSUME DeleteOld PROVE ProbeIsRight'
  BY <1>9 DEF DeleteOld, Get, Renames
<1>10. ASSUME Finish PROVE ProbeIsRight'
  BY <1>10 DEF Finish
<1>11. ASSUME Show PROVE ProbeIsRight'
  BY <1>11 DEF Show, ProbePassword, Renames, Get
<1>12. ASSUME Close PROVE ProbeIsRight'
  BY <1>12 DEF Close
<1>13. ASSUME Reconnect PROVE ProbeIsRight'
  BY <1>13 DEF Reconnect
<1>14. ASSUME Connected PROVE ProbeIsRight'
  BY <1>14 DEF Connected
<1>15. ASSUME ConnectFails PROVE ProbeIsRight'
  BY <1>15 DEF ConnectFails
<1>16. ASSUME NEW i \in DOMAIN list, ChooseInLauncher(list[i]) PROVE ProbeIsRight'
  BY <1>16 DEF ChooseInLauncher
<1>17. ASSUME NEW i \in DOMAIN list, ChooseInApp(list[i]) PROVE ProbeIsRight'
  BY <1>17 DEF ChooseInApp
<1>18. ASSUME Restart PROVE ProbeIsRight'
  BY <1>18 DEF Restart
<1>19. ASSUME UNCHANGED vars PROVE ProbeIsRight'
  BY <1>19 DEF vars, pointers, ProbePassword, Renames, Get
<1>20. QED
  BY <1>1, <1>2, <1>3, <1>4, <1>5, <1>6, <1>7, <1>8, <1>9, <1>10, <1>11, <1>12,
     <1>13, <1>14, <1>15, <1>16, <1>17, <1>18, <1>19
     DEF Next, EditStep, KeychainStep, SessionStep

-----------------------------------------------------------------------------
LEMMA StepKept ==
  ASSUME TypeOK, ListInv, JobIsSound, [Next]_vars
  PROVE  TypeOK' /\ ListInv' /\ JobIsSound'
<1>1. ListTypes' /\ ListInv' /\ OtherTypes' /\ JobIsSound'
  BY ListKept, OtherKept
<1>2. QED
  BY <1>1 DEF TypeOK, ListTypes, OtherTypes

(* The list in memory, the file, the items and the pointers keep step.       *)
THEOREM ListInvariance == Spec => [](TypeOK /\ ListInv /\ JobIsSound)
<1>1. TypeOK /\ ListInv /\ JobIsSound /\ [Next]_vars => TypeOK' /\ ListInv' /\ JobIsSound'
  BY StepKept
<1>2. QED
  BY InitInvariant, <1>1, PTL DEF Spec

(* The list, the keychain and a commit under way keep to their types.        *)
THEOREM TypeCorrect == Spec => []TypeOK
BY ListInvariance, PTL

(* After any sequence of saves and refused saves the list in memory is the   *)
(* one in the file, and names stay unique.                                   *)
THEOREM MemoryIsTheFile == Spec => []MemoryMatchesFile
<1>1. ListInv => MemoryMatchesFile
  BY DEF ListInv, ListIsTheFile, NamesAreUnique, MemoryMatchesFile
<1>2. QED
  BY ListInvariance, <1>1, PTL

(* The item a key is pressed on carries the name of the entry at its place.  *)
THEOREM LabelsAreNames == Spec => []LabelsMatchEntries
<1>1. TypeOK /\ ListInv => LabelsMatchEntries
  <2> SUFFICES ASSUME TypeOK, ListInv, open, Idle
               PROVE  [i \in DOMAIN list |-> list[i].label]
                        = [i \in DOMAIN Listed |-> Listed[i].name]
    BY DEF LabelsMatchEntries
  <2>1. Listed = file /\ Len(list) = Len(file)
        /\ \A i \in DOMAIN list : list[i].label = file[i].name
    BY DEF ListInv, ListIsTheFile, ItemsAreTheEntries
  <2>2. DOMAIN list = 1..Len(list) /\ DOMAIN file = 1..Len(file)
    BY DEF TypeOK
  <2> HIDE DEF Listed
  <2>3. QED
    BY <2>1, <2>2
<1>2. QED
  BY ListInvariance, <1>1, PTL

(* Killed at any moment, and whatever calls fail, a rename leaves the        *)
(* password under one of the two names, unless it was its read that failed   *)
(* and the code took it for an empty entry (dsPicker.commit).                *)
THEOREM RenameIsSafe == Spec => []RenameKeepsPassword
<1>1. /\ TypeOK /\ ListInv /\ JobIsSound /\ PasswordIsCarried /\ [Next]_vars
      => PasswordIsCarried'
  BY PasswordKept
<1>2. PasswordIsCarried => RenameKeepsPassword
  BY DEF PasswordIsCarried, RenameKeepsPassword
<1>3. QED
  BY InitInvariant, ListInvariance, <1>1, <1>2, PTL DEF Spec

(* Test has answered for the password that a commit goes on to leave, under  *)
(* the same condition.                                                       *)
THEOREM ProbeIsHonest == Spec => []ProbeForetells
<1>1. /\ TypeOK /\ ListInv /\ JobIsSound /\ ProbeIsRight /\ [Next]_vars
      => ProbeIsRight'
  BY ProbeKept
<1>2. ProbeIsRight => ProbeForetells
  BY DEF ProbeIsRight, ProbeForetells
<1>3. QED
  BY InitInvariant, ListInvariance, <1>1, <1>2, PTL DEF Spec
=============================================================================
