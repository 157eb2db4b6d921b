---------------------------- MODULE DataSources -----------------------------
(***************************************************************************)
(* The list of datasources while it is edited: config.DataSources in       *)
(* memory, the file it is saved to, the keychain, and everybody who holds  *)
(* a pointer into it: the items of the list, the session that is open and  *)
(* the one being opened.                                                   *)
(*                                                                         *)
(* A slice is an array and how much of it is in use.  What the code does   *)
(* in place (the filter of remove, the assignment and the append of        *)
(* commit) writes elements others point at.  The copy a failed save falls  *)
(* back to is a new array; nobody writes to the old one again, so a        *)
(* pointer into it is as good as the value it points at.                   *)
(*                                                                         *)
(* Handlers run on the interface's goroutine.  commit and remove are cut   *)
(* where they leave the process, at the file and at each call to the       *)
(* keychain, since the program can be killed there.                        *)
(***************************************************************************)
EXTENDS Naturals, Sequences, FiniteSets

CONSTANTS
  Names,         \* of datasources
  Servers,       \* everything else an entry says
  Passwords,
  MaxEntries,    \* bound: entries in the list
  MaxSlack,      \* bound: room append leaves in a new array
  Environment,   \* the password DATAVASE_PASSWORD_<NAME> gives, or None
  None

ASSUME NoneIsOutside == None \notin Names \cup Servers \cup Passwords
ASSUME EnvironmentType == Environment \in [Names -> Passwords \cup {None}]
ASSUME BoundIsNumber == MaxEntries \in Nat /\ MaxSlack \in Nat

VARIABLES
  cfg,        \* the slice config.DataSources
  file,       \* the entries in the configuration file
  keychain,   \* the password filed under each name
  list,       \* the items of dsPicker.list: a label and a pointer each
  open,       \* the list is on screen
  current,    \* pickerDeps.current
  conn,       \* Conn.ds of the open session; none while the launcher runs
  connecting, \* the pointer a connection attempt was given
  job,        \* what is left of a commit or remove after its save
  opened,     \* history: the entry the session was opened for
  owed,       \* history: the password the last rename had to carry over
  misread     \* history: a rename's read of the keychain failed, though
              \* something was there

pointers == <<list, conn, connecting>>
vars == <<cfg, pointers, file, keychain, open, current, opened, job, owed, misread>>

DataSource == [name : Names, server : Servers]
Zero == [name |-> None, server |-> None]
Pointer == [at : Nat, ds : DataSource \cup {Zero}]
NoPointer == [at |-> 0, ds |-> Zero]
NoJob == [step |-> "none", old |-> None, new |-> None, password |-> None, foretold |-> None]
Nothing == [old |-> None, new |-> None, password |-> None]

TypeOK ==
  /\ cfg \in [array : Seq(DataSource \cup {Zero}), len : Nat]
  /\ file \in Seq(DataSource)
  /\ keychain \in [Names -> Passwords \cup {None}]
  /\ list \in Seq([label : Names, ptr : Pointer])
  /\ open \in BOOLEAN
  /\ current \in Names \cup {None}
  /\ conn \in Pointer /\ connecting \in Pointer
  /\ opened \in DataSource \cup {Zero}
  /\ job \in [step : {"none", "secrets", "delete", "finish"},
              old : Names \cup {None}, new : Names \cup {None},
              password : Passwords \cup {None}, foretold : Passwords \cup {None}]
  /\ owed \in [old : Names \cup {None}, new : Names \cup {None},
               password : Passwords \cup {None}]
  /\ misread \in BOOLEAN

-----------------------------------------------------------------------------
(* Memory *)

\* config.DataSources, as a reader sees it.
Listed == SubSeq(cfg.array, 1, cfg.len)
NamesOf(entries) == {entries[i].name : i \in DOMAIN entries}

\* A pointer into the array in use, or the value left in one no longer used.
At(i) == [at |-> i, ds |-> Zero]
Deref(pointer) == IF pointer.at = 0 THEN pointer.ds ELSE cfg.array[pointer.at]
LeftIn(array, pointer) ==
  IF pointer.at = 0 THEN pointer ELSE [at |-> 0, ds |-> array[pointer.at]]

\* The array after entries were written to it from its start.
Overwritten(entries) ==
  [i \in DOMAIN cfg.array |-> IF i \in DOMAIN entries THEN entries[i] ELSE cfg.array[i]]

\* A new array holding the entries becomes config.DataSources, the old one is
\* left as it now reads.  How much room append adds is the runtime's choice.
NewArray(entries, old) ==
  /\ \E room \in 0..MaxSlack :
       cfg' = [array |-> entries \o [i \in 1..room |-> Zero], len |-> Len(entries)]
  /\ list' = [i \in DOMAIN list |-> [label |-> list[i].label, ptr |-> LeftIn(old, list[i].ptr)]]
  /\ conn' = LeftIn(old, conn)
  /\ connecting' = LeftIn(old, connecting)

Rendered(entries) == [i \in DOMAIN entries |-> [label |-> entries[i].name, ptr |-> At(i)]]

-----------------------------------------------------------------------------
(* remove.  As elsewhere, the definitions no action uses are plausible       *)
(* mistakes in the definition that follows them.                             *)

Idle == job = NoJob

Blanked(name) == [i \in DOMAIN Listed |-> IF Listed[i].name = name THEN Zero ELSE Listed[i]]

\* The filter keeps, in their order, the entries that have another name.
Kept(name) == {i \in DOMAIN Listed : Listed[i].name # name}
Without(name) ==
  [k \in 1..Cardinality(Kept(name)) |->
     Listed[CHOOSE i \in Kept(name) : Cardinality({j \in Kept(name) : j <= i}) = k]]

\* The file has been replaced; the keychain is next.
RemoveSaved(name) ==
  /\ open /\ Idle
  /\ name \in NamesOf(Listed)
  /\ file' = Without(name)
  /\ cfg' = [array |-> Overwritten(Without(name)), len |-> Len(Without(name))]
  /\ job' = [NoJob EXCEPT !.step = "delete", !.old = name]
  /\ owed' = Nothing /\ misread' = FALSE
  /\ UNCHANGED <<pointers, keychain, open, current, opened>>

NotRolledBack(array) == cfg' = [cfg EXCEPT !.array = array] /\ UNCHANGED pointers
\* A save that failed: the copy taken before becomes the list.
RollBack(array) == NewArray(Listed, array)

\* The list is not drawn again.
RemoveRefused(name) ==
  /\ open /\ Idle
  /\ name \in NamesOf(Listed)
  /\ RollBack(Overwritten(Without(name)))
  /\ UNCHANGED <<file, keychain, open, current, opened, job, owed, misread>>

-----------------------------------------------------------------------------
(* commit: editing is the name the entry had, None for a new one *)

\* validateDataSource: nobody else has the name.
Valid(editing, candidate) ==
  /\ editing # None => editing \in NamesOf(Listed)
  /\ candidate.name \in NamesOf(Listed) => candidate.name = editing
  /\ editing = None => cfg.len < MaxEntries

With(editing, candidate) ==
  IF editing = None THEN Append(Listed, candidate)
  ELSE [i \in DOMAIN Listed |-> IF Listed[i].name = editing THEN candidate ELSE Listed[i]]

\* append writes in place while the array has room; an edit always does.
Fits(editing) == editing # None \/ cfg.len < Len(cfg.array)

Renames(editing, name) == editing # None /\ editing # name

\* The store asks the environment first (secret.WithEnv).
Get(store, name) == IF Environment[name] # None THEN Environment[name] ELSE store[name]

ProbeStandingFirst(editing, name) ==
  IF keychain[name] # None THEN keychain[name]
  ELSE IF Renames(editing, name) THEN Get(keychain, editing) ELSE None

\* probePassword, with the field left blank and the keychain answering it.
ProbePassword(editing, name) ==
  IF Environment[name] # None THEN Environment[name]
  ELSE IF Renames(editing, name) /\ Get(keychain, editing) # None
       THEN Get(keychain, editing)
       ELSE keychain[name]

FirstStep(editing, name, password) ==
  IF password # None \/ Renames(editing, name) THEN "secrets" ELSE "finish"

CommitSaved(editing, candidate, password) ==
  /\ open /\ Idle
  /\ Valid(editing, candidate)
  /\ file' = With(editing, candidate)
  /\ job' = [step |-> FirstStep(editing, candidate.name, password),
             old |-> editing, new |-> candidate.name, password |-> password,
             foretold |-> ProbePassword(editing, candidate.name)]
  /\ owed' = IF /\ Renames(editing, candidate.name) /\ password = None
                /\ Environment[editing] = None
             THEN [old |-> editing, new |-> candidate.name, password |-> keychain[editing]]
             ELSE Nothing
  /\ misread' = FALSE
  /\ opened' = IF conn # NoPointer /\ editing = opened.name THEN candidate ELSE opened
  /\ IF Fits(editing)
     THEN /\ cfg' = [array |-> Overwritten(With(editing, candidate)),
                      len |-> Len(With(editing, candidate))]
          /\ UNCHANGED pointers
     ELSE NewArray(With(editing, candidate), cfg.array)
  /\ UNCHANGED <<keychain, open, current>>

\* The form stays open with the message; nothing is drawn again.
CommitRefused(editing, candidate) ==
  /\ open /\ Idle
  /\ Valid(editing, candidate)
  /\ RollBack(IF Fits(editing) THEN Overwritten(With(editing, candidate)) ELSE cfg.array)
  /\ UNCHANGED <<file, keychain, open, current, opened, job, owed, misread>>

-----------------------------------------------------------------------------
(* The keychain, after the save *)

RedrawForgotten == UNCHANGED list
\* renderList.
Redraw == list' = Rendered(Listed)

GoTo(step) == job' = [job EXCEPT !.step = step]

RefusalIgnored ==
  /\ job.step = "secrets"
  /\ GoTo("delete")
  /\ UNCHANGED <<cfg, pointers, file, keychain, open, current, opened, owed, misread>>

\* savedWithoutPassword: the form closes on the strength of the save.
KeychainRefuses ==
  /\ job.step = "secrets"
  /\ job.password = None => Get(keychain, job.old) # None
  /\ job' = NoJob
  /\ UNCHANGED <<cfg, conn, connecting, file, keychain, open, current, opened, owed, misread>>
  /\ Redraw

SetTyped ==
  /\ job.step = "secrets" /\ job.password # None
  /\ keychain' = [keychain EXCEPT ![job.new] = job.password]
  /\ GoTo(IF Renames(job.old, job.new) THEN "delete" ELSE "finish")
  /\ UNCHANGED <<cfg, pointers, file, open, current, opened, owed, misread>>

\* A rename with the password left blank moves it.
Move ==
  /\ job.step = "secrets" /\ job.password = None
  /\ Get(keychain, job.old) # None
  /\ keychain' = [keychain EXCEPT ![job.new] = Get(keychain, job.old)]
  /\ GoTo("delete")
  /\ UNCHANGED <<cfg, pointers, file, open, current, opened, owed, misread>>

\* Get reported an error, that there is nothing or that the keychain failed: the
\* code takes either for nothing to move.
NothingToMove ==
  /\ job.step = "secrets" /\ job.password = None
  /\ Environment[job.old] = None
  /\ misread' = (keychain[job.old] # None)
  /\ GoTo("delete")
  /\ UNCHANGED <<cfg, pointers, file, keychain, open, current, opened, owed>>

\* Delete, whose error is dropped.
DeleteOld ==
  /\ job.step = "delete"
  /\ keychain' \in {keychain, [keychain EXCEPT ![job.old] = None]}
  /\ GoTo("finish")
  /\ UNCHANGED <<cfg, pointers, file, open, current, opened, owed, misread>>

Finish ==
  /\ job.step = "finish"
  /\ current' = IF job.new # None /\ job.old # None /\ job.old = current THEN job.new ELSE current
  /\ job' = NoJob
  /\ UNCHANGED <<cfg, conn, connecting, file, keychain, open, opened, owed, misread>>
  /\ Redraw

-----------------------------------------------------------------------------
(* Connecting *)

\* showDataSources.
Show ==
  /\ conn # NoPointer /\ ~open /\ Idle
  /\ open' = TRUE
  /\ current' = Deref(conn).name
  /\ Redraw
  /\ UNCHANGED <<cfg, conn, connecting, file, keychain, opened, job, owed, misread>>

\* closeDataSources; the list is not read again.
Close ==
  /\ conn # NoPointer /\ open /\ Idle
  /\ open' = FALSE /\ list' = <<>>
  /\ UNCHANGED <<cfg, conn, connecting, file, keychain, current, opened, job, owed, misread>>

\* Enter on an item.  The launcher keeps the list while it connects.
ChooseInLauncher(item) ==
  /\ conn = NoPointer /\ open /\ Idle
  /\ connecting = NoPointer
  /\ connecting' = item.ptr
  /\ UNCHANGED <<cfg, list, conn, file, keychain, open, current, opened, job, owed, misread>>

\* switchTo, where nothing is running and no transaction is open.
ChooseInApp(item) ==
  /\ conn # NoPointer /\ open /\ Idle
  /\ connecting = NoPointer
  /\ connecting' = IF Deref(item.ptr).name = Deref(conn).name THEN NoPointer ELSE item.ptr
  /\ open' = FALSE /\ list' = <<>>
  /\ UNCHANGED <<cfg, conn, file, keychain, current, opened, job, owed, misread>>

\* reconnect, on a session that was lost.
Reconnect ==
  /\ conn # NoPointer /\ ~open /\ Idle
  /\ connecting = NoPointer
  /\ connecting' = conn
  /\ UNCHANGED <<cfg, list, conn, file, keychain, open, current, opened, job, owed, misread>>

\* connectTo found a password and the session opened: it keeps the pointer.
Connected ==
  /\ connecting # NoPointer /\ Idle
  /\ Get(keychain, Deref(connecting).name) # None
  /\ conn' = connecting /\ connecting' = NoPointer
  /\ opened' = Deref(connecting)
  /\ IF conn = NoPointer THEN open' = FALSE /\ list' = <<>> ELSE UNCHANGED <<open, list>>
  /\ UNCHANGED <<cfg, file, keychain, current, job, owed, misread>>

ConnectFails ==
  /\ connecting # NoPointer /\ Idle
  /\ connecting' = NoPointer
  /\ UNCHANGED <<cfg, list, conn, file, keychain, open, current, opened, job, owed, misread>>

\* The program was quit or killed, wherever it was, and runs again: Load.
Restart ==
  /\ cfg' = [array |-> file, len |-> Len(file)]
  /\ list' = Rendered(file)
  /\ conn' = NoPointer /\ connecting' = NoPointer /\ opened' = Zero
  /\ open' = TRUE /\ current' = None /\ job' = NoJob
  /\ UNCHANGED <<file, keychain, owed, misread>>

Init ==
  /\ file = <<>>
  /\ cfg = [array |-> <<>>, len |-> 0]
  /\ keychain = [n \in Names |-> None]
  /\ list = <<>> /\ open = TRUE /\ current = None
  /\ conn = NoPointer /\ connecting = NoPointer /\ opened = Zero
  /\ job = NoJob /\ owed = Nothing /\ misread = FALSE

EditStep ==
  \/ \E name \in Names : RemoveSaved(name) \/ RemoveRefused(name)
  \/ \E editing \in Names \cup {None}, candidate \in DataSource :
       \/ CommitRefused(editing, candidate)
       \/ \E password \in Passwords \cup {None} : CommitSaved(editing, candidate, password)

KeychainStep ==
  KeychainRefuses \/ SetTyped \/ Move \/ NothingToMove \/ DeleteOld \/ Finish

SessionStep ==
  \/ Show \/ Close \/ Reconnect \/ Connected \/ ConnectFails
  \/ \E i \in DOMAIN list : ChooseInLauncher(list[i]) \/ ChooseInApp(list[i])

Next == EditStep \/ KeychainStep \/ SessionStep \/ Restart

Spec == Init /\ [][Next]_vars

-----------------------------------------------------------------------------
(* Properties *)

\* Whatever the saves do, the list in memory is the list in the file, and no
\* name is there twice (commit and remove roll back).
MemoryMatchesFile ==
  /\ Listed = file
  /\ \A i, j \in DOMAIN file : file[i].name = file[j].name => i = j

\* The keys of the list act on the entry whose label they are pressed on
\* (dsPicker.selected goes by position), after any save or failure.
LabelsMatchEntries ==
  open /\ Idle => [i \in DOMAIN list |-> list[i].label] = [i \in DOMAIN Listed |-> Listed[i].name]

\* A rename never loses the password it carries over: at every moment, and
\* after being killed at any moment, it is filed under one of the two names,
\* unless the read that should have carried it failed.
RenameKeepsPassword ==
  owed.password # None /\ ~misread =>
    keychain[owed.old] = owed.password \/ keychain[owed.new] = owed.password

\* The Test button answers for the password the saved datasource will go on to
\* use (probePassword), where none was typed and the rename reads what the
\* test did.
ProbeForetells ==
  /\ job.step = "finish" /\ job.new # None /\ job.password = None
  /\ ~misread
  => Get(keychain, job.new) = job.foretold

-----------------------------------------------------------------------------
(* What a reader of the comments would expect besides, and the code does not *)
(* keep.                                                                     *)

\* The open session serves the datasource it was opened for, or what an edit
\* saved for it since (Conn.DataSource).
SessionKeepsDataSource == conn # NoPointer => Deref(conn) = opened

\* Enter on an item connects to the entry it shows.
ItemsPointAtTheirEntry ==
  open /\ Idle => \A i \in DOMAIN list : Deref(list[i].ptr).name = list[i].label

\* A rename deletes the old entry only once the copy has landed
\* (dspicker.go:280): RenameKeepsPassword, whatever the reads report.
OldEntryOutlivesItsCopy ==
  owed.password # None =>
    keychain[owed.old] = owed.password \/ keychain[owed.new] = owed.password
=============================================================================
