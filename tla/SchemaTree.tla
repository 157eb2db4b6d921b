----------------------------- MODULE SchemaTree -----------------------------
(***************************************************************************)
(* The schema tree, the cache behind completion, and the reads that fill   *)
(* both.  A read is started by the interface and runs in a goroutine; it   *)
(* looks at App.conn when it starts, which is after the handler that asked *)
(* for it, and hands its result back to the interface when it ends, which  *)
(* is whenever it ends.                                                    *)
(*                                                                         *)
(* What a server holds is its datasource: "the schemas of d" is d.  A      *)
(* datasource's name is the datasource too, while it has it: once it is    *)
(* given another, what was filed under the name before is nobody's, and    *)
(* the name is Former.  A session that was replaced is closed in its own   *)
(* time, so a read on it may fail or not.  The nodes of tables load their  *)
(* columns as the nodes of schemas load their tables, and are not a level  *)
(* of their own here.                                                      *)
(***************************************************************************)
EXTENDS Naturals, Sequences, FiniteSets

CONSTANTS
  DataSources,
  Former,     \* any name a datasource had, and has no longer
  MaxLoads,   \* bound: reads in flight
  MaxParts,   \* queries a snapshot takes
  None

ASSUME NoneIsOutside == None \notin DataSources /\ Former \notin DataSources
ASSUME BoundIsNumber == MaxLoads \in Nat /\ MaxParts \in Nat \ {0}

VARIABLES
  conn,       \* App.conn: the datasource of the session looked at
  visited,    \* the datasources the program has been on
  root,       \* the text of the tree's root
  children,   \* the nodes under it
  loads,      \* the goroutines of loadSchemas, loadTables and refreshCache
  cache,      \* catalog.Cache: the snapshot filed under each name
  selected,   \* App.selectedSchema
  completion, \* App.completion; none without a cache
  hasCache    \* the cache could be opened

place == <<conn, visited>>
tree == <<root, children>>
choice == <<selected, completion>>
vars == <<place, tree, loads, cache, choice, hasCache>>

Slots == 1..MaxLoads
NoLoad == [kind |-> "none", node |-> 0, name |-> None, from |-> None,
           parts |-> 0, outcome |-> "none", late |-> FALSE]
NoEngine == [ds |-> None, schema |-> None]
NoSnapshot == [of |-> None, parts |-> 0]

Load == [kind : {"none", "schemas", "tables", "snapshot"}, node : Nat,
         name : DataSources \cup {None}, from : DataSources \cup {None},
         parts : 0..MaxParts, outcome : {"none", "read", "failed"},
         late : BOOLEAN] \* observed: the tree it was to fill was cleared since
Node == [schema : DataSources, loaded : BOOLEAN, below : Seq(DataSources),
         late : BOOLEAN] \* observed: it comes from a late read

TypeOK ==
  /\ conn \in DataSources
  /\ visited \in SUBSET DataSources
  /\ root \in [ds : DataSources, loading : BOOLEAN, late : BOOLEAN]
  /\ children \in Seq(Node)
  /\ loads \in [Slots -> Load]
  /\ cache \in [DataSources -> [of : DataSources \cup {None}, parts : 0..MaxParts]]
  /\ selected \in DataSources \cup {None}
  /\ completion \in [ds : DataSources \cup {Former, None}, schema : DataSources \cup {None}]
  /\ hasCache \in BOOLEAN

-----------------------------------------------------------------------------
(* Starting a read.  As elsewhere, the definitions no action uses are         *)
(* plausible mistakes in the definition that follows them.                   *)

InFlight(kinds) == {l \in Slots : loads[l].kind \in kinds}
Free == Slots \ InFlight({"schemas", "tables", "snapshot"})
FirstFree == CHOOSE l \in Free : \A k \in Free : l <= k
LastFree == CHOOSE l \in Free : \A k \in Free : k <= l

Spawned(kind, node, name) == [kind |-> kind, node |-> node, name |-> name,
                              from |-> None, parts |-> 0, outcome |-> "none", late |-> FALSE]

\* What is read for the nodes the tree lets go of is shown to nobody.  The root
\* is kept, so a list of schemas on its way will be shown under it.
Detached ==
  [l \in Slots |-> IF loads[l].kind = "tables" THEN NoLoad
                   ELSE [loads[l] EXCEPT !.late = loads[l].kind = "schemas"]]

NotCleared(ds) ==
  UNCHANGED children /\ root' = [ds |-> ds, loading |-> TRUE, late |-> FALSE]
Cleared(ds) ==
  children' = <<>> /\ root' = [ds |-> ds, loading |-> TRUE, late |-> FALSE]

\* loadSchemas, and the refreshCache it ends with.
LoadSchemas(ds) ==
  /\ Cardinality(Free) >= (IF hasCache THEN 2 ELSE 1)
  /\ Cleared(ds)
  /\ loads' = LET reading == [Detached EXCEPT ![FirstFree] = Spawned("schemas", 0, ds)]
              IN IF hasCache THEN [reading EXCEPT ![LastFree] = Spawned("snapshot", 0, ds)]
                 ELSE reading

Engine(ds) == IF hasCache THEN [ds |-> ds, schema |-> None] ELSE NoEngine

-----------------------------------------------------------------------------
(* The handlers *)

\* ActionRefreshSchema.
Refresh ==
  /\ LoadSchemas(conn)
  /\ UNCHANGED <<place, cache, choice, hasCache>>

\* The same key on a session that was lost, answered whenever its reconnection
\* comes back, whatever the interface was switched to meanwhile.
AdoptReconnected(ds) ==
  /\ ds \in visited
  /\ conn' = ds
  /\ LoadSchemas(ds)
  /\ UNCHANGED <<visited, cache, choice, hasCache>>

\* commit gives an entry the session has a pointer to a name no datasource had.
\* What is filed under the name it had, or will be, is looked up by nobody.
Rename(ds) ==
  /\ cache' = [cache EXCEPT ![ds] = NoSnapshot]
  /\ completion' = [completion EXCEPT !.ds = IF @ = ds THEN Former ELSE @]
  /\ loads' = [l \in Slots |-> IF loads[l].kind = "snapshot" /\ loads[l].name = ds
                               THEN NoLoad ELSE loads[l]]
  /\ UNCHANGED <<place, tree, selected, hasCache>>

EngineKept(ds) == UNCHANGED completion
EngineRebuilt(ds) == completion' = Engine(ds)

\* adopt, of a session that may have been asked for twice.
Switch(ds) ==
  /\ conn' = ds /\ visited' = visited \cup {ds}
  /\ selected' = None
  /\ EngineRebuilt(ds)
  /\ LoadSchemas(ds)
  /\ UNCHANGED <<cache, hasCache>>

SetSchema(schema) ==
  /\ selected' = schema
  /\ completion' = IF hasCache THEN [completion EXCEPT !.schema = schema] ELSE completion

MarkedWhenLoaded(i) == UNCHANGED children
\* ref.loaded is set before the read has begun.
Marked(i) == children' = [children EXCEPT ![i].loaded = TRUE]

\* onTreeSelect, on a node not yet loaded.
Expand(i) ==
  /\ ~children[i].loaded
  /\ Free # {}
  /\ SetSchema(children[i].schema)
  /\ Marked(i)
  /\ loads' = [loads EXCEPT ![FirstFree] = Spawned("tables", i, None)]
  /\ UNCHANGED <<place, root, cache, hasCache>>

\* onTreeSelect, on one that is.
Toggle(i) ==
  /\ children[i].loaded
  /\ SetSchema(children[i].schema)
  /\ UNCHANGED <<place, tree, loads, cache, hasCache>>

\* useSchema, on one of the schemas cached under the datasource's name.
UseSchema ==
  /\ cache[conn].of # None
  /\ hasCache
  /\ SetSchema(cache[conn].of)
  /\ UNCHANGED <<place, tree, loads, cache, hasCache>>

-----------------------------------------------------------------------------
(* The goroutines *)

Start(l) ==
  /\ loads[l].kind # "none" /\ loads[l].from = None
  /\ loads' = [loads EXCEPT ![l].from = conn]
  /\ UNCHANGED <<place, tree, cache, choice, hasCache>>

Reading(l) == loads[l].from # None /\ loads[l].outcome = "none"

\* One query has been answered, the last or one of FetchSnapshot's.
ReadDone(l) ==
  /\ Reading(l)
  /\ loads' = [loads EXCEPT
       ![l].parts = IF loads[l].kind = "snapshot" THEN @ + 1 ELSE @,
       ![l].outcome = IF loads[l].kind = "snapshot" /\ loads[l].parts + 1 < MaxParts
                      THEN "none" ELSE "read"]
  /\ UNCHANGED <<place, tree, cache, choice, hasCache>>

\* The server's error, the closed session, or the deadline.
ReadFailed(l) ==
  /\ Reading(l)
  /\ loads' = [loads EXCEPT ![l].outcome = "failed"]
  /\ UNCHANGED <<place, tree, cache, choice, hasCache>>

Forget(l) == loads' = [loads EXCEPT ![l] = NoLoad]

TextAfterError(l) ==
  IF loads[l].outcome = "failed" THEN root
  ELSE [ds |-> loads[l].name, loading |-> FALSE, late |-> loads[l].late]
TextAfter(l) == [ds |-> loads[l].name, loading |-> FALSE, late |-> loads[l].late]

\* The closure of loadSchemas.
ShowSchemas(l) ==
  /\ loads[l].kind = "schemas" /\ loads[l].outcome # "none"
  /\ Forget(l)
  /\ root' = TextAfter(l)
  /\ children' = IF loads[l].outcome = "failed" THEN children
                 ELSE Append(children, [schema |-> loads[l].from, loaded |-> FALSE,
                                         below |-> <<>>, late |-> loads[l].late])
  /\ UNCHANGED <<place, cache, choice, hasCache>>

\* The closures of loadTables and loadColumns.
ShowTables(l) ==
  /\ loads[l].kind = "tables" /\ loads[l].outcome # "none"
  /\ Forget(l)
  /\ children' = IF loads[l].outcome = "failed" THEN children
                 ELSE [children EXCEPT ![loads[l].node].below = Append(@, loads[l].from)]
  /\ UNCHANGED <<place, root, cache, choice, hasCache>>

SavedRegardless(l) == loads[l].outcome # "none"
Saveable(l) == loads[l].outcome = "read"

FiledUnder(l) == loads[l].name

\* Save, one transaction.
SaveSnapshot(l) ==
  /\ loads[l].kind = "snapshot" /\ Saveable(l)
  /\ cache' = [cache EXCEPT ![FiledUnder(l)] = [of |-> loads[l].from, parts |-> loads[l].parts]]
  /\ Forget(l)
  /\ UNCHANGED <<place, tree, choice, hasCache>>

\* A read or the Save failed; a notice says so.
SnapshotDropped(l) ==
  /\ loads[l].kind = "snapshot" /\ loads[l].outcome # "none"
  /\ Forget(l)
  /\ UNCHANGED <<place, tree, cache, choice, hasCache>>

-----------------------------------------------------------------------------

\* The state New leaves, with what earlier runs of the program, ended whenever
\* they were, left in the cache.
Init ==
  /\ conn \in DataSources /\ hasCache \in BOOLEAN
  /\ visited = {conn}
  /\ root = [ds |-> conn, loading |-> TRUE, late |-> FALSE] /\ children = <<>>
  /\ loads = [l \in Slots |-> IF l = 1 THEN Spawned("schemas", 0, conn)
                              ELSE IF l = 2 /\ hasCache THEN Spawned("snapshot", 0, conn)
                              ELSE NoLoad]
  /\ \E known \in SUBSET DataSources :
       /\ ~hasCache => known = {}
       /\ cache = [d \in DataSources |->
            IF d \in known THEN [of |-> d, parts |-> MaxParts] ELSE NoSnapshot]
  /\ selected = None /\ completion = Engine(conn)

UserStep ==
  \/ Refresh \/ UseSchema
  \/ \E ds \in DataSources : Switch(ds) \/ AdoptReconnected(ds) \/ Rename(ds)
  \/ \E i \in DOMAIN children : Expand(i) \/ Toggle(i)

Ends(l) == ReadDone(l) \/ ReadFailed(l)
Shows(l) == ShowSchemas(l) \/ ShowTables(l) \/ SaveSnapshot(l) \/ SnapshotDropped(l)

Next == UserStep \/ \E l \in Slots : Start(l) \/ Ends(l) \/ Shows(l)

Spec == Init /\ [][Next]_vars

\* Goroutines run, a read ends by its deadline, and the interface gets to the
\* closures that are queued.
Fairness == \A l \in Slots : WF_vars(Start(l)) /\ WF_vars(Ends(l)) /\ WF_vars(Shows(l))
FairSpec == Spec /\ Fairness

-----------------------------------------------------------------------------
(* Properties *)

\* Whatever reloads and switches come between a read and its result: what was
\* read since the last of them is of the datasource the session is on, once.
\* Anything else in the tree, or its root's text, is from a read that was on its
\* way when they came (loadSchemas, adopt).
TreeTellsTheTruth ==
  /\ ~root.late => root.ds = conn
  /\ \A i \in DOMAIN children : ~children[i].late =>
       /\ children[i].schema = conn
       /\ ~root.late => ~root.loading
       /\ \A j \in DOMAIN children : ~children[j].late => i = j

\* However reads overlap, a branch is filled at most once, by the session that
\* is looked at (onTreeSelect marks the node before it reads).
BranchFilledOnce ==
  \A i \in DOMAIN children :
    LET below == children[i].below
    IN below = <<>> \/ below = <<conn>>

\* The cache holds whole snapshots, whichever read, save or process failed
\* (refreshCache).
CacheIsWhole ==
  \A ds \in DataSources : cache[ds] = NoSnapshot \/ cache[ds].parts = MaxParts

EngineAgrees == completion = IF hasCache THEN [ds |-> conn, schema |-> selected] ELSE NoEngine
SchemaAgrees == hasCache => completion.schema = selected
LeavesEngine == \E ds \in DataSources : Rename(ds) \/ (ds # conn /\ AdoptReconnected(ds))

\* Completion works for the schema the interface shows, and for its datasource
\* until a reconnection comes back after a switch, or the datasource is renamed:
\* nothing else that happens leaves the engine behind (setSchema, adopt).
CompletionAgrees ==
  [][SchemaAgrees' /\ (EngineAgrees /\ ~EngineAgrees' => LeavesEngine)]_vars

\* The tree does not say "loading" for ever (catalogTimeout).
LoadingEnds == root.loading ~> ~root.loading

-----------------------------------------------------------------------------
(* What a reader of the comments would expect besides, and the code does not *)
(* keep.                                                                     *)

\* The tree shows the datasource of the session behind it (adopt).
TreeShowsOneServer ==
  root.ds = conn /\ \A i \in DOMAIN children : children[i].schema = conn

\* Completion offers the tables of the datasource the session is on (adopt).
EngineFollowsTheSession == hasCache => completion.ds = conn

\* The top level holds each schema once (loadSchemas).
SchemasListedOnce == Len(children) <= 1

\* A node that is marked loaded and whose read has ended holds what was read.
LoadedMeansFilled ==
  \A i \in DOMAIN children :
    children[i].loaded => \/ children[i].below # <<>>
                          \/ \E l \in Slots : loads[l].kind = "tables" /\ loads[l].node = i

\* A snapshot is filed under its datasource, however late a goroutine starts.
SnapshotFiledRight ==
  \A ds \in DataSources : cache[ds].of \in {ds, None}
=============================================================================
