-------------------------- MODULE SchemaTreeProofs --------------------------
(***************************************************************************)
(* What SchemaTree promises for any number of datasources, reads in flight *)
(* and queries to a snapshot.                                              *)
(*                                                                         *)
(* TreeInv strengthens the properties by what is known of the reads in     *)
(* flight.  That FirstFree is free is not needed, and not proved: a read   *)
(* put anywhere else keeps the invariant as well.                          *)
(***************************************************************************)
EXTENDS SchemaTree, TLAPS

USE NoneIsOutside, BoundIsNumber

\* A read meant for a node is the only one, on the session looked at, and the
\* node waits for it.
Attached ==
  \A l \in Slots : loads[l].kind = "tables" =>
    /\ loads[l].node \in DOMAIN children
    /\ children[loads[l].node].loaded
    /\ children[loads[l].node].below = <<>>
    /\ loads[l].from \in {None, conn}
    /\ \A k \in Slots : loads[k].kind = "tables" /\ loads[k].node = loads[l].node => k = l

Unloaded == \A i \in DOMAIN children : ~children[i].loaded => children[i].below = <<>>

\* How far a read is.
ReadUnderway(l) ==
  /\ loads[l].kind \in {"schemas", "snapshot"} => loads[l].name # None
  /\ loads[l].outcome # "none" => loads[l].from # None
  /\ loads[l].kind = "snapshot" =>
       /\ loads[l].outcome = "none" => loads[l].parts < MaxParts
       /\ loads[l].outcome = "read" => loads[l].parts = MaxParts

Underway == \A l \in Slots : ReadUnderway(l)

\* The read begun by the last reload is the only one that is not late, and the
\* tree has nothing of it before it ends; what it has later is no longer loading.
Current(l) == loads[l].kind = "schemas" /\ ~loads[l].late

Alone ==
  /\ \A l \in Slots : Current(l) =>
       /\ loads[l].name = conn
       /\ loads[l].from \in {None, conn}
       /\ \A i \in DOMAIN children : children[i].late
       /\ \A k \in Slots : Current(k) => k = l
  /\ \A i \in DOMAIN children : ~children[i].late => ~root.loading

TreeInv ==
  /\ Attached /\ Unloaded /\ Underway /\ Alone
  /\ TreeTellsTheTruth /\ BranchFilledOnce /\ CacheIsWhole /\ SchemaAgrees

\* What a reload does to a read: it is new, or it is as it was but late, or it
\* is forgotten.
Fresh(l, ds) ==
  /\ loads'[l].kind \in {"schemas", "snapshot"}
  /\ loads'[l].name = ds /\ loads'[l].from = None
  /\ loads'[l].parts = 0 /\ loads'[l].outcome = "none"

Kept(l) ==
  /\ loads'[l].kind = loads[l].kind
  /\ loads'[l].kind # "tables" /\ (loads'[l].kind = "schemas" => loads'[l].late)
  /\ loads'[l].name = loads[l].name /\ loads'[l].from = loads[l].from
  /\ loads'[l].parts = loads[l].parts /\ loads'[l].outcome = loads[l].outcome

\* What Refresh, AdoptReconnected and Switch have in common.
Reloads(ds) ==
  /\ ds \in DataSources /\ conn' = ds
  /\ LoadSchemas(ds)
  /\ cache' = cache /\ hasCache' = hasCache

LEMMA ReloadingActions ==
  ASSUME TypeOK
  PROVE  /\ Refresh => Reloads(conn)
         /\ \A ds \in DataSources : Switch(ds) \/ AdoptReconnected(ds) => Reloads(ds)
BY DEF TypeOK, Refresh, Switch, AdoptReconnected, Reloads, place

-----------------------------------------------------------------------------
(* What the operators do *)

LEMMA SpawnedType ==
  ASSUME NEW kind \in {"schemas", "tables", "snapshot"}, NEW node \in Nat,
         NEW name \in DataSources \cup {None}
  PROVE  /\ Spawned(kind, node, name) \in Load
         /\ Spawned(kind, node, name) = [kind |-> kind, node |-> node, name |-> name,
              from |-> None, parts |-> 0, outcome |-> "none", late |-> FALSE]
<1>1. Spawned(kind, node, name) = [kind |-> kind, node |-> node, name |-> name,
        from |-> None, parts |-> 0, outcome |-> "none", late |-> FALSE]
  BY DEF Spawned
<1>2. 0 \in 0..MaxParts
  OBVIOUS
<1>3. QED
  BY <1>1, <1>2 DEF Load

LEMMA NoLoadType == NoLoad \in Load
<1>1. 0 \in 0..MaxParts
  OBVIOUS
<1>2. QED
  BY <1>1 DEF NoLoad, Load

LEMMA DetachedType ==
  ASSUME loads \in [Slots -> Load]
  PROVE  /\ Detached \in [Slots -> Load]
         /\ \A l \in Slots :
              \/ Detached[l] = NoLoad
              \/ /\ Detached[l].kind = loads[l].kind
                 /\ Detached[l].kind # "tables"
                 /\ Detached[l].kind = "schemas" => Detached[l].late
                 /\ Detached[l].name = loads[l].name
                 /\ Detached[l].from = loads[l].from
                 /\ Detached[l].parts = loads[l].parts
                 /\ Detached[l].outcome = loads[l].outcome
<1>1. \A l \in Slots : loads[l].kind # "tables" =>
        [loads[l] EXCEPT !.late = loads[l].kind = "schemas"] \in Load
  BY DEF Load
<1>2. Detached \in [Slots -> Load]
  BY <1>1, NoLoadType DEF Detached
<1>3. ASSUME NEW l \in Slots
      PROVE  \/ Detached[l] = NoLoad
             \/ /\ Detached[l].kind = loads[l].kind
                /\ Detached[l].kind # "tables"
                /\ Detached[l].kind = "schemas" => Detached[l].late
                /\ Detached[l].name = loads[l].name
                /\ Detached[l].from = loads[l].from
                /\ Detached[l].parts = loads[l].parts
                /\ Detached[l].outcome = loads[l].outcome
  <2>1. loads[l] \in Load
    OBVIOUS
  <2>2. CASE loads[l].kind = "tables"
    BY <2>2 DEF Detached
  <2>3. CASE loads[l].kind # "tables"
    <3>1. Detached[l] = [loads[l] EXCEPT !.late = loads[l].kind = "schemas"]
      BY <2>3 DEF Detached
    <3>2. QED
      BY <2>1, <2>3, <3>1 DEF Load
  <2>4. QED
    BY <2>2, <2>3
<1>4. QED
  BY <1>2, <1>3

(* A node replaced by a node.                                                *)
LEMMA NodeReplaced ==
  ASSUME NEW s \in Seq(Node), NEW i \in DOMAIN s, NEW v \in Node
  PROVE  /\ [s EXCEPT ![i] = v] \in Seq(Node)
         /\ DOMAIN [s EXCEPT ![i] = v] = DOMAIN s
         /\ [s EXCEPT ![i] = v][i] = v
         /\ \A n \in DOMAIN s : n # i => [s EXCEPT ![i] = v][n] = s[n]
<1> HIDE DEF Node
<1> QED
  OBVIOUS

LEMMA NodeMarked ==
  ASSUME NEW r \in Node
  PROVE  /\ [r EXCEPT !.loaded = TRUE] \in Node
         /\ [r EXCEPT !.loaded = TRUE].schema = r.schema
         /\ [r EXCEPT !.loaded = TRUE].below = r.below
         /\ [r EXCEPT !.loaded = TRUE].loaded
BY DEF Node

LEMMA NodeFilled ==
  ASSUME NEW r \in Node, NEW d \in DataSources
  PROVE  [r EXCEPT !.below = Append(@, d)] \in Node
<1>1. Append(r.below, d) \in Seq(DataSources)
  BY DEF Node
<1>2. QED
  BY <1>1 DEF Node

LEMMA NewNode ==
  ASSUME NEW s \in Seq(Node), NEW d \in DataSources, NEW b \in BOOLEAN
  PROVE  Append(s, [schema |-> d, loaded |-> FALSE, below |-> <<>>, late |-> b]) \in Seq(Node)
<1>1. [schema |-> d, loaded |-> FALSE, below |-> <<>>, late |-> b] \in Node
  BY DEF Node
<1>2. QED
  BY <1>1

LEMMA LoadStarted ==
  ASSUME NEW r \in Load, NEW d \in DataSources
  PROVE  [r EXCEPT !.from = d] \in Load
BY DEF Load

LEMMA LoadEnded ==
  ASSUME NEW r \in Load, NEW o \in {"none", "read", "failed"}, NEW p \in 0..MaxParts
  PROVE  /\ [r EXCEPT !.outcome = o] \in Load
         /\ [r EXCEPT !.parts = p, !.outcome = o] \in Load
BY DEF Load

LEMMA NodeFields ==
  ASSUME TypeOK, NEW i \in DOMAIN children
  PROVE  children[i].schema \in DataSources
<1>1. children[i] \in Node
  BY DEF TypeOK
<1>2. QED
  BY <1>1 DEF Node

(* A read that ended was on some session.                                    *)
LEMMA FromType ==
  ASSUME TypeOK, Underway, NEW l \in Slots, loads[l].outcome # "none"
  PROVE  loads[l].from \in DataSources
<1>1. loads[l] \in Load
  BY DEF TypeOK
<1>2. QED
  BY <1>1 DEF Load, Underway, ReadUnderway

LEMMA RootType ==
  ASSUME NEW d \in DataSources
  PROVE  [ds |-> d, loading |-> TRUE, late |-> FALSE]
           \in [ds : DataSources, loading : BOOLEAN, late : BOOLEAN]
OBVIOUS

LEMMA EmptyType == <<>> \in Seq(Node)
BY DEF Node

(* A reload leaves late the reads there were, or forgets them, and adds one  *)
(* that is not late for the tree.                                            *)
LEMMA Reloaded ==
  ASSUME TypeOK, NEW ds \in DataSources, LoadSchemas(ds)
  PROVE  /\ children' = <<>> /\ root' = [ds |-> ds, loading |-> TRUE, late |-> FALSE]
         /\ loads' \in [Slots -> Load]
         /\ \A l \in Slots : Fresh(l, ds) \/ Kept(l) \/ loads'[l] = NoLoad
         /\ \A l \in Slots : Current(l)' =>
              /\ loads'[l].name = ds /\ loads'[l].from = None
              /\ \A k \in Slots : Current(k)' => k = l
<1> DEFINE first == FirstFree
           last == LastFree
           reading == [Detached EXCEPT ![first] = Spawned("schemas", 0, ds)]
<1>1. loads \in [Slots -> Load]
  BY DEF TypeOK
<1>2. Detached \in [Slots -> Load]
  BY <1>1, DetachedType
<1>3. /\ Spawned("schemas", 0, ds) \in Load /\ Spawned("snapshot", 0, ds) \in Load
      /\ Spawned("schemas", 0, ds) = [kind |-> "schemas", node |-> 0, name |-> ds,
           from |-> None, parts |-> 0, outcome |-> "none", late |-> FALSE]
      /\ Spawned("snapshot", 0, ds) = [kind |-> "snapshot", node |-> 0, name |-> ds,
           from |-> None, parts |-> 0, outcome |-> "none", late |-> FALSE]
  BY SpawnedType
<1>4. \/ loads' = [reading EXCEPT ![last] = Spawned("snapshot", 0, ds)]
      \/ loads' = reading
  BY Zenon DEF LoadSchemas
<1>5. reading \in [Slots -> Load]
  BY <1>2, <1>3
<1>6. \A l \in Slots : reading[l] = IF l = first THEN Spawned("schemas", 0, ds) ELSE Detached[l]
  BY <1>2
<1> HIDE DEF reading, first, last
<1>7. /\ loads' \in [Slots -> Load]
      /\ \A l \in Slots : loads'[l] = reading[l] \/ loads'[l] = Spawned("snapshot", 0, ds)
  BY <1>3, <1>4, <1>5
<1>8. \A l \in Slots : \/ loads'[l] = Spawned("schemas", 0, ds) /\ l = first
                       \/ loads'[l] = Spawned("snapshot", 0, ds)
                       \/ loads'[l] = Detached[l]
  BY <1>6, <1>7
<1>9. children' = <<>> /\ root' = [ds |-> ds, loading |-> TRUE, late |-> FALSE]
  BY DEF LoadSchemas, Cleared
<1>10. \A l \in Slots : Detached[l].kind = "schemas" => Detached[l].late
  BY <1>1, DetachedType DEF NoLoad
<1>11. \A l \in Slots : Current(l)' => l = first /\ loads'[l] = Spawned("schemas", 0, ds)
  BY <1>3, <1>8, <1>10 DEF Current
<1>12. \A l \in Slots : Fresh(l, ds) \/ Kept(l) \/ loads'[l] = NoLoad
  BY <1>1, <1>3, <1>8, DetachedType DEF Fresh, Kept
<1>13. QED
  BY <1>3, <1>7, <1>9, <1>11, <1>12

(* Choosing a node adds one read to those there were.                        *)
LEMMA Expanded ==
  ASSUME TypeOK, NEW i \in DOMAIN children, Expand(i)
  PROVE  /\ loads' \in [Slots -> Load]
         /\ \A l \in Slots : l # FirstFree => loads'[l] = loads[l]
         /\ \A l \in Slots : l = FirstFree =>
              /\ loads'[l].kind = "tables" /\ loads'[l].node = i
              /\ loads'[l].name = None /\ loads'[l].from = None
              /\ loads'[l].parts = 0 /\ loads'[l].outcome = "none"
<1>1. i \in Nat
  BY DEF TypeOK
<1>2. loads \in [Slots -> Load] /\ loads' = [loads EXCEPT ![FirstFree] = Spawned("tables", i, None)]
  BY DEF TypeOK, Expand
<1>3. /\ Spawned("tables", i, None) \in Load
      /\ Spawned("tables", i, None) = [kind |-> "tables", node |-> i, name |-> None,
           from |-> None, parts |-> 0, outcome |-> "none", late |-> FALSE]
  BY <1>1, SpawnedType
<1>4. \A l \in Slots : loads'[l] = IF l = FirstFree THEN Spawned("tables", i, None) ELSE loads[l]
  BY <1>2
<1>5. loads' \in [Slots -> Load]
  BY <1>2, <1>3
<1>6. QED
  BY <1>3, <1>4, <1>5

(* A list of schemas that is shown adds a node, or none if it could not be   *)
(* read.                                                                     *)
LEMMA Shown ==
  ASSUME TypeOK, Underway, NEW l \in Slots, ShowSchemas(l)
  PROVE  /\ conn' = conn
         /\ \A k \in Slots : loads'[k] = IF k = l THEN NoLoad ELSE loads[k]
         /\ root'.ds = loads[l].name /\ ~root'.loading /\ root'.late = loads[l].late
         /\ \A i \in DOMAIN children : i \in DOMAIN children' /\ children'[i] = children[i]
         /\ \A i \in DOMAIN children' : i \notin DOMAIN children =>
              /\ i = Len(children) + 1
              /\ children'[i].schema = loads[l].from /\ loads[l].from # None
              /\ children'[i].loaded = FALSE /\ children'[i].below = <<>>
              /\ children'[i].late = loads[l].late
<1> DEFINE node == [schema |-> loads[l].from, loaded |-> FALSE, below |-> <<>>, late |-> loads[l].late]
<1>1. /\ loads \in [Slots -> Load] /\ children \in Seq(Node)
      /\ loads' = [loads EXCEPT ![l] = NoLoad]
      /\ children' = children \/ children' = Append(children, node)
  BY DEF TypeOK, ShowSchemas, Forget
<1>2. loads[l].from # None
  BY DEF ShowSchemas, Underway, ReadUnderway
<1>3. /\ node.schema = loads[l].from /\ node.loaded = FALSE /\ node.below = <<>>
      /\ node.late = loads[l].late
  OBVIOUS
<1>4. conn' = conn /\ root'.ds = loads[l].name /\ ~root'.loading /\ root'.late = loads[l].late
  BY DEF ShowSchemas, TextAfter, place
<1> HIDE DEF node, Load, Node
<1>5. \A k \in Slots : loads'[k] = IF k = l THEN NoLoad ELSE loads[k]
  BY <1>1
<1>6. /\ \A i \in DOMAIN children : i \in DOMAIN children' /\ children'[i] = children[i]
      /\ \A i \in DOMAIN children' : i \notin DOMAIN children =>
           i = Len(children) + 1 /\ children'[i] = node
  BY <1>1
<1>7. QED
  BY <1>2, <1>3, <1>4, <1>5, <1>6

-----------------------------------------------------------------------------
(* One lemma for each part of the invariant; a step for each action *)

(* The engine's schema is set with the interface's: setSchema and adopt.     *)
LEMMA SchemaKept ==
  ASSUME TypeOK, TreeInv, [Next]_vars
  PROVE  SchemaAgrees'
<1> USE DEF TypeOK, TreeInv, place, SchemaAgrees
<1>1. CASE Refresh \/ \E ds \in DataSources : AdoptReconnected(ds)
  BY <1>1 DEF Refresh, AdoptReconnected, choice
<1>2. ASSUME NEW ds \in DataSources, Switch(ds) PROVE SchemaAgrees'
  BY <1>2 DEF Switch, EngineRebuilt, Engine
<1>3. ASSUME NEW ds \in DataSources, Rename(ds) PROVE SchemaAgrees'
  BY <1>3 DEF Rename
<1>4. ASSUME NEW schema \in DataSources, SetSchema(schema), hasCache' = hasCache PROVE SchemaAgrees'
  BY <1>4 DEF SetSchema
<1>5. CASE UseSchema
  <2>1. cache[conn].of \in DataSources
    BY <1>5 DEF UseSchema
  <2>2. QED
    BY <1>4, <1>5, <2>1 DEF UseSchema
<1>6. ASSUME NEW i \in DOMAIN children, Expand(i) \/ Toggle(i) PROVE SchemaAgrees'
  BY <1>4, <1>6, NodeFields DEF Expand, Toggle
<1>7. ASSUME NEW l \in Slots, Start(l) \/ Ends(l) \/ Shows(l) PROVE SchemaAgrees'
  BY <1>7 DEF Start, Ends, ReadDone, ReadFailed, Shows, ShowSchemas, ShowTables, SaveSnapshot,
              SnapshotDropped, choice
<1>8. CASE UNCHANGED vars
  BY <1>8 DEF vars, choice
<1>9. QED
  BY <1>1, <1>2, <1>3, <1>5, <1>6, <1>7, <1>8 DEF Next, UserStep

(* Only a new name, or a session that comes back after a switch, leaves the  *)
(* engine behind.                                                            *)
LEMMA EngineKeptUp ==
  ASSUME TypeOK, [Next]_vars, EngineAgrees, ~LeavesEngine
  PROVE  EngineAgrees'
<1> USE DEF TypeOK, EngineAgrees
<1>1. CASE Refresh
  BY <1>1 DEF Refresh, choice, place
<1>2. ASSUME NEW ds \in DataSources, AdoptReconnected(ds) PROVE EngineAgrees'
  <2>1. ds = conn
    BY <1>2 DEF LeavesEngine
  <2>2. QED
    BY <1>2, <2>1 DEF AdoptReconnected, choice
<1>3. ASSUME NEW ds \in DataSources, Switch(ds) PROVE EngineAgrees'
  BY <1>3 DEF Switch, EngineRebuilt, Engine
<1>4. ASSUME NEW schema \in DataSources, SetSchema(schema), hasCache' = hasCache, conn' = conn
      PROVE EngineAgrees'
  BY <1>4 DEF SetSchema
<1>5. CASE UseSchema
  <2>1. cache[conn].of \in DataSources
    BY <1>5 DEF UseSchema
  <2>2. QED
    BY <1>4, <1>5, <2>1 DEF UseSchema, place
<1>6. ASSUME NEW i \in DOMAIN children, Expand(i) \/ Toggle(i) PROVE EngineAgrees'
  BY <1>4, <1>6, NodeFields DEF Expand, Toggle, place
<1>7. ASSUME NEW l \in Slots, Start(l) \/ Ends(l) \/ Shows(l) PROVE EngineAgrees'
  BY <1>7 DEF Start, Ends, ReadDone, ReadFailed, Shows, ShowSchemas, ShowTables, SaveSnapshot,
              SnapshotDropped, choice, place
<1>8. CASE UNCHANGED vars
  BY <1>8 DEF vars, choice, place
<1>9. QED
  BY <1>1, <1>2, <1>3, <1>5, <1>6, <1>7, <1>8 DEF Next, UserStep, LeavesEngine

(* A read goes forward only. *)
LEMMA UnderwayKept ==
  ASSUME TypeOK, TreeInv, [Next]_vars
  PROVE  Underway'
<1> USE DEF TypeOK, TreeInv, place
<1>1. ASSUME NEW ds \in DataSources, Reloads(ds) PROVE Underway'
  <2> SUFFICES ASSUME NEW k \in Slots PROVE ReadUnderway(k)'
    BY DEF Underway
  <2>1. ReadUnderway(k)
    BY DEF Underway
  <2>4. Fresh(k, ds) \/ Kept(k) \/ loads'[k] = NoLoad
    BY <1>1, Reloaded DEF Reloads
  <2>5. CASE Fresh(k, ds)
    <3>1. 0 < MaxParts /\ ds # None
      OBVIOUS
    <3>2. QED
      BY <2>5, <3>1 DEF Fresh, ReadUnderway
  <2>6. CASE Kept(k)
    BY <2>1, <2>6 DEF Kept, ReadUnderway
  <2>7. CASE loads'[k] = NoLoad
    BY <2>7 DEF NoLoad, ReadUnderway
  <2>8. QED
    BY <2>4, <2>5, <2>6, <2>7
<1>2. ASSUME UseSchema PROVE Underway'
  <2> SUFFICES ASSUME NEW k \in Slots PROVE ReadUnderway(k)'
    BY DEF Underway
  <2>1. ReadUnderway(k)
    BY DEF Underway
  <2>2. QED
    BY <1>2, <2>1 DEF ReadUnderway, UseSchema, tree
<1>3. ASSUME NEW ds \in DataSources, Rename(ds) PROVE Underway'
  <2> SUFFICES ASSUME NEW k \in Slots PROVE ReadUnderway(k)'
    BY DEF Underway
  <2>1. ReadUnderway(k)
    BY DEF Underway
  <2>2. loads'[k] = loads[k] \/ loads'[k] = NoLoad
    BY <1>3 DEF Rename
  <2>3. QED
    BY <2>1, <2>2 DEF ReadUnderway, NoLoad
<1>4. ASSUME NEW i \in DOMAIN children, Expand(i) PROVE Underway'
  <2> SUFFICES ASSUME NEW k \in Slots PROVE ReadUnderway(k)'
    BY DEF Underway
  <2>1. ReadUnderway(k)
    BY DEF Underway
  <2>2. QED
    BY <1>4, <2>1, Expanded DEF ReadUnderway
<1>5. ASSUME NEW i \in DOMAIN children, Toggle(i) PROVE Underway'
  <2> SUFFICES ASSUME NEW k \in Slots PROVE ReadUnderway(k)'
    BY DEF Underway
  <2>1. ReadUnderway(k)
    BY DEF Underway
  <2>2. QED
    BY <1>5, <2>1 DEF ReadUnderway, Toggle, tree
<1>6. ASSUME NEW l \in Slots, Start(l) PROVE Underway'
  <2> SUFFICES ASSUME NEW k \in Slots PROVE ReadUnderway(k)'
    BY DEF Underway
  <2>1. ReadUnderway(k)
    BY DEF Underway
  <2>2. QED
    BY <1>6, <2>1 DEF ReadUnderway, Start, Load
<1>7. ASSUME NEW l \in Slots, ReadDone(l) PROVE Underway'
  <2> SUFFICES ASSUME NEW k \in Slots PROVE ReadUnderway(k)'
    BY DEF Underway
  <2>1. ReadUnderway(k)
    BY DEF Underway
  <2>2. QED
    BY <1>7, <2>1 DEF ReadUnderway, ReadDone, Reading, Load
<1>8. ASSUME NEW l \in Slots, ReadFailed(l) PROVE Underway'
  <2> SUFFICES ASSUME NEW k \in Slots PROVE ReadUnderway(k)'
    BY DEF Underway
  <2>1. ReadUnderway(k)
    BY DEF Underway
  <2>2. QED
    BY <1>8, <2>1 DEF ReadUnderway, ReadFailed, Reading, Load
<1>9. ASSUME NEW l \in Slots, ShowSchemas(l) PROVE Underway'
  <2> SUFFICES ASSUME NEW k \in Slots PROVE ReadUnderway(k)'
    BY DEF Underway
  <2>1. ReadUnderway(k)
    BY DEF Underway
  <2>2. QED
    BY <1>9, <2>1 DEF ReadUnderway, ShowSchemas, Forget, NoLoad
<1>10. ASSUME NEW l \in Slots, ShowTables(l) PROVE Underway'
  <2> SUFFICES ASSUME NEW k \in Slots PROVE ReadUnderway(k)'
    BY DEF Underway
  <2>1. ReadUnderway(k)
    BY DEF Underway
  <2>2. QED
    BY <1>10, <2>1 DEF ReadUnderway, ShowTables, Forget, NoLoad
<1>11. ASSUME NEW l \in Slots, SaveSnapshot(l) PROVE Underway'
  <2> SUFFICES ASSUME NEW k \in Slots PROVE ReadUnderway(k)'
    BY DEF Underway
  <2>1. ReadUnderway(k)
    BY DEF Underway
  <2>2. QED
    BY <1>11, <2>1 DEF ReadUnderway, SaveSnapshot, Forget, NoLoad
<1>12. ASSUME NEW l \in Slots, SnapshotDropped(l) PROVE Underway'
  <2> SUFFICES ASSUME NEW k \in Slots PROVE ReadUnderway(k)'
    BY DEF Underway
  <2>1. ReadUnderway(k)
    BY DEF Underway
  <2>2. QED
    BY <1>12, <2>1 DEF ReadUnderway, SnapshotDropped, Forget, NoLoad
<1>13. CASE UNCHANGED vars
  BY <1>13 DEF vars, tree, choice, Underway, ReadUnderway
<1>14. QED
  BY <1>1, <1>2, <1>3, <1>4, <1>5, <1>6, <1>7, <1>8, <1>9, <1>10, <1>11, <1>12, <1>13, ReloadingActions DEF Next, UserStep, Ends, Shows

(* Only a whole snapshot is saved. *)
LEMMA CacheKept ==
  ASSUME TypeOK, TreeInv, [Next]_vars
  PROVE  CacheIsWhole'
<1> USE DEF TypeOK, TreeInv, place, CacheIsWhole, Underway, ReadUnderway, Load, NoSnapshot
<1>1. ASSUME NEW ds \in DataSources, Reloads(ds) PROVE CacheIsWhole'
  BY <1>1 DEF Reloads
<1>2. ASSUME UseSchema PROVE CacheIsWhole'
  BY <1>2 DEF UseSchema, SetSchema, tree
<1>3. ASSUME NEW ds \in DataSources, Rename(ds) PROVE CacheIsWhole'
  BY <1>3 DEF Rename
<1>4. ASSUME NEW i \in DOMAIN children, Expand(i) PROVE CacheIsWhole'
  BY <1>4 DEF Expand, SetSchema, Marked
<1>5. ASSUME NEW i \in DOMAIN children, Toggle(i) PROVE CacheIsWhole'
  BY <1>5 DEF Toggle, SetSchema, tree
<1>6. ASSUME NEW l \in Slots, Start(l) PROVE CacheIsWhole'
  BY <1>6 DEF Start, tree, choice
<1>7. ASSUME NEW l \in Slots, ReadDone(l) PROVE CacheIsWhole'
  BY <1>7 DEF ReadDone, Reading, tree, choice
<1>8. ASSUME NEW l \in Slots, ReadFailed(l) PROVE CacheIsWhole'
  BY <1>8 DEF ReadFailed, Reading, tree, choice
<1>9. ASSUME NEW l \in Slots, ShowSchemas(l) PROVE CacheIsWhole'
  BY <1>9 DEF ShowSchemas, TextAfter, Forget, choice
<1>10. ASSUME NEW l \in Slots, ShowTables(l) PROVE CacheIsWhole'
  BY <1>10 DEF ShowTables, Forget, choice
<1>11. ASSUME NEW l \in Slots, SaveSnapshot(l) PROVE CacheIsWhole'
  BY <1>11 DEF SaveSnapshot, Saveable, FiledUnder, Forget, tree, choice
<1>12. ASSUME NEW l \in Slots, SnapshotDropped(l) PROVE CacheIsWhole'
  BY <1>12 DEF SnapshotDropped, Forget, tree, choice
<1>13. CASE UNCHANGED vars
  BY <1>13 DEF vars, tree, choice, Load
<1>14. QED
  BY <1>1, <1>2, <1>3, <1>4, <1>5, <1>6, <1>7, <1>8, <1>9, <1>10, <1>11, <1>12, <1>13, ReloadingActions DEF Next, UserStep, Ends, Shows

(* A node is read for once, when it is marked. *)
LEMMA AttachedKept ==
  ASSUME TypeOK, TreeInv, [Next]_vars
  PROVE  Attached'
<1> USE DEF TypeOK, TreeInv, place, Attached, Load, Node
<1>1. ASSUME NEW ds \in DataSources, Reloads(ds) PROVE Attached'
  <2>1. \A k \in Slots : loads'[k].kind # "tables"
    BY <1>1, Reloaded DEF Reloads, Fresh, Kept, NoLoad
  <2>2. QED
    BY <2>1
<1>2. ASSUME UseSchema PROVE Attached'
  BY <1>2 DEF UseSchema, SetSchema, tree
<1>3. ASSUME NEW ds \in DataSources, Rename(ds) PROVE Attached'
  BY <1>3 DEF Rename, tree, NoLoad
<1>4. ASSUME NEW i \in DOMAIN children, Expand(i) PROVE Attached'
  <2> DEFINE v == [children[i] EXCEPT !.loaded = TRUE]
  <2> HIDE DEF Node
  <2>1. /\ children' = [children EXCEPT ![i] = v] /\ ~children[i].loaded
        /\ conn' = conn /\ children \in Seq(Node) /\ children[i] \in Node
    BY <1>4 DEF Expand, Marked
  <2>2. v \in Node /\ v.loaded /\ v.below = <<>>
    BY <2>1, NodeMarked DEF Unloaded
  <2> HIDE DEF v
  <2>3. /\ DOMAIN children' = DOMAIN children /\ children'[i] = v
        /\ \A n \in DOMAIN children : n # i => children'[n] = children[n]
    BY <2>1, <2>2, NodeReplaced
  <2>4. \A k \in Slots : loads[k].kind = "tables" => loads[k].node # i
    <3> SUFFICES ASSUME NEW k \in Slots, loads[k].kind = "tables", loads[k].node = i PROVE FALSE
      OBVIOUS
    <3>1. children[i].loaded
      OBVIOUS
    <3>2. QED
      BY <2>1, <3>1
  <2> SUFFICES ASSUME NEW k \in Slots, loads'[k].kind = "tables"
               PROVE  /\ loads'[k].node \in DOMAIN children'
                      /\ children'[loads'[k].node].loaded
                      /\ children'[loads'[k].node].below = <<>>
                      /\ loads'[k].from \in {None, conn'}
                      /\ \A m \in Slots : loads'[m].kind = "tables" /\ loads'[m].node = loads'[k].node => m = k
    OBVIOUS
  <2>5. CASE k = FirstFree
    <3>1. loads'[k].node = i /\ loads'[k].from = None
      BY <1>4, <2>5, Expanded
    <3>2. \A m \in Slots : m # k => loads'[m] = loads[m]
      BY <1>4, <2>5, Expanded
    <3>3. QED
      BY <2>2, <2>3, <2>4, <3>1, <3>2
  <2>6. CASE k # FirstFree
    <3>1. loads'[k] = loads[k] /\ loads[k].node # i
      BY <1>4, <2>4, <2>6, Expanded
    <3>2. \A m \in Slots : loads'[m] = loads[m] \/ loads'[m].node = i
      BY <1>4, Expanded
    <3>3. QED
      BY <2>1, <2>3, <3>1, <3>2
  <2>7. QED
    BY <2>5, <2>6
<1>5. ASSUME NEW i \in DOMAIN children, Toggle(i) PROVE Attached'
  BY <1>5 DEF Toggle, SetSchema, tree
<1>6. ASSUME NEW l \in Slots, Start(l) PROVE Attached'
  BY <1>6 DEF Start, tree, choice
<1>7. ASSUME NEW l \in Slots, ReadDone(l) PROVE Attached'
  BY <1>7 DEF ReadDone, Reading, tree, choice
<1>8. ASSUME NEW l \in Slots, ReadFailed(l) PROVE Attached'
  BY <1>8 DEF ReadFailed, Reading, tree, choice
<1>9. ASSUME NEW l \in Slots, ShowSchemas(l) PROVE Attached'
  <2> HIDE DEF Load, Node, TypeOK
  <2>1. \A k \in Slots : loads'[k].kind = "tables" => loads'[k] = loads[k]
    <3>1. \A k \in Slots : loads'[k] = IF k = l THEN NoLoad ELSE loads[k]
      BY <1>9, Shown
    <3>2. NoLoad.kind = "none"
      BY DEF NoLoad
    <3>3. QED
      BY <3>1, <3>2
  <2>2. conn' = conn /\ \A i \in DOMAIN children : i \in DOMAIN children' /\ children'[i] = children[i]
    BY <1>9, Shown
  <2>3. QED
    BY <2>1, <2>2
<1>10. ASSUME NEW l \in Slots, ShowTables(l) PROVE Attached'
  BY <1>10 DEF ShowTables, Forget, NoLoad
<1>11. ASSUME NEW l \in Slots, SaveSnapshot(l) PROVE Attached'
  BY <1>11 DEF SaveSnapshot, Forget, tree, NoLoad
<1>12. ASSUME NEW l \in Slots, SnapshotDropped(l) PROVE Attached'
  BY <1>12 DEF SnapshotDropped, Forget, tree, NoLoad
<1>13. CASE UNCHANGED vars
  BY <1>13 DEF vars, tree, choice, Load
<1>14. QED
  BY <1>1, <1>2, <1>3, <1>4, <1>5, <1>6, <1>7, <1>8, <1>9, <1>10, <1>11, <1>12, <1>13, ReloadingActions DEF Next, UserStep, Ends, Shows

(* Only marked nodes are filled. *)
LEMMA UnloadedKept ==
  ASSUME TypeOK, TreeInv, [Next]_vars
  PROVE  Unloaded'
<1> USE DEF TypeOK, TreeInv, place, Unloaded, Node, Load
<1>1. ASSUME NEW ds \in DataSources, Reloads(ds) PROVE Unloaded'
  BY <1>1, Reloaded DEF Reloads
<1>2. ASSUME UseSchema PROVE Unloaded'
  BY <1>2 DEF UseSchema, SetSchema, tree
<1>3. ASSUME NEW ds \in DataSources, Rename(ds) PROVE Unloaded'
  BY <1>3 DEF Rename, tree, NoLoad
<1>4. ASSUME NEW i \in DOMAIN children, Expand(i) PROVE Unloaded'
  BY <1>4 DEF Expand, Marked
<1>5. ASSUME NEW i \in DOMAIN children, Toggle(i) PROVE Unloaded'
  BY <1>5 DEF Toggle, SetSchema, tree
<1>6. ASSUME NEW l \in Slots, Start(l) PROVE Unloaded'
  BY <1>6 DEF Start, tree, choice
<1>7. ASSUME NEW l \in Slots, ReadDone(l) PROVE Unloaded'
  BY <1>7 DEF ReadDone, Reading, tree, choice
<1>8. ASSUME NEW l \in Slots, ReadFailed(l) PROVE Unloaded'
  BY <1>8 DEF ReadFailed, Reading, tree, choice
<1>9. ASSUME NEW l \in Slots, ShowSchemas(l) PROVE Unloaded'
  BY <1>9 DEF ShowSchemas, TextAfter, Forget, choice
<1>10. ASSUME NEW l \in Slots, ShowTables(l) PROVE Unloaded'
  BY <1>10 DEF ShowTables, Attached
<1>11. ASSUME NEW l \in Slots, SaveSnapshot(l) PROVE Unloaded'
  BY <1>11 DEF SaveSnapshot, Saveable, FiledUnder, Forget, tree, choice
<1>12. ASSUME NEW l \in Slots, SnapshotDropped(l) PROVE Unloaded'
  BY <1>12 DEF SnapshotDropped, Forget, tree, choice
<1>13. CASE UNCHANGED vars
  BY <1>13 DEF vars, tree, choice, Load
<1>14. QED
  BY <1>1, <1>2, <1>3, <1>4, <1>5, <1>6, <1>7, <1>8, <1>9, <1>10, <1>11, <1>12, <1>13, ReloadingActions DEF Next, UserStep, Ends, Shows

(* A reload with nothing under way is the only one to fill the tree. *)
LEMMA AloneKept ==
  ASSUME TypeOK, TreeInv, [Next]_vars
  PROVE  Alone'
<1> USE DEF TypeOK, TreeInv, place, Alone, Current, Load, Node
<1>1. ASSUME NEW ds \in DataSources, Reloads(ds) PROVE Alone'
  BY <1>1, Reloaded DEF Reloads
<1>2. ASSUME UseSchema PROVE Alone'
  BY <1>2 DEF UseSchema, SetSchema, tree
<1>3. ASSUME NEW ds \in DataSources, Rename(ds) PROVE Alone'
  BY <1>3 DEF Rename, tree, NoLoad
<1>4. ASSUME NEW i \in DOMAIN children, Expand(i) PROVE Alone'
  <2>1. \A k \in Slots : Current(k)' => Current(k) /\ loads'[k] = loads[k]
    BY <1>4, Expanded DEF Current
  <2>2. /\ DOMAIN children' = DOMAIN children /\ root' = root /\ conn' = conn
        /\ \A n \in DOMAIN children : children'[n].late = children[n].late
    BY <1>4 DEF Expand, Marked
  <2>3. QED
    BY <2>1, <2>2
<1>5. ASSUME NEW i \in DOMAIN children, Toggle(i) PROVE Alone'
  BY <1>5 DEF Toggle, SetSchema, tree
<1>6. ASSUME NEW l \in Slots, Start(l) PROVE Alone'
  BY <1>6 DEF Start, tree, choice
<1>7. ASSUME NEW l \in Slots, ReadDone(l) PROVE Alone'
  BY <1>7 DEF ReadDone, Reading, tree, choice
<1>8. ASSUME NEW l \in Slots, ReadFailed(l) PROVE Alone'
  BY <1>8 DEF ReadFailed, Reading, tree, choice
<1>9. ASSUME NEW l \in Slots, ShowSchemas(l) PROVE Alone'
  <2> HIDE DEF Load, Node, TypeOK
  <2>1. \A k \in Slots : Current(k)' => Current(k) /\ loads'[k] = loads[k] /\ k # l
    <3>1. \A k \in Slots : loads'[k] = IF k = l THEN NoLoad ELSE loads[k]
      BY <1>9, Shown
    <3>2. NoLoad.kind = "none"
      BY DEF NoLoad
    <3>3. QED
      BY <3>1, <3>2 DEF Current
  <2>2. conn' = conn /\ ~root'.loading
    BY <1>9, Shown
  <2>3. \A k \in Slots : Current(k)' => ~Current(l)
    BY <2>1
  <2>4. ~Current(l) => loads[l].late
    BY <1>9 DEF ShowSchemas
  <2>5. \A i \in DOMAIN children' :
          (i \in DOMAIN children /\ children'[i] = children[i]) \/ children'[i].late = loads[l].late
    BY <1>9, Shown
  <2>6. \A k \in Slots : Current(k)' => \A i \in DOMAIN children' : children'[i].late
    BY <2>1, <2>3, <2>4, <2>5
  <2>7. QED
    BY <2>1, <2>2, <2>6
<1>10. ASSUME NEW l \in Slots, ShowTables(l) PROVE Alone'
  BY <1>10 DEF ShowTables, Forget, NoLoad, Attached
<1>11. ASSUME NEW l \in Slots, SaveSnapshot(l) PROVE Alone'
  BY <1>11 DEF SaveSnapshot, Forget, tree, NoLoad
<1>12. ASSUME NEW l \in Slots, SnapshotDropped(l) PROVE Alone'
  BY <1>12 DEF SnapshotDropped, Forget, tree, NoLoad
<1>13. CASE UNCHANGED vars
  BY <1>13 DEF vars, tree, choice, Load
<1>14. QED
  BY <1>1, <1>2, <1>3, <1>4, <1>5, <1>6, <1>7, <1>8, <1>9, <1>10, <1>11, <1>12, <1>13, ReloadingActions DEF Next, UserStep, Ends, Shows

(* What fills the tree is the session looked at. *)
LEMMA TruthKept ==
  ASSUME TypeOK, TreeInv, [Next]_vars
  PROVE  TreeTellsTheTruth'
<1> USE DEF TypeOK, TreeInv, place, TreeTellsTheTruth, Node, Load
<1>1. ASSUME NEW ds \in DataSources, Reloads(ds) PROVE TreeTellsTheTruth'
  BY <1>1, Reloaded DEF Reloads
<1>2. ASSUME UseSchema PROVE TreeTellsTheTruth'
  BY <1>2 DEF UseSchema, SetSchema, tree
<1>3. ASSUME NEW ds \in DataSources, Rename(ds) PROVE TreeTellsTheTruth'
  BY <1>3 DEF Rename, tree, NoLoad
<1>4. ASSUME NEW i \in DOMAIN children, Expand(i) PROVE TreeTellsTheTruth'
  BY <1>4 DEF Expand, Marked
<1>5. ASSUME NEW i \in DOMAIN children, Toggle(i) PROVE TreeTellsTheTruth'
  BY <1>5 DEF Toggle, SetSchema, tree
<1>6. ASSUME NEW l \in Slots, Start(l) PROVE TreeTellsTheTruth'
  BY <1>6 DEF Start, tree, choice
<1>7. ASSUME NEW l \in Slots, ReadDone(l) PROVE TreeTellsTheTruth'
  BY <1>7 DEF ReadDone, Reading, tree, choice
<1>8. ASSUME NEW l \in Slots, ReadFailed(l) PROVE TreeTellsTheTruth'
  BY <1>8 DEF ReadFailed, Reading, tree, choice
<1>9. ASSUME NEW l \in Slots, ShowSchemas(l) PROVE TreeTellsTheTruth'
  <2> HIDE DEF Load, Node, TypeOK
  <2>1. /\ conn' = conn
        /\ root'.ds = loads[l].name /\ ~root'.loading /\ root'.late = loads[l].late
    BY <1>9, Shown
  <2>2. ~loads[l].late => /\ loads[l].name = conn /\ loads[l].from \in {None, conn}
                          /\ \A i \in DOMAIN children : children[i].late
    BY <1>9 DEF ShowSchemas, Alone, Current
  <2>3. \A i \in DOMAIN children : i \in DOMAIN children' /\ children'[i] = children[i]
    BY <1>9, Shown
  <2>4. \A i \in DOMAIN children' : i \notin DOMAIN children =>
          /\ i = Len(children) + 1
          /\ children'[i].schema = loads[l].from /\ loads[l].from # None
          /\ children'[i].late = loads[l].late
    BY <1>9, Shown
  <2>5. ~root'.late => root'.ds = conn'
    BY <2>1, <2>2
  <2>6. ASSUME NEW i \in DOMAIN children', ~children'[i].late
        PROVE  children'[i].schema = conn' /\ \A j \in DOMAIN children' : ~children'[j].late => i = j
    BY <2>1, <2>2, <2>3, <2>4, <2>6
  <2>7. QED
    BY <2>1, <2>5, <2>6
<1>10. ASSUME NEW l \in Slots, ShowTables(l) PROVE TreeTellsTheTruth'
  BY <1>10 DEF ShowTables, Attached
<1>11. ASSUME NEW l \in Slots, SaveSnapshot(l) PROVE TreeTellsTheTruth'
  BY <1>11 DEF SaveSnapshot, Saveable, FiledUnder, Forget, tree, choice
<1>12. ASSUME NEW l \in Slots, SnapshotDropped(l) PROVE TreeTellsTheTruth'
  BY <1>12 DEF SnapshotDropped, Forget, tree, choice
<1>13. CASE UNCHANGED vars
  BY <1>13 DEF vars, tree, choice, Load
<1>14. QED
  BY <1>1, <1>2, <1>3, <1>4, <1>5, <1>6, <1>7, <1>8, <1>9, <1>10, <1>11, <1>12, <1>13, ReloadingActions DEF Next, UserStep, Ends, Shows

(* What fills a node is the session looked at, once. *)
LEMMA BranchKept ==
  ASSUME TypeOK, TreeInv, [Next]_vars
  PROVE  BranchFilledOnce'
<1> USE DEF TypeOK, TreeInv, place, BranchFilledOnce, Node, Load
<1>1. ASSUME NEW ds \in DataSources, Reloads(ds) PROVE BranchFilledOnce'
  BY <1>1, Reloaded DEF Reloads
<1>2. ASSUME UseSchema PROVE BranchFilledOnce'
  BY <1>2 DEF UseSchema, SetSchema, tree
<1>3. ASSUME NEW ds \in DataSources, Rename(ds) PROVE BranchFilledOnce'
  BY <1>3 DEF Rename, tree, NoLoad
<1>4. ASSUME NEW i \in DOMAIN children, Expand(i) PROVE BranchFilledOnce'
  BY <1>4 DEF Expand, Marked
<1>5. ASSUME NEW i \in DOMAIN children, Toggle(i) PROVE BranchFilledOnce'
  BY <1>5 DEF Toggle, SetSchema, tree
<1>6. ASSUME NEW l \in Slots, Start(l) PROVE BranchFilledOnce'
  BY <1>6 DEF Start, tree, choice
<1>7. ASSUME NEW l \in Slots, ReadDone(l) PROVE BranchFilledOnce'
  BY <1>7 DEF ReadDone, Reading, tree, choice
<1>8. ASSUME NEW l \in Slots, ReadFailed(l) PROVE BranchFilledOnce'
  BY <1>8 DEF ReadFailed, Reading, tree, choice
<1>9. ASSUME NEW l \in Slots, ShowSchemas(l) PROVE BranchFilledOnce'
  BY <1>9 DEF ShowSchemas, TextAfter, Forget, choice
<1>10. ASSUME NEW l \in Slots, ShowTables(l) PROVE BranchFilledOnce'
  <2> HIDE DEF Node
  <2>1. CASE loads[l].outcome = "failed"
    BY <1>10, <2>1 DEF ShowTables
  <2>2. CASE loads[l].outcome # "failed"
    <3> DEFINE n == loads[l].node
               v == [children[n] EXCEPT !.below = Append(children[n].below, loads[l].from)]
    <3>1. n \in DOMAIN children /\ children[n].below = <<>> /\ loads[l].from = conn
      BY <1>10, <2>2 DEF ShowTables, Attached, Underway, ReadUnderway
    <3>2. children' = [children EXCEPT ![n] = v] /\ conn' = conn
      BY <1>10, <2>2 DEF ShowTables
    <3>3. children[n] \in Node /\ children \in Seq(Node)
      BY <3>1
    <3>4. v \in Node /\ v.below = <<conn>>
      <4>1. Append(children[n].below, loads[l].from) = <<conn>>
        BY <3>1
      <4>2. QED
        BY <3>1, <3>3, <4>1, NodeFilled DEF Node
    <3> HIDE DEF n, v
    <3>5. /\ DOMAIN children' = DOMAIN children /\ children'[n] = v
          /\ \A i \in DOMAIN children : i # n => children'[i] = children[i]
      BY <3>1, <3>2, <3>3, <3>4, NodeReplaced
    <3>6. QED
      BY <3>2, <3>4, <3>5
  <2>3. QED
    BY <2>1, <2>2
<1>11. ASSUME NEW l \in Slots, SaveSnapshot(l) PROVE BranchFilledOnce'
  BY <1>11 DEF SaveSnapshot, Saveable, FiledUnder, Forget, tree, choice
<1>12. ASSUME NEW l \in Slots, SnapshotDropped(l) PROVE BranchFilledOnce'
  BY <1>12 DEF SnapshotDropped, Forget, tree, choice
<1>13. CASE UNCHANGED vars
  BY <1>13 DEF vars, tree, choice, Load
<1>14. QED
  BY <1>1, <1>2, <1>3, <1>4, <1>5, <1>6, <1>7, <1>8, <1>9, <1>10, <1>11, <1>12, <1>13, ReloadingActions DEF Next, UserStep, Ends, Shows

(* Every variable keeps its type. *)
LEMMA TypeKept ==
  ASSUME TypeOK, TreeInv, [Next]_vars
  PROVE  TypeOK'
<1> USE DEF TypeOK, TreeInv, place
<1>1. ASSUME NEW ds \in DataSources, Reloads(ds), Refresh \/ Switch(ds) \/ AdoptReconnected(ds)
      PROVE TypeOK'
  <2>1. loads' \in [Slots -> Load]
    BY <1>1, Reloaded DEF Reloads
  <2>2. children' \in Seq(Node)
    BY <1>1, Reloaded, EmptyType DEF Reloads
  <2>3. root' \in [ds : DataSources, loading : BOOLEAN, late : BOOLEAN] /\ conn' \in DataSources
    <3>1. conn' = ds /\ root' = [ds |-> ds, loading |-> TRUE, late |-> FALSE]
      BY <1>1, Reloaded DEF Reloads
    <3>2. root' \in [ds : DataSources, loading : BOOLEAN, late : BOOLEAN]
      BY <3>1, RootType, Zenon
    <3>3. QED
      BY <3>1, <3>2
  <2>4. /\ selected' \in DataSources \cup {None}
        /\ completion' \in [ds : DataSources \cup {Former, None}, schema : DataSources \cup {None}]
        /\ visited' \in SUBSET DataSources
    BY <1>1 DEF Refresh, Switch, AdoptReconnected, EngineRebuilt, Engine, NoEngine, choice
  <2>5. /\ cache' \in [DataSources -> [of : DataSources \cup {None}, parts : 0..MaxParts]]
        /\ hasCache' \in BOOLEAN
    BY <1>1 DEF Reloads
  <2>6. QED
    BY <2>1, <2>2, <2>3, <2>4, <2>5
<1>2. ASSUME UseSchema PROVE TypeOK'
  <2>1. loads' \in [Slots -> Load]
    BY <1>2 DEF UseSchema
  <2>2. children' \in Seq(Node)
    BY <1>2 DEF UseSchema, tree
  <2>3. root' \in [ds : DataSources, loading : BOOLEAN, late : BOOLEAN] /\ conn' \in DataSources
    BY <1>2 DEF UseSchema, tree
  <2>4. /\ cache' \in [DataSources -> [of : DataSources \cup {None}, parts : 0..MaxParts]]
        /\ selected' \in DataSources \cup {None}
        /\ completion' \in [ds : DataSources \cup {Former, None}, schema : DataSources \cup {None}]
        /\ hasCache' \in BOOLEAN /\ visited' \in SUBSET DataSources
    BY <1>2 DEF UseSchema, SetSchema
  <2>5. QED
    BY <2>1, <2>2, <2>3, <2>4
<1>3. ASSUME NEW ds \in DataSources, Rename(ds) PROVE TypeOK'
  <2>1. loads' \in [Slots -> Load]
    BY <1>3, NoLoadType DEF Rename
  <2>2. /\ children' \in Seq(Node) /\ conn' \in DataSources /\ visited' \in SUBSET DataSources
        /\ root' \in [ds : DataSources, loading : BOOLEAN, late : BOOLEAN]
        /\ selected' \in DataSources \cup {None} /\ hasCache' \in BOOLEAN
    BY <1>3 DEF Rename, tree
  <2>3. cache' \in [DataSources -> [of : DataSources \cup {None}, parts : 0..MaxParts]]
    <3>1. NoSnapshot \in [of : DataSources \cup {None}, parts : 0..MaxParts]
      <4>1. 0 \in 0..MaxParts
        OBVIOUS
      <4>2. QED
        BY <4>1 DEF NoSnapshot
    <3>2. QED
      BY <1>3, <3>1 DEF Rename
  <2>4. completion' \in [ds : DataSources \cup {Former, None}, schema : DataSources \cup {None}]
    BY <1>3 DEF Rename
  <2>5. QED
    BY <2>1, <2>2, <2>3, <2>4
<1>4. ASSUME NEW i \in DOMAIN children, Expand(i) PROVE TypeOK'
  <2>1. loads' \in [Slots -> Load]
    BY <1>4, Expanded
  <2>2. children' \in Seq(Node)
    <3> DEFINE v == [children[i] EXCEPT !.loaded = TRUE]
    <3>1. children' = [children EXCEPT ![i] = v] /\ children[i] \in Node
      BY <1>4 DEF Expand, Marked
    <3>2. v \in Node
      BY <3>1, NodeMarked
    <3>3. QED
      BY <3>1, <3>2, NodeReplaced
  <2>3. root' \in [ds : DataSources, loading : BOOLEAN, late : BOOLEAN] /\ conn' \in DataSources
    BY <1>4 DEF Expand
  <2>4. /\ cache' \in [DataSources -> [of : DataSources \cup {None}, parts : 0..MaxParts]]
        /\ selected' \in DataSources \cup {None}
        /\ completion' \in [ds : DataSources \cup {Former, None}, schema : DataSources \cup {None}]
        /\ hasCache' \in BOOLEAN /\ visited' \in SUBSET DataSources
    BY <1>4, NodeFields DEF Expand, SetSchema
  <2>5. QED
    BY <2>1, <2>2, <2>3, <2>4
<1>5. ASSUME NEW i \in DOMAIN children, Toggle(i) PROVE TypeOK'
  <2>1. loads' \in [Slots -> Load]
    BY <1>5 DEF Toggle
  <2>2. children' \in Seq(Node)
    BY <1>5 DEF Toggle, tree
  <2>3. root' \in [ds : DataSources, loading : BOOLEAN, late : BOOLEAN] /\ conn' \in DataSources
    BY <1>5 DEF Toggle, tree
  <2>4. /\ cache' \in [DataSources -> [of : DataSources \cup {None}, parts : 0..MaxParts]]
        /\ selected' \in DataSources \cup {None}
        /\ completion' \in [ds : DataSources \cup {Former, None}, schema : DataSources \cup {None}]
        /\ hasCache' \in BOOLEAN /\ visited' \in SUBSET DataSources
    BY <1>5, NodeFields DEF Toggle, SetSchema
  <2>5. QED
    BY <2>1, <2>2, <2>3, <2>4
<1>6. ASSUME NEW l \in Slots, Start(l) PROVE TypeOK'
  <2>1. loads' \in [Slots -> Load]
    BY <1>6, LoadStarted DEF Start
  <2>2. children' \in Seq(Node)
    BY <1>6 DEF Start, tree
  <2>3. root' \in [ds : DataSources, loading : BOOLEAN, late : BOOLEAN] /\ conn' \in DataSources
    BY <1>6 DEF Start, tree
  <2>4. /\ cache' \in [DataSources -> [of : DataSources \cup {None}, parts : 0..MaxParts]]
        /\ selected' \in DataSources \cup {None}
        /\ completion' \in [ds : DataSources \cup {Former, None}, schema : DataSources \cup {None}]
        /\ hasCache' \in BOOLEAN /\ visited' \in SUBSET DataSources
    BY <1>6 DEF Start, choice
  <2>5. QED
    BY <2>1, <2>2, <2>3, <2>4
<1>7. ASSUME NEW l \in Slots, ReadDone(l) PROVE TypeOK'
  <2>1. loads' \in [Slots -> Load]
    <3> DEFINE p == IF loads[l].kind = "snapshot" THEN loads[l].parts + 1 ELSE loads[l].parts
               o == IF loads[l].kind = "snapshot" /\ loads[l].parts + 1 < MaxParts THEN "none" ELSE "read"
    <3>1. loads' = [loads EXCEPT ![l] = [loads[l] EXCEPT !.parts = p, !.outcome = o]] /\ loads[l] \in Load
      BY <1>7 DEF ReadDone
    <3>2. p \in 0..MaxParts
      <4>1. loads[l].parts \in 0..MaxParts
        BY <3>1 DEF Load
      <4>2. loads[l].kind = "snapshot" => loads[l].parts < MaxParts
        BY <1>7 DEF ReadDone, Reading, Underway, ReadUnderway
      <4>3. QED
        BY <4>1, <4>2
    <3>3. o \in {"none", "read", "failed"}
      OBVIOUS
    <3> HIDE DEF p, o
    <3>4. [loads[l] EXCEPT !.parts = p, !.outcome = o] \in Load
      BY <3>1, <3>2, <3>3, LoadEnded
    <3>5. QED
      BY <3>1, <3>4
  <2>2. children' \in Seq(Node)
    BY <1>7 DEF ReadDone, tree
  <2>3. root' \in [ds : DataSources, loading : BOOLEAN, late : BOOLEAN] /\ conn' \in DataSources
    BY <1>7 DEF ReadDone, tree
  <2>4. /\ cache' \in [DataSources -> [of : DataSources \cup {None}, parts : 0..MaxParts]]
        /\ selected' \in DataSources \cup {None}
        /\ completion' \in [ds : DataSources \cup {Former, None}, schema : DataSources \cup {None}]
        /\ hasCache' \in BOOLEAN /\ visited' \in SUBSET DataSources
    BY <1>7 DEF ReadDone, choice
  <2>5. QED
    BY <2>1, <2>2, <2>3, <2>4
<1>8. ASSUME NEW l \in Slots, ReadFailed(l) PROVE TypeOK'
  <2>1. loads' \in [Slots -> Load]
    BY <1>8, LoadEnded DEF ReadFailed
  <2>2. children' \in Seq(Node)
    BY <1>8 DEF ReadFailed, tree
  <2>3. root' \in [ds : DataSources, loading : BOOLEAN, late : BOOLEAN] /\ conn' \in DataSources
    BY <1>8 DEF ReadFailed, tree
  <2>4. /\ cache' \in [DataSources -> [of : DataSources \cup {None}, parts : 0..MaxParts]]
        /\ selected' \in DataSources \cup {None}
        /\ completion' \in [ds : DataSources \cup {Former, None}, schema : DataSources \cup {None}]
        /\ hasCache' \in BOOLEAN /\ visited' \in SUBSET DataSources
    BY <1>8 DEF ReadFailed, choice
  <2>5. QED
    BY <2>1, <2>2, <2>3, <2>4
<1>9. ASSUME NEW l \in Slots, ShowSchemas(l) PROVE TypeOK'
  <2>1. loads' \in [Slots -> Load]
    BY <1>9, NoLoadType DEF ShowSchemas, Forget
  <2>2. children' \in Seq(Node)
    <3>1. loads[l].late \in BOOLEAN
      BY DEF Load
    <3>2. QED
      BY <1>9, <3>1, FromType, NewNode DEF ShowSchemas
  <2>3. root' \in [ds : DataSources, loading : BOOLEAN, late : BOOLEAN] /\ conn' \in DataSources
    BY <1>9 DEF ShowSchemas, TextAfter, Load, Underway, ReadUnderway
  <2>4. /\ cache' \in [DataSources -> [of : DataSources \cup {None}, parts : 0..MaxParts]]
        /\ selected' \in DataSources \cup {None}
        /\ completion' \in [ds : DataSources \cup {Former, None}, schema : DataSources \cup {None}]
        /\ hasCache' \in BOOLEAN /\ visited' \in SUBSET DataSources
    BY <1>9 DEF ShowSchemas, choice
  <2>5. QED
    BY <2>1, <2>2, <2>3, <2>4
<1>10. ASSUME NEW l \in Slots, ShowTables(l) PROVE TypeOK'
  <2>1. loads' \in [Slots -> Load]
    BY <1>10, NoLoadType DEF ShowTables, Forget
  <2>2. children' \in Seq(Node)
    <3>1. CASE loads[l].outcome = "failed"
      BY <1>10, <3>1 DEF ShowTables
    <3>2. CASE loads[l].outcome # "failed"
      <4> DEFINE n == loads[l].node
                 v == [children[n] EXCEPT !.below = Append(children[n].below, loads[l].from)]
      <4>1. n \in DOMAIN children /\ children' = [children EXCEPT ![n] = v] /\ children[n] \in Node
        BY <1>10, <3>2 DEF ShowTables, Attached
      <4>2. v \in Node
        BY <1>10, <4>1, FromType, NodeFilled DEF ShowTables
      <4>3. QED
        BY <4>1, <4>2, NodeReplaced
    <3>3. QED
      BY <3>1, <3>2
  <2>3. root' \in [ds : DataSources, loading : BOOLEAN, late : BOOLEAN] /\ conn' \in DataSources
    BY <1>10 DEF ShowTables
  <2>4. /\ cache' \in [DataSources -> [of : DataSources \cup {None}, parts : 0..MaxParts]]
        /\ selected' \in DataSources \cup {None}
        /\ completion' \in [ds : DataSources \cup {Former, None}, schema : DataSources \cup {None}]
        /\ hasCache' \in BOOLEAN /\ visited' \in SUBSET DataSources
    BY <1>10 DEF ShowTables, choice
  <2>5. QED
    BY <2>1, <2>2, <2>3, <2>4
<1>11. ASSUME NEW l \in Slots, SaveSnapshot(l) PROVE TypeOK'
  <2>1. loads' \in [Slots -> Load]
    BY <1>11, NoLoadType DEF SaveSnapshot, Forget
  <2>2. children' \in Seq(Node)
    BY <1>11 DEF SaveSnapshot, tree
  <2>3. root' \in [ds : DataSources, loading : BOOLEAN, late : BOOLEAN] /\ conn' \in DataSources
    BY <1>11 DEF SaveSnapshot, tree
  <2>4. /\ cache' \in [DataSources -> [of : DataSources \cup {None}, parts : 0..MaxParts]]
        /\ selected' \in DataSources \cup {None}
        /\ completion' \in [ds : DataSources \cup {Former, None}, schema : DataSources \cup {None}]
        /\ hasCache' \in BOOLEAN /\ visited' \in SUBSET DataSources
    BY <1>11 DEF SaveSnapshot, FiledUnder, Load, Underway, ReadUnderway, choice
  <2>5. QED
    BY <2>1, <2>2, <2>3, <2>4
<1>12. ASSUME NEW l \in Slots, SnapshotDropped(l) PROVE TypeOK'
  <2>1. loads' \in [Slots -> Load]
    BY <1>12, NoLoadType DEF SnapshotDropped, Forget
  <2>2. children' \in Seq(Node)
    BY <1>12 DEF SnapshotDropped, tree
  <2>3. root' \in [ds : DataSources, loading : BOOLEAN, late : BOOLEAN] /\ conn' \in DataSources
    BY <1>12 DEF SnapshotDropped, tree
  <2>4. /\ cache' \in [DataSources -> [of : DataSources \cup {None}, parts : 0..MaxParts]]
        /\ selected' \in DataSources \cup {None}
        /\ completion' \in [ds : DataSources \cup {Former, None}, schema : DataSources \cup {None}]
        /\ hasCache' \in BOOLEAN /\ visited' \in SUBSET DataSources
    BY <1>12 DEF SnapshotDropped, choice
  <2>5. QED
    BY <2>1, <2>2, <2>3, <2>4
<1>13. CASE UNCHANGED vars
  BY <1>13 DEF vars, tree, choice, Load
<1>14. QED
  BY <1>1, <1>2, <1>3, <1>4, <1>5, <1>6, <1>7, <1>8, <1>9, <1>10, <1>11, <1>12, <1>13, ReloadingActions DEF Next, UserStep, Ends, Shows


-----------------------------------------------------------------------------
(* The theorems *)

LEMMA InitInvariant == Init => TypeOK /\ TreeInv
<1> SUFFICES ASSUME Init PROVE TypeOK /\ TreeInv
  OBVIOUS
<1>1. \A l \in Slots :
        \/ loads[l] = Spawned("schemas", 0, conn) /\ l = 1
        \/ loads[l] = Spawned("snapshot", 0, conn)
        \/ loads[l] = NoLoad
  BY DEF Init
<1>2. conn \in DataSources
  BY DEF Init
<1>3. TypeOK
  <2>1. loads \in [Slots -> Load]
    BY <1>2, SpawnedType, NoLoadType DEF Init
  <2>2. \A known \in SUBSET DataSources :
          [d \in DataSources |-> IF d \in known THEN [of |-> d, parts |-> MaxParts] ELSE NoSnapshot]
            \in [DataSources -> [of : DataSources \cup {None}, parts : 0..MaxParts]]
    <3>1. 0 \in 0..MaxParts /\ MaxParts \in 0..MaxParts
      OBVIOUS
    <3>2. QED
      BY <3>1 DEF NoSnapshot
  <2>3. cache \in [DataSources -> [of : DataSources \cup {None}, parts : 0..MaxParts]]
    BY <2>2 DEF Init
  <2>4. completion \in [ds : DataSources \cup {Former, None}, schema : DataSources \cup {None}]
    BY <1>2 DEF Init, Engine, NoEngine
  <2>5. root \in [ds : DataSources, loading : BOOLEAN, late : BOOLEAN] /\ children \in Seq(Node)
    BY <1>2, RootType, EmptyType DEF Init
  <2>6. QED
    BY <1>2, <2>1, <2>3, <2>4, <2>5 DEF Init, TypeOK
<1>4. /\ Spawned("schemas", 0, conn) = [kind |-> "schemas", node |-> 0, name |-> conn,
           from |-> None, parts |-> 0, outcome |-> "none", late |-> FALSE]
      /\ Spawned("snapshot", 0, conn) = [kind |-> "snapshot", node |-> 0, name |-> conn,
           from |-> None, parts |-> 0, outcome |-> "none", late |-> FALSE]
  BY <1>2, SpawnedType
<1>5. Attached /\ Unloaded /\ BranchFilledOnce
  BY <1>1, <1>4 DEF Init, Attached, Unloaded, BranchFilledOnce, NoLoad
<1>6. Underway
  <2>1. 0 < MaxParts /\ conn # None
    BY <1>2
  <2>2. QED
    BY <1>1, <1>4, <2>1 DEF Underway, ReadUnderway, NoLoad
<1>8. Alone /\ TreeTellsTheTruth
  BY <1>1, <1>4 DEF Init, Alone, Current, TreeTellsTheTruth, NoLoad
<1>9. CacheIsWhole
  BY DEF Init, CacheIsWhole
<1>10. SchemaAgrees
  BY DEF Init, SchemaAgrees, Engine
<1>11. QED
  BY <1>3, <1>5, <1>6, <1>8, <1>9, <1>10 DEF TreeInv

(* TypeOK and TreeInv hold together in every state.                          *)
LEMMA Invariant == Spec => [](TypeOK /\ TreeInv)
<1>1. TypeOK /\ TreeInv /\ [Next]_vars => (TypeOK /\ TreeInv)'
  <2> SUFFICES ASSUME TypeOK, TreeInv, [Next]_vars PROVE TypeOK' /\ TreeInv'
    OBVIOUS
  <2>1. TypeOK' /\ Underway' /\ SchemaAgrees' /\ CacheIsWhole'
    BY TypeKept, UnderwayKept, SchemaKept, CacheKept
  <2>2. Attached' /\ Unloaded' /\ Alone' /\ TreeTellsTheTruth' /\ BranchFilledOnce'
    BY AttachedKept, UnloadedKept, AloneKept, TruthKept, BranchKept
  <2>3. QED
    BY <2>1, <2>2 DEF TreeInv
<1>2. QED
  BY InitInvariant, <1>1, PTL DEF Spec

(* Every variable of the tree, its reads and the cache keeps its type.       *)
THEOREM TypeCorrect == Spec => []TypeOK
BY Invariant, PTL

(* What is known of the reads in flight holds in every state: loadSchemas,   *)
(* loadTables and refreshCache, however many overlap.                        *)
THEOREM TreeInvariant == Spec => []TreeInv
BY Invariant, PTL

(* However reloads, switches and reads overlap, what was read since the last *)
(* reload is of the datasource of the session, once: loadSchemas and adopt.  *)
THEOREM TreeTruth == Spec => []TreeTellsTheTruth
<1>1. TreeInv => TreeTellsTheTruth
  BY DEF TreeInv
<1>2. QED
  BY <1>1, TreeInvariant, PTL

(* However many reads overlap, a node is filled once and from the session    *)
(* looked at: onTreeSelect and loadTables.                                   *)
THEOREM BranchOnce == Spec => []BranchFilledOnce
<1>1. TreeInv => BranchFilledOnce
  BY DEF TreeInv
<1>2. QED
  BY <1>1, TreeInvariant, PTL

(* The cache never holds part of a snapshot: refreshCache, FetchSnapshot and *)
(* Save.                                                                     *)
THEOREM CacheWhole == Spec => []CacheIsWhole
<1>1. TreeInv => CacheIsWhole
  BY DEF TreeInv
<1>2. QED
  BY <1>1, TreeInvariant, PTL

(* Completion's schema is the interface's and, until a new name or a session *)
(* that comes back after a switch, so is its datasource: setSchema, adopt.   *)
THEOREM CompletionRight == Spec => CompletionAgrees
<1>1. TypeOK /\ TreeInv /\ [Next]_vars =>
        [SchemaAgrees' /\ (EngineAgrees /\ ~EngineAgrees' => LeavesEngine)]_vars
  BY SchemaKept, EngineKeptUp
<1>2. QED
  BY <1>1, Invariant, PTL DEF Spec, CompletionAgrees

=============================================================================
