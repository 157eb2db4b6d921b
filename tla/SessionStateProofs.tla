-------------------------- MODULE SessionStateProofs --------------------------
(***************************************************************************)
(* Whatever the numbers of statements, connections, schemas and answers:   *)
(* what SessionState's run checks on two of each.  A statement runs in its *)
(* schema, never for writing on a read_only datasource, and no answer of   *)
(* SHOW WARNINGS already read is reported again.                           *)
(***************************************************************************)
EXTENDS SessionState, TLAPS

OnConnection == {"ready", "switched", "done", "warned"}

\* The strengthening.  A statement is on one connection, alone on it.
Placed ==
  /\ \A s \in Streams : at[s] # None <=> pc[s] \in OnConnection
  /\ \A s, t \in Streams : at[s] # None /\ at[s] = at[t] => s = t
  /\ \A s \in Streams : pc[s] = "idle" => ran[s] = NotRun

\* No connection has left the datasource's schema before the first switch but
\* by a typed USE, and a statement about to run is where it was asked to be
\* unless it was sent to none and found its connection strayed.
SchemaInv ==
  /\ ~schemaEverSwitched => \A c \in Conns : schema[c] = Home \/ strayed[c]
  /\ \A s \in Streams : pc[s] = "switched" =>
       schema[at[s]] = Wanted(s) \/ (asked[s] = None /\ strayed[at[s]])

\* A connection is read-only from the time it is handed to a statement.
ReadOnlyInv ==
  ReadOnly => \A s \in Streams : pc[s] \in {"ready", "switched"} =>
                tx = at[s] \/ writable[at[s]] = FALSE

\* An answer that was read is the one staleWarnings remembers.
AnswerInv ==
  /\ \A c \in Conns : area[c].by = "read" => area[c].what = lastWarnings[c]
  /\ \A s \in Streams : pc[s] = "warned" =>
       area[at[s]] = Nothing \/ area[at[s]].what = lastWarnings[at[s]]
-----------------------------------------------------------------------------
(* Every variable keeps its type, through every step of the two machines.    *)
LEMMA TypeStep == TypeOK /\ Placed /\ [Next]_vars => TypeOK'
<1> SUFFICES ASSUME TypeOK, Placed, [Next]_vars PROVE TypeOK'
  OBVIOUS
<1> USE DEF TypeOK, Answers, Nothing, NotRun
<1>1. ASSUME NEW x \in Schemas, Select(x) PROVE TypeOK'
  BY <1>1 DEF Select, serverVars, connVars, streamVars
<1>2. ASSUME NEW s \in Streams, NEW c \in Conns, Acquire(s, c) PROVE TypeOK'
  BY <1>2 DEF Acquire, EnforceReadOnly, connVars
<1>3. ASSUME NEW s \in Streams, Query(s) PROVE TypeOK'
  BY <1>3 DEF Query, serverVars, connVars
<1>4. ASSUME NEW s \in Streams, Switch(s) PROVE TypeOK'
  BY <1>4, HomeIsASchema DEF Switch, SchemaFor
<1>5. ASSUME NEW s \in Streams, Execute(s) PROVE TypeOK'
  <2>1. at[s] \in Conns
    BY <1>5 DEF Execute, Placed, OnConnection
  <2>2. /\ schema' \in [Conns -> Schemas] /\ writable' \in [Conns -> BOOLEAN]
        /\ strayed' \in [Conns -> BOOLEAN]
    <3>1. schema' = schema \/ \E x \in Schemas : schema' = [schema EXCEPT ![at[s]] = x]
      BY <1>5 DEF Execute, SessionEffects
    <3>2. writable' = writable \/ writable' = [writable EXCEPT ![at[s]] = TRUE]
      BY <1>5 DEF Execute, SessionEffects
    <3>3. schema \in [Conns -> Schemas] /\ writable \in [Conns -> BOOLEAN]
      OBVIOUS
    <3>6. strayed' \in [Conns -> BOOLEAN]
      BY <1>5 DEF Execute, SessionEffects
    <3>4. schema' \in [Conns -> Schemas]
      <4> HIDE DEF TypeOK, Answers
      <4> QED
        BY <3>1, <3>3
    <3>5. writable' \in [Conns -> BOOLEAN]
      <4> HIDE DEF TypeOK, Answers
      <4> QED
        BY <3>2, <3>3
    <3> QED
      BY <3>4, <3>5, <3>6
  <2>3. area' \in [Conns -> Answers]
    <3>1. [what |-> None, by |-> None] \in Answers
      OBVIOUS
    <3>2. \A w \in Warnings : [what |-> w, by |-> s] \in Answers
      OBVIOUS
    <3> HIDE DEF Answers
    <3> QED
      BY <1>5, <3>1, <3>2 DEF Execute
  <2>4. ran' \in [Streams -> [schema : Schemas \cup {None}, strayed : BOOLEAN, writes : BOOLEAN]]
    <3> DEFINE C == at[s]
               W == writable[C] /\ ~(ReadOnly /\ tx = C)
    <3>1. W \in BOOLEAN
      OBVIOUS
    <3>2. ran' = [ran EXCEPT ![s] = [schema |-> schema[C], strayed |-> strayed[C], writes |-> W]]
      BY <1>5 DEF Execute
    <3>3. schema[C] \in Schemas /\ strayed[C] \in BOOLEAN
      BY <1>5, <2>1
    <3> HIDE DEF W, C
    <3> QED
      BY <3>1, <3>2, <3>3
  <2>5. pc' \in [Streams -> {"idle", "sent", "ready", "switched", "done", "warned"}]
    BY <1>5 DEF Execute
  <2> QED
    BY <1>5, <2>2, <2>3, <2>4, <2>5 DEF Execute, connVars
<1>6. ASSUME NEW s \in Streams, ReadWarnings(s) PROVE TypeOK'
  <2>1. at[s] \in Conns
    BY <1>6 DEF ReadWarnings, Placed, OnConnection
  <2>2. area[at[s]] \in Answers /\ area[at[s]].what \in Warnings \cup {None}
    BY <2>1
  <2>3. reported' \in [Streams -> Answers] /\ dropped' \in [Streams -> Answers]
    <3> HIDE DEF Answers, Nothing
    <3> QED
      BY <1>6, <2>2 DEF ReadWarnings
  <2>4. lastWarnings' \in [Conns -> Warnings \cup {None}]
    BY <1>6, <2>2 DEF ReadWarnings, Remember
  <2> QED
    BY <1>6, <2>3, <2>4 DEF ReadWarnings, serverVars
<1>7. ASSUME NEW s \in Streams, Release(s) PROVE TypeOK'
  <2>1. area' \in [Conns -> Answers] /\ lastRead' \in [Conns -> Warnings \cup {None}]
    <3>1. CASE at[s] = None
      BY <1>7, <3>1 DEF Release
    <3>2. CASE at[s] # None
      <4> DEFINE C == at[s]
                 aged == IF pc[s] = "warned" THEN "read" ELSE "unread"
      <4>1. C \in Conns /\ area[C] \in Answers /\ area[C].what \in Warnings \cup {None}
        BY <3>2
      <4>2. area[C].by # None => [what |-> area[C].what, by |-> aged] \in Answers
        BY <4>1
      <4>3. area' \in [Conns -> Answers]
        <5>1. CASE area' = [area EXCEPT ![C] = [what |-> area[C].what, by |-> aged]]
                   /\ (area[C].by = s \/ area[C].by = "unread")
          <6> HIDE DEF Answers, C, aged
          <6> QED
            BY <4>2, <5>1, HomeIsASchema
        <5>2. CASE area' = [area EXCEPT ![C] = area[C]]
          <6> HIDE DEF Answers, C
          <6> QED
            BY <4>1, <5>2
        <5> QED
          BY <1>7, <3>2, <5>1, <5>2 DEF Release
      <4>4. lastRead' \in [Conns -> Warnings \cup {None}]
        BY <1>7, <3>2, <4>1 DEF Release
      <4> QED
        BY <4>3, <4>4
    <3> QED
      BY <3>1, <3>2
  <2>2. Nothing \in Answers
    OBVIOUS
  <2> QED
    BY <1>7, <2>1, <2>2, HomeIsASchema DEF Release, connVars
<1>8. ASSUME NEW c \in Conns, Begin(c) PROVE TypeOK'
  BY <1>8 DEF Begin, EnforceReadOnly, streamVars
<1>9. CASE EndTransaction
  BY <1>9 DEF EndTransaction, serverVars, streamVars
<1>10. CASE UNCHANGED vars
  BY <1>10 DEF vars, serverVars, connVars, streamVars
<1> QED
  BY <1>1, <1>2, <1>3, <1>4, <1>5, <1>6, <1>7, <1>8, <1>9, <1>10 DEF Next

LEMMA TypeInit == Init => TypeOK
<1> SUFFICES ASSUME Init PROVE TypeOK
  OBVIOUS
<1>1. Nothing \in Answers
  BY DEF Answers
<1>2. NotRun \in [schema : Schemas \cup {None}, strayed : BOOLEAN, writes : BOOLEAN]
  BY DEF NotRun
<1> QED
  BY <1>1, <1>2, HomeIsASchema DEF Init, TypeOK

-----------------------------------------------------------------------------
(* Acquire takes a connection nobody has, and only Release gives it up.      *)
LEMMA PlacedStep == TypeOK /\ Placed /\ [Next]_vars => Placed'
<1> SUFFICES ASSUME TypeOK, Placed, [Next]_vars PROVE Placed'
  OBVIOUS
<1> USE HomeIsASchema DEF TypeOK, Placed, OnConnection
<1>1. ASSUME NEW x \in Schemas, Select(x) PROVE Placed'
  BY <1>1 DEF Select, streamVars
<1>2. ASSUME NEW s \in Streams, NEW c \in Conns, Acquire(s, c) PROVE Placed'
  BY <1>2 DEF Acquire, Held
<1>3. ASSUME NEW s \in Streams, Query(s) PROVE Placed'
  BY <1>3 DEF Query
<1>4. ASSUME NEW s \in Streams, Switch(s) PROVE Placed'
  BY <1>4 DEF Switch
<1>5. ASSUME NEW s \in Streams, Execute(s) PROVE Placed'
  BY <1>5 DEF Execute
<1>6. ASSUME NEW s \in Streams, ReadWarnings(s) PROVE Placed'
  BY <1>6 DEF ReadWarnings
<1>7. ASSUME NEW s \in Streams, Release(s) PROVE Placed'
  BY <1>7 DEF Release
<1>8. ASSUME NEW c \in Conns, Begin(c) PROVE Placed'
  BY <1>8 DEF Begin, streamVars
<1>9. CASE EndTransaction
  BY <1>9 DEF EndTransaction, streamVars
<1>10. CASE UNCHANGED vars
  BY <1>10 DEF vars, streamVars
<1> QED
  BY <1>1, <1>2, <1>3, <1>4, <1>5, <1>6, <1>7, <1>8, <1>9, <1>10 DEF Next

-----------------------------------------------------------------------------
(* Nothing but its own statement moves a connection between its USE and the  *)
(* statement, and before the first switch only a typed USE leads anywhere.   *)
LEMMA SchemaStep ==
  TypeOK /\ Placed /\ SchemaInv /\ RunsInItsSchema /\ [Next]_vars
    => SchemaInv' /\ RunsInItsSchema'
<1> SUFFICES ASSUME TypeOK, Placed, SchemaInv, RunsInItsSchema, [Next]_vars
             PROVE  SchemaInv' /\ RunsInItsSchema'
  OBVIOUS
<1> USE HomeIsASchema DEF TypeOK, Placed, OnConnection, SchemaInv, RunsInItsSchema, Wanted
<1>1. ASSUME NEW x \in Schemas, Select(x) PROVE SchemaInv' /\ RunsInItsSchema'
  BY <1>1 DEF Select, serverVars, connVars, streamVars
<1>2. ASSUME NEW s \in Streams, NEW c \in Conns, Acquire(s, c)
      PROVE  SchemaInv' /\ RunsInItsSchema'
  BY <1>2 DEF Acquire, connVars
<1>3. ASSUME NEW s \in Streams, Query(s) PROVE SchemaInv' /\ RunsInItsSchema'
  BY <1>3 DEF Query, serverVars, connVars
<1>4. ASSUME NEW s \in Streams, Switch(s) PROVE SchemaInv' /\ RunsInItsSchema'
  <2>1. at[s] \in Conns
    BY <1>4 DEF Switch
  <2>2. \A c \in Conns : c # at[s] => schema'[c] = schema[c] /\ strayed'[c] = strayed[c]
    BY <1>4 DEF Switch
  <2>3. /\ schema'[at[s]] = IF SchemaFor(s) = None THEN schema[at[s]] ELSE SchemaFor(s)
        /\ strayed'[at[s]] = (strayed[at[s]] /\ SchemaFor(s) = None)
    BY <1>4, <2>1 DEF Switch
  <2>4. /\ UNCHANGED <<at, asked, ran>>
        /\ schemaEverSwitched' = (schemaEverSwitched \/ asked[s] # None)
        /\ \A t \in Streams : t # s => pc'[t] = pc[t]
    BY <1>4 DEF Switch
  <2>5. RunsInItsSchema'
    BY <2>4
  <2>6. ~schemaEverSwitched' => ~schemaEverSwitched /\ SchemaFor(s) = None
    BY <2>4 DEF SchemaFor
  <2>7. ~schemaEverSwitched' => \A c \in Conns : schema'[c] = Home \/ strayed'[c]
    <3> SUFFICES ASSUME ~schemaEverSwitched', NEW c \in Conns
                 PROVE  schema'[c] = Home \/ strayed'[c]
      OBVIOUS
    <3>1. schema[c] = Home \/ strayed[c]
      BY <2>6
    <3> QED
      BY <2>2, <2>3, <2>6, <3>1
  <2>8. schema'[at[s]] = Wanted(s) \/ (asked[s] = None /\ strayed'[at[s]])
    <3>1. CASE SchemaFor(s) # None
      BY <2>3, <3>1 DEF SchemaFor
    <3>2. CASE SchemaFor(s) = None
      <4>1. asked[s] = None /\ ~schemaEverSwitched
        BY <3>2 DEF SchemaFor
      <4> QED
        BY <2>1, <2>3, <3>2, <4>1
    <3> QED
      BY <3>1, <3>2
  <2>9. ASSUME NEW t \in Streams, pc'[t] = "switched"
        PROVE  schema'[at'[t]] = Wanted(t)' \/ (asked'[t] = None /\ strayed'[at'[t]])
    <3>1. CASE t = s
      BY <2>4, <2>8, <3>1
    <3>2. CASE t # s
      <4>1. pc[t] = "switched" /\ at[t] \in Conns /\ at[t] # at[s]
        BY <2>1, <2>4, <2>9, <3>2
      <4> QED
        BY <2>2, <2>4, <4>1
    <3> QED
      BY <3>1, <3>2
  <2> QED
    BY <2>5, <2>7, <2>9
<1>5. ASSUME NEW s \in Streams, Execute(s) PROVE SchemaInv' /\ RunsInItsSchema'
  <2>1. at[s] \in Conns
    BY <1>5 DEF Execute
  <2>2. UNCHANGED <<schema, strayed>> \/ strayed'[at[s]]
    BY <1>5, <2>1 DEF Execute, SessionEffects
  <2>3. \A c \in Conns : c # at[s] => schema'[c] = schema[c] /\ strayed'[c] = strayed[c]
    BY <1>5 DEF Execute, SessionEffects
  <2>4. \A t \in Streams : pc'[t] = "switched" => t # s /\ pc[t] = "switched" /\ at[t] # at[s]
    BY <1>5 DEF Execute
  <2>5. SchemaInv'
    BY <1>5, <2>1, <2>2, <2>3, <2>4 DEF Execute, connVars
  <2>6. RunsInItsSchema'
    BY <1>5, <2>1 DEF Execute, NotRun
  <2> QED
    BY <2>5, <2>6
<1>6. ASSUME NEW s \in Streams, ReadWarnings(s) PROVE SchemaInv' /\ RunsInItsSchema'
  BY <1>6 DEF ReadWarnings, serverVars
<1>7. ASSUME NEW s \in Streams, Release(s) PROVE SchemaInv' /\ RunsInItsSchema'
  BY <1>7 DEF Release, connVars
<1>8. ASSUME NEW c \in Conns, Begin(c) PROVE SchemaInv' /\ RunsInItsSchema'
  BY <1>8 DEF Begin, streamVars
<1>9. CASE EndTransaction
  BY <1>9 DEF EndTransaction, serverVars, streamVars
<1>10. CASE UNCHANGED vars
  BY <1>10 DEF vars, serverVars, connVars, streamVars
<1> QED
  BY <1>1, <1>2, <1>3, <1>4, <1>5, <1>6, <1>7, <1>8, <1>9, <1>10 DEF Next
-----------------------------------------------------------------------------
(* Only a statement that is running makes its session writable again, and it *)
(* has the connection alone.                                                 *)
LEMMA ReadOnlyStep ==
  TypeOK /\ Placed /\ ReadOnlyInv /\ WritesAreRefused /\ [Next]_vars
    => ReadOnlyInv' /\ WritesAreRefused'
<1> SUFFICES ASSUME ReadOnly, TypeOK, Placed, ReadOnlyInv, WritesAreRefused, [Next]_vars
             PROVE  ReadOnlyInv' /\ WritesAreRefused'
  BY ReadOnlyIsBoolean DEF ReadOnlyInv, WritesAreRefused
<1> USE HomeIsASchema DEF TypeOK, Placed, OnConnection, ReadOnlyInv, WritesAreRefused
<1>1. ASSUME NEW x \in Schemas, Select(x) PROVE ReadOnlyInv' /\ WritesAreRefused'
  BY <1>1 DEF Select, serverVars, connVars, streamVars
<1>2. ASSUME NEW s \in Streams, NEW c \in Conns, Acquire(s, c)
      PROVE  ReadOnlyInv' /\ WritesAreRefused'
  BY <1>2 DEF Acquire, Held, EnforceReadOnly, connVars
<1>3. ASSUME NEW s \in Streams, Query(s) PROVE ReadOnlyInv' /\ WritesAreRefused'
  BY <1>3 DEF Query, serverVars, connVars
<1>4. ASSUME NEW s \in Streams, Switch(s) PROVE ReadOnlyInv' /\ WritesAreRefused'
  BY <1>4 DEF Switch
<1>5. ASSUME NEW s \in Streams, Execute(s) PROVE ReadOnlyInv' /\ WritesAreRefused'
  <2>1. at[s] \in Conns /\ (tx = at[s] \/ writable[at[s]] = FALSE)
    BY <1>5 DEF Execute
  <2>2. \A c \in Conns : c # at[s] => writable'[c] = writable[c]
    BY <1>5 DEF Execute, SessionEffects
  <2>3. \A t \in Streams : pc'[t] \in {"ready", "switched"} =>
          pc[t] = pc'[t] /\ at[t] # at[s] /\ at[t] \in Conns
    BY <1>5 DEF Execute
  <2>4. ReadOnlyInv'
    BY <1>5, <2>2, <2>3 DEF Execute, connVars
  <2>5. ran'[s].writes = FALSE
    BY <1>5, <2>1 DEF Execute
  <2>6. WritesAreRefused'
    BY <1>5, <2>5 DEF Execute
  <2> QED
    BY <2>4, <2>6
<1>6. ASSUME NEW s \in Streams, ReadWarnings(s) PROVE ReadOnlyInv' /\ WritesAreRefused'
  BY <1>6 DEF ReadWarnings, serverVars
<1>7. ASSUME NEW s \in Streams, Release(s) PROVE ReadOnlyInv' /\ WritesAreRefused'
  BY <1>7 DEF Release, connVars, NotRun
<1>8. ASSUME NEW c \in Conns, Begin(c) PROVE ReadOnlyInv' /\ WritesAreRefused'
  BY <1>8 DEF Begin, EnforceReadOnly, Held, streamVars
<1>9. CASE EndTransaction
  BY <1>9 DEF EndTransaction, Held, serverVars, streamVars
<1>10. CASE UNCHANGED vars
  BY <1>10 DEF vars, serverVars, connVars, streamVars
<1> QED
  BY <1>1, <1>2, <1>3, <1>4, <1>5, <1>6, <1>7, <1>8, <1>9, <1>10 DEF Next

-----------------------------------------------------------------------------
(* An answer ages only when its connection is given back after readWarnings  *)
(* has told staleWarnings of it.                                             *)
LEMMA AnswerStep ==
  TypeOK /\ Placed /\ AnswerInv /\ StaleWarningsAreNotRepeated /\ [Next]_vars
    => AnswerInv' /\ StaleWarningsAreNotRepeated'
<1> SUFFICES ASSUME TypeOK, Placed, AnswerInv, StaleWarningsAreNotRepeated, [Next]_vars
             PROVE  AnswerInv' /\ StaleWarningsAreNotRepeated'
  OBVIOUS
<1> USE HomeIsASchema
    DEF TypeOK, Placed, OnConnection, AnswerInv, StaleWarningsAreNotRepeated, Nothing
<1>1. ASSUME NEW x \in Schemas, Select(x) PROVE AnswerInv' /\ StaleWarningsAreNotRepeated'
  BY <1>1 DEF Select, serverVars, connVars, streamVars
<1>2. ASSUME NEW s \in Streams, NEW c \in Conns, Acquire(s, c)
      PROVE  AnswerInv' /\ StaleWarningsAreNotRepeated'
  BY <1>2 DEF Acquire, connVars
<1>3. ASSUME NEW s \in Streams, Query(s) PROVE AnswerInv' /\ StaleWarningsAreNotRepeated'
  BY <1>3 DEF Query, serverVars, connVars
<1>4. ASSUME NEW s \in Streams, Switch(s) PROVE AnswerInv' /\ StaleWarningsAreNotRepeated'
  BY <1>4 DEF Switch
<1>5. ASSUME NEW s \in Streams, Execute(s) PROVE AnswerInv' /\ StaleWarningsAreNotRepeated'
  <2>1. at[s] \in Conns
    BY <1>5 DEF Execute
  <2>2. /\ \A c \in Conns : c # at[s] => area'[c] = area[c]
        /\ area'[at[s]].by # "read" \/ area'[at[s]] = area[at[s]]
    BY <1>5, <2>1 DEF Execute
  <2>3. \A t \in Streams : pc'[t] = "warned" => pc[t] = "warned" /\ at[t] # at[s]
    BY <1>5 DEF Execute
  <2>4. UNCHANGED <<lastWarnings, reported, at>>
    BY <1>5 DEF Execute, connVars
  <2>5. \A c \in Conns : area'[c].by = "read" => area'[c].what = lastWarnings[c]
    BY <2>2
  <2>6. \A t \in Streams : pc'[t] = "warned" => at[t] \in Conns /\ area'[at[t]] = area[at[t]]
    BY <2>2, <2>3
  <2> QED
    BY <2>3, <2>4, <2>5, <2>6
<1>6. ASSUME NEW s \in Streams, ReadWarnings(s)
      PROVE  AnswerInv' /\ StaleWarningsAreNotRepeated'
  <2> DEFINE C == at[s]
  <2>1. C \in Conns
    BY <1>6 DEF ReadWarnings
  <2>2. UNCHANGED area /\ UNCHANGED at
    BY <1>6 DEF ReadWarnings, serverVars
  <2>3. /\ lastWarnings'[C] = IF area[C].what = None THEN lastWarnings[C] ELSE area[C].what
        /\ \A c \in Conns : c # C => lastWarnings'[c] = lastWarnings[c]
    BY <1>6, <2>1 DEF ReadWarnings, Remember
  <2>4. \A t \in Streams : pc'[t] = "warned" => t = s \/ (pc[t] = "warned" /\ at[t] # C)
    BY <1>6 DEF ReadWarnings
  <2>5. area[C] = Nothing \/ area[C].what \in Warnings
    BY <2>1 DEF Answers
  <2>6. AnswerInv'
    <3>1. area[C] = Nothing \/ area[C].what = lastWarnings'[C]
      <4>1. area[C].what \in Warnings => area[C].what # None
        OBVIOUS
      <4> QED
        BY <2>3, <2>5, <4>1
    <3>2. ASSUME NEW c \in Conns, area'[c].by = "read" PROVE area'[c].what = lastWarnings'[c]
      <4>1. area[c] = area'[c] /\ area[c].what = lastWarnings[c]
        BY <2>2, <3>2
      <4>2. CASE c = C
        BY <2>3, <4>1, <4>2
      <4>3. CASE c # C
        BY <2>3, <4>1, <4>3
      <4> QED
        BY <4>2, <4>3
    <3>3. ASSUME NEW t \in Streams, pc'[t] = "warned"
          PROVE  area'[at'[t]] = Nothing \/ area'[at'[t]].what = lastWarnings'[at'[t]]
      <4>1. CASE t = s
        BY <2>2, <3>1, <4>1
      <4>2. CASE t # s
        <5>1. pc[t] = "warned" /\ at[t] # C /\ at[t] \in Conns
          BY <2>4, <3>3, <4>2
        <5> QED
          BY <2>2, <2>3, <5>1
      <4> QED
        BY <4>1, <4>2
    <3> QED
      BY <3>2, <3>3
  <2>7. \/ UNCHANGED reported
        \/ reported' = [reported EXCEPT ![s] = area[C]] /\ area[C].by # "read"
    BY <1>6, <2>1 DEF ReadWarnings, Stale
  <2>8. StaleWarningsAreNotRepeated'
    <3>1. CASE UNCHANGED reported
      BY <3>1
    <3>2. CASE reported' = [reported EXCEPT ![s] = area[C]] /\ area[C].by # "read"
      BY <3>2
    <3> QED
      BY <2>7, <3>1, <3>2
  <2> QED
    BY <2>6, <2>8
<1>7. ASSUME NEW s \in Streams, Release(s) PROVE AnswerInv' /\ StaleWarningsAreNotRepeated'
  <2>1. StaleWarningsAreNotRepeated'
    BY <1>7 DEF Release
  <2>2. UNCHANGED lastWarnings
    BY <1>7 DEF Release, connVars
  <2>3. \A t \in Streams : pc'[t] = "warned" => pc[t] = "warned" /\ t # s /\ at'[t] = at[t]
    BY <1>7 DEF Release
  <2>4. CASE at[s] = None
    BY <1>7, <2>1, <2>2, <2>3, <2>4 DEF Release
  <2>5. CASE at[s] # None
    <3> DEFINE C == at[s]
    <3>1. C \in Conns
      BY <2>5
    <3>2. \A c \in Conns : c # C => area'[c] = area[c]
      BY <1>7, <2>5 DEF Release
    <3>3. \/ area'[C] = area[C]
          \/ /\ area'[C].by = "read" => pc[s] = "warned" /\ area[C].by # None
             /\ area'[C].what = area[C].what
      BY <1>7, <2>5, <3>1 DEF Release
    <3>4. area'[C].by = "read" => area'[C].what = lastWarnings[C]
      BY <3>1, <3>3
    <3>5. \A t \in Streams : pc'[t] = "warned" => at[t] # C /\ at[t] \in Conns
      BY <2>3, <3>1
    <3> QED
      BY <2>1, <2>2, <2>3, <3>2, <3>4, <3>5
  <2> QED
    BY <2>4, <2>5
<1>8. ASSUME NEW c \in Conns, Begin(c) PROVE AnswerInv' /\ StaleWarningsAreNotRepeated'
  BY <1>8 DEF Begin, streamVars
<1>9. CASE EndTransaction
  BY <1>9 DEF EndTransaction, serverVars, streamVars
<1>10. CASE UNCHANGED vars
  BY <1>10 DEF vars, serverVars, connVars, streamVars
<1> QED
  BY <1>1, <1>2, <1>3, <1>4, <1>5, <1>6, <1>7, <1>8, <1>9, <1>10 DEF Next

-----------------------------------------------------------------------------
LEMMA InitFacts ==
  Init => /\ Placed /\ SchemaInv /\ ReadOnlyInv /\ AnswerInv
          /\ RunsInItsSchema /\ WritesAreRefused /\ StaleWarningsAreNotRepeated
BY HomeIsASchema
   DEF Init, Placed, OnConnection, SchemaInv, ReadOnlyInv, AnswerInv, RunsInItsSchema,
       WritesAreRefused, StaleWarningsAreNotRepeated, Nothing, NotRun

(* The types hold, and no two statements are on one connection.              *)
THEOREM TypeCorrect == Spec => [](TypeOK /\ Placed)
<1>1. Init => TypeOK /\ Placed
  BY TypeInit, InitFacts
<1>2. TypeOK /\ Placed /\ [Next]_vars => TypeOK' /\ Placed'
  BY TypeStep, PlacedStep
<1> QED
  BY <1>1, <1>2, PTL DEF Spec

(* schemaFor: a statement runs in the schema it was sent for, or in the      *)
(* datasource's own, whatever was sent to another on its connection; only a  *)
(* typed USE leads one that was sent to none elsewhere.                      *)
THEOREM SchemaIsKept == Spec => []RunsInItsSchema
<1>1. Init => SchemaInv /\ RunsInItsSchema
  BY InitFacts
<1>2. TypeOK /\ Placed /\ SchemaInv /\ RunsInItsSchema /\ [Next]_vars
        => SchemaInv' /\ RunsInItsSchema'
  BY SchemaStep
<1> QED
  BY <1>1, <1>2, TypeCorrect, PTL DEF Spec

(* enforceReadOnly: on a read_only datasource no statement runs for writing, *)
(* on any connection of the pool or of a transaction, whatever ran before.   *)
THEOREM ReadOnlyIsEnforced == Spec => []WritesAreRefused
<1>1. Init => ReadOnlyInv /\ WritesAreRefused
  BY InitFacts
<1>2. TypeOK /\ Placed /\ ReadOnlyInv /\ WritesAreRefused /\ [Next]_vars
        => ReadOnlyInv' /\ WritesAreRefused'
  BY ReadOnlyStep
<1> QED
  BY <1>1, <1>2, TypeCorrect, PTL DEF Spec

(* readWarnings: an answer read for one statement is never reported for      *)
(* another, however the pool hands its connection round.                     *)
THEOREM AnswersAreReportedOnce == Spec => []StaleWarningsAreNotRepeated
<1>1. Init => AnswerInv /\ StaleWarningsAreNotRepeated
  BY InitFacts
<1>2. TypeOK /\ Placed /\ AnswerInv /\ StaleWarningsAreNotRepeated /\ [Next]_vars
        => AnswerInv' /\ StaleWarningsAreNotRepeated'
  BY AnswerStep
<1> QED
  BY <1>1, <1>2, TypeCorrect, PTL DEF Spec
=============================================================================
