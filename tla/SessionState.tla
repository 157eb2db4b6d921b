---------------------------- MODULE SessionState ----------------------------
(***************************************************************************)
(* What a pooled connection remembers between two statements: the schema   *)
(* USE left it in, the answer SHOW WARNINGS gives, and whether the session *)
(* takes writes.  Stream.run has to leave none of the three to chance,     *)
(* since the pool hands connections round (db/conn.go, db/stream.go).      *)
(*                                                                         *)
(* Who may hold which connection is Conn's subject; here a statement has   *)
(* one connection from Acquire to Release.                                 *)
(***************************************************************************)
EXTENDS Naturals

CONSTANTS
  Streams,      \* statements in flight (a slot is reused)
  Conns,        \* connections of the pool
  Schemas,      \* schemas of the server
  Home,         \* the datasource's own schema
  Warnings,     \* distinct answers of SHOW WARNINGS
  ReadOnly,     \* the datasource is read_only
  None

ASSUME HomeIsASchema ==
  /\ Home \in Schemas /\ None \notin Schemas \cup Streams \cup Warnings \cup Conns
  /\ {"read", "unread"} \cap (Streams \cup {None}) = {}
ASSUME ReadOnlyIsBoolean == ReadOnly \in BOOLEAN

VARIABLES
  schema,    \* server: the schema a connection is in
  strayed,   \* observed: a USE the user typed put it there
  area,      \* server: what SHOW WARNINGS answers on it, and since when
  writable,  \* server: the session takes writes
  lastRead,  \* what SHOW WARNINGS answered the last time it was asked
  tx,        \* the connection pinned by an open transaction
  selected,  \* App.selectedSchema, None before the first choice
  schemaEverSwitched,
  lastWarnings, \* Conn.lastWarnings
  pc, at,    \* how far Stream.run is, and its connection
  asked,     \* Options.Schema
  ran,       \* observed: where the server ran the statement, and if for writing
  reported,  \* Stream.warnings
  dropped    \* the answer staleWarnings suppressed

serverVars == <<schema, strayed, area, writable, lastRead>>
connVars   == <<tx, schemaEverSwitched, lastWarnings>>
streamVars == <<pc, at, asked, ran, reported, dropped>>
vars == <<serverVars, connVars, selected, streamVars>>

\* Whose answer a connection keeps: that of a statement of this moment, of an
\* earlier one whose answer was read, or of one nobody asked about.
Nothing == [what |-> None, by |-> None]
Answers == {Nothing} \cup [what : Warnings, by : Streams \cup {"read", "unread"}]
NotRun  == [schema |-> None, strayed |-> FALSE, writes |-> FALSE]

TypeOK ==
  /\ schema \in [Conns -> Schemas] /\ area \in [Conns -> Answers]
  /\ writable \in [Conns -> BOOLEAN] /\ strayed \in [Conns -> BOOLEAN]
  /\ lastRead \in [Conns -> Warnings \cup {None}] /\ lastWarnings \in [Conns -> Warnings \cup {None}]
  /\ tx \in Conns \cup {None} /\ selected \in Schemas \cup {None}
  /\ schemaEverSwitched \in BOOLEAN
  /\ pc \in [Streams -> {"idle", "sent", "ready", "switched", "done", "warned"}]
  /\ at \in [Streams -> Conns \cup {None}]
  /\ asked \in [Streams -> Schemas \cup {None}]
  /\ ran \in [Streams -> [schema : Schemas \cup {None}, strayed : BOOLEAN, writes : BOOLEAN]]
  /\ reported \in [Streams -> Answers] /\ dropped \in [Streams -> Answers]

Init ==
  /\ schema = [c \in Conns |-> Home] /\ area = [c \in Conns |-> Nothing]
  /\ writable = [c \in Conns |-> TRUE] /\ strayed = [c \in Conns |-> FALSE]
  /\ lastRead = [c \in Conns |-> None] /\ lastWarnings = [c \in Conns |-> None]
  /\ tx = None /\ selected = None /\ schemaEverSwitched = FALSE
  /\ pc = [s \in Streams |-> "idle"] /\ at = [s \in Streams |-> None]
  /\ asked = [s \in Streams |-> None] /\ ran = [s \in Streams |-> NotRun]
  /\ reported = [s \in Streams |-> Nothing] /\ dropped = [s \in Streams |-> Nothing]

Held(c) == \E s \in Streams : at[s] = c

-----------------------------------------------------------------------------
\* useSchema, and a schema opened in the tree: there is no way back to none.
Select(x) ==
  /\ selected' = x
  /\ UNCHANGED <<serverVars, connVars, streamVars>>

EnforceAtFirstUse(c) ==
  writable' = [writable EXCEPT ![c] = @ /\ ~(ReadOnly /\ lastRead[c] = None)]
\* enforceReadOnly: SET SESSION TRANSACTION READ ONLY, and the server's word
\* for it, on every connection a statement or a transaction is given.
EnforceReadOnly(c) == writable' = [writable EXCEPT ![c] = @ /\ ~ReadOnly]

\* Conn.Query: the schema is the one of this moment; run has yet to start.
Query(s) ==
  /\ pc[s] = "idle"
  /\ pc' = [pc EXCEPT ![s] = "sent"]
  /\ asked' = [asked EXCEPT ![s] = selected]
  /\ UNCHANGED <<serverVars, connVars, selected, at, ran, reported, dropped>>

\* acquire: the pinned connection as it is, or one of the pool made read-only.
Acquire(s, c) ==
  /\ pc[s] = "sent" /\ ~Held(c)
  /\ \/ tx = c /\ UNCHANGED writable
     \/ tx = None /\ EnforceReadOnly(c)
  /\ pc' = [pc EXCEPT ![s] = "ready"] /\ at' = [at EXCEPT ![s] = c]
  /\ UNCHANGED <<schema, strayed, area, lastRead, connVars, selected, asked, ran, reported, dropped>>

SchemaAsked(s) == asked[s]
\* schemaFor: what was asked for, or the datasource's own schema once anybody
\* has switched; None when no USE is sent.
SchemaFor(s) ==
  IF asked[s] = None /\ schemaEverSwitched THEN Home ELSE asked[s]

Switch(s) ==
  /\ pc[s] = "ready"
  /\ schemaEverSwitched' = (schemaEverSwitched \/ asked[s] # None)
  /\ schema' = [schema EXCEPT ![at[s]] = IF SchemaFor(s) = None THEN @ ELSE SchemaFor(s)]
  /\ strayed' = [strayed EXCEPT ![at[s]] = @ /\ SchemaFor(s) = None]
  /\ pc' = [pc EXCEPT ![s] = "switched"]
  /\ UNCHANGED <<area, writable, lastRead, tx, lastWarnings, selected, at, asked, ran,
                 reported, dropped>>

\* What the statement does to its session besides its work: the USE somebody
\* typed, which nothing here takes note of, or SET SESSION TRANSACTION READ WRITE.
SessionEffects(c) ==
  /\ \/ UNCHANGED <<schema, strayed>>
     \/ /\ \E x \in Schemas : schema' = [schema EXCEPT ![c] = x]
        /\ strayed' = [strayed EXCEPT ![c] = TRUE]
  /\ UNCHANGED writable \/ writable' = [writable EXCEPT ![c] = TRUE]

\* The server runs it.  It raises something, or nothing, and then an older
\* answer is cleared or kept.  A transaction was begun READ ONLY if need be.
Execute(s) ==
  /\ pc[s] = "switched"
  /\ LET c == at[s]
     IN /\ ran' = [ran EXCEPT ![s] =
                     [schema |-> schema[c], strayed |-> strayed[c],
                      writes |-> writable[c] /\ ~(ReadOnly /\ tx = c)]]
        /\ \/ \E w \in Warnings : area' = [area EXCEPT ![c] = [what |-> w, by |-> s]]
           \/ area' = [area EXCEPT ![c] = Nothing]
           \/ UNCHANGED area
        /\ SessionEffects(c)
  /\ pc' = [pc EXCEPT ![s] = "done"]
  /\ UNCHANGED <<lastRead, connVars, selected, at, asked, reported, dropped>>

StaleOnFirst(c, w) == LET d == CHOOSE d \in Conns : TRUE IN c = d /\ lastWarnings[d] = w
\* staleWarnings: the answer it remembers of this connection.
Stale(c, w) == lastWarnings[c] = w

\* An empty answer returns before staleWarnings is told of it.
Remember(c, w) == lastWarnings' = [lastWarnings EXCEPT ![c] = IF w = None THEN @ ELSE w]

\* readWarnings, on the connection that ran the statement.
ReadWarnings(s) ==
  /\ pc[s] = "done"
  /\ LET found == area[at[s]]
     IN /\ IF found # Nothing /\ Stale(at[s], found.what)
           THEN dropped' = [dropped EXCEPT ![s] = found] /\ UNCHANGED reported
           ELSE reported' = [reported EXCEPT ![s] = found] /\ UNCHANGED dropped
        /\ Remember(at[s], found.what)
  /\ pc' = [pc EXCEPT ![s] = "warned"]
  /\ UNCHANGED <<serverVars, tx, schemaEverSwitched, selected, at, asked, ran>>

\* The statement is over: a failed or cancelled one at any point, without its
\* warnings having been read.  From now on its answer is an earlier one's.
Release(s) ==
  /\ pc[s] # "idle"
  /\ LET c == at[s]
         aged == IF pc[s] = "warned" THEN "read" ELSE "unread"
     IN IF c = None THEN UNCHANGED <<area, lastRead>> ELSE
        /\ area' = [area EXCEPT ![c] =
                      IF @.by = s \/ (@.by = "unread" /\ aged = "read") THEN [what |-> @.what, by |-> aged] ELSE @]
        /\ lastRead' = [lastRead EXCEPT ![c] = IF aged = "read" THEN area[c].what ELSE @]
  /\ pc' = [pc EXCEPT ![s] = "idle"] /\ at' = [at EXCEPT ![s] = None]
  /\ asked' = [asked EXCEPT ![s] = None] /\ ran' = [ran EXCEPT ![s] = NotRun]
  /\ reported' = [reported EXCEPT ![s] = Nothing] /\ dropped' = [dropped EXCEPT ![s] = Nothing]
  /\ UNCHANGED <<schema, strayed, writable, connVars, selected>>

\* Begin pins a connection it has made read-only; the end gives it back.
Begin(c) ==
  /\ tx = None /\ ~Held(c)
  /\ EnforceReadOnly(c)
  /\ tx' = c
  /\ UNCHANGED <<schema, strayed, area, lastRead, schemaEverSwitched, lastWarnings, selected, streamVars>>

EndTransaction ==
  /\ tx # None /\ ~Held(tx)
  /\ tx' = None
  /\ UNCHANGED <<serverVars, schemaEverSwitched, lastWarnings, selected, streamVars>>

Next ==
  \/ \E x \in Schemas : Select(x)
  \/ \E s \in Streams : \/ \E c \in Conns : Acquire(s, c)
                        \/ Query(s) \/ Switch(s) \/ Execute(s) \/ ReadWarnings(s) \/ Release(s)
  \/ \E c \in Conns : Begin(c)
  \/ EndTransaction

Spec == Init /\ [][Next]_vars

-----------------------------------------------------------------------------
(* Properties *)

Wanted(s) == IF asked[s] = None THEN Home ELSE asked[s]

(* A statement runs in the schema the interface had chosen when it was sent, *)
(* or in the datasource's own, whatever schema another statement was sent to *)
(* on its connection.  Only where a USE was typed does a statement sent to   *)
(* none find itself elsewhere (schemaFor's comment).                         *)
RunsInItsSchema ==
  \A s \in Streams : ran[s] # NotRun =>
    ran[s].schema = Wanted(s) \/ (asked[s] = None /\ ran[s].strayed)

(* On a read_only datasource no statement runs where the server would take a *)
(* write, although one before it may have made its session writable again.   *)
WritesAreRefused == ReadOnly => \A s \in Streams : ~ran[s].writes

(* An answer already read for an earlier statement is not reported again for *)
(* one that raised nothing (the comment in readWarnings).                    *)
StaleWarningsAreNotRepeated == \A s \in Streams : reported[s].by # "read"

-----------------------------------------------------------------------------
(* What the code says of itself and does not keep: README, Disagreements.    *)

(* schemaEverSwitched's comment: "until that happens no pooled connection    *)
(* can be pointing anywhere but the datasource's own schema".                *)
PooledAtHome == ~schemaEverSwitched => \A c \in Conns : schema[c] = Home

(* schemaFor's comment, of a USE somebody typed too.                         *)
NeverRunsElsewhere == \A s \in Streams : ran[s] # NotRun => ran[s].schema = Wanted(s)

(* staleWarnings' comment: what it drops is "the same answer SHOW WARNINGS   *)
(* gave the last time it was asked" on that connection.                      *)
OnlyRepetitionsAreDropped ==
  \A s \in Streams : dropped[s] # Nothing => dropped[s].what = lastRead[at[s]]

(* What is reported for a statement is what the statement raised.            *)
WarningsAreItsOwn ==
  \A s \in Streams : reported[s] # Nothing => reported[s].by = s
=============================================================================
