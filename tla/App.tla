-------------------------------- MODULE App ---------------------------------
(***************************************************************************)
(* ui.App: which session the interface looks at, the statement and the     *)
(* "run everything" in flight on it, the transaction marker, and what is   *)
(* on screen, while connections are being made in the background.          *)
(*                                                                         *)
(* Every handler runs on the interface's goroutine and is one step, except *)
(* that advanceBatch takes one step for each statement it considers (ui =  *)
(* "advancing" keeps every other handler out meanwhile).  Three things run *)
(* beside it: consume, which appends rows to the buffer as they arrive;    *)
(* the connection attempts; and the Close of a session that was replaced,  *)
(* which waits for nothing here and which nothing here waits for.          *)
(***************************************************************************)
EXTENDS Naturals, Sequences, FiniteSets

CONSTANTS
  Sessions,     \* bound: the session.Session objects made in one run
  DataSources,  \* datasources of the configuration
  Slots,        \* connection attempts that can be under way at once
  Scripts,      \* bound: what the editor may hold, sequences over Kinds
  None

Kinds == {"stmt", "begin", "commit", "rollback"}

ASSUME NoneIsNothing == None \notin Sessions \cup DataSources
ASSUME ScriptsAreStatements == Scripts \subseteq Seq(Kinds) \ {<<>>}

VARIABLES
  ui,           \* what the interface's goroutine is in the middle of
  page,         \* the front page, and what the dialog on it is about
  sess,         \* App.sess and App.conn
  life,         \* whether each session is still to be made, open or let go of
  serves,       \* the datasource of each session
  txn,          \* of this session: "none", "open", or "gone": pinned, but
                \* the server ended it
  running,      \* App.running: the session the statement in flight is on
  batch,        \* App.batch
  marker,       \* status.inTransaction
  sessionLost,  \* App.sessionLost
  schema,       \* the datasource App.selectedSchema was chosen on
  tables,       \* the datasource the tables tab lists
  buf,          \* the datasources whose rows the buffer holds
  history,      \* the newest entry: the datasource named and the one it ran on
  connects,     \* the connection attempts
  late,         \* observed: the transaction on sess was begun while connecting
  overtaken     \* observed: what a change of datasource found unfinished

sessVars   == <<sess, life, serves, txn>>
workVars   == <<running, batch, history>>
screenVars == <<marker, sessionLost, schema, tables, buf>>
seenVars   == <<late, overtaken>>
vars == <<ui, page, sessVars, workVars, screenVars, connects, seenVars>>

Unfinished == {"statement", "schema box", "reconnection"}

NoBatch == [rest |-> <<>>, on |-> None, failed |-> FALSE]
NoConnect == [kind |-> "none", ds |-> None, asked |-> FALSE]
MainPage == [name |-> "main", about |-> None]

TypeOK ==
  /\ ui \in {"ready", "advancing", "stopped"}
  /\ page \in [name : {"main", "switch", "quit", "schema"},
               about : DataSources \cup {None}]
  /\ sess \in Sessions
  /\ life \in [Sessions -> {"free", "open", "closed"}]
  /\ serves \in [Sessions -> DataSources \cup {None}]
  /\ txn \in {"none", "open", "gone"}
  /\ running \in Sessions \cup {None}
  /\ batch \in [rest : Seq(Kinds), on : Sessions \cup {None}, failed : BOOLEAN]
  /\ marker \in BOOLEAN /\ sessionLost \in BOOLEAN
  /\ schema \in DataSources \cup {None}
  /\ tables \in DataSources \cup {None}
  /\ buf \subseteq DataSources
  /\ history \in (DataSources \X DataSources) \cup {None}
  /\ connects \in [Slots -> [kind : {"none", "switch", "reconnect"},
                             ds : DataSources \cup {None}, asked : BOOLEAN]]
  /\ late \in BOOLEAN
  /\ overtaken \subseteq Unfinished

\* New, with the session main opened for it.
Init ==
  /\ ui = "ready" /\ page = MainPage
  /\ sess \in Sessions
  /\ life = [s \in Sessions |-> IF s = sess THEN "open" ELSE "free"]
  /\ \E ds \in DataSources : serves = [s \in Sessions |-> IF s = sess THEN ds ELSE None]
  /\ txn = "none"
  /\ running = None /\ batch = NoBatch
  /\ marker = FALSE /\ sessionLost = FALSE
  /\ schema = None /\ tables = None
  /\ buf = {} /\ history = None
  /\ connects = [t \in Slots |-> NoConnect]
  /\ late = FALSE /\ overtaken = {}

Here == serves[sess]
InTransaction == txn # "none"
Connecting == {t \in Slots : connects[t].kind # "none"}

\* A key reaches the interface: no dialog has the keyboard.
MayAct == ui = "ready" /\ page = MainPage

-----------------------------------------------------------------------------
(* Statements and transactions.  As in Conn, the definitions no action uses *)
(* are plausible mistakes in the definition that follows them.              *)

\* start: the buffer is the new statement's from here on.
Start ==
  /\ running' = sess
  /\ buf' = {}

MarkerReadTooEarly(kind) ==
  /\ InTransaction <=> kind # "begin"
  /\ txn' = IF kind = "begin" THEN "open" ELSE "none"
  /\ marker' = InTransaction
  /\ late' = (kind = "begin" /\ Connecting # {})

\* transactionControl succeeds: the marker follows the connection.
ControlDone(kind) ==
  /\ InTransaction <=> kind # "begin"
  /\ txn' = IF kind = "begin" THEN "open" ELSE "none"
  /\ marker' = (kind = "begin")
  /\ late' = (kind = "begin" /\ Connecting # {})

\* It fails and says so.  A COMMIT or ROLLBACK that fails has let go of the
\* pinned connection all the same.
ControlFails(kind) ==
  /\ txn' = IF kind = "begin" THEN txn ELSE "none"
  /\ late' = (kind = "begin" /\ late)
  /\ UNCHANGED marker

TransactionControl(kind, ok) == IF ok THEN ControlDone(kind) ELSE ControlFails(kind)

\* runStatement, from execute, previewTable, or a script of one statement.
RunOne(kind) ==
  IF kind = "stmt"
  THEN Start /\ UNCHANGED <<txn, marker, late>>
  ELSE (\E ok \in BOOLEAN : TransactionControl(kind, ok)) /\ UNCHANGED <<running, buf>>

Execute(kind) ==
  /\ MayAct /\ running = None
  /\ RunOne(kind)
  /\ UNCHANGED <<ui, page, sess, life, serves, batch, history, sessionLost, schema,
                 tables, connects, overtaken>>

\* A click on the tables tab previews that table.
PreviewTable ==
  /\ MayAct /\ running = None
  /\ tables # None
  /\ Start
  /\ UNCHANGED <<ui, page, sessVars, batch, history, marker, sessionLost, schema,
                 tables, connects, seenVars>>

ExecuteAll(script) ==
  /\ MayAct /\ running = None
  /\ Len(script) > 1
  /\ batch' = [rest |-> script, on |-> sess, failed |-> FALSE]
  /\ ui' = "advancing"
  /\ UNCHANGED <<page, sessVars, running, history, screenVars, connects, seenVars>>

\* advanceBatch considers its next statement.
AdvanceToStatement ==
  /\ ui = "advancing" /\ batch.rest # <<>>
  /\ Head(batch.rest) = "stmt"
  /\ Start
  /\ batch' = [batch EXCEPT !.rest = Tail(@)]
  /\ ui' = "ready"
  /\ UNCHANGED <<page, sessVars, history, marker, sessionLost, schema, tables, connects, seenVars>>

\* It goes on to the next whatever came of it.
AdvanceOverControl ==
  /\ ui = "advancing" /\ batch.rest # <<>>
  /\ Head(batch.rest) # "stmt"
  /\ \E ok \in BOOLEAN :
       /\ TransactionControl(Head(batch.rest), ok)
       /\ batch' = [batch EXCEPT !.rest = Tail(@), !.failed = @ \/ ~ok]
  /\ UNCHANGED <<ui, page, sess, life, serves, running, history, sessionLost, schema,
                 tables, buf, connects, overtaken>>

FinishBatch ==
  /\ ui = "advancing" /\ batch.rest = <<>>
  /\ batch' = NoBatch
  /\ ui' = "ready"
  /\ UNCHANGED <<page, sessVars, running, history, screenVars, connects, seenVars>>

-----------------------------------------------------------------------------
(* consume *)

\* A chunk goes into the buffer from consume's own goroutine.
Rows ==
  /\ ui # "stopped" /\ running # None
  /\ buf' = buf \cup {serves[running]}
  /\ UNCHANGED <<ui, page, sessVars, workVars, marker, sessionLost, schema, tables, connects, seenVars>>

\* What a statement does to the transaction it runs in: nothing, or the server
\* ended it (an implicit commit, a deadlock, a connection closed to cancel).
\* One that lost its connection has lost the transaction with it.
StatementEnds(s, outcome) ==
  \/ s = sess /\ InTransaction /\ txn' = "gone"
  \/ (s # sess \/ ~InTransaction \/ outcome # "lost") /\ UNCHANGED txn

BatchLeftBehind(outcome) == UNCHANGED <<ui, batch>>

\* resumeBatch.
ResumeBatch(outcome) ==
  IF batch.on = None THEN UNCHANGED <<ui, batch>>
  ELSE IF outcome = "ok"
       THEN ui' = "advancing" /\ UNCHANGED batch
       ELSE batch' = NoBatch /\ UNCHANGED ui

\* record names the datasource the interface is on now.
Record == history' = <<Here, serves[running]>>

\* The closure consume queues once the stream is over.  A failure without a
\* number from the server means the session is not to be trusted any more.
Finish(outcome) ==
  /\ ui = "ready" /\ running # None
  /\ running' = None
  /\ StatementEnds(running, outcome)
  /\ Record
  /\ sessionLost' = (sessionLost \/ outcome = "lost")
  /\ ResumeBatch(outcome)
  /\ UNCHANGED <<page, sess, life, serves, marker, schema, tables, buf, connects, seenVars>>

-----------------------------------------------------------------------------
(* Where the interface is: the schema, the datasource, the session *)

\* renderTables: the list comes from the cache of the datasource it is on, if
\* there is anything in it yet.
RenderTables == tables' \in {None, Here}

ShowTables ==
  /\ MayAct
  /\ RenderTables
  /\ UNCHANGED <<ui, page, sessVars, workVars, marker, sessionLost, schema, buf, connects, seenVars>>

\* setSchema; the tables are listed again only while their tab is in front.
SetSchema(ds) ==
  /\ schema' = ds
  /\ RenderTables \/ UNCHANGED tables

\* A schema node of the tree.
SelectSchema ==
  /\ MayAct
  /\ SetSchema(Here)
  /\ UNCHANGED <<ui, page, sessVars, workVars, marker, sessionLost, buf, connects, seenVars>>

\* The box lists the schemas of the datasource it was opened on.
ShowUseSchema ==
  /\ MayAct
  /\ page' = [name |-> "schema", about |-> Here]
  /\ UNCHANGED <<ui, sessVars, workVars, screenVars, connects, seenVars>>

UseSchema ==
  /\ ui = "ready" /\ page.name = "schema"
  /\ SetSchema(page.about)
  /\ page' = MainPage
  /\ UNCHANGED <<ui, sessVars, workVars, marker, sessionLost, buf, connects, seenVars>>

CloseDialog ==
  /\ ui = "ready" /\ page # MainPage
  /\ page' = MainPage
  /\ UNCHANGED <<ui, sessVars, workVars, screenVars, connects, seenVars>>

\* openDataSource and reconnect: a goroutine of its own makes the connection.
Connect(kind, ds, asked) ==
  \E t \in Slots \ Connecting :
    connects' = [connects EXCEPT ![t] = [kind |-> kind, ds |-> ds, asked |-> asked]]

MustAskOnlyIfUndoable == txn = "gone"
MustAsk == InTransaction

MayLeaveFor(ds) == ds # Here /\ running = None

\* The picker's choice.
SwitchTo(ds) ==
  /\ MayAct
  /\ MayLeaveFor(ds)
  /\ IF MustAsk
     THEN page' = [name |-> "switch", about |-> ds] /\ UNCHANGED connects
     ELSE Connect("switch", ds, FALSE) /\ UNCHANGED page
  /\ UNCHANGED <<ui, sessVars, workVars, screenVars, seenVars>>

ConfirmSwitch ==
  /\ ui = "ready" /\ page.name = "switch"
  /\ Connect("switch", page.about, TRUE)
  /\ page' = MainPage
  /\ UNCHANGED <<ui, sessVars, workVars, screenVars, seenVars>>

\* The reload key, on a session believed lost.
Reconnect ==
  /\ MayAct /\ sessionLost
  /\ Connect("reconnect", Here, FALSE)
  /\ UNCHANGED <<ui, page, sessVars, workVars, screenVars, seenVars>>

ConnectFails(t) ==
  /\ ui = "ready" /\ t \in Connecting
  /\ connects' = [connects EXCEPT ![t] = NoConnect]
  /\ UNCHANGED <<ui, page, sessVars, workVars, screenVars, seenVars>>

\* What a session taking over from another datasource's finds unfinished.
Overtakes(t) ==
  IF connects[t].ds = Here THEN {}
  ELSE {u \in Unfinished :
          \/ u = "statement" /\ running # None
          \/ u = "schema box" /\ page.name = "schema"
          \/ u = "reconnection" /\ connects[t].kind = "reconnect"}

OldSessionForgotten(s) == life' = [life EXCEPT ![s] = "open"]
\* The session s takes over; the old one is closed on the side.
LetGo(s) == life' = [life EXCEPT ![s] = "open", ![sess] = "closed"]

Replace(t, s) ==
  /\ ui = "ready" /\ t \in Connecting
  /\ life[s] = "free"
  /\ sess' = s
  /\ LetGo(s)
  /\ serves' = [serves EXCEPT ![s] = connects[t].ds]
  /\ txn' = "none"
  /\ connects' = [connects EXCEPT ![t] = NoConnect]
  /\ late' = FALSE
  /\ overtaken' = overtaken \cup Overtakes(t)

RowsKept == UNCHANGED buf
BufReset == buf' = {}
SchemaKept == UNCHANGED schema
SchemaReset == schema' = None

Adopt(t, s) ==
  /\ connects[t].kind = "switch"
  /\ Replace(t, s)
  /\ BufReset
  /\ SchemaReset
  /\ UNCHANGED <<ui, page, workVars, marker, sessionLost, tables>>

AdoptReconnected(t, s) ==
  /\ connects[t].kind = "reconnect"
  /\ Replace(t, s)
  /\ sessionLost' = FALSE
  /\ marker' = FALSE
  /\ UNCHANGED <<ui, page, workVars, schema, tables, buf>>

Quit ==
  /\ MayAct
  /\ IF InTransaction
     THEN page' = [name |-> "quit", about |-> None] /\ UNCHANGED ui
     ELSE ui' = "stopped" /\ UNCHANGED page
  /\ UNCHANGED <<sessVars, workVars, screenVars, connects, seenVars>>

ConfirmQuit ==
  /\ ui = "ready" /\ page.name = "quit"
  /\ ui' = "stopped" /\ page' = MainPage
  /\ UNCHANGED <<sessVars, workVars, screenVars, connects, seenVars>>

-----------------------------------------------------------------------------
KeyStep ==
  \/ \E kind \in Kinds : Execute(kind)
  \/ \E script \in Scripts : ExecuteAll(script)
  \/ PreviewTable \/ ShowTables \/ SelectSchema \/ ShowUseSchema
  \/ \E ds \in DataSources : SwitchTo(ds)
  \/ Reconnect \/ Quit

DialogStep == UseSchema \/ ConfirmSwitch \/ ConfirmQuit \/ CloseDialog
BatchStep == AdvanceToStatement \/ AdvanceOverControl \/ FinishBatch
StatementStep ==
  Rows \/ \E outcome \in {"ok", "refused", "cancelled", "lost"} : Finish(outcome)
ConnectStep ==
  \E t \in Slots :
    ConnectFails(t) \/ \E s \in Sessions : Adopt(t, s) \/ AdoptReconnected(t, s)

Next ==
  \/ KeyStep \/ DialogStep \/ BatchStep \/ StatementStep \/ ConnectStep

Spec == Init /\ [][Next]_vars

-----------------------------------------------------------------------------
(* Properties *)

\* Whichever of two connections under way ends first, and whatever runs
\* meanwhile: of the sessions made only the one the interface looks at is
\* open, and every one it replaced has been closed, once.
OneSessionOpen == \A s \in Sessions : life[s] = "open" <=> s = sess

\* A transaction the interface opened is never without its marker: nobody
\* can believe the work is saved while it is pinned and undoable.
MarkerCoversTransaction == InTransaction => marker

\* A batch always has somebody to resume it: the statement in flight, or the
\* interface considering the next one.
BatchIsDriven ==
  /\ batch.on # None => running # None \/ ui = "advancing"
  /\ ui = "advancing" => batch.on # None /\ running = None

\* The rows on screen belong to the datasource the interface is on.
RowsBelongToDataSource == buf \subseteq {Here}

\* A schema is chosen on the datasource whose statements will use it.
SchemaBelongsToDataSource == schema \in {None, Here}

\* History says where a statement ran.
HistoryNamesWhereItRan == history # None => history[1] = history[2]

\* Rows, schema and history are those of the datasource they are shown under,
\* whatever is started, chosen and run while connections are being made,
\* unless the change of datasource itself found something unfinished: a
\* statement in flight (its rows and its history entry come after), the box
\* with the old datasource's schemas, or that it is a reconnection that ends
\* after a switch (it keeps what is on screen).
ScreenTellsTheTruth ==
  /\ overtaken \subseteq {"schema box"} => RowsBelongToDataSource
  /\ overtaken \subseteq {"statement"} => SchemaBelongsToDataSource
  /\ "statement" \notin overtaken => HistoryNamesWhereItRan

\* A switch rolls a transaction back only if the user agreed to that, or began
\* it while a connection was being made: never one that was there before.
SwitchAsksFirst ==
  [][\A t \in Slots :
       /\ connects[t].kind = "switch" /\ connects'[t] = NoConnect
       /\ sess' # sess /\ InTransaction
       => connects[t].asked \/ late]_vars

\* The invariants behind the two.
OnlyLateOnesAreUnasked ==
  \A t \in Slots :
    connects[t].kind = "switch" /\ InTransaction => connects[t].asked \/ late

RunsHere ==
  /\ "statement" \notin overtaken /\ running # None => serves[running] = Here
  /\ "schema box" \notin overtaken /\ page.name = "schema" => page.about = Here

\* A session, an attempt to make one and a dialog about one have a datasource.
Located ==
  /\ \A s \in Sessions : life[s] # "free" => serves[s] # None
  /\ running # None => life[running] # "free"
  /\ \A t \in Connecting : connects[t].ds # None
  /\ page.name \in {"switch", "schema"} => page.about # None

\* The inductive invariant.
AppInv ==
  /\ OneSessionOpen
  /\ Located
  /\ MarkerCoversTransaction
  /\ BatchIsDriven
  /\ ScreenTellsTheTruth
  /\ OnlyLateOnesAreUnasked
  /\ RunsHere

\* A batch stops at the first of its statements that failed: none runs after.
BatchStopsAtFailure == batch.failed => running = None

-----------------------------------------------------------------------------
(* What a reader of the comments would expect besides, and the code does not *)
(* keep.                                                                     *)

\* All of a batch runs in the session it was started in.
BatchStaysOnSession ==
  batch.on # None /\ running # None => running = batch.on

\* RowsBelongToDataSource, SchemaBelongsToDataSource and HistoryNamesWhereItRan
\* without the conditions of ScreenTellsTheTruth, and:

\* A switch rolls no transaction back without having asked about it.
SwitchAlwaysAsks ==
  [][\A t \in Slots :
       /\ connects[t].kind = "switch" /\ connects'[t] = NoConnect
       /\ sess' # sess /\ InTransaction
       => connects[t].asked]_vars

\* The marker is only shown while a connection is pinned.
MarkerIsTrue == marker => InTransaction

\* The tables tab offers the tables of the datasource a preview would run on.
TablesBelongToDataSource == tables \in {None, Here}

\* Reconnecting discards no transaction that is still alive.
ReconnectDiscardsNothing ==
  [][\A t \in Slots :
       connects[t].kind = "reconnect" /\ sess' # sess /\ connects'[t] = NoConnect
       => txn # "open"]_vars
=============================================================================
