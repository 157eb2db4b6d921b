# datavase in TLA+

datavase (`dv`) is a terminal client for MySQL and MariaDB. This directory
models the parts of it that are concurrent, that fail half way, or that keep
two copies of one fact, checks them with TLC on small instances, and proves
the most important invariants with TLAPS for every value of the constants.

`PROJECT.json` lists the runs, the lines of source each definition stands for,
the hazards and which property answers each, and the findings.

## The system

| Component | State it keeps | Operations | Talks to |
|---|---|---|---|
| **Session connections** `internal/db` (`Conn`, `Stream`) | a pool, the connection pinned by a transaction, the control connection, each statement's connection, id, context and outcome | Open, Query, Cancel, Close of a stream, Begin, Commit, Rollback, WithControl, Close | database/sql and the driver; the server; called from the interface, the catalog and `dv query` |
| **Interface session handling** `internal/ui/app.go`, `datasource.go`, `reconnect.go` | the session looked at, the statement and batch in flight, transaction marker, "session lost", chosen schema, buffer | run, run all, cancel, switch, reconnect, choose a schema, quit | Conn, Session, history, tree, cache; goroutines hand results back through `QueueUpdateDraw` |
| **Schema tree and tables tab** `internal/ui/tree.go`, `tables.go` | tree nodes and which are loaded, the list of tables | loadSchemas, expand, reload, preview | catalog (control connection), cache |
| **Catalog and cache** `internal/catalog` | snapshot per datasource in SQLite | Schemas, Tables, Columns, FetchSnapshot, Save, lookups | Conn.WithControl |
| **Datasource list** `internal/ui/dspicker.go`, `dsform.go`, `internal/config` | the configuration in memory and on disk, the keychain | add, edit, rename, delete, test, connect | config.Save, secret.Store, whoever connects |
| **Session** `internal/session` and **Tunnel** `internal/tunnel` | listener, SSH client, forwards, first forwarding error | OpenWith, Close, Err | ssh-agent, bastion; Conn dials its local end |
| **Headless query** `internal/headless`, `internal/cli/query.go` | one stream, a timer, the written lines | admit, run | Conn.Query, Stream.Cancel |
| **Result** `internal/result`, `internal/ui/grid.go` | buffered rows, sort column and the order built for it | Append, sort, map grid row to buffer row | filled by consume, read while drawing |
| **SQL** `internal/sqlparse`, `sqlformat`, `complete`, `match` | none (pure) | split, classify, limit, complete, format, rank | editor, batch, headless |
| **History, visits** `internal/history`, `visits` | SQLite store, a counter | Add, Search, Record | App.record |
| **Search and completion prompts** `internal/ui/search*.go`, `completion.go` | term, items, position | type, accept, next, previous | cache, history, editor |
| **Keymap, panes, mouse, status, export, clipboard** | drawing state | look up, draw, copy, save | App |
| **Command line** `internal/cli`, `cmd/dv`, **secrets, TLS, diagnosis** | none | flags, wiring, classification | everything above |

### What is hard about it

* *Two sockets per statement.* KILL QUERY goes out on a second connection and
  names the first by id; by the time it arrives the id may belong to another
  statement, or the statement may not have arrived yet.
* *One pinned connection.* Begin, Commit, Rollback, Close and statements all
  want it; the lock is not held across round trips, so ownership is a protocol.
* *Results come back late.* Connections, statements and metadata reads run in
  goroutines and hand a closure to the interface, which may have moved on.
* *Two copies of one fact.* The transaction marker, "session lost", the chosen
  schema, the tables tab, the configuration in memory: each is a copy of
  something that changes elsewhere.
* *Several stores, no transaction.* File, keychain, memory: one may fail after
  another has succeeded.

## Modules

| Module | Models | Checked by |
|---|---|---|
| `Conn` | `db.Conn` and `db.Stream`: pool, pinned transaction, control connection, cancellation, Close | `MCConn`, four configurations |
| `ConnProofs` | the theorems about `Conn` | tlapm |
| `StreamContract` | what a statement promises to whoever sent it, with no word of connections: `Conn` implements it | `conn_liveness` |
| `App` | `ui.App`: statement and batch in flight, transaction control, switch, reconnect, what stays on screen | `MCApp` |
| `AppProofs` | the theorems about `App` | tlapm |
| `DataSources` | `dsPicker`, `config.Save`, the keychain, and who points into `config.DataSources` | `MCDataSources` |
| `DataSourcesProofs` | the theorems about `DataSources` | tlapm |
| `SchemaTree` | the tree's loads, `catalog.FetchSnapshot` and `Cache.Save`, completion's datasource and schema | `MCSchemaTree` |
| `SchemaTreeProofs` | the theorems about `SchemaTree` | tlapm |
| `SessionState` | what a pooled connection keeps from one statement to the next: schema, warnings, read-only | `MCSessionState` |
| `SessionStateProofs` | the theorems about `SessionState` | tlapm |
| `Query` | `dv query`: `session.OpenWith`, `tunnel`, `headless.Run`, `Stream`, and the way out | `MCQuery` |
| `QueryProofs` | the theorems about `Query` | tlapm |
| `Ordering` | `result.Compare` | `MCResults` |
| `Results` (extends `Ordering`) | `result.Buffer`, the grid's order and selection, copy, save, search and the row view | `MCResults` |
| `ResultsProofs` | the theorems about `Ordering` and `Results` | tlapm |
| `Sql` | tokens, statements, kinds, the automatic LIMIT, what `dv query` admits | `MCSqlText` |
| `Format` (extends `Sql`) | `sqlformat`: the layout, its self-check, selections, offsets | `MCSqlText` |
| `SqlText` (extends `Format`) | every short text, typed, and what must hold of it | `MCSqlText` |
| `Editor` (extends `Format`) | motions and edits of words and lines | `MCCompletion` |
| `Completion` (extends `Editor`) | the context of a caret, candidates, the menu, and the editor under it | `MCCompletion` |
| `TextProofs` (extends `SqlText` and `Completion`) | the theorems about the reading of texts and about the menu | tlapm |

In each module the definitions no action uses (`TakenWhileBusy`, `RowsKept`,
...) are plausible mistakes in the definition that follows them. Putting one in
place of the definition must break the property it is paired with in
`PROJECT.json`; that is how each property is shown to be about the code.

### Conn and the code

One action is one stretch of `Stream.run`, `Stream.Cancel`, `Conn.Begin`,
`endTransaction` or `Conn.Close` between two points where another goroutine can
be seen: a lock, a channel, a round trip. `pc[s]` is how far `run` is, `at[s]`
the connection in its hands, `connID`, `ctxDone`, `err` the fields of Stream.
`tx` and `txBusy` are Conn's; `txMu` is a step's atomicity, except where Begin
rolls back the transaction of the race it lost while it holds it (`undo`).
`control` is who holds `controlMu`.

The pool and the driver are written down from how conn.go and stream.go use
them: a free connection is preferred to dialling, at most MaxQueryConns are
open with the control connection counted, Close of a connection returns it
unless it is broken or the pool is closed, a context that ends while a
statement runs makes the driver close the socket. The server executes what
arrives on a connection, KILL QUERY interrupts what it is executing at that
moment and nothing else, and a session whose client is gone is rolled back
(`Reap`). A statement and a KILL travel on two sockets and arrive in either order:
`Kill` asks nothing of what is on the wire. A COMMIT or ROLLBACK that comes back with
an error on a connection that still works may have ended its transaction or not; one
it did not end is "left" in `serverTx`, on a connection that goes to the pool, and
that goes for the ROLLBACK of a Begin that lost its race, whose error conn.go:290
ignores.

Not in the model: the content of rows and their batching (`Query` has it), the
schema, the warnings and the read-only setting a connection carries from one
statement to the next (`SessionState` has them), and `Conn.Exec` and `Probe`,
which only the tests call. A KILL that hits the statement of a
Begin or a Commit is the same as that statement failing, which may always
happen. Connection ids are never used twice by a server; the model uses one
again (`Recycle`) only when nothing refers to it.

`StreamContract` is the abstract specification: a statement is asked for, sent at
most once and never after it was let go, answered or not, and over with an outcome
that agrees with the answer; Cancel may say that it has stopped only when the
server is not executing it at that moment: a statement still on its way is not, and
will be. `Contract` in `Conn` is the instance
that reads these five variables off the connection's own, and `KeepsTheContract`
says that every step of `Conn` is a step of the contract or none.

### App and the code

Handlers run one at a time on the interface's goroutine, so each is one action;
`advanceBatch` alone takes a step for each statement it considers. `consume`
is `Rows` and `Finish` (the closure it queues); a connection attempt is a slot
of `connects`, from `openDataSource` or `reconnect` to the closure that adopts
the session or shows the failure; two can be under way at once, and every key is
taken meanwhile. A session that was replaced is let go of whatever runs on it
(`LetGo`): its Close waits in a goroutine of its own, and its statement's rows and its
closure arrive after it. The picker is its choice (`SwitchTo`): what
it checks, it checks then. `txn` is "gone" while Conn.tx is set and the server
no longer has the transaction. Cancelling changes nothing the interface keeps
(the outcome of the statement is what matters here; `Conn` has the rest).

`batch.on`, `batch.failed`, `connects[t].asked`, `late`, `overtaken` and the second
half of each history entry are history variables: no guard reads them, and
what they remember is what the properties are about.

datasource.go:15 says that "The interface is unresponsive while it waits". It is not:
the attempt runs in a goroutine and keys are still taken. So what the comments
promise of a switch (the rows on screen are of the datasource shown, no transaction is
rolled back unasked) holds only of what was there when the switch was asked for, and
the two properties say that and no more. `late` is that the transaction there is was
begun while a connection was being made. `overtaken` collects what a change of
datasource found unfinished: a statement in flight, the box with the schemas of the
datasource left, and that the change was a reconnection that ended after a switch.
`ScreenTellsTheTruth` names, for rows, schema and history, which of the three can make
each wrong, so any other way is a violation; its three parts without the conditions, and
`SwitchAlwaysAsks`, are under Disagreements.

### DataSources and the code

`config.DataSources` is a Go slice, and the items of the list, the open session
(`Conn.ds`) and a connection attempt hold pointers into its array. `cfg` is
therefore an array and how much of it is in use, and a pointer is a position in
that array (`at`), or, once a failed save has made a copy the slice, the value
in the array left behind: nobody writes to that one again. `Overwritten` is what
remove's filter and commit's assignment do in place.

`remove` and `commit` are cut where they leave the process: the save, then each
call to the keychain (`job` is what is left), because the program can be killed
there (`Restart`, possible in every state) and any of the calls can fail. The
environment's passwords come before the keychain's, as in `secret.WithEnv`.
`opened`, `owed`, `job.foretold` and `misread` are history variables. `misread` is that
the keychain failed to read an entry a rename was to carry over: dspicker.go:283 takes
any error for absence and goes on to delete the old entry, so `RenameKeepsPassword` and
`ProbeForetells` are said where it did not happen, and `OldEntryOutlivesItsCopy`, which
asks for it always, is under Disagreements.

Not in the model: the fields of the form other than name and password, its Test
button's own connection, and a machine without a keychain, where the environment
alone answers. An attempt to connect is one at a time here; several are in `App`.

### SchemaTree and the code

A read has three moments: the handler that spawns its goroutine, the goroutine
looking at `App.conn` (`Start`), and the closure the interface runs when it has
ended (`ShowSchemas`, `ShowTables`), or `Save` for a snapshot. Between any two of
them the tree may be reloaded or another session adopted. What was read is
identified with the datasource it was read from. The nodes of schemas stand for
the nodes of tables as well: both are marked, then read, then filled.

The session may change in three ways: a switch (`Switch`), which may be asked for
twice and so lead to the datasource it is already on; and the reconnection of
reconnect.go (`AdoptReconnected`), of any datasource visited, which comes back whenever
it does, and rebuilds the tree and not the completion engine. A datasource may be given
another name while the interface is on it (`Rename`). `CompletionAgrees` says that the
engine never stops agreeing with the interface by any step but a rename and a
reconnection to another datasource than the one looked at, and about the schema never.

`late` is a history variable, of each read, node and of the root's text: it was on its
way when a reload or another session cleared the tree it was meant for.
`TreeTellsTheTruth` is said of everything else in the tree, also while late reads come
in between. A run of
the program begins with whatever an earlier one, ended anywhere, left in the
cache. Not in the model: the message a failed read leaves in the status bar, the
expansion of nodes, and the tables tab, which `App` has.

### SessionState and the code

A statement is `Query`, then the stretches of Stream.run that touch the session:
`Acquire` (with enforceReadOnly), `Switch` (USE), `Execute`, `ReadWarnings`,
`Release`. Who may hold a connection is `Conn`'s subject, so here a connection in
hand is simply in nobody else's. `area` is what the server would answer to SHOW
WARNINGS and which statement raised it; a statement that raises nothing clears it or
not, as the servers differ (`Nothing`, `SessionEffects`). A statement may also make
its session writable again, which is what `enforceReadOnly` at every use is for, and
may be a USE that the user typed, at any time. The code does not note that one
(stream.go:347): until a schema is chosen in the interface, a later statement runs where
it left the connection. `strayed` is a history variable, that a typed USE put the
connection where it is, and `RunsInItsSchema` says that a statement runs elsewhere than
it should for that reason only, and only where no schema was asked for.

### Query and the code

`main` walks cli.query, session.OpenWith, headless.Run and Session.Close; beside it
run Stream.run (`run`), up to two calls of Cancel (`cancel`), the timer, and the
tunnel's accept loop and forwards (`accepting`, `link`). `events` is the channel of
capacity one with the drain of a cancelled stream. Of the two connections the driver
dials each has its forward when there is a bastion. An unbounded result is one longer
than the cap. The pool is not in it: there is one statement.

### Results and the code

consume appends a batch from its own goroutine (`Arrivals`), so it can come between
any two reads of the buffer that a handler makes; a handler that loops over rows is
therefore a loop of steps (`op`, `at`): sorting reads the row count and each cell,
rendering reads the order and each row, searching each cell. `quiet` remembers whether
a row arrived since the operation began; only the properties read it. The values of
cells, how they parse and how they read as text are the constants of `Ordering`.

### Sql, Format, Editor, Completion and the code

A text is a sequence of lexemes: a keyword, a letter of a name, a quote, what opens or
ends a comment, a bracket, a space, the end of a line. What the lexer, the splitter, the
formatter and the completion tell apart is a difference of lexemes; bytes and case are
not. Each function of the code is an operator of the same name, and a loop over tokens
is a function on positions; what a function needs twice is a parameter of a smaller
operator (`Split` of `Groups`, `FormatText` of `FormatTokens`).

The server has a lexer of its own (`ServerStep`), and it is the server's reading that
`AdmittedIsARead` and `LimitIsSeen` go by: which lexemes it runs (`Executed`), at what
depth (`DepthsOf`), and which FOR and LOCK begin a locking clause (`Locks`). A "--"
with its space is a comment to both and one without (`"--1"`) to the client only; what
`/*!` opens runs for both, what MariaDB's `/*M!` opens for the server only, and a
comment for a version the server has not (`"/*!9"`) for the client only. An executable
comment ends at its first `*/` for the client, and at the first outside of a literal
for the server. Where a text comes upon one of these the two part (`PartAt`), and
what the client says of it then is not so: both properties are said of the texts in
which they do not, and `NothingHidesAWrite` and `LimitEndsTheStatement`, which ask it of
every text, are under Disagreements.

 `SqlText` and `Completion` are the machines that make the
texts: typing at the end, or the whole editor. Within the editor every key goes through
completionKey first, so a key that edits has closed the menu before (`EditCommand`,
`formatQuery`, `MoveCursor`) and one that types has not (`TypeRune`, `Backspace`,
`Paste`), and is followed by narrowCompletion. `HighlightIsDrawn` of `Completion`
holds too and is not part of a run.

## Runs

| Run | Expect | Properties | What it shows |
|---|---|---|---|
| `conn_ownership` | pass | `OneUserPerConnection`, `OnlyAFailedEndLeavesATransaction`, `NoConnectionLeaks` | Two statements, two callers of Begin/Commit/Rollback/Close, breaking connections and failing ends of a transaction in every order: who holds which connection, and where an open transaction can be. |
| `conn_cancel` | pass | `BusyHasHolder`, `CancelFindsItsStatement`, `KeepsTheContract` | Two statements, one of which is cancelled, inside or outside a transaction that a caller opens and ends meanwhile, with a KILL QUERY that may overtake the statement it is meant for: what Cancel keeps about the server, what the statement reports, and the contract of StreamContract, which Conn implements. |
| `conn_liveness` | pass | `CancelledStatementEnds`, `CancelReturns` | With no promise from the server, the network or the other holder of the control connection, Cancel returns; and a cancelled statement ends beside two callers that race to open a transaction, unless the loser never gets out of the ROLLBACK it sends with txMu held. |
| `conn_late_kill` | violation | `OnlyCancelledIsInterrupted` | One statement at a time: a KILL QUERY sent for a statement that ended meanwhile interrupts the next one on its connection. |
| `app_session` | pass | `OneSessionOpen`, `MarkerCoversTransaction`, `BatchIsDriven`, `ScreenTellsTheTruth`, `SwitchAsksFirst` | Batches, transactions, switches and reconnections over two datasources, with every key taken while connections are being made, two attempts under way at once, and replaced sessions still running their statement: which session is open, what drives the batch, what the marker, the rows, the schema and the history say, and what a switch discards. |
| `ds_config` | pass | `MemoryMatchesFile`, `LabelsMatchEntries`, `RenameKeepsPassword`, `ProbeForetells` | Adding, editing, renaming and deleting datasources while any save, and any write, delete or read of the keychain in a commit, may fail, the program may be killed between them, and sessions are opened from the list: memory, file, list and keychain agree. |
| `tree_reads` | pass | `TreeTellsTheTruth`, `BranchFilledOnce`, `CacheIsWhole`, `CompletionAgrees`, `LoadingEnds` | Reloads, switches, reconnections that come back after one, new names and expanded nodes while metadata reads start late, end late or fail: what the tree, the cache and completion show of which datasource. |
| `query` | pass | `SummaryMeansWhole`, `NothingOutlivesTheQuery`, `QueryEnds` | dv query from its arguments to its exit, with and without a tunnel: what the summary says, what is left behind, and that it ends. |
| `session_state` | pass | `RunsInItsSchema`, `WritesAreRefused`, `StaleWarningsAreNotRepeated` | Two statements after two others on two pooled connections and a transaction's: what a session keeps from one to the next, schema, warnings and read-only. |
| `results` | pass | `CopyIsWhole`, `CopiesOnlyWhatThereIs`, `SearchFindsWhatIsThere`, `SortKeepsTheRow` | Rows of two statements arriving at a buffer of two rows while the grid over it is sorted, searched, copied, saved and read row by row. |
| `sql` | pass | `LimitIsSeen`, `AdmittedIsARead`, `CaretRunsItsStatement`, `FormatKeepsTheStatement`, `FormatIsStable` | Every text of up to four of seventeen lexemes, alone and after the beginning of a SELECT: the LIMIT the client adds and what dv query admits, both judged by what the server's lexer makes of the text, which statement the caret runs, and what the formatter makes of the text and of every selection in it. |
| `completion` | pass | `CandidatesAreForTheWord`, `RefsAreTheTables` | The completion menu while the text under it is typed, pasted, deleted, edited by the editor's commands, laid out, recalled and clicked; and the tables read from every FROM list of up to three entries. |

### Bounds, and why they are enough

* `Conn`: two statements and two connections are the least with which a
  connection passes from one statement to another, two callers the least that
  can race for the transaction. `MaxInFlight`, `MaxCancelled`, `MaxBroken`,
  `MaxLeft` bound how many statements are in flight or cancelled, how many
  connections are broken and how many were left in a transaction by a failed end
  *at once*; slots and ids are reused (`Retire`, `Recycle`), so the
  number of statements over time is not bounded. `Closers` are the callers that may
  close the session: both in `conn_ownership`, whose properties Close bears on, none in
  the others, which have the cancelled statements instead. `conn_liveness` has both
  callers, for the Begin that holds `txMu` over a ROLLBACK while a cancelled statement
  waits for it; the proofs bound nothing.
* `App`: three sessions (the old one and two made since), two datasources, two
  connection attempts under way at once, of either kind, and the script "begin; stmt;
  commit", the shortest with a transaction and with something left to do after a
  statement. A session is used once, so a run is two changes of session long: enough
  for a switch and a reconnection to end in either order.
* `DataSources`: three names, one of them with a password in the environment,
  and two entries: an edit above or below the connected entry, a rename to a free
  name and to one whose keychain entry was left behind. All entries are for one server, since the
  properties of the run speak of names and passwords. `MaxSlack = 0` is the room Go's `append` leaves at
  these lengths. Two of the names are symmetric.
* `SchemaTree`: two datasources; three reads in flight, so that a reload can meet
  the reads of the one before it with and without a snapshot among them; one query to
  a snapshot, which is whole or nothing then, as far as a run goes (the proof is for any
  number). Nothing bounds how often the tree is reloaded, the session replaced or a
  datasource renamed.
* `SessionState`: two slots of statements, reused, two pooled connections, two
  schemas, one warning and the absence of one: a connection can come back with what
  either statement left on it, directly or with the other one between.
* `Query`: a result of up to four rows in batches of two, under a cap of two: it
  ends before the cap, at it, and in the same batch or a later one than it.
* `Results`: two statements of up to three rows for a buffer of two; two columns,
  one sorted as numbers, one as text, with NULL among the values and a pair of
  values that the two orders sequence differently.
* `SqlText`: four lexemes of seventeen, alone and after `SELECT ... FROM ... WHERE`.
  Every pair and triple of a quote, a comment, a bracket, a semicolon and a word that
  means something is among them, nested and unclosed.
* `Completion`: texts of three typed lexemes (accepted, recalled and laid out ones are
  longer), a menu two rows high over up to four candidates, two schemas; lists of up
  to three tables for `RefsAreTheTables`.

Deadlock is checked where the component never stops. It is not in `App`, which
the user may quit.

### Fairness

Three runs assume some. In `conn_liveness` a goroutine of the client that can take
a step takes it: Go's scheduler is fair to runnable goroutines. For Stream.Cancel that is
weak fairness; for Stream.run, whose statement was cancelled, it is strong: one that waits
for `txMu` gets it if it is free again and again, since sync.Mutex hands itself to
whoever has waited for a millisecond. The five second deadline of Cancel
passes. Nothing is assumed of the server, of the network, or of the holder of
the control connection, which may never answer or let go; nor of the ROLLBACK that a
Begin which lost sends with `txMu` held, which no context ends. If that one never
returns a cancelled statement does not end either, so `CancelledStatementEnds` is said
of the runs in which `txMu` is free again and again, and of nothing less: both callers
are in the run. In `tree_reads` a
goroutine that was started runs, a read ends by its deadline (tree.go:18, and
WithControl gives up waiting for the control connection with its context), and
the interface gets to the closures queued for it. In `query` the goroutines of the
main thread, of the stream, of each Cancel and of the tunnel run when they can
(`MainStep`, `StreamStep`, `CancelStep`, `AcceptEnds`, `ForwardMustEnd`), and the
timer of run.go:51 fires (`TimerFires`); the bastion and the server owe nothing,
which is why `QueryEnds` begins where the handshake is over. The user is under no
obligation in any of them.

## Proofs

`ConnProofs` proves, for every number of statements, connections and callers:
`TypeCorrect`, `ConnInvariant`, `OneUser`, `OnlyAFailedEndPoolsOne`, `NoLeaks`
and `BusyMeansInFlight`. The assumptions are that names are distinct and bounds
are numbers. `OneUserPerConnection` is not inductive: nothing in it says that a
connection the pool hands out is in nobody's hands, or that `tx` is not the
connection of a statement that is not marked pinned. `ConnInv` adds exactly
this: every holder's connection is out of the pool and is its own, the pinned
connection is shared only by the one statement that set `txBusy`, and a server
transaction exists only on a connection that is pinned or in the hands of a
caller, or that a failed COMMIT or ROLLBACK left it on. The proof has one step per action and is by cases on which connection
the action touches.

From there it proves what a statement does at the server: `SentInvariant`, `CancelIsAimed`
(when Cancel reports success the statement is not being executed at that moment, and is
not sent if it was not yet) and `ImplementsTheContract`, with no assumption about the
order in which a KILL and its statement arrive. That the statement is not executed later
either is what stream.go:444 says and the code does not keep (`CancelStopsTheServer`,
see Disagreements).
`CancelFindsItsStatement` speaks of one statement, and could be broken by others: a second one
sent over the first, an answer read by the wrong stream, an id that names another
connection by the time of the KILL. `SentInv` rules them out: a statement on its way or
at the server is on the connection whose id Cancel reads, unanswered, and still holds
it as long as the connection works (`SentOnItsConnection`); a connection has at most one
(`OneAtATime`); and once Cancel has let go of a statement it is not sent any more
(`CancelInOrder`). Only `ConnInv` can say that what is sent on a
connection is sent by its only holder (`FreeToSend`). `ImplementsTheContract` is the
step simulation of `StreamContract`: initial states map to initial states; each of
the nine actions of the contract is what some steps of `Conn` or of the server are
(`EndsWell` for the eight ways a statement ends); every other step is a stutter (`NotSeen`). Fairness
has no part in it: the contract promises nothing in time.

`AppProofs` proves, for any number of sessions, datasources, connection attempts
and for any batches: `TypeCorrect`, `AppInvariant`, `OneSession`,
`MarkerCovers`, `BatchDriven`, `ScreenTruth` and the action property
`SwitchIsAsked`. `TypeOK` and `AppInv` are inductive only together: the rows and
the history have a type because a session that is not free has a datasource
(`Located`). `ScreenTellsTheTruth` is not inductive by itself: `RunsHere` adds that,
as long as no change of datasource found a statement in flight, the one there is runs on
the datasource shown, and the same of the schema box. `OnlyLateOnesAreUnasked` says
that the transaction there is while a switch is under way was agreed to or begun since,
from which `SwitchIsAsked` follows. Nothing is assumed of the user, and any number of
attempts may be under way.

`SchemaTreeProofs` proves, for any number of datasources, of reads in flight and of
queries to a snapshot: `TypeCorrect`, `TreeInvariant`, `TreeTruth`, `BranchOnce`,
`CacheWhole` and `CompletionRight`. None of the properties says anything of the
reads in flight, and each depends on them: `TreeInv` adds that a read meant for a
node of the tree is the only one for it and on the session looked at (`Attached`),
that a node not marked is empty (`Unloaded`), that a snapshot's read is as far as
its queries (`Underway`), and that of the reads for the top of the tree one at most is
not late, and it is for the tree as it is (`Alone`). Reloads, switches, reconnections and
renames come at any moment. That the slot a read is put in was free is not needed: a model with a
read overwritten would keep the invariant as well.

`SessionStateProofs` proves the three properties of `SessionState` for any numbers of
statements, connections, schemas and answers: `SchemaIsKept`, `ReadOnlyIsEnforced` and `AnswersAreReportedOnce`. All rest on `Placed`:
a statement is alone on its connection. `SchemaInv` says where a connection is between
the USE and the statement, and that one which is not at home before the first switch
was put there by a typed USE; `ReadOnlyInv` that a connection is read-only from the time it
is handed out until its statement runs, `AnswerInv` that an answer which was read is the
one `staleWarnings` remembers of that connection.

`QueryProofs` proves, for any cap, any rows returned and any links: `TypeCorrect`,
`SummaryIsTrue` and `NothingIsLeft`, from `Invariance`. The summary is written three
goroutines away from the statement whose end it reports, so `QueryInv` ties them
together: what was written is what was sent less what is still in the channel, up to
the cap (`WrittenIsRead`); a stream over without an error has sent every row
(`EveryRowOnce`); and a summary stands only over a stream that is over, drained and
without an error (`SummaryIsTheVerdict`). For the way out, `TakenDown` says at each
step of it what has been closed by then, and `NoTunnel` that a query without a bastion
has none of it; that no forward is left comes from the wait group's guard, and that
none starts afterwards from the listener and the accept loop being gone. The types
need the invariant (a session that is read exists), so the two are proved together.

`DataSourcesProofs` proves, for any names, passwords, list lengths and array
capacities: `ListInvariance`, `TypeCorrect`, `MemoryIsTheFile` and `LabelsAreNames`.
`ListInv` adds that names are unique, that what is in use of the array is the file
(`ListIsTheFile`) and that an item stands for each entry while no dialog has a commit
under way. `RenameIsSafe` and `ProbeIsHonest` assume nothing of the keychain, any call of
which may fail: both are said where the read of the entry carried over did not
(`misread`). They rest on `PasswordIsCarried` and `ProbeIsRight`: where the
password is filed at each step of a commit, and that what Test foretold is what the
step under way will leave. What `remove` filters out of the list is stated with
cardinalities (`Without`: the k-th kept entry is the one with k kept up to it) and its
lemmas go by counting finite sets, not by induction.

`ResultsProofs` proves of `Compare`, for any set of values and any reading of them as
numbers, moments and text, that swapping the values swaps the answer and that it is
transitive, whatever NULL, NaN and unreadable cells are among the values; and from the
two, that `NewOrder` is a stable sort: every row once, sorted either way, equal rows as
they came (`OrderIsAStableSort`). An order is a function of ranks here (a row's place
is how many go before it), and that the ranks are all different, hence a permutation,
is by counting. On it rest, for any rows, columns, buffer and interleaving,
`CopyIsTheResult`, `CopyIsOfRows`, and the action properties `SortKeepsTheSelection`
and `SearchIsComplete`. `ResultsInv` says that the order in hand arranges the rows
there were when it was built, and not those there are (`OrderIsSorted`); what a copy has
rendered so far (`RenderedSoFar`); and that the cells a search has tried so far do not
match, while nothing arrives (`LookedSoFar`). That the tries of a search cover every
cell, from any start and either way round, is arithmetic of remainders
(`Sought`, with its inverse).

`TextProofs` proves, for every text and every caret, that Ctrl+Enter runs the last
statement begun, or the first (`CaretRuns`). The lexer is a function by recursion on the
text, and induction on data is out of the prover's reach; what stands for it is the
least counterexample. That a finite set of numbers has a least element is proved by
counting (`EveryRankIsTaken`: ranks are all different and too few to leave one out), and
from it that the lexer's run through a text exists (`ItGoes`) and that `LexInv` holds all
along it: the tokens so far are in order and end before what the lexer is inside of
began. Hence `TokensAreInOrder`; a statement is what lies between two cuts, so
`StatementsAreApart`, with the semicolon between; and then the statement StatementAt
stops at is the one reached, since the first it has not passed is the last one begun.

On the same run rests `AdmittedRunsARead`: for every text the two lexers do not part in,
what `dv query` lets through is a read to the server, with the LIMIT it was given. The
two are compared as they go (`InStep`, and `AllTogether` over the text): the server is
inside of what the client is inside of, or of nothing, lexeme by lexeme (`Together`), a
quote that will be doubled having ended its literal there (`Foreseen`); and an executable
comment ends for both at the "*/" the client looked ahead for (`Ahead`). So each lexeme
the server runs is one the client has a token for (`IsOf`, `RunInv`); a token at a depth
has an opening parenthesis before it, and the LIMIT goes after the verb and where nothing
is open (`LimitIsAfterTheVerb`), so that the server reads the rest of the text as it did
(`Made`, `MadeIsARead`). The tokens the admission looks at, the first word and every word
after it, are then those that run. It assumes that a letter that is a lexeme of its own is
no keyword (`LettersAreNoKeywords`, in `Sql`, which TLC evaluates).

`LimitIsAlwaysSeen` is about the server again, and about texts with executable comments
too. A text made of a part of another, with two lexemes put in where the client's lexer is
in code, takes the server's through the same states, and it runs the two lexemes and of
the rest what it ran (`MadeRuns`, `ClauseRuns`; `LimitRuns` for the whole statement). That
the place is at the server's top is that the parentheses it has open there are those the
client counted (`DepthsAgree`), and that the client's place is one in code, at no depth and
in the middle of no word (`BetweenTokens`): before FOR or LOCK by what is kept of every
token along the run (`ReadInv`), after the last token by that no parenthesis came since
(`DepthInv`) and none is open at the end. That nothing but a locking clause runs after it
is that every lexeme that runs is one the client has a token for, once more. The
conditions are named in the property. Two say what the code owes nothing for: a statement
in an executable comment it was cut out of reads as another one, and of a text with a
literal or a parenthesis left open the server makes an error, with a LIMIT or without.
Two are the ways the code does get it wrong (`IsClear`): the lexers part, or a FOR at the
top begins no locking clause.

It proves of the menu, for any text, catalogue, schema and keywords:
`SuggestIsForTheWord` (a lookup offers what overwrites the word that ends at the caret,
and nothing else) and `MenuIsForTheWord`. The inductive invariant is the property
itself with the menu's shape; the work is in the operators: that narrowing keeps a
candidate only while the word still begins where it did, and that every other way the
text or the caret changes closes the menu or looks it up again.

Model-checked only, and why. Everything with fairness (`CancelledStatementEnds`,
`CancelReturns`, `LoadingEnds`, `QueryEnds`): liveness under fairness and ENABLED are
out of this prover's reach. What is said of the layout in `SqlText`
(`FormatKeepsTheStatement`, `FormatIsStable`), and `RefsAreTheTables` of `Completion`: what
they compute for every input needs an induction over data, which no installed prover can
instantiate, and its replacement (see `TextProofs`) has been carried through for the
lexer only: the order of tokens and of statements, what the server runs, and where the
LIMIT goes. For the same
reason nothing is proved of where the menu draws its highlight, which depends on how
many candidates a filter leaves. `OnlyCancelledIsInterrupted` has no proof because it
is false.

## Findings

Each is a run TLC finds violated, against a sentence of the repository.

* `OnlyCancelledIsInterrupted` (`internal/db/stream.go:461`): Cancel reads finished at stream.go:448 and then waits for the control connection; the statement can end meanwhile, its connection goes back to the pool and the next statement runs on it when KILL QUERY arrives and interrupts it. internal/db/stream.go:451 says "Once the statement has finished the id may already have been reused by another session, and killing it would interrupt unrelated work."

## Disagreements without a run of their own

Met while modelling, each with a counterexample TLC gives in seconds when the
property is put in a configuration; the properties are at the end of the module
named, under what the code does not keep.

| Property | The code | The sentence it disagrees with |
|---|---|---|
| `Conn!CancelStopsTheServer` | stream.go:469: the KILL may overtake the statement on the network and find nothing to kill | stream.go:444, "KILL QUERY, sent over the separate control connection, is what actually stops the work." |
| `Conn!TransactionStaysPinned` | conn.go:323, 290: a connection whose COMMIT or ROLLBACK failed without breaking it goes to the pool with its transaction open, where go-sql-driver's reset ends none | conn.go:308, "returning it to the pool lets the driver reset it" |
| `Conn!CloseEndsTheTransaction` | conn.go:183: Close drops the refusal of a Rollback that found the transaction busy | conn.go:179, "An open transaction would otherwise be left holding locks on the server until its connection was reaped." |
| `Conn!TxMuNotHeldAcrossRoundTrip` | conn.go:290: the loser of two Begins sends ROLLBACK with txMu held | conn.go:49, "It is never held across a round trip" |
| `App!BatchStaysOnSession` | app.go:809: a reconnection during a batch sends the rest of it to another session | app.go:977, "The statements in a file are written to run in order" |
| `App!MarkerIsTrue` | app.go:1265: a COMMIT that fails leaves the marker on with nothing pinned; datasource.go:139: so does a switch that discarded the transaction | status.go:34, "inTransaction says the connection is pinned and the work so far is undoable" |
| `App!ReconnectDiscardsNothing` | reconnect.go:47: asks nothing, and the session may be alive | reconnect.go:82, "The transaction died with the connection that held it." |
| `App!TablesBelongToDataSource` | datasource.go:128: adopt does not go through setSchema, the tables tab keeps the old list | app.go:670, "One place to change it, so the two can never disagree about which schema an unqualified query will reach." |
| `App!RowsBelongToDataSource` | datasource.go:94: a statement started while connecting goes on filling the buffer after adopt | datasource.go:122, "The rows on screen belong to the datasource that produced them" |
| `App!HistoryNamesWhereItRan` | app.go:1101: the closure of a statement in flight over a switch names the datasource the interface is on by then | as above: "nothing about them is true of this one" |
| `App!SwitchAlwaysAsks` | datasource.go:72: InTransaction is asked when the switch is chosen; a transaction begun while its connection is made is rolled back unasked | datasource.go:55, "asking about anything it would throw away first" |
| `App!SchemaBelongsToDataSource` | reconnect.go:77: a reconnection that ends after a switch keeps the schema of the other datasource | reconnect.go:76, "It is the same server, so the name still means what it meant." |
| `DataSources!OldEntryOutlivesItsCopy` | dspicker.go:283: an error of the keychain's read is taken for absence, nothing is moved and the old entry is deleted | dspicker.go:280, "The old entry is deleted only once the copy under the new name has actually landed" |
| `DataSources!ItemsPointAtTheirEntry` | dspicker.go:97, 176: a delete whose save fails leaves the items pointing into the filtered array, so Enter connects to the entry below the one shown | dspicker.go:169-173, the entry must not be "left looking deleted in memory when the file on disk still has it" |
| `SchemaTree!SchemasListedOnce` | tree.go:63: two reloads under way at once (the refresh key pressed twice) each append, and every schema is listed twice | tree.go:38, "loadSchemas fills the top level of the tree in the background" |
| `SchemaTree!EngineFollowsTheSession` | reconnect.go:77: a reconnection that comes back after a switch changes the session and not the engine; a rename (dspicker.go:263) leaves the engine with the name it had | datasource.go:131, "a stale one offers tables that are not there" |
| `SchemaTree!LoadedMeansFilled` | tree.go:137: a node is marked before its read, and a read that failed is not tried again until the tree is reloaded | tree.go:16, "a hung read must not leave the tree looking permanently empty" |
| `App!BatchStopsAtFailure` | app.go:967: transactionControl only shows its error, so a batch whose BEGIN failed goes on outside of a transaction | app.go:925, "stopping at the first failure so a statement after it is never run against a database the one before it left in an unknown state" |
| `DataSources!SessionKeepsDataSource` | dspicker.go:263, 176: the session points into the array that commit and remove write to in place, so after a failed save or a delete above it, it names another entry | conn.go:139, "DataSource returns the datasource this connection serves." |
| `SchemaTree!TreeShowsOneServer` | tree.go:58: the closure does not ask whether its session is still the one looked at | datasource.go:113, "A half-switched interface — the new connection behind the old datasource's tables in the tree — is worse than either state on its own" |
| `SchemaTree!SnapshotFiledRight` | tree.go:88: App.conn is read in the goroutine, the name was noted before it | cache.go:119, "Save replaces everything stored for a datasource." |
| `Query!StoppedMeansAsked` | run.go:52-55, 81: the flag is set before Cancel, whose KILL can be given up or fail, and the program says so all the same and ends | run.go:82, "the server was asked to end the statement (KILL QUERY)" |
| `Query!HandshakeEnds` | tunnel.go:75, 81: only the TCP dial is bounded, the handshake after it has neither deadline nor context | tunnel.go:27, "DialTimeout bounds the SSH handshake so an unreachable bastion fails promptly" |
| `Query!NoSummaryMeansIncomplete` | run.go:52, 81: the timer can fire after the last row was written, and no summary follows a result that is whole | run.go:31, "A reader that finds no summary has an incomplete result" |
| `SessionState!PooledAtHome` | stream.go:347: only a schema chosen in the interface is noted, not a USE that is typed | conn.go:63, "Until that happens no pooled connection can be pointing anywhere but the datasource's own schema" |
| `SessionState!NeverRunsElsewhere` | stream.go:347: a USE that is typed is not noted in schemaEverSwitched, and the next statement on that connection runs where it left it | stream.go:341, "every later one states its schema explicitly rather than trusting what it finds" |
| `SessionState!OnlyRepetitionsAreDropped` | stream.go:288-296: an answer that is empty, or could not be read, is not remembered, so a warning raised anew after it is dropped as stale | conn.go:402, "the same answer SHOW WARNINGS gave the last time it was asked on connID" |
| `SessionState!WarningsAreItsOwn` | stream.go:279: after a statement that failed or was not asked about, the next one is given its warnings | stream.go:98, "asking any later ... would answer about something else entirely" |
| `Results!CopyHoldsEachRowOnce` | copyresult.go:86: rows that arrive while the text is rendered outgrow the order it goes by, and the rest is read as it arrived: a row can be there twice and another not at all | copyresult.go:81, "in the order the grid shows it" |
| `Results!SortedMeansTheAnswer` | grid.go:205: a statement that was cancelled or failed half way is neither at capacity nor arriving, and its rows are reported as sorted | grid.go:205, they "are the two ways the rows in hand are not the query's answer" |
| `SqlText!NothingHidesAWrite` | token.go:102: any "--" begins a comment for the client, only one with a space after it for the server, so what follows in `SELECT 5--1 INTO OUTFILE ...` is admitted unread; token.go:217, admit.go:150: a comment MariaDB runs, opened by `/*M!`, is a plain one | admit.go:4, "It refuses anything it cannot show to be a plain read" |
| `SqlText!LimitEndsTheStatement` | limit.go:79: the LIMIT goes before `--1` in `b = 5--1`, which is no comment to the server, and before the FOR of `USE INDEX FOR JOIN` or `FOR SYSTEM_TIME`, which is no locking clause | limit.go:40-45, the two shapes for which it inserts by token: a trailing comment, a locking clause |
| `SqlText!CutReadsTheSame` | statement.go:328: trimSpan cuts at the first and the last token, and the marks of an executable comment lie outside of every token | statement.go:328, the statement's own text |
| `SqlText!NeverRefused`, with "sp" typed | format.go:293: TrimRight takes the space a line comment ends in, the self-check finds it gone, and nothing is formatted | format.go:22, errChanged "indicates a bug here" |
| `Completion!EveryTableIsListed` | complete.go:213: after a derived table a comma ends the list | complete.go:185, "TableRefs lists the tables a statement reads or writes" |
| `Completion!OpenMenuHasTheKeyboard` | completion.go:31: the completion key opens the menu from any pane; nothing draws it there, and Enter writes into the text | completion.go:58, "The menu closes when the editor loses focus, which covers every dialog, every pane switch and every click elsewhere at once" |

Seen while reading, with no property: copyRow and stepRow act on the row under the
grid's position, which a sort or new rows may have changed since the dialog opened;
a save that fails half way leaves its file, and the next try finds the path taken
(saveresult.go:30); the count copySummary reports is read after the text is
rendered; in the editor, a selection made by the mouse or by the widget's own keys
after one made by a motion is extended from the old anchor (editor.go:114), because
nothing tells the App about it; a selection inside of an executable comment with a
quote before its end is read differently on its own; an unbalanced "(" keeps Split
from seeing the semicolons after it.

## Not modelled, and the plan

*Done in this order.* Connections; the interface that drives them; datasources and
the tree; then the abstract contract of a statement, what a pooled session keeps,
`dv query` with its tunnel, the result and its grid, SQL texts, the layout, the
editor's commands and completion.

*Left to prove.* What the layout does to every text (`FormatKeepsTheStatement`,
`FormatIsStable`) and that the FROM lists are read back (`RefsAreTheTables`): by the
least counterexample, as it was done for the lexer. Everything else the runs check is
proved, except liveness and the property the code breaks.

*Left to model.* The selection of the editor with its two ends, and the undo of the
widget; the search prompts over the editor, the tree and the tables (the one over
the result is in `Results`); the tunnels of the interface, which open and close as
those of `dv query` do; Unicode and bytes, which a lexeme hides: an offset here is a
number of lexemes, and offsetAt's conversion from a row and a column is not in it.

*Not planned.* Drawing, panes and the mouse; how a cell is formatted, an export
rendered, a name matched and ranked in the search boxes; flags, TLS settings and the
wording of errors (`db.Diagnose`); the key map, a table; the visits counter; SQLite's
own guarantees for the cache and the history; the test servers. They are sequential,
keep no state between calls, or are somebody else's, and have tests.
