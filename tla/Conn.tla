-------------------------------- MODULE Conn --------------------------------
(***************************************************************************)
(* db.Conn and db.Stream: one session with a database server.              *)
(*                                                                         *)
(* A Conn owns a pool of connections that serve statements, one connection *)
(* pinned while a transaction is open, and one control connection used for *)
(* KILL QUERY and catalog reads.  A Stream is one statement in flight: a   *)
(* goroutine that acquires a connection, learns its server-side id, sends  *)
(* the statement, reads the answer and its warnings, and gives the         *)
(* connection back.  Cancel runs in a goroutine of its own beside it.      *)
(*                                                                         *)
(* Begin, Commit, Rollback and Close run in Callers: the goroutines that   *)
(* use the session.                                                        *)
(***************************************************************************)
EXTENDS Naturals, FiniteSets

CONSTANTS
  Streams,        \* statements in flight (a slot is reused when one is over)
  Conns,          \* server-side connection ids the pool can hold
  Callers,        \* goroutines that open and end transactions
  Closers,        \* those of them that may also Close the session
  MaxQueryConns,  \* the pool's limit, the control connection included
  MaxInFlight,    \* bound: statements the session's user runs at once
  MaxCancelled,   \* bound: statements cancelled or closed early at once
  MaxBroken,      \* bound: connections the network breaks at once
  MaxLeft,        \* bound: working connections left in a transaction at once
  Catalog,        \* the catalog reader, as a holder of the control connection
  None            \* no connection, no statement, nobody

ASSUME NamesAreDistinct ==
  /\ None \notin Streams \cup Conns \cup Callers
  /\ Catalog \notin Streams \cup {None}
ASSUME BoundsAreNumbers ==
  /\ MaxQueryConns \in Nat \ {0}
  /\ {MaxInFlight, MaxCancelled, MaxBroken, MaxLeft} \subseteq Nat

VARIABLES
  link,       \* client side of each connection: see LinkState
  closed,     \* the pool was closed
  wire,       \* the statement written to a connection and not yet arrived
  server,     \* the statement the server executes for a connection
  serverTx,   \* the transaction the server has open for a connection
  reply,      \* how the server ended each statement
  tx,         \* Conn.tx, the pinned connection
  txBusy,     \* Conn.txBusy
  pc,         \* how far Stream.run is
  at,         \* the connection Stream.run holds
  pinned,     \* that connection is the transaction's
  connID,     \* Stream.connID, None until idReady is closed
  ctxDone,    \* Stream.runCtx is cancelled
  err,        \* Stream.err
  cancel,     \* how far a call of Stream.Cancel is
  control,    \* who holds Conn.controlMu
  controlAlive, \* the control connection still works
  op,         \* how far a caller's Begin, Commit, Rollback or Close is
  opAt        \* the connection that caller holds

poolVars    == <<link, closed>>
serverVars  == <<wire, server, serverTx, reply>>
txVars      == <<tx, txBusy>>
streamVars  == <<pc, at, pinned, connID, ctxDone, err>>
controlVars == <<cancel, control, controlAlive>>
opVars      == <<op, opAt>>
vars == <<poolVars, serverVars, txVars, streamVars, controlVars, opVars>>

\* "bad" is a connection the driver has given up on while somebody still
\* holds it; "closed" is out of the pool for good.
LinkState == {"new", "idle", "used", "bad", "closed"}
Live      == {"idle", "used"}
RunState  == {"idle", "acquire", "dial", "identify", "ready", "running",
              "warnings", "release", "drained", "closed"}
Outcome   == {"nil", "cancelled", "killed", "failed"}
Reply     == {"none", "ok", "refused", "killed"}
CancelState == {"idle", "checked", "detached", "waiting", "killing",
                "ok", "skipped", "failed"}
\* "left" is still open, but its COMMIT or ROLLBACK failed.
TxState   == {"none", "open", "left"}
OpState   == {"idle", "dialing", "starting", "publish", "undo", "ending",
              "rollback", "shutdown"}

\* The steps at which a goroutine has a connection in its hands.
Holding   == {"identify", "ready", "running", "warnings", "release"}
HoldingOp == {"starting", "publish", "undo", "ending", "rollback"}

TypeOK ==
  /\ link \in [Conns -> LinkState]
  /\ closed \in BOOLEAN
  /\ wire \in [Conns -> Streams \cup {None}]
  /\ server \in [Conns -> Streams \cup {None}]
  /\ serverTx \in [Conns -> TxState]
  /\ reply \in [Streams -> Reply]
  /\ tx \in Conns \cup {None}
  /\ txBusy \in BOOLEAN
  /\ pc \in [Streams -> RunState]
  /\ at \in [Streams -> Conns \cup {None}]
  /\ pinned \in [Streams -> BOOLEAN]
  /\ connID \in [Streams -> Conns \cup {None}]
  /\ ctxDone \in [Streams -> BOOLEAN]
  /\ err \in [Streams -> Outcome]
  /\ cancel \in [Streams -> CancelState]
  /\ control \in Streams \cup {Catalog, None}
  /\ controlAlive \in BOOLEAN
  /\ op \in [Callers -> OpState]
  /\ opAt \in [Callers -> Conns \cup {None}]
  /\ \A s \in Streams : at[s] # None <=> pc[s] \in Holding
  /\ \A k \in Callers : opAt[k] # None <=> op[k] \in HoldingOp

\* The state Open leaves behind.  ReadOnly datasources are confirmed on the
\* control connection before Open returns, so nothing of a failed Open remains.
Init ==
  /\ link = [c \in Conns |-> "new"]
  /\ closed = FALSE
  /\ wire = [c \in Conns |-> None]
  /\ server = [c \in Conns |-> None]
  /\ serverTx = [c \in Conns |-> "none"]
  /\ reply = [s \in Streams |-> "none"]
  /\ tx = None
  /\ txBusy = FALSE
  /\ pc = [s \in Streams |-> "idle"]
  /\ at = [s \in Streams |-> None]
  /\ pinned = [s \in Streams |-> FALSE]
  /\ connID = [s \in Streams |-> None]
  /\ ctxDone = [s \in Streams |-> FALSE]
  /\ err = [s \in Streams |-> "nil"]
  /\ cancel = [s \in Streams |-> "idle"]
  /\ control = None
  /\ controlAlive = TRUE
  /\ op = [k \in Callers |-> "idle"]
  /\ opAt = [k \in Callers |-> None]

-----------------------------------------------------------------------------
(* The definitions no action uses (DoneIgnoringContext, TakenWhileBusy, ...)  *)
(* are plausible mistakes in the definition that follows each of them: every *)
(* property is shown to fail when one of them takes its place.                *)
(* The pool: database/sql and the driver, as conn.go and stream.go use them *)

Open == {c \in Conns : link[c] \in {"idle", "used", "bad"}}

\* A free connection is preferred to a new one, and a new one is dialled only
\* below the limit, of which the control connection takes one.
Grantable(c) ==
  /\ ~closed
  /\ \/ link[c] = "idle"
     \/ /\ link[c] = "new"
        /\ \A d \in Conns : link[d] # "idle"
        /\ Cardinality(Open) + 1 < MaxQueryConns

\* What sql.Conn.Close makes of a connection: back to the pool if it works.
Returned(c) == IF link[c] = "used" /\ ~closed THEN "idle" ELSE "closed"

\* A socket dies.  One lying in the pool is discarded when next looked at.
LinkBreaks(c) ==
  /\ link[c] \in Live
  /\ Cardinality({d \in Conns : link[d] = "bad"}) < MaxBroken
  /\ link' = [link EXCEPT ![c] = IF @ = "idle" THEN "closed" ELSE "bad"]
  /\ UNCHANGED <<closed, serverVars, txVars, streamVars, controlVars, opVars>>

\* An id nobody refers to any more stands for the next, never used, id.
Recycle(c) ==
  /\ link[c] = "closed"
  /\ wire[c] = None /\ server[c] = None /\ serverTx[c] = "none"
  /\ \A s \in Streams : connID[s] # c
  /\ link' = [link EXCEPT ![c] = "new"]
  /\ UNCHANGED <<closed, serverVars, txVars, streamVars, controlVars, opVars>>

-----------------------------------------------------------------------------
(* The server *)

Arrives(c) ==
  /\ wire[c] # None
  /\ wire' = [wire EXCEPT ![c] = None]
  /\ \/ server' = [server EXCEPT ![c] = wire[c]]
     \/ link[c] \notin Live /\ UNCHANGED server
  /\ UNCHANGED <<poolVars, serverTx, reply, txVars, streamVars, controlVars, opVars>>

\* The statement ends by itself, done or refused.  It may take the
\* transaction with it: an implicit commit, a deadlock.
ServerFinishes(c) ==
  /\ server[c] # None
  /\ \E r \in {"ok", "refused"} : reply' = [reply EXCEPT ![server[c]] = r]
  /\ UNCHANGED serverTx \/ serverTx' = [serverTx EXCEPT ![c] = "none"]
  /\ server' = [server EXCEPT ![c] = None]
  /\ UNCHANGED <<poolVars, wire, txVars, streamVars, controlVars, opVars>>

\* The server notices that the client of an idle session is gone.
Reap(c) ==
  /\ link[c] \in {"bad", "closed"}
  /\ wire[c] = None /\ server[c] = None /\ serverTx[c] # "none"
  /\ serverTx' = [serverTx EXCEPT ![c] = "none"]
  /\ UNCHANGED <<poolVars, wire, server, reply, txVars, streamVars, controlVars, opVars>>

-----------------------------------------------------------------------------
(* Stream.run *)

\* txMu is never held between two of these steps except by a Begin that lost
\* the race to publish and is rolling back.
TxMuFree == \A k \in Callers : op[k] # "undo"

InFlight == {s \in Streams : pc[s] \notin {"idle", "closed"}}

Query(s) ==
  /\ pc[s] = "idle"
  /\ Cardinality(InFlight) < MaxInFlight
  /\ pc' = [pc EXCEPT ![s] = "acquire"]
  /\ UNCHANGED <<poolVars, serverVars, txVars, at, pinned, connID, ctxDone, err,
                 controlVars, opVars>>

NoIdKept(s, c) == UNCHANGED connID

\* What KILL QUERY will be aimed at.
IdIs(s, c) == connID' = [connID EXCEPT ![s] = c]

\* Inside a transaction: the pinned connection, one statement at a time.
AcquirePinned(s) ==
  /\ pc[s] = "acquire" /\ TxMuFree
  /\ tx # None
  /\ ~txBusy
  /\ txBusy' = TRUE
  /\ pc' = [pc EXCEPT ![s] = "ready"]
  /\ at' = [at EXCEPT ![s] = tx]
  /\ pinned' = [pinned EXCEPT ![s] = TRUE]
  /\ IdIs(s, tx)
  /\ UNCHANGED <<poolVars, serverVars, tx, ctxDone, err, controlVars, opVars>>

AcquireRefused(s) ==
  /\ pc[s] = "acquire" /\ TxMuFree
  /\ tx # None /\ txBusy
  /\ pc' = [pc EXCEPT ![s] = "drained"]
  /\ err' = [err EXCEPT ![s] = "failed"]
  /\ UNCHANGED <<poolVars, serverVars, txVars, at, pinned, connID, ctxDone,
                 controlVars, opVars>>

AcquirePool(s) ==
  /\ pc[s] = "acquire" /\ TxMuFree
  /\ tx = None
  /\ pc' = [pc EXCEPT ![s] = "dial"]
  /\ UNCHANGED <<poolVars, serverVars, txVars, at, pinned, connID, ctxDone, err,
                 controlVars, opVars>>

\* How a step that could not go on explains itself, and what done makes of a
\* statement that ended without a driver error.
Failure(s) == IF ctxDone[s] THEN "cancelled" ELSE "failed"
DoneIgnoringContext(s, e) == e
Done(s, e) == IF e = "nil" /\ ctxDone[s] THEN "cancelled" ELSE e

PoolGrant(s, c) ==
  /\ pc[s] = "dial"
  /\ ~ctxDone[s]
  /\ Grantable(c)
  /\ link' = [link EXCEPT ![c] = "used"]
  /\ pc' = [pc EXCEPT ![s] = "identify"]
  /\ at' = [at EXCEPT ![s] = c]
  /\ UNCHANGED <<closed, serverVars, txVars, pinned, connID, ctxDone, err,
                 controlVars, opVars>>

\* Unreachable, closed, or cancelled while waiting for a free connection.
DialFails(s) ==
  /\ pc[s] = "dial"
  /\ pc' = [pc EXCEPT ![s] = "drained"]
  /\ err' = [err EXCEPT ![s] = Failure(s)]
  /\ UNCHANGED <<poolVars, serverVars, txVars, at, pinned, connID, ctxDone,
                 controlVars, opVars>>

\* SELECT CONNECTION_ID() and makeReadOnly answered; idReady is closed.
Identify(s) ==
  /\ pc[s] = "identify"
  /\ ~ctxDone[s] /\ link[at[s]] = "used"
  /\ pc' = [pc EXCEPT ![s] = "ready"]
  /\ IdIs(s, at[s])
  /\ UNCHANGED <<poolVars, serverVars, txVars, at, pinned, ctxDone, err,
                 controlVars, opVars>>

UnidentifiedIsKept(s) == UNCHANGED link

\* The connection goes straight back, unless the driver closed it because the
\* context ended in the middle.
GiveBackUnidentified(s) ==
  \E l \in {Returned(at[s])} \cup (IF ctxDone[s] THEN {"closed"} ELSE {}) :
    link' = [link EXCEPT ![at[s]] = l]

\* One of the two failed.
IdentifyFails(s) ==
  /\ pc[s] = "identify"
  /\ GiveBackUnidentified(s)
  /\ pc' = [pc EXCEPT ![s] = "drained"]
  /\ at' = [at EXCEPT ![s] = None]
  /\ err' = [err EXCEPT ![s] = Failure(s)]
  /\ UNCHANGED <<closed, serverVars, txVars, pinned, connID, ctxDone,
                 controlVars, opVars>>

\* The driver does not send on a context that is already over.
Send(s) ==
  /\ pc[s] = "ready"
  /\ ~ctxDone[s] /\ link[at[s]] = "used"
  /\ wire' = [wire EXCEPT ![at[s]] = s]
  /\ pc' = [pc EXCEPT ![s] = "running"]
  /\ UNCHANGED <<poolVars, server, serverTx, reply, txVars, at, pinned, connID,
                 ctxDone, err, controlVars, opVars>>

\* After a context ended, the driver may have closed the socket or not.
MayBreak(s) ==
  \E l \in {link[at[s]]} \cup (IF ctxDone[s] THEN {"bad"} ELSE {}) :
    link' = [link EXCEPT ![at[s]] = l]

\* Cancelled before it was sent, a dead connection, or a USE that failed.
NotSent(s) ==
  /\ pc[s] = "ready"
  /\ MayBreak(s)
  /\ pc' = [pc EXCEPT ![s] = "release"]
  /\ err' = [err EXCEPT ![s] = Failure(s)]
  /\ UNCHANGED <<closed, serverVars, txVars, at, pinned, connID, ctxDone,
                 controlVars, opVars>>

\* The result was read to its end, or the server's error was.
Answered(s) ==
  /\ pc[s] = "running"
  /\ reply[s] # "none" /\ link[at[s]] = "used"
  /\ IF reply[s] = "ok"
     THEN pc' = [pc EXCEPT ![s] = "warnings"] /\ UNCHANGED err
     ELSE /\ pc' = [pc EXCEPT ![s] = "release"]
          /\ err' = [err EXCEPT ![s] = IF reply[s] = "killed" THEN "killed" ELSE "failed"]
  /\ UNCHANGED <<poolVars, serverVars, txVars, at, pinned, connID, ctxDone,
                 controlVars, opVars>>

ContextNoticedAfterAnswer(s) == ctxDone[s] /\ reply[s] # "none"
ContextNoticed(s) == ctxDone[s]

\* The context ended while the statement ran: the driver closes the socket and
\* either the call fails with the context's error or emit gives up, err nil.
Detached(s) ==
  /\ pc[s] = "running"
  /\ ContextNoticed(s)
  /\ link' = [link EXCEPT ![at[s]] = "bad"]
  /\ pc' = [pc EXCEPT ![s] = "release"]
  /\ \E e \in {"nil", "cancelled"} : err' = [err EXCEPT ![s] = Done(s, e)]
  /\ UNCHANGED <<closed, serverVars, txVars, at, pinned, connID, ctxDone,
                 controlVars, opVars>>

Broken(s) ==
  /\ pc[s] = "running"
  /\ link[at[s]] = "bad"
  /\ pc' = [pc EXCEPT ![s] = "release"]
  /\ err' = [err EXCEPT ![s] = Failure(s)]
  /\ UNCHANGED <<poolVars, serverVars, txVars, at, pinned, connID, ctxDone,
                 controlVars, opVars>>

\* SHOW WARNINGS, or nothing when the context is over; a failure is dropped.
ReadWarnings(s) ==
  /\ pc[s] = "warnings"
  /\ MayBreak(s)
  /\ pc' = [pc EXCEPT ![s] = "release"]
  /\ err' = [err EXCEPT ![s] = Done(s, "nil")]
  /\ UNCHANGED <<closed, serverVars, txVars, at, pinned, connID, ctxDone,
                 controlVars, opVars>>

ReleasedToThePool ==
  TxMuFree /\ txBusy' = FALSE /\ link' = [link EXCEPT ![tx] = Returned(tx)]
ReleasedIfItWorks ==
  TxMuFree /\ txBusy' = (link[tx] = "bad") /\ UNCHANGED link

\* The two releases acquire returns: the transaction owns its connection's
\* lifetime, so the statement only marks it free.
ReleasePinned == TxMuFree /\ txBusy' = FALSE /\ UNCHANGED link
ReleasePooled(c) == link' = [link EXCEPT ![c] = Returned(c)] /\ UNCHANGED txBusy

Release(s) ==
  /\ pc[s] = "release"
  /\ IF pinned[s] THEN ReleasePinned ELSE ReleasePooled(at[s])
  /\ pc' = [pc EXCEPT ![s] = "drained"]
  /\ at' = [at EXCEPT ![s] = None]
  /\ pinned' = [pinned EXCEPT ![s] = FALSE]
  /\ UNCHANGED <<closed, serverVars, tx, connID, ctxDone, err, controlVars, opVars>>

\* markFinished, then Events closes.
CloseEvents(s) ==
  /\ pc[s] = "drained"
  /\ pc' = [pc EXCEPT ![s] = "closed"]
  /\ UNCHANGED <<poolVars, serverVars, txVars, at, pinned, connID, ctxDone, err,
                 controlVars, opVars>>

MayBeCancelled(s) ==
  Cardinality({t \in Streams \ {s} : ctxDone[t] \/ cancel[t] # "idle"}) < MaxCancelled

CancelFnForgotten(s) == UNCHANGED ctxDone
CancelFn(s) == ctxDone' = [ctxDone EXCEPT ![s] = TRUE]

\* Stream.Close, or the end of the context Query was given: detaches only.
CloseStream(s) ==
  /\ pc[s] # "idle" /\ ~ctxDone[s] /\ MayBeCancelled(s)
  /\ CancelFn(s)
  /\ UNCHANGED <<poolVars, serverVars, txVars, pc, at, pinned, connID, err,
                 controlVars, opVars>>

\* The user lets go of a stream that is over: its slot is a new statement's.
Retire(s) ==
  /\ pc[s] = "closed"
  /\ cancel[s] \notin {"checked", "detached", "waiting", "killing"}
  /\ \A c \in Conns : wire[c] # s /\ server[c] # s
  /\ pc' = [pc EXCEPT ![s] = "idle"]
  /\ connID' = [connID EXCEPT ![s] = None]
  /\ ctxDone' = [ctxDone EXCEPT ![s] = FALSE]
  /\ err' = [err EXCEPT ![s] = "nil"]
  /\ reply' = [reply EXCEPT ![s] = "none"]
  /\ cancel' = [cancel EXCEPT ![s] = "idle"]
  /\ UNCHANGED <<poolVars, wire, server, serverTx, txVars, at, pinned,
                 control, controlAlive, opVars>>

-----------------------------------------------------------------------------
(* Stream.Cancel and Conn.WithControl *)

\* finish sets it before the connection is released, acquire's failure likewise.
Finished(s) == pc[s] \in {"release", "drained", "closed"}

CancelBegin(s) ==
  /\ pc[s] # "idle" /\ cancel[s] = "idle" /\ MayBeCancelled(s)
  /\ cancel' = [cancel EXCEPT ![s] = IF Finished(s) THEN "skipped" ELSE "checked"]
  /\ UNCHANGED <<poolVars, serverVars, txVars, streamVars, control, controlAlive, opVars>>

CancelDetach(s) ==
  /\ cancel[s] = "checked"
  /\ CancelFn(s)
  /\ cancel' = [cancel EXCEPT ![s] = "detached"]
  /\ UNCHANGED <<poolVars, serverVars, txVars, pc, at, pinned, connID, err,
                 control, controlAlive, opVars>>

\* Nothing to kill: the statement has not reached the server.
CancelReadId(s) ==
  /\ cancel[s] = "detached"
  /\ cancel' = [cancel EXCEPT ![s] = IF connID[s] = None THEN "ok" ELSE "waiting"]
  /\ UNCHANGED <<poolVars, serverVars, txVars, streamVars, control, controlAlive, opVars>>

CancelControl(s) ==
  /\ cancel[s] = "waiting"
  /\ control = None
  /\ control' = s
  /\ cancel' = [cancel EXCEPT ![s] = "killing"]
  /\ UNCHANGED <<poolVars, serverVars, txVars, streamVars, controlAlive, opVars>>

\* KILL QUERY interrupts whatever the server runs for that id just then.
Interrupt(c) ==
  IF server[c] = None
  THEN UNCHANGED <<reply, server>>
  ELSE /\ reply' = [reply EXCEPT ![server[c]] = "killed"]
       /\ server' = [server EXCEPT ![c] = None]

\* It is answered, or names a thread that is gone, or the control connection
\* no longer works.  It travels on a socket of its own, and may overtake the
\* statement it is meant for.
Kill(s) ==
  /\ cancel[s] = "killing"
  /\ IF controlAlive
     THEN Interrupt(connID[s]) /\ cancel' = [cancel EXCEPT ![s] = "ok"]
     ELSE UNCHANGED <<reply, server>> /\ cancel' = [cancel EXCEPT ![s] = "failed"]
  /\ control' = None
  /\ UNCHANGED <<poolVars, wire, serverTx, txVars, streamVars, controlAlive, opVars>>

\* DialTimeout runs out: in the queue the wait is abandoned, in the middle of
\* the KILL the driver closes the control connection.
NotInTheQueue == {"killing"}
EndsAtDeadline == {"waiting", "killing"}

CancelTimeout(s) ==
  /\ cancel[s] \in EndsAtDeadline
  /\ cancel' = [cancel EXCEPT ![s] = "failed"]
  /\ IF cancel[s] = "killing"
     THEN control' = None /\ controlAlive' = FALSE
     ELSE UNCHANGED <<control, controlAlive>>
  /\ UNCHANGED <<poolVars, serverVars, txVars, streamVars, opVars>>

\* A catalog read, under a deadline of its own.
CatalogBegin ==
  /\ control = None
  /\ control' = Catalog
  /\ UNCHANGED <<poolVars, serverVars, txVars, streamVars, cancel, controlAlive, opVars>>

CatalogEnd ==
  /\ control = Catalog
  /\ control' = None
  /\ \E alive \in {controlAlive, FALSE} : controlAlive' = alive
  /\ UNCHANGED <<poolVars, serverVars, txVars, streamVars, cancel, opVars>>

-----------------------------------------------------------------------------
(* Begin, Commit, Rollback, Close *)

Closing == \E k \in Callers : op[k] \in {"rollback", "shutdown"}

Begin(k) ==
  /\ op[k] = "idle" /\ TxMuFree
  /\ tx = None
  /\ op' = [op EXCEPT ![k] = "dialing"]
  /\ UNCHANGED <<poolVars, serverVars, txVars, streamVars, controlVars, opAt>>

BeginDial(k, c) ==
  /\ op[k] = "dialing"
  /\ Grantable(c)
  /\ link' = [link EXCEPT ![c] = "used"]
  /\ op' = [op EXCEPT ![k] = "starting"]
  /\ opAt' = [opAt EXCEPT ![k] = c]
  /\ UNCHANGED <<closed, serverVars, txVars, streamVars, controlVars>>

BeginDialFails(k) ==
  /\ op[k] = "dialing"
  /\ op' = [op EXCEPT ![k] = "idle"]
  /\ UNCHANGED <<poolVars, serverVars, txVars, streamVars, controlVars, opAt>>

\* START TRANSACTION was answered; it commits what was left open there.
BeginStarted(k) ==
  /\ op[k] = "starting"
  /\ link[opAt[k]] = "used"
  /\ serverTx' = [serverTx EXCEPT ![opAt[k]] = "open"]
  /\ op' = [op EXCEPT ![k] = "publish"]
  /\ UNCHANGED <<poolVars, wire, server, reply, txVars, streamVars, controlVars, opAt>>

\* The id, the read-only confirmation or START TRANSACTION failed.
BeginFails(k) ==
  /\ op[k] = "starting"
  /\ link' = [link EXCEPT ![opAt[k]] = Returned(opAt[k])]
  /\ op' = [op EXCEPT ![k] = "idle"]
  /\ opAt' = [opAt EXCEPT ![k] = None]
  /\ UNCHANGED <<closed, serverVars, txVars, streamVars, controlVars>>

BeginPublish(k) ==
  /\ op[k] = "publish" /\ TxMuFree
  /\ tx = None
  /\ tx' = opAt[k]
  /\ op' = [op EXCEPT ![k] = "idle"]
  /\ opAt' = [opAt EXCEPT ![k] = None]
  /\ UNCHANGED <<poolVars, serverVars, txBusy, streamVars, controlVars>>

\* Another Begin won the race; ROLLBACK is sent with txMu still held.
BeginLoses(k) ==
  /\ op[k] = "publish" /\ TxMuFree
  /\ tx # None
  /\ op' = [op EXCEPT ![k] = "undo"]
  /\ UNCHANGED <<poolVars, serverVars, txVars, streamVars, controlVars, opAt>>

TakenWhileBusy(k, next) ==
  /\ tx # None
  /\ opAt' = [opAt EXCEPT ![k] = tx]
  /\ tx' = None
  /\ op' = [op EXCEPT ![k] = next]

\* endTransaction under txMu; refused while a statement uses the connection.
TakeTransaction(k, next) ==
  /\ tx # None /\ ~txBusy
  /\ opAt' = [opAt EXCEPT ![k] = tx]
  /\ tx' = None
  /\ op' = [op EXCEPT ![k] = next]

EndTransaction(k) ==
  /\ op[k] = "idle" /\ TxMuFree
  /\ TakeTransaction(k, "ending")
  /\ UNCHANGED <<poolVars, serverVars, txBusy, streamVars, controlVars>>

EndMayFail(c) ==
  link[c] = "used" =>
    Cardinality({d \in Conns : serverTx[d] = "left" /\ link[d] \in Live}) < MaxLeft

LoserForgetsToRollBack(k) ==
  IF op[k] = "undo" THEN {serverTx[opAt[k]]} ELSE {"none"}

\* What COMMIT or ROLLBACK leaves of the transaction: nothing, or all of it
\* when the statement failed, on a dead connection or on a live one.
AfterEnd(k) ==
  {"none"} \cup (IF serverTx[opAt[k]] # "none" /\ EndMayFail(opAt[k]) THEN {"left"} ELSE {})

\* Answered or failed (what became of a loser's ROLLBACK is not even looked
\* at), the connection is closed, which for one that works is back to the pool.
Ended(k) ==
  /\ op[k] \in {"undo", "ending", "rollback"}
  /\ \E t \in AfterEnd(k) : serverTx' = [serverTx EXCEPT ![opAt[k]] = t]
  /\ link' = [link EXCEPT ![opAt[k]] = Returned(opAt[k])]
  /\ op' = [op EXCEPT ![k] = IF @ = "rollback" THEN "shutdown" ELSE "idle"]
  /\ opAt' = [opAt EXCEPT ![k] = None]
  /\ UNCHANGED <<closed, wire, server, reply, txVars, streamVars, controlVars>>

\* Close: an open transaction is rolled back, if that is not refused.
CloseBegin(k) ==
  /\ k \in Closers
  /\ op[k] = "idle" /\ TxMuFree
  /\ ~closed /\ ~Closing
  /\ \/ TakeTransaction(k, "rollback")
     \/ /\ tx = None \/ txBusy
        /\ op' = [op EXCEPT ![k] = "shutdown"]
        /\ UNCHANGED <<tx, opAt>>
  /\ UNCHANGED <<poolVars, serverVars, txBusy, streamVars, controlVars>>

\* control.Close waits for whoever is using it; pool.Close closes what is free.
Shutdown(k) ==
  /\ op[k] = "shutdown"
  /\ control = None
  /\ controlAlive' = FALSE
  /\ closed' = TRUE
  /\ link' = [c \in Conns |-> IF link[c] = "idle" THEN "closed" ELSE link[c]]
  /\ op' = [op EXCEPT ![k] = "idle"]
  /\ UNCHANGED <<serverVars, txVars, streamVars, cancel, control, opAt>>

-----------------------------------------------------------------------------
(* What Stream.run and Cancel do by themselves, given the processor. *)
StreamStep(s) ==
  \/ AcquirePinned(s) \/ AcquireRefused(s) \/ AcquirePool(s)
  \/ \E c \in Conns : PoolGrant(s, c)
  \/ DialFails(s)
  \/ Identify(s) \/ IdentifyFails(s)
  \/ Send(s) \/ NotSent(s)
  \/ Answered(s) \/ Detached(s) \/ Broken(s)
  \/ ReadWarnings(s)
  \/ Release(s)
  \/ CloseEvents(s)

CancelStep(s) ==
  \/ CancelDetach(s) \/ CancelReadId(s) \/ CancelControl(s)
  \/ Kill(s) \/ CancelTimeout(s)

CallerStep(k) ==
  \/ Begin(k)
  \/ \E c \in Conns : BeginDial(k, c)
  \/ BeginDialFails(k)
  \/ BeginStarted(k) \/ BeginFails(k)
  \/ BeginPublish(k) \/ BeginLoses(k)
  \/ EndTransaction(k) \/ Ended(k)
  \/ CloseBegin(k) \/ Shutdown(k)

ServerStep(c) ==
  Arrives(c) \/ ServerFinishes(c) \/ Reap(c) \/ LinkBreaks(c) \/ Recycle(c)

UserStep(s) == Query(s) \/ CancelBegin(s) \/ CloseStream(s) \/ Retire(s)

Next ==
  \/ \E s \in Streams : StreamStep(s) \/ CancelStep(s) \/ UserStep(s)
  \/ \E k \in Callers : CallerStep(k)
  \/ \E c \in Conns : ServerStep(c)
  \/ CatalogBegin
  \/ CatalogEnd

Spec == Init /\ [][Next]_vars

\* Promised a step: a cancelled statement's goroutine, and Cancel's, whose waits
\* end at DialTimeout.  The one wait of theirs that comes and goes is for txMu,
\* and Go's mutex passes over no waiter for ever, so the fairness is strong.
\* The server, the network, the user and the callers owe nothing.
Fairness ==
  /\ \A s \in Streams : SF_vars(ctxDone[s] /\ StreamStep(s))
  /\ \A s \in Streams : WF_vars(CancelStep(s))

FairSpec == Spec /\ Fairness

-----------------------------------------------------------------------------
(* Properties *)

(* No connection is ever used by two goroutines at once: not by two          *)
(* statements, not by a statement and a COMMIT or ROLLBACK, and the pinned   *)
(* connection only by the statement that set txBusy (Conn.tx's comment: "two *)
(* at once desynchronise the protocol").                                     *)
OneUserPerConnection ==
  /\ \A s, t \in Streams : at[s] = at[t] /\ at[s] # None => s = t
  /\ \A k, l \in Callers : opAt[k] = opAt[l] /\ opAt[k] # None => k = l
  /\ \A s \in Streams, k \in Callers : at[s] # None => at[s] # opAt[k]
  /\ \A s \in Streams : at[s] # None => (at[s] = tx <=> pinned[s])
  /\ \A k \in Callers : opAt[k] # None => opAt[k] # tx

(* A transaction the server has open on a working connection is pinned or in *)
(* the hands of Begin or endTransaction, unless the COMMIT or ROLLBACK that  *)
(* was to end it failed: nothing else, not a lost race, a cancelled          *)
(* statement or a failed Begin, lets one slip into the pool.                 *)
Kept(c) == tx = c \/ \E k \in Callers : opAt[k] = c

OnlyAFailedEndLeavesATransaction ==
  \A c \in Conns : serverTx[c] = "open" /\ link[c] \in Live => Kept(c)

(* endTransaction's comment: a connection whose COMMIT failed goes back to   *)
(* the pool, which "lets the driver reset it".  A transaction is never open  *)
(* on a connection that serves unrelated statements.                         *)
TransactionStaysPinned ==
  \A c \in Conns : serverTx[c] # "none" /\ link[c] \in Live => Kept(c)

(* txBusy is never left behind: while it is set, one statement of the open   *)
(* transaction is between acquire and its release, so that a failed or       *)
(* cancelled statement cannot make Commit and Rollback impossible.           *)
BusyHasHolder ==
  txBusy => tx # None /\ \E s \in Streams : pinned[s] /\ at[s] = tx

(* Every connection taken from the pool is in somebody's hands, so each      *)
(* failure path of acquire, run and Begin has given its connection back.     *)
NoConnectionLeaks ==
  \A c \in Conns : link[c] \in {"used", "bad"} =>
    \/ tx = c
    \/ \E s \in Streams : at[s] = c
    \/ \E k \in Callers : opAt[k] = c

(* The inductive invariant behind the four properties above: a statement     *)
(* that holds the pinned connection has txBusy set, every connection in      *)
(* somebody's hands is open, one that was never dialled has no transaction,  *)
(* and Begin has none of its own while it waits for START TRANSACTION.       *)
PinnedIsBusy ==
  \A s \in Streams : pinned[s] => /\ at[s] = tx /\ tx # None /\ txBusy
                                  /\ pc[s] # "identify"

HeldIsOpen ==
  /\ \A s \in Streams : at[s] # None => link[at[s]] \in {"used", "bad"}
  /\ \A k \in Callers : opAt[k] # None => link[opAt[k]] \in {"used", "bad"}
  /\ tx # None => link[tx] \in {"used", "bad"}

NotYetStarted ==
  /\ \A c \in Conns : link[c] = "new" => serverTx[c] = "none"
  /\ \A k \in Callers : op[k] = "starting" /\ link[opAt[k]] = "used" => serverTx[opAt[k]] # "open"

ConnInv ==
  /\ OneUserPerConnection
  /\ OnlyAFailedEndLeavesATransaction
  /\ NoConnectionLeaks
  /\ BusyHasHolder
  /\ PinnedIsBusy
  /\ HeldIsOpen
  /\ NotYetStarted

(* "What actually stops the work" (Cancel's comment): when Cancel has        *)
(* reported success, the server is not executing the statement.              *)
CancelStopsTheServer ==
  \A s \in Streams : cancel[s] = "ok" => \A c \in Conns : server[c] # s

(* What the code keeps of that: Cancel never passes by a statement that      *)
(* runs.  When it reports success, the statement is not on the server: it    *)
(* was killed, it is over, or it has yet to arrive (a KILL on a socket of    *)
(* its own may overtake it) or to be sent, which it then never is.           *)
CancelFindsItsStatement ==
  [][\A s \in Streams : cancel[s] # "ok" /\ cancel'[s] = "ok" =>
       /\ \A c \in Conns : server'[c] # s
       /\ ctxDone'[s]]_vars

(* The inductive invariant behind CancelFindsItsStatement and the contract. *)
(* A statement at the server is there once and unanswered, on the connection *)
(* whose id Cancel reads; as long as that connection works, the statement    *)
(* still holds it, so nothing else is sent there; and a connection has at    *)
(* most one statement at the server.                                         *)
IsAt(s, c) == wire[c] = s \/ server[c] = s
Sent       == {"running", "release", "drained", "closed"}

SentOnItsConnection ==
  \A s \in Streams, c \in Conns : IsAt(s, c) =>
    /\ connID[s] = c /\ reply[s] = "none" /\ pc[s] \in Sent
    /\ link[c] # "new"
    /\ link[c] \in Live => at[s] = c /\ pc[s] = "running"

OneAtATime == \A c \in Conns : wire[c] = None \/ server[c] = None

IdIsTheConnection ==
  \A s \in Streams :
    /\ pc[s] \in {"ready", "running", "warnings"} => connID[s] = at[s]
    /\ pc[s] \in {"idle", "acquire", "dial", "identify"} => connID[s] = None

AnsweredAfterSent ==
  \A s \in Streams :
    /\ reply[s] # "none" => pc[s] \in Sent \cup {"warnings"}
    /\ pc[s] = "warnings" => reply[s] = "ok"

CancelInOrder ==
  \A s \in Streams :
    /\ cancel[s] \in {"detached", "waiting", "killing", "ok", "failed"} => ctxDone[s]
    /\ cancel[s] \in {"waiting", "killing"} => connID[s] # None
    /\ pc[s] = "idle" => cancel[s] = "idle" /\ ~ctxDone[s]

SentInv ==
  /\ SentOnItsConnection
  /\ OneAtATime
  /\ IdIsTheConnection
  /\ AnsweredAfterSent
  /\ CancelInOrder

(* Cancel's comment says a KILL is not sent for a finished statement because *)
(* "killing it would interrupt unrelated work": only a statement whose       *)
(* Cancel was called is ever interrupted.                                    *)
OnlyCancelledIsInterrupted ==
  \A s \in Streams : reply[s] = "killed" => cancel[s] # "idle"

(* Close's comment: an open transaction would "be left holding locks on the  *)
(* server", so Close rolls it back.  Once the session is closed and nothing  *)
(* is in flight, no working connection has a transaction open.               *)
Quiet ==
  /\ \A s \in Streams : pc[s] \in {"idle", "closed"}
  /\ \A k \in Callers : op[k] = "idle"

CloseEndsTheTransaction ==
  closed /\ Quiet => \A c \in Conns : serverTx[c] # "none" => link[c] \notin Live

(* txMu's comment: "never held across a round trip".                         *)
WaitsForServer(k) == op[k] \in {"dialing", "starting", "undo", "ending", "rollback"}
HoldsTxMu(k)      == op[k] = "undo"

TxMuNotHeldAcrossRoundTrip == \A k \in Callers : ~(HoldsTxMu(k) /\ WaitsForServer(k))

(* A cancelled statement ends, whatever the server and the reader of its     *)
(* events do: emit's and every wait's way out is the context.  The one wait  *)
(* it does not end is acquire's and release's for txMu, which a Begin that   *)
(* lost holds over its ROLLBACK; unless that one never returns, the          *)
(* statement ends.                                                           *)
CancelledStatementEnds ==
  \A s \in Streams : []<>TxMuFree => (ctxDone[s] ~> pc[s] = "closed")

(* Cancel returns although another user of the control connection never      *)
(* does: the wait in WithControl is abandonable.                             *)
CancelReturns ==
  \A s \in Streams : cancel[s] = "checked" ~> cancel[s] \in {"ok", "failed"}

-----------------------------------------------------------------------------
(* The contract.  Where a statement is, is where the one connection that     *)
(* carries it has it.                                                        *)

PhaseOf(s) == CASE pc[s] = "idle" -> "idle"
                [] pc[s] = "closed" -> "closed"
                [] Finished(s) /\ pc[s] # "closed" -> "over"
                [] OTHER -> "open"
WorkOf(s)  == CASE reply[s] # "none" -> reply[s]
                [] reply[s] = "none" /\ (\E c \in Conns : server[c] = s) -> "running"
                [] reply[s] = "none" /\ (\E c \in Conns : wire[c] = s) -> "sent"
                [] OTHER -> "none"

Contract == INSTANCE StreamContract WITH
  phase   <- [s \in Streams |-> PhaseOf(s)],
  work    <- [s \in Streams |-> WorkOf(s)],
  outcome <- [s \in Streams |-> IF Finished(s) THEN err[s] ELSE "none"],
  letGo   <- ctxDone,
  stopped <- [s \in Streams |-> cancel[s] = "ok"]

(* Every statement keeps its promises, whatever connections it used and      *)
(* whoever else used them: it reaches the server once and never after it was *)
(* let go, it ends as the server ended it, and one that runs when Cancel     *)
(* sends its KILL is interrupted (Session.Query's promise, Stream.Err,       *)
(* Stream.Cancel).                                                           *)
KeepsTheContract == Contract!Spec
=============================================================================
