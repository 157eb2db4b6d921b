-------------------------------- MODULE Query --------------------------------
(***************************************************************************)
(* dv query: one statement from stdin, its result on stdout.               *)
(*                                                                         *)
(* The main goroutine checks the arguments (cli.query), opens the session, *)
(* through an SSH tunnel when the datasource has one (session.OpenWith),   *)
(* writes the events of the statement's Stream as JSON lines               *)
(* (headless.Run), and closes the session.  Beside it run the stream's     *)
(* goroutine, the timer that cancels the statement, and the tunnel's       *)
(* accept loop and forwards.                                               *)
(***************************************************************************)
EXTENDS Naturals, Sequences, FiniteSetsExt

CONSTANTS
  MaxRows,    \* the -max-rows of the command line
  Chunk,      \* rows in a batch
  MaxResult   \* bound: rows the statement has

ASSUME SizesArePositive ==
  MaxRows \in Nat \ {0} /\ Chunk \in Nat \ {0} /\ MaxResult \in Nat \ {0}

VARIABLES
  tunnelled, \* the datasource has a bastion
  rows,      \* how many rows the statement's result has
  main,      \* where the main goroutine is
  verdict,   \* what Run, or what came before it, returned
  listener, client, accepting, errs,  \* the Tunnel
  link,      \* each connection the driver dials, and its forward
  session,   \* the db.Conn
  run,       \* where Stream.run is
  sent,      \* rows Stream.run has emitted
  events,    \* Stream.Events, a channel of capacity one
  ctxDone,   \* the stream's context is cancelled
  err,       \* Stream.err
  server,    \* what the server does with the statement
  timedOut,  \* the flag the timer sets
  cancel,    \* how far each call of Stream.Cancel is
  tried,     \* a KILL QUERY was written to the control connection
  written, truncated, writeErr, summary  \* what Run wrote

tunnelVars == <<listener, client, accepting, errs>>
streamVars == <<run, sent, events, err>>
cancelVars == <<timedOut, cancel, tried>>
outVars    == <<written, truncated, writeErr, summary>>
vars == <<tunnelled, rows, main, verdict, tunnelVars, link, session, streamVars,
          ctxDone, server, cancelVars, outVars>>

Links  == {"control", "query"}
Callers == {"timer", "writer"}
None   == "none"

MainAt == {"args", "bastion", "handshake", "dial", "run", "cancelling",
           "flush", "closeConn", "closeListener", "closeClient", "wait", "exit"}
Verdicts == {None, "ok", "usage", "refused", "error", "stopped", "write", "forward"}

TypeOK ==
  /\ tunnelled \in BOOLEAN /\ rows \in 0..MaxResult
  /\ main \in MainAt /\ verdict \in Verdicts
  /\ listener \in {None, "open", "closed"} /\ client \in {None, "open", "closed"}
  /\ accepting \in BOOLEAN /\ errs \in BOOLEAN /\ ctxDone \in BOOLEAN
  /\ timedOut \in BOOLEAN /\ tried \in BOOLEAN
  /\ truncated \in BOOLEAN /\ writeErr \in BOOLEAN /\ summary \in BOOLEAN
  /\ link \in [Links -> {None, "queued", "dialing", "joined", "over"}]
  /\ session \in {None, "open", "closed"}
  /\ run \in {None, "acquire", "ready", "asked", "rows", "over"}
  /\ sent \in 0..(MaxRows + 1) /\ written \in 0..MaxRows
  /\ events \in {<<>>} \cup {<<n>> : n \in 0..Chunk}
  /\ err \in {"nil", "cancelled", "failed", "refused"}
  /\ server \in {"idle", "running", "answered", "refused", "killed"}
  /\ cancel \in [Callers -> {"idle", "begun", "detached", "killing", "done"}]

Init ==
  /\ tunnelled \in BOOLEAN /\ rows \in 0..MaxResult
  /\ main = "args" /\ verdict = None
  /\ listener = None /\ client = None /\ accepting = FALSE /\ errs = FALSE
  /\ link = [l \in Links |-> None]
  /\ session = None
  /\ run = None /\ sent = 0 /\ events = <<>> /\ ctxDone = FALSE /\ err = "nil"
  /\ server = "idle"
  /\ timedOut = FALSE /\ cancel = [c \in Callers |-> "idle"] /\ tried = FALSE
  /\ written = 0 /\ truncated = FALSE /\ writeErr = FALSE /\ summary = FALSE

-----------------------------------------------------------------------------
(* The tunnel *)

\* The driver dials: the local listener when there is a tunnel, whose backlog
\* takes the connection before anybody accepts it.
Dial(l) == link' = [link EXCEPT ![l] = IF ~tunnelled THEN "joined"
                                       ELSE IF listener = "open" THEN "queued" ELSE "over"]

Accept(l) ==
  /\ accepting /\ listener = "open"
  /\ link[l] = "queued"
  /\ link' = [link EXCEPT ![l] = "dialing"]
  /\ UNCHANGED <<tunnelled, rows, main, verdict, tunnelVars, session, streamVars,
                 ctxDone, server, cancelVars, outVars>>

\* The listener was closed: Accept fails, and what was queued is reset.
AcceptEnds ==
  /\ accepting /\ listener = "closed"
  /\ accepting' = FALSE
  /\ link' = [l \in Links |-> IF link[l] = "queued" THEN "over" ELSE link[l]]
  /\ UNCHANGED <<tunnelled, rows, main, verdict, listener, client, errs, session,
                 streamVars, ctxDone, server, cancelVars, outVars>>

ForwardJoins(l) ==
  /\ link[l] = "dialing" /\ client = "open"
  /\ link' = [link EXCEPT ![l] = "joined"]
  /\ UNCHANGED <<tunnelled, rows, main, verdict, tunnelVars, session, streamVars,
                 ctxDone, server, cancelVars, outVars>>

\* The bastion cannot reach the database, or the SSH connection is gone.
ForwardFails(l) ==
  /\ link[l] = "dialing"
  /\ errs' = TRUE
  /\ link' = [link EXCEPT ![l] = "over"]
  /\ UNCHANGED <<tunnelled, rows, main, verdict, listener, client, accepting, session,
                 streamVars, ctxDone, server, cancelVars, outVars>>

\* Either side has ended: the SSH connection, the database, the network.
LinkEnds(l) ==
  /\ link[l] = "joined"
  /\ link' = [link EXCEPT ![l] = "over"]
  /\ UNCHANGED <<tunnelled, rows, main, verdict, tunnelVars, session, streamVars,
                 ctxDone, server, cancelVars, outVars>>

\* What must happen by itself: a forward ends once either of its ends is closed.
ForwardMustEnd(l) ==
  \/ client = "closed" /\ (ForwardFails(l) \/ LinkEnds(l))
  \/ session = "closed" /\ LinkEnds(l)

-----------------------------------------------------------------------------
(* The main goroutine, up to the open session *)

\* Everything cli.query turns away before it connects.
Arguments ==
  /\ main = "args"
  /\ \/ \E v \in {"usage", "refused", "error"} : verdict' = v /\ main' = "exit"
     \/ tunnelled /\ main' = "bastion" /\ UNCHANGED verdict
     \/ ~tunnelled /\ main' = "dial" /\ UNCHANGED verdict
  /\ UNCHANGED <<tunnelled, rows, tunnelVars, link, session, streamVars, ctxDone, server,
                 cancelVars, outVars>>

\* The TCP connection to the bastion ends at the context's deadline at worst.
Bastion ==
  /\ main = "bastion"
  /\ \/ main' = "handshake" /\ UNCHANGED verdict
     \/ main' = "exit" /\ verdict' = "error"
  /\ UNCHANGED <<tunnelled, rows, tunnelVars, link, session, streamVars, ctxDone, server,
                 cancelVars, outVars>>

\* ssh.NewClientConn takes neither the context nor a deadline: it returns when
\* the bastion has answered, if it does.
Handshake ==
  /\ main = "handshake"
  /\ \/ /\ client' = "open" /\ listener' = "open" /\ accepting' = TRUE
        /\ main' = "dial" /\ UNCHANGED verdict
     \/ main' = "exit" /\ verdict' = "error" /\ UNCHANGED <<client, listener, accepting>>
  /\ UNCHANGED <<tunnelled, rows, errs, link, session, streamVars, ctxDone, server,
                 cancelVars, outVars>>

OpenDials ==
  /\ main = "dial" /\ link["control"] = None
  /\ Dial("control")
  /\ UNCHANGED <<tunnelled, rows, main, verdict, tunnelVars, session, streamVars, ctxDone,
                 server, cancelVars, outVars>>

\* db.Open: the control connection answers and the session is confirmed to be
\* read-only; then Run starts the statement and the timer.
Opened ==
  /\ main = "dial" /\ link["control"] = "joined"
  /\ session' = "open"
  /\ run' = "acquire"
  /\ main' = "run"
  /\ UNCHANGED <<tunnelled, rows, verdict, tunnelVars, link, sent, events, err, ctxDone,
                 server, cancelVars, outVars>>

OpenFailsAtOnce ==
  /\ main = "dial" /\ link["control"] # None
  /\ main' = "exit" /\ verdict' = "error"
  /\ UNCHANGED <<tunnelled, rows, tunnelVars, link, session, streamVars, ctxDone, server,
                 cancelVars, outVars>>

\* The connection failed, or the context ran out; a tunnel is closed before the
\* failure is reported, and its own failure is what is reported if it has one.
OpenFails ==
  /\ main = "dial" /\ link["control"] # None
  /\ main' = IF tunnelled THEN "closeListener" ELSE "exit"
  /\ verdict' = "error"
  /\ link' = IF tunnelled THEN link ELSE [link EXCEPT !["control"] = "over"]
  /\ UNCHANGED <<tunnelled, rows, tunnelVars, session, streamVars, ctxDone, server,
                 cancelVars, outVars>>

-----------------------------------------------------------------------------
(* Stream.run and the server *)

FetchExactly == MaxRows
\* One row more than is wanted, so that a whole result is known to be whole:
\* the LIMIT the statement is given, and the stream's own cap.
Fetch == MaxRows + 1
Returned == Min({rows, Fetch})

StreamOver(e) ==
  /\ run' = "over"
  /\ err' = IF ctxDone THEN "cancelled" ELSE e

Acquire ==
  /\ run = "acquire"
  /\ \/ link["query"] = None /\ ~ctxDone /\ Dial("query") /\ UNCHANGED <<run, err>>
     \/ link["query"] = "joined" /\ run' = "ready" /\ UNCHANGED <<link, err>>
     \/ /\ ctxDone \/ link["query"] = "over"
        /\ StreamOver("failed") /\ UNCHANGED link
  /\ UNCHANGED <<tunnelled, rows, main, verdict, tunnelVars, session, sent, events,
                 ctxDone, server, cancelVars, outVars>>

Send ==
  /\ run = "ready"
  /\ IF ctxDone \/ link["query"] = "over"
     THEN StreamOver("failed") /\ UNCHANGED server
     ELSE run' = "asked" /\ server' = "running" /\ UNCHANGED err
  /\ UNCHANGED <<tunnelled, rows, main, verdict, tunnelVars, link, session, sent, events,
                 ctxDone, cancelVars, outVars>>

\* The server owes no answer.
ServerAnswers ==
  /\ server = "running"
  /\ server' \in {"answered", "refused"}
  /\ UNCHANGED <<tunnelled, rows, main, verdict, tunnelVars, link, session, streamVars,
                 ctxDone, cancelVars, outVars>>

\* Cancelled, killed, refused or cut off, at any point of the result.
StreamStops ==
  /\ run \in {"asked", "rows"}
  /\ \/ /\ ctxDone \/ link["query"] = "over" \/ server = "killed"
        /\ StreamOver("failed")
     \/ server = "refused" /\ StreamOver("refused")
  /\ UNCHANGED <<tunnelled, rows, main, verdict, tunnelVars, link, session, sent, events,
                 ctxDone, server, cancelVars, outVars>>

\* The header, and then batches; the last one may find the context cancelled
\* and be dropped, which done then reports.
Emit ==
  /\ run \in {"asked", "rows"} /\ server = "answered" /\ events = <<>>
  /\ IF run = "asked"
     THEN run' = "rows" /\ events' = <<0>> /\ UNCHANGED sent
     ELSE LET n == Min({Chunk, Returned - sent})
          IN /\ n > 0
             /\ events' = <<n>> /\ sent' = sent + n /\ UNCHANGED run
  /\ UNCHANGED <<tunnelled, rows, main, verdict, tunnelVars, link, session, err, ctxDone,
                 server, cancelVars, outVars>>

StreamEnds ==
  /\ run = "rows" /\ server = "answered" /\ sent = Returned
  /\ StreamOver("nil")
  /\ UNCHANGED <<tunnelled, rows, main, verdict, tunnelVars, link, session, sent, events,
                 ctxDone, server, cancelVars, outVars>>

-----------------------------------------------------------------------------
(* Stream.Cancel, in the timer's goroutine and in Run's own *)

\* timer.Stop comes once Run has its verdict.
RunReturned == main \in {"flush", "closeConn", "closeListener", "closeClient", "wait", "exit"}

TimerOnlyMarks(c) == cancel' = [cancel EXCEPT ![c] = "done"]
CancelBegins(c)   == cancel' = [cancel EXCEPT ![c] = "begun"]

TimerFires ==
  /\ session = "open" /\ run # None /\ ~RunReturned
  /\ cancel["timer"] = "idle"
  /\ timedOut' = TRUE
  /\ CancelBegins("timer")
  /\ UNCHANGED <<tunnelled, rows, main, verdict, tunnelVars, link, session, streamVars,
                 ctxDone, server, tried, outVars>>

Detach(c) ==
  /\ cancel[c] = "begun"
  /\ IF run = "over"
     THEN cancel' = [cancel EXCEPT ![c] = "done"] /\ UNCHANGED ctxDone
     ELSE cancel' = [cancel EXCEPT ![c] = "detached"] /\ ctxDone' = TRUE
  /\ UNCHANGED <<tunnelled, rows, main, verdict, tunnelVars, link, session, streamVars,
                 server, timedOut, tried, outVars>>

\* The control connection is this caller's: the KILL is written, unless the
\* session has been closed meanwhile or the statement has no connection yet.
TakeControl(c) ==
  /\ cancel[c] = "detached"
  /\ \A o \in Callers : cancel[o] # "killing"
  /\ IF session = "open" /\ (run \in {"ready", "asked", "rows"} \/ server # "idle")
     THEN cancel' = [cancel EXCEPT ![c] = "killing"] /\ tried' = TRUE
     ELSE cancel' = [cancel EXCEPT ![c] = "done"] /\ UNCHANGED tried
  /\ UNCHANGED <<tunnelled, rows, main, verdict, tunnelVars, link, session, streamVars,
                 ctxDone, server, timedOut, outVars>>

\* KILL is answered, or its connection or DialTimeout ends it.
Kill(c) ==
  /\ cancel[c] = "killing"
  /\ cancel' = [cancel EXCEPT ![c] = "done"]
  /\ \/ UNCHANGED server
     \/ /\ link["control"] = "joined" /\ server = "running"
        /\ server' = "killed"
  /\ UNCHANGED <<tunnelled, rows, main, verdict, tunnelVars, link, session, streamVars,
                 ctxDone, timedOut, tried, outVars>>

-----------------------------------------------------------------------------
(* The main goroutine: Run's loop, its verdict and the way out *)

\* What is left of -max-rows.
Room == MaxRows - written

\* An event is written, or dropped once a write has failed.  A failed write
\* cancels the statement, and Run goes on reading when Cancel is back.
Read ==
  /\ main = "run" /\ events # <<>>
  /\ events' = <<>>
  /\ \/ /\ ~writeErr
        /\ written' = written + Min({Head(events), Room})
        /\ truncated' = (truncated \/ Head(events) > Room)
        /\ UNCHANGED <<main, writeErr, cancel>>
     \/ /\ ~writeErr
        /\ writeErr' = TRUE
        /\ CancelBegins("writer")
        /\ main' = "cancelling"
        /\ UNCHANGED <<written, truncated>>
     \/ /\ writeErr
        /\ UNCHANGED <<main, written, truncated, writeErr, cancel>>
  /\ UNCHANGED <<tunnelled, rows, verdict, tunnelVars, link, session, run, sent, err,
                 ctxDone, server, timedOut, tried, summary>>

Cancelled ==
  /\ main = "cancelling" /\ cancel["writer"] = "done"
  /\ main' = "run"
  /\ UNCHANGED <<tunnelled, rows, verdict, tunnelVars, link, session, streamVars,
                 ctxDone, server, cancelVars, outVars>>

Outcome ==
  CASE timedOut -> "stopped"
    [] ~timedOut /\ err = "refused" -> "refused"
    [] ~timedOut /\ err \in {"cancelled", "failed"} -> "error"
    [] ~timedOut /\ err = "nil" /\ writeErr -> "write"
    [] OTHER -> "ok"

\* Events is closed.  The summary goes into the buffer with the rest; the
\* deferred stream.Close cancels the stream's context.
Decide ==
  /\ main = "run" /\ run = "over" /\ events = <<>>
  /\ verdict' = Outcome
  /\ summary' = (Outcome = "ok")
  /\ ctxDone' = TRUE
  /\ main' = "flush"
  /\ UNCHANGED <<tunnelled, rows, tunnelVars, link, session, streamVars, server,
                 cancelVars, written, truncated, writeErr>>

\* Everything was written to a buffer; it may be the last write that fails.
Flush ==
  /\ main = "flush"
  /\ \/ UNCHANGED <<verdict, summary>>
     \/ /\ verdict' = IF verdict = "ok" THEN "write" ELSE verdict
        /\ summary' = FALSE
  /\ main' = "closeConn"
  /\ UNCHANGED <<tunnelled, rows, tunnelVars, link, session, streamVars, ctxDone, server,
                 cancelVars, written, truncated, writeErr>>

\* Conn.Close: the control connection waits for a KILL that is under way.  The
\* far end of a forward has still to notice.
CloseConn ==
  /\ main = "closeConn"
  /\ \A c \in Callers : cancel[c] # "killing"
  /\ session' = "closed"
  /\ link' = [l \in Links |-> IF link[l] = "joined" /\ ~tunnelled THEN "over" ELSE link[l]]
  /\ main' = IF tunnelled THEN "closeListener" ELSE "exit"
  /\ UNCHANGED <<tunnelled, rows, verdict, tunnelVars, streamVars, ctxDone, server,
                 cancelVars, outVars>>

CloseListener ==
  /\ main = "closeListener"
  /\ listener' = "closed"
  /\ main' = "closeClient"
  /\ UNCHANGED <<tunnelled, rows, verdict, client, accepting, errs, link, session,
                 streamVars, ctxDone, server, cancelVars, outVars>>

CloseClient ==
  /\ main = "closeClient"
  /\ client' = "closed"
  /\ main' = "wait"
  /\ UNCHANGED <<tunnelled, rows, verdict, listener, accepting, errs, link, session,
                 streamVars, ctxDone, server, cancelVars, outVars>>

Forwarding(l) == tunnelled /\ link[l] \in {"dialing", "joined"}

\* wg.Wait, and then a tunnel that failed explains why the session did not open.
Waited ==
  /\ main = "wait"
  /\ ~accepting /\ \A l \in Links : ~Forwarding(l)
  /\ main' = "exit"
  /\ verdict' = IF session = None /\ errs THEN "forward" ELSE verdict
  /\ UNCHANGED <<tunnelled, rows, tunnelVars, link, session, streamVars, ctxDone, server,
                 cancelVars, outVars>>

-----------------------------------------------------------------------------
MainStep ==
  \/ Arguments \/ Bastion
  \/ OpenDials \/ Opened \/ OpenFails
  \/ Read \/ Cancelled \/ Decide
  \/ Flush \/ CloseConn \/ CloseListener \/ CloseClient \/ Waited

CancelStep(c) == Detach(c) \/ TakeControl(c) \/ Kill(c)

StreamStep == Acquire \/ Send \/ StreamStops \/ Emit \/ StreamEnds

Done == main = "exit" /\ UNCHANGED vars

Next ==
  \/ MainStep \/ Handshake
  \/ StreamStep \/ ServerAnswers
  \/ TimerFires \/ \E c \in Callers : CancelStep(c)
  \/ AcceptEnds \/ \E l \in Links : Accept(l) \/ ForwardJoins(l) \/ ForwardFails(l) \/ LinkEnds(l)
  \/ Done

Spec == Init /\ [][Next]_vars

\* The goroutines of the program run, and the timer's deadline comes; neither
\* the bastion nor the server owes an answer.
Fairness ==
  /\ WF_vars(MainStep) /\ WF_vars(StreamStep) /\ WF_vars(TimerFires)
  /\ \A c \in Callers : WF_vars(CancelStep(c))
  /\ WF_vars(AcceptEnds) /\ \A l \in Links : WF_vars(ForwardMustEnd(l))

FairSpec == Spec /\ Fairness

-----------------------------------------------------------------------------
(* Properties *)

(* Run's comment: the summary is written only when the result was read to    *)
(* its end or to the cap; it says which of the two it was.                   *)
SummaryMeansWhole ==
  summary => /\ written = Min({rows, MaxRows})
             /\ truncated <=> rows > MaxRows

(* When the program ends nothing of the tunnel is left behind, whichever of  *)
(* the ways out it took: no listener, no SSH connection, no goroutine.       *)
NothingOutlivesTheQuery ==
  main = "exit" =>
    /\ listener # "open" /\ client # "open" /\ ~accepting
    /\ \A l \in Links : ~Forwarding(l) /\ link[l] # "joined"

(* Once the bastion's handshake is over, the query ends: the timer stops a   *)
(* statement the server never answers, and Close returns.                    *)
QueryEnds == main = "dial" ~> main = "exit"

-----------------------------------------------------------------------------
(* What the code says of itself and does not keep: README, Disagreements.    *)

(* "Stopped ...; the server was asked to end the statement (KILL QUERY)":    *)
(* when the program that reported this ends, the statement is not left       *)
(* running without a KILL having been sent.                                  *)
StoppedMeansAsked ==
  main = "exit" /\ verdict = "stopped" => tried \/ server # "running"

(* DialTimeout "bounds the SSH handshake so an unreachable bastion fails     *)
(* promptly instead of hanging": connecting to a bastion ends.               *)
HandshakeEnds == main = "handshake" ~> main # "handshake"

(* "A reader that finds no summary has an incomplete result."                *)
NoSummaryMeansIncomplete ==
  main = "exit" /\ session = "closed" /\ verdict # "write" /\ ~summary =>
    written < Min({rows, MaxRows}) \/ err # "nil"
=============================================================================
