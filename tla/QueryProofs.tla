---------------------------- MODULE QueryProofs ----------------------------
(***************************************************************************)
(* What the headless query promises for any -max-rows, any batch size and  *)
(* any result: a summary means the whole result or the cap, and nothing of *)
(* the tunnel is left when the program ends.  Both follow from QueryInv,   *)
(* which with TypeOK is inductive.                                         *)
(***************************************************************************)
EXTENDS Query, TLAPS

USE SizesArePositive

-----------------------------------------------------------------------------
(* The inductive invariant *)

\* The places of the main goroutine.
BeforeTunnel == {"args", "bastion", "handshake"}
BeforeOpen   == BeforeTunnel \cup {"dial"}
Running      == {"run", "cancelling"}
WayOut       == {"closeListener", "closeClient", "wait", "exit"}

\* Nothing is there before its turn: no tunnel before the handshake is over,
\* no link before db.Open dials, no statement without a session.
NothingEarly ==
  /\ main \in BeforeTunnel =>
       /\ listener = None /\ client = None /\ ~accepting
       /\ link["control"] = None
  /\ session = None => run = None
  /\ run = None => link["query"] = None
  /\ run = None => events = <<>> /\ sent = 0
  /\ main \in BeforeOpen => session = None

\* Without a bastion nothing of a tunnel ever exists.
NoTunnel ==
  ~tunnelled =>
    /\ listener = None /\ client = None /\ ~accepting
    /\ \A l \in Links : link[l] \notin {"queued", "dialing"}
    /\ main \notin {"bastion", "handshake", "closeListener", "closeClient", "wait"}

\* The ways out close what there is in their order, and the statement is over
\* before the first of them.
TakenDown ==
  /\ run \notin {None, "over"} => main \in Running
  /\ main \in {"closeClient", "wait", "exit"} => listener # "open"
  /\ main \in {"wait", "exit"} => client # "open"
  /\ main = "exit" =>
       /\ ~accepting
       /\ \A l \in Links : link[l] \notin {"dialing", "joined"}

\* Rows in the channel.
Pending == IF events = <<>> THEN 0 ELSE Head(events)

\* The stream emits no row twice, drops none while its error is nil, and has
\* emitted all of them when it ends without one.
EveryRowOnce ==
  /\ Pending <= sent /\ sent <= Returned
  /\ run # "over" => err = "nil"
  /\ run = "over" /\ err = "nil" => sent = Returned

\* What was written is what was read, up to the cap; the rest is what
\* truncated reports.
WrittenIsRead ==
  ~writeErr =>
    /\ written = Min({sent - Pending, MaxRows})
    /\ truncated <=> sent - Pending > MaxRows

\* The summary is a verdict on a stream that ended well and was read out.
SummaryIsTheVerdict ==
  summary =>
    /\ main \in {"flush", "closeConn"} \cup WayOut
    /\ run = "over" /\ err = "nil" /\ events = <<>> /\ ~writeErr

QueryInv ==
  /\ NothingEarly /\ NoTunnel /\ TakenDown
  /\ EveryRowOnce /\ WrittenIsRead /\ SummaryIsTheVerdict
-----------------------------------------------------------------------------
(* The smaller of two numbers is one of them and exceeds neither.            *)
LEMMA MinOfTwo ==
  ASSUME NEW a \in Int, NEW b \in Int
  PROVE  Min({a, b}) = IF a <= b THEN a ELSE b
BY DEF Min

(* How many rows the stream may return.                                      *)
LEMMA ReturnedBounds ==
  ASSUME TypeOK
  PROVE  Returned \in Nat /\ Returned <= MaxRows + 1
         /\ Returned = IF rows <= MaxRows + 1 THEN rows ELSE MaxRows + 1
BY MinOfTwo DEF TypeOK, Returned, Fetch

LEMMA InitInvariant == Init => TypeOK /\ QueryInv
<1> SUFFICES ASSUME Init PROVE TypeOK /\ QueryInv
  OBVIOUS
<1> USE DEF Init
<1>1. TypeOK
  <2>1. link \in [Links -> {None, "queued", "dialing", "joined", "over"}]
    OBVIOUS
  <2>2. cancel \in [Callers -> {"idle", "begun", "detached", "killing", "done"}]
    OBVIOUS
  <2>3. /\ sent \in 0..(MaxRows + 1) /\ written \in 0..MaxRows
        /\ events \in {<<>>} \cup {<<n>> : n \in 0..Chunk}
    OBVIOUS
  <2>4. QED
    BY <2>1, <2>2, <2>3 DEF TypeOK, MainAt, Verdicts, None
<1>2. NothingEarly /\ NoTunnel /\ TakenDown
  BY DEF NothingEarly, NoTunnel, TakenDown, BeforeTunnel, BeforeOpen, Links, None
<1>3. EveryRowOnce /\ SummaryIsTheVerdict
  BY <1>1, ReturnedBounds DEF EveryRowOnce, SummaryIsTheVerdict, Pending, None
<1>4. WrittenIsRead
  <2>1. sent - Pending = 0 /\ Min({0, MaxRows}) = 0
    BY MinOfTwo DEF Pending
  <2>2. ~truncated /\ ~(0 > MaxRows) /\ written = 0
    OBVIOUS
  <2>3. QED
    BY <2>1, <2>2 DEF WrittenIsRead
<1>5. QED
  BY <1>1, <1>2, <1>3, <1>4 DEF QueryInv

(* Every step keeps the types: a batch and the rows written stay within      *)
(* their bounds because a row is emitted once.                               *)
LEMMA TypeKept ==
  ASSUME TypeOK, QueryInv, [Next]_vars
  PROVE  TypeOK'
<1> USE DEF TypeOK, MainAt, Verdicts, Links, Callers, None, tunnelVars, streamVars, cancelVars, outVars
<1>1. ASSUME Arguments PROVE TypeOK'
  BY <1>1 DEF Arguments
<1>2. ASSUME Bastion PROVE TypeOK'
  BY <1>2 DEF Bastion
<1>3. ASSUME OpenDials PROVE TypeOK'
  BY <1>3 DEF OpenDials, Dial
<1>4. ASSUME Opened PROVE TypeOK'
  BY <1>4 DEF Opened
<1>5. ASSUME OpenFails PROVE TypeOK'
  BY <1>5 DEF OpenFails
<1>6. ASSUME Read PROVE TypeOK'
  <2>1. written' \in 0..MaxRows
    BY <1>6, MinOfTwo DEF Read, Room
  <2>2. cancel' \in [Callers -> {"idle", "begun", "detached", "killing", "done"}]
    BY <1>6 DEF Read, CancelBegins
  <2>3. /\ main' \in MainAt /\ events' = <<>>
        /\ truncated' \in BOOLEAN /\ writeErr' \in BOOLEAN
    BY <1>6 DEF Read
  <2>4. QED
    BY <1>6, <2>1, <2>2, <2>3 DEF Read
<1>7. ASSUME Cancelled PROVE TypeOK'
  BY <1>7 DEF Cancelled
<1>8. ASSUME Decide PROVE TypeOK'
  BY <1>8 DEF Decide, Outcome
<1>9. ASSUME Flush PROVE TypeOK'
  <2>1. verdict' \in Verdicts /\ summary' \in BOOLEAN /\ main' \in MainAt
    BY <1>9 DEF Flush
  <2>2. QED
    BY <1>9, <2>1 DEF Flush
<1>10. ASSUME CloseConn PROVE TypeOK'
  BY <1>10 DEF CloseConn
<1>11. ASSUME CloseListener PROVE TypeOK'
  BY <1>11 DEF CloseListener
<1>12. ASSUME CloseClient PROVE TypeOK'
  BY <1>12 DEF CloseClient
<1>13. ASSUME Waited PROVE TypeOK'
  BY <1>13 DEF Waited
<1>14. ASSUME Handshake PROVE TypeOK'
  <2>1. /\ client' \in {None, "open", "closed"} /\ listener' \in {None, "open", "closed"}
        /\ accepting' \in BOOLEAN /\ main' \in MainAt /\ verdict' \in Verdicts
    BY <1>14 DEF Handshake
  <2>2. QED
    BY <1>14, <2>1 DEF Handshake
<1>15. ASSUME Acquire PROVE TypeOK'
  BY <1>15 DEF Acquire, Dial, StreamOver
<1>16. ASSUME Send PROVE TypeOK'
  BY <1>16 DEF Send, StreamOver
<1>17. ASSUME StreamStops PROVE TypeOK'
  BY <1>17 DEF StreamStops, StreamOver
<1>18. ASSUME Emit PROVE TypeOK'
  <2>1. Min({Chunk, Returned - sent}) \in Int /\ Min({Chunk, Returned - sent}) <= Chunk
        /\ Min({Chunk, Returned - sent}) <= Returned - sent
    BY ReturnedBounds, MinOfTwo
  <2> HIDE DEF Returned
  <2>2. events' \in {<<>>} \cup {<<n>> : n \in 0..Chunk} /\ sent' \in 0..(MaxRows + 1)
    BY <1>18, <2>1, ReturnedBounds DEF Emit
  <2>3. QED
    BY <1>18, <2>2 DEF Emit
<1>19. ASSUME StreamEnds PROVE TypeOK'
  BY <1>19 DEF StreamEnds, StreamOver
<1>20. ASSUME ServerAnswers PROVE TypeOK'
  BY <1>20 DEF ServerAnswers
<1>21. ASSUME TimerFires PROVE TypeOK'
  BY <1>21 DEF TimerFires, CancelBegins
<1>22. ASSUME NEW c \in Callers, Detach(c) PROVE TypeOK'
  <2>1. cancel' \in [Callers -> {"idle", "begun", "detached", "killing", "done"}]
        /\ ctxDone' \in BOOLEAN
    BY <1>22 DEF Detach
  <2>2. QED
    BY <1>22, <2>1 DEF Detach
<1>23. ASSUME NEW c \in Callers, TakeControl(c) PROVE TypeOK'
  <2>1. cancel' \in [Callers -> {"idle", "begun", "detached", "killing", "done"}]
        /\ tried' \in BOOLEAN
    BY <1>23 DEF TakeControl
  <2>2. QED
    BY <1>23, <2>1 DEF TakeControl
<1>24. ASSUME NEW c \in Callers, Kill(c) PROVE TypeOK'
  BY <1>24 DEF Kill
<1>25. ASSUME AcceptEnds PROVE TypeOK'
  <2>1. link' \in [Links -> {None, "queued", "dialing", "joined", "over"}]
    BY <1>25 DEF AcceptEnds
  <2>2. accepting' \in BOOLEAN
    BY <1>25 DEF AcceptEnds
  <2> HIDE DEF Links
  <2>3. QED
    BY <1>25, <2>1, <2>2 DEF AcceptEnds
<1>26. ASSUME NEW l \in Links, Accept(l) PROVE TypeOK'
  BY <1>26 DEF Accept
<1>27. ASSUME NEW l \in Links, ForwardJoins(l) PROVE TypeOK'
  BY <1>27 DEF ForwardJoins
<1>28. ASSUME NEW l \in Links, ForwardFails(l) PROVE TypeOK'
  BY <1>28 DEF ForwardFails
<1>29. ASSUME NEW l \in Links, LinkEnds(l) PROVE TypeOK'
  BY <1>29 DEF LinkEnds
<1>30. ASSUME UNCHANGED vars PROVE TypeOK'
  BY <1>30 DEF vars, Pending, Returned
<1>31. QED
  BY <1>1, <1>2, <1>3, <1>4, <1>5, <1>6, <1>7, <1>8, <1>9, <1>10, <1>11,
     <1>12, <1>13, <1>14, <1>15, <1>16, <1>17, <1>18, <1>19, <1>20, <1>21,
     <1>22, <1>23, <1>24, <1>25, <1>26, <1>27, <1>28, <1>29, <1>30
     DEF Next, MainStep, StreamStep, CancelStep, Done

(* Every step keeps the tunnel's part of the invariant.                      *)
LEMMA TunnelKept ==
  ASSUME TypeOK, QueryInv, [Next]_vars
  PROVE  NothingEarly' /\ NoTunnel' /\ TakenDown'
<1> USE DEF TypeOK, QueryInv, NothingEarly, NoTunnel, TakenDown, BeforeTunnel, BeforeOpen, Running, Links, Callers, None, tunnelVars, streamVars, cancelVars, outVars
<1>1. ASSUME Arguments PROVE NothingEarly' /\ NoTunnel' /\ TakenDown'
  BY <1>1 DEF Arguments
<1>2. ASSUME Bastion PROVE NothingEarly' /\ NoTunnel' /\ TakenDown'
  BY <1>2 DEF Bastion
<1>3. ASSUME OpenDials PROVE NothingEarly' /\ NoTunnel' /\ TakenDown'
  BY <1>3 DEF OpenDials, Dial
<1>4. ASSUME Opened PROVE NothingEarly' /\ NoTunnel' /\ TakenDown'
  BY <1>4 DEF Opened
<1>5. ASSUME OpenFails PROVE NothingEarly' /\ NoTunnel' /\ TakenDown'
  BY <1>5 DEF OpenFails
<1>6. ASSUME Read PROVE NothingEarly' /\ NoTunnel' /\ TakenDown'
  BY <1>6 DEF Read, CancelBegins, Room, Pending
<1>7. ASSUME Cancelled PROVE NothingEarly' /\ NoTunnel' /\ TakenDown'
  BY <1>7 DEF Cancelled
<1>8. ASSUME Decide PROVE NothingEarly' /\ NoTunnel' /\ TakenDown'
  BY <1>8 DEF Decide, Outcome
<1>9. ASSUME Flush PROVE NothingEarly' /\ NoTunnel' /\ TakenDown'
  BY <1>9 DEF Flush
<1>10. ASSUME CloseConn PROVE NothingEarly' /\ NoTunnel' /\ TakenDown'
  BY <1>10 DEF CloseConn
<1>11. ASSUME CloseListener PROVE NothingEarly' /\ NoTunnel' /\ TakenDown'
  BY <1>11 DEF CloseListener
<1>12. ASSUME CloseClient PROVE NothingEarly' /\ NoTunnel' /\ TakenDown'
  BY <1>12 DEF CloseClient
<1>13. ASSUME Waited PROVE NothingEarly' /\ NoTunnel' /\ TakenDown'
  BY <1>13 DEF Waited, Forwarding
<1>14. ASSUME Handshake PROVE NothingEarly' /\ NoTunnel' /\ TakenDown'
  BY <1>14 DEF Handshake
<1>15. ASSUME Acquire PROVE NothingEarly' /\ NoTunnel' /\ TakenDown'
  BY <1>15 DEF Acquire, Dial, StreamOver
<1>16. ASSUME Send PROVE NothingEarly' /\ NoTunnel' /\ TakenDown'
  BY <1>16 DEF Send, StreamOver
<1>17. ASSUME StreamStops PROVE NothingEarly' /\ NoTunnel' /\ TakenDown'
  BY <1>17 DEF StreamStops, StreamOver
<1>18. ASSUME Emit PROVE NothingEarly' /\ NoTunnel' /\ TakenDown'
  BY <1>18 DEF Emit, Returned
<1>19. ASSUME StreamEnds PROVE NothingEarly' /\ NoTunnel' /\ TakenDown'
  BY <1>19 DEF StreamEnds, StreamOver
<1>20. ASSUME ServerAnswers PROVE NothingEarly' /\ NoTunnel' /\ TakenDown'
  BY <1>20 DEF ServerAnswers
<1>21. ASSUME TimerFires PROVE NothingEarly' /\ NoTunnel' /\ TakenDown'
  BY <1>21 DEF TimerFires, CancelBegins
<1>22. ASSUME NEW c \in Callers, Detach(c) PROVE NothingEarly' /\ NoTunnel' /\ TakenDown'
  BY <1>22 DEF Detach
<1>23. ASSUME NEW c \in Callers, TakeControl(c) PROVE NothingEarly' /\ NoTunnel' /\ TakenDown'
  BY <1>23 DEF TakeControl
<1>24. ASSUME NEW c \in Callers, Kill(c) PROVE NothingEarly' /\ NoTunnel' /\ TakenDown'
  BY <1>24 DEF Kill
<1>25. ASSUME AcceptEnds PROVE NothingEarly' /\ NoTunnel' /\ TakenDown'
  BY <1>25 DEF AcceptEnds
<1>26. ASSUME NEW l \in Links, Accept(l) PROVE NothingEarly' /\ NoTunnel' /\ TakenDown'
  BY <1>26 DEF Accept
<1>27. ASSUME NEW l \in Links, ForwardJoins(l) PROVE NothingEarly' /\ NoTunnel' /\ TakenDown'
  BY <1>27 DEF ForwardJoins
<1>28. ASSUME NEW l \in Links, ForwardFails(l) PROVE NothingEarly' /\ NoTunnel' /\ TakenDown'
  BY <1>28 DEF ForwardFails
<1>29. ASSUME NEW l \in Links, LinkEnds(l) PROVE NothingEarly' /\ NoTunnel' /\ TakenDown'
  BY <1>29 DEF LinkEnds
<1>30. ASSUME UNCHANGED vars PROVE NothingEarly' /\ NoTunnel' /\ TakenDown'
  BY <1>30 DEF vars, Pending, Returned
<1>31. QED
  BY <1>1, <1>2, <1>3, <1>4, <1>5, <1>6, <1>7, <1>8, <1>9, <1>10, <1>11,
     <1>12, <1>13, <1>14, <1>15, <1>16, <1>17, <1>18, <1>19, <1>20, <1>21,
     <1>22, <1>23, <1>24, <1>25, <1>26, <1>27, <1>28, <1>29, <1>30
     DEF Next, MainStep, StreamStep, CancelStep, Done

(* Every step keeps the rows' part of the invariant.                         *)
LEMMA RowsKept ==
  ASSUME TypeOK, QueryInv, [Next]_vars
  PROVE  EveryRowOnce' /\ WrittenIsRead' /\ SummaryIsTheVerdict'
<1> USE DEF TypeOK, QueryInv, EveryRowOnce, WrittenIsRead, SummaryIsTheVerdict, BeforeTunnel, BeforeOpen, Running, WayOut, None, Pending, Returned, tunnelVars, streamVars, cancelVars, outVars
<1>1. ASSUME Arguments PROVE EveryRowOnce' /\ WrittenIsRead' /\ SummaryIsTheVerdict'
  BY <1>1 DEF Arguments
<1>2. ASSUME Bastion PROVE EveryRowOnce' /\ WrittenIsRead' /\ SummaryIsTheVerdict'
  BY <1>2 DEF Bastion
<1>3. ASSUME OpenDials PROVE EveryRowOnce' /\ WrittenIsRead' /\ SummaryIsTheVerdict'
  BY <1>3 DEF OpenDials, Dial
<1>4. ASSUME Opened PROVE EveryRowOnce' /\ WrittenIsRead' /\ SummaryIsTheVerdict'
  <2>1. run = None /\ ~summary
    BY <1>4 DEF Opened, QueryInv, NothingEarly
  <2>2. QED
    BY <1>4, <2>1 DEF Opened
<1>5. ASSUME OpenFails PROVE EveryRowOnce' /\ WrittenIsRead' /\ SummaryIsTheVerdict'
  BY <1>5 DEF OpenFails
<1>6. ASSUME Read PROVE EveryRowOnce' /\ WrittenIsRead' /\ SummaryIsTheVerdict'
  <2> DEFINE n == Head(events)
             was == sent - n
  <2>1. /\ n \in Nat /\ n <= sent /\ was \in Nat /\ Pending = n
        /\ Pending' = 0 /\ sent' = sent /\ sent \in Nat
    BY <1>6 DEF Read, Pending
  <2>2. EveryRowOnce'
    BY <1>6, <2>1 DEF Read
  <2>3. SummaryIsTheVerdict'
    BY <1>6 DEF Read
  <2>4. WrittenIsRead'
    <3>1. CASE writeErr'
      BY <3>1
    <3>2. CASE ~writeErr'
      <4>1. /\ written = Min({was, MaxRows}) /\ (truncated <=> was > MaxRows)
            /\ written' = written + Min({n, MaxRows - written})
        BY <1>6, <2>1, <3>2 DEF Read, Room
      <4> HIDE DEF was
      <4>2. written = IF was <= MaxRows THEN was ELSE MaxRows
        BY <2>1, <4>1, MinOfTwo
      <4>3. Min({n, MaxRows - written})
              = IF n <= MaxRows - written THEN n ELSE MaxRows - written
        BY <2>1, <4>2, MinOfTwo
      <4>4. Min({sent, MaxRows}) = IF sent <= MaxRows THEN sent ELSE MaxRows
        BY <2>1, MinOfTwo
      <4>5. written' = Min({sent, MaxRows})
        <5>1. was = sent - n
          BY DEF was
        <5> HIDE DEF n, TypeOK, QueryInv, EveryRowOnce, WrittenIsRead
        <5>2. QED
          BY <2>1, <4>1, <4>2, <4>3, <4>4, <5>1
      <4>6. sent' - Pending' = sent
        BY <2>1
      <4> HIDE DEF Pending
      <4>7. CASE truncated
        <5>1. truncated' = TRUE
          BY <1>6, <3>2, <4>7 DEF Read
        <5>2. was > MaxRows /\ sent > MaxRows
          BY <2>1, <4>1, <4>7 DEF was
        <5>3. QED
          BY <4>5, <4>6, <5>1, <5>2
      <4>8. CASE ~truncated
        <5>1. truncated' = (n > MaxRows - written)
          BY <1>6, <3>2, <4>8 DEF Read, Room
        <5>2. written = was
          BY <2>1, <4>1, <4>2, <4>8
        <5>3. n > MaxRows - written <=> sent > MaxRows
          BY <2>1, <5>2 DEF was
        <5>4. QED
          BY <4>5, <4>6, <5>1, <5>3
      <4>9. QED
        BY <4>7, <4>8
    <3>3. QED
      BY <3>1, <3>2
  <2>5. QED
    BY <2>2, <2>3, <2>4
<1>7. ASSUME Cancelled PROVE EveryRowOnce' /\ WrittenIsRead' /\ SummaryIsTheVerdict'
  BY <1>7 DEF Cancelled
<1>8. ASSUME Decide PROVE EveryRowOnce' /\ WrittenIsRead' /\ SummaryIsTheVerdict'
  BY <1>8 DEF Decide, Outcome
<1>9. ASSUME Flush PROVE EveryRowOnce' /\ WrittenIsRead' /\ SummaryIsTheVerdict'
  BY <1>9 DEF Flush
<1>10. ASSUME CloseConn PROVE EveryRowOnce' /\ WrittenIsRead' /\ SummaryIsTheVerdict'
  BY <1>10 DEF CloseConn
<1>11. ASSUME CloseListener PROVE EveryRowOnce' /\ WrittenIsRead' /\ SummaryIsTheVerdict'
  BY <1>11 DEF CloseListener
<1>12. ASSUME CloseClient PROVE EveryRowOnce' /\ WrittenIsRead' /\ SummaryIsTheVerdict'
  BY <1>12 DEF CloseClient
<1>13. ASSUME Waited PROVE EveryRowOnce' /\ WrittenIsRead' /\ SummaryIsTheVerdict'
  BY <1>13 DEF Waited
<1>14. ASSUME Handshake PROVE EveryRowOnce' /\ WrittenIsRead' /\ SummaryIsTheVerdict'
  BY <1>14 DEF Handshake
<1>15. ASSUME Acquire PROVE EveryRowOnce' /\ WrittenIsRead' /\ SummaryIsTheVerdict'
  BY <1>15 DEF Acquire, Dial, StreamOver
<1>16. ASSUME Send PROVE EveryRowOnce' /\ WrittenIsRead' /\ SummaryIsTheVerdict'
  BY <1>16 DEF Send, StreamOver
<1>17. ASSUME StreamStops PROVE EveryRowOnce' /\ WrittenIsRead' /\ SummaryIsTheVerdict'
  BY <1>17 DEF StreamStops, StreamOver
<1>18. ASSUME Emit PROVE EveryRowOnce' /\ WrittenIsRead' /\ SummaryIsTheVerdict'
  <2> DEFINE n == Min({Chunk, Returned - sent})
  <2> HIDE DEF Returned
  <2>1. n \in Int /\ n <= Returned - sent
    BY ReturnedBounds, MinOfTwo
  <2> HIDE DEF n
  <2>2. Returned' = Returned /\ Returned \in Nat
    BY <1>18, ReturnedBounds DEF Emit, Returned
  <2>3. ~summary /\ run # "over" /\ run' # "over" /\ summary' = summary /\ err' = err
    BY <1>18 DEF Emit
  <2>4. Pending' <= sent' /\ sent' <= Returned /\ sent' - Pending' = sent - Pending
    <3>1. CASE run = "asked"
      BY <1>18, <3>1 DEF Emit
    <3>2. CASE run # "asked"
      <4>1. n > 0 /\ events' = <<n>> /\ sent' = sent + n /\ events = <<>>
        BY <1>18, <3>2 DEF Emit, n
      <4>2. QED
        BY <2>1, <2>2, <4>1
    <3>3. QED
      BY <3>1, <3>2
  <2>5. WrittenIsRead'
    BY <1>18, <2>4 DEF Emit
  <2>6. QED
    BY <2>2, <2>3, <2>4, <2>5
<1>19. ASSUME StreamEnds PROVE EveryRowOnce' /\ WrittenIsRead' /\ SummaryIsTheVerdict'
  BY <1>19 DEF StreamEnds, StreamOver
<1>20. ASSUME ServerAnswers PROVE EveryRowOnce' /\ WrittenIsRead' /\ SummaryIsTheVerdict'
  BY <1>20 DEF ServerAnswers
<1>21. ASSUME TimerFires PROVE EveryRowOnce' /\ WrittenIsRead' /\ SummaryIsTheVerdict'
  BY <1>21 DEF TimerFires, CancelBegins
<1>22. ASSUME NEW c \in Callers, Detach(c) PROVE EveryRowOnce' /\ WrittenIsRead' /\ SummaryIsTheVerdict'
  BY <1>22 DEF Detach
<1>23. ASSUME NEW c \in Callers, TakeControl(c) PROVE EveryRowOnce' /\ WrittenIsRead' /\ SummaryIsTheVerdict'
  BY <1>23 DEF TakeControl
<1>24. ASSUME NEW c \in Callers, Kill(c) PROVE EveryRowOnce' /\ WrittenIsRead' /\ SummaryIsTheVerdict'
  BY <1>24 DEF Kill
<1>25. ASSUME AcceptEnds PROVE EveryRowOnce' /\ WrittenIsRead' /\ SummaryIsTheVerdict'
  BY <1>25 DEF AcceptEnds
<1>26. ASSUME NEW l \in Links, Accept(l) PROVE EveryRowOnce' /\ WrittenIsRead' /\ SummaryIsTheVerdict'
  BY <1>26 DEF Accept
<1>27. ASSUME NEW l \in Links, ForwardJoins(l) PROVE EveryRowOnce' /\ WrittenIsRead' /\ SummaryIsTheVerdict'
  BY <1>27 DEF ForwardJoins
<1>28. ASSUME NEW l \in Links, ForwardFails(l) PROVE EveryRowOnce' /\ WrittenIsRead' /\ SummaryIsTheVerdict'
  BY <1>28 DEF ForwardFails
<1>29. ASSUME NEW l \in Links, LinkEnds(l) PROVE EveryRowOnce' /\ WrittenIsRead' /\ SummaryIsTheVerdict'
  BY <1>29 DEF LinkEnds
<1>30. ASSUME UNCHANGED vars PROVE EveryRowOnce' /\ WrittenIsRead' /\ SummaryIsTheVerdict'
  BY <1>30 DEF vars, Pending, Returned
<1>31. QED
  BY <1>1, <1>2, <1>3, <1>4, <1>5, <1>6, <1>7, <1>8, <1>9, <1>10, <1>11,
     <1>12, <1>13, <1>14, <1>15, <1>16, <1>17, <1>18, <1>19, <1>20, <1>21,
     <1>22, <1>23, <1>24, <1>25, <1>26, <1>27, <1>28, <1>29, <1>30
     DEF Next, MainStep, StreamStep, CancelStep, Done
(* The types and the invariant of headless.Run and of the way out: neither   *)
(* is inductive without the other.                                           *)
THEOREM Invariance == Spec => [](TypeOK /\ QueryInv)
<1>1. TypeOK /\ QueryInv /\ [Next]_vars => TypeOK' /\ QueryInv'
  BY TypeKept, TunnelKept, RowsKept DEF QueryInv
<1>2. QED
  BY InitInvariant, <1>1, PTL DEF Spec

(* Every variable of the query keeps to its type.                            *)
THEOREM TypeCorrect == Spec => []TypeOK
BY Invariance, PTL

(* A summary is written only for a result that was read to its end or to the *)
(* cap, and it says which of the two it was.                                 *)
THEOREM SummaryIsTrue == Spec => []SummaryMeansWhole
<1>1. TypeOK /\ QueryInv => SummaryMeansWhole
  <2> SUFFICES ASSUME TypeOK, QueryInv, summary PROVE SummaryMeansWhole
    BY DEF SummaryMeansWhole
  <2>1. sent = Returned /\ Pending = 0 /\ ~writeErr
    BY DEF QueryInv, SummaryIsTheVerdict, EveryRowOnce, Pending
  <2>2. rows \in Nat
    BY DEF TypeOK
  <2>3. sent = IF rows <= MaxRows + 1 THEN rows ELSE MaxRows + 1
    BY <2>1, ReturnedBounds
  <2>4. /\ Min({rows, MaxRows}) = IF rows <= MaxRows THEN rows ELSE MaxRows
        /\ Min({sent, MaxRows}) = IF sent <= MaxRows THEN sent ELSE MaxRows
    BY <2>2, <2>3, MinOfTwo
  <2>5. sent - Pending = sent
    BY <2>1, <2>2, <2>3
  <2>6. written = Min({sent, MaxRows}) /\ (truncated <=> sent > MaxRows)
    BY <2>1, <2>5 DEF QueryInv, WrittenIsRead
  <2>7. QED
    BY <2>2, <2>3, <2>4, <2>6 DEF SummaryMeansWhole
<1>2. QED
  BY Invariance, <1>1, PTL

(* Whichever way the program ends, the tunnel's listener, SSH connection,    *)
(* accept loop and forwards have ended before it.                            *)
THEOREM NothingIsLeft == Spec => []NothingOutlivesTheQuery
<1>1. QueryInv => NothingOutlivesTheQuery
  BY DEF QueryInv, TakenDown, NothingOutlivesTheQuery, Forwarding
<1>2. QED
  BY Invariance, <1>1, PTL
=============================================================================
