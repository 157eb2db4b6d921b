----------------------------- MODULE ConnProofs -----------------------------
(***************************************************************************)
(* What Conn promises for any number of statements, connections and        *)
(* callers, any pool limit and every bound: type correctness; the          *)
(* inductive invariant ConnInv of who holds which connection, with the     *)
(* four properties it contains; the inductive invariant SentInv of which   *)
(* statement is where; and from the two that Cancel stops the server and   *)
(* that Conn implements StreamContract.                                    *)
(***************************************************************************)
EXTENDS Conn, TLAPS

USE NamesAreDistinct

(* Every variable keeps its type, and a goroutine has a connection in its    *)
(* hands exactly at the steps between acquiring and releasing one.           *)
THEOREM TypeCorrect == Spec => []TypeOK
<1>1. Init => TypeOK
  <2> SUFFICES ASSUME Init PROVE TypeOK
    OBVIOUS
  <2> USE DEF Init
  <2>1. link \in [Conns -> LinkState] /\ closed \in BOOLEAN
    BY DEF LinkState
  <2>2. wire \in [Conns -> Streams \cup {None}] /\ server \in [Conns -> Streams \cup {None}]
    OBVIOUS
  <2>3. serverTx \in [Conns -> TxState] /\ reply \in [Streams -> Reply]
    BY DEF Reply, TxState
  <2>4. tx \in Conns \cup {None} /\ txBusy \in BOOLEAN
    OBVIOUS
  <2>5. pc \in [Streams -> RunState] /\ at \in [Streams -> Conns \cup {None}]
    BY DEF RunState
  <2>6. pinned \in [Streams -> BOOLEAN] /\ connID \in [Streams -> Conns \cup {None}]
    OBVIOUS
  <2>7. ctxDone \in [Streams -> BOOLEAN] /\ err \in [Streams -> Outcome]
    BY DEF Outcome
  <2>8. cancel \in [Streams -> CancelState]
    BY DEF CancelState
  <2>9. control \in Streams \cup {Catalog, None} /\ controlAlive \in BOOLEAN
    OBVIOUS
  <2>10. op \in [Callers -> OpState] /\ opAt \in [Callers -> Conns \cup {None}]
    BY DEF OpState
  <2>11. \A s \in Streams : at[s] # None <=> pc[s] \in Holding
    BY DEF Holding
  <2>12. \A k \in Callers : opAt[k] # None <=> op[k] \in HoldingOp
    BY DEF HoldingOp
  <2>13. QED
    BY <2>1, <2>2, <2>3, <2>4, <2>5, <2>6, <2>7, <2>8, <2>9, <2>10, <2>11, <2>12 DEF TypeOK
<1>2. TypeOK /\ [Next]_vars => TypeOK'
  <2> SUFFICES ASSUME TypeOK, [Next]_vars PROVE TypeOK'
    OBVIOUS
  <2> USE DEF TypeOK, LinkState, Reply, RunState, TxState, Outcome, CancelState, OpState,
         Holding, HoldingOp, poolVars, serverVars, txVars, streamVars, controlVars, opVars
  <2>1. ASSUME NEW s \in Streams, AcquirePinned(s) PROVE TypeOK'
    BY <2>1 DEF AcquirePinned, IdIs
  <2>2. ASSUME NEW s \in Streams, AcquireRefused(s) PROVE TypeOK'
    BY <2>2 DEF AcquireRefused
  <2>3. ASSUME NEW s \in Streams, AcquirePool(s) PROVE TypeOK'
    BY <2>3 DEF AcquirePool
  <2>4. ASSUME NEW s \in Streams, NEW c \in Conns, PoolGrant(s, c) PROVE TypeOK'
    BY <2>4 DEF PoolGrant
  <2>5. ASSUME NEW s \in Streams, DialFails(s) PROVE TypeOK'
    BY <2>5 DEF DialFails, Failure
  <2>6. ASSUME NEW s \in Streams, Identify(s) PROVE TypeOK'
    BY <2>6 DEF Identify, IdIs
  <2>7. ASSUME NEW s \in Streams, IdentifyFails(s) PROVE TypeOK'
    BY <2>7 DEF IdentifyFails, GiveBackUnidentified, Returned, Failure
  <2>8. ASSUME NEW s \in Streams, Send(s) PROVE TypeOK'
    BY <2>8 DEF Send
  <2>9. ASSUME NEW s \in Streams, NotSent(s) PROVE TypeOK'
    BY <2>9 DEF NotSent, MayBreak, Failure
  <2>10. ASSUME NEW s \in Streams, Answered(s) PROVE TypeOK'
    BY <2>10 DEF Answered
  <2>11. ASSUME NEW s \in Streams, Detached(s) PROVE TypeOK'
    BY <2>11 DEF Detached, Done
  <2>12. ASSUME NEW s \in Streams, Broken(s) PROVE TypeOK'
    BY <2>12 DEF Broken, Failure
  <2>13. ASSUME NEW s \in Streams, ReadWarnings(s) PROVE TypeOK'
    BY <2>13 DEF ReadWarnings, MayBreak, Done
  <2>14. ASSUME NEW s \in Streams, Release(s) PROVE TypeOK'
    <3>1. CASE pinned[s]
      BY <2>14, <3>1 DEF Release, ReleasePinned
    <3>2. CASE ~pinned[s]
      BY <2>14, <3>2 DEF Release, ReleasePooled, Returned
    <3>3. QED
      BY <3>1, <3>2
  <2>15. ASSUME NEW s \in Streams, CloseEvents(s) PROVE TypeOK'
    BY <2>15 DEF CloseEvents
  <2>16. ASSUME NEW s \in Streams, CancelDetach(s) PROVE TypeOK'
    BY <2>16 DEF CancelDetach, CancelFn
  <2>17. ASSUME NEW s \in Streams, CancelReadId(s) PROVE TypeOK'
    BY <2>17 DEF CancelReadId
  <2>18. ASSUME NEW s \in Streams, CancelControl(s) PROVE TypeOK'
    BY <2>18 DEF CancelControl
  <2>19. ASSUME NEW s \in Streams, Kill(s) PROVE TypeOK'
    BY <2>19 DEF Kill, Interrupt
  <2>20. ASSUME NEW s \in Streams, CancelTimeout(s) PROVE TypeOK'
    BY <2>20 DEF CancelTimeout, EndsAtDeadline
  <2>21. ASSUME NEW s \in Streams, Query(s) PROVE TypeOK'
    BY <2>21 DEF Query
  <2>22. ASSUME NEW s \in Streams, CancelBegin(s) PROVE TypeOK'
    BY <2>22 DEF CancelBegin, Finished
  <2>23. ASSUME NEW s \in Streams, CloseStream(s) PROVE TypeOK'
    BY <2>23 DEF CloseStream, CancelFn
  <2>24. ASSUME NEW s \in Streams, Retire(s) PROVE TypeOK'
    BY <2>24 DEF Retire
  <2>25. ASSUME NEW k \in Callers, Begin(k) PROVE TypeOK'
    BY <2>25 DEF Begin
  <2>26. ASSUME NEW k \in Callers, NEW c \in Conns, BeginDial(k, c) PROVE TypeOK'
    BY <2>26 DEF BeginDial
  <2>27. ASSUME NEW k \in Callers, BeginDialFails(k) PROVE TypeOK'
    BY <2>27 DEF BeginDialFails
  <2>28. ASSUME NEW k \in Callers, BeginStarted(k) PROVE TypeOK'
    BY <2>28 DEF BeginStarted
  <2>29. ASSUME NEW k \in Callers, BeginFails(k) PROVE TypeOK'
    BY <2>29 DEF BeginFails, Returned
  <2>30. ASSUME NEW k \in Callers, BeginPublish(k) PROVE TypeOK'
    BY <2>30 DEF BeginPublish
  <2>31. ASSUME NEW k \in Callers, BeginLoses(k) PROVE TypeOK'
    BY <2>31 DEF BeginLoses
  <2>32. ASSUME NEW k \in Callers, EndTransaction(k) PROVE TypeOK'
    BY <2>32 DEF EndTransaction, TakeTransaction
  <2>33. ASSUME NEW k \in Callers, Ended(k) PROVE TypeOK'
    BY <2>33 DEF Ended, Returned, AfterEnd
  <2>34. ASSUME NEW k \in Callers, CloseBegin(k) PROVE TypeOK'
    BY <2>34 DEF CloseBegin, TakeTransaction
  <2>35. ASSUME NEW k \in Callers, Shutdown(k) PROVE TypeOK'
    BY <2>35 DEF Shutdown
  <2>36. ASSUME NEW c \in Conns, Arrives(c) PROVE TypeOK'
    BY <2>36 DEF Arrives
  <2>37. ASSUME NEW c \in Conns, ServerFinishes(c) PROVE TypeOK'
    <3> USE <2>37 DEF ServerFinishes
    <3>1. UNCHANGED <<poolVars, wire, txVars, streamVars, controlVars, opVars>>
      OBVIOUS
    <3>2. serverTx' \in [Conns -> TxState]
      OBVIOUS
    <3>3. server' \in [Conns -> Streams \cup {None}] /\ reply' \in [Streams -> Reply]
      OBVIOUS
    <3>4. QED
      BY <3>1, <3>2, <3>3
  <2>38. ASSUME NEW c \in Conns, Reap(c) PROVE TypeOK'
    BY <2>38 DEF Reap
  <2>39. ASSUME NEW c \in Conns, LinkBreaks(c) PROVE TypeOK'
    BY <2>39 DEF LinkBreaks
  <2>40. ASSUME NEW c \in Conns, Recycle(c) PROVE TypeOK'
    BY <2>40 DEF Recycle
  <2>41. ASSUME CatalogBegin PROVE TypeOK'
    BY <2>41 DEF CatalogBegin
  <2>42. ASSUME CatalogEnd PROVE TypeOK'
    BY <2>42 DEF CatalogEnd
  <2>43. CASE UNCHANGED vars
    BY <2>43 DEF vars
  <2>44. QED
    BY <2>1, <2>2, <2>3, <2>4, <2>5, <2>6, <2>7, <2>8, <2>9, <2>10, <2>11,
       <2>12, <2>13, <2>14, <2>15, <2>16, <2>17, <2>18, <2>19, <2>20, <2>21,
       <2>22, <2>23, <2>24, <2>25, <2>26, <2>27, <2>28, <2>29, <2>30, <2>31,
       <2>32, <2>33, <2>34, <2>35, <2>36, <2>37, <2>38, <2>39, <2>40, <2>41,
       <2>42, <2>43
       DEF Next, StreamStep, CancelStep, UserStep, CallerStep, ServerStep
<1>3. QED
  BY <1>1, <1>2, PTL DEF Spec

-----------------------------------------------------------------------------
\* What ConnInv is about: a step that leaves these alone cannot disturb it.
ownVars == <<link, serverTx, tx, txBusy, at, pinned, op, opAt>>

LEMMA Untouched ==
  ASSUME ConnInv, UNCHANGED ownVars,
         \A s \in Streams : pc'[s] = "identify" => pc[s] = "identify"
  PROVE  ConnInv'
BY DEF ConnInv, ownVars, OneUserPerConnection, OnlyAFailedEndLeavesATransaction, Kept, NoConnectionLeaks,
       BusyHasHolder, PinnedIsBusy, HeldIsOpen, NotYetStarted

\* What the pool hands out is in nobody's hands and has no transaction open.
LEMMA GrantedIsFree ==
  ASSUME TypeOK, ConnInv, NEW c \in Conns, Grantable(c)
  PROVE  /\ \A s \in Streams : at[s] # c
         /\ \A k \in Callers : opAt[k] # c
         /\ tx # c
         /\ serverTx[c] # "open"
<1> USE DEF ConnInv
<1>1. link[c] \in {"new", "idle"}
  BY DEF Grantable
<1>2. (\A s \in Streams : at[s] # c) /\ (\A k \in Callers : opAt[k] # c) /\ tx # c
  BY <1>1 DEF HeldIsOpen
<1>3. CASE link[c] = "new"
  BY <1>2, <1>3 DEF NotYetStarted
<1>4. CASE link[c] = "idle"
  BY <1>2, <1>4 DEF OnlyAFailedEndLeavesATransaction, Kept, Live
<1>5. QED
  BY <1>1, <1>2, <1>3, <1>4

(* The state of the session's connections stays consistent: see ConnInv.      *)
THEOREM ConnInvariant == Spec => []ConnInv
<1>1. Init => ConnInv
  BY DEF Init, ConnInv, OneUserPerConnection, OnlyAFailedEndLeavesATransaction, Kept, NoConnectionLeaks,
         BusyHasHolder, PinnedIsBusy, HeldIsOpen, NotYetStarted, Live
<1>2. TypeOK /\ ConnInv /\ [Next]_vars => ConnInv'
  <2> SUFFICES ASSUME TypeOK, ConnInv, [Next]_vars PROVE ConnInv'
    OBVIOUS
  <2> USE DEF TypeOK, LinkState, Live, Holding, HoldingOp, OpState,
         poolVars, serverVars, txVars, streamVars, controlVars, opVars,
         ConnInv, OneUserPerConnection, OnlyAFailedEndLeavesATransaction, Kept,
         NoConnectionLeaks, BusyHasHolder, PinnedIsBusy, HeldIsOpen, NotYetStarted, TxState
  <2>1. ASSUME NEW s \in Streams, AcquirePinned(s) PROVE ConnInv'
    BY <2>1 DEF AcquirePinned
  <2>2. ASSUME NEW s \in Streams, AcquireRefused(s) PROVE ConnInv'
    BY <2>2, Untouched DEF AcquireRefused, ownVars
  <2>3. ASSUME NEW s \in Streams, AcquirePool(s) PROVE ConnInv'
    BY <2>3, Untouched DEF AcquirePool, ownVars
  <2>4. ASSUME NEW s \in Streams, NEW c \in Conns, PoolGrant(s, c) PROVE ConnInv'
    <3> USE <2>4 DEF PoolGrant
    <3>1. /\ \A s1 \in Streams : at[s1] # c
          /\ \A k1 \in Callers : opAt[k1] # c
          /\ tx # c /\ serverTx[c] # "open"
      BY GrantedIsFree
    <3>2. OneUserPerConnection'
      BY <3>1
    <3>3. OnlyAFailedEndLeavesATransaction'
      BY <3>1
    <3>4. NoConnectionLeaks'
      BY <3>1
    <3>5. BusyHasHolder'
      BY <3>1
    <3>6. PinnedIsBusy'
      BY <3>1
    <3>7. HeldIsOpen'
      BY <3>1
    <3>8. NotYetStarted'
      BY <3>1
    <3>9. QED
      BY <3>2, <3>3, <3>4, <3>5, <3>6, <3>7, <3>8
  <2>5. ASSUME NEW s \in Streams, DialFails(s) PROVE ConnInv'
    BY <2>5, Untouched DEF DialFails, ownVars
  <2>6. ASSUME NEW s \in Streams, Identify(s) PROVE ConnInv'
    BY <2>6, Untouched DEF Identify, ownVars
  <2>7. ASSUME NEW s \in Streams, IdentifyFails(s) PROVE ConnInv'
    <3> USE <2>7 DEF IdentifyFails
    <3>9. PICK l \in {"idle", "closed"} :
             link' = [link EXCEPT ![at[s]] = l] /\ at[s] # None /\ ~pinned[s] /\ (l = "idle" => link[at[s]] = "used")
      BY DEF GiveBackUnidentified, Returned
    <3>1. OneUserPerConnection'
      BY <3>9
    <3>2. OnlyAFailedEndLeavesATransaction'
      BY <3>9
    <3>3. NoConnectionLeaks'
      BY <3>9
    <3>4. BusyHasHolder'
      BY <3>9
    <3>5. PinnedIsBusy'
      BY <3>9
    <3>6. HeldIsOpen'
      BY <3>9
    <3>7. NotYetStarted'
      BY <3>9
    <3>8. QED
      BY <3>1, <3>2, <3>3, <3>4, <3>5, <3>6, <3>7
  <2>8. ASSUME NEW s \in Streams, Send(s) PROVE ConnInv'
    BY <2>8, Untouched DEF Send, ownVars
  <2>9. ASSUME NEW s \in Streams, NotSent(s) PROVE ConnInv'
    BY <2>9 DEF NotSent, MayBreak, Failure
  <2>10. ASSUME NEW s \in Streams, Answered(s) PROVE ConnInv'
    BY <2>10, Untouched DEF Answered, ownVars
  <2>11. ASSUME NEW s \in Streams, Detached(s) PROVE ConnInv'
    <3>1. /\ link' = [link EXCEPT ![at[s]] = "bad"] /\ at[s] \in Conns
          /\ pc' = [pc EXCEPT ![s] = "release"]
          /\ UNCHANGED <<serverTx, tx, txBusy, at, pinned, op, opAt>>
      BY <2>11 DEF Detached
    <3>2. OneUserPerConnection' /\ BusyHasHolder' /\ PinnedIsBusy'
      BY <3>1
    <3>3. OnlyAFailedEndLeavesATransaction'
      BY <3>1
    <3>4. NoConnectionLeaks'
      BY <3>1
    <3>5. HeldIsOpen' /\ NotYetStarted'
      BY <3>1
    <3>6. QED
      BY <3>2, <3>3, <3>4, <3>5
  <2>12. ASSUME NEW s \in Streams, Broken(s) PROVE ConnInv'
    BY <2>12, Untouched DEF Broken, ownVars
  <2>13. ASSUME NEW s \in Streams, ReadWarnings(s) PROVE ConnInv'
    BY <2>13 DEF ReadWarnings, MayBreak, Done
  <2>14. ASSUME NEW s \in Streams, Release(s) PROVE ConnInv'
    <3>1. CASE pinned[s]
      BY <2>14, <3>1 DEF Release, ReleasePinned
    <3>2. CASE ~pinned[s]
      <4>1. /\ link' = [link EXCEPT ![at[s]] = Returned(at[s])]
            /\ at' = [at EXCEPT ![s] = None]
            /\ at[s] # None /\ at[s] # tx
            /\ UNCHANGED <<serverTx, tx, txBusy, op, opAt>>
        BY <2>14, <3>2 DEF Release, ReleasePooled
      <4>2. pinned' = pinned /\ pc'[s] = "drained"
        BY <2>14, <3>2 DEF Release
      <4>3. \A t \in Streams \ {s} : pc'[t] = pc[t]
        BY <2>14 DEF Release
      <4>4. QED
        BY <4>1, <4>2, <4>3, <3>2 DEF Returned
    <3>3. QED
      BY <3>1, <3>2
  <2>15. ASSUME NEW s \in Streams, CloseEvents(s) PROVE ConnInv'
    BY <2>15, Untouched DEF CloseEvents, ownVars
  <2>16. ASSUME NEW s \in Streams, CancelDetach(s) PROVE ConnInv'
    BY <2>16, Untouched DEF CancelDetach, ownVars
  <2>17. ASSUME NEW s \in Streams, CancelReadId(s) PROVE ConnInv'
    BY <2>17, Untouched DEF CancelReadId, ownVars
  <2>18. ASSUME NEW s \in Streams, CancelControl(s) PROVE ConnInv'
    BY <2>18, Untouched DEF CancelControl, ownVars
  <2>19. ASSUME NEW s \in Streams, Kill(s) PROVE ConnInv'
    BY <2>19, Untouched DEF Kill, ownVars
  <2>20. ASSUME NEW s \in Streams, CancelTimeout(s) PROVE ConnInv'
    BY <2>20, Untouched DEF CancelTimeout, ownVars
  <2>21. ASSUME NEW s \in Streams, Query(s) PROVE ConnInv'
    BY <2>21, Untouched DEF Query, ownVars
  <2>22. ASSUME NEW s \in Streams, CancelBegin(s) PROVE ConnInv'
    BY <2>22, Untouched DEF CancelBegin, ownVars
  <2>23. ASSUME NEW s \in Streams, CloseStream(s) PROVE ConnInv'
    BY <2>23, Untouched DEF CloseStream, ownVars
  <2>24. ASSUME NEW s \in Streams, Retire(s) PROVE ConnInv'
    BY <2>24, Untouched DEF Retire, ownVars
  <2>25. ASSUME NEW k \in Callers, Begin(k) PROVE ConnInv'
    BY <2>25 DEF Begin
  <2>26. ASSUME NEW k \in Callers, NEW c \in Conns, BeginDial(k, c) PROVE ConnInv'
    <3> USE <2>26 DEF BeginDial
    <3>1. /\ \A s1 \in Streams : at[s1] # c
          /\ \A k1 \in Callers : opAt[k1] # c
          /\ tx # c /\ serverTx[c] # "open"
      BY GrantedIsFree
    <3>2. OneUserPerConnection'
      BY <3>1
    <3>3. OnlyAFailedEndLeavesATransaction'
      BY <3>1
    <3>4. NoConnectionLeaks'
      BY <3>1
    <3>5. BusyHasHolder'
      BY <3>1
    <3>6. PinnedIsBusy'
      BY <3>1
    <3>7. HeldIsOpen'
      BY <3>1
    <3>8. NotYetStarted'
      BY <3>1
    <3>9. QED
      BY <3>2, <3>3, <3>4, <3>5, <3>6, <3>7, <3>8
  <2>27. ASSUME NEW k \in Callers, BeginDialFails(k) PROVE ConnInv'
    BY <2>27 DEF BeginDialFails
  <2>28. ASSUME NEW k \in Callers, BeginStarted(k) PROVE ConnInv'
    <3> USE <2>28 DEF BeginStarted
    <3>1. OneUserPerConnection'
      OBVIOUS
    <3>2. OnlyAFailedEndLeavesATransaction'
      OBVIOUS
    <3>3. NoConnectionLeaks'
      OBVIOUS
    <3>4. BusyHasHolder'
      OBVIOUS
    <3>5. PinnedIsBusy'
      OBVIOUS
    <3>6. HeldIsOpen'
      OBVIOUS
    <3>7. NotYetStarted'
      OBVIOUS
    <3>8. QED
      BY <3>1, <3>2, <3>3, <3>4, <3>5, <3>6, <3>7
  <2>29. ASSUME NEW k \in Callers, BeginFails(k) PROVE ConnInv'
    BY <2>29 DEF BeginFails, Returned
  <2>30. ASSUME NEW k \in Callers, BeginPublish(k) PROVE ConnInv'
    BY <2>30 DEF BeginPublish
  <2>31. ASSUME NEW k \in Callers, BeginLoses(k) PROVE ConnInv'
    BY <2>31 DEF BeginLoses
  <2>32. ASSUME NEW k \in Callers, EndTransaction(k) PROVE ConnInv'
    BY <2>32 DEF EndTransaction, TakeTransaction
  <2>33. ASSUME NEW k \in Callers, Ended(k) PROVE ConnInv'
    BY <2>33 DEF Ended, Returned, AfterEnd
  <2>34. ASSUME NEW k \in Callers, CloseBegin(k) PROVE ConnInv'
    <3>1. CASE TakeTransaction(k, "rollback")
      <4> USE <2>34, <3>1 DEF CloseBegin, TakeTransaction
      <4>1. OneUserPerConnection'
        OBVIOUS
      <4>2. OnlyAFailedEndLeavesATransaction'
        OBVIOUS
      <4>3. NoConnectionLeaks'
        OBVIOUS
      <4>4. BusyHasHolder' /\ PinnedIsBusy'
        OBVIOUS
      <4>5. HeldIsOpen'
        OBVIOUS
      <4>6. NotYetStarted'
        OBVIOUS
      <4>7. QED
        BY <4>1, <4>2, <4>3, <4>4, <4>5, <4>6
    <3>2. CASE /\ tx = None \/ txBusy
               /\ op' = [op EXCEPT ![k] = "shutdown"]
               /\ UNCHANGED <<tx, opAt>>
      BY <2>34, <3>2 DEF CloseBegin
    <3>3. QED
      BY <2>34, <3>1, <3>2 DEF CloseBegin
  <2>35. ASSUME NEW k \in Callers, Shutdown(k) PROVE ConnInv'
    BY <2>35 DEF Shutdown
  <2>36. ASSUME NEW c \in Conns, Arrives(c) PROVE ConnInv'
    BY <2>36, Untouched DEF Arrives, ownVars
  <2>37. ASSUME NEW c \in Conns, ServerFinishes(c) PROVE ConnInv'
    <3>1. UNCHANGED <<link, tx, txBusy, at, pinned, op, opAt, pc>>
      BY <2>37 DEF ServerFinishes
    <3>2. \A d \in Conns : serverTx'[d] \in {serverTx[d], "none"}
      BY <2>37 DEF ServerFinishes
    <3>3. QED
      BY <3>1, <3>2
  <2>38. ASSUME NEW c \in Conns, Reap(c) PROVE ConnInv'
    BY <2>38 DEF Reap
  <2>39. ASSUME NEW c \in Conns, LinkBreaks(c) PROVE ConnInv'
    BY <2>39 DEF LinkBreaks
  <2>40. ASSUME NEW c \in Conns, Recycle(c) PROVE ConnInv'
    BY <2>40 DEF Recycle
  <2>41. ASSUME CatalogBegin PROVE ConnInv'
    BY <2>41, Untouched DEF CatalogBegin, ownVars
  <2>42. ASSUME CatalogEnd PROVE ConnInv'
    BY <2>42, Untouched DEF CatalogEnd, ownVars
  <2>43. CASE UNCHANGED vars
    BY <2>43 DEF vars
  <2>44. QED
    BY <2>1, <2>2, <2>3, <2>4, <2>5, <2>6, <2>7, <2>8, <2>9, <2>10, <2>11,
       <2>12, <2>13, <2>14, <2>15, <2>16, <2>17, <2>18, <2>19, <2>20, <2>21,
       <2>22, <2>23, <2>24, <2>25, <2>26, <2>27, <2>28, <2>29, <2>30, <2>31,
       <2>32, <2>33, <2>34, <2>35, <2>36, <2>37, <2>38, <2>39, <2>40, <2>41,
       <2>42, <2>43
       DEF Next, StreamStep, CancelStep, UserStep, CallerStep, ServerStep
<1>3. QED
  BY <1>1, <1>2, TypeCorrect, PTL DEF Spec

(* No connection is ever used by two goroutines at once, whatever the number  *)
(* of statements, transactions and cancellations in flight.                   *)
THEOREM OneUser == Spec => []OneUserPerConnection
<1>1. ConnInv => OneUserPerConnection
  BY DEF ConnInv
<1>2. QED
  BY <1>1, ConnInvariant, PTL

(* Only a COMMIT or ROLLBACK that failed leaves a transaction open on a       *)
(* connection the pool may hand out: no lost race, cancelled statement or     *)
(* failed Begin does.                                                         *)
THEOREM OnlyAFailedEndPoolsOne == Spec => []OnlyAFailedEndLeavesATransaction
<1>1. ConnInv => OnlyAFailedEndLeavesATransaction
  BY DEF ConnInv
<1>2. QED
  BY <1>1, ConnInvariant, PTL

(* No failure path of acquire, run, Begin or endTransaction keeps a           *)
(* connection for good.                                                       *)
THEOREM NoLeaks == Spec => []NoConnectionLeaks
<1>1. ConnInv => NoConnectionLeaks
  BY DEF ConnInv
<1>2. QED
  BY <1>1, ConnInvariant, PTL

(* txBusy is set only while a statement of the open transaction is in flight. *)
THEOREM BusyMeansInFlight == Spec => []BusyHasHolder
<1>1. ConnInv => BusyHasHolder
  BY DEF ConnInv
<1>2. QED
  BY <1>1, ConnInvariant, PTL

-----------------------------------------------------------------------------
\* What SentInv is about.
sentVars == <<link, wire, server, reply, pc, at, connID, ctxDone, cancel>>

LEMMA Unsent == ASSUME SentInv, UNCHANGED sentVars PROVE SentInv'
BY DEF SentInv, sentVars, SentOnItsConnection, OneAtATime, IdIsTheConnection, Sent, IsAt,
       AnsweredAfterSent, CancelInOrder

(* Where a statement is on its way to the server and back stays consistent    *)
(* with its connection, its answer and its Cancel: see SentInv.               *)
THEOREM SentInvariant == Spec => []SentInv
<1>1. Init => SentInv
  BY DEF Init, SentInv, SentOnItsConnection, OneAtATime, IdIsTheConnection, Sent, IsAt,
         AnsweredAfterSent, CancelInOrder
<1>2. TypeOK /\ ConnInv /\ SentInv /\ [Next]_vars => SentInv'
  <2> SUFFICES ASSUME TypeOK, ConnInv, SentInv, [Next]_vars PROVE SentInv'
    OBVIOUS
  <2> USE DEF TypeOK, LinkState, Live, Holding, HoldingOp, Reply, CancelState,
         poolVars, serverVars, txVars, streamVars, controlVars, opVars,
         ConnInv, OneUserPerConnection, PinnedIsBusy, HeldIsOpen,
         SentInv, SentOnItsConnection, OneAtATime, IdIsTheConnection, Sent, IsAt,
         AnsweredAfterSent, CancelInOrder
  <2>1. ASSUME NEW s \in Streams, AcquirePinned(s) PROVE SentInv'
    BY <2>1 DEF AcquirePinned, IdIs
  <2>2. ASSUME NEW s \in Streams, AcquireRefused(s) PROVE SentInv'
    BY <2>2 DEF AcquireRefused
  <2>3. ASSUME NEW s \in Streams, AcquirePool(s) PROVE SentInv'
    BY <2>3 DEF AcquirePool
  <2>4. ASSUME NEW s \in Streams, NEW c \in Conns, PoolGrant(s, c) PROVE SentInv'
    BY <2>4 DEF PoolGrant, Grantable
  <2>5. ASSUME NEW s \in Streams, DialFails(s) PROVE SentInv'
    BY <2>5 DEF DialFails, Failure
  <2>6. ASSUME NEW s \in Streams, Identify(s) PROVE SentInv'
    BY <2>6 DEF Identify, IdIs
  <2>7. ASSUME NEW s \in Streams, IdentifyFails(s) PROVE SentInv'
    BY <2>7 DEF IdentifyFails, GiveBackUnidentified, Returned, Failure
  <2>8. ASSUME NEW s \in Streams, Send(s) PROVE SentInv'
    BY <2>8 DEF Send
  <2>9. ASSUME NEW s \in Streams, NotSent(s) PROVE SentInv'
    BY <2>9 DEF NotSent, MayBreak, Failure
  <2>10. ASSUME NEW s \in Streams, Answered(s) PROVE SentInv'
    BY <2>10 DEF Answered
  <2>11. ASSUME NEW s \in Streams, Detached(s) PROVE SentInv'
    BY <2>11 DEF Detached, Done, ContextNoticed
  <2>12. ASSUME NEW s \in Streams, Broken(s) PROVE SentInv'
    BY <2>12 DEF Broken, Failure
  <2>13. ASSUME NEW s \in Streams, ReadWarnings(s) PROVE SentInv'
    BY <2>13 DEF ReadWarnings, MayBreak, Done
  <2>14. ASSUME NEW s \in Streams, Release(s) PROVE SentInv'
    BY <2>14 DEF Release, ReleasePinned, ReleasePooled, Returned
  <2>15. ASSUME NEW s \in Streams, CloseEvents(s) PROVE SentInv'
    BY <2>15 DEF CloseEvents
  <2>16. ASSUME NEW s \in Streams, CancelDetach(s) PROVE SentInv'
    BY <2>16 DEF CancelDetach, CancelFn
  <2>17. ASSUME NEW s \in Streams, CancelReadId(s) PROVE SentInv'
    BY <2>17 DEF CancelReadId
  <2>18. ASSUME NEW s \in Streams, CancelControl(s) PROVE SentInv'
    BY <2>18 DEF CancelControl
  <2>19. ASSUME NEW s \in Streams, Kill(s) PROVE SentInv'
    <3>1. UNCHANGED <<link, wire, pc, at, connID, ctxDone>>
      BY <2>19 DEF Kill
    <3>2. CASE controlAlive
      <4>1. /\ cancel' = [cancel EXCEPT ![s] = "ok"]
            /\ Interrupt(connID[s])
            /\ connID[s] \in Conns /\ ctxDone[s] /\ pc[s] # "idle"
        BY <2>19, <3>2 DEF Kill
      <4>2. /\ server' = [server EXCEPT ![connID[s]] = None]
            /\ \A t \in Streams : reply'[t] = reply[t] \/ t = server[connID[s]]
        BY <4>1 DEF Interrupt
      <4>3. SentOnItsConnection' /\ OneAtATime'
        BY <3>1, <4>1, <4>2
      <4>4. IdIsTheConnection'
        BY <3>1
      <4>5. AnsweredAfterSent'
        BY <3>1, <4>1, <4>2
      <4>6. CancelInOrder'
        BY <3>1, <4>1
      <4>7. QED
        BY <4>3, <4>4, <4>5, <4>6
    <3>3. CASE ~controlAlive
      BY <2>19, <3>1, <3>3 DEF Kill
    <3>4. QED
      BY <3>2, <3>3
  <2>20. ASSUME NEW s \in Streams, CancelTimeout(s) PROVE SentInv'
    BY <2>20 DEF CancelTimeout, EndsAtDeadline
  <2>21. ASSUME NEW s \in Streams, Query(s) PROVE SentInv'
    BY <2>21 DEF Query
  <2>22. ASSUME NEW s \in Streams, CancelBegin(s) PROVE SentInv'
    BY <2>22 DEF CancelBegin, Finished
  <2>23. ASSUME NEW s \in Streams, CloseStream(s) PROVE SentInv'
    BY <2>23 DEF CloseStream, CancelFn
  <2>24. ASSUME NEW s \in Streams, Retire(s) PROVE SentInv'
    BY <2>24 DEF Retire
  <2>25. ASSUME NEW k \in Callers, Begin(k) PROVE SentInv'
    BY <2>25, Unsent DEF Begin, sentVars
  <2>26. ASSUME NEW k \in Callers, NEW c \in Conns, BeginDial(k, c) PROVE SentInv'
    BY <2>26 DEF BeginDial, Grantable
  <2>27. ASSUME NEW k \in Callers, BeginDialFails(k) PROVE SentInv'
    BY <2>27, Unsent DEF BeginDialFails, sentVars
  <2>28. ASSUME NEW k \in Callers, BeginStarted(k) PROVE SentInv'
    BY <2>28, Unsent DEF BeginStarted, sentVars
  <2>29. ASSUME NEW k \in Callers, BeginFails(k) PROVE SentInv'
    BY <2>29 DEF BeginFails, Returned
  <2>30. ASSUME NEW k \in Callers, BeginPublish(k) PROVE SentInv'
    BY <2>30, Unsent DEF BeginPublish, sentVars
  <2>31. ASSUME NEW k \in Callers, BeginLoses(k) PROVE SentInv'
    BY <2>31, Unsent DEF BeginLoses, sentVars
  <2>32. ASSUME NEW k \in Callers, EndTransaction(k) PROVE SentInv'
    BY <2>32, Unsent DEF EndTransaction, sentVars, TakeTransaction
  <2>33. ASSUME NEW k \in Callers, Ended(k) PROVE SentInv'
    BY <2>33 DEF Ended, Returned
  <2>34. ASSUME NEW k \in Callers, CloseBegin(k) PROVE SentInv'
    BY <2>34, Unsent DEF CloseBegin, sentVars, TakeTransaction
  <2>35. ASSUME NEW k \in Callers, Shutdown(k) PROVE SentInv'
    BY <2>35 DEF Shutdown
  <2>36. ASSUME NEW c \in Conns, Arrives(c) PROVE SentInv'
    BY <2>36 DEF Arrives
  <2>37. ASSUME NEW c \in Conns, ServerFinishes(c) PROVE SentInv'
    BY <2>37 DEF ServerFinishes
  <2>38. ASSUME NEW c \in Conns, Reap(c) PROVE SentInv'
    BY <2>38, Unsent DEF Reap, sentVars
  <2>39. ASSUME NEW c \in Conns, LinkBreaks(c) PROVE SentInv'
    BY <2>39 DEF LinkBreaks
  <2>40. ASSUME NEW c \in Conns, Recycle(c) PROVE SentInv'
    BY <2>40 DEF Recycle
  <2>41. ASSUME CatalogBegin PROVE SentInv'
    BY <2>41, Unsent DEF CatalogBegin, sentVars
  <2>42. ASSUME CatalogEnd PROVE SentInv'
    BY <2>42, Unsent DEF CatalogEnd, sentVars
  <2>43. CASE UNCHANGED vars
    BY <2>43, Unsent DEF vars, sentVars
  <2>44. QED
    BY <2>1, <2>2, <2>3, <2>4, <2>5, <2>6, <2>7, <2>8, <2>9, <2>10, <2>11, <2>12, <2>13,
       <2>14, <2>15, <2>16, <2>17, <2>18, <2>19, <2>20, <2>21, <2>22, <2>23, <2>24,
       <2>25, <2>26, <2>27, <2>28, <2>29, <2>30, <2>31, <2>32, <2>33, <2>34, <2>35,
       <2>36, <2>37, <2>38, <2>39, <2>40, <2>41, <2>42, <2>43
       DEF Next, StreamStep, CancelStep, UserStep, CallerStep, ServerStep
<1>3. QED
  BY <1>1, <1>2, TypeCorrect, ConnInvariant, PTL DEF Spec

(* Cancel never passes by a statement the server runs: the id it reads is the *)
(* one its statement is sent on, and no id means that nothing is sent.        *)
THEOREM CancelIsAimed == Spec => CancelFindsItsStatement
<1>1. TypeOK /\ SentInv /\ [Next]_vars =>
        [\A s \in Streams : cancel[s] # "ok" /\ cancel'[s] = "ok" =>
           /\ \A c \in Conns : server'[c] # s
           /\ ctxDone'[s]]_vars
  <2> SUFFICES ASSUME TypeOK, SentInv, [Next]_vars,
                      NEW s \in Streams, cancel[s] # "ok", cancel'[s] = "ok"
               PROVE  (\A c \in Conns : server'[c] # s) /\ ctxDone'[s]
    OBVIOUS
  <2> USE DEF TypeOK, SentInv, IsAt
  <2>1. CancelReadId(s) \/ Kill(s)
    <3>1. ~UNCHANGED cancel
      OBVIOUS
    <3>2. PICK t \in Streams : CancelStep(t) \/ CancelBegin(t) \/ Retire(t)
      BY <3>1 DEF Next, StreamStep, UserStep, CallerStep, ServerStep, vars, controlVars,
         AcquirePinned, AcquireRefused, AcquirePool, PoolGrant, DialFails, Identify,
         IdentifyFails, Send, NotSent, Answered, Detached, Broken, ReadWarnings, Release,
         CloseEvents, Query, CloseStream, CatalogBegin, CatalogEnd, Begin, BeginDial,
         BeginDialFails, BeginStarted, BeginFails, BeginPublish, BeginLoses, EndTransaction,
         Ended, CloseBegin, Shutdown, Arrives, ServerFinishes, Reap, LinkBreaks, Recycle
    <3>3. QED
      BY <3>2 DEF CancelStep, CancelDetach, CancelReadId, CancelControl, Kill, CancelTimeout,
         CancelBegin, Retire
  <2>2. CASE CancelReadId(s)
    <3>1. connID[s] = None /\ ctxDone[s] /\ UNCHANGED <<server, ctxDone>>
      BY <2>2 DEF CancelReadId, CancelInOrder, serverVars, streamVars
    <3>2. QED
      BY <3>1 DEF SentOnItsConnection
  <2>3. CASE Kill(s)
    <3>1. Interrupt(connID[s]) /\ connID[s] \in Conns /\ ctxDone[s] /\ UNCHANGED ctxDone
      BY <2>3 DEF Kill, CancelInOrder, streamVars
    <3>2. server' = [server EXCEPT ![connID[s]] = None]
      BY <3>1 DEF Interrupt
    <3>3. QED
      BY <3>1, <3>2 DEF SentOnItsConnection
  <2>4. QED
    BY <2>1, <2>2, <2>3
<1>2. QED
  BY <1>1, TypeCorrect, SentInvariant, PTL DEF Spec, CancelFindsItsStatement

-----------------------------------------------------------------------------
(* Conn implements StreamContract.  What the contract sees of a statement:   *)
phase   == [s \in Streams |-> PhaseOf(s)]
work    == [s \in Streams |-> WorkOf(s)]
outcome == [s \in Streams |-> IF Finished(s) THEN err[s] ELSE "none"]
stopped == [s \in Streams |-> cancel[s] = "ok"]
Underway == {"acquire", "dial", "identify", "ready", "running", "warnings"}

\* The phases are the groups of steps their names say, before and after.
LEMMA PhaseIs ==
  ASSUME TypeOK, TypeOK', NEW s \in Streams
  PROVE  /\ PhaseOf(s) = "idle" <=> pc[s] = "idle"
         /\ PhaseOf(s) = "open" <=> pc[s] \in Underway
         /\ PhaseOf(s) = "over" <=> pc[s] \in {"release", "drained"}
         /\ PhaseOf(s) = "closed" <=> pc[s] = "closed"
         /\ PhaseOf(s) \in {"idle", "open", "over", "closed"}
         /\ PhaseOf(s)' = "idle" <=> pc'[s] = "idle"
         /\ PhaseOf(s)' = "open" <=> pc'[s] \in Underway
         /\ PhaseOf(s)' = "over" <=> pc'[s] \in {"release", "drained"}
         /\ PhaseOf(s)' = "closed" <=> pc'[s] = "closed"
         /\ PhaseOf(s)' \in {"idle", "open", "over", "closed"}
<1>1. pc[s] \in RunState /\ pc'[s] \in RunState
  BY DEF TypeOK
<1>2. QED
  BY <1>1 DEF PhaseOf, Finished, Underway, RunState

\* Where a statement's work is, is told by the wire and the server alone.
LEMMA WorkIs ==
  ASSUME TypeOK, SentInv, NEW s \in Streams
  PROVE  /\ WorkOf(s) = "sent" <=> \E c \in Conns : wire[c] = s
         /\ WorkOf(s) = "running" <=> \E c \in Conns : server[c] = s
         /\ WorkOf(s) \in {"ok", "refused", "killed"} <=> reply[s] # "none"
         /\ reply[s] # "none" => WorkOf(s) = reply[s]
         /\ WorkOf(s) \in {"none", "sent", "running", "ok", "refused", "killed"}
<1>1. reply[s] \in Reply
  BY DEF TypeOK
<1>2. /\ \A c \in Conns : wire[c] = s \/ server[c] = s => reply[s] = "none" /\ connID[s] = c
      /\ \A c \in Conns : wire[c] = None \/ server[c] = None
  BY DEF SentInv, SentOnItsConnection, OneAtATime, IsAt
<1>3. s # None
  OBVIOUS
<1>4. CASE reply[s] # "none"
  BY <1>1, <1>2, <1>4 DEF WorkOf, Reply
<1>5. CASE reply[s] = "none" /\ \E c \in Conns : server[c] = s
  BY <1>2, <1>3, <1>5 DEF WorkOf
<1>6. CASE reply[s] = "none" /\ ~\E c \in Conns : server[c] = s
  BY <1>2, <1>3, <1>6 DEF WorkOf
<1>7. QED
  BY <1>4, <1>5, <1>6

\* A step that leaves the statements at the server alone leaves their work.
LEMMA SameWork == ASSUME UNCHANGED <<wire, server, reply>> PROVE UNCHANGED work
<1>1. ASSUME NEW s \in Streams PROVE WorkOf(s)' = WorkOf(s)
  BY DEF WorkOf
<1>2. QED
  BY <1>1 DEF work

\* Steps the contract does not see.
LEMMA NotSeen ==
  ASSUME TypeOK, TypeOK', UNCHANGED <<wire, server, reply, ctxDone, err>>,
         \A s \in Streams : cancel'[s] = "ok" <=> cancel[s] = "ok",
         \A s \in Streams : \/ pc'[s] = pc[s]
                            \/ pc[s] \in Underway /\ pc'[s] \in Underway
                            \/ pc[s] = "release" /\ pc'[s] = "drained"
  PROVE  UNCHANGED Contract!vars
<1>1. UNCHANGED work
  BY SameWork
<1>2. ASSUME NEW s \in Streams PROVE PhaseOf(s)' = PhaseOf(s) /\ (Finished(s)' <=> Finished(s))
  BY PhaseIs DEF Finished, Underway
<1>3. UNCHANGED <<phase, outcome>>
  BY <1>2 DEF phase, outcome
<1>4. UNCHANGED stopped
  BY DEF stopped
<1>5. QED
  BY <1>1, <1>3, <1>4 DEF Contract!vars, phase, work, outcome, stopped

\* A statement whose outcome is decided: as the contract allows, if the
\* outcome is one it allows.
LEMMA EndsWell ==
  ASSUME TypeOK, TypeOK', SentInv, NEW s \in Streams,
         NEW p \in {"release", "drained"}, NEW o \in Outcome,
         pc[s] \in Underway, pc' = [pc EXCEPT ![s] = p], err' = [err EXCEPT ![s] = o],
         UNCHANGED <<wire, server, reply, ctxDone, cancel>>,
         o = "nil" => reply[s] = "ok" /\ ~ctxDone[s],
         o = "killed" => reply[s] = "killed",
         o = "cancelled" => ctxDone[s]
  PROVE  Contract!End(s)
<1>1. UNCHANGED work
  BY SameWork
<1>2. UNCHANGED stopped
  BY DEF stopped
<1>3. phase[s] = "open" /\ phase' = [phase EXCEPT ![s] = "over"]
  <2>1. PhaseOf(s) = "open" /\ PhaseOf(s)' = "over"
    BY PhaseIs DEF TypeOK
  <2>2. ASSUME NEW t \in Streams, t # s PROVE PhaseOf(t)' = PhaseOf(t)
    BY <2>2 DEF PhaseOf, Finished, TypeOK
  <2>3. QED
    BY <2>1, <2>2 DEF phase
<1>4. outcome' = [outcome EXCEPT ![s] = o]
  BY DEF outcome, Finished, TypeOK
<1>5. o \in {"nil", "killed", "cancelled", "failed"}
  BY DEF Outcome
<1>6. /\ o = "nil" => work[s] = "ok" /\ ~ctxDone[s]
      /\ o = "killed" => work[s] = "killed"
      /\ o = "cancelled" => ctxDone[s]
  BY WorkIs DEF work
<1>7. QED
  BY <1>1, <1>2, <1>3, <1>4, <1>5, <1>6 DEF Contract!End, phase, work, outcome, stopped

\* Steps of the server and of Cancel: the statement itself stands still.
LEMMA SameSides ==
  ASSUME TypeOK, TypeOK', UNCHANGED err,
         \A s \in Streams : cancel'[s] = "ok" <=> cancel[s] = "ok",
         \A s \in Streams : \/ pc'[s] = pc[s]
                            \/ pc[s] \in Underway /\ pc'[s] \in Underway
  PROVE  UNCHANGED <<phase, outcome, stopped>>
<1>1. ASSUME NEW s \in Streams PROVE PhaseOf(s)' = PhaseOf(s) /\ (Finished(s)' <=> Finished(s))
  BY PhaseIs DEF Finished, Underway
<1>2. UNCHANGED <<phase, outcome>>
  BY <1>1 DEF phase, outcome
<1>3. UNCHANGED stopped
  BY DEF stopped
<1>4. QED
  BY <1>2, <1>3

\* A statement is only ever sent on a connection with none on its way or at
\* the server.
LEMMA FreeToSend ==
  ASSUME TypeOK, ConnInv, SentInv, NEW s \in Streams, Send(s)
  PROVE  wire[at[s]] = None /\ server[at[s]] = None
<1>1. pc[s] = "ready" /\ link[at[s]] = "used" /\ at[s] \in Conns
  BY DEF Send, TypeOK, Holding
<1>2. \A t \in Streams : IsAt(t, at[s]) => at[t] = at[s] /\ pc[t] = "running"
  BY <1>1 DEF SentInv, SentOnItsConnection, Live
<1>3. \A t \in Streams : at[t] = at[s] => t = s
  BY <1>1 DEF ConnInv, OneUserPerConnection
<1>4. QED
  BY <1>1, <1>2, <1>3 DEF IsAt, TypeOK

(* Every statement keeps its promises, however many there are, whatever       *)
(* connections they use and whoever else uses them: each step of Conn is a    *)
(* step of its contract, or none of its business.                             *)
THEOREM ImplementsTheContract == Spec => KeepsTheContract
<1>1. Init => Contract!Init
  <2> SUFFICES ASSUME Init PROVE Contract!Init
    OBVIOUS
  <2>1. \A s \in Streams : /\ PhaseOf(s) = "idle" /\ WorkOf(s) = "none"
                           /\ ~Finished(s) /\ cancel[s] = "idle"
    BY DEF Init, PhaseOf, WorkOf, Finished
  <2>2. QED
    BY <2>1 DEF Contract!Init, Init
<1>2. TypeOK /\ TypeOK' /\ ConnInv /\ SentInv /\ [Next]_vars => [Contract!Next]_(Contract!vars)
  <2> SUFFICES ASSUME TypeOK, TypeOK', ConnInv, SentInv, [Next]_vars
               PROVE  [Contract!Next]_(Contract!vars)
    OBVIOUS
  <2> USE DEF poolVars, serverVars, txVars, streamVars, controlVars, opVars
  <2>0. /\ pc \in [Streams -> RunState] /\ ctxDone \in [Streams -> BOOLEAN]
        /\ cancel \in [Streams -> CancelState] /\ reply \in [Streams -> Reply]
        /\ wire \in [Conns -> Streams \cup {None}] /\ server \in [Conns -> Streams \cup {None}]
        /\ err \in [Streams -> Outcome]
    BY DEF TypeOK
  <2>1. ASSUME NEW s \in Streams, AcquirePinned(s) PROVE [Contract!Next]_(Contract!vars)
    BY <2>1, NotSeen DEF TypeOK, AcquirePinned, Underway
  <2>2. ASSUME NEW s \in Streams, AcquireRefused(s) PROVE [Contract!Next]_(Contract!vars)
    <3>1. /\ pc[s] \in Underway /\ pc' = [pc EXCEPT ![s] = "drained"]
          /\ err' = [err EXCEPT ![s] = "failed"]
          /\ UNCHANGED <<wire, server, reply, ctxDone, cancel>>
      BY <2>2 DEF TypeOK, SentInv, AcquireRefused, Underway
    <3>2. "failed" \in Outcome
      BY DEF Outcome
    <3>4. Contract!End(s)
      BY <3>1, <3>2, EndsWell
    <3>5. QED
      BY <3>4 DEF Contract!Next
  <2>3. ASSUME NEW s \in Streams, AcquirePool(s) PROVE [Contract!Next]_(Contract!vars)
    BY <2>3, NotSeen DEF TypeOK, AcquirePool, Underway
  <2>4. ASSUME NEW s \in Streams, NEW c \in Conns, PoolGrant(s, c) PROVE [Contract!Next]_(Contract!vars)
    BY <2>4, NotSeen DEF TypeOK, PoolGrant, Underway
  <2>5. ASSUME NEW s \in Streams, DialFails(s) PROVE [Contract!Next]_(Contract!vars)
    <3>1. /\ pc[s] \in Underway /\ pc' = [pc EXCEPT ![s] = "drained"]
          /\ err' = [err EXCEPT ![s] = Failure(s)]
          /\ UNCHANGED <<wire, server, reply, ctxDone, cancel>>
      BY <2>5 DEF TypeOK, SentInv, DialFails, Underway
    <3>2. Failure(s) \in Outcome
      BY DEF Outcome, Failure
    <3>3. /\ Failure(s) = "nil" => reply[s] = "ok" /\ ~ctxDone[s]
          /\ Failure(s) # "killed"
          /\ Failure(s) = "cancelled" => ctxDone[s]
      BY <2>5 DEF TypeOK, SentInv, DialFails, Failure, AnsweredAfterSent
    <3>4. Contract!End(s)
      BY <3>1, <3>2, <3>3, EndsWell
    <3>5. QED
      BY <3>4 DEF Contract!Next
  <2>6. ASSUME NEW s \in Streams, Identify(s) PROVE [Contract!Next]_(Contract!vars)
    BY <2>6, NotSeen DEF TypeOK, Identify, Underway
  <2>7. ASSUME NEW s \in Streams, IdentifyFails(s) PROVE [Contract!Next]_(Contract!vars)
    <3>1. /\ pc[s] \in Underway /\ pc' = [pc EXCEPT ![s] = "drained"]
          /\ err' = [err EXCEPT ![s] = Failure(s)]
          /\ UNCHANGED <<wire, server, reply, ctxDone, cancel>>
      BY <2>7 DEF TypeOK, SentInv, IdentifyFails, Underway
    <3>2. Failure(s) \in Outcome
      BY DEF Outcome, Failure
    <3>3. /\ Failure(s) = "nil" => reply[s] = "ok" /\ ~ctxDone[s]
          /\ Failure(s) # "killed"
          /\ Failure(s) = "cancelled" => ctxDone[s]
      BY <2>7 DEF TypeOK, SentInv, IdentifyFails, Failure, AnsweredAfterSent
    <3>4. Contract!End(s)
      BY <3>1, <3>2, <3>3, EndsWell
    <3>5. QED
      BY <3>4 DEF Contract!Next
  <2>8. ASSUME NEW s \in Streams, Send(s) PROVE [Contract!Next]_(Contract!vars)
    <3>1. /\ ~ctxDone[s] /\ pc[s] = "ready" /\ at[s] \in Conns
          /\ wire' = [wire EXCEPT ![at[s]] = s] /\ pc' = [pc EXCEPT ![s] = "running"]
          /\ UNCHANGED <<server, reply, ctxDone, err, cancel>>
      BY <2>8 DEF TypeOK, SentInv, Send, Holding
    <3>2. work' = [work EXCEPT ![s] = "sent"]
      <4>1. wire[at[s]] = None /\ server[at[s]] = None
        BY <2>8, FreeToSend
      <4>2. reply[s] = "none" /\ \A c \in Conns : wire[c] # s /\ server[c] # s
        BY <3>1 DEF TypeOK, SentInv, AnsweredAfterSent, SentOnItsConnection, Sent, IsAt, Reply
      <4>3. WorkOf(s)' = "sent"
        BY <2>0, <3>1, <4>2 DEF WorkOf
      <4>4. ASSUME NEW t \in Streams, t # s PROVE WorkOf(t)' = WorkOf(t)
        BY <3>1, <4>1, <4>4 DEF WorkOf
      <4>5. QED
        BY <4>3, <4>4 DEF work
    <3>3. phase[s] = "open" /\ work[s] = "none" /\ cancel[s] # "ok"
      BY <3>1, PhaseIs, WorkIs DEF phase, work, Underway, SentInv, AnsweredAfterSent,
         SentOnItsConnection,
         Sent, IsAt, CancelInOrder
    <3>4. UNCHANGED <<phase, outcome, stopped>>
      <4>1. \A t \in Streams : pc'[t] = pc[t] \/ (pc[t] \in Underway /\ pc'[t] \in Underway)
        BY <2>0, <3>1 DEF Underway
      <4>2. QED
        BY <3>1, <4>1, SameSides
    <3>5. Contract!Send(s)
      BY <3>1, <3>2, <3>3, <3>4 DEF Contract!Send, phase, work, outcome, stopped
    <3>6. QED
      BY <3>5 DEF Contract!Next
  <2>9. ASSUME NEW s \in Streams, NotSent(s) PROVE [Contract!Next]_(Contract!vars)
    <3>1. /\ pc[s] \in Underway /\ pc' = [pc EXCEPT ![s] = "release"]
          /\ err' = [err EXCEPT ![s] = Failure(s)]
          /\ UNCHANGED <<wire, server, reply, ctxDone, cancel>>
      BY <2>9 DEF TypeOK, SentInv, NotSent, Underway
    <3>2. Failure(s) \in Outcome
      BY DEF Outcome, Failure
    <3>3. /\ Failure(s) = "nil" => reply[s] = "ok" /\ ~ctxDone[s]
          /\ Failure(s) # "killed"
          /\ Failure(s) = "cancelled" => ctxDone[s]
      BY <2>9 DEF TypeOK, SentInv, NotSent, Failure, AnsweredAfterSent
    <3>4. Contract!End(s)
      BY <3>1, <3>2, <3>3, EndsWell
    <3>5. QED
      BY <3>4 DEF Contract!Next
  <2>10. ASSUME NEW s \in Streams, Answered(s) PROVE [Contract!Next]_(Contract!vars)
    <3>1. CASE reply[s] = "ok"
      BY <2>10, <3>1, NotSeen DEF TypeOK, Answered, Underway
    <3>2. CASE reply[s] # "ok"
      <4> DEFINE o == IF reply[s] = "killed" THEN "killed" ELSE "failed"
      <4>1. /\ pc[s] \in Underway /\ pc' = [pc EXCEPT ![s] = "release"]
            /\ err' = [err EXCEPT ![s] = o]
            /\ UNCHANGED <<wire, server, reply, ctxDone, cancel>>
        BY <2>10, <3>2 DEF TypeOK, SentInv, Answered, Underway
      <4>2. /\ o \in Outcome /\ o # "nil" /\ o # "cancelled"
            /\ o = "killed" => reply[s] = "killed"
        BY DEF Outcome
      <4>3. Contract!End(s)
        BY <4>1, <4>2, EndsWell
      <4>4. QED
        BY <4>3 DEF Contract!Next
    <3>3. QED
      BY <3>1, <3>2
  <2>11. ASSUME NEW s \in Streams, Detached(s) PROVE [Contract!Next]_(Contract!vars)
    <3>1. PICK e \in {"nil", "cancelled"} : err' = [err EXCEPT ![s] = Done(s, e)]
      BY <2>11 DEF TypeOK, SentInv, Detached
    <3>2. Done(s, e) = "cancelled" /\ ctxDone[s]
      BY <2>11 DEF TypeOK, SentInv, Detached, ContextNoticed, Done
    <3>3. /\ pc[s] \in Underway /\ pc' = [pc EXCEPT ![s] = "release"]
          /\ UNCHANGED <<wire, server, reply, ctxDone, cancel>>
      BY <2>11 DEF TypeOK, SentInv, Detached, Underway
    <3>4. "cancelled" \in Outcome
      BY DEF Outcome
    <3>5. Contract!End(s)
      BY <3>1, <3>2, <3>3, <3>4, EndsWell
    <3>6. QED
      BY <3>5 DEF Contract!Next
  <2>12. ASSUME NEW s \in Streams, Broken(s) PROVE [Contract!Next]_(Contract!vars)
    <3>1. /\ pc[s] \in Underway /\ pc' = [pc EXCEPT ![s] = "release"]
          /\ err' = [err EXCEPT ![s] = Failure(s)]
          /\ UNCHANGED <<wire, server, reply, ctxDone, cancel>>
      BY <2>12 DEF TypeOK, SentInv, Broken, Underway
    <3>2. Failure(s) \in Outcome
      BY DEF Outcome, Failure
    <3>3. /\ Failure(s) = "nil" => reply[s] = "ok" /\ ~ctxDone[s]
          /\ Failure(s) # "killed"
          /\ Failure(s) = "cancelled" => ctxDone[s]
      BY <2>12 DEF TypeOK, SentInv, Broken, Failure, AnsweredAfterSent
    <3>4. Contract!End(s)
      BY <3>1, <3>2, <3>3, EndsWell
    <3>5. QED
      BY <3>4 DEF Contract!Next
  <2>13. ASSUME NEW s \in Streams, ReadWarnings(s) PROVE [Contract!Next]_(Contract!vars)
    <3>1. /\ pc[s] \in Underway /\ pc' = [pc EXCEPT ![s] = "release"]
          /\ err' = [err EXCEPT ![s] = Done(s, "nil")]
          /\ UNCHANGED <<wire, server, reply, ctxDone, cancel>>
      BY <2>13 DEF TypeOK, SentInv, ReadWarnings, Underway
    <3>2. Done(s, "nil") \in Outcome
      BY DEF Outcome, Done
    <3>3. /\ Done(s, "nil") = "nil" => reply[s] = "ok" /\ ~ctxDone[s]
          /\ Done(s, "nil") # "killed"
          /\ Done(s, "nil") = "cancelled" => ctxDone[s]
      BY <2>13 DEF TypeOK, SentInv, ReadWarnings, Done, AnsweredAfterSent
    <3>4. Contract!End(s)
      BY <3>1, <3>2, <3>3, EndsWell
    <3>5. QED
      BY <3>4 DEF Contract!Next
  <2>14. ASSUME NEW s \in Streams, Release(s) PROVE [Contract!Next]_(Contract!vars)
    BY <2>14, NotSeen DEF TypeOK, Release, Underway, ReleasePinned, ReleasePooled
  <2>15. ASSUME NEW s \in Streams, CloseEvents(s) PROVE [Contract!Next]_(Contract!vars)
    <3>1. phase[s] = "over" /\ phase' = [phase EXCEPT ![s] = "closed"]
      <4>1. PhaseOf(s) = "over" /\ PhaseOf(s)' = "closed"
        <5>1. pc[s] = "drained" /\ pc'[s] = "closed"
          BY <2>0, <2>15 DEF CloseEvents
        <5>2. QED
          BY <5>1, PhaseIs
      <4>2. ASSUME NEW t \in Streams, t # s PROVE PhaseOf(t)' = PhaseOf(t)
        BY <2>15, <4>2 DEF PhaseOf, Finished, CloseEvents
      <4>3. QED
        BY <4>1, <4>2 DEF phase
    <3>2. UNCHANGED outcome
      BY <2>15 DEF TypeOK, SentInv, CloseEvents, outcome, Finished
    <3>3. UNCHANGED <<work, ctxDone, stopped>>
      BY <2>15, SameWork DEF CloseEvents, stopped
    <3>4. Contract!CloseEvents(s)
      BY <3>1, <3>2, <3>3 DEF Contract!CloseEvents, phase, work, outcome, stopped
    <3>5. QED
      BY <3>4 DEF Contract!Next
  <2>16. ASSUME NEW s \in Streams, CancelDetach(s) PROVE [Contract!Next]_(Contract!vars)
    <3>1. /\ pc[s] # "idle" /\ ctxDone' = [ctxDone EXCEPT ![s] = TRUE]
          /\ UNCHANGED <<wire, server, reply, pc, err>>
          /\ \A t \in Streams : cancel'[t] = "ok" <=> cancel[t] = "ok"
      BY <2>16 DEF TypeOK, SentInv, CancelDetach, CancelFn, CancelInOrder
    <3>2. UNCHANGED <<phase, outcome, stopped, work>> /\ phase[s] # "idle"
      BY <3>1, SameSides, SameWork, PhaseIs DEF phase
    <3>3. Contract!LetGo(s)
      BY <3>1, <3>2 DEF Contract!LetGo, phase, work, outcome, stopped
    <3>4. QED
      BY <3>3 DEF Contract!Next
  <2>17. ASSUME NEW s \in Streams, CancelReadId(s) PROVE [Contract!Next]_(Contract!vars)
    <3>1. CASE connID[s] # None
      BY <2>17, <3>1, NotSeen DEF TypeOK, CancelReadId
    <3>2. CASE connID[s] = None
      <4>1. /\ UNCHANGED <<pc, err, wire, server, reply, ctxDone>>
            /\ cancel' = [cancel EXCEPT ![s] = "ok"] /\ ctxDone[s] /\ cancel[s] # "ok"
        BY <2>17, <3>2 DEF TypeOK, SentInv, CancelReadId, CancelInOrder
      <4>2. \A c \in Conns : wire[c] # s /\ server[c] # s
        BY <3>2 DEF TypeOK, SentInv, SentOnItsConnection, IsAt
      <4>3. work[s] # "running"
        BY <4>2, WorkIs DEF work
      <4>4. stopped' = [stopped EXCEPT ![s] = TRUE] /\ ~stopped[s]
        BY <2>0, <4>1 DEF stopped
      <4>5. UNCHANGED <<phase, outcome, work>>
        BY <4>1, SameWork DEF phase, outcome, PhaseOf, Finished
      <4>6. Contract!Stop(s)
        BY <4>1, <4>3, <4>4, <4>5 DEF Contract!Stop, phase, work, outcome, stopped
      <4>7. QED
        BY <4>6 DEF Contract!Next
    <3>3. QED
      BY <3>1, <3>2
  <2>18. ASSUME NEW s \in Streams, CancelControl(s) PROVE [Contract!Next]_(Contract!vars)
    BY <2>18, NotSeen DEF TypeOK, CancelControl, Underway
  <2>19. ASSUME NEW s \in Streams, Kill(s) PROVE [Contract!Next]_(Contract!vars)
    <3>1. CASE ~controlAlive
      BY <2>19, <3>1, NotSeen DEF TypeOK, Kill
    <3>2. CASE controlAlive
      <4>0. PICK c \in Conns : c = connID[s]
        BY <2>19 DEF TypeOK, SentInv, Kill, CancelInOrder
      <4>1. /\ c = connID[s] /\ UNCHANGED <<pc, err, wire, ctxDone>>
            /\ cancel' = [cancel EXCEPT ![s] = "ok"] /\ ctxDone[s] /\ cancel[s] # "ok"
            /\ Interrupt(c)
        BY <2>19, <3>2, <4>0 DEF TypeOK, SentInv, Kill, CancelInOrder
      <4>2. stopped' = [stopped EXCEPT ![s] = TRUE] /\ ~stopped[s]
        BY <2>0, <4>1 DEF stopped
      <4>3. UNCHANGED <<phase, outcome>>
        BY <4>1 DEF phase, outcome, PhaseOf, Finished
      <4>4. ASSUME server[c] = None PROVE Contract!Stop(s)
        <5>1. UNCHANGED work
          BY <4>1, <4>4, SameWork DEF Interrupt
        <5>2. work[s] # "running"
          BY <4>1, <4>4, WorkIs DEF TypeOK, SentInv, work, SentOnItsConnection, IsAt
        <5>3. QED
          BY <4>1, <4>2, <4>3, <5>1, <5>2 DEF Contract!Stop, phase, work, outcome, stopped
      <4>5. ASSUME server[c] # None PROVE Contract!Stop(s)
        <5>0. PICK t \in Streams : t = server[c]
          BY <2>0, <4>5
        <5>1. server[c] = t /\ work[t] = "running" /\ reply[t] = "none"
          BY <4>1, <4>5, <5>0, WorkIs DEF TypeOK, SentInv, work, SentOnItsConnection, IsAt
        <5>2. work[s] = "running" => t = s
          BY <4>1, <5>1, WorkIs DEF TypeOK, SentInv, work, SentOnItsConnection, IsAt
        <5>3. work' = [work EXCEPT ![t] = "killed"]
          <6>1. reply' = [reply EXCEPT ![t] = "killed"] /\ server' = [server EXCEPT ![c] = None]
            BY <4>1, <4>5, <5>1 DEF Interrupt
          <6>2. WorkOf(t)' = "killed"
            BY <2>0, <5>1, <6>1 DEF WorkOf
          <6>3. ASSUME NEW u \in Streams, u # t PROVE WorkOf(u)' = WorkOf(u)
            BY <2>0, <4>1, <5>1, <6>1, <6>3 DEF WorkOf
          <6>4. QED
            BY <6>2, <6>3 DEF work
        <5>4. QED
          BY <4>1, <4>2, <4>3, <5>1, <5>2, <5>3
             DEF Contract!Stop, phase, work, outcome, stopped
      <4>6. Contract!Stop(s)
        BY <4>4, <4>5
      <4>7. QED
        BY <4>6 DEF Contract!Next
    <3>3. QED
      BY <3>1, <3>2
  <2>20. ASSUME NEW s \in Streams, CancelTimeout(s) PROVE [Contract!Next]_(Contract!vars)
    BY <2>20, NotSeen DEF TypeOK, CancelTimeout, Underway, EndsAtDeadline
  <2>21. ASSUME NEW s \in Streams, Query(s) PROVE [Contract!Next]_(Contract!vars)
    <3>1. /\ pc[s] = "idle" /\ pc' = [pc EXCEPT ![s] = "acquire"]
          /\ UNCHANGED <<wire, server, reply, err, ctxDone, cancel>>
      BY <2>21 DEF TypeOK, SentInv, Query
    <3>2. phase[s] = "idle" /\ phase' = [phase EXCEPT ![s] = "open"]
      <4>1. PhaseOf(s) = "idle" /\ PhaseOf(s)' = "open"
        <5>1. pc[s] = "idle" /\ pc'[s] = "acquire"
          BY <2>0, <3>1
        <5>2. QED
          BY <5>1, PhaseIs DEF Underway
      <4>2. ASSUME NEW t \in Streams, t # s PROVE PhaseOf(t)' = PhaseOf(t)
        BY <3>1, <4>2 DEF PhaseOf, Finished
      <4>3. QED
        BY <4>1, <4>2 DEF phase
    <3>3. UNCHANGED <<outcome, work, stopped>>
      BY <3>1, SameWork DEF outcome, Finished, stopped
    <3>4. Contract!Ask(s)
      BY <3>1, <3>2, <3>3 DEF Contract!Ask, phase, work, outcome, stopped
    <3>5. QED
      BY <3>4 DEF Contract!Next
  <2>22. ASSUME NEW s \in Streams, CancelBegin(s) PROVE [Contract!Next]_(Contract!vars)
    BY <2>22, NotSeen DEF TypeOK, CancelBegin, Underway, Finished
  <2>23. ASSUME NEW s \in Streams, CloseStream(s) PROVE [Contract!Next]_(Contract!vars)
    <3>1. /\ pc[s] # "idle" /\ ctxDone' = [ctxDone EXCEPT ![s] = TRUE]
          /\ UNCHANGED <<wire, server, reply, pc, err>>
          /\ \A t \in Streams : cancel'[t] = "ok" <=> cancel[t] = "ok"
      BY <2>23 DEF TypeOK, SentInv, CloseStream, CancelFn, CancelInOrder
    <3>2. UNCHANGED <<phase, outcome, stopped, work>> /\ phase[s] # "idle"
      BY <3>1, SameSides, SameWork, PhaseIs DEF phase
    <3>3. Contract!LetGo(s)
      BY <3>1, <3>2 DEF Contract!LetGo, phase, work, outcome, stopped
    <3>4. QED
      BY <3>3 DEF Contract!Next
  <2>24. ASSUME NEW s \in Streams, Retire(s) PROVE [Contract!Next]_(Contract!vars)
    <3>1. /\ pc[s] = "closed" /\ pc' = [pc EXCEPT ![s] = "idle"]
          /\ ctxDone' = [ctxDone EXCEPT ![s] = FALSE] /\ err' = [err EXCEPT ![s] = "nil"]
          /\ reply' = [reply EXCEPT ![s] = "none"] /\ cancel' = [cancel EXCEPT ![s] = "idle"]
          /\ UNCHANGED <<wire, server>>
          /\ \A c \in Conns : wire[c] # s /\ server[c] # s
      BY <2>24 DEF TypeOK, SentInv, Retire
    <3>2. phase[s] = "closed" /\ phase' = [phase EXCEPT ![s] = "idle"]
      <4>1. PhaseOf(s) = "closed" /\ PhaseOf(s)' = "idle"
        <5>1. pc[s] = "closed" /\ pc'[s] = "idle"
          BY <2>0, <3>1
        <5>2. QED
          BY <5>1, PhaseIs
      <4>2. ASSUME NEW t \in Streams, t # s PROVE PhaseOf(t)' = PhaseOf(t)
        BY <3>1, <4>2 DEF PhaseOf, Finished
      <4>3. QED
        BY <4>1, <4>2 DEF phase
    <3>3. work[s] \notin {"sent", "running"} /\ work' = [work EXCEPT ![s] = "none"]
      <4>1. work[s] \notin {"sent", "running"}
        BY <3>1, WorkIs DEF work
      <4>2. WorkOf(s)' = "none"
        BY <2>0, <3>1 DEF WorkOf
      <4>3. ASSUME NEW t \in Streams, t # s PROVE WorkOf(t)' = WorkOf(t)
        BY <3>1, <4>3 DEF WorkOf
      <4>4. QED
        BY <4>1, <4>2, <4>3 DEF work
    <3>4. outcome' = [outcome EXCEPT ![s] = "none"]
      BY <2>0, <3>1 DEF outcome, Finished
    <3>5. stopped' = [stopped EXCEPT ![s] = FALSE]
      BY <2>0, <3>1 DEF stopped
    <3>6. Contract!Retire(s)
      BY <3>1, <3>2, <3>3, <3>4, <3>5
         DEF Contract!Retire, Contract!AtServer, phase, work, outcome, stopped
    <3>7. QED
      BY <3>6 DEF Contract!Next
  <2>25. ASSUME NEW k \in Callers, Begin(k) PROVE [Contract!Next]_(Contract!vars)
    BY <2>25, NotSeen DEF TypeOK, Begin, Underway
  <2>26. ASSUME NEW k \in Callers, NEW c \in Conns, BeginDial(k, c) PROVE [Contract!Next]_(Contract!vars)
    BY <2>26, NotSeen DEF TypeOK, BeginDial, Underway
  <2>27. ASSUME NEW k \in Callers, BeginDialFails(k) PROVE [Contract!Next]_(Contract!vars)
    BY <2>27, NotSeen DEF TypeOK, BeginDialFails, Underway
  <2>28. ASSUME NEW k \in Callers, BeginStarted(k) PROVE [Contract!Next]_(Contract!vars)
    BY <2>28, NotSeen DEF TypeOK, BeginStarted, Underway
  <2>29. ASSUME NEW k \in Callers, BeginFails(k) PROVE [Contract!Next]_(Contract!vars)
    BY <2>29, NotSeen DEF TypeOK, BeginFails, Underway
  <2>30. ASSUME NEW k \in Callers, BeginPublish(k) PROVE [Contract!Next]_(Contract!vars)
    BY <2>30, NotSeen DEF TypeOK, BeginPublish, Underway
  <2>31. ASSUME NEW k \in Callers, BeginLoses(k) PROVE [Contract!Next]_(Contract!vars)
    BY <2>31, NotSeen DEF TypeOK, BeginLoses, Underway
  <2>32. ASSUME NEW k \in Callers, EndTransaction(k) PROVE [Contract!Next]_(Contract!vars)
    BY <2>32, NotSeen DEF TypeOK, EndTransaction, Underway, TakeTransaction
  <2>33. ASSUME NEW k \in Callers, Ended(k) PROVE [Contract!Next]_(Contract!vars)
    BY <2>33, NotSeen DEF TypeOK, Ended, Underway
  <2>34. ASSUME NEW k \in Callers, CloseBegin(k) PROVE [Contract!Next]_(Contract!vars)
    BY <2>34, NotSeen DEF TypeOK, CloseBegin, Underway, TakeTransaction
  <2>35. ASSUME NEW k \in Callers, Shutdown(k) PROVE [Contract!Next]_(Contract!vars)
    BY <2>35, NotSeen DEF TypeOK, Shutdown, Underway
  <2>36. ASSUME NEW c \in Conns, Arrives(c) PROVE [Contract!Next]_(Contract!vars)
    <3>0. PICK s \in Streams : s = wire[c]
      BY <2>0, <2>36 DEF Arrives
    <3>1. /\ wire[c] = s /\ wire' = [wire EXCEPT ![c] = None]
          /\ server' = [server EXCEPT ![c] = s] \/ server' = server
          /\ UNCHANGED <<pc, err, reply, ctxDone, cancel>>
      BY <2>36, <3>0 DEF TypeOK, SentInv, Arrives
    <3>2. /\ reply[s] = "none" /\ server[c] = None /\ work[s] = "sent"
          /\ \A d \in Conns : d # c => wire[d] # s
          /\ \A d \in Conns : server[d] # s
      BY <3>1, WorkIs DEF TypeOK, SentInv, work, SentOnItsConnection, OneAtATime, IsAt
    <3>3. UNCHANGED <<phase, outcome, stopped>>
      BY <3>1, SameSides
    <3>4. ASSUME NEW t \in Streams, t # s PROVE WorkOf(t)' = WorkOf(t)
      BY <3>1, <3>2, <3>4 DEF WorkOf
    <3>5. WorkOf(s)' \in {"running", "none"}
      BY <2>0, <3>1, <3>2 DEF WorkOf
    <3>6. \E w \in {"running", "none"} : work' = [work EXCEPT ![s] = w]
      BY <3>1, <3>4, <3>5 DEF work
    <3>7. Contract!Arrive(s)
      BY <3>1, <3>2, <3>3, <3>6 DEF Contract!Arrive, phase, work, outcome, stopped
    <3>8. QED
      BY <3>1, <3>7 DEF Contract!Next
  <2>37. ASSUME NEW c \in Conns, ServerFinishes(c) PROVE [Contract!Next]_(Contract!vars)
    <3>0. PICK s \in Streams : s = server[c]
      BY <2>0, <2>37 DEF ServerFinishes
    <3>1. /\ server[c] = s /\ server' = [server EXCEPT ![c] = None]
          /\ UNCHANGED <<pc, err, wire, ctxDone, cancel>>
      BY <2>37, <3>0 DEF TypeOK, SentInv, ServerFinishes
    <3>2. PICK r \in {"ok", "refused"} : reply' = [reply EXCEPT ![s] = r]
      BY <2>37, <3>0 DEF TypeOK, SentInv, ServerFinishes
    <3>3. reply[s] = "none" /\ work[s] = "running"
      BY <3>1, WorkIs DEF TypeOK, SentInv, work, SentOnItsConnection, IsAt
    <3>4. UNCHANGED <<phase, outcome, stopped>>
      BY <3>1, SameSides
    <3>5. ASSUME NEW t \in Streams, t # s PROVE WorkOf(t)' = WorkOf(t)
      BY <2>0, <3>1, <3>2, <3>5 DEF WorkOf
    <3>6. WorkOf(s)' = r
      BY <2>0, <3>1, <3>2 DEF WorkOf
    <3>7. work' = [work EXCEPT ![s] = r]
      BY <3>1, <3>5, <3>6 DEF work
    <3>8. Contract!Answer(s)
      BY <3>1, <3>2, <3>3, <3>4, <3>7 DEF Contract!Answer, Contract!Answers, phase,
         work, outcome, stopped
    <3>9. QED
      BY <3>1, <3>8 DEF Contract!Next
  <2>38. ASSUME NEW c \in Conns, Reap(c) PROVE [Contract!Next]_(Contract!vars)
    BY <2>38, NotSeen DEF TypeOK, Reap, Underway
  <2>39. ASSUME NEW c \in Conns, LinkBreaks(c) PROVE [Contract!Next]_(Contract!vars)
    BY <2>39, NotSeen DEF TypeOK, LinkBreaks, Underway
  <2>40. ASSUME NEW c \in Conns, Recycle(c) PROVE [Contract!Next]_(Contract!vars)
    BY <2>40, NotSeen DEF TypeOK, Recycle, Underway
  <2>41. ASSUME CatalogBegin PROVE [Contract!Next]_(Contract!vars)
    BY <2>41, NotSeen DEF TypeOK, CatalogBegin, Underway
  <2>42. ASSUME CatalogEnd PROVE [Contract!Next]_(Contract!vars)
    BY <2>42, NotSeen DEF TypeOK, CatalogEnd, Underway
  <2>43. CASE UNCHANGED vars
    BY <2>43, NotSeen DEF vars
  <2>44. QED
    BY <2>1, <2>2, <2>3, <2>4, <2>5, <2>6, <2>7, <2>8, <2>9, <2>10, <2>11, <2>12, <2>13,
       <2>14, <2>15, <2>16, <2>17, <2>18, <2>19, <2>20, <2>21, <2>22, <2>23, <2>24,
       <2>25, <2>26, <2>27, <2>28, <2>29, <2>30, <2>31, <2>32, <2>33, <2>34, <2>35,
       <2>36, <2>37, <2>38, <2>39, <2>40, <2>41, <2>42, <2>43
       DEF Next, StreamStep, CancelStep, UserStep, CallerStep, ServerStep
<1>3. QED
  BY <1>1, <1>2, TypeCorrect, ConnInvariant, SentInvariant, PTL DEF Spec, KeepsTheContract, Contract!Spec
=============================================================================
