--------------------------- MODULE StreamContract ---------------------------
(***************************************************************************)
(* What a statement promises to whoever sent it (the comments of           *)
(* db.Session, Stream.Err and Stream.Cancel), with no word of connections, *)
(* transactions or the control connection: module Conn implements it.      *)
(***************************************************************************)
CONSTANT Streams

VARIABLES
  phase,   \* "idle", "open", "over": its outcome is decided, "closed"
  work,    \* the server's side of it
  outcome, \* what it says of itself once it is over
  letGo,   \* somebody asked for it to stop
  stopped  \* Cancel said that it was

vars == <<phase, work, outcome, letGo, stopped>>

AtServer == {"sent", "running"}
Answers  == {"ok", "refused", "killed"}

Init ==
  /\ phase = [s \in Streams |-> "idle"]
  /\ work = [s \in Streams |-> "none"]
  /\ outcome = [s \in Streams |-> "none"]
  /\ letGo = [s \in Streams |-> FALSE]
  /\ stopped = [s \in Streams |-> FALSE]

Ask(s) ==
  /\ phase[s] = "idle"
  /\ phase' = [phase EXCEPT ![s] = "open"]
  /\ UNCHANGED <<work, outcome, letGo, stopped>>

\* Sent once, and never after it was let go.
Send(s) ==
  /\ phase[s] = "open" /\ work[s] = "none" /\ ~letGo[s] /\ ~stopped[s]
  /\ work' = [work EXCEPT ![s] = "sent"]
  /\ UNCHANGED <<phase, outcome, letGo, stopped>>

\* It may also be lost on the way.
Arrive(s) ==
  /\ work[s] = "sent"
  /\ \E w \in {"running", "none"} : work' = [work EXCEPT ![s] = w]
  /\ UNCHANGED <<phase, outcome, letGo, stopped>>

Answer(s) ==
  /\ work[s] = "running"
  /\ \E w \in Answers : work' = [work EXCEPT ![s] = w]
  /\ UNCHANGED <<phase, outcome, letGo, stopped>>

LetGo(s) ==
  /\ phase[s] # "idle"
  /\ letGo' = [letGo EXCEPT ![s] = TRUE]
  /\ UNCHANGED <<phase, work, outcome, stopped>>

\* A statement ends well only if the server did it, as killed only if the
\* server interrupted it, and as cancelled only if it was let go.
End(s) ==
  /\ phase[s] = "open"
  /\ phase' = [phase EXCEPT ![s] = "over"]
  /\ \E o \in {"nil", "killed", "cancelled", "failed"} :
       /\ o = "nil"       => work[s] = "ok" /\ ~letGo[s]
       /\ o = "killed"    => work[s] = "killed"
       /\ o = "cancelled" => letGo[s]
       /\ outcome' = [outcome EXCEPT ![s] = o]
  /\ UNCHANGED <<work, letGo, stopped>>

CloseEvents(s) ==
  /\ phase[s] = "over"
  /\ phase' = [phase EXCEPT ![s] = "closed"]
  /\ UNCHANGED <<work, outcome, letGo, stopped>>

\* Cancel succeeds by interrupting some statement: its own, if that is running,
\* and otherwise nothing or somebody else's.  One still on its way runs on.
Stop(s) ==
  /\ letGo[s] /\ ~stopped[s]
  /\ stopped' = [stopped EXCEPT ![s] = TRUE]
  /\ \/ work[s] # "running" /\ UNCHANGED work
     \/ \E t \in Streams : /\ work[t] = "running" /\ (work[s] = "running" => t = s)
                           /\ work' = [work EXCEPT ![t] = "killed"]
  /\ UNCHANGED <<phase, outcome, letGo>>

Retire(s) ==
  /\ phase[s] = "closed" /\ work[s] \notin AtServer
  /\ phase' = [phase EXCEPT ![s] = "idle"]
  /\ work' = [work EXCEPT ![s] = "none"]
  /\ outcome' = [outcome EXCEPT ![s] = "none"]
  /\ letGo' = [letGo EXCEPT ![s] = FALSE]
  /\ stopped' = [stopped EXCEPT ![s] = FALSE]

Next ==
  \E s \in Streams :
    \/ Ask(s) \/ Send(s) \/ Arrive(s) \/ Answer(s) \/ LetGo(s)
    \/ End(s) \/ CloseEvents(s) \/ Stop(s) \/ Retire(s)

Spec == Init /\ [][Next]_vars
=============================================================================
