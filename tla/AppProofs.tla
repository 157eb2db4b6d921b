------------------------------ MODULE AppProofs ------------------------------
(***************************************************************************)
(* What App promises for any number of sessions, datasources, connection   *)
(* attempts and batches: TypeOK and the invariant AppInv are inductive     *)
(* together (a row's datasource has a type only because its session has    *)
(* one), and AppInv yields the action property SwitchAsksFirst.            *)
(***************************************************************************)
EXTENDS App, TLAPS

USE NoneIsNothing

LEMMA HeadAndTail ==
  ASSUME NEW S, NEW q \in Seq(S), q # <<>>
  PROVE  Head(q) \in S /\ Tail(q) \in Seq(S)
OBVIOUS

(* Transaction control keeps the types of what it changes.                   *)
LEMMA ControlTypes ==
  ASSUME TypeOK, NEW kind \in Kinds, NEW ok \in BOOLEAN, TransactionControl(kind, ok)
  PROVE  /\ txn' \in {"none", "open", "gone"}
         /\ late' \in BOOLEAN
         /\ marker' \in BOOLEAN
<1> USE DEF TypeOK
<1>1. CASE ok /\ kind = "begin"
  BY <1>1 DEF TransactionControl, ControlDone
<1>2. CASE ok /\ kind # "begin"
  BY <1>2 DEF TransactionControl, ControlDone
<1>3. CASE ~ok
  BY <1>3 DEF TransactionControl, ControlFails
<1>4. QED
  BY <1>1, <1>2, <1>3

LEMMA InitInvariant == Init => TypeOK /\ AppInv
<1> SUFFICES ASSUME Init PROVE TypeOK /\ AppInv
  OBVIOUS
<1>1. TypeOK
  <2>1. \A ds \in DataSources : [s \in Sessions |-> IF s = sess THEN ds ELSE None]
                                  \in [Sessions -> DataSources \cup {None}]
    OBVIOUS
  <2>2. /\ serves \in [Sessions -> DataSources \cup {None}]
        /\ life \in [Sessions -> {"free", "open", "closed"}]
    BY <2>1 DEF Init
  <2>3. page \in [name : {"main", "switch", "quit", "schema"}, about : DataSources \cup {None}]
    BY DEF Init, MainPage
  <2>4. batch \in [rest : Seq(Kinds), on : Sessions \cup {None}, failed : BOOLEAN]
    BY DEF Init, NoBatch
  <2>5. connects \in [Slots -> [kind : {"none", "switch", "reconnect"},
                                ds : DataSources \cup {None}, asked : BOOLEAN]]
    BY DEF Init, NoConnect
  <2>6. QED
    BY <2>2, <2>3, <2>4, <2>5 DEF Init, TypeOK
<1>2. AppInv
  <2> USE DEF Init, NoBatch, MainPage, NoConnect, Connecting, Here, InTransaction
  <2>1. OneSessionOpen /\ MarkerCoversTransaction /\ BatchIsDriven
    BY DEF OneSessionOpen, MarkerCoversTransaction, BatchIsDriven
  <2>2. Located
    BY DEF Located
  <2>3. ScreenTellsTheTruth
    BY DEF ScreenTellsTheTruth, RowsBelongToDataSource, SchemaBelongsToDataSource,
           HistoryNamesWhereItRan
  <2>4. OnlyLateOnesAreUnasked /\ RunsHere
    BY DEF OnlyLateOnesAreUnasked, RunsHere
  <2>5. QED
    BY <2>1, <2>2, <2>3, <2>4 DEF AppInv
<1>3. QED
  BY <1>1, <1>2
(* Every step keeps the types: those of Rows and Finish because a session that
   is not free has a datasource. *)
LEMMA TypeKept ==
  ASSUME TypeOK, AppInv, [Next]_vars
  PROVE  TypeOK'
  <2> USE DEF TypeOK, AppInv, Kinds, MainPage, NoBatch, NoConnect, Connecting,
         MayAct, sessVars, workVars, screenVars, seenVars, Here, InTransaction
  <2>1. ASSUME NEW kind \in Kinds, Execute(kind) PROVE TypeOK'
    <3>1. CASE kind = "stmt"
      BY <2>1, <3>1 DEF Execute, RunOne, Start
    <3>2. CASE kind # "stmt"
      <4>1. PICK ok \in BOOLEAN : TransactionControl(kind, ok)
        BY <2>1, <3>2 DEF Execute, RunOne
      <4>2. /\ txn' \in {"none", "open", "gone"}
            /\ late' \in BOOLEAN
            /\ marker' \in BOOLEAN
        BY <4>1, ControlTypes
      <4>3. QED
        BY <2>1, <3>2, <4>2 DEF Execute, RunOne
    <3>3. QED
      BY <3>1, <3>2
  <2>2. ASSUME NEW script \in Scripts, ExecuteAll(script) PROVE TypeOK'
    <3>1. script \in Seq(Kinds)
      BY ScriptsAreStatements
    <3>2. QED
      BY <2>2, <3>1 DEF ExecuteAll
  <2>3. ASSUME PreviewTable PROVE TypeOK'
    BY <2>3 DEF PreviewTable, Start
  <2>4. ASSUME ShowTables PROVE TypeOK'
    BY <2>4 DEF ShowTables, RenderTables
  <2>5. ASSUME SelectSchema PROVE TypeOK'
    BY <2>5 DEF SelectSchema, SetSchema, RenderTables
  <2>6. ASSUME ShowUseSchema PROVE TypeOK'
    BY <2>6 DEF ShowUseSchema
  <2>7. ASSUME NEW ds \in DataSources, SwitchTo(ds) PROVE TypeOK'
    <3>1. CASE MustAsk
      BY <2>7, <3>1 DEF SwitchTo, MayLeaveFor
    <3>2. CASE ~MustAsk
      <4>1. PICK t \in Slots \ Connecting :
              connects' = [connects EXCEPT ![t] = [kind |-> "switch", ds |-> ds, asked |-> FALSE]]
        BY <2>7, <3>2 DEF SwitchTo, Connect
      <4>2. QED
        BY <2>7, <3>2, <4>1 DEF SwitchTo, MayLeaveFor, MustAsk
    <3>3. QED
      BY <3>1, <3>2
  <2>8. ASSUME Reconnect PROVE TypeOK'
    BY <2>8 DEF Reconnect, Connect
  <2>9. ASSUME Quit PROVE TypeOK'
    BY <2>9 DEF Quit
  <2>10. ASSUME UseSchema PROVE TypeOK'
    BY <2>10 DEF UseSchema, SetSchema, RenderTables
  <2>11. ASSUME ConfirmSwitch PROVE TypeOK'
    BY <2>11 DEF ConfirmSwitch, Connect
  <2>12. ASSUME ConfirmQuit PROVE TypeOK'
    BY <2>12 DEF ConfirmQuit
  <2>13. ASSUME CloseDialog PROVE TypeOK'
    BY <2>13 DEF CloseDialog
  <2>14. ASSUME AdvanceToStatement PROVE TypeOK'
    <3>1. Tail(batch.rest) \in Seq(Kinds)
      BY <2>14, HeadAndTail DEF AdvanceToStatement
    <3>2. QED
      BY <2>14, <3>1 DEF AdvanceToStatement, Start
  <2>15. ASSUME AdvanceOverControl PROVE TypeOK'
    <3>1. Head(batch.rest) \in Kinds /\ Tail(batch.rest) \in Seq(Kinds)
      BY <2>15, HeadAndTail DEF AdvanceOverControl
    <3>2. PICK ok \in BOOLEAN :
            /\ TransactionControl(Head(batch.rest), ok)
            /\ batch' = [batch EXCEPT !.rest = Tail(@), !.failed = @ \/ ~ok]
      BY <2>15 DEF AdvanceOverControl
    <3>3. /\ txn' \in {"none", "open", "gone"}
          /\ late' \in BOOLEAN
          /\ marker' \in BOOLEAN
      BY <3>1, <3>2, ControlTypes
    <3>4. QED
      BY <2>15, <3>1, <3>2, <3>3 DEF AdvanceOverControl
  <2>16. ASSUME FinishBatch PROVE TypeOK'
    BY <2>16 DEF FinishBatch
  <2>17. ASSUME Rows PROVE TypeOK'
    <3>1. serves[running] \in DataSources
      BY <2>17 DEF Rows, OneSessionOpen, Located
    <3>2. QED
      BY <2>17, <3>1 DEF Rows
  <2>18. ASSUME NEW outcome \in {"ok", "refused", "cancelled", "lost"}, Finish(outcome)
       PROVE  TypeOK'
    <3>1. serves[running] \in DataSources /\ Here \in DataSources
      BY <2>18 DEF Finish, OneSessionOpen, Located
    <3>2. history' \in DataSources \X DataSources
      BY <2>18, <3>1 DEF Finish, Record
    <3>3. txn' \in {"none", "open", "gone"}
      BY <2>18 DEF Finish, StatementEnds
    <3>4. late' \in BOOLEAN
      BY <2>18 DEF Finish, seenVars
    <3>5. /\ batch' \in [rest : Seq(Kinds), on : Sessions \cup {None}, failed : BOOLEAN]
          /\ ui' \in {"ready", "advancing", "stopped"}
      <4>1. CASE batch.on = None
        BY <2>18, <4>1 DEF Finish, ResumeBatch
      <4>2. CASE batch.on # None /\ outcome = "ok"
        BY <2>18, <4>2 DEF Finish, ResumeBatch
      <4>3. CASE batch.on # None /\ outcome # "ok"
        <5>1. batch' = NoBatch /\ ui' = ui
          BY <2>18, <4>3 DEF Finish, ResumeBatch
        <5>2. <<>> \in Seq(Kinds)
          OBVIOUS
        <5>3. QED
          BY <5>1, <5>2
      <4>4. QED
        BY <4>1, <4>2, <4>3
    <3>6. QED
      BY <2>18, <3>2, <3>3, <3>4, <3>5 DEF Finish
  <2>19. ASSUME NEW t \in Slots, ConnectFails(t) PROVE TypeOK'
    BY <2>19 DEF ConnectFails
  <2>20. ASSUME NEW t \in Slots, NEW s \in Sessions, Adopt(t, s) PROVE TypeOK'
    BY <2>20 DEF Adopt, Replace, LetGo, Overtakes, BufReset, SchemaReset
  <2>21. ASSUME NEW t \in Slots, NEW s \in Sessions, AdoptReconnected(t, s)
       PROVE  TypeOK'
    BY <2>21 DEF AdoptReconnected, Replace, LetGo, Overtakes
  <2>22. CASE UNCHANGED vars
    BY <2>22 DEF vars
  <2>23. QED
    BY <2>1, <2>2, <2>3, <2>4, <2>5, <2>6, <2>7, <2>8, <2>9, <2>10, <2>11,
       <2>12, <2>13, <2>14, <2>15, <2>16, <2>17, <2>18, <2>19, <2>20, <2>21,
       <2>22
       DEF Next, KeyStep, DialogStep, BatchStep, StatementStep, ConnectStep

(* A replaced session is let go of in the step that replaces it. *)
LEMMA OneKept ==
  ASSUME TypeOK, AppInv, [Next]_vars
  PROVE  OneSessionOpen'
  <2> USE DEF TypeOK, AppInv, Kinds, MainPage, NoBatch, NoConnect, Connecting,
         MayAct, sessVars, workVars, screenVars, seenVars, Here, InTransaction,
         OneSessionOpen
  <2>1. ASSUME NEW kind \in Kinds, Execute(kind) PROVE OneSessionOpen'
    BY <2>1 DEF Execute, RunOne, Start, TransactionControl, ControlDone, ControlFails
  <2>2. ASSUME NEW script \in Scripts, ExecuteAll(script) PROVE OneSessionOpen'
    BY <2>2 DEF ExecuteAll
  <2>3. ASSUME PreviewTable PROVE OneSessionOpen'
    BY <2>3 DEF PreviewTable, Start
  <2>4. ASSUME ShowTables PROVE OneSessionOpen'
    BY <2>4 DEF ShowTables, RenderTables
  <2>5. ASSUME SelectSchema PROVE OneSessionOpen'
    BY <2>5 DEF SelectSchema, SetSchema, RenderTables
  <2>6. ASSUME ShowUseSchema PROVE OneSessionOpen'
    BY <2>6 DEF ShowUseSchema
  <2>7. ASSUME NEW ds \in DataSources, SwitchTo(ds) PROVE OneSessionOpen'
    BY <2>7 DEF SwitchTo, Connect, MayLeaveFor, MustAsk
  <2>8. ASSUME Reconnect PROVE OneSessionOpen'
    BY <2>8 DEF Reconnect, Connect
  <2>9. ASSUME Quit PROVE OneSessionOpen'
    BY <2>9 DEF Quit
  <2>10. ASSUME UseSchema PROVE OneSessionOpen'
    BY <2>10 DEF UseSchema, SetSchema, RenderTables
  <2>11. ASSUME ConfirmSwitch PROVE OneSessionOpen'
    BY <2>11 DEF ConfirmSwitch, Connect
  <2>12. ASSUME ConfirmQuit PROVE OneSessionOpen'
    BY <2>12 DEF ConfirmQuit
  <2>13. ASSUME CloseDialog PROVE OneSessionOpen'
    BY <2>13 DEF CloseDialog
  <2>14. ASSUME AdvanceToStatement PROVE OneSessionOpen'
    BY <2>14 DEF AdvanceToStatement, Start
  <2>15. ASSUME AdvanceOverControl PROVE OneSessionOpen'
    BY <2>15 DEF AdvanceOverControl, TransactionControl, ControlDone, ControlFails
  <2>16. ASSUME FinishBatch PROVE OneSessionOpen'
    BY <2>16 DEF FinishBatch
  <2>17. ASSUME Rows PROVE OneSessionOpen'
    BY <2>17 DEF Rows
  <2>18. ASSUME NEW outcome \in {"ok", "refused", "cancelled", "lost"}, Finish(outcome)
       PROVE  OneSessionOpen'
    BY <2>18 DEF Finish, StatementEnds, ResumeBatch, Record
  <2>19. ASSUME NEW t \in Slots, ConnectFails(t) PROVE OneSessionOpen'
    BY <2>19 DEF ConnectFails
  <2>20. ASSUME NEW t \in Slots, NEW s \in Sessions, Adopt(t, s) PROVE OneSessionOpen'
    BY <2>20 DEF Adopt, Replace, LetGo, Overtakes, BufReset, SchemaReset
  <2>21. ASSUME NEW t \in Slots, NEW s \in Sessions, AdoptReconnected(t, s)
       PROVE  OneSessionOpen'
    BY <2>21 DEF AdoptReconnected, Replace, LetGo, Overtakes
  <2>22. CASE UNCHANGED vars
    BY <2>22 DEF vars
  <2>23. QED
    BY <2>1, <2>2, <2>3, <2>4, <2>5, <2>6, <2>7, <2>8, <2>9, <2>10, <2>11,
       <2>12, <2>13, <2>14, <2>15, <2>16, <2>17, <2>18, <2>19, <2>20, <2>21,
       <2>22
       DEF Next, KeyStep, DialogStep, BatchStep, StatementStep, ConnectStep

(* A session, an attempt and a dialog keep their datasource. *)
LEMMA LocatedKept ==
  ASSUME TypeOK, AppInv, [Next]_vars
  PROVE  Located'
  <2> USE DEF TypeOK, AppInv, Kinds, MainPage, NoBatch, NoConnect, Connecting,
         MayAct, sessVars, workVars, screenVars, seenVars, Here, InTransaction,
         OneSessionOpen, Located
  <2>1. ASSUME NEW kind \in Kinds, Execute(kind) PROVE Located'
    BY <2>1 DEF Execute, RunOne, Start, TransactionControl, ControlDone, ControlFails
  <2>2. ASSUME NEW script \in Scripts, ExecuteAll(script) PROVE Located'
    BY <2>2 DEF ExecuteAll
  <2>3. ASSUME PreviewTable PROVE Located'
    BY <2>3 DEF PreviewTable, Start
  <2>4. ASSUME ShowTables PROVE Located'
    BY <2>4 DEF ShowTables, RenderTables
  <2>5. ASSUME SelectSchema PROVE Located'
    BY <2>5 DEF SelectSchema, SetSchema, RenderTables
  <2>6. ASSUME ShowUseSchema PROVE Located'
    BY <2>6 DEF ShowUseSchema
  <2>7. ASSUME NEW ds \in DataSources, SwitchTo(ds) PROVE Located'
    BY <2>7 DEF SwitchTo, Connect, MayLeaveFor, MustAsk
  <2>8. ASSUME Reconnect PROVE Located'
    BY <2>8 DEF Reconnect, Connect
  <2>9. ASSUME Quit PROVE Located'
    BY <2>9 DEF Quit
  <2>10. ASSUME UseSchema PROVE Located'
    BY <2>10 DEF UseSchema, SetSchema, RenderTables
  <2>11. ASSUME ConfirmSwitch PROVE Located'
    BY <2>11 DEF ConfirmSwitch, Connect
  <2>12. ASSUME ConfirmQuit PROVE Located'
    BY <2>12 DEF ConfirmQuit
  <2>13. ASSUME CloseDialog PROVE Located'
    BY <2>13 DEF CloseDialog
  <2>14. ASSUME AdvanceToStatement PROVE Located'
    BY <2>14 DEF AdvanceToStatement, Start
  <2>15. ASSUME AdvanceOverControl PROVE Located'
    BY <2>15 DEF AdvanceOverControl, TransactionControl, ControlDone, ControlFails
  <2>16. ASSUME FinishBatch PROVE Located'
    BY <2>16 DEF FinishBatch
  <2>17. ASSUME Rows PROVE Located'
    BY <2>17 DEF Rows
  <2>18. ASSUME NEW outcome \in {"ok", "refused", "cancelled", "lost"}, Finish(outcome)
       PROVE  Located'
    BY <2>18 DEF Finish, StatementEnds, ResumeBatch, Record
  <2>19. ASSUME NEW t \in Slots, ConnectFails(t) PROVE Located'
    BY <2>19 DEF ConnectFails
  <2>20. ASSUME NEW t \in Slots, NEW s \in Sessions, Adopt(t, s) PROVE Located'
    BY <2>20 DEF Adopt, Replace, LetGo, Overtakes, BufReset, SchemaReset
  <2>21. ASSUME NEW t \in Slots, NEW s \in Sessions, AdoptReconnected(t, s)
       PROVE  Located'
    BY <2>21 DEF AdoptReconnected, Replace, LetGo, Overtakes
  <2>22. CASE UNCHANGED vars
    BY <2>22 DEF vars
  <2>23. QED
    BY <2>1, <2>2, <2>3, <2>4, <2>5, <2>6, <2>7, <2>8, <2>9, <2>10, <2>11,
       <2>12, <2>13, <2>14, <2>15, <2>16, <2>17, <2>18, <2>19, <2>20, <2>21,
       <2>22
       DEF Next, KeyStep, DialogStep, BatchStep, StatementStep, ConnectStep

(* The only way into a transaction sets the marker, and every step that clears
   the marker leaves the session that has one. *)
LEMMA MarkerKept ==
  ASSUME TypeOK, AppInv, [Next]_vars
  PROVE  MarkerCoversTransaction'
  <2> USE DEF TypeOK, AppInv, Kinds, MainPage, NoBatch, NoConnect, Connecting,
         MayAct, sessVars, workVars, screenVars, seenVars, Here, InTransaction,
         OneSessionOpen, MarkerCoversTransaction
  <2>1. ASSUME NEW kind \in Kinds, Execute(kind) PROVE MarkerCoversTransaction'
    BY <2>1 DEF Execute, RunOne, Start, TransactionControl, ControlDone, ControlFails
  <2>2. ASSUME NEW script \in Scripts, ExecuteAll(script) PROVE MarkerCoversTransaction'
    BY <2>2 DEF ExecuteAll
  <2>3. ASSUME PreviewTable PROVE MarkerCoversTransaction'
    BY <2>3 DEF PreviewTable, Start
  <2>4. ASSUME ShowTables PROVE MarkerCoversTransaction'
    BY <2>4 DEF ShowTables, RenderTables
  <2>5. ASSUME SelectSchema PROVE MarkerCoversTransaction'
    BY <2>5 DEF SelectSchema, SetSchema, RenderTables
  <2>6. ASSUME ShowUseSchema PROVE MarkerCoversTransaction'
    BY <2>6 DEF ShowUseSchema
  <2>7. ASSUME NEW ds \in DataSources, SwitchTo(ds) PROVE MarkerCoversTransaction'
    BY <2>7 DEF SwitchTo, Connect, MayLeaveFor, MustAsk
  <2>8. ASSUME Reconnect PROVE MarkerCoversTransaction'
    BY <2>8 DEF Reconnect, Connect
  <2>9. ASSUME Quit PROVE MarkerCoversTransaction'
    BY <2>9 DEF Quit
  <2>10. ASSUME UseSchema PROVE MarkerCoversTransaction'
    BY <2>10 DEF UseSchema, SetSchema, RenderTables
  <2>11. ASSUME ConfirmSwitch PROVE MarkerCoversTransaction'
    BY <2>11 DEF ConfirmSwitch, Connect
  <2>12. ASSUME ConfirmQuit PROVE MarkerCoversTransaction'
    BY <2>12 DEF ConfirmQuit
  <2>13. ASSUME CloseDialog PROVE MarkerCoversTransaction'
    BY <2>13 DEF CloseDialog
  <2>14. ASSUME AdvanceToStatement PROVE MarkerCoversTransaction'
    BY <2>14 DEF AdvanceToStatement, Start
  <2>15. ASSUME AdvanceOverControl PROVE MarkerCoversTransaction'
    BY <2>15 DEF AdvanceOverControl, TransactionControl, ControlDone, ControlFails
  <2>16. ASSUME FinishBatch PROVE MarkerCoversTransaction'
    BY <2>16 DEF FinishBatch
  <2>17. ASSUME Rows PROVE MarkerCoversTransaction'
    BY <2>17 DEF Rows
  <2>18. ASSUME NEW outcome \in {"ok", "refused", "cancelled", "lost"}, Finish(outcome)
       PROVE  MarkerCoversTransaction'
    BY <2>18 DEF Finish, StatementEnds, ResumeBatch, Record
  <2>19. ASSUME NEW t \in Slots, ConnectFails(t) PROVE MarkerCoversTransaction'
    BY <2>19 DEF ConnectFails
  <2>20. ASSUME NEW t \in Slots, NEW s \in Sessions, Adopt(t, s)
       PROVE  MarkerCoversTransaction'
    BY <2>20 DEF Adopt, Replace, LetGo, Overtakes, BufReset, SchemaReset
  <2>21. ASSUME NEW t \in Slots, NEW s \in Sessions, AdoptReconnected(t, s)
       PROVE  MarkerCoversTransaction'
    BY <2>21 DEF AdoptReconnected, Replace, LetGo, Overtakes
  <2>22. CASE UNCHANGED vars
    BY <2>22 DEF vars
  <2>23. QED
    BY <2>1, <2>2, <2>3, <2>4, <2>5, <2>6, <2>7, <2>8, <2>9, <2>10, <2>11,
       <2>12, <2>13, <2>14, <2>15, <2>16, <2>17, <2>18, <2>19, <2>20, <2>21,
       <2>22
       DEF Next, KeyStep, DialogStep, BatchStep, StatementStep, ConnectStep

(* A batch is handed from the loop to the statement and back. *)
LEMMA BatchKept ==
  ASSUME TypeOK, AppInv, [Next]_vars
  PROVE  BatchIsDriven'
  <2> USE DEF TypeOK, AppInv, Kinds, MainPage, NoBatch, NoConnect, Connecting,
         MayAct, sessVars, workVars, screenVars, seenVars, Here, InTransaction,
         BatchIsDriven
  <2>1. ASSUME NEW kind \in Kinds, Execute(kind) PROVE BatchIsDriven'
    BY <2>1 DEF Execute, RunOne, Start, TransactionControl, ControlDone, ControlFails
  <2>2. ASSUME NEW script \in Scripts, ExecuteAll(script) PROVE BatchIsDriven'
    BY <2>2 DEF ExecuteAll
  <2>3. ASSUME PreviewTable PROVE BatchIsDriven'
    BY <2>3 DEF PreviewTable, Start
  <2>4. ASSUME ShowTables PROVE BatchIsDriven'
    BY <2>4 DEF ShowTables, RenderTables
  <2>5. ASSUME SelectSchema PROVE BatchIsDriven'
    BY <2>5 DEF SelectSchema, SetSchema, RenderTables
  <2>6. ASSUME ShowUseSchema PROVE BatchIsDriven'
    BY <2>6 DEF ShowUseSchema
  <2>7. ASSUME NEW ds \in DataSources, SwitchTo(ds) PROVE BatchIsDriven'
    BY <2>7 DEF SwitchTo, Connect, MayLeaveFor, MustAsk
  <2>8. ASSUME Reconnect PROVE BatchIsDriven'
    BY <2>8 DEF Reconnect, Connect
  <2>9. ASSUME Quit PROVE BatchIsDriven'
    BY <2>9 DEF Quit
  <2>10. ASSUME UseSchema PROVE BatchIsDriven'
    BY <2>10 DEF UseSchema, SetSchema, RenderTables
  <2>11. ASSUME ConfirmSwitch PROVE BatchIsDriven'
    BY <2>11 DEF ConfirmSwitch, Connect
  <2>12. ASSUME ConfirmQuit PROVE BatchIsDriven'
    BY <2>12 DEF ConfirmQuit
  <2>13. ASSUME CloseDialog PROVE BatchIsDriven'
    BY <2>13 DEF CloseDialog
  <2>14. ASSUME AdvanceToStatement PROVE BatchIsDriven'
    BY <2>14 DEF AdvanceToStatement, Start
  <2>15. ASSUME AdvanceOverControl PROVE BatchIsDriven'
    BY <2>15 DEF AdvanceOverControl, TransactionControl, ControlDone, ControlFails
  <2>16. ASSUME FinishBatch PROVE BatchIsDriven'
    BY <2>16 DEF FinishBatch
  <2>17. ASSUME Rows PROVE BatchIsDriven'
    BY <2>17 DEF Rows
  <2>18. ASSUME NEW outcome \in {"ok", "refused", "cancelled", "lost"}, Finish(outcome)
       PROVE  BatchIsDriven'
    BY <2>18 DEF Finish, StatementEnds, ResumeBatch, Record
  <2>19. ASSUME NEW t \in Slots, ConnectFails(t) PROVE BatchIsDriven'
    BY <2>19 DEF ConnectFails
  <2>20. ASSUME NEW t \in Slots, NEW s \in Sessions, Adopt(t, s) PROVE BatchIsDriven'
    BY <2>20 DEF Adopt, Replace, LetGo, Overtakes, BufReset, SchemaReset
  <2>21. ASSUME NEW t \in Slots, NEW s \in Sessions, AdoptReconnected(t, s)
       PROVE  BatchIsDriven'
    BY <2>21 DEF AdoptReconnected, Replace, LetGo, Overtakes
  <2>22. CASE UNCHANGED vars
    BY <2>22 DEF vars
  <2>23. QED
    BY <2>1, <2>2, <2>3, <2>4, <2>5, <2>6, <2>7, <2>8, <2>9, <2>10, <2>11,
       <2>12, <2>13, <2>14, <2>15, <2>16, <2>17, <2>18, <2>19, <2>20, <2>21,
       <2>22
       DEF Next, KeyStep, DialogStep, BatchStep, StatementStep, ConnectStep

(* What is on screen: a change of datasource clears it or is noted in overtaken. *)
LEMMA ScreenKept ==
  ASSUME TypeOK, AppInv, [Next]_vars
  PROVE  ScreenTellsTheTruth'
  <2> USE DEF TypeOK, AppInv, Kinds, MainPage, NoBatch, NoConnect, Connecting,
         MayAct, sessVars, workVars, screenVars, seenVars, Here, InTransaction,
         OneSessionOpen, ScreenTellsTheTruth, RunsHere, Unfinished,
         RowsBelongToDataSource, SchemaBelongsToDataSource,
         HistoryNamesWhereItRan
  <2>1. ASSUME NEW kind \in Kinds, Execute(kind) PROVE ScreenTellsTheTruth'
    BY <2>1 DEF Execute, RunOne, Start, TransactionControl, ControlDone, ControlFails
  <2>2. ASSUME NEW script \in Scripts, ExecuteAll(script) PROVE ScreenTellsTheTruth'
    BY <2>2 DEF ExecuteAll
  <2>3. ASSUME PreviewTable PROVE ScreenTellsTheTruth'
    BY <2>3 DEF PreviewTable, Start
  <2>4. ASSUME ShowTables PROVE ScreenTellsTheTruth'
    BY <2>4 DEF ShowTables, RenderTables
  <2>5. ASSUME SelectSchema PROVE ScreenTellsTheTruth'
    BY <2>5 DEF SelectSchema, SetSchema, RenderTables
  <2>6. ASSUME ShowUseSchema PROVE ScreenTellsTheTruth'
    BY <2>6 DEF ShowUseSchema
  <2>7. ASSUME NEW ds \in DataSources, SwitchTo(ds) PROVE ScreenTellsTheTruth'
    BY <2>7 DEF SwitchTo, Connect, MayLeaveFor, MustAsk
  <2>8. ASSUME Reconnect PROVE ScreenTellsTheTruth'
    BY <2>8 DEF Reconnect, Connect
  <2>9. ASSUME Quit PROVE ScreenTellsTheTruth'
    BY <2>9 DEF Quit
  <2>10. ASSUME UseSchema PROVE ScreenTellsTheTruth'
    BY <2>10 DEF UseSchema, SetSchema, RenderTables
  <2>11. ASSUME ConfirmSwitch PROVE ScreenTellsTheTruth'
    BY <2>11 DEF ConfirmSwitch, Connect
  <2>12. ASSUME ConfirmQuit PROVE ScreenTellsTheTruth'
    BY <2>12 DEF ConfirmQuit
  <2>13. ASSUME CloseDialog PROVE ScreenTellsTheTruth'
    BY <2>13 DEF CloseDialog
  <2>14. ASSUME AdvanceToStatement PROVE ScreenTellsTheTruth'
    BY <2>14 DEF AdvanceToStatement, Start
  <2>15. ASSUME AdvanceOverControl PROVE ScreenTellsTheTruth'
    BY <2>15 DEF AdvanceOverControl, TransactionControl, ControlDone, ControlFails
  <2>16. ASSUME FinishBatch PROVE ScreenTellsTheTruth'
    BY <2>16 DEF FinishBatch
  <2>17. ASSUME Rows PROVE ScreenTellsTheTruth'
    BY <2>17 DEF Rows
  <2>18. ASSUME NEW outcome \in {"ok", "refused", "cancelled", "lost"}, Finish(outcome)
       PROVE  ScreenTellsTheTruth'
    BY <2>18 DEF Finish, StatementEnds, ResumeBatch, Record
  <2>19. ASSUME NEW t \in Slots, ConnectFails(t) PROVE ScreenTellsTheTruth'
    BY <2>19 DEF ConnectFails
  <2>20. ASSUME NEW t \in Slots, NEW s \in Sessions, Adopt(t, s)
       PROVE  ScreenTellsTheTruth'
    BY <2>20 DEF Adopt, Replace, LetGo, Overtakes, BufReset, SchemaReset
  <2>21. ASSUME NEW t \in Slots, NEW s \in Sessions, AdoptReconnected(t, s)
       PROVE  ScreenTellsTheTruth'
    <3>1. /\ serves'[s] = connects[t].ds /\ sess' = s
          /\ overtaken' = overtaken \cup Overtakes(t)
          /\ UNCHANGED <<schema, buf, history>>
      BY <2>21 DEF AdoptReconnected, Replace
    <3>2. CASE connects[t].ds = Here
      BY <3>1, <3>2 DEF Overtakes
    <3>3. CASE connects[t].ds # Here
      <4>1. "reconnection" \in overtaken'
        BY <2>21, <3>1, <3>3 DEF Overtakes, AdoptReconnected
      <4>2. "statement" \notin overtaken' => HistoryNamesWhereItRan'
        BY <3>1
      <4>3. QED
        BY <4>1, <4>2
    <3>4. QED
      BY <3>2, <3>3
  <2>22. CASE UNCHANGED vars
    BY <2>22 DEF vars
  <2>23. QED
    BY <2>1, <2>2, <2>3, <2>4, <2>5, <2>6, <2>7, <2>8, <2>9, <2>10, <2>11,
       <2>12, <2>13, <2>14, <2>15, <2>16, <2>17, <2>18, <2>19, <2>20, <2>21,
       <2>22
       DEF Next, KeyStep, DialogStep, BatchStep, StatementStep, ConnectStep

(* While a connection is being made, a transaction can only be begun late. *)
LEMMA UnaskedKept ==
  ASSUME TypeOK, AppInv, [Next]_vars
  PROVE  OnlyLateOnesAreUnasked'
  <2> USE DEF TypeOK, AppInv, Kinds, MainPage, NoBatch, NoConnect, Connecting,
         MayAct, sessVars, workVars, screenVars, seenVars, Here, InTransaction,
         OneSessionOpen, OnlyLateOnesAreUnasked
  <2>1. ASSUME NEW kind \in Kinds, Execute(kind) PROVE OnlyLateOnesAreUnasked'
    BY <2>1 DEF Execute, RunOne, Start, TransactionControl, ControlDone, ControlFails
  <2>2. ASSUME NEW script \in Scripts, ExecuteAll(script)
       PROVE  OnlyLateOnesAreUnasked'
    BY <2>2 DEF ExecuteAll
  <2>3. ASSUME PreviewTable PROVE OnlyLateOnesAreUnasked'
    BY <2>3 DEF PreviewTable, Start
  <2>4. ASSUME ShowTables PROVE OnlyLateOnesAreUnasked'
    BY <2>4 DEF ShowTables, RenderTables
  <2>5. ASSUME SelectSchema PROVE OnlyLateOnesAreUnasked'
    BY <2>5 DEF SelectSchema, SetSchema, RenderTables
  <2>6. ASSUME ShowUseSchema PROVE OnlyLateOnesAreUnasked'
    BY <2>6 DEF ShowUseSchema
  <2>7. ASSUME NEW ds \in DataSources, SwitchTo(ds) PROVE OnlyLateOnesAreUnasked'
    <3>1. CASE MustAsk
      BY <2>7, <3>1 DEF SwitchTo, MayLeaveFor
    <3>2. CASE ~MustAsk
      <4>1. PICK t \in Slots \ Connecting :
              connects' = [connects EXCEPT ![t] = [kind |-> "switch", ds |-> ds, asked |-> FALSE]]
        BY <2>7, <3>2 DEF SwitchTo, Connect
      <4>2. QED
        BY <2>7, <3>2, <4>1 DEF SwitchTo, MayLeaveFor, MustAsk
    <3>3. QED
      BY <3>1, <3>2
  <2>8. ASSUME Reconnect PROVE OnlyLateOnesAreUnasked'
    BY <2>8 DEF Reconnect, Connect
  <2>9. ASSUME Quit PROVE OnlyLateOnesAreUnasked'
    BY <2>9 DEF Quit
  <2>10. ASSUME UseSchema PROVE OnlyLateOnesAreUnasked'
    BY <2>10 DEF UseSchema, SetSchema, RenderTables
  <2>11. ASSUME ConfirmSwitch PROVE OnlyLateOnesAreUnasked'
    BY <2>11 DEF ConfirmSwitch, Connect
  <2>12. ASSUME ConfirmQuit PROVE OnlyLateOnesAreUnasked'
    BY <2>12 DEF ConfirmQuit
  <2>13. ASSUME CloseDialog PROVE OnlyLateOnesAreUnasked'
    BY <2>13 DEF CloseDialog
  <2>14. ASSUME AdvanceToStatement PROVE OnlyLateOnesAreUnasked'
    BY <2>14 DEF AdvanceToStatement, Start
  <2>15. ASSUME AdvanceOverControl PROVE OnlyLateOnesAreUnasked'
    BY <2>15 DEF AdvanceOverControl, TransactionControl, ControlDone, ControlFails
  <2>16. ASSUME FinishBatch PROVE OnlyLateOnesAreUnasked'
    BY <2>16 DEF FinishBatch
  <2>17. ASSUME Rows PROVE OnlyLateOnesAreUnasked'
    BY <2>17 DEF Rows
  <2>18. ASSUME NEW outcome \in {"ok", "refused", "cancelled", "lost"}, Finish(outcome)
       PROVE  OnlyLateOnesAreUnasked'
    BY <2>18 DEF Finish, StatementEnds, ResumeBatch, Record
  <2>19. ASSUME NEW t \in Slots, ConnectFails(t) PROVE OnlyLateOnesAreUnasked'
    BY <2>19 DEF ConnectFails
  <2>20. ASSUME NEW t \in Slots, NEW s \in Sessions, Adopt(t, s)
       PROVE  OnlyLateOnesAreUnasked'
    BY <2>20 DEF Adopt, Replace, LetGo, Overtakes, BufReset, SchemaReset
  <2>21. ASSUME NEW t \in Slots, NEW s \in Sessions, AdoptReconnected(t, s)
       PROVE  OnlyLateOnesAreUnasked'
    BY <2>21 DEF AdoptReconnected, Replace, LetGo, Overtakes
  <2>22. CASE UNCHANGED vars
    BY <2>22 DEF vars
  <2>23. QED
    BY <2>1, <2>2, <2>3, <2>4, <2>5, <2>6, <2>7, <2>8, <2>9, <2>10, <2>11,
       <2>12, <2>13, <2>14, <2>15, <2>16, <2>17, <2>18, <2>19, <2>20, <2>21,
       <2>22
       DEF Next, KeyStep, DialogStep, BatchStep, StatementStep, ConnectStep

(* A change of datasource that finds a statement or the schema box notes it. *)
LEMMA RunsHereKept ==
  ASSUME TypeOK, AppInv, [Next]_vars
  PROVE  RunsHere'
  <2> USE DEF TypeOK, AppInv, Kinds, MainPage, NoBatch, NoConnect, Connecting,
         MayAct, sessVars, workVars, screenVars, seenVars, Here, InTransaction,
         OneSessionOpen, BatchIsDriven, RunsHere, Unfinished
  <2>1. ASSUME NEW kind \in Kinds, Execute(kind) PROVE RunsHere'
    BY <2>1 DEF Execute, RunOne, Start, TransactionControl, ControlDone, ControlFails
  <2>2. ASSUME NEW script \in Scripts, ExecuteAll(script)
       PROVE  RunsHere'
    BY <2>2 DEF ExecuteAll
  <2>3. ASSUME PreviewTable PROVE RunsHere'
    BY <2>3 DEF PreviewTable, Start
  <2>4. ASSUME ShowTables PROVE RunsHere'
    BY <2>4 DEF ShowTables, RenderTables
  <2>5. ASSUME SelectSchema PROVE RunsHere'
    BY <2>5 DEF SelectSchema, SetSchema, RenderTables
  <2>6. ASSUME ShowUseSchema PROVE RunsHere'
    BY <2>6 DEF ShowUseSchema
  <2>7. ASSUME NEW ds \in DataSources, SwitchTo(ds) PROVE RunsHere'
    <3>1. CASE MustAsk
      <4>1. page' = [name |-> "switch", about |-> ds]
        BY <2>7, <3>1 DEF SwitchTo
      <4>2. page'.name # "schema"
        BY <4>1
      <4>3. UNCHANGED <<sessVars, workVars, seenVars>>
        BY <2>7 DEF SwitchTo
      <4>4. QED
        BY <4>2, <4>3
    <3>2. CASE ~MustAsk
      <4>1. PICK t \in Slots \ Connecting :
              connects' = [connects EXCEPT ![t] = [kind |-> "switch", ds |-> ds, asked |-> FALSE]]
        BY <2>7, <3>2 DEF SwitchTo, Connect
      <4>2. QED
        BY <2>7, <3>2, <4>1 DEF SwitchTo, MayLeaveFor, MustAsk
    <3>3. QED
      BY <3>1, <3>2
  <2>8. ASSUME Reconnect PROVE RunsHere'
    BY <2>8 DEF Reconnect, Connect
  <2>9. ASSUME Quit PROVE RunsHere'
    <3>1. \/ page' = [name |-> "main", about |-> None]
          \/ page' = [name |-> "quit", about |-> None]
      BY <2>9 DEF Quit
    <3>2. UNCHANGED <<sessVars, workVars, seenVars>>
      BY <2>9 DEF Quit
    <3>3. page'.name # "schema"
      <4>1. CASE page' = [name |-> "main", about |-> None]
        BY <4>1
      <4>2. CASE page' = [name |-> "quit", about |-> None]
        BY <4>2
      <4>3. QED
        BY <3>1, <4>1, <4>2
    <3>4. QED
      BY <3>2, <3>3
  <2>10. ASSUME UseSchema PROVE RunsHere'
    BY <2>10 DEF UseSchema, SetSchema, RenderTables
  <2>11. ASSUME ConfirmSwitch PROVE RunsHere'
    BY <2>11 DEF ConfirmSwitch, Connect
  <2>12. ASSUME ConfirmQuit PROVE RunsHere'
    BY <2>12 DEF ConfirmQuit
  <2>13. ASSUME CloseDialog PROVE RunsHere'
    BY <2>13 DEF CloseDialog
  <2>14. ASSUME AdvanceToStatement PROVE RunsHere'
    BY <2>14 DEF AdvanceToStatement, Start
  <2>15. ASSUME AdvanceOverControl PROVE RunsHere'
    BY <2>15 DEF AdvanceOverControl, TransactionControl, ControlDone, ControlFails
  <2>16. ASSUME FinishBatch PROVE RunsHere'
    BY <2>16 DEF FinishBatch
  <2>17. ASSUME Rows PROVE RunsHere'
    BY <2>17 DEF Rows
  <2>18. ASSUME NEW outcome \in {"ok", "refused", "cancelled", "lost"}, Finish(outcome)
       PROVE  RunsHere'
    BY <2>18 DEF Finish, StatementEnds, ResumeBatch, Record
  <2>19. ASSUME NEW t \in Slots, ConnectFails(t) PROVE RunsHere'
    BY <2>19 DEF ConnectFails
  <2>20. ASSUME NEW t \in Slots, NEW s \in Sessions, Adopt(t, s)
       PROVE  RunsHere'
    BY <2>20 DEF Adopt, Replace, LetGo, Overtakes, BufReset, SchemaReset
  <2>21. ASSUME NEW t \in Slots, NEW s \in Sessions, AdoptReconnected(t, s)
       PROVE  RunsHere'
    BY <2>21 DEF AdoptReconnected, Replace, LetGo, Overtakes
  <2>22. CASE UNCHANGED vars
    BY <2>22 DEF vars
  <2>23. QED
    BY <2>1, <2>2, <2>3, <2>4, <2>5, <2>6, <2>7, <2>8, <2>9, <2>10, <2>11,
       <2>12, <2>13, <2>14, <2>15, <2>16, <2>17, <2>18, <2>19, <2>20, <2>21,
       <2>22
       DEF Next, KeyStep, DialogStep, BatchStep, StatementStep, ConnectStep

(* TypeOK and AppInv hold together in every state.                           *)
LEMMA Invariant == Spec => [](TypeOK /\ AppInv)
<1>1. TypeOK /\ AppInv /\ [Next]_vars => (TypeOK /\ AppInv)'
  <2> SUFFICES ASSUME TypeOK, AppInv, [Next]_vars PROVE TypeOK' /\ AppInv'
    OBVIOUS
  <2>1. TypeOK'
    BY TypeKept
  <2>2. /\ OneSessionOpen' /\ Located' /\ MarkerCoversTransaction' /\ BatchIsDriven'
        /\ ScreenTellsTheTruth' /\ OnlyLateOnesAreUnasked' /\ RunsHere'
    BY OneKept, LocatedKept, MarkerKept, BatchKept, ScreenKept, UnaskedKept, RunsHereKept
  <2>3. QED
    BY <2>1, <2>2 DEF AppInv
<1>2. QED
  BY InitInvariant, <1>1, PTL DEF Spec

(* Every variable keeps its type.                                            *)
THEOREM TypeCorrect == Spec => []TypeOK
BY Invariant, PTL

(* The inductive invariant holds in every state.                             *)
THEOREM AppInvariant == Spec => []AppInv
BY Invariant, PTL

(* Of all sessions ever made only the one on screen is open, in whatever order
   the attempts to connect end: App.adopt and App.adoptReconnected. *)
THEOREM OneSession == Spec => []OneSessionOpen
<1>1. AppInv => OneSessionOpen
  BY DEF AppInv
<1>2. QED
  BY <1>1, AppInvariant, PTL

(* No transaction is open without its marker: transactionControl, adopt,
   adoptReconnected. *)
THEOREM MarkerCovers == Spec => []MarkerCoversTransaction
<1>1. AppInv => MarkerCoversTransaction
  BY DEF AppInv
<1>2. QED
  BY <1>1, AppInvariant, PTL

(* A batch never waits for a result that will not come: advanceBatch and
   resumeBatch. *)
THEOREM BatchDriven == Spec => []BatchIsDriven
<1>1. AppInv => BatchIsDriven
  BY DEF AppInv
<1>2. QED
  BY <1>1, AppInvariant, PTL

(* Rows, schema and history are those of the datasource they are shown under,
   whatever the user does while connections are made, but for what a change of
   datasource found unfinished: adopt, adoptReconnected, setSchema and record. *)
THEOREM ScreenTruth == Spec => []ScreenTellsTheTruth
<1>1. AppInv => ScreenTellsTheTruth
  BY DEF AppInv
<1>2. QED
  BY <1>1, AppInvariant, PTL

(* A switch that discards a transaction was agreed to, or the transaction was
   begun while a connection was being made: switchTo and adopt. *)
THEOREM SwitchIsAsked == Spec => SwitchAsksFirst
<1> DEFINE Asked == \A t \in Slots :
             /\ connects[t].kind = "switch" /\ connects'[t] = NoConnect
             /\ sess' # sess /\ InTransaction
             => connects[t].asked \/ late
<1>1. AppInv => [Asked]_vars
  BY DEF AppInv, OnlyLateOnesAreUnasked
<1>2. QED
  BY <1>1, AppInvariant, PTL DEF SwitchAsksFirst

=============================================================================
