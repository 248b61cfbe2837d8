-------------------------- MODULE DaemonPassProofs --------------------------
(***************************************************************************)
(* The unread inbox, for every set of runs and jobs and any number of      *)
(* passes, crashes and readers: nothing the operator did with a run before *)
(* it ended takes its outcome out of the inbox.  Passes, goroutines and    *)
(* readers touch a row in few ways, whichever rows they had read before;   *)
(* the theorem follows from what each way does to the unread flag.         *)
(***************************************************************************)
EXTENDS DaemonPass, TLAPS

RowSet == [state : Phases, workspace : BOOLEAN, lane : Lanes \cup {None}, unread : BOOLEAN]
RowTypes == row \in [Runs -> RowSet]

-----------------------------------------------------------------------------
(* The ways a row changes.                                                 *)

\* A run moves on without ending, is retired, leaves evidence, or is marked.
Moves(r) == \E v \in RowSet : v.state # "done" /\ row' = [row EXCEPT ![r] = v]
Retired(r) == \E lane \in Lanes : Retire(r, lane)
Marked(r) == MarkRead(r) /\ Marks(r)
RowStep ==
    \/ row' = row \/ Admit
    \/ \E r \in Runs : Moves(r) \/ Retired(r) \/ RecordRunEvent(r) \/ Marked(r)

\* A step of the daemon's pass takes one of these ways.
LEMMA PassStep == ASSUME RowTypes, DaemonStep PROVE RowStep
<1>1. \A x, v : x \notin Runs => [row EXCEPT ![x] = v] = row BY DEF RowTypes
<1>2. \A x, v : x \notin Runs => [row EXCEPT ![x].state = v] = row BY DEF RowTypes
<1>3. ASSUME NEW lane \in Lanes, Retire(Current, lane) PROVE RowStep
  <2>1. CASE Current \in Runs BY <1>3, <2>1 DEF RowStep, Retired
  <2>2. CASE Current \notin Runs BY <1>1, <1>3, <2>2 DEF RowStep, Retire
  <2> QED BY <2>1, <2>2
<1>4. ASSUME RecordRunEvent(Current) PROVE RowStep
  <2>1. CASE Current \in Runs BY <1>4, <2>1 DEF RowStep
  <2>2. CASE Current \notin Runs
    <3>1. [row EXCEPT ![Current].unread = TRUE] = row BY <2>2 DEF RowTypes
    <3> QED BY <1>4, <3>1 DEF RowStep, RecordRunEvent
  <2> QED BY <2>1, <2>2
<1>5. ASSUME CloseFailed(Current) PROVE RowStep
  <2> DEFINE v == [row[Current] EXCEPT !.state = "closing", !.unread = TRUE]
  <2>1. row' = [row EXCEPT ![Current] = v] BY <1>5 DEF CloseFailed
  <2>2. CASE Current \in Runs
    <3>1. v \in RowSet /\ v.state # "done" BY <2>2 DEF RowTypes, RowSet, Phases
    <3> HIDE DEF v
    <3> QED BY <2>1, <2>2, <3>1 DEF RowStep, Moves
  <2>3. CASE Current \notin Runs BY <1>1, <2>1, <2>3 DEF RowStep
  <2> QED BY <2>2, <2>3
<1>6. CASE EvaluateJob
  <2>1. CASE row' = row BY <2>1 DEF RowStep
  <2>2. CASE \E j : row' = [row EXCEPT ![RunOf[j]].state = "accepted"]
    <3>1. PICK j : row' = [row EXCEPT ![RunOf[j]].state = "accepted"] BY <2>2
    <3> DEFINE s == RunOf[j]
               v == [row[s] EXCEPT !.state = "accepted"]
    <3>2. row' = [row EXCEPT ![s] = v] BY <3>1
    <3>3. CASE s \in Runs
      <4>1. v \in RowSet /\ v.state # "done" BY <3>3 DEF RowTypes, RowSet, Phases
      <4> HIDE DEF v, s
      <4> QED BY <3>2, <3>3, <4>1 DEF RowStep, Moves
    <3>4. CASE s \notin Runs BY <1>1, <3>2, <3>4 DEF RowStep
    <3> QED BY <3>3, <3>4
  <2> QED BY <1>6, <2>1, <2>2 DEF EvaluateJob
<1>7. CASE BeginPass \/ ListRuns \/ ReconcileAccepted
  BY <1>7 DEF BeginPass, ListRuns, ReconcileAccepted, RowStep
<1>8. ASSUME Interrupted \/ ClosePending \/ Conflict \/ UNCHANGED row PROVE RowStep
  <2>1. "mandatory" \in Lanes BY DEF Lanes
  <2> QED BY <1>3, <1>5, <1>8, <2>1 DEF Interrupted, ClosePending, Conflict, RowStep
<1>9. ASSUME NEW s \in Phases \ {"done"}, row' = [row EXCEPT ![Current].state = s] PROVE RowStep
  <2>1. CASE Current \in Runs
    <3> DEFINE v == [row[Current] EXCEPT !.state = s]
    <3>1. row' = [row EXCEPT ![Current] = v] BY <1>9
    <3>2. v \in RowSet /\ v.state # "done" BY <2>1 DEF RowTypes, RowSet
    <3> HIDE DEF v
    <3> QED BY <2>1, <3>1, <3>2 DEF RowStep, Moves
  <2>2. CASE Current \notin Runs BY <1>2, <1>9, <2>2 DEF RowStep
  <2> QED BY <2>1, <2>2
<1>10. CASE RecoverProvisioningWorkspace
  <2> DEFINE v == [row[Current] EXCEPT !.workspace = TRUE]
  <2>1. row' = [row EXCEPT ![Current] = v] BY <1>10 DEF RecoverProvisioningWorkspace
  <2>2. CASE Current \in Runs
    <3>1. row[Current] \in RowSet /\ row[Current].state = "provisioning"
      BY <1>10, <2>2 DEF RecoverProvisioningWorkspace, AsListed, Listed, RowTypes
    <3>2. v \in RowSet /\ v.state # "done" BY <3>1 DEF RowSet
    <3> HIDE DEF v
    <3> QED BY <2>1, <2>2, <3>2 DEF RowStep, Moves
  <2>3. CASE Current \notin Runs BY <1>1, <2>1, <2>3 DEF RowStep
  <2> QED BY <2>2, <2>3
<1>11. {"running", "verifying"} \subseteq Phases \ {"done"} BY DEF Phases
<1>12. CASE ReconcileProvisioning BY <1>4, <1>8, <1>12 DEF ReconcileProvisioning
<1>13. CASE ReconcileStarting BY <1>8, <1>9, <1>11, <1>13 DEF ReconcileStarting
<1>14. CASE ReconcileRunning BY <1>8, <1>14 DEF ReconcileRunning
<1>15. CASE CompleteCommand BY <1>3, <1>8, <1>9, <1>11, <1>15 DEF CompleteCommand
<1>16. CASE ReconcileVerifying BY <1>3, <1>8, <1>16 DEF ReconcileVerifying
<1>17. CASE ReconcileClosing BY <1>4, <1>8, <1>17 DEF ReconcileClosing
<1>18. CASE ReconcileDispatches \/ EvaluateDispatches
  BY <1>18 DEF ReconcileDispatches, EvaluateDispatches, RowStep
<1> QED BY <1>6, <1>7, <1>10, <1>12, <1>13, <1>14, <1>15, <1>16, <1>17, <1>18 DEF DaemonStep

\* So does a step of whoever drives a run.
LEMMA DriveStep == ASSUME RowTypes, NEW r \in Runs, Drive(r) PROVE RowStep
<1>1. row[r] \in RowSet BY DEF RowTypes
<1>2. ASSUME NEW v \in RowSet, v.state # "done", row' = [row EXCEPT ![r] = v] PROVE RowStep
  BY <1>2 DEF RowStep, Moves
<1>3. ASSUME NEW s \in Phases \ {"done"}, Becomes(r, s) PROVE RowStep
  <2> DEFINE v == [row[r] EXCEPT !.state = s, !.workspace = TRUE]
  <2>1. row' = [row EXCEPT ![r] = v] BY <1>3 DEF RowTypes, Becomes
  <2>2. v \in RowSet /\ v.state # "done" BY <1>1 DEF RowSet
  <2> HIDE DEF v
  <2> QED BY <1>2, <2>1, <2>2
<1>4. {"provisioning", "starting", "running", "verifying"} \subseteq Phases \ {"done"} BY DEF Phases
<1>5. ASSUME NEW lane \in LanesOf(r), Retire(r, lane) PROVE RowStep
  <2>1. lane \in Lanes BY <1>5 DEF LanesOf, Lanes
  <2> QED BY <1>5, <2>1 DEF RowStep, Retired
<1>6. CASE CloseFailed(r)
  <2> DEFINE v == [row[r] EXCEPT !.state = "closing", !.unread = TRUE]
  <2>1. row' = [row EXCEPT ![r] = v] BY <1>6 DEF CloseFailed
  <2>2. v \in RowSet /\ v.state # "done" BY <1>1 DEF RowSet, Phases
  <2> HIDE DEF v
  <2> QED BY <1>2, <2>1, <2>2
<1> QED BY <1>3, <1>4, <1>5, <1>6 DEF Drive

\* And a step of a goroutine, of another process, of a reader and of the world.
LEMMA StepOfRows == ASSUME RowTypes, [Next]_vars PROVE RowStep
<1>1. CASE DaemonStep BY <1>1, PassStep
<1>2. ASSUME NEW r \in Runs, GoroutineStep(r) \/ OtherProcess(r) PROVE RowStep
  <2>1. CASE Drive(r) BY <2>1, DriveStep
  <2>2. CASE UNCHANGED row BY <2>2 DEF RowStep
  <2>3. CASE row' = [row EXCEPT ![r].state = "provisioning"]
    <3> DEFINE v == [row[r] EXCEPT !.state = "provisioning"]
    <3>1. row' = [row EXCEPT ![r] = v] BY <2>3
    <3>2. v \in RowSet /\ v.state # "done" BY DEF RowTypes, RowSet, Phases
    <3> HIDE DEF v
    <3> QED BY <3>1, <3>2 DEF RowStep, Moves
  <2>4. CASE Retire(r, "mandatory")
    <3>1. "mandatory" \in Lanes BY DEF Lanes
    <3> QED BY <2>4, <3>1 DEF RowStep, Retired
  <2> QED BY <1>2, <2>1, <2>2, <2>3, <2>4 DEF GoroutineStep, OtherProcess
<1>3. CASE Reader
  <2>1. ASSUME NEW r \in Runs, Show(r) PROVE RowStep BY <2>1 DEF Show, RowStep
  <2>2. ASSUME NEW r \in Runs, FocusReturns(r) PROVE RowStep
    <3>1. CASE MarkRead(r) /\ pane' = Closed
      <4>1. Marks(r) BY <2>2, <3>1 DEF FocusReturns, Marks, Closed
      <4> QED BY <3>1, <4>1 DEF RowStep, Marked
    <3> QED BY <2>2, <3>1 DEF FocusReturns, RowStep
  <2>3. CASE ShowMarksRead
    <3>1. CASE show \in Runs
      BY <2>3, <3>1 DEF ShowMarksRead, RowStep, Marked, Marks
    <3>2. CASE show \notin Runs
      <4>1. [row EXCEPT ![show].unread = FALSE] = row BY <3>2 DEF RowTypes
      <4> QED BY <2>3, <4>1 DEF ShowMarksRead, MarkRead, RowStep
    <3> QED BY <3>1, <3>2
  <2>4. CASE OpenPane \/ Refresh \/ MoveCursor \/ Enter \/ Quit
    BY <2>4 DEF OpenPane, Refresh, MoveCursor, Enter, Quit, RowStep
  <2> QED BY <1>3, <2>1, <2>2, <2>3, <2>4 DEF Reader
<1>4. CASE Crash BY <1>4 DEF Crash, RowStep
<1>5. CASE TroubleChanges \/ GateChanges BY <1>5 DEF TroubleChanges, GateChanges, inboxVars, RowStep
<1>6. CASE UNCHANGED vars BY <1>6 DEF vars, inboxVars, RowStep
<1> QED BY <1>1, <1>2, <1>3, <1>4, <1>5, <1>6 DEF Next, ReaderStep

-----------------------------------------------------------------------------
(* What each way does to the rows and to the inbox.                        *)

\* The row a run is retired with is a row.
LEMMA TerminalTyped ==
    ASSUME RowTypes, NEW r \in Runs, NEW lane \in Lanes
    PROVE  /\ TerminalRow(r, lane) \in RowSet
           /\ TerminalRow(r, lane).lane = lane /\ TerminalRow(r, lane).unread = (lane # "auto")
<1>1. row[r] \in RowSet BY DEF RowTypes
<1>2. "done" \in Phases /\ (lane # "auto") \in BOOLEAN BY DEF Phases
<1> QED BY <1>1, <1>2 DEF TerminalRow, RowSet

\* Rows stay rows.
LEMMA RowsTyped == ASSUME RowTypes, RowStep PROVE RowTypes'
<1>1. CASE row' = row BY <1>1 DEF RowTypes
<1>2. CASE Admit
  <2>1. ASSUME NEW r \in Runs
        PROVE  (IF r \in Accepted THEN [row[r] EXCEPT !.state = "provisioning"] ELSE row[r]) \in RowSet
    <3>1. row[r] \in RowSet /\ "provisioning" \in Phases BY DEF RowTypes, Phases
    <3> QED BY <3>1 DEF RowSet
  <2> QED BY <1>2, <2>1 DEF Admit, RowTypes
<1>3. ASSUME NEW r \in Runs, Moves(r) \/ Retired(r) \/ RecordRunEvent(r) \/ Marked(r) PROVE RowTypes'
  <2>1. row[r] \in RowSet BY DEF RowTypes
  <2>2. CASE Moves(r) BY <2>2 DEF Moves, RowTypes
  <2>3. CASE Retired(r)
    <3>1. PICK lane \in Lanes : Retire(r, lane) BY <2>3 DEF Retired
    <3> QED BY <3>1, TerminalTyped DEF Retire, RowTypes
  <2>4. CASE RecordRunEvent(r) BY <2>1, <2>4 DEF RecordRunEvent, RowTypes, RowSet
  <2>5. CASE Marked(r) BY <2>1, <2>5 DEF Marked, MarkRead, RowTypes, RowSet
  <2> QED BY <1>3, <2>2, <2>3, <2>4, <2>5
<1> QED BY <1>1, <1>2, <1>3 DEF RowStep

\* Only a mark takes an outcome out of the inbox, and the run has ended by then.
LEMMA OnlyMarksRead ==
    ASSUME RowTypes, RowStep, NEW r \in Runs, OutOfInbox(r)', ~OutOfInbox(r)
    PROVE  r \in Ended /\ Marks(r)
<1>1. row'[r].state = "done" /\ row'[r].lane # "auto" /\ ~row'[r].unread /\ row[r] \in RowSet
  BY DEF OutOfInbox, Ended, RowTypes
<1>2. row[r].state = "done" => row[r].lane = "auto" \/ row[r].unread BY DEF OutOfInbox, Ended
<1>3. row' # row BY <1>1, <1>2
<1>4. ~Admit
  <2>1. SUFFICES ASSUME Admit PROVE FALSE OBVIOUS
  <2>2. CASE r \in Accepted
    <3>1. row'[r] = [row[r] EXCEPT !.state = "provisioning"] BY <2>1, <2>2 DEF Admit
    <3> QED BY <1>1, <3>1 DEF RowSet
  <2>3. CASE r \notin Accepted
    <3>1. row'[r] = row[r] BY <2>1, <2>3 DEF Admit
    <3> QED BY <1>1, <1>2, <3>1
  <2> QED BY <2>2, <2>3
<1>5. PICK s \in Runs : Moves(s) \/ Retired(s) \/ RecordRunEvent(s) \/ Marked(s)
  BY <1>3, <1>4 DEF RowStep
<1>6. s = r
  <2>1. row'[r] # row[r] BY <1>1, <1>2
  <2> QED BY <1>5, <2>1 DEF Moves, Retired, Retire, RecordRunEvent, Marked, MarkRead, RowTypes
<1>7. ~Moves(r) BY <1>1 DEF Moves, RowTypes
<1>8. ~Retired(r)
  <2>1. SUFFICES ASSUME NEW lane \in Lanes, Retire(r, lane) PROVE FALSE BY DEF Retired
  <2>2. row'[r] = TerminalRow(r, lane) BY <2>1 DEF Retire, RowTypes
  <2>3. PICK x : x = TerminalRow(r, lane) OBVIOUS
  <2>4. x.lane = lane /\ x.unread = (lane # "auto") BY <2>3, TerminalTyped
  <2>5. x.lane # "auto" /\ ~x.unread BY <1>1, <2>2, <2>3
  <2> QED BY <2>4, <2>5
<1>9. ~RecordRunEvent(r)
  <2>1. SUFFICES ASSUME row' = [row EXCEPT ![r].unread = TRUE] PROVE FALSE
    BY <1>3 DEF RecordRunEvent
  <2>2. row'[r] = [row[r] EXCEPT !.unread = TRUE] BY <2>1 DEF RowTypes
  <2> QED BY <1>1, <2>2 DEF RowSet
<1>10. Marked(r) BY <1>5, <1>6, <1>7, <1>8, <1>9
<1>11. row'[r] = [row[r] EXCEPT !.unread = FALSE] BY <1>10 DEF Marked, MarkRead, RowTypes
<1>12. row[r].state = "done" BY <1>1, <1>11 DEF RowSet
<1> QED BY <1>10, <1>12 DEF Marked, Ended

-----------------------------------------------------------------------------
(* The theorem.                                                            *)

\* Rows are rows in every state.
LEMMA RowsAlways == Spec => []RowTypes
<1>1. Init => RowTypes
  <2>1. SUFFICES ASSUME Init, NEW r \in Runs
                 PROVE  [state |-> scenario.rows[r], workspace |-> scenario.rows[r] \in Started,
                         lane |-> None, unread |-> TRUE] \in RowSet
    BY DEF Init, RowTypes
  <2>2. scenario.rows \in [Runs -> Phases] BY <2>1, PassAssumption DEF Init
  <2>3. scenario.rows[r] \in Phases /\ (scenario.rows[r] \in Started) \in BOOLEAN BY <2>2
  <2> QED BY <2>3 DEF RowSet
<1>2. RowTypes /\ [Next]_vars => RowTypes' BY StepOfRows, RowsTyped
<1> QED BY <1>1, <1>2, PTL DEF Spec

\* What the operator read of a run before it ended says nothing of how it ended:
\* `show' and the pane may have read the row at any earlier time, and the run may
\* be retired between the reading and the mark by any pass or goroutine
\* (terminalAcceptanceTx against MarkRead).
THEOREM OutcomesStayUnread == Spec => OutcomeStaysUnread
<1>1. RowTypes /\ [Next]_vars =>
        [\A r \in Runs : OutOfInbox(r)' /\ ~OutOfInbox(r) => r \in Ended /\ Marks(r)]_inboxVars
  BY StepOfRows, OnlyMarksRead
<1> QED BY <1>1, RowsAlways, PTL DEF Spec, OutcomeStaysUnread
=============================================================================
