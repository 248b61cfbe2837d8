----------------------------- MODULE DaemonPass -----------------------------
(***************************************************************************)
(* The daemon's loop (cmd/herdr-bots/main.go: daemonCmd): every tick is a  *)
(* pass of Reconcile over the unfinished runs, Dispatch, Evaluate over the *)
(* jobs and Dispatch again, and the first error ends what is left of it.   *)
(* A background goroutine that cannot report its error leaves it for the   *)
(* next pass, which does nothing but report it.  The pass that starts the  *)
(* daemon ends it on an error, and launchd starts it anew.  A pass acts on *)
(* the runs as it listed them, while goroutines, attended processes and    *)
(* the operator's commands move them on.  The leases of claims are not     *)
(* kept: any claim may have lapsed when a pass comes to its run, whoever   *)
(* drives it, and some pass may also leave it alone.                       *)
(*                                                                         *)
(* Herdr and the database may be in trouble at any time and for as long as *)
(* they like: then calls to them fail, and the daemon may be killed.  Git  *)
(* answers the source gate of each job or does not.  What a run does       *)
(* inside a phase is RunLifecycle's, whom Dispatch admits is Admission's,  *)
(* which occurrence is due is Intake's.                                    *)
(***************************************************************************)
EXTENDS Inbox, FiniteSets

CONSTANTS
    Jobs,       \* the jobs, in the order of the configuration file
    RunOf,      \* job -> the run its due occurrence becomes
    Scenarios   \* what is there at first, whether things fail, whether someone reads

JobSet == {Jobs[i] : i \in DOMAIN Jobs}
\* The states of a run that is under way: with its workspace, and all of them.
Started == {"starting", "running", "verifying"}
UnderWay == Started \cup {"provisioning"}

ASSUME PassAssumption ==
    /\ RunOf \in [JobSet -> Runs]
    /\ \A s \in Scenarios :
         /\ s.rows \in [Runs -> Phases \ {"closing", "done"}]
         /\ s.faults \in BOOLEAN /\ s.reading \in BOOLEAN
         /\ s.due \subseteq JobSet /\ \A j \in s.due : s.rows[RunOf[j]] = "absent"

VARIABLES
    pass,       \* where the daemon is, the runs or jobs left, is it the first pass
    inFlight,   \* Engine.inFlight: runs that have a goroutine
    asyncErr,   \* Engine.asyncErr: an error is kept for the next call
    due,        \* jobs whose occurrence is due and not decided
    trouble,    \* Herdr or the database fail
    gates,      \* the jobs whose source gate answers
    scenario

vars == <<inboxVars, pass, inFlight, asyncErr, due, trouble, gates, scenario>>

Down == [pc |-> "down", todo |-> <<>>, first |-> TRUE]
Waiting == [pc |-> "wait", todo |-> <<>>, first |-> FALSE]

Init ==
    /\ scenario \in Scenarios
    /\ row = [r \in Runs |-> [state |-> scenario.rows[r], workspace |-> scenario.rows[r] \in Started,
                              lane |-> None, unread |-> TRUE]]
    /\ due = scenario.due
    /\ show = None /\ pane = Closed
    /\ pass = Down /\ inFlight = {} /\ asyncErr = FALSE
    /\ trouble = FALSE /\ gates = JobSet

readers == <<show, pane>>
world == <<trouble, gates, scenario>>

GoOn == pass' = [pass EXCEPT !.todo = Tail(@)]
\* An error ends the pass: the first one takes the daemon and every goroutine
\* with it, any other is logged.
EndPass ==
    IF pass.first THEN pass' = Down /\ inFlight' = {} /\ asyncErr' = FALSE
                  ELSE pass' = Waiting /\ UNCHANGED <<inFlight, asyncErr>>

\* recordBackgroundError: several errors are kept as one.
KeepError == asyncErr' = TRUE

\* Mutant: the kept error is reported, and kept.
BackgroundErrorKept == asyncErr /\ asyncErr' = TRUE
\* backgroundError: reporting an error forgets it.
BackgroundError == asyncErr /\ asyncErr' = FALSE
\* Reconcile and Dispatch begin by returning it.
ReportBackgroundError ==
    /\ BackgroundError
    /\ pass' = (IF pass.first THEN Down ELSE Waiting)
    /\ inFlight' = IF pass.first THEN {} ELSE inFlight

-----------------------------------------------------------------------------
(* Reconcile                                                               *)

\* launchd starts the daemon, or its ticker fires.
BeginPass ==
    /\ pass.pc \in {"down", "wait"}
    /\ pass' = [pass EXCEPT !.pc = "begin"]
    /\ UNCHANGED <<row, readers, inFlight, asyncErr, due, world>>

\* The runs are copied as they are now.
NonTerminalRuns ==
    LET ids == SetToSortSeq(Existing \ Ended, <)
    IN  [i \in DOMAIN ids |-> [run |-> ids[i], state |-> row[ids[i]].state]]

ListRuns ==
    /\ pass.pc = "begin"
    /\ \/ ReportBackgroundError
       \/ trouble /\ ~asyncErr /\ EndPass
       \/ /\ ~asyncErr
          /\ pass' = [pass EXCEPT !.pc = "runs", !.todo = NonTerminalRuns]
          /\ UNCHANGED <<inFlight, asyncErr>>
    /\ UNCHANGED <<row, readers, due, world>>

Current == Head(pass.todo).run
\* The current run was in state s when it was listed, and may have moved since.
Listed(s) == pass.pc = "runs" /\ pass.todo # <<>> /\ Head(pass.todo).state = s

\* Accepted runs are left to Dispatch.
ReconcileAccepted ==
    /\ Listed("accepted") /\ GoOn
    /\ UNCHANGED <<row, readers, inFlight, asyncErr, due, world>>

AsListed == row[Current].state = Head(pass.todo).state
\* closeAndFinish and the store calls for a run without a workspace: the run ends,
\* its close stays pending, or the run has moved on and the call is a conflict.
Interrupted == AsListed /\ Retire(Current, "mandatory")
ClosePending == AsListed /\ row[Current].workspace /\ trouble /\ CloseFailed(Current)
Conflict == ~AsListed /\ UNCHANGED row

\* A live claim is left alone.  A lapsed one is interrupted, or its run is seen to
\* have a worktree that nobody owns.  A conflict and a close that stays pending
\* are passed over; the error of a lookup, of the store or of leaving evidence of
\* a failed close ends the pass.
ReconcileProvisioning ==
    /\ Listed("provisioning")
    /\ \/ /\ Interrupted \/ ClosePending \/ Conflict \/ RecordRunEvent(Current)
          /\ GoOn /\ UNCHANGED <<inFlight, asyncErr>>
       \/ trouble /\ (ClosePending \/ UNCHANGED row) /\ EndPass
    /\ UNCHANGED <<readers, due, world>>

\* The branch has a workspace, which is recorded before it is closed.
RecoverProvisioningWorkspace ==
    /\ Listed("provisioning") /\ AsListed /\ ~row[Current].workspace
    /\ row' = [row EXCEPT ![Current].workspace = TRUE]
    /\ UNCHANGED <<readers, pass, inFlight, asyncErr, due, world>>

\* The command of the current run has ended: completeCommand runs in the pass.
CommandDone == pass' = [pass EXCEPT !.todo[1].state = "completing"]

\* A live claim is left alone.  A lapsed one is confirmed when its command has
\* ended, and interrupted when it has not.  Every error ends the pass: also a
\* close that stays pending, and a run that has moved on.
ReconcileStarting ==
    /\ Listed("starting")
    /\ \/ (Interrupted \/ UNCHANGED row) /\ GoOn /\ UNCHANGED <<inFlight, asyncErr>>
       \/ /\ AsListed /\ row' = [row EXCEPT ![Current].state = "running"]
          /\ CommandDone /\ UNCHANGED <<inFlight, asyncErr>>
       \/ (ClosePending \/ Conflict) /\ EndPass
       \/ trouble /\ UNCHANGED row /\ EndPass
    /\ UNCHANGED <<readers, due, world>>

\* The run ends in the pass, its verifier included, or another has moved it on.
\* completeCommand has no error to return: it is kept, and the run may be left
\* where it was or in verification.
CompleteCommand ==
    /\ Listed("completing") /\ GoOn
    /\ \/ row[Current].state = "running" /\ (\E lane \in Lanes : Retire(Current, lane)) /\ UNCHANGED asyncErr
       \/ row[Current].state # "running" /\ UNCHANGED <<row, asyncErr>>
       \/ trouble /\ KeepError /\ UNCHANGED row
       \/ trouble /\ KeepError /\ row[Current].state = "running" /\ row' = [row EXCEPT ![Current].state = "verifying"]
    /\ UNCHANGED <<readers, inFlight, due, world>>

\* reconcileExpiredVerifier: a live claim is left alone, the run of a lapsed one
\* ends as its receipt says.  It has no error to return: it is kept.
ReconcileVerifying ==
    /\ Listed("verifying") /\ GoOn
    /\ \/ UNCHANGED <<row, asyncErr>>
       \/ AsListed /\ (\E lane \in Lanes : Retire(Current, lane)) /\ UNCHANGED asyncErr
       \/ trouble /\ KeepError /\ UNCHANGED row
    /\ UNCHANGED <<readers, inFlight, due, world>>

\* Mutant: the run is looked at and left alone.
MonitorNotStarted ==
    /\ Listed("running") /\ GoOn
    /\ UNCHANGED <<row, readers, inFlight, asyncErr, due, world>>
\* A run without a goroutine is monitored again (startMonitor).  A command that
\* has ended is completed, and a run that Herdr cannot account for is closed,
\* monitored or not.  The pass ends when the close stays pending, and when the
\* run has moved on since it was listed.
ReconcileRunning ==
    /\ Listed("running")
    /\ \/ GoOn /\ inFlight' = inFlight \cup {Current} /\ UNCHANGED <<row, asyncErr>>
       \/ CommandDone /\ UNCHANGED <<row, inFlight, asyncErr>>
       \/ Interrupted /\ GoOn /\ UNCHANGED <<inFlight, asyncErr>>
       \/ (ClosePending \/ Conflict) /\ EndPass
       \/ trouble /\ UNCHANGED row /\ EndPass
    /\ UNCHANGED <<readers, due, world>>

\* A pending close is looked at again: the workspace is gone, or the run stays
\* with its evidence, old or new.
ReconcileClosing ==
    /\ Listed("closing")
    /\ \/ /\ Interrupted \/ RecordRunEvent(Current)
          /\ GoOn /\ UNCHANGED <<inFlight, asyncErr>>
       \/ trouble /\ UNCHANGED row /\ EndPass
    /\ UNCHANGED <<readers, due, world>>

-----------------------------------------------------------------------------
(* Dispatch and Evaluate                                                   *)

Accepted == {r \in Runs : row[r].state = "accepted"}
\* Every accepted run is claimed and gets its goroutine.
Admit ==
    /\ row' = [r \in Runs |-> IF r \in Accepted THEN [row[r] EXCEPT !.state = "provisioning"] ELSE row[r]]
    /\ inFlight' = inFlight \cup Accepted

\* Mutant: only Evaluate dispatches.
ReconcileReturns ==
    /\ pass.pc = "runs" /\ pass.todo = <<>>
    /\ pass' = [pass EXCEPT !.pc = "jobs", !.todo = Jobs, !.first = FALSE]
    /\ UNCHANGED <<row, readers, inFlight, asyncErr, due, world>>
\* The last statement of Reconcile, whatever Evaluate will meet.
ReconcileDispatches ==
    /\ pass.pc = "runs" /\ pass.todo = <<>>
    /\ \/ ReportBackgroundError /\ UNCHANGED row
       \/ trouble /\ ~asyncErr /\ EndPass /\ UNCHANGED row
       \/ /\ ~asyncErr /\ Admit
          /\ pass' = [pass EXCEPT !.pc = "jobs", !.todo = Jobs, !.first = FALSE]
          /\ UNCHANGED asyncErr
    /\ UNCHANGED <<readers, due, world>>

\* SetCursorIfAuthority, after the occurrence was decided.
CursorMoved(j) == due \ {j}

\* A job that is due becomes a run; the error of a gate, like any other, leaves
\* the jobs behind it and the dispatch to the next pass.
EvaluateJob ==
    /\ pass.pc = "jobs" /\ pass.todo # <<>>
    /\ LET j == Head(pass.todo)
       IN  \/ j \notin due /\ GoOn /\ UNCHANGED <<row, due>>
           \/ /\ j \in due /\ j \in gates /\ GoOn
              /\ row' = [row EXCEPT ![RunOf[j]].state = "accepted"] /\ due' = CursorMoved(j)
           \/ /\ trouble \/ (j \in due /\ j \notin gates)
              /\ pass' = Waiting /\ UNCHANGED <<row, due>>
    /\ UNCHANGED <<readers, inFlight, asyncErr, world>>

EvaluateDispatches ==
    /\ pass.pc = "jobs" /\ pass.todo = <<>> /\ pass' = Waiting
    /\ \/ BackgroundError /\ UNCHANGED <<row, inFlight>>
       \/ trouble /\ ~asyncErr /\ UNCHANGED <<row, inFlight, asyncErr>>
       \/ ~asyncErr /\ Admit /\ UNCHANGED asyncErr
    /\ UNCHANGED <<readers, due, world>>

DaemonStep ==
    \/ BeginPass \/ ListRuns
    \/ ReconcileAccepted \/ ReconcileProvisioning \/ RecoverProvisioningWorkspace \/ ReconcileStarting
    \/ ReconcileRunning \/ CompleteCommand \/ ReconcileVerifying \/ ReconcileClosing
    \/ ReconcileDispatches \/ EvaluateJob \/ EvaluateDispatches

-----------------------------------------------------------------------------
(* The goroutines, the other processes and the world.                      *)

Release(r) == inFlight' = inFlight \ {r}

Becomes(r, s) == row' = [row EXCEPT ![r].state = s, ![r].workspace = TRUE]
\* A run that is refused before its command has run needs a review.
LanesOf(r) == IF row[r].state \in {"running", "verifying"} THEN Lanes ELSE {"mandatory"}
\* What a driver does to the row of its run (execute, monitor): it gets its
\* workspace, is started, confirmed and given to the verifier, ends, or is left
\* with a close that failed.
Drive(r) ==
    \/ row[r].state = "provisioning" /\ (Becomes(r, "provisioning") \/ Becomes(r, "starting"))
    \/ row[r].state = "starting" /\ Becomes(r, "running")
    \/ row[r].state = "running" /\ Becomes(r, "verifying")
    \/ row[r].state \in UnderWay /\ \E lane \in LanesOf(r) : Retire(r, lane)
    \/ row[r].state \in UnderWay /\ row[r].workspace /\ trouble /\ CloseFailed(r)

\* A goroutine returns when its run has ended, when another has taken it, when the
\* outcome of a call is uncertain, and with a store error that is kept.
GoroutineStep(r) ==
    /\ r \in inFlight
    /\ \/ Drive(r) /\ UNCHANGED <<inFlight, asyncErr>>
       \/ Release(r) /\ UNCHANGED <<row, asyncErr>>
       \/ trouble /\ KeepError /\ Release(r) /\ UNCHANGED row
    /\ UNCHANGED <<readers, pass, due, world>>

\* An attended process drives the run it has claimed; `cancel' ends a run, also
\* one that nobody has claimed.
OtherProcess(r) ==
    /\ \/ row[r].state = "accepted" /\ row' = [row EXCEPT ![r].state = "provisioning"]
       \/ row[r].state = "accepted" /\ Retire(r, "mandatory")
       \/ Drive(r)
    /\ UNCHANGED <<readers, pass, inFlight, asyncErr, due, world>>

Crash ==
    /\ trouble /\ pass # Down
    /\ pass' = Down /\ inFlight' = {} /\ asyncErr' = FALSE
    /\ UNCHANGED <<row, readers, due, world>>

TroubleChanges ==
    /\ scenario.faults /\ trouble' = ~trouble
    /\ UNCHANGED <<inboxVars, pass, inFlight, asyncErr, due, gates, scenario>>

GateChanges ==
    /\ scenario.faults
    /\ \E j \in JobSet : gates' = IF j \in gates THEN gates \ {j} ELSE gates \cup {j}
    /\ UNCHANGED <<inboxVars, pass, inFlight, asyncErr, due, trouble, scenario>>

ReaderStep ==
    /\ scenario.reading /\ Reader
    /\ UNCHANGED <<pass, inFlight, asyncErr, due, world>>

Next ==
    \/ DaemonStep \/ (\E r \in Runs : GoroutineStep(r) \/ OtherProcess(r))
    \/ Crash \/ TroubleChanges \/ GateChanges \/ ReaderStep

\* The daemon's loop and launchd (KeepAlive) always go on; nothing is assumed of
\* the goroutines, of other processes, of the faults or of the operator.
Spec == Init /\ [][Next]_vars /\ WF_vars(DaemonStep)

-----------------------------------------------------------------------------
(* Properties.                                                             *)

\* Every variable keeps the values its column or field can have, only a run that
\* exists has a goroutine, and an occurrence that is due has not become a run.
TypeOK ==
    /\ row \in [Runs -> [state : Phases, workspace : BOOLEAN,
                         lane : Lanes \cup {None}, unread : BOOLEAN]]
    /\ show \in Runs \cup {None} /\ pane.opening \subseteq Runs
    /\ pass.pc \in {"down", "wait", "begin", "runs", "jobs"} /\ pass.first \in BOOLEAN
    /\ inFlight \subseteq Existing /\ due \subseteq JobSet /\ gates \subseteq JobSet
    /\ \A j \in due : row[RunOf[j]].state = "absent"

\* Once the trouble is over an accepted run is dispatched, although an error
\* ends a pass, a kept error takes a pass of its own, and a source gate that
\* fails for ever ends every evaluation (Reconcile: its last statement).
AcceptedIsDispatched ==
    \A r \in Runs : (<>[]~trouble) => []<>(row[r].state # "accepted")

\* Once the trouble is over and the gates of a job and of the jobs before it
\* answer, the occurrence that is due is decided, whatever the later gates do
\* (Evaluate, daemonCmd, backgroundError).
DueIsDecided ==
    \A i \in DOMAIN Jobs :
        (<>[](~trouble /\ \A k \in 1 .. i : Jobs[k] \in gates)) => []<>(Jobs[i] \notin due)

\* A run that is under way does not stay without a goroutine to watch it, after
\* any sequence of crashes and failed first passes (Reconcile: startMonitor).
RunningIsWatched ==
    \A r \in Runs : (<>[]~trouble) => []<>(row[r].state = "running" => r \in inFlight)
=============================================================================
