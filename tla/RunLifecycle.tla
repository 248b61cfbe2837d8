---------------------------- MODULE RunLifecycle ----------------------------
(***************************************************************************)
(* One run of a headless-command job from admission to retirement, driven  *)
(* by everything that may touch it at the same time:                       *)
(*   exec    the goroutine Engine.execute starts when a run is admitted,   *)
(*           in the daemon or in an attended `run' process;                *)
(*   daemon  the daemon's Reconcile loop;                                  *)
(*   mon     the monitor goroutine Reconcile starts after a restart;       *)
(*   cli     one operator command, `cancel' or `recover'.                  *)
(* They share the row (RunRow gives every store call), the Herdr server    *)
(* and nothing else, except that daemon, mon and a daemon-owned exec live  *)
(* in one process: they share its owner token and its inFlight map, and    *)
(* die together.  Processes crash between any two steps; the daemon is     *)
(* restarted with a new owner token.                                       *)
(*                                                                         *)
(* A Herdr call is issue, effect and return.  The server may act as long   *)
(* as the deadline the client passed has not run out, also after the       *)
(* client has already seen an error, and never later.  Time is the moving  *)
(* frame of RunRow.                                                        *)
(***************************************************************************)
EXTENDS RunRow, Sequences

CONSTANTS
    Jobs,               \* [verifier, attest : BOOLEAN] records considered
    Policy,             \* the acceptance policy of the saved definition
    Commands,           \* what the operator may do: the commands "cancel" and "recover",
                        \* and "close" a workspace or "remove" a worktree by hand
    Attended,           \* is there an attended `run' process?
    Crashes,            \* which processes may crash: subset of {"daemon", "attended"}
    ProvisioningLease,  \* provisioningLeaseDuration, in ticks
    OperationLimit,     \* provisioningOperationLimit
    CloseLease,         \* workspaceCloseLease
    VerifierLease,      \* verifierLease
    VerifierLimit,      \* the verifier's own timeout
    CommitDelay,        \* ticks between e.now() and the commit that uses it
    ScanDelay           \* ticks between reading the runs and reconciling this one

ASSUME LifecycleAssumption ==
    /\ Jobs \subseteq [verifier : BOOLEAN, attest : BOOLEAN]
    /\ Policy \in {"mandatory", "auto", "sample"}
    /\ Commands \subseteq {"cancel", "recover", "close", "remove"}
    /\ Attended \in BOOLEAN /\ Crashes \subseteq {"daemon", "attended"}
    /\ {"d1", "d2", "attended", "operator"} \subseteq Owners
    /\ {"exec", "daemon", "mon", "cli"} \subseteq Claims
    /\ "attestation" \in Receipts
    /\ OperationLimit \in Nat \ {0} /\ VerifierLimit \in Nat \ {0}
    /\ ProvisioningLease \in Nat /\ ProvisioningLease > OperationLimit
    /\ CloseLease \in Nat /\ CloseLease > OperationLimit
    /\ VerifierLease \in Nat /\ VerifierLease > VerifierLimit
    /\ CommitDelay \in 0 .. Horizon /\ ScanDelay \in 0 .. Horizon

\* A thread holds one claim token at a time, so its name serves as the token.
\* Owner tokens are those of the daemon before and after its restart, of the
\* attended process and of the operator's.
Threads == {"exec", "daemon", "mon", "cli"}
Attestation == "attestation"

VARIABLES
    row,        \* the run
    job,        \* its saved definition
    ws,         \* the Herdr workspace: not created, open, closed by hand or by a
                \* call (its git worktree stays), worktree removed by the operator
    cmd,        \* the command in its pane
    marker,     \* the verifier's durable result file
    req,        \* ticks left in which a request can still take effect
    th,         \* the threads
    daemon,     \* owner token of the daemon now running
    attended,   \* an attended process is alive
    closes,     \* how often CloseWorkspace was called
    verified    \* how each verifier invocation ended

world == <<ws, cmd, marker, req>>
procs == <<daemon, attended>>
ghosts == <<closes, verified>>
vars == <<row, job, ws, cmd, marker, req, th, daemon, attended, closes, verified>>

Requests == {"provision", "start", "close", "verify"}

Idle == [pc |-> "idle", owner |-> None, from |-> "none", out |-> None,
         now |-> 0, snap |-> None]

-----------------------------------------------------------------------------
(* Threads.  Arriving at a program point a thread forgets old samples; a   *)
(* path that keeps using the `now' it has says so with Carry.              *)

At(t, pc) == [th[t] EXCEPT !.pc = pc, !.now = 0]
Carry(t, pc) == [th[t] EXCEPT !.pc = pc, !.snap = None]
Become(t, new) == th' = [th EXCEPT ![t] = new]
Goto(t, pc) == Become(t, At(t, pc))
Stop(t) == Become(t, Idle)

\* closeAndFinish, with a time sampled now or with the caller's.
CloseFor(t, o) == [At(t, "claimClose") EXCEPT !.out = o]

\* e.now() evaluated at some moment since the thread got here.
Fresh(t) == {now \in -CommitDelay .. 0 : now >= th[t].now}

\* A compare-and-set: one transaction, and what the thread does either way.
CAS(t, can, new, yes, no) ==
    \/ can /\ row' = new /\ Become(t, yes)
    \/ ~can /\ UNCHANGED row /\ Become(t, no)

\* RecordRunEvent: evidence for the operator, which marks the run unread.
Evidence(t) == row' = EventRecorded(row) /\ Stop(t)

MinOf(a, b) == IF a < b THEN a ELSE b
\* Mutant: the deadline ignores the claim.
UnboundedDeadline(t) == OperationLimit
\* boundedProvisioningContext.  The local lease is the row's: nobody renews a
\* claim but its owner, and once taken away it has run out.
ClientDeadline(t) ==
    IF row.powner = th[t].owner THEN MinOf(row.please, OperationLimit) ELSE 0

\* Program points at which a thread waits for a call with a deadline.
WaitsFor == [provWait |-> "provision", startWait |-> "start",
             closeWait |-> "close", runVer |-> "verify"]
\* Program points whose next store call uses the sample carried along.
Carrying == {"claimClose", "find", "recWs", "intProv", "recExists", "reclaim",
             "readMarker", "expVer", "cliFinish", "cliFind", "cliRecover", "late"}

Timed_out == Outcome("timed_out", "unverified")
Cancelled == Outcome("cancelled", "unverified")
Failed == Outcome("failed", "unverified")
Succeeded == Outcome("succeeded", "unverified")
Passed == Outcome("succeeded", "passed")
VerifierFailed == Outcome("failed", "failed")

\* Engine.inFlight of the daemon's process.
InFlight == \E t \in {"mon", "exec"} : th[t].pc # "idle" /\ th[t].owner = daemon

-----------------------------------------------------------------------------
(* Engine.dispatch and Engine.execute.                                     *)

\* The admission decision itself is the subject of another module: here it
\* admits, holds (no step) or terminalizes.
DecideAdmission ==
    /\ CanDecideAdmission(row) /\ th["exec"].pc = "idle"
    /\ \E o \in {daemon} \cup (IF attended THEN {"attended"} ELSE {}) :
          \/ /\ row' = Admitted(row, o, ProvisioningLease)
             /\ Become("exec", [Idle EXCEPT !.pc = "renewProbe", !.owner = o])
          \/ /\ \E s \in {"blocked", "failed"} : row' = AdmissionFinished(row, s)
             /\ UNCHANGED th
    /\ UNCHANGED <<job, world, procs, ghosts>>

Renew(t, pc, next) ==
    /\ th[t].pc = pc
    /\ \E now \in Fresh(t) :
          CAS(t, CanRenewProvisioningClaim(row, th[t].owner, now),
              Renewed(row, now + ProvisioningLease), At(t, next), Idle)
    /\ UNCHANGED <<job, world, procs, ghosts>>

\* Route probe, launch and source context; any failure is failProvisioning.
Probe(t) ==
    /\ th[t].pc = "probe"
    /\ \/ Goto(t, "renewProvision") /\ UNCHANGED row
       \/ Goto(t, "failProvisioning") /\ UNCHANGED row
    /\ UNCHANGED <<job, world, procs, ghosts>>

FailProvisioning(t) ==
    /\ th[t].pc = "failProvisioning"
    /\ \E now \in Fresh(t) :
          CAS(t, CanFinishProvisioningClaim(row, th[t].owner, now),
              ClaimFinished(row, Failed), Idle, Idle)
    /\ UNCHANGED <<job, world, procs, ghosts>>

SavePlan(t) ==
    /\ th[t].pc = "savePlan"
    /\ \E now \in Fresh(t) :
          CAS(t, CanSaveProvisioning(row, th[t].owner, now), PlanSaved(row),
              At(t, "provision"), Idle)
    /\ UNCHANGED <<job, world, procs, ghosts>>

\* A context whose deadline has passed fails before anything is sent.
IssueProvision(t) ==
    /\ th[t].pc = "provision"
    /\ IF ClientDeadline(t) > 0
       THEN /\ req' = [req EXCEPT !["provision"] = ClientDeadline(t)]
            /\ Goto(t, "provWait") /\ UNCHANGED row
       ELSE Evidence(t) /\ UNCHANGED req
    /\ UNCHANGED <<job, ws, cmd, marker, procs, ghosts>>

\* A full receipt, a receipt without a path, or an error that says nothing.
ProvisionReturns(t) ==
    /\ th[t].pc = "provWait"
    /\ \/ ws # "none" /\ \E pc \in {"saveReceipt", "savePartial"} : Goto(t, pc) /\ UNCHANGED row
       \/ Evidence(t)
    /\ UNCHANGED <<job, world, procs, ghosts>>

\* The receipt is saved; a lost claim and a store error both lead to the
\* late cleanup of recoverUnsavedReceipt.
SaveReceipt(t) ==
    /\ th[t].pc = "saveReceipt"
    /\ \/ \E now \in Fresh(t) :
             CAS(t, CanSaveProvisioning(row, th[t].owner, now), ReceiptSaved(row),
                 At(t, "stage"), At(t, "late"))
       \/ Goto(t, "late") /\ UNCHANGED row
    /\ UNCHANGED <<job, world, procs, ghosts>>

SavePartial(t) ==
    /\ th[t].pc = "savePartial"
    /\ \/ \E now \in Fresh(t) :
             CAS(t, CanSaveProvisioning(row, th[t].owner, now),
                 EventRecorded(PartialReceiptSaved(row, TRUE)), Idle, At(t, "late"))
       \/ Goto(t, "late") /\ UNCHANGED row
    /\ UNCHANGED <<job, world, procs, ghosts>>

ClaimLateCleanup(t) ==
    /\ th[t].pc = "late"
    /\ LET now == th[t].now IN
          CAS(t, CanClaimLateCleanup(row, th[t].owner, now),
              LateCleanupClaimed(row, th[t].owner, t, now + CloseLease, Interrupted, TRUE),
              [At(t, "closeCall") EXCEPT !.from = row.state, !.out = LateIntent(row, Interrupted)],
              Idle)
    /\ UNCHANGED <<job, world, procs, ghosts>>

\* Bounded inputs and the prompt file; any failure is failStarting.
Stage(t) ==
    /\ th[t].pc = "stage"
    /\ \E pc \in {"renewStart", "failStarting"} : Goto(t, pc)
    /\ UNCHANGED <<row, job, world, procs, ghosts>>

FailStarting(t) ==
    /\ th[t].pc = "failStarting"
    /\ \E now \in Fresh(t) :
          CAS(t, CanFinishStartingClaim(row, th[t].owner, now),
              ClaimFinished(row, Failed), Idle, Idle)
    /\ UNCHANGED <<job, world, procs, ghosts>>

IssueStart(t) ==
    /\ th[t].pc = "startCommand"
    /\ IF ClientDeadline(t) > 0
       THEN /\ req' = [req EXCEPT !["start"] = ClientDeadline(t)]
            /\ Goto(t, "startWait") /\ UNCHANGED row
       ELSE Evidence(t) /\ UNCHANGED req
    /\ UNCHANGED <<job, ws, cmd, marker, procs, ghosts>>

\* recordStartingUncertainty when the call fails.
StartReturns(t) ==
    /\ th[t].pc = "startWait"
    /\ \/ cmd # "none" /\ Goto(t, "confirm") /\ UNCHANGED row
       \/ Evidence(t)
    /\ UNCHANGED <<job, world, procs, ghosts>>

ConfirmStart(t) ==
    /\ th[t].pc = "confirm"
    /\ \E now \in Fresh(t) :
          CAS(t, CanConfirmStartingClaim(row, th[t].owner, now), StartConfirmed(row),
              [At(t, "waitCommand") EXCEPT !.from = "running"], Idle)
    /\ UNCHANGED <<job, world, procs, ghosts>>

-----------------------------------------------------------------------------
(* Engine.monitorCommand, completeCommand and monitor.                     *)

\* Where completeCommand goes for exit code zero, and where monitor goes once
\* the run is settled.
Complete == IF cmd = "failed" THEN "failRun" ELSE IF job.attest THEN "attest" ELSE "settle"
Settled == IF job.verifier THEN "claimVer" ELSE "succeed"

\* WaitCommand: the marker was read, the job timed out, or an error.
WaitCommand(t) ==
    /\ th[t].pc = "waitCommand"
    /\ \/ cmd \in {"done", "failed"} /\ ws = "open" /\ Goto(t, Complete)
       \/ Become(t, CloseFor(t, Timed_out))
       \/ Become(t, CloseFor(t, Interrupted))
    /\ UNCHANGED <<row, job, world, procs, ghosts>>

FailRun(t) ==
    /\ th[t].pc = "failRun"
    /\ CAS(t, CanFinish(row, th[t].from), Finished(row, Failed), Idle, Idle)
    /\ UNCHANGED <<job, world, procs, ghosts>>

\* The transcript may be unreadable or name another model.
Attest(t) ==
    /\ th[t].pc = "attest"
    /\ \/ CAS(t, CanSetReceipt(row, "model_attestation", Attestation),
              ReceiptSet(row, "model_attestation", Attestation),
              At(t, "settle"), At(t, "failRun"))
       \/ Goto(t, "failRun") /\ UNCHANGED row
    /\ UNCHANGED <<job, world, procs, ghosts>>

Settle(t) ==
    /\ th[t].pc = "settle"
    /\ CAS(t, CanTransition(row, th[t].from), Transitioned(row, "settled"),
           [At(t, Settled) EXCEPT !.from = "settled"], Idle)
    /\ UNCHANGED <<job, world, procs, ghosts>>

Succeed(t) ==
    /\ th[t].pc = "succeed"
    /\ CAS(t, CanFinish(row, th[t].from), Finished(row, Succeeded), Idle, Idle)
    /\ UNCHANGED <<job, world, procs, ghosts>>

\* The verifier is claimed and, unless its receipt file cannot be prepared,
\* started under its own timeout.
ClaimVerifier(t) ==
    /\ th[t].pc = "claimVer"
    /\ \E pc \in {"startVer", "finVer"} :
          CAS(t, CanClaimVerifier(row),
              VerifierClaimed(row, th[t].owner, t, VerifierLease),
              [At(t, pc) EXCEPT !.out = Failed], Idle)
    /\ UNCHANGED <<job, world, procs, ghosts>>

StartVerifier(t) ==
    /\ th[t].pc = "startVer"
    /\ req' = [req EXCEPT !["verify"] = VerifierLimit]
    /\ verified' = Append(verified, "running")
    /\ Goto(t, "runVer")
    /\ UNCHANGED <<row, job, ws, cmd, marker, procs, closes>>

\* The verifier exits and its result is published, or it is killed at its
\* timeout, or the receipt protocol fails: the last two publish nothing.
VerifierEnds(t) ==
    /\ th[t].pc = "runVer"
    /\ req' = [req EXCEPT !["verify"] = 0]
    /\ \/ \E o \in {Passed, VerifierFailed} :
             /\ marker' = o /\ verified' = [verified EXCEPT ![Len(verified)] = o.verdict]
             /\ Become(t, [At(t, "finVer") EXCEPT !.out = o])
       \/ \E o \in {VerifierFailed, Failed} :
             /\ verified' = [verified EXCEPT ![Len(verified)] = "killed"] /\ UNCHANGED marker
             /\ Become(t, [At(t, "finVer") EXCEPT !.out = o])
    /\ UNCHANGED <<row, job, ws, cmd, procs, closes>>

\* Only the winner of FinishEffect removes the verifier's files.
FinishVerifier(t) ==
    /\ th[t].pc = "finVer"
    /\ \E now \in Fresh(t) :
          LET can == CanFinishEffect(row, "verifying", th[t].owner, t, "verifier", th[t].out, now)
          IN /\ CAS(t, can, EffectFinished(row, th[t].out), Idle, Idle)
             /\ marker' = IF can THEN None ELSE marker
    /\ UNCHANGED <<job, ws, cmd, req, procs, ghosts>>

-----------------------------------------------------------------------------
(* closeAndFinish, executeWorkspaceClose, finishWorkspaceClose and         *)
(* recoverExpiredWorkspaceClose.                                           *)

ClaimClose(t) ==
    /\ th[t].pc = "claimClose"
    /\ LET now == th[t].now IN
          CAS(t, CanClaimWorkspaceClose(row, th[t].from, now),
              WorkspaceCloseClaimed(row, th[t].owner, t, now + CloseLease, th[t].out),
              At(t, "closeCall"), Idle)
    /\ UNCHANGED <<job, world, procs, ghosts>>

IssueClose(t) ==
    /\ th[t].pc = "closeCall"
    /\ req' = [req EXCEPT !["close"] = OperationLimit]
    /\ closes' = closes + 1
    /\ Goto(t, "closeWait")
    /\ UNCHANGED <<row, job, ws, cmd, marker, procs, verified>>

CloseReturns(t) ==
    /\ th[t].pc = "closeWait"
    /\ \/ ws # "open" /\ Goto(t, "closeFin")
       \/ Goto(t, "exists")
    /\ UNCHANGED <<row, job, world, procs, ghosts>>

\* Mutant: a failed close is taken for a close.
CheckNothing(t) ==
    /\ th[t].pc = "exists" /\ Goto(t, "closeFin")
    /\ UNCHANGED <<row, job, world, procs, ghosts>>

\* Only an absent workspace proves that a failed close went through.
CheckClosed(t) ==
    /\ th[t].pc = "exists"
    /\ \/ ws # "open" /\ Goto(t, "closeFin") /\ UNCHANGED row
       \/ Evidence(t)
    /\ UNCHANGED <<job, world, procs, ghosts>>

FinishClose(t) ==
    /\ th[t].pc = "closeFin"
    /\ \E now \in Fresh(t) :
          CAS(t, CanFinishEffect(row, th[t].from, th[t].owner, t, "workspace_close", th[t].out, now),
              EffectFinished(row, th[t].out), Idle, Idle)
    /\ UNCHANGED <<job, world, procs, ghosts>>

\* Mutant: an expired close is simply called again.
CloseAgain(t) ==
    /\ th[t].pc = "recExists" /\ Goto(t, "closeCall")
    /\ UNCHANGED <<row, job, world, procs, ghosts>>

\* The close is never repeated: its workspace is looked up, and only its
\* absence lets a new owner finish the claim.
ObserveClose(t) ==
    /\ th[t].pc = "recExists"
    /\ \/ ws # "open" /\ Become(t, Carry(t, "reclaim")) /\ UNCHANGED row
       \/ Evidence(t)
    /\ UNCHANGED <<job, world, procs, ghosts>>

ReclaimClose(t) ==
    /\ th[t].pc = "reclaim"
    /\ LET now == th[t].now IN
          CAS(t, CanReclaimEffect(row, th[t].from, now),
              Reclaimed(row, th[t].owner, t, now + CloseLease), At(t, "closeFin"), Idle)
    /\ UNCHANGED <<job, world, procs, ghosts>>

-----------------------------------------------------------------------------
(* Engine.Reconcile.                                                       *)

ReadNonTerminalRuns ==
    /\ th["daemon"].pc = "idle"
    /\ row.state \in Active \/ row.ekind = "workspace_close"
    /\ Become("daemon", [Idle EXCEPT !.pc = "scan", !.owner = daemon, !.snap = row])
    /\ UNCHANGED <<row, job, world, procs, ghosts>>

\* The run as it was read, and the time as it is now.
Scanned == th["daemon"].snap
Looking(pc, o) == [Carry("daemon", pc) EXCEPT !.now = 0, !.from = Scanned.state, !.out = o]

\* startMonitor and the goroutine of reconcileCommand, under inFlight.
StartMonitor(pc, from) ==
    /\ UNCHANGED row
    /\ IF InFlight THEN Stop("daemon")
       ELSE th' = [th EXCEPT !["daemon"] = Idle,
                             !["mon"] = [Idle EXCEPT !.pc = pc, !.owner = daemon, !.from = from]]

ScannedClaimLives == Scanned.powner # None /\ Scanned.please > 0
ScannedEffectLives == Scanned.eowner # None /\ Scanned.elease > 0

ReconcileClose ==
    /\ Scanned.ekind = "workspace_close"
    /\ Become("daemon", IF ScannedEffectLives THEN Idle ELSE Looking("recExists", Scanned.intent))

\* Mutant: a run without a receipt is interrupted without looking it up.
ReconcileProvisioningBlindly ==
    /\ Scanned.ekind # "workspace_close" /\ Scanned.state = "provisioning"
    /\ Become("daemon",
         IF ScannedClaimLives THEN Idle
         ELSE IF Scanned.workspace THEN Looking("claimClose", Interrupted)
         ELSE Looking("intProv", Interrupted))

ReconcileProvisioning ==
    /\ Scanned.ekind # "workspace_close" /\ Scanned.state = "provisioning"
    /\ Become("daemon",
         IF ScannedClaimLives THEN Idle
         ELSE IF Scanned.workspace THEN Looking("claimClose", Interrupted)
         ELSE IF Scanned.branch THEN Looking("find", Interrupted)
         ELSE Looking("intProv", Interrupted))

ReconcileCommand ==
    /\ Scanned.ekind # "workspace_close" /\ Scanned.state \in {"starting", "running"}
    /\ Become("daemon",
         IF Scanned.state = "starting" /\ ScannedClaimLives THEN Idle
         ELSE Looking("result", Interrupted))

\* Mutant: an owned verifier is left alone even when its lease has run out.
ReconcileUnownedVerifying ==
    /\ Scanned.ekind # "workspace_close" /\ Scanned.state = "verifying"
    /\ Become("daemon", IF Scanned.eowner # None THEN Idle ELSE Looking("readMarker", Interrupted))

ReconcileVerifying ==
    /\ Scanned.ekind # "workspace_close" /\ Scanned.state = "verifying"
    /\ Become("daemon", IF ScannedEffectLives THEN Idle ELSE Looking("readMarker", Interrupted))

ReconcileRun ==
    /\ th["daemon"].pc = "scan"
    /\ \/ (ReconcileClose \/ ReconcileProvisioning \/ ReconcileCommand \/ ReconcileVerifying)
          /\ UNCHANGED row
       \/ Scanned.ekind # "workspace_close" /\ Scanned.state = "settled"
          /\ StartMonitor(Settled, "settled")
    /\ UNCHANGED <<job, world, procs, ghosts>>

\* FindWorkspaceByBranch lists worktrees: a closed workspace leaves one behind
\* without an identity.  An error ends the pass.
FindWorkspace ==
    /\ th["daemon"].pc = "find"
    /\ \/ Stop("daemon") /\ UNCHANGED row
       \/ ws = "closed" /\ Evidence("daemon")
       \/ ws = "open" /\ Become("daemon", Carry("daemon", "recWs")) /\ UNCHANGED row
       \/ ws \in {"none", "removed"} /\ Become("daemon", Carry("daemon", "intProv")) /\ UNCHANGED row
    /\ UNCHANGED <<job, world, procs, ghosts>>

RecoverWorkspace ==
    /\ th["daemon"].pc = "recWs"
    /\ CAS("daemon", CanRecoverProvisioningWorkspace(row, th["daemon"].now),
           WorkspaceRecovered(row), Carry("daemon", "claimClose"), Idle)
    /\ UNCHANGED <<job, world, procs, ghosts>>

InterruptProvisioning ==
    /\ th["daemon"].pc = "intProv"
    /\ CAS("daemon", CanInterruptExpiredProvisioning(row, th["daemon"].now),
           ClaimFinished(row, Interrupted), Idle, Idle)
    /\ UNCHANGED <<job, world, procs, ghosts>>

\* CommandResult: an error, a finished command, or one still running.
CommandResult ==
    /\ th["daemon"].pc = "result"
    /\ LET finished == cmd \in {"done", "failed"} /\ ws = "open"
           from == th["daemon"].from
       IN \/ Become("daemon", CloseFor("daemon", Interrupted)) /\ UNCHANGED row
          \/ finished /\ from = "starting" /\ Goto("daemon", "confExp") /\ UNCHANGED row
          \/ finished /\ from = "running" /\ Goto("daemon", Complete) /\ UNCHANGED row
          \/ ~finished /\ ws = "open" /\ from = "running" /\ StartMonitor("waitCommand", "running")
    /\ UNCHANGED <<job, world, procs, ghosts>>

ConfirmExpiredStart ==
    /\ th["daemon"].pc = "confExp"
    /\ \E now \in Fresh("daemon") :
          CAS("daemon", CanConfirmExpiredCommandStart(row, now), StartConfirmed(row),
              [At("daemon", Complete) EXCEPT !.from = "running"], Idle)
    /\ UNCHANGED <<job, world, procs, ghosts>>

\* Mutant: a result file is taken for a pass.
ReadAnyMarker ==
    /\ th["daemon"].pc = "readMarker"
    /\ Become("daemon", [Carry("daemon", "expVer") EXCEPT
                            !.out = IF marker = None THEN Interrupted ELSE Passed])
    /\ UNCHANGED <<row, job, world, procs, ghosts>>

\* reconcileExpiredVerifier: the durable result if there is one.
ReadMarker ==
    /\ th["daemon"].pc = "readMarker"
    /\ Become("daemon", [Carry("daemon", "expVer") EXCEPT
                            !.out = IF marker = None THEN Interrupted ELSE marker])
    /\ UNCHANGED <<row, job, world, procs, ghosts>>

FinishExpiredVerifier ==
    /\ th["daemon"].pc = "expVer"
    /\ LET can == CanFinishExpiredVerifier(row, th["daemon"].now)
       IN /\ CAS("daemon", can, ExpiredVerifierFinished(row, th["daemon"].out), Idle, Idle)
          /\ marker' = IF can THEN None ELSE marker
    /\ UNCHANGED <<job, ws, cmd, req, procs, ghosts>>

-----------------------------------------------------------------------------
(* The operator: Engine.Cancel and Engine.RecoverProvisioning.             *)

Command(pc, o) == [Idle EXCEPT !.pc = pc, !.owner = "operator", !.from = row.state,
                               !.out = o, !.snap = IF pc = "cliFind" THEN row ELSE None]

CancelRefused ==
    \/ row.state \in Terminal \cup {"provisioning"}
    \/ row.state = "starting" /\ row.powner # None /\ row.please > 0
    \/ row.state # "accepted" /\ ~row.workspace
    \/ row.ekind = "workspace_close" /\ row.elease > 0
    \/ row.ekind = "verifier"

Cancel ==
    /\ th["cli"].pc = "idle" /\ "cancel" \in Commands /\ ~CancelRefused
    /\ Become("cli",
         IF row.state = "accepted" THEN Command("cliFinish", Cancelled)
         ELSE IF row.ekind = "workspace_close" THEN Command("recExists", row.intent)
         ELSE Command("claimClose", Cancelled))
    /\ UNCHANGED <<row, job, world, procs, ghosts>>

CancelAccepted ==
    /\ th["cli"].pc = "cliFinish"
    /\ CAS("cli", CanFinish(row, "accepted"), Finished(row, Cancelled), Idle, Idle)
    /\ UNCHANGED <<job, world, procs, ghosts>>

RecoverProvisioning ==
    /\ th["cli"].pc = "idle" /\ "recover" \in Commands
    /\ CanInterruptRecovered(row, 0) /\ row.branch
    /\ Become("cli", Command("cliFind", Interrupted))
    /\ UNCHANGED <<row, job, world, procs, ghosts>>

\* Only verified absence of the branch goes on.
FindAbsent ==
    /\ th["cli"].pc = "cliFind"
    /\ \/ Stop("cli")
       \/ ws \in {"none", "removed"} /\ Become("cli", [th["cli"] EXCEPT !.pc = "cliRecover"])
    /\ UNCHANGED <<row, job, world, procs, ghosts>>

\* Mutant: the compare-and-set names the id and the state only.
RecoverUnbound ==
    /\ th["cli"].pc = "cliRecover"
    /\ CAS("cli", row.state = "provisioning", ClaimFinished(row, Interrupted), Idle, Idle)
    /\ UNCHANGED <<job, world, procs, ghosts>>

\* The compare-and-set names every column the command has seen.
InterruptRecovered ==
    /\ th["cli"].pc = "cliRecover"
    /\ CAS("cli", row = th["cli"].snap /\ CanInterruptRecovered(row, th["cli"].now),
           ClaimFinished(row, Interrupted), Idle, Idle)
    /\ UNCHANGED <<job, world, procs, ghosts>>

-----------------------------------------------------------------------------
(* Herdr, the operator's hands, crashes and time.                          *)

ServerProvisions ==
    /\ req["provision"] > 0 /\ ws = "none"
    /\ ws' = "open"
    /\ UNCHANGED <<row, job, cmd, marker, req, th, procs, ghosts>>

ServerStarts ==
    /\ req["start"] > 0 /\ ws = "open" /\ cmd = "none"
    /\ cmd' = "running"
    /\ UNCHANGED <<row, job, ws, marker, req, th, procs, ghosts>>

ServerCloses ==
    /\ req["close"] > 0 /\ ws = "open"
    /\ ws' = "closed"
    /\ UNCHANGED <<row, job, cmd, marker, req, th, procs, ghosts>>

CommandExits ==
    /\ cmd = "running" /\ ws = "open"
    /\ cmd' \in {"done", "failed"}
    /\ UNCHANGED <<row, job, ws, marker, req, th, procs, ghosts>>

ClosedByHand ==
    /\ "close" \in Commands /\ ws = "open" /\ ws' = "closed"
    /\ UNCHANGED <<row, job, cmd, marker, req, th, procs, ghosts>>

RemovedByHand ==
    /\ "remove" \in Commands /\ ws = "closed" /\ ws' = "removed"
    /\ UNCHANGED <<row, job, cmd, marker, req, th, procs, ghosts>>

\* The threads of a process die with it; requests already sent live on.
Killed(o) == [t \in Threads |-> IF th[t].owner = o THEN Idle ELSE th[t]]

CrashDaemon ==
    /\ "daemon" \in Crashes /\ daemon = "d1" /\ daemon' = "d2"
    /\ th' = Killed("d1")
    /\ UNCHANGED <<row, job, world, attended, ghosts>>

CrashAttended ==
    /\ "attended" \in Crashes /\ attended /\ attended' = FALSE
    /\ th' = Killed("attended")
    /\ UNCHANGED <<row, job, world, daemon, ghosts>>

\* How old the sample of a thread, or the run it has read, can get.
Oldest(t) == CASE th[t].pc \in Carrying -> Past
               [] th[t].pc = "scan" -> -ScanDelay
               [] OTHER -> -CommitDelay

\* Time passes unless a client must first give up a call whose deadline has
\* come, or a thread must first use what it has sampled.
Overdue(t) ==
    \/ th[t].pc \in DOMAIN WaitsFor /\ req[WaitsFor[th[t].pc]] = 0
    \/ th[t].pc \in Carrying \cup {"scan"} /\ th[t].now = Oldest(t)

Later(t) == [th[t] EXCEPT !.now = IF @ > Oldest(t) THEN @ - 1 ELSE @,
                          !.snap = IF @ = None THEN None ELSE RowAged(@)]

Tick ==
    /\ \A t \in Threads : ~Overdue(t)
    /\ row' = RowAged(row)
    /\ req' = [k \in Requests |-> IF req[k] > 0 THEN req[k] - 1 ELSE 0]
    /\ th' = [t \in Threads |-> IF th[t].pc = "idle" THEN th[t] ELSE Later(t)]
    /\ UNCHANGED <<job, ws, cmd, marker, procs, ghosts>>

-----------------------------------------------------------------------------

Init ==
    /\ row = NewRow(Policy) /\ job \in Jobs
    /\ ws = "none" /\ cmd = "none" /\ marker = None
    /\ req = [k \in Requests |-> 0]
    /\ th = [t \in Threads |-> Idle]
    /\ daemon = "d1" /\ attended = Attended
    /\ closes = 0 /\ verified = <<>>

Execute(t) ==
    \/ Renew(t, "renewProbe", "probe") \/ Probe(t) \/ FailProvisioning(t)
    \/ Renew(t, "renewProvision", "savePlan") \/ SavePlan(t)
    \/ IssueProvision(t) \/ ProvisionReturns(t)
    \/ SaveReceipt(t) \/ SavePartial(t) \/ ClaimLateCleanup(t)
    \/ Stage(t) \/ FailStarting(t) \/ Renew(t, "renewStart", "startCommand")
    \/ IssueStart(t) \/ StartReturns(t) \/ ConfirmStart(t)

Monitor(t) ==
    \/ WaitCommand(t) \/ FailRun(t) \/ Attest(t) \/ Settle(t) \/ Succeed(t)
    \/ ClaimVerifier(t) \/ StartVerifier(t) \/ VerifierEnds(t) \/ FinishVerifier(t)

Close(t) ==
    \/ ClaimClose(t) \/ IssueClose(t) \/ CloseReturns(t) \/ CheckClosed(t)
    \/ FinishClose(t) \/ ObserveClose(t) \/ ReclaimClose(t)

Reconcile ==
    \/ ReadNonTerminalRuns \/ ReconcileRun \/ FindWorkspace \/ RecoverWorkspace
    \/ InterruptProvisioning \/ CommandResult \/ ConfirmExpiredStart
    \/ ReadMarker \/ FinishExpiredVerifier

Operator == Cancel \/ CancelAccepted \/ RecoverProvisioning \/ FindAbsent \/ InterruptRecovered

Herdr == ServerProvisions \/ ServerStarts \/ ServerCloses \/ CommandExits

ByHand == ClosedByHand \/ RemovedByHand

Crash == CrashDaemon \/ CrashAttended

Next ==
    \/ DecideAdmission \/ Execute("exec")
    \/ \E t \in {"exec", "mon", "daemon"} : Monitor(t)
    \/ \E t \in Threads : Close(t)
    \/ Reconcile \/ Operator \/ Herdr \/ ByHand \/ Crash \/ Tick

Spec == Init /\ [][Next]_vars

(***************************************************************************)
(* Fairness.  Every thread of a living process keeps running, the daemon   *)
(* reconciles at every turn of its ticker, time passes, and Herdr answers  *)
(* some lookup of the daemon in the end and not always after its lease.    *)
(* Operators do what the evidence asks them to: they close a workspace     *)
(* whose close stayed unverified and remove a worktree that has no         *)
(* workspace.  Nothing is assumed of the command, of the attended process  *)
(* or of the answer to any single call.                                    *)
(***************************************************************************)
Advance(t) == Monitor(t) \/ Close(t)
CommandGoesOn == CancelAccepted \/ FindAbsent \/ InterruptRecovered \/ Advance("cli")
FindAnswered == FindWorkspace /\ th'["daemon"].pc # "idle"
AbsenceAnswered == ObserveClose("daemon") /\ th'["daemon"].pc = "reclaim"
CloseFinishedInTime == FinishClose("daemon") /\ row'.ekind = "none"

Fairness ==
    /\ WF_vars(DecideAdmission)
    /\ WF_vars(Execute("exec") \/ Advance("exec"))
    /\ WF_vars(Advance("mon"))
    /\ WF_vars(CommandGoesOn)
    /\ WF_vars(Reconcile \/ Advance("daemon"))
    /\ SF_vars(FindAnswered) /\ SF_vars(AbsenceAnswered) /\ SF_vars(CloseFinishedInTime)
    /\ SF_vars(Tick)
    /\ WF_vars(ClosedByHand /\ row.ekind = "workspace_close")
    /\ WF_vars(RemovedByHand /\ row.state = "provisioning")

FairSpec == Spec /\ Fairness

-----------------------------------------------------------------------------
(* Properties.                                                             *)

\* Where a thread can be: executing, monitoring, closing, reconciling, or
\* carrying out a command.
ProgramPoints ==
    {"idle", "renewProbe", "probe", "failProvisioning", "renewProvision", "savePlan",
     "provision", "provWait", "saveReceipt", "savePartial", "late", "stage", "failStarting",
     "renewStart", "startCommand", "startWait", "confirm"}
    \cup {"waitCommand", "failRun", "attest", "settle", "succeed",
          "claimVer", "startVer", "runVer", "finVer"}
    \cup {"claimClose", "closeCall", "closeWait", "exists", "closeFin", "recExists", "reclaim"}
    \cup {"scan", "find", "recWs", "intProv", "result", "confExp", "readMarker", "expVer"}
    \cup {"cliFinish", "cliFind", "cliRecover"}

\* Types of the variables; a thread's row snapshot is a row of the table.
ThreadStates == [pc : ProgramPoints, owner : Owners \cup {None},
                 from : {"none"} \cup Nonterminal \cup Terminal,
                 out : Outcomes \cup {None}, now : Samples, snap : Rows \cup {None}]
TypeOK ==
    /\ row \in Rows /\ job \in Jobs
    /\ ws \in {"none", "open", "closed", "removed"}
    /\ cmd \in {"none", "running", "done", "failed"}
    /\ marker \in {None, Passed, VerifierFailed}
    /\ \A k \in Requests : req[k] \in 0 .. OperationLimit + VerifierLimit
    /\ \A t \in Threads : th[t] \in ThreadStates
    /\ daemon \in {"d1", "d2"} /\ attended \in BOOLEAN
    /\ closes \in Nat /\ verified \in Seq({"running", "killed", "passed", "failed"})

\* A retired run never leaves a workspace behind that its row does not name,
\* so that `show', `pane' and cleanup can find it.  It rests on bounding every
\* Herdr call by the claim (boundedProvisioningContext) and on looking the
\* branch up before a provisioning run is interrupted.
NoOrphanWorkspace == row.state \in Terminal /\ ws = "open" => row.workspace

\* CloseWorkspace is issued at most once for a run: recovery "is recorded
\* without issuing a second CloseWorkspace call" (engine.go).
CloseIssuedOnce == closes <= 1

\* A run that was timed out or cancelled is not running any more: once its
\* close claim is finished the workspace is gone.
RetiredMeansGone ==
    row.state \in {"timed_out", "cancelled"} /\ row.workspace => ws # "open"

\* Success is earned: the command exited zero, and a passed verdict is the
\* verdict of the one verifier invocation, whoever persisted it.
SuccessIsReal ==
    /\ row.state \in {"settled", "verifying", "succeeded"} => cmd = "done"
    /\ row.state = "succeeded" /\ job.attest =>
           row.receipt["model_attestation"] = Attestation
    /\ row.state = "succeeded" /\ job.verifier => row.verdict = "passed"
    /\ row.verdict = "passed" => verified = <<"passed">>

\* "Recovery never reruns a prior external verifier" (engine.go).
VerifierRunsOnce == Len(verified) <= 1

\* The command starts only under a live claim: whatever is lost or delayed,
\* a run that was retired or taken over never starts working afterwards.
StartOnlyWhileClaimed ==
    [][cmd = "none" /\ cmd' = "running" =>
          row.state = "starting" /\ row.please > 0 /\ row.ekind = "none"]_vars

\* While a close claim is held it fences the run: the state changes only by
\* finishing the claim, with the outcome the durable intent names.
CloseFencesRun ==
    [][row.ekind = "workspace_close" /\ row'.state # row.state =>
          /\ row'.ekind = "none"
          /\ Outcome(row'.state, row'.verdict) = row.intent]_vars

\* "Receipt persistence and the transition to starting" happen "only while the
\* caller still owns a live provisioning claim" (store.go): not when the claim
\* has run out and somebody has already claimed the workspace to close it.
ReceiptSavedOnlyWhileOwned ==
    [][row.state = "provisioning" /\ row'.state = "starting" =>
          ~(row.please <= 0 /\ row.ekind = "workspace_close")]_vars

\* "Never terminalize an external provisioning call with an ambiguous receipt"
\* (engine.go): while a workspace exists that the row does not name, nobody
\* ends the run; it waits for the lookup of its branch.
AmbiguousProvisionAwaitsLookup ==
    [][row.state = "provisioning" /\ ~row.workspace /\ ws = "open" =>
          row'.state \notin Terminal]_vars

\* Every admitted run is retired for good: whatever crashes or goes
\* unanswered, it ends terminal with no effect left to reconcile.
EventuallyRetired == <>[](row.state \in Terminal /\ row.ekind = "none")

\* Every step of the engine is a call of the store or leaves the row alone.
Store == INSTANCE RunStore WITH
            Runs <- {"run"}, runs <- [r \in {"run"} |-> row],
            MaxProvisioningLease <- ProvisioningLease,
            MaxEffectLease <- IF CloseLease > VerifierLease THEN CloseLease ELSE VerifierLease
StoreSpec == Store!Spec
=============================================================================
