------------------------- MODULE LifecycleClockProofs -------------------------
(***************************************************************************)
(* What the claims of a run are worth.  However late commits and passes    *)
(* are, the engine implements RunStore, and nobody but a pass of Reconcile *)
(* ends a run whose workspace its row does not name.  When every commit    *)
(* uses the time it is made at (CommitDelay = 0) a close claim fences the  *)
(* run, and the command starts only under a live claim.  When a pass       *)
(* decides in the tick it has read the runs in (ScanDelay = 0) no          *)
(* workspace is orphaned.  Neither hypothesis can be dropped: with either  *)
(* delay at one tick TLC finds a behaviour that breaks the statements it   *)
(* is needed for.                                                          *)
(***************************************************************************)
EXTENDS RunLifecycleProofs

-----------------------------------------------------------------------------
(* The invariant.                                                          *)

Live(r) == r.powner # None /\ r.please > 0

\* Where Engine.execute works under its provisioning claim, and where it has
\* not asked Herdr for a workspace yet.
HoldingPcs == {"renewProbe", "probe", "failProvisioning", "renewProvision", "savePlan", "provision",
               "provWait", "saveReceipt", "savePartial", "stage", "failStarting", "renewStart",
               "startCommand", "startWait", "confirm"}
BeforePcs == {"renewProbe", "probe", "failProvisioning", "renewProvision", "savePlan", "provision"}
\* No workspace exists or can still come to exist; none is open or can become so.
Nothing == ws = "none" /\ req["provision"] = 0
Absent == ws # "open" /\ (ws = "none" => req["provision"] = 0)

\* A close is claimed over a live claim only by the executor giving it up.
Fenced == row.ekind = "workspace_close" /\ Live(row) => th["exec"].pc \notin HoldingPcs

\* A call that can still take effect is bounded by the claim it was made under.
StartBounded ==
    req["start"] > 0 /\ cmd = "none" =>
        /\ row.state = "starting" /\ row.ekind = "none"
        /\ Live(row) /\ row.please >= req["start"]
        /\ th["exec"].pc \in {"startWait", "idle"}
ProvisionBounded ==
    req["provision"] > 0 /\ ws = "none" =>
        /\ row.state = "provisioning" /\ ~row.workspace
        /\ Live(row) /\ row.please >= req["provision"]
        /\ th["exec"].pc \in {"provWait", "idle"}

\* Before the call, and before the plan is saved, there is nothing.
BeforeCall ==
    /\ th["exec"].pc \in BeforePcs => Nothing
    /\ th["exec"].pc = "provision" => row.branch
    /\ row.state = "accepted" \/ ~row.branch => Nothing

\* Whoever interrupts a provisioning run without a receipt, or is about to
\* because it read no branch, has seen it absent.
Unplaced(r, now) == r.state = "provisioning" /\ ~r.workspace /\ ClaimLapsed(r, now)
LookedUpPcs == {"intProv", "cliRecover"}
Looked(x) ==
    \/ x.pc \in LookedUpPcs
    \/ x.pc = "scan" /\ x.snap.state = "provisioning" /\ ~x.snap.branch
LookedUp == \A t \in Threads : Looked(th[t]) /\ Unplaced(row, th[t].now) => Absent
ScanNow == \A t \in Threads : th[t].pc = "scan" => th[t].now = 0
\* `recover' looks the branch up at the time it decides with, in any pass.
RecoverLooked == th["cli"].pc = "cliRecover" /\ Unplaced(row, th["cli"].now) => Absent

EndsPlaced == row.state \in Terminal /\ ~row.workspace => Absent

ClockInv ==
    /\ ProvisionBounded /\ BeforeCall /\ RecoverLooked
    /\ CommitDelay = 0 => Fenced /\ StartBounded
    /\ ScanDelay = 0 => LookedUp /\ ScanNow /\ EndsPlaced

-----------------------------------------------------------------------------
(* What the statements do.                                                 *)

\* Nobody commits with a time that has passed.
LEMMA FreshNow ==
    ASSUME CommitDelay = 0, Types, NEW t \in Threads PROVE Fresh(t) \subseteq {0}
BY DEF Fresh

\* What any step but the admission may do to the row.
ClockRely(r, n) ==
    /\ r.workspace => n.workspace
    /\ r.branch => n.branch
    /\ n.state = "accepted" => r.state = "accepted"
    /\ n.state = "provisioning" =>
          /\ r.state = "provisioning" /\ n.powner = r.powner
          /\ n.please = r.please \/ Absent
    /\ CommitDelay = 0 /\ Live(n) => Live(r)

\* A live claim without an effect keeps everybody but its owner away.
Guarded(r, n) ==
    Live(r) /\ r.ekind = "none" =>
        SameState(r, n) /\ SameHold(r, n) /\ n.ekind = r.ekind /\ n.workspace = r.workspace

\* Evidence, and receipts, touch nothing of this.
LEMMA ClockKept ==
    ASSUME NEW r, NEW n, SameState(r, n), SameHold(r, n), SamePlace(r, n), SameEffect(r, n)
    PROVE  ClockRely(r, n) /\ Guarded(r, n)
BY DEF SameState, SameHold, SamePlace, SameEffect, ClockRely, Guarded, Live

\* The run leaves its provisioning, with its claim or without.
LEMMA ClockOver ==
    ASSUME NEW r, NEW n, SamePlace(r, n) \/ (n.workspace /\ n.branch),
           n.powner = None \/ SameHold(r, n), n.state \notin {"accepted", "provisioning"}
    PROVE  ClockRely(r, n)
BY DEF SamePlace, SameHold, ClockRely, Live

\* The row learns of its workspace, or is claimed.
LEMMA ClockGrown ==
    ASSUME NEW r, NEW n, SameState(r, n), SameHold(r, n),
           SamePlace(r, n) \/ (n.workspace /\ (r.branch => n.branch))
    PROVE  ClockRely(r, n)
BY DEF SameState, SamePlace, SameHold, ClockRely, Live

\* Without a live claim, or under an effect, nobody is kept away.
LEMMA NotGuarded ==
    ASSUME NEW r, NEW n, ~Live(r) \/ r.ekind # "none" PROVE Guarded(r, n)
BY DEF Guarded

\* Only a provisioning or starting run has a live claim.
LEMMA LiveStates ==
    ASSUME NEW r, RowInv(r), Live(r)
    PROVE  r.state \in {"provisioning", "starting"} /\ r.ekind # "verifier"
BY DEF RowInv, ClaimInPhase, EffectColumnsAgree, Live

\* A lapsed claim is not live.
LEMMA LapsedNotLive ==
    ASSUME NEW r, RowInv(r), NEW now \in Samples, ClaimLapsed(r, now) \/ r.please <= now
    PROVE  ~Live(r)
BY RowAssumption DEF ClaimLapsed, Live, Samples, Past, RowInv, Rows, Instants

\* A step that leaves the workspace, the command and the calls for both alone.
HerdrAlone ==
    /\ UNCHANGED <<ws, cmd>>
    /\ req'["start"] = req["start"] /\ req'["provision"] = req["provision"]

\* How the executor goes on, and what it does to the row while a call is out.
ExecOn ==
    LET x == th["exec"]  y == th'["exec"] IN
    /\ x.pc # "idle"
    /\ y.pc \in HoldingPcs => x.pc \in HoldingPcs
    /\ y.pc \in BeforePcs => x.pc \in BeforePcs
    /\ y.pc = "provision" => row'.branch
    /\ x.pc \in {"startWait", "provWait"} =>
          /\ Guarded(row, row')
          /\ \/ y.pc = "idle"
             \/ x.pc = "startWait" /\ cmd # "none"
             \/ x.pc = "provWait" /\ ws # "none"

\* Only the executor gives up a live claim for a close.
ClaimsFairly(t) ==
    row'.ekind = "workspace_close" =>
        \/ row.ekind = "workspace_close" \/ ~Live(row')
        \/ t = "exec" /\ th'[t].pc \notin HoldingPcs

\* The run ends with its workspace named or absent.
EndsFairly == row'.state \in Terminal /\ ~row'.workspace => row.state \in Terminal \/ Absent

\* A step of one thread that leaves Herdr alone.
LEMMA ClockStep ==
    ASSUME Types, Types', CloseInv, ClockInv, NEW t \in Threads, Moved(t), HerdrAlone,
           ClockRely(row, row'), t = "exec" \/ Guarded(row, row'), t = "exec" => ExecOn,
           ClaimsFairly(t), th'[t].pc # "scan",
           th'[t].pc = "cliRecover" /\ Unplaced(row', th'[t].now) => Absent,
           ScanDelay = 0 =>
               /\ th'[t].pc \in LookedUpPcs /\ Unplaced(row', th'[t].now) => Absent
               /\ EndsFairly
    PROVE  ClockInv'
<1> USE DEF ClockInv, HerdrAlone
<1>e. "exec" \in Threads /\ "daemon" \in Threads /\ (t # "exec" => th'["exec"] = th["exec"])
  BY DEF Threads, Moved
<1>1. ASSUME CommitDelay = 0 PROVE Fenced'
  BY <1>e, <1>1 DEF Fenced, ClockRely, ExecOn, ClaimsFairly
<1>2. ASSUME CommitDelay = 0 PROVE StartBounded'
  <2> SUFFICES ASSUME req["start"] > 0, cmd = "none" 
               PROVE  /\ row'.state = "starting" /\ row'.ekind = "none"
                      /\ Live(row') /\ row'.please >= req["start"]
                      /\ th'["exec"].pc \in {"startWait", "idle"}
    BY DEF StartBounded
  <2>1. Guarded(row, row') /\ th'["exec"].pc \in {"startWait", "idle"}
    BY <1>e, <1>2 DEF StartBounded, ExecOn
  <2> QED
    BY <1>2, <2>1 DEF StartBounded, Guarded, SameState, SameHold, Live
<1>3. ProvisionBounded'
  <2> SUFFICES ASSUME req["provision"] > 0, ws = "none" 
               PROVE  /\ row'.state = "provisioning" /\ ~row'.workspace
                      /\ Live(row') /\ row'.please >= req["provision"]
                      /\ th'["exec"].pc \in {"provWait", "idle"}
    BY DEF ProvisionBounded
  <2>1. Guarded(row, row') /\ th'["exec"].pc \in {"provWait", "idle"}
    BY <1>e DEF ProvisionBounded, ExecOn
  <2>2. row.ekind = "none"
    BY LiveStates DEF ProvisionBounded, Types, RowInv, Rows, EffectKinds, CloseInv, Placed
  <2> QED
    BY <2>1, <2>2 DEF ProvisionBounded, Guarded, SameState, SameHold, Live
<1>4. BeforeCall'
  BY <1>e DEF BeforeCall, Nothing, ClockRely, ExecOn
<1>a. Absent' <=> Absent
  BY DEF Absent
<1>b. ASSUME NEW u \in Threads \ {t}, Unplaced(row', th'[u].now) PROVE Unplaced(row, th[u].now) \/ Absent
  <2>1. th'[u] = th[u] /\ th[u].now \in Samples
    BY ThreadTyped DEF Moved
  <2> QED
    BY <1>b, <2>1 DEF Unplaced, ClaimLapsed, ClockRely
<1>6. RecoverLooked'
  <2>1. "cli" \in Threads /\ ("cli" # t => th'["cli"] = th["cli"])
    BY DEF Threads, Moved
  <2> QED
    BY <1>a, <1>b, <2>1 DEF RecoverLooked
<1>5. ASSUME ScanDelay = 0 PROVE LookedUp' /\ ScanNow' /\ EndsPlaced'
  <2>1. Absent' <=> Absent
    BY <1>a
  <2>2. LookedUp'
    <3> SUFFICES ASSUME NEW u \in Threads, Looked(th'[u]), Unplaced(row', th'[u].now)
                 PROVE  Absent
      BY <2>1 DEF LookedUp
    <3>1. CASE u = t
      BY <1>5, <3>1 DEF Looked
    <3>2. CASE u # t
      <4>1. th'[u] = th[u] /\ (Unplaced(row, th[u].now) \/ Absent)
        BY <1>b, <3>2 DEF Moved
      <4> QED
        BY <1>5, <3>2, <4>1 DEF LookedUp
    <3> QED
      BY <3>1, <3>2
  <2>3. ScanNow'
    BY <1>e, <1>5 DEF ScanNow, Moved
  <2>4. EndsPlaced'
    BY <1>5, <2>1 DEF EndsPlaced, ClockRely, EndsFairly
  <2> QED
    BY <2>2, <2>3, <2>4
<1> QED
  BY <1>1, <1>2, <1>3, <1>4, <1>5, <1>6

\* A thread that no longer holds the claim moves on.
LEMMA ClockAway ==
    ASSUME Types, Types', CloseInv, ClockInv, NEW t \in Threads, Moved(t), HerdrAlone,
           ClockRely(row, row'), t = "exec" \/ Guarded(row, row'),
           t = "exec" => th[t].pc \notin {"idle", "startWait", "provWait"},
           th'[t].pc \notin HoldingPcs \cup LookedUpPcs \cup {"scan"},
           row'.ekind = "workspace_close" =>
               row.ekind = "workspace_close" \/ ~Live(row') \/ t = "exec",
           ScanDelay = 0 => EndsFairly
    PROVE  ClockInv'
<1>1. t = "exec" => ExecOn
  BY DEF ExecOn, HoldingPcs, BeforePcs
<1>2. ClaimsFairly(t) /\ th'[t].pc # "cliRecover"
  BY DEF ClaimsFairly, LookedUpPcs
<1> QED
  BY <1>1, <1>2, ClockStep

\* The row keeps what this is about, while the thread moves on.
LEMMA ClockDrift ==
    ASSUME Types, Types', CloseInv, ClockInv, NEW t \in Threads, Moved(t), HerdrAlone,
           \/ UNCHANGED row
           \/ row' = EventRecorded(row)
           \/ SameState(row, row') /\ SameHold(row, row') /\ SamePlace(row, row') /\ SameEffect(row, row'),
           t = "exec" => th[t].pc \notin {"idle", "startWait", "provWait"},
           th'[t].pc \notin HoldingPcs \cup LookedUpPcs \cup {"scan"}
    PROVE  ClockInv'
<1>0. RowInv(row)
  BY DEF Types
<1>1. SameState(row, row') /\ SameHold(row, row') /\ SamePlace(row, row') /\ SameEffect(row, row')
  BY <1>0, EventColumns DEF SameState, SameHold, SamePlace, SameEffect
<1>2. ClockRely(row, row') /\ Guarded(row, row')
  BY <1>1, ClockKept
<1>3. (row'.ekind = "workspace_close" => row.ekind = "workspace_close") /\ EndsFairly
  BY <1>1 DEF SameEffect, SameState, SamePlace, EndsFairly
<1> QED
  BY <1>2, <1>3, ClockAway

\* Threads that stop, start over or carry on elsewhere; the row stays.
LEMMA ClockSettled ==
    ASSUME Types, Types', CloseInv, ClockInv, UNCHANGED row, HerdrAlone,
           th'["exec"] = th["exec"] \/ th'["exec"].pc = "idle",
           \A u \in Threads : th'[u] = th[u] \/ th'[u].pc \notin LookedUpPcs \cup {"scan"}
    PROVE  ClockInv'
<1> USE DEF ClockInv, HerdrAlone
<1>e. "exec" \in Threads /\ "daemon" \in Threads
  BY DEF Threads
<1>1. CommitDelay = 0 => Fenced' /\ StartBounded'
  BY DEF Fenced, StartBounded, HoldingPcs
<1>2. ProvisionBounded'
  BY DEF ProvisionBounded
<1>3. BeforeCall'
  BY DEF BeforeCall, Nothing, BeforePcs
<1>4. ASSUME ScanDelay = 0 PROVE LookedUp' /\ ScanNow' /\ EndsPlaced'
  BY <1>e, <1>4 DEF LookedUp, Looked, ScanNow, EndsPlaced, Absent
<1>5. RecoverLooked'
  BY DEF RecoverLooked, Absent, Threads, LookedUpPcs
<1> QED
  BY <1>1, <1>2, <1>3, <1>4, <1>5

\* Engine.monitorCommand, completeCommand and monitor.
LEMMA MonitorKeepsClock ==
    ASSUME Types, Types', CloseInv, ClockInv, NEW t \in Threads, Monitor(t)
    PROVE  ClockInv'
<1> USE DEF Monitor
<1>0. RowInv(row) /\ th[t].pc \notin HoldingPcs \cup {"idle"}
  BY DEF Types, WaitCommand, FailRun, Attest, Settle, Succeed, ClaimVerifier, StartVerifier,
         VerifierEnds, FinishVerifier, HoldingPcs
<1>h. HerdrAlone
  <2>1. CASE StartVerifier(t) \/ VerifierEnds(t)
    BY <2>1 DEF Types, Requests, StartVerifier, VerifierEnds, HerdrAlone
  <2>2. CASE ~(StartVerifier(t) \/ VerifierEnds(t))
    BY <2>2 DEF WaitCommand, FailRun, Attest, Settle, Succeed, ClaimVerifier, FinishVerifier, world, HerdrAlone
  <2> QED
    BY <2>1, <2>2
<1>w. th[t].pc \notin {"idle", "startWait", "provWait"}
  BY <1>0 DEF HoldingPcs
<1>l. CloseLocal(th[t], row, ws) /\ Placed
  BY DEF CloseInv, CloseThreads
<1>1. ASSUME Moved(t), th'[t].pc \in {"idle", "failRun", "attest", "settle", "claimClose", "startVer", 
                                      "runVer", "finVer"},
             \/ UNCHANGED row
             \/ SameState(row, row') /\ SameHold(row, row') /\ SamePlace(row, row') /\ SameEffect(row, row')
      PROVE  ClockInv'
  <2>1. th'[t].pc \notin HoldingPcs \cup LookedUpPcs \cup {"scan"}
    BY <1>1 DEF HoldingPcs, LookedUpPcs
  <2> QED
    BY <1>1, <1>h, <1>w, <2>1, ClockDrift
\* The run moves on from where it had no claim any more.
<1>2. ASSUME Moved(t), th'[t].pc \in {"idle", "claimVer", "succeed", "startVer", "finVer"},
             row.state \in {"running", "settled", "verifying"}, SamePlace(row, row'),
             row'.powner = None \/ SameHold(row, row'),
             row'.state \notin {"accepted", "provisioning"},
             row'.ekind = "workspace_close" => row.ekind = "workspace_close"
      PROVE  ClockInv'
  <2>1. th'[t].pc \notin HoldingPcs \cup LookedUpPcs \cup {"scan"}
    BY <1>2 DEF HoldingPcs, LookedUpPcs
  <2>2. ClockRely(row, row')
    BY <1>2, ClockOver
  <2>3. Guarded(row, row')
    BY <1>0, <1>2, LiveStates, NotGuarded
  <2>4. EndsFairly
    BY <1>2, <1>l DEF EndsFairly, Placed, SamePlace
  <2> QED
    BY <1>2, <1>h, <1>w, <2>1, <2>2, <2>3, <2>4, ClockAway
<1>3. CASE UNCHANGED row /\ Become(t, Idle)
  BY <1>1, <1>3, BecomeIdle
<1>4. CASE WaitCommand(t)
  <2>1. Complete \in {"failRun", "attest", "settle"} /\ Complete \in ProgramPoints
    BY DEF Complete, ProgramPoints
  <2>2. CASE Become(t, At(t, Complete))
    BY <1>1, <1>4, <2>1, <2>2, BecomeAt DEF WaitCommand
  <2>3. ASSUME NEW o, Become(t, CloseFor(t, o)) PROVE ClockInv'
    <3>1. Moved(t) /\ th'[t].pc = "claimClose"
      BY <2>3, BecomeOut DEF CloseFor, ProgramPoints
    <3> QED
      BY <1>1, <1>4, <3>1 DEF WaitCommand
  <2> QED
    BY <1>4, <2>2, <2>3 DEF WaitCommand, Goto
<1>5. CASE FailRun(t) \/ Succeed(t)
  <2>1. th[t].from \in {"running", "settled"}
    BY <1>5, ThreadTyped DEF FailRun, Succeed, Fits
  <2>2. ASSUME NEW o \in {Failed, Succeeded}, row.state \in {"running", "settled"},
               row' = Finished(row, o), Become(t, Idle)
        PROVE  ClockInv'
    <3>1. Sound(o) /\ o.state \in {"failed", "succeeded"}
      BY OutsSound DEF VerifierOuts, Failed, Succeeded, Outcome
    <3>2. row'.state = o.state /\ row'.powner = None /\ SamePlace(row, row') /\ Cleared(row')
      BY <1>0, <2>2, <3>1, FinishedColumns
    <3> QED
      BY <1>2, <2>2, <3>1, <3>2, BecomeIdle DEF Cleared
  <2> QED
    BY <1>3, <1>5, <2>1, <2>2 DEF FailRun, Succeed, CAS, CanFinish
<1>6. CASE Attest(t)
  <2>1. CASE UNCHANGED row /\ Become(t, At(t, "failRun"))
    BY <1>1, <2>1, BecomeAt DEF ProgramPoints
  <2>2. CASE row' = ReceiptSet(row, "model_attestation", Attestation) /\ Become(t, At(t, "settle"))
    <3>1. SameState(row, row') /\ SameHold(row, row') /\ SamePlace(row, row') /\ SameEffect(row, row')
      BY <1>0, <2>2, AttestedColumns, LifecycleAssumption DEF Attestation
    <3>2. Moved(t) /\ th'[t].pc = "settle"
      BY <2>2, BecomeAt DEF ProgramPoints
    <3> QED
      BY <1>1, <3>1, <3>2
  <2> QED
    BY <1>6, <2>1, <2>2 DEF Attest, CAS, Goto
<1>7. CASE Settle(t)
  <2>1. th[t].from = "running" /\ Settled \in {"claimVer", "succeed"} /\ Settled \in ProgramPoints
    BY <1>7, ThreadTyped DEF Settle, Fits, Settled, ProgramPoints
  <2>2. CASE /\ row.state = "running" /\ row' = Transitioned(row, "settled")
             /\ Become(t, [At(t, Settled) EXCEPT !.from = "settled"])
    <3>1. row'.state = "settled" /\ SameHold(row, row') /\ SamePlace(row, row') /\ SameEffect(row, row')
      BY <1>0, <2>2, SettledColumns
    <3>2. Moved(t) /\ th'[t].pc = Settled
      BY <2>1, <2>2, BecomeFrom
    <3> QED
      BY <1>2, <2>1, <2>2, <3>1, <3>2 DEF SameEffect
  <2> QED
    BY <1>3, <1>7, <2>1, <2>2 DEF Settle, CAS, CanTransition
<1>8. CASE ClaimVerifier(t)
  <2> SUFFICES ASSUME NEW pc \in {"startVer", "finVer"}, CanClaimVerifier(row),
                      row' = VerifierClaimed(row, th[t].owner, t, VerifierLease),
                      Become(t, [At(t, pc) EXCEPT !.out = Failed])
               PROVE  ClockInv'
    BY <1>3, <1>8 DEF ClaimVerifier, CAS
  <2>1. th[t].owner \in Owners /\ t \in Claims /\ VerifierLease \in Instants /\ pc \in ProgramPoints
    BY <1>0, TokensTyped, ThreadTyped, LeasesTyped, IdleTyped DEF ProgramPoints
  <2>2. /\ row'.state = "verifying" /\ row'.ekind = "verifier" /\ SamePlace(row, row')
        /\ SameHold(row, row')
    BY <1>0, <2>1, VerifierClaimedColumns
  <2>3. Moved(t) /\ th'[t].pc = pc
    BY <2>1, BecomeOut
  <2> QED
    BY <1>2, <2>2, <2>3 DEF CanClaimVerifier
<1>9. CASE StartVerifier(t)
  BY <1>1, <1>9, BecomeAt DEF StartVerifier, Goto, ProgramPoints
<1>10. CASE VerifierEnds(t)
  <2>1. PICK o \in VerifierOuts : Become(t, [At(t, "finVer") EXCEPT !.out = o])
    BY <1>10 DEF VerifierEnds, VerifierOuts
  <2>2. Moved(t) /\ th'[t].pc = "finVer"
    BY <2>1, BecomeOut DEF ProgramPoints
  <2> QED
    BY <1>1, <1>10, <2>2 DEF VerifierEnds
<1>11. CASE FinishVerifier(t)
  <2> SUFFICES ASSUME row.state = "verifying", row' = EffectFinished(row, th[t].out), Become(t, Idle)
               PROVE  ClockInv'
    BY <1>3, <1>11 DEF FinishVerifier, CAS, CanFinishEffect
  <2>1. Sound(th[t].out)
    BY <1>11, ThreadTyped DEF FinishVerifier, Fits, OutPcs
  <2>2. /\ row'.state = th[t].out.state /\ row'.powner = None /\ SamePlace(row, row') /\ Cleared(row')
        /\ th[t].out.state \in Terminal
    BY <1>0, <2>1, EffectFinishedColumns DEF Terminal, Sound, Outcomes
  <2> QED
    BY <1>2, <2>2, BecomeIdle DEF Cleared, Terminal
<1> QED
  BY <1>4, <1>5, <1>6, <1>7, <1>8, <1>9, <1>10, <1>11

\* closeAndFinish, executeWorkspaceClose, finishWorkspaceClose and
\* recoverExpiredWorkspaceClose.
LEMMA ClosingKeepsClock ==
    ASSUME Types, Types', CloseInv, ClockInv, NEW t \in Threads, Close(t)
    PROVE  ClockInv'
<1> USE DEF Close
<1>0. RowInv(row) /\ th[t].pc \in ClosePcs \cup {"claimClose"}
  BY DEF Types, ClaimClose, IssueClose, CloseReturns, CheckClosed, FinishClose, ObserveClose,
         ReclaimClose, ClosePcs
<1>w. th[t].pc \notin {"idle", "startWait", "provWait"} /\ th[t].now \in Samples
  BY <1>0, ThreadTyped DEF ClosePcs
<1>h. HerdrAlone
  <2>1. CASE IssueClose(t)
    BY <2>1 DEF Types, Requests, IssueClose, HerdrAlone
  <2>2. CASE ~IssueClose(t)
    BY <2>2 DEF ClaimClose, CloseReturns, CheckClosed, FinishClose, ObserveClose, ReclaimClose,
                world, HerdrAlone
  <2> QED
    BY <2>1, <2>2
<1>l. CloseLocal(th[t], row, ws)
  BY DEF CloseInv, CloseThreads
<1>t. th[t].pc \in OutPcs => Sound(th[t].out) /\ th[t].owner \in Owners /\ t \in Claims
  BY <1>w, TokensTyped, ThreadTyped DEF Fits
<1>1. ASSUME Moved(t), th'[t].pc \in ClosePcs \cup {"idle"}, row' = row \/ row' = EventRecorded(row)
      PROVE  ClockInv'
  <2>1. th'[t].pc \notin HoldingPcs \cup LookedUpPcs \cup {"scan"}
    BY <1>1 DEF HoldingPcs, LookedUpPcs, ClosePcs
  <2> QED
    BY <1>1, <1>h, <1>w, <2>1, ClockDrift
<1>2. CASE UNCHANGED row /\ Become(t, Idle)
  BY <1>1, <1>2, BecomeIdle
<1>3. ASSUME Moved(t), th'[t].pc \in ClosePcs \cup {"idle"}, ClockRely(row, row'), Guarded(row, row'),
             row'.ekind = "workspace_close" => row.ekind = "workspace_close" \/ ~Live(row'),
             row'.state = row.state \/ row'.workspace
      PROVE  ClockInv'
  <2>1. th'[t].pc \notin HoldingPcs \cup LookedUpPcs \cup {"scan"}
    BY <1>3 DEF HoldingPcs, LookedUpPcs, ClosePcs
  <2> QED
    BY <1>3, <1>h, <1>w, <2>1, ClockAway DEF EndsFairly
<1>4. CASE ClaimClose(t)
  <2> DEFINE now == th[t].now
  <2> SUFFICES ASSUME CanClaimWorkspaceClose(row, th[t].from, now),
                      row' = WorkspaceCloseClaimed(row, th[t].owner, t, now + CloseLease, th[t].out),
                      Become(t, At(t, "closeCall"))
               PROVE  ClockInv'
    BY <1>2, <1>4 DEF ClaimClose, CAS
  <2>1. now + CloseLease \in Instants /\ Sound(th[t].out) /\ th[t].owner \in Owners /\ t \in Claims
    BY <1>w, <1>4, <1>t, LeasesTyped DEF ClaimClose, OutPcs
  <2>2. SameState(row, row') /\ SameHold(row, row') /\ SamePlace(row, row')
    BY <1>0, <2>1, CloseClaimedColumns
  <2>3. ~Live(row) /\ ~Live(row')
    BY <1>0, <1>w, <2>2, LapsedNotLive DEF CanClaimWorkspaceClose, SameHold, Live
  <2>4. ClockRely(row, row') /\ Guarded(row, row')
    BY <2>2, <2>3, ClockGrown, NotGuarded
  <2>5. Moved(t) /\ th'[t].pc \in ClosePcs
    BY BecomeAt DEF ProgramPoints, ClosePcs
  <2> QED
    BY <1>3, <2>2, <2>3, <2>4, <2>5 DEF SameState
<1>5. CASE IssueClose(t) \/ CloseReturns(t)
  <2>1. \E pc \in ClosePcs : pc \in ProgramPoints /\ Become(t, At(t, pc))
    BY <1>5 DEF IssueClose, CloseReturns, Goto, ClosePcs, ProgramPoints
  <2> QED
    BY <1>1, <1>5, <2>1, BecomeAt DEF IssueClose, CloseReturns
<1>6. CASE CheckClosed(t)
  BY <1>1, <1>6, BecomeAt, BecomeIdle DEF CheckClosed, Goto, Evidence, Stop, ProgramPoints, ClosePcs
<1>7. CASE ObserveClose(t)
  BY <1>1, <1>7, BecomeCarry, BecomeIdle DEF ObserveClose, Evidence, Stop, ProgramPoints, ClosePcs
<1>8. CASE FinishClose(t)
  <2> SUFFICES ASSUME row.state = th[t].from, row.ekind = "workspace_close",
                      row' = EffectFinished(row, th[t].out), Become(t, Idle)
               PROVE  ClockInv'
    BY <1>2, <1>8 DEF FinishClose, CAS, CanFinishEffect
  <2>1. Sound(th[t].out) /\ row.workspace
    BY <1>l, <1>t, <1>8 DEF FinishClose, OutPcs, CloseLocal, ClosePcs, CloseOf
  <2>2. /\ row'.powner = None /\ SamePlace(row, row') /\ Cleared(row')
        /\ IF row.state \in Terminal THEN SameState(row, row') ELSE row'.state = th[t].out.state
    BY <1>0, <2>1, EffectFinishedColumns
  <2>3. row'.state \notin {"accepted", "provisioning"}
    BY <2>1, <2>2 DEF SameState, Sound, Outcomes, Terminal
  <2>4. ClockRely(row, row') /\ Guarded(row, row')
    BY <2>2, <2>3, ClockOver, NotGuarded
  <2> QED
    BY <1>3, <2>1, <2>2, <2>4, BecomeIdle DEF Cleared, SamePlace
<1>9. CASE ReclaimClose(t)
  <2> DEFINE now == th[t].now
  <2> SUFFICES ASSUME CanReclaimEffect(row, th[t].from, now),
                      row' = Reclaimed(row, th[t].owner, t, now + CloseLease),
                      Become(t, At(t, "closeFin"))
               PROVE  ClockInv'
    BY <1>2, <1>9 DEF ReclaimClose, CAS
  <2>1. /\ now + CloseLease \in Instants /\ th[t].owner \in Owners /\ t \in Claims
        /\ row.ekind = "workspace_close"
    BY <1>w, <1>9, <1>t, LeasesTyped DEF ReclaimClose, OutPcs, CanReclaimEffect
  <2>2. SameState(row, row') /\ SameHold(row, row') /\ SamePlace(row, row')
    BY <1>0, <2>1, ReclaimedColumns
  <2>3. ClockRely(row, row') /\ Guarded(row, row')
    BY <2>1, <2>2, ClockGrown, NotGuarded
  <2>4. Moved(t) /\ th'[t].pc \in ClosePcs
    BY BecomeAt DEF ProgramPoints, ClosePcs
  <2> QED
    BY <1>3, <2>1, <2>2, <2>3, <2>4 DEF SameState
<1> QED
  BY <1>4, <1>5, <1>6, <1>7, <1>8, <1>9

\* startMonitor: neither thread has looked anything up.
LEMMA StartMonitorKeepsClock ==
    ASSUME Types, Types', CloseInv, ClockInv, HerdrAlone,
           NEW pc \in {"waitCommand", "succeed", "claimVer"}, NEW from, StartMonitor(pc, from)
    PROVE  ClockInv'
<1>1. UNCHANGED row
  BY DEF StartMonitor
<1>2. CASE Become("daemon", Idle)
  <2>1. Moved("daemon") /\ th'["daemon"].pc = "idle"
    BY <1>2, BecomeIdle DEF Threads
  <2> QED
    BY <1>1, <2>1, ClockSettled DEF Moved, Threads, LookedUpPcs
<1>3. CASE /\ th'["daemon"] = Idle /\ th'["mon"].pc = pc
           /\ \A u \in Threads \ {"daemon", "mon"} : th'[u] = th[u]
  <2>1. th'["daemon"].pc = "idle" /\ th'["exec"] = th["exec"]
    BY <1>3 DEF Idle, Threads
  <2>2. \A u \in Threads : th'[u] = th[u] \/ th'[u].pc \notin LookedUpPcs \cup {"scan"}
    BY <1>3, <2>1 DEF LookedUpPcs
  <2> QED
    BY <1>1, <2>1, <2>2, ClockSettled
<1> QED
  BY <1>2, <1>3, BecomeMonitor

\* A branch that is not found, under a lapsed claim, stays absent.
LEMMA NotFound ==
    ASSUME Types, ClockInv, ws \in {"none", "removed"}, NEW now \in Samples, Unplaced(row, now)
    PROVE  Absent
<1>1. ~Live(row)
  BY LapsedNotLive DEF Types, Unplaced
<1>2. req["provision"] \in Nat
  BY DEF Types, Requests, Spans
<1> QED
  BY <1>1, <1>2 DEF ClockInv, ProvisionBounded, Absent

\* A thread comes back from a look at the branch.
LEMMA ClockLooked ==
    ASSUME Types, Types', CloseInv, ClockInv, NEW t \in Threads \ {"exec"}, Moved(t), HerdrAlone,
           UNCHANGED row, th'[t].pc \in LookedUpPcs,
           (ScanDelay = 0 \/ t = "cli") /\ Unplaced(row, th'[t].now) => Absent,
           th'[t].pc = "cliRecover" => t = "cli"
    PROVE  ClockInv'
<1>1. ClockRely(row, row') /\ Guarded(row, row')
  BY ClockKept DEF SameState, SameHold, SamePlace, SameEffect
<1>2. ClaimsFairly(t) /\ EndsFairly /\ th'[t].pc # "scan"
  BY DEF ClaimsFairly, EndsFairly, LookedUpPcs
<1> QED
  BY <1>1, <1>2, ClockStep

\* Engine.Reconcile: a pass reads the row and decides from what it read.
LEMMA ScanKeepsClock ==
    ASSUME Types, Types', CloseInv, ClockInv, ReadNonTerminalRuns \/ ReconcileRun
    PROVE  ClockInv'
<1>0. UNCHANGED row /\ HerdrAlone /\ "daemon" \in Threads \ {"exec"}
  BY DEF ReadNonTerminalRuns, ReconcileRun, StartMonitor, world, HerdrAlone, Threads
<1>1. CASE ReadNonTerminalRuns
  <2>1. /\ Moved("daemon") /\ th'["daemon"].pc = "scan" /\ th'["daemon"].snap = row
        /\ th'["daemon"].now = 0
    BY <1>1, BecomeScan
  <2>2. th'["exec"] = th["exec"] /\ "exec" \in Threads
    BY <2>1 DEF Moved, Threads
  <2>3. (CommitDelay = 0 => Fenced' /\ StartBounded') /\ ProvisionBounded' /\ BeforeCall'
    BY <1>0, <2>2 DEF ClockInv, HerdrAlone, Fenced, StartBounded, ProvisionBounded, BeforeCall, Nothing
  <2>5. RecoverLooked'
    BY <1>0, <2>1 DEF ClockInv, HerdrAlone, RecoverLooked, Absent, Moved, Threads
  <2>4. ASSUME ScanDelay = 0 PROVE LookedUp' /\ ScanNow' /\ EndsPlaced'
    <3>1. LookedUp'
      <4> SUFFICES ASSUME NEW u \in Threads, Looked(th'[u]), Unplaced(row', th'[u].now) PROVE Absent'
        BY DEF LookedUp
      <4>1. CASE u = "daemon"
        <5>1. ~row.branch
          BY <2>1, <4>1 DEF Looked, LookedUpPcs
        <5> QED
          BY <1>0, <5>1 DEF ClockInv, BeforeCall, Nothing, HerdrAlone, Absent
      <4>2. CASE u # "daemon"
        BY <1>0, <2>1, <2>4, <4>2 DEF ClockInv, HerdrAlone, LookedUp, Absent, Moved
      <4> QED
        BY <4>1, <4>2
    <3>2. ScanNow'
      BY <2>1, <2>4 DEF ClockInv, ScanNow, Moved
    <3>3. EndsPlaced'
      BY <1>0, <2>4 DEF ClockInv, HerdrAlone, EndsPlaced, Absent
    <3> QED
      BY <3>1, <3>2, <3>3
  <2> QED
    BY <2>3, <2>4, <2>5 DEF ClockInv
<1>2. CASE ReconcileRun
  <2>0. th["daemon"].pc = "scan"
    BY <1>2 DEF ReconcileRun
  <2>1. CASE Become("daemon", Idle)
    BY <1>0, <2>1, BecomeIdle, ClockDrift DEF HoldingPcs, LookedUpPcs
  <2>2. ASSUME NEW pc \in {"recExists", "claimClose", "find", "result", "readMarker"}, 
               Moved("daemon"), th'["daemon"].pc = pc
        PROVE  ClockInv'
    BY <1>0, <2>2, ClockDrift DEF HoldingPcs, LookedUpPcs
  <2>3. CASE ReconcileClose
    <3>1. CASE Become("daemon", Looking("recExists", Scanned.intent))
      BY <2>2, <3>1, BecomeClosing
    <3> QED
      BY <2>1, <2>3, <3>1 DEF ReconcileClose
  <2>4. ASSUME NEW pc \in {"claimClose", "find", "result", "readMarker"}, NEW o,
               Become("daemon", Looking(pc, o))
        PROVE  ClockInv'
    BY <2>2, <2>4, BecomeLooking DEF ProgramPoints
  <2>5. CASE ReconcileProvisioning
    <3>1. CASE /\ ~ScannedClaimLives /\ ~Scanned.workspace /\ ~Scanned.branch
               /\ Become("daemon", Looking("intProv", Interrupted))
      <4>1. Moved("daemon") /\ th'["daemon"].pc = "intProv" /\ th'["daemon"].now = 0
        BY <3>1, BecomeLooking DEF ProgramPoints
      <4>2. ASSUME ScanDelay = 0, Unplaced(row, 0) PROVE Absent
        BY <1>0, <2>0, <2>5, <3>1, <4>2
        DEF ClockInv, ScanNow, LookedUp, Looked, ReconcileProvisioning, Scanned
      <4> QED
        BY <1>0, <4>1, <4>2, ClockLooked DEF LookedUpPcs
    <3> QED
      BY <2>1, <2>4, <2>5, <3>1 DEF ReconcileProvisioning
  <2>6. CASE ReconcileCommand
    BY <2>1, <2>4, <2>6 DEF ReconcileCommand
  <2>7. CASE ReconcileVerifying
    BY <2>1, <2>4, <2>7 DEF ReconcileVerifying
  <2>8. CASE StartMonitor(Settled, "settled")
    BY <1>0, <2>8, StartMonitorKeepsClock DEF Settled
  <2> QED
    BY <1>2, <2>3, <2>5, <2>6, <2>7, <2>8 DEF ReconcileRun
<1> QED
  BY <1>1, <1>2

\* A provisioning run is interrupted by someone who has looked it up.
LEMMA InterruptKeepsClock ==
    ASSUME Types, Types', CloseInv, ClockInv, NEW t \in Threads \ {"exec"}, HerdrAlone,
           th[t].pc \in LookedUpPcs, Unplaced(row, th[t].now),
           row' = ClaimFinished(row, Interrupted), Become(t, Idle)
    PROVE  ClockInv'
<1>0. RowInv(row) /\ th[t].now \in Samples
  BY ThreadTyped DEF Types
<1>1. Sound(Interrupted) /\ Interrupted.state = "interrupted"
  BY OutsSound DEF CloseOuts, Interrupted, Outcome
<1>2. /\ row'.state = "interrupted" /\ row'.powner = None /\ SamePlace(row, row')
      /\ SameEffect(row, row')
  BY <1>0, <1>1, ClaimFinishedColumns DEF Unplaced
<1>3. ~Live(row)
  BY <1>0, LapsedNotLive DEF Unplaced
<1>4. ClockRely(row, row') /\ Guarded(row, row')
  BY <1>2, <1>3, ClockOver, NotGuarded
<1>5. Moved(t) /\ th'[t].pc \notin HoldingPcs \cup LookedUpPcs \cup {"scan"}
  BY BecomeIdle DEF HoldingPcs, LookedUpPcs
<1>6. ScanDelay = 0 => EndsFairly
  BY DEF EndsFairly, ClockInv, LookedUp, Looked
<1> QED
  BY <1>2, <1>4, <1>5, <1>6, ClockAway DEF SameEffect

\* Engine.Reconcile: recovery of the workspace, the command and the verifier.
LEMMA RecoveryKeepsClock ==
    ASSUME Types, Types', CloseInv, ClockInv,
           \/ FindWorkspace \/ RecoverWorkspace \/ InterruptProvisioning \/ CommandResult
           \/ ConfirmExpiredStart \/ ReadMarker \/ FinishExpiredVerifier
    PROVE  ClockInv'
<1> DEFINE t == "daemon"
<1>0. RowInv(row) /\ HerdrAlone /\ t \in Threads \ {"exec"} /\ th[t].now \in Samples
  BY ThreadTyped DEF Types, FindWorkspace, RecoverWorkspace, InterruptProvisioning, CommandResult,
         ConfirmExpiredStart, ReadMarker, FinishExpiredVerifier, world, HerdrAlone, Threads
<1>l. Placed
  BY DEF CloseInv
<1>1. CASE UNCHANGED row /\ Become(t, Idle)
  BY <1>0, <1>1, BecomeIdle, ClockDrift DEF HoldingPcs, LookedUpPcs
<1>2. ASSUME NEW pc \in {"idle", "recWs", "claimClose", "confExp", "failRun", "attest", "settle", "expVer"},
             Moved(t), th'[t].pc = pc, row' = row \/ row' = EventRecorded(row)
      PROVE  ClockInv'
  BY <1>0, <1>2, ClockDrift DEF HoldingPcs, LookedUpPcs
<1>3. ASSUME NEW pc \in {"idle", "claimClose", "failRun", "attest", "settle"}, Moved(t), th'[t].pc = pc,
             ClockRely(row, row'), ~Live(row), row'.workspace \/ row'.state \notin Terminal,
             row'.ekind = "workspace_close" => row.ekind = "workspace_close"
      PROVE  ClockInv'
  <2>1. th'[t].pc \notin HoldingPcs \cup LookedUpPcs \cup {"scan"} /\ EndsFairly /\ Guarded(row, row')
    BY <1>3, NotGuarded DEF HoldingPcs, LookedUpPcs, EndsFairly
  <2> QED
    BY <1>0, <1>3, <2>1, ClockAway
<1>4. CASE FindWorkspace
  <2>1. CASE Evidence(t)
    BY <1>0, <1>2, <2>1, BecomeIdle DEF Evidence, Stop
  <2>2. CASE Become(t, Carry(t, "recWs")) /\ UNCHANGED row
    BY <1>0, <1>2, <2>2, BecomeCarry DEF ProgramPoints
  <2>3. CASE ws \in {"none", "removed"} /\ Become(t, Carry(t, "intProv")) /\ UNCHANGED row
    <3>1. Moved(t) /\ th'[t].pc = "intProv" /\ th'[t].now = th[t].now
      BY <1>0, <2>3, BecomeCarry DEF ProgramPoints
    <3>2. Unplaced(row, th[t].now) => Absent
      BY <1>0, <2>3, NotFound
    <3> QED
      BY <1>0, <2>3, <3>1, <3>2, ClockLooked DEF LookedUpPcs
  <2> QED
    BY <1>1, <1>4, <2>1, <2>2, <2>3 DEF FindWorkspace, Stop
<1>5. CASE RecoverWorkspace
  <2> SUFFICES ASSUME CanRecoverProvisioningWorkspace(row, th[t].now), row' = WorkspaceRecovered(row),
                      Become(t, Carry(t, "claimClose"))
               PROVE  ClockInv'
    BY <1>1, <1>5 DEF RecoverWorkspace, CAS
  <2>1. /\ SameState(row, row') /\ SameHold(row, row') /\ row'.workspace /\ row'.branch = row.branch
        /\ SameEffect(row, row')
    BY <1>0, RecoveredColumns
  <2>2. ClockRely(row, row') /\ ~Live(row)
    BY <1>0, <2>1, ClockGrown, LapsedNotLive DEF CanRecoverProvisioningWorkspace
  <2>3. Moved(t) /\ th'[t].pc = "claimClose"
    BY <1>0, BecomeCarry DEF ProgramPoints
  <2> QED
    BY <1>3, <2>1, <2>2, <2>3 DEF SameEffect
<1>6. CASE InterruptProvisioning
  <2> SUFFICES ASSUME CanInterruptExpiredProvisioning(row, th[t].now),
                      row' = ClaimFinished(row, Interrupted), Become(t, Idle)
               PROVE  ClockInv'
    BY <1>1, <1>6 DEF InterruptProvisioning, CAS
  <2>1. th[t].pc \in LookedUpPcs /\ Unplaced(row, th[t].now)
    BY <1>6 DEF InterruptProvisioning, LookedUpPcs, CanInterruptExpiredProvisioning, Unplaced
  <2> QED
    BY <1>0, <2>1, InterruptKeepsClock
<1>c. Complete \in {"failRun", "attest", "settle"} /\ Complete \in ProgramPoints
  BY DEF Complete, ProgramPoints
<1>7. CASE CommandResult
  <2>1. CASE Become(t, CloseFor(t, Interrupted)) /\ UNCHANGED row
    <3>1. Moved(t) /\ th'[t].pc = "claimClose"
      BY <1>0, <2>1, BecomeOut DEF CloseFor, ProgramPoints
    <3> QED
      BY <1>2, <2>1, <3>1
  <2>2. CASE Goto(t, "confExp") /\ UNCHANGED row
    BY <1>0, <1>2, <2>2, BecomeAt DEF Goto, ProgramPoints
  <2>3. CASE Goto(t, Complete) /\ UNCHANGED row
    BY <1>0, <1>2, <1>c, <2>3, BecomeAt DEF Goto
  <2>4. CASE StartMonitor("waitCommand", "running")
    BY <1>0, <2>4, StartMonitorKeepsClock
  <2> QED
    BY <1>7, <2>1, <2>2, <2>3, <2>4 DEF CommandResult
<1>8. CASE ConfirmExpiredStart
  <2> SUFFICES ASSUME NEW now \in Fresh(t), CanConfirmExpiredCommandStart(row, now),
                      row' = StartConfirmed(row),
                      Become(t, [At(t, Complete) EXCEPT !.from = "running"])
               PROVE  ClockInv'
    BY <1>1, <1>8 DEF ConfirmExpiredStart, CAS
  <2>1. row.state = "starting" /\ row.eowner = None /\ ClaimLapsed(row, now) /\ now \in Samples
    BY FreshSample DEF CanConfirmExpiredCommandStart, EffectUnowned
  <2>2. /\ row'.state = "running" /\ row'.powner = None /\ SamePlace(row, row')
        /\ SameEffect(row, row')
    BY <1>0, <2>1, ConfirmedColumns
  <2>3. ClockRely(row, row') /\ ~Live(row) /\ row'.state \notin Terminal
    BY <1>0, <2>1, <2>2, ClockOver, LapsedNotLive DEF Terminal
  <2>4. Moved(t) /\ th'[t].pc = Complete
    BY <1>0, <1>c, BecomeFrom
  <2> QED
    BY <1>3, <1>c, <2>2, <2>3, <2>4 DEF SameEffect
<1>9. CASE ReadMarker
  BY <1>2, <1>9, BecomeRead DEF ReadMarker
<1>10. CASE FinishExpiredVerifier
  <2> SUFFICES ASSUME row.state = "verifying", row' = ExpiredVerifierFinished(row, th[t].out),
                      Become(t, Idle)
               PROVE  ClockInv'
    BY <1>1, <1>10 DEF FinishExpiredVerifier, CAS, CanFinishExpiredVerifier
  <2>1. Sound(th[t].out)
    BY <1>0, <1>10, ThreadTyped DEF FinishExpiredVerifier, Fits, OutPcs
  <2>2. row'.state = th[t].out.state /\ SamePlace(row, row') /\ Cleared(row') /\ RowInv(row')
    BY <1>0, <2>1, ExpiredColumns
  <2>3. th[t].out.state \in Terminal
    BY <2>1 DEF Sound, Outcomes
  <2>4. row'.powner = None
    BY <2>2, <2>3 DEF RowInv, ClaimInPhase, Terminal
  <2>5. ClockRely(row, row') /\ ~Live(row)
    BY <1>0, <2>2, <2>3, <2>4, ClockOver, LiveStates DEF Terminal
  <2>6. row'.workspace
    BY <1>l, <2>2 DEF Placed, SamePlace
  <2> QED
    BY <1>0, <1>3, <2>2, <2>5, <2>6, BecomeIdle DEF Cleared
<1> QED
  BY <1>4, <1>5, <1>6, <1>7, <1>8, <1>9, <1>10

\* Engine.Cancel and Engine.RecoverProvisioning.
LEMMA OperatorKeepsClock ==
    ASSUME Types, Types', CloseInv, ClockInv, Operator
    PROVE  ClockInv'
<1> DEFINE t == "cli"
<1>0. RowInv(row) /\ HerdrAlone /\ t \in Threads \ {"exec"} /\ th[t].now \in Samples
  BY ThreadTyped DEF Types, Operator, Cancel, CancelAccepted, RecoverProvisioning, FindAbsent,
         InterruptRecovered, world, HerdrAlone, Threads
<1>1. ASSUME UNCHANGED row, Moved(t), th'[t].pc \in {"idle", "cliFinish", "recExists", "claimClose", "cliFind"}
      PROVE  ClockInv'
  BY <1>0, <1>1, ClockDrift DEF HoldingPcs, LookedUpPcs
<1>2. CASE Cancel
  BY <1>1, <1>2, BecomeCommand, BecomeCancelling, OutsSound DEF Cancel, CloseOuts
<1>3. CASE CancelAccepted
  <2>1. CASE UNCHANGED row /\ Become(t, Idle)
    BY <1>0, <1>1, <2>1, BecomeIdle
  <2>2. CASE row.state = "accepted" /\ row' = Finished(row, Cancelled) /\ Become(t, Idle)
    <3>1. Sound(Cancelled) /\ Cancelled.state = "cancelled"
      BY OutsSound DEF CloseOuts, Cancelled, Outcome
    <3>2. row'.state = "cancelled" /\ row'.powner = None /\ SamePlace(row, row') /\ Cleared(row')
      BY <1>0, <2>2, <3>1, FinishedColumns
    <3>3. ClockRely(row, row') /\ Guarded(row, row')
      BY <1>0, <2>2, <3>2, ClockOver, LiveStates, NotGuarded
    <3>4. EndsFairly
      BY <2>2 DEF EndsFairly, ClockInv, BeforeCall, Nothing, Absent
    <3>5. Moved(t) /\ th'[t].pc \notin HoldingPcs \cup LookedUpPcs \cup {"scan"}
      BY <1>0, <2>2, BecomeIdle DEF HoldingPcs, LookedUpPcs
    <3> QED
      BY <1>0, <3>2, <3>3, <3>4, <3>5, ClockAway DEF Cleared
  <2> QED
    BY <1>3, <2>1, <2>2 DEF CancelAccepted, CAS, CanFinish
<1>4. CASE RecoverProvisioning
  BY <1>1, <1>4, BecomeCommand, OutsSound DEF RecoverProvisioning, CloseOuts
<1>5. CASE FindAbsent
  <2>1. CASE ws \in {"none", "removed"} /\ Become(t, [th[t] EXCEPT !.pc = "cliRecover"])
    <3>1. Moved(t) /\ th'[t].pc = "cliRecover" /\ th'[t].now = th[t].now
      BY <2>1, BecomeRecovering
    <3>2. Unplaced(row, th[t].now) => Absent
      BY <1>0, <2>1, NotFound
    <3> QED
      BY <1>0, <1>5, <3>1, <3>2, ClockLooked DEF FindAbsent, LookedUpPcs
  <2> QED
    BY <1>0, <1>1, <1>5, <2>1, BecomeIdle DEF FindAbsent, Stop
<1>6. CASE InterruptRecovered
  <2>1. CASE UNCHANGED row /\ Become(t, Idle)
    BY <1>0, <1>1, <2>1, BecomeIdle
  <2>2. CASE /\ CanInterruptRecovered(row, th[t].now) /\ row' = ClaimFinished(row, Interrupted)
             /\ Become(t, Idle)
    <3>1. th[t].pc \in LookedUpPcs /\ Unplaced(row, th[t].now)
      BY <1>6, <2>2 DEF InterruptRecovered, LookedUpPcs, CanInterruptRecovered, Unplaced, ClaimLapsed
    <3> QED
      BY <1>0, <2>2, <3>1, InterruptKeepsClock
  <2> QED
    BY <1>6, <2>1, <2>2 DEF InterruptRecovered, CAS
<1> QED
  BY <1>2, <1>3, <1>4, <1>5, <1>6 DEF Operator

\* The executor goes on, with the row or after its evidence.
LEMMA ExecutorMoves ==
    ASSUME Types, Types', CloseInv, ClockInv, HerdrAlone, Moved("exec"),
           row' = row \/ row' = EventRecorded(row), ExecOn, th'["exec"].pc # "scan",
           th'["exec"].pc \notin LookedUpPcs
    PROVE  ClockInv'
<1>0. RowInv(row) /\ "exec" \in Threads
  BY DEF Types, Threads
<1>1. SameState(row, row') /\ SameHold(row, row') /\ SamePlace(row, row') /\ SameEffect(row, row')
  BY <1>0, EventColumns DEF SameState, SameHold, SamePlace, SameEffect
<1>2. ClockRely(row, row') /\ ClaimsFairly("exec") /\ EndsFairly
  BY <1>1, ClockKept DEF SameEffect, SameState, SamePlace, ClaimsFairly, EndsFairly
<1>3. th'["exec"].pc # "cliRecover"
  BY DEF LookedUpPcs
<1> QED
  BY <1>0, <1>2, <1>3, ClockStep

\* The executor writes the row under its live claim.
LEMMA ExecutorWrites ==
    ASSUME Types, Types', CloseInv, ClockInv, HerdrAlone, Moved("exec"),
           ClockRely(row, row'), ExecOn, EndsFairly,
           row'.ekind = "workspace_close" => row.ekind = "workspace_close",
           th'["exec"].pc \notin LookedUpPcs \cup {"scan"}
    PROVE  ClockInv'
<1>1. ClaimsFairly("exec") /\ "exec" \in Threads /\ th'["exec"].pc # "cliRecover" /\ th'["exec"].pc # "scan"
  BY DEF ClaimsFairly, Threads, LookedUpPcs
<1> QED
  BY <1>1, ClockStep

\* Under the claim of a living executor, made now.
LEMMA HeldNow ==
    ASSUME CommitDelay = 0, Types, NEW t \in Threads, th[t].pc # "idle", NEW now \in Fresh(t),
           OwnsLiveClaim(row, th[t].owner, now)
    PROVE  now = 0 /\ Live(row)
<1>1. now = 0 /\ th[t].owner \in Owners
  BY FreshNow, ThreadTyped
<1> QED
  BY <1>1, RowAssumption DEF OwnsLiveClaim, Live

\* The client's deadline lies within the claim.
LEMMA DeadlineHeld ==
    ASSUME Types, NEW t \in Threads, th[t].pc # "idle", ClientDeadline(t) > 0
    PROVE  /\ Live(row) /\ row.please >= ClientDeadline(t)
           /\ row.state \in {"provisioning", "starting"}
<1>1. th[t].owner \in Owners /\ row.please \in Int /\ RowInv(row)
  BY ThreadTyped DEF Types, RowInv, Rows, Instants
<1>2. row.powner = th[t].owner /\ row.please >= ClientDeadline(t)
  BY <1>1, LifecycleAssumption DEF ClientDeadline, MinOf
<1>3. Live(row)
  BY <1>1, <1>2, RowAssumption, LifecycleAssumption DEF Live, ClientDeadline, MinOf
<1> QED
  BY <1>1, <1>2, <1>3, LiveStates

\* Engine.execute sends WorkspaceCreate.
LEMMA IssueProvisionKeepsClock ==
    ASSUME Types, Types', CloseInv, ClockInv, IssueProvision("exec")
    PROVE  ClockInv'
<1> DEFINE t == "exec"
<1>0. t \in Threads /\ "daemon" \in Threads /\ th[t].pc = "provision" /\ UNCHANGED <<ws, cmd>>
  BY DEF IssueProvision, Threads
<1>1. CASE ClientDeadline(t) > 0 /\ req' = [req EXCEPT !["provision"] = ClientDeadline(t)]
           /\ Goto(t, "provWait") /\ UNCHANGED row
  <2>1. Moved(t) /\ th'[t].pc = "provWait"
    BY <1>0, <1>1, BecomeAt DEF Goto, ProgramPoints
  <2>2. /\ Live(row) /\ row.please >= ClientDeadline(t)
        /\ row.state \in {"provisioning", "starting"}
    BY <1>0, <1>1, DeadlineHeld
  <2>3. req'["provision"] = ClientDeadline(t) /\ req'["start"] = req["start"]
    BY <1>1 DEF Types, Requests
  <2>4. row.branch /\ Nothing
    BY <1>0 DEF ClockInv, BeforeCall, BeforePcs
  <2>5. ~row.workspace /\ row.state = "provisioning"
    BY <2>2, <2>4 DEF Nothing, CloseInv, Placed
  <2>6. CommitDelay = 0 => Fenced'
    BY <1>0, <1>1 DEF ClockInv, Fenced, HoldingPcs
  <2>7. CommitDelay = 0 => StartBounded'
    BY <1>0, <1>1, <2>3 DEF ClockInv, StartBounded
  <2>8. ProvisionBounded'
    BY <1>1, <2>1, <2>2, <2>3, <2>5 DEF ProvisionBounded
  <2>9. BeforeCall'
    BY <1>1, <2>1, <2>4, <2>5 DEF BeforeCall, BeforePcs
  <2>u. ASSUME NEW u \in Threads, Unplaced(row, th'[u].now) PROVE FALSE
    <3>1. th'[u].now \in Samples
      BY ThreadTyped DEF Types, Typed, ThreadStates
    <3> QED
      BY <2>2, <2>u, <3>1, LapsedNotLive DEF Unplaced, Types
  <2>11. RecoverLooked'
    BY <1>1, <2>u DEF RecoverLooked, Threads
  <2>10. ASSUME ScanDelay = 0 PROVE LookedUp' /\ ScanNow' /\ EndsPlaced'
    <3>2. LookedUp'
      BY <1>1, <2>u DEF LookedUp
    <3>3. ScanNow'
      BY <1>0, <1>1, <2>1, <2>10 DEF ClockInv, ScanNow, Moved
    <3>4. EndsPlaced'
      BY <1>1, <2>5 DEF EndsPlaced, Terminal
    <3> QED
      BY <3>2, <3>3, <3>4
  <2> QED
    BY <2>6, <2>7, <2>8, <2>9, <2>10, <2>11 DEF ClockInv
<1>2. CASE Evidence(t) /\ UNCHANGED req
  <2>1. Moved(t) /\ th'[t].pc = "idle" /\ HerdrAlone
    BY <1>0, <1>2, BecomeIdle DEF Evidence, Stop, HerdrAlone
  <2>2. ExecOn
    BY <1>0, <2>1 DEF ExecOn, HoldingPcs, BeforePcs
  <2> QED
    BY <1>2, <2>1, <2>2, ExecutorMoves DEF Evidence, LookedUpPcs
<1> QED
  BY <1>1, <1>2 DEF IssueProvision

\* Engine.execute sends the start of the command.
LEMMA IssueStartKeepsClock ==
    ASSUME Types, Types', CloseInv, ClockInv, IssueStart("exec")
    PROVE  ClockInv'
<1> DEFINE t == "exec"
<1>0. t \in Threads /\ "daemon" \in Threads /\ th[t].pc = "startCommand" /\ UNCHANGED <<ws, cmd>>
  BY DEF IssueStart, Threads
<1>1. CASE ClientDeadline(t) > 0 /\ req' = [req EXCEPT !["start"] = ClientDeadline(t)]
           /\ Goto(t, "startWait") /\ UNCHANGED row
  <2>1. Moved(t) /\ th'[t].pc = "startWait"
    BY <1>0, <1>1, BecomeAt DEF Goto, ProgramPoints
  <2>2. /\ Live(row) /\ row.please >= ClientDeadline(t)
        /\ row.state \in {"provisioning", "starting"}
    BY <1>0, <1>1, DeadlineHeld
  <2>3. req'["start"] = ClientDeadline(t) /\ req'["provision"] = req["provision"]
    BY <1>1 DEF Types, Requests
  <2>4. Reached("starting", row.state)
    BY <1>0 DEF CloseInv, CloseThreads, CloseLocal, StartPcs
  <2>5. row.state = "starting"
    BY <2>2, <2>4 DEF Reached, Precedes, Terminal
  <2>6. ASSUME CommitDelay = 0 PROVE row.ekind = "none"
    <3>1. row.ekind # "workspace_close"
      BY <1>0, <2>2, <2>6 DEF ClockInv, Fenced, HoldingPcs
    <3>2. row.ekind \in EffectKinds /\ row.ekind # "verifier"
      BY <2>2, LiveStates DEF Types, RowInv, Rows
    <3> QED
      BY <3>1, <3>2 DEF EffectKinds
  <2>7. CommitDelay = 0 => Fenced'
    BY <1>1, <2>6 DEF Fenced
  <2>8. CommitDelay = 0 => StartBounded'
    BY <1>1, <2>1, <2>2, <2>3, <2>5, <2>6 DEF StartBounded
  <2>9. ProvisionBounded' /\ BeforeCall'
    BY <1>0, <1>1, <2>1, <2>3 DEF ClockInv, ProvisionBounded, BeforeCall, BeforePcs, Nothing
  <2>10. ASSUME ScanDelay = 0 PROVE LookedUp' /\ ScanNow' /\ EndsPlaced'
    BY <1>0, <1>1, <2>1, <2>5, <2>10
    DEF ClockInv, LookedUp, Unplaced, ScanNow, EndsPlaced, Moved, Terminal
  <2>11. RecoverLooked'
    BY <1>1, <2>5 DEF RecoverLooked, Unplaced
  <2> QED
    BY <2>7, <2>8, <2>9, <2>10, <2>11 DEF ClockInv
<1>2. CASE Evidence(t) /\ UNCHANGED req
  <2>1. Moved(t) /\ th'[t].pc = "idle" /\ HerdrAlone
    BY <1>0, <1>2, BecomeIdle DEF Evidence, Stop, HerdrAlone
  <2>2. ExecOn
    BY <1>0, <2>1 DEF ExecOn, HoldingPcs, BeforePcs
  <2> QED
    BY <1>2, <2>1, <2>2, ExecutorMoves DEF Evidence, LookedUpPcs
<1> QED
  BY <1>1, <1>2 DEF IssueStart

\* The other steps of Engine.execute.
LEMMA ExecuteKeepsClock ==
    ASSUME Types, Types', CloseInv, ClockInv, Execute("exec")
    PROVE  ClockInv'
<1> DEFINE t == "exec"
<1> USE DEF Execute
<1>i. CASE IssueProvision(t) \/ IssueStart(t)
  BY <1>i, IssueProvisionKeepsClock, IssueStartKeepsClock
<1> SUFFICES ASSUME ~(IssueProvision(t) \/ IssueStart(t)) PROVE ClockInv'
  BY <1>i
<1>0. RowInv(row) /\ t \in Threads /\ th[t].pc # "idle"
  BY DEF Types, Threads, Renew, Probe, FailProvisioning, SavePlan, ProvisionReturns, SaveReceipt,
         SavePartial, ClaimLateCleanup, Stage, FailStarting, StartReturns, ConfirmStart
<1>h. HerdrAlone
  BY DEF Renew, Probe, FailProvisioning, SavePlan, ProvisionReturns, SaveReceipt,
         SavePartial, ClaimLateCleanup, Stage, FailStarting, StartReturns, ConfirmStart, world, HerdrAlone
<1>l. Placed /\ BeforeCall
  BY DEF CloseInv, ClockInv
\* It stops, or moves on within the phase.
<1>1. CASE UNCHANGED row /\ Become(t, Idle)
  <2>1. Moved(t) /\ th'[t].pc = "idle"
    BY <1>0, <1>1, BecomeIdle
  <2>2. ExecOn
    BY <1>0, <1>1, <2>1, ClockKept DEF ExecOn, HoldingPcs, BeforePcs, SameState, SameHold, SamePlace, SameEffect
  <2> QED
    BY <1>1, <1>h, <2>1, <2>2, ExecutorMoves DEF LookedUpPcs
<1>2. ASSUME NEW pc \in {"renewProvision", "failProvisioning", "saveReceipt", "savePartial", "late",
                         "renewStart", "failStarting", "confirm"},
             UNCHANGED row, Become(t, At(t, pc)), th[t].pc \in HoldingPcs,
             pc \in BeforePcs => th[t].pc \in BeforePcs,
             th[t].pc = "startWait" => cmd # "none", th[t].pc = "provWait" => ws # "none"
      PROVE  ClockInv'
  <2>1. pc \in ProgramPoints
    BY DEF ProgramPoints
  <2>2. Moved(t) /\ th'[t].pc = pc
    BY <1>0, <1>2, <2>1, BecomeAt
  <2>3. Guarded(row, row')
    BY <1>2, ClockKept DEF SameState, SameHold, SamePlace, SameEffect
  <2>4. ExecOn
    BY <1>0, <1>2, <2>2, <2>3 DEF ExecOn, HoldingPcs
  <2> QED
    BY <1>2, <1>h, <2>2, <2>4, ExecutorMoves DEF LookedUpPcs
<1>3. CASE Evidence(t)
  <2>1. Moved(t) /\ th'[t].pc = "idle" /\ row' = EventRecorded(row)
    BY <1>0, <1>3, BecomeIdle DEF Evidence, Stop
  <2>2. Guarded(row, row')
    BY <1>0, <2>1, EventColumns, ClockKept
  <2>3. ExecOn
    BY <1>0, <2>1, <2>2 DEF ExecOn, HoldingPcs, BeforePcs
  <2> QED
    BY <1>h, <2>1, <2>3, ExecutorMoves DEF LookedUpPcs
<1>4. CASE Probe(t) \/ Stage(t)
  BY <1>2, <1>4 DEF Probe, Stage, Goto, HoldingPcs, BeforePcs
<1>5. CASE ProvisionReturns(t) \/ StartReturns(t)
  BY <1>2, <1>3, <1>5 DEF ProvisionReturns, StartReturns, Goto, HoldingPcs, BeforePcs
\* It writes under its claim.
<1>6. ASSUME NEW pc, NEW next, Renew(t, pc, next),
             \/ pc = "renewProbe" /\ next = "probe"
             \/ pc = "renewProvision" /\ next = "savePlan"
             \/ pc = "renewStart" /\ next = "startCommand"
      PROVE  ClockInv'
  <2> SUFFICES ASSUME NEW now \in Fresh(t), CanRenewProvisioningClaim(row, th[t].owner, now),
                      row' = Renewed(row, now + ProvisioningLease), Become(t, At(t, next))
               PROVE  ClockInv'
    BY <1>1, <1>6 DEF Renew, CAS
  <2>1. now + ProvisioningLease \in Instants
    BY <1>0, FreshSample, LeasesTyped
  <2>2. /\ SameState(row, row') /\ row'.powner = row.powner /\ SamePlace(row, row')
        /\ SameEffect(row, row')
    BY <1>0, <2>1, RenewedColumns
  <2>a. CommitDelay = 0 => Live(row)
    BY <1>0, HeldNow DEF CanRenewProvisioningClaim
\* While the run is provisioning nothing has been asked for yet.
  <2>b. row.state = "provisioning" => Absent
    <3>1. CASE th[t].pc \in {"renewProbe", "renewProvision"}
      BY <1>l, <3>1 DEF BeforeCall, BeforePcs, Nothing, Absent
    <3>2. CASE th[t].pc = "renewStart"
      <4>1. Reached("starting", row.state)
        BY <1>0, <3>2 DEF CloseInv, CloseThreads, CloseLocal, StartPcs
      <4> QED
        BY <4>1 DEF Reached, Precedes, Active, Terminal
    <3> QED
      BY <1>6, <3>1, <3>2 DEF Renew
  <2>3. ClockRely(row, row') /\ EndsFairly
    BY <2>2, <2>a, <2>b DEF ClockRely, SameState, SamePlace, EndsFairly
  <2>4. Moved(t) /\ th'[t].pc = next
    BY <1>0, <1>6, BecomeAt DEF ProgramPoints
  <2>5. ExecOn
    BY <1>0, <1>6, <2>4 DEF ExecOn, Renew, HoldingPcs, BeforePcs
  <2> QED
    BY <1>6, <1>h, <2>2, <2>3, <2>4, <2>5, ExecutorWrites DEF SameEffect, LookedUpPcs
<1>7. CASE FailProvisioning(t) \/ FailStarting(t)
  <2> SUFFICES ASSUME row.state \in {"provisioning", "starting"}, row' = ClaimFinished(row, Failed),
                      Become(t, Idle), row.state = "provisioning" => th[t].pc = "failProvisioning"
               PROVE  ClockInv'
    BY <1>1, <1>7 DEF FailProvisioning, FailStarting, CAS, CanFinishProvisioningClaim, CanFinishStartingClaim
  <2>1. Sound(Failed) /\ Failed.state = "failed"
    BY OutsSound DEF VerifierOuts, Failed, Outcome
  <2>2. /\ row'.state = "failed" /\ row'.powner = None /\ SamePlace(row, row') /\ SameEffect(row, row')
    BY <1>0, <2>1, ClaimFinishedColumns
  <2>3. ClockRely(row, row')
    BY <2>2, ClockOver
  <2>4. EndsFairly
    BY <1>l, <2>2 DEF EndsFairly, SamePlace, Placed, BeforeCall, BeforePcs, Nothing, Absent
  <2>5. Moved(t) /\ th'[t].pc = "idle"
    BY <1>0, BecomeIdle
  <2>6. ExecOn
    BY <1>0, <1>7, <2>5 DEF ExecOn, HoldingPcs, BeforePcs, FailProvisioning, FailStarting
  <2> QED
    BY <1>h, <2>2, <2>3, <2>4, <2>5, <2>6, ExecutorWrites DEF SameEffect, LookedUpPcs
<1>8. CASE SavePlan(t)
  <2> SUFFICES ASSUME NEW now \in Fresh(t), CanSaveProvisioning(row, th[t].owner, now),
                      row' = PlanSaved(row), Become(t, At(t, "provision"))
               PROVE  ClockInv'
    BY <1>1, <1>8 DEF SavePlan, CAS
  <2>2. /\ SameState(row, row') /\ SameHold(row, row') /\ row'.workspace = row.workspace /\ row'.branch
        /\ SameEffect(row, row')
    BY <1>0, PlanSavedColumns
  <2>3. ClockRely(row, row') /\ EndsFairly
    BY <2>2 DEF ClockRely, SameState, SameHold, EndsFairly, Live
  <2>4. Moved(t) /\ th'[t].pc = "provision"
    BY <1>0, BecomeAt DEF ProgramPoints
  <2>5. ExecOn
    BY <1>8, <2>2, <2>4 DEF ExecOn, SavePlan, HoldingPcs, BeforePcs
  <2> QED
    BY <1>h, <2>2, <2>3, <2>4, <2>5, ExecutorWrites DEF SameEffect, LookedUpPcs
<1>9. CASE SaveReceipt(t)
  <2>1. CASE Goto(t, "late") /\ UNCHANGED row
    BY <1>2, <1>9, <2>1 DEF SaveReceipt, Goto, HoldingPcs, BeforePcs
  <2>2. CASE row.state = "provisioning" /\ row' = ReceiptSaved(row) /\ Become(t, At(t, "stage"))
    <3>1. /\ row'.state = "starting" /\ SameHold(row, row') /\ row'.workspace /\ row'.branch
          /\ SameEffect(row, row')
      BY <1>0, <2>2, ReceiptSavedColumns
    <3>2. ClockRely(row, row') /\ EndsFairly
      BY <3>1, ClockOver DEF EndsFairly
    <3>3. Moved(t) /\ th'[t].pc = "stage"
      BY <1>0, <2>2, BecomeAt DEF ProgramPoints
    <3>4. ExecOn
      BY <1>9, <3>3 DEF ExecOn, SaveReceipt, HoldingPcs, BeforePcs
    <3> QED
      BY <1>h, <3>1, <3>2, <3>3, <3>4, ExecutorWrites DEF SameEffect, LookedUpPcs
  <2> QED
    BY <1>9, <2>1, <2>2 DEF SaveReceipt, CAS, CanSaveProvisioning, Goto
<1>10. CASE SavePartial(t)
  <2>1. CASE Goto(t, "late") /\ UNCHANGED row
    BY <1>2, <1>10, <2>1 DEF SavePartial, Goto, HoldingPcs, BeforePcs
  <2>2. CASE row' = EventRecorded(PartialReceiptSaved(row, TRUE)) /\ Become(t, Idle)
    <3>1. SameState(row, row') /\ SameHold(row, row') /\ row'.workspace /\ row'.branch /\ SameEffect(row, row')
      BY <1>0, <2>2, PartialColumns
    <3>2. ClockRely(row, row') /\ EndsFairly
      BY <3>1, ClockGrown DEF EndsFairly
    <3>3. Moved(t) /\ th'[t].pc = "idle"
      BY <1>0, <2>2, BecomeIdle
    <3>4. ExecOn
      BY <1>10, <3>3 DEF ExecOn, SavePartial, HoldingPcs, BeforePcs
    <3> QED
      BY <1>h, <3>1, <3>2, <3>3, <3>4, ExecutorWrites DEF SameEffect, LookedUpPcs
  <2> QED
    BY <1>10, <2>1, <2>2 DEF SavePartial, CAS, Goto
<1>11. CASE ClaimLateCleanup(t)
  <2> DEFINE now == th[t].now
  <2> SUFFICES ASSUME row' = LateCleanupClaimed(row, th[t].owner, t, now + CloseLease, Interrupted, TRUE),
                      Become(t, [At(t, "closeCall") EXCEPT !.from = row.state,
                                                           !.out = LateIntent(row, Interrupted)])
               PROVE  ClockInv'
    BY <1>1, <1>11 DEF ClaimLateCleanup, CAS
  <2>1. th[t].owner \in Owners /\ t \in Claims /\ now + CloseLease \in Instants
    BY <1>0, TokensTyped, ThreadTyped, LeasesTyped
  <2>2. SameState(row, row') /\ SameHold(row, row') /\ row'.workspace /\ row'.branch
    BY <1>0, <2>1, LateColumnsSet
  <2>3. ClockRely(row, row') /\ EndsFairly
    BY <2>2, ClockGrown DEF EndsFairly
  <2>4. Moved(t) /\ th'[t].pc = "closeCall"
    BY <1>0, BecomeLate
  <2>5. ExecOn /\ ClaimsFairly(t) /\ th'[t].pc \notin LookedUpPcs \cup {"scan"}
    BY <1>11, <2>4 DEF ExecOn, ClaimsFairly, ClaimLateCleanup, HoldingPcs, BeforePcs, LookedUpPcs
  <2> QED
    BY <1>0, <1>h, <2>3, <2>4, <2>5, ClockStep
<1>12. CASE ConfirmStart(t)
  <2> SUFFICES ASSUME row.state = "starting", row.eowner = None, row' = StartConfirmed(row),
                      Become(t, [At(t, "waitCommand") EXCEPT !.from = "running"])
               PROVE  ClockInv'
    BY <1>1, <1>12 DEF ConfirmStart, CAS, CanConfirmStartingClaim, EffectUnowned
  <2>1. row'.state = "running" /\ row'.powner = None /\ SamePlace(row, row') /\ SameEffect(row, row')
    BY <1>0, ConfirmedColumns
  <2>2. ClockRely(row, row') /\ EndsFairly
    BY <2>1, ClockOver DEF EndsFairly, Terminal
  <2>3. Moved(t) /\ th'[t].pc = "waitCommand"
    BY <1>0, BecomeFrom DEF ProgramPoints
  <2>4. ExecOn
    BY <1>12, <2>3 DEF ExecOn, ConfirmStart, HoldingPcs, BeforePcs
  <2> QED
    BY <1>h, <2>1, <2>2, <2>3, <2>4, ExecutorWrites DEF SameEffect, LookedUpPcs
<1>13. CASE \/ Renew(t, "renewProbe", "probe") \/ Renew(t, "renewProvision", "savePlan")
            \/ Renew(t, "renewStart", "startCommand")
  BY <1>6, <1>13
<1> QED
  BY <1>4, <1>5, <1>7, <1>8, <1>9, <1>10, <1>11, <1>12, <1>13

\* Engine.dispatch decides about a run that has asked Herdr for nothing.
LEMMA AdmissionKeepsClock ==
    ASSUME Types, Types', CloseInv, ClockInv, DecideAdmission
    PROVE  ClockInv'
<1>0. /\ RowInv(row) /\ UNCHANGED <<ws, cmd, req>> /\ "exec" \in Threads /\ "daemon" \in Threads
      /\ row.state = "accepted" /\ CanDecideAdmission(row) /\ th["exec"].pc = "idle"
  BY DEF Types, DecideAdmission, CanDecideAdmission, world, Threads
<1>1. Nothing /\ ~row.workspace /\ row.ekind # "workspace_close"
  BY <1>0 DEF ClockInv, BeforeCall, CloseInv, Placed
<1>2. CommitDelay = 0 => (req["start"] > 0 => cmd # "none")
  BY <1>0 DEF ClockInv, StartBounded
<1>3. req["provision"] = 0 /\ Absent
  BY <1>1 DEF Nothing, Absent
<1>5. ASSUME row'.state \in {"provisioning", "blocked", "failed"}, SamePlace(row, row'),
             SameEffect(row, row'), th'["exec"].pc \in {"idle", "renewProbe"},
             \A u \in Threads \ {"exec"} : th'[u] = th[u]
      PROVE  ClockInv'
  <2>1. Nothing' /\ Absent'
    BY <1>0, <1>1, <1>3 DEF Nothing, Absent
  <2>2. (CommitDelay = 0 => Fenced' /\ StartBounded') /\ ProvisionBounded' /\ BeforeCall'
    BY <1>0, <1>1, <1>2, <1>3, <1>5, <2>1
    DEF Fenced, StartBounded, ProvisionBounded, BeforeCall, SameEffect
  <2>3. ASSUME ScanDelay = 0 PROVE LookedUp' /\ ScanNow' /\ EndsPlaced'
    BY <1>5, <2>1, <2>3 DEF ClockInv, LookedUp, ScanNow, EndsPlaced
  <2> QED
    BY <2>1, <2>2, <2>3 DEF ClockInv, RecoverLooked
<1>6. ASSUME NEW o \in {"d1", "d2", "attended"}, row' = Admitted(row, o, ProvisioningLease),
             Become("exec", [Idle EXCEPT !.pc = "renewProbe", !.owner = o])
      PROVE  ClockInv'
  <2>1. o \in Owners /\ ProvisioningLease \in Instants
    BY <1>6, TokensTyped, LeasesTyped, IdleTyped
  <2>2. row'.state = "provisioning" /\ SamePlace(row, row') /\ SameEffect(row, row')
    BY <1>0, <1>6, <2>1, AdmittedColumns
  <2>3. Moved("exec") /\ th'["exec"].pc = "renewProbe"
    BY <1>6, BecomeExec
  <2> QED
    BY <1>0, <1>5, <2>2, <2>3 DEF Moved
<1>7. ASSUME NEW s \in {"blocked", "failed"}, row' = AdmissionFinished(row, s), UNCHANGED th
      PROVE  ClockInv'
  <2>1. row'.state = s /\ SamePlace(row, row') /\ SameEffect(row, row')
    BY <1>0, <1>7, AdmissionFinishedColumns
  <2> QED
    BY <1>0, <1>5, <1>7, <2>1
<1> QED
  BY <1>6, <1>7 DEF DecideAdmission, Types

\* Herdr acts while the claim lives; what is gone stays gone.
LEMMA WorldKeepsClock ==
    ASSUME Types, Types', CloseInv, ClockInv, Herdr \/ ByHand
    PROVE  ClockInv'
<1>0. UNCHANGED <<row, req, th>> /\ RowInv(row)
  BY DEF Types, Herdr, ServerProvisions, ServerStarts, ServerCloses, CommandExits, ByHand,
         ClosedByHand, RemovedByHand
<1>1. CASE ServerProvisions
  <2>1. /\ req["provision"] > 0 /\ ws = "none" /\ ws' = "open" /\ UNCHANGED cmd
        /\ row.state = "provisioning" /\ Live(row) /\ ~Nothing
    BY <1>1 DEF ServerProvisions, ClockInv, ProvisionBounded, Nothing
  <2>2. (CommitDelay = 0 => Fenced' /\ StartBounded') /\ ProvisionBounded' /\ BeforeCall'
    BY <1>0, <2>1 DEF ClockInv, Fenced, StartBounded, ProvisionBounded, BeforeCall
  <2>u. ASSUME NEW t \in Threads, Unplaced(row, th[t].now) PROVE FALSE
    BY <1>0, <2>1, <2>u, ThreadTyped, LapsedNotLive DEF Unplaced
  <2>3. ASSUME ScanDelay = 0 PROVE LookedUp' /\ ScanNow' /\ EndsPlaced'
    BY <1>0, <2>1, <2>3, <2>u DEF ClockInv, LookedUp, ScanNow, EndsPlaced, Terminal
  <2>4. RecoverLooked'
    BY <1>0, <2>u DEF RecoverLooked, Threads
  <2> QED
    BY <2>2, <2>3, <2>4 DEF ClockInv
<1>2. CASE ServerStarts \/ CommandExits
  <2>1. UNCHANGED ws /\ cmd' # "none"
    BY <1>2 DEF ServerStarts, CommandExits
  <2>2. (CommitDelay = 0 => Fenced' /\ StartBounded') /\ ProvisionBounded' /\ BeforeCall'
    BY <1>0, <2>1 DEF ClockInv, Fenced, StartBounded, ProvisionBounded, BeforeCall, Nothing
  <2>3. ASSUME ScanDelay = 0 PROVE LookedUp' /\ ScanNow' /\ EndsPlaced'
    BY <1>0, <2>1, <2>3 DEF ClockInv, LookedUp, ScanNow, EndsPlaced, Absent
  <2>4. RecoverLooked'
    BY <1>0, <2>1 DEF ClockInv, RecoverLooked, Absent
  <2> QED
    BY <2>2, <2>3, <2>4 DEF ClockInv
<1>3. CASE ServerCloses \/ ByHand
  <2>1. UNCHANGED cmd /\ ws' \in {"closed", "removed"} /\ ws # "none"
    BY <1>3 DEF ServerCloses, ByHand, ClosedByHand, RemovedByHand
  <2>2. (CommitDelay = 0 => Fenced' /\ StartBounded') /\ ProvisionBounded' /\ BeforeCall'
    BY <1>0, <2>1 DEF ClockInv, Fenced, StartBounded, ProvisionBounded, BeforeCall, Nothing
  <2>3. ASSUME ScanDelay = 0 PROVE LookedUp' /\ ScanNow' /\ EndsPlaced'
    BY <1>0, <2>1, <2>3 DEF ClockInv, LookedUp, ScanNow, EndsPlaced, Absent
  <2>4. RecoverLooked'
    BY <1>0, <2>1 DEF ClockInv, RecoverLooked, Absent
  <2> QED
    BY <2>2, <2>3, <2>4 DEF ClockInv
<1> QED
  BY <1>1, <1>2, <1>3 DEF Herdr

\* Threads die with their process; calls already sent live on.
LEMMA CrashKeepsClock ==
    ASSUME Types, Types', CloseInv, ClockInv, Crash
    PROVE  ClockInv'
<1>1. UNCHANGED row /\ HerdrAlone
  BY DEF Crash, CrashDaemon, CrashAttended, world, HerdrAlone
<1>2. \A t \in Threads : th'[t] = th[t] \/ th'[t].pc = "idle"
  BY DEF Crash, CrashDaemon, CrashAttended, Killed, Idle
<1> QED
  BY <1>1, <1>2, ClockSettled DEF Threads, LookedUpPcs

\* Time passes alike for claims, calls and samples.
LEMMA TickKeepsClock ==
    ASSUME Types, Types', CloseInv, ClockInv, Tick
    PROVE  ClockInv'
<1>0. /\ RowInv(row) /\ UNCHANGED <<ws, cmd>> /\ row' = RowAged(row) /\ "exec" \in Threads
      /\ "daemon" \in Threads
  BY DEF Types, Tick, Threads
<1>1. /\ SameState(row, row') /\ row'.powner = row.powner /\ row'.please = Aged(row.please)
      /\ SamePlace(row, row') /\ SameEffect(row, row')
  BY <1>0, AgedColumns
<1>2. ASSUME NEW k \in {"start", "provision"}
      PROVE  req[k] \in Nat /\ req'[k] = IF req[k] > 0 THEN req[k] - 1 ELSE 0
  BY DEF Types, Tick, Requests, Spans
<1>3. \A t \in Threads : th'[t].pc = th[t].pc
  BY LaterTyped DEF Tick
<1>4. row.please \in Int /\ row.please >= Past /\ Past \in Int /\ Past <= 0
  BY <1>0, RowAssumption DEF RowInv, Rows, Instants, Past
\* A claim that covers a call covers it one tick later.
<1>5. ASSUME NEW k \in {"start", "provision"}, req'[k] > 0, Live(row), row.please >= req[k]
      PROVE  Live(row') /\ row'.please >= req'[k]
  <2>1. row.please > Past /\ row'.please = row.please - 1 /\ req'[k] = req[k] - 1 /\ req[k] \in Nat
    BY <1>1, <1>2, <1>4, <1>5 DEF Live, Aged
  <2> QED
    BY <1>1, <1>4, <1>5, <2>1 DEF Live
<1>6. Live(row') => Live(row)
  BY <1>1, <1>4 DEF Live, Aged
<1>7. (req'["start"] > 0 => req["start"] > 0) /\ (req'["provision"] > 0 => req["provision"] > 0)
      /\ (req["provision"] = 0 => req'["provision"] = 0)
  BY <1>2
<1>8. CommitDelay = 0 => Fenced'
  BY <1>0, <1>1, <1>3, <1>6 DEF ClockInv, Fenced, SameEffect
<1>9. CommitDelay = 0 => StartBounded'
  BY <1>0, <1>1, <1>3, <1>5, <1>7 DEF ClockInv, StartBounded, SameState, SameEffect
<1>10. ProvisionBounded'
  BY <1>0, <1>1, <1>3, <1>5, <1>7 DEF ClockInv, ProvisionBounded, SameState, SamePlace
<1>11. BeforeCall'
  BY <1>0, <1>1, <1>3, <1>7 DEF ClockInv, BeforeCall, Nothing, SameState, SamePlace
<1>a. Absent => Absent'
  BY <1>0, <1>7 DEF Absent
\* Whoever has looked uses its sample before it is too old to age.
<1>b. ASSUME NEW t \in Threads, th[t].pc \in LookedUpPcs, Unplaced(row', th'[t].now)
      PROVE  Unplaced(row, th[t].now)
  <2>1. th[t].now \in Samples /\ th[t].pc # "idle" /\ th[t].pc # "scan" /\ th[t].pc \in Carrying
    BY <1>b, ThreadTyped DEF LookedUpPcs, Carrying
  <2>2. Oldest(t) = Past
    BY <2>1 DEF Oldest
  <2>3. th[t].now # Past /\ th[t].now \in Int /\ th[t].now >= Past
    BY <1>4, <2>1, <2>2 DEF Tick, Overdue, Samples
  <2>4. th'[t].now = th[t].now - 1
    BY <2>1, <2>2, <2>3, <1>4, LaterTyped DEF Tick
  <2>5. ClaimLapsed(row', th'[t].now) => ClaimLapsed(row, th[t].now)
    BY <1>1, <1>4, <2>3, <2>4 DEF ClaimLapsed, Aged
  <2> QED
    BY <1>1, <1>b, <2>5 DEF Unplaced, SameState, SamePlace
<1>13. RecoverLooked'
  <2>1. "cli" \in Threads
    BY DEF Threads
  <2> QED
    BY <1>3, <1>a, <1>b, <2>1 DEF ClockInv, RecoverLooked, LookedUpPcs
<1>12. ASSUME ScanDelay = 0 PROVE LookedUp' /\ ScanNow' /\ EndsPlaced'
  <2>1. Absent => Absent'
    BY <1>a
\* A pass that reads and decides in the same tick lets no time pass.
  <2>s. ASSUME NEW t \in Threads PROVE th[t].pc # "scan"
    <3> SUFFICES ASSUME th[t].pc = "scan" PROVE FALSE
      OBVIOUS
    <3>1. th[t].now = 0
      BY <1>12 DEF ClockInv, ScanNow
    <3>2. Oldest(t) = -ScanDelay
      BY DEF Oldest, Carrying
    <3>3. ScanDelay \in Int
      BY LifecycleAssumption
    <3>4. -ScanDelay = 0 - ScanDelay
      BY <3>3
    <3>5. Oldest(t) = 0
      BY <1>12, <3>2, <3>4
    <3> QED
      BY <1>0, <3>1, <3>5 DEF Tick, Overdue
  <2>2. LookedUp'
    <3> SUFFICES ASSUME NEW t \in Threads, Looked(th'[t]), Unplaced(row', th'[t].now)
                 PROVE  Absent'
      BY DEF LookedUp
    <3>0. th'[t].pc # "scan"
      BY <1>3, <2>s
    <3>1. th[t].pc \in LookedUpPcs /\ Unplaced(row, th[t].now)
      BY <1>3, <1>b, <3>0 DEF Looked
    <3> QED
      BY <1>12, <2>1, <3>1 DEF ClockInv, LookedUp, Looked
  <2>3. ScanNow'
    BY <1>0, <1>3, <2>s DEF ScanNow
  <2>4. EndsPlaced'
    BY <1>1, <1>12, <2>1 DEF ClockInv, EndsPlaced, SameState, SamePlace
  <2> QED
    BY <2>2, <2>3, <2>4
<1> QED
  BY <1>8, <1>9, <1>10, <1>11, <1>12, <1>13 DEF ClockInv

-----------------------------------------------------------------------------
(* The invariant and what it says.                                         *)

\* A new run has asked Herdr for nothing.
LEMMA InitClock == Init => ClockInv
<1> SUFFICES ASSUME Init PROVE ClockInv
  OBVIOUS
<1>1. row.state = "accepted" /\ row.ekind = "none" /\ ws = "none"
  BY DEF Init, NewRow
<1>2. \A t \in Threads : th[t].pc = "idle"
  BY DEF Init, Idle
<1>3. req["start"] = 0 /\ req["provision"] = 0 /\ "exec" \in Threads /\ "daemon" \in Threads
  BY DEF Init, Requests, Threads
<1> QED
  BY <1>1, <1>2, <1>3
  DEF ClockInv, Fenced, StartBounded, ProvisionBounded, BeforeCall, BeforePcs, Nothing, LookedUp,
      Looked, LookedUpPcs, ScanNow, RecoverLooked, Threads, EndsPlaced, Terminal

\* Every step keeps it.
LEMMA NextClock ==
    Types /\ Types' /\ CloseInv /\ ClockInv /\ [Next]_vars => ClockInv'
<1> SUFFICES ASSUME Types, Types', CloseInv, ClockInv, [Next]_vars PROVE ClockInv'
  OBVIOUS
<1>1. CASE DecideAdmission
  BY <1>1, AdmissionKeepsClock
<1>2. CASE Execute("exec")
  BY <1>2, ExecuteKeepsClock
<1>3. CASE \E t \in {"exec", "mon", "daemon"} : Monitor(t)
  BY <1>3, MonitorKeepsClock DEF Threads
<1>4. CASE \E t \in Threads : Close(t)
  BY <1>4, ClosingKeepsClock
<1>5. CASE Reconcile
  BY <1>5, ScanKeepsClock, RecoveryKeepsClock DEF Reconcile
<1>6. CASE Operator
  BY <1>6, OperatorKeepsClock
<1>7. CASE Herdr \/ ByHand
  BY <1>7, WorldKeepsClock
<1>8. CASE Crash
  BY <1>8, CrashKeepsClock
<1>9. CASE Tick
  BY <1>9, TickKeepsClock
<1>10. CASE UNCHANGED vars
  BY <1>10, ClockSettled DEF vars, world, procs, ghosts, HerdrAlone
<1> QED
  BY <1>1, <1>2, <1>3, <1>4, <1>5, <1>6, <1>7, <1>8, <1>9, <1>10 DEF Next

\* The invariant of every behaviour: what a claim bounds without late commits,
\* and what a lookup proves without late passes.
THEOREM ClockInvariant == Spec => [](Types /\ CloseInv /\ ClockInv)
<1>1. Types /\ Types' /\ CloseInv /\ ClockInv /\ [Next]_vars => ClockInv'
  BY NextClock
<1> QED
  BY <1>1, InitTypes, NextTypes, InitClose, NextClose, InitClock, PTL DEF Spec

\* NoOrphanWorkspace of every run whose passes decide in the tick they have
\* read it in (Engine.Reconcile), however late any commit is: whatever crashes
\* or is lost, an open workspace of a run that has ended is named by its row.
THEOREM NoWorkspaceOrphaned == ASSUME ScanDelay = 0 PROVE Spec => []NoOrphanWorkspace
<1>1. ClockInv => NoOrphanWorkspace
  BY DEF ClockInv, EndsPlaced, Absent, NoOrphanWorkspace
<1> QED
  BY <1>1, ClockInvariant, PTL

-----------------------------------------------------------------------------
(* What a step of the engine may do.  Whatever the threads, the crashes    *)
(* and the clock do, the row changes by one call of the store and by       *)
(* nothing else, so that every behaviour of the engine is a behaviour of   *)
(* RunStore.  What no step may do follows from the list of the calls and   *)
(* from the invariants.                                                    *)

(* The calls.                                                              *)

\* By the executor, which holds the provisioning claim.
ExecutorCall(now) ==
    LET o == th["exec"].owner IN
    \/ CanRenewProvisioningClaim(row, o, now) /\ row' = Renewed(row, now + ProvisioningLease)
    \/ CanSaveProvisioning(row, o, now) /\ row' \in {PlanSaved(row), PartialReceiptSaved(row, TRUE)}
    \/ CanSaveProvisioning(row, o, now) /\ row' = ReceiptSaved(row)
    \/ CanFinishProvisioningClaim(row, o, now) /\ row' = ClaimFinished(row, Failed)
    \/ CanFinishStartingClaim(row, o, now) /\ row' = ClaimFinished(row, Failed)
    \/ CanConfirmStartingClaim(row, o, now) /\ row' = StartConfirmed(row)

\* By whoever holds the effect.
EffectCall(o, c, now) ==
    \/ /\ CanFinishEffect(row, row.state, o, c, "workspace_close", row.intent, now)
       /\ row' = EffectFinished(row, row.intent)
    \/ \E out \in VerifierOuts :
          /\ CanFinishEffect(row, "verifying", o, c, "verifier", out, now)
          /\ row' = EffectFinished(row, out)

\* By whoever finds a claim lapsed.
LapsedCall(now) ==
    \/ CanConfirmExpiredCommandStart(row, now) /\ row' = StartConfirmed(row)
    \/ CanRecoverProvisioningWorkspace(row, now) /\ row' = WorkspaceRecovered(row)
    \/ CanInterruptExpiredProvisioning(row, now) /\ row' = ClaimFinished(row, Interrupted)
    \/ CanInterruptRecovered(row, now) /\ row' = ClaimFinished(row, Interrupted)
    \/ /\ CanFinishExpiredVerifier(row, now)
       /\ \E out \in VerifierOuts \cup {Interrupted} : row' = ExpiredVerifierFinished(row, out)

\* By whoever takes a claim.
ClaimingCall(o, c, now) ==
    \/ CanDecideAdmission(row) /\ row' = Admitted(row, o, ProvisioningLease)
    \/ CanDecideAdmission(row) /\ \E s \in {"blocked", "failed"} : row' = AdmissionFinished(row, s)
    \/ /\ row.state \in Active /\ CanClaimWorkspaceClose(row, row.state, now)
       /\ \E out \in CloseOuts : row' = WorkspaceCloseClaimed(row, o, c, now + CloseLease, out)
    \/ /\ CanClaimLateCleanup(row, o, now)
       /\ row' = LateCleanupClaimed(row, o, c, now + CloseLease, Interrupted, TRUE)
    \/ /\ row.state \in Active \cup Terminal /\ CanReclaimEffect(row, row.state, now)
       /\ row' = Reclaimed(row, o, c, now + CloseLease)
    \/ CanClaimVerifier(row) /\ row' = VerifierClaimed(row, o, c, VerifierLease)

\* By anybody at any time; and the clock.
OpenCall ==
    \/ row' = EventRecorded(row)
    \/ CanTransition(row, "running") /\ row' = Transitioned(row, "settled")
    \/ CanFinish(row, "accepted") /\ row' = Finished(row, Cancelled)
    \/ CanFinish(row, "running") /\ row' = Finished(row, Failed)
    \/ CanFinish(row, "settled") /\ row' \in {Finished(row, Failed), Finished(row, Succeeded)}
    \/ /\ CanSetReceipt(row, "model_attestation", Attestation)
       /\ row' = ReceiptSet(row, "model_attestation", Attestation)
    \/ row' = RowAged(row)

StoreCall ==
    \/ OpenCall
    \/ th["exec"].pc \in HoldingPcs /\ \E now \in Fresh("exec") : ExecutorCall(now)
    \/ \E o \in Owners, c \in Claims, now \in -CommitDelay .. 0 : EffectCall(o, c, now)
    \/ \E now \in Samples : LapsedCall(now)
    \/ \E o \in Owners, c \in Claims, now \in Samples : ClaimingCall(o, c, now)

-----------------------------------------------------------------------------
(* Every call is a step of RunStore.                                       *)

\* The instance's names of the instants are ours.
LEMMA SameInstants ==
    /\ Store!Samples = Samples /\ Store!Past = Past
    /\ Store!FreshSamples = -CommitDelay .. 0
BY DEF Store!Samples, Store!Past, Samples, Past, Store!FreshSamples

\* The instance's SET clauses that end a run, or a claim, are ours.
LEMMA SameEnds ==
    ASSUME NEW r, NEW out
    PROVE  /\ Store!Terminalized(r, out) = Terminalized(r, out)
           /\ Store!ClaimFinished(r, out) = ClaimFinished(r, out)
           /\ Store!Finished(r, out) = Finished(r, out)
           /\ Store!EffectFinished(r, out) = EffectFinished(r, out)
           /\ Store!ExpiredVerifierFinished(r, out) = ExpiredVerifierFinished(r, out)
           /\ Store!StartConfirmed(r) = StartConfirmed(r)
<1>1. Store!Terminalized(r, out) = Terminalized(r, out)
  BY DEF Store!Terminalized, Terminalized, Store!TerminalLane, TerminalLane, Store!Outcome, Outcome
<1>2. ASSUME NEW s PROVE Store!ClaimCleared(s) = ClaimCleared(s) /\ Store!EffectCleared(s) = EffectCleared(s)
  BY SameInstants DEF Store!ClaimCleared, ClaimCleared, Store!EffectCleared, EffectCleared
<1> QED
  BY <1>1, <1>2
  DEF Store!ClaimFinished, ClaimFinished, Store!Finished, Finished, Store!EffectFinished, EffectFinished,
      Store!ExpiredVerifierFinished, ExpiredVerifierFinished, Store!StartConfirmed, StartConfirmed,
      Store!Terminal, Terminal

\* And so are the outcomes.
LEMMA SameOutcomes ==
    /\ Store!Outcome("failed", "unverified") = Failed
    /\ Store!Interrupted = Interrupted
    /\ CloseOuts \subseteq Store!CloseOutcomes
    /\ VerifierOuts \subseteq Store!VerifierOutcomes
BY DEF Store!Outcome, Outcome, Failed, Store!Interrupted, Interrupted, CloseOuts, Store!CloseOutcomes,
       VerifierOuts, Store!VerifierOutcomes, Passed, VerifierFailed, Timed_out, Cancelled

\* A live call is a step at any time since it was decided on.
LEMMA LiveSteps ==
    ASSUME NEW o \in Owners, NEW c \in Claims, NEW now \in -CommitDelay .. 0,
           \/ Store!ClaimHolderStep("run", o, now)
           \/ Store!FinishWorkspaceClose("run", o, c, now) \/ Store!FinishVerifier("run", o, c, now)
    PROVE  Store!Next
<1>1. Store!LiveStep("run", now)
  BY DEF Store!LiveStep
<1> QED
  BY <1>1, SameInstants DEF Store!Next

\* The executor's calls.
LEMMA ExecutorCallsStore ==
    ASSUME Types, th["exec"].pc # "idle", NEW now \in Fresh("exec"), ExecutorCall(now)
    PROVE  Store!Next
<1> DEFINE o == th["exec"].owner
<1>0. o \in Owners /\ now \in -CommitDelay .. 0 /\ now \in Int
  BY ThreadTyped, LifecycleAssumption, RowAssumption DEF Threads, Fresh
<1> USE DEF Store!Update, Store!OwnsLiveClaim, OwnsLiveClaim
<1>1. CASE CanRenewProvisioningClaim(row, o, now) /\ row' = Renewed(row, now + ProvisioningLease)
  <2>1. now + ProvisioningLease \in Store!Leases(now, ProvisioningLease)
    BY <1>0, LifecycleAssumption DEF Store!Leases
  <2>2. Store!RenewProvisioningClaim("run", o, now)
    BY <1>1, <2>1 DEF Store!RenewProvisioningClaim, Store!Renewed, Renewed,
                      Store!CanRenewProvisioningClaim, CanRenewProvisioningClaim
  <2> QED
    BY <1>0, <2>2, LiveSteps, TokensTyped DEF Store!ClaimHolderStep, Threads
<1>2. CASE CanSaveProvisioning(row, o, now) /\ row' \in {PlanSaved(row), PartialReceiptSaved(row, TRUE)}
  <2>1. CASE row' = PlanSaved(row)
    <3>1. Store!SaveProvisioningPlan("run", o, now)
      BY <1>2, <2>1 DEF Store!SaveProvisioningPlan, Store!PlanSaved, PlanSaved,
                        Store!CanSaveProvisioning, CanSaveProvisioning
    <3> QED
      BY <1>0, <3>1, LiveSteps, TokensTyped DEF Store!ClaimHolderStep, Threads
  <2>2. CASE row' = PartialReceiptSaved(row, TRUE)
    <3>1. Store!SavePartialProvisioningReceipt("run", o, now)
      BY <1>2, <2>2 DEF Store!SavePartialProvisioningReceipt, Store!PartialReceiptSaved,
                        PartialReceiptSaved, Store!CanSaveProvisioning, CanSaveProvisioning
    <3> QED
      BY <1>0, <3>1, LiveSteps, TokensTyped DEF Store!ClaimHolderStep, Threads
  <2> QED
    BY <1>2, <2>1, <2>2
<1>3. CASE CanSaveProvisioning(row, o, now) /\ row' = ReceiptSaved(row)
  <2>1. Store!SaveProvisioningReceipt("run", o, now)
    BY <1>3 DEF Store!SaveProvisioningReceipt, Store!ReceiptSaved, ReceiptSaved,
                Store!CanSaveProvisioning, CanSaveProvisioning
  <2> QED
    BY <1>0, <2>1, LiveSteps, TokensTyped DEF Store!ClaimHolderStep, Threads
<1>4. CASE CanFinishProvisioningClaim(row, o, now) /\ row' = ClaimFinished(row, Failed)
  <2>1. Store!FinishProvisioningClaim("run", o, now)
    BY <1>4, SameEnds, SameOutcomes DEF Store!FinishProvisioningClaim, Store!CanFinishProvisioningClaim,
                CanFinishProvisioningClaim
  <2> QED
    BY <1>0, <2>1, LiveSteps, TokensTyped DEF Store!ClaimHolderStep, Threads
<1>5. CASE CanFinishStartingClaim(row, o, now) /\ row' = ClaimFinished(row, Failed)
  <2>1. Store!FinishStartingClaim("run", o, now)
    BY <1>5, SameEnds, SameOutcomes DEF Store!FinishStartingClaim, Store!CanFinishStartingClaim,
                CanFinishStartingClaim
  <2> QED
    BY <1>0, <2>1, LiveSteps, TokensTyped DEF Store!ClaimHolderStep, Threads
<1>6. CASE CanConfirmStartingClaim(row, o, now) /\ row' = StartConfirmed(row)
  <2>1. Store!ConfirmStartingClaim("run", o, now)
    BY <1>6, SameEnds, SameOutcomes DEF Store!ConfirmStartingClaim, Store!CanConfirmStartingClaim,
                CanConfirmStartingClaim, Store!EffectUnowned, EffectUnowned
  <2> QED
    BY <1>0, <2>1, LiveSteps, TokensTyped DEF Store!ClaimHolderStep, Threads
<1> QED
  BY <1>1, <1>2, <1>3, <1>4, <1>5, <1>6 DEF ExecutorCall

\* The ends of effects, by their owner.
LEMMA EffectCallsStore ==
    ASSUME NEW o \in Owners, NEW c \in Claims, NEW now \in -CommitDelay .. 0, EffectCall(o, c, now)
    PROVE  Store!Next
<1> USE SameEnds, SameOutcomes
        DEF Store!Update, Store!CanFinishEffect, CanFinishEffect, Store!Terminal, Terminal
<1>1. CASE /\ CanFinishEffect(row, row.state, o, c, "workspace_close", row.intent, now)
           /\ row' = EffectFinished(row, row.intent)
  <2>1. Store!FinishWorkspaceClose("run", o, c, now)
    BY <1>1 DEF Store!FinishWorkspaceClose
  <2> QED
    BY <2>1, LiveSteps
<1>2. ASSUME NEW out \in VerifierOuts, CanFinishEffect(row, "verifying", o, c, "verifier", out, now),
             row' = EffectFinished(row, out)
      PROVE  Store!Next
  <2>1. Store!FinishVerifier("run", o, c, now)
    BY <1>2 DEF Store!FinishVerifier
  <2> QED
    BY <2>1, LiveSteps
<1> QED
  BY <1>1, <1>2 DEF EffectCall

\* A call that finds a claim lapsed may carry any sample.
LEMMA LapsedCallsStore ==
    ASSUME NEW now \in Samples, LapsedCall(now)
    PROVE  Store!Next
<1> USE SameEnds, SameOutcomes
        DEF Store!Update, Store!ClaimLapsed, ClaimLapsed, Store!EffectUnowned, EffectUnowned
<1>s. Store!LapsedStep("run", now) => Store!Next
  BY SameInstants DEF Store!Next
<1>1. CASE CanConfirmExpiredCommandStart(row, now) /\ row' = StartConfirmed(row)
  <2>1. Store!ConfirmExpiredCommandStart("run", now)
    BY <1>1 DEF Store!ConfirmExpiredCommandStart, Store!CanConfirmExpiredCommandStart,
                CanConfirmExpiredCommandStart
  <2> QED
    BY <1>s, <2>1 DEF Store!LapsedStep
<1>2. CASE CanRecoverProvisioningWorkspace(row, now) /\ row' = WorkspaceRecovered(row)
  <2>1. Store!RecoverProvisioningWorkspace("run", now)
    BY <1>2 DEF Store!RecoverProvisioningWorkspace, Store!CanRecoverProvisioningWorkspace,
                CanRecoverProvisioningWorkspace, Store!WorkspaceRecovered, WorkspaceRecovered
  <2> QED
    BY <1>s, <2>1 DEF Store!LapsedStep
<1>3. CASE CanInterruptExpiredProvisioning(row, now) /\ row' = ClaimFinished(row, Interrupted)
  <2>1. Store!InterruptExpiredProvisioning("run", now)
    BY <1>3 DEF Store!InterruptExpiredProvisioning, Store!CanInterruptExpiredProvisioning,
                CanInterruptExpiredProvisioning
  <2> QED
    BY <1>s, <2>1 DEF Store!LapsedStep
<1>4. CASE CanInterruptRecovered(row, now) /\ row' = ClaimFinished(row, Interrupted)
  <2>1. Store!InterruptRecoveredProvisioning("run", now)
    BY <1>4 DEF Store!InterruptRecoveredProvisioning, Store!CanInterruptRecovered, CanInterruptRecovered,
                Store!EffectBlank, EffectBlank
  <2> QED
    BY <1>s, <2>1 DEF Store!LapsedStep
<1>5. ASSUME CanFinishExpiredVerifier(row, now), NEW out \in VerifierOuts \cup {Interrupted},
             row' = ExpiredVerifierFinished(row, out)
      PROVE  Store!Next
  <2>1. Store!FinishExpiredVerifier("run", now)
    BY <1>5 DEF Store!FinishExpiredVerifier, Store!CanFinishExpiredVerifier, CanFinishExpiredVerifier
  <2> QED
    BY <1>s, <2>1 DEF Store!LapsedStep
<1> QED
  BY <1>1, <1>2, <1>3, <1>4, <1>5 DEF LapsedCall

\* So may a call that takes a claim; its lease runs from the sample.
LEMMA ClaimingCallsStore ==
    ASSUME NEW o \in Owners, NEW c \in Claims, NEW now \in Samples, ClaimingCall(o, c, now)
    PROVE  Store!Next
<1> USE SameEnds, SameOutcomes
        DEF Store!Update, Store!ClaimLapsed, ClaimLapsed, Store!EffectBlank, EffectBlank
<1> DEFINE max == IF CloseLease > VerifierLease THEN CloseLease ELSE VerifierLease
<1>0. now \in Int /\ 0 \in Samples /\ Store!Samples = Samples
  BY RowAssumption, SameInstants DEF Samples, Past
<1>s. Store!LapsedStep("run", now) \/ Store!LapsedStep("run", 0) => Store!Next
  BY <1>0 DEF Store!Next
<1>l. /\ ProvisioningLease \in Store!Leases(0, ProvisioningLease)
      /\ VerifierLease \in Store!Leases(0, max) /\ now + CloseLease \in Store!Leases(now, max)
  BY <1>0, LifecycleAssumption DEF Store!Leases
<1> HIDE DEF max
<1>1. CASE CanDecideAdmission(row) /\ row' = Admitted(row, o, ProvisioningLease)
  <2>1. Store!DecideAdmission("run", o, 0)
    BY <1>l, <1>1 DEF Store!DecideAdmission, Store!CanDecideAdmission, CanDecideAdmission,
                      Store!Admitted, Admitted
  <2> QED
    BY <1>s, <2>1 DEF Store!LapsedStep
<1>2. ASSUME CanDecideAdmission(row), NEW s \in {"blocked", "failed"}, row' = AdmissionFinished(row, s)
      PROVE  Store!Next
  <2>1. Store!DecideAdmission("run", o, 0)
    BY <1>2 DEF Store!DecideAdmission, Store!CanDecideAdmission, CanDecideAdmission,
                Store!AdmissionFinished, AdmissionFinished, Store!Outcome, Outcome
  <2> QED
    BY <1>s, <2>1 DEF Store!LapsedStep
<1>3. ASSUME row.state \in Active, CanClaimWorkspaceClose(row, row.state, now), NEW out \in CloseOuts,
             row' = WorkspaceCloseClaimed(row, o, c, now + CloseLease, out)
      PROVE  Store!Next
  <2>1. \E from \in Store!Active : Store!CanClaimWorkspaceClose(row, from, now)
    BY <1>3 DEF Store!CanClaimWorkspaceClose, CanClaimWorkspaceClose, Store!Active, Active,
                Store!Nonterminal, Nonterminal
  <2>2. Store!WorkspaceCloseClaimed(row, o, c, now + CloseLease, out)
            = WorkspaceCloseClaimed(row, o, c, now + CloseLease, out)
    BY DEF Store!WorkspaceCloseClaimed, WorkspaceCloseClaimed, Store!EffectSet, EffectSet
  <2>3. Store!ClaimWorkspaceClose("run", o, c, now)
    BY <1>l, <1>3, <2>1, <2>2 DEF Store!ClaimWorkspaceClose, max
  <2> QED
    BY <1>s, <2>3 DEF Store!LapsedStep
<1>4. CASE /\ CanClaimLateCleanup(row, o, now)
           /\ row' = LateCleanupClaimed(row, o, c, now + CloseLease, Interrupted, TRUE)
  <2>1. Store!CanClaimLateCleanup(row, o, now)
    BY <1>4 DEF Store!CanClaimLateCleanup, CanClaimLateCleanup, Store!Terminal, Terminal
  <2>2. Store!LateCleanupClaimed(row, o, c, now + CloseLease, Interrupted, TRUE)
            = LateCleanupClaimed(row, o, c, now + CloseLease, Interrupted, TRUE)
    BY DEF Store!LateCleanupClaimed, LateCleanupClaimed, Store!EffectSet, EffectSet,
           Store!LateIntent, LateIntent, Store!Terminal, Terminal, Store!Outcome, Outcome
  <2>3. Store!ClaimLateProvisioningCleanup("run", o, c, now)
    BY <1>l, <1>4, <2>1, <2>2 DEF Store!ClaimLateProvisioningCleanup, max
  <2> QED
    BY <1>s, <2>3 DEF Store!LapsedStep
<1>5. CASE /\ row.state \in Active \cup Terminal /\ CanReclaimEffect(row, row.state, now)
           /\ row' = Reclaimed(row, o, c, now + CloseLease)
  <2>1. \E from \in Store!Active \cup Store!Terminal : Store!CanReclaimEffect(row, from, now)
    BY <1>5 DEF Store!CanReclaimEffect, CanReclaimEffect, Store!Active, Active,
                Store!Nonterminal, Nonterminal, Store!Terminal, Terminal
  <2>2. Store!ReclaimEffect("run", o, c, now)
    BY <1>l, <1>5, <2>1 DEF Store!ReclaimEffect, max, Store!Reclaimed, Reclaimed
  <2> QED
    BY <1>s, <2>2 DEF Store!LapsedStep
<1>6. CASE CanClaimVerifier(row) /\ row' = VerifierClaimed(row, o, c, VerifierLease)
  <2>1. Store!ClaimVerifier("run", o, c, 0)
    BY <1>l, <1>6 DEF Store!ClaimVerifier, max, Store!CanClaimVerifier, CanClaimVerifier,
                      Store!VerifierClaimed, VerifierClaimed, Store!EffectSet, EffectSet
  <2> QED
    BY <1>s, <2>1 DEF Store!LapsedStep
<1> QED
  BY <1>1, <1>2, <1>3, <1>4, <1>5, <1>6 DEF ClaimingCall

\* Evidence, the nonterminal path and the clock.
LEMMA OpenCallsStore == OpenCall => Store!Next
<1> SUFFICES ASSUME OpenCall PROVE Store!Next
  OBVIOUS
<1> USE SameEnds, SameOutcomes
        DEF Store!Update, Store!EffectUnowned, EffectUnowned
<1>s. Store!EvidenceStep("run") => Store!Next
  BY DEF Store!Next
<1>1. CASE row' = EventRecorded(row)
  <2>1. Store!RecordRunEvent("run")
    BY <1>1 DEF Store!RecordRunEvent, Store!EventRecorded, EventRecorded
  <2> QED
    BY <1>s, <2>1 DEF Store!EvidenceStep
<1>2. CASE CanTransition(row, "running") /\ row' = Transitioned(row, "settled")
  <2>1. Store!Transition("run")
    BY <1>2 DEF Store!Transition, Store!CanTransition, CanTransition, Store!Transitioned, Transitioned
  <2> QED
    BY <1>s, <2>1 DEF Store!EvidenceStep
<1>3. ASSUME NEW from \in {"accepted", "running", "settled"}, CanFinish(row, from),
             NEW out \in Store!FinishOutcomes(from), row' = Finished(row, out)
      PROVE  Store!Next
  <2>1. Store!Finish("run")
    BY <1>3 DEF Store!Finish, Store!CanFinish, CanFinish
  <2> QED
    BY <1>s, <2>1 DEF Store!EvidenceStep
<1>4. /\ Cancelled \in Store!FinishOutcomes("accepted") /\ Failed \in Store!FinishOutcomes("running")
      /\ Failed \in Store!FinishOutcomes("settled") /\ Succeeded \in Store!FinishOutcomes("settled")
  BY DEF Store!FinishOutcomes, Store!Outcome, Outcome, Cancelled, Failed, Succeeded
<1>5. CASE /\ CanSetReceipt(row, "model_attestation", Attestation)
           /\ row' = ReceiptSet(row, "model_attestation", Attestation)
  <2>1. Store!SetReceipt("run", "model_attestation", Attestation)
    BY <1>5 DEF Store!SetReceipt, Store!CanSetReceipt, CanSetReceipt, Store!ReceiptSet, ReceiptSet,
                Store!Terminal, Terminal
  <2>2. Attestation \in Receipts /\ "model_attestation" \in Store!ReceiptKinds
    BY LifecycleAssumption DEF Attestation, Store!ReceiptKinds
  <2> QED
    BY <1>s, <2>1, <2>2 DEF Store!EvidenceStep
<1>6. CASE row' = RowAged(row)
  BY <1>6, SameInstants DEF Store!Next, Store!Tick, Store!RowAged, RowAged, Store!Aged, Aged
<1> QED
  BY <1>1, <1>2, <1>3, <1>4, <1>5, <1>6 DEF OpenCall

\* The calls of the engine are calls of the store.
LEMMA CallsStore == Types /\ StoreCall => Store!Next
BY ExecutorCallsStore, EffectCallsStore, LapsedCallsStore, ClaimingCallsStore, OpenCallsStore
DEF StoreCall, HoldingPcs

-----------------------------------------------------------------------------
(* Every step makes one call, or leaves the row alone.                     *)

\* A run that has not ended is unread: nobody in these processes reads it.
Unread == row.state \in Nonterminal => row.unread

\* An event about an unread run says nothing new.
LEMMA PartialUnread ==
    ASSUME NEW r, r \in Rows, r.unread
    PROVE  EventRecorded(PartialReceiptSaved(r, TRUE)) = PartialReceiptSaved(r, TRUE)
BY DEF EventRecorded, PartialReceiptSaved, Rows

\* Engine.execute.
LEMMA ExecuteCalls ==
    ASSUME Types, Unread, Execute("exec")
    PROVE  UNCHANGED row \/ StoreCall
<1> DEFINE t == "exec"
<1>0. RowInv(row) /\ t \in Threads /\ t \in Claims
  BY TokensTyped DEF Types, Threads
<1>1. ASSUME th[t].pc \in HoldingPcs, NEW now \in Fresh(t), ExecutorCall(now) PROVE StoreCall
  BY <1>1 DEF StoreCall
<1>2. CASE Renew(t, "renewProbe", "probe") \/ Renew(t, "renewProvision", "savePlan")
           \/ Renew(t, "renewStart", "startCommand")
  BY <1>1, <1>2 DEF Renew, CAS, ExecutorCall, HoldingPcs
<1>3. CASE FailProvisioning(t) \/ FailStarting(t) \/ SavePlan(t) \/ SaveReceipt(t) \/ ConfirmStart(t)
  BY <1>1, <1>3
  DEF FailProvisioning, FailStarting, SavePlan, SaveReceipt, ConfirmStart, CAS, ExecutorCall, HoldingPcs
<1>4. CASE SavePartial(t)
  <2> SUFFICES ASSUME NEW now \in Fresh(t), CanSaveProvisioning(row, th[t].owner, now),
                      row' = EventRecorded(PartialReceiptSaved(row, TRUE))
               PROVE  StoreCall
    BY <1>4 DEF SavePartial, CAS
  <2>1. row \in Rows /\ row.unread
    BY <1>0 DEF RowInv, Unread, CanSaveProvisioning, Nonterminal
  <2>2. row' = PartialReceiptSaved(row, TRUE)
    BY <2>1, PartialUnread
  <2> QED
    BY <1>1, <1>4, <2>2 DEF SavePartial, ExecutorCall, HoldingPcs
<1>5. CASE ClaimLateCleanup(t)
  <2>1. th[t].owner \in Owners /\ th[t].now \in Samples
    BY <1>0, <1>5, ThreadTyped DEF ClaimLateCleanup
  <2> QED
    BY <1>0, <1>5, <2>1 DEF ClaimLateCleanup, CAS, ClaimingCall, StoreCall
<1>6. CASE Probe(t) \/ IssueProvision(t) \/ ProvisionReturns(t) \/ Stage(t) \/ IssueStart(t) \/ StartReturns(t)
  BY <1>6 DEF Probe, IssueProvision, ProvisionReturns, Stage, IssueStart, StartReturns, Evidence,
              OpenCall, StoreCall
<1> QED
  BY <1>2, <1>3, <1>4, <1>5, <1>6 DEF Execute

\* The time a thread samples for a commit.
LEMMA FreshRange == ASSUME NEW t PROVE Fresh(t) \subseteq -CommitDelay .. 0
BY DEF Fresh

\* Engine.monitorCommand, completeCommand and monitor.
LEMMA MonitorCalls ==
    ASSUME Types, ResultInv, NEW t \in Threads, Monitor(t)
    PROVE  UNCHANGED row \/ StoreCall
<1> USE DEF StoreCall
<1>0. t \in Claims /\ 0 \in Samples
  BY TokensTyped, IdleTyped
<1>1. CASE WaitCommand(t) \/ StartVerifier(t) \/ VerifierEnds(t)
  BY <1>1 DEF WaitCommand, StartVerifier, VerifierEnds
<1>2. CASE FailRun(t) \/ Succeed(t) \/ Settle(t) \/ Attest(t)
  BY <1>2, ThreadTyped DEF FailRun, Succeed, Settle, Attest, CAS, OpenCall, Fits
<1>3. CASE ClaimVerifier(t)
  <2>1. th[t].owner \in Owners
    BY <1>3, ThreadTyped DEF ClaimVerifier
  <2> QED
    BY <1>0, <1>3, <2>1 DEF ClaimVerifier, CAS, ClaimingCall
<1>4. CASE FinishVerifier(t)
  <2>1. th[t].owner \in Owners /\ th[t].out \in VerifierOuts
    BY <1>4, ThreadTyped DEF FinishVerifier, ResultInv, VerifyInv, VerifyLocal
  <2> QED
    BY <1>0, <1>4, <2>1, FreshRange DEF FinishVerifier, CAS, EffectCall
<1> QED
  BY <1>1, <1>2, <1>3, <1>4 DEF Monitor

\* The steps of a close.
LEMMA ClosingCalls ==
    ASSUME Types, CloseInv, NEW t \in Threads, Close(t)
    PROVE  UNCHANGED row \/ StoreCall
<1> USE DEF StoreCall
<1>0. t \in Claims /\ th[t].now \in Samples /\ (th[t].pc # "idle" => th[t].owner \in Owners)
  BY TokensTyped, ThreadTyped
<1>l. CloseLocal(th[t], row, ws)
  BY DEF CloseInv, CloseThreads
<1>1. CASE ClaimClose(t)
  BY <1>0, <1>l, <1>1 DEF ClaimClose, CAS, CloseLocal, ClaimingCall, CanClaimWorkspaceClose
<1>2. CASE FinishClose(t)
  <2>1. th[t].owner \in Owners /\ CloseOf(row, th[t].from, th[t].out)
    BY <1>0, <1>l, <1>2 DEF FinishClose, CloseLocal, ClosePcs
  <2> SUFFICES ASSUME NEW now \in Fresh(t),
                      CanFinishEffect(row, th[t].from, th[t].owner, t, "workspace_close", th[t].out, now),
                      row' = EffectFinished(row, th[t].out)
               PROVE  StoreCall
    BY <1>2 DEF FinishClose, CAS
  <2>2. row.state = th[t].from /\ row.intent = th[t].out
    BY <2>1 DEF CanFinishEffect, CloseOf
  <2> QED
    BY <1>0, <2>1, <2>2, FreshRange DEF EffectCall
<1>3. CASE ReclaimClose(t)
  <2>1. th[t].owner \in Owners /\ th[t].from \in Active \cup Terminal
    BY <1>0, <1>l, <1>3 DEF ReclaimClose, CloseLocal, ClosePcs, CloseOf
  <2> QED
    BY <1>0, <1>3, <2>1 DEF ReclaimClose, CAS, ClaimingCall, CanReclaimEffect
<1>4. CASE IssueClose(t) \/ CloseReturns(t) \/ CheckClosed(t) \/ ObserveClose(t)
  BY <1>4 DEF IssueClose, CloseReturns, CheckClosed, ObserveClose, Evidence, OpenCall
<1> QED
  BY <1>1, <1>2, <1>3, <1>4 DEF Close

\* Engine.Reconcile, Engine.Cancel and Engine.RecoverProvisioning.
LEMMA ReconcileCalls ==
    ASSUME Types, ResultInv, Reconcile \/ Operator
    PROVE  UNCHANGED row \/ StoreCall
<1> USE DEF StoreCall
<1>0. \A t \in {"daemon", "cli"} : t \in Threads /\ th[t].now \in Samples
  BY ThreadTyped DEF Threads
<1>1. CASE \/ ReadNonTerminalRuns \/ ReconcileRun \/ CommandResult \/ ReadMarker
           \/ Cancel \/ RecoverProvisioning \/ FindAbsent
  BY <1>1 DEF ReadNonTerminalRuns, ReconcileRun, StartMonitor, CommandResult, ReadMarker, Cancel,
              RecoverProvisioning, FindAbsent
<1>2. CASE FindWorkspace \/ CancelAccepted
  BY <1>2 DEF FindWorkspace, CancelAccepted, CAS, Evidence, OpenCall
<1>3. CASE RecoverWorkspace \/ InterruptProvisioning \/ InterruptRecovered
  BY <1>0, <1>3 DEF RecoverWorkspace, InterruptProvisioning, InterruptRecovered, CAS, LapsedCall
<1>4. CASE ConfirmExpiredStart
  BY <1>0, <1>4, FreshSample DEF ConfirmExpiredStart, CAS, LapsedCall
<1>5. CASE FinishExpiredVerifier
  <2>1. th["daemon"].out \in VerifierOuts \cup {Interrupted}
    BY <1>0, <1>5 DEF FinishExpiredVerifier, ResultInv, VerifyInv, VerifyLocal, VerifierOuts
  <2> QED
    BY <1>0, <1>5, <2>1 DEF FinishExpiredVerifier, CAS, LapsedCall
<1> QED
  BY <1>1, <1>2, <1>3, <1>4, <1>5 DEF Reconcile, Operator

\* Every step of the specification.
LEMMA NextCalls ==
    ASSUME Types, CloseInv, ResultInv, Unread, [Next]_vars
    PROVE  UNCHANGED row \/ StoreCall
<1>1. CASE Execute("exec")
  BY <1>1, ExecuteCalls
<1>2. CASE \E t \in {"exec", "mon", "daemon"} : Monitor(t)
  BY <1>2, MonitorCalls DEF Threads
<1>3. CASE \E t \in Threads : Close(t)
  BY <1>3, ClosingCalls
<1>4. CASE Reconcile \/ Operator
  BY <1>4, ReconcileCalls
<1>5. CASE DecideAdmission
  <2>1. daemon \in Owners /\ "attended" \in Owners /\ "exec" \in Claims /\ 0 \in Samples
    BY TokensTyped, IdleTyped DEF Types, Threads
  <2> QED
    BY <1>5, <2>1 DEF DecideAdmission, ClaimingCall, StoreCall
<1>6. CASE Herdr \/ ByHand \/ Crash \/ UNCHANGED vars
  BY <1>6 DEF Herdr, ServerProvisions, ServerStarts, ServerCloses, CommandExits, ByHand, ClosedByHand,
              RemovedByHand, Crash, CrashDaemon, CrashAttended, vars
<1>7. CASE Tick
  BY <1>7 DEF Tick, OpenCall, StoreCall
<1> QED
  BY <1>1, <1>2, <1>3, <1>4, <1>5, <1>6, <1>7 DEF Next

\* What a statement leaves of the unread mark: an open run keeps it.
KeepsUnread(r, n) == n.state \in Nonterminal => r.state \in Nonterminal /\ (r.unread => n.unread)

\* A statement that ends the run is done with it.
LEMMA EndsUnread ==
    ASSUME NEW r \in Rows, NEW out, out.state \in Terminal
    PROVE  /\ KeepsUnread(r, Terminalized(r, out)) /\ KeepsUnread(r, ClaimFinished(r, out))
           /\ KeepsUnread(r, Finished(r, out)) /\ KeepsUnread(r, EffectFinished(r, out))
           /\ KeepsUnread(r, ExpiredVerifierFinished(r, out))
<1> DEFINE n == Terminalized(r, out)
<1>1. n.state \in Terminal /\ DOMAIN n = DOMAIN r
  BY DEF Terminalized, Rows
<1>2. Terminal \cap Nonterminal = {}
  BY DEF Terminal, Nonterminal
<1>3. DOMAIN r = DOMAIN NewRow(Policy)
  BY DEF Rows, NewRow
<1> HIDE DEF n
<1>4. ASSUME NEW m, DOMAIN m = DOMAIN r, m.state \in Terminal
      PROVE  /\ ClaimCleared(m).state \in Terminal /\ EffectCleared(m).state \in Terminal
             /\ DOMAIN EffectCleared(m) = DOMAIN r
             /\ [EffectCleared(m) EXCEPT !.lane = "mandatory", !.unread = TRUE].state \in Terminal
  BY <1>3, <1>4 DEF ClaimCleared, EffectCleared, NewRow
<1>5. r.state \in Terminal => ClaimCleared(EffectCleared(r)).state \in Terminal
  BY <1>4
<1>6. /\ ClaimCleared(n).state \in Terminal /\ ClaimCleared(EffectCleared(n)).state \in Terminal
      /\ ExpiredVerifierFinished(r, out).state \in Terminal
  BY <1>1, <1>4 DEF ExpiredVerifierFinished, n
<1> QED
  BY <1>1, <1>2, <1>5, <1>6
  DEF KeepsUnread, ClaimFinished, Finished, EffectFinished, n

\* The other statements leave the mark, or set it.
LEMMA StaysUnread ==
    ASSUME NEW r \in Rows
    PROVE  /\ KeepsUnread(r, PlanSaved(r)) /\ KeepsUnread(r, PartialReceiptSaved(r, TRUE))
           /\ KeepsUnread(r, WorkspaceRecovered(r)) /\ KeepsUnread(r, EventRecorded(r))
           /\ KeepsUnread(r, RowAged(r))
           /\ KeepsUnread(r, ReceiptSet(r, "model_attestation", Attestation))
           /\ \A until : KeepsUnread(r, Renewed(r, until))
           /\ \A o, c, until : KeepsUnread(r, Reclaimed(r, o, c, until))
           /\ \A o, c, until, out : KeepsUnread(r, WorkspaceCloseClaimed(r, o, c, until, out))
           /\ \A o, c, until, out : KeepsUnread(r, LateCleanupClaimed(r, o, c, until, out, TRUE))
<1> USE DEF KeepsUnread, Rows
<1>1. /\ KeepsUnread(r, PlanSaved(r)) /\ KeepsUnread(r, PartialReceiptSaved(r, TRUE))
      /\ KeepsUnread(r, WorkspaceRecovered(r)) /\ KeepsUnread(r, EventRecorded(r))
  BY DEF PlanSaved, PartialReceiptSaved, WorkspaceRecovered, EventRecorded
<1>2. KeepsUnread(r, RowAged(r)) /\ KeepsUnread(r, ReceiptSet(r, "model_attestation", Attestation))
  BY DEF RowAged, ReceiptSet
<1>3. ASSUME NEW o, NEW c, NEW until, NEW out
      PROVE  /\ KeepsUnread(r, Renewed(r, until)) /\ KeepsUnread(r, Reclaimed(r, o, c, until))
             /\ KeepsUnread(r, WorkspaceCloseClaimed(r, o, c, until, out))
             /\ KeepsUnread(r, LateCleanupClaimed(r, o, c, until, out, TRUE))
  BY DEF Renewed, Reclaimed, WorkspaceCloseClaimed, LateCleanupClaimed, EffectSet
<1> QED
  BY <1>1, <1>2, <1>3

\* And so do those that move the run on.
LEMMA MovesUnread ==
    ASSUME NEW r \in Rows, r.state \in Nonterminal
    PROVE  /\ KeepsUnread(r, ReceiptSaved(r)) /\ KeepsUnread(r, StartConfirmed(r))
           /\ KeepsUnread(r, Transitioned(r, "settled"))
           /\ \A o, until : KeepsUnread(r, Admitted(r, o, until))
           /\ \A o, c, until : KeepsUnread(r, VerifierClaimed(r, o, c, until))
BY DEF KeepsUnread, Rows, ReceiptSaved, StartConfirmed, ClaimCleared, Transitioned, Admitted,
       VerifierClaimed, EffectSet

\* No call of the engine marks an open run read.
LEMMA CallsKeepUnread ==
    ASSUME Types, Unread, StoreCall
    PROVE  Unread'
<1>0. row \in Rows
  BY DEF Types, RowInv
<1>1. {Failed, Succeeded, Cancelled, Interrupted} \cup VerifierOuts
          \subseteq {x \in Outcomes : x.state \in Terminal}
  BY DEF Failed, Succeeded, Cancelled, Interrupted, VerifierOuts, Passed, VerifierFailed, Outcome,
         Outcomes, Verdicts, Terminal
<1> SUFFICES KeepsUnread(row, row')
  BY DEF Unread, KeepsUnread
<1>2. CASE OpenCall
  BY <1>0, <1>1, <1>2, EndsUnread, StaysUnread, MovesUnread DEF OpenCall, CanTransition, Nonterminal
<1>3. ASSUME NEW now \in Fresh("exec"), ExecutorCall(now) PROVE KeepsUnread(row, row')
  BY <1>0, <1>1, <1>3, EndsUnread, StaysUnread, MovesUnread
  DEF ExecutorCall, CanSaveProvisioning, CanConfirmStartingClaim, Nonterminal
<1>4. ASSUME NEW o \in Owners, NEW c \in Claims, NEW now \in -CommitDelay .. 0, EffectCall(o, c, now)
      PROVE  KeepsUnread(row, row')
  <2>1. CASE /\ CanFinishEffect(row, row.state, o, c, "workspace_close", row.intent, now)
             /\ row' = EffectFinished(row, row.intent)
    <3>1. row.ekind = "workspace_close" /\ row.intent \in Outcomes
      BY <1>0, <2>1 DEF CanFinishEffect, Types, RowInv, EffectColumnsAgree, Rows
    <3> QED
      BY <1>0, <2>1, <3>1, EndsUnread DEF Outcomes
  <2> QED
    BY <1>0, <1>1, <1>4, <2>1, EndsUnread DEF EffectCall
<1>5. ASSUME NEW now \in Samples, LapsedCall(now) PROVE KeepsUnread(row, row')
  BY <1>0, <1>1, <1>5, EndsUnread, StaysUnread, MovesUnread
  DEF LapsedCall, CanConfirmExpiredCommandStart, Nonterminal
<1>6. ASSUME NEW o \in Owners, NEW c \in Claims, NEW now \in Samples, ClaimingCall(o, c, now)
      PROVE  KeepsUnread(row, row')
  <2>1. ASSUME NEW s \in {"blocked", "failed"} PROVE KeepsUnread(row, AdmissionFinished(row, s))
    BY <1>0, EndsUnread DEF AdmissionFinished, Outcome, Terminal
  <2> QED
    BY <1>0, <1>6, <2>1, StaysUnread, MovesUnread
    DEF ClaimingCall, CanDecideAdmission, CanClaimVerifier, Nonterminal
<1> QED
  BY <1>2, <1>3, <1>4, <1>5, <1>6 DEF StoreCall

-----------------------------------------------------------------------------
(* The refinement.                                                         *)

\* A new run is a row the table may start with.
LEMMA InitStore == Init => Store!Init /\ Unread
<1> SUFFICES ASSUME Init PROVE Store!Init /\ Unread
  OBVIOUS
<1>1. row = NewRow(Policy) /\ Policy \in {"mandatory", "auto", "sample"}
  BY LifecycleAssumption DEF Init
<1>2. LegacyRow("accepted", Policy, FALSE, FALSE) = row
  <2>1. row \in Rows
    BY InitTypes DEF Types, RowInv
  <2>2. row.state = "accepted" /\ ~row.branch /\ ~row.workspace /\ ~row.pane
    BY <1>1 DEF NewRow
  <2>3. [row EXCEPT !.state = "accepted", !.branch = FALSE, !.workspace = FALSE, !.pane = FALSE] = row
    BY <2>1, <2>2 DEF Rows
  <2> QED
    BY <1>1, <2>3 DEF LegacyRow
<1>3. Store!LegacyRow("accepted", Policy, FALSE, FALSE) = LegacyRow("accepted", Policy, FALSE, FALSE)
  BY SameInstants DEF Store!LegacyRow, LegacyRow, Store!NewRow, NewRow, Store!ReceiptKinds, ReceiptKinds
<1>4. row \in Store!LegacyRows
  <2> DEFINE s == "accepted"
  <2>1. s \in Store!Nonterminal /\ s \in {"accepted", "provisioning"}
    BY DEF Store!Nonterminal
  <2>2. (s # "accepted") = FALSE /\ (s \notin {"accepted", "provisioning"}) = FALSE
    OBVIOUS
  <2>3. row = Store!LegacyRow(s, Policy, s # "accepted", s \notin {"accepted", "provisioning"})
    BY <1>2, <1>3, <2>2
  <2> QED
    BY <1>1, <2>1, <2>3 DEF Store!LegacyRows
<1> QED
  BY <1>1, <1>4 DEF Store!Init, Unread, NewRow

\* StoreSpec: whatever the processes, Herdr, the operator and the clock do,
\* the engine makes calls of the store with claims, times and outcomes that
\* RunStore allows, so that all that holds of the table holds of its run.
THEOREM LifecycleImplementsStore == Spec => StoreSpec
<1>1. Types /\ CloseInv /\ ResultInv /\ Unread /\ [Next]_vars => [Store!Next]_(Store!vars)
  BY NextCalls, CallsStore DEF Store!vars
<1>2. Types /\ CloseInv /\ ResultInv /\ Unread /\ [Next]_vars => Unread'
  BY NextCalls, CallsKeepUnread DEF Unread
<1>3. Spec => [](Types /\ CloseInv /\ ResultInv)
  BY ResultInvariant
<1> QED
  BY <1>1, <1>2, <1>3, InitStore, PTL DEF Spec, StoreSpec, Store!Spec

-----------------------------------------------------------------------------
(* What no step may do.                                                    *)

\* Every thread leaves Herdr's workspace and command to the calls it makes.
LEMMA ThreadsLeaveHerdr ==
    /\ DecideAdmission \/ Reconcile \/ Operator \/ Tick => UNCHANGED <<ws, cmd>>
    /\ \A t \in Threads : Execute(t) \/ Monitor(t) \/ Close(t) => UNCHANGED <<ws, cmd>>
<1>1. DecideAdmission \/ Tick => UNCHANGED <<ws, cmd>>
  BY DEF DecideAdmission, Tick, world
<1>2. Operator => UNCHANGED <<ws, cmd>>
  BY DEF Operator, Cancel, CancelAccepted, RecoverProvisioning, FindAbsent, InterruptRecovered, world
<1>3. Reconcile => UNCHANGED <<ws, cmd>>
  BY DEF Reconcile, ReadNonTerminalRuns, ReconcileRun, FindWorkspace, RecoverWorkspace,
         InterruptProvisioning, CommandResult, ConfirmExpiredStart, ReadMarker, FinishExpiredVerifier,
         world
<1>4. ASSUME NEW t \in Threads, Execute(t) PROVE UNCHANGED <<ws, cmd>>
  BY <1>4 DEF Execute, Renew, Probe, FailProvisioning, SavePlan, IssueProvision, ProvisionReturns,
              SaveReceipt, SavePartial, ClaimLateCleanup, Stage, FailStarting, IssueStart,
              StartReturns, ConfirmStart, world
<1>5. ASSUME NEW t \in Threads, Monitor(t) PROVE UNCHANGED <<ws, cmd>>
  BY <1>5 DEF Monitor, WaitCommand, FailRun, Attest, Settle, Succeed, ClaimVerifier, StartVerifier,
              VerifierEnds, FinishVerifier, world
<1>6. ASSUME NEW t \in Threads, Close(t) PROVE UNCHANGED <<ws, cmd>>
  BY <1>6 DEF Close, ClaimClose, IssueClose, CloseReturns, CheckClosed, FinishClose, ObserveClose,
              ReclaimClose, world
<1> QED
  BY <1>1, <1>2, <1>3, <1>4, <1>5, <1>6

\* The row and Herdr never change in one step, and the command starts only
\* when a call to start it is in the air.
LEMMA RowOrHerdr ==
    ASSUME [Next]_vars
    PROVE  /\ UNCHANGED row \/ UNCHANGED ws
           /\ cmd = "none" /\ cmd' = "running" => req["start"] > 0
<1>1. CASE \/ DecideAdmission \/ Execute("exec") \/ \E t \in {"exec", "mon", "daemon"} : Monitor(t)
           \/ \E t \in Threads : Close(t)
           \/ Reconcile \/ Operator \/ Tick
  BY <1>1, ThreadsLeaveHerdr DEF Threads
<1>2. CASE Herdr \/ ByHand \/ Crash \/ UNCHANGED vars
  BY <1>2 DEF Herdr, ServerProvisions, ServerStarts, ServerCloses, CommandExits, ByHand, ClosedByHand,
              RemovedByHand, Crash, CrashDaemon, CrashAttended, world, vars
<1> QED
  BY <1>1, <1>2 DEF Next

\* The run's claim, or an effect on it, keeps everybody from a fenced run but
\* who finishes the close with its intent.
FenceKept ==
    row'.state # row.state =>
        /\ row'.ekind = "none" /\ Outcome(row'.state, row'.verdict) = row.intent
        /\ row.intent \in Outcomes

\* What the calls may do to a run whose close is claimed.
LEMMA FencedCalls ==
    ASSUME Types, CloseInv, CommitDelay = 0, Fenced, row.ekind = "workspace_close", StoreCall
    PROVE  FenceKept
<1>0. /\ RowInv(row) /\ row.eowner # None /\ row.intent # None /\ Sound(row.intent)
      /\ row.state # "accepted" /\ "exec" \in Threads
  BY DEF Types, RowInv, EffectColumnsAgree, IntentSound, CloseInv, Placed, Threads
<1>1. CASE OpenCall
  <2>1. row' \in {EventRecorded(row), ReceiptSet(row, "model_attestation", Attestation), RowAged(row)}
    BY <1>0, <1>1 DEF OpenCall, CanTransition, CanFinish, EffectUnowned
  <2>2. Attestation \in Receipts
    BY LifecycleAssumption DEF Attestation
  <2> QED
    BY <1>0, <2>1, <2>2, EventColumns, AttestedColumns, AgedColumns DEF SameState, FenceKept
<1>2. ASSUME th["exec"].pc \in HoldingPcs, NEW now \in Fresh("exec"), ExecutorCall(now) PROVE FALSE
  <2>1. th["exec"].pc # "idle" /\ OwnsLiveClaim(row, th["exec"].owner, now)
    BY <1>2 DEF HoldingPcs, ExecutorCall, CanRenewProvisioningClaim, CanSaveProvisioning,
                CanFinishProvisioningClaim, CanFinishStartingClaim, CanConfirmStartingClaim
  <2> QED
    BY <1>0, <1>2, <2>1, HeldNow DEF Fenced
<1>3. ASSUME NEW o \in Owners, NEW c \in Claims, NEW now \in -CommitDelay .. 0, EffectCall(o, c, now)
      PROVE  FenceKept
  <2>1. row' = EffectFinished(row, row.intent)
    BY <1>3 DEF EffectCall, CanFinishEffect
  <2>2. Outcome(row.intent.state, row.intent.verdict) = row.intent
    BY <1>0 DEF Sound, Outcomes, Outcome
  <2> QED
    BY <1>0, <2>1, <2>2, EffectFinishedColumns DEF Cleared, SameState, Sound, FenceKept
<1>4. ASSUME NEW now \in Samples, LapsedCall(now) PROVE FALSE
  BY <1>0, <1>4
  DEF LapsedCall, CanConfirmExpiredCommandStart, CanRecoverProvisioningWorkspace,
      CanInterruptExpiredProvisioning, CanInterruptRecovered, CanFinishExpiredVerifier,
      EffectUnowned, EffectBlank
<1>5. ASSUME NEW o \in Owners, NEW c \in Claims, NEW now \in Samples, ClaimingCall(o, c, now)
      PROVE  FenceKept
  <2>1. row' = Reclaimed(row, o, c, now + CloseLease)
    BY <1>0, <1>5 DEF ClaimingCall, CanDecideAdmission, CanClaimWorkspaceClose, CanClaimLateCleanup,
                      CanClaimVerifier, EffectBlank
  <2>2. now + CloseLease \in Instants
    BY LifecycleAssumption, RowAssumption DEF Samples, Past, Instants
  <2> QED
    BY <1>0, <2>1, <2>2, ReclaimedColumns DEF SameState, FenceKept
<1> QED
  BY <1>1, <1>2, <1>3, <1>4, <1>5 DEF StoreCall

\* The step ends a provisioning run whose row names no workspace.
EndsAmbiguous == row.state = "provisioning" /\ ~row.workspace /\ row'.state \in Terminal

\* A step that leaves the state alone ends nothing, and neither does a call
\* for a later state.
LEMMA EndsNothing ==
    ASSUME RowInv(row), SameState(row, row') \/ row.state # "provisioning" PROVE ~EndsAmbiguous
BY DEF EndsAmbiguous, SameState, Terminal

\* The executor ends such a run only before it has called Provision.
LEMMA ExecuteEndsAmbiguous ==
    ASSUME Types, Execute("exec"), EndsAmbiguous
    PROVE  th["exec"].pc = "failProvisioning"
<1> DEFINE t == "exec"
<1>0. RowInv(row) /\ t \in Threads /\ "provisioning" \notin Terminal /\ "starting" \notin Terminal
  BY DEF Types, Threads, Terminal
<1>1. CASE Renew(t, "renewProbe", "probe") \/ Renew(t, "renewProvision", "savePlan")
           \/ Renew(t, "renewStart", "startCommand")
  <2>1. PICK now \in Fresh(t) : row' = Renewed(row, now + ProvisioningLease) \/ row' = row
    BY <1>1 DEF Renew, CAS
  <2>2. Renewed(row, now + ProvisioningLease).state = row.state
    BY <1>0 DEF Renewed, RowInv, Rows
  <2> QED
    BY <1>0, <2>1, <2>2 DEF EndsAmbiguous
<1>2. CASE SavePlan(t) \/ SavePartial(t) \/ SaveReceipt(t)
  <2>1. row' \in {row, PlanSaved(row), EventRecorded(PartialReceiptSaved(row, TRUE)), ReceiptSaved(row)}
    BY <1>2 DEF SavePlan, SavePartial, SaveReceipt, CAS
  <2>2. SameState(row, PlanSaved(row)) /\ SameState(row, EventRecorded(PartialReceiptSaved(row, TRUE)))
    BY <1>0, PlanSavedColumns, PartialColumns
  <2>3. ReceiptSaved(row).state = "starting"
    BY <1>0 DEF ReceiptSaved, RowInv, Rows
  <2> QED
    BY <1>0, <2>1, <2>2, <2>3 DEF EndsAmbiguous, SameState
<1>3. CASE ClaimLateCleanup(t)
  <2>1. ASSUME NEW until PROVE LateCleanupClaimed(row, th[t].owner, t, until, Interrupted, TRUE).state = row.state
    BY <1>0 DEF LateCleanupClaimed, EffectSet, RowInv, Rows
  <2> QED
    BY <1>0, <1>3, <2>1 DEF ClaimLateCleanup, CAS, EndsAmbiguous
<1>4. CASE FailStarting(t) \/ ConfirmStart(t)
  BY <1>0, <1>4 DEF FailStarting, ConfirmStart, CAS, CanFinishStartingClaim, CanConfirmStartingClaim,
     EndsAmbiguous
<1>5. CASE Probe(t) \/ IssueProvision(t) \/ ProvisionReturns(t) \/ Stage(t) \/ IssueStart(t) \/ StartReturns(t)
  <2>1. row' = row \/ row' = EventRecorded(row)
    BY <1>5 DEF Probe, IssueProvision, ProvisionReturns, Stage, IssueStart, StartReturns, Evidence
  <2> QED
    BY <1>0, <2>1, EventColumns DEF SameState, EndsAmbiguous
<1>6. CASE FailProvisioning(t)
  BY <1>6 DEF FailProvisioning
<1> QED
  BY <1>1, <1>2, <1>3, <1>4, <1>5, <1>6 DEF Execute

\* No monitor ends such a run, and no close.
LEMMA OthersEndNothing ==
    ASSUME Types, CloseInv, NEW t \in Threads, Monitor(t) \/ Close(t) PROVE ~EndsAmbiguous
<1>0. RowInv(row) /\ (row.state = "provisioning" /\ ~row.workspace => row.ekind # "workspace_close")
  BY DEF Types, CloseInv, Placed
<1>1. CASE WaitCommand(t) \/ StartVerifier(t) \/ VerifierEnds(t)
  BY <1>0, <1>1, EndsNothing DEF WaitCommand, StartVerifier, VerifierEnds, SameState
<1>2. CASE FailRun(t) \/ Succeed(t) \/ Settle(t)
  <2>1. row' = row \/ row.state # "provisioning"
    BY <1>2, ThreadTyped DEF FailRun, Succeed, Settle, CAS, CanFinish, CanTransition, Fits
  <2> QED
    BY <1>0, <2>1, EndsNothing DEF SameState
<1>3. CASE Attest(t)
  <2>1. Attestation \in Receipts
    BY LifecycleAssumption DEF Attestation
  <2>2. row' = row \/ row' = ReceiptSet(row, "model_attestation", Attestation)
    BY <1>3 DEF Attest, CAS
  <2> QED
    BY <1>0, <2>1, <2>2, AttestedColumns, EndsNothing DEF SameState
<1>4. CASE ClaimVerifier(t) \/ FinishVerifier(t)
  <2>1. row' = row \/ row.state # "provisioning"
    BY <1>4 DEF ClaimVerifier, FinishVerifier, CAS, CanClaimVerifier, CanFinishEffect
  <2> QED
    BY <1>0, <2>1, EndsNothing DEF SameState
<1>5. CASE ClaimClose(t)
  <2>1. ASSUME NEW until PROVE WorkspaceCloseClaimed(row, th[t].owner, t, until, th[t].out).state = row.state
    BY <1>0 DEF WorkspaceCloseClaimed, EffectSet, RowInv, Rows
  <2> QED
    BY <1>5, <2>1 DEF ClaimClose, CAS, EndsAmbiguous, Terminal
<1>6. CASE FinishClose(t)
  BY <1>0, <1>6 DEF FinishClose, CAS, CanFinishEffect, EndsAmbiguous, Terminal
<1>7. CASE ReclaimClose(t)
  BY <1>0, <1>7 DEF ReclaimClose, CAS, CanReclaimEffect, EndsAmbiguous, Terminal
<1>8. CASE IssueClose(t) \/ CloseReturns(t) \/ CheckClosed(t) \/ ObserveClose(t)
  <2>1. row' = row \/ row' = EventRecorded(row)
    BY <1>8 DEF IssueClose, CloseReturns, CheckClosed, ObserveClose, Evidence
  <2> QED
    BY <1>0, <2>1, EventColumns, EndsNothing DEF SameState
<1> QED
  BY <1>1, <1>2, <1>3, <1>4, <1>5, <1>6, <1>7, <1>8 DEF Monitor, Close

\* Reconcile ends it by InterruptProvisioning alone, and the operator after
\* an answered lookup.
LEMMA RecoveryEndsAmbiguous ==
    ASSUME Types, Reconcile \/ Operator, EndsAmbiguous
    PROVE  \/ InterruptProvisioning
           \/ th["cli"].pc = "cliRecover" /\ Unplaced(row, th["cli"].now)
<1>0. RowInv(row)
  BY DEF Types
<1>1. CASE \/ ReadNonTerminalRuns \/ ReconcileRun \/ CommandResult \/ ReadMarker
           \/ Cancel \/ RecoverProvisioning \/ FindAbsent
  <2>1. row' = row
    BY <1>1 DEF ReadNonTerminalRuns, ReconcileRun, StartMonitor, CommandResult, ReadMarker, Cancel,
                RecoverProvisioning, FindAbsent
  <2> QED
    BY <1>0, <2>1, EndsNothing DEF SameState
<1>2. CASE FindWorkspace \/ RecoverWorkspace
  <2>1. row' \in {row, EventRecorded(row), WorkspaceRecovered(row)}
    BY <1>2 DEF FindWorkspace, RecoverWorkspace, CAS, Evidence
  <2> QED
    BY <1>0, <2>1, EventColumns, RecoveredColumns, EndsNothing DEF SameState
<1>3. CASE ConfirmExpiredStart \/ FinishExpiredVerifier \/ CancelAccepted
  BY <1>3 DEF ConfirmExpiredStart, FinishExpiredVerifier, CancelAccepted, CAS, EndsAmbiguous, Terminal,
     CanConfirmExpiredCommandStart, CanFinishExpiredVerifier, CanFinish
<1>4. CASE InterruptRecovered
  BY <1>4 DEF InterruptRecovered, CAS, EndsAmbiguous, Terminal, CanInterruptRecovered, Unplaced, ClaimLapsed
<1>5. CASE InterruptProvisioning
  BY <1>5
<1> QED
  BY <1>1, <1>2, <1>3, <1>4, <1>5 DEF Reconcile, Operator

\* Everything that is known of a run at once; a late commit or a late pass
\* takes from it what ClockInv says it takes.
Known == Types /\ CloseInv /\ ResultInv /\ Unread /\ ClockInv
LEMMA KnownAlways == Spec => []Known
<1>1. Types /\ CloseInv /\ ResultInv /\ Unread /\ [Next]_vars => Unread'
  BY NextCalls, CallsKeepUnread DEF Unread
<1> QED
  BY <1>1, InitStore, ResultInvariant, ClockInvariant, PTL DEF Spec, Known

\* A step of an engine without late commits keeps the fence.
LEMMA StepsKeepFence ==
    ASSUME CommitDelay = 0, Known, [Next]_vars, row.ekind = "workspace_close"
    PROVE  FenceKept
BY NextCalls, FencedCalls DEF Known, ClockInv, FenceKept

\* CloseFencesRun of an engine whose commits use the time they are made at:
\* while executeWorkspaceClose holds its claim, nobody else moves the run, and
\* the close ends it with the outcome of its durable intent.
THEOREM ClosesFenceTheRun == ASSUME CommitDelay = 0 PROVE Spec => CloseFencesRun
<1>1. Known /\ [Next]_vars =>
          [row.ekind = "workspace_close" /\ row'.state # row.state =>
              row'.ekind = "none" /\ Outcome(row'.state, row'.verdict) = row.intent]_vars
  BY StepsKeepFence DEF FenceKept
<1> QED
  BY <1>1, KnownAlways, PTL DEF Spec, CloseFencesRun

\* StartOnlyWhileClaimed of such an engine: a call to start the command is
\* given up before its claim runs out (boundedProvisioningContext), so that a
\* run taken over never starts to work.
THEOREM CommandStartsClaimed == ASSUME CommitDelay = 0 PROVE Spec => StartOnlyWhileClaimed
<1>1. Known /\ [Next]_vars =>
          [cmd = "none" /\ cmd' = "running" =>
              row.state = "starting" /\ row.please > 0 /\ row.ekind = "none"]_vars
  BY RowOrHerdr DEF Known, ClockInv, StartBounded, Live
<1> QED
  BY <1>1, KnownAlways, PTL DEF Spec, StartOnlyWhileClaimed
\* However late the commits and the passes are: while a workspace is open that
\* the row does not name, nobody ends the run but a pass of Reconcile by
\* InterruptExpiredProvisioning.
OnlyPassesEndAmbiguousRuns ==
    [][EndsAmbiguous /\ ws = "open" => InterruptProvisioning]_vars

\* No executor whose Provision call went out, no monitor, no close, no cancel
\* and no `recover' ends a run with an ambiguous receipt, whatever is delayed:
\* the executor leaves the run to the lookup of its branch, and `recover'
\* decides with the time it has looked the branch up at.
THEOREM AmbiguousRunsLeftToPasses == Spec => OnlyPassesEndAmbiguousRuns
<1>1. Known /\ [Next]_vars => [EndsAmbiguous /\ ws = "open" => InterruptProvisioning]_vars
  <2> SUFFICES ASSUME Known, [Next]_vars, EndsAmbiguous, ws = "open"
               PROVE  InterruptProvisioning
    OBVIOUS
  <2>0. Types /\ CloseInv /\ BeforeCall /\ RecoverLooked /\ RowInv(row) /\ row' # row
    BY DEF Known, ClockInv, Types, EndsAmbiguous, Terminal
  <2>1. CASE Execute("exec")
    BY <2>0, <2>1, ExecuteEndsAmbiguous DEF BeforeCall, BeforePcs, Nothing
  <2>2. CASE (\E t \in {"exec", "mon", "daemon"} : Monitor(t)) \/ (\E t \in Threads : Close(t))
    BY <2>0, <2>2, OthersEndNothing DEF Threads
  <2>3. CASE Reconcile \/ Operator
    BY <2>0, <2>3, RecoveryEndsAmbiguous DEF RecoverLooked, Absent
  <2>4. CASE DecideAdmission
    BY <2>4 DEF DecideAdmission, CanDecideAdmission, EndsAmbiguous
  <2>5. CASE Herdr \/ ByHand \/ Crash \/ UNCHANGED vars
    BY <2>0, <2>5 DEF Herdr, ServerProvisions, ServerStarts, ServerCloses, CommandExits, ByHand,
       ClosedByHand, RemovedByHand, Crash, CrashDaemon, CrashAttended, vars
  <2>6. CASE Tick
    BY <2>0, <2>6, AgedColumns, EndsNothing DEF Tick
  <2> QED
    BY <2>1, <2>2, <2>3, <2>4, <2>5, <2>6 DEF Next
<1> QED
  BY <1>1, KnownAlways, PTL DEF Spec, OnlyPassesEndAmbiguousRuns
===============================================================================
