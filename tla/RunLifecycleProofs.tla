------------------------- MODULE RunLifecycleProofs -------------------------
(***************************************************************************)
(* The lifecycle of a run, for every job, every set of operator commands,  *)
(* every choice of crashes and every length of the leases.  The argument   *)
(* is one of rely and guarantee.  RowRely says what any step may do to the *)
(* row; a thread's assertion is stable under it, so the interleaving of    *)
(* the four threads needs no case of its own: each action has to respect   *)
(* RowRely and to establish the assertion of the program point its own     *)
(* thread goes to.                                                         *)
(***************************************************************************)
EXTENDS RunLifecycle, RunRowProofs

CloseOuts == {Timed_out, Cancelled, Interrupted}
VerifierOuts == {Passed, VerifierFailed, Failed}
\* How long a request can stay in the air.
Spans == 0 .. OperationLimit + VerifierLimit
JobShape == [verifier : BOOLEAN, attest : BOOLEAN]

\* Program points at which the thread's outcome is set.
OutPcs == {"claimClose", "closeCall", "closeWait", "exists", "closeFin", "recExists", "reclaim",
           "startVer", "runVer", "finVer", "find", "recWs", "result", "readMarker", "expVer"}
\* The state a thread has seen, and its outcome, fit its program point.
Fits(pc, from, out) ==
    /\ pc \in OutPcs => out # None
    /\ pc \in {"waitCommand", "failRun", "attest", "settle"} => from = "running"
    /\ pc \in {"succeed", "claimVer"} => from = "settled"
    /\ pc = "result" => from \in {"starting", "running"}
Typed(x) ==
    /\ x \in ThreadStates
    /\ x.pc # "idle" => x.owner \in Owners
    /\ x.out # None => Sound(x.out)
    /\ x.pc = "scan" => RowInv(x.snap)
    /\ Fits(x.pc, x.from, x.out)

\* Types, with the row well formed and every thread fit for its next step.
Types ==
    /\ RowInv(row) /\ job \in JobShape
    /\ ws \in {"none", "open", "closed", "removed"}
    /\ cmd \in {"none", "running", "done", "failed"}
    /\ marker \in {None, Passed, VerifierFailed}
    /\ req \in [Requests -> Spans]
    /\ th \in [Threads -> ThreadStates] /\ \A t \in Threads : Typed(th[t])
    /\ daemon \in {"d1", "d2"} /\ attended \in BOOLEAN
    /\ closes \in Nat

-----------------------------------------------------------------------------
(* The order of the states.                                                *)

Precedes(f, s) ==
    \/ f = "accepted" /\ s \in Active
    \/ f = "provisioning" /\ s \in {"starting", "running", "settled", "verifying"}
    \/ f = "starting" /\ s \in {"running", "settled", "verifying"}
    \/ f = "running" /\ s \in {"settled", "verifying"}
    \/ f = "settled" /\ s = "verifying"
    \/ f \in Nonterminal /\ s \in Terminal
Reached(f, s) == s = f \/ Precedes(f, s)

\* No state comes back.
LEMMA PrecedesStrict ==
    ASSUME NEW f, NEW s, Precedes(f, s) PROVE f # s /\ ~Precedes(s, f)
BY DEF Precedes, Active, Nonterminal, Terminal

\* What is reached from a reached state is reached.
LEMMA ReachedOn ==
    ASSUME NEW f, NEW s, NEW u, Reached(f, s), Reached(s, u) PROVE Reached(f, u)
BY DEF Reached, Precedes, Active, Nonterminal, Terminal

AttestedRow(r) == r.receipt["model_attestation"] = Attestation

-----------------------------------------------------------------------------
(* What each statement does to the columns the assertions read.            *)

SameState(r, n) == n.state = r.state /\ n.verdict = r.verdict
SameHold(r, n) == n.powner = r.powner /\ n.please = r.please
SamePlace(r, n) == n.workspace = r.workspace /\ n.branch = r.branch
SameEvidence(r, n) == n.receipt = r.receipt
Cleared(n) == n.ekind = "none" /\ n.intent = None /\ n.eowner = None /\ n.eclaim = None
CloseSet(n, o, c, out) ==
    n.ekind = "workspace_close" /\ n.intent = out /\ n.eowner = o /\ n.eclaim = c

\* RecordRunEvent touches the inbox only.
LEMMA EventColumns ==
    ASSUME NEW r, RowInv(r)
    PROVE  LET n == EventRecorded(r) IN
           RowInv(n) /\ SameState(r, n) /\ SameHold(r, n) /\ SamePlace(r, n)
           /\ SameEffect(r, n) /\ SameEvidence(r, n)
BY EventRecordedInv DEF RowInv, Rows, EventRecorded, SameState, SameHold, SamePlace, SameEffect,
   SameEvidence

\* DecideAdmission hands the run to its owner.
LEMMA AdmittedColumns ==
    ASSUME NEW r, RowInv(r), CanDecideAdmission(r), NEW o \in Owners, NEW until \in Instants
    PROVE  LET n == Admitted(r, o, until) IN
           RowInv(n) /\ n.state = "provisioning" /\ n.verdict = r.verdict
           /\ n.powner = o /\ n.please = until
           /\ SamePlace(r, n) /\ SameEffect(r, n) /\ SameEvidence(r, n)
<1>1. r \in Rows
  BY DEF RowInv
<1>2. LET n == Admitted(r, o, until) IN
      n.state = "provisioning" /\ n.verdict = r.verdict /\ n.powner = o /\ n.please = until
      /\ SamePlace(r, n) /\ SameEffect(r, n) /\ SameEvidence(r, n)
  BY <1>1 DEF Rows, Admitted, SamePlace, SameEffect, SameEvidence
<1> QED
  BY <1>2, AdmittedInv

\* RenewProvisioningClaim moves the lease.
LEMMA RenewedColumns ==
    ASSUME NEW r, RowInv(r), NEW until \in Instants
    PROVE  LET n == Renewed(r, until) IN
           RowInv(n) /\ SameState(r, n) /\ n.powner = r.powner /\ n.please = until
           /\ SamePlace(r, n) /\ SameEffect(r, n) /\ SameEvidence(r, n)
BY RenewedInv DEF RowInv, Rows, Renewed, SameState, SamePlace, SameEffect, SameEvidence

\* SaveProvisioningPlan records the branch.
LEMMA PlanSavedColumns ==
    ASSUME NEW r, RowInv(r)
    PROVE  LET n == PlanSaved(r) IN
           RowInv(n) /\ SameState(r, n) /\ SameHold(r, n)
           /\ n.workspace = r.workspace /\ n.branch /\ SameEffect(r, n) /\ SameEvidence(r, n)
BY PlanSavedInv DEF RowInv, Rows, PlanSaved, SameState, SameHold, SameEffect, SameEvidence

\* SavePartialProvisioningReceipt and the event after it.
LEMMA PartialColumns ==
    ASSUME NEW r, RowInv(r)
    PROVE  LET n == EventRecorded(PartialReceiptSaved(r, TRUE)) IN
           RowInv(n) /\ SameState(r, n) /\ SameHold(r, n)
           /\ n.workspace /\ n.branch /\ SameEffect(r, n) /\ SameEvidence(r, n)
<1> DEFINE m == PartialReceiptSaved(r, TRUE)
<1>0. r \in Rows /\ RowInv(m)
  BY PartialReceiptSavedInv DEF RowInv
<1>1. /\ SameState(r, m) /\ SameHold(r, m) /\ m.workspace /\ m.branch
      /\ SameEffect(r, m) /\ SameEvidence(r, m)
  BY <1>0 DEF Rows, PartialReceiptSaved, SameState, SameHold, SameEffect, SameEvidence
<1> HIDE DEF m
<1>2. LET n == EventRecorded(m) IN
      RowInv(n) /\ SameState(m, n) /\ SameHold(m, n) /\ SamePlace(m, n)
      /\ SameEffect(m, n) /\ SameEvidence(m, n)
  BY <1>0, EventColumns
<1> QED
  BY <1>1, <1>2 DEF m, SameState, SameHold, SamePlace, SameEffect, SameEvidence

\* SaveProvisioningReceipt moves the run to starting.
LEMMA ReceiptSavedColumns ==
    ASSUME NEW r, RowInv(r), r.state = "provisioning"
    PROVE  LET n == ReceiptSaved(r) IN
           RowInv(n) /\ n.state = "starting" /\ n.verdict = r.verdict /\ SameHold(r, n)
           /\ n.workspace /\ n.branch /\ SameEffect(r, n) /\ SameEvidence(r, n)
BY ReceiptSavedInv DEF RowInv, Rows, ReceiptSaved, SameHold, SameEffect, SameEvidence

\* RecoverProvisioningWorkspace adopts the workspace found.
LEMMA RecoveredColumns ==
    ASSUME NEW r, RowInv(r)
    PROVE  LET n == WorkspaceRecovered(r) IN
           RowInv(n) /\ SameState(r, n) /\ SameHold(r, n)
           /\ n.workspace /\ n.branch = r.branch /\ SameEffect(r, n) /\ SameEvidence(r, n)
BY WorkspaceRecoveredInv DEF RowInv, Rows, WorkspaceRecovered, SameState, SameHold, SameEffect,
   SameEvidence

\* Transition settles the run.
LEMMA SettledColumns ==
    ASSUME NEW r, RowInv(r), r.state = "running"
    PROVE  LET n == Transitioned(r, "settled") IN
           RowInv(n) /\ n.state = "settled" /\ n.verdict = r.verdict /\ SameHold(r, n)
           /\ SamePlace(r, n) /\ SameEffect(r, n) /\ SameEvidence(r, n)
BY SettledInv DEF RowInv, Rows, Transitioned, SameHold, SamePlace, SameEffect, SameEvidence

\* Start confirmation gives the claim up.
LEMMA ConfirmedColumns ==
    ASSUME NEW r, RowInv(r), r.state = "starting", r.eowner = None
    PROVE  LET n == StartConfirmed(r) IN
           RowInv(n) /\ n.state = "running" /\ n.verdict = r.verdict /\ n.powner = None
           /\ SamePlace(r, n) /\ SameEffect(r, n) /\ SameEvidence(r, n)
<1> DEFINE m == [r EXCEPT !.state = "running"]
<1>1. /\ m \in Rows /\ m.state = "running" /\ m.verdict = r.verdict /\ SamePlace(r, m)
      /\ SameEffect(r, m) /\ SameEvidence(r, m)
  BY DEF RowInv, Rows, Nonterminal, SamePlace, SameEffect, SameEvidence
<1> HIDE DEF m
<1>2. LET n == ClaimCleared(m) IN
      /\ SameState(m, n) /\ n.powner = None /\ SamePlace(m, n) /\ SameEffect(m, n)
      /\ SameEvidence(m, n)
  BY <1>1 DEF Rows, ClaimCleared, SameState, SamePlace, SameEffect, SameEvidence
<1>3. StartConfirmed(r) = ClaimCleared(m)
  BY DEF StartConfirmed, m
<1> QED
  BY <1>1, <1>2, <1>3, StartConfirmedInv DEF SameState, SamePlace, SameEffect, SameEvidence

\* Filing a run leaves claim, effect, workspace and evidence alone.
LEMMA FiledPlace ==
    ASSUME NEW r \in Rows, NEW o \in Outcomes
    PROVE  LET n == Terminalized(r, o) IN
           /\ n \in Rows /\ n.state = o.state /\ n.verdict = o.verdict /\ SameHold(r, n)
           /\ SamePlace(r, n) /\ SameEffect(r, n) /\ SameEvidence(r, n)
<1> DEFINE l == TerminalLane(r.policy, o)
<1> DEFINE b == l # "auto"
<1>1. Terminalized(r, o) = Filed(r, o.state, o.verdict, l, b)
  BY DEF Terminalized, Filed
<1> HIDE DEF l, b
<1>2. LET n == Filed(r, o.state, o.verdict, l, b) IN
      SameHold(r, n) /\ SamePlace(r, n)
  BY DEF Rows, Filed, SameHold, SamePlace
<1> QED
  BY <1>1, <1>2, TerminalizedColumns DEF SameEvidence

\* Clearing the claim or the effect leaves the rest alone.
LEMMA ClearingPlace ==
    ASSUME NEW r \in Rows
    PROVE  /\ LET n == ClaimCleared(r) IN
              /\ n \in Rows /\ SameState(r, n) /\ n.powner = None
              /\ SamePlace(r, n) /\ SameEffect(r, n) /\ SameEvidence(r, n)
           /\ LET n == EffectCleared(r) IN
              /\ n \in Rows /\ SameState(r, n) /\ SameHold(r, n) /\ Cleared(n)
              /\ SamePlace(r, n) /\ SameEvidence(r, n)
<1>1. ClaimCleared(r) \in Rows /\ EffectCleared(r) \in Rows
  BY ClaimClearedColumns, EffectClearedColumns
<1> QED
  BY <1>1 DEF Rows, ClaimCleared, EffectCleared, SameState, SameHold, SamePlace, SameEffect,
     SameEvidence, Cleared

\* AdmissionFinished ends an accepted run.
LEMMA AdmissionFinishedColumns ==
    ASSUME NEW r, RowInv(r), CanDecideAdmission(r), NEW s \in {"blocked", "failed"}
    PROVE  LET n == AdmissionFinished(r, s) IN
           RowInv(n) /\ n.state = s /\ n.verdict = "unverified" /\ SameHold(r, n)
           /\ SamePlace(r, n) /\ SameEffect(r, n) /\ SameEvidence(r, n)
<1>1. Outcome(s, "unverified") \in Outcomes
  BY DEF Outcome, Outcomes, Terminal, Verdicts
<1> QED
  BY <1>1, FiledPlace, AdmissionFinishedInv DEF RowInv, AdmissionFinished, Outcome

\* Ending a provisioning claim ends the run and leaves an effect in place.
LEMMA ClaimFinishedColumns ==
    ASSUME NEW r, RowInv(r), r.state \in {"provisioning", "starting"}, NEW o, Sound(o)
    PROVE  LET n == ClaimFinished(r, o) IN
           RowInv(n) /\ n.state = o.state /\ n.verdict = o.verdict /\ n.powner = None
           /\ SamePlace(r, n) /\ SameEffect(r, n) /\ SameEvidence(r, n)
<1> DEFINE m == Terminalized(r, o)
<1>1. /\ m \in Rows /\ m.state = o.state /\ m.verdict = o.verdict
      /\ SamePlace(r, m) /\ SameEffect(r, m) /\ SameEvidence(r, m)
  BY FiledPlace DEF RowInv, Sound
<1> HIDE DEF m
<1>2. LET n == ClaimCleared(m) IN
      /\ SameState(m, n) /\ n.powner = None /\ SamePlace(m, n) /\ SameEffect(m, n)
      /\ SameEvidence(m, n)
  BY <1>1, ClearingPlace
<1>3. ClaimFinished(r, o) = ClaimCleared(m)
  BY DEF ClaimFinished, m
<1> QED
  BY <1>1, <1>2, <1>3, ClaimFinishedInv DEF SameState, SamePlace, SameEffect, SameEvidence

\* Finish ends the run and every claim on it.
LEMMA FinishedColumns ==
    ASSUME NEW r, RowInv(r), NEW o, Sound(o)
    PROVE  LET n == Finished(r, o) IN
           RowInv(n) /\ n.state = o.state /\ n.verdict = o.verdict /\ n.powner = None
           /\ SamePlace(r, n) /\ Cleared(n) /\ SameEvidence(r, n)
<1> DEFINE m == Terminalized(r, o)
<1>1. /\ m \in Rows /\ m.state = o.state /\ m.verdict = o.verdict
      /\ SamePlace(r, m) /\ SameEvidence(r, m)
  BY FiledPlace DEF RowInv, Sound
<1> HIDE DEF m
<1> DEFINE e == EffectCleared(m)
<1>2. /\ e \in Rows /\ SameState(m, e) /\ Cleared(e) /\ SamePlace(m, e) /\ SameEvidence(m, e)
  BY <1>1, ClearingPlace
<1>3. Finished(r, o) = ClaimCleared(e)
  BY DEF Finished, m
<1> HIDE DEF e
<1>4. LET n == ClaimCleared(e) IN
      /\ SameState(e, n) /\ n.powner = None /\ SamePlace(e, n) /\ SameEffect(e, n)
      /\ SameEvidence(e, n)
  BY <1>2, ClearingPlace
<1> QED
  BY <1>1, <1>2, <1>3, <1>4, FinishedInv
  DEF SameState, SamePlace, SameEffect, SameEvidence, Cleared

\* FinishEffect: an end for a run in flight, a release for a terminal one.
LEMMA EffectFinishedColumns ==
    ASSUME NEW r, RowInv(r), NEW o, Sound(o)
    PROVE  LET n == EffectFinished(r, o) IN
           /\ RowInv(n) /\ n.powner = None /\ SamePlace(r, n) /\ Cleared(n) /\ SameEvidence(r, n)
           /\ IF r.state \in Terminal THEN SameState(r, n)
              ELSE n.state = o.state /\ n.verdict = o.verdict
<1>1. CASE r.state \in Terminal
  <2> DEFINE e == EffectCleared(r)
  <2>1. e \in Rows /\ SameState(r, e) /\ Cleared(e) /\ SamePlace(r, e) /\ SameEvidence(r, e)
    BY ClearingPlace DEF RowInv
  <2>2. EffectFinished(r, o) = ClaimCleared(e)
    BY <1>1 DEF EffectFinished
  <2> HIDE DEF e
  <2>3. LET n == ClaimCleared(e) IN
        /\ SameState(e, n) /\ n.powner = None /\ SamePlace(e, n) /\ SameEffect(e, n)
        /\ SameEvidence(e, n)
    BY <2>1, ClearingPlace
  <2> QED
    BY <1>1, <2>1, <2>2, <2>3, EffectFinishedInv
    DEF SameState, SamePlace, SameEffect, SameEvidence, Cleared
<1>2. CASE r.state \notin Terminal
  <2>1. EffectFinished(r, o) = Finished(r, o)
    BY <1>2 DEF EffectFinished, Finished
  <2> QED
    BY <1>2, <2>1, FinishedColumns
<1> QED
  BY <1>1, <1>2

\* FinishExpiredVerifier ends a verifying run.
LEMMA ExpiredColumns ==
    ASSUME NEW r, RowInv(r), r.state = "verifying", NEW o, Sound(o)
    PROVE  LET n == ExpiredVerifierFinished(r, o) IN
           RowInv(n) /\ n.state = o.state /\ n.verdict = o.verdict
           /\ SamePlace(r, n) /\ Cleared(n) /\ SameEvidence(r, n)
<1> DEFINE m == Terminalized(r, o)
<1>1. /\ m \in Rows /\ m.state = o.state /\ m.verdict = o.verdict
      /\ SamePlace(r, m) /\ SameEvidence(r, m)
  BY FiledPlace DEF RowInv, Sound
<1> HIDE DEF m
<1> DEFINE e == EffectCleared(m)
<1>2. /\ e \in Rows /\ SameState(m, e) /\ Cleared(e) /\ SamePlace(m, e) /\ SameEvidence(m, e)
  BY <1>1, ClearingPlace
<1> HIDE DEF e
<1>3. LET n == [e EXCEPT !.lane = "mandatory", !.unread = TRUE] IN
      SameState(e, n) /\ Cleared(n) /\ SamePlace(e, n) /\ SameEvidence(e, n)
  BY <1>2 DEF Rows, SameState, Cleared, SamePlace, SameEvidence
<1>4. \/ ExpiredVerifierFinished(r, o) = e
      \/ ExpiredVerifierFinished(r, o) = [e EXCEPT !.lane = "mandatory", !.unread = TRUE]
  BY DEF ExpiredVerifierFinished, m, e
<1> QED
  BY <1>1, <1>2, <1>3, <1>4, ExpiredVerifierFinishedInv
  DEF SameState, SamePlace, SameEvidence

\* ClaimWorkspaceClose fences the run.
LEMMA CloseClaimedColumns ==
    ASSUME NEW r, RowInv(r), NEW o \in Owners, NEW c \in Claims, NEW until \in Instants,
           NEW out, Sound(out)
    PROVE  LET n == WorkspaceCloseClaimed(r, o, c, until, out) IN
           RowInv(n) /\ SameState(r, n) /\ SameHold(r, n) /\ SamePlace(r, n)
           /\ CloseSet(n, o, c, out) /\ SameEvidence(r, n)
<1>1. r \in Rows
  BY DEF RowInv
<1>2. LET n == WorkspaceCloseClaimed(r, o, c, until, out) IN
      SameState(r, n) /\ SameHold(r, n) /\ SamePlace(r, n)
      /\ CloseSet(n, o, c, out) /\ SameEvidence(r, n)
  BY <1>1 DEF Rows, WorkspaceCloseClaimed, EffectSet, SameState, SameHold, SamePlace, CloseSet,
     SameEvidence
<1> QED
  BY <1>2, WorkspaceCloseClaimedInv

\* ClaimLateProvisioningCleanup adopts the workspace and fences the run.
LEMMA LateColumnsSet ==
    ASSUME NEW r, RowInv(r), NEW o \in Owners, NEW c \in Claims, NEW until \in Instants
    PROVE  LET n == LateCleanupClaimed(r, o, c, until, Interrupted, TRUE) IN
           RowInv(n) /\ SameState(r, n) /\ SameHold(r, n) /\ n.workspace /\ n.branch
           /\ CloseSet(n, o, c, LateIntent(r, Interrupted)) /\ SameEvidence(r, n)
<1>1. Sound(Interrupted)
  BY DEF Sound, Interrupted, Outcome, Outcomes, Terminal, Verdicts
<1> DEFINE out == LateIntent(r, Interrupted)
<1>2. Sound(out)
  BY <1>1, LateIntentSound
<1> DEFINE m == EffectSet(r, o, c, "workspace_close", until, out)
<1> HIDE DEF out
<1>3. /\ RowInv(m) /\ SameState(r, m) /\ SameHold(r, m) /\ CloseSet(m, o, c, out)
      /\ SameEvidence(r, m)
  BY <1>2, CloseClaimedColumns DEF WorkspaceCloseClaimed
<1> HIDE DEF m
<1>3a. m \in Rows /\ RowInv(LateColumns(m, TRUE))
  BY <1>3, LateColumnsInv DEF RowInv
<1>4. LET n == LateColumns(m, TRUE) IN
      /\ SameState(m, n) /\ SameHold(m, n) /\ n.workspace /\ n.branch
      /\ CloseSet(n, o, c, out) /\ SameEvidence(m, n)
  BY <1>3, <1>3a DEF LateColumns, Rows, SameState, SameHold, CloseSet, SameEvidence
<1>5. LateCleanupClaimed(r, o, c, until, Interrupted, TRUE) = LateColumns(m, TRUE)
  BY DEF LateCleanupClaimed, LateColumns, m, out
<1> QED
  BY <1>3, <1>3a, <1>4, <1>5 DEF SameState, SameHold, SameEvidence, out

\* ReclaimEffect changes who owns the close.
LEMMA ReclaimedColumns ==
    ASSUME NEW r, RowInv(r), r.ekind = "workspace_close",
           NEW o \in Owners, NEW c \in Claims, NEW until \in Instants
    PROVE  LET n == Reclaimed(r, o, c, until) IN
           RowInv(n) /\ SameState(r, n) /\ SameHold(r, n) /\ SamePlace(r, n)
           /\ CloseSet(n, o, c, r.intent) /\ SameEvidence(r, n)
<1>1. r \in Rows
  BY DEF RowInv
<1>2. LET n == Reclaimed(r, o, c, until) IN
      SameState(r, n) /\ SameHold(r, n) /\ SamePlace(r, n)
      /\ CloseSet(n, o, c, r.intent) /\ SameEvidence(r, n)
  BY <1>1 DEF Rows, Reclaimed, SameState, SameHold, SamePlace, CloseSet, SameEvidence
<1> QED
  BY <1>2, ReclaimedInv

\* ClaimVerifier moves the run to verifying.
LEMMA VerifierClaimedColumns ==
    ASSUME NEW r, RowInv(r), CanClaimVerifier(r),
           NEW o \in Owners, NEW c \in Claims, NEW until \in Instants
    PROVE  LET n == VerifierClaimed(r, o, c, until) IN
           RowInv(n) /\ n.state = "verifying" /\ n.verdict = r.verdict /\ SameHold(r, n)
           /\ SamePlace(r, n) /\ n.ekind = "verifier" /\ SameEvidence(r, n)
<1> DEFINE m == [r EXCEPT !.state = "verifying"]
<1>1. /\ m \in Rows /\ m.state = "verifying" /\ m.verdict = r.verdict /\ SameHold(r, m)
      /\ SamePlace(r, m) /\ SameEvidence(r, m)
  BY DEF RowInv, Rows, Nonterminal, SameHold, SamePlace, SameEvidence
<1> HIDE DEF m
<1>2. LET n == EffectSet(m, o, c, "verifier", until, None) IN
      SameState(m, n) /\ SameHold(m, n) /\ SamePlace(m, n) /\ n.ekind = "verifier"
      /\ SameEvidence(m, n)
  BY <1>1 DEF Rows, EffectSet, SameState, SameHold, SamePlace, SameEvidence
<1>3. VerifierClaimed(r, o, c, until) = EffectSet(m, o, c, "verifier", until, None)
  BY DEF VerifierClaimed, m
<1> QED
  BY <1>1, <1>2, <1>3, VerifierClaimedInv DEF SameState, SameHold, SamePlace, SameEvidence

\* The attestation is the only receipt the command path sets.
LEMMA AttestedColumns ==
    ASSUME NEW r, RowInv(r), Attestation \in Receipts
    PROVE  LET n == ReceiptSet(r, "model_attestation", Attestation) IN
           RowInv(n) /\ SameState(r, n) /\ SameHold(r, n) /\ SamePlace(r, n)
           /\ SameEffect(r, n) /\ AttestedRow(n)
<1>1. "model_attestation" \in ReceiptKinds
  BY DEF ReceiptKinds
<1> QED
  BY <1>1, ReceiptSetInv DEF RowInv, Rows, ReceiptSet, SameState, SameHold, SamePlace, SameEffect,
     AttestedRow

\* Time moves the leases.
LEMMA AgedColumns ==
    ASSUME NEW r, RowInv(r)
    PROVE  LET n == RowAged(r) IN
           RowInv(n) /\ SameState(r, n) /\ n.powner = r.powner /\ n.please = Aged(r.please)
           /\ SamePlace(r, n) /\ SameEffect(r, n) /\ SameEvidence(r, n)
BY RowAgedInv DEF RowInv, Rows, RowAged, SameState, SamePlace, SameEffect, SameEvidence
-----------------------------------------------------------------------------
(* Types.                                                                  *)

\* A fresh sample is a sample.
LEMMA FreshSample == ASSUME NEW t PROVE Fresh(t) \subseteq Samples
BY RowAssumption, LifecycleAssumption DEF Fresh, Samples, Past

\* The present is a sample, and the idle thread is a thread.
LEMMA IdleTyped == Typed(Idle) /\ 0 \in Samples
<1>1. 0 \in Samples
  BY RowAssumption DEF Samples, Past
<1>2. Idle \in ThreadStates
  BY <1>1 DEF Idle, ThreadStates, ProgramPoints
<1>3. Idle.pc = "idle" /\ Idle.out = None
  BY DEF Idle
<1> QED
  BY <1>1, <1>2, <1>3 DEF Typed, Fits, OutPcs

\* The fields of a thread that goes on.
LEMMA GoingFields ==
    ASSUME Types, NEW t \in Threads, NEW pc \in ProgramPoints
    PROVE  /\ At(t, pc) \in ThreadStates /\ Carry(t, pc) \in ThreadStates
           /\ At(t, pc).pc = pc /\ Carry(t, pc).pc = pc
           /\ At(t, pc).owner = th[t].owner /\ Carry(t, pc).owner = th[t].owner
           /\ At(t, pc).from = th[t].from /\ Carry(t, pc).from = th[t].from
           /\ At(t, pc).out = th[t].out /\ Carry(t, pc).out = th[t].out
           /\ At(t, pc).now = 0 /\ Carry(t, pc).now = th[t].now
           /\ At(t, pc).snap = th[t].snap
<1>1. th[t] \in ThreadStates
  BY DEF Types
<1> QED
  BY <1>1, IdleTyped DEF At, Carry, ThreadStates

\* A thread may go where its state and outcome fit.
LEMMA GoingTyped ==
    ASSUME Types, NEW t \in Threads, th[t].pc # "idle", NEW pc \in ProgramPoints \ {"scan"},
           Fits(pc, th[t].from, th[t].out)
    PROVE  Typed(At(t, pc)) /\ Typed(Carry(t, pc))
<1>1. Typed(th[t])
  BY DEF Types
<1> QED
  BY <1>1, GoingFields DEF Typed

\* What is typed already.
LEMMA ThreadTyped ==
    ASSUME Types, NEW t \in Threads
    PROVE  /\ th[t] \in ThreadStates /\ th[t].now \in Samples
           /\ th[t].pc # "idle" => th[t].owner \in Owners
           /\ th[t].out # None => Sound(th[t].out)
           /\ Fits(th[t].pc, th[t].from, th[t].out)
BY DEF Types, Typed, ThreadStates

\* The state a thread has brought about or read.
States == Nonterminal \cup Terminal
LEMMA FromSet ==
    ASSUME Types, NEW t \in Threads, th[t].pc # "idle", NEW pc \in ProgramPoints \ {"scan"},
           NEW f \in States, Fits(pc, f, th[t].out)
    PROVE  LET x == [At(t, pc) EXCEPT !.from = f] IN
           /\ Typed(x) /\ x.pc = pc /\ x.owner = th[t].owner /\ x.from = f
           /\ x.out = th[t].out /\ x.now = 0
<1> DEFINE y == At(t, pc)
<1>1. /\ y \in ThreadStates /\ y.pc = pc /\ y.owner = th[t].owner /\ y.out = th[t].out
      /\ y.now = 0
  BY GoingFields
<1> HIDE DEF y
<1>2. LET x == [y EXCEPT !.from = f] IN
      /\ x \in ThreadStates /\ x.pc = pc /\ x.owner = th[t].owner /\ x.from = f
      /\ x.out = th[t].out /\ x.now = 0
  BY <1>1 DEF ThreadStates, States
<1>3. Typed([y EXCEPT !.from = f])
  BY <1>2, ThreadTyped DEF Typed
<1> QED
  BY <1>2, <1>3 DEF y

\* The outcome it asks for.
LEMMA OutSet ==
    ASSUME Types, NEW t \in Threads, th[t].pc # "idle", NEW pc \in ProgramPoints \ {"scan"},
           NEW o, Sound(o), Fits(pc, th[t].from, o)
    PROVE  /\ LET x == [At(t, pc) EXCEPT !.out = o] IN
              /\ Typed(x) /\ x.pc = pc /\ x.owner = th[t].owner /\ x.from = th[t].from
              /\ x.out = o /\ x.now = 0
           /\ LET x == [Carry(t, pc) EXCEPT !.out = o] IN
              /\ Typed(x) /\ x.pc = pc /\ x.owner = th[t].owner /\ x.from = th[t].from
              /\ x.out = o /\ x.now = th[t].now
<1>0. o \in Outcomes
  BY DEF Sound
<1>1. ASSUME NEW y \in ThreadStates, y.pc = pc, y.owner = th[t].owner, y.from = th[t].from
      PROVE  LET x == [y EXCEPT !.out = o] IN
             /\ Typed(x) /\ x.pc = pc /\ x.owner = th[t].owner /\ x.from = th[t].from
             /\ x.out = o /\ x.now = y.now
  <2>1. LET x == [y EXCEPT !.out = o] IN
        /\ x \in ThreadStates /\ x.pc = pc /\ x.owner = th[t].owner /\ x.from = th[t].from
        /\ x.out = o /\ x.now = y.now
    BY <1>0, <1>1 DEF ThreadStates
  <2> QED
    BY <2>1, ThreadTyped DEF Typed
<1> QED
  BY <1>1, GoingFields

\* Both, when a close is claimed for the run as it stands.
LEMMA BothSet ==
    ASSUME Types, NEW t \in Threads, th[t].pc # "idle", NEW pc \in ProgramPoints \ {"scan"},
           NEW f \in States, NEW o, Sound(o), Fits(pc, f, o)
    PROVE  LET x == [At(t, pc) EXCEPT !.from = f, !.out = o] IN
           /\ Typed(x) /\ x.pc = pc /\ x.owner = th[t].owner /\ x.from = f
           /\ x.out = o /\ x.now = 0
<1>0. o \in Outcomes
  BY DEF Sound
<1> DEFINE y == At(t, pc)
<1>1. y \in ThreadStates /\ y.pc = pc /\ y.owner = th[t].owner /\ y.now = 0
  BY GoingFields
<1> HIDE DEF y
<1>2. LET x == [y EXCEPT !.from = f, !.out = o] IN
      /\ x \in ThreadStates /\ x.pc = pc /\ x.owner = th[t].owner /\ x.from = f
      /\ x.out = o /\ x.now = 0
  BY <1>0, <1>1 DEF ThreadStates, States
<1>3. Typed([y EXCEPT !.from = f, !.out = o])
  BY <1>2, ThreadTyped DEF Typed
<1> QED
  BY <1>2, <1>3 DEF y

\* The close a thread goes to.
LEMMA CloseForTyped ==
    ASSUME Types, NEW t \in Threads, th[t].pc # "idle", NEW o, Sound(o)
    PROVE  LET x == CloseFor(t, o) IN
           /\ Typed(x) /\ x.pc = "claimClose" /\ x.owner = th[t].owner
           /\ x.from = th[t].from /\ x.out = o /\ x.now = 0
<1>1. o # None
  BY NoneAssumption DEF Sound
<1>2. "claimClose" \in ProgramPoints \ {"scan"} /\ Fits("claimClose", th[t].from, o)
  BY <1>1 DEF ProgramPoints, Fits
<1>3. Typed(CloseFor(t, o))
  BY <1>2, OutSet DEF CloseFor
<1> DEFINE y == At(t, "claimClose")
<1>4. /\ y \in ThreadStates /\ y.pc = "claimClose" /\ y.owner = th[t].owner
      /\ y.from = th[t].from /\ y.now = 0
  BY GoingFields DEF ProgramPoints
<1>5. CloseFor(t, o) = [y EXCEPT !.out = o]
  BY DEF CloseFor
<1> HIDE DEF y
<1> QED
  BY <1>3, <1>4, <1>5 DEF ThreadStates

\* One thread moves: what it becomes, and the others.
LEMMA BecomeOthers ==
    ASSUME Types, NEW t \in Threads, NEW x, Become(t, x)
    PROVE  th'[t] = x /\ \A u \in Threads \ {t} : th'[u] = th[u]
BY DEF Types, Become

\* The variables a thread's step may not touch.
OthersTyped ==
    /\ job \in JobShape
    /\ ws \in {"none", "open", "closed", "removed"}
    /\ cmd \in {"none", "running", "done", "failed"}
    /\ marker \in {None, Passed, VerifierFailed}
    /\ req \in [Requests -> Spans]
    /\ daemon \in {"d1", "d2"} /\ attended \in BOOLEAN
    /\ closes \in Nat

\* A thread that becomes a fit thread, beside a well-formed row, keeps the types.
LEMMA ThreadStepTypes ==
    ASSUME Types, NEW t \in Threads, NEW x, Typed(x), Become(t, x), RowInv(row'), OthersTyped'
    PROVE  Types'
<1>1. th' \in [Threads -> ThreadStates]
  BY DEF Types, Typed, Become
<1>2. \A u \in Threads : Typed(th'[u])
  BY BecomeOthers DEF Types
<1> QED
  BY <1>1, <1>2 DEF Types, OthersTyped

\* Most steps touch the row and one thread.
LEMMA QuietTypes ==
    ASSUME Types, UNCHANGED <<job, world, procs, ghosts>> PROVE OthersTyped'
BY DEF Types, OthersTyped, world, procs, ghosts

\* A compare-and-set with well-typed ends.
LEMMA CASTypes ==
    ASSUME Types, NEW t \in Threads, NEW can, NEW new, NEW yes, NEW no,
           CAS(t, can, new, yes, no), can => RowInv(new), can => Typed(yes), Typed(no), OthersTyped'
    PROVE  Types'
<1>1. RowInv(row)
  BY DEF Types
<1>2. CASE can /\ row' = new /\ Become(t, yes)
  BY <1>2, ThreadStepTypes
<1>3. CASE ~can /\ UNCHANGED row /\ Become(t, no)
  <2>1. RowInv(row')
    BY <1>1, <1>3
  <2> QED
    BY <1>3, <2>1, ThreadStepTypes
<1> QED
  BY <1>2, <1>3 DEF CAS

\* The outcomes the engine asks for are sound.
LEMMA OutsSound ==
    /\ \A o \in CloseOuts \cup VerifierOuts \cup {Succeeded} : Sound(o)
    /\ CloseOuts \cup VerifierOuts \cup {Succeeded} \subseteq Outcomes
BY DEF CloseOuts, VerifierOuts, Timed_out, Cancelled, Interrupted, Failed, Succeeded, Passed,
   VerifierFailed, Outcome, Outcomes, Terminal, Verdicts, Sound

\* A lease that starts at a sample is an instant.
LEMMA LeasesTyped ==
    ASSUME NEW now \in Samples
    PROVE  /\ now + ProvisioningLease \in Instants /\ now + CloseLease \in Instants
           /\ ProvisioningLease \in Instants /\ VerifierLease \in Instants
BY RowAssumption, LifecycleAssumption DEF Samples, Instants, Past

\* The limits of the calls are spans.
LEMMA SpansTyped == {0, OperationLimit, VerifierLimit} \subseteq Spans
BY LifecycleAssumption DEF Spans

\* Threads are tokens, and the processes' tokens are owners.
LEMMA TokensTyped == Threads \subseteq Claims /\ {"d1", "d2", "attended", "operator"} \subseteq Owners
BY LifecycleAssumption DEF Threads

\* The steps of Engine.execute keep the types.
LEMMA ExecuteTypes ==
    ASSUME Types, NEW t \in Threads, Execute(t)
    PROVE  Types'
<1> USE IdleTyped, QuietTypes
<1>0. RowInv(row)
  BY DEF Types
<1>1. ASSUME NEW pc, pc # "idle", NEW next \in {"probe", "savePlan", "startCommand"},
             Renew(t, pc, next)
      PROVE  Types'
  <2> PICK now \in Fresh(t) :
         CAS(t, CanRenewProvisioningClaim(row, th[t].owner, now),
             Renewed(row, now + ProvisioningLease), At(t, next), Idle)
    BY <1>1 DEF Renew
  <2>1. now + ProvisioningLease \in Instants
    BY FreshSample, LeasesTyped
  <2>2. RowInv(Renewed(row, now + ProvisioningLease))
    BY <1>0, <2>1, RenewedInv
  <2>3. Typed(At(t, next))
    BY <1>1, GoingTyped DEF Renew, ProgramPoints, Fits, OutPcs
  <2> QED
    BY <1>1, <2>2, <2>3, CASTypes DEF Renew
<1>2. CASE Probe(t) \/ Stage(t)
  BY <1>0, <1>2, GoingTyped, ThreadStepTypes DEF Probe, Stage, Goto, ProgramPoints, Fits, OutPcs
<1>3. CASE FailProvisioning(t) \/ FailStarting(t)
  BY <1>0, <1>3, OutsSound, ClaimFinishedInv, CASTypes
  DEF FailProvisioning, FailStarting, CanFinishProvisioningClaim, CanFinishStartingClaim, VerifierOuts
<1>4. CASE SavePlan(t)
  BY <1>0, <1>4, PlanSavedInv, GoingTyped, CASTypes DEF SavePlan, ProgramPoints, Fits, OutPcs
<1>5. CASE IssueProvision(t) \/ IssueStart(t)
  <2>1. ClientDeadline(t) > 0 => ClientDeadline(t) \in Spans
    BY <1>0, LifecycleAssumption DEF Spans, ClientDeadline, MinOf, RowInv, Rows, Instants
  <2>2. OthersTyped'
    BY <1>5, <2>1 DEF IssueProvision, IssueStart, Types, OthersTyped, procs, ghosts, Requests
  <2>3. Typed(At(t, "provWait")) /\ Typed(At(t, "startWait"))
    BY <1>5, GoingTyped DEF IssueProvision, IssueStart, ProgramPoints, Fits, OutPcs
  <2> QED
    BY <1>0, <1>5, <2>2, <2>3, EventRecordedInv, ThreadStepTypes
    DEF IssueProvision, IssueStart, Evidence, Goto, Stop
<1>6. CASE ProvisionReturns(t) \/ StartReturns(t)
  <2>1. \A pc \in {"saveReceipt", "savePartial", "confirm"} : Typed(At(t, pc))
    BY <1>6, GoingTyped DEF ProvisionReturns, StartReturns, ProgramPoints, Fits, OutPcs
  <2> QED
    BY <1>0, <1>6, <2>1, EventRecordedInv, ThreadStepTypes
    DEF ProvisionReturns, StartReturns, Evidence, Goto, Stop
<1>7. CASE SaveReceipt(t)
  <2>1. Typed(At(t, "stage")) /\ Typed(At(t, "late"))
    BY <1>7, GoingTyped DEF SaveReceipt, ProgramPoints, Fits, OutPcs
  <2> QED
    BY <1>0, <1>7, <2>1, ReceiptSavedInv, CASTypes, ThreadStepTypes
    DEF SaveReceipt, CanSaveProvisioning, Goto
<1>8. CASE SavePartial(t)
  <2>1. Typed(At(t, "late"))
    BY <1>8, GoingTyped DEF SavePartial, ProgramPoints, Fits, OutPcs
  <2>2. RowInv(EventRecorded(PartialReceiptSaved(row, TRUE)))
    BY <1>0, PartialColumns
  <2> QED
    BY <1>0, <1>8, <2>1, <2>2, CASTypes, ThreadStepTypes DEF SavePartial, Goto
<1>9. CASE ClaimLateCleanup(t)
  <2> DEFINE now == th[t].now
  <2> DEFINE yes == [At(t, "closeCall") EXCEPT !.from = row.state, !.out = LateIntent(row, Interrupted)]
  <2>1. now \in Samples /\ th[t].owner \in Owners /\ t \in Claims
    BY <1>9, TokensTyped, ThreadTyped DEF ClaimLateCleanup
  <2>2. RowInv(LateCleanupClaimed(row, th[t].owner, t, now + CloseLease, Interrupted, TRUE))
    BY <1>0, <2>1, LeasesTyped, LateColumnsSet
  <2>3. Typed(yes)
    <3>1. Sound(LateIntent(row, Interrupted)) /\ LateIntent(row, Interrupted) # None
      BY <1>0, OutsSound, LateIntentSound, NoneAssumption DEF CloseOuts, Sound
    <3>2. row.state \in States
      BY <1>0 DEF RowInv, Rows, States
    <3> QED
      BY <1>9, <3>1, <3>2, BothSet DEF ClaimLateCleanup, ProgramPoints, Fits
  <2> HIDE DEF yes
  <2>4. CAS(t, CanClaimLateCleanup(row, th[t].owner, now),
            LateCleanupClaimed(row, th[t].owner, t, now + CloseLease, Interrupted, TRUE), yes, Idle)
    BY <1>9 DEF ClaimLateCleanup, yes
  <2> QED
    BY <1>9, <2>2, <2>3, <2>4, CASTypes DEF ClaimLateCleanup
<1>10. CASE ConfirmStart(t)
  <2> DEFINE yes == [At(t, "waitCommand") EXCEPT !.from = "running"]
  <2>1. Typed(yes)
    BY <1>10, FromSet DEF ConfirmStart, ProgramPoints, Fits, OutPcs, States, Nonterminal
  <2> HIDE DEF yes
  <2>2. PICK now \in Fresh(t) :
          CAS(t, CanConfirmStartingClaim(row, th[t].owner, now), StartConfirmed(row), yes, Idle)
    BY <1>10 DEF ConfirmStart, yes
  <2>3. CanConfirmStartingClaim(row, th[t].owner, now) => RowInv(StartConfirmed(row))
    BY <1>0, StartConfirmedInv DEF CanConfirmStartingClaim, EffectUnowned
  <2> QED
    BY <1>10, <2>1, <2>2, <2>3, CASTypes DEF ConfirmStart
<1> QED
  BY <1>1, <1>2, <1>3, <1>4, <1>5, <1>6, <1>7, <1>8, <1>9, <1>10 DEF Execute, ProgramPoints

\* The steps of the monitors keep the types.
LEMMA MonitorTypes ==
    ASSUME Types, NEW t \in Threads, Monitor(t)
    PROVE  Types'
<1> USE IdleTyped, QuietTypes
<1>0. RowInv(row)
  BY DEF Types
<1>1. CASE WaitCommand(t)
  <2>1. Typed(At(t, Complete)) /\ Typed(CloseFor(t, Timed_out)) /\ Typed(CloseFor(t, Interrupted))
    <3>1. Fits(Complete, th[t].from, th[t].out) /\ Complete \in {"failRun", "attest", "settle"}
      BY <1>1, ThreadTyped DEF WaitCommand, Complete, Fits, OutPcs
    <3>2. Typed(At(t, Complete))
      BY <1>1, <3>1, GoingTyped DEF WaitCommand, ProgramPoints
    <3> QED
      BY <1>1, <3>2, CloseForTyped, OutsSound DEF WaitCommand, CloseOuts
  <2> QED
    BY <1>0, <1>1, <2>1, ThreadStepTypes DEF WaitCommand, Goto
<1>2. CASE FailRun(t) \/ Succeed(t)
  <2>1. RowInv(Finished(row, Failed)) /\ RowInv(Finished(row, Succeeded))
    BY <1>0, OutsSound, FinishedInv DEF VerifierOuts
  <2> QED
    BY <1>2, <2>1, CASTypes DEF FailRun, Succeed
<1>3. CASE Attest(t)
  <2>1. Typed(At(t, "settle")) /\ Typed(At(t, "failRun"))
    BY <1>3, ThreadTyped, GoingTyped DEF Attest, ProgramPoints, Fits, OutPcs
  <2>2. RowInv(ReceiptSet(row, "model_attestation", Attestation))
    BY <1>0, LifecycleAssumption, AttestedColumns DEF Attestation
  <2> QED
    BY <1>0, <1>3, <2>1, <2>2, CASTypes, ThreadStepTypes DEF Attest, Goto
<1>4. CASE Settle(t)
  <2> DEFINE yes == [At(t, Settled) EXCEPT !.from = "settled"]
  <2>1. Typed(yes)
    BY <1>4, FromSet DEF Settle, Settled, ProgramPoints, Fits, OutPcs, States, Nonterminal
  <2> HIDE DEF yes
  <2>2. CAS(t, CanTransition(row, th[t].from), Transitioned(row, "settled"), yes, Idle)
    BY <1>4 DEF Settle, yes
  <2>3. CanTransition(row, th[t].from) => RowInv(Transitioned(row, "settled"))
    BY <1>0, <1>4, SettledInv, ThreadTyped DEF CanTransition, Settle, Fits
  <2> QED
    BY <1>4, <2>1, <2>2, <2>3, CASTypes DEF Settle
<1>5. CASE ClaimVerifier(t)
  <2>1. ASSUME NEW pc \in {"startVer", "finVer"} PROVE Typed([At(t, pc) EXCEPT !.out = Failed])
    <3>1. Sound(Failed) /\ Failed # None
      BY OutsSound, NoneAssumption DEF VerifierOuts, Sound
    <3> QED
      BY <1>5, <3>1, OutSet DEF ClaimVerifier, ProgramPoints, Fits
  <2>2. CanClaimVerifier(row) => RowInv(VerifierClaimed(row, th[t].owner, t, VerifierLease))
    BY <1>0, <1>5, IdleTyped, LeasesTyped, TokensTyped, ThreadTyped, VerifierClaimedInv
    DEF ClaimVerifier
  <2> QED
    BY <1>5, <2>1, <2>2, CASTypes DEF ClaimVerifier
<1>6. CASE StartVerifier(t)
  <2>1. Typed(At(t, "runVer"))
    BY <1>6, ThreadTyped, GoingTyped DEF StartVerifier, ProgramPoints, Fits, OutPcs
  <2>2. OthersTyped'
    BY <1>6, SpansTyped DEF StartVerifier, Types, OthersTyped, procs, Requests
  <2> QED
    BY <1>0, <1>6, <2>1, <2>2, ThreadStepTypes DEF StartVerifier, Goto
<1>7. CASE VerifierEnds(t)
  <2>1. ASSUME NEW o \in VerifierOuts PROVE Typed([At(t, "finVer") EXCEPT !.out = o])
    <3>1. Sound(o) /\ o # None
      BY OutsSound, NoneAssumption DEF Sound
    <3> QED
      BY <1>7, <3>1, OutSet DEF VerifierEnds, ProgramPoints, Fits
  <2>2. OthersTyped'
    BY <1>7, SpansTyped DEF VerifierEnds, Types, OthersTyped, procs, Requests
  <2> QED
    BY <1>0, <1>7, <2>1, <2>2, ThreadStepTypes DEF VerifierEnds, VerifierOuts
<1>8. CASE FinishVerifier(t)
  <2> PICK now \in Fresh(t) :
         LET can == CanFinishEffect(row, "verifying", th[t].owner, t, "verifier", th[t].out, now)
         IN /\ CAS(t, can, EffectFinished(row, th[t].out), Idle, Idle)
            /\ marker' = IF can THEN None ELSE marker
    BY <1>8 DEF FinishVerifier
  <2>1. Sound(th[t].out)
    BY <1>8, ThreadTyped DEF FinishVerifier, Fits, OutPcs
  <2>2. RowInv(EffectFinished(row, th[t].out))
    BY <1>0, <2>1, EffectFinishedInv
  <2>3. OthersTyped'
    BY <1>8 DEF FinishVerifier, Types, OthersTyped, procs, ghosts
  <2> QED
    BY <2>2, <2>3, CASTypes
<1> QED
  BY <1>1, <1>2, <1>3, <1>4, <1>5, <1>6, <1>7, <1>8 DEF Monitor

\* The steps of a close keep the types.
LEMMA CloseTypes ==
    ASSUME Types, NEW t \in Threads, Close(t)
    PROVE  Types'
<1> USE IdleTyped, QuietTypes
<1>0. RowInv(row)
  BY DEF Types
<1>1. th[t].pc \in OutPcs => Sound(th[t].out) /\ th[t].owner \in Owners /\ t \in Claims
  BY TokensTyped, ThreadTyped DEF Fits, OutPcs
<1>2. ASSUME th[t].pc \in OutPcs, NEW pc \in {"closeCall", "closeWait", "exists", "closeFin", "reclaim"}
      PROVE  Typed(At(t, pc)) /\ Typed(Carry(t, pc))
  <2>1. th[t].out # None /\ th[t].pc # "idle"
    BY <1>2, ThreadTyped DEF Fits, OutPcs
  <2>2. pc \in ProgramPoints \ {"scan"} /\ Fits(pc, th[t].from, th[t].out)
    BY <2>1 DEF ProgramPoints, Fits
  <2> QED
    BY <2>1, <2>2, GoingTyped
<1>3. CASE ClaimClose(t)
  <2>1. RowInv(WorkspaceCloseClaimed(row, th[t].owner, t, th[t].now + CloseLease, th[t].out))
    BY <1>0, <1>1, <1>3, LeasesTyped, ThreadTyped, WorkspaceCloseClaimedInv DEF ClaimClose, OutPcs
  <2>2. Typed(At(t, "closeCall"))
    BY <1>2, <1>3 DEF ClaimClose, OutPcs
  <2> QED
    BY <1>3, <2>1, <2>2, CASTypes DEF ClaimClose
<1>4. CASE IssueClose(t)
  <2>1. OthersTyped'
    BY <1>4, SpansTyped DEF IssueClose, Types, OthersTyped, procs, Requests
  <2>2. Typed(At(t, "closeWait"))
    BY <1>2, <1>4 DEF IssueClose, OutPcs
  <2> QED
    BY <1>0, <1>4, <2>1, <2>2, ThreadStepTypes DEF IssueClose, Goto
<1>5. CASE CloseReturns(t) \/ CheckClosed(t) \/ ObserveClose(t)
  <2>1. Typed(At(t, "closeFin")) /\ Typed(At(t, "exists")) /\ Typed(Carry(t, "reclaim"))
    BY <1>2, <1>5 DEF CloseReturns, CheckClosed, ObserveClose, OutPcs
  <2> QED
    BY <1>0, <1>5, <2>1, EventRecordedInv, ThreadStepTypes
    DEF CloseReturns, CheckClosed, ObserveClose, Evidence, Goto, Stop
<1>6. CASE FinishClose(t)
  <2>1. RowInv(EffectFinished(row, th[t].out))
    BY <1>0, <1>1, <1>6, EffectFinishedInv DEF FinishClose, OutPcs
  <2> QED
    BY <1>6, <2>1, CASTypes DEF FinishClose
<1>7. CASE ReclaimClose(t)
  <2>1. CanReclaimEffect(row, th[t].from, th[t].now)
        => RowInv(Reclaimed(row, th[t].owner, t, th[t].now + CloseLease))
    BY <1>0, <1>1, <1>7, LeasesTyped, ThreadTyped, ReclaimedInv
    DEF ReclaimClose, CanReclaimEffect, OutPcs
  <2>2. Typed(At(t, "closeFin"))
    BY <1>2, <1>7 DEF ReclaimClose, OutPcs
  <2> QED
    BY <1>7, <2>1, <2>2, CASTypes DEF ReclaimClose
<1> QED
  BY <1>3, <1>4, <1>5, <1>6, <1>7 DEF Close

\* What the daemon does with the run it has read.
LEMMA LookingTyped ==
    ASSUME Types, th["daemon"].pc = "scan", NEW pc \in ProgramPoints \ {"scan"},
           NEW o, Sound(o), Fits(pc, Scanned.state, o)
    PROVE  Typed(Looking(pc, o))
<1>0. "daemon" \in Threads
  BY DEF Threads
<1>1. o \in Outcomes /\ Scanned.state \in Nonterminal \cup Terminal
  BY <1>0 DEF Types, Typed, Scanned, RowInv, Rows, Sound
<1> DEFINE y == Carry("daemon", pc)
<1>2. y \in ThreadStates /\ y.pc = pc /\ y.owner = th["daemon"].owner
  BY <1>0, GoingFields
<1>3. Looking(pc, o) = [y EXCEPT !.now = 0, !.from = Scanned.state, !.out = o]
  BY DEF Looking
<1> HIDE DEF y
<1> DEFINE x == [y EXCEPT !.now = 0, !.from = Scanned.state, !.out = o]
<1>4. /\ x \in ThreadStates /\ x.pc = pc /\ x.owner = th["daemon"].owner
      /\ x.from = Scanned.state /\ x.out = o
  BY <1>1, <1>2, IdleTyped DEF ThreadStates
<1> HIDE DEF x
<1>5. Typed(x)
  BY <1>0, <1>4, ThreadTyped DEF Typed
<1> QED
  BY <1>3, <1>5 DEF x

\* A monitor started on behalf of the daemon.
LEMMA MonitorTyped ==
    ASSUME Types, NEW pc \in {"waitCommand", "succeed", "claimVer"}, NEW from \in {"running", "settled"},
           Fits(pc, from, None)
    PROVE  Typed([Idle EXCEPT !.pc = pc, !.owner = daemon, !.from = from])
<1> DEFINE x == [Idle EXCEPT !.pc = pc, !.owner = daemon, !.from = from]
<1>1. daemon \in Owners
  BY TokensTyped DEF Types
<1>2. Idle \in ThreadStates /\ Idle.out = None
  BY IdleTyped DEF Typed, Idle
<1>3. pc \in ProgramPoints \ {"scan"} /\ from \in Nonterminal
  BY DEF ProgramPoints, Nonterminal
<1>4. x \in ThreadStates /\ x.pc = pc /\ x.owner = daemon /\ x.from = from /\ x.out = None
  BY <1>1, <1>2, <1>3 DEF ThreadStates
<1> HIDE DEF x
<1>5. Typed(x)
  BY <1>1, <1>3, <1>4 DEF Typed
<1> QED
  BY <1>5 DEF x

\* Starting a monitor replaces the daemon's thread and perhaps the monitor's.
LEMMA StartMonitorTypes ==
    ASSUME Types, OthersTyped', NEW pc \in {"waitCommand", "succeed", "claimVer"},
           NEW from \in {"running", "settled"}, Fits(pc, from, None), StartMonitor(pc, from)
    PROVE  Types'
<1>0. RowInv(row') /\ "daemon" \in Threads /\ "mon" \in Threads
  BY DEF StartMonitor, Types, Threads
<1>1. CASE InFlight
  BY <1>0, <1>1, IdleTyped, ThreadStepTypes DEF StartMonitor, Stop
<1>2. CASE ~InFlight
  <2> DEFINE x == [Idle EXCEPT !.pc = pc, !.owner = daemon, !.from = from]
  <2>1. Typed(x)
    BY MonitorTyped
  <2>2. th' = [th EXCEPT !["daemon"] = Idle, !["mon"] = x]
    BY <1>2 DEF StartMonitor
  <2> HIDE DEF x
  <2>3. th' \in [Threads -> ThreadStates] /\ \A u \in Threads : Typed(th'[u])
    BY <1>0, <2>1, <2>2, IdleTyped DEF Types, Typed
  <2> QED
    BY <1>0, <2>3 DEF Types, OthersTyped
<1> QED
  BY <1>1, <1>2

\* What the daemon reads is a well-formed row.
LEMMA ScanTypes ==
    ASSUME Types, ReadNonTerminalRuns
    PROVE  Types'
<1> DEFINE x == [Idle EXCEPT !.pc = "scan", !.owner = daemon, !.snap = row]
<1>1. daemon \in Owners /\ RowInv(row) /\ row \in Rows /\ "daemon" \in Threads
  BY TokensTyped DEF Types, RowInv, Threads
<1>2. Idle \in ThreadStates /\ Idle.out = None
  BY IdleTyped DEF Typed, Idle
<1>2a. "scan" \in ProgramPoints
  BY DEF ProgramPoints
<1>3. x \in ThreadStates /\ x.pc = "scan" /\ x.owner = daemon /\ x.out = None /\ x.snap = row
  BY <1>1, <1>2, <1>2a DEF ThreadStates
<1>4. Become("daemon", x) /\ UNCHANGED row /\ OthersTyped'
  BY QuietTypes DEF ReadNonTerminalRuns
<1> HIDE DEF x
<1>5. Typed(x)
  BY <1>1, <1>3 DEF Typed, Fits, OutPcs
<1> QED
  BY <1>1, <1>4, <1>5, ThreadStepTypes

\* The steps of Engine.Reconcile keep the types.
LEMMA ReconcileTypes ==
    ASSUME Types, Reconcile
    PROVE  Types'
<1> USE IdleTyped, QuietTypes
<1>0. RowInv(row) /\ "daemon" \in Threads
  BY DEF Types, Threads
<1> DEFINE x == th["daemon"]
<1>1. Sound(Interrupted) /\ Interrupted # None
  BY OutsSound, NoneAssumption DEF CloseOuts, Sound
<1>2. CASE ReadNonTerminalRuns
  BY <1>2, ScanTypes
<1>3. CASE ReconcileRun
  <2>0. th["daemon"].pc = "scan" /\ RowInv(Scanned) /\ OthersTyped'
    BY <1>0, <1>3 DEF ReconcileRun, Types, Typed, Scanned
  <2>1. ASSUME NEW pc \in {"recExists", "claimClose", "find", "intProv", "readMarker"},
               NEW o, Sound(o)
        PROVE  Typed(Looking(pc, o))
    <3>1. o # None
      BY <2>1, NoneAssumption DEF Sound
    <3> QED
      BY <2>0, <2>1, <3>1, LookingTyped DEF ProgramPoints, Fits
  <2>2. Scanned.ekind = "workspace_close" => Sound(Scanned.intent)
    BY <2>0 DEF RowInv, EffectColumnsAgree, IntentSound
  <2>3. Scanned.state \in {"starting", "running"} => Typed(Looking("result", Interrupted))
    BY <1>1, <2>0, LookingTyped DEF ProgramPoints, Fits
  <2>4. CASE UNCHANGED row /\ ReconcileClose
    BY <1>0, <2>0, <2>1, <2>2, <2>4, ThreadStepTypes DEF ReconcileClose
  <2>5. CASE UNCHANGED row /\ ReconcileProvisioning
    BY <1>0, <1>1, <2>0, <2>1, <2>5, ThreadStepTypes DEF ReconcileProvisioning
  <2>6. CASE UNCHANGED row /\ ReconcileCommand
    BY <1>0, <2>0, <2>3, <2>6, ThreadStepTypes DEF ReconcileCommand
  <2>7. CASE UNCHANGED row /\ ReconcileVerifying
    BY <1>0, <1>1, <2>0, <2>1, <2>7, ThreadStepTypes DEF ReconcileVerifying
  <2>8. CASE StartMonitor(Settled, "settled")
    <3>1. Settled \in {"succeed", "claimVer"} /\ Fits(Settled, "settled", None)
      BY DEF Settled, Fits, OutPcs
    <3> QED
      BY <2>0, <2>8, <3>1, StartMonitorTypes
  <2> QED
    BY <1>3, <2>4, <2>5, <2>6, <2>7, <2>8 DEF ReconcileRun
<1>4. CASE FindWorkspace
  <2>1. Typed(Carry("daemon", "recWs")) /\ Typed(Carry("daemon", "intProv"))
    BY <1>0, <1>4, ThreadTyped, GoingTyped DEF FindWorkspace, ProgramPoints, Fits, OutPcs
  <2> QED
    BY <1>0, <1>4, <2>1, EventRecordedInv, ThreadStepTypes DEF FindWorkspace, Evidence, Stop
<1>5. CASE RecoverWorkspace
  <2>1. Typed(Carry("daemon", "claimClose"))
    BY <1>0, <1>5, ThreadTyped, GoingTyped DEF RecoverWorkspace, ProgramPoints, Fits, OutPcs
  <2> QED
    BY <1>0, <1>5, <2>1, WorkspaceRecoveredInv, CASTypes DEF RecoverWorkspace
<1>6. CASE InterruptProvisioning
  <2>1. CanInterruptExpiredProvisioning(row, x.now) => RowInv(ClaimFinished(row, Interrupted))
    BY <1>0, <1>1, ClaimFinishedInv DEF CanInterruptExpiredProvisioning
  <2> QED
    BY <1>0, <1>6, <2>1, CASTypes DEF InterruptProvisioning
<1>7. CASE CommandResult
  <2>1. Typed(CloseFor("daemon", Interrupted)) /\ Typed(At("daemon", "confExp"))
    BY <1>0, <1>1, <1>7, CloseForTyped, GoingTyped DEF CommandResult, ProgramPoints, Fits, OutPcs
  <2>2. x.from = "running" => Typed(At("daemon", Complete))
    <3>1. Complete \in {"failRun", "attest", "settle"}
      BY DEF Complete
    <3> QED
      BY <1>0, <1>7, <3>1, GoingTyped DEF CommandResult, ProgramPoints, Fits, OutPcs
  <2>3. CASE StartMonitor("waitCommand", "running")
    BY <1>7, <2>3, StartMonitorTypes DEF CommandResult, Fits, OutPcs
  <2> QED
    BY <1>0, <1>7, <2>1, <2>2, <2>3, ThreadStepTypes DEF CommandResult, Goto
<1>8. CASE ConfirmExpiredStart
  <2> DEFINE yes == [At("daemon", Complete) EXCEPT !.from = "running"]
  <2>1. Typed(yes)
    <3>1. Complete \in {"failRun", "attest", "settle"}
      BY DEF Complete
    <3> QED
      BY <1>0, <1>8, <3>1, FromSet DEF ConfirmExpiredStart, ProgramPoints, Fits, OutPcs, States, Nonterminal
  <2> HIDE DEF yes
  <2>2. PICK now \in Fresh("daemon") :
          CAS("daemon", CanConfirmExpiredCommandStart(row, now), StartConfirmed(row), yes, Idle)
    BY <1>8 DEF ConfirmExpiredStart, yes
  <2>3. CanConfirmExpiredCommandStart(row, now) => RowInv(StartConfirmed(row))
    BY <1>0, StartConfirmedInv DEF CanConfirmExpiredCommandStart, EffectUnowned
  <2> QED
    BY <1>0, <1>8, <2>1, <2>2, <2>3, CASTypes DEF ConfirmExpiredStart
<1>9. CASE ReadMarker
  <2> DEFINE o == IF marker = None THEN Interrupted ELSE marker
  <2>1. Sound(o) /\ o # None
    BY <1>1, OutsSound, NoneAssumption DEF Types, VerifierOuts
  <2>2. Become("daemon", [Carry("daemon", "expVer") EXCEPT !.out = o])
    BY <1>9 DEF ReadMarker
  <2> HIDE DEF o
  <2>3. Typed([Carry("daemon", "expVer") EXCEPT !.out = o])
    BY <1>0, <1>9, <2>1, OutSet DEF ReadMarker, ProgramPoints, Fits
  <2> QED
    BY <1>0, <1>9, <2>2, <2>3, ThreadStepTypes DEF ReadMarker
<1>10. CASE FinishExpiredVerifier
  <2>1. Sound(x.out)
    BY <1>0, <1>10, ThreadTyped DEF FinishExpiredVerifier, Fits, OutPcs
  <2>2. CanFinishExpiredVerifier(row, x.now) => RowInv(ExpiredVerifierFinished(row, x.out))
    BY <1>0, <2>1, ExpiredVerifierFinishedInv DEF CanFinishExpiredVerifier
  <2>3. OthersTyped'
    BY <1>10 DEF FinishExpiredVerifier, Types, OthersTyped, procs, ghosts
  <2> QED
    BY <1>0, <1>10, <2>2, <2>3, CASTypes DEF FinishExpiredVerifier
<1> QED
  BY <1>2, <1>3, <1>4, <1>5, <1>6, <1>7, <1>8, <1>9, <1>10 DEF Reconcile

\* A command starts with what it reads.
LEMMA CommandTyped ==
    ASSUME Types, NEW pc \in {"cliFinish", "recExists", "claimClose", "cliFind"}, NEW o, Sound(o)
    PROVE  LET x == Command(pc, o) IN
           Typed(x) /\ x.pc = pc /\ x.owner = "operator" /\ x.from = row.state /\ x.out = o /\ x.now = 0
<1> DEFINE snap == IF pc = "cliFind" THEN row ELSE None
<1>1. /\ o \in Outcomes /\ o # None /\ snap \in Rows \cup {None}
      /\ row.state \in Nonterminal \cup Terminal
  BY NoneAssumption DEF Sound, Types, RowInv, Rows
<1>2. Idle \in ThreadStates /\ Idle.now = 0
  BY IdleTyped DEF Typed, Idle
<1>3. pc \in ProgramPoints \ {"scan", "idle"} /\ Fits(pc, row.state, o)
  BY <1>1 DEF ProgramPoints, Fits
<1>4. Command(pc, o) = [Idle EXCEPT !.pc = pc, !.owner = "operator", !.from = row.state, !.out = o,
                                    !.snap = snap]
  BY DEF Command
<1> HIDE DEF snap
<1> DEFINE x == [Idle EXCEPT !.pc = pc, !.owner = "operator", !.from = row.state, !.out = o,
                             !.snap = snap]
<1>5. /\ x \in ThreadStates /\ x.pc = pc /\ x.owner = "operator" /\ x.from = row.state /\ x.out = o
      /\ x.now = 0
  BY <1>1, <1>2, <1>3, TokensTyped DEF ThreadStates
<1> HIDE DEF x
<1>6. Typed(x)
  BY <1>1, <1>3, <1>5, TokensTyped DEF Typed
<1> QED
  BY <1>4, <1>5, <1>6 DEF x

\* The operator's commands keep the types.
LEMMA OperatorTypes ==
    ASSUME Types, Operator
    PROVE  Types'
<1> USE IdleTyped, QuietTypes
<1>0. RowInv(row) /\ "cli" \in Threads
  BY DEF Types, Threads
<1>1. Sound(Interrupted) /\ Sound(Cancelled)
  BY OutsSound DEF CloseOuts
<1>2. CASE Cancel
  <2>1. row.ekind = "workspace_close" => Sound(row.intent)
    BY <1>0 DEF RowInv, EffectColumnsAgree, IntentSound
  <2>2. /\ Typed(Command("cliFinish", Cancelled)) /\ Typed(Command("claimClose", Cancelled))
        /\ row.ekind = "workspace_close" => Typed(Command("recExists", row.intent))
    BY <1>1, <2>1, CommandTyped
  <2> QED
    BY <1>0, <1>2, <2>2, ThreadStepTypes DEF Cancel
<1>3. CASE CancelAccepted
  <2>1. RowInv(Finished(row, Cancelled))
    BY <1>0, <1>1, FinishedInv
  <2> QED
    BY <1>0, <1>3, <2>1, CASTypes DEF CancelAccepted
<1>4. CASE RecoverProvisioning
  <2>1. Typed(Command("cliFind", Interrupted))
    BY <1>1, CommandTyped
  <2> QED
    BY <1>0, <1>4, <2>1, ThreadStepTypes DEF RecoverProvisioning
<1>5. CASE FindAbsent
  <2> DEFINE x == [th["cli"] EXCEPT !.pc = "cliRecover"]
  <2>1. Typed(th["cli"])
    BY <1>0 DEF Types
  <2>2. /\ x \in ThreadStates /\ x.pc = "cliRecover" /\ x.owner = th["cli"].owner
        /\ x.out = th["cli"].out
    BY <2>1 DEF Typed, ThreadStates, ProgramPoints
  <2>3. \/ Become("cli", Idle) \/ Become("cli", x)
    BY <1>5 DEF FindAbsent, Stop
  <2> HIDE DEF x
  <2>4. Typed(x)
    BY <1>5, <2>1, <2>2 DEF FindAbsent, Typed, Fits, OutPcs
  <2> QED
    BY <1>0, <1>5, <2>3, <2>4, ThreadStepTypes DEF FindAbsent
<1>6. CASE InterruptRecovered
  <2>1. CanInterruptRecovered(row, th["cli"].now) => RowInv(ClaimFinished(row, Interrupted))
    BY <1>0, <1>1, ClaimFinishedInv DEF CanInterruptRecovered
  <2> QED
    BY <1>0, <1>6, <2>1, CASTypes DEF InterruptRecovered
<1> QED
  BY <1>2, <1>3, <1>4, <1>5, <1>6 DEF Operator

\* Admission keeps the types.
LEMMA AdmissionTypes ==
    ASSUME Types, DecideAdmission
    PROVE  Types'
<1> USE IdleTyped, QuietTypes
<1>0. RowInv(row) /\ "exec" \in Threads /\ CanDecideAdmission(row) /\ OthersTyped'
  BY DEF Types, Threads, DecideAdmission
<1>1. ASSUME NEW s \in {"blocked", "failed"}, row' = AdmissionFinished(row, s), UNCHANGED th
      PROVE  Types'
  BY <1>0, <1>1, AdmissionFinishedInv DEF Types, OthersTyped
<1>2. ASSUME NEW o \in Owners, row' = Admitted(row, o, ProvisioningLease),
             Become("exec", [Idle EXCEPT !.pc = "renewProbe", !.owner = o])
      PROVE  Types'
  <2> DEFINE x == [Idle EXCEPT !.pc = "renewProbe", !.owner = o]
  <2>1. Idle \in ThreadStates /\ Idle.out = None
    BY IdleTyped DEF Typed, Idle
  <2>1a. "renewProbe" \in ProgramPoints
    BY DEF ProgramPoints
  <2>2. x \in ThreadStates /\ x.pc = "renewProbe" /\ x.owner = o /\ x.out = None
    BY <2>1, <2>1a DEF ThreadStates
  <2>3. Become("exec", x)
    BY <1>2
  <2> HIDE DEF x
  <2>4. Typed(x)
    BY <2>2 DEF Typed, Fits, OutPcs
  <2>5. RowInv(row')
    BY <1>0, <1>2, LeasesTyped, AdmittedInv
  <2> QED
    BY <1>0, <2>3, <2>4, <2>5, ThreadStepTypes
<1>3. {daemon} \cup (IF attended THEN {"attended"} ELSE {}) \subseteq Owners
  BY TokensTyped DEF Types
<1> QED
  BY <1>1, <1>2, <1>3 DEF DecideAdmission

\* Herdr, the operator's hands and crashes keep the types.
LEMMA WorldTypes ==
    ASSUME Types, Herdr \/ ByHand \/ Crash
    PROVE  Types'
<1>1. CASE Herdr
  BY <1>1 DEF Herdr, ServerProvisions, ServerStarts, ServerCloses, CommandExits, Types, procs, ghosts
<1>2. CASE ByHand
  BY <1>2 DEF ByHand, ClosedByHand, RemovedByHand, Types, procs, ghosts
<1>3. CASE Crash
  <2>1. ASSUME NEW o, th' = Killed(o)
        PROVE  th' \in [Threads -> ThreadStates] /\ \A u \in Threads : Typed(th'[u])
    BY <2>1, IdleTyped DEF Killed, Types, Typed
  <2> QED
    BY <1>3, <2>1 DEF Crash, CrashDaemon, CrashAttended, Types, world, ghosts
<1> QED
  BY <1>1, <1>2, <1>3

\* A thread a tick later.
LEMMA LaterTyped ==
    ASSUME Types, NEW t \in Threads
    PROVE  LET x == Later(t) IN
           /\ Typed(x) /\ x.pc = th[t].pc /\ x.owner = th[t].owner /\ x.from = th[t].from
           /\ x.out = th[t].out /\ x.snap = IF th[t].snap = None THEN None ELSE RowAged(th[t].snap)
           /\ x.now = IF th[t].now > Oldest(t) THEN th[t].now - 1 ELSE th[t].now
<1> DEFINE now == IF th[t].now > Oldest(t) THEN th[t].now - 1 ELSE th[t].now
<1> DEFINE snap == IF th[t].snap = None THEN None ELSE RowAged(th[t].snap)
<1>0. Typed(th[t]) /\ th[t] \in ThreadStates
  BY DEF Types, Typed
<1>1. Oldest(t) \in Int /\ Oldest(t) >= Past
  BY RowAssumption, LifecycleAssumption DEF Oldest, Past
<1>2. now \in Samples
  BY <1>1, ThreadTyped, RowAssumption DEF Samples, Past
<1>3. snap \in Rows \cup {None} /\ (th[t].pc = "scan" => RowInv(snap))
  <2>1. CASE th[t].snap = None
    BY <1>0, <2>1 DEF Typed
  <2>2. CASE th[t].snap # None
    <3>1. th[t].snap \in Rows
      BY <1>0, <2>2 DEF ThreadStates
    <3>2. RowAged(th[t].snap) \in Rows
      BY <3>1, AgedInstant DEF RowAged, Rows
    <3> QED
      BY <1>0, <2>2, <3>2, RowAgedInv DEF Typed
  <2> QED
    BY <2>1, <2>2
<1>4. Later(t) = [th[t] EXCEPT !.now = now, !.snap = snap]
  BY <1>0 DEF Later, ThreadStates
<1> HIDE DEF now, snap
<1> DEFINE x == [th[t] EXCEPT !.now = now, !.snap = snap]
<1>5. /\ x \in ThreadStates /\ x.pc = th[t].pc /\ x.owner = th[t].owner /\ x.from = th[t].from
      /\ x.out = th[t].out /\ x.snap = snap /\ x.now = now
  BY <1>0, <1>2, <1>3 DEF ThreadStates
<1> HIDE DEF x
<1>6. Typed(x)
  BY <1>0, <1>3, <1>5 DEF Typed
<1> QED
  BY <1>4, <1>5, <1>6 DEF x, now, snap

\* Time keeps the types.
LEMMA TickTypes ==
    ASSUME Types, Tick
    PROVE  Types'
<1>1. RowInv(row')
  BY RowAgedInv DEF Tick, Types
<1>2. ASSUME NEW u \in Threads PROVE th'[u] \in ThreadStates /\ Typed(th'[u])
  <2>1. th'[u] = IF th[u].pc = "idle" THEN th[u] ELSE Later(u)
    BY DEF Tick
  <2>2. Typed(th[u]) /\ Typed(Later(u))
    BY LaterTyped DEF Types
  <2> QED
    BY <2>1, <2>2 DEF Typed
<1>3. th' \in [Threads -> ThreadStates]
  BY <1>2 DEF Tick
<1>4. req' \in [Requests -> Spans]
  <2>1. \A k \in Requests : (IF req[k] > 0 THEN req[k] - 1 ELSE 0) \in Spans
    BY LifecycleAssumption DEF Types, Spans
  <2> QED
    BY <2>1 DEF Tick
<1> QED
  BY <1>1, <1>2, <1>3, <1>4 DEF Tick, Types, procs, ghosts

\* The first state.
LEMMA InitTypes == Init => Types
<1> SUFFICES ASSUME Init PROVE Types
  OBVIOUS
<1>1. row \in Rows
  BY PastInstant, LifecycleAssumption DEF Init, NewRow, Rows, Nonterminal, EffectKinds, Lanes
<1>2. RowInv(row)
  BY <1>1 DEF Init, NewRow, RowInv, EffectColumnsAgree, ClaimInPhase, FiledByVerdict,
              IntentSound, VerdictKnown, Nonterminal, Terminal
<1>3. th \in [Threads -> ThreadStates] /\ \A t \in Threads : Typed(th[t])
  BY IdleTyped DEF Init, Typed
<1>4. req \in [Requests -> Spans]
  BY SpansTyped DEF Init
<1> QED
  BY <1>2, <1>3, <1>4, LifecycleAssumption DEF Init, Types, JobShape

\* Every step keeps the types.
LEMMA NextTypes == Types /\ [Next]_vars => Types'
<1> SUFFICES ASSUME Types, [Next]_vars PROVE Types'
  OBVIOUS
<1>1. CASE DecideAdmission
  BY <1>1, AdmissionTypes
<1>2. CASE Execute("exec")
  BY <1>2, ExecuteTypes DEF Threads
<1>3. CASE \E t \in {"exec", "mon", "daemon"} : Monitor(t)
  BY <1>3, MonitorTypes DEF Threads
<1>4. CASE \E t \in Threads : Close(t)
  BY <1>4, CloseTypes
<1>5. CASE Reconcile
  BY <1>5, ReconcileTypes
<1>6. CASE Operator
  BY <1>6, OperatorTypes
<1>7. CASE Herdr \/ ByHand \/ Crash
  BY <1>7, WorldTypes
<1>8. CASE Tick
  BY <1>8, TickTypes
<1>9. CASE UNCHANGED vars
  BY <1>9 DEF vars, Types
<1> QED
  BY <1>1, <1>2, <1>3, <1>4, <1>5, <1>6, <1>7, <1>8, <1>9 DEF Next

\* The row stays well formed and every thread fit for its next statement.
THEOREM TypesInvariant == Spec => []Types
<1> QED
  BY InitTypes, NextTypes, PTL DEF Spec

-----------------------------------------------------------------------------
(* Where a thread is after its step, field by field.                       *)

\* The other threads do not move.
Moved(t) == \A u \in Threads \ {t} : th'[u] = th[u]

\* A thread that stops carries nothing.
LEMMA BecomeIdle ==
    ASSUME Types, NEW t \in Threads, Become(t, Idle)
    PROVE  Moved(t) /\ th'[t].pc = "idle" /\ th'[t].out = None
BY BecomeOthers DEF Moved, Idle

\* Arriving at a program point a thread keeps owner, state and outcome, and
\* samples the time anew.
LEMMA BecomeAt ==
    ASSUME Types, NEW t \in Threads, NEW pc \in ProgramPoints, Become(t, At(t, pc))
    PROVE  /\ Moved(t) /\ th'[t].pc = pc /\ th'[t].owner = th[t].owner /\ th'[t].from = th[t].from
           /\ th'[t].out = th[t].out /\ th'[t].now = 0
BY BecomeOthers, GoingFields DEF Moved

\* With Carry it keeps the sample too.
LEMMA BecomeCarry ==
    ASSUME Types, NEW t \in Threads, NEW pc \in ProgramPoints, Become(t, Carry(t, pc))
    PROVE  /\ Moved(t) /\ th'[t].pc = pc /\ th'[t].owner = th[t].owner /\ th'[t].from = th[t].from
           /\ th'[t].out = th[t].out /\ th'[t].now = th[t].now
BY BecomeOthers, GoingFields DEF Moved

\* An arrival that names the state the next statement expects.
LEMMA BecomeFrom ==
    ASSUME Types, NEW t \in Threads, NEW pc \in ProgramPoints, NEW f,
           Become(t, [At(t, pc) EXCEPT !.from = f])
    PROVE  /\ Moved(t) /\ th'[t].pc = pc /\ th'[t].owner = th[t].owner /\ th'[t].from = f
           /\ th'[t].out = th[t].out /\ th'[t].now = 0
<1> DEFINE y == At(t, pc)
<1>1. y \in ThreadStates /\ y.pc = pc /\ y.owner = th[t].owner /\ y.out = th[t].out /\ y.now = 0
  BY GoingFields
<1>2. th'[t] = [y EXCEPT !.from = f] /\ Moved(t)
  BY BecomeOthers DEF Moved
<1> HIDE DEF y
<1> QED
  BY <1>1, <1>2 DEF ThreadStates

\* An arrival that names the outcome the next statement writes.
LEMMA BecomeOut ==
    ASSUME Types, NEW t \in Threads, NEW pc \in ProgramPoints, NEW o,
           Become(t, [At(t, pc) EXCEPT !.out = o])
    PROVE  /\ Moved(t) /\ th'[t].pc = pc /\ th'[t].owner = th[t].owner
           /\ th'[t].from = th[t].from /\ th'[t].out = o /\ th'[t].now = 0
<1> DEFINE y == At(t, pc)
<1>1. y \in ThreadStates /\ y.pc = pc /\ y.owner = th[t].owner /\ y.from = th[t].from /\ y.now = 0
  BY GoingFields
<1>2. th'[t] = [y EXCEPT !.out = o] /\ Moved(t)
  BY BecomeOthers DEF Moved
<1> HIDE DEF y
<1> QED
  BY <1>1, <1>2 DEF ThreadStates

\* The same with the sample carried along.
LEMMA BecomeCarryOut ==
    ASSUME Types, NEW t \in Threads, NEW pc \in ProgramPoints, NEW o,
           Become(t, [Carry(t, pc) EXCEPT !.out = o])
    PROVE  /\ Moved(t) /\ th'[t].pc = pc /\ th'[t].from = th[t].from /\ th'[t].out = o
           /\ th'[t].now = th[t].now
<1> DEFINE y == Carry(t, pc)
<1>1. y \in ThreadStates /\ y.pc = pc /\ y.from = th[t].from /\ y.now = th[t].now
  BY GoingFields
<1>2. th'[t] = [y EXCEPT !.out = o] /\ Moved(t)
  BY BecomeOthers DEF Moved
<1> HIDE DEF y
<1> QED
  BY <1>1, <1>2 DEF ThreadStates

\* The late cleanup: the close is called for the state the row was in.
LEMMA BecomeLate ==
    ASSUME Types, NEW t \in Threads,
           Become(t, [At(t, "closeCall") EXCEPT !.from = row.state, !.out = LateIntent(row, Interrupted)])
    PROVE  /\ Moved(t) /\ th'[t].pc = "closeCall" /\ th'[t].owner = th[t].owner
           /\ th'[t].from = row.state /\ th'[t].out = LateIntent(row, Interrupted) /\ th'[t].now = 0
<1> DEFINE y == At(t, "closeCall")
<1>1. y \in ThreadStates /\ y.pc = "closeCall" /\ y.owner = th[t].owner /\ y.now = 0
  BY GoingFields DEF ProgramPoints
<1>2. th'[t] = [y EXCEPT !.from = row.state, !.out = LateIntent(row, Interrupted)] /\ Moved(t)
  BY DEF Become, Moved, Types
<1> HIDE DEF y
<1> QED
  BY <1>1, <1>2 DEF ThreadStates

\* The daemon starts a pass with the row as it is.
LEMMA BecomeScan ==
    ASSUME Types, ReadNonTerminalRuns
    PROVE  /\ Moved("daemon") /\ th'["daemon"].pc = "scan" /\ th'["daemon"].snap = row
           /\ th'["daemon"].now = 0 /\ th'["daemon"].owner = daemon
<1>1. Idle \in ThreadStates /\ Idle.now = 0
  BY IdleTyped DEF Typed, Idle
<1>2. th'["daemon"] = [Idle EXCEPT !.pc = "scan", !.owner = daemon, !.snap = row] /\ Moved("daemon")
  BY DEF ReadNonTerminalRuns, Become, Moved, Types, Threads
<1> QED
  BY <1>1, <1>2 DEF ThreadStates

\* The monitor goroutine starts, or one is already there and the daemon goes on.
LEMMA BecomeMonitor ==
    ASSUME Types, NEW pc, NEW from, StartMonitor(pc, from)
    PROVE  \/ Become("daemon", Idle)
           \/ /\ th'["daemon"] = Idle /\ th'["mon"].pc = pc /\ th'["mon"].from = from
              /\ th'["mon"].owner = daemon /\ th'["mon"].now = 0
              /\ ~InFlight
              /\ \A u \in Threads \ {"daemon", "mon"} : th'[u] = th[u]
<1>1. Idle \in ThreadStates /\ Idle.now = 0
  BY IdleTyped DEF Typed, Idle
<1>2. CASE InFlight
  BY <1>2 DEF StartMonitor, Stop
<1>3. CASE ~InFlight
  <2>1. /\ th'["daemon"] = Idle
        /\ th'["mon"] = [Idle EXCEPT !.pc = pc, !.owner = daemon, !.from = from]
        /\ \A u \in Threads \ {"daemon", "mon"} : th'[u] = th[u]
    BY <1>3 DEF StartMonitor, Types, Threads
  <2> QED
    BY <1>1, <1>3, <2>1 DEF ThreadStates
<1> QED
  BY <1>2, <1>3

\* The daemon looks the workspace of a close up that it has read.
LEMMA BecomeClosing ==
    ASSUME Types, Become("daemon", Looking("recExists", Scanned.intent))
    PROVE  /\ Moved("daemon") /\ th'["daemon"].pc = "recExists" /\ th'["daemon"].from = Scanned.state
           /\ th'["daemon"].out = Scanned.intent /\ th'["daemon"].now = 0
<1> DEFINE y == Carry("daemon", "recExists")
<1>1. y \in ThreadStates /\ y.pc = "recExists"
  BY GoingFields DEF ProgramPoints, Threads
<1>2. th'["daemon"] = [y EXCEPT !.now = 0, !.from = Scanned.state, !.out = Scanned.intent]
  BY DEF Become, Types, Looking, Threads
<1>3. Moved("daemon")
  BY DEF Become, Types, Moved
<1> HIDE DEF y
<1> QED
  BY <1>1, <1>2, <1>3 DEF ThreadStates

\* The daemon has read the durable result of the verifier.
LEMMA BecomeRead ==
    ASSUME Types, Become("daemon", [Carry("daemon", "expVer") EXCEPT
                                       !.out = IF marker = None THEN Interrupted ELSE marker])
    PROVE  /\ Moved("daemon") /\ th'["daemon"].pc = "expVer"
           /\ th'["daemon"].out = IF marker = None THEN Interrupted ELSE marker
           /\ th'["daemon"].now = th["daemon"].now
<1> DEFINE y == Carry("daemon", "expVer")
<1>1. y \in ThreadStates /\ y.pc = "expVer" /\ y.now = th["daemon"].now
  BY GoingFields DEF ProgramPoints, Threads
<1>2. th'["daemon"] = [y EXCEPT !.out = IF marker = None THEN Interrupted ELSE marker] /\ Moved("daemon")
  BY DEF Become, Types, Moved, Threads
<1> HIDE DEF y
<1> QED
  BY <1>1, <1>2 DEF ThreadStates

\* The daemon turns from the run as scanned to a program point of its own.
LEMMA BecomeLooking ==
    ASSUME Types, NEW pc \in ProgramPoints, NEW o, Become("daemon", Looking(pc, o))
    PROVE  /\ Moved("daemon") /\ th'["daemon"].pc = pc /\ th'["daemon"].from = Scanned.state
           /\ th'["daemon"].out = o /\ th'["daemon"].now = 0
<1>0. "daemon" \in Threads
  BY DEF Threads
<1> DEFINE y == Carry("daemon", pc)
<1>1. y \in ThreadStates /\ y.pc = pc
  BY <1>0, GoingFields
<1>2. th'["daemon"] = [y EXCEPT !.now = 0, !.from = Scanned.state, !.out = o] /\ Moved("daemon")
  BY <1>0, BecomeOthers DEF Moved, Looking
<1> HIDE DEF y
<1> QED
  BY <1>1, <1>2 DEF ThreadStates

\* `cancel' of a run whose close has lapsed works on that close.
LEMMA BecomeCancelling ==
    ASSUME Types, Become("cli", Command("recExists", row.intent))
    PROVE  /\ Moved("cli") /\ th'["cli"].pc = "recExists" /\ th'["cli"].from = row.state
           /\ th'["cli"].out = row.intent /\ th'["cli"].now = 0
<1>1. Idle \in ThreadStates /\ Idle.now = 0
  BY IdleTyped DEF Typed, Idle
<1>2. th'["cli"] = Command("recExists", row.intent) /\ Moved("cli")
  BY DEF Become, Types, Moved, Threads
<1> QED
  BY <1>1, <1>2 DEF Command, ThreadStates

\* `recover' has found the branch absent.
LEMMA BecomeRecovering ==
    ASSUME Types, Become("cli", [th["cli"] EXCEPT !.pc = "cliRecover"])
    PROVE  /\ Moved("cli") /\ th'["cli"].pc = "cliRecover" /\ th'["cli"].snap = th["cli"].snap
           /\ th'["cli"].now = th["cli"].now
<1>1. "cli" \in Threads /\ th["cli"] \in ThreadStates
  BY DEF Types, Threads
<1>2. th'["cli"] = [th["cli"] EXCEPT !.pc = "cliRecover"] /\ Moved("cli")
  BY <1>1 DEF Become, Types, Moved
<1> QED
  BY <1>1, <1>2 DEF ThreadStates

\* The execute goroutine starts when its run is admitted.
LEMMA BecomeExec ==
    ASSUME Types, NEW o, Become("exec", [Idle EXCEPT !.pc = "renewProbe", !.owner = o])
    PROVE  /\ Moved("exec") /\ th'["exec"].pc = "renewProbe" /\ th'["exec"].owner = o
           /\ th'["exec"].now = 0
<1>1. Idle \in ThreadStates /\ Idle.now = 0
  BY IdleTyped DEF Typed, Idle
<1>2. th'["exec"] = [Idle EXCEPT !.pc = "renewProbe", !.owner = o] /\ Moved("exec")
  BY DEF Become, Types, Moved, Threads
<1> QED
  BY <1>1, <1>2 DEF ThreadStates

\* The operator's command starts from the row as it is.
LEMMA BecomeCommand ==
    ASSUME Types, NEW pc \in {"cliFinish", "recExists", "claimClose", "cliFind"}, NEW o, Sound(o),
           Become("cli", Command(pc, o))
    PROVE  /\ Moved("cli") /\ th'["cli"].pc = pc /\ th'["cli"].from = row.state
           /\ th'["cli"].out = o /\ th'["cli"].now = 0
<1>0. "cli" \in Threads
  BY DEF Threads
<1>1. th'["cli"] = Command(pc, o) /\ Moved("cli")
  BY <1>0, BecomeOthers DEF Moved
<1> QED
  BY <1>1, CommandTyped

-----------------------------------------------------------------------------
(* The outcome of a run, with any number of crashes of the threads in      *)
(* between and however late the clocks are.  Workspaces and their closes:  *)
(* CloseWorkspace is called once for a run, and a run that timed out or    *)
(* was cancelled has no open workspace.  Results: a settled run is one     *)
(* whose command exited zero and whose attestation is recorded, and a      *)
(* passed verdict is the verdict of the one verifier invocation, whoever   *)
(* persists it.                                                            *)

(* What a step may do to the row, whoever takes it.                        *)

RowRely(r, n) ==
    /\ Reached(r.state, n.state)
    /\ r.workspace => n.workspace
    /\ r.ekind = "workspace_close" =>
          \/ n.ekind = "workspace_close" /\ n.intent = r.intent
          \/ n.ekind = "none" /\ n.state \in Terminal
    /\ r.ekind # "workspace_close" /\ r.workspace /\ n.ekind = "workspace_close" =>
          r.state \notin Terminal
    /\ AttestedRow(r) => AttestedRow(n)
    /\ r.state \in Terminal => n.verdict = r.verdict

\* The close a thread works on, asked for when the run was in `from'.
CloseOf(r, from, out) ==
    /\ from \in Active \cup Terminal /\ out \in Outcomes
    /\ Reached(from, r.state) /\ r.workspace
    /\ from \in Active => out \in CloseOuts
    /\ from \in Active /\ r.state = from => r.ekind = "workspace_close" /\ r.intent = out
    /\ from \in Terminal /\ r.ekind = "workspace_close" => r.intent = out

-----------------------------------------------------------------------------
(* The assertions of the threads.                                          *)

ClosePcs == {"closeCall", "closeWait", "exists", "closeFin", "recExists", "reclaim"}
StartPcs == {"stage", "failStarting", "renewStart", "startCommand", "startWait", "confirm"}
ReceiptPcs == {"saveReceipt", "savePartial", "late", "recWs"}

\* What the daemon read is an earlier version of the row.
ReadEarlier(r, snap) ==
    /\ snap \in Rows /\ Reached(snap.state, r.state)
    /\ snap.workspace => r.workspace
    /\ snap.state \in {"starting", "running", "settled", "verifying"} => snap.workspace
    /\ snap.ekind = "workspace_close" => CloseOf(r, snap.state, snap.intent)

CloseLocal(x, r, w) ==
    /\ x.pc = "claimClose" => r.workspace /\ x.from \in Active /\ x.out \in CloseOuts
    /\ x.pc \in ClosePcs => CloseOf(r, x.from, x.out)
    /\ x.pc \in {"closeFin", "reclaim"} => w # "open"
    /\ x.pc = "scan" => ReadEarlier(r, x.snap)
    /\ x.pc \in {"find", "recWs"} => x.from = "provisioning" /\ x.out = Interrupted
    /\ x.pc \in ReceiptPcs => w # "none"
    /\ x.pc \in StartPcs => Reached("starting", r.state)
    /\ x.pc = "result" => r.workspace /\ x.from \in {"starting", "running"}
    /\ x.pc = "waitCommand" => r.workspace /\ x.from = "running"
    /\ x.pc \in {"finVer", "expVer"} => x.out \in VerifierOuts \cup {Interrupted}

\* The row and the workspace it names.
Placed ==
    /\ row.workspace => ws # "none"
    /\ row.state \in {"starting", "running", "settled", "verifying"} => row.workspace
    /\ row.state = "accepted" => ~row.workspace
    /\ row.ekind = "workspace_close" => row.workspace
    /\ row.ekind = "workspace_close" /\ row.state \in Active => row.intent \in CloseOuts

\* The run's executor has not started, or has ended the run with its workspace.
Retired ==
    /\ row.state = "accepted" => th["exec"].pc = "idle"
    /\ row.state \in {"timed_out", "cancelled"} =>
          IF row.workspace THEN ws # "open" ELSE th["exec"].pc = "idle"

\* A close is called under the one claim of the run.
CloseOnce ==
    /\ closes > 0 \/ (\E t \in Threads : th[t].pc = "closeCall") =>
          row.workspace /\ (row.ekind = "workspace_close" \/ row.state \in Terminal)
    /\ \A t \in Threads : th[t].pc = "closeCall" =>
          closes = 0 /\ \A u \in Threads \ {t} : th[u].pc # "closeCall"
    /\ closes <= 1

CloseThreads == \A t \in Threads : CloseLocal(th[t], row, ws)

CloseInv == CloseThreads /\ Placed /\ Retired /\ CloseOnce

-----------------------------------------------------------------------------
(* Stability.                                                              *)

\* What a step may do to the workspace: it is created once and never reopened.
WsRely(w, x) ==
    /\ w # "none" => x # "none"
    /\ w \in {"closed", "removed"} => x # "open"

\* A close claim survives every step, or is finished.
LEMMA CloseOfStable ==
    ASSUME NEW r, NEW n, NEW from, NEW out, RowRely(r, n), CloseOf(r, from, out)
    PROVE  CloseOf(n, from, out)
<1>1. Reached(from, n.state) /\ n.workspace
  BY ReachedOn DEF RowRely, CloseOf
<1>2. from \in Terminal => r.state = from /\ n.state = from
  BY DEF CloseOf, RowRely, Reached, Precedes, Nonterminal, Terminal
<1>3. from \in Active /\ n.state = from => r.state = from
  <2> SUFFICES ASSUME n.state = from, r.state # from PROVE FALSE
    OBVIOUS
  <2>1. Precedes(from, r.state) /\ Reached(r.state, from)
    BY DEF CloseOf, RowRely, Reached
  <2> QED
    BY <2>1, PrecedesStrict DEF Reached
<1>4. from \in Active => from \notin Terminal
  BY DEF Active, Nonterminal, Terminal
<1> QED
  BY <1>1, <1>2, <1>3, <1>4 DEF CloseOf, RowRely

\* A thread's assertion survives the steps of everybody else.
LEMMA CloseLocalStable ==
    ASSUME NEW x, NEW r, NEW n, NEW w, NEW v, w \in {"none", "open", "closed", "removed"},
           RowRely(r, n), WsRely(w, v), r.workspace => w # "none", CloseLocal(x, r, w)
    PROVE  CloseLocal(x, n, v)
<1>1. x.pc \in ClosePcs => CloseOf(n, x.from, x.out) /\ r.workspace
  BY CloseOfStable DEF CloseLocal, CloseOf
<1>2. x.pc \in {"closeFin", "reclaim"} => v # "open"
  BY <1>1 DEF CloseLocal, WsRely, ClosePcs
<1>3. x.pc = "scan" => ReadEarlier(n, x.snap)
  BY CloseOfStable, ReachedOn DEF CloseLocal, ReadEarlier, RowRely
<1>4. x.pc \in StartPcs => Reached("starting", n.state)
  BY ReachedOn DEF CloseLocal, RowRely
<1> QED
  BY <1>1, <1>2, <1>3, <1>4 DEF CloseLocal, RowRely, WsRely

-----------------------------------------------------------------------------
(* The shapes of the statements.                                           *)

Grows(r, n) == r.workspace => n.workspace

\* Columns no thread depends on, or a workspace becomes known.
LEMMA RelyKept ==
    ASSUME NEW r, NEW n, SameState(r, n), Grows(r, n), SameEffect(r, n), SameEvidence(r, n)
    PROVE  RowRely(r, n)
BY DEF SameState, Grows, SameEffect, SameEvidence, RowRely, Reached, AttestedRow

\* The run moves on to a later state.
LEMMA RelyForward ==
    ASSUME NEW r, NEW n, Precedes(r.state, n.state), Grows(r, n), SameEffect(r, n), SameEvidence(r, n)
    PROVE  RowRely(r, n)
BY DEF Grows, SameEffect, SameEvidence, RowRely, Reached, AttestedRow, Precedes, Nonterminal, Terminal

\* The run ends, its effect with it or not.
LEMMA RelyEnded ==
    ASSUME NEW r, NEW n, r.state \in Nonterminal, n.state \in Terminal, Grows(r, n),
           SameEvidence(r, n), SameEffect(r, n) \/ Cleared(n)
    PROVE  RowRely(r, n)
BY DEF Grows, SameEffect, SameEvidence, Cleared, RowRely, Reached, AttestedRow, Precedes,
       Nonterminal, Terminal

\* A terminal run gives its close up.
LEMMA RelyReleased ==
    ASSUME NEW r, NEW n, r.state \in Terminal, SameState(r, n), Grows(r, n), Cleared(n),
           SameEvidence(r, n)
    PROVE  RowRely(r, n)
BY DEF Grows, SameState, SameEvidence, Cleared, RowRely, Reached, AttestedRow

\* A close is claimed, for a terminal run only together with its workspace.
LEMMA RelyFenced ==
    ASSUME NEW r, NEW n, NEW o, NEW c, NEW out, SameState(r, n), Grows(r, n), SameEvidence(r, n),
           CloseSet(n, o, c, out),
           IF r.ekind = "workspace_close" THEN r.intent = out ELSE r.workspace => r.state \notin Terminal
    PROVE  RowRely(r, n)
BY DEF Grows, SameState, SameEvidence, CloseSet, RowRely, Reached, AttestedRow

\* The verifier is claimed.
LEMMA RelyVerifying ==
    ASSUME NEW r, NEW n, CanClaimVerifier(r), n.state = "verifying", n.ekind = "verifier",
           Grows(r, n), SameEvidence(r, n)
    PROVE  RowRely(r, n)
BY DEF Grows, SameEvidence, CanClaimVerifier, EffectBlank, RowRely, Reached, Precedes, AttestedRow,
       Terminal

\* The attestation is recorded.
LEMMA RelyAttested ==
    ASSUME NEW r, NEW n, SameState(r, n), Grows(r, n), SameEffect(r, n), AttestedRow(n)
    PROVE  RowRely(r, n)
BY DEF SameState, Grows, SameEffect, RowRely, Reached

-----------------------------------------------------------------------------
(* What a step of one thread has to show.                                  *)

\* A claim to close is new, so nobody has called CloseWorkspace yet.
FreshClaim(r, n) ==
    /\ r.ekind # "workspace_close" /\ (r.state \in Terminal => ~r.workspace)
    /\ n.ekind = "workspace_close" /\ n.workspace
\* A run is retired with its workspace gone, or before it could have one.
RetiredBy(r, n) ==
    n.state \in {"timed_out", "cancelled"} =>
        \/ n.state = r.state /\ n.workspace = r.workspace
        \/ n.workspace /\ ws # "open"
        \/ ~n.workspace /\ r.state = "accepted"

\* A step of one thread that calls no CloseWorkspace keeps the invariant when it
\* leaves this thread fit for the row, and any new claim to close is the first.
LEMMA CloseStep ==
    ASSUME Types, Types', CloseInv, NEW t \in Threads, Moved(t),
           t = "exec" => th[t].pc # "idle" \/ row'.state \in {"provisioning", "blocked", "failed"},
           RowRely(row, row'), ws' = ws, closes' = closes, Placed',
           CloseLocal(th'[t], row', ws), RetiredBy(row, row'),
           th'[t].pc = "closeCall" => FreshClaim(row, row')
    PROVE  CloseInv'
<1> USE DEF CloseInv
<1>1. CloseThreads'
  <2> SUFFICES ASSUME NEW u \in Threads PROVE CloseLocal(th'[u], row', ws')
    BY DEF CloseThreads
  <2>1. CASE u = t
    BY <2>1
  <2>2. CASE u # t
    <3>1. th'[u] = th[u] /\ CloseLocal(th[u], row, ws)
      BY <2>2 DEF Moved, CloseThreads
    <3>2. WsRely(ws, ws') /\ (row.workspace => ws # "none")
      BY DEF WsRely, Placed
    <3>3. ws \in {"none", "open", "closed", "removed"}
      BY DEF Types
    <3>4. CloseLocal(th[u], row', ws')
      BY <3>1, <3>2, <3>3, CloseLocalStable
    <3> QED
      BY <3>1, <3>4
  <2> QED
    BY <2>1, <2>2
<1>2. Retired'
  <2>1. row'.state = "accepted" => row.state = "accepted"
    BY DEF RowRely, Reached, Precedes, Active, Terminal
  <2>2. \/ th["exec"].pc = "idle" => th'["exec"] = th["exec"]
        \/ row'.state \in {"provisioning", "blocked", "failed"}
    BY DEF Moved, Threads
  <2> QED
    BY <2>1, <2>2 DEF Retired, RetiredBy
<1>3. CloseOnce'
  <2>1. CASE th'[t].pc = "closeCall"
    <3>1. closes = 0 /\ \A u \in Threads : th[u].pc # "closeCall"
      BY <2>1 DEF CloseOnce, FreshClaim, Types
    <3> QED
      BY <2>1, <3>1 DEF CloseOnce, FreshClaim, Moved
  <2>2. CASE th'[t].pc # "closeCall"
    <3>1. \A u \in Threads : th'[u].pc = "closeCall" => th[u].pc = "closeCall"
      BY <2>2 DEF Moved
    <3>2. row.state \in Terminal => row'.state \in Terminal
      BY DEF RowRely, Reached, Precedes, Nonterminal, Terminal
    <3> QED
      BY <3>1, <3>2 DEF CloseOnce, RowRely
  <2> QED
    BY <2>1, <2>2
<1> QED
  BY <1>1, <1>2, <1>3

\* The thread only moves.
LEMMA CloseMove ==
    ASSUME Types, Types', CloseInv, NEW t \in Threads, Moved(t), t = "exec" => th[t].pc # "idle",
           UNCHANGED <<row, ws, closes>>, CloseLocal(th'[t], row, ws), th'[t].pc # "closeCall"
    PROVE  CloseInv'
<1>1. RowRely(row, row') /\ Placed' /\ RetiredBy(row, row')
  BY DEF CloseInv, Placed, RowRely, Reached, RetiredBy, Types, RowInv, Rows
<1> QED
  BY <1>1, CloseStep

\* The row keeps its state and its effect, and may learn of the workspace.
LEMMA PlacedKept ==
    ASSUME Placed, SameState(row, row'), row'.workspace = row.workspace, SameEffect(row, row'), ws' = ws
    PROVE  Placed'
BY DEF Placed, SameState, SameEffect

\* The row ends with the workspace it has.
LEMMA PlacedEnded ==
    ASSUME Placed, row'.state \in Terminal, row'.workspace = row.workspace,
           SameEffect(row, row') \/ Cleared(row'), ws' = ws
    PROVE  Placed'
BY DEF Placed, SameEffect, Cleared, Terminal, Active, Nonterminal

\* The thread stops, with or without leaving evidence.
LEMMA CloseQuits ==
    ASSUME Types, Types', CloseInv, NEW t \in Threads, th[t].pc # "idle", Become(t, Idle),
           row' = row \/ row' = EventRecorded(row), UNCHANGED <<ws, closes>>
    PROVE  CloseInv'
<1>0. RowInv(row)
  BY DEF Types
<1>1. SameState(row, row') /\ SamePlace(row, row') /\ SameEffect(row, row') /\ SameEvidence(row, row')
  BY <1>0, EventColumns DEF SameState, SamePlace, SameEffect, SameEvidence
<1>2. RowRely(row, row')
  BY <1>1, RelyKept DEF SamePlace, Grows
<1>3. Placed' /\ RetiredBy(row, row')
  BY <1>1, PlacedKept DEF CloseInv, SamePlace, SameState, RetiredBy
<1>4. Moved(t) /\ th'[t].pc = "idle"
  BY BecomeIdle
<1>5. CloseLocal(th'[t], row', ws)
  BY <1>4 DEF CloseLocal, ClosePcs, StartPcs, ReceiptPcs
<1> QED
  BY <1>2, <1>3, <1>4, <1>5, CloseStep

\* The thread stops and has ended the run: timed out or cancelled only when
\* the workspace is gone or was never asked for.
LEMMA CloseEnds ==
    ASSUME Types, Types', CloseInv, NEW t \in Threads, th[t].pc # "idle", Become(t, Idle),
           row.state \in Nonterminal, row'.state \in Terminal, SamePlace(row, row'),
           SameEvidence(row, row'), SameEffect(row, row') \/ Cleared(row'),
           row'.state \in {"timed_out", "cancelled"} =>
               IF row.workspace THEN ws # "open" ELSE row.state = "accepted",
           UNCHANGED <<ws, closes>>
    PROVE  CloseInv'
<1>1. RowRely(row, row')
  BY RelyEnded DEF SamePlace, Grows
<1>2. Placed' /\ RetiredBy(row, row')
  BY PlacedEnded DEF CloseInv, SamePlace, RetiredBy, Types, RowInv, Rows
<1>3. Moved(t) /\ th'[t].pc = "idle"
  BY BecomeIdle
<1>4. CloseLocal(th'[t], row', ws)
  BY <1>3 DEF CloseLocal, ClosePcs, StartPcs, ReceiptPcs
<1> QED
  BY <1>1, <1>2, <1>3, <1>4, CloseStep

-----------------------------------------------------------------------------
(* The actions.                                                            *)

\* Engine.execute: the claims and calls before the receipt.
LEMMA ProvisionKeepsClose ==
    ASSUME Types, Types', CloseInv, NEW t \in Threads,
           \/ \E pc \in {"renewProbe", "renewProvision", "renewStart"},
                 next \in {"probe", "savePlan", "startCommand"} :
                 Renew(t, pc, next) /\ (pc = "renewStart" <=> next = "startCommand")
           \/ Probe(t) \/ Stage(t) \/ FailProvisioning(t) \/ FailStarting(t) \/ SavePlan(t)
           \/ IssueProvision(t) \/ IssueStart(t) \/ ProvisionReturns(t) \/ StartReturns(t)
    PROVE  CloseInv'
<1>0. RowInv(row) /\ UNCHANGED <<ws, closes>>
  BY DEF Types, Renew, Probe, Stage, FailProvisioning, FailStarting, SavePlan, IssueProvision,
         IssueStart, ProvisionReturns, StartReturns, world, ghosts
<1>l. CloseLocal(th[t], row, ws)
  BY DEF CloseInv, CloseThreads
<1>1. ASSUME NEW pc \in {"renewProbe", "renewProvision", "renewStart"},
             NEW next \in {"probe", "savePlan", "startCommand"},
             pc = "renewStart" <=> next = "startCommand", Renew(t, pc, next)
      PROVE  CloseInv'
  <2> PICK now \in Fresh(t) :
         CAS(t, CanRenewProvisioningClaim(row, th[t].owner, now),
             Renewed(row, now + ProvisioningLease), At(t, next), Idle)
    BY <1>1 DEF Renew
  <2>1. CASE UNCHANGED row /\ Become(t, Idle)
    BY <1>0, <1>1, <2>1, CloseQuits DEF Renew
  <2>2. CASE row' = Renewed(row, now + ProvisioningLease) /\ Become(t, At(t, next))
    <3>1. now + ProvisioningLease \in Instants /\ next \in ProgramPoints
      BY FreshSample, LeasesTyped DEF ProgramPoints
    <3>2. SameState(row, row') /\ SamePlace(row, row') /\ SameEffect(row, row') /\ SameEvidence(row, row')
      BY <1>0, <2>2, <3>1, RenewedColumns
    <3>3. RowRely(row, row') /\ Placed' /\ RetiredBy(row, row')
      BY <1>0, <3>2, RelyKept, PlacedKept DEF CloseInv, SamePlace, SameState, Grows, RetiredBy
    <3>4. Moved(t) /\ th'[t].pc = next
      BY <2>2, <3>1, BecomeAt
    <3>5. CloseLocal(th'[t], row', ws)
      BY <1>1, <1>l, <3>2, <3>4 DEF CloseLocal, ClosePcs, StartPcs, ReceiptPcs, SameState, Renew
    <3> QED
      BY <1>0, <1>1, <3>3, <3>4, <3>5, CloseStep DEF Renew
  <2> QED
    BY <2>1, <2>2 DEF CAS
<1>2. ASSUME NEW pc \in {"renewProvision", "failProvisioning", "provWait", "renewStart",
                         "failStarting", "startWait", "saveReceipt", "savePartial", "confirm"},
             UNCHANGED row, Become(t, At(t, pc)), th[t].pc # "idle",
             pc \in StartPcs => th[t].pc \in StartPcs, pc \in ReceiptPcs => ws # "none"
      PROVE  CloseInv'
  <2>1. pc \in ProgramPoints
    BY DEF ProgramPoints
  <2>2. Moved(t) /\ th'[t].pc = pc
    BY <1>2, <2>1, BecomeAt
  <2>3. CloseLocal(th'[t], row, ws)
    BY <1>l, <1>2, <2>2 DEF CloseLocal, ClosePcs, StartPcs, ReceiptPcs
  <2> QED
    BY <1>0, <1>2, <2>2, <2>3, CloseMove
<1>3. CASE Probe(t)
  BY <1>3, <1>2 DEF Probe, Goto, StartPcs, ReceiptPcs
<1>4. CASE Stage(t)
  BY <1>4, <1>2 DEF Stage, Goto, StartPcs, ReceiptPcs
<1>5. CASE FailProvisioning(t) \/ FailStarting(t)
  <2>1. CASE UNCHANGED row /\ Become(t, Idle)
    BY <1>0, <1>5, <2>1, CloseQuits DEF FailProvisioning, FailStarting
  <2>2. CASE /\ row' = ClaimFinished(row, Failed) /\ Become(t, Idle)
             /\ row.state \in {"provisioning", "starting"}
    <3>1. Sound(Failed) /\ Failed.state = "failed"
      BY OutsSound DEF VerifierOuts, Failed, Outcome
    <3>2. row'.state = "failed" /\ SamePlace(row, row') /\ SameEffect(row, row') /\ SameEvidence(row, row')
      BY <1>0, <2>2, <3>1, ClaimFinishedColumns
    <3> QED
      BY <1>0, <1>5, <2>2, <3>2, CloseEnds
      DEF FailProvisioning, FailStarting, Nonterminal, Terminal
  <2> QED
    BY <1>5, <2>1, <2>2 DEF FailProvisioning, FailStarting, CanFinishProvisioningClaim,
                            CanFinishStartingClaim, CAS
<1>6. CASE SavePlan(t)
  <2>1. CASE UNCHANGED row /\ Become(t, Idle)
    BY <1>0, <1>6, <2>1, CloseQuits DEF SavePlan
  <2>2. CASE row' = PlanSaved(row) /\ Become(t, At(t, "provision"))
    <3>1. SameState(row, row') /\ row'.workspace = row.workspace /\ SameEffect(row, row')
          /\ SameEvidence(row, row')
      BY <1>0, <2>2, PlanSavedColumns
    <3>2. RowRely(row, row') /\ Placed' /\ RetiredBy(row, row')
      BY <1>0, <3>1, RelyKept, PlacedKept DEF CloseInv, SameState, Grows, RetiredBy
    <3>3. Moved(t) /\ th'[t].pc = "provision"
      BY <2>2, BecomeAt DEF ProgramPoints
    <3>4. CloseLocal(th'[t], row', ws)
      BY <3>3 DEF CloseLocal, ClosePcs, StartPcs, ReceiptPcs
    <3> QED
      BY <1>0, <1>6, <3>2, <3>3, <3>4, CloseStep DEF SavePlan
  <2> QED
    BY <1>6, <2>1, <2>2 DEF SavePlan, CAS
<1>7. CASE IssueProvision(t) \/ IssueStart(t)
  BY <1>0, <1>7, <1>2, CloseQuits DEF IssueProvision, IssueStart, Evidence, Stop, Goto, StartPcs, ReceiptPcs
<1>8. CASE ProvisionReturns(t) \/ StartReturns(t)
  BY <1>0, <1>8, <1>2, CloseQuits DEF ProvisionReturns, StartReturns, Evidence, Stop, Goto, StartPcs, ReceiptPcs
<1> QED
  BY <1>1, <1>3, <1>4, <1>5, <1>6, <1>7, <1>8

\* Engine.execute: the receipt, its late cleanup, and the confirmed start.
LEMMA ReceiptKeepsClose ==
    ASSUME Types, Types', CloseInv,
           \/ SaveReceipt("exec") \/ SavePartial("exec")
           \/ ClaimLateCleanup("exec") \/ ConfirmStart("exec")
    PROVE  CloseInv'
<1> DEFINE t == "exec"
<1>0. RowInv(row) /\ UNCHANGED <<ws, closes>> /\ t \in Threads /\ th[t].pc # "idle"
  BY DEF Types, SaveReceipt, SavePartial, ClaimLateCleanup, ConfirmStart, world, ghosts, Threads
<1>l. CloseLocal(th[t], row, ws)
  BY <1>0 DEF CloseInv, CloseThreads
<1>1. CASE UNCHANGED row /\ Become(t, Idle)
  BY <1>0, <1>1, CloseQuits
<1>2. CASE UNCHANGED row /\ Become(t, At(t, "late")) /\ ws # "none"
  <2>1. Moved(t) /\ th'[t].pc = "late"
    BY <1>0, <1>2, BecomeAt DEF ProgramPoints
  <2>2. CloseLocal(th'[t], row, ws)
    BY <1>2, <2>1 DEF CloseLocal, ClosePcs, StartPcs, ReceiptPcs
  <2> QED
    BY <1>0, <1>2, <2>1, <2>2, CloseMove
<1>3. CASE /\ row.state = "provisioning" /\ row' = ReceiptSaved(row) /\ Become(t, At(t, "stage"))
           /\ ws # "none"
  <2>1. row'.state = "starting" /\ row'.workspace /\ SameEffect(row, row') /\ SameEvidence(row, row')
    BY <1>0, <1>3, ReceiptSavedColumns
  <2>2. Precedes(row.state, row'.state) /\ row.state \in Active
    BY <1>3, <2>1 DEF Precedes, Active, Nonterminal
  <2>3. RowRely(row, row')
    BY <2>1, <2>2, RelyForward DEF Grows
  <2>4. Placed' /\ RetiredBy(row, row')
    BY <1>0, <1>3, <2>1, <2>2 DEF CloseInv, Placed, RetiredBy, SameEffect
  <2>5. Moved(t) /\ th'[t].pc = "stage"
    BY <1>0, <1>3, BecomeAt DEF ProgramPoints
  <2>6. CloseLocal(th'[t], row', ws)
    BY <2>1, <2>5 DEF CloseLocal, ClosePcs, StartPcs, ReceiptPcs, Reached
  <2> QED
    BY <1>0, <2>3, <2>4, <2>5, <2>6, CloseStep
<1>4. CASE /\ row.state = "provisioning" /\ row' = EventRecorded(PartialReceiptSaved(row, TRUE))
           /\ Become(t, Idle) /\ ws # "none"
  <2>1. SameState(row, row') /\ row'.workspace /\ SameEffect(row, row') /\ SameEvidence(row, row')
    BY <1>0, <1>4, PartialColumns
  <2>2. RowRely(row, row')
    BY <2>1, RelyKept DEF Grows
  <2>3. Placed' /\ RetiredBy(row, row')
    BY <1>0, <1>4, <2>1 DEF CloseInv, Placed, RetiredBy, SameEffect, SameState
  <2>4. Moved(t) /\ th'[t].pc = "idle"
    BY <1>0, <1>4, BecomeIdle
  <2>5. CloseLocal(th'[t], row', ws)
    BY <2>4 DEF CloseLocal, ClosePcs, StartPcs, ReceiptPcs
  <2> QED
    BY <1>0, <2>2, <2>3, <2>4, <2>5, CloseStep
<1>5. CASE /\ row.state = "starting" /\ row.eowner = None /\ row' = StartConfirmed(row)
           /\ Become(t, [At(t, "waitCommand") EXCEPT !.from = "running"])
  <2>1. row'.state = "running" /\ SamePlace(row, row') /\ SameEffect(row, row') /\ SameEvidence(row, row')
    BY <1>0, <1>5, ConfirmedColumns
  <2>2. Precedes(row.state, row'.state) /\ row.state \in Active /\ row.workspace
    BY <1>5, <2>1 DEF Precedes, Active, Nonterminal, CloseInv, Placed
  <2>3. RowRely(row, row')
    BY <2>1, <2>2, RelyForward DEF Grows, SamePlace
  <2>4. Placed' /\ RetiredBy(row, row')
    BY <1>0, <2>1, <2>2 DEF CloseInv, Placed, RetiredBy, SameEffect, SamePlace
  <2>5. Moved(t) /\ th'[t].pc = "waitCommand" /\ th'[t].from = "running"
    BY <1>0, <1>5, BecomeFrom DEF ProgramPoints
  <2>6. CloseLocal(th'[t], row', ws)
    BY <2>1, <2>2, <2>5 DEF CloseLocal, ClosePcs, StartPcs, ReceiptPcs, SamePlace
  <2> QED
    BY <1>0, <2>3, <2>4, <2>5, <2>6, CloseStep
<1>6. CASE SaveReceipt(t) \/ SavePartial(t)
  <2>1. ws # "none"
    BY <1>l, <1>6 DEF SaveReceipt, SavePartial, CloseLocal, ReceiptPcs
  <2> QED
    BY <1>6, <2>1, <1>1, <1>2, <1>3, <1>4
    DEF SaveReceipt, SavePartial, CAS, CanSaveProvisioning, Goto
<1>7. CASE ConfirmStart(t)
  BY <1>7, <1>1, <1>5 DEF ConfirmStart, CAS, CanConfirmStartingClaim, EffectUnowned
<1>8. CASE ClaimLateCleanup(t)
  <2> DEFINE now == th[t].now
  <2> DEFINE out == LateIntent(row, Interrupted)
  <2> SUFFICES ASSUME CanClaimLateCleanup(row, th[t].owner, now),
                      row' = LateCleanupClaimed(row, th[t].owner, t, now + CloseLease, Interrupted, TRUE),
                      Become(t, [At(t, "closeCall") EXCEPT !.from = row.state, !.out = out])
               PROVE  CloseInv'
    BY <1>1, <1>8 DEF ClaimLateCleanup, CAS
  <2>1. now \in Samples /\ th[t].owner \in Owners /\ t \in Claims /\ now + CloseLease \in Instants
    BY <1>0, TokensTyped, ThreadTyped, LeasesTyped
  <2>2. /\ SameState(row, row') /\ row'.workspace /\ CloseSet(row', th[t].owner, t, out)
        /\ SameEvidence(row, row')
    BY <1>0, <2>1, LateColumnsSet
  <2>3. /\ ~row.workspace /\ row.ekind = "none" /\ row.state \in {"provisioning"} \cup Terminal
        /\ ws # "none" /\ row.state \notin {"timed_out", "cancelled"}
    BY <1>0, <1>l, <1>8 DEF CanClaimLateCleanup, ClaimLateCleanup, CloseLocal, ReceiptPcs, CloseInv, Retired
  <2>4. RowRely(row, row')
    BY <2>2, <2>3, RelyFenced DEF Grows
  <2>5. /\ out \in Outcomes /\ (row.state = "provisioning" => out \in CloseOuts)
        /\ row.state = "provisioning" => row.state \in Active /\ row.state \notin Terminal
        /\ row.state \in Terminal => row.state \notin Active
    BY <1>0, OutsSound, LateIntentSound DEF Sound, CloseOuts, LateIntent, Active, Nonterminal, Terminal
  <2>6. Placed' /\ RetiredBy(row, row')
    BY <1>0, <2>2, <2>3, <2>5 DEF CloseInv, Placed, RetiredBy, SameState, CloseSet, Terminal
  <2>7. Moved(t) /\ th'[t].pc = "closeCall" /\ th'[t].from = row.state /\ th'[t].out = out
    BY <1>0, BecomeLate
  <2> HIDE DEF out, now
  <2>8. CloseOf(row', row.state, out)
    BY <2>2, <2>3, <2>5 DEF CloseOf, SameState, CloseSet, Reached
  <2>9. CloseLocal(th'[t], row', ws) /\ FreshClaim(row, row')
    BY <2>2, <2>3, <2>7, <2>8 DEF CloseLocal, StartPcs, ReceiptPcs, FreshClaim, CloseSet
  <2> QED
    BY <1>0, <2>4, <2>6, <2>7, <2>9, CloseStep
<1> QED
  BY <1>6, <1>7, <1>8

\* Engine.monitorCommand, completeCommand and monitor.
LEMMA MonitorKeepsClose ==
    ASSUME Types, Types', CloseInv, NEW t \in Threads, Monitor(t)
    PROVE  CloseInv'
<1> USE DEF Monitor
<1>0. RowInv(row) /\ UNCHANGED <<ws, closes>> /\ th[t].pc # "idle"
  BY DEF Types, WaitCommand, FailRun, Attest, Settle, Succeed, ClaimVerifier, StartVerifier,
         VerifierEnds, FinishVerifier, world, ghosts
<1>l. CloseLocal(th[t], row, ws)
  BY DEF CloseInv, CloseThreads
<1>1. CASE UNCHANGED row /\ Become(t, Idle)
  BY <1>0, <1>1, CloseQuits
<1> DEFINE Free == {"failRun", "attest", "settle", "succeed", "claimVer", "startVer", "runVer", "finVer"}
<1>2. ASSUME th'[t].pc \in Free, th'[t].pc = "finVer" => th'[t].out \in VerifierOuts
      PROVE  CloseLocal(th'[t], row', ws) /\ th'[t].pc # "closeCall"
  BY <1>2 DEF CloseLocal, ClosePcs, StartPcs, ReceiptPcs
<1>3. ASSUME Moved(t), th'[t].pc \in Free, th'[t].pc = "finVer" => th'[t].out \in VerifierOuts,
             UNCHANGED row
      PROVE  CloseInv'
  BY <1>0, <1>2, <1>3, CloseMove
<1>4. CASE WaitCommand(t)
  <2>1. Complete \in {"failRun", "attest", "settle"} /\ Complete \in ProgramPoints
    BY DEF Complete, ProgramPoints
  <2>2. CASE Become(t, At(t, Complete))
    BY <1>3, <1>4, <2>1, <2>2, BecomeAt DEF WaitCommand
  <2>3. ASSUME NEW o \in CloseOuts, Become(t, CloseFor(t, o)) PROVE CloseInv'
    <3>1. Moved(t) /\ th'[t].pc = "claimClose" /\ th'[t].from = th[t].from /\ th'[t].out = o
      BY <2>3, BecomeOut DEF CloseFor, ProgramPoints
    <3>2. CloseLocal(th'[t], row, ws)
      BY <1>l, <1>4, <3>1 DEF WaitCommand, CloseLocal, ClosePcs, StartPcs, ReceiptPcs, Active, Nonterminal
    <3> QED
      BY <1>0, <1>4, <3>1, <3>2, CloseMove DEF WaitCommand
  <2> QED
    BY <1>4, <2>2, <2>3 DEF WaitCommand, Goto, CloseOuts
<1>5. ASSUME NEW o \in {Failed, Succeeded}, row.state \in {"running", "settled"},
             row' = Finished(row, o), Become(t, Idle)
      PROVE  CloseInv'
  <2>1. Sound(o) /\ o.state \in {"failed", "succeeded"}
    BY OutsSound DEF VerifierOuts, Failed, Succeeded, Outcome
  <2>2. row'.state = o.state /\ SamePlace(row, row') /\ Cleared(row') /\ SameEvidence(row, row')
    BY <1>0, <1>5, <2>1, FinishedColumns
  <2> QED
    BY <1>0, <1>5, <2>1, <2>2, CloseEnds DEF Nonterminal, Terminal
<1>6. CASE FailRun(t) \/ Succeed(t)
  <2>1. th[t].from \in {"running", "settled"}
    BY <1>6, ThreadTyped DEF FailRun, Succeed, Fits
  <2> QED
    BY <1>1, <1>5, <1>6, <2>1 DEF FailRun, Succeed, CAS, CanFinish
<1>7. CASE Attest(t)
  <2>1. CASE UNCHANGED row /\ Become(t, At(t, "failRun"))
    BY <1>3, <2>1, BecomeAt DEF ProgramPoints
  <2>2. CASE row' = ReceiptSet(row, "model_attestation", Attestation) /\ Become(t, At(t, "settle"))
    <3>1. SameState(row, row') /\ SamePlace(row, row') /\ SameEffect(row, row') /\ AttestedRow(row')
      BY <1>0, <2>2, AttestedColumns, LifecycleAssumption DEF Attestation
    <3>2. RowRely(row, row')
      BY <3>1, RelyAttested DEF SamePlace, Grows
    <3>3. Placed' /\ RetiredBy(row, row')
      BY <1>0, <3>1, PlacedKept DEF CloseInv, SamePlace, SameState, RetiredBy
    <3>4. Moved(t) /\ th'[t].pc = "settle"
      BY <2>2, BecomeAt DEF ProgramPoints
    <3> QED
      BY <1>0, <1>2, <3>2, <3>3, <3>4, CloseStep
  <2> QED
    BY <1>7, <2>1, <2>2 DEF Attest, CAS, Goto
<1>8. CASE Settle(t)
  <2>1. th[t].from = "running" /\ Settled \in {"claimVer", "succeed"} /\ Settled \in ProgramPoints
    BY <1>8, ThreadTyped DEF Settle, Fits, Settled, ProgramPoints
  <2>2. CASE /\ row.state = "running" /\ row' = Transitioned(row, "settled")
             /\ Become(t, [At(t, Settled) EXCEPT !.from = "settled"])
    <3>1. row'.state = "settled" /\ SamePlace(row, row') /\ SameEffect(row, row') /\ SameEvidence(row, row')
      BY <1>0, <2>2, SettledColumns
    <3>2. Precedes(row.state, row'.state) /\ row.state \in Active /\ row.workspace
      BY <2>2, <3>1 DEF Precedes, Active, Nonterminal, CloseInv, Placed
    <3>3. RowRely(row, row')
      BY <3>1, <3>2, RelyForward DEF Grows, SamePlace
    <3>4. Placed' /\ RetiredBy(row, row')
      BY <1>0, <3>1, <3>2 DEF CloseInv, Placed, RetiredBy, SameEffect, SamePlace
    <3>5. Moved(t) /\ th'[t].pc = Settled
      BY <2>1, <2>2, BecomeFrom
    <3> QED
      BY <1>0, <1>2, <2>1, <3>3, <3>4, <3>5, CloseStep
  <2> QED
    BY <1>1, <1>8, <2>1, <2>2 DEF Settle, CAS, CanTransition
<1>9. CASE ClaimVerifier(t)
  <2> SUFFICES ASSUME NEW pc \in {"startVer", "finVer"}, CanClaimVerifier(row),
                      row' = VerifierClaimed(row, th[t].owner, t, VerifierLease),
                      Become(t, [At(t, pc) EXCEPT !.out = Failed])
               PROVE  CloseInv'
    BY <1>1, <1>9 DEF ClaimVerifier, CAS
  <2>1. th[t].owner \in Owners /\ t \in Claims /\ VerifierLease \in Instants /\ pc \in ProgramPoints
    BY <1>0, TokensTyped, ThreadTyped, LeasesTyped, IdleTyped DEF ProgramPoints
  <2>2. row'.state = "verifying" /\ row'.ekind = "verifier" /\ SamePlace(row, row') /\ SameEvidence(row, row')
    BY <1>0, <2>1, VerifierClaimedColumns
  <2>3. RowRely(row, row')
    BY <2>2, RelyVerifying DEF SamePlace, Grows
  <2>4. Placed' /\ RetiredBy(row, row')
    BY <1>0, <2>2 DEF CloseInv, Placed, RetiredBy, SamePlace, CanClaimVerifier
  <2>5. Moved(t) /\ th'[t].pc = pc /\ th'[t].out \in VerifierOuts
    BY <2>1, BecomeOut DEF VerifierOuts
  <2> QED
    BY <1>0, <1>2, <2>3, <2>4, <2>5, CloseStep
<1>10. CASE StartVerifier(t)
  BY <1>3, <1>10, BecomeAt DEF StartVerifier, Goto, ProgramPoints
<1>11. CASE VerifierEnds(t)
  <2>1. PICK o \in VerifierOuts : Become(t, [At(t, "finVer") EXCEPT !.out = o])
    BY <1>11 DEF VerifierEnds, VerifierOuts
  <2>2. Moved(t) /\ th'[t].pc = "finVer" /\ th'[t].out = o
    BY <2>1, BecomeOut DEF ProgramPoints
  <2> QED
    BY <1>3, <1>11, <2>2 DEF VerifierEnds
<1>12. CASE FinishVerifier(t)
  <2> SUFFICES ASSUME row.state = "verifying", row' = EffectFinished(row, th[t].out), Become(t, Idle)
               PROVE  CloseInv'
    BY <1>1, <1>12 DEF FinishVerifier, CAS, CanFinishEffect
  <2>1. Sound(th[t].out)
    BY <1>12, ThreadTyped DEF FinishVerifier, Fits, OutPcs
  <2>2. row'.state = th[t].out.state /\ SamePlace(row, row') /\ Cleared(row') /\ SameEvidence(row, row')
    BY <1>0, <2>1, EffectFinishedColumns DEF Terminal
  <2>3. th[t].out.state \in Terminal \ {"timed_out", "cancelled"}
    BY <1>l, <1>12 DEF FinishVerifier, CloseLocal, VerifierOuts, Passed, VerifierFailed, Failed,
                       Interrupted, Outcome, Terminal
  <2> QED
    BY <1>0, <2>2, <2>3, CloseEnds DEF Nonterminal
<1> QED
  BY <1>4, <1>6, <1>7, <1>8, <1>9, <1>10, <1>11, <1>12

\* CloseWorkspace is called: the caller held the one claim.
LEMMA IssueKeepsClose ==
    ASSUME Types, Types', CloseInv, NEW t \in Threads, IssueClose(t)
    PROVE  CloseInv'
<1>1. Moved(t) /\ th'[t].pc = "closeWait" /\ th'[t].from = th[t].from /\ th'[t].out = th[t].out
  BY BecomeAt DEF IssueClose, Goto, ProgramPoints
<1>2. th[t].pc = "closeCall" /\ UNCHANGED <<row, ws>> /\ closes' = closes + 1
  BY DEF IssueClose
<1>3. CloseLocal(th'[t], row, ws)
  BY <1>1, <1>2 DEF CloseInv, CloseThreads, CloseLocal, ClosePcs, StartPcs, ReceiptPcs
<1>4. CloseThreads'
  BY <1>1, <1>2, <1>3 DEF CloseInv, CloseThreads, Moved
<1>5. Placed' /\ Retired'
  BY <1>1, <1>2 DEF CloseInv, Placed, Retired, Moved, Threads
<1>6. CloseOnce'
  BY <1>1, <1>2 DEF CloseInv, CloseOnce, Moved, Types
<1> QED
  BY <1>4, <1>5, <1>6 DEF CloseInv

\* closeAndFinish, executeWorkspaceClose, finishWorkspaceClose and
\* recoverExpiredWorkspaceClose.
LEMMA ClosingKeepsClose ==
    ASSUME Types, Types', CloseInv, NEW t \in Threads, Close(t)
    PROVE  CloseInv'
<1> USE DEF Close
<1>1. CASE IssueClose(t)
  BY <1>1, IssueKeepsClose
<1>0. RowInv(row) /\ UNCHANGED ws /\ th[t].pc # "idle" /\ (UNCHANGED closes \/ IssueClose(t))
  BY DEF Types, ClaimClose, IssueClose, CloseReturns, CheckClosed, FinishClose, ObserveClose,
         ReclaimClose, world, ghosts
<1>l. CloseLocal(th[t], row, ws)
  BY DEF CloseInv, CloseThreads
<1>t. th[t].pc \in OutPcs => Sound(th[t].out) /\ th[t].owner \in Owners /\ t \in Claims
  BY <1>0, TokensTyped, ThreadTyped DEF Fits
<1>2. CASE UNCHANGED <<row, closes>> /\ Become(t, Idle)
  BY <1>0, <1>2, CloseQuits
<1>3. ASSUME NEW pc \in {"closeFin", "exists", "reclaim"}, th[t].pc \in {"closeWait", "exists", "recExists"},
             pc \in {"closeFin", "reclaim"} => ws # "open", Moved(t), th'[t].pc = pc,
             th'[t].from = th[t].from, th'[t].out = th[t].out, UNCHANGED <<row, closes>>
      PROVE  CloseInv'
  <2>1. CloseLocal(th'[t], row, ws)
    BY <1>l, <1>3 DEF CloseLocal, ClosePcs, StartPcs, ReceiptPcs
  <2> QED
    BY <1>0, <1>3, <2>1, CloseMove
<1>4. CASE ClaimClose(t)
  <2> DEFINE now == th[t].now
  <2> SUFFICES ASSUME CanClaimWorkspaceClose(row, th[t].from, now),
                      row' = WorkspaceCloseClaimed(row, th[t].owner, t, now + CloseLease, th[t].out),
                      Become(t, At(t, "closeCall"))
               PROVE  CloseInv'
    BY <1>2, <1>4 DEF ClaimClose, CAS, ghosts
  <2>1. /\ now + CloseLease \in Instants /\ Sound(th[t].out) /\ th[t].owner \in Owners /\ t \in Claims
        /\ UNCHANGED closes
    BY <1>0, <1>4, <1>t, ThreadTyped, LeasesTyped DEF ClaimClose, OutPcs, ghosts
  <2>2. /\ SameState(row, row') /\ SamePlace(row, row') /\ SameEvidence(row, row')
        /\ CloseSet(row', th[t].owner, t, th[t].out)
    BY <1>0, <2>1, CloseClaimedColumns
  <2>3. /\ row.workspace /\ row.state = th[t].from /\ row.state \in Active /\ th[t].out \in CloseOuts
        /\ row.ekind = "none" /\ row.state \notin Terminal
    BY <1>l, <1>4 DEF ClaimClose, CloseLocal, CanClaimWorkspaceClose, EffectBlank, Active, Nonterminal, Terminal
  <2>4. RowRely(row, row')
    BY <2>2, <2>3, RelyFenced DEF Grows, SamePlace
  <2>5. Placed' /\ RetiredBy(row, row')
    BY <1>0, <2>2, <2>3 DEF CloseInv, Placed, RetiredBy, SameState, SamePlace, CloseSet, Terminal
  <2>6. Moved(t) /\ th'[t].pc = "closeCall" /\ th'[t].from = th[t].from /\ th'[t].out = th[t].out
    BY BecomeAt DEF ProgramPoints
  <2>7. th[t].out \in Outcomes
    BY <2>1 DEF Sound
  <2>8. CloseOf(row', th[t].from, th[t].out)
    BY <2>2, <2>3, <2>7 DEF CloseOf, SameState, SamePlace, CloseSet, Reached
  <2>9. CloseLocal(th'[t], row', ws) /\ FreshClaim(row, row')
    BY <2>2, <2>3, <2>6, <2>8 DEF CloseLocal, StartPcs, ReceiptPcs, FreshClaim, CloseSet, SamePlace
  <2> QED
    BY <1>0, <2>1, <2>4, <2>5, <2>6, <2>9, CloseStep
<1>5. CASE CloseReturns(t)
  BY <1>3, <1>5, BecomeAt DEF CloseReturns, Goto, ProgramPoints, ghosts
<1>6. CASE CheckClosed(t)
  <2>1. CASE ws # "open" /\ Goto(t, "closeFin") /\ UNCHANGED row
    BY <1>3, <1>6, <2>1, BecomeAt DEF CheckClosed, Goto, ProgramPoints, ghosts
  <2>2. CASE Evidence(t)
    BY <1>0, <1>6, <2>2, CloseQuits DEF CheckClosed, Evidence, Stop, ghosts
  <2> QED
    BY <1>6, <2>1, <2>2 DEF CheckClosed
<1>7. CASE ObserveClose(t)
  <2>1. CASE ws # "open" /\ Become(t, Carry(t, "reclaim")) /\ UNCHANGED row
    BY <1>3, <1>7, <2>1, BecomeCarry DEF ObserveClose, ProgramPoints, ghosts
  <2>2. CASE Evidence(t)
    BY <1>0, <1>7, <2>2, CloseQuits DEF ObserveClose, Evidence, Stop, ghosts
  <2> QED
    BY <1>7, <2>1, <2>2 DEF ObserveClose
<1>8. CASE FinishClose(t)
  <2> SUFFICES ASSUME row.state = th[t].from, row.ekind = "workspace_close",
                      row' = EffectFinished(row, th[t].out), Become(t, Idle)
               PROVE  CloseInv'
    BY <1>2, <1>8 DEF FinishClose, CAS, CanFinishEffect, ghosts
  <2>1. Sound(th[t].out) /\ CloseOf(row, th[t].from, th[t].out) /\ ws # "open" /\ UNCHANGED closes
    BY <1>l, <1>t, <1>8 DEF FinishClose, OutPcs, CloseLocal, ClosePcs, ghosts
  <2>2. /\ SamePlace(row, row') /\ Cleared(row') /\ SameEvidence(row, row')
        /\ IF row.state \in Terminal THEN SameState(row, row') ELSE row'.state = th[t].out.state
    BY <1>0, <2>1, EffectFinishedColumns
  <2>3. CASE row.state \in Terminal
    <3>1. RowRely(row, row')
      BY <2>2, <2>3, RelyReleased DEF Grows, SamePlace
    <3>2. Placed' /\ RetiredBy(row, row')
      BY <1>0, <2>2, <2>3 DEF CloseInv, Placed, RetiredBy, SameState, SamePlace, Cleared, Terminal
    <3>3. Moved(t) /\ th'[t].pc = "idle"
      BY BecomeIdle
    <3>4. CloseLocal(th'[t], row', ws)
      BY <3>3 DEF CloseLocal, ClosePcs, StartPcs, ReceiptPcs
    <3> QED
      BY <1>0, <2>1, <3>1, <3>2, <3>3, <3>4, CloseStep
  <2>4. CASE row.state \notin Terminal
    <3>1. th[t].out.state \in Terminal /\ row.state \in Nonterminal /\ row.workspace
      BY <1>0, <2>1, <2>4 DEF CloseOf, Sound, Outcomes, RowInv, Rows
    <3> QED
      BY <1>0, <2>1, <2>2, <2>4, <3>1, CloseEnds
  <2> QED
    BY <2>3, <2>4
<1>9. CASE ReclaimClose(t)
  <2> DEFINE now == th[t].now
  <2> SUFFICES ASSUME CanReclaimEffect(row, th[t].from, now),
                      row' = Reclaimed(row, th[t].owner, t, now + CloseLease),
                      Become(t, At(t, "closeFin"))
               PROVE  CloseInv'
    BY <1>2, <1>9 DEF ReclaimClose, CAS, ghosts
  <2>1. /\ now + CloseLease \in Instants /\ th[t].owner \in Owners /\ t \in Claims
        /\ UNCHANGED closes /\ row.ekind = "workspace_close" /\ ws # "open"
        /\ CloseOf(row, th[t].from, th[t].out)
    BY <1>0, <1>9, <1>t, <1>l, ThreadTyped, LeasesTyped
    DEF ReclaimClose, OutPcs, ghosts, CanReclaimEffect, CloseLocal, ClosePcs
  <2>2. /\ SameState(row, row') /\ SamePlace(row, row') /\ SameEvidence(row, row')
        /\ CloseSet(row', th[t].owner, t, row.intent)
    BY <1>0, <2>1, ReclaimedColumns
  <2>3. RowRely(row, row')
    BY <2>1, <2>2, RelyFenced DEF Grows, SamePlace
  <2>4. Placed' /\ RetiredBy(row, row')
    BY <1>0, <2>1, <2>2 DEF CloseInv, Placed, RetiredBy, SameState, SamePlace, CloseSet
  <2>5. /\ Moved(t) /\ th'[t].pc = "closeFin" /\ th'[t].from = th[t].from /\ th'[t].out = th[t].out
    BY BecomeAt DEF ProgramPoints
  <2>6. CloseOf(row', th[t].from, th[t].out)
    BY <2>1, <2>3, CloseOfStable
  <2>7. CloseLocal(th'[t], row', ws)
    BY <2>1, <2>5, <2>6 DEF CloseLocal, StartPcs, ReceiptPcs
  <2> QED
    BY <1>0, <2>1, <2>3, <2>4, <2>5, <2>7, CloseStep
<1> QED
  BY <1>1, <1>4, <1>5, <1>6, <1>7, <1>8, <1>9

\* startMonitor: only the two threads move.
LEMMA StartMonitorKeepsClose ==
    ASSUME Types, Types', CloseInv, th["daemon"].pc # "idle",
           NEW pc \in {"waitCommand", "succeed", "claimVer"}, NEW from, StartMonitor(pc, from),
           UNCHANGED <<ws, closes>>, pc = "waitCommand" => row.workspace /\ from = "running"
    PROVE  CloseInv'
<1>0. UNCHANGED row
  BY DEF StartMonitor
<1>1. CASE Become("daemon", Idle)
  BY <1>0, <1>1, CloseQuits DEF Threads
<1>2. CASE /\ th'["daemon"] = Idle /\ th'["mon"].pc = pc /\ th'["mon"].from = from
           /\ \A u \in Threads \ {"daemon", "mon"} : th'[u] = th[u]
  <2>1. CloseLocal(th'["daemon"], row, ws) /\ th'["daemon"].pc = "idle"
    BY <1>2 DEF CloseLocal, ClosePcs, StartPcs, ReceiptPcs, Idle
  <2>2. CloseLocal(th'["mon"], row, ws) /\ th'["mon"].pc # "closeCall"
    BY <1>2 DEF CloseLocal, ClosePcs, StartPcs, ReceiptPcs
  <2>3. CloseThreads'
    BY <1>0, <1>2, <2>1, <2>2 DEF CloseInv, CloseThreads
  <2>4. Placed' /\ Retired'
    BY <1>0, <1>2 DEF CloseInv, Placed, Retired, Threads
  <2>5. CloseOnce'
    BY <1>0, <1>2, <2>1, <2>2 DEF CloseInv, CloseOnce
  <2> QED
    BY <2>3, <2>4, <2>5 DEF CloseInv
<1> QED
  BY <1>1, <1>2, BecomeMonitor

\* Engine.Reconcile: a pass reads the row and decides from what it read.
LEMMA ScanKeepsClose ==
    ASSUME Types, Types', CloseInv, ReadNonTerminalRuns \/ ReconcileRun
    PROVE  CloseInv'
<1>0. RowInv(row) /\ UNCHANGED <<ws, closes, row>> /\ "daemon" \in Threads
  BY DEF Types, ReadNonTerminalRuns, ReconcileRun, StartMonitor, world, ghosts, Threads
<1>l. CloseLocal(th["daemon"], row, ws)
  BY <1>0 DEF CloseInv, CloseThreads
<1>1. CASE ReadNonTerminalRuns
  <2>1. Moved("daemon") /\ th'["daemon"].pc = "scan" /\ th'["daemon"].snap = row
    BY <1>1, BecomeScan
  <2>2. row \in Rows /\ row.state \in Nonterminal \cup Terminal
    BY <1>0 DEF RowInv, Rows
  <2>3. row.ekind = "workspace_close" => CloseOf(row, row.state, row.intent)
    BY <1>0, <2>2 DEF CloseInv, Placed, CloseOf, RowInv, Rows, EffectColumnsAgree, Reached, Active
  <2>4. ReadEarlier(row, row)
    BY <2>2, <2>3 DEF CloseInv, Placed, ReadEarlier, Reached
  <2>5. CloseLocal(th'["daemon"], row, ws)
    BY <2>1, <2>4 DEF CloseLocal, ClosePcs, StartPcs, ReceiptPcs
  <2> QED
    BY <1>0, <2>1, <2>5, CloseMove
<1>2. CASE ReconcileRun
  <2>0. th["daemon"].pc = "scan" /\ ReadEarlier(row, Scanned)
    BY <1>2, <1>l DEF ReconcileRun, CloseLocal, Scanned
  <2>1. CASE Become("daemon", Idle)
    BY <1>0, <2>0, <2>1, CloseQuits
  <2>2. ASSUME NEW pc \in {"recExists", "claimClose", "find", "intProv", "result", "readMarker"},
               NEW o, Become("daemon", Looking(pc, o)),
               CloseLocal([pc |-> pc, from |-> Scanned.state, out |-> o], row, ws)
        PROVE  CloseInv'
    <3>1. Moved("daemon") /\ th'["daemon"].pc = pc /\ th'["daemon"].from = Scanned.state
          /\ th'["daemon"].out = o
      BY <2>2, BecomeLooking DEF ProgramPoints
    <3>2. CloseLocal(th'["daemon"], row, ws)
      BY <2>2, <3>1 DEF CloseLocal, ClosePcs, StartPcs, ReceiptPcs
    <3> QED
      BY <1>0, <2>0, <3>1, <3>2, CloseMove
  <2>3. CASE ReconcileClose
    <3>1. CloseOf(row, Scanned.state, Scanned.intent)
      BY <2>0, <2>3 DEF ReadEarlier, ReconcileClose
    <3>2. CASE Become("daemon", Looking("recExists", Scanned.intent))
      <4>1. Moved("daemon") /\ th'["daemon"].pc = "recExists" /\ th'["daemon"].from = Scanned.state
            /\ th'["daemon"].out = Scanned.intent
        BY <3>2, BecomeClosing
      <4>2. CloseLocal(th'["daemon"], row, ws)
        BY <3>1, <4>1 DEF CloseLocal, ClosePcs, StartPcs, ReceiptPcs
      <4> QED
        BY <1>0, <2>0, <4>1, <4>2, CloseMove
    <3> QED
      BY <2>1, <2>3, <3>2 DEF ReconcileClose
  <2>4. CASE ReconcileProvisioning
    <3>1. \A pc \in {"claimClose", "find", "intProv"} : (pc = "claimClose" => Scanned.workspace) =>
             CloseLocal([pc |-> pc, from |-> Scanned.state, out |-> Interrupted], row, ws)
      BY <2>0, <2>4 DEF ReconcileProvisioning, ReadEarlier, CloseLocal, ClosePcs, StartPcs, ReceiptPcs,
                        CloseOuts, Active, Nonterminal
    <3> QED
      BY <2>1, <2>2, <2>4, <3>1 DEF ReconcileProvisioning
  <2>5. CASE ReconcileCommand
    <3>1. CloseLocal([pc |-> "result", from |-> Scanned.state, out |-> Interrupted], row, ws)
      BY <2>0, <2>5 DEF ReconcileCommand, ReadEarlier, CloseLocal, ClosePcs, StartPcs, ReceiptPcs
    <3> QED
      BY <2>1, <2>2, <2>5, <3>1 DEF ReconcileCommand
  <2>6. CASE ReconcileVerifying
    <3>1. CloseLocal([pc |-> "readMarker", from |-> Scanned.state, out |-> Interrupted], row, ws)
      BY DEF CloseLocal, ClosePcs, StartPcs, ReceiptPcs
    <3> QED
      BY <2>1, <2>2, <2>6, <3>1 DEF ReconcileVerifying
  <2>7. CASE StartMonitor(Settled, "settled")
    BY <1>0, <2>0, <2>7, StartMonitorKeepsClose DEF Settled
  <2> QED
    BY <1>2, <2>3, <2>4, <2>5, <2>6, <2>7 DEF ReconcileRun
<1> QED
  BY <1>1, <1>2

\* Engine.Reconcile: recovery of the workspace, the command and the verifier.
LEMMA RecoveryKeepsClose ==
    ASSUME Types, Types', CloseInv,
           \/ FindWorkspace \/ RecoverWorkspace \/ InterruptProvisioning \/ CommandResult
           \/ ConfirmExpiredStart \/ ReadMarker \/ FinishExpiredVerifier
    PROVE  CloseInv'
<1> DEFINE t == "daemon"
<1>0. RowInv(row) /\ UNCHANGED <<ws, closes>> /\ t \in Threads /\ th[t].pc # "idle"
  BY DEF Types, FindWorkspace, RecoverWorkspace, InterruptProvisioning, CommandResult,
         ConfirmExpiredStart, ReadMarker, FinishExpiredVerifier, world, ghosts, Threads
<1>l. CloseLocal(th[t], row, ws)
  BY <1>0 DEF CloseInv, CloseThreads
<1>1. CASE UNCHANGED row /\ Become(t, Idle)
  BY <1>0, <1>1, CloseQuits
<1>2. ASSUME NEW pc \in {"recWs", "intProv", "claimClose", "confExp", "failRun", "attest", "settle",
                         "succeed", "claimVer", "expVer"},
             Moved(t), th'[t].pc = pc, UNCHANGED row,
             pc = "recWs" => ws # "none" /\ th'[t].from = "provisioning" /\ th'[t].out = Interrupted,
             pc = "claimClose" => row.workspace /\ th'[t].from \in Active /\ th'[t].out \in CloseOuts,
             pc = "expVer" => th'[t].out \in VerifierOuts \cup {Interrupted}
      PROVE  CloseInv'
  <2>1. CloseLocal(th'[t], row, ws)
    BY <1>2 DEF CloseLocal, ClosePcs, StartPcs, ReceiptPcs
  <2> QED
    BY <1>0, <1>2, <2>1, CloseMove
<1>3. CASE FindWorkspace
  <2>1. CASE Evidence(t)
    BY <1>0, <2>1, CloseQuits DEF Evidence, Stop
  <2>2. CASE ws = "open" /\ Become(t, Carry(t, "recWs")) /\ UNCHANGED row
    <3>1. /\ Moved(t) /\ th'[t].pc = "recWs" /\ th'[t].from = th[t].from /\ th'[t].out = th[t].out
      BY <1>0, <2>2, BecomeCarry DEF ProgramPoints
    <3>2. th[t].from = "provisioning" /\ th[t].out = Interrupted
      BY <1>l, <1>3 DEF FindWorkspace, CloseLocal
    <3> QED
      BY <1>2, <2>2, <3>1, <3>2
  <2>3. CASE Become(t, Carry(t, "intProv")) /\ UNCHANGED row
    BY <1>0, <1>2, <2>3, BecomeCarry DEF ProgramPoints
  <2> QED
    BY <1>1, <1>3, <2>1, <2>2, <2>3 DEF FindWorkspace, Stop
<1>4. CASE RecoverWorkspace
  <2> SUFFICES ASSUME CanRecoverProvisioningWorkspace(row, th[t].now), row' = WorkspaceRecovered(row),
                      Become(t, Carry(t, "claimClose"))
               PROVE  CloseInv'
    BY <1>1, <1>4 DEF RecoverWorkspace, CAS
  <2>1. SameState(row, row') /\ row'.workspace /\ SameEffect(row, row') /\ SameEvidence(row, row')
    BY <1>0, RecoveredColumns
  <2>2. /\ ws # "none" /\ row.state = "provisioning"
        /\ th[t].from = "provisioning" /\ th[t].out = Interrupted
    BY <1>l, <1>4 DEF RecoverWorkspace, CloseLocal, ReceiptPcs, CanRecoverProvisioningWorkspace
  <2>3. RowRely(row, row')
    BY <2>1, RelyKept DEF Grows
  <2>4. Placed' /\ RetiredBy(row, row')
    BY <1>0, <2>1, <2>2 DEF CloseInv, Placed, RetiredBy, SameEffect, SameState
  <2>5. Moved(t) /\ th'[t].pc = "claimClose" /\ th'[t].from = th[t].from /\ th'[t].out = th[t].out
    BY <1>0, BecomeCarry DEF ProgramPoints
  <2>6. CloseLocal(th'[t], row', ws)
    BY <2>1, <2>2, <2>5 DEF CloseLocal, ClosePcs, StartPcs, ReceiptPcs, Active, Nonterminal, CloseOuts
  <2> QED
    BY <1>0, <2>3, <2>4, <2>5, <2>6, CloseStep
<1>5. CASE InterruptProvisioning
  <2> SUFFICES ASSUME row.state = "provisioning", row' = ClaimFinished(row, Interrupted), Become(t, Idle)
               PROVE  CloseInv'
    BY <1>1, <1>5 DEF InterruptProvisioning, CAS, CanInterruptExpiredProvisioning
  <2>1. Sound(Interrupted) /\ Interrupted.state = "interrupted"
    BY OutsSound DEF CloseOuts, Interrupted, Outcome
  <2>2. row'.state = "interrupted" /\ SamePlace(row, row') /\ SameEffect(row, row') /\ SameEvidence(row, row')
    BY <1>0, <2>1, ClaimFinishedColumns
  <2> QED
    BY <1>0, <2>2, CloseEnds DEF Nonterminal, Terminal
<1>c. Complete \in {"failRun", "attest", "settle"} /\ Complete \in ProgramPoints
  BY DEF Complete, ProgramPoints
<1>6. CASE CommandResult
  <2>0. th[t].pc = "result" /\ row.workspace /\ th[t].from \in {"starting", "running"} /\ ghosts' = ghosts
    BY <1>l, <1>6 DEF CommandResult, CloseLocal
  <2>1. CASE Become(t, CloseFor(t, Interrupted)) /\ UNCHANGED row
    <3>1. Moved(t) /\ th'[t].pc = "claimClose" /\ th'[t].from = th[t].from /\ th'[t].out = Interrupted
      BY <1>0, <2>1, BecomeOut DEF CloseFor, ProgramPoints
    <3> QED
      BY <1>2, <2>0, <2>1, <3>1 DEF Active, Nonterminal, CloseOuts
  <2>2. CASE Goto(t, "confExp") /\ UNCHANGED row
    BY <1>0, <1>2, <2>2, BecomeAt DEF Goto, ProgramPoints
  <2>3. CASE Goto(t, Complete) /\ UNCHANGED row
    BY <1>0, <1>2, <1>c, <2>3, BecomeAt DEF Goto
  <2>4. CASE StartMonitor("waitCommand", "running")
    BY <1>0, <2>0, <2>4, StartMonitorKeepsClose
  <2> QED
    BY <1>6, <2>1, <2>2, <2>3, <2>4 DEF CommandResult
<1>7. CASE ConfirmExpiredStart
  <2> SUFFICES ASSUME row.state = "starting", row.eowner = None, row' = StartConfirmed(row),
                      Become(t, [At(t, Complete) EXCEPT !.from = "running"])
               PROVE  CloseInv'
    BY <1>1, <1>7 DEF ConfirmExpiredStart, CAS, CanConfirmExpiredCommandStart, EffectUnowned
  <2>1. row'.state = "running" /\ SamePlace(row, row') /\ SameEffect(row, row') /\ SameEvidence(row, row')
    BY <1>0, ConfirmedColumns
  <2>2. Precedes(row.state, row'.state) /\ row.state \in Active /\ row.workspace
    BY <2>1 DEF Precedes, Active, Nonterminal, CloseInv, Placed
  <2>3. RowRely(row, row')
    BY <2>1, <2>2, RelyForward DEF Grows, SamePlace
  <2>4. Placed' /\ RetiredBy(row, row')
    BY <1>0, <2>1, <2>2 DEF CloseInv, Placed, RetiredBy, SameEffect, SamePlace
  <2>5. Moved(t) /\ th'[t].pc = Complete
    BY <1>0, <1>c, BecomeFrom
  <2>6. CloseLocal(th'[t], row', ws)
    BY <1>c, <2>5 DEF CloseLocal, ClosePcs, StartPcs, ReceiptPcs
  <2> QED
    BY <1>0, <1>c, <2>3, <2>4, <2>5, <2>6, CloseStep
<1>8. CASE ReadMarker
  <2> DEFINE o == IF marker = None THEN Interrupted ELSE marker
  <2>1. o \in VerifierOuts \cup {Interrupted}
    BY DEF Types, VerifierOuts
  <2>2. Moved(t) /\ th'[t].pc = "expVer" /\ th'[t].out = o /\ UNCHANGED row
    BY <1>8, BecomeRead DEF ReadMarker
  <2> QED
    BY <1>2, <2>1, <2>2
<1>9. CASE FinishExpiredVerifier
  <2> SUFFICES ASSUME row.state = "verifying", row' = ExpiredVerifierFinished(row, th[t].out),
                      Become(t, Idle)
               PROVE  CloseInv'
    BY <1>1, <1>9 DEF FinishExpiredVerifier, CAS, CanFinishExpiredVerifier
  <2>1. Sound(th[t].out)
    BY <1>0, <1>9, ThreadTyped DEF FinishExpiredVerifier, Fits, OutPcs
  <2>2. row'.state = th[t].out.state /\ SamePlace(row, row') /\ Cleared(row') /\ SameEvidence(row, row')
    BY <1>0, <2>1, ExpiredColumns
  <2>3. th[t].out.state \in Terminal \ {"timed_out", "cancelled"}
    BY <1>l, <1>9 DEF FinishExpiredVerifier, CloseLocal, VerifierOuts, Passed, VerifierFailed, Failed,
                      Interrupted, Outcome, Terminal
  <2> QED
    BY <1>0, <2>2, <2>3, CloseEnds DEF Nonterminal
<1> QED
  BY <1>3, <1>4, <1>5, <1>6, <1>7, <1>8, <1>9

\* Engine.Cancel and Engine.RecoverProvisioning.
LEMMA OperatorKeepsClose ==
    ASSUME Types, Types', CloseInv, Operator
    PROVE  CloseInv'
<1> DEFINE t == "cli"
<1>0. RowInv(row) /\ UNCHANGED <<ws, closes>> /\ t \in Threads
  BY DEF Types, Operator, Cancel, CancelAccepted, RecoverProvisioning, FindAbsent, InterruptRecovered,
         world, ghosts, Threads
<1>1. ASSUME UNCHANGED row, Moved(t), th'[t].pc \in {"cliFinish", "cliFind", "cliRecover"}
      PROVE  CloseInv'
  <2>1. CloseLocal(th'[t], row, ws) /\ th'[t].pc # "closeCall"
    BY <1>1 DEF CloseLocal, ClosePcs, StartPcs, ReceiptPcs
  <2> QED
    BY <1>0, <1>1, <2>1, CloseMove
<1>2. CASE Cancel
  <2>1. CASE Become(t, Command("cliFinish", Cancelled))
    BY <1>1, <1>2, <2>1, BecomeCommand, OutsSound DEF Cancel, CloseOuts
  <2>2. CASE row.ekind = "workspace_close" /\ Become(t, Command("recExists", row.intent))
    <3>1. /\ Moved(t) /\ th'[t].pc = "recExists" /\ th'[t].from = row.state /\ th'[t].out = row.intent
      BY <2>2, BecomeCancelling
    <3>2. CloseOf(row, row.state, row.intent)
      BY <1>0, <2>2 DEF CloseInv, Placed, CloseOf, RowInv, Rows, EffectColumnsAgree, Reached, Active
    <3>3. CloseLocal(th'[t], row, ws)
      BY <3>1, <3>2 DEF CloseLocal, ClosePcs, StartPcs, ReceiptPcs
    <3> QED
      BY <1>0, <1>2, <3>1, <3>3, CloseMove DEF Cancel
  <2>3. CASE row.state # "accepted" /\ Become(t, Command("claimClose", Cancelled))
    <3>1. Moved(t) /\ th'[t].pc = "claimClose" /\ th'[t].from = row.state /\ th'[t].out = Cancelled
      BY <2>3, BecomeCommand, OutsSound DEF CloseOuts
    <3>2. row.workspace /\ row.state \in Active
      BY <1>0, <1>2, <2>3 DEF Cancel, CancelRefused, RowInv, Rows, Active
    <3>3. CloseLocal(th'[t], row, ws)
      BY <3>1, <3>2 DEF CloseLocal, ClosePcs, StartPcs, ReceiptPcs, CloseOuts
    <3> QED
      BY <1>0, <1>2, <3>1, <3>3, CloseMove DEF Cancel
  <2> QED
    BY <1>2, <2>1, <2>2, <2>3 DEF Cancel
<1>3. CASE CancelAccepted
  <2>1. CASE UNCHANGED row /\ Become(t, Idle)
    BY <1>0, <1>3, <2>1, CloseQuits DEF CancelAccepted
  <2>2. CASE row.state = "accepted" /\ row' = Finished(row, Cancelled) /\ Become(t, Idle)
    <3>1. Sound(Cancelled) /\ Cancelled.state = "cancelled"
      BY OutsSound DEF CloseOuts, Cancelled, Outcome
    <3>2. row'.state = "cancelled" /\ SamePlace(row, row') /\ Cleared(row') /\ SameEvidence(row, row')
      BY <1>0, <2>2, <3>1, FinishedColumns
    <3>3. ~row.workspace
      BY <2>2 DEF CloseInv, Placed
    <3> QED
      BY <1>0, <1>3, <2>2, <3>2, <3>3, CloseEnds DEF CancelAccepted, Nonterminal, Terminal
  <2> QED
    BY <1>3, <2>1, <2>2 DEF CancelAccepted, CAS, CanFinish
<1>4. CASE RecoverProvisioning
  BY <1>1, <1>4, BecomeCommand, OutsSound DEF RecoverProvisioning, CloseOuts
<1>5. CASE FindAbsent
  BY <1>0, <1>1, <1>5, CloseQuits, BecomeRecovering DEF FindAbsent, Stop
<1>6. CASE InterruptRecovered
  <2>1. CASE UNCHANGED row /\ Become(t, Idle)
    BY <1>0, <1>6, <2>1, CloseQuits DEF InterruptRecovered
  <2>2. CASE row.state = "provisioning" /\ row' = ClaimFinished(row, Interrupted) /\ Become(t, Idle)
    <3>1. Sound(Interrupted) /\ Interrupted.state = "interrupted"
      BY OutsSound DEF CloseOuts, Interrupted, Outcome
    <3>2. row'.state = "interrupted" /\ SamePlace(row, row') /\ SameEffect(row, row') /\ SameEvidence(row, row')
      BY <1>0, <2>2, <3>1, ClaimFinishedColumns
    <3> QED
      BY <1>0, <1>6, <2>2, <3>2, CloseEnds DEF InterruptRecovered, Nonterminal, Terminal
  <2> QED
    BY <1>6, <2>1, <2>2 DEF InterruptRecovered, CAS, CanInterruptRecovered
<1> QED
  BY <1>2, <1>3, <1>4, <1>5, <1>6 DEF Operator

\* Engine.dispatch decides about the accepted run.
LEMMA AdmissionKeepsClose ==
    ASSUME Types, Types', CloseInv, DecideAdmission
    PROVE  CloseInv'
<1>0. /\ RowInv(row) /\ UNCHANGED <<ws, closes>> /\ "exec" \in Threads
      /\ row.state = "accepted" /\ CanDecideAdmission(row) /\ th["exec"].pc = "idle"
  BY DEF Types, DecideAdmission, CanDecideAdmission, world, ghosts, Threads
<1>1. ~row.workspace /\ row.ekind # "workspace_close" /\ row.state \in Nonterminal
  BY <1>0 DEF CloseInv, Placed, Nonterminal
<1>2. ASSUME NEW o \in {"d1", "d2", "attended"}, row' = Admitted(row, o, ProvisioningLease),
             Become("exec", [Idle EXCEPT !.pc = "renewProbe", !.owner = o])
      PROVE  CloseInv'
  <2>1. o \in Owners /\ ProvisioningLease \in Instants
    BY <1>2, TokensTyped, LeasesTyped, IdleTyped
  <2>2. row'.state = "provisioning" /\ SamePlace(row, row') /\ SameEffect(row, row') /\ SameEvidence(row, row')
    BY <1>0, <1>2, <2>1, AdmittedColumns
  <2>3. RowRely(row, row')
    BY <1>0, <2>2, RelyForward DEF SamePlace, Grows, Precedes, Active, Nonterminal
  <2>4. Placed' /\ RetiredBy(row, row')
    BY <1>0, <1>1, <2>2 DEF CloseInv, Placed, RetiredBy, SameEffect, SamePlace
  <2>5. Moved("exec") /\ th'["exec"].pc = "renewProbe"
    BY <1>2, BecomeExec
  <2>6. CloseLocal(th'["exec"], row', ws)
    BY <2>5 DEF CloseLocal, ClosePcs, StartPcs, ReceiptPcs
  <2> QED
    BY <1>0, <2>2, <2>3, <2>4, <2>5, <2>6, CloseStep
<1>3. ASSUME NEW s \in {"blocked", "failed"}, row' = AdmissionFinished(row, s), UNCHANGED th
      PROVE  CloseInv'
  <2>1. row'.state = s /\ SamePlace(row, row') /\ SameEffect(row, row') /\ SameEvidence(row, row')
    BY <1>0, <1>3, AdmissionFinishedColumns
  <2>2. row'.state \in Terminal
    BY <2>1 DEF Terminal
  <2>3. RowRely(row, row')
    BY <1>1, <2>1, <2>2, RelyEnded DEF SamePlace, Grows
  <2>4. Placed' /\ RetiredBy(row, row')
    BY <1>0, <2>1, <2>2, PlacedEnded DEF CloseInv, SamePlace, RetiredBy
  <2>5. Moved("exec") /\ th'["exec"].pc = "idle"
    BY <1>0, <1>3 DEF Moved
  <2>6. CloseLocal(th'["exec"], row', ws)
    BY <2>5 DEF CloseLocal, ClosePcs, StartPcs, ReceiptPcs
  <2> QED
    BY <1>0, <2>1, <2>3, <2>4, <2>5, <2>6, CloseStep
<1> QED
  BY <1>2, <1>3 DEF DecideAdmission, Types

\* A step that moves no thread forward and leaves the row: the workspace changes
\* as it may, and threads die.
LEMMA WorldKeepsClose ==
    ASSUME Types, Types', CloseInv, Herdr \/ ByHand \/ Crash
    PROVE  CloseInv'
<1>1. UNCHANGED <<row, closes>>
  BY DEF Herdr, ServerProvisions, ServerStarts, ServerCloses, CommandExits, ByHand, ClosedByHand,
         RemovedByHand, Crash, CrashDaemon, CrashAttended, ghosts, procs
<1>2. WsRely(ws, ws') /\ (ws' = "open" => ws \in {"open", "none"})
  BY DEF Herdr, ServerProvisions, ServerStarts, ServerCloses, CommandExits, ByHand, ClosedByHand,
         RemovedByHand, Crash, CrashDaemon, CrashAttended, world, WsRely
<1>3. \A t \in Threads : th'[t] = th[t] \/ th'[t] = Idle
  BY DEF Herdr, ServerProvisions, ServerStarts, ServerCloses, CommandExits, ByHand, ClosedByHand,
         RemovedByHand, Crash, CrashDaemon, CrashAttended, Killed
<1>4. RowRely(row, row) /\ (row.workspace => ws # "none") /\ ws \in {"none", "open", "closed", "removed"}
  BY RelyKept DEF SameState, Grows, SameEffect, SameEvidence, CloseInv, Placed, Types
<1>5. CloseThreads'
  <2> SUFFICES ASSUME NEW t \in Threads PROVE CloseLocal(th'[t], row, ws')
    BY <1>1 DEF CloseThreads
  <2>1. CloseLocal(th[t], row, ws')
    BY <1>2, <1>4, CloseLocalStable DEF CloseInv, CloseThreads
  <2>2. CloseLocal(Idle, row, ws')
    BY DEF CloseLocal, ClosePcs, StartPcs, ReceiptPcs, Idle
  <2> QED
    BY <1>3, <2>1, <2>2
<1>6. Placed'
  BY <1>1, <1>2 DEF CloseInv, Placed, WsRely
<1>7. Retired'
  <2>1. th["exec"].pc = "idle" => th'["exec"].pc = "idle"
    BY <1>3 DEF Idle, Threads
  <2> QED
    BY <1>1, <1>2, <1>4, <2>1 DEF CloseInv, Retired
<1>8. CloseOnce'
  <2>1. \A t \in Threads : th'[t].pc = "closeCall" => th[t].pc = "closeCall"
    BY <1>3 DEF Idle
  <2> QED
    BY <1>1, <2>1 DEF CloseInv, CloseOnce
<1> QED
  BY <1>5, <1>6, <1>7, <1>8 DEF CloseInv

\* Time passes for the row and for what the daemon has read of it.
LEMMA TickKeepsClose ==
    ASSUME Types, Types', CloseInv, Tick
    PROVE  CloseInv'
<1>0. RowInv(row) /\ UNCHANGED <<ws, closes>> /\ row' = RowAged(row)
  BY DEF Types, Tick, ghosts
<1>1. SameState(row, row') /\ SamePlace(row, row') /\ SameEffect(row, row') /\ SameEvidence(row, row')
  BY <1>0, AgedColumns
<1>2. RowRely(row, row') /\ Placed'
  BY <1>0, <1>1, RelyKept, PlacedKept DEF CloseInv, SamePlace, Grows
<1>3. ASSUME NEW t \in Threads
      PROVE  /\ th'[t].pc = th[t].pc /\ th'[t].from = th[t].from /\ th'[t].out = th[t].out
             /\ th'[t].pc = "scan" => th'[t].snap \in {th[t].snap, RowAged(th[t].snap)}
  <2>1. th'[t] = IF th[t].pc = "idle" THEN th[t] ELSE Later(t)
    BY DEF Tick
  <2>2. /\ Later(t).pc = th[t].pc /\ Later(t).from = th[t].from /\ Later(t).out = th[t].out
        /\ Later(t).snap = IF th[t].snap = None THEN None ELSE RowAged(th[t].snap)
    BY LaterTyped
  <2> QED
    BY <2>1, <2>2
<1>4. CloseThreads'
  <2> SUFFICES ASSUME NEW t \in Threads PROVE CloseLocal(th'[t], row', ws)
    BY <1>0 DEF CloseThreads
  <2>1. CloseLocal(th[t], row', ws)
    BY <1>2, CloseLocalStable DEF CloseInv, CloseThreads, Placed, WsRely, Types
  <2>2. ASSUME th[t].pc = "scan" PROVE ReadEarlier(row', th'[t].snap)
    <3>1. /\ RowInv(th[t].snap) /\ ReadEarlier(row', th[t].snap)
          /\ th'[t].snap \in {th[t].snap, RowAged(th[t].snap)}
      BY <1>3, <2>1, <2>2 DEF Types, Typed, CloseLocal
    <3>2. /\ RowInv(th'[t].snap) /\ SameState(th[t].snap, th'[t].snap)
          /\ SamePlace(th[t].snap, th'[t].snap) /\ SameEffect(th[t].snap, th'[t].snap)
      BY <3>1, AgedColumns DEF SameState, SamePlace, SameEffect
    <3>3. th'[t].snap \in Rows
      BY <3>2 DEF RowInv
    <3> QED
      BY <3>1, <3>2, <3>3 DEF ReadEarlier, SameState, SamePlace, SameEffect
  <2> QED
    BY <1>3, <2>1, <2>2 DEF CloseLocal, ClosePcs, StartPcs, ReceiptPcs
<1>5. Retired'
  BY <1>0, <1>1, <1>3 DEF CloseInv, Retired, SameState, SamePlace, Threads
<1>6. CloseOnce'
  BY <1>0, <1>1, <1>3 DEF CloseInv, CloseOnce, SameState, SamePlace, SameEffect
<1> QED
  BY <1>2, <1>4, <1>5, <1>6 DEF CloseInv

-----------------------------------------------------------------------------
(* The invariant and what it says.                                         *)

\* A new run has no workspace, and nobody is closing it.
LEMMA InitClose == Init => CloseInv
<1> SUFFICES ASSUME Init PROVE CloseInv
  OBVIOUS
<1>1. row.state = "accepted" /\ ~row.workspace /\ row.ekind = "none"
  BY DEF Init, NewRow
<1>2. \A t \in Threads : th[t].pc = "idle"
  BY DEF Init, Idle
<1>3. CloseThreads
  BY <1>2 DEF CloseThreads, CloseLocal, ClosePcs, StartPcs, ReceiptPcs
<1> QED
  BY <1>1, <1>2, <1>3 DEF Init, CloseInv, Placed, Retired, CloseOnce, Threads, Terminal

\* Every step keeps it, one action of one thread at a time.
LEMMA NextClose == Types /\ Types' /\ CloseInv /\ [Next]_vars => CloseInv'
<1> SUFFICES ASSUME Types, Types', CloseInv, [Next]_vars PROVE CloseInv'
  OBVIOUS
<1>1. CASE DecideAdmission
  BY <1>1, AdmissionKeepsClose
<1>2. CASE Execute("exec")
  BY <1>2, ProvisionKeepsClose, ReceiptKeepsClose DEF Execute, Threads
<1>3. CASE \E t \in {"exec", "mon", "daemon"} : Monitor(t)
  BY <1>3, MonitorKeepsClose DEF Threads
<1>4. CASE \E t \in Threads : Close(t)
  BY <1>4, ClosingKeepsClose
<1>5. CASE Reconcile
  BY <1>5, ScanKeepsClose, RecoveryKeepsClose DEF Reconcile
<1>6. CASE Operator
  BY <1>6, OperatorKeepsClose
<1>7. CASE Herdr \/ ByHand \/ Crash
  BY <1>7, WorldKeepsClose
<1>8. CASE Tick
  BY <1>8, TickKeepsClose
<1>9. CASE UNCHANGED vars
  BY <1>9 DEF vars, world, procs, ghosts, CloseInv, CloseThreads, Placed, Retired, CloseOnce
<1> QED
  BY <1>1, <1>2, <1>3, <1>4, <1>5, <1>6, <1>7, <1>8, <1>9 DEF Next

\* The closes of every behaviour are in order.
THEOREM CloseInvariant == Spec => [](Types /\ CloseInv)
<1> QED
  BY InitTypes, NextTypes, InitClose, NextClose, PTL DEF Spec

\* CloseIssuedOnce of every run: whoever crashes, however late the clocks are,
\* whatever the operator does by hand, CloseWorkspace is called once.
THEOREM ClosesIssuedOnce == Spec => []CloseIssuedOnce
<1>1. CloseInv => CloseIssuedOnce
  BY DEF CloseInv, CloseOnce, CloseIssuedOnce
<1> QED
  BY <1>1, CloseInvariant, PTL

\* RetiredMeansGone of every run: a timeout or a cancellation is recorded only
\* when the workspace it was to close is gone, and nothing brings it back.
THEOREM RetiredWorkspacesGone == Spec => []RetiredMeansGone
<1>1. CloseInv => RetiredMeansGone
  BY DEF CloseInv, Retired, RetiredMeansGone
<1> QED
  BY <1>1, CloseInvariant, PTL

-----------------------------------------------------------------------------
(* The assertions of the threads.                                          *)

VerifierPcs == {"startVer", "runVer", "finVer"}
CommandPcs == {"failRun", "attest", "settle", "succeed", "claimVer"}
Done == {"verifying"} \cup Terminal
Earned == {"settled", "verifying", "succeeded"}

\* What a thread on the way to success knows of the command.
CommandLocal(x, r, c, j) ==
    /\ x.pc = "confExp" => c \in {"done", "failed"}
    /\ x.pc \in {"attest", "settle"} => c = "done"
    /\ x.pc = "settle" /\ j.attest => AttestedRow(r)
    /\ x.pc = "succeed" => ~j.verifier

\* What a thread at the verifier knows of its invocations.
VerifyLocal(x, r, v) ==
    /\ x.pc \in VerifierPcs => r.state \in Done
    /\ x.pc = "startVer" => v = <<>>
    /\ x.pc = "runVer" => v = <<"running">>
    /\ x.pc = "finVer" => x.out \in VerifierOuts
    /\ x.pc = "expVer" => x.out \in {Interrupted, Passed, VerifierFailed}
    /\ x.pc \in {"finVer", "expVer"} /\ x.out = Passed => v = <<"passed">>

\* The command and the way to success.
CommandInv ==
    /\ \A t \in Threads : CommandLocal(th[t], row, cmd, job)
    /\ row.state \in Earned => cmd = "done" /\ (job.attest => AttestedRow(row))
    /\ row.state = "succeeded" /\ job.verifier => row.verdict = "passed"

\* The one verifier invocation.
VerifyInv ==
    /\ \A t \in Threads : VerifyLocal(th[t], row, verified)
    /\ \A t, u \in Threads : th[t].pc \in VerifierPcs /\ th[u].pc \in VerifierPcs => t = u
    /\ verified \in {<<>>} \cup {<<e>> : e \in {"running", "killed", "passed", "failed"}}
    /\ row.state \notin Done => verified = <<>>
    /\ marker = Passed => verified = <<"passed">>
    /\ row.verdict = "passed" => verified = <<"passed">>

ResultInv == CommandInv /\ VerifyInv

-----------------------------------------------------------------------------
(* Steps that do not earn anything.                                        *)

\* What such a step may do to the row.
Aside(r, n) ==
    /\ r.state \in Done => n.state \in Done
    /\ AttestedRow(r) => AttestedRow(n)
    /\ SameState(r, n) \/ n.state \notin Earned

\* The state stays, or the run moves on to a state it need not earn.
LEMMA AsideKept ==
    ASSUME NEW r, NEW n, SameEvidence(r, n), SameState(r, n) PROVE Aside(r, n)
BY DEF Aside, SameEvidence, SameState, AttestedRow

\* A run that moves on before its command is done earns nothing.
LEMMA AsideForward ==
    ASSUME NEW r, NEW n, SameEvidence(r, n), r.state \notin Done, n.state \notin Earned
    PROVE  Aside(r, n)
BY DEF Aside, SameEvidence, AttestedRow

\* Nor does a run that ends other than in success.
LEMMA AsideEnded ==
    ASSUME NEW r, NEW n, SameEvidence(r, n), n.state \in Terminal \ {"succeeded"}
    PROVE  Aside(r, n)
BY DEF Aside, SameEvidence, AttestedRow, Done, Earned, Terminal

\* The others' assertions survive a step that leaves command and verifier alone.
LEMMA EarnStep ==
    ASSUME Types, Types', ResultInv, NEW t \in Threads, Moved(t),
           UNCHANGED <<job, cmd, verified>>, marker' \in {marker, None},
           row.state \in Done => row'.state \in Done, AttestedRow(row) => AttestedRow(row'),
           row'.state \in Earned => cmd = "done" /\ (job.attest => AttestedRow(row')),
           row'.state = "succeeded" /\ job.verifier => row'.verdict = "passed",
           row'.verdict = "passed" => verified = <<"passed">>,
           CommandLocal(th'[t], row', cmd, job), VerifyLocal(th'[t], row', verified),
           th'[t].pc \in VerifierPcs => th[t].pc \in VerifierPcs \/ row.state \notin Done
    PROVE  ResultInv'
<1> USE DEF ResultInv
<1>1. \A u \in Threads : CommandLocal(th'[u], row', cmd, job)
  BY DEF CommandInv, CommandLocal, Moved
<1>2. \A u \in Threads : VerifyLocal(th'[u], row', verified)
  BY DEF VerifyInv, VerifyLocal, Moved
<1>3. \A u, v \in Threads : th'[u].pc \in VerifierPcs /\ th'[v].pc \in VerifierPcs => u = v
  <2>1. CASE row.state \notin Done
    <3>1. \A u \in Threads : th[u].pc \notin VerifierPcs
      BY <2>1 DEF VerifyInv, VerifyLocal
    <3> QED
      BY <3>1 DEF Moved
  <2>2. CASE row.state \in Done
    BY <2>2 DEF VerifyInv, Moved
  <2> QED
    BY <2>1, <2>2
<1>4. row'.state \notin Done => verified = <<>>
  BY DEF VerifyInv
<1>5. marker' = Passed => verified = <<"passed">>
  <2>1. Passed # None
    BY NoneAssumption, OutsSound DEF VerifierOuts
  <2> QED
    BY <2>1 DEF VerifyInv
<1>6. CommandInv'
  BY <1>1 DEF CommandInv
<1> QED
  BY <1>2, <1>3, <1>4, <1>5, <1>6 DEF VerifyInv

\* A step that earns nothing.
LEMMA AsideStep ==
    ASSUME Types, Types', ResultInv, NEW t \in Threads, Moved(t), Aside(row, row'),
           UNCHANGED <<job, cmd, verified>>, marker' \in {marker, None},
           CommandLocal(th'[t], row', cmd, job), VerifyLocal(th'[t], row', verified),
           th'[t].pc \in VerifierPcs => th[t].pc \in VerifierPcs
    PROVE  ResultInv'
<1>1. row'.state \in Earned => cmd = "done" /\ (job.attest => AttestedRow(row'))
  BY DEF ResultInv, CommandInv, Aside, SameState
<1>2. row'.state = "succeeded" /\ job.verifier => row'.verdict = "passed"
  BY DEF ResultInv, CommandInv, Aside, SameState, Earned
<1>3. row'.verdict = "passed" => verified = <<"passed">>
  <2>1. row'.verdict = "passed" => row'.state \in Earned
    BY DEF Types, RowInv, FiledByVerdict, Earned
  <2> QED
    BY <2>1 DEF ResultInv, VerifyInv, Aside, SameState
<1> QED
  BY <1>1, <1>2, <1>3, EarnStep DEF Aside

\* The thread goes on to something else.
LEMMA AsideElsewhere ==
    ASSUME Types, Types', ResultInv, NEW t \in Threads, Moved(t), Aside(row, row'),
           UNCHANGED <<job, cmd, verified>>, marker' \in {marker, None},
           th'[t].pc \notin CommandPcs \cup VerifierPcs \cup {"confExp", "expVer"}
    PROVE  ResultInv'
<1>1. CommandLocal(th'[t], row', cmd, job) /\ VerifyLocal(th'[t], row', verified)
  BY DEF CommandLocal, VerifyLocal, CommandPcs, VerifierPcs
<1> QED
  BY <1>1, AsideStep

\* The thread stops.
LEMMA AsideQuits ==
    ASSUME Types, Types', ResultInv, NEW t \in Threads, Become(t, Idle),
           row' = row \/ row' = EventRecorded(row), UNCHANGED <<job, cmd, verified>>, marker' \in {marker, None}
    PROVE  ResultInv'
<1>1. SameState(row, row') /\ SameEvidence(row, row')
  BY EventColumns DEF SameState, SameEvidence, Types
<1>2. Moved(t) /\ th'[t].pc = "idle"
  BY BecomeIdle
<1> QED
  BY <1>1, <1>2, AsideKept, AsideElsewhere DEF CommandPcs, VerifierPcs

-----------------------------------------------------------------------------
(* The actions.                                                            *)

\* Engine.execute earns nothing: it stops short of the command's end.
LEMMA ExecuteKeepsResult ==
    ASSUME Types, Types', ResultInv, NEW t \in Threads, Execute(t)
    PROVE  ResultInv'
<1>0. RowInv(row) /\ UNCHANGED <<job, cmd, marker, verified>>
  BY DEF Types, Execute, Renew, Probe, Stage, FailProvisioning, FailStarting, SavePlan, IssueProvision,
         IssueStart, ProvisionReturns, StartReturns, SaveReceipt, SavePartial, ClaimLateCleanup,
         ConfirmStart, world, ghosts
<1>1. CASE Become(t, Idle) /\ (UNCHANGED row \/ row' = EventRecorded(row))
  BY <1>0, <1>1, AsideQuits
<1> DEFINE Steps == {"probe", "savePlan", "startCommand", "renewProvision", "failProvisioning", "provWait",
                     "saveReceipt", "savePartial", "confirm", "renewStart", "failStarting", "startWait",
                     "late", "provision", "stage", "closeCall", "waitCommand", "idle"}
<1>2. ASSUME Moved(t), th'[t].pc \in Steps, Aside(row, row') PROVE ResultInv'
  BY <1>0, <1>2, AsideElsewhere DEF CommandPcs, VerifierPcs
<1>3. ASSUME NEW pc \in Steps, Become(t, At(t, pc)), Aside(row, row') PROVE ResultInv'
  <2>1. pc \in ProgramPoints
    BY DEF ProgramPoints
  <2> QED
    BY <1>2, <1>3, <2>1, BecomeAt
<1>4. Aside(row, row)
  BY AsideKept DEF SameEvidence, SameState
<1>5. ASSUME NEW pc, NEW next \in {"probe", "savePlan", "startCommand"}, Renew(t, pc, next)
      PROVE  ResultInv'
  <2> PICK now \in Fresh(t) :
         CAS(t, CanRenewProvisioningClaim(row, th[t].owner, now),
             Renewed(row, now + ProvisioningLease), At(t, next), Idle)
    BY <1>5 DEF Renew
  <2>1. now + ProvisioningLease \in Instants
    BY FreshSample, LeasesTyped
  <2>2. Aside(row, Renewed(row, now + ProvisioningLease))
    BY <1>0, <2>1, RenewedColumns, AsideKept
  <2> QED
    BY <1>1, <1>3, <2>2 DEF CAS
<1>6. CASE Probe(t) \/ Stage(t)
  BY <1>3, <1>4, <1>6 DEF Probe, Stage, Goto
<1>7. CASE FailProvisioning(t) \/ FailStarting(t)
  <2>1. CASE row.state \in {"provisioning", "starting"} /\ row' = ClaimFinished(row, Failed) /\ Become(t, Idle)
    <3>1. Sound(Failed) /\ Failed.state = "failed"
      BY OutsSound DEF VerifierOuts, Failed, Outcome
    <3>2. row'.state = "failed" /\ SameEvidence(row, row')
      BY <1>0, <2>1, <3>1, ClaimFinishedColumns
    <3> QED
      BY <1>2, <2>1, <3>2, BecomeIdle, AsideEnded DEF Terminal
  <2> QED
    BY <1>1, <1>7, <2>1 DEF FailProvisioning, FailStarting, CanFinishProvisioningClaim,
                            CanFinishStartingClaim, CAS
<1>8. CASE SavePlan(t)
  <2>1. Aside(row, PlanSaved(row))
    BY <1>0, PlanSavedColumns, AsideKept
  <2> QED
    BY <1>1, <1>3, <1>8, <2>1 DEF SavePlan, CAS
<1>9. CASE IssueProvision(t) \/ IssueStart(t) \/ ProvisionReturns(t) \/ StartReturns(t)
  BY <1>1, <1>3, <1>4, <1>9 DEF IssueProvision, IssueStart, ProvisionReturns, StartReturns, Evidence, Stop, Goto
<1>10. CASE SaveReceipt(t)
  <2>1. row.state = "provisioning" => Aside(row, ReceiptSaved(row))
    BY <1>0, ReceiptSavedColumns, AsideForward DEF Done, Earned, Terminal
  <2> QED
    BY <1>1, <1>3, <1>4, <1>10, <2>1 DEF SaveReceipt, CAS, CanSaveProvisioning, Goto
<1>11. CASE SavePartial(t)
  <2>1. Aside(row, EventRecorded(PartialReceiptSaved(row, TRUE)))
    BY <1>0, PartialColumns, AsideKept
  <2> QED
    BY <1>1, <1>2, <1>3, <1>4, <1>11, <2>1, BecomeIdle DEF SavePartial, CAS, Goto
<1>12. CASE ConfirmStart(t)
  <2>1. CASE /\ row.state = "starting" /\ row.eowner = None /\ row' = StartConfirmed(row)
             /\ Become(t, [At(t, "waitCommand") EXCEPT !.from = "running"])
    <3>1. Aside(row, row')
      BY <1>0, <2>1, ConfirmedColumns, AsideForward DEF Done, Earned, Terminal
    <3>2. Moved(t) /\ th'[t].pc = "waitCommand"
      BY <2>1, BecomeFrom DEF ProgramPoints
    <3> QED
      BY <1>2, <3>1, <3>2
  <2> QED
    BY <1>1, <1>12, <2>1 DEF ConfirmStart, CAS, CanConfirmStartingClaim, EffectUnowned
<1>13. CASE ClaimLateCleanup(t)
  <2> DEFINE now == th[t].now
  <2> SUFFICES ASSUME row' = LateCleanupClaimed(row, th[t].owner, t, now + CloseLease, Interrupted, TRUE),
                      Become(t, [At(t, "closeCall") EXCEPT !.from = row.state,
                                                           !.out = LateIntent(row, Interrupted)])
               PROVE  ResultInv'
    BY <1>1, <1>13 DEF ClaimLateCleanup, CAS
  <2>1. th[t].owner \in Owners /\ t \in Claims /\ now + CloseLease \in Instants
    BY <1>13, TokensTyped, ThreadTyped, LeasesTyped DEF ClaimLateCleanup
  <2>2. Aside(row, row')
    BY <1>0, <2>1, LateColumnsSet, AsideKept
  <2>3. Moved(t) /\ th'[t].pc = "closeCall"
    BY BecomeLate
  <2> QED
    BY <1>2, <2>2, <2>3
<1> QED
  BY <1>5, <1>6, <1>7, <1>8, <1>9, <1>10, <1>11, <1>12, <1>13 DEF Execute

\* The closes end nothing as a success: CloseOuts are the ends they have.
LEMMA ClosingKeepsResult ==
    ASSUME Types, Types', CloseInv, ResultInv, NEW t \in Threads, Close(t)
    PROVE  ResultInv'
<1>0. RowInv(row) /\ UNCHANGED <<job, cmd, marker, verified>> /\ th[t].pc # "idle"
  BY DEF Types, Close, ClaimClose, IssueClose, CloseReturns, CheckClosed, FinishClose, ObserveClose,
         ReclaimClose, world, ghosts
<1>t. th[t].pc \in OutPcs => Sound(th[t].out) /\ th[t].owner \in Owners /\ t \in Claims
  BY <1>0, TokensTyped, ThreadTyped DEF Fits
<1>1. CASE Become(t, Idle) /\ (UNCHANGED row \/ row' = EventRecorded(row))
  BY <1>0, <1>1, AsideQuits
<1>2. ASSUME NEW pc \in {"closeCall", "closeWait", "exists", "closeFin", "reclaim"},
             Become(t, At(t, pc)) \/ Become(t, Carry(t, pc)), Aside(row, row')
      PROVE  ResultInv'
  <2>1. pc \in ProgramPoints
    BY DEF ProgramPoints
  <2>2. Moved(t) /\ th'[t].pc = pc
    BY <1>2, <2>1, BecomeAt, BecomeCarry
  <2> QED
    BY <1>0, <1>2, <2>2, AsideElsewhere DEF CommandPcs, VerifierPcs
<1>3. Aside(row, row)
  BY AsideKept DEF SameEvidence, SameState
<1>4. CASE ClaimClose(t)
  <2> DEFINE now == th[t].now
  <2>1. now + CloseLease \in Instants /\ Sound(th[t].out) /\ th[t].owner \in Owners /\ t \in Claims
    BY <1>4, <1>t, ThreadTyped, LeasesTyped DEF ClaimClose, OutPcs
  <2>2. Aside(row, WorkspaceCloseClaimed(row, th[t].owner, t, now + CloseLease, th[t].out))
    BY <1>0, <2>1, CloseClaimedColumns, AsideKept
  <2> QED
    BY <1>1, <1>2, <1>4, <2>2 DEF ClaimClose, CAS
<1>5. CASE IssueClose(t) \/ CloseReturns(t) \/ CheckClosed(t) \/ ObserveClose(t)
  BY <1>1, <1>2, <1>3, <1>5 DEF IssueClose, CloseReturns, CheckClosed, ObserveClose, Goto, Evidence, Stop
<1>6. CASE FinishClose(t)
  <2> SUFFICES ASSUME row.state = th[t].from, row.ekind = "workspace_close",
                      row' = EffectFinished(row, th[t].out), Become(t, Idle)
               PROVE  ResultInv'
    BY <1>1, <1>6 DEF FinishClose, CAS, CanFinishEffect
  <2>1. Sound(th[t].out) /\ CloseOf(row, th[t].from, th[t].out)
    BY <1>t, <1>6 DEF FinishClose, OutPcs, CloseLocal, ClosePcs, CloseInv, CloseThreads
  <2>2. /\ SameEvidence(row, row')
        /\ IF row.state \in Terminal THEN SameState(row, row') ELSE row'.state = th[t].out.state
    BY <1>0, <2>1, EffectFinishedColumns
  <2>3. row.state \notin Terminal => th[t].out.state \in Terminal \ {"succeeded"}
    BY <2>1 DEF CloseOf, CloseOuts, Timed_out, Cancelled, Interrupted, Outcome, Terminal
  <2>4. Aside(row, row')
    BY <2>2, <2>3, AsideKept, AsideEnded
  <2> QED
    BY <1>0, <2>4, BecomeIdle, AsideElsewhere DEF CommandPcs, VerifierPcs
<1>7. CASE ReclaimClose(t)
  <2> DEFINE now == th[t].now
  <2>1. now + CloseLease \in Instants /\ th[t].owner \in Owners /\ t \in Claims
    BY <1>7, <1>t, ThreadTyped, LeasesTyped DEF ReclaimClose, OutPcs
  <2>2. row.ekind = "workspace_close" => Aside(row, Reclaimed(row, th[t].owner, t, now + CloseLease))
    BY <1>0, <2>1, ReclaimedColumns, AsideKept
  <2> QED
    BY <1>1, <1>2, <1>7, <2>2 DEF ReclaimClose, CAS, CanReclaimEffect
<1> QED
  BY <1>4, <1>5, <1>6, <1>7 DEF Close

\* Engine.monitorCommand and completeCommand, up to the settled run.
LEMMA CompletionKeepsResult ==
    ASSUME Types, Types', ResultInv, NEW t \in Threads,
           WaitCommand(t) \/ FailRun(t) \/ Attest(t) \/ Settle(t) \/ Succeed(t)
    PROVE  ResultInv'
<1>0. RowInv(row) /\ UNCHANGED <<job, cmd, marker, verified>> /\ th[t].pc # "idle"
  BY DEF Types, WaitCommand, FailRun, Attest, Settle, Succeed, world, ghosts
<1>l. CommandLocal(th[t], row, cmd, job)
  BY DEF ResultInv, CommandInv
<1>1. CASE Become(t, Idle) /\ UNCHANGED row
  BY <1>0, <1>1, AsideQuits
<1>2. Aside(row, row)
  BY AsideKept DEF SameEvidence, SameState
<1>3. ASSUME NEW pc \in {"failRun", "attest", "settle"}, Become(t, At(t, pc)), Aside(row, row'),
             pc \in {"attest", "settle"} => cmd = "done", pc = "settle" /\ job.attest => AttestedRow(row')
      PROVE  ResultInv'
  <2>1. Moved(t) /\ th'[t].pc = pc
    BY <1>3, BecomeAt DEF ProgramPoints
  <2>2. CommandLocal(th'[t], row', cmd, job) /\ VerifyLocal(th'[t], row', verified)
    BY <1>3, <2>1 DEF CommandLocal, VerifyLocal, VerifierPcs
  <2> QED
    BY <1>0, <1>3, <2>1, <2>2, AsideStep DEF VerifierPcs
<1>4. CASE WaitCommand(t)
  <2>1. CASE cmd \in {"done", "failed"} /\ Become(t, At(t, Complete)) /\ UNCHANGED row
    BY <1>2, <1>3, <2>1 DEF Complete
  <2>2. ASSUME NEW o \in CloseOuts, Become(t, CloseFor(t, o)), UNCHANGED row PROVE ResultInv'
    <3>1. Moved(t) /\ th'[t].pc = "claimClose"
      BY <2>2, BecomeOut DEF CloseFor, ProgramPoints
    <3> QED
      BY <1>0, <1>2, <2>2, <3>1, AsideElsewhere DEF CommandPcs, VerifierPcs
  <2> QED
    BY <1>4, <2>1, <2>2 DEF WaitCommand, Goto, CloseOuts
<1>5. CASE FailRun(t)
  <2>1. CASE row' = Finished(row, Failed) /\ Become(t, Idle)
    <3>1. Sound(Failed) /\ Failed.state = "failed"
      BY OutsSound DEF VerifierOuts, Failed, Outcome
    <3>2. row'.state = "failed" /\ SameEvidence(row, row')
      BY <1>0, <2>1, <3>1, FinishedColumns
    <3>3. Aside(row, row')
      BY <3>2, AsideEnded DEF Terminal
    <3> QED
      BY <1>0, <2>1, <3>3, BecomeIdle, AsideElsewhere DEF CommandPcs, VerifierPcs
  <2> QED
    BY <1>1, <1>5, <2>1 DEF FailRun, CAS
<1>6. CASE Attest(t)
  <2>1. CASE UNCHANGED row /\ Become(t, At(t, "failRun"))
    BY <1>2, <1>3, <2>1
  <2>2. CASE row' = ReceiptSet(row, "model_attestation", Attestation) /\ Become(t, At(t, "settle"))
    <3>1. SameState(row, row') /\ AttestedRow(row')
      BY <1>0, <2>2, AttestedColumns, LifecycleAssumption DEF Attestation
    <3>2. Aside(row, row') /\ cmd = "done"
      BY <1>l, <1>6, <3>1 DEF Aside, SameState, Attest, CommandLocal
    <3> QED
      BY <1>3, <2>2, <3>1, <3>2
  <2> QED
    BY <1>6, <2>1, <2>2 DEF Attest, CAS, Goto
<1>7. CASE Settle(t)
  <2>0. cmd = "done" /\ (job.attest => AttestedRow(row)) /\ th[t].from = "running"
    BY <1>l, <1>7, ThreadTyped DEF Settle, CommandLocal, Fits
  <2>1. CASE /\ row.state = "running" /\ row' = Transitioned(row, "settled")
             /\ Become(t, [At(t, Settled) EXCEPT !.from = "settled"])
    <3>1. row'.state = "settled" /\ SameEvidence(row, row')
      BY <1>0, <2>1, SettledColumns
    <3>2. Settled \in ProgramPoints /\ (Settled = "succeed" => ~job.verifier)
          /\ Settled \in {"succeed", "claimVer"}
      BY DEF Settled, ProgramPoints
    <3>3. Moved(t) /\ th'[t].pc = Settled
      BY <2>1, <3>2, BecomeFrom
    <3>4. CommandLocal(th'[t], row', cmd, job) /\ VerifyLocal(th'[t], row', verified)
      BY <3>2, <3>3 DEF CommandLocal, VerifyLocal, VerifierPcs
    <3>5. row.state \notin Done /\ row'.verdict # "passed"
      BY <2>1, <3>1 DEF Done, Terminal, Types, RowInv, FiledByVerdict
    <3> QED
      BY <1>0, <2>0, <3>1, <3>2, <3>3, <3>4, <3>5, EarnStep DEF AttestedRow, SameEvidence, VerifierPcs
  <2> QED
    BY <1>1, <1>7, <2>0, <2>1 DEF Settle, CAS, CanTransition
<1>8. CASE Succeed(t)
  <2>0. ~job.verifier /\ th[t].from = "settled"
    BY <1>l, <1>8, ThreadTyped DEF Succeed, CommandLocal, Fits
  <2>1. CASE row.state = "settled" /\ row' = Finished(row, Succeeded) /\ Become(t, Idle)
    <3>1. Sound(Succeeded) /\ Succeeded.state = "succeeded" /\ Succeeded.verdict = "unverified"
      BY OutsSound DEF Succeeded, Outcome
    <3>2. row'.state = "succeeded" /\ row'.verdict = "unverified" /\ SameEvidence(row, row')
      BY <1>0, <2>1, <3>1, FinishedColumns
    <3>3. cmd = "done" /\ (job.attest => AttestedRow(row)) /\ row'.state \in Done
      BY <2>1, <3>2 DEF ResultInv, CommandInv, Earned, Done, Terminal
    <3>4. Moved(t) /\ th'[t].pc = "idle"
      BY <2>1, BecomeIdle
    <3>5. CommandLocal(th'[t], row', cmd, job) /\ VerifyLocal(th'[t], row', verified)
      BY <3>4 DEF CommandLocal, VerifyLocal, VerifierPcs
    <3> QED
      BY <1>0, <2>0, <3>2, <3>3, <3>4, <3>5, EarnStep DEF AttestedRow, SameEvidence, VerifierPcs
  <2> QED
    BY <1>1, <1>8, <2>0, <2>1 DEF Succeed, CAS, CanFinish
<1> QED
  BY <1>4, <1>5, <1>6, <1>7, <1>8

\* The verdicts tell the outcomes of the verifier apart.
LEMMA VerifierEndsApart ==
    /\ Passed # VerifierFailed /\ Passed # Failed /\ Passed # Interrupted
    /\ Passed.verdict = "passed" /\ VerifierFailed.verdict = "failed"
    /\ Passed.state = "succeeded"
    /\ \A o \in {VerifierFailed, Failed, Interrupted} :
          o.state \in Terminal \ {"succeeded"} /\ o.verdict # "passed"
    /\ <<>> # <<"passed">> /\ <<"running">> # <<"passed">>
<1>1. Passed.verdict = "passed" /\ VerifierFailed.verdict = "failed" /\ Passed.state = "succeeded"
  BY DEF Passed, VerifierFailed, Outcome
<1>2. \A o \in {VerifierFailed, Failed, Interrupted} :
         o.state \in Terminal \ {"succeeded"} /\ o.verdict # "passed"
  BY DEF VerifierFailed, Failed, Interrupted, Outcome, Terminal
<1>3. <<>> # <<"passed">> /\ <<"running">> # <<"passed">>
  <2>1. Len(<<>>) = 0 /\ Len(<<"passed">>) = 1 /\ <<"passed">>[1] # <<"running">>[1]
    OBVIOUS
  <2> QED
    BY <2>1
<1> QED
  BY <1>1, <1>2, <1>3

\* ClaimVerifier: the run was settled, so no verifier has been started.
LEMMA ClaimVerifierKeepsResult ==
    ASSUME Types, Types', ResultInv, NEW t \in Threads, ClaimVerifier(t)
    PROVE  ResultInv'
<1>0. RowInv(row) /\ UNCHANGED <<job, cmd, marker, verified>> /\ th[t].pc # "idle"
  BY DEF Types, ClaimVerifier, world, ghosts
<1>1. CASE Become(t, Idle) /\ UNCHANGED row
  BY <1>0, <1>1, AsideQuits
<1> SUFFICES ASSUME NEW pc \in {"startVer", "finVer"}, CanClaimVerifier(row),
                    row' = VerifierClaimed(row, th[t].owner, t, VerifierLease),
                    Become(t, [At(t, pc) EXCEPT !.out = Failed])
             PROVE  ResultInv'
  BY <1>1 DEF ClaimVerifier, CAS
<1>2. th[t].owner \in Owners /\ t \in Claims /\ VerifierLease \in Instants /\ pc \in ProgramPoints
  BY <1>0, TokensTyped, ThreadTyped, LeasesTyped, IdleTyped DEF ProgramPoints
<1>3. row'.state = "verifying" /\ SameEvidence(row, row') /\ row.state = "settled"
  BY <1>0, <1>2, VerifierClaimedColumns DEF CanClaimVerifier
<1>4. /\ cmd = "done" /\ (job.attest => AttestedRow(row)) /\ verified = <<>>
      /\ row.state \notin Done /\ row'.state \in Done
  BY <1>3 DEF ResultInv, CommandInv, VerifyInv, Earned, Done, Terminal
<1>5. Moved(t) /\ th'[t].pc = pc /\ th'[t].out = Failed
  BY <1>2, BecomeOut
<1>6. row'.verdict # "passed"
  BY <1>3 DEF Types, RowInv, FiledByVerdict
<1>7. CommandLocal(th'[t], row', cmd, job)
  BY <1>5 DEF CommandLocal
<1>8. VerifyLocal(th'[t], row', verified)
  BY <1>4, <1>5, VerifierEndsApart DEF VerifyLocal, VerifierPcs, VerifierOuts
<1> QED
  BY <1>0, <1>3, <1>4, <1>5, <1>6, <1>7, <1>8, EarnStep DEF AttestedRow, SameEvidence

\* The invocation itself: it starts once, and its result is what it published.
LEMMA InvocationKeepsResult ==
    ASSUME Types, Types', ResultInv, NEW t \in Threads, StartVerifier(t) \/ VerifierEnds(t)
    PROVE  ResultInv'
<1>0. UNCHANGED <<row, job, cmd>> /\ th[t].pc \in VerifierPcs /\ row.state \in Done
  BY DEF StartVerifier, VerifierEnds, VerifierPcs, VerifyLocal, ResultInv, VerifyInv
<1>1. \A u \in Threads \ {t} : th[u].pc \notin VerifierPcs
  BY <1>0 DEF ResultInv, VerifyInv
<1>2. ASSUME Moved(t), th'[t].pc \in {"runVer", "finVer"}, verified # <<"passed">>,
             verified' \in {<<e>> : e \in {"running", "killed", "passed", "failed"}},
             marker' = Passed => verified' = <<"passed">>, VerifyLocal(th'[t], row, verified')
      PROVE  ResultInv'
  <2>1. CommandInv'
    <3>1. \A u \in Threads : CommandLocal(th'[u], row, cmd, job)
      BY <1>2 DEF Moved, ResultInv, CommandInv, CommandLocal
    <3> QED
      BY <1>0, <3>1 DEF ResultInv, CommandInv
  <2>2. \A u \in Threads : VerifyLocal(th'[u], row, verified')
    BY <1>1, <1>2 DEF Moved, ResultInv, VerifyInv, VerifyLocal, VerifierPcs
  <2>3. \A u, v \in Threads : th'[u].pc \in VerifierPcs /\ th'[v].pc \in VerifierPcs => u = v
    BY <1>1, <1>2 DEF Moved
  <2>4. row.verdict # "passed"
    BY <1>2 DEF ResultInv, VerifyInv
  <2> QED
    BY <1>0, <1>2, <2>1, <2>2, <2>3, <2>4 DEF ResultInv, VerifyInv
<1>3. CASE StartVerifier(t)
  <2>1. verified = <<>> /\ verified' = Append(verified, "running") /\ UNCHANGED marker
    BY <1>3 DEF StartVerifier, ResultInv, VerifyInv, VerifyLocal
  <2>2. verified' = <<"running">>
    BY <2>1
  <2>3. Moved(t) /\ th'[t].pc = "runVer"
    BY <1>3, BecomeAt DEF StartVerifier, Goto, ProgramPoints
  <2>4. VerifyLocal(th'[t], row, verified')
    BY <1>0, <2>2, <2>3 DEF VerifyLocal, VerifierPcs
  <2>5. marker' # Passed /\ verified # <<"passed">>
    BY <2>1, VerifierEndsApart DEF ResultInv, VerifyInv
  <2> QED
    BY <1>2, <2>2, <2>3, <2>4, <2>5
<1>4. CASE VerifierEnds(t)
  <2>1. verified = <<"running">> /\ verified # <<"passed">>
    BY <1>4, VerifierEndsApart DEF VerifierEnds, ResultInv, VerifyInv, VerifyLocal
  <2>2. ASSUME NEW e PROVE [verified EXCEPT ![Len(verified)] = e] = <<e>>
    BY <2>1
  <2>3. ASSUME NEW o \in {Passed, VerifierFailed}, marker' = o,
               verified' = [verified EXCEPT ![Len(verified)] = o.verdict],
               Become(t, [At(t, "finVer") EXCEPT !.out = o])
        PROVE  ResultInv'
    <3>1. verified' = <<o.verdict>>
      BY <2>2, <2>3
    <3>2. Moved(t) /\ th'[t].pc = "finVer" /\ th'[t].out = o
      BY <2>3, BecomeOut DEF ProgramPoints
    <3>3. VerifyLocal(th'[t], row, verified')
      BY <1>0, <3>1, <3>2, VerifierEndsApart DEF VerifyLocal, VerifierOuts
    <3> QED
      BY <1>2, <2>1, <2>3, <3>1, <3>2, <3>3, VerifierEndsApart
  <2>4. ASSUME NEW o \in {VerifierFailed, Failed}, UNCHANGED marker,
               verified' = [verified EXCEPT ![Len(verified)] = "killed"],
               Become(t, [At(t, "finVer") EXCEPT !.out = o])
        PROVE  ResultInv'
    <3>1. verified' = <<"killed">>
      BY <2>2, <2>4
    <3>2. Moved(t) /\ th'[t].pc = "finVer" /\ th'[t].out = o
      BY <2>4, BecomeOut DEF ProgramPoints
    <3>3. VerifyLocal(th'[t], row, verified')
      BY <1>0, <3>1, <3>2, VerifierEndsApart DEF VerifyLocal, VerifierOuts
    <3>4. marker' # Passed
      BY <2>1, <2>4 DEF ResultInv, VerifyInv
    <3> QED
      BY <1>2, <2>1, <3>1, <3>2, <3>3, <3>4
  <2> QED
    BY <1>4, <2>3, <2>4 DEF VerifierEnds
<1> QED
  BY <1>3, <1>4

\* A verifier's outcome is filed, by its owner or by whoever finds it expired.
LEMMA FiledVerdict ==
    ASSUME Types, Types', ResultInv, NEW t \in Threads, Become(t, Idle), row.state = "verifying",
           NEW o \in VerifierOuts \cup {Interrupted}, o = Passed => verified = <<"passed">>,
           row'.state = o.state, row'.verdict = o.verdict, SameEvidence(row, row'),
           UNCHANGED <<job, cmd, verified>>, marker' \in {marker, None}
    PROVE  ResultInv'
<1>1. cmd = "done" /\ (job.attest => AttestedRow(row))
  BY DEF ResultInv, CommandInv, Earned
<1>2. row'.state \in Done /\ (row'.state = "succeeded" => row'.verdict = "passed")
      /\ (row'.verdict = "passed" => verified = <<"passed">>)
  BY VerifierEndsApart DEF VerifierOuts, Done, Terminal
<1>3. Moved(t) /\ th'[t].pc = "idle"
  BY BecomeIdle
<1>4. CommandLocal(th'[t], row', cmd, job) /\ VerifyLocal(th'[t], row', verified)
  BY <1>3 DEF CommandLocal, VerifyLocal, VerifierPcs
<1> QED
  BY <1>1, <1>2, <1>3, <1>4, EarnStep DEF AttestedRow, SameEvidence, VerifierPcs

\* FinishEffect and FinishExpiredVerifier.
LEMMA FinishKeepsResult ==
    ASSUME Types, Types', ResultInv, NEW t \in Threads,
           FinishVerifier(t) \/ (t = "daemon" /\ FinishExpiredVerifier)
    PROVE  ResultInv'
<1>0. RowInv(row) /\ UNCHANGED <<job, cmd, verified>> /\ marker' \in {marker, None}
  BY DEF Types, FinishVerifier, FinishExpiredVerifier, ghosts
<1>1. CASE Become(t, Idle) /\ UNCHANGED row
  BY <1>0, <1>1, AsideQuits
<1>2. /\ th[t].out \in VerifierOuts \cup {Interrupted} /\ Sound(th[t].out)
      /\ th[t].out = Passed => verified = <<"passed">>
  BY ThreadTyped DEF FinishVerifier, FinishExpiredVerifier, Fits, OutPcs, ResultInv, VerifyInv, VerifyLocal,
                     VerifierOuts
<1>3. CASE /\ row.state = "verifying" /\ Become(t, Idle)
           /\ row' = EffectFinished(row, th[t].out) \/ row' = ExpiredVerifierFinished(row, th[t].out)
  <2>1. row'.state = th[t].out.state /\ row'.verdict = th[t].out.verdict /\ SameEvidence(row, row')
    BY <1>0, <1>2, <1>3, EffectFinishedColumns, ExpiredColumns DEF Terminal
  <2> DEFINE o == th[t].out
  <2>2. /\ o \in VerifierOuts \cup {Interrupted} /\ (o = Passed => verified = <<"passed">>)
        /\ row'.state = o.state /\ row'.verdict = o.verdict
    BY <1>2, <2>1
  <2> HIDE DEF o
  <2> QED
    BY <1>0, <1>3, <2>1, <2>2, FiledVerdict
<1> QED
  BY <1>1, <1>3 DEF FinishVerifier, FinishExpiredVerifier, CAS, CanFinishEffect, CanFinishExpiredVerifier

\* Engine.Reconcile short of the verifier's end, and the monitor it starts.
LEMMA ReconcileKeepsResult ==
    ASSUME Types, Types', ResultInv, Reconcile, ~FinishExpiredVerifier
    PROVE  ResultInv'
<1> DEFINE t == "daemon"
<1>0. RowInv(row) /\ UNCHANGED <<job, cmd, marker, verified>> /\ t \in Threads /\ "mon" \in Threads
  BY DEF Types, Reconcile, ReadNonTerminalRuns, ReconcileRun, FindWorkspace, RecoverWorkspace,
         InterruptProvisioning, CommandResult, ConfirmExpiredStart, ReadMarker, world, ghosts, Threads
<1>1. CASE Become(t, Idle) /\ (UNCHANGED row \/ row' = EventRecorded(row))
  BY <1>0, <1>1, AsideQuits
<1>2. Aside(row, row)
  BY AsideKept DEF SameEvidence, SameState
<1> DEFINE Elsewhere == {"scan", "recExists", "claimClose", "find", "intProv", "result", "readMarker",
                         "recWs", "idle"}
<1>3. ASSUME Moved(t), th'[t].pc \in Elsewhere, Aside(row, row') PROVE ResultInv'
  BY <1>0, <1>3, AsideElsewhere DEF CommandPcs, VerifierPcs
<1>4. ASSUME NEW pc \in Elsewhere, UNCHANGED row,
             Become(t, At(t, pc)) \/ Become(t, Carry(t, pc)) \/ Become(t, CloseFor(t, Interrupted))
      PROVE  ResultInv'
  <2>1. pc \in ProgramPoints /\ "claimClose" \in ProgramPoints
    BY DEF ProgramPoints
  <2>2. Moved(t) /\ th'[t].pc \in Elsewhere
    BY <1>0, <1>4, <2>1, BecomeAt, BecomeCarry, BecomeOut DEF CloseFor
  <2> QED
    BY <1>2, <1>3, <1>4, <2>2
<1>5. ASSUME NEW pc \in {"waitCommand", "succeed", "claimVer"}, NEW from,
             StartMonitor(pc, from), pc = "succeed" => ~job.verifier
      PROVE  ResultInv'
  <2>1. UNCHANGED row
    BY <1>5 DEF StartMonitor
  <2>2. CASE Become(t, Idle)
    BY <1>1, <2>1, <2>2
  <2>3. CASE /\ th'[t] = Idle /\ th'["mon"].pc = pc /\ \A u \in Threads \ {t, "mon"} : th'[u] = th[u]
    <3>1. \A u \in Threads : \/ th'[u] = th[u]
                             \/ th'[u].pc \in {"idle", "waitCommand", "succeed", "claimVer"}
                                   /\ (th'[u].pc = "succeed" => ~job.verifier)
      BY <1>5, <2>3 DEF Idle
    <3>2. CommandInv'
      <4>1. \A u \in Threads : CommandLocal(th'[u], row, cmd, job)
        BY <3>1 DEF ResultInv, CommandInv, CommandLocal
      <4> QED
        BY <1>0, <2>1, <4>1 DEF ResultInv, CommandInv
    <3>3. VerifyInv'
      <4>1. \A u \in Threads : VerifyLocal(th'[u], row, verified)
        BY <3>1 DEF ResultInv, VerifyInv, VerifyLocal, VerifierPcs
      <4>2. \A u \in Threads : th'[u].pc \in VerifierPcs => th[u].pc \in VerifierPcs
        BY <3>1 DEF VerifierPcs
      <4> QED
        BY <1>0, <2>1, <4>1, <4>2 DEF ResultInv, VerifyInv
    <3> QED
      BY <3>2, <3>3 DEF ResultInv
  <2> QED
    BY <1>5, <2>2, <2>3, BecomeMonitor
<1>6. CASE ReadNonTerminalRuns
  <2>1. UNCHANGED row
    BY <1>6 DEF ReadNonTerminalRuns
  <2> QED
    BY <1>2, <1>3, <1>6, <2>1, BecomeScan
<1>7. CASE ReconcileRun
  <2>1. ASSUME NEW pc \in {"claimClose", "find", "intProv", "result", "readMarker"}, UNCHANGED row,
               Become(t, Looking(pc, Interrupted)) PROVE ResultInv'
    BY <1>2, <1>3, <2>1, BecomeLooking DEF ProgramPoints
  <2>2. CASE Become(t, Looking("recExists", Scanned.intent)) /\ UNCHANGED row
    BY <1>2, <1>3, <2>2, BecomeClosing
  <2>3. CASE StartMonitor(Settled, "settled")
    BY <1>5, <2>3 DEF Settled
  <2> QED
    BY <1>1, <1>7, <2>1, <2>2, <2>3 DEF ReconcileRun, ReconcileClose, ReconcileProvisioning, ReconcileCommand,
                                        ReconcileVerifying
<1>8. CASE FindWorkspace
  BY <1>1, <1>4, <1>8 DEF FindWorkspace, Stop, Evidence
<1>9. CASE RecoverWorkspace
  <2>1. CASE row' = WorkspaceRecovered(row) /\ Become(t, Carry(t, "claimClose"))
    <3>1. Aside(row, row')
      BY <1>0, <2>1, RecoveredColumns, AsideKept
    <3>2. Moved(t) /\ th'[t].pc = "claimClose"
      BY <1>0, <2>1, BecomeCarry DEF ProgramPoints
    <3> QED
      BY <1>3, <3>1, <3>2
  <2> QED
    BY <1>1, <1>9, <2>1 DEF RecoverWorkspace, CAS
<1>10. CASE InterruptProvisioning
  <2>1. CASE row.state = "provisioning" /\ row' = ClaimFinished(row, Interrupted) /\ Become(t, Idle)
    <3>1. Sound(Interrupted) /\ Interrupted.state = "interrupted"
      BY OutsSound DEF CloseOuts, Interrupted, Outcome
    <3>2. row'.state = "interrupted" /\ SameEvidence(row, row')
      BY <1>0, <2>1, <3>1, ClaimFinishedColumns
    <3> QED
      BY <1>0, <1>3, <2>1, <3>2, BecomeIdle, AsideEnded DEF Terminal
  <2> QED
    BY <1>1, <1>10, <2>1 DEF InterruptProvisioning, CAS, CanInterruptExpiredProvisioning
<1>11. ASSUME Moved(t), th'[t].pc \in {Complete, "confExp"}, cmd \in {"done", "failed"},
              SameEvidence(row, row'), Aside(row, row')
       PROVE  ResultInv'
  <2>1. CommandLocal(th'[t], row', cmd, job) /\ VerifyLocal(th'[t], row', verified)
    BY <1>11 DEF CommandLocal, VerifyLocal, Complete, VerifierPcs
  <2> QED
    BY <1>0, <1>11, <2>1, AsideStep DEF Complete, VerifierPcs
<1>12. CASE CommandResult
  <2>1. CASE cmd \in {"done", "failed"} /\ Goto(t, Complete) /\ UNCHANGED row
    <3>1. Moved(t) /\ th'[t].pc = Complete
      BY <1>0, <2>1, BecomeAt DEF Goto, Complete, ProgramPoints
    <3> QED
      BY <1>2, <1>11, <2>1, <3>1 DEF SameEvidence
  <2>2. CASE StartMonitor("waitCommand", "running")
    BY <1>5, <2>2
  <2>3. CASE cmd \in {"done", "failed"} /\ Goto(t, "confExp") /\ UNCHANGED row
    <3>1. Moved(t) /\ th'[t].pc = "confExp"
      BY <1>0, <2>3, BecomeAt DEF Goto, ProgramPoints
    <3> QED
      BY <1>2, <1>11, <2>3, <3>1 DEF SameEvidence
  <2> QED
    BY <1>4, <1>12, <2>1, <2>2, <2>3 DEF CommandResult, Goto
<1>13. CASE ConfirmExpiredStart
  <2>1. cmd \in {"done", "failed"}
    BY <1>0, <1>13 DEF ConfirmExpiredStart, ResultInv, CommandInv, CommandLocal
  <2>2. CASE /\ row.state = "starting" /\ row.eowner = None /\ row' = StartConfirmed(row)
             /\ Become(t, [At(t, Complete) EXCEPT !.from = "running"])
    <3>1. SameEvidence(row, row') /\ Aside(row, row')
      BY <1>0, <2>2, ConfirmedColumns, AsideForward DEF Done, Earned, Terminal
    <3>2. Moved(t) /\ th'[t].pc = Complete
      BY <1>0, <2>2, BecomeFrom DEF Complete, ProgramPoints
    <3> QED
      BY <1>11, <2>1, <3>1, <3>2
  <2> QED
    BY <1>1, <1>13, <2>2 DEF ConfirmExpiredStart, CAS, CanConfirmExpiredCommandStart, EffectUnowned
<1>14. CASE ReadMarker
  <2>1. /\ Moved(t) /\ th'[t].pc = "expVer" /\ UNCHANGED row
        /\ th'[t].out = IF marker = None THEN Interrupted ELSE marker
    BY <1>14, BecomeRead DEF ReadMarker
  <2>2. CommandLocal(th'[t], row', cmd, job) /\ VerifyLocal(th'[t], row', verified)
    BY <2>1, VerifierEndsApart DEF CommandLocal, VerifyLocal, VerifierPcs, Types, ResultInv, VerifyInv
  <2> QED
    BY <1>0, <1>2, <2>1, <2>2, AsideStep DEF VerifierPcs
<1> QED
  BY <1>6, <1>7, <1>8, <1>9, <1>10, <1>12, <1>13, <1>14 DEF Reconcile

\* The operator's commands and the admission leave the result alone.
LEMMA OperatorKeepsResult ==
    ASSUME Types, Types', ResultInv, Operator
    PROVE  ResultInv'
<1> DEFINE t == "cli"
<1>0. RowInv(row) /\ UNCHANGED <<job, cmd, marker, verified>> /\ t \in Threads
  BY DEF Types, Operator, Cancel, CancelAccepted, RecoverProvisioning, FindAbsent, InterruptRecovered,
         world, ghosts, Threads
<1>1. CASE Become(t, Idle) /\ UNCHANGED row
  BY <1>0, <1>1, AsideQuits
<1>2. ASSUME UNCHANGED row, Moved(t),
             th'[t].pc \in {"cliFinish", "cliFind", "cliRecover", "recExists", "claimClose"}
      PROVE  ResultInv'
  BY <1>0, <1>2, AsideKept, AsideElsewhere DEF SameEvidence, SameState, CommandPcs, VerifierPcs
<1>3. CASE Cancel
  BY <1>2, <1>3, BecomeCommand, BecomeCancelling, OutsSound DEF Cancel, CloseOuts
<1>4. ASSUME NEW o \in {Cancelled, Interrupted}, Become(t, Idle),
             \/ row' = Finished(row, o)
             \/ row.state = "provisioning" /\ row' = ClaimFinished(row, o)
      PROVE  ResultInv'
  <2>1. Sound(o) /\ o.state \in {"cancelled", "interrupted"}
    BY OutsSound DEF CloseOuts, Cancelled, Interrupted, Outcome
  <2>2. row'.state = o.state /\ SameEvidence(row, row')
    BY <1>0, <1>4, <2>1, FinishedColumns, ClaimFinishedColumns
  <2>3. Aside(row, row')
    BY <2>1, <2>2, AsideEnded DEF Terminal
  <2> QED
    BY <1>0, <1>4, <2>3, BecomeIdle, AsideElsewhere DEF CommandPcs, VerifierPcs
<1>5. CASE CancelAccepted
  BY <1>1, <1>4, <1>5 DEF CancelAccepted, CAS
<1>6. CASE RecoverProvisioning
  BY <1>2, <1>6, BecomeCommand, OutsSound DEF RecoverProvisioning, CloseOuts
<1>7. CASE FindAbsent
  BY <1>1, <1>2, <1>7, BecomeRecovering DEF FindAbsent, Stop
<1>8. CASE InterruptRecovered
  BY <1>1, <1>4, <1>8 DEF InterruptRecovered, CAS, CanInterruptRecovered
<1> QED
  BY <1>3, <1>5, <1>6, <1>7, <1>8 DEF Operator

\* Admission precedes everything a result rests on.
LEMMA AdmissionKeepsResult ==
    ASSUME Types, Types', ResultInv, DecideAdmission
    PROVE  ResultInv'
<1>0. /\ RowInv(row) /\ UNCHANGED <<job, cmd, marker, verified>> /\ "exec" \in Threads
      /\ CanDecideAdmission(row) /\ th["exec"].pc = "idle"
  BY DEF Types, DecideAdmission, world, ghosts, Threads
<1>1. row.state \notin Done
  BY <1>0 DEF CanDecideAdmission, Done, Terminal
<1>2. ASSUME NEW o \in {"d1", "d2", "attended"}, row' = Admitted(row, o, ProvisioningLease),
             Become("exec", [Idle EXCEPT !.pc = "renewProbe", !.owner = o])
      PROVE  ResultInv'
  <2>1. o \in Owners /\ ProvisioningLease \in Instants
    BY <1>2, TokensTyped, LeasesTyped, IdleTyped
  <2>2. row'.state = "provisioning" /\ SameEvidence(row, row')
    BY <1>0, <1>2, <2>1, AdmittedColumns
  <2>3. Aside(row, row')
    BY <1>1, <2>2, AsideForward DEF Earned
  <2> QED
    BY <1>0, <1>2, <2>3, BecomeExec, AsideElsewhere DEF CommandPcs, VerifierPcs
<1>3. ASSUME NEW s \in {"blocked", "failed"}, row' = AdmissionFinished(row, s), UNCHANGED th
      PROVE  ResultInv'
  <2>1. row'.state = s /\ SameEvidence(row, row')
    BY <1>0, <1>3, AdmissionFinishedColumns
  <2>2. Aside(row, row')
    BY <1>1, <2>1, AsideForward DEF Earned
  <2> QED
    BY <1>0, <1>3, <2>2, AsideElsewhere DEF CommandPcs, VerifierPcs, Moved
<1> QED
  BY <1>2, <1>3 DEF DecideAdmission, Types

\* Herdr runs the command once to its end; hands, crashes and time undo nothing.
LEMMA WorldKeepsResult ==
    ASSUME Types, Types', ResultInv, Herdr \/ ByHand \/ Crash \/ Tick
    PROVE  ResultInv'
<1>1. UNCHANGED <<job, marker, verified>> /\ SameState(row, row') /\ SameEvidence(row, row')
  <2>1. UNCHANGED <<job, marker, verified>> /\ row' \in {row, RowAged(row)}
    BY DEF Herdr, ServerProvisions, ServerStarts, ServerCloses, CommandExits, ByHand, ClosedByHand,
           RemovedByHand, Crash, CrashDaemon, CrashAttended, Tick, ghosts, procs, world
  <2> QED
    BY <2>1, AgedColumns DEF Types, SameState, SameEvidence
<1>2. cmd \in {"done", "failed"} => cmd' = cmd
  BY DEF Herdr, ServerProvisions, ServerStarts, ServerCloses, CommandExits, ByHand, ClosedByHand,
         RemovedByHand, Crash, CrashDaemon, CrashAttended, Tick, world
<1>3. \A u \in Threads :
         \/ th'[u].pc = "idle"
         \/ th'[u].pc = th[u].pc /\ th'[u].out = th[u].out
  BY LaterTyped DEF Herdr, ServerProvisions, ServerStarts, ServerCloses, CommandExits, ByHand, ClosedByHand,
         RemovedByHand, Crash, CrashDaemon, CrashAttended, Killed, Tick, Idle
<1>4. CommandInv'
  <2>1. \A u \in Threads : CommandLocal(th'[u], row', cmd', job)
    BY <1>1, <1>2, <1>3 DEF ResultInv, CommandInv, CommandLocal, AttestedRow, SameEvidence
  <2> QED
    BY <1>1, <1>2, <2>1 DEF ResultInv, CommandInv, AttestedRow, SameEvidence, SameState
<1>5. VerifyInv'
  <2>1. \A u \in Threads : VerifyLocal(th'[u], row', verified)
    BY <1>1, <1>3 DEF ResultInv, VerifyInv, VerifyLocal, VerifierPcs, SameState
  <2>2. \A u, v \in Threads : th'[u].pc \in VerifierPcs /\ th'[v].pc \in VerifierPcs => u = v
    BY <1>3 DEF ResultInv, VerifyInv, VerifierPcs
  <2> QED
    BY <1>1, <2>1, <2>2 DEF ResultInv, VerifyInv, SameState
<1> QED
  BY <1>4, <1>5 DEF ResultInv

-----------------------------------------------------------------------------
(* The invariant and what it says.                                         *)

\* Nothing has been run yet.
LEMMA InitResult == Init => ResultInv
<1> SUFFICES ASSUME Init PROVE ResultInv
  OBVIOUS
<1>1. row.state = "accepted" /\ row.verdict = "none"
  BY DEF Init, NewRow
<1>2. \A t \in Threads : th[t].pc = "idle"
  BY DEF Init, Idle
<1>3. marker # Passed /\ verified = <<>>
  BY NoneAssumption, OutsSound DEF Init, VerifierOuts
<1>4. CommandInv
  BY <1>1, <1>2 DEF CommandInv, CommandLocal, Earned
<1>5. VerifyInv
  BY <1>1, <1>2, <1>3 DEF VerifyInv, VerifyLocal, VerifierPcs
<1> QED
  BY <1>4, <1>5 DEF ResultInv

\* Every step keeps it.
LEMMA NextResult == Types /\ Types' /\ CloseInv /\ ResultInv /\ [Next]_vars => ResultInv'
<1> SUFFICES ASSUME Types, Types', CloseInv, ResultInv, [Next]_vars PROVE ResultInv'
  OBVIOUS
<1>1. CASE DecideAdmission
  BY <1>1, AdmissionKeepsResult
<1>2. CASE Execute("exec")
  BY <1>2, ExecuteKeepsResult DEF Threads
<1>3. CASE \E t \in {"exec", "mon", "daemon"} : Monitor(t)
  BY <1>3, CompletionKeepsResult, ClaimVerifierKeepsResult, InvocationKeepsResult, FinishKeepsResult
  DEF Monitor, Threads
<1>4. CASE \E t \in Threads : Close(t)
  BY <1>4, ClosingKeepsResult
<1>5. CASE Reconcile
  <2>1. CASE FinishExpiredVerifier
    BY <2>1, FinishKeepsResult DEF Threads
  <2>2. CASE ~FinishExpiredVerifier
    BY <1>5, <2>2, ReconcileKeepsResult
  <2> QED
    BY <2>1, <2>2
<1>6. CASE Operator
  BY <1>6, OperatorKeepsResult
<1>7. CASE Herdr \/ ByHand \/ Crash \/ Tick
  BY <1>7, WorldKeepsResult
<1>8. CASE UNCHANGED vars
  BY <1>8 DEF vars, world, procs, ghosts, ResultInv, CommandInv, VerifyInv
<1> QED
  BY <1>1, <1>2, <1>3, <1>4, <1>5, <1>6, <1>7, <1>8 DEF Next

\* The results of every behaviour are earned.
THEOREM ResultInvariant == Spec => [](Types /\ CloseInv /\ ResultInv)
<1> QED
  BY InitTypes, NextTypes, InitClose, NextClose, InitResult, NextResult, PTL DEF Spec

\* SuccessIsReal of every run: a settled run's command exited zero, an attested
\* job is attested, and a verified job succeeds by its verifier's own verdict.
THEOREM SuccessIsEarned == Spec => []SuccessIsReal
<1>1. ResultInv => SuccessIsReal
  BY DEF ResultInv, CommandInv, VerifyInv, SuccessIsReal, AttestedRow, Earned
<1> QED
  BY <1>1, ResultInvariant, PTL

\* What VerifyInv says of the invocations.
LEMMA OneInvocation ==
    ASSUME VerifyInv
    PROVE  Len(verified) <= 1 /\ verified \in Seq({"running", "killed", "passed", "failed"})
<1>1. CASE verified = <<>>
  <2>1. Len(<<>>) = 0 /\ <<>> \in Seq({"running", "killed", "passed", "failed"})
    OBVIOUS
  <2> QED
    BY <1>1, <2>1
<1>2. ASSUME NEW e \in {"running", "killed", "passed", "failed"}, verified = <<e>>
      PROVE  Len(verified) <= 1 /\ verified \in Seq({"running", "killed", "passed", "failed"})
  <2>1. Len(<<e>>) = 1 /\ <<e>> \in Seq({"running", "killed", "passed", "failed"})
    OBVIOUS
  <2> QED
    BY <1>2, <2>1
<1> QED
  BY <1>1, <1>2 DEF VerifyInv

\* VerifierRunsOnce of every run: crashes, expired claims and reconciliation
\* never start a second invocation.
THEOREM VerifierStartsOnce == Spec => []VerifierRunsOnce
<1>1. VerifyInv => VerifierRunsOnce
  BY OneInvocation DEF VerifierRunsOnce
<1> QED
  BY <1>1, ResultInvariant, PTL DEF ResultInv

\* TypeOK of every run, the verifier's invocations among the rest.
THEOREM LifecycleTyped == Spec => []TypeOK
<1>1. Types /\ ResultInv /\ job \in Jobs => TypeOK
  <2> SUFFICES ASSUME Types, ResultInv, job \in Jobs PROVE TypeOK
    OBVIOUS
  <2>1. \A k \in Requests : req[k] \in 0 .. OperationLimit + VerifierLimit
    BY DEF Types, Spans
  <2>2. \A t \in Threads : th[t] \in ThreadStates
    BY DEF Types
  <2>3. row \in Rows /\ verified \in Seq({"running", "killed", "passed", "failed"})
    BY OneInvocation DEF Types, RowInv, ResultInv
  <2> QED
    BY <2>1, <2>2, <2>3 DEF Types, TypeOK
<1>2. Init => job \in Jobs
  BY DEF Init
<1>3. job \in Jobs /\ [Next]_vars => (job \in Jobs)'
  <2> SUFFICES ASSUME job \in Jobs, [Next]_vars PROVE job' = job
    OBVIOUS
  <2> QED
    BY DEF Next, vars, DecideAdmission, Execute, Renew, Probe, Stage, FailProvisioning, FailStarting, SavePlan,
           IssueProvision, IssueStart, ProvisionReturns, StartReturns, SaveReceipt, SavePartial,
           ClaimLateCleanup, ConfirmStart, Monitor, WaitCommand, FailRun, Attest, Settle, Succeed,
           ClaimVerifier, StartVerifier, VerifierEnds, FinishVerifier, Close, ClaimClose, IssueClose,
           CloseReturns, CheckClosed, FinishClose, ObserveClose, ReclaimClose, Reconcile,
           ReadNonTerminalRuns, ReconcileRun, FindWorkspace, RecoverWorkspace, InterruptProvisioning,
           CommandResult, ConfirmExpiredStart, ReadMarker, FinishExpiredVerifier, Operator, Cancel,
           CancelAccepted, RecoverProvisioning, FindAbsent, InterruptRecovered, Herdr, ServerProvisions,
           ServerStarts, ServerCloses, CommandExits, ByHand, ClosedByHand, RemovedByHand, Crash,
           CrashDaemon, CrashAttended, Tick
<1> QED
  BY <1>1, <1>2, <1>3, ResultInvariant, PTL DEF Spec
==============================================================================
