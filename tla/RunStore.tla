------------------------------ MODULE RunStore ------------------------------
(***************************************************************************)
(* The runs table as the store package keeps it, under callers that may    *)
(* use any of its methods at any moment.  The database is shared by the    *)
(* daemon and by every command-line process; each method is one SQLite     *)
(* transaction, so one action.  A caller samples `now' before it opens the *)
(* transaction.  Calls that rely on a live claim are made with a time the  *)
(* engine takes immediately before the call, at most CommitDelay ticks     *)
(* before the commit; calls that rely on a lapsed one may carry a time     *)
(* taken before a Herdr lookup, up to Horizon ticks old.  What holds here  *)
(* holds for every engine, whatever it does between two calls.             *)
(***************************************************************************)
EXTENDS RunRow

CONSTANTS
    Runs,                   \* run ids
    MaxProvisioningLease,   \* longest lease validateProvisioningLease accepts
    MaxEffectLease,         \* longest lease validateEffectLease accepts
    CommitDelay             \* ticks between e.now() and the commit that trusts it

ASSUME StoreAssumption ==
    /\ MaxProvisioningLease \in Nat \ {0}
    /\ MaxEffectLease \in Nat \ {0}
    /\ CommitDelay \in 0 .. Horizon

VARIABLE runs   \* the table

vars == <<runs>>

(* What the engine asks for, by the state it asks from. *)
FinishOutcomes(from) ==
    CASE from = "accepted" -> {Outcome(s, "unverified") : s \in {"failed", "cancelled"}}
      [] from = "running"  -> {Outcome(s, "unverified") : s \in {"failed", "blocked", "interrupted"}}
      [] from = "settled"  -> {Outcome(s, "unverified") : s \in {"failed", "succeeded"}}
CloseOutcomes == {Outcome(s, "unverified") : s \in {"interrupted", "timed_out", "cancelled"}}
VerifierOutcomes == {Outcome("succeeded", "passed"), Outcome("failed", "failed"),
                     Outcome("failed", "unverified")}

FreshSamples == -CommitDelay .. 0

Leases(now, max) == now + 1 .. now + max

Update(r, new) == runs' = [runs EXCEPT ![r] = new]

-----------------------------------------------------------------------------
(* Calls that act for the owner of a provisioning claim.                   *)

DecideAdmission(r, o, now) ==
    /\ CanDecideAdmission(runs[r])
    /\ \/ \E until \in Leases(now, MaxProvisioningLease) : Update(r, Admitted(runs[r], o, until))
       \/ \E s \in {"blocked", "failed"} : Update(r, AdmissionFinished(runs[r], s))

RenewProvisioningClaim(r, o, now) ==
    /\ CanRenewProvisioningClaim(runs[r], o, now)
    /\ \E until \in Leases(now, MaxProvisioningLease) : Update(r, Renewed(runs[r], until))

SaveProvisioningPlan(r, o, now) ==
    /\ CanSaveProvisioning(runs[r], o, now)
    /\ Update(r, PlanSaved(runs[r]))

SavePartialProvisioningReceipt(r, o, now) ==
    /\ CanSaveProvisioning(runs[r], o, now)
    /\ \E pane \in BOOLEAN : Update(r, PartialReceiptSaved(runs[r], pane))

SaveProvisioningReceipt(r, o, now) ==
    /\ CanSaveProvisioning(runs[r], o, now)
    /\ Update(r, ReceiptSaved(runs[r]))

FinishProvisioningClaim(r, o, now) ==
    /\ CanFinishProvisioningClaim(runs[r], o, now)
    /\ Update(r, ClaimFinished(runs[r], Outcome("failed", "unverified")))

FinishStartingClaim(r, o, now) ==
    /\ CanFinishStartingClaim(runs[r], o, now)
    /\ Update(r, ClaimFinished(runs[r], Outcome("failed", "unverified")))

ConfirmStartingClaim(r, o, now) ==
    /\ CanConfirmStartingClaim(runs[r], o, now)
    /\ Update(r, StartConfirmed(runs[r]))

\* The calls that need the caller's own live claim.
ClaimHolderStep(r, o, now) ==
    \/ RenewProvisioningClaim(r, o, now)
    \/ SaveProvisioningPlan(r, o, now)
    \/ SavePartialProvisioningReceipt(r, o, now)
    \/ SaveProvisioningReceipt(r, o, now)
    \/ FinishProvisioningClaim(r, o, now)
    \/ FinishStartingClaim(r, o, now)
    \/ ConfirmStartingClaim(r, o, now)

-----------------------------------------------------------------------------
(* Recovery of lapsed claims.                                              *)

ConfirmExpiredCommandStart(r, now) ==
    /\ CanConfirmExpiredCommandStart(runs[r], now)
    /\ Update(r, StartConfirmed(runs[r]))

RecoverProvisioningWorkspace(r, now) ==
    /\ CanRecoverProvisioningWorkspace(runs[r], now)
    /\ Update(r, WorkspaceRecovered(runs[r]))

InterruptExpiredProvisioning(r, now) ==
    /\ CanInterruptExpiredProvisioning(runs[r], now)
    /\ Update(r, ClaimFinished(runs[r], Interrupted))

InterruptExpiredStarting(r, now) ==
    /\ CanInterruptExpiredStarting(runs[r], now)
    /\ Update(r, ClaimFinished(runs[r], Interrupted))

InterruptRecoveredProvisioning(r, now) ==
    /\ CanInterruptRecovered(runs[r], now)
    /\ Update(r, ClaimFinished(runs[r], Interrupted))

-----------------------------------------------------------------------------
(* The nonterminal path.  Only monitors settle a run, and Finish is called *)
(* for a run that is accepted, running or settled.                         *)

Transition(r) ==
    /\ CanTransition(runs[r], "running")
    /\ Update(r, Transitioned(runs[r], "settled"))

Finish(r) ==
    /\ \E from \in {"accepted", "running", "settled"} :
          /\ CanFinish(runs[r], from)
          /\ \E out \in FinishOutcomes(from) : Update(r, Finished(runs[r], out))

-----------------------------------------------------------------------------
(* Effects.  Claim tokens are random, but nothing below relies on their    *)
(* being fresh: any caller may present any token.  A close is finished     *)
(* with the outcome the row's intent holds.                                *)

ClaimWorkspaceClose(r, o, c, now) ==
    /\ \E from \in Active : CanClaimWorkspaceClose(runs[r], from, now)
    /\ \E until \in Leases(now, MaxEffectLease), intent \in CloseOutcomes :
          Update(r, WorkspaceCloseClaimed(runs[r], o, c, until, intent))

ClaimLateProvisioningCleanup(r, o, c, now) ==
    /\ CanClaimLateCleanup(runs[r], o, now)
    /\ \E until \in Leases(now, MaxEffectLease), pane \in BOOLEAN :
          Update(r, LateCleanupClaimed(runs[r], o, c, until, Interrupted, pane))

ReclaimEffect(r, o, c, now) ==
    /\ \E from \in Active \cup Terminal : CanReclaimEffect(runs[r], from, now)
    /\ \E until \in Leases(now, MaxEffectLease) : Update(r, Reclaimed(runs[r], o, c, until))

ClaimVerifier(r, o, c, now) ==
    /\ CanClaimVerifier(runs[r])
    /\ \E until \in Leases(now, MaxEffectLease) : Update(r, VerifierClaimed(runs[r], o, c, until))

FinishWorkspaceClose(r, o, c, now) ==
    /\ CanFinishEffect(runs[r], runs[r].state, o, c, "workspace_close", runs[r].intent, now)
    /\ Update(r, EffectFinished(runs[r], runs[r].intent))

FinishVerifier(r, o, c, now) ==
    /\ \E out \in VerifierOutcomes :
          /\ CanFinishEffect(runs[r], "verifying", o, c, "verifier", out, now)
          /\ Update(r, EffectFinished(runs[r], out))

FinishExpiredVerifier(r, now) ==
    /\ CanFinishExpiredVerifier(runs[r], now)
    /\ \E out \in VerifierOutcomes \cup {Interrupted} :
          Update(r, ExpiredVerifierFinished(runs[r], out))

-----------------------------------------------------------------------------
(* Evidence, the inbox and the clock.                                      *)

\* SetModelAttestation and the two receipts of a bounded review, each set once.
SetReceipt(r, k, rec) ==
    /\ CanSetReceipt(runs[r], k, rec)
    /\ Update(r, ReceiptSet(runs[r], k, rec))

\* A repeated event is dropped, so the call may also change nothing.
RecordRunEvent(r) == Update(r, EventRecorded(runs[r]))
MarkRead(r) == Update(r, MarkedRead(runs[r]))

Tick == runs' = [r \in Runs |-> RowAged(runs[r])]

-----------------------------------------------------------------------------

\* The table at the first step: new runs, and nonterminal runs a previous
\* version left behind.  A workspace is recorded from `starting' on.
LegacyRows ==
    {LegacyRow(s, p, s # "accepted", s \notin {"accepted", "provisioning"}) :
        s \in Nonterminal, p \in {"mandatory", "auto", "sample"}}

Init == runs \in [Runs -> LegacyRows]

\* Calls whose WHERE clause asks for a live claim of the caller.
LiveStep(r, now) ==
    \E o \in Owners :
        \/ ClaimHolderStep(r, o, now)
        \/ \E c \in Claims : FinishWorkspaceClose(r, o, c, now) \/ FinishVerifier(r, o, c, now)

\* Calls whose WHERE clause asks that a claim is absent or has lapsed.
LapsedStep(r, now) ==
    \/ ConfirmExpiredCommandStart(r, now)
    \/ RecoverProvisioningWorkspace(r, now)
    \/ InterruptExpiredProvisioning(r, now)
    \/ InterruptExpiredStarting(r, now)
    \/ InterruptRecoveredProvisioning(r, now)
    \/ FinishExpiredVerifier(r, now)
    \/ \E o \in Owners : DecideAdmission(r, o, now)
    \/ \E o \in Owners, c \in Claims :
          \/ ClaimWorkspaceClose(r, o, c, now)
          \/ ClaimLateProvisioningCleanup(r, o, c, now)
          \/ ReclaimEffect(r, o, c, now)
          \/ ClaimVerifier(r, o, c, now)

EvidenceStep(r) ==
    \/ RecordRunEvent(r)
    \/ MarkRead(r)
    \/ Transition(r)
    \/ Finish(r)
    \/ \E k \in ReceiptKinds, rec \in Receipts : SetReceipt(r, k, rec)

Next ==
    \/ Tick
    \/ \E r \in Runs : EvidenceStep(r)
    \/ \E r \in Runs, now \in FreshSamples : LiveStep(r, now)
    \/ \E r \in Runs, now \in Samples : LapsedStep(r, now)

Spec == Init /\ [][Next]_vars

-----------------------------------------------------------------------------
(* Properties.                                                             *)

\* Every column of the table holds a value of its type.
TypeOK == runs \in [Runs -> Rows]

\* The effect columns are set and cleared together: a claim has an owner, a
\* kind and a token, a verifier is claimed exactly while the run is
\* verifying, and a workspace close always carries the durable intent that
\* recovery reads back after a crash (ClaimWorkspaceClose, FinishEffect).
EffectConsistent == \A r \in Runs : EffectColumnsAgree(runs[r])

\* A provisioning claim exists only while the run is provisioning or
\* starting: every way out of these states gives the claim up, so no stale
\* owner column can block a later close (ClaimWorkspaceClose asks for it).
ClaimPhase == \A r \in Runs : ClaimInPhase(runs[r])

\* A run leaves the inbox unread-free only as a verified success, and a
\* verified success is the only terminal row with the verdict "passed"
\* (classifyTerminalRun), although the verdict and the lane reach the row
\* through eight statements and through intents read back after a crash.
AutoFiledOnlyIfVerified == \A r \in Runs : FiledByVerdict(runs[r])

\* "Terminal states are immutable" (SECURITY.md): whatever is called, in
\* whatever order and with however stale a time, the state, the verdict, the
\* lane and the receipts of a terminal run stay as they were.
TerminalImmutable ==
    [][\A r \in Runs : runs[r].state \in Terminal =>
          /\ runs'[r].state = runs[r].state
          /\ runs'[r].verdict = runs[r].verdict
          /\ runs'[r].lane = runs[r].lane
          /\ runs'[r].receipt = runs[r].receipt]_vars

\* A run moves forward only.  With it a verifier is claimed at most once in
\* the life of a run, since claiming it is the way into verifying.
Rank(s) == CASE s = "accepted" -> 0 [] s = "provisioning" -> 1 [] s = "starting" -> 2
             [] s = "running" -> 3 [] s = "settled" -> 4 [] s = "verifying" -> 5
             [] OTHER -> 6
ForwardOnly ==
    [][\A r \in Runs :
          \/ runs'[r].state = runs[r].state
          \/ Rank(runs[r].state) < Rank(runs'[r].state)]_vars

\* A live provisioning claim is respected by everybody: only a call of its
\* owner changes the state, the owner or the lease of the run (README: "live
\* owned claims survive reconciliation"), up to the passing of time.
LiveClaimSurvives ==
    [][\A r \in Runs, o \in Owners :
          OwnsLiveClaim(runs[r], o, 0) =>
             \/ /\ runs'[r].state = runs[r].state
                /\ runs'[r].powner = runs[r].powner
                /\ runs'[r].please \in {runs[r].please, Aged(runs[r].please)}
             \/ \E now \in FreshSamples : ClaimHolderStep(r, o, now)
             \/ \E c \in Claims, now \in FreshSamples : FinishWorkspaceClose(r, o, c, now)]_vars

\* A live effect is ended by its owner alone: until its lease runs out the
\* claim stays, or the owner of the claim finishes it.
LiveEffectSurvives ==
    [][\A r \in Runs : runs[r].elease > 0 /\ runs[r].eclaim # None =>
          \/ runs'[r].eclaim = runs[r].eclaim /\ runs'[r].ekind = runs[r].ekind
          \/ \E now \in FreshSamples :
                \/ FinishWorkspaceClose(r, runs[r].eowner, runs[r].eclaim, now)
                \/ FinishVerifier(r, runs[r].eowner, runs[r].eclaim, now)]_vars
=============================================================================
