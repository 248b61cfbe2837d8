--------------------------- MODULE RunStoreProofs ---------------------------
(***************************************************************************)
(* The table keeps its invariants for every number of runs, engines and    *)
(* claim tokens and for leases and delays of every length.  Inv says that  *)
(* every row is well formed (RowInv); it is inductive because every store  *)
(* method is one statement on one row, and RunRowProofs shows that each    *)
(* statement keeps the row it changes well formed.                         *)
(***************************************************************************)
EXTENDS RunStore, RunRowProofs

Inv == runs \in [Runs -> Rows] /\ \A r \in Runs : RowInv(runs[r])

\* One row is replaced by a well-formed one.
LEMMA UpdateInv ==
    ASSUME Inv, NEW r \in Runs, NEW new, RowInv(new), Update(r, new)
    PROVE  Inv'
BY DEF Inv, Update, RowInv

\* A lease the engine asks for is an instant.
LEMMA LeasesAreInstants ==
    ASSUME NEW now \in Samples
    PROVE  /\ Leases(now, MaxProvisioningLease) \subseteq Instants
           /\ Leases(now, MaxEffectLease) \subseteq Instants
BY StoreAssumption, LeaseInstant DEF Leases

\* What the engine asks for is sound.
LEMMA OutcomesSound ==
    /\ \A from \in {"accepted", "running", "settled"} : \A o \in FinishOutcomes(from) : Sound(o)
    /\ \A o \in CloseOutcomes \cup VerifierOutcomes \cup {Interrupted} : Sound(o)
    /\ Sound(Outcome("failed", "unverified"))
BY DEF FinishOutcomes, CloseOutcomes, VerifierOutcomes, Interrupted, Outcome, Outcomes,
       Terminal, Verdicts, Sound

\* A sample taken for a live claim is a sample.
LEMMA FreshIsSample == FreshSamples \subseteq Samples
BY RowAssumption, StoreAssumption DEF FreshSamples, Samples, Past

\* The first rows are well formed, those a previous version left included.
LEMMA InitInv == Init => Inv
<1>1. ASSUME NEW s \in Nonterminal, NEW p \in {"mandatory", "auto", "sample"},
             NEW b \in BOOLEAN, NEW w \in BOOLEAN
      PROVE  RowInv(LegacyRow(s, p, b, w))
  <2>1. NewRow(p) \in Rows
    BY PastInstant DEF NewRow, Rows, Nonterminal, EffectKinds, Lanes
  <2>2. LegacyRow(s, p, b, w) \in Rows
    BY <2>1 DEF LegacyRow, Rows
  <2> QED
    BY <2>2 DEF LegacyRow, NewRow, RowInv, EffectColumnsAgree, ClaimInPhase, FiledByVerdict,
                IntentSound, VerdictKnown, Nonterminal, Terminal
<1>2. ASSUME NEW row \in LegacyRows PROVE RowInv(row)
  <2> PICK s \in Nonterminal, p \in {"mandatory", "auto", "sample"} :
         row = LegacyRow(s, p, s # "accepted", s \notin {"accepted", "provisioning"})
    BY DEF LegacyRows
  <2>1. (s # "accepted") \in BOOLEAN /\ (s \notin {"accepted", "provisioning"}) \in BOOLEAN
    OBVIOUS
  <2> QED
    BY <1>1, <2>1
<1> QED
  BY <1>2 DEF Init, Inv, RowInv

-----------------------------------------------------------------------------
(* Each step keeps the invariant: one step per method.                     *)

\* The owner of a live claim.
LEMMA ClaimHolderInv ==
    ASSUME Inv, NEW r \in Runs, NEW o \in Owners, NEW now \in Samples, ClaimHolderStep(r, o, now)
    PROVE  Inv'
<1> USE DEF Inv
<1>1. CASE RenewProvisioningClaim(r, o, now)
  BY <1>1, LeasesAreInstants, RenewedInv, UpdateInv DEF RenewProvisioningClaim
<1>2. CASE SaveProvisioningPlan(r, o, now)
  BY <1>2, PlanSavedInv, UpdateInv DEF SaveProvisioningPlan
<1>3. CASE SavePartialProvisioningReceipt(r, o, now)
  BY <1>3, PartialReceiptSavedInv, UpdateInv DEF SavePartialProvisioningReceipt
<1>4. CASE SaveProvisioningReceipt(r, o, now)
  BY <1>4, ReceiptSavedInv, UpdateInv DEF SaveProvisioningReceipt, CanSaveProvisioning
<1>5. CASE FinishProvisioningClaim(r, o, now)
  BY <1>5, OutcomesSound, ClaimFinishedInv, UpdateInv
  DEF FinishProvisioningClaim, CanFinishProvisioningClaim
<1>6. CASE FinishStartingClaim(r, o, now)
  BY <1>6, OutcomesSound, ClaimFinishedInv, UpdateInv
  DEF FinishStartingClaim, CanFinishStartingClaim
<1>7. CASE ConfirmStartingClaim(r, o, now)
  BY <1>7, StartConfirmedInv, UpdateInv
  DEF ConfirmStartingClaim, CanConfirmStartingClaim, EffectUnowned
<1> QED
  BY <1>1, <1>2, <1>3, <1>4, <1>5, <1>6, <1>7 DEF ClaimHolderStep

\* Calls that end a claimed effect.
LEMMA LiveInv ==
    ASSUME Inv, NEW r \in Runs, NEW now \in FreshSamples, LiveStep(r, now)
    PROVE  Inv'
<1> PICK o \in Owners :
       \/ ClaimHolderStep(r, o, now)
       \/ \E c \in Claims : FinishWorkspaceClose(r, o, c, now) \/ FinishVerifier(r, o, c, now)
  BY DEF LiveStep
<1>1. CASE ClaimHolderStep(r, o, now)
  BY <1>1, FreshIsSample, ClaimHolderInv
<1>2. ASSUME NEW c \in Claims, FinishWorkspaceClose(r, o, c, now) PROVE Inv'
  <2>1. Sound(runs[r].intent)
    BY <1>2 DEF Inv, RowInv, FinishWorkspaceClose, CanFinishEffect, EffectColumnsAgree, IntentSound
  <2> QED
    BY <1>2, <2>1, EffectFinishedInv, UpdateInv DEF Inv, FinishWorkspaceClose
<1>3. ASSUME NEW c \in Claims, FinishVerifier(r, o, c, now) PROVE Inv'
  BY <1>3, OutcomesSound, EffectFinishedInv, UpdateInv DEF Inv, FinishVerifier
<1> QED
  BY <1>1, <1>2, <1>3

\* Admission, recovery of lapsed claims, and new claims.
LEMMA LapsedInv ==
    ASSUME Inv, NEW r \in Runs, NEW now \in Samples, LapsedStep(r, now)
    PROVE  Inv'
<1> USE DEF Inv
<1>1. CASE ConfirmExpiredCommandStart(r, now)
  BY <1>1, StartConfirmedInv, UpdateInv
  DEF ConfirmExpiredCommandStart, CanConfirmExpiredCommandStart, EffectUnowned
<1>2. CASE RecoverProvisioningWorkspace(r, now)
  BY <1>2, WorkspaceRecoveredInv, UpdateInv DEF RecoverProvisioningWorkspace
<1>3. CASE InterruptExpiredProvisioning(r, now)
  BY <1>3, OutcomesSound, ClaimFinishedInv, UpdateInv
  DEF InterruptExpiredProvisioning, CanInterruptExpiredProvisioning
<1>4. CASE InterruptExpiredStarting(r, now)
  BY <1>4, OutcomesSound, ClaimFinishedInv, UpdateInv
  DEF InterruptExpiredStarting, CanInterruptExpiredStarting
<1>5. CASE InterruptRecoveredProvisioning(r, now)
  BY <1>5, OutcomesSound, ClaimFinishedInv, UpdateInv
  DEF InterruptRecoveredProvisioning, CanInterruptRecovered
<1>6. CASE FinishExpiredVerifier(r, now)
  BY <1>6, OutcomesSound, ExpiredVerifierFinishedInv, UpdateInv
  DEF FinishExpiredVerifier, CanFinishExpiredVerifier
<1>7. ASSUME NEW o \in Owners, DecideAdmission(r, o, now) PROVE Inv'
  <2>1. CASE \E until \in Leases(now, MaxProvisioningLease) : Update(r, Admitted(runs[r], o, until))
    BY <1>7, <2>1, LeasesAreInstants, AdmittedInv, UpdateInv DEF DecideAdmission
  <2>2. CASE \E s \in {"blocked", "failed"} : Update(r, AdmissionFinished(runs[r], s))
    BY <1>7, <2>2, AdmissionFinishedInv, UpdateInv DEF DecideAdmission
  <2> QED
    BY <1>7, <2>1, <2>2 DEF DecideAdmission
<1>8. ASSUME NEW o \in Owners, NEW c \in Claims, ClaimWorkspaceClose(r, o, c, now) PROVE Inv'
  BY <1>8, LeasesAreInstants, OutcomesSound, WorkspaceCloseClaimedInv, UpdateInv
  DEF ClaimWorkspaceClose
<1>9. ASSUME NEW o \in Owners, NEW c \in Claims, ClaimLateProvisioningCleanup(r, o, c, now) PROVE Inv'
  BY <1>9, LeasesAreInstants, OutcomesSound, LateCleanupClaimedInv, UpdateInv
  DEF ClaimLateProvisioningCleanup
<1>10. ASSUME NEW o \in Owners, NEW c \in Claims, ReclaimEffect(r, o, c, now) PROVE Inv'
  BY <1>10, LeasesAreInstants, ReclaimedInv, UpdateInv DEF ReclaimEffect, CanReclaimEffect
<1>11. ASSUME NEW o \in Owners, NEW c \in Claims, ClaimVerifier(r, o, c, now) PROVE Inv'
  BY <1>11, LeasesAreInstants, VerifierClaimedInv, UpdateInv DEF ClaimVerifier
<1> QED
  BY <1>1, <1>2, <1>3, <1>4, <1>5, <1>6, <1>7, <1>8, <1>9, <1>10, <1>11 DEF LapsedStep

\* The nonterminal path, evidence and the inbox.
LEMMA EvidenceInv ==
    ASSUME Inv, NEW r \in Runs, EvidenceStep(r)
    PROVE  Inv'
<1> USE DEF Inv
<1>1. CASE Transition(r)
  BY <1>1, SettledInv, UpdateInv DEF Transition, CanTransition
<1>2. CASE Finish(r)
  BY <1>2, OutcomesSound, FinishedInv, UpdateInv DEF Finish
<1>3. ASSUME NEW k \in ReceiptKinds, NEW rec \in Receipts, SetReceipt(r, k, rec) PROVE Inv'
  BY <1>3, ReceiptSetInv, UpdateInv DEF SetReceipt
<1>4. CASE RecordRunEvent(r)
  BY <1>4, EventRecordedInv, UpdateInv DEF RecordRunEvent
<1>5. CASE MarkRead(r)
  BY <1>5, MarkedReadInv, UpdateInv DEF MarkRead
<1> QED
  BY <1>1, <1>2, <1>3, <1>4, <1>5 DEF EvidenceStep

\* Inv is inductive.
LEMMA NextInv == Inv /\ [Next]_vars => Inv'
<1> SUFFICES ASSUME Inv, [Next]_vars PROVE Inv'
  OBVIOUS
<1>1. CASE \E r \in Runs, now \in FreshSamples : LiveStep(r, now)
  BY <1>1, LiveInv
<1>2. CASE \E r \in Runs, now \in Samples : LapsedStep(r, now)
  BY <1>2, LapsedInv
<1>3. CASE \E r \in Runs : EvidenceStep(r)
  BY <1>3, EvidenceInv
<1>4. CASE Tick
  BY <1>4, RowAgedInv DEF Tick, Inv, RowInv
<1>5. CASE UNCHANGED vars
  BY <1>5 DEF vars, Inv
<1> QED
  BY <1>1, <1>2, <1>3, <1>4, <1>5 DEF Next

\* The inductive invariant holds in every behaviour.
THEOREM Invariance == Spec => []Inv
<1> QED
  BY InitInv, NextInv, PTL DEF Spec

\* Every column holds a value of its type, in tables of every size (RunStore: TypeOK).
THEOREM TypeCorrect == Spec => []TypeOK
<1>1. Inv => TypeOK
  BY DEF Inv, TypeOK
<1> QED
  BY <1>1, Invariance, PTL

\* The effect columns agree whatever crashed between two calls, so recovery
\* always finds the intent of a close it has to finish (recoverExpiredWorkspaceClose).
THEOREM EffectsConsistent == Spec => []EffectConsistent
<1>1. Inv => EffectConsistent
  BY DEF Inv, RowInv, EffectConsistent
<1> QED
  BY <1>1, Invariance, PTL

\* No run past starting holds a provisioning claim (ClaimWorkspaceClose).
THEOREM ClaimsInPhase == Spec => []ClaimPhase
<1>1. Inv => ClaimPhase
  BY DEF Inv, RowInv, ClaimPhase
<1> QED
  BY <1>1, Invariance, PTL

\* Only verified successes are filed without the operator (classifyTerminalRun).
THEOREM AutoFilingSound == Spec => []AutoFiledOnlyIfVerified
<1>1. Inv => AutoFiledOnlyIfVerified
  BY DEF Inv, RowInv, AutoFiledOnlyIfVerified
<1> QED
  BY <1>1, Invariance, PTL
-----------------------------------------------------------------------------
(* What no call may do to a row.  A step changes one row by one statement, *)
(* so a property of the step is a property of every statement.             *)

\* A terminal row keeps its outcome and its evidence.
Frozen(row, new) ==
    row.state \in Terminal =>
        /\ new.state = row.state /\ new.verdict = row.verdict
        /\ new.lane = row.lane /\ new.receipt = row.receipt
Forward(row, new) == new.state = row.state \/ Rank(row.state) < Rank(new.state)
RowStep(row, new) == Frozen(row, new) /\ Forward(row, new)

\* The rows a statement does not name stay as they are.
LEMMA UpdateStep ==
    ASSUME Inv, NEW r \in Runs, NEW new, Update(r, new), RowStep(runs[r], new)
    PROVE  \A q \in Runs : RowStep(runs[q], runs'[q])
BY DEF Inv, Update, RowStep, Frozen, Forward

\* Columns that no outcome depends on.
LEMMA SameEndStep ==
    ASSUME NEW row, NEW new, SameEnd(row, new), new.receipt = row.receipt
    PROVE  RowStep(row, new)
BY DEF SameEnd, RowStep, Frozen, Forward

\* A nonterminal row that is given a later state.
LEMMA MovedStep ==
    ASSUME NEW row, NEW new, row.state \in Nonterminal, Rank(row.state) < Rank(new.state)
    PROVE  RowStep(row, new)
BY DEF RowStep, Frozen, Forward, Nonterminal, Terminal

\* Every end comes after every nonterminal state.
LEMMA EndsLast ==
    ASSUME NEW s \in Nonterminal, NEW e \in Terminal PROVE Rank(s) < Rank(e)
BY DEF Rank, Nonterminal, Terminal

\* A run ends once.
LEMMA EndedStep ==
    ASSUME NEW row, NEW new, row.state \in Nonterminal, new.state \in Terminal
    PROVE  RowStep(row, new)
BY EndsLast, MovedStep

\* The states of the statements that end a claim or a run.
LEMMA EndingStates ==
    ASSUME NEW row \in Rows, NEW o \in Outcomes
    PROVE  /\ Terminalized(row, o).state = o.state
           /\ ClaimFinished(row, o).state = o.state
           /\ Finished(row, o).state = o.state
           /\ ExpiredVerifierFinished(row, o).state = o.state
           /\ o.state \in Terminal
<1> DEFINE mid == Terminalized(row, o)
<1>1. mid \in Rows /\ mid.state = o.state
  BY TerminalizedColumns
<1> HIDE DEF mid
<1>2. EffectCleared(mid) \in Rows /\ EffectCleared(mid).state = o.state
  BY <1>1, EffectClearedColumns DEF SameEnd
<1>3. ClaimCleared(mid).state = o.state
  BY <1>1, ClaimClearedColumns DEF SameEnd
<1>4. ClaimCleared(EffectCleared(mid)).state = o.state
  BY <1>2, ClaimClearedColumns DEF SameEnd
<1> DEFINE cleared == EffectCleared(mid)
<1> HIDE DEF cleared
<1>5. [cleared EXCEPT !.lane = "mandatory", !.unread = TRUE].state = cleared.state
  BY <1>2 DEF Rows, cleared
<1> QED
  BY <1>1, <1>2, <1>3, <1>4, <1>5
  DEF mid, cleared, ClaimFinished, Finished, ExpiredVerifierFinished, Outcomes

\* Finishing an effect freezes a terminal row and ends any other.
LEMMA EffectFinishedStep ==
    ASSUME NEW row \in Rows, NEW o \in Outcomes PROVE RowStep(row, EffectFinished(row, o))
<1>1. CASE row.state \in Terminal
  <2> DEFINE mid == EffectCleared(row)
  <2>1. mid \in Rows /\ SameEnd(row, mid) /\ mid.receipt = row.receipt
    BY EffectClearedColumns
  <2> HIDE DEF mid
  <2>2. SameEnd(mid, ClaimCleared(mid)) /\ ClaimCleared(mid).receipt = mid.receipt
    BY <2>1, ClaimClearedColumns
  <2>3. EffectFinished(row, o) = ClaimCleared(mid)
    BY <1>1 DEF EffectFinished, mid
  <2> QED
    BY <2>1, <2>2, <2>3, SameEndStep DEF SameEnd
<1>2. CASE row.state \notin Terminal
  <2>1. EffectFinished(row, o) = Finished(row, o)
    BY <1>2 DEF EffectFinished, Finished
  <2> QED
    BY <1>2, <2>1, EndingStates, EndedStep DEF Rows
<1> QED
  BY <1>1, <1>2

\* The outcomes the engine asks for are outcomes.
LEMMA AskedOutcomes ==
    /\ \A from \in {"accepted", "running", "settled"} : FinishOutcomes(from) \subseteq Outcomes
    /\ CloseOutcomes \cup VerifierOutcomes \cup {Interrupted} \subseteq Outcomes
    /\ Outcome("failed", "unverified") \in Outcomes
BY OutcomesSound DEF Sound

\* Calls of a claim's owner move the run forward or end it.
LEMMA ClaimHolderRowStep ==
    ASSUME Inv, NEW r \in Runs, NEW o \in Owners, NEW now \in Samples, ClaimHolderStep(r, o, now)
    PROVE  \A q \in Runs : RowStep(runs[q], runs'[q])
<1> DEFINE row == runs[r]
<1>0. row \in Rows
  BY DEF Inv
<1>1. CASE RenewProvisioningClaim(r, o, now)
  <2>1. \A until : SameEnd(row, Renewed(row, until)) /\ Renewed(row, until).receipt = row.receipt
    BY <1>0 DEF Rows, Renewed, SameEnd
  <2> QED
    BY <1>1, <2>1, SameEndStep, UpdateStep DEF RenewProvisioningClaim
<1>2. CASE SaveProvisioningPlan(r, o, now)
  <2>1. SameEnd(row, PlanSaved(row)) /\ PlanSaved(row).receipt = row.receipt
    BY <1>0 DEF Rows, PlanSaved, SameEnd
  <2> QED
    BY <1>2, <2>1, SameEndStep, UpdateStep DEF SaveProvisioningPlan
<1>3. CASE SavePartialProvisioningReceipt(r, o, now)
  <2>1. \A pane : /\ SameEnd(row, PartialReceiptSaved(row, pane))
                  /\ PartialReceiptSaved(row, pane).receipt = row.receipt
    BY <1>0 DEF Rows, PartialReceiptSaved, SameEnd
  <2> QED
    BY <1>3, <2>1, SameEndStep, UpdateStep DEF SavePartialProvisioningReceipt
<1>4. CASE SaveProvisioningReceipt(r, o, now)
  <2>1. row.state = "provisioning" /\ ReceiptSaved(row).state = "starting"
    BY <1>0, <1>4 DEF Rows, SaveProvisioningReceipt, CanSaveProvisioning, ReceiptSaved
  <2>2. Rank("provisioning") < Rank("starting")
    BY DEF Rank
  <2> QED
    BY <1>4, <2>1, <2>2, MovedStep, UpdateStep DEF SaveProvisioningReceipt, Nonterminal
<1>5. CASE FinishProvisioningClaim(r, o, now) \/ FinishStartingClaim(r, o, now)
  <2>1. row.state \in Nonterminal
    BY <1>5 DEF FinishProvisioningClaim, FinishStartingClaim, CanFinishProvisioningClaim,
                CanFinishStartingClaim, Nonterminal
  <2>2. RowStep(row, ClaimFinished(row, Outcome("failed", "unverified")))
    BY <1>0, <2>1, AskedOutcomes, EndingStates, EndedStep
  <2> QED
    BY <1>5, <2>2, UpdateStep DEF FinishProvisioningClaim, FinishStartingClaim
<1>6. CASE ConfirmStartingClaim(r, o, now)
  <2>1. row.state = "starting" /\ StartConfirmed(row).state = "running"
    BY <1>0, <1>6 DEF Rows, ConfirmStartingClaim, CanConfirmStartingClaim, StartConfirmed, ClaimCleared
  <2>2. Rank("starting") < Rank("running")
    BY DEF Rank
  <2> QED
    BY <1>6, <2>1, <2>2, MovedStep, UpdateStep DEF ConfirmStartingClaim, Nonterminal
<1> QED
  BY <1>1, <1>2, <1>3, <1>4, <1>5, <1>6 DEF ClaimHolderStep

\* So do the calls that finish a live effect.
LEMMA LiveRowStep ==
    ASSUME Inv, NEW r \in Runs, NEW now \in FreshSamples, LiveStep(r, now)
    PROVE  \A q \in Runs : RowStep(runs[q], runs'[q])
<1> PICK o \in Owners :
       \/ ClaimHolderStep(r, o, now)
       \/ \E c \in Claims : FinishWorkspaceClose(r, o, c, now) \/ FinishVerifier(r, o, c, now)
  BY DEF LiveStep
<1>1. CASE ClaimHolderStep(r, o, now)
  BY <1>1, FreshIsSample, ClaimHolderRowStep
<1>2. ASSUME NEW c \in Claims, FinishWorkspaceClose(r, o, c, now)
      PROVE  \A q \in Runs : RowStep(runs[q], runs'[q])
  <2>1. runs[r] \in Rows /\ runs[r].intent \in Outcomes
    BY <1>2 DEF Inv, RowInv, Rows, FinishWorkspaceClose, CanFinishEffect, EffectColumnsAgree
  <2> QED
    BY <1>2, <2>1, EffectFinishedStep, UpdateStep DEF FinishWorkspaceClose
<1>3. ASSUME NEW c \in Claims, FinishVerifier(r, o, c, now)
      PROVE  \A q \in Runs : RowStep(runs[q], runs'[q])
  BY <1>3, AskedOutcomes, EffectFinishedStep, UpdateStep DEF Inv, FinishVerifier
<1> QED
  BY <1>1, <1>2, <1>3

\* Setting or handing over an effect leaves the outcome alone.
LEMMA EffectSetStep ==
    ASSUME NEW row \in Rows, NEW o, NEW c, NEW until, NEW intent, NEW pane
    PROVE  /\ RowStep(row, WorkspaceCloseClaimed(row, o, c, until, intent))
           /\ RowStep(row, LateCleanupClaimed(row, o, c, until, intent, pane))
           /\ RowStep(row, Reclaimed(row, o, c, until))
<1>1. /\ SameEnd(row, WorkspaceCloseClaimed(row, o, c, until, intent))
      /\ WorkspaceCloseClaimed(row, o, c, until, intent).receipt = row.receipt
  BY DEF Rows, WorkspaceCloseClaimed, EffectSet, SameEnd
<1>2. /\ SameEnd(row, Reclaimed(row, o, c, until)) /\ Reclaimed(row, o, c, until).receipt = row.receipt
  BY DEF Rows, Reclaimed, SameEnd
<1>3. \A i : /\ SameEnd(row, [EffectSet(row, o, c, "workspace_close", until, i)
                     EXCEPT !.workspace = TRUE, !.pane = pane, !.branch = TRUE, !.unread = TRUE])
             /\ [EffectSet(row, o, c, "workspace_close", until, i)
                     EXCEPT !.workspace = TRUE, !.pane = pane, !.branch = TRUE, !.unread = TRUE].receipt
                = row.receipt
  BY DEF Rows, EffectSet, SameEnd
<1> QED
  BY <1>1, <1>2, <1>3, SameEndStep DEF LateCleanupClaimed

\* Recovery and new claims move the run forward or end it.
LEMMA LapsedRowStep ==
    ASSUME Inv, NEW r \in Runs, NEW now \in Samples, LapsedStep(r, now)
    PROVE  \A q \in Runs : RowStep(runs[q], runs'[q])
<1> DEFINE row == runs[r]
<1> DEFINE Goal == \A q \in Runs : RowStep(runs[q], runs'[q])
<1>0. row \in Rows
  BY DEF Inv
<1>1. CASE ConfirmExpiredCommandStart(r, now)
  <2>1. row.state = "starting" /\ StartConfirmed(row).state = "running"
    BY <1>0, <1>1 DEF Rows, ConfirmExpiredCommandStart, CanConfirmExpiredCommandStart,
                      StartConfirmed, ClaimCleared
  <2>2. Rank("starting") < Rank("running")
    BY DEF Rank
  <2> QED
    BY <1>1, <2>1, <2>2, MovedStep, UpdateStep DEF ConfirmExpiredCommandStart, Nonterminal
<1>2. CASE RecoverProvisioningWorkspace(r, now)
  <2>1. SameEnd(row, WorkspaceRecovered(row)) /\ WorkspaceRecovered(row).receipt = row.receipt
    BY <1>0 DEF Rows, WorkspaceRecovered, SameEnd
  <2> QED
    BY <1>2, <2>1, SameEndStep, UpdateStep DEF RecoverProvisioningWorkspace
<1>3. CASE \/ InterruptExpiredProvisioning(r, now) \/ InterruptExpiredStarting(r, now)
           \/ InterruptRecoveredProvisioning(r, now)
  <2>1. row.state \in Nonterminal
    BY <1>3 DEF InterruptExpiredProvisioning, InterruptExpiredStarting, InterruptRecoveredProvisioning,
                CanInterruptExpiredProvisioning, CanInterruptExpiredStarting, CanInterruptRecovered,
                Nonterminal
  <2>2. RowStep(row, ClaimFinished(row, Interrupted))
    BY <1>0, <2>1, AskedOutcomes, EndingStates, EndedStep
  <2> QED
    BY <1>3, <2>2, UpdateStep
    DEF InterruptExpiredProvisioning, InterruptExpiredStarting, InterruptRecoveredProvisioning
<1>4. CASE FinishExpiredVerifier(r, now)
  <2>1. row.state \in Nonterminal
    BY <1>4 DEF FinishExpiredVerifier, CanFinishExpiredVerifier, Nonterminal
  <2>2. \A out \in VerifierOutcomes \cup {Interrupted} : RowStep(row, ExpiredVerifierFinished(row, out))
    BY <1>0, <2>1, AskedOutcomes, EndingStates, EndedStep
  <2> QED
    BY <1>4, <2>2, UpdateStep DEF FinishExpiredVerifier
<1>5. ASSUME NEW o \in Owners, DecideAdmission(r, o, now) PROVE Goal
  <2>1. row.state = "accepted" /\ \A until : Admitted(row, o, until).state = "provisioning"
    BY <1>0, <1>5 DEF Rows, DecideAdmission, CanDecideAdmission, Admitted
  <2>2. Rank("accepted") < Rank("provisioning")
    BY DEF Rank
  <2>3. \A until : RowStep(row, Admitted(row, o, until))
    BY <2>1, <2>2, MovedStep DEF Nonterminal
  <2>4. \A s \in {"blocked", "failed"} : Outcome(s, "unverified") \in Outcomes
    BY DEF Outcome, Outcomes, Terminal, Verdicts
  <2>5. \A s \in {"blocked", "failed"} : RowStep(row, AdmissionFinished(row, s))
    BY <1>0, <2>1, <2>4, EndingStates, EndedStep DEF AdmissionFinished, Nonterminal
  <2> QED
    BY <1>5, <2>3, <2>5, UpdateStep DEF DecideAdmission
<1>6. ASSUME NEW o \in Owners, NEW c \in Claims,
             \/ ClaimWorkspaceClose(r, o, c, now) \/ ClaimLateProvisioningCleanup(r, o, c, now)
             \/ ReclaimEffect(r, o, c, now)
      PROVE  Goal
  BY <1>0, <1>6, EffectSetStep, UpdateStep
  DEF ClaimWorkspaceClose, ClaimLateProvisioningCleanup, ReclaimEffect
<1>7. ASSUME NEW o \in Owners, NEW c \in Claims, ClaimVerifier(r, o, c, now) PROVE Goal
  <2>1. row.state = "settled" /\ \A until : VerifierClaimed(row, o, c, until).state = "verifying"
    BY <1>0, <1>7 DEF Rows, ClaimVerifier, CanClaimVerifier, VerifierClaimed, EffectSet
  <2>2. Rank("settled") < Rank("verifying")
    BY DEF Rank
  <2> QED
    BY <1>7, <2>1, <2>2, MovedStep, UpdateStep DEF ClaimVerifier, Nonterminal
<1> QED
  BY <1>1, <1>2, <1>3, <1>4, <1>5, <1>6, <1>7 DEF LapsedStep

\* And so do the remaining calls.
LEMMA EvidenceRowStep ==
    ASSUME Inv, NEW r \in Runs, EvidenceStep(r)
    PROVE  \A q \in Runs : RowStep(runs[q], runs'[q])
<1> DEFINE row == runs[r]
<1>0. row \in Rows
  BY DEF Inv
<1>1. CASE RecordRunEvent(r) \/ MarkRead(r)
  <2>1. /\ SameEnd(row, EventRecorded(row)) /\ EventRecorded(row).receipt = row.receipt
        /\ SameEnd(row, MarkedRead(row)) /\ MarkedRead(row).receipt = row.receipt
    BY <1>0 DEF Rows, EventRecorded, MarkedRead, SameEnd
  <2> QED
    BY <1>1, <2>1, SameEndStep, UpdateStep DEF RecordRunEvent, MarkRead
<1>2. CASE Transition(r)
  <2>1. row.state = "running" /\ Transitioned(row, "settled").state = "settled"
    BY <1>0, <1>2 DEF Rows, Transition, CanTransition, Transitioned
  <2>2. Rank("running") < Rank("settled")
    BY DEF Rank
  <2> QED
    BY <1>2, <2>1, <2>2, MovedStep, UpdateStep DEF Transition, Nonterminal
<1>3. CASE Finish(r)
  <2> PICK from \in {"accepted", "running", "settled"} :
         CanFinish(row, from) /\ \E out \in FinishOutcomes(from) : Update(r, Finished(row, out))
    BY <1>3 DEF Finish
  <2>1. row.state \in Nonterminal
    BY DEF CanFinish, Nonterminal
  <2>2. \A out \in FinishOutcomes(from) : RowStep(row, Finished(row, out))
    BY <1>0, <2>1, AskedOutcomes, EndingStates, EndedStep
  <2> QED
    BY <2>2, UpdateStep
<1>4. ASSUME NEW k \in ReceiptKinds, NEW rec \in Receipts, SetReceipt(r, k, rec)
      PROVE  \A q \in Runs : RowStep(runs[q], runs'[q])
  <2>1. row.state \notin Terminal /\ ReceiptSet(row, k, rec).state = row.state
    BY <1>0, <1>4 DEF Rows, SetReceipt, CanSetReceipt, ReceiptSet
  <2>2. RowStep(row, ReceiptSet(row, k, rec))
    BY <2>1 DEF RowStep, Frozen, Forward
  <2> QED
    BY <1>4, <2>2, UpdateStep DEF SetReceipt
<1> QED
  BY <1>1, <1>2, <1>3, <1>4 DEF EvidenceStep

\* No step of the store takes a run back or touches a finished one.
LEMMA NextRowStep == Inv /\ [Next]_vars => \A q \in Runs : RowStep(runs[q], runs'[q])
<1> SUFFICES ASSUME Inv, [Next]_vars PROVE \A q \in Runs : RowStep(runs[q], runs'[q])
  OBVIOUS
<1>1. CASE Tick
  <2>1. \A row \in Rows : SameEnd(row, RowAged(row)) /\ RowAged(row).receipt = row.receipt
    BY DEF Rows, RowAged, SameEnd
  <2> QED
    BY <1>1, <2>1, SameEndStep DEF Tick, Inv
<1>2. CASE UNCHANGED vars
  BY <1>2 DEF vars, RowStep, Frozen, Forward
<1> QED
  BY <1>1, <1>2, LiveRowStep, LapsedRowStep, EvidenceRowStep DEF Next

\* "Terminal states are immutable" (SECURITY.md), for every table and every
\* order of calls, however old the times they carry (RunStore: TerminalImmutable).
THEOREM TerminalNeverChanges == Spec => TerminalImmutable
<1>1. Inv /\ [Next]_vars =>
         [\A r \in Runs : runs[r].state \in Terminal =>
             /\ runs'[r].state = runs[r].state
             /\ runs'[r].verdict = runs[r].verdict
             /\ runs'[r].lane = runs[r].lane
             /\ runs'[r].receipt = runs[r].receipt]_vars
  BY NextRowStep DEF RowStep, Frozen
<1> QED
  BY <1>1, Invariance, PTL DEF Spec, TerminalImmutable

\* A run only moves forward, so a verifier is claimed at most once in its life
\* (RunStore: ForwardOnly; ClaimVerifier).
THEOREM RunsMoveForward == Spec => ForwardOnly
<1>1. Inv /\ [Next]_vars =>
         [\A r \in Runs : \/ runs'[r].state = runs[r].state
                          \/ Rank(runs[r].state) < Rank(runs'[r].state)]_vars
  BY NextRowStep DEF RowStep, Forward
<1> QED
  BY <1>1, Invariance, PTL DEF Spec, ForwardOnly

-----------------------------------------------------------------------------
(* A live effect is ended by its owner alone.                              *)

\* The statements that do not end an effect leave its columns alone.
LEMMA EffectColumnsKept ==
    ASSUME NEW row \in Rows, NEW o \in Outcomes, NEW x
    PROVE  /\ SameEffect(row, Renewed(row, x)) /\ SameEffect(row, PlanSaved(row))
           /\ SameEffect(row, PartialReceiptSaved(row, x)) /\ SameEffect(row, ReceiptSaved(row))
           /\ SameEffect(row, ClaimFinished(row, o)) /\ SameEffect(row, StartConfirmed(row))
           /\ SameEffect(row, WorkspaceRecovered(row)) /\ SameEffect(row, Transitioned(row, x))
           /\ SameEffect(row, EventRecorded(row)) /\ SameEffect(row, MarkedRead(row))
           /\ SameEffect(row, RowAged(row)) /\ \A k, y : SameEffect(row, ReceiptSet(row, k, y))
           /\ SameEffect(row, Terminalized(row, o))
           /\ \A y : SameEffect(row, Admitted(row, y, x))
<1>1. /\ SameEffect(row, Renewed(row, x)) /\ SameEffect(row, PlanSaved(row))
      /\ SameEffect(row, PartialReceiptSaved(row, x)) /\ SameEffect(row, ReceiptSaved(row))
      /\ SameEffect(row, StartConfirmed(row)) /\ SameEffect(row, WorkspaceRecovered(row))
  BY DEF Rows, SameEffect, Renewed, PlanSaved, PartialReceiptSaved, ReceiptSaved, StartConfirmed,
         ClaimCleared, WorkspaceRecovered
<1>2. /\ SameEffect(row, Transitioned(row, x)) /\ SameEffect(row, EventRecorded(row))
      /\ SameEffect(row, MarkedRead(row)) /\ \A k, y : SameEffect(row, ReceiptSet(row, k, y))
      /\ SameEffect(row, RowAged(row)) /\ \A y : SameEffect(row, Admitted(row, y, x))
  BY DEF Rows, SameEffect, Transitioned, EventRecorded, MarkedRead, ReceiptSet, RowAged, Admitted
<1> DEFINE mid == Terminalized(row, o)
<1>3. mid \in Rows /\ SameEffect(row, mid)
  BY TerminalizedColumns
<1> HIDE DEF mid
<1>4. SameEffect(mid, ClaimCleared(mid))
  BY <1>3, ClaimClearedColumns
<1>5. SameEffect(row, ClaimFinished(row, o))
  BY <1>3, <1>4 DEF SameEffect, ClaimFinished, mid
<1> QED
  BY <1>1, <1>2, <1>3, <1>5 DEF mid

\* What may happen to the effect of a row.
EffectStep(r) ==
    \/ SameEffect(runs[r], runs'[r])
    \/ \E now \in FreshSamples :
          \/ FinishWorkspaceClose(r, runs[r].eowner, runs[r].eclaim, now)
          \/ FinishVerifier(r, runs[r].eowner, runs[r].eclaim, now)
LiveEffect(row) == row.elease > 0 /\ row.eclaim # None

\* A row the step does not name keeps its effect.
LEMMA UpdateEffect ==
    ASSUME Inv, NEW r \in Runs, NEW q \in Runs, NEW new, Update(q, new),
           q = r => SameEffect(runs[r], new)
    PROVE  EffectStep(r)
BY DEF Inv, Update, EffectStep, SameEffect

\* Calls on live claims.
LEMMA LiveKeepsEffect ==
    ASSUME Inv, NEW r \in Runs, NEW q \in Runs, NEW now \in FreshSamples, LiveStep(q, now)
    PROVE  EffectStep(r)
<1>0. runs[q] \in Rows
  BY DEF Inv
<1> PICK o \in Owners :
       \/ ClaimHolderStep(q, o, now)
       \/ \E c \in Claims : FinishWorkspaceClose(q, o, c, now) \/ FinishVerifier(q, o, c, now)
  BY DEF LiveStep
<1>1. CASE ClaimHolderStep(q, o, now)
  <2>1. Outcome("failed", "unverified") \in Outcomes
    BY AskedOutcomes
  <2>2. \E new : Update(q, new) /\ SameEffect(runs[q], new)
    BY <1>0, <1>1, <2>1, EffectColumnsKept
    DEF ClaimHolderStep, RenewProvisioningClaim, SaveProvisioningPlan, SavePartialProvisioningReceipt,
        SaveProvisioningReceipt, FinishProvisioningClaim, FinishStartingClaim, ConfirmStartingClaim
  <2> QED
    BY <2>2, UpdateEffect
<1>2. ASSUME NEW c \in Claims, FinishWorkspaceClose(q, o, c, now) \/ FinishVerifier(q, o, c, now)
      PROVE  EffectStep(r)
  <2>1. runs[q].eowner = o /\ runs[q].eclaim = c
    BY <1>2 DEF FinishWorkspaceClose, FinishVerifier, CanFinishEffect
  <2>2. CASE q = r
    BY <1>2, <2>1, <2>2 DEF EffectStep
  <2>3. CASE q # r
    BY <1>2, <2>3, UpdateEffect DEF FinishWorkspaceClose, FinishVerifier
  <2> QED
    BY <2>2, <2>3
<1> QED
  BY <1>1, <1>2

\* Calls that ask for a lapsed claim find a live effect in their way.
LEMMA LapsedKeepsEffect ==
    ASSUME Inv, NEW r \in Runs, NEW q \in Runs, NEW now \in Samples, LapsedStep(q, now),
           LiveEffect(runs[r])
    PROVE  EffectStep(r)
<1>0. runs[q] \in Rows /\ runs[r] \in Rows /\ RowInv(runs[r])
  BY DEF Inv
<1>1. now <= 0 /\ now \in Int
  BY RowAssumption DEF Samples, Past
<1>2. runs[r].ekind # "none" /\ runs[r].eowner # None /\ ~(runs[r].elease <= now)
  BY <1>0, <1>1 DEF LiveEffect, RowInv, EffectColumnsAgree, Rows, Instants
<1>3. CASE \/ ConfirmExpiredCommandStart(q, now) \/ RecoverProvisioningWorkspace(q, now)
           \/ InterruptExpiredProvisioning(q, now) \/ InterruptExpiredStarting(q, now)
           \/ InterruptRecoveredProvisioning(q, now)
  <2>1. Interrupted \in Outcomes
    BY AskedOutcomes
  <2>2. \E new : Update(q, new) /\ SameEffect(runs[q], new)
    BY <1>0, <1>3, <2>1, EffectColumnsKept
    DEF ConfirmExpiredCommandStart, RecoverProvisioningWorkspace, InterruptExpiredProvisioning,
        InterruptExpiredStarting, InterruptRecoveredProvisioning
  <2> QED
    BY <2>2, UpdateEffect
<1>4. ASSUME NEW o \in Owners, DecideAdmission(q, o, now) PROVE EffectStep(r)
  <2>1. \A s \in {"blocked", "failed"} : Outcome(s, "unverified") \in Outcomes
    BY DEF Outcome, Outcomes, Terminal, Verdicts
  <2>2. \E new : Update(q, new) /\ SameEffect(runs[q], new)
    BY <1>0, <1>4, <2>1, EffectColumnsKept DEF DecideAdmission, AdmissionFinished
  <2> QED
    BY <2>2, UpdateEffect
<1>5. CASE FinishExpiredVerifier(q, now)
  <2>1. q # r
    BY <1>2, <1>5 DEF FinishExpiredVerifier, CanFinishExpiredVerifier
  <2> QED
    BY <1>5, <2>1, UpdateEffect DEF FinishExpiredVerifier
<1>6. ASSUME NEW o \in Owners, NEW c \in Claims,
             \/ ClaimWorkspaceClose(q, o, c, now) \/ ClaimLateProvisioningCleanup(q, o, c, now)
             \/ ReclaimEffect(q, o, c, now) \/ ClaimVerifier(q, o, c, now)
      PROVE  EffectStep(r)
  <2>1. q # r
    BY <1>2, <1>6
    DEF ClaimWorkspaceClose, CanClaimWorkspaceClose, ClaimLateProvisioningCleanup, CanClaimLateCleanup,
        ReclaimEffect, CanReclaimEffect, ClaimVerifier, CanClaimVerifier, EffectBlank
  <2> QED
    BY <1>6, <2>1, UpdateEffect
    DEF ClaimWorkspaceClose, ClaimLateProvisioningCleanup, ReclaimEffect, ClaimVerifier
<1> QED
  BY <1>3, <1>4, <1>5, <1>6 DEF LapsedStep

\* The remaining calls ask for a row without an effect or do not touch it.
LEMMA EvidenceKeepsEffect ==
    ASSUME Inv, NEW r \in Runs, NEW q \in Runs, EvidenceStep(q), LiveEffect(runs[r])
    PROVE  EffectStep(r)
<1>0. runs[q] \in Rows /\ RowInv(runs[r])
  BY DEF Inv
<1>1. runs[r].eowner # None
  BY <1>0 DEF LiveEffect, RowInv, EffectColumnsAgree
<1>2. CASE Finish(q)
  <2>1. q # r
    BY <1>1, <1>2 DEF Finish, CanFinish, EffectUnowned
  <2> QED
    BY <1>2, <2>1, UpdateEffect DEF Finish
<1>3. CASE \/ Transition(q) \/ RecordRunEvent(q) \/ MarkRead(q)
           \/ \E k \in ReceiptKinds, rec \in Receipts : SetReceipt(q, k, rec)
  <2>1. Interrupted \in Outcomes
    BY AskedOutcomes
  <2>2. \E new : Update(q, new) /\ SameEffect(runs[q], new)
    BY <1>0, <1>3, <2>1, EffectColumnsKept DEF Transition, RecordRunEvent, MarkRead, SetReceipt
  <2> QED
    BY <2>2, UpdateEffect
<1> QED
  BY <1>2, <1>3 DEF EvidenceStep

\* A live effect is ended by its owner alone, whatever a reconciler believes
\* (RunStore: LiveEffectSurvives; ReclaimEffect, FinishExpiredVerifier).
THEOREM LiveEffectsSurvive == Spec => LiveEffectSurvives
<1>1. Inv /\ [Next]_vars => \A r \in Runs : LiveEffect(runs[r]) => EffectStep(r)
  <2> SUFFICES ASSUME Inv, [Next]_vars, NEW r \in Runs, LiveEffect(runs[r]) PROVE EffectStep(r)
    OBVIOUS
  <2>1. CASE Tick
    <3>1. Interrupted \in Outcomes /\ runs[r] \in Rows
      BY AskedOutcomes DEF Inv
    <3> QED
      BY <2>1, <3>1, EffectColumnsKept DEF Tick, EffectStep
  <2>2. CASE UNCHANGED vars
    BY <2>2 DEF vars, EffectStep, SameEffect
  <2> QED
    BY <2>1, <2>2, LiveKeepsEffect, LapsedKeepsEffect, EvidenceKeepsEffect DEF Next
<1>2. Inv /\ [Next]_vars =>
         [\A r \in Runs : runs[r].elease > 0 /\ runs[r].eclaim # None =>
             \/ runs'[r].eclaim = runs[r].eclaim /\ runs'[r].ekind = runs[r].ekind
             \/ \E now \in FreshSamples :
                   \/ FinishWorkspaceClose(r, runs[r].eowner, runs[r].eclaim, now)
                   \/ FinishVerifier(r, runs[r].eowner, runs[r].eclaim, now)]_vars
  BY <1>1 DEF LiveEffect, EffectStep, SameEffect
<1> QED
  BY <1>2, Invariance, PTL DEF Spec, LiveEffectSurvives

-----------------------------------------------------------------------------
(* A live claim is respected by everybody, when a caller that relies on    *)
(* its own claim commits at the time it has sampled.  What it rests on: a  *)
(* close that is claimed under a live provisioning claim belongs to the    *)
(* claim's own holder (ClaimLateProvisioningCleanup).                      *)

CloseByHolder(row) ==
    /\ row.state = "accepted" => row.ekind = "none"
    /\ row.ekind = "workspace_close" /\ row.powner # None /\ row.please > 0 => row.eowner = row.powner

\* Statements that set none of the columns involved but, perhaps, the state.
LEMMA HolderColumnsKept ==
    ASSUME NEW row \in Rows, CloseByHolder(row), NEW x
    PROVE  /\ CloseByHolder(PlanSaved(row)) /\ CloseByHolder(PartialReceiptSaved(row, x))
           /\ CloseByHolder(ReceiptSaved(row)) /\ CloseByHolder(WorkspaceRecovered(row))
           /\ CloseByHolder(EventRecorded(row)) /\ CloseByHolder(MarkedRead(row))
           /\ CloseByHolder(Transitioned(row, "settled")) /\ CloseByHolder(RowAged(row))
           /\ \A k, y : CloseByHolder(ReceiptSet(row, k, y))
<1>1. /\ CloseByHolder(PlanSaved(row)) /\ CloseByHolder(PartialReceiptSaved(row, x))
      /\ CloseByHolder(ReceiptSaved(row)) /\ CloseByHolder(WorkspaceRecovered(row))
  BY DEF Rows, CloseByHolder, PlanSaved, PartialReceiptSaved, ReceiptSaved, WorkspaceRecovered
<1>2. /\ CloseByHolder(EventRecorded(row)) /\ CloseByHolder(MarkedRead(row))
      /\ CloseByHolder(Transitioned(row, "settled")) /\ \A k, y : CloseByHolder(ReceiptSet(row, k, y))
  BY DEF Rows, CloseByHolder, EventRecorded, MarkedRead, Transitioned, ReceiptSet
<1>3. CloseByHolder(RowAged(row))
  BY RowAssumption DEF Rows, Instants, Past, Aged, CloseByHolder, RowAged
<1> QED
  BY <1>1, <1>2, <1>3

\* Statements that give the claim up, or the effect.
LEMMA HolderGivenUp ==
    ASSUME NEW row \in Rows, NEW o \in Outcomes
    PROVE  /\ CloseByHolder(ClaimFinished(row, o)) /\ CloseByHolder(Finished(row, o))
           /\ CloseByHolder(ExpiredVerifierFinished(row, o)) /\ CloseByHolder(StartConfirmed(row))
           /\ row.state # "accepted" => CloseByHolder(EffectFinished(row, o))
<1> DEFINE mid == Terminalized(row, o)
<1>1. mid \in Rows /\ mid.state = o.state /\ o.state # "accepted"
  BY TerminalizedColumns DEF Outcomes, Terminal
<1> HIDE DEF mid
<1>2. \A any \in Rows : any.state # "accepted" => CloseByHolder(ClaimCleared(any))
  BY ClaimClearedColumns DEF CloseByHolder, SameEnd
<1>3. \A any \in Rows : EffectCleared(any) \in Rows /\ EffectCleared(any).state = any.state
                        /\ EffectCleared(any).ekind = "none"
  BY EffectClearedColumns DEF SameEnd
<1>4. CloseByHolder(ClaimFinished(row, o)) /\ CloseByHolder(Finished(row, o))
  BY <1>1, <1>2, <1>3 DEF ClaimFinished, Finished, mid
<1>5. row.state # "accepted" => CloseByHolder(EffectFinished(row, o))
  BY <1>1, <1>2, <1>3 DEF EffectFinished, mid
<1> DEFINE cleared == EffectCleared(mid)
<1>6. cleared \in Rows /\ cleared.ekind = "none"
  BY <1>1, <1>3
<1>7. ExpiredVerifierFinished(row, o) \in {cleared, [cleared EXCEPT !.lane = "mandatory", !.unread = TRUE]}
  BY DEF ExpiredVerifierFinished, mid
<1> HIDE DEF cleared
<1>8. CloseByHolder(ExpiredVerifierFinished(row, o))
  BY <1>6, <1>7 DEF Rows, CloseByHolder
<1>9. CloseByHolder(StartConfirmed(row))
  BY DEF Rows, StartConfirmed, ClaimCleared, CloseByHolder
<1> QED
  BY <1>4, <1>5, <1>8, <1>9

\* Statements that set a claim or an effect.
LEMMA HolderSet ==
    ASSUME NEW row, RowInv(row), CloseByHolder(row), NEW o \in Owners, NEW c \in Claims,
           NEW until \in Instants, NEW intent, NEW pane, NEW now \in Samples
    PROVE  /\ CanDecideAdmission(row) => CloseByHolder(Admitted(row, o, until))
           /\ OwnsLiveClaim(row, o, 0) => CloseByHolder(Renewed(row, until))
           /\ \A from \in Active : CanClaimWorkspaceClose(row, from, now) =>
                 CloseByHolder(WorkspaceCloseClaimed(row, o, c, until, intent))
           /\ CanClaimLateCleanup(row, o, now) =>
                 CloseByHolder(LateCleanupClaimed(row, o, c, until, intent, pane))
           /\ \A from \in Active \cup Terminal : CanReclaimEffect(row, from, now) =>
                 CloseByHolder(Reclaimed(row, o, c, until))
           /\ CloseByHolder(VerifierClaimed(row, o, c, until))
<1>0. row \in Rows /\ now <= 0 /\ now \in Int
  BY RowAssumption DEF RowInv, Samples, Past
<1>1. /\ CanDecideAdmission(row) => CloseByHolder(Admitted(row, o, until))
      /\ OwnsLiveClaim(row, o, 0) => CloseByHolder(Renewed(row, until))
  BY <1>0, RowAssumption DEF Rows, Instants, CanDecideAdmission, Admitted, OwnsLiveClaim, Renewed, CloseByHolder
<1>2. ClaimLapsed(row, now) => row.powner = None \/ row.please <= 0
  BY <1>0 DEF Rows, Instants, ClaimLapsed
<1>3. ASSUME NEW from \in Active, CanClaimWorkspaceClose(row, from, now)
      PROVE  CloseByHolder(WorkspaceCloseClaimed(row, o, c, until, intent))
  BY <1>0, <1>2, <1>3 DEF Rows, Instants, Active, CanClaimWorkspaceClose, WorkspaceCloseClaimed,
                          EffectSet, CloseByHolder
<1>4. ASSUME CanClaimLateCleanup(row, o, now)
      PROVE  CloseByHolder(LateCleanupClaimed(row, o, c, until, intent, pane))
  <2> DEFINE i == LateIntent(row, intent)
  <2> HIDE DEF i
  <2>1. row.state # "accepted" /\ (row.powner = o \/ row.powner = None \/ row.please <= 0)
    BY <1>0, <1>4 DEF Rows, Instants, RowInv, ClaimInPhase, CanClaimLateCleanup, Terminal
  <2>2. CloseByHolder([EffectSet(row, o, c, "workspace_close", until, i)
                         EXCEPT !.workspace = TRUE, !.pane = pane, !.branch = TRUE, !.unread = TRUE])
    BY <1>0, <2>1 DEF Rows, Instants, EffectSet, CloseByHolder
  <2> QED
    BY <2>2 DEF LateCleanupClaimed, i
<1>5. ASSUME NEW from \in Active \cup Terminal, CanReclaimEffect(row, from, now)
      PROVE  CloseByHolder(Reclaimed(row, o, c, until))
  BY <1>0, <1>2, <1>5 DEF Rows, Instants, Active, Terminal, CanReclaimEffect, Reclaimed, CloseByHolder
<1>6. CloseByHolder(VerifierClaimed(row, o, c, until))
  BY <1>0 DEF Rows, VerifierClaimed, EffectSet, CloseByHolder
<1> QED
  BY <1>1, <1>3, <1>4, <1>5, <1>6

Holders == \A r \in Runs : CloseByHolder(runs[r])

\* One row is replaced by another that satisfies CloseByHolder.
LEMMA UpdateHolders ==
    ASSUME Inv, Holders, NEW r \in Runs, NEW new, Update(r, new), CloseByHolder(new)
    PROVE  Holders'
BY DEF Inv, Holders, Update

\* A new table knows no close.
LEMMA InitHolders == Init => Holders
<1>1. ASSUME NEW s \in Nonterminal, NEW p, NEW b, NEW w
      PROVE  CloseByHolder(LegacyRow(s, p, b, w))
  BY DEF LegacyRow, NewRow, CloseByHolder
<1>2. \A row \in LegacyRows : CloseByHolder(row)
  BY <1>1 DEF LegacyRows
<1> QED
  BY <1>2 DEF Init, Holders

\* The calls that rely on a live claim.
LEMMA LiveHolders ==
    ASSUME Inv, Holders, CommitDelay = 0, NEW r \in Runs, NEW now \in FreshSamples, LiveStep(r, now)
    PROVE  Holders'
<1>0. runs[r] \in Rows /\ RowInv(runs[r]) /\ CloseByHolder(runs[r]) /\ now = 0 /\ now \in Samples
  BY FreshIsSample DEF Inv, Holders, FreshSamples
<1> PICK o \in Owners :
       \/ ClaimHolderStep(r, o, now)
       \/ \E c \in Claims : FinishWorkspaceClose(r, o, c, now) \/ FinishVerifier(r, o, c, now)
  BY DEF LiveStep
<1>1. CASE RenewProvisioningClaim(r, o, now)
  <2> PICK until \in Leases(now, MaxProvisioningLease) : Update(r, Renewed(runs[r], until))
    BY <1>1 DEF RenewProvisioningClaim
  <2>1. until \in Instants /\ OwnsLiveClaim(runs[r], o, 0)
    BY <1>0, <1>1, LeasesAreInstants DEF RenewProvisioningClaim, CanRenewProvisioningClaim
  <2>2. CloseByHolder(Renewed(runs[r], until))
    BY <1>0, <2>1, RowAssumption
    DEF Rows, Instants, OwnsLiveClaim, Renewed, CloseByHolder
  <2> QED
    BY <2>2, UpdateHolders
<1>2. CASE \/ SaveProvisioningPlan(r, o, now) \/ SavePartialProvisioningReceipt(r, o, now)
           \/ SaveProvisioningReceipt(r, o, now)
  BY <1>0, <1>2, HolderColumnsKept, UpdateHolders
  DEF SaveProvisioningPlan, SavePartialProvisioningReceipt, SaveProvisioningReceipt
<1>3. CASE \/ FinishProvisioningClaim(r, o, now) \/ FinishStartingClaim(r, o, now)
           \/ ConfirmStartingClaim(r, o, now)
  <2>1. Outcome("failed", "unverified") \in Outcomes
    BY AskedOutcomes
  <2> QED
    BY <1>0, <1>3, <2>1, HolderGivenUp, UpdateHolders
    DEF FinishProvisioningClaim, FinishStartingClaim, ConfirmStartingClaim
<1>4. ASSUME NEW c \in Claims, FinishWorkspaceClose(r, o, c, now) \/ FinishVerifier(r, o, c, now)
      PROVE  Holders'
  <2>1. runs[r].state # "accepted"
    BY <1>0, <1>4 DEF FinishWorkspaceClose, FinishVerifier, CanFinishEffect, CloseByHolder
  <2>2. FinishWorkspaceClose(r, o, c, now) => runs[r].intent \in Outcomes
    BY <1>0 DEF RowInv, Rows, FinishWorkspaceClose, CanFinishEffect, EffectColumnsAgree
  <2>3. VerifierOutcomes \subseteq Outcomes
    BY AskedOutcomes
  <2> QED
    BY <1>0, <1>4, <2>1, <2>2, <2>3, HolderGivenUp, UpdateHolders DEF FinishWorkspaceClose, FinishVerifier
<1> QED
  BY <1>1, <1>2, <1>3, <1>4 DEF ClaimHolderStep

\* The calls that rely on a lapsed one, and new claims.
LEMMA LapsedHolders ==
    ASSUME Inv, Holders, NEW r \in Runs, NEW now \in Samples, LapsedStep(r, now)
    PROVE  Holders'
<1>0. runs[r] \in Rows /\ RowInv(runs[r]) /\ CloseByHolder(runs[r])
  BY DEF Inv, Holders
<1>1. CASE \/ ConfirmExpiredCommandStart(r, now) \/ InterruptExpiredProvisioning(r, now)
           \/ InterruptExpiredStarting(r, now) \/ InterruptRecoveredProvisioning(r, now)
           \/ FinishExpiredVerifier(r, now)
  <2>1. VerifierOutcomes \cup {Interrupted} \subseteq Outcomes
    BY AskedOutcomes
  <2> QED
    BY <1>0, <1>1, <2>1, HolderGivenUp, UpdateHolders
    DEF ConfirmExpiredCommandStart, InterruptExpiredProvisioning, InterruptExpiredStarting,
        InterruptRecoveredProvisioning, FinishExpiredVerifier
<1>2. CASE RecoverProvisioningWorkspace(r, now)
  BY <1>0, <1>2, HolderColumnsKept, UpdateHolders DEF RecoverProvisioningWorkspace
<1>3. ASSUME NEW o \in Owners, DecideAdmission(r, o, now) PROVE Holders'
  <2>1. \A until \in Instants : CloseByHolder(Admitted(runs[r], o, until))
    BY <1>0, <1>3 DEF Rows, DecideAdmission, CanDecideAdmission, Admitted, CloseByHolder
  <2>2. \A s \in {"blocked", "failed"} : Outcome(s, "unverified") \in Outcomes
    BY DEF Outcome, Outcomes, Terminal, Verdicts
  <2>3. \A s \in {"blocked", "failed"} : CloseByHolder(AdmissionFinished(runs[r], s))
    <3> SUFFICES ASSUME NEW s \in {"blocked", "failed"}
                 PROVE  CloseByHolder(AdmissionFinished(runs[r], s))
      OBVIOUS
    <3>1. SameEffect(runs[r], AdmissionFinished(runs[r], s))
      BY <1>0, <2>2, TerminalizedColumns DEF AdmissionFinished
    <3>2. runs[r].ekind = "none"
      BY <1>0, <1>3 DEF DecideAdmission, CanDecideAdmission, CloseByHolder
    <3> QED
      BY <3>1, <3>2 DEF SameEffect, CloseByHolder
  <2> QED
    BY <1>3, <2>1, <2>3, LeasesAreInstants, UpdateHolders DEF DecideAdmission
<1>4. ASSUME NEW o \in Owners, NEW c \in Claims, ClaimWorkspaceClose(r, o, c, now) PROVE Holders'
  <2> PICK until \in Leases(now, MaxEffectLease), intent \in CloseOutcomes :
         Update(r, WorkspaceCloseClaimed(runs[r], o, c, until, intent))
    BY <1>4 DEF ClaimWorkspaceClose
  <2>1. CloseByHolder(WorkspaceCloseClaimed(runs[r], o, c, until, intent))
    BY <1>0, <1>4, LeasesAreInstants, HolderSet DEF ClaimWorkspaceClose
  <2> QED
    BY <2>1, UpdateHolders
<1>5. ASSUME NEW o \in Owners, NEW c \in Claims, ClaimLateProvisioningCleanup(r, o, c, now)
      PROVE  Holders'
  <2> PICK until \in Leases(now, MaxEffectLease), pane \in BOOLEAN :
         Update(r, LateCleanupClaimed(runs[r], o, c, until, Interrupted, pane))
    BY <1>5 DEF ClaimLateProvisioningCleanup
  <2>1. CloseByHolder(LateCleanupClaimed(runs[r], o, c, until, Interrupted, pane))
    BY <1>0, <1>5, LeasesAreInstants, HolderSet DEF ClaimLateProvisioningCleanup
  <2> QED
    BY <2>1, UpdateHolders
<1>6. ASSUME NEW o \in Owners, NEW c \in Claims, ReclaimEffect(r, o, c, now) PROVE Holders'
  <2> PICK until \in Leases(now, MaxEffectLease) : Update(r, Reclaimed(runs[r], o, c, until))
    BY <1>6 DEF ReclaimEffect
  <2>1. CloseByHolder(Reclaimed(runs[r], o, c, until))
    BY <1>0, <1>6, LeasesAreInstants, HolderSet DEF ReclaimEffect
  <2> QED
    BY <2>1, UpdateHolders
<1>7. ASSUME NEW o \in Owners, NEW c \in Claims, ClaimVerifier(r, o, c, now) PROVE Holders'
  <2> PICK until \in Leases(now, MaxEffectLease) : Update(r, VerifierClaimed(runs[r], o, c, until))
    BY <1>7 DEF ClaimVerifier
  <2>1. CloseByHolder(VerifierClaimed(runs[r], o, c, until))
    BY <1>0, <1>7, LeasesAreInstants, HolderSet DEF ClaimVerifier
  <2> QED
    BY <2>1, UpdateHolders
<1> QED
  BY <1>1, <1>2, <1>3, <1>4, <1>5, <1>6, <1>7 DEF LapsedStep

\* A close under a live claim stays the holder's.
LEMMA NextHolders == CommitDelay = 0 /\ Inv /\ Holders /\ [Next]_vars => Holders'
<1> SUFFICES ASSUME CommitDelay = 0, Inv, Holders, [Next]_vars PROVE Holders'
  OBVIOUS
<1>1. CASE Tick
  BY <1>1, HolderColumnsKept DEF Tick, Inv, Holders
<1>2. ASSUME NEW r \in Runs, EvidenceStep(r) PROVE Holders'
  <2>0. runs[r] \in Rows /\ CloseByHolder(runs[r])
    BY DEF Inv, Holders
  <2>1. CASE Finish(r)
    BY <2>0, <2>1, AskedOutcomes, HolderGivenUp, UpdateHolders DEF Finish
  <2> QED
    BY <1>2, <2>0, <2>1, HolderColumnsKept, UpdateHolders
    DEF EvidenceStep, RecordRunEvent, MarkRead, Transition, SetReceipt
<1>3. CASE UNCHANGED vars
  BY <1>3 DEF vars, Holders
<1> QED
  BY <1>1, <1>2, <1>3, LiveHolders, LapsedHolders DEF Next

\* What may happen to the live claim of o on run r.
KeepsClaim(row, new) ==
    /\ new.state = row.state /\ new.powner = row.powner
    /\ new.please \in {row.please, Aged(row.please)}
ClaimStep(r, o) ==
    \/ KeepsClaim(runs[r], runs'[r])
    \/ \E now \in FreshSamples : ClaimHolderStep(r, o, now)
    \/ \E c \in Claims, now \in FreshSamples : FinishWorkspaceClose(r, o, c, now)

\* A row the step does not name keeps its claim.
LEMMA UpdateClaim ==
    ASSUME Inv, NEW r \in Runs, NEW o \in Owners, NEW q \in Runs, NEW new, Update(q, new),
           q = r => KeepsClaim(runs[r], new)
    PROVE  ClaimStep(r, o)
BY DEF Inv, Update, ClaimStep, KeepsClaim

\* Statements that leave the claim and the state alone.
LEMMA ClaimColumnsKept ==
    ASSUME NEW row \in Rows, NEW o, NEW c, NEW until, NEW intent, NEW pane
    PROVE  /\ KeepsClaim(row, WorkspaceRecovered(row)) /\ KeepsClaim(row, EventRecorded(row))
           /\ KeepsClaim(row, MarkedRead(row)) /\ KeepsClaim(row, RowAged(row))
           /\ \A k, y : KeepsClaim(row, ReceiptSet(row, k, y))
           /\ KeepsClaim(row, WorkspaceCloseClaimed(row, o, c, until, intent))
           /\ KeepsClaim(row, LateCleanupClaimed(row, o, c, until, intent, pane))
           /\ KeepsClaim(row, Reclaimed(row, o, c, until))
<1>1. /\ KeepsClaim(row, WorkspaceRecovered(row)) /\ KeepsClaim(row, EventRecorded(row))
      /\ KeepsClaim(row, MarkedRead(row)) /\ KeepsClaim(row, RowAged(row))
      /\ \A k, y : KeepsClaim(row, ReceiptSet(row, k, y))
  BY DEF Rows, KeepsClaim, WorkspaceRecovered, EventRecorded, MarkedRead, RowAged, ReceiptSet
<1>2. KeepsClaim(row, WorkspaceCloseClaimed(row, o, c, until, intent))
  BY DEF Rows, KeepsClaim, WorkspaceCloseClaimed, EffectSet
<1>3. KeepsClaim(row, Reclaimed(row, o, c, until))
  BY DEF Rows, KeepsClaim, Reclaimed
<1>4. \A i : KeepsClaim(row, [EffectSet(row, o, c, "workspace_close", until, i)
                 EXCEPT !.workspace = TRUE, !.pane = pane, !.branch = TRUE, !.unread = TRUE])
  BY DEF Rows, KeepsClaim, EffectSet
<1> QED
  BY <1>1, <1>2, <1>3, <1>4 DEF LateCleanupClaimed

\* Nobody but the holder changes a live claim.
LEMMA LiveClaimStep ==
    ASSUME CommitDelay = 0, Inv, Holders, [Next]_vars, NEW r \in Runs, NEW o \in Owners,
           OwnsLiveClaim(runs[r], o, 0)
    PROVE  ClaimStep(r, o)
<1>0. /\ runs[r] \in Rows /\ RowInv(runs[r]) /\ CloseByHolder(runs[r])
      /\ runs[r].powner = o /\ runs[r].please > 0 /\ o # None
  BY RowAssumption DEF Inv, Holders, OwnsLiveClaim
<1>1. /\ runs[r].state \in {"provisioning", "starting"}
      /\ \A now \in Samples : ~ClaimLapsed(runs[r], now) /\ ~(runs[r].please <= now)
  BY <1>0, RowAssumption DEF RowInv, ClaimInPhase, ClaimLapsed, Rows, Instants, Samples, Past
<1>2. CASE Tick
  BY <1>0, <1>2, ClaimColumnsKept DEF Tick, ClaimStep
<1>3. CASE UNCHANGED vars
  BY <1>3 DEF vars, ClaimStep, KeepsClaim
<1>4. ASSUME NEW q \in Runs, EvidenceStep(q) PROVE ClaimStep(r, o)
  <2>1. CASE Finish(q) \/ Transition(q)
    <3>1. q # r
      BY <1>1, <2>1 DEF Finish, Transition, CanFinish, CanTransition
    <3> QED
      BY <2>1, <3>1, UpdateClaim DEF Finish, Transition
  <2>2. CASE \/ RecordRunEvent(q) \/ MarkRead(q)
             \/ \E k \in ReceiptKinds, rec \in Receipts : SetReceipt(q, k, rec)
    BY <1>0, <2>2, ClaimColumnsKept, UpdateClaim DEF RecordRunEvent, MarkRead, SetReceipt
  <2> QED
    BY <1>4, <2>1, <2>2 DEF EvidenceStep
<1>5. ASSUME NEW q \in Runs, NEW now \in FreshSamples, LiveStep(q, now) PROVE ClaimStep(r, o)
  <2> PICK p \in Owners :
         \/ ClaimHolderStep(q, p, now)
         \/ \E c \in Claims : FinishWorkspaceClose(q, p, c, now) \/ FinishVerifier(q, p, c, now)
    BY <1>5 DEF LiveStep
  <2>1. CASE ClaimHolderStep(q, p, now)
    <3>1. CASE q = r
      <4>1. p = o
        BY <1>0, <2>1, <3>1
        DEF ClaimHolderStep, RenewProvisioningClaim, SaveProvisioningPlan, SavePartialProvisioningReceipt,
            SaveProvisioningReceipt, FinishProvisioningClaim, FinishStartingClaim, ConfirmStartingClaim,
            CanRenewProvisioningClaim, CanSaveProvisioning, CanFinishProvisioningClaim,
            CanFinishStartingClaim, CanConfirmStartingClaim, OwnsLiveClaim
      <4> QED
        BY <2>1, <3>1, <4>1 DEF ClaimStep
    <3>2. CASE q # r
      BY <2>1, <3>2, UpdateClaim
      DEF ClaimHolderStep, RenewProvisioningClaim, SaveProvisioningPlan, SavePartialProvisioningReceipt,
          SaveProvisioningReceipt, FinishProvisioningClaim, FinishStartingClaim, ConfirmStartingClaim
    <3> QED
      BY <3>1, <3>2
  <2>2. ASSUME NEW c \in Claims, FinishWorkspaceClose(q, p, c, now) PROVE ClaimStep(r, o)
    <3>1. CASE q = r
      <4>1. p = o
        BY <1>0, <2>2, <3>1 DEF FinishWorkspaceClose, CanFinishEffect, CloseByHolder
      <4> QED
        BY <2>2, <3>1, <4>1 DEF ClaimStep
    <3>2. CASE q # r
      BY <2>2, <3>2, UpdateClaim DEF FinishWorkspaceClose
    <3> QED
      BY <3>1, <3>2
  <2>3. ASSUME NEW c \in Claims, FinishVerifier(q, p, c, now) PROVE ClaimStep(r, o)
    <3>1. q # r
      BY <1>1, <2>3 DEF FinishVerifier, CanFinishEffect
    <3> QED
      BY <2>3, <3>1, UpdateClaim DEF FinishVerifier
  <2> QED
    BY <2>1, <2>2, <2>3
<1>6. ASSUME NEW q \in Runs, NEW now \in Samples, LapsedStep(q, now) PROVE ClaimStep(r, o)
  <2>0. runs[q] \in Rows
    BY DEF Inv
  <2>1. CASE \/ ConfirmExpiredCommandStart(q, now) \/ InterruptExpiredProvisioning(q, now)
             \/ InterruptExpiredStarting(q, now) \/ InterruptRecoveredProvisioning(q, now)
             \/ FinishExpiredVerifier(q, now)
    <3>1. q # r
      BY <1>1, <2>1
      DEF ConfirmExpiredCommandStart, CanConfirmExpiredCommandStart, InterruptExpiredProvisioning,
          CanInterruptExpiredProvisioning, InterruptExpiredStarting, CanInterruptExpiredStarting,
          InterruptRecoveredProvisioning, CanInterruptRecovered, FinishExpiredVerifier,
          CanFinishExpiredVerifier
    <3> QED
      BY <2>1, <3>1, UpdateClaim
      DEF ConfirmExpiredCommandStart, InterruptExpiredProvisioning, InterruptExpiredStarting,
          InterruptRecoveredProvisioning, FinishExpiredVerifier
  <2>2. CASE RecoverProvisioningWorkspace(q, now)
    BY <2>0, <2>2, ClaimColumnsKept, UpdateClaim DEF RecoverProvisioningWorkspace
  <2>3. ASSUME NEW p \in Owners, DecideAdmission(q, p, now) PROVE ClaimStep(r, o)
    <3>1. q # r
      BY <1>1, <2>3 DEF DecideAdmission, CanDecideAdmission
    <3> QED
      BY <2>3, <3>1, UpdateClaim DEF DecideAdmission
  <2>4. ASSUME NEW p \in Owners, NEW c \in Claims,
               \/ ClaimWorkspaceClose(q, p, c, now) \/ ClaimLateProvisioningCleanup(q, p, c, now)
               \/ ReclaimEffect(q, p, c, now)
        PROVE  ClaimStep(r, o)
    BY <2>0, <2>4, ClaimColumnsKept, UpdateClaim
    DEF ClaimWorkspaceClose, ClaimLateProvisioningCleanup, ReclaimEffect
  <2>5. ASSUME NEW p \in Owners, NEW c \in Claims, ClaimVerifier(q, p, c, now) PROVE ClaimStep(r, o)
    <3>1. q # r
      BY <1>1, <2>5 DEF ClaimVerifier, CanClaimVerifier
    <3> QED
      BY <2>5, <3>1, UpdateClaim DEF ClaimVerifier
  <2> QED
    BY <1>6, <2>1, <2>2, <2>3, <2>4, <2>5 DEF LapsedStep
<1> QED
  BY <1>2, <1>3, <1>4, <1>5, <1>6 DEF Next

\* "Live owned claims survive reconciliation" (README), provided that a holder
\* commits at the time it sampled: with a delay a claim that has just lapsed can
\* be renewed while somebody already closes the workspace (RunStore: LiveClaimSurvives).
THEOREM LiveClaimsSurvive == ASSUME CommitDelay = 0 PROVE Spec => LiveClaimSurvives
<1>1. Init => Holders
  BY InitHolders
<1>2. Inv /\ Holders /\ [Next]_vars => Holders'
  BY NextHolders
<1>3. Inv /\ Holders /\ [Next]_vars =>
         [\A r \in Runs, o \in Owners :
             OwnsLiveClaim(runs[r], o, 0) =>
                \/ /\ runs'[r].state = runs[r].state
                   /\ runs'[r].powner = runs[r].powner
                   /\ runs'[r].please \in {runs[r].please, Aged(runs[r].please)}
                \/ \E now \in FreshSamples : ClaimHolderStep(r, o, now)
                \/ \E c \in Claims, now \in FreshSamples : FinishWorkspaceClose(r, o, c, now)]_vars
  BY LiveClaimStep DEF ClaimStep, KeepsClaim
<1> QED
  BY <1>1, <1>2, <1>3, Invariance, PTL DEF Spec, LiveClaimSurvives
=============================================================================
