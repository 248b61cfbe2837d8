---------------------------- MODULE RunRowProofs ----------------------------
(***************************************************************************)
(* Every statement on a row keeps the row well formed.  RowInv is the      *)
(* inductive invariant of one row: the columns have their types, they      *)
(* agree with each other, and a close intent names an outcome the row may  *)
(* take when the claim is finished, perhaps by another process after a     *)
(* crash.  The lemmas say what the shared SET clauses do to the columns    *)
(* that RowInv reads; each statement's lemma combines them.                *)
(***************************************************************************)
EXTENDS RunRow, TLAPS

\* An outcome a run can honestly end with: only a success is "passed".
Sound(o) == o \in Outcomes /\ (o.verdict = "passed" => o.state = "succeeded")

IntentSound(row) == row.intent # None => Sound(row.intent)
VerdictKnown(row) == row.state \in Terminal => row.verdict \in Verdicts

RowInv(row) ==
    /\ row \in Rows
    /\ EffectColumnsAgree(row) /\ ClaimInPhase(row) /\ FiledByVerdict(row)
    /\ IntentSound(row) /\ VerdictKnown(row)

\* The columns RowInv relates, for updates that leave most of them alone.
SameClaim(row, new) == new.powner = row.powner
SameEffect(row, new) ==
    /\ new.eowner = row.eowner /\ new.eclaim = row.eclaim
    /\ new.ekind = row.ekind /\ new.intent = row.intent
SameEnd(row, new) ==
    /\ new.state = row.state /\ new.verdict = row.verdict /\ new.lane = row.lane

-----------------------------------------------------------------------------
(* The shared SET clauses.                                                 *)

\* The zero instant is an instant (RunRow: Past).
LEMMA PastInstant == Past \in Instants
BY RowAssumption DEF Past, Instants

\* Time keeps a lease an instant (RunRow: Aged).
LEMMA AgedInstant == ASSUME NEW t \in Instants PROVE Aged(t) \in Instants
BY RowAssumption DEF Aged, Past, Instants

\* A lease that is longer than the sample it starts from is an instant.
LEMMA LeaseInstant ==
    ASSUME NEW now \in Samples, NEW max \in Nat, NEW until \in now + 1 .. now + max
    PROVE  until \in Instants
BY RowAssumption DEF Samples, Past, Instants

\* classifyTerminalRun files a sound outcome by its verdict.
LEMMA LaneOfOutcome ==
    ASSUME NEW row \in Rows, NEW o \in Outcomes
    PROVE  LET l == TerminalLane(row.policy, o) IN
           /\ l \in {"mandatory", "auto", "sample"}
           /\ l \in {"auto", "sample"} => o.verdict = "passed"
BY DEF Rows, TerminalLane, Outcome

\* The terminal columns, with the lane already decided.
Filed(row, s, v, l, b) == [row EXCEPT !.state = s, !.verdict = v, !.lane = l, !.unread = b]

\* Filing a row sets four columns and nothing else.
LEMMA FiledColumns ==
    ASSUME NEW row \in Rows, NEW s \in Terminal, NEW v \in Verdicts, NEW l \in Lanes, NEW b \in BOOLEAN
    PROVE  LET new == Filed(row, s, v, l, b) IN
           /\ new \in Rows /\ new.state = s /\ new.verdict = v /\ new.lane = l
           /\ SameClaim(row, new) /\ SameEffect(row, new) /\ new.receipt = row.receipt
<1> DEFINE new == Filed(row, s, v, l, b)
<1>1. new \in Rows
  BY DEF Rows, Filed
<1>2. new.state = s /\ new.verdict = v /\ new.lane = l
  BY DEF Rows, Filed
<1>3. SameClaim(row, new) /\ SameEffect(row, new) /\ new.receipt = row.receipt
  BY DEF Rows, SameClaim, SameEffect, Filed
<1> QED
  BY <1>1, <1>2, <1>3

\* terminalAcceptanceTx and the terminal columns of every finishing method.
LEMMA TerminalizedColumns ==
    ASSUME NEW row \in Rows, NEW o \in Outcomes
    PROVE  LET new == Terminalized(row, o) IN
           /\ new \in Rows /\ new.state = o.state /\ new.verdict = o.verdict
           /\ new.lane \in {"mandatory", "auto", "sample"}
           /\ new.lane \in {"auto", "sample"} => o.verdict = "passed"
           /\ SameClaim(row, new) /\ SameEffect(row, new) /\ new.receipt = row.receipt
<1> DEFINE l == TerminalLane(row.policy, o)
<1> DEFINE b == l # "auto"
<1>1. l \in {"mandatory", "auto", "sample"} /\ (l \in {"auto", "sample"} => o.verdict = "passed")
  BY LaneOfOutcome
<1>2. o.state \in Terminal /\ o.verdict \in Verdicts
  BY DEF Outcomes
<1>3. l \in Lanes /\ b \in BOOLEAN
  BY <1>1 DEF Lanes
<1>4. Terminalized(row, o) = Filed(row, o.state, o.verdict, l, b)
  BY DEF Terminalized, Filed
<1> HIDE DEF l, b
<1>5. LET new == Filed(row, o.state, o.verdict, l, b) IN
      /\ new \in Rows /\ new.state = o.state /\ new.verdict = o.verdict /\ new.lane = l
      /\ SameClaim(row, new) /\ SameEffect(row, new) /\ new.receipt = row.receipt
  BY <1>2, <1>3, FiledColumns
<1> QED
  BY <1>1, <1>4, <1>5

\* Clearing the provisioning claim touches its two columns.
LEMMA ClaimClearedColumns ==
    ASSUME NEW row \in Rows
    PROVE  LET new == ClaimCleared(row) IN
           /\ new \in Rows /\ new.powner = None
           /\ SameEffect(row, new) /\ SameEnd(row, new) /\ new.receipt = row.receipt
BY PastInstant DEF Rows, ClaimCleared, SameEffect, SameEnd

\* Clearing the effect touches its five columns.
LEMMA EffectClearedColumns ==
    ASSUME NEW row \in Rows
    PROVE  LET new == EffectCleared(row) IN
           /\ new \in Rows
           /\ new.eowner = None /\ new.eclaim = None /\ new.ekind = "none" /\ new.intent = None
           /\ SameClaim(row, new) /\ SameEnd(row, new) /\ new.receipt = row.receipt
BY PastInstant DEF Rows, EffectKinds, EffectCleared, SameClaim, SameEnd

\* Setting the effect sets its five columns.
LEMMA EffectSetColumns ==
    ASSUME NEW row \in Rows, NEW o \in Owners, NEW c \in Claims, NEW kind \in EffectKinds,
           NEW until \in Instants, NEW intent \in Outcomes \cup {None}
    PROVE  LET new == EffectSet(row, o, c, kind, until, intent) IN
           /\ new \in Rows
           /\ new.eowner = o /\ new.eclaim = c /\ new.ekind = kind /\ new.intent = intent
           /\ SameClaim(row, new) /\ SameEnd(row, new) /\ new.receipt = row.receipt
BY DEF Rows, EffectSet, SameClaim, SameEnd
-----------------------------------------------------------------------------
(* The statements, in the order of RunRow.                                 *)

\* DecideAdmission claims an accepted run.
LEMMA AdmittedInv ==
    ASSUME NEW row, RowInv(row), CanDecideAdmission(row), NEW o \in Owners, NEW until \in Instants
    PROVE  RowInv(Admitted(row, o, until))
<1>1. Admitted(row, o, until) \in Rows
  BY DEF RowInv, Rows, Nonterminal, Terminal, Admitted, CanDecideAdmission
<1> QED
  BY <1>1 DEF RowInv, Admitted, Rows, EffectColumnsAgree, ClaimInPhase, FiledByVerdict,
              IntentSound, VerdictKnown, Nonterminal, Terminal, CanDecideAdmission

\* RenewProvisioningClaim moves the lease.
LEMMA RenewedInv ==
    ASSUME NEW row, RowInv(row), NEW until \in Instants
    PROVE  RowInv(Renewed(row, until))
<1>1. Renewed(row, until) \in Rows
  BY DEF RowInv, Rows, Nonterminal, Terminal, Renewed
<1> QED
  BY <1>1 DEF RowInv, Renewed, Rows, EffectColumnsAgree, ClaimInPhase, FiledByVerdict,
              IntentSound, VerdictKnown, Nonterminal, Terminal

\* SaveProvisioningPlan records the branch.
LEMMA PlanSavedInv ==
    ASSUME NEW row, RowInv(row)
    PROVE  RowInv(PlanSaved(row))
<1>1. PlanSaved(row) \in Rows
  BY DEF RowInv, Rows, Nonterminal, Terminal, PlanSaved
<1> QED
  BY <1>1 DEF RowInv, PlanSaved, Rows, EffectColumnsAgree, ClaimInPhase, FiledByVerdict,
              IntentSound, VerdictKnown, Nonterminal, Terminal

\* SavePartialProvisioningReceipt records the workspace.
LEMMA PartialReceiptSavedInv ==
    ASSUME NEW row, RowInv(row), NEW pane \in BOOLEAN
    PROVE  RowInv(PartialReceiptSaved(row, pane))
<1>1. PartialReceiptSaved(row, pane) \in Rows
  BY DEF RowInv, Rows, Nonterminal, Terminal, PartialReceiptSaved
<1> QED
  BY <1>1 DEF RowInv, PartialReceiptSaved, Rows, EffectColumnsAgree, ClaimInPhase, FiledByVerdict,
              IntentSound, VerdictKnown, Nonterminal, Terminal

\* SaveProvisioningReceipt moves the run to starting.
LEMMA ReceiptSavedInv ==
    ASSUME NEW row, RowInv(row), row.state = "provisioning"
    PROVE  RowInv(ReceiptSaved(row))
<1>1. ReceiptSaved(row) \in Rows
  BY DEF RowInv, Rows, Nonterminal, Terminal, ReceiptSaved
<1> QED
  BY <1>1 DEF RowInv, ReceiptSaved, Rows, EffectColumnsAgree, ClaimInPhase, FiledByVerdict,
              IntentSound, VerdictKnown, Nonterminal, Terminal

\* RecoverProvisioningWorkspace records the workspace.
LEMMA WorkspaceRecoveredInv ==
    ASSUME NEW row, RowInv(row)
    PROVE  RowInv(WorkspaceRecovered(row))
<1>1. WorkspaceRecovered(row) \in Rows
  BY DEF RowInv, Rows, Nonterminal, Terminal, WorkspaceRecovered
<1> QED
  BY <1>1 DEF RowInv, WorkspaceRecovered, Rows, EffectColumnsAgree, ClaimInPhase, FiledByVerdict,
              IntentSound, VerdictKnown, Nonterminal, Terminal

\* Transition settles a running run.
LEMMA SettledInv ==
    ASSUME NEW row, RowInv(row), row.state = "running"
    PROVE  RowInv(Transitioned(row, "settled"))
<1>1. Transitioned(row, "settled") \in Rows
  BY DEF RowInv, Rows, Nonterminal, Terminal, Transitioned
<1> QED
  BY <1>1 DEF RowInv, Transitioned, Rows, EffectColumnsAgree, ClaimInPhase, FiledByVerdict,
              IntentSound, VerdictKnown, Nonterminal, Terminal

\* RecordRunEvent marks the run unread.
LEMMA EventRecordedInv ==
    ASSUME NEW row, RowInv(row)
    PROVE  RowInv(EventRecorded(row))
<1>1. EventRecorded(row) \in Rows
  BY DEF RowInv, Rows, Nonterminal, Terminal, EventRecorded
<1> QED
  BY <1>1 DEF RowInv, EventRecorded, Rows, EffectColumnsAgree, ClaimInPhase, FiledByVerdict,
              IntentSound, VerdictKnown, Nonterminal, Terminal

\* MarkRead marks it read.
LEMMA MarkedReadInv ==
    ASSUME NEW row, RowInv(row)
    PROVE  RowInv(MarkedRead(row))
<1>1. MarkedRead(row) \in Rows
  BY DEF RowInv, Rows, Nonterminal, Terminal, MarkedRead
<1> QED
  BY <1>1 DEF RowInv, MarkedRead, Rows, EffectColumnsAgree, ClaimInPhase, FiledByVerdict,
              IntentSound, VerdictKnown, Nonterminal, Terminal

\* A write-once receipt is set.
LEMMA ReceiptSetInv ==
    ASSUME NEW row, RowInv(row), NEW k \in ReceiptKinds, NEW rec \in Receipts
    PROVE  RowInv(ReceiptSet(row, k, rec))
<1>1. ReceiptSet(row, k, rec) \in Rows
  BY DEF RowInv, Rows, Nonterminal, Terminal, ReceiptSet
<1> QED
  BY <1>1 DEF RowInv, ReceiptSet, Rows, EffectColumnsAgree, ClaimInPhase, FiledByVerdict,
              IntentSound, VerdictKnown, Nonterminal, Terminal

\* Time passes.
LEMMA RowAgedInv ==
    ASSUME NEW row, RowInv(row)
    PROVE  RowInv(RowAged(row))
<1>1. RowAged(row) \in Rows
  BY AgedInstant DEF RowInv, Rows, Nonterminal, Terminal, RowAged
<1> QED
  BY <1>1 DEF RowInv, RowAged, Rows, EffectColumnsAgree, ClaimInPhase, FiledByVerdict,
              IntentSound, VerdictKnown, Nonterminal, Terminal

\* Start confirmation clears the claim.
LEMMA StartConfirmedInv ==
    ASSUME NEW row, RowInv(row), row.state = "starting", row.eowner = None
    PROVE  RowInv(StartConfirmed(row))
<1> DEFINE mid == [row EXCEPT !.state = "running"]
<1>1. mid \in Rows
  BY DEF RowInv, Rows, Nonterminal
<1>2. LET new == ClaimCleared(mid) IN
      /\ new \in Rows /\ new.powner = None /\ SameEffect(mid, new) /\ SameEnd(mid, new)
  BY <1>1, ClaimClearedColumns
<1>3. /\ SameEffect(row, mid) /\ mid.state = "running"
      /\ mid.verdict = row.verdict /\ mid.lane = row.lane
  BY DEF RowInv, Rows, SameEffect
<1>4. StartConfirmed(row) = ClaimCleared(mid)
  BY DEF StartConfirmed
<1> HIDE DEF mid
<1> QED
  BY <1>2, <1>3, <1>4 DEF RowInv, SameEffect, SameEnd, EffectColumnsAgree, ClaimInPhase,
     FiledByVerdict, IntentSound, VerdictKnown, Terminal

\* A run without a claim and without a verifier is filed with a sound outcome.
LEMMA TerminalizedInv ==
    ASSUME NEW row, row \in Rows, row.powner = None, row.ekind # "verifier",
           EffectColumnsAgree(row), IntentSound(row), NEW o, Sound(o)
    PROVE  RowInv(Terminalized(row, o))
<1>1. o \in Outcomes /\ o.state \in Terminal /\ o.verdict \in Verdicts
      /\ (o.verdict = "passed" => o.state = "succeeded")
  BY DEF Sound, Outcomes
<1>2. LET new == Terminalized(row, o) IN
      /\ new \in Rows /\ new.state = o.state /\ new.verdict = o.verdict
      /\ new.lane \in {"mandatory", "auto", "sample"}
      /\ new.lane \in {"auto", "sample"} => o.verdict = "passed"
      /\ SameClaim(row, new) /\ SameEffect(row, new)
  BY <1>1, TerminalizedColumns
<1> QED
  BY <1>1, <1>2 DEF RowInv, SameClaim, SameEffect, EffectColumnsAgree, ClaimInPhase,
     FiledByVerdict, IntentSound, VerdictKnown

\* The claim columns do not matter to the rest of the row.
LEMMA ClaimClearedInv ==
    ASSUME NEW row, row \in Rows, EffectColumnsAgree(row), FiledByVerdict(row),
           IntentSound(row), VerdictKnown(row)
    PROVE  RowInv(ClaimCleared(row))
<1>1. LET new == ClaimCleared(row) IN
      /\ new \in Rows /\ new.powner = None /\ SameEffect(row, new) /\ SameEnd(row, new)
  BY ClaimClearedColumns
<1> QED
  BY <1>1 DEF RowInv, SameEffect, SameEnd, EffectColumnsAgree, ClaimInPhase,
     FiledByVerdict, IntentSound, VerdictKnown

\* An effect can always be dropped.
LEMMA EffectClearedInv ==
    ASSUME NEW row, row \in Rows, ClaimInPhase(row), FiledByVerdict(row), VerdictKnown(row)
    PROVE  RowInv(EffectCleared(row))
<1>1. LET new == EffectCleared(row) IN
      /\ new \in Rows
      /\ new.eowner = None /\ new.eclaim = None /\ new.ekind = "none" /\ new.intent = None
      /\ SameClaim(row, new) /\ SameEnd(row, new)
  BY EffectClearedColumns
<1> QED
  BY <1>1 DEF RowInv, SameClaim, SameEnd, EffectColumnsAgree, ClaimInPhase,
     FiledByVerdict, IntentSound, VerdictKnown

\* Filing keeps the columns of the claim and of the effect.
LEMMA FiledEnds ==
    ASSUME NEW row \in Rows, NEW o, Sound(o)
    PROVE  LET new == Terminalized(row, o) IN
           /\ new \in Rows /\ SameClaim(row, new) /\ SameEffect(row, new)
           /\ new.state \in Terminal /\ FiledByVerdict(new) /\ VerdictKnown(new)
<1>1. o \in Outcomes /\ o.state \in Terminal /\ o.verdict \in Verdicts
      /\ (o.verdict = "passed" => o.state = "succeeded")
  BY DEF Sound, Outcomes
<1> QED
  BY <1>1, TerminalizedColumns DEF FiledByVerdict, VerdictKnown

\* The finishing methods of the provisioning claim and its recovery.
LEMMA ClaimFinishedInv ==
    ASSUME NEW row, RowInv(row), row.state \in {"provisioning", "starting"}, NEW o, Sound(o)
    PROVE  RowInv(ClaimFinished(row, o))
<1>1. LET mid == Terminalized(row, o) IN
      /\ mid \in Rows /\ SameEffect(row, mid)
      /\ FiledByVerdict(mid) /\ VerdictKnown(mid)
  BY FiledEnds DEF RowInv
<1>2. EffectColumnsAgree(Terminalized(row, o)) /\ IntentSound(Terminalized(row, o))
  BY <1>1 DEF RowInv, SameEffect, EffectColumnsAgree, IntentSound
<1> QED
  BY <1>1, <1>2, ClaimClearedInv DEF ClaimFinished

\* AdmissionFinished: an accepted run has neither claim nor verifier.
LEMMA AdmissionFinishedInv ==
    ASSUME NEW row, RowInv(row), CanDecideAdmission(row), NEW s \in {"blocked", "failed"}
    PROVE  RowInv(AdmissionFinished(row, s))
<1>1. Sound(Outcome(s, "unverified"))
  BY DEF Sound, Outcome, Outcomes, Terminal, Verdicts
<1>2. row.powner = None /\ row.ekind # "verifier"
  BY DEF RowInv, CanDecideAdmission, ClaimInPhase, EffectColumnsAgree
<1> QED
  BY <1>1, <1>2, TerminalizedInv DEF RowInv, AdmissionFinished

\* Finish clears the claim and the effect.
LEMMA FinishedInv ==
    ASSUME NEW row, RowInv(row), NEW o, Sound(o)
    PROVE  RowInv(Finished(row, o))
<1>1. LET mid == Terminalized(row, o) IN
      mid \in Rows /\ FiledByVerdict(mid) /\ VerdictKnown(mid)
  BY FiledEnds DEF RowInv
<1>2. LET mid == EffectCleared(Terminalized(row, o)) IN
      /\ mid \in Rows
      /\ mid.eowner = None /\ mid.eclaim = None /\ mid.ekind = "none" /\ mid.intent = None
      /\ SameEnd(Terminalized(row, o), mid)
  BY <1>1, EffectClearedColumns
<1>3. LET mid == EffectCleared(Terminalized(row, o)) IN
      /\ EffectColumnsAgree(mid) /\ IntentSound(mid)
      /\ FiledByVerdict(mid) /\ VerdictKnown(mid)
  BY <1>1, <1>2 DEF SameEnd, EffectColumnsAgree, IntentSound, FiledByVerdict, VerdictKnown
<1> QED
  BY <1>2, <1>3, ClaimClearedInv DEF Finished

-----------------------------------------------------------------------------
(* Effects.                                                                *)

\* An owner or a token is never the empty string.
LEMMA TokensAreSet ==
    ASSUME NEW o \in Owners, NEW c \in Claims PROVE o # None /\ c # None
BY RowAssumption

\* ClaimWorkspaceClose stores the intent with the claim.
LEMMA WorkspaceCloseClaimedInv ==
    ASSUME NEW row, RowInv(row), NEW o \in Owners, NEW c \in Claims, NEW until \in Instants,
           NEW intent, Sound(intent)
    PROVE  RowInv(WorkspaceCloseClaimed(row, o, c, until, intent))
<1>1. intent \in Outcomes \cup {None} /\ intent # None /\ "workspace_close" \in EffectKinds
  BY NoneAssumption DEF Sound, EffectKinds
<1>2. LET new == EffectSet(row, o, c, "workspace_close", until, intent) IN
      /\ new \in Rows
      /\ new.eowner = o /\ new.eclaim = c /\ new.ekind = "workspace_close" /\ new.intent = intent
      /\ SameClaim(row, new) /\ SameEnd(row, new)
  BY <1>1, EffectSetColumns DEF RowInv
<1> QED
  BY <1>1, <1>2, TokensAreSet DEF RowInv, WorkspaceCloseClaimed, SameClaim, SameEnd,
     EffectColumnsAgree, ClaimInPhase, FiledByVerdict, IntentSound, VerdictKnown

\* The outcome a late cleanup keeps or brings.
LEMMA LateIntentSound ==
    ASSUME NEW row, RowInv(row), NEW o, Sound(o)
    PROVE  Sound(LateIntent(row, o))
<1>1. CASE row.state \in Terminal
  <2>1. Outcome(row.state, row.verdict) \in Outcomes
    BY <1>1 DEF RowInv, VerdictKnown, Outcome, Outcomes
  <2> QED
    BY <1>1, <2>1 DEF RowInv, FiledByVerdict, LateIntent, Sound, Outcome
<1>2. CASE row.state \notin Terminal
  BY <1>2 DEF LateIntent
<1> QED
  BY <1>1, <1>2

\* The receipt columns a late cleanup adds to its claim.
LateColumns(row, pane) ==
    [row EXCEPT !.workspace = TRUE, !.pane = pane, !.branch = TRUE, !.unread = TRUE]

\* Recording the receipt leaves the columns of the invariant alone.
LEMMA LateColumnsInv ==
    ASSUME NEW row, RowInv(row), NEW pane \in BOOLEAN PROVE RowInv(LateColumns(row, pane))
<1>1. LateColumns(row, pane) \in Rows
  BY DEF RowInv, Rows, LateColumns
<1> QED
  BY <1>1 DEF RowInv, LateColumns, Rows, EffectColumnsAgree, ClaimInPhase, FiledByVerdict,
              IntentSound, VerdictKnown

\* ClaimLateProvisioningCleanup adopts a workspace, on a terminal row too.
LEMMA LateCleanupClaimedInv ==
    ASSUME NEW row, RowInv(row), NEW o \in Owners, NEW c \in Claims, NEW until \in Instants,
           NEW intent, Sound(intent), NEW pane \in BOOLEAN
    PROVE  RowInv(LateCleanupClaimed(row, o, c, until, intent, pane))
<1>1. Sound(LateIntent(row, intent))
  BY LateIntentSound
<1> DEFINE mid == EffectSet(row, o, c, "workspace_close", until, LateIntent(row, intent))
<1>2. RowInv(mid)
  BY <1>1, WorkspaceCloseClaimedInv DEF WorkspaceCloseClaimed
<1>3. LateCleanupClaimed(row, o, c, until, intent, pane) = LateColumns(mid, pane)
  BY DEF LateCleanupClaimed, LateColumns
<1> HIDE DEF mid
<1> QED
  BY <1>2, <1>3, LateColumnsInv

\* ReclaimEffect changes the owner and the lease of a close, not its intent.
LEMMA ReclaimedInv ==
    ASSUME NEW row, RowInv(row), row.ekind = "workspace_close",
           NEW o \in Owners, NEW c \in Claims, NEW until \in Instants
    PROVE  RowInv(Reclaimed(row, o, c, until))
<1>1. Reclaimed(row, o, c, until) \in Rows
  BY DEF RowInv, Rows, Reclaimed
<1> QED
  BY <1>1, TokensAreSet DEF RowInv, Reclaimed, Rows, EffectColumnsAgree, ClaimInPhase,
     FiledByVerdict, IntentSound, VerdictKnown

\* ClaimVerifier moves a settled run to verifying together with the claim.
LEMMA VerifierClaimedInv ==
    ASSUME NEW row, RowInv(row), CanClaimVerifier(row),
           NEW o \in Owners, NEW c \in Claims, NEW until \in Instants
    PROVE  RowInv(VerifierClaimed(row, o, c, until))
<1> DEFINE mid == [row EXCEPT !.state = "verifying"]
<1>1. mid \in Rows
  BY DEF RowInv, Rows, Nonterminal
<1>2. /\ SameClaim(row, mid) /\ mid.state = "verifying"
      /\ mid.verdict = row.verdict /\ mid.lane = row.lane
  BY DEF RowInv, Rows, SameClaim
<1>3. VerifierClaimed(row, o, c, until) = EffectSet(mid, o, c, "verifier", until, None)
  BY DEF VerifierClaimed
<1> HIDE DEF mid
<1>4. LET new == EffectSet(mid, o, c, "verifier", until, None) IN
      /\ new \in Rows
      /\ new.eowner = o /\ new.eclaim = c /\ new.ekind = "verifier" /\ new.intent = None
      /\ SameClaim(mid, new) /\ SameEnd(mid, new)
  BY <1>1, EffectSetColumns DEF EffectKinds
<1> QED
  BY <1>2, <1>3, <1>4, TokensAreSet DEF RowInv, CanClaimVerifier, SameClaim, SameEnd,
     EffectColumnsAgree, ClaimInPhase, FiledByVerdict, IntentSound, VerdictKnown, Terminal

\* FinishEffect, on a terminal row (only ownership changes) and before.
LEMMA EffectFinishedInv ==
    ASSUME NEW row, RowInv(row), NEW o, Sound(o)
    PROVE  RowInv(EffectFinished(row, o))
<1>1. CASE row.state \in Terminal
  <2>1. RowInv(EffectCleared(row))
    BY EffectClearedInv DEF RowInv
  <2> QED
    BY <1>1, <2>1, ClaimClearedInv DEF RowInv, EffectFinished
<1>2. CASE row.state \notin Terminal
  BY <1>2, FinishedInv DEF EffectFinished, Finished
<1> QED
  BY <1>1, <1>2

\* The mandatory lane can be forced on any filed row.
LEMMA MandatoryInv ==
    ASSUME NEW row, RowInv(row), row.state \in Terminal
    PROVE  RowInv([row EXCEPT !.lane = "mandatory", !.unread = TRUE])
<1>1. [row EXCEPT !.lane = "mandatory", !.unread = TRUE] \in Rows
  BY DEF RowInv, Rows, Lanes
<1> QED
  BY <1>1 DEF RowInv, Rows, EffectColumnsAgree, ClaimInPhase, FiledByVerdict,
              IntentSound, VerdictKnown

\* FinishExpiredVerifier: a verifying run holds no provisioning claim.
LEMMA ExpiredVerifierFinishedInv ==
    ASSUME NEW row, RowInv(row), row.state = "verifying", NEW o, Sound(o)
    PROVE  RowInv(ExpiredVerifierFinished(row, o))
<1> DEFINE mid == EffectCleared(Terminalized(row, o))
<1>1. LET top == Terminalized(row, o) IN
      /\ top \in Rows /\ SameClaim(row, top) /\ top.state \in Terminal
      /\ FiledByVerdict(top) /\ VerdictKnown(top)
  BY FiledEnds DEF RowInv
<1>2. row.powner = None
  BY DEF RowInv, ClaimInPhase
<1>3. ClaimInPhase(Terminalized(row, o))
  BY <1>1, <1>2 DEF SameClaim, ClaimInPhase
<1>4. RowInv(mid) /\ mid.state \in Terminal
  <2>1. SameEnd(Terminalized(row, o), mid)
    BY <1>1, EffectClearedColumns
  <2> QED
    BY <1>1, <1>3, <2>1, EffectClearedInv DEF SameEnd
<1> HIDE DEF mid
<1>5. RowInv([mid EXCEPT !.lane = "mandatory", !.unread = TRUE])
  BY <1>4, MandatoryInv
<1> QED
  BY <1>4, <1>5 DEF ExpiredVerifierFinished, mid
=============================================================================
