------------------------------- MODULE RunRow -------------------------------
(***************************************************************************)
(* One row of the runs table and the compare-and-set statements that       *)
(* internal/store/store.go and internal/store/recovery.go issue on it.     *)
(* Every store method is a pair: CanX(row, ...) is the WHERE clause        *)
(* together with the checks the method makes before it, X(row, ...) is the *)
(* SET clause.  A method that finds CanX false leaves the row as it was.   *)
(*                                                                         *)
(* Instants are written in a frame that moves with the clock: 0 is the     *)
(* present, a lease until t > 0 has t ticks to live, and the time `now' a  *)
(* caller passes was sampled -now ticks ago.  The code compares instants   *)
(* with each other only, so the moving frame decides every comparison the  *)
(* same way.  Past is the instant from which nothing can be told apart: it *)
(* stands for the zero lease too.                                          *)
(***************************************************************************)
EXTENDS Integers

CONSTANTS
    Owners,     \* the random owner token of every engine instance
    Claims,     \* effect claim tokens (newEffectClaim)
    Receipts,   \* write-once evidence: attestations, input and change receipts
    None,       \* the empty string of an unset column
    Horizon     \* how many ticks old a sampled `now' can be when it is used

ASSUME RowAssumption ==
    /\ Horizon \in Nat
    /\ None \notin Owners \cup Claims \cup Receipts

Past == -Horizon
Instants == {t \in Int : t >= Past}     \* lease columns
Samples  == Past .. 0                   \* what a caller passes as `now'

Terminal == {"succeeded", "failed", "blocked", "timed_out", "cancelled", "interrupted"}
Nonterminal == {"accepted", "provisioning", "starting", "running", "settled", "verifying"}
\* The rows DecideAdmission counts against the concurrency cap.
Active == Nonterminal \ {"accepted"}

Verdicts == {"unverified", "passed", "failed"}
Outcomes == [state : Terminal, verdict : Verdicts]
Outcome(s, v) == [state |-> s, verdict |-> v]
Interrupted == Outcome("interrupted", "unverified")

ASSUME NoneAssumption == None \notin Outcomes

EffectKinds == {"none", "verifier", "workspace_close"}
Lanes == {"none", "mandatory", "auto", "sample"}
ReceiptKinds == {"model_attestation", "input_receipt", "change_receipt"}

(***************************************************************************)
(* The columns.  `policy' is the lane the saved definition and the hash of *)
(* the run id give to a verified success; `result' is task_verdict.  The   *)
(* workspace, pane and branch columns are told apart only by whether they  *)
(* are set: a run asks Herdr for one workspace.                            *)
(***************************************************************************)
Rows == [state : Nonterminal \cup Terminal,
         policy : {"mandatory", "auto", "sample"},
         powner : Owners \cup {None}, please : Instants,
         branch : BOOLEAN, workspace : BOOLEAN, pane : BOOLEAN,
         eowner : Owners \cup {None}, eclaim : Claims \cup {None},
         ekind : EffectKinds, elease : Instants,
         intent : Outcomes \cup {None},
         verdict : Verdicts \cup {"none"},
         lane : Lanes, unread : BOOLEAN,
         receipt : [ReceiptKinds -> Receipts \cup {None}]]

\* A freshly inserted run: accepted, unread, every claim and receipt empty.
NewRow(policy) ==
    [state |-> "accepted", policy |-> policy,
     powner |-> None, please |-> Past,
     branch |-> FALSE, workspace |-> FALSE, pane |-> FALSE,
     eowner |-> None, eclaim |-> None, ekind |-> "none", elease |-> Past,
     intent |-> None, verdict |-> "none", lane |-> "none", unread |-> TRUE,
     receipt |-> [k \in ReceiptKinds |-> None]]

\* A row written before the claim columns existed: its state is known, and
\* every column the migration added holds the default.
LegacyRow(state, policy, branch, workspace) ==
    [NewRow(policy) EXCEPT !.state = state, !.branch = branch,
                           !.workspace = workspace, !.pane = workspace]

(* What the columns of a row have to do with each other. *)

EffectColumnsAgree(row) ==
    /\ (row.eowner = None) <=> (row.ekind = "none")
    /\ (row.eclaim = None) <=> (row.ekind = "none")
    /\ (row.intent # None) <=> (row.ekind = "workspace_close")
    /\ row.ekind = "verifier" => row.state = "verifying"
ClaimInPhase(row) == row.powner # None => row.state \in {"provisioning", "starting"}
FiledByVerdict(row) ==
    /\ row.verdict = "passed" => row.state = "succeeded"
    /\ row.lane \in {"auto", "sample"} => row.verdict = "passed"
    /\ (row.state \in Terminal) <=> (row.lane # "none")

-----------------------------------------------------------------------------
(* Conditions shared by the WHERE clauses.                                 *)

OwnsLiveClaim(row, o, now) == row.powner = o /\ row.please > now
ClaimLapsed(row, now) == row.powner = None \/ row.please <= now
EffectUnowned(row) == row.eowner = None
EffectBlank(row) == /\ row.eowner = None /\ row.eclaim = None
                    /\ row.ekind = "none" /\ row.intent = None

(* SET clauses shared by the statements. *)

ClaimCleared(row) == [row EXCEPT !.powner = None, !.please = Past]
\* Mutant: the statement forgets effect_receipt, the close intent.
EffectClearedKeepsIntent(row) ==
    [row EXCEPT !.eowner = None, !.eclaim = None, !.ekind = "none", !.elease = Past]
EffectCleared(row) == [row EXCEPT !.eowner = None, !.eclaim = None,
                                  !.ekind = "none", !.elease = Past, !.intent = None]
EffectSet(row, o, c, kind, until, intent) ==
    [row EXCEPT !.eowner = o, !.eclaim = c, !.ekind = kind, !.elease = until,
                !.intent = intent]

\* Mutant: the lane follows the state and forgets the verdict.
TerminalLaneByState(policy, o) == IF o.state = "succeeded" THEN policy ELSE "mandatory"
\* classifyTerminalRun: anything but a verified success is mandatory review,
\* and only the auto lane starts out read.
TerminalLane(policy, o) ==
    IF o = Outcome("succeeded", "passed") THEN policy ELSE "mandatory"
Terminalized(row, o) ==
    [row EXCEPT !.state = o.state, !.verdict = o.verdict,
                !.lane = TerminalLane(row.policy, o),
                !.unread = TerminalLane(row.policy, o) # "auto"]

-----------------------------------------------------------------------------
(* Admission and the provisioning claim.                                   *)

CanDecideAdmission(row) == row.state = "accepted"
Admitted(row, o, until) == [row EXCEPT !.state = "provisioning", !.powner = o, !.please = until]
AdmissionFinished(row, s) == Terminalized(row, Outcome(s, "unverified"))

CanRenewProvisioningClaim(row, o, now) ==
    row.state \in {"provisioning", "starting"} /\ OwnsLiveClaim(row, o, now)
Renewed(row, until) == [row EXCEPT !.please = until]

CanSaveProvisioning(row, o, now) ==
    row.state = "provisioning" /\ OwnsLiveClaim(row, o, now)
PlanSaved(row) == [row EXCEPT !.branch = TRUE]
PartialReceiptSaved(row, pane) ==
    [row EXCEPT !.workspace = TRUE, !.pane = pane, !.branch = TRUE]
ReceiptSaved(row) ==
    [row EXCEPT !.state = "starting", !.workspace = TRUE, !.pane = TRUE, !.branch = TRUE]

CanFinishProvisioningClaim(row, o, now) ==
    row.state = "provisioning" /\ OwnsLiveClaim(row, o, now)
CanFinishStartingClaim(row, o, now) ==
    row.state = "starting" /\ OwnsLiveClaim(row, o, now)
\* Mutant: the claim columns are left as they were.
ClaimFinishedKeepsOwner(row, o) == Terminalized(row, o)
ClaimFinished(row, o) == ClaimCleared(Terminalized(row, o))

CanConfirmStartingClaim(row, o, now) ==
    row.state = "starting" /\ OwnsLiveClaim(row, o, now) /\ EffectUnowned(row)
\* Mutant: the WHERE clause forgets the state.
CanConfirmAnyExpiredStart(row, now) == ClaimLapsed(row, now) /\ EffectUnowned(row)
CanConfirmExpiredCommandStart(row, now) ==
    row.state = "starting" /\ ClaimLapsed(row, now) /\ EffectUnowned(row)
StartConfirmed(row) == ClaimCleared([row EXCEPT !.state = "running"])

(* Recovery of a lapsed claim. *)

CanRecoverProvisioningWorkspace(row, now) ==
    /\ row.state = "provisioning" /\ row.branch
    /\ ClaimLapsed(row, now) /\ EffectUnowned(row)
WorkspaceRecovered(row) == [row EXCEPT !.workspace = TRUE]

CanInterruptExpiredProvisioning(row, now) ==
    /\ row.state = "provisioning" /\ ~row.workspace
    /\ ClaimLapsed(row, now) /\ EffectUnowned(row)
\* Mutant: the WHERE clause forgets the lease.
CanInterruptStarting(row, now) == row.state = "starting" /\ EffectUnowned(row)
CanInterruptExpiredStarting(row, now) ==
    row.state = "starting" /\ ClaimLapsed(row, now) /\ EffectUnowned(row)
\* The explicit recovery: no receipt, no effect field at all, and an expired
\* lease even when nobody owns it.  The lifecycle adds that the row has not
\* been written since it was observed.
CanInterruptRecovered(row, now) ==
    /\ row.state = "provisioning" /\ ~row.workspace /\ ~row.pane
    /\ EffectBlank(row) /\ row.elease <= now /\ row.please <= now

-----------------------------------------------------------------------------
(* The nonterminal path and its ends.                                      *)

\* Mutant: the WHERE clause forgets the effect columns.
CanTransitionUnfenced(row, from) == row.state = from
CanTransition(row, from) == row.state = from /\ EffectUnowned(row)
Transitioned(row, to) == [row EXCEPT !.state = to]
CanFinish(row, from) == row.state = from /\ EffectUnowned(row)
Finished(row, o) == ClaimCleared(EffectCleared(Terminalized(row, o)))

(* Effects: at most one verifier or workspace close is claimed at a time. *)

CanClaimWorkspaceClose(row, from, now) ==
    row.state = from /\ EffectBlank(row) /\ ClaimLapsed(row, now)
WorkspaceCloseClaimed(row, o, c, until, intent) ==
    EffectSet(row, o, c, "workspace_close", until, intent)

CanClaimLateCleanup(row, o, now) ==
    /\ ~row.workspace /\ row.ekind = "none"
    /\ \/ row.state = "provisioning" /\ (row.powner = o \/ row.please <= now)
       \/ row.state \in Terminal
\* Mutant: the intent is the row's own outcome even when it has none yet.
LateIntentOfRow(row, o) == Outcome(row.state, row.verdict)
\* A terminal row keeps its own outcome; a provisioning row takes the caller's.
LateIntent(row, o) ==
    IF row.state \in Terminal THEN Outcome(row.state, row.verdict) ELSE o
LateCleanupClaimed(row, o, c, until, intent, pane) ==
    [EffectSet(row, o, c, "workspace_close", until, LateIntent(row, intent))
        EXCEPT !.workspace = TRUE, !.pane = pane, !.branch = TRUE, !.unread = TRUE]

\* Mutant: the WHERE clause forgets the effect lease.
CanReclaimLiveEffect(row, from, now) ==
    row.state = from /\ row.ekind = "workspace_close" /\ ClaimLapsed(row, now)
CanReclaimEffect(row, from, now) ==
    /\ row.state = from /\ row.eowner # None /\ row.ekind = "workspace_close"
    /\ row.elease <= now /\ ClaimLapsed(row, now)
Reclaimed(row, o, c, until) == [row EXCEPT !.eowner = o, !.eclaim = c, !.elease = until]

\* Mutant: a verifying run may be claimed again.
CanClaimVerifierAgain(row) == row.state \in {"settled", "verifying"}
CanClaimVerifier(row) == row.state = "settled" /\ EffectBlank(row)
VerifierClaimed(row, o, c, until) ==
    EffectSet([row EXCEPT !.state = "verifying"], o, c, "verifier", until, None)

CanFinishEffect(row, from, o, c, kind, outcome, now) ==
    /\ row.state = from /\ row.eowner = o /\ row.eclaim = c /\ row.ekind = kind
    /\ row.elease > now
    /\ from \in Terminal => kind = "workspace_close" /\ outcome.state = from
\* On a terminal row only the ownership columns change: verdict, lane and the
\* unread bit are written back as they were read in the same transaction.
EffectFinished(row, outcome) ==
    IF row.state \in Terminal
    THEN ClaimCleared(EffectCleared(row))
    ELSE ClaimCleared(EffectCleared(Terminalized(row, outcome)))

CanFinishExpiredVerifier(row, now) ==
    /\ row.state = "verifying"
    /\ \/ row.ekind = "verifier" /\ row.elease <= now
       \/ row.eowner = None /\ row.ekind = "none"
\* A verifying row without a claim comes from an older schema: it is filed in
\* the mandatory lane whatever the outcome.
ExpiredVerifierFinished(row, o) ==
    IF row.ekind = "verifier"
    THEN EffectCleared(Terminalized(row, o))
    ELSE [EffectCleared(Terminalized(row, o)) EXCEPT !.lane = "mandatory", !.unread = TRUE]

-----------------------------------------------------------------------------
(* Evidence and the inbox.                                                 *)

\* Mutant: the receipt is set on a terminal run.
CanSetLateReceipt(row, kind, rec) == row.receipt[kind] \in {None, rec}
CanSetReceipt(row, kind, rec) ==
    row.state \notin Terminal /\ row.receipt[kind] \in {None, rec}
ReceiptSet(row, kind, rec) == [row EXCEPT !.receipt[kind] = rec]

EventRecorded(row) == [row EXCEPT !.unread = TRUE]
MarkedRead(row) == [row EXCEPT !.unread = FALSE]

\* One tick of the clock seen from the moving frame.
Aged(t) == IF t > Past THEN t - 1 ELSE Past
RowAged(row) == [row EXCEPT !.please = Aged(@), !.elease = Aged(@)]
=============================================================================
