----------------------------- MODULE SettledRun -----------------------------
(***************************************************************************)
(* A bounded run from the staging of its inputs to its outcome: the tail   *)
(* of Engine.execute, Engine.monitor and Engine.reconcileExpiredVerifier   *)
(* (internal/engine/engine.go), composed of BoundedReview and Verifier.    *)
(*                                                                         *)
(* Two threads may drive the run: its monitor goroutine, and Reconcile,    *)
(* which completes a finished command itself, beside the monitor, and      *)
(* takes over a verifier whose lease has run out.  The scheduler may crash *)
(* between any two steps; the row, the worktree, the result files and the  *)
(* verifier's process group survive it.  The agent may leave processes     *)
(* behind that go on writing: nothing stops them before the workspace is   *)
(* closed.  The compare-and-set statements are those of RunRow, reduced to *)
(* the columns this module needs; the outcomes no review precedes (a       *)
(* command that failed or timed out, cancel, recover) are RunLifecycle's.  *)
(***************************************************************************)
EXTENDS BoundedReview, Verifier

CONSTANTS
    Scenarios,  \* the saved definition (inputs, scoped, verifier), and how often each
                \* writer writes, the scheduler crashes and a pass completes the
                \* command beside its monitor
    Lease,      \* ticks: verifierLease (6 min)
    StartDelay  \* ticks that may pass between the claim and the supervisor's start

ASSUME SettledAssumption ==
    /\ Threads = {"monitor", "reconciler"}
    /\ StartDelay \in Nat
    /\ Lease \in Nat /\ Lease > StartDelay + Limit
    /\ \A s \in Scenarios :
         /\ s.job \in [inputs : SUBSET Inputs, scoped : BOOLEAN, verifier : BOOLEAN]
         /\ s.budget \in [{"agent", "left", "verifier", "source", "crash", "beside"} -> Nat]

VARIABLES
    state,      \* runs.state
    verdict,    \* runs.task_verdict
    lease,      \* ticks until the verifier claim runs out
    agent,      \* "waiting" for its start, "running", "settled"
    th,         \* the threads: program counter, expected state, outcome to persist
    up,         \* the scheduler's process is alive
    budget,     \* the writes and crashes that are left
    late        \* history: a process the agent left behind has written

runVars == <<state, verdict, lease, agent, th, up>>
vars == <<reviewVars, verifierVars, runVars, budget, late>>

Terminal == {"succeeded", "failed", "interrupted"}
Resting == [pc |-> "idle", from |-> "starting", outcome |-> "failed", verdict |-> "unverified"]
Open == state \notin Terminal

Init ==
    /\ \E s \in Scenarios : job = s.job /\ budget = s.budget
    /\ ReviewInit /\ VerifierInit
    /\ state = "starting" /\ verdict = "unverified" /\ lease = 0
    /\ agent = "waiting" /\ up = TRUE
    /\ th = [t \in Threads |-> IF t = "monitor" THEN [Resting EXCEPT !.pc = "stage"] ELSE Resting]
    /\ late = FALSE

Spend(w) == budget[w] > 0 /\ budget' = [budget EXCEPT ![w] = @ - 1]
Moves(t, pc) == th' = [th EXCEPT ![t].pc = pc]
Rests(t) == th' = [th EXCEPT ![t] = Resting]
\* Store.Finish and Transition: compare-and-set on the state the caller expects.
Finish(from, to, v) ==
    IF state = from THEN state' = to /\ verdict' = v
                    ELSE UNCHANGED <<state, verdict>>
ReviewDone(t) == obs[t].pc \in {"ok", "failed"}
DropReview(t) == obs' = [obs EXCEPT ![t] = Idle]
rowRest == <<lease, agent, up, budget, late>>
reviewRest == <<job, source, tree, inputReceipt, changeReceipt, restored>>

-----------------------------------------------------------------------------
(* execute: stage the inputs, then start the agent.                        *)

Stage ==
    /\ th["monitor"].pc = "stage"
    /\ IF job.inputs = {}
       THEN Goto("monitor", [Idle EXCEPT !.pc = "ok"])
       ELSE BeginStaging("monitor")
    /\ Moves("monitor", "staged")
    /\ UNCHANGED <<reviewRest, verifierVars, state, verdict, rowRest>>

\* failStarting, or the prompt and the start of the agent with its confirmation.
StartAgent ==
    /\ th["monitor"].pc = "staged" /\ ReviewDone("monitor")
    /\ DropReview("monitor")
    /\ \/ /\ obs["monitor"].pc = "failed"
          /\ Finish("starting", "failed", "unverified") /\ Rests("monitor")
          /\ UNCHANGED agent
       \/ /\ obs["monitor"].pc = "ok"
          /\ Finish("starting", "running", "unverified")
          /\ agent' = "running" /\ Moves("monitor", "await")
    /\ UNCHANGED <<reviewRest, verifierVars, lease, up, budget, late>>

\* External: the headless command prints its completion marker.
AgentSettles ==
    /\ agent = "running" /\ agent' = "settled"
    /\ UNCHANGED <<reviewVars, verifierVars, state, verdict, lease, th, up, budget, late>>

-----------------------------------------------------------------------------
(* monitor, by either thread.                                              *)

\* A job without inputs and without a scope has no boundary.
Review(t) == IF job.inputs # {} \/ job.scoped THEN BeginReview(t) ELSE Passes(t)

MonitorSettles ==
    /\ th["monitor"].pc = "await" /\ agent = "settled"
    /\ th' = [th EXCEPT !["monitor"] = [@ EXCEPT !.pc = "review", !.from = "running"]]
    /\ Review("monitor")
    /\ UNCHANGED <<reviewRest, verifierVars, state, verdict, rowRest>>

\* Reconcile: a finished command is completed by the pass itself; a settled
\* run is given to the monitor goroutine unless it has one in flight.
ReconcileRun(t) ==
    /\ up /\ th[t].pc = "idle" /\ agent = "settled"
    /\ \/ t = "reconciler" /\ state = "running" /\ Spend("beside")
       \/ t = "monitor" /\ state = "settled" /\ UNCHANGED budget
    /\ th' = [th EXCEPT ![t] = [@ EXCEPT !.pc = "review", !.from = state]]
    /\ Review(t)
    /\ UNCHANGED <<reviewRest, verifierVars, state, verdict, lease, agent, up, late>>

\* Engine.fail, or the transition to settled, whose loser gives up.
EndReview(t) ==
    LET from == th[t].from
    IN  /\ th[t].pc = "review" /\ ReviewDone(t)
        /\ DropReview(t)
        /\ IF obs[t].pc = "failed"
           THEN Finish(from, "failed", "unverified") /\ Rests(t)
           ELSE IF from = "settled" THEN Moves(t, "settled") /\ UNCHANGED <<state, verdict>>
           ELSE IF state = from
                THEN state' = "settled" /\ UNCHANGED verdict /\ Moves(t, "settled")
                ELSE Rests(t) /\ UNCHANGED <<state, verdict>>
        /\ UNCHANGED <<reviewRest, verifierVars, rowRest>>

\* No verifier: the run succeeds unverified.  Otherwise ClaimVerifier, which
\* one caller wins.
ClaimOrFinish(t) ==
    /\ th[t].pc = "settled"
    /\ \/ /\ ~job.verifier
          /\ Finish("settled", "succeeded", "unverified") /\ Rests(t)
          /\ UNCHANGED <<lease, call>>
       \/ /\ job.verifier /\ state = "settled"
          /\ state' = "verifying" /\ lease' = Lease
          /\ call' = [NotCalled EXCEPT !.pc = "prepare"]
          /\ Moves(t, "verifier") /\ UNCHANGED verdict
       \/ /\ job.verifier /\ state # "settled"
          /\ Rests(t) /\ UNCHANGED <<state, verdict, lease, call>>
    /\ UNCHANGED <<reviewVars, groupVars, files, agent, up, budget, late>>

\* The owner must finish before, the reconciler after this instant.
Expired == lease = 0

\* Mutant: the verifier's own exit status ends the review.
SkipSecondReview(t) == Passes(t)
\* The boundary is observed again, the verifier having run in the worktree.
ReviewAgain(t) == Review(t)

VerifierReturned(t) ==
    LET passed == call.result = "zero"
    IN  /\ th[t].pc = "verifier" /\ call.pc = "returned"
        /\ th' = [th EXCEPT ![t] =
                    [@ EXCEPT !.pc = "finish", !.from = "verifying",
                              !.outcome = IF passed THEN "succeeded" ELSE "failed",
                              !.verdict = IF call.failed THEN "unverified"
                                          ELSE IF passed THEN "passed" ELSE "failed"]]
        /\ ReviewAgain(t)
        /\ UNCHANGED <<reviewRest, verifierVars, state, verdict, rowRest>>

\* prepareVerifierReceipt refused: the run fails and nothing is removed.
VerifierRefused(t) ==
    /\ th[t].pc = "verifier" /\ call.pc = "refused"
    /\ IF ~Expired THEN Finish("verifying", "failed", "unverified")
                   ELSE UNCHANGED <<state, verdict>>
    /\ Rests(t)
    /\ UNCHANGED <<reviewVars, verifierVars, rowRest>>

\* readVerifierReceiptFiles: the outcome and the verdict a marker stands for; a
\* file that is missing or cannot be understood stands for none.
Result(marker) ==
    CASE marker = "zero" -> <<"succeeded", "passed">>
      [] marker = "nonzero" -> <<"failed", "failed">>
      [] OTHER -> <<"interrupted", "unverified">>

\* reconcileExpiredVerifier: without a result the run is interrupted, with
\* one the boundary is observed as the monitor would have done.
ReadReceipt ==
    /\ up /\ th["reconciler"].pc = "idle" /\ state = "verifying" /\ Expired
    /\ th' = [th EXCEPT !["reconciler"] =
                [pc |-> "takeover", from |-> "verifying",
                 outcome |-> Result(files.marker)[1], verdict |-> Result(files.marker)[2]]]
    /\ IF files.marker \in Codes
       THEN ReviewAgain("reconciler")
       ELSE Passes("reconciler")
    /\ UNCHANGED <<reviewRest, verifierVars, state, verdict, rowRest>>

\* FinishEffect needs the live lease, FinishExpiredVerifier the expired one;
\* who does not finish leaves the files alone.
Conclude(t) ==
    LET reviewed == obs[t].pc = "ok"
        mine == /\ state = "verifying"
                /\ IF th[t].pc = "finish" THEN ~Expired ELSE Expired
    IN  /\ th[t].pc \in {"finish", "takeover"} /\ ReviewDone(t)
        /\ DropReview(t)
        /\ \/ /\ mine
              /\ state' = IF reviewed THEN th[t].outcome ELSE "failed"
              /\ verdict' = IF reviewed THEN th[t].verdict ELSE "unverified"
              /\ Moves(t, "clean")
           \/ ~mine /\ Rests(t) /\ UNCHANGED <<state, verdict>>
        /\ UNCHANGED <<reviewRest, verifierVars, rowRest>>

RemoveArtifacts(t) ==
    /\ th[t].pc = "clean"
    /\ files' = NoFiles /\ Rests(t)
    /\ UNCHANGED <<reviewVars, groupVars, call, state, verdict, rowRest>>

-----------------------------------------------------------------------------
(* Crash, restart, time and the writers.                                   *)

Crash ==
    /\ up /\ Spend("crash")
    /\ up' = FALSE
    /\ th' = [t \in Threads |-> Resting] /\ obs' = [t \in Threads |-> Idle]
    /\ call' = NotCalled
    /\ UNCHANGED <<reviewRest, groupVars, files, state, verdict, lease, agent, late>>

\* The daemon comes back: an unconfirmed start is interrupted, a running
\* command is monitored again.
Restart ==
    /\ ~up /\ up' = TRUE
    /\ Finish("starting", "interrupted", "unverified")
    /\ th' = IF state = "running" THEN [th EXCEPT !["monitor"].pc = "await"] ELSE th
    /\ UNCHANGED <<reviewVars, verifierVars, lease, agent, budget, late>>

Starting == call.pc \in {"prepare", "output", "start"}
Tick ==
    /\ state = "verifying" /\ lease > 0 /\ ClockMayTick
    /\ Starting => lease > Lease - StartDelay
    /\ lease' = lease - 1
    /\ age' = IF "supervisor" \in group THEN age + 1 ELSE age
    /\ UNCHANGED <<reviewVars, group, forked, signalled, code, status, orphaned, files, call,
                   state, verdict, agent, th, up, budget, late>>

Anything == Contents \cup {Absent}

\* External: the agent, and what it leaves behind, write where they like.
AgentWrites ==
    /\ agent = "running" /\ Spend("agent")
    /\ \E n \in Names, d \in Anything : WriteTree(n, d)
    /\ UNCHANGED <<verifierVars, runVars, late>>
LeftoverWrites ==
    /\ agent = "settled" /\ Spend("left") /\ late' = TRUE
    /\ \E n \in Names, d \in Anything : WriteTree(n, d)
    /\ UNCHANGED <<verifierVars, runVars>>
\* External: so do the members of the verifier's group.
GroupWrites ==
    /\ {"verifier", "descendant"} \cap group # {} /\ Spend("verifier")
    /\ \E n \in Names, d \in Anything : WriteTree(n, d)
    /\ UNCHANGED <<verifierVars, runVars, late>>
\* External: whoever produces the inputs rewrites them.
SourceChanges ==
    /\ state = "starting" /\ Spend("source")
    /\ \E i \in Inputs, d \in Anything : WriteSource(i, d)
    /\ UNCHANGED <<verifierVars, runVars, late>>

Observe(t) == ReviewStep(t, Open) /\ UNCHANGED <<verifierVars, runVars, budget, late>>
Group == GroupStep /\ UNCHANGED <<reviewVars, runVars, budget, late>>
Call == CallStep /\ UNCHANGED <<reviewVars, runVars, budget, late>>

Next ==
    \/ Stage \/ StartAgent \/ AgentSettles \/ MonitorSettles \/ ReadReceipt
    \/ \E t \in Threads : \/ ReconcileRun(t) \/ EndReview(t) \/ ClaimOrFinish(t)
                          \/ VerifierReturned(t) \/ VerifierRefused(t) \/ Conclude(t) \/ RemoveArtifacts(t)
                          \/ Observe(t)
    \/ Group \/ Call
    \/ Crash \/ Restart \/ Tick
    \/ AgentWrites \/ LeftoverWrites \/ GroupWrites \/ SourceChanges

Spec == Init /\ [][Next]_vars

-----------------------------------------------------------------------------
(* Properties.                                                             *)

ReviewPcs == {"idle", "open", "copy", "prove", "proving", "diff", "others", "ignored",
              "observe", "reading", "ok", "failed"}
CallPcs == {"none", "refused", "prepare", "output", "start", "wait", "kill", "signal",
            "reap", "gone", "publish", "rename", "returned"}
ThreadPcs == {"idle", "stage", "staged", "await", "review", "settled", "verifier",
              "finish", "takeover", "clean"}

\* Every variable keeps the values its column, file or process can have, and a
\* thread observes only while the code it runs is staging or reviewing.
TypeOK ==
    /\ job \in {s.job : s \in Scenarios} /\ source \in [Inputs -> Files] /\ tree \in [Names -> Files]
    /\ inputReceipt = None \/ DOMAIN inputReceipt = job.inputs
    /\ changeReceipt = None \/ DOMAIN changeReceipt \subseteq Names
    /\ \A t \in Threads :
         /\ obs[t].pc \in ReviewPcs /\ obs[t].todo \subseteq Names
         /\ th[t].pc \in ThreadPcs
         /\ obs[t].pc # "idle" => th[t].pc \in {"staged", "review", "finish", "takeover"}
    /\ group \subseteq {"supervisor", "verifier", "descendant", "reaper"}
    /\ code \in Codes \cup {Unset} /\ status \in Codes \cup {Unset}
    /\ call.pc \in CallPcs /\ files.marker \in Codes \cup {Unset, "partial"}
    /\ state \in Terminal \cup {"starting", "running", "settled", "verifying"}
    /\ verdict \in {"unverified", "passed", "failed"}
    /\ lease \in 0..Lease /\ age \in 0..Lease

\* Staging: an agent that was started has its declared inputs in a durable
\* receipt, and each is a content its source really had at one instant, never
\* the mixture a writer leaves in a copy that it races with.
InputsNeverTorn ==
    (agent # "waiting" /\ job.inputs # {}) =>
        /\ inputReceipt # None
        /\ \A i \in job.inputs : inputReceipt[i] \in source[i].past \ {Absent}

\* What git says of a path does not depend on which content of the ignore file
\* it has found.
Steady(n) ==
    n \in Tracked \/ \A c, d \in tree[IgnoreFile].past : n \in Ignores[c] <=> n \in Ignores[d]

\* Two passes: a change receipt describes the whole worktree as it was at one
\* instant between them, whatever the agent's remaining processes wrote
\* meanwhile, as long as no writer put a path back to a content it had before.
\* The one exception is an untracked file that a rewrite of the ignore file has
\* hidden from both listings of it.
ReceiptIsASnapshot ==
    [][(changeReceipt' # changeReceipt /\ ~restored) =>
         \E t \in Threads :
           LET then == obs[t].between
           IN  /\ then # None
               /\ \A n \in DOMAIN changeReceipt' : n \in DOMAIN then /\ changeReceipt'[n] = then[n]
               /\ \A n \in DOMAIN then \ DOMAIN changeReceipt' : ~Steady(n)]_vars

\* A run that succeeds, verified or not, on the first attempt or after a crash,
\* has left its worktree as its receipts say: every change is in scope and in
\* the receipt with its content, the staged inputs are what was staged, and
\* nothing else lies in the reserved directory.  What the verifier did is
\* included; what a process the agent left behind does later cannot be.
SuccessMatchesWorktree ==
    (state = "succeeded" /\ ~late) =>
        /\ job.scoped => /\ changeReceipt = Changes(tree, Excluded)
                         /\ DOMAIN changeReceipt \subseteq Scope
        /\ job.inputs # {} =>
             /\ \A i \in job.inputs : tree[i].data = inputReceipt[i]
             /\ \A n \in Reserved : tree[n].data = Absent

\* "no process the verifier started can still be writing into the worktree
\* while the post-verifier boundary is observed": when a result is published,
\* and when its owner accepts a pass, the group has no member left.
PublishedMeansGone ==
    /\ files.marker # Unset => group = {}
    /\ \A t \in Threads : (th[t].pc = "finish" /\ th[t].outcome = "succeeded") => group = {}

\* The result file: once a reader can find it, it holds the verifier's status,
\* and it stays until the run has its outcome, through every crash.
MarkerIsFinal ==
    [][files.marker # Unset =>
         /\ files.marker = status
         /\ files'.marker = files.marker \/ ~Open]_vars

\* The lease outlives the alarm: from the instant a pass may take a verifier
\* over, its scheduler dead or merely slow, no process of the group is left -
\* unless the supervisor could not fork its reaper.
GoneBeforeTakeover ==
    (state = "verifying" /\ Expired) => (group = {} \/ orphaned)
=============================================================================
