----------------------------- MODULE Admission ------------------------------
(***************************************************************************)
(* How accepted runs are admitted to execution: Engine.dispatch, in the    *)
(* daemon and in every attended `run', lists the queue, looks at the job,  *)
(* probes the disk and only then lets Store.DecideAdmission decide in one  *)
(* serialized transaction.  The list, the job and the probe may be out of  *)
(* date by then.  A run writes to its worktree while it is active, up to   *)
(* its disk reserve, and its worktree stays when it has ended.             *)
(***************************************************************************)
EXTENDS Integers, FiniteSets, FiniteSetsExt

CONSTANTS
    Runs,           \* run identities, ordered by acceptance
    Definition,     \* the snapshot of every run
    Legacy,         \* runs admitted by a version that kept no disk claim
    Attended,       \* processes of the `run' command
    Daemons,        \* processes that drain the queue
    Crashing,       \* processes that may stop at any point
    Stoppable,      \* jobs that are paused or disabled at times
    MaxConcurrent,  \* capacity.max_concurrent_runs
    MinFree,        \* capacity.min_free_disk_gib
    Size,           \* free space of every device before any run
    None

Jobs == {Definition[i].job : i \in Runs}
Devices == DOMAIN Size
Processes == Attended \cup Daemons

Reserve == [i \in Runs |-> Definition[i].reserve]

\* The sum of f over S.  f counts GiB, and the sum is the number of them all.
SumOf(f, S) == Cardinality(UNION {{i} \X (1 .. f[i]) : i \in S})

\* A legacy run was admitted under the same limits.
ASSUME AdmissionAssumption ==
    /\ Runs \subseteq Nat /\ IsFiniteSet(Runs) /\ Legacy \subseteq Runs
    /\ \A i \in Runs :
          /\ Definition[i].overlap \in {"forbid", "queue_one", "allow"}
          /\ Definition[i].trigger \in {"queue", "manual", "canary"}
          /\ Definition[i].reserve \in Nat \ {0} /\ Definition[i].device \in Devices
    /\ Crashing \subseteq Processes /\ Stoppable \subseteq Jobs
    /\ MaxConcurrent \in Nat \ {0} /\ MinFree \in Nat
    /\ Cardinality(Legacy) <= MaxConcurrent
    /\ \A d \in Devices : Size[d] \in Nat /\ MinFree + SumOf(Reserve, Legacy) <= Size[d]
    /\ None \notin Devices

VARIABLES
    row,        \* state, device, reserve and owner of every run
    used,       \* what every run's worktree takes
    held,       \* jobs that are paused or disabled
    global,     \* the global pause
    disp,       \* the dispatch call of every process
    late        \* history: runs that ended between some probe and its decision

vars == <<row, used, held, global, disp, late>>

Idle == [pc |-> "idle", todo |-> {}, free |-> 0, probed |-> FALSE]
In(state) == {i \in Runs : row[i].state = state}
Canary(i) == Definition[i].trigger = "canary"

\* External: statfs of the repository's filesystem.
Free(d) == Size[d] - SumOf(used, {i \in Runs : Definition[i].device = d})

-----------------------------------------------------------------------------
(* The decision.                                                           *)

ClaimedReserve == [i \in Runs |-> row[i].reserve]
\* Mutant: reserves of rows without a disk claim are not charged.
ReservedOfClaims(active, d) == SumOf(ClaimedReserve, {i \in active : row[i].device = d})
\* Claimed reserves count on their device, legacy ones on every device.
Reserved(active, d) ==
      SumOf(ClaimedReserve, {i \in active : row[i].device = d})
    + SumOf(Reserve, {i \in active : row[i].device = None})

\* Mutant: the cap is compared with one run too few.
AdmissionDecisionOffByOne(i, free, active) ==
    IF Cardinality(active) > MaxConcurrent THEN "capacity_hold"
    ELSE IF MinFree + Reserved(active, Definition[i].device) + Definition[i].reserve > free THEN "disk_hold"
    ELSE "admit"
\* Mutant: queue_one is left to the acceptance of occurrences.
AdmissionDecisionAnyOverlap(i, free, active) ==
    IF Cardinality(active) >= MaxConcurrent THEN "capacity_hold"
    ELSE IF MinFree + Reserved(active, Definition[i].device) + Definition[i].reserve > free THEN "disk_hold"
    ELSE "admit"
AdmissionDecision(i, free, active) ==
    IF Cardinality(active) >= MaxConcurrent THEN "capacity_hold"
    ELSE IF /\ Definition[i].overlap = "queue_one"
            /\ \E k \in active : Definition[k].job = Definition[i].job THEN "overlap_hold"
    ELSE IF MinFree + Reserved(active, Definition[i].device) + Definition[i].reserve > free THEN "disk_hold"
    ELSE "admit"

\* Current authority holds the candidate's job.
Stopped(i) == Definition[i].job \in held \/ global
\* A canary shares the job with no unfinished run unless it allows overlap.
Conflicting(i) ==
    /\ Canary(i) /\ Definition[i].overlap # "allow"
    /\ \E k \in (In("accepted") \cup In("active")) \ {i} : Definition[k].job = Definition[i].job

Claimed(i, p) ==
    [state |-> "active", device |-> Definition[i].device, reserve |-> Definition[i].reserve, owner |-> p]

\* Mutant: pause and enablement were checked when the queue was listed.
DecideFromList(i, p, free, probed) ==
    IF row[i].state # "accepted" THEN row[i]
    ELSE IF ~probed \/ Conflicting(i) THEN [row[i] EXCEPT !.state = "done"]
    ELSE IF AdmissionDecision(i, free, In("active")) = "admit" THEN Claimed(i, p)
    ELSE IF Canary(i) THEN [row[i] EXCEPT !.state = "done"] ELSE row[i]
\* Mutant: the state was checked when the queue was listed.
DecideAnyState(i, p, free, probed) ==
    IF Stopped(i) THEN row[i]
    ELSE IF ~probed THEN [row[i] EXCEPT !.state = "done"]
    ELSE IF AdmissionDecision(i, free, In("active") \ {i}) = "admit" THEN Claimed(i, p) ELSE row[i]
\* A hold leaves a queued run where it is and ends an attended canary; a
\* failed probe ends any run.
Decide(i, p, free, probed) ==
    IF row[i].state # "accepted" THEN row[i]
    ELSE IF Stopped(i) \/ Conflicting(i)
    THEN IF Canary(i) THEN [row[i] EXCEPT !.state = "done"] ELSE row[i]
    ELSE IF ~probed THEN [row[i] EXCEPT !.state = "done"]
    ELSE IF AdmissionDecision(i, free, In("active")) = "admit" THEN Claimed(i, p)
    ELSE IF Canary(i) THEN [row[i] EXCEPT !.state = "done"]
    ELSE row[i]

-----------------------------------------------------------------------------
(* Engine.dispatch.                                                        *)

Become(p, new) == disp' = [disp EXCEPT ![p] = new]
Listed(todo) == [pc |-> "check", todo |-> todo, free |-> 0, probed |-> FALSE]
\* The list is in the order of acceptance.
Candidate(p) == Min(disp[p].todo)
\* The loop goes on with the next run of the list.
Rest(p) == LET rest == disp[p].todo \ {Candidate(p)} IN IF rest = {} THEN Idle ELSE Listed(rest)

\* Accepted canaries are never daemon-claimable.
Queue == {i \in In("accepted") : ~Canary(i)}

ListQueue(p) ==
    /\ p \in Daemons /\ disp[p].pc = "idle" /\ ~global /\ Queue # {}
    /\ Become(p, Listed(Queue))
    /\ UNCHANGED <<row, used, held, global, late>>

\* The command's own run, just created by it.
CreateAttended(p) ==
    /\ p \in Attended /\ disp[p].pc = "idle"
    /\ \E i \in In("absent") :
          /\ Definition[i].trigger # "queue"
          /\ row' = [row EXCEPT ![i].state = "accepted"]
          /\ Become(p, Listed({i}))
    /\ UNCHANGED <<used, held, global, late>>

\* Mutant: a held run ends the loop.
SkipAll(p) == Idle
Skip(p) == Rest(p)
CheckJob(p) ==
    /\ disp[p].pc = "check"
    /\ ~Canary(Candidate(p)) /\ Definition[Candidate(p)].job \in held
    /\ Become(p, Skip(p))
    /\ UNCHANGED <<row, used, held, global, late>>

\* The candidate's filesystem is probed before the decision; it may fail.
ProbeDiskCapacity(p) ==
    LET i == Candidate(p) IN
    /\ disp[p].pc = "check" /\ (Canary(i) \/ Definition[i].job \notin held)
    /\ \E ok \in BOOLEAN :
          Become(p, [disp[p] EXCEPT !.pc = "decide", !.probed = ok,
                                    !.free = IF ok THEN Free(Definition[i].device) ELSE 0])
    /\ UNCHANGED <<row, used, held, global, late>>

DecideAdmission(p) ==
    LET i == Candidate(p) IN
    /\ disp[p].pc = "decide"
    /\ row' = [row EXCEPT ![i] = Decide(i, p, disp[p].free, disp[p].probed)]
    /\ Become(p, Rest(p))
    /\ UNCHANGED <<used, held, global, late>>

Dispatch(p) == CheckJob(p) \/ ProbeDiskCapacity(p) \/ DecideAdmission(p)

-----------------------------------------------------------------------------
(* Everything around it.                                                   *)

\* An occurrence is accepted.
Accept ==
    /\ \E i \in In("absent") :
          Definition[i].trigger = "queue" /\ row' = [row EXCEPT ![i].state = "accepted"]
    /\ UNCHANGED <<used, held, global, disp, late>>

Write ==
    /\ \E i \in In("active") : used[i] < Definition[i].reserve /\ used' = [used EXCEPT ![i] = @ + 1]
    /\ UNCHANGED <<row, held, global, disp, late>>

\* The run reaches a terminal state; its worktree stays.
Finish(i) ==
    /\ row[i].state = "active"
    /\ row' = [row EXCEPT ![i].state = "done"]
    /\ late' = late \cup {k \in {i} : \E p \in Processes : disp[p].pc = "decide"}
    /\ UNCHANGED <<used, held, global, disp>>

CancelAccepted ==
    /\ \E i \in In("accepted") : row' = [row EXCEPT ![i].state = "done"]
    /\ UNCHANGED <<used, held, global, disp, late>>

\* The operator removes worktrees of ended runs.
RemoveWorktrees ==
    /\ \E i \in In("done") : used[i] > 0
    /\ used' = [i \in Runs |-> IF row[i].state = "done" THEN 0 ELSE used[i]]
    /\ UNCHANGED <<row, held, global, disp, late>>

\* pause, resume, pause --all, and a synchronized edit of `enabled'.
Pause ==
    /\ \/ (\E j \in Stoppable : held' \in {held \cup {j}, held \ {j}}) /\ global' = global
       \/ global' \in BOOLEAN /\ held' = held
    /\ UNCHANGED <<row, used, disp, late>>

\* A process stops; the daemon is started again.
Crash(p) ==
    /\ p \in Crashing /\ disp[p].pc # "idle" /\ Become(p, Idle)
    /\ UNCHANGED <<row, used, held, global, late>>

Absent(i) ==
    IF i \in Legacy THEN [state |-> "active", device |-> None, reserve |-> 0, owner |-> None]
    ELSE [state |-> "absent", device |-> None, reserve |-> 0, owner |-> None]

Init ==
    /\ row = [i \in Runs |-> Absent(i)] /\ used = [i \in Runs |-> 0]
    /\ held = {} /\ global = FALSE /\ disp = [p \in Processes |-> Idle] /\ late = {}

Next ==
    \/ \E p \in Processes : ListQueue(p) \/ CreateAttended(p) \/ Dispatch(p) \/ Crash(p)
    \/ \E i \in Runs : Finish(i)
    \/ Accept \/ Write \/ CancelAccepted \/ RemoveWorktrees \/ Pause

Spec == Init /\ [][Next]_vars

\* The daemon goes on dispatching, runs end, and the operator makes room.
Fairness ==
    /\ \A p \in Daemons : WF_vars(ListQueue(p)) /\ WF_vars(Dispatch(p))
    /\ \A i \in Runs : WF_vars(Finish(i))
    /\ WF_vars(RemoveWorktrees)
FairSpec == Spec /\ Fairness

-----------------------------------------------------------------------------
(* Properties.                                                             *)

\* Types; exactly the claimed rows carry a device and a reserve.
TypeOK ==
    /\ row \in [Runs -> [state : {"absent", "accepted", "active", "done"}, device : Devices \cup {None},
                         reserve : Nat, owner : Processes \cup {None}]]
    /\ used \in [Runs -> Nat]
    /\ \A i \in Runs :
          /\ used[i] <= Definition[i].reserve
          /\ row[i].device = None <=> row[i].reserve = 0
    /\ held \subseteq Jobs /\ global \in BOOLEAN /\ late \subseteq Runs
    /\ disp \in [Processes -> [pc : {"idle", "check", "decide"}, todo : SUBSET Runs, free : Int, probed : BOOLEAN]]
    /\ \A p \in Processes : disp[p].pc = "idle" <=> disp[p].todo = {}

\* max_concurrent_runs holds across processes that listed the queue and
\* probed the disk at the same time.
ActiveWithinCap == Cardinality(In("active")) <= MaxConcurrent

\* A queue_one job never has a second executing run, whichever process and
\* trigger admits it.
QueueOneExecutesAlone ==
    \A i, k \in In("active") : i < k /\ Definition[i].job = Definition[k].job =>
        "queue_one" \notin {Definition[i].overlap, Definition[k].overlap}

\* The room an active run may still fill is there: what is free on a device
\* covers min_free_disk_gib and the rest of every reserve, except for what
\* runs wrote that ended while a probe was waiting for its decision.
Promised(d) ==
    LET there == {i \in In("active") : Definition[i].device = d}
    IN SumOf(Reserve, there) - SumOf(used, there)
HeadroomKeptUpToLateRuns ==
    \A d \in Devices : MinFree + Promised(d)
        <= Free(d) + SumOf(used, {i \in late : Definition[i].device = d})

\* "Dispatch holds accepted runs when the concurrency cap or reserved disk
\* headroom is exhausted" (README), without exception.
HeadroomKept == \A d \in Devices : MinFree + Promised(d) <= Free(d)

\* "accepted runs dispatch once" (README): an admitted run keeps its executor
\* and an ended one is not admitted again, although the lists of several
\* processes may still name it.
DispatchedOnce ==
    [][\A i \in Runs :
          /\ row[i].state = "active" => row'[i].owner = row[i].owner /\ row'[i].state # "accepted"
          /\ row[i].state = "done" => row'[i] = row[i]]_vars

\* A run is admitted only while its job is enabled and nothing is paused, at
\* the moment of admission and not when the queue was listed.
AdmittedUnderAuthority ==
    [][\A i \in Runs : row[i].state # "active" /\ row'[i].state = "active" => ~Stopped(i)]_vars

\* A queued run does not wait for ever, whatever stays held in front of it:
\* there is no time from which it is queued and its job is never stopped.
QueueDrains ==
    \A i \in Runs : ~Canary(i) => []<>(Stopped(i) \/ row[i].state # "accepted")
=============================================================================
