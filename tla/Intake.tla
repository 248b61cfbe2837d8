------------------------------- MODULE Intake -------------------------------
(***************************************************************************)
(* How one job's occurrences become accepted runs: the daemon's Evaluate   *)
(* loop, `enqueue', `run', `pause' and `resume', all working on the same   *)
(* database while the operator edits the configuration file.  Each store   *)
(* method is one SQLite transaction and one action; Evaluate, Enqueue and  *)
(* RunNow are sequences of them, and what they read before (the file, the  *)
(* clock, the job row) may be out of date when a later one commits.  What  *)
(* happens to a run after it was accepted is abstracted to three phases.   *)
(***************************************************************************)
EXTENDS Integers, Sequences, FiniteSets, FiniteSetsExt

CONSTANTS
    Scenarios,      \* what the file may define, what the operator may run, the
                    \* bounds (see below)
    Daemons,        \* processes that evaluate schedules
    EventIds,       \* identities `enqueue' is called with
    Wall,           \* local wall-clock minute of every moment
    DayLength,      \* moments in a local day
    Grace,          \* how late an occurrence may still start
    MaxDue,         \* schedule.Between refuses this many due occurrences
    MaxTime,        \* bound: the last moment
    None

Moments == 1 .. MaxTime
Kinds == {"cron", "once", "event"}
Overlaps == {"forbid", "queue_one", "allow"}
\* The job as the configuration file may define it.
Definitions == UNION {Scenarios[i].definitions : i \in DOMAIN Scenarios}

\* A saved definition stands for its own hash: two of them are equal when
\* their snapshots are.  `gate' is run_if_changed, `unread' is
\* attention.max_unread_terminal_runs with 0 for no guard.
ASSUME IntakeAssumption ==
    /\ Definitions \subseteq [rev : Nat \ {0}, enabled : BOOLEAN, kind : Kinds, due : SUBSET Moments,
                              overlap : Overlaps, daily : Nat \ {0}, unread : Nat, gate : BOOLEAN]
    /\ \A d \in Definitions :
          /\ d.kind = "event" => d.due = {} /\ ~d.gate
          /\ d.kind = "once" => Cardinality(d.due) = 1
    /\ DayLength \in Nat \ {0} /\ Grace \in Nat /\ MaxDue \in Nat \ {0}
    /\ MaxTime \in Nat /\ DOMAIN Wall = Moments
    /\ \A i \in DOMAIN Scenarios : LET s == Scenarios[i] IN
          /\ s.commands \subseteq {"run", "enqueue", "pause", "global", "edit"}
          /\ s.crashes \in BOOLEAN    \* may processes stop at any point?
          /\ s.attended \in Nat       \* bound: manual and canary runs
          /\ s.last \in 0 .. MaxTime  \* bound: the last moment

\* occurrence_key: the schedule kind and the wall-clock minute, or the event.
Keys == ({"cron", "once"} \X {Wall[m] : m \in Moments}) \cup ({"event"} \X EventIds)
KeyOf(def, m) == <<def.kind, Wall[m]>>

Triggers == {"scheduled", "event", "manual", "canary"}
Decisions == {"accepted", "missed", "skipped_unchanged", "skipped_limit", "skipped_overlap"}

Phases == {"queued", "active", "done"}
Reasons == {"none", "manual", "unread_terminal_runs"}
JobRows == [def : Definitions, paused : BOOLEAN, reason : Reasons, completed : BOOLEAN, cursor : 0 .. MaxTime]

\* Nothing a column may hold is its absence.
ASSUME NoneAssumption == None \notin Decisions /\ None \notin Keys /\ None \notin JobRows

VARIABLES
    clock,
    file,       \* the configuration file
    job,        \* the job's row, None before its first synchronization
    global,     \* the global pause
    occ,        \* the occurrences table: decision by key, None while unrecorded
    runs,       \* the job's runs in the order of acceptance
    ev,         \* the Evaluate loop of every daemon
    cli,        \* one operator command: enqueue or run
    scenario    \* the one of Scenarios that happens, never changed

db == <<job, global, occ, runs>>
Here == Scenarios[scenario]
vars == <<clock, file, job, global, occ, runs, ev, cli, scenario>>

Places == {"idle", "load", "sync", "readJob", "skipDisabled", "occurrence", "accept", "unchanged", "complete"}
Idle == [pc |-> "idle", def |-> None, now |-> 0, held |-> FALSE, todo |-> {}]

-----------------------------------------------------------------------------
(* The store's transactions, as conditions and results.                    *)

\* Mutant: an older definition is accepted.
CanSyncAny(def) == job # None => job.def.rev # def.rev \/ job.def = def
\* syncJobAuthorityTx: a revision only moves forward, and never changes its
\* snapshot.
CanSync(def) == job # None => job.def.rev < def.rev \/ job.def = def
Synced(def, now) ==
    IF job = None
    THEN [def |-> def, paused |-> FALSE, reason |-> "none", completed |-> FALSE, cursor |-> now]
    ELSE [job EXCEPT !.def = def, !.completed = @ /\ job.def = def]

\* Mutant: only the revision is looked at.
AuthorityByRevision(def, runnable) == job # None /\ job.def = def
\* requireJobAuthorityTx.
Authority(def, runnable) ==
    /\ job # None /\ job.def = def
    /\ runnable => def.enabled /\ ~job.paused /\ ~global

Phase(p) == {i \in DOMAIN runs : runs[i].phase = p}
Unread == {i \in Phase("done") : runs[i].unread}
GuardTripped(def) == def.unread > 0 /\ Cardinality(Unread) >= def.unread
GuardPaused(j) == [j EXCEPT !.paused = TRUE, !.reason = "unread_terminal_runs"]

Day(t) == t \div DayLength
OfDay(d) == {i \in DOMAIN runs : Day(runs[i].at) = d}

NewRun(def, key, trigger, now) ==
    [def |-> def, key |-> key, trigger |-> trigger, at |-> now, phase |-> "queued", unread |-> TRUE]

\* Mutant: the queue is not counted as an overlap.
DecisionOfExecuting(def, now) ==
    IF Cardinality(OfDay(Day(now))) >= def.daily THEN "skipped_limit"
    ELSE IF def.overlap = "forbid" /\ Phase("active") # {} THEN "skipped_overlap"
    ELSE "accepted"
\* Mutant: one run too many a day.
DecisionOffByOne(def, now) ==
    IF Cardinality(OfDay(Day(now))) > def.daily THEN "skipped_limit"
    ELSE IF def.overlap = "forbid" /\ Phase("queued") \cup Phase("active") # {} THEN "skipped_overlap"
    ELSE "accepted"
Decision(def, now) ==
    IF Cardinality(OfDay(Day(now))) >= def.daily THEN "skipped_limit"
    ELSE IF \/ def.overlap = "forbid" /\ Phase("queued") \cup Phase("active") # {}
            \/ def.overlap = "queue_one" /\ Phase("queued") # {}
         THEN "skipped_overlap"
    ELSE "accepted"

\* Mutant: the recorded occurrence is not looked up.
AcceptAgain(j, def, key, trigger, now) ==
    /\ job' = j /\ occ' = [occ EXCEPT ![key] = Decision(def, now)]
    /\ runs' = IF Decision(def, now) = "accepted"
               THEN Append(runs, NewRun(def, key, trigger, now)) ELSE runs
\* acceptOccurrenceTx on the job row j: a recorded occurrence is returned, the
\* unread guard pauses the job and records nothing, or the occurrence is
\* recorded with its decision and, if accepted, its run.
Accept(j, def, key, trigger, now) ==
    \/ occ[key] # None /\ job' = j /\ UNCHANGED <<occ, runs>>
    \/ /\ occ[key] = None /\ GuardTripped(def)
       /\ job' = GuardPaused(j) /\ UNCHANGED <<occ, runs>>
    \/ /\ occ[key] = None /\ ~GuardTripped(def)
       /\ job' = j /\ occ' = [occ EXCEPT ![key] = Decision(def, now)]
       /\ runs' = IF Decision(def, now) = "accepted"
                  THEN Append(runs, NewRun(def, key, trigger, now)) ELSE runs

\* INSERT OR IGNORE.
Record(key, decision) == occ' = [occ EXCEPT ![key] = IF @ = None THEN decision ELSE @]

-----------------------------------------------------------------------------
(* Engine.Evaluate.                                                        *)

Become(d, new) == ev' = [ev EXCEPT ![d] = new]
Goto(d, pc) == Become(d, [ev[d] EXCEPT !.pc = pc])
Abort(d) == Become(d, Idle)     \* an error ends the pass
UntouchedBy == UNCHANGED <<clock, file, cli, scenario>>

\* The ticker's time is older than everything the pass reads.
Ticker(d) ==
    /\ ev[d].pc = "idle"
    /\ Become(d, [Idle EXCEPT !.pc = "load", !.now = clock])
    /\ UntouchedBy /\ UNCHANGED db

LoadConfig(d) ==
    /\ ev[d].pc = "load"
    /\ Become(d, [ev[d] EXCEPT !.pc = "sync", !.def = file, !.held = global])
    /\ UntouchedBy /\ UNCHANGED db

SyncJobAuthority(d) ==
    /\ ev[d].pc = "sync"
    /\ \/ CanSync(ev[d].def) /\ job' = Synced(ev[d].def, ev[d].now) /\ Goto(d, "readJob")
       \/ ~CanSync(ev[d].def) /\ Abort(d) /\ UNCHANGED job
    /\ UntouchedBy /\ UNCHANGED <<global, occ, runs>>

\* schedule.Between: the moments after the cursor, a repeated wall-clock
\* minute once.
DueMoments(def, after, now) ==
    LET due == {m \in def.due : after < m /\ m <= now}
    IN {m \in due : ~\E e \in due : e < m /\ Wall[e] = Wall[m]}
TooMany(def, after, now) ==
    def.kind = "cron" /\ Cardinality(DueMoments(def, after, now)) >= MaxDue

\* The row is read after the synchronization committed.
ReadJob(d) ==
    /\ ev[d].pc = "readJob"
    /\ LET def == ev[d].def
           due == DueMoments(def, job.cursor, ev[d].now)
       IN IF ~def.enabled THEN Goto(d, "skipDisabled")
          ELSE IF job.completed \/ job.paused \/ ev[d].held \/ TooMany(def, job.cursor, ev[d].now)
          THEN Abort(d)
          ELSE Become(d, [ev[d] EXCEPT !.pc = "occurrence", !.todo = due])
    /\ UntouchedBy /\ UNCHANGED db

\* The due moments are taken in their order.
Current(d) == Min(ev[d].todo)
Rest(d) == [ev[d] EXCEPT !.todo = @ \ {Current(d)}, !.pc = "occurrence"]
\* A once job is completed as soon as its occurrence is decided.
Decided(d) == Become(d, IF ev[d].def.kind = "once" THEN [ev[d] EXCEPT !.pc = "complete"] ELSE Rest(d))
Missed(d) == ev[d].now - Current(d) > Grace

RecordOccurrenceIfAuthority(d, decision) ==
    \/ /\ Authority(ev[d].def, TRUE)
       /\ Record(KeyOf(ev[d].def, Current(d)), decision) /\ Decided(d)
    \/ ~Authority(ev[d].def, TRUE) /\ Abort(d) /\ UNCHANGED occ

RecordMissed(d) ==
    /\ ev[d].pc = "occurrence" /\ ev[d].todo # {} /\ Missed(d)
    /\ RecordOccurrenceIfAuthority(d, "missed")
    /\ UntouchedBy /\ UNCHANGED <<job, global, runs>>

\* run_if_changed asks Git outside the transaction; the answer may be an error.
SourceGate(d) ==
    /\ ev[d].pc = "occurrence" /\ ev[d].todo # {} /\ ~Missed(d) /\ ev[d].def.gate
    /\ \E pc \in {"accept", "unchanged", "idle"} :
          IF pc = "idle" THEN Abort(d) ELSE Goto(d, pc)
    /\ UntouchedBy /\ UNCHANGED db

RecordUnchanged(d) ==
    /\ ev[d].pc = "unchanged"
    /\ RecordOccurrenceIfAuthority(d, "skipped_unchanged")
    /\ UntouchedBy /\ UNCHANGED <<job, global, runs>>

CanAccept(d) ==
    \/ ev[d].pc = "accept"
    \/ ev[d].pc = "occurrence" /\ ev[d].todo # {} /\ ~Missed(d) /\ ~ev[d].def.gate

\* Mutant: a tripped guard does not end the job's loop.
AfterGuardGoOn(d) == Rest(d)
\* The guard paused the job: neither later occurrences nor the cursor.
AfterGuard(d) == Idle

\* Mutant: a recorded occurrence is taken for a conflict.
AcceptOnce(d) ==
    LET key == KeyOf(ev[d].def, Current(d)) IN
    /\ CanAccept(d)
    /\ \/ /\ Authority(ev[d].def, TRUE) /\ occ[key] = None
          /\ Accept(job, ev[d].def, key, "scheduled", ev[d].now)
          /\ IF GuardTripped(ev[d].def) THEN Become(d, AfterGuard(d)) ELSE Decided(d)
       \/ /\ ~(Authority(ev[d].def, TRUE) /\ occ[key] = None)
          /\ Abort(d) /\ UNCHANGED <<job, occ, runs>>
    /\ UntouchedBy /\ UNCHANGED global

AcceptScheduledOccurrence(d) ==
    LET key == KeyOf(ev[d].def, Current(d)) IN
    /\ CanAccept(d)
    /\ \/ /\ Authority(ev[d].def, TRUE)
          /\ Accept(job, ev[d].def, key, "scheduled", ev[d].now)
          /\ IF occ[key] = None /\ GuardTripped(ev[d].def)
             THEN Become(d, AfterGuard(d)) ELSE Decided(d)
       \/ ~Authority(ev[d].def, TRUE) /\ Abort(d) /\ UNCHANGED <<job, occ, runs>>
    /\ UntouchedBy /\ UNCHANGED global

SetCompletedIfAuthority(d) ==
    /\ ev[d].pc = "complete"
    /\ \/ /\ Authority(ev[d].def, TRUE)
          /\ job' = [job EXCEPT !.completed = TRUE] /\ Become(d, Rest(d))
       \/ ~Authority(ev[d].def, TRUE) /\ Abort(d) /\ UNCHANGED job
    /\ UntouchedBy /\ UNCHANGED <<global, occ, runs>>

\* Disabled time is discarded without asking whether the job is runnable.
SetCursorIfAuthority(d) ==
    /\ \/ ev[d].pc = "skipDisabled"
       \/ ev[d].pc = "occurrence" /\ ev[d].todo = {}
    /\ LET can == Authority(ev[d].def, ev[d].pc # "skipDisabled")
       IN job' = IF can /\ ev[d].now > job.cursor THEN [job EXCEPT !.cursor = ev[d].now] ELSE job
    /\ Abort(d)
    /\ UntouchedBy /\ UNCHANGED <<global, occ, runs>>

Evaluate(d) ==
    \/ LoadConfig(d) \/ SyncJobAuthority(d) \/ ReadJob(d) \/ RecordMissed(d) \/ SourceGate(d)
    \/ RecordUnchanged(d) \/ AcceptScheduledOccurrence(d) \/ SetCompletedIfAuthority(d)
    \/ SetCursorIfAuthority(d)

-----------------------------------------------------------------------------
(* Engine.Enqueue and Engine.RunNow, one command at a time.                *)

CliIdle == [pc |-> "idle", def |-> None, now |-> 0, event |-> None]
Attended == {i \in DOMAIN runs : runs[i].trigger \in {"manual", "canary"}}
CliUntouched == UNCHANGED <<clock, file, ev, scenario>>

StartEnqueue ==
    /\ cli.pc = "idle" /\ "enqueue" \in Here.commands /\ file.kind = "event"
    /\ \E id \in EventIds :
          cli' = [CliIdle EXCEPT !.pc = "enqueue", !.def = file, !.now = clock, !.event = id]
    /\ CliUntouched /\ UNCHANGED db

\* One transaction: synchronize, refuse or accept.  A known event is answered
\* whatever the authority has become.
EnqueueEvent ==
    LET def == cli.def
        key == <<"event", cli.event>>
        j == Synced(def, cli.now)
        refused == ~def.enabled \/ j.paused \/ global
    IN /\ cli.pc = "enqueue"
       /\ \/ CanSync(def) /\ (occ[key] # None \/ refused) /\ job' = j /\ UNCHANGED <<occ, runs>>
          \/ CanSync(def) /\ occ[key] = None /\ ~refused /\ Accept(j, def, key, "event", cli.now)
          \/ ~CanSync(def) /\ UNCHANGED <<job, occ, runs>>
       /\ cli' = CliIdle
       /\ CliUntouched /\ UNCHANGED global

StartRun ==
    /\ cli.pc = "idle" /\ "run" \in Here.commands
    /\ Cardinality(Attended) < Here.attended
    /\ cli' = [CliIdle EXCEPT !.pc = "runSync", !.def = file, !.now = clock]
    /\ CliUntouched /\ UNCHANGED db

SyncForRun ==
    /\ cli.pc = "runSync"
    /\ \/ /\ CanSync(cli.def) /\ job' = Synced(cli.def, cli.now)
          /\ cli' = [cli EXCEPT !.pc = IF cli.def.kind = "event" THEN "canary" ELSE "manual"]
       \/ ~CanSync(cli.def) /\ cli' = CliIdle /\ UNCHANGED job
    /\ CliUntouched /\ UNCHANGED <<global, occ, runs>>

CreateManualRunIfAuthority ==
    LET can == Authority(cli.def, TRUE) IN
    /\ cli.pc = "manual"
    /\ \/ can /\ GuardTripped(cli.def) /\ job' = GuardPaused(job) /\ UNCHANGED runs
       \/ /\ can /\ ~GuardTripped(cli.def)
          /\ runs' = Append(runs, NewRun(cli.def, None, "manual", cli.now)) /\ UNCHANGED job
       \/ ~can /\ UNCHANGED <<job, runs>>
    /\ cli' = CliIdle
    /\ CliUntouched /\ UNCHANGED <<global, occ>>

\* An attended canary of an event job asks for no authority.
CreateCanaryRun ==
    /\ cli.pc = "canary"
    /\ runs' = Append(runs, NewRun(cli.def, None, "canary", cli.now))
    /\ cli' = CliIdle
    /\ CliUntouched /\ UNCHANGED <<job, global, occ>>

Command == EnqueueEvent \/ SyncForRun \/ CreateManualRunIfAuthority \/ CreateCanaryRun

-----------------------------------------------------------------------------
(* The operator's flags and file, the runs, the clock and crashes.         *)

PauseSet(paused) ==
    [job EXCEPT !.paused = paused, !.reason = IF paused THEN "manual" ELSE "none"]

SetPaused ==
    /\ "pause" \in Here.commands /\ job # None
    /\ \E paused \in BOOLEAN : job' = PauseSet(paused)
    /\ UNCHANGED <<clock, file, global, occ, runs, ev, cli, scenario>>

SetGlobalPaused ==
    /\ "global" \in Here.commands /\ global' \in BOOLEAN
    /\ UNCHANGED <<clock, file, job, occ, runs, ev, cli, scenario>>

EditConfig ==
    /\ "edit" \in Here.commands /\ file' \in Here.definitions
    /\ UNCHANGED <<clock, db, ev, cli, scenario>>

Moved(i, phase, unread) ==
    /\ runs' = [runs EXCEPT ![i].phase = phase, ![i].unread = unread]
    /\ UNCHANGED <<clock, file, job, global, occ, ev, cli, scenario>>

\* DecideAdmission, without the capacity it may wait for: a disabled or paused
\* job's run is held (a canary is refused: RunRetired), a queue_one run waits
\* for the job's executing run, and a canary shares an "allow" job only.
RunAdmitted ==
    \E i \in Phase("queued") :
        LET others == (Phase("queued") \cup Phase("active")) \ {i} IN
        /\ job.def.enabled /\ ~job.paused /\ ~global
        /\ runs[i].def.overlap = "queue_one" => Phase("active") = {}
        /\ runs[i].trigger = "canary" /\ runs[i].def.overlap # "allow" => others = {}
        /\ Moved(i, "active", TRUE)

\* Any end, already read in the auto lane only; a queued run ends when it is
\* cancelled or refused, and a late cleanup reports a finished run again.
RunRetired ==
    \/ \E i \in Phase("active"), unread \in BOOLEAN : Moved(i, "done", unread)
    \/ \E i \in Phase("queued") \cup Phase("done") : Moved(i, "done", TRUE)

MarkRead == \E i \in Unread : Moved(i, "done", FALSE)

Tick ==
    /\ clock < Here.last /\ clock' = clock + 1
    /\ UNCHANGED <<file, db, ev, cli, scenario>>

\* Bound: no crash in the last moment, so that crashes come to an end.
Crash ==
    /\ Here.crashes /\ clock < Here.last
    /\ \/ \E d \in Daemons : ev[d].pc # "idle" /\ Abort(d) /\ UNCHANGED cli
       \/ cli.pc # "idle" /\ cli' = CliIdle /\ UNCHANGED ev
    /\ UNCHANGED <<clock, file, db, scenario>>

-----------------------------------------------------------------------------

Init ==
    /\ scenario \in DOMAIN Scenarios
    /\ clock = 0 /\ file \in Here.definitions /\ job = None /\ global = FALSE
    /\ occ = [k \in Keys |-> None] /\ runs = <<>>
    /\ ev = [d \in Daemons |-> Idle] /\ cli = CliIdle

Next ==
    \/ \E d \in Daemons : Ticker(d) \/ Evaluate(d)
    \/ StartEnqueue \/ StartRun \/ Command
    \/ SetPaused \/ SetGlobalPaused \/ EditConfig
    \/ RunAdmitted \/ RunRetired \/ MarkRead \/ Tick \/ Crash

Spec == Init /\ [][Next]_vars

GateAnswered(d) == SourceGate(d) /\ ev'[d].pc # "idle"

\* The ticker of a daemon keeps evaluating, time passes, and Git does not fail
\* every time it is asked.
Fairness ==
    /\ \A d \in Daemons : WF_vars(Ticker(d) \/ Evaluate(d)) /\ SF_vars(GateAnswered(d))
    /\ WF_vars(Tick)
FairSpec == Spec /\ Fairness

-----------------------------------------------------------------------------
(* Properties.                                                             *)

\* Types; a pause always has its durable reason and a runnable job has none,
\* and what a daemon works on are due moments of the definition it loaded.
TypeOK ==
    /\ scenario \in DOMAIN Scenarios
    /\ clock \in 0 .. MaxTime /\ file \in Definitions /\ global \in BOOLEAN
    /\ job \in JobRows \cup {None}
    /\ job # None => (job.paused <=> job.reason # "none")
    /\ occ \in [Keys -> Decisions \cup {None}]
    /\ runs \in Seq([def : Definitions, key : Keys \cup {None}, trigger : Triggers, at : 0 .. MaxTime,
                     phase : Phases, unread : BOOLEAN])
    /\ ev \in [Daemons -> [pc : Places, def : Definitions \cup {None}, now : 0 .. MaxTime,
                           held : BOOLEAN, todo : SUBSET Moments]]
    /\ cli \in [pc : {"idle", "enqueue", "runSync", "manual", "canary"}, def : Definitions \cup {None},
                now : 0 .. MaxTime, event : EventIds \cup {None}]
    /\ \A d \in Daemons :
          /\ ev[d].pc \in {"idle", "load"} => ev[d].todo = {}
          /\ ev[d].pc \notin {"idle", "load"} => ev[d].def \in Definitions /\ ev[d].todo \subseteq ev[d].def.due
          /\ ev[d].pc \in {"accept", "unchanged", "complete"} => ev[d].todo # {}
    /\ cli.pc # "idle" => cli.def \in Definitions
    /\ cli.pc = "enqueue" => cli.event \in EventIds

\* "(job_id, occurrence_key) is unique, so repeated ticks or event deliveries
\* cannot duplicate a run" (README): every run the scheduler or an event
\* created is the one run of an accepted occurrence.
OneRunPerOccurrence ==
    \A i \in DOMAIN runs : runs[i].key # None =>
        /\ occ[runs[i].key] = "accepted"
        /\ \A k \in DOMAIN runs : runs[k].key = runs[i].key => k = i

\* Overlap: a run accepted by the schedule or an event under "forbid" joins no
\* unfinished run, and under "queue_one" no queued one.
OverlapHolds ==
    \A i, k \in DOMAIN runs : i < k /\ runs[k].trigger \in {"scheduled", "event"} =>
        /\ runs[k].def.overlap = "forbid" /\ runs[k].phase # "done" => runs[i].phase = "done"
        /\ runs[k].def.overlap = "queue_one" /\ runs[k].phase = "queued" => runs[i].phase # "queued"

\* max_runs_per_day: the schedule and events accept no more runs on a local
\* day than the definition they were accepted under allows.
DailyLimitHolds ==
    \A k \in DOMAIN runs : runs[k].trigger \in {"scheduled", "event"} =>
        Cardinality({i \in 1 .. k : Day(runs[i].at) = Day(runs[k].at)}) <= runs[k].def.daily

\* Saved authority moves forward only, whatever stale file a process holds:
\* "a lower revision is rejected, and reusing one revision for a different
\* snapshot hash fails closed" (README).
AuthorityForward ==
    [][job # None => job' # None /\ (job'.def = job.def \/ job.def.rev < job'.def.rev)]_vars

\* No run but an attended canary is accepted against the authority of the
\* moment: the saved definition is the one the run was made from, it is
\* enabled, nothing is paused and the unread guard has room.
AcceptedUnderAuthority ==
    [][\A i \in DOMAIN runs' \ DOMAIN runs : runs'[i].trigger # "canary" =>
          /\ job'.def = runs'[i].def /\ job'.def.enabled /\ ~job'.paused /\ ~global
          /\ ~GuardTripped(job'.def)]_vars

\* The cursor of an enabled job never passes a due moment that has no
\* recorded decision: a crash, a tripped guard, a pause or an edit between
\* two steps of Evaluate loses no occurrence.
CursorCoversDecided ==
    [][job # None /\ job.def.enabled =>
          \A m \in job.def.due : job.cursor < m /\ m <= job'.cursor =>
              occ[KeyOf(job.def, m)] # None]_vars

\* While a job stays runnable its cursor catches up: every occurrence is
\* decided in the end, also those a crash or a tripped guard left behind.
Runnable == job # None /\ job.def = file /\ file.enabled /\ ~job.paused /\ ~global
CursorCatchesUp == <>[]Runnable => <>(job # None /\ (job.completed \/ job.cursor = Here.last))

\* "Paused time is held" (engine.go): once the job is resumed for good, each
\* occurrence that came due under the pause is started or recorded.
HeldOccurrencesDecided ==
    <>[]Runnable => \A m \in Moments :
        (job # None /\ job.paused /\ job.cursor < m /\ m \in job.def.due)
            ~> (job # None /\ occ[KeyOf(job.def, m)] # None)
=============================================================================
