# herdr-bots in TLA+

herdr-bots is a scheduler for coding agents. It reads job definitions from a
TOML file, turns their cron, one-time and event schedules into *runs*, admits
the runs under capacity limits, asks the Herdr terminal server for a workspace
(a git worktree with a pane) for each, starts a command or an agent in it, waits
for it, verifies the result, and files the outcome in an inbox. All state that
survives a process is one SQLite database; a daemon and any number of
command-line processes work on it at the same time, and any of them may be
killed between two statements. The code therefore consists of short
compare-and-set transactions, leases and durable intents, with external calls
between them that may be lost, late, or done although they reported an error.

This directory holds a model of that: TLA+ modules for the run table, the life
of a run, the intake of occurrences, the admission of runs, the review and the
verification of what a run did, the daemon's pass over all of them and the
operator's inbox, TLC configurations that check them on small instances, and
TLAPS proofs, for all instances, of every safety property that a passing run checks.
`PROJECT.json` lists components, runs, mutants, hazards, findings and theorems, and maps
every definition to the source lines it models. Paths below are relative to `src/`.

## 1. The system

| Component | Source | State | Operations | Modelled in |
|---|---|---|---|---|
| Run row and store calls | `internal/store/store.go`, `store/recovery.go` | the `runs` table | about thirty guarded `UPDATE`s | `RunRow`, `RunStore` |
| Run lifecycle | `internal/engine/engine.go` (`execute`, `monitor`, `Reconcile`, `closeAndFinish`, `Cancel`), `engine/recovery.go` | `inFlight`, the row, the Herdr workspace, the verifier's result file | execute, monitor, reconcile, close, cancel, recover | `RunLifecycle` |
| Intake | `engine.go` (`Evaluate`, `Enqueue`, `RunNow`), the job and occurrence calls of `store.go` | `jobs`, `occurrences`, `settings` | evaluate, enqueue, run, pause, resume, authority sync | `Intake` |
| Admission | `engine.go` (`dispatch`, `admissionDecision`), `DecideAdmission` | the rows that count as active, their disk claims | list, check, probe, decide | `Admission` |
| Schedule arithmetic | `internal/schedule/schedule.go` | none | `Between`, `WithinGrace` | operators of `Intake` |
| Acceptance lanes | `classifyTerminalRun` | lane and unread bit | pure | `TerminalLane` of `RunRow` |
| Herdr client | `internal/herdr` | external | provision, start, wait, result, close, find | the issue/effect/return steps of `RunLifecycle` |
| Bounded review | `internal/engine/bounded_review.go` | the worktree, the sources, `input_receipt`, `change_receipt` | stage inputs, prove them, observe the changes twice | `BoundedReview` |
| Verifier process and receipt files | `engine.go:1178-1786` | a process group, the claim's files | start, wait, kill, prove gone, publish, read after a crash | `Verifier`; its claim also in `RunLifecycle` |
| Settling a run | `execute` from the staging on, `monitor`, `reconcileExpiredVerifier` | the row | stage, review, claim, verify, review again, finish, take over | `SettledRun` |
| Daemon pass | `cmd/herdr-bots/main.go` (`daemonCmd`), `Reconcile`, `Dispatch`, `Evaluate` over several runs and jobs | `inFlight`, `asyncErr`, the place in the pass | one tick | `DaemonPass` |
| Inbox | `internal/pane/pane.go`, `show` | the unread bit, the pane's list and cursor | refresh, move, enter, show, mark | `Inbox` |
| Agent-mode execution | `engine.go` | – | `StartAgent`, `Submit`, `Wait`, `Status` | not modelled (section 8) |
| Configuration, adapter, launchd, migration, flags | the rest | none of the scheduler's | – | not modelled (section 8) |

How the parts interact. The daemon's ticker (`cmd/herdr-bots/main.go`, 30 s by
default) loads the file and calls `Reconcile`, `Evaluate` and `Dispatch` in this
order. `Evaluate` creates accepted rows and `Dispatch` moves them to
provisioning, starting one `execute` goroutine per admitted run. `execute`
drives its run as long as its claim lasts; `Reconcile` takes over what lost its
owner and starts a monitor goroutine for a command that survived a restart. The
commands `run`, `enqueue`, `pause`, `resume`, `cancel`, `recover`, `show` do the
same kind of transactions from other processes. Nothing is shared between
processes but the database, the Herdr server and the result files.

What is hard about it:

* **Interleaving.** Up to four threads of three processes work on one row; only
  the `WHERE` clauses keep one outcome.
* **Stale reads.** `Reconcile`, `dispatch` and `Evaluate` decide from what they
  read earlier (rows, job, free disk, configuration, the clock) and commit later.
* **Crashes** between an external call and the transaction that records it.
* **Timeouts.** Herdr may carry out a call whose client has given up.
* **Time.** Leases, grace, repeated wall-clock minutes, local days, a limit on due
  occurrences.
* **Other writers.** Staging and review read files that the agent, what it left
  behind, the verifier or the producer of the inputs may be writing.
* **Partial failure.** The first error of a pass ends it, for every run and job.
* **Progress.** A run must be retired, a schedule caught up, a queue drained,
  although each single call may fail.

What makes each component correct, in one sentence: the *store* never revives or
rewrites a finished run and never breaks a live claim; the *lifecycle* loses no
workspace, closes at most once, runs a verifier at most once, and retires every
run; *intake* decides every occurrence exactly once, under the authority of the
moment; *admission* never exceeds its limits and starves nobody; *review* and
*verifier* let a run succeed only with a worktree that is what its receipts say,
and with nobody of the verifier's left to change it; the *pass* comes back to
whatever an error made it leave out; the *inbox* keeps every outcome nobody has
marked.

## 2. The modules

    RunRow ──► RunStore ──► MCRunStore          Intake ────► MCIntake
      │                                         Admission ─► MCAdmission
      └──► RunLifecycle ──► MCRunLifecycle      Inbox ──► DaemonPass ──► MCDaemonPass
               └ ─ refines ─ ► RunStore
                                                BoundedReview ─┬─► SettledRun ──► MCSettledRun
                                                Verifier ──────┘

    RunRowProofs ─┬─► RunStoreProofs (with RunStore)
                  └─► RunLifecycleProofs (with RunLifecycle) ──► LifecycleClockProofs
    IntakeProofs, AdmissionProofs, SettledRunProofs, DaemonPassProofs: each of its module

### RunRow, RunStore

`RunRow` has the columns of a row (`Rows`) and, for every store method, a pair of
operators: `CanX(row, ...)` is the `WHERE` clause with the checks made before it,
and the operator named after the result (`Admitted`, `ReceiptSaved`,
`EffectFinished`, ...) is the `SET` clause. `RunStore` is the table under callers
that may invoke any method at any moment with any owner or token: one action per
method, each one transaction. Its initial rows include those a database of an
older version may hold, with a state but without claims.

*Time.* The code compares instants with each other only, so the model writes them
in a frame that moves with the clock: 0 is now, a lease column holds the ticks it
has left, and a time that was sampled some ticks ago and is used now is negative.
`Tick` ages every lease. `Horizon` is how old a sample can be. Everything at or
before `-Horizon` compares alike and is one value, so the state space is finite
without a bound on time. Calls that rely on a *live* claim pass a time taken just
before the call (at most `CommitDelay` old); calls that rely on a *lapsed* one may
carry a time taken before a Herdr lookup (`Horizon`).

`ClaimEffect`, `ReleaseEffect` and the store's `SetReceipt` are left out: only tests call
them; the action `SetReceipt` is the attestation and the two receipts of a review. Columns no
condition reads (transcripts, messages, source context) are left out.

### RunLifecycle

One run of a headless-command job from `accepted` to retirement. Threads: `exec`
(the goroutine of `execute`, in the daemon or in an attended process), `daemon`
(the reconcile loop), `mon` (a monitor started by it), `cli` (one `cancel` or
`recover`). A thread's record has its place `pc`, its owner token, the state and
outcome it was called with, the age of the time it sampled, and the row it read
when it works from a snapshot. Every store call is a step through `CAS`, which
goes one way when the `WHERE` clause matched and the other when it did not.

A Herdr call is *issue*, *effect*, *return*: the issue sets `req[k]` to the
deadline of the client's context, the server may act while `req[k] > 0`, whether
or not the client has returned in the meantime, and the return may report either.
That the server does nothing after the client's deadline is an assumption about
Herdr, and `boundedProvisioningContext` only makes sense under it. `ws` tells
closed from removed: `CloseWorkspace` leaves the git worktree, and
`FindWorkspaceByBranch` then finds a branch without identity, which the engine
treats as "manual cleanup". `ByHand` is the operator at the Herdr terminal.

A crash puts every thread of the process to idle; the daemon comes back with a
fresh owner token (`d1`, then `d2`). A claim token is the thread's name: a thread
holds one token at a time and gives up the old one before it takes another. Store
errors (as opposed to a clause that did not match) are modelled at the two
receipt saves (`SavePartial` is the save and the event after it in one step), where the code does something about them; everywhere else the code
returns the error and the next pass starts over, which is a crash of the thread
that leaves its process alive, and the daemon's crash covers its row-visible part.

The tick stands for about 30 s: provisioning lease 2 (60 s), operation limit 1
(30 s), close lease 2 (60 s), verifier limit 1 under a verifier lease of 2 (5 and 6
minutes; only the order of the two matters).

Ghosts: `closes` counts `CloseWorkspace` calls and `verified` has how each
verifier invocation ended. No action reads them.

### Intake

One job: its row, the occurrences table, its runs (phase queued, active or done, in
the order of acceptance), the file, the clock, the `Evaluate` loop of every daemon and one operator command.
A definition record stands for its snapshot, so equal records are equal hashes.
`Evaluate` is nine steps: the ticker samples the clock, loads the file, syncs the
authority, reads the job and computes the due moments, then per occurrence, the
least moment of the set that is left (`Current`), records
a miss, runs the source gate, records an unchanged source or accepts, completes a
once job, and finally moves the cursor. Each is one transaction or one external
call, and a crash, an edit, a pause or another daemon may come between any two.
`Wall` gives the wall-clock minute of each moment; two moments with one minute are
a clock set back, and have one occurrence key.

An instance is a sequence of scenarios (`Scenarios`): which definitions the file
may hold, which commands are given, how far the clock goes, how many attended runs
there are and whether processes crash; `scenario` is chosen at first and never
changes.

Two things the code does on purpose and the model follows: a manual run asks
neither for overlap nor for the daily limit, and a canary asks for no authority
when it is created (it is refused at admission when the job is stopped).

### Admission

Several runs and processes. `dispatch` is: list the accepted runs that are no
canaries, and for each in the order of acceptance (run ids are numbers, and the next
one is the least of the list) look at the job, probe the disk, decide. `Stoppable`
are the jobs that the operator pauses or disables at times. A sum of reserves is the
number of GiB units they consist of, so that it needs no recursion. The decision is
one transaction and sees the rows of that moment, with the free space of the
probe. Runs write up to their reserve, and worktrees stay until the operator
removes them. Rows admitted by a version that recorded no device are charged to
every candidate. `late` is a history variable: the runs that ended while some
probe was waiting for its decision.

### BoundedReview, Verifier, SettledRun

`BoundedReview` is staging and review as sequences of system calls. A file is its
content and a stamp for inode, size, mtime and ctime that every write moves;
opening and stat'ing a file is one step, reading it and stat'ing it again another,
and each of the three git commands is one, so that a writer fits between any two.
A copy or a read that raced with a write yields `Partial`, content that never was,
and only the comparison of the stamps (`SameStatIdentity`) refuses it. What git
ignores depends on a tracked file that a writer may change between the listings
(`Ignores` gives, for each of its contents, the paths it hides).
Regular files and symlinks are observed alike and not told apart; the walk of the
parent directories is part of opening a path. The staged inputs are proved once,
before the first pass, as in the code.

`Verifier` is the process group (the Perl supervisor with its alarm, the verifier,
a descendant, the reaper) and `runVerifierCommand` with the claim's three files. A
member that was sent `SIGKILL` goes on until `Die`. A tick is far longer than the
delivery of a signal or the reaper's poll of 10 ms, and the alarm is not late by a
tick (`ClockMayTick`). Descendants that leave the group, and a verifier that kills
its own supervisor, are out of reach of the code and of the model.

`SettledRun` composes them into the run's way from the staging of its inputs to its
outcome. The threads are the monitor goroutine and `Reconcile`, which completes a
finished command beside the monitor and takes over a verifier whose lease ran out.
A crash ends both threads and the call; the row, the worktree, the files and the
process group live on. A graceful stop is a crash too: the code leaves the run to
the next start. Outcomes that no review precedes (a command that failed or timed
out, cancel, recover) and starts that were never confirmed are `RunLifecycle`'s.
Two assumptions are stated: no more than `StartDelay` ticks pass between the claim
and the supervisor's start (below a minute in the code: a few file operations), and
`Lease > StartDelay + Limit` (six minutes, five minutes).

History: `between` is what a receipt of the worktree would have said between the
two passes, `restored` says that some writer put a path back to a content it had
before, and `late` that a process the agent left behind has written.

### Inbox, DaemonPass

`Inbox` has what the operator sees. `show` reads, prints and then marks; the pane
keeps the rows of its last refresh, and enter focuses the workspace in a command
that returns later and marks then. `DaemonPass` has several runs and jobs and one
daemon: a tick is `Reconcile` over the rows it listed, `Dispatch`, `Evaluate` over
the jobs, `Dispatch`. `EndPass` is an error: logged, or, in the first pass of a
process, the end of the process with all its goroutines. A goroutine's error is
kept in `asyncErr` and returned by the next call. `trouble` says that Herdr or the
database fail just now, and `gates` which source gates answer; both change at any
time, and crashes happen during trouble.

A phase is the state of the row, but for `running`, which is running and settled, and
`closing`, which is any state under a close claim. Leases are not kept: a pass may find
any claim live and leave its run alone, or lapsed and act on it, also when a goroutine
of its own process still drives the run, as the code does. A pass acts on a run as it
was listed, while goroutines (`GoroutineStep`), attended processes and `cancel`
(`OtherProcess`) move it on. What a call on a run that has moved on comes to depends on
the branch: the provisioning branch passes the conflict over (engine.go:486), the
starting and the running branch return it (engine.go:505, :516), and it ends the pass,
or in the first pass the daemon, with Herdr and the database in order (`Conflict`). A
running run without a goroutine gets one, a command found ended is completed in the pass
itself (`CommandDone`, `CompleteCommand`). `Admit` admits every accepted run (the limits
are `Admission`'s), pauses are `Intake`'s, and a job becomes due once. `RecordRunEvent`
drops evidence that repeats the last one.

## 3. The runs

| Run | Specification and bounds | Properties | Distinct states |
|---|---|---|---|
| `store` | 1 row, 2 owners, 2 tokens, 2 receipts, leases of up to 2 ticks, samples of age 0–1; symmetric in owners, tokens and receipts | `TypeOK`, `EffectConsistent`, `ClaimPhase`, `AutoFiledOnlyIfVerified`, `TerminalImmutable`, `ForwardOnly`, `LiveClaimSurvives`, `LiveEffectSurvives` | 33 thousand |
| `lifecycle` | a verified job with an attestation, run by an attended process that may crash, the daemon beside it; `cancel`, `recover` and an operator who closes the workspace by hand | `NoOrphanWorkspace`, `SuccessIsReal`, `VerifierRunsOnce`, `CloseIssuedOnce`, `RetiredMeansGone`, `StartOnlyWhileClaimed`, `CloseFencesRun` | 1.6 million |
| `live` | a plain and a verified job, the daemon crashes and restarts; `recover`, and an operator who closes the workspace and removes the worktree; fair | `StoreSpec`, `EventuallyRetired` | 158 thousand |
| `intake` | two scenarios: cron, gated, once and disabled definitions with edits, pauses and crashes over three moments and two days; `run`, `enqueue`, `pause`, `pause --all` and edits that reuse a revision | `OverlapHolds`, `DailyLimitHolds`, `AuthorityForward`, `AcceptedUnderAuthority` | 1.2 million |
| `daemons` | two daemons; a cron definition with an unread guard of 1 and a gated once definition over three moments; crashes, pauses, fair | `OneRunPerOccurrence`, `CursorCoversDecided`, `CursorCatchesUp` | 0.2 million |
| `admission` | four runs (a legacy and an attended one, one of a queue_one job and its canary), two disks, cap 2, daemon and attended process, the latter may crash, one job paused or disabled at times, fair | `ActiveWithinCap`, `QueueOneExecutesAlone`, `HeadroomKeptUpToLateRuns`, `DispatchedOnce`, `AdmittedUnderAuthority`, `QueueDrains` | 0.3 million |
| `review` | two tracked paths of which one is an ignore file, two untracked ones of which one is reserved and one hidden by the ignore file's first content, one input, two contents; eight scenarios of job and writers | `InputsNeverTorn`, `SuccessMatchesWorktree`, `PublishedMeansGone`, `GoneBeforeTakeover`, `ReceiptIsASnapshot`, `MarkerIsFinal` | 2.5 million |
| `pass` | three runs, two jobs, a pane that lists one ended run; five scenarios with faults, other processes and conflicts, one with a reader; fair | `OutcomeStaysUnread`, `AcceptedIsDispatched`, `DueIsDecided`, `RunningIsWatched` | 0.4 million |
| `stale_scan`, `stale_clock`, `held`, `stale_probe` | one finding each, section 5 | violated | – |

Why the bounds are enough for the cases they are meant for. *Store*: the
statements touch one row by its id, so rows do not interact and one suffices; two
owners and two tokens tell one's own claim from somebody else's; leases of 1 and
2 ticks and samples of age 0 and 1 give every order of lease and sample; the
invariants are proved for all values anyway. *Lifecycle*: a lease is longer than
the call made under it, and a tick may fall between any two steps, so the call that
ends before, at and after its lease all occur; the process that crashes does so
once, which is what the code distinguishes, since a row knows only whether its owner is
the one asking (the daemon crashes in `live`; the proofs of section 6 have any set of
crashing processes and any operator commands).
*Intake*: two moments with one minute in one pass or in two, an occurrence within
and beyond the grace, a day that ends between two occurrences, a guard of 1 that
trips after the first. `MaxDue` is 5, above what the moments can make due, in all
runs but `held`, where it is 2 and there are four moments. *Admission*: a cap of 2 among four candidates,
disks on which two reserves fit and three do not, and of which one run's device is
not recorded. *Review*: each kind of writer writes once and, where two passes meet
one thread's leftovers, twice: a write the first pass misses and one the second
misses. The paths give one of each kind the policies tell apart; the limits make two
changes too large together that fit one by one. A run that has ended stops, and so may this
model (no deadlock check). *Pass*: an error, a kept error and a crash may each fall
on any step of any number of passes; three runs are one before, one at and one
behind the error.

`TypeOK` of each module states the types of its variables for the reader and for
proofs. Only the store's is in a configuration; those of the store, the lifecycle,
intake and admission are proved, and for the settled run stronger invariants of the
same kind (`GroupTypes`, `RunTypes`, `ReviewTypes`).

What `review` and `pass` show, and where it ends. `ReceiptIsASnapshot` is the code's
claim that the second pass "makes the first one a description of the worktree rather
than of a moment inside it" (`bounded_review.go`), and it needs its proviso: a
writer that puts back an earlier content between two reads defeats any double
collect. It also needs an exception that the code's comments do not mention. The
untracked files are listed by two git commands, those that are not ignored and those
that are (`bounded_review.go:926` and `:935`). A tracked ignore file that is rewritten
between the two hides a file that appears in neither list, so a second pass may agree
with the first about a worktree that held one more file. The property therefore asks
nothing of an untracked path whose ignore status has changed (`~Steady`). Without the
exception TLC finds that behaviour in the `review` instance, and the proof fails at this
step and no other. `SuccessMatchesWorktree` excludes runs whose agent left writing processes
behind: nothing stops those before the workspace is closed, and what they write
after the last look is in no receipt. The comparison of the two listings is
redundant beside that of the states: no property notices its absence, and the code
has it for its better message. `GoneBeforeTakeover` excludes a supervisor that could
not fork its reaper. `OutcomeStaysUnread` excludes marks made after the run ended:
a row that `show` printed before and marked after the end leaves the inbox unseen.
`AcceptedIsDispatched`, `DueIsDecided` and `RunningIsWatched` hold once trouble is
over; one run whose lookup fails for ever (its repository was deleted) keeps every
pass from the runs behind it. A canary is dispatched only by the process that made
it: if that process dies, it stays accepted until it is cancelled.

Each property has a mutant in `PROJECT.json`: an operator defined next to the one
it replaces and marked "Mutant", that changes the code as a plausible mistake would
(a forgotten clause of a `WHERE`, a lookup left out, a limit off by one), and under
which TLC finds the property violated with the same configuration.

The lifecycle's passing runs have `CommitDelay = ScanDelay = 0`: a transaction
commits within the tick in which its caller took the time, and a run is reconciled
within the tick in which it was listed, while all other threads may still step in
between. The code promises neither, so the two are hypotheses, and each is used only
where it is needed. TLC finds the same boundary as the proofs:

| | `CommitDelay = 1`, `ScanDelay = 0` | `CommitDelay = 0`, `ScanDelay = 1` |
|---|---|---|
| `StartOnlyWhileClaimed`, `CloseFencesRun`, `ReceiptSavedOnlyWhileOwned` | violated (finding `stale_clock`) | hold |
| `NoOrphanWorkspace`, `AmbiguousProvisionAwaitsLookup` | hold | violated (finding `stale_scan`) |
| `SuccessIsReal`, `VerifierRunsOnce`, `CloseIssuedOnce`, `RetiredMeansGone`, `StoreSpec` | hold | hold |

The theorems of section 6 about the third row have no hypothesis. Of the others,
`StartOnlyWhileClaimed` and `CloseFencesRun` are proved under `CommitDelay = 0` and
`NoOrphanWorkspace` under `ScanDelay = 0`. What the two findings refute is not proved
under the hypothesis that rules them out; what remains true of ambiguous receipts
whatever the delays are is `AmbiguousRunsLeftToPasses`: only a pass of `Reconcile` can
be the one that ends such a run.

### Refinement

`RunLifecycle!Store` instantiates `RunStore` with the table of the one row and the
lease limits of the engine; the maximal effect lease is the longer of the close and the
verifier lease. `StoreSpec` says that every step of the engine is a call of the store
with arguments that the store's model allows, or leaves the row alone. The run `live`
checks it, and `LifecycleImplementsStore` proves it for every instance, so what is
proved of `RunStore` holds of the row of `RunLifecycle`.

## 4. Fairness

* `live`: each thread of a living process keeps going and the daemon reconciles
  at every turn of its ticker (weak fairness; the daemon is restarted by launchd
  after its crash). Time passes (strong, since a tick waits for the steps due
  before it). Herdr answers a lookup sometimes, says so when the workspace is
  absent, and not every close is finished after its lease (strong fairness
  of these three outcomes: a server that never answers retires no run, in the code
  either). A command that was given goes on. The operator
  closes a workspace whose close stayed unverified and
  removes a worktree without a workspace, as the recorded evidence asks. Nothing is
  assumed of the command (it may run until its timeout), of the attended process or
  of any single call.
* `daemons` and `held`: the daemon's pass goes on, time passes, and the source gate
  (a git command with a network) succeeds now and then if it is tried again and again.
* `admission`: the daemon lists and dispatches, active runs end, and the operator removes
  worktrees of ended runs now and then, because nothing else ever frees the disk.
  Only the attended process crashes in this run: a daemon that crashes in every
  pass drains no queue, and the row of a run does not tell a crashed dispatch from
  one that is slow.
* `pass`: the daemon's loop takes its steps (weak fairness of `DaemonStep`). That is
  the ticker while the process lives, and launchd after it: the property list of
  `service/launchd.go` has `KeepAlive` with `SuccessfulExit` false and a
  `ThrottleInterval` of 5. Nothing is assumed of goroutines, Herdr, Git, the database
  or the operator; the properties say what they need of the trouble and the gates.
* `store`, `lifecycle`, `intake` and `review` check safety only.

## 5. Findings

Each is a run whose one property is what the repository says and that the code
violates; the trace of TLC is the scenario.

* **`stale_scan`** – `Reconcile` lists the rows at the start of a pass. A row listed
  before `SaveProvisioningPlan` has no branch, so no lookup is made when its turn
  comes, and `InterruptExpiredProvisioning`, which does not ask for an empty
  branch, ends a run whose `Provision` call has created a workspace in the
  meantime. `engine.go:710`: "Never terminalize an external provisioning call with
  an ambiguous receipt". It takes a pass that needs longer than the claim.
* **`stale_clock`** – `SaveProvisioningReceipt` compares the lease with a time taken
  before the transaction waits for the write lock (`busy_timeout` 5 s), so it may
  commit after the claim ran out and `Reconcile` claimed the workspace for closing.
  `store.go:1971`: "only while the caller still owns a live provisioning claim".
* **`held`** – `Between` returns an error when 1000 occurrences are due, `Evaluate`
  returns it before the cursor moves, and the next pass finds at least as many. After
  a pause or an outage of that length the job is never evaluated again, nor are the
  jobs behind it. `engine.go:107`: "Paused time is held."
* **`stale_probe`** – the free space is probed before the decision, and the decision
  adds the reserves of the runs that are active *then*. A run that was active at the
  probe, wrote, and ended before the decision is in neither number.
  `README.md:456`: "Dispatch holds accepted runs when ... reserved disk headroom is
  exhausted". The passing run `admission` bounds the excess:
  `HeadroomKeptUpToLateRuns` says that it is never more than what such runs wrote.

## 6. Proofs

Eight modules hold proofs; `PROJECT.json` lists the theorems worth citing. All of them
are about every instance: any number of runs, processes, files and definitions, all
lengths of leases, all sets of crashing processes and operator commands. Apart from the
hypotheses named in the tables, the only assumptions are the `ASSUME`s of the modules,
which TLC evaluates in every run: bounds are naturals, `None` is no value of its column,
a lease is longer than the call made under it (`LifecycleAssumption`,
`SettledAssumption`, `VerifierAssumption`), a once job has one moment and an event job
none (`IntakeAssumption`), legacy runs were admitted under the same limits
(`AdmissionAssumption`), the paths and contents of a review fall into their classes
(`ReviewAssumption`), a due job has no run yet (`PassAssumption`).

Every invariant below was checked by TLC on the configuration of its module before it
was proved.

### The store: `RunRowProofs`, `RunStoreProofs`

| Theorem | Statement |
|---|---|
| `TypeCorrect` | `[]TypeOK` |
| `EffectsConsistent` | `[]EffectConsistent`: owner, token, kind and intent of an effect are set and cleared together, and a verifier claim is held only while verifying |
| `ClaimsInPhase` | `[]ClaimPhase`: no run past starting has a provisioning claim |
| `AutoFilingSound` | `[]AutoFiledOnlyIfVerified`: only a run with a passed verdict is filed in the auto or sample lane |
| `TerminalNeverChanges` | `TerminalImmutable` |
| `RunsMoveForward` | `ForwardOnly` |
| `LiveEffectsSurvive` | `LiveEffectSurvives`, for any delay between sample and commit |
| `LiveClaimsSurvive` | `LiveClaimSurvives`, if `CommitDelay = 0` |

None of the invariants is inductive by itself. A finished close writes the outcome that
the intent column holds, so the lane is right only if every intent is an outcome the
engine may ask for; a late cleanup writes a terminal row's own outcome into the intent,
so that outcome must be sound before; finishing an effect clears the provisioning claim
of a row whose state it changes, so claims and effects have to be known together. The
inductive invariant `Inv` says of every row `RowInv`: it is in `Rows`, its effect columns
agree, its claim is in phase, it is filed by its verdict, and an intent is a sound
outcome.

`RunRowProofs` has one lemma per `SET` clause: from `RowInv(row)` and the `WHERE`
clause, `RowInv` of the result; and one per clause for the columns it leaves alone, from
which the action properties follow. `RunStoreProofs` lifts them by `UpdateInv` (a table
in which one row is replaced by a good row is a good table) and combines them in
`Invariance`.

### The lifecycle: `RunLifecycleProofs`, `LifecycleClockProofs`

| Theorem | Statement |
|---|---|
| `LifecycleTyped` | `[]TypeOK` |
| `ClosesIssuedOnce` | `[]CloseIssuedOnce` |
| `RetiredWorkspacesGone` | `[]RetiredMeansGone` |
| `SuccessIsEarned` | `[]SuccessIsReal` |
| `VerifierStartsOnce` | `[]VerifierRunsOnce` |
| `LifecycleImplementsStore` | `StoreSpec`: the refinement of `RunStore` |
| `NoWorkspaceOrphaned` | `[]NoOrphanWorkspace`, if `ScanDelay = 0` |
| `AmbiguousRunsLeftToPasses` | `OnlyPassesEndAmbiguousRuns`: while a workspace is open that the row does not name, only `InterruptExpiredProvisioning` of a pass ends the run |
| `ClosesFenceTheRun` | `CloseFencesRun`, if `CommitDelay = 0` |
| `CommandStartsClaimed` | `StartOnlyWhileClaimed`, if `CommitDelay = 0` |

The hypotheses are those of the table in section 3, where TLC shows that none can be
dropped. `AmbiguousRunsLeftToPasses` has none: however late commits and passes are, an
executor ends a run only before it has called `Provision`, and `recover` decides with the
time it has looked the branch up at, so that the finding `stale_scan` is the one way to
lose a workspace.

The argument is one of rely and guarantee. `RowRely` says what any step may do to the
row; the assertion of a thread at its place is stable under it, so the interleaving of
the four threads needs no cases of its own, and each action has to respect the rely and
to establish the assertion of the place its thread goes to. The assertions come in
layers, each of which may use the ones below:

* `Types`: `RowInv(row)`, and each thread's owner, token, outcome, sample and snapshot
  fit its place.
* `CloseInv`: a thread on its way through a close works for the outcome that the row's
  intent names, or the row has moved on (`CloseOf`); a workspace in the row exists or
  did; `closes` is at most one, and is zero while the one thread that may call has not;
  a run that timed out or was cancelled has no open
  workspace.
* `ResultInv`: a settled run's command exited zero and its attestation is in the row; at
  most one thread is in the verifier, and its invocation, the result file and the verdict
  agree.
* `ClockInv`: a call to provision in the air is bounded by the claim it was made under,
  before it there is no workspace (`BeforeCall`), and `recover` has seen the branch
  absent if its decision can still succeed (`RecoverLooked`); with `CommitDelay = 0` a
  close claim fences the executor out and a call to start is bounded too; with
  `ScanDelay = 0` a pass about to interrupt a run has seen the branch absent.
* `Unread`: a run that has not ended is unread, so recording an event is a step of the
  store.

`NextCalls` then lists, for every step, the one call of the store it makes; the
refinement and the action properties follow from this list and the layers.

### Admission: `AdmissionProofs`

| Theorem | Statement |
|---|---|
| `AdmissionTyped` | `[]TypeOK` |
| `CapHolds` | `[]ActiveWithinCap` |
| `QueueOneAlone` | `[]QueueOneExecutesAlone`, if the runs of a job have one overlap policy and legacy rows respect it |
| `HeadroomHolds` | `[]HeadroomKeptUpToLateRuns` |
| `AcceptedRunsDispatchOnce` | `DispatchedOnce` |
| `AdmissionsUnderAuthority` | `AdmittedUnderAuthority` |

The headroom needs the most. `DiskInv` says that only admitted runs have written
(`Written`), a claim names its run's device and reserve or is a legacy one
(`ClaimsKept`), late runs have ended (`LateEnded`), the *whole* reserve of the active
runs is there beside what ended runs left (`Room`), and a probe in the hands of a process
exceeds what is free now by no more than active and late runs wrote (`ProbesFit`). Sums
are cardinalities of sets of units, so the facts about them (`SumOf` of a disjoint union,
of a subset) come from the theorems about finite sets and not from an induction. The
hypotheses of `QueueOneAlone` are there because `admissionDecision` asks only the
*candidate's* overlap policy: after an edit from `queue_one` to `allow` a run of the new
definition joins one of the old, as the operator asked.

### Intake: `IntakeProofs`

| Theorem | Statement |
|---|---|
| `IntakeTyped` | `[]TypeOK` |
| `OccurrencesRunOnce` | `[]OneRunPerOccurrence` |
| `OverlapsHold` | `[]OverlapHolds` |
| `DailyLimitsHold` | `[]DailyLimitHolds` |
| `AuthorityMovesForward` | `AuthorityForward` |
| `RunsAcceptedUnderAuthority` | `AcceptedUnderAuthority` |
| `CursorCoversDecisions` | `CursorCoversDecided` |

Two lemmas carry the invariants: a decision is never taken back (`DecisionsKept`), and a
step appends at most one run, an undecided occurrence's or an attended one, under the
conditions of `Decision`. A third carries the authority: what a step may do to the job's
row. The cursor needs to know what every daemon holds in its hands (`EvCovers`): every
moment due after the job's cursor and up to the daemon's clock is decided, or it or one
of its wall-clock minute is still on its list, whatever other daemons, edits, pauses and
the unread guard did since. That a finite set of moments has a least one comes from the
library's theorem that strict inclusion of its finite subsets is well-founded, because
induction over data is out of the provers' reach.

### The settled run: `SettledRunProofs`

| Theorem | Statement |
|---|---|
| `PublishedAfterDeath` | `[]PublishedMeansGone` |
| `TakeoverFindsNobody` | `[]GoneBeforeTakeover` |
| `MarkerStays` | `MarkerIsFinal` |
| `StagedWhole` | `[]InputsNeverTorn` |
| `SuccessIsObserved` | `[]SuccessMatchesWorktree` |
| `TwoPassesAgree` | `ReceiptIsASnapshot` |

* `VerifierInv` (first three theorems): types; before the claim there is no group, no
  file and no call (`NotStarted`); the age of the group and what is left of the lease add
  up, so that alarm and reaper are over before the lease is (`GroupEnds`); a result
  anybody can read or act upon means that the group is empty (`ResultMeansGone`).
* `StagingInv`: a thread stages before the agent starts and observes after it has settled
  (`Places`), and what it has staged so far are contents the sources had, the file in hand
  included as long as its stamp has not moved (`StagedSoFar`).
* `SuccessInv`: while an observation counts, and no process the agent left behind has
  written, the worktree is constant. So what each place of the observation knows is what
  the worktree is (`Seen`), and at its end the receipts match it (`Matches`). What keeps
  the worktree constant is `VerifierInv` for the verifier and `Places` for the agent.
* `HistoryInv`: every content a path had is in its `past` (`Histories`); the paths that a
  pass has listed have changed and the contents it read were theirs (`Listed`); in the
  second pass, what equals the first pass's reading *now* or was read again equals it at
  the instant between the passes too (`SecondPass`, `Compared`), because nobody restored
  an earlier content. A path that had changed at that instant is in the second listing,
  unless the ignore file hides it: the exception of section 3.

### The inbox: `DaemonPassProofs`

`OutcomesStayUnread` proves `OutcomeStaysUnread` for any number of runs, jobs and readers.
Passes, goroutines, `show` and the pane change a row in few ways (`RowStep`), and each of
them either leaves the run unfinished, sets the unread bit by its lane, or is a mark made
now (`OnlyMarksRead`).

### What stays with TLC

* All liveness (`EventuallyRetired`, `QueueDrains`, `CursorCatchesUp`,
  `AcceptedIsDispatched`, `DueIsDecided`, `RunningIsWatched`): fairness and `ENABLED` are
  beyond the prover.
* The findings, which are counterexamples.
* The types of `DaemonPass`: the order of its lists is a choice by an operator argument,
  about which the provers can establish nothing; `OutcomesStayUnread` does without them.

Every safety property that a passing run checks is the statement of a theorem. No module
that carries a proof declares or reaches a recursive operator.

## 7. Plan

1. *Proofs.* `NoWorkspaceOrphaned` for passes that take longer than a tick but list the run
   again before they end it, which is what a repair of `stale_scan` would do;
   the absence of a deadlock among the claims of a run as a safety statement (a claim that
   nobody will finish can always be taken over once its lease has run out).
2. *Lifecycle.* Agent mode (`StartAgent`, `Submit`, `Wait`, `Status`) as further
   steps of `exec` and `mon`; the reconciliation of rows without a pane.

## 8. What is not modelled

* *Configuration loading* and validation: pure; its result is a constant.
* *Adapter*: builds argument lists and parses one line of JSON. A probe's and an
  attestation's outcome is a nondeterministic choice of `RunLifecycle`.
* *Database migration*: one exclusive transaction at `Open`. What it leaves is in the
  initial states of `RunStore` and `Admission`.
* *Cron expressions and time zones*: libraries; `Intake` takes due moments and their
  wall-clock minutes as given.
* *The sampling bucket* of the acceptance lanes, a hash of the run id: the policy of a
  row is any of its possible lanes.
* *Agent mode*: `StartAgent`, `Submit`, `Wait` and `Status` of an interactive pane.
  The claims, leases and compare-and-sets around them are those of command mode; the
  status protocol of Herdr would need a model of its own. What follows a settled agent
  is the same as for a command and is in `SettledRun`.
* *launchd*, the launcher script, tables, flags and the drawing of the pane: no state
  of the scheduler.
* *Paths*: the syntax of paths, dates in source names, symlinked parents, limits of
  git's and `ps`'s output. Each ends in a refusal, which the model has as a choice.
* *SQLite*: transactions are atomic, serialized and durable; a write waits for the lock
  and may then be late, which is what `CommitDelay` models.
