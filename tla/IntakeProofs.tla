---------------------------- MODULE IntakeProofs ----------------------------
(***************************************************************************)
(* What is proved of Intake for every configuration file, every number of  *)
(* daemons, all events and bounds: its types, one run per occurrence, the  *)
(* overlap policies, the daily limit, the direction of the saved authority,*)
(* acceptance under the authority of the moment, and that the cursor       *)
(* passes decided occurrences only.                                        *)
(***************************************************************************)
EXTENDS Intake, FiniteSetTheorems, WellFoundedInduction, TLAPS

-----------------------------------------------------------------------------
(* The earliest moment of a list.                                          *)

\* The first n moments or runs are finitely many.
LEMMA RangeFinite ==
    ASSUME NEW n \in Nat PROVE IsFiniteSet(1 .. n)
BY FS_Interval

\* A set of moments that is not empty has a least one, with the fewest before.
LEMMA LeastMoment ==
    ASSUME NEW S \in SUBSET Moments, S # {}
    PROVE  Min(S) \in S /\ \A m \in S : Min(S) <= m
<1> DEFINE Before(x) == {y \in S : y < x}
           Befores == {Before(x) : x \in S}
<1>1. IsFiniteSet(Moments) /\ Moments \subseteq Nat
  <2>1. MaxTime \in Nat BY IntakeAssumption
  <2> QED BY <2>1, RangeFinite DEF Moments
<1>2. IsFiniteSet(S) /\ \A x \in S : x \in Nat BY <1>1, FS_Subset
<1>3. ASSUME NEW T \in SUBSET S PROVE T \in FiniteSubsetsOf(S)
  BY <1>2, FS_Subset DEF FiniteSubsetsOf
<1>4. Befores \subseteq FiniteSubsetsOf(S) /\ Befores # {} BY <1>3
<1>5. IsWellFoundedOn(StrictSubsetOrdering(S), FiniteSubsetsOf(S))
  BY FS_StrictSubsetOrderingWellFounded
<1>6. PICK B \in Befores : \A C \in Befores : ~(<<C, B>> \in StrictSubsetOrdering(S))
  <2> HIDE DEF Befores
  <2> QED BY <1>4, <1>5, WFMin
<1>7. PICK x \in S : B = Before(x) OBVIOUS
<1>8. ASSUME NEW y \in S, y < x PROVE FALSE
  <2>1. ASSUME NEW z \in S, z < y PROVE z < x BY <1>8, <1>2, <2>1
  <2>2. Before(y) \subseteq Before(x) BY <2>1
  <2>3. y \in Before(x) /\ y \notin Before(y) BY <1>8, <1>2
  <2>4. <<Before(y), Before(x)>> \in StrictSubsetOrdering(S) BY <2>2, <2>3 DEF StrictSubsetOrdering
  <2> QED BY <1>6, <1>7, <2>4
<1>9. \A y \in S : x <= y BY <1>2, <1>8
<1> QED BY <1>9 DEF Min

-----------------------------------------------------------------------------
(* Types.                                                                  *)

RunRows == [def : Definitions, key : Keys \cup {None}, trigger : Triggers, at : 0 .. MaxTime,
            phase : Phases, unread : BOOLEAN]
EvRows == [pc : Places, def : Definitions \cup {None}, now : 0 .. MaxTime, held : BOOLEAN,
           todo : SUBSET Moments]
CliRows == [pc : {"idle", "enqueue", "runSync", "manual", "canary"}, def : Definitions \cup {None},
            now : 0 .. MaxTime, event : EventIds \cup {None}]
GoodJob(j) == j \in JobRows \cup {None} /\ (j # None => (j.paused <=> j.reason # "none"))
GoodEv(x) ==
    /\ x \in EvRows
    /\ x.pc \in {"idle", "load"} => x.todo = {}
    /\ x.pc \notin {"idle", "load"} => x.def \in Definitions /\ x.todo \subseteq x.def.due
    /\ x.pc \in {"accept", "unchanged", "complete"} => x.todo # {}
GoodCli(c) ==
    /\ c \in CliRows
    /\ c.pc # "idle" => c.def \in Definitions
    /\ c.pc = "enqueue" => c.event \in EventIds

\* The type invariant, part by part.
LEMMA TypeParts ==
    TypeOK <=> /\ scenario \in DOMAIN Scenarios /\ clock \in 0 .. MaxTime /\ file \in Definitions
               /\ global \in BOOLEAN /\ GoodJob(job)
               /\ occ \in [Keys -> Decisions \cup {None}] /\ runs \in Seq(RunRows)
               /\ ev \in [Daemons -> EvRows] /\ (\A d \in Daemons : GoodEv(ev[d])) /\ GoodCli(cli)
BY DEF TypeOK, RunRows, EvRows, CliRows, GoodJob, GoodEv, GoodCli

\* The same of the next state.
LEMMA TypePartsNext ==
    TypeOK' <=> /\ scenario' \in DOMAIN Scenarios /\ clock' \in 0 .. MaxTime /\ file' \in Definitions
                /\ global' \in BOOLEAN /\ GoodJob(job')
                /\ occ' \in [Keys -> Decisions \cup {None}] /\ runs' \in Seq(RunRows)
                /\ ev' \in [Daemons -> EvRows] /\ (\A d \in Daemons : GoodEv(ev'[d])) /\ GoodCli(cli')
BY DEF TypeOK, RunRows, EvRows, CliRows, GoodJob, GoodEv, GoodCli

\* What the file may define.
LEMMA DefinitionType ==
    ASSUME NEW def \in Definitions
    PROVE  /\ def.rev \in Nat /\ def.enabled \in BOOLEAN /\ def.kind \in Kinds /\ def.due \in SUBSET Moments
           /\ def.overlap \in Overlaps /\ def.daily \in Nat \ {0} /\ def.unread \in Nat
           /\ def.kind = "event" => def.due = {}
BY IntakeAssumption

\* The occurrence of a due moment is a key of the table.
LEMMA KeyType ==
    ASSUME NEW def \in Definitions, NEW m \in def.due
    PROVE  m \in Moments /\ m \in 0 .. MaxTime /\ KeyOf(def, m) \in Keys /\ KeyOf(def, m) # None
<1>1. m \in Moments /\ def.kind \in {"cron", "once"} BY DefinitionType DEF Kinds
<1>2. KeyOf(def, m) \in Keys BY <1>1 DEF KeyOf, Keys
<1>3. m \in 0 .. MaxTime BY <1>1, IntakeAssumption DEF Moments
<1> QED BY <1>1, <1>2, <1>3, NoneAssumption

\* A daemon that works on moments works on a due one of its definition.
LEMMA CurrentDue ==
    ASSUME TypeOK, NEW d \in Daemons, ev[d].pc \notin {"idle", "load"}, ev[d].todo # {}
    PROVE  /\ ev[d].def \in Definitions /\ Current(d) \in ev[d].todo /\ Current(d) \in ev[d].def.due
           /\ KeyOf(ev[d].def, Current(d)) \in Keys
           /\ \A m \in ev[d].todo : Current(d) <= m
<1>1. ev[d].def \in Definitions /\ ev[d].todo \subseteq ev[d].def.due BY TypeParts DEF GoodEv
<1>2. ev[d].todo \in SUBSET Moments BY TypeParts DEF EvRows
<1>3. Current(d) \in ev[d].todo /\ \A m \in ev[d].todo : Current(d) <= m BY <1>2, LeastMoment DEF Current
<1> QED BY <1>1, <1>3, KeyType

\* A synchronized row is a row, with the definition it was synchronized with.
LEMMA SyncedGood ==
    ASSUME TypeOK, NEW def \in Definitions, NEW now \in 0 .. MaxTime
    PROVE  GoodJob(Synced(def, now)) /\ Synced(def, now) # None /\ Synced(def, now).def = def
<1>1. CASE job = None
  <2>1. Synced(def, now) \in JobRows /\ Synced(def, now).def = def
        /\ ~Synced(def, now).paused /\ Synced(def, now).reason = "none"
    BY <1>1 DEF Synced, JobRows, Reasons
  <2> QED BY <2>1, NoneAssumption DEF GoodJob
<1>2. CASE job # None
  <2>1. job \in JobRows /\ (job.paused <=> job.reason # "none") BY <1>2, TypeParts DEF GoodJob
  <2>2. Synced(def, now) = [job EXCEPT !.def = def, !.completed = @ /\ job.def = def]
    BY <1>2 DEF Synced
  <2>3. Synced(def, now) \in JobRows /\ Synced(def, now).def = def
        /\ Synced(def, now).paused = job.paused /\ Synced(def, now).reason = job.reason
    BY <2>1, <2>2 DEF JobRows
  <2> QED BY <2>1, <2>3, NoneAssumption DEF GoodJob
<1> QED BY <1>1, <1>2

\* The unread guard pauses a row and gives the reason; it changes neither the
\* definition nor the cursor.
LEMMA GuardPausedGood ==
    ASSUME NEW j, GoodJob(j), j # None
    PROVE  GoodJob(GuardPaused(j)) /\ GuardPaused(j) # None
           /\ GuardPaused(j).def = j.def /\ GuardPaused(j).cursor = j.cursor
<1>1. j \in JobRows BY DEF GoodJob
<1>2. /\ GuardPaused(j) \in JobRows /\ GuardPaused(j).paused = TRUE
      /\ GuardPaused(j).reason = "unread_terminal_runs"
      /\ GuardPaused(j).def = j.def /\ GuardPaused(j).cursor = j.cursor
  BY <1>1 DEF GuardPaused, JobRows, Reasons
<1> QED BY <1>2, NoneAssumption DEF GoodJob

\* A new run is a run.
LEMMA NewRunGood ==
    ASSUME NEW def \in Definitions, NEW key \in Keys \cup {None}, NEW trigger \in Triggers,
           NEW now \in 0 .. MaxTime, runs \in Seq(RunRows)
    PROVE  NewRun(def, key, trigger, now) \in RunRows
           /\ Append(runs, NewRun(def, key, trigger, now)) \in Seq(RunRows)
<1>1. NewRun(def, key, trigger, now) \in RunRows BY DEF NewRun, RunRows, Phases
<1> QED BY <1>1

\* Every accepted or skipped occurrence has a decision.
LEMMA DecisionType == \A def, now : Decision(def, now) \in Decisions /\ Decision(def, now) # None
BY NoneAssumption DEF Decision, Decisions

\* acceptOccurrenceTx keeps the types, whatever it decides.
LEMMA AcceptGood ==
    ASSUME TypeOK, NEW j, GoodJob(j), j # None, NEW def \in Definitions, NEW key \in Keys,
           NEW trigger \in Triggers, NEW now \in 0 .. MaxTime, Accept(j, def, key, trigger, now)
    PROVE  GoodJob(job') /\ occ' \in [Keys -> Decisions \cup {None}] /\ runs' \in Seq(RunRows)
<1>1. GoodJob(job') BY GuardPausedGood DEF Accept
<1>2. occ' = occ \/ occ' = [occ EXCEPT ![key] = Decision(def, now)] BY DEF Accept
<1>3. runs' = runs \/ runs' = Append(runs, NewRun(def, key, trigger, now)) BY DEF Accept
<1>4. occ' \in [Keys -> Decisions \cup {None}] BY <1>2, DecisionType, TypeParts
<1> QED BY <1>1, <1>3, <1>4, NewRunGood, TypeParts

\* One daemon moves.
LEMMA EvMoves ==
    ASSUME TypeOK, NEW d \in Daemons, NEW x, GoodEv(x), Become(d, x)
    PROVE  ev' \in [Daemons -> EvRows] /\ \A q \in Daemons : GoodEv(ev'[q])
BY TypeParts DEF GoodEv, Become

\* A daemon between two passes and an operator between two commands.
LEMMA IdleGood == GoodEv(Idle) /\ GoodCli(CliIdle)
<1>1. MaxTime \in Nat BY IntakeAssumption
<1>2. 0 \in 0 .. MaxTime BY <1>1
<1>3. GoodEv(Idle) BY <1>2 DEF Idle, GoodEv, EvRows, Places
<1> QED BY <1>2, <1>3 DEF CliIdle, GoodCli, CliRows

\* A daemon that has handled a moment goes on with the later ones.
LEMMA RestGood ==
    ASSUME TypeOK, NEW d \in Daemons, ev[d].pc \notin {"idle", "load"}
    PROVE  GoodEv(Rest(d))
<1> DEFINE t == ev[d].todo \ {Current(d)}
<1>1. GoodEv(ev[d]) BY TypeParts
<1>2. t \subseteq ev[d].todo OBVIOUS
<1>3. Rest(d) = [ev[d] EXCEPT !.todo = t, !.pc = "occurrence"] BY DEF Rest
<1> HIDE DEF t
<1> QED BY <1>1, <1>2, <1>3 DEF GoodEv, EvRows, Places

\* What a decided occurrence leads to.
LEMMA DecidedGood ==
    ASSUME TypeOK, NEW d \in Daemons, ev[d].pc \notin {"idle", "load"}, ev[d].todo # {}, Decided(d)
    PROVE  ev' \in [Daemons -> EvRows] /\ \A q \in Daemons : GoodEv(ev'[q])
<1>1. GoodEv([ev[d] EXCEPT !.pc = "complete"]) BY TypeParts DEF GoodEv, EvRows, Places
<1> QED BY <1>1, RestGood, EvMoves DEF Decided

\* At the start nothing is synchronized, recorded or accepted.
LEMMA TypesInit == Init => TypeOK
<1> SUFFICES ASSUME Init PROVE TypeOK OBVIOUS
<1>1. Here.definitions \subseteq Definitions BY DEF Init, Here, Definitions
<1>2. 0 \in 0 .. MaxTime BY IntakeAssumption
<1>3. ev \in [Daemons -> EvRows] /\ \A d \in Daemons : GoodEv(ev[d])
  BY IdleGood DEF Init, GoodEv
<1>4. runs \in Seq(RunRows) BY DEF Init
<1>5. GoodJob(job) BY DEF Init, GoodJob
<1>6. occ \in [Keys -> Decisions \cup {None}] BY DEF Init
<1> QED BY <1>1, <1>2, <1>3, <1>4, <1>5, <1>6, IdleGood, TypeParts DEF Init

\* An error ends the pass of a daemon.
LEMMA AbortGood ==
    ASSUME TypeOK, NEW d \in Daemons, Abort(d)
    PROVE  ev' \in [Daemons -> EvRows] /\ \A q \in Daemons : GoodEv(ev'[q])
BY IdleGood, EvMoves DEF Abort

\* Evaluate, step by step.
LEMMA TypesEvaluate ==
    ASSUME TypeOK, NEW d \in Daemons, Ticker(d) \/ Evaluate(d)
    PROVE  TypeOK'
<1>1. UNCHANGED <<clock, file, cli, scenario>>
  BY DEF Ticker, Evaluate, LoadConfig, SyncJobAuthority, ReadJob, RecordMissed, SourceGate, RecordUnchanged,
         AcceptScheduledOccurrence, SetCompletedIfAuthority, SetCursorIfAuthority, UntouchedBy
<1>2. GoodEv(ev[d]) /\ GoodEv(Idle) /\ ev[d].now \in 0 .. MaxTime BY TypeParts, IdleGood DEF EvRows
<1>3. CASE Ticker(d)
  <2>1. GoodEv([Idle EXCEPT !.pc = "load", !.now = clock])
    BY <1>2, TypeParts DEF Idle, GoodEv, EvRows, Places
  <2> QED BY <1>1, <1>3, <2>1, EvMoves, TypeParts, TypePartsNext DEF Ticker, db
<1>4. CASE LoadConfig(d)
  <2>1. GoodEv([ev[d] EXCEPT !.pc = "sync", !.def = file, !.held = global])
    BY <1>2, <1>4, TypeParts DEF LoadConfig, GoodEv, EvRows, Places
  <2> QED BY <1>1, <1>4, <2>1, EvMoves, TypeParts, TypePartsNext DEF LoadConfig, db
<1>5. CASE SyncJobAuthority(d)
  <2>1. ev[d].def \in Definitions BY <1>2, <1>5 DEF SyncJobAuthority, GoodEv
  <2>2. GoodEv([ev[d] EXCEPT !.pc = "readJob"]) BY <1>2, <1>5 DEF SyncJobAuthority, GoodEv, EvRows, Places
  <2>3. ev' \in [Daemons -> EvRows] /\ \A q \in Daemons : GoodEv(ev'[q])
    BY <1>5, <2>2, EvMoves, AbortGood DEF SyncJobAuthority, Goto
  <2>4. GoodJob(job') BY <1>2, <1>5, <2>1, SyncedGood, TypeParts DEF SyncJobAuthority
  <2> QED BY <1>1, <1>5, <2>3, <2>4, TypeParts, TypePartsNext DEF SyncJobAuthority
<1>6. CASE ReadJob(d)
  <2> DEFINE due == DueMoments(ev[d].def, job.cursor, ev[d].now)
  <2>1. ev[d].def \in Definitions /\ due \subseteq ev[d].def.due
    BY <1>2, <1>6 DEF ReadJob, GoodEv, DueMoments
  <2>2. due \in SUBSET Moments BY <2>1, DefinitionType
  <2>3. \/ Goto(d, "skipDisabled") \/ Abort(d)
        \/ Become(d, [ev[d] EXCEPT !.pc = "occurrence", !.todo = due])
    BY <1>6 DEF ReadJob
  <2> HIDE DEF due
  <2>4. GoodEv([ev[d] EXCEPT !.pc = "skipDisabled"]) BY <1>2, <1>6 DEF ReadJob, GoodEv, EvRows, Places
  <2>5. GoodEv([ev[d] EXCEPT !.pc = "occurrence", !.todo = due])
    BY <1>2, <2>1, <2>2 DEF GoodEv, EvRows, Places
  <2>6. ev' \in [Daemons -> EvRows] /\ \A q \in Daemons : GoodEv(ev'[q])
    BY <2>3, <2>4, <2>5, EvMoves, AbortGood DEF Goto
  <2> QED BY <1>1, <1>6, <2>6, TypeParts, TypePartsNext DEF ReadJob, db
<1>7. CASE RecordMissed(d) \/ RecordUnchanged(d)
  <2>1. PICK decision \in Decisions : RecordOccurrenceIfAuthority(d, decision)
    BY <1>7 DEF RecordMissed, RecordUnchanged, Decisions
  <2>2. ev[d].pc \notin {"idle", "load"} /\ ev[d].todo # {}
    BY <1>2, <1>7 DEF RecordMissed, RecordUnchanged, GoodEv
  <2>3. ev' \in [Daemons -> EvRows] /\ \A q \in Daemons : GoodEv(ev'[q])
    BY <2>1, <2>2, AbortGood, DecidedGood DEF RecordOccurrenceIfAuthority
  <2>4. occ' \in [Keys -> Decisions \cup {None}]
    BY <2>1, <2>2, CurrentDue, TypeParts DEF RecordOccurrenceIfAuthority, Record
  <2> QED BY <1>1, <1>7, <2>3, <2>4, TypeParts, TypePartsNext DEF RecordMissed, RecordUnchanged
<1>8. CASE SourceGate(d)
  <2>1. ev[d].pc = "occurrence" /\ ev[d].todo # {} BY <1>8 DEF SourceGate
  <2>2. GoodEv([ev[d] EXCEPT !.pc = "accept"]) /\ GoodEv([ev[d] EXCEPT !.pc = "unchanged"])
    BY <1>2, <2>1 DEF GoodEv, EvRows, Places
  <2>3. ev' \in [Daemons -> EvRows] /\ \A q \in Daemons : GoodEv(ev'[q])
    BY <1>8, <2>2, EvMoves, AbortGood DEF SourceGate, Goto
  <2> QED BY <1>1, <1>8, <2>3, TypeParts, TypePartsNext DEF SourceGate, db
<1>9. CASE AcceptScheduledOccurrence(d)
  <2> DEFINE key == KeyOf(ev[d].def, Current(d))
  <2>1. ev[d].pc \notin {"idle", "load"} /\ ev[d].todo # {}
    BY <1>2, <1>9 DEF AcceptScheduledOccurrence, CanAccept, GoodEv
  <2>2. key \in Keys /\ ev[d].def \in Definitions BY <2>1, CurrentDue
  <2>3. \/ Authority(ev[d].def, TRUE) /\ Accept(job, ev[d].def, key, "scheduled", ev[d].now)
           /\ (Become(d, Idle) \/ Decided(d))
        \/ Abort(d) /\ UNCHANGED <<job, occ, runs>>
    BY <1>9 DEF AcceptScheduledOccurrence, AfterGuard
  <2> HIDE DEF key
  <2>4. ev' \in [Daemons -> EvRows] /\ \A q \in Daemons : GoodEv(ev'[q])
    BY <1>2, <2>1, <2>3, AbortGood, DecidedGood, EvMoves
  <2>5. GoodJob(job') /\ occ' \in [Keys -> Decisions \cup {None}] /\ runs' \in Seq(RunRows)
    BY <1>2, <2>2, <2>3, AcceptGood, TypeParts DEF Authority, Triggers
  <2> QED BY <1>1, <1>9, <2>4, <2>5, TypeParts, TypePartsNext DEF AcceptScheduledOccurrence
<1>10. CASE SetCompletedIfAuthority(d)
  <2>1. ev[d].pc \notin {"idle", "load"} BY <1>10 DEF SetCompletedIfAuthority
  <2>2. ev' \in [Daemons -> EvRows] /\ \A q \in Daemons : GoodEv(ev'[q])
    BY <1>10, <2>1, RestGood, EvMoves, AbortGood DEF SetCompletedIfAuthority
  <2>3. GoodJob(job') BY <1>10, TypeParts, NoneAssumption DEF SetCompletedIfAuthority, Authority, GoodJob, JobRows
  <2> QED BY <1>1, <1>10, <2>2, <2>3, TypeParts, TypePartsNext DEF SetCompletedIfAuthority
<1>11. CASE SetCursorIfAuthority(d)
  <2>1. ev' \in [Daemons -> EvRows] /\ \A q \in Daemons : GoodEv(ev'[q])
    BY <1>11, AbortGood DEF SetCursorIfAuthority
  <2>2. GoodJob(job')
    BY <1>2, <1>11, TypeParts, NoneAssumption DEF SetCursorIfAuthority, Authority, GoodJob, JobRows
  <2> QED BY <1>1, <1>11, <2>1, <2>2, TypeParts, TypePartsNext DEF SetCursorIfAuthority
<1> QED BY <1>3, <1>4, <1>5, <1>6, <1>7, <1>8, <1>9, <1>10, <1>11 DEF Evaluate

\* The operator's commands.
LEMMA TypesCommand ==
    ASSUME TypeOK, StartEnqueue \/ StartRun \/ Command
    PROVE  TypeOK'
<1>1. UNCHANGED <<clock, file, ev, scenario>>
  BY DEF StartEnqueue, StartRun, Command, EnqueueEvent, SyncForRun, CreateManualRunIfAuthority, CreateCanaryRun,
         CliUntouched
<1>2. GoodCli(cli) /\ GoodCli(CliIdle) /\ cli.now \in 0 .. MaxTime BY TypeParts, IdleGood DEF GoodCli, CliRows
<1>3. CASE StartEnqueue
  <2>1. PICK id \in EventIds : cli' = [CliIdle EXCEPT !.pc = "enqueue", !.def = file, !.now = clock, !.event = id]
    BY <1>3 DEF StartEnqueue
  <2>2. GoodCli(cli') BY <1>2, <2>1, TypeParts DEF GoodCli, CliRows, CliIdle
  <2> QED BY <1>1, <1>3, <2>2, TypeParts, TypePartsNext DEF StartEnqueue, db
<1>4. CASE StartRun
  <2>1. GoodCli(cli') BY <1>2, <1>4, TypeParts DEF StartRun, GoodCli, CliRows, CliIdle
  <2> QED BY <1>1, <1>4, <2>1, TypeParts, TypePartsNext DEF StartRun, db
<1>5. CASE EnqueueEvent
  <2> DEFINE key == <<"event", cli.event>>
             j == Synced(cli.def, cli.now)
  <2>1. cli.def \in Definitions /\ key \in Keys BY <1>2, <1>5 DEF EnqueueEvent, GoodCli, Keys
  <2>2. GoodJob(j) /\ j # None BY <1>2, <2>1, SyncedGood
  <2>3. \/ (job' = j \/ UNCHANGED job) /\ UNCHANGED <<occ, runs>>
        \/ Accept(j, cli.def, key, "event", cli.now)
    BY <1>5 DEF EnqueueEvent
  <2> HIDE DEF key, j
  <2>4. GoodJob(job') /\ occ' \in [Keys -> Decisions \cup {None}] /\ runs' \in Seq(RunRows)
    BY <1>2, <2>1, <2>2, <2>3, AcceptGood, TypeParts DEF Triggers
  <2> QED BY <1>1, <1>2, <1>5, <2>4, TypeParts, TypePartsNext DEF EnqueueEvent
<1>6. CASE SyncForRun
  <2>1. cli.def \in Definitions BY <1>2, <1>6 DEF SyncForRun, GoodCli
  <2>2. GoodJob(job') BY <1>2, <1>6, <2>1, SyncedGood, TypeParts DEF SyncForRun
  <2>3. GoodCli([cli EXCEPT !.pc = "canary"]) /\ GoodCli([cli EXCEPT !.pc = "manual"])
    BY <1>2, <2>1 DEF GoodCli, CliRows
  <2>4. cli' \in {[cli EXCEPT !.pc = "canary"], [cli EXCEPT !.pc = "manual"], CliIdle}
    BY <1>6 DEF SyncForRun
  <2>5. GoodCli(cli') BY <1>2, <2>3, <2>4
  <2> QED BY <1>1, <1>6, <2>2, <2>5, TypeParts, TypePartsNext DEF SyncForRun
<1>7. CASE CreateManualRunIfAuthority \/ CreateCanaryRun
  <2>1. cli.def \in Definitions BY <1>2, <1>7 DEF CreateManualRunIfAuthority, CreateCanaryRun, GoodCli
  <2>2. \/ runs' = runs \/ runs' = Append(runs, NewRun(cli.def, None, "manual", cli.now))
        \/ runs' = Append(runs, NewRun(cli.def, None, "canary", cli.now))
    BY <1>7 DEF CreateManualRunIfAuthority, CreateCanaryRun
  <2>3. runs' \in Seq(RunRows) BY <1>2, <2>1, <2>2, NewRunGood, TypeParts DEF Triggers
  <2>4. GoodJob(job')
    BY <1>7, GuardPausedGood, TypeParts DEF CreateManualRunIfAuthority, CreateCanaryRun, Authority
  <2>5. cli' = CliIdle /\ UNCHANGED <<global, occ>> BY <1>7 DEF CreateManualRunIfAuthority, CreateCanaryRun
  <2> QED BY <1>1, <1>2, <2>3, <2>4, <2>5, TypeParts, TypePartsNext
<1> QED BY <1>3, <1>4, <1>5, <1>6, <1>7 DEF Command

\* What happens to a run after its acceptance keeps the types.
LEMMA MovedGood ==
    ASSUME TypeOK, NEW i \in DOMAIN runs, NEW phase \in Phases, NEW unread \in BOOLEAN, Moved(i, phase, unread)
    PROVE  TypeOK'
<1>1. runs \in Seq(RunRows) BY TypeParts
<1>2. runs' = [runs EXCEPT ![i].phase = phase, ![i].unread = unread] BY DEF Moved
<1>3. runs[i] \in RunRows BY <1>1
<1> DEFINE r == [runs[i] EXCEPT !.phase = phase, !.unread = unread]
<1>4. r \in RunRows BY <1>3 DEF RunRows
<1>5. runs' = [runs EXCEPT ![i] = r] BY <1>2
<1> HIDE DEF r
<1>6. runs' \in Seq(RunRows) BY <1>1, <1>4, <1>5
<1> QED BY <1>6, TypeParts, TypePartsNext DEF Moved

\* Every step of a daemon, a command, the operator and a run keeps the types.
LEMMA TypesNext == TypeOK /\ [Next]_vars => TypeOK'
<1> SUFFICES ASSUME TypeOK, [Next]_vars PROVE TypeOK' OBVIOUS
<1>1. CASE SetPaused
  <2>1. PICK paused \in BOOLEAN : job' = PauseSet(paused) BY <1>1 DEF SetPaused
  <2>2. job \in JobRows BY <1>1, TypeParts DEF SetPaused, GoodJob
  <2>3. PauseSet(paused) \in JobRows
        /\ (PauseSet(paused).paused <=> PauseSet(paused).reason # "none")
    BY <2>2 DEF PauseSet, JobRows, Reasons
  <2>4. GoodJob(job') BY <2>1, <2>3 DEF GoodJob
  <2> QED BY <1>1, <2>4, TypeParts, TypePartsNext DEF SetPaused
<1>2. CASE SetGlobalPaused
  BY <1>2, TypeParts, TypePartsNext DEF SetGlobalPaused
<1>3. CASE EditConfig
  <2>1. Here.definitions \subseteq Definitions BY TypeParts DEF Here, Definitions
  <2> QED BY <1>3, <2>1, TypeParts, TypePartsNext DEF EditConfig, db
<1>4. CASE RunAdmitted \/ RunRetired \/ MarkRead
  <2>1. \E i \in DOMAIN runs, phase \in Phases, unread \in BOOLEAN : Moved(i, phase, unread)
    <3>1. CASE RunAdmitted BY <3>1 DEF RunAdmitted, Phase, Phases
    <3>2. CASE RunRetired BY <3>2 DEF RunRetired, Phase, Phases
    <3>3. CASE MarkRead BY <3>3 DEF MarkRead, Unread, Phase, Phases
    <3> QED BY <1>4, <3>1, <3>2, <3>3
  <2> QED BY <2>1, MovedGood
<1>5. CASE Tick
  <2>1. Here.last \in 0 .. MaxTime /\ MaxTime \in Nat BY TypeParts, IntakeAssumption DEF Here
  <2>2. clock' \in 0 .. MaxTime BY <1>5, <2>1, TypeParts DEF Tick
  <2> QED BY <1>5, <2>2, TypeParts, TypePartsNext DEF Tick, db
<1>6. CASE Crash
  <2>1. ev' \in [Daemons -> EvRows] /\ \A q \in Daemons : GoodEv(ev'[q])
    BY <1>6, AbortGood, TypeParts DEF Crash
  <2>2. GoodCli(cli') BY <1>6, IdleGood, TypeParts DEF Crash
  <2> QED BY <1>6, <2>1, <2>2, TypeParts, TypePartsNext DEF Crash, db
<1>7. CASE UNCHANGED vars
  BY <1>7, TypeParts, TypePartsNext DEF vars
<1> QED BY <1>1, <1>2, <1>3, <1>4, <1>5, <1>6, <1>7, TypesEvaluate, TypesCommand DEF Next

\* The types of every column, every list and every command; a pause has its
\* reason and what a daemon works on is due in the definition it loaded.
THEOREM IntakeTyped == Spec => []TypeOK
BY TypesInit, TypesNext, PTL DEF Spec

-----------------------------------------------------------------------------
(* What a step does to the occurrences and the runs.                       *)

\* A decision is recorded once: it is never changed or taken back.
DecisionsKept == \A k \in Keys : occ[k] # None => occ'[k] = occ[k]

\* An undecided occurrence is accepted and its run appended.
OccurrenceAccepted ==
    \E def \in Definitions, key \in Keys, trigger \in {"scheduled", "event"}, now \in 0 .. MaxTime :
        /\ occ[key] = None /\ Decision(def, now) = "accepted"
        /\ occ' = [occ EXCEPT ![key] = "accepted"]
        /\ runs' = Append(runs, NewRun(def, key, trigger, now))
\* The operator runs the job, or the canary of an event job.
AttendedAccepted ==
    \E def \in Definitions, trigger \in {"manual", "canary"}, now \in 0 .. MaxTime :
        occ' = occ /\ runs' = Append(runs, NewRun(def, None, trigger, now))
\* A queued run is admitted, or any run ends or is read.
RunMoved ==
    \E i \in DOMAIN runs, phase \in {"active", "done"}, unread \in BOOLEAN :
        /\ phase = "active" => runs[i].phase = "queued"
        /\ occ' = occ /\ Moved(i, phase, unread)

\* acceptOccurrenceTx records a decision once, and appends the run only when it
\* accepts an occurrence that was undecided.
LEMMA AcceptSteps ==
    ASSUME TypeOK, NEW j, NEW def \in Definitions, NEW key \in Keys, NEW trigger \in {"scheduled", "event"},
           NEW now \in 0 .. MaxTime, Accept(j, def, key, trigger, now)
    PROVE  DecisionsKept /\ (runs' = runs \/ OccurrenceAccepted)
<1>1. occ \in [Keys -> Decisions \cup {None}] BY TypeParts
<1>2. DecisionsKept BY <1>1 DEF Accept, DecisionsKept
<1>3. runs' # runs => OccurrenceAccepted BY DEF Accept, OccurrenceAccepted
<1> QED BY <1>2, <1>3

\* Every step keeps the decisions, and touches the runs in one of three ways.
LEMMA RunSteps ==
    ASSUME TypeOK, [Next]_vars
    PROVE  DecisionsKept /\ (runs' = runs \/ OccurrenceAccepted \/ AttendedAccepted \/ RunMoved)
<1>1. occ \in [Keys -> Decisions \cup {None}] BY TypeParts
<1>2. ASSUME UNCHANGED <<occ, runs>> PROVE DecisionsKept /\ runs' = runs BY <1>2 DEF DecisionsKept
<1>3. ASSUME NEW d \in Daemons, RecordMissed(d) \/ RecordUnchanged(d) PROVE DecisionsKept /\ runs' = runs
  <2>1. PICK decision \in Decisions : RecordOccurrenceIfAuthority(d, decision)
    BY <1>3 DEF RecordMissed, RecordUnchanged, Decisions
  <2>2. DecisionsKept BY <1>1, <2>1 DEF RecordOccurrenceIfAuthority, Record, DecisionsKept
  <2> QED BY <1>3, <2>2 DEF RecordMissed, RecordUnchanged
<1>4. ASSUME NEW d \in Daemons, AcceptScheduledOccurrence(d)
      PROVE  DecisionsKept /\ (runs' = runs \/ OccurrenceAccepted)
  <2>1. GoodEv(ev[d]) /\ ev[d].now \in 0 .. MaxTime BY TypeParts DEF EvRows
  <2>2. ev[d].pc \notin {"idle", "load"} /\ ev[d].todo # {}
    BY <1>4, <2>1 DEF AcceptScheduledOccurrence, CanAccept, GoodEv
  <2>3. KeyOf(ev[d].def, Current(d)) \in Keys /\ ev[d].def \in Definitions BY <2>2, CurrentDue
  <2>4. \/ Accept(job, ev[d].def, KeyOf(ev[d].def, Current(d)), "scheduled", ev[d].now)
        \/ UNCHANGED <<occ, runs>>
    BY <1>4 DEF AcceptScheduledOccurrence
  <2> QED BY <1>2, <2>1, <2>3, <2>4, AcceptSteps
<1>5. ASSUME EnqueueEvent PROVE DecisionsKept /\ (runs' = runs \/ OccurrenceAccepted)
  <2>1. cli.def \in Definitions /\ <<"event", cli.event>> \in Keys /\ cli.now \in 0 .. MaxTime
    BY <1>5, TypeParts DEF EnqueueEvent, GoodCli, CliRows, Keys
  <2>2. \/ Accept(Synced(cli.def, cli.now), cli.def, <<"event", cli.event>>, "event", cli.now)
        \/ UNCHANGED <<occ, runs>>
    BY <1>5 DEF EnqueueEvent
  <2> QED BY <1>2, <2>1, <2>2, AcceptSteps
<1>6. ASSUME CreateManualRunIfAuthority \/ CreateCanaryRun
      PROVE  DecisionsKept /\ (runs' = runs \/ AttendedAccepted)
  <2>1. cli.def \in Definitions /\ cli.now \in 0 .. MaxTime
    BY <1>6, TypeParts DEF CreateManualRunIfAuthority, CreateCanaryRun, GoodCli, CliRows
  <2>2. occ' = occ BY <1>6 DEF CreateManualRunIfAuthority, CreateCanaryRun
  <2>3. runs' = runs \/ \E trigger \in {"manual", "canary"} : runs' = Append(runs, NewRun(cli.def, None, trigger, cli.now))
    BY <1>6 DEF CreateManualRunIfAuthority, CreateCanaryRun
  <2> QED BY <2>1, <2>2, <2>3 DEF AttendedAccepted, DecisionsKept
<1>7. ASSUME RunAdmitted \/ RunRetired \/ MarkRead PROVE DecisionsKept /\ RunMoved
  <2>1. ASSUME RunAdmitted PROVE RunMoved BY <2>1 DEF RunAdmitted, RunMoved, Phase, Moved
  <2>2. ASSUME RunRetired PROVE RunMoved BY <2>2 DEF RunRetired, RunMoved, Phase, Moved
  <2>3. ASSUME MarkRead PROVE RunMoved BY <2>3 DEF MarkRead, RunMoved, Unread, Phase, Moved
  <2>4. occ' = occ BY <1>7 DEF RunAdmitted, RunRetired, MarkRead, Moved
  <2> QED BY <1>7, <2>1, <2>2, <2>3, <2>4 DEF DecisionsKept
<1>8. ASSUME NEW d \in Daemons, \/ Ticker(d) \/ LoadConfig(d) \/ SyncJobAuthority(d) \/ ReadJob(d) \/ SourceGate(d)
                                \/ SetCompletedIfAuthority(d) \/ SetCursorIfAuthority(d)
      PROVE  UNCHANGED <<occ, runs>>
  BY <1>8 DEF Ticker, LoadConfig, SyncJobAuthority, ReadJob, SourceGate, SetCompletedIfAuthority,
              SetCursorIfAuthority, db
<1>9. ASSUME \/ StartEnqueue \/ StartRun \/ SyncForRun \/ SetPaused \/ SetGlobalPaused \/ EditConfig
             \/ Tick \/ Crash \/ UNCHANGED vars
      PROVE  UNCHANGED <<occ, runs>>
  BY <1>9 DEF StartEnqueue, StartRun, SyncForRun, SetPaused, SetGlobalPaused, EditConfig, Tick, Crash, db, vars
<1> QED BY <1>2, <1>3, <1>4, <1>5, <1>6, <1>7, <1>8, <1>9 DEF Next, Evaluate, Command

\* The runs are those of before and one more at the end.
LEMMA RunsAppended ==
    ASSUME runs \in Seq(RunRows), NEW r, runs' = Append(runs, r)
    PROVE  /\ Len(runs) \in Nat /\ DOMAIN runs = 1 .. Len(runs) /\ Len(runs) + 1 \notin DOMAIN runs
           /\ DOMAIN runs' = DOMAIN runs \cup {Len(runs) + 1}
           /\ runs'[Len(runs) + 1] = r /\ \A i \in DOMAIN runs : runs'[i] = runs[i]
OBVIOUS

\* A run that moves stays the run it was.
LEMMA RunsMoved ==
    ASSUME TypeOK, NEW i \in DOMAIN runs, NEW phase, NEW unread, Moved(i, phase, unread)
    PROVE  /\ DOMAIN runs' = DOMAIN runs
           /\ \A k \in DOMAIN runs : /\ runs'[k].def = runs[k].def /\ runs'[k].key = runs[k].key
                                     /\ runs'[k].trigger = runs[k].trigger /\ runs'[k].at = runs[k].at
                                     /\ runs'[k].phase = IF k = i THEN phase ELSE runs[k].phase
<1>1. runs \in Seq(RunRows) BY TypeParts
<1>2. ASSUME NEW k \in DOMAIN runs PROVE runs[k] \in RunRows BY <1>1
<1> QED BY <1>1, <1>2 DEF Moved, RunRows

\* Every accepted run is a run.
LEMMA RunType ==
    ASSUME TypeOK, NEW i \in DOMAIN runs
    PROVE  /\ runs[i] \in RunRows /\ runs[i].key \in Keys \cup {None} /\ runs[i].phase \in Phases
           /\ runs[i].def \in Definitions /\ runs[i].trigger \in Triggers /\ runs[i].at \in 0 .. MaxTime
<1>1. runs \in Seq(RunRows) BY TypeParts
<1>2. runs[i] \in RunRows BY <1>1
<1> QED BY <1>2 DEF RunRows

-----------------------------------------------------------------------------
(* One run per occurrence.                                                 *)

\* A new run belongs to an occurrence that was undecided, hence to no earlier
\* run, and its decision is never changed.
LEMMA OneRunNext == TypeOK /\ OneRunPerOccurrence /\ [Next]_vars => OneRunPerOccurrence'
<1> SUFFICES ASSUME TypeOK, OneRunPerOccurrence, [Next]_vars PROVE OneRunPerOccurrence' OBVIOUS
<1>1. DecisionsKept /\ (runs' = runs \/ OccurrenceAccepted \/ AttendedAccepted \/ RunMoved) BY RunSteps
<1>2. runs \in Seq(RunRows) BY TypeParts
<1>3. \A i \in DOMAIN runs : runs[i].key \in Keys \cup {None} BY RunType
<1>4. "accepted" # None /\ None \notin Keys BY NoneAssumption DEF Decisions
<1>5. CASE runs' = runs BY <1>1, <1>3, <1>4, <1>5 DEF OneRunPerOccurrence, DecisionsKept
<1>6. CASE OccurrenceAccepted
  <2>1. PICK def \in Definitions, key \in Keys, trigger \in {"scheduled", "event"}, now \in 0 .. MaxTime :
          /\ occ[key] = None /\ occ' = [occ EXCEPT ![key] = "accepted"]
          /\ runs' = Append(runs, NewRun(def, key, trigger, now))
    BY <1>6 DEF OccurrenceAccepted
  <2> DEFINE r == NewRun(def, key, trigger, now)
  <2>2. r.key = key BY DEF NewRun
  <2>3. occ'[key] = "accepted" BY <2>1, TypeParts
  <2> HIDE DEF r
  <2>4. DOMAIN runs' = DOMAIN runs \cup {Len(runs) + 1} /\ runs'[Len(runs) + 1] = r
        /\ \A i \in DOMAIN runs : runs'[i] = runs[i]
    BY <1>2, <2>1, RunsAppended DEF r
  <2>5. \A i \in DOMAIN runs : runs[i].key # key BY <1>4, <2>1 DEF OneRunPerOccurrence
  <2>6. \A i \in DOMAIN runs' : runs'[i].key # None => occ'[runs'[i].key] = "accepted"
    BY <1>1, <1>3, <1>4, <2>2, <2>3, <2>4 DEF OneRunPerOccurrence, DecisionsKept
  <2>7. \A i, k \in DOMAIN runs' : runs'[i].key # None /\ runs'[k].key = runs'[i].key => k = i
    BY <2>2, <2>4, <2>5 DEF OneRunPerOccurrence
  <2> QED BY <2>6, <2>7 DEF OneRunPerOccurrence
<1>7. CASE AttendedAccepted
  <2>1. PICK def \in Definitions, trigger \in {"manual", "canary"}, now \in 0 .. MaxTime :
          occ' = occ /\ runs' = Append(runs, NewRun(def, None, trigger, now))
    BY <1>7 DEF AttendedAccepted
  <2> DEFINE r == NewRun(def, None, trigger, now)
  <2>2. r.key = None BY DEF NewRun
  <2> HIDE DEF r
  <2>3. DOMAIN runs' = DOMAIN runs \cup {Len(runs) + 1} /\ runs'[Len(runs) + 1] = r
        /\ \A i \in DOMAIN runs : runs'[i] = runs[i]
    BY <1>2, <2>1, RunsAppended DEF r
  <2> QED BY <2>1, <2>2, <2>3 DEF OneRunPerOccurrence
<1>8. CASE RunMoved
  <2>1. occ' = occ /\ DOMAIN runs' = DOMAIN runs /\ \A i \in DOMAIN runs : runs'[i].key = runs[i].key
    BY <1>8, RunsMoved DEF RunMoved
  <2> QED BY <2>1 DEF OneRunPerOccurrence
<1> QED BY <1>1, <1>5, <1>6, <1>7, <1>8

\* Two daemons, a repeated tick and an event delivered twice make one run.
THEOREM OccurrencesRunOnce == Spec => []OneRunPerOccurrence
<1>1. Init => OneRunPerOccurrence BY DEF Init, OneRunPerOccurrence
<1> QED BY <1>1, OneRunNext, TypesInit, TypesNext, PTL DEF Spec

-----------------------------------------------------------------------------
(* Overlap and the daily limit.                                            *)

\* What an accepted decision has found among the runs.
LEMMA DecisionMeans ==
    ASSUME NEW def, NEW now, Decision(def, now) = "accepted"
    PROVE  /\ ~(Cardinality(OfDay(Day(now))) >= def.daily)
           /\ def.overlap = "forbid" => \A i \in DOMAIN runs : runs[i].phase \notin {"queued", "active"}
           /\ def.overlap = "queue_one" => \A i \in DOMAIN runs : runs[i].phase # "queued"
BY DEF Decision, Phase

\* An acceptance finds no run it may not join, and runs only move on.
LEMMA OverlapNext == TypeOK /\ OverlapHolds /\ [Next]_vars => OverlapHolds'
<1> SUFFICES ASSUME TypeOK, OverlapHolds, [Next]_vars PROVE OverlapHolds' OBVIOUS
<1>1. runs' = runs \/ OccurrenceAccepted \/ AttendedAccepted \/ RunMoved BY RunSteps
<1>2. runs \in Seq(RunRows) BY TypeParts
<1>3. \A i \in DOMAIN runs : runs[i].phase \in {"queued", "active", "done"} BY RunType DEF Phases
<1>4. CASE runs' = runs BY <1>4 DEF OverlapHolds
<1>5. CASE OccurrenceAccepted
  <2>1. PICK def \in Definitions, key \in Keys, trigger \in {"scheduled", "event"}, now \in 0 .. MaxTime :
          Decision(def, now) = "accepted" /\ runs' = Append(runs, NewRun(def, key, trigger, now))
    BY <1>5 DEF OccurrenceAccepted
  <2> DEFINE r == NewRun(def, key, trigger, now)
  <2>2. r.def = def BY DEF NewRun
  <2> HIDE DEF r
  <2>3. DOMAIN runs = 1 .. Len(runs) /\ Len(runs) \in Nat
        /\ DOMAIN runs' = DOMAIN runs \cup {Len(runs) + 1} /\ runs'[Len(runs) + 1] = r
        /\ \A i \in DOMAIN runs : runs'[i] = runs[i]
    BY <1>2, <2>1, RunsAppended DEF r
  <2>4. def.overlap = "forbid" => \A i \in DOMAIN runs : runs[i].phase = "done" BY <1>3, <2>1, DecisionMeans
  <2>5. def.overlap = "queue_one" => \A i \in DOMAIN runs : runs[i].phase # "queued" BY <2>1, DecisionMeans
  <2> SUFFICES ASSUME NEW i \in DOMAIN runs', NEW k \in DOMAIN runs', i < k, runs'[k].trigger \in {"scheduled", "event"}
               PROVE  /\ runs'[k].def.overlap = "forbid" /\ runs'[k].phase # "done" => runs'[i].phase = "done"
                      /\ runs'[k].def.overlap = "queue_one" /\ runs'[k].phase = "queued" => runs'[i].phase # "queued"
    BY DEF OverlapHolds
  <2>6. i \in DOMAIN runs BY <2>3
  <2>7. CASE k \in DOMAIN runs BY <2>3, <2>6, <2>7 DEF OverlapHolds
  <2>8. CASE k = Len(runs) + 1 BY <2>2, <2>3, <2>4, <2>5, <2>6, <2>8
  <2> QED BY <2>3, <2>7, <2>8
<1>6. CASE AttendedAccepted
  <2>1. PICK def \in Definitions, trigger \in {"manual", "canary"}, now \in 0 .. MaxTime :
          runs' = Append(runs, NewRun(def, None, trigger, now))
    BY <1>6 DEF AttendedAccepted
  <2> DEFINE r == NewRun(def, None, trigger, now)
  <2>2. r.trigger \notin {"scheduled", "event"} BY DEF NewRun
  <2> HIDE DEF r
  <2>3. DOMAIN runs = 1 .. Len(runs) /\ Len(runs) \in Nat
        /\ DOMAIN runs' = DOMAIN runs \cup {Len(runs) + 1} /\ runs'[Len(runs) + 1] = r
        /\ \A i \in DOMAIN runs : runs'[i] = runs[i]
    BY <1>2, <2>1, RunsAppended DEF r
  <2>4. ASSUME NEW i \in DOMAIN runs', NEW k \in DOMAIN runs', i < k, runs'[k].trigger \in {"scheduled", "event"}
        PROVE  i \in DOMAIN runs /\ k \in DOMAIN runs
    BY <2>2, <2>3, <2>4
  <2> QED BY <2>3, <2>4 DEF OverlapHolds
<1>7. CASE RunMoved
  <2>1. PICK i \in DOMAIN runs, phase \in {"active", "done"}, unread \in BOOLEAN :
          (phase = "active" => runs[i].phase = "queued") /\ Moved(i, phase, unread)
    BY <1>7 DEF RunMoved
  <2>2. DOMAIN runs' = DOMAIN runs
        /\ \A k \in DOMAIN runs : runs'[k].def = runs[k].def /\ runs'[k].trigger = runs[k].trigger
                                  /\ runs'[k].phase = IF k = i THEN phase ELSE runs[k].phase
    BY <2>1, RunsMoved
  <2>3. \A k \in DOMAIN runs : /\ runs'[k].phase = "queued" => runs[k].phase = "queued"
                               /\ runs'[k].phase # "done" => runs[k].phase # "done"
                               /\ runs[k].phase = "done" => runs'[k].phase = "done"
    BY <2>1, <2>2
  <2> QED BY <2>2, <2>3 DEF OverlapHolds
<1> QED BY <1>1, <1>4, <1>5, <1>6, <1>7

\* A run accepted under "forbid" joins no unfinished run of its job, and one
\* accepted under "queue_one" no queued run, whatever was accepted, admitted
\* or cancelled between the checks of other processes.
THEOREM OverlapsHold == Spec => []OverlapHolds
<1>1. Init => OverlapHolds BY DEF Init, OverlapHolds
<1> QED BY <1>1, OverlapNext, TypesInit, TypesNext, PTL DEF Spec

\* The runs up to the k-th that were accepted on its day.
SameDay(k) == {i \in 1 .. k : Day(runs[i].at) = Day(runs[k].at)}

\* An acceptance finds room on its day, and no run changes its day.
LEMMA DailyNext == TypeOK /\ DailyLimitHolds /\ [Next]_vars => DailyLimitHolds'
<1> SUFFICES ASSUME TypeOK, DailyLimitHolds, [Next]_vars, NEW k \in DOMAIN runs',
                    runs'[k].trigger \in {"scheduled", "event"}
             PROVE  Cardinality({i \in 1 .. k : Day(runs'[i].at) = Day(runs'[k].at)}) <= runs'[k].def.daily
  BY DEF DailyLimitHolds
<1>1. runs' = runs \/ OccurrenceAccepted \/ AttendedAccepted \/ RunMoved BY RunSteps
<1>2. runs \in Seq(RunRows) BY TypeParts
<1>3. DOMAIN runs = 1 .. Len(runs) /\ Len(runs) \in Nat BY <1>2
<1>4. ASSUME k \in DOMAIN runs,
             \A i \in DOMAIN runs : /\ runs'[i].def = runs[i].def /\ runs'[i].trigger = runs[i].trigger
                                    /\ runs'[i].at = runs[i].at
      PROVE  Cardinality({i \in 1 .. k : Day(runs'[i].at) = Day(runs'[k].at)}) <= runs'[k].def.daily
  <2>1. 1 .. k \subseteq DOMAIN runs BY <1>3, <1>4
  <2>2. {i \in 1 .. k : Day(runs'[i].at) = Day(runs'[k].at)} = SameDay(k) BY <1>4, <2>1 DEF SameDay
  <2>3. Cardinality(SameDay(k)) <= runs[k].def.daily BY <1>4 DEF DailyLimitHolds, SameDay
  <2> QED BY <1>4, <2>2, <2>3
<1>5. CASE runs' = runs BY <1>4, <1>5
<1>6. CASE OccurrenceAccepted
  <2>1. PICK def \in Definitions, key \in Keys, trigger \in {"scheduled", "event"}, now \in 0 .. MaxTime :
          Decision(def, now) = "accepted" /\ runs' = Append(runs, NewRun(def, key, trigger, now))
    BY <1>6 DEF OccurrenceAccepted
  <2> DEFINE r == NewRun(def, key, trigger, now)
  <2>2. r.def = def /\ r.at = now BY DEF NewRun
  <2> HIDE DEF r
  <2>3. DOMAIN runs' = DOMAIN runs \cup {Len(runs) + 1} /\ runs'[Len(runs) + 1] = r
        /\ \A i \in DOMAIN runs : runs'[i] = runs[i]
    BY <1>2, <2>1, RunsAppended DEF r
  <2>4. CASE k \in DOMAIN runs BY <1>4, <2>3, <2>4
  <2>5. CASE k = Len(runs) + 1
    <3> DEFINE S == OfDay(Day(now))
               T == {i \in 1 .. k : Day(runs'[i].at) = Day(runs'[k].at)}
    <3>1. IsFiniteSet(1 .. Len(runs))
      <4>1. Len(runs) \in Nat BY <1>3
      <4> QED BY <4>1, RangeFinite
    <3>2. IsFiniteSet(S) BY <1>3, <3>1, FS_Subset DEF OfDay
    <3>3. 1 .. k = DOMAIN runs \cup {k} /\ k \notin DOMAIN runs BY <1>3, <2>5
    <3>4. T = S \cup {k} /\ k \notin S BY <2>2, <2>3, <2>5, <3>3 DEF OfDay
    <3>5. Cardinality(S) \in Nat BY <3>2, FS_CardinalityType
    <3>6. Cardinality(S \cup {k}) = Cardinality(S) + 1 BY <3>2, <3>4, FS_AddElement
    <3>7. ~(Cardinality(S) >= def.daily) BY <2>1, DecisionMeans
    <3>8. def.daily \in Nat BY DefinitionType
    <3>9. runs'[k].def.daily = def.daily BY <2>2, <2>3, <2>5
    <3> HIDE DEF S, T
    <3>10. Cardinality(T) <= runs'[k].def.daily BY <3>4, <3>5, <3>6, <3>7, <3>8, <3>9
    <3> QED BY <3>10 DEF T
  <2> QED BY <2>3, <2>4, <2>5
<1>7. CASE AttendedAccepted
  <2>1. PICK def \in Definitions, trigger \in {"manual", "canary"}, now \in 0 .. MaxTime :
          runs' = Append(runs, NewRun(def, None, trigger, now))
    BY <1>7 DEF AttendedAccepted
  <2> DEFINE r == NewRun(def, None, trigger, now)
  <2>2. r.trigger \notin {"scheduled", "event"} BY DEF NewRun
  <2> HIDE DEF r
  <2>3. DOMAIN runs' = DOMAIN runs \cup {Len(runs) + 1} /\ runs'[Len(runs) + 1] = r
        /\ \A i \in DOMAIN runs : runs'[i] = runs[i]
    BY <1>2, <2>1, RunsAppended DEF r
  <2>4. k \in DOMAIN runs BY <2>2, <2>3
  <2> QED BY <1>4, <2>3, <2>4
<1>8. CASE RunMoved
  <2>1. PICK i \in DOMAIN runs, phase \in {"active", "done"}, unread \in BOOLEAN : Moved(i, phase, unread)
    BY <1>8 DEF RunMoved
  <2>2. DOMAIN runs' = DOMAIN runs
        /\ \A j \in DOMAIN runs : runs'[j].def = runs[j].def /\ runs'[j].trigger = runs[j].trigger
                                  /\ runs'[j].at = runs[j].at
    BY <2>1, RunsMoved
  <2> QED BY <1>4, <2>2
<1> QED BY <1>1, <1>5, <1>6, <1>7, <1>8

\* The schedule and events never accept more runs on a day than the
\* definition they act under allows, with every attended run counted.
THEOREM DailyLimitsHold == Spec => []DailyLimitHolds
<1>1. Init => DailyLimitHolds BY DEF Init, DailyLimitHolds
<1> QED BY <1>1, DailyNext, TypesInit, TypesNext, PTL DEF Spec

-----------------------------------------------------------------------------
(* The saved authority and the cursor.                                     *)

\* A step of the job's row: the definition stays or moves to a later
\* revision, and the cursor never goes back.
JobForward ==
    job # None => /\ job' # None
                  /\ job'.def = job.def \/ job.def.rev < job'.def.rev
                  /\ job.cursor <= job'.cursor

\* What the cursor is set to by the pass of a daemon.
CursorSet(d) == SetCursorIfAuthority(d) /\ Authority(ev[d].def, ev[d].pc # "skipDisabled") /\ job'.cursor = ev[d].now

\* syncJobAuthorityTx moves the revision forward and keeps the cursor.
LEMMA SyncedForward ==
    ASSUME TypeOK, NEW def \in Definitions, NEW now \in 0 .. MaxTime, CanSync(def), job # None
    PROVE  /\ Synced(def, now).def = def /\ (def = job.def \/ job.def.rev < def.rev)
           /\ Synced(def, now).cursor = job.cursor /\ Synced(def, now) # None
<1>1. job \in JobRows BY TypeParts DEF GoodJob
<1>2. Synced(def, now).cursor = job.cursor BY <1>1 DEF Synced, JobRows
<1> QED BY <1>2, SyncedGood DEF CanSync

\* The definition only moves forward, and only SetCursorIfAuthority moves the
\* cursor, to the time of the pass.
LEMMA JobSteps ==
    ASSUME TypeOK, [Next]_vars
    PROVE  /\ JobForward
           /\ job # None /\ job'.cursor # job.cursor => \E d \in Daemons : CursorSet(d)
<1> SUFFICES ASSUME job # None
             PROVE  /\ job' # None
                    /\ job'.def = job.def \/ job.def.rev < job'.def.rev
                    /\ job.cursor <= job'.cursor
                    /\ job'.cursor # job.cursor => \E d \in Daemons : CursorSet(d)
  BY DEF JobForward
<1>1. job \in JobRows /\ GoodJob(job) BY TypeParts DEF GoodJob
<1>2. job.cursor \in Nat /\ job.cursor <= job.cursor BY <1>1, IntakeAssumption DEF JobRows
<1>3. ASSUME job' = job
      PROVE  job' # None /\ job'.def = job.def /\ job.cursor <= job'.cursor /\ job'.cursor = job.cursor
  BY <1>2, <1>3
<1>4. ASSUME NEW j, j # None, j.def = job.def \/ job.def.rev < j.def.rev, j.cursor = job.cursor,
             job' = j \/ job' = GuardPaused(j), GoodJob(j)
      PROVE  /\ job' # None /\ job.cursor <= job'.cursor /\ job'.cursor = job.cursor
             /\ job'.def = job.def \/ job.def.rev < job'.def.rev
  BY <1>2, <1>4, GuardPausedGood
<1>5. ASSUME NEW d \in Daemons, SyncJobAuthority(d)
      PROVE  /\ job' # None /\ job.cursor <= job'.cursor /\ job'.cursor = job.cursor
             /\ job'.def = job.def \/ job.def.rev < job'.def.rev
  <2>1. ev[d].def \in Definitions /\ ev[d].now \in 0 .. MaxTime
    BY <1>5, TypeParts DEF SyncJobAuthority, GoodEv, EvRows
  <2> QED BY <1>3, <1>4, <1>5, <2>1, SyncedForward, SyncedGood DEF SyncJobAuthority
<1>6. ASSUME NEW d \in Daemons, AcceptScheduledOccurrence(d)
      PROVE  /\ job' # None /\ job.cursor <= job'.cursor /\ job'.cursor = job.cursor
             /\ job'.def = job.def \/ job.def.rev < job'.def.rev
  <2>1. job' = job \/ job' = GuardPaused(job) BY <1>6 DEF AcceptScheduledOccurrence, Accept
  <2> QED BY <1>1, <1>4, <2>1
<1>7. ASSUME NEW d \in Daemons, SetCompletedIfAuthority(d)
      PROVE  job' # None /\ job'.def = job.def /\ job.cursor <= job'.cursor /\ job'.cursor = job.cursor
  <2>1. job' = [job EXCEPT !.completed = TRUE] \/ job' = job BY <1>7 DEF SetCompletedIfAuthority
  <2>2. [job EXCEPT !.completed = TRUE] \in JobRows BY <1>1 DEF JobRows
  <2>3. job' \in JobRows /\ job'.def = job.def /\ job'.cursor = job.cursor BY <1>1, <2>1, <2>2 DEF JobRows
  <2> QED BY <1>2, <2>3, NoneAssumption
<1>8. ASSUME NEW d \in Daemons, SetCursorIfAuthority(d)
      PROVE  /\ job' # None /\ job'.def = job.def /\ job.cursor <= job'.cursor
             /\ job'.cursor # job.cursor => CursorSet(d)
  <2>1. ev[d].now \in 0 .. MaxTime /\ ev[d].now \in Nat BY TypeParts, IntakeAssumption DEF EvRows
  <2>2. \/ job' = job
        \/ /\ job' = [job EXCEPT !.cursor = ev[d].now] /\ ev[d].now > job.cursor
           /\ Authority(ev[d].def, ev[d].pc # "skipDisabled")
    BY <1>8 DEF SetCursorIfAuthority
  <2>3. [job EXCEPT !.cursor = ev[d].now] \in JobRows BY <1>1, <2>1 DEF JobRows
  <2>4. CASE job' = job BY <1>3, <2>4
  <2>5. CASE job' # job
    <3>1. job' \in JobRows /\ job'.def = job.def /\ job'.cursor = ev[d].now BY <1>1, <2>2, <2>3, <2>5 DEF JobRows
    <3> QED BY <1>2, <1>8, <2>1, <2>2, <2>5, <3>1, NoneAssumption DEF CursorSet
  <2> QED BY <2>4, <2>5
<1>9. ASSUME EnqueueEvent \/ SyncForRun
      PROVE  /\ job' # None /\ job.cursor <= job'.cursor /\ job'.cursor = job.cursor
             /\ job'.def = job.def \/ job.def.rev < job'.def.rev
  <2>1. cli.def \in Definitions /\ cli.now \in 0 .. MaxTime
    BY <1>9, TypeParts DEF EnqueueEvent, SyncForRun, GoodCli, CliRows
  <2> DEFINE j == Synced(cli.def, cli.now)
  <2>2. job' = job \/ (CanSync(cli.def) /\ (job' = j \/ job' = GuardPaused(j)))
    BY <1>9 DEF EnqueueEvent, SyncForRun, Accept
  <2>3. CanSync(cli.def) => /\ j # None /\ GoodJob(j) /\ j.cursor = job.cursor
                            /\ j.def = job.def \/ job.def.rev < j.def.rev
    BY <2>1, SyncedForward, SyncedGood
  <2> HIDE DEF j
  <2> QED BY <1>3, <1>4, <2>2, <2>3
<1>10. ASSUME CreateManualRunIfAuthority \/ CreateCanaryRun
       PROVE  /\ job' # None /\ job.cursor <= job'.cursor /\ job'.cursor = job.cursor
              /\ job'.def = job.def \/ job.def.rev < job'.def.rev
  <2>1. job' = job \/ job' = GuardPaused(job) BY <1>10 DEF CreateManualRunIfAuthority, CreateCanaryRun
  <2> QED BY <1>1, <1>4, <2>1
<1>11. ASSUME SetPaused
       PROVE  job' # None /\ job'.def = job.def /\ job.cursor <= job'.cursor /\ job'.cursor = job.cursor
  <2>1. PICK paused \in BOOLEAN : job' = PauseSet(paused) BY <1>11 DEF SetPaused
  <2>2. PauseSet(paused) \in JobRows /\ PauseSet(paused).def = job.def /\ PauseSet(paused).cursor = job.cursor
    BY <1>1 DEF PauseSet, JobRows, Reasons
  <2> QED BY <1>2, <2>1, <2>2, NoneAssumption
<1>12. ASSUME NEW d \in Daemons, \/ Ticker(d) \/ LoadConfig(d) \/ ReadJob(d) \/ RecordMissed(d) \/ SourceGate(d)
                                 \/ RecordUnchanged(d)
       PROVE  job' = job
  BY <1>12 DEF Ticker, LoadConfig, ReadJob, RecordMissed, SourceGate, RecordUnchanged, db
<1>13. ASSUME \/ StartEnqueue \/ StartRun \/ SetGlobalPaused \/ EditConfig \/ RunAdmitted \/ RunRetired
              \/ MarkRead \/ Tick \/ Crash \/ UNCHANGED vars
       PROVE  job' = job
  BY <1>13 DEF StartEnqueue, StartRun, SetGlobalPaused, EditConfig, RunAdmitted, RunRetired, MarkRead, Moved,
               Tick, Crash, db, vars
<1>14. CASE \E d \in Daemons : Ticker(d) \/ Evaluate(d)
  BY <1>3, <1>5, <1>6, <1>7, <1>8, <1>12, <1>14 DEF Evaluate
<1>15. CASE Command BY <1>9, <1>10, <1>15 DEF Command
<1> QED BY <1>3, <1>11, <1>13, <1>14, <1>15 DEF Next

\* A stale file never takes the saved definition back.
THEOREM AuthorityMovesForward == Spec => AuthorityForward
<1> DEFINE A == job # None => job' # None /\ (job'.def = job.def \/ job.def.rev < job'.def.rev)
<1>1. TypeOK /\ [Next]_vars => [A]_vars BY JobSteps DEF JobForward
<1> QED BY <1>1, TypesInit, TypesNext, PTL DEF Spec, AuthorityForward

\* Every run but a canary is accepted against the job's row as it is then.
LEMMA AcceptedNow ==
    ASSUME TypeOK, [Next]_vars, NEW i \in DOMAIN runs', i \notin DOMAIN runs, runs'[i].trigger # "canary"
    PROVE  /\ job'.def = runs'[i].def /\ job'.def.enabled /\ ~job'.paused /\ ~global
           /\ ~GuardTripped(job'.def)
<1>1. runs \in Seq(RunRows) BY TypeParts
<1>2. ASSUME NEW def, NEW key, NEW trigger, NEW now, runs' = Append(runs, NewRun(def, key, trigger, now))
      PROVE  runs'[i].def = def /\ runs'[i].trigger = trigger
  <2> DEFINE r == NewRun(def, key, trigger, now)
  <2>1. r.def = def /\ r.trigger = trigger BY DEF NewRun
  <2> HIDE DEF r
  <2>2. DOMAIN runs' = DOMAIN runs \cup {Len(runs) + 1} /\ runs'[Len(runs) + 1] = r
    BY <1>1, <1>2, RunsAppended DEF r
  <2> QED BY <2>1, <2>2
<1>3. CASE \E d \in Daemons : AcceptScheduledOccurrence(d)
  <2>1. PICK d \in Daemons : AcceptScheduledOccurrence(d) BY <1>3
  <2>2. /\ Authority(ev[d].def, TRUE) /\ ~GuardTripped(ev[d].def) /\ job' = job
        /\ runs' = Append(runs, NewRun(ev[d].def, KeyOf(ev[d].def, Current(d)), "scheduled", ev[d].now))
    BY <2>1 DEF AcceptScheduledOccurrence, Accept
  <2> QED BY <1>2, <2>2 DEF Authority
<1>4. CASE EnqueueEvent
  <2>1. cli.def \in Definitions /\ cli.now \in 0 .. MaxTime
    BY <1>4, TypeParts DEF EnqueueEvent, GoodCli, CliRows
  <2>2. /\ job' = Synced(cli.def, cli.now) /\ ~GuardTripped(cli.def)
        /\ cli.def.enabled /\ ~Synced(cli.def, cli.now).paused /\ ~global
        /\ runs' = Append(runs, NewRun(cli.def, <<"event", cli.event>>, "event", cli.now))
    BY <1>4 DEF EnqueueEvent, Accept
  <2> QED BY <1>2, <2>1, <2>2, SyncedGood
<1>5. CASE CreateManualRunIfAuthority
  <2>1. /\ Authority(cli.def, TRUE) /\ ~GuardTripped(cli.def) /\ job' = job
        /\ runs' = Append(runs, NewRun(cli.def, None, "manual", cli.now))
    BY <1>5 DEF CreateManualRunIfAuthority
  <2> QED BY <1>2, <2>1 DEF Authority
<1>6. ~CreateCanaryRun BY <1>2 DEF CreateCanaryRun
<1>7. ASSUME RunAdmitted \/ RunRetired \/ MarkRead PROVE FALSE
  <2>1. PICK k \in DOMAIN runs, phase \in {"active", "done"}, unread \in BOOLEAN : Moved(k, phase, unread)
    BY <1>7 DEF RunAdmitted, RunRetired, MarkRead, Unread, Phase
  <2> QED BY <2>1, RunsMoved
<1>8. ASSUME NEW d \in Daemons, \/ Ticker(d) \/ LoadConfig(d) \/ SyncJobAuthority(d) \/ ReadJob(d) \/ RecordMissed(d)
                                \/ SourceGate(d) \/ RecordUnchanged(d) \/ SetCompletedIfAuthority(d)
                                \/ SetCursorIfAuthority(d)
      PROVE  FALSE
  BY <1>8 DEF Ticker, LoadConfig, SyncJobAuthority, ReadJob, RecordMissed, SourceGate, RecordUnchanged,
              SetCompletedIfAuthority, SetCursorIfAuthority, db
<1>9. ASSUME \/ StartEnqueue \/ StartRun \/ SyncForRun \/ SetPaused \/ SetGlobalPaused \/ EditConfig
             \/ Tick \/ Crash \/ UNCHANGED vars
      PROVE  FALSE
  BY <1>9 DEF StartEnqueue, StartRun, SyncForRun, SetPaused, SetGlobalPaused, EditConfig, Tick, Crash, db, vars
<1> QED BY <1>3, <1>4, <1>5, <1>6, <1>7, <1>8, <1>9 DEF Next, Evaluate, Command

\* No run is accepted for a paused, disabled or revised job or a full inbox.
THEOREM RunsAcceptedUnderAuthority == Spec => AcceptedUnderAuthority
<1> DEFINE A == \A i \in DOMAIN runs' \ DOMAIN runs : runs'[i].trigger # "canary" =>
                    /\ job'.def = runs'[i].def /\ job'.def.enabled /\ ~job'.paused /\ ~global
                    /\ ~GuardTripped(job'.def)
<1>1. TypeOK /\ [Next]_vars => [A]_vars BY AcceptedNow
<1> QED BY <1>1, TypesInit, TypesNext, PTL DEF Spec, AcceptedUnderAuthority

\* What a daemon in the middle of a pass knows: the job is synchronized, and
\* every moment due up to its time that has no decision yet is still on its
\* list, or one of the same wall-clock minute; before it completes a once job
\* the occurrence is decided.
DueCovered(j, decided, def, now, todo) ==
    \A m \in def.due : j.cursor < m /\ m <= now =>
        decided[KeyOf(def, m)] # None \/ \E e \in todo : Wall[e] = Wall[m]
Covered(d) ==
    /\ ev[d].pc = "skipDisabled" => ~ev[d].def.enabled
    /\ ev[d].pc \notin {"idle", "load", "sync"} => job # None
    /\ ev[d].pc \in {"occurrence", "accept", "unchanged", "complete"} =>
          DueCovered(job, occ, ev[d].def, ev[d].now, ev[d].todo)
    /\ ev[d].pc = "complete" => occ[KeyOf(ev[d].def, Current(d))] # None
EvCovers == \A d \in Daemons : Covered(d)

\* The cursor is a moment, or 0.
LEMMA CursorType ==
    ASSUME TypeOK, job # None
    PROVE  job.cursor \in 0 .. MaxTime /\ job.cursor \in Nat
BY TypeParts, IntakeAssumption DEF GoodJob, JobRows

\* The same of the next state.
LEMMA CursorTypeNext ==
    ASSUME TypeOK', job' # None
    PROVE  job'.cursor \in 0 .. MaxTime /\ job'.cursor \in Nat
BY TypePartsNext, IntakeAssumption DEF GoodJob, JobRows

\* What was covered stays covered on the same or a later list: decisions are
\* kept and the cursor does not go back.
LEMMA DueCoveredKept ==
    ASSUME TypeOK, TypeOK', DecisionsKept, JobForward, job # None, NEW def \in Definitions, NEW now \in 0 .. MaxTime,
           NEW S, NEW T, \A e \in S : e \in T \/ occ'[KeyOf(def, e)] # None,
           DueCovered(job, occ, def, now, S)
    PROVE  DueCovered(job', occ', def, now, T)
<1> SUFFICES ASSUME NEW m \in def.due, job'.cursor < m, m <= now, \A e \in T : Wall[e] # Wall[m]
             PROVE  occ'[KeyOf(def, m)] # None
  BY DEF DueCovered
<1>1. m \in Nat /\ KeyOf(def, m) \in Keys BY KeyType, IntakeAssumption
<1>2. job.cursor <= job'.cursor /\ job' # None BY DEF JobForward
<1>3. job.cursor < m BY <1>1, <1>2, CursorType, CursorTypeNext
<1>4. CASE occ[KeyOf(def, m)] # None BY <1>1, <1>4 DEF DecisionsKept
<1>5. CASE \E e \in S : Wall[e] = Wall[m]
  <2>1. PICK e \in S : Wall[e] = Wall[m] BY <1>5
  <2>2. occ'[KeyOf(def, e)] # None BY <2>1
  <2> QED BY <2>1, <2>2 DEF KeyOf
<1> QED BY <1>1, <1>3, <1>4, <1>5 DEF DueCovered

\* A daemon that stands still, or asks Git, covers what it has covered, whatever
\* the others record, pause or synchronize meanwhile.
LEMMA CoveredKept ==
    ASSUME TypeOK, TypeOK', DecisionsKept, JobForward, NEW d \in Daemons, Covered(d),
           ev'[d].pc = ev[d].pc \/ (ev[d].pc = "occurrence" /\ ev'[d].pc \in {"accept", "unchanged"}),
           ev'[d].def = ev[d].def, ev'[d].now = ev[d].now, ev'[d].todo = ev[d].todo
    PROVE  Covered(d)'
<1>1. ev'[d].pc = "skipDisabled" => ~ev'[d].def.enabled BY DEF Covered
<1>2. ev'[d].pc \notin {"idle", "load", "sync"} => job # None /\ job' # None BY DEF Covered, JobForward
<1>3. ASSUME ev'[d].pc \in {"occurrence", "accept", "unchanged", "complete"}
      PROVE  DueCovered(job', occ', ev'[d].def, ev'[d].now, ev'[d].todo)
  <2>1. ev[d].def \in Definitions /\ ev[d].now \in 0 .. MaxTime BY <1>3, TypeParts DEF GoodEv, EvRows
  <2>2. DueCovered(job, occ, ev[d].def, ev[d].now, ev[d].todo) BY <1>3 DEF Covered
  <2> QED BY <1>2, <1>3, <2>1, <2>2, DueCoveredKept
<1>4. ASSUME ev'[d].pc = "complete" PROVE occ'[KeyOf(ev'[d].def, Min(ev'[d].todo))] # None
  <2>1. ev[d].pc = "complete" /\ ev[d].todo # {} BY <1>4, TypeParts DEF GoodEv
  <2>2. KeyOf(ev[d].def, Current(d)) \in Keys BY <2>1, CurrentDue
  <2>3. occ[KeyOf(ev[d].def, Current(d))] # None BY <2>1 DEF Covered
  <2> QED BY <2>2, <2>3 DEF DecisionsKept, Current
<1> QED BY <1>1, <1>2, <1>3, <1>4 DEF Covered, Current

\* Another list, or none.
LEMMA CoveredStart ==
    ASSUME NEW d \in Daemons, ev'[d].pc \in {"idle", "load", "sync"} PROVE Covered(d)'
BY DEF Covered

\* The current occurrence is decided and leaves the list.
LEMMA CoveredRest ==
    ASSUME TypeOK, TypeOK', DecisionsKept, JobForward, NEW d \in Daemons, Covered(d),
           ev[d].pc \in {"occurrence", "accept", "unchanged", "complete"}, ev[d].todo # {},
           occ'[KeyOf(ev[d].def, Current(d))] # None, ev'[d] = Rest(d)
    PROVE  Covered(d)'
<1>0. PICK t : t = ev[d].todo \ {Current(d)} OBVIOUS
<1>1. ev[d] \in EvRows BY TypeParts
<1>2. /\ ev'[d].pc = "occurrence" /\ ev'[d].todo = t /\ ev'[d].def = ev[d].def
      /\ ev'[d].now = ev[d].now
  BY <1>0, <1>1 DEF Rest, EvRows
<1>3. /\ ev[d].def \in Definitions /\ ev[d].now \in 0 .. MaxTime
      /\ \A e \in ev[d].todo : e \in t \/ e = Current(d)
  BY <1>0, <1>1, CurrentDue DEF EvRows
<1>4. job # None /\ job' # None BY DEF Covered, JobForward
<1>5. DueCovered(job, occ, ev[d].def, ev[d].now, ev[d].todo) BY DEF Covered
<1>6. \A e \in ev[d].todo : e \in t \/ occ'[KeyOf(ev[d].def, e)] # None BY <1>3
<1>7. DueCovered(job', occ', ev[d].def, ev[d].now, t) BY <1>3, <1>4, <1>5, <1>6, DueCoveredKept
<1> QED BY <1>2, <1>4, <1>7 DEF Covered

\* A decided moment leaves the list, at once or after its once job is completed.
LEMMA CoveredDecided ==
    ASSUME TypeOK, TypeOK', DecisionsKept, JobForward, NEW d \in Daemons, Covered(d),
           ev[d].pc \in {"occurrence", "accept", "unchanged"}, ev[d].todo # {},
           occ'[KeyOf(ev[d].def, Current(d))] # None, Decided(d)
    PROVE  Covered(d)'
<1>1. ev \in [Daemons -> EvRows] /\ ev[d] \in EvRows BY TypeParts
<1>2. CASE ev[d].def.kind # "once"
  <2>1. ev'[d] = Rest(d) BY <1>1, <1>2 DEF Decided, Become
  <2> QED BY <2>1, CoveredRest
<1>3. CASE ev[d].def.kind = "once"
  <2>1. ev'[d] = [ev[d] EXCEPT !.pc = "complete"] BY <1>1, <1>3 DEF Decided, Become
  <2>2. /\ ev'[d].pc = "complete" /\ ev'[d].todo = ev[d].todo /\ ev'[d].def = ev[d].def
        /\ ev'[d].now = ev[d].now
    BY <1>1, <2>1 DEF EvRows
  <2>3. ev[d].def \in Definitions /\ ev[d].now \in 0 .. MaxTime
    BY <1>1, CurrentDue DEF EvRows
  <2>4. job # None /\ job' # None BY DEF Covered, JobForward
  <2>5. DueCovered(job, occ, ev[d].def, ev[d].now, ev[d].todo) BY DEF Covered
  <2>6. DueCovered(job', occ', ev[d].def, ev[d].now, ev[d].todo) BY <2>3, <2>4, <2>5, DueCoveredKept
  <2> QED BY <2>2, <2>4, <2>6 DEF Covered, Current
<1> QED BY <1>2, <1>3

\* The due moments of a list: each has one of its wall-clock minute on it.
LEMMA DueListed ==
    ASSUME NEW def \in Definitions, NEW after \in Nat, NEW now \in Nat, NEW m \in def.due, after < m, m <= now
    PROVE  \E e \in DueMoments(def, after, now) : Wall[e] = Wall[m]
<1> DEFINE due == {n \in def.due : after < n /\ n <= now}
           same == {n \in due : Wall[n] = Wall[m]}
<1>1. same \in SUBSET Moments /\ m \in same BY DefinitionType
<1>2. Min(same) \in same /\ \A n \in same : Min(same) <= n BY <1>1, LeastMoment
<1>3. Moments \subseteq Nat BY IntakeAssumption DEF Moments
<1>4. ASSUME NEW e \in due, e < Min(same), Wall[e] = Wall[Min(same)] PROVE FALSE
  <2>1. e \in same /\ Min(same) \in same BY <1>2, <1>4
  <2>2. Min(same) <= e /\ e \in Nat /\ Min(same) \in Nat BY <1>1, <1>2, <1>3, <2>1
  <2> QED BY <1>4, <2>2
<1>5. Min(same) \in DueMoments(def, after, now) BY <1>2, <1>4 DEF DueMoments
<1> QED BY <1>2, <1>5

\* The pass of one daemon keeps what it covers.
LEMMA CoveredEvaluate ==
    ASSUME TypeOK, TypeOK', DecisionsKept, JobForward, NEW d \in Daemons, Covered(d), Ticker(d) \/ Evaluate(d)
    PROVE  Covered(d)'
<1>1. ev \in [Daemons -> EvRows] /\ ev[d] \in EvRows BY TypeParts
<1>2. ASSUME Abort(d) PROVE Covered(d)'
  <2>1. ev'[d].pc = "idle" BY <1>1, <1>2 DEF Abort, Become, Idle
  <2> QED BY <2>1, CoveredStart
<1>3. CASE Ticker(d) \/ LoadConfig(d)
  <2>1. ASSUME Ticker(d) PROVE ev'[d].pc = "load" BY <1>1, <2>1 DEF Ticker, Become, Idle
  <2>2. ASSUME LoadConfig(d) PROVE ev'[d].pc = "sync" BY <1>1, <2>2 DEF LoadConfig, Become, EvRows
  <2> QED BY <1>3, <2>1, <2>2, CoveredStart
<1>4. CASE SyncJobAuthority(d)
  <2>1. CASE Abort(d) BY <1>2, <2>1
  <2>2. CASE job' = Synced(ev[d].def, ev[d].now) /\ Goto(d, "readJob")
    <3>1. ev'[d].pc = "readJob" BY <1>1, <2>2 DEF Goto, Become, EvRows
    <3>2. ev[d].def \in Definitions /\ ev[d].now \in 0 .. MaxTime
      BY <1>1, <1>4, TypeParts DEF SyncJobAuthority, GoodEv, EvRows
    <3>3. job' # None BY <2>2, <3>2, SyncedGood
    <3> QED BY <3>1, <3>3 DEF Covered
  <2> QED BY <1>4, <2>1, <2>2 DEF SyncJobAuthority
<1>5. CASE ReadJob(d)
  <2> DEFINE due == DueMoments(ev[d].def, job.cursor, ev[d].now)
  <2>1. job # None /\ job' = job /\ occ' = occ /\ ev[d].def \in Definitions
    BY <1>5, TypeParts DEF ReadJob, Covered, GoodEv, db
  <2>2. CASE Abort(d) BY <1>2, <2>2
  <2>3. CASE ~ev[d].def.enabled /\ Goto(d, "skipDisabled")
    <3>1. ev'[d].pc = "skipDisabled" /\ ev'[d].def = ev[d].def BY <1>1, <2>3 DEF Goto, Become, EvRows
    <3> QED BY <2>1, <2>3, <3>1 DEF Covered
  <2>4. CASE Become(d, [ev[d] EXCEPT !.pc = "occurrence", !.todo = due])
    <3>1. \A m \in ev[d].def.due : job.cursor < m /\ m <= ev[d].now => \E e \in due : Wall[e] = Wall[m]
      <4>1. job.cursor \in Nat /\ ev[d].now \in Nat BY <1>1, <2>1, CursorType, IntakeAssumption DEF EvRows
      <4> QED BY <2>1, <4>1, DueListed
    <3> HIDE DEF due
    <3>2. ev'[d].pc = "occurrence" /\ ev'[d].todo = due /\ ev'[d].def = ev[d].def /\ ev'[d].now = ev[d].now
      BY <1>1, <2>4 DEF Become, EvRows
    <3> QED BY <2>1, <3>1, <3>2 DEF Covered, DueCovered
  <2> QED BY <1>5, <2>2, <2>3, <2>4 DEF ReadJob
<1>6. CASE RecordMissed(d) \/ RecordUnchanged(d)
  <2>1. PICK decision \in Decisions : RecordOccurrenceIfAuthority(d, decision)
    BY <1>6 DEF RecordMissed, RecordUnchanged, Decisions
  <2>2. ev[d].pc \in {"occurrence", "unchanged"} /\ ev[d].todo # {}
    BY <1>6, TypeParts DEF RecordMissed, RecordUnchanged, GoodEv
  <2>3. CASE Abort(d) BY <1>2, <2>3
  <2>4. CASE Record(KeyOf(ev[d].def, Current(d)), decision) /\ Decided(d)
    <3>1. KeyOf(ev[d].def, Current(d)) \in Keys BY <2>2, CurrentDue
    <3>2. occ'[KeyOf(ev[d].def, Current(d))] # None BY <2>4, <3>1, TypeParts, NoneAssumption DEF Record
    <3> QED BY <2>2, <2>4, <3>2, CoveredDecided
  <2> QED BY <2>1, <2>3, <2>4 DEF RecordOccurrenceIfAuthority
<1>7. CASE SourceGate(d)
  <2>1. PICK pc \in {"accept", "unchanged", "idle"} : IF pc = "idle" THEN Abort(d) ELSE Goto(d, pc)
    BY <1>7 DEF SourceGate
  <2>2. CASE pc = "idle" BY <1>2, <2>1, <2>2
  <2>3. CASE pc # "idle"
    <3>1. /\ ev[d].pc = "occurrence" /\ ev'[d].pc \in {"accept", "unchanged"}
          /\ ev'[d].def = ev[d].def /\ ev'[d].now = ev[d].now /\ ev'[d].todo = ev[d].todo
      BY <1>1, <1>7, <2>1, <2>3 DEF SourceGate, Goto, Become, EvRows
    <3> QED BY <3>1, CoveredKept
  <2> QED BY <2>2, <2>3
<1>8. CASE AcceptScheduledOccurrence(d)
  <2> DEFINE key == KeyOf(ev[d].def, Current(d))
  <2>1. ev[d].pc \in {"occurrence", "accept"} /\ ev[d].todo # {}
    BY <1>8, TypeParts DEF AcceptScheduledOccurrence, CanAccept, GoodEv
  <2>2. key \in Keys BY <2>1, CurrentDue
  <2>3. CASE Abort(d) BY <1>2, <2>3
  <2>4. CASE Become(d, Idle) BY <1>2, <2>4 DEF Abort
  <2>5. CASE /\ Accept(job, ev[d].def, key, "scheduled", ev[d].now)
             /\ ~(occ[key] = None /\ GuardTripped(ev[d].def)) /\ Decided(d)
    <3>1. occ'[key] # None BY <2>2, <2>5, TypeParts, DecisionType DEF Accept
    <3> QED BY <2>1, <2>5, <3>1, CoveredDecided
  <2> QED BY <1>8, <2>3, <2>4, <2>5 DEF AcceptScheduledOccurrence, AfterGuard
<1>9. CASE SetCompletedIfAuthority(d)
  <2>1. CASE Abort(d) BY <1>2, <2>1
  <2>2. CASE Become(d, Rest(d))
    <3>1. ev'[d] = Rest(d) /\ ev[d].pc = "complete" /\ ev[d].todo # {} /\ occ' = occ
      BY <1>1, <1>9, <2>2, TypeParts DEF SetCompletedIfAuthority, Become, GoodEv
    <3>2. occ[KeyOf(ev[d].def, Current(d))] # None BY <3>1 DEF Covered
    <3> QED BY <3>1, <3>2, CoveredRest
  <2> QED BY <1>9, <2>1, <2>2 DEF SetCompletedIfAuthority
<1>10. CASE SetCursorIfAuthority(d) BY <1>2, <1>10 DEF SetCursorIfAuthority
<1> QED BY <1>3, <1>4, <1>5, <1>6, <1>7, <1>8, <1>9, <1>10 DEF Evaluate

\* Every step keeps what the daemons cover.
LEMMA EvCoversNext == TypeOK /\ EvCovers /\ [Next]_vars => EvCovers'
<1> SUFFICES ASSUME TypeOK, EvCovers, [Next]_vars, NEW q \in Daemons PROVE Covered(q)' BY DEF EvCovers
<1>1. TypeOK' /\ DecisionsKept /\ JobForward /\ Covered(q) BY TypesNext, RunSteps, JobSteps DEF EvCovers
<1>2. ASSUME ev'[q] = ev[q] PROVE Covered(q)' BY <1>1, <1>2, CoveredKept
<1>3. ev \in [Daemons -> EvRows] BY TypeParts
<1>4. ASSUME NEW d \in Daemons, Ticker(d) \/ Evaluate(d) PROVE Covered(q)'
  <2>1. CASE q = d BY <1>1, <1>4, <2>1, CoveredEvaluate
  <2>2. CASE q # d
    <3>1. \E x : Become(d, x)
      BY <1>4 DEF Ticker, Evaluate, LoadConfig, SyncJobAuthority, ReadJob, RecordMissed, SourceGate, RecordUnchanged,
             RecordOccurrenceIfAuthority, AcceptScheduledOccurrence, SetCompletedIfAuthority,
             SetCursorIfAuthority, Abort, Goto, Decided
    <3> QED BY <1>2, <1>3, <2>2, <3>1 DEF Become
  <2> QED BY <2>1, <2>2
<1>5. ASSUME Crash PROVE Covered(q)'
  <2>1. ev'[q] = ev[q] \/ ev'[q].pc = "idle" BY <1>3, <1>5 DEF Crash, Abort, Become, Idle
  <2> QED BY <1>2, <2>1, CoveredStart
<1>6. ASSUME \/ StartEnqueue \/ StartRun \/ Command \/ SetPaused \/ SetGlobalPaused \/ EditConfig \/ RunAdmitted
             \/ RunRetired \/ MarkRead \/ Tick \/ UNCHANGED vars
      PROVE  ev' = ev
  BY <1>6 DEF StartEnqueue, StartRun, Command, EnqueueEvent, SyncForRun, CreateManualRunIfAuthority, CreateCanaryRun,
              CliUntouched, SetPaused, SetGlobalPaused, EditConfig, RunAdmitted, RunRetired, MarkRead, Moved, Tick, vars
<1> QED BY <1>2, <1>4, <1>5, <1>6 DEF Next

\* A crash, a tripped guard, a pause or an edit loses no occurrence.
THEOREM CursorCoversDecisions == Spec => CursorCoversDecided
<1> DEFINE A == job # None /\ job.def.enabled =>
                    \A m \in job.def.due : job.cursor < m /\ m <= job'.cursor => occ[KeyOf(job.def, m)] # None
<1>1. Init => EvCovers BY DEF Init, EvCovers, Covered, Idle
<1>2. TypeOK /\ EvCovers /\ [Next]_vars => [A]_vars
  <2> SUFFICES ASSUME TypeOK, EvCovers, [Next]_vars, job # None, job.def.enabled,
                      NEW m \in job.def.due, job.cursor < m, m <= job'.cursor
               PROVE  occ[KeyOf(job.def, m)] # None
    OBVIOUS
  <2>1. job.def \in Definitions BY TypeParts DEF GoodJob, JobRows
  <2>2. m \in Nat /\ job.cursor \in Nat BY <2>1, KeyType, CursorType, IntakeAssumption
  <2>3. job'.cursor # job.cursor BY <2>2
  <2>4. PICK d \in Daemons : CursorSet(d) BY <2>3, JobSteps
  <2>5. job.def = ev[d].def /\ job'.cursor = ev[d].now BY <2>4 DEF CursorSet, Authority
  <2>6. ev[d].pc = "occurrence" /\ ev[d].todo = {}
    BY <2>4, <2>5 DEF CursorSet, SetCursorIfAuthority, EvCovers, Covered
  <2> QED BY <2>5, <2>6 DEF EvCovers, Covered, DueCovered
<1> QED BY <1>1, <1>2, EvCoversNext, TypesInit, TypesNext, PTL DEF Spec, CursorCoversDecided
=============================================================================
