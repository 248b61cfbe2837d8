------------------------------ MODULE MCIntake ------------------------------
(* Small instances of Intake for TLC: three or four moments, of which the   *)
(* second repeats the wall-clock minute of the first or the third, and a    *)
(* handful of definitions of one job.                                       *)
EXTENDS Intake

\* The clock is set back once.
FallBack == SubSeq(<<1, 2, 2, 3>>, 1, MaxTime)

Cron == [rev |-> 1, enabled |-> TRUE, kind |-> "cron", due |-> {1, 2, 3}, overlap |-> "forbid",
         daily |-> 2, unread |-> 0, gate |-> FALSE]
Gated == [Cron EXCEPT !.rev = 2, !.due = {2, 3}, !.overlap = "queue_one", !.gate = TRUE]
Guarded == [Cron EXCEPT !.due = {1, 2}, !.overlap = "allow", !.unread = 1]
Disabled == [Guarded EXCEPT !.rev = 2, !.enabled = FALSE]
Once == [Cron EXCEPT !.rev = 3, !.kind = "once", !.due = {3}]
Event == [Cron EXCEPT !.kind = "event", !.due = {}, !.overlap = "queue_one", !.unread = 1]
EventRevised == [Event EXCEPT !.rev = 2, !.unread = 0, !.overlap = "forbid"]
\* The same revision with another snapshot.
Rescheduled == [Guarded EXCEPT !.rev = 2, !.due = {1}]

Scenario(defs, cmds, until, canaries, crash) ==
    [definitions |-> defs, commands |-> cmds, last |-> until, attended |-> canaries, crashes |-> crash]

\* Schedules under edits, pauses and crashes; then events and attended runs.
Intakes == << Scenario({Cron, Gated, Once, Disabled}, {"edit", "pause"}, 3, 0, TRUE),
              Scenario({Event, EventRevised, Rescheduled},
                       {"run", "enqueue", "global", "edit"}, 1, 1, FALSE) >>
Guards == << Scenario({Guarded, [Once EXCEPT !.gate = TRUE]}, {"pause"}, 3, 0, TRUE) >>
Unguarded == << Scenario({Cron}, {"pause"}, 4, 0, FALSE) >>
=============================================================================
