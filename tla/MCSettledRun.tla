--------------------------- MODULE MCSettledRun ---------------------------
(* Instance of SettledRun: a tracked ignore file in scope and a tracked    *)
(* path out of it, an untracked path that the ignore file hides, one       *)
(* path under the reserved directory and one input.                        *)
EXTENDS SettledRun

MCTracked == {"a", "ignore"}
MCUntracked == {"new", "planted"}
MCSorted == <<"a", "ignore", "in", "new", "planted">>
\* The ignore file hides a new file until it holds the longer content.
MCIgnores == [c \in Contents \cup {Absent} |-> IF c = "short" THEN {"new"} ELSE {}]
MCSize == [c \in Held |-> CASE c = "short" -> 1 [] c = "long" -> 2 [] OTHER -> 0]

Job(i, s, v) == [inputs |-> i, scoped |-> s, verifier |-> v]
Times(a, l, v, s, c, b) ==
    [w \in {"agent", "left", "verifier", "source", "crash", "beside"} |->
        CASE w = "agent" -> a [] w = "left" -> l [] w = "verifier" -> v
          [] w = "source" -> s [] w = "crash" -> c [] w = "beside" -> b]

MCScenarios ==
    {[job |-> Job({"in"}, TRUE, FALSE), budget |-> Times(1, 1, 0, 0, 0, 1)],
     [job |-> Job({}, TRUE, FALSE), budget |-> Times(1, 2, 0, 0, 0, 1)],
     [job |-> Job({"in"}, FALSE, TRUE), budget |-> Times(1, 0, 1, 0, 0, 0)],
     [job |-> Job({"in"}, TRUE, TRUE), budget |-> Times(0, 0, 1, 0, 1, 0)],
     [job |-> Job({}, TRUE, TRUE), budget |-> Times(1, 0, 1, 0, 0, 0)],
     [job |-> Job({}, TRUE, TRUE), budget |-> Times(0, 0, 1, 0, 1, 0)],
     [job |-> Job({}, TRUE, TRUE), budget |-> Times(0, 0, 0, 0, 0, 1)],
     [job |-> Job({"in"}, FALSE, TRUE), budget |-> Times(0, 0, 0, 1, 1, 0)]}
=============================================================================
