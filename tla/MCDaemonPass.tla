---------------------------- MODULE MCDaemonPass ----------------------------
(***************************************************************************)
(* One instance of DaemonPass: two jobs of which the first meets a failing *)
(* gate, runs left behind by an earlier daemon in each state, and, without *)
(* faults, an operator who reads while two runs end.                       *)
(***************************************************************************)
EXTENDS DaemonPass

MCJobs == <<"first", "second">>
MCRunOf == [j \in {"first", "second"} |-> IF j = "first" THEN 2 ELSE 3]
Start(old, dueJobs) ==
    [rows |-> [r \in Runs |-> IF r = 1 THEN old ELSE "absent"],
     due |-> dueJobs, faults |-> TRUE, reading |-> FALSE]
Reading ==
    [rows |-> [r \in Runs |-> IF r = 1 THEN "running" ELSE IF r = 2 THEN "verifying" ELSE "absent"],
     due |-> {}, faults |-> FALSE, reading |-> TRUE]
MCScenarios ==
    { Start("absent", {"first", "second"}), Start("running", {"first"}),
      Start("accepted", {}), Start("provisioning", {}), Start("verifying", {}), Reading }
=============================================================================
