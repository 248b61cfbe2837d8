---------------------------- MODULE MCAdmission -----------------------------
(* Small instances of Admission for TLC.                                   *)
EXTENDS Admission

Def(job, overlap, trigger, reserve, device) ==
    [job |-> job, overlap |-> overlap, trigger |-> trigger, reserve |-> reserve, device |-> device]

\* A legacy run and an attended one of a job on two disks, a run and a canary
\* of a queue_one job.
Mixed == <<Def("a", "allow", "queue", 1, "d1"), Def("b", "queue_one", "queue", 1, "d1"),
           Def("a", "allow", "manual", 1, "d2"), Def("b", "queue_one", "canary", 1, "d1")>>
Disks == [d \in {"d1", "d2"} |-> 3]

\* Two queued runs that do not fit together, and a canary of the second's job.
Queued == <<Def("a", "allow", "queue", 1, "d1"), Def("b", "forbid", "queue", 2, "d1"),
            Def("b", "forbid", "canary", 1, "d1")>>
OneDisk == [d \in {"d1"} |-> 3]
=============================================================================
