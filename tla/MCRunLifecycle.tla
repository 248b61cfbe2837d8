--------------------------- MODULE MCRunLifecycle ---------------------------
(* Small instances of RunLifecycle for TLC.                                *)
EXTENDS RunLifecycle

Plain == [verifier |-> FALSE, attest |-> FALSE]
Verified == [verifier |-> TRUE, attest |-> TRUE]
PlainJobs == {Plain}
VerifiedJobs == {Verified}
AllJobs == {Plain, Verified}
=============================================================================
