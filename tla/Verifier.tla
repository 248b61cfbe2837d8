------------------------------ MODULE Verifier ------------------------------
(***************************************************************************)
(* The verifier's process group and its result file                        *)
(* (internal/engine/engine.go: prepareVerifierReceipt, runVerifierCommand, *)
(* publishVerifierReceipt).  A Perl supervisor leads the group: it arms an *)
(* alarm before it forks the verifier, and when the verifier has exited it *)
(* leaves a reaper behind that kills the group once the supervisor itself  *)
(* is gone, so that the group ends whether or not the scheduler lives to   *)
(* end it.  The scheduler waits for the supervisor or for its own time     *)
(* limit, kills the group, proves it gone from the process table, and only *)
(* then publishes the result under a name no reader sees half-written.     *)
(*                                                                         *)
(* A member that was sent SIGKILL may finish the write it is in: it stays  *)
(* in the group until Die.  Members are the processes ps lists in the      *)
(* group for this user; a process that leaves the group is out of reach of *)
(* the code and of the model.                                              *)
(***************************************************************************)
EXTENDS Naturals

CONSTANTS
    Limit,      \* ticks: the supervisor's alarm and the scheduler's context (5 min)
    Unset       \* no exit status, no file

Codes == {"zero", "nonzero"}

ASSUME VerifierAssumption == Limit \in Nat \ {0} /\ Unset \notin Codes

VARIABLES
    group,      \* the members of the verifier's process group that are alive
    forked,     \* the supervisor has forked the verifier
    signalled,  \* SIGKILL was sent and has not taken effect
    code,       \* what waitpid tells the supervisor about the verifier
    status,     \* what Wait tells the scheduler about the supervisor
    age,        \* ticks since the supervisor started
    orphaned,   \* the supervisor could not fork a reaper for those it left behind
    files,      \* the claim's .output and .tmp files and its marker
    call        \* runVerifierCommand as the claim's owner executes it

verifierVars == <<group, forked, signalled, code, status, age, orphaned, files, call>>
groupVars == <<group, forked, signalled, code, status, age, orphaned>>

Returned == [pc |-> "returned", cancelled |-> FALSE, failed |-> FALSE, result |-> Unset]
NotCalled == [Returned EXCEPT !.pc = "none"]

\* What removeVerifierArtifacts leaves.
NoFiles == [output |-> FALSE, tmp |-> Unset, marker |-> Unset]

VerifierInit ==
    /\ group = {} /\ forked = FALSE /\ signalled = FALSE
    /\ code = Unset /\ status = Unset /\ age = 0 /\ orphaned = FALSE
    /\ files = NoFiles
    /\ call = NotCalled

-----------------------------------------------------------------------------
(* The group.                                                              *)

\* The alarm is armed; a supervisor that cannot fork dies.
ForkVerifier ==
    /\ "supervisor" \in group /\ ~forked /\ ~signalled
    /\ \/ group' = group \cup {"verifier"} /\ forked' = TRUE /\ UNCHANGED status
       \/ group' = {} /\ status' = "nonzero" /\ UNCHANGED forked
    /\ UNCHANGED <<signalled, code, age, orphaned, files, call>>

\* External: an unrestricted verifier may start processes that outlive it.
ForkDescendant ==
    /\ "verifier" \in group /\ "descendant" \notin group /\ ~signalled
    /\ group' = group \cup {"descendant"}
    /\ UNCHANGED <<forked, signalled, code, status, age, orphaned, files, call>>

\* External: the verifier command ends with some status.
VerifierExits ==
    /\ "verifier" \in group /\ ~signalled
    /\ group' = group \ {"verifier"} /\ code' \in Codes
    /\ UNCHANGED <<forked, signalled, status, age, orphaned, files, call>>

\* Mutant: the supervisor exits without leaving a reaper.
SupervisorJustExits ==
    /\ "supervisor" \in group /\ forked /\ "verifier" \notin group /\ ~signalled
    /\ group' = group \ {"supervisor"} /\ status' = code
    /\ UNCHANGED <<forked, signalled, code, age, orphaned, files, call>>
\* The verifier was waited for: alarm off, fork the reaper, exit with the
\* verifier's status.  If the fork fails the supervisor exits 127.
SupervisorExits ==
    /\ "supervisor" \in group /\ forked /\ "verifier" \notin group /\ ~signalled
    /\ \/ /\ group' = (group \ {"supervisor"}) \cup {"reaper"}
          /\ status' = code /\ UNCHANGED orphaned
       \/ /\ group' = group \ {"supervisor"}
          /\ status' = "nonzero" /\ orphaned' = (group' # {})
    /\ UNCHANGED <<forked, signalled, code, age, files, call>>

ReaperKills ==
    /\ "reaper" \in group /\ "supervisor" \notin group /\ ~signalled
    /\ signalled' = TRUE
    /\ UNCHANGED <<group, forked, code, status, age, orphaned, files, call>>

AlarmKills ==
    /\ "supervisor" \in group /\ age >= Limit /\ ~signalled
    /\ signalled' = TRUE
    /\ UNCHANGED <<group, forked, code, status, age, orphaned, files, call>>

\* SIGKILL takes effect; a killed supervisor has a signal for a status.
Die ==
    /\ signalled /\ group # {}
    /\ group' = {} /\ signalled' = FALSE /\ age' = 0 /\ orphaned' = FALSE
    /\ status' = IF "supervisor" \in group THEN "nonzero" ELSE status
    /\ UNCHANGED <<forked, code, files, call>>

GroupStep ==
    \/ ForkVerifier \/ ForkDescendant \/ VerifierExits \/ SupervisorExits
    \/ ReaperKills \/ AlarmKills \/ Die

-----------------------------------------------------------------------------
(* The scheduler's call.                                                   *)

Calls(c) == call' = c
\* errVerifierReceiptProtocol: .output and .tmp are removed, nothing is published.
ProtocolError ==
    /\ Calls([Returned EXCEPT !.failed = TRUE])
    /\ files' = [files EXCEPT !.output = FALSE, !.tmp = Unset]

\* prepareVerifierReceipt: any path in the way, or an error of the file
\* system, refuses the call.
Prepare ==
    /\ call.pc = "prepare"
    /\ \/ files = NoFiles /\ Calls([call EXCEPT !.pc = "output"])
       \/ Calls([NotCalled EXCEPT !.pc = "refused"])
    /\ UNCHANGED <<groupVars, files>>

CreateOutput ==
    /\ call.pc = "output"
    /\ \/ /\ files' = [files EXCEPT !.output = TRUE]
          /\ Calls([call EXCEPT !.pc = "start"])
       \/ ProtocolError
    /\ UNCHANGED groupVars

StartSupervisor ==
    /\ call.pc = "start"
    /\ \/ /\ group' = {"supervisor"} /\ age' = 0
          /\ Calls([call EXCEPT !.pc = "wait"])
          /\ UNCHANGED <<forked, signalled, code, status, orphaned, files>>
       \/ /\ Calls([Returned EXCEPT !.result = "nonzero"])  \* cmd.Start failed
          /\ files' = [files EXCEPT !.output = FALSE]
          /\ UNCHANGED groupVars

WaitReturns ==
    /\ call.pc = "wait"
    /\ \/ status # Unset /\ Calls([call EXCEPT !.pc = "kill"])
       \/ age >= Limit /\ Calls([call EXCEPT !.pc = "kill", !.cancelled = TRUE])
    /\ UNCHANGED <<groupVars, files>>

(* killVerifierProcessGroupOnce: look, signal at most once, look again if  *)
(* the signal found nobody.  Reading the process table may fail.           *)

\* countProcessGroupMembers: whom the process table lists in the group.
Members == group

\* The group is gone: publish, or return the reason of the cancellation.
Gone ==
    IF call.cancelled
    THEN /\ files' = [files EXCEPT !.output = FALSE]
         /\ Calls([Returned EXCEPT !.result = "nonzero"])
    ELSE Calls([call EXCEPT !.pc = "publish"]) /\ UNCHANGED files
\* On cancellation even a failed kill waits for the supervisor to be reaped.
KillFailed ==
    IF call.cancelled
    THEN Calls([call EXCEPT !.pc = "reap", !.failed = TRUE]) /\ UNCHANGED files
    ELSE ProtocolError

ObserveGroup ==
    /\ call.pc = "kill"
    /\ \/ /\ Members = {}
          /\ IF call.cancelled THEN Calls([call EXCEPT !.pc = "reap"]) /\ UNCHANGED files
                               ELSE Gone
       \/ Members # {} /\ Calls([call EXCEPT !.pc = "signal"]) /\ UNCHANGED files
       \/ KillFailed
    /\ UNCHANGED groupVars

\* Mutant: the signal is taken for the death of the group.
SignalIsEnough ==
    /\ call.pc = "signal"
    /\ signalled' = (group # {})
    /\ IF call.cancelled THEN Calls([call EXCEPT !.pc = "reap"]) /\ UNCHANGED files
                         ELSE Gone
    /\ UNCHANGED <<group, forked, code, status, age, orphaned>>
SignalGroup ==
    /\ call.pc = "signal"
    /\ \/ /\ signalled' = (group # {})
          /\ IF call.cancelled THEN Calls([call EXCEPT !.pc = "reap"]) /\ UNCHANGED files
             ELSE IF Members = {} THEN Gone   \* ESRCH, and the table lists nobody
             ELSE Calls([call EXCEPT !.pc = "gone"]) /\ UNCHANGED files
       \/ KillFailed /\ UNCHANGED signalled
    /\ UNCHANGED <<group, forked, code, status, age, orphaned>>

\* <-done on the path of a cancellation.
ReapSupervisor ==
    /\ call.pc = "reap" /\ status # Unset
    /\ Calls([call EXCEPT !.pc = "gone"])
    /\ UNCHANGED <<groupVars, files>>

\* waitVerifierProcessGroupGone: until the table lists nobody, the deadline
\* passes or ps fails.
AwaitGone ==
    /\ call.pc = "gone"
    /\ \/ Members = {} /\ ~call.failed /\ Gone
       \/ ProtocolError
    /\ UNCHANGED groupVars

\* Mutant: the result is written under its final name.
WriteMarker ==
    /\ call.pc = "publish"
    /\ files' = [files EXCEPT !.marker = "partial"]
    /\ Calls([call EXCEPT !.pc = "rename"])
    /\ UNCHANGED groupVars
\* publishVerifierReceipt up to the sync of the temporary file.
WriteTemp ==
    /\ call.pc = "publish"
    /\ \/ /\ files' = [files EXCEPT !.tmp = "partial"]
          /\ Calls([call EXCEPT !.pc = "rename"])
       \/ ProtocolError
    /\ UNCHANGED groupVars

\* RENAME_EXCL; if the directory cannot be synced afterwards the marker is
\* there and the call fails all the same.
RenameMarker ==
    /\ call.pc = "rename"
    /\ \/ /\ files.marker = Unset
          /\ files' = [files EXCEPT !.tmp = Unset, !.marker = status]
          /\ Calls([Returned EXCEPT !.result = status])
       \/ /\ files.marker = Unset
          /\ files' = [output |-> FALSE, tmp |-> Unset, marker |-> status]
          /\ Calls([Returned EXCEPT !.failed = TRUE])
       \/ ProtocolError
    /\ UNCHANGED groupVars

CallStep ==
    \/ Prepare \/ CreateOutput \/ StartSupervisor \/ WaitReturns \/ ObserveGroup \/ SignalGroup
    \/ ReapSupervisor \/ AwaitGone \/ WriteTemp \/ RenameMarker

-----------------------------------------------------------------------------
\* A tick of the clock is far longer than a signal's delivery or the reaper's
\* poll, and the alarm fires before the supervisor outlives it.
ClockMayTick ==
    /\ signalled => group = {}
    /\ "reaper" \notin group
    /\ "supervisor" \in group => age < Limit
=============================================================================
