-------------------------- MODULE SettledRunProofs --------------------------
(***************************************************************************)
(* What SettledRun guarantees for every choice of its constants: how the   *)
(* verifier's process group ends, what its result file says, what the      *)
(* staged inputs hold, and what the receipts say of the worktree.          *)
(***************************************************************************)
EXTENDS SettledRun, FiniteSetTheorems, WellFoundedInduction, TLAPS

-----------------------------------------------------------------------------
(* The values the columns and local variables can have.                    *)

RunStates == Terminal \cup {"starting", "running", "settled", "verifying"}
ThSet == [pc : ThreadPcs, from : RunStates, outcome : Terminal,
          verdict : {"unverified", "passed", "failed"}]
CallSet == [pc : CallPcs, cancelled : BOOLEAN, failed : BOOLEAN, result : Codes \cup {Unset}]
FileSet == [output : BOOLEAN, tmp : {Unset, "partial"}, marker : Codes \cup {Unset}]

GroupTypes ==
    /\ group \subseteq {"supervisor", "verifier", "descendant", "reaper"}
    /\ forked \in BOOLEAN /\ signalled \in BOOLEAN /\ orphaned \in BOOLEAN
    /\ code \in Codes \cup {Unset} /\ status \in Codes \cup {Unset} /\ age \in Nat
    /\ files \in FileSet /\ call \in CallSet
RunTypes ==
    /\ state \in RunStates /\ verdict \in {"unverified", "passed", "failed"}
    /\ lease \in Nat /\ agent \in {"waiting", "running", "settled"}
    /\ th \in [Threads -> ThSet]
    /\ \A t \in Threads : th[t].pc = "review" => th[t].from \in {"running", "settled"}

-----------------------------------------------------------------------------
(* The verifier: its group, its claim and its result.                      *)

Before == state \in {"starting", "running", "settled"}
\* Threads that hold or have had the verifier's result.
Late(t) == th[t].pc \in {"finish", "takeover", "clean"}

\* Before the claim there is no group, no file and no call; until the supervisor
\* has been started there is no group and no result, and the lease is young.
NotStarted ==
    /\ Before => /\ call = NotCalled /\ files = NoFiles
                 /\ \A t \in Threads : th[t].pc # "verifier"
    /\ Before \/ Starting =>
         /\ group = {} /\ ~signalled /\ ~orphaned /\ status = Unset /\ files.marker = Unset
         /\ \A t \in Threads : ~Late(t)
    /\ Starting => state = "verifying" /\ lease >= Lease - StartDelay

\* What keeps the group from outliving the lease: the supervisor with its alarm,
\* else the reaper, else nothing is left - unless there was no fork for a reaper.
GroupEnds ==
    /\ "verifier" \in group => "supervisor" \in group
    /\ "supervisor" \in group => /\ ~orphaned /\ age <= Limit
                                 /\ age + lease >= Lease - StartDelay
    /\ group # {} => orphaned \/ "supervisor" \in group \/ "reaper" \in group
    /\ group # {} /\ ~orphaned => lease > 0

\* Whoever knows of a result knows of a group that is gone.
ResultMeansGone ==
    /\ call.pc \in {"publish", "rename"} => group = {}
    /\ call.result = "zero" => call.pc = "returned" /\ group = {}
    /\ files.marker # Unset => group = {} /\ files.marker = status
    /\ \A t \in Threads :
         /\ th[t].pc \in {"finish", "takeover"} /\ th[t].outcome = "succeeded" => group = {}
         /\ th[t].pc = "clean" => ~Open

VerifierInv == GroupTypes /\ RunTypes /\ NotStarted /\ GroupEnds /\ ResultMeansGone

-----------------------------------------------------------------------------

\* What the proofs need of the constants.
LEMMA Constants ==
    /\ Limit \in Nat /\ Limit > 0 /\ StartDelay \in Nat /\ Lease \in Nat
    /\ Lease > StartDelay + Limit
    /\ Threads = {"monitor", "reconciler"}
    /\ Unset \notin Codes /\ Codes = {"zero", "nonzero"}
  BY SettledAssumption, VerifierAssumption DEF Codes

\* The columns of a run that has just been accepted and staged for.
LEMMA VerifierAtFirst == Init => VerifierInv
<1> SUFFICES ASSUME Init PROVE VerifierInv OBVIOUS
<1>1. GroupTypes BY DEF Init, VerifierInit, GroupTypes, NoFiles, NotCalled, Returned, CallSet, FileSet, CallPcs
<1>2. RunTypes
  BY Constants DEF Init, RunTypes, RunStates, Terminal, ThSet, ThreadPcs, Resting
<1>3. NotStarted
  BY Constants DEF Init, VerifierInit, NotStarted, Before, Late, Starting, NoFiles, NotCalled, Returned, Resting
<1>4. GroupEnds BY DEF Init, VerifierInit, GroupEnds
<1>5. ResultMeansGone
  BY Constants DEF Init, VerifierInit, ResultMeansGone, NoFiles, NotCalled, Returned, Resting
<1> QED BY <1>1, <1>2, <1>3, <1>4, <1>5 DEF VerifierInv

\* A step of the group (the supervisor, the verifier, the reaper, a signal that
\* takes effect) keeps what the invariant says of the call and the threads.
LEMMA GroupKeeps == ASSUME VerifierInv, Group PROVE VerifierInv'
<1> USE DEF Group, runVars, RunTypes, Before, Late, Starting, Open
<1>1. GroupTypes /\ RunTypes /\ NotStarted /\ GroupEnds /\ ResultMeansGone BY DEF VerifierInv
<1>2. CASE ForkVerifier
  BY <1>1, <1>2, Constants DEF ForkVerifier, GroupTypes, NotStarted, GroupEnds, ResultMeansGone, VerifierInv
<1>3. CASE ForkDescendant
  BY <1>1, <1>3, Constants DEF ForkDescendant, GroupTypes, NotStarted, GroupEnds, ResultMeansGone, VerifierInv
<1>4. CASE VerifierExits
  BY <1>1, <1>4, Constants DEF VerifierExits, GroupTypes, NotStarted, GroupEnds, ResultMeansGone, VerifierInv
<1>5. CASE SupervisorExits
  BY <1>1, <1>5, Constants DEF SupervisorExits, GroupTypes, NotStarted, GroupEnds, ResultMeansGone, VerifierInv
<1>6. CASE ReaperKills
  BY <1>1, <1>6, Constants DEF ReaperKills, GroupTypes, NotStarted, GroupEnds, ResultMeansGone, VerifierInv
<1>7. CASE AlarmKills
  BY <1>1, <1>7, Constants DEF AlarmKills, GroupTypes, NotStarted, GroupEnds, ResultMeansGone, VerifierInv
<1>8. CASE Die
  BY <1>1, <1>8, Constants DEF Die, GroupTypes, NotStarted, GroupEnds, ResultMeansGone, VerifierInv
<1> QED BY <1>2, <1>3, <1>4, <1>5, <1>6, <1>7, <1>8 DEF GroupStep

\* What every step of the call does that neither starts the supervisor nor
\* publishes: the marker stays, and only a group that is gone is published.
CallGoesOn ==
    /\ files' \in FileSet /\ call' \in CallSet
    /\ files'.marker = files.marker
    /\ call'.pc \notin {"none", "prepare", "output", "start"} /\ call'.result # "zero"
    /\ call'.pc \in {"publish", "rename"} => group = {}

\* Giving up with an error of the protocol is such a step.
LEMMA ProtocolErrorGoesOn ==
    ASSUME GroupTypes, ProtocolError PROVE CallGoesOn
  BY Constants DEF GroupTypes, ProtocolError, CallGoesOn, Calls, Returned, CallSet, CallPcs, FileSet

\* So is the answer to a failed kill.
LEMMA KillFailedGoesOn ==
    ASSUME GroupTypes, KillFailed, call.result # "zero" PROVE CallGoesOn
<1>1. CASE ~call.cancelled BY <1>1, ProtocolErrorGoesOn DEF KillFailed
<1>2. CASE call.cancelled
  <2>1. call' = [call EXCEPT !.pc = "reap", !.failed = TRUE] /\ files' = files
    BY <1>2 DEF KillFailed, Calls
  <2>2. call \in CallSet /\ files \in FileSet BY DEF GroupTypes
  <2> QED BY <2>1, <2>2 DEF CallGoesOn, CallSet, CallPcs
<1> QED BY <1>1, <1>2

\* So is the step that finds the group gone.
LEMMA GoneGoesOn ==
    ASSUME GroupTypes, Gone, group = {}, call.result # "zero" PROVE CallGoesOn
<1>1. call \in CallSet /\ files \in FileSet BY DEF GroupTypes
<1>2. CASE call.cancelled
  <2>1. call' = [Returned EXCEPT !.result = "nonzero"] /\ files' = [files EXCEPT !.output = FALSE]
    BY <1>2 DEF Gone, Calls
  <2>2. files' \in FileSet /\ files'.marker = files.marker BY <1>1, <2>1 DEF FileSet
  <2>3. call' = [pc |-> "returned", cancelled |-> FALSE, failed |-> FALSE, result |-> "nonzero"]
    BY <2>1 DEF Returned
  <2>4. "nonzero" \in Codes /\ "returned" \in CallPcs BY DEF Codes, CallPcs
  <2>5. call' \in CallSet BY <2>3, <2>4 DEF CallSet
  <2> QED BY <2>2, <2>3, <2>5 DEF CallGoesOn
<1>3. CASE ~call.cancelled
  <2>1. call' = [call EXCEPT !.pc = "publish"] /\ files' = files BY <1>3 DEF Gone, Calls
  <2> QED BY <1>1, <2>1 DEF CallGoesOn, CallSet, CallPcs
<1> QED BY <1>2, <1>3

\* So is a step that only moves on.
LEMMA MoveGoesOn ==
    ASSUME GroupTypes, call.result # "zero", NEW b \in BOOLEAN, UNCHANGED files,
           NEW pc \in {"wait", "kill", "signal", "reap", "gone"},
           call' = [call EXCEPT !.pc = pc, !.cancelled = b]
    PROVE  CallGoesOn
<1>1. call \in CallSet /\ files \in FileSet BY DEF GroupTypes
<1> QED BY <1>1 DEF CallGoesOn, CallSet, CallPcs

\* Such a step keeps the invariant: the group is as it was, or was signalled.
LEMMA GoingOnKeeps ==
    ASSUME VerifierInv, CallGoesOn, call.pc \notin {"none", "prepare", "output", "start"},
           UNCHANGED <<group, forked, code, status, age, orphaned>>, signalled' \in BOOLEAN,
           UNCHANGED runVars
    PROVE  VerifierInv'
<1>1. GroupTypes /\ RunTypes /\ NotStarted /\ GroupEnds /\ ResultMeansGone BY DEF VerifierInv
<1>2. RunTypes' BY <1>1 DEF RunTypes, runVars
<1>3. GroupTypes' BY <1>1 DEF GroupTypes, CallGoesOn
<1>4. ~Before BY <1>1 DEF NotStarted, NotCalled, Returned
<1>5. NotStarted'
  BY <1>4 DEF NotStarted, Before, runVars, CallGoesOn, Starting
<1>6. GroupEnds' BY <1>1 DEF GroupEnds, runVars
<1>7. ResultMeansGone' BY <1>1 DEF ResultMeansGone, runVars, CallGoesOn, Open
<1> QED BY <1>2, <1>3, <1>5, <1>6, <1>7 DEF VerifierInv

\* A step of the scheduler's call keeps it: the result is published after the
\* process table has listed nobody.
LEMMA CallKeeps == ASSUME VerifierInv, Call PROVE VerifierInv'
<1> USE DEF Call
<1>1. GroupTypes /\ RunTypes /\ NotStarted /\ GroupEnds /\ ResultMeansGone BY DEF VerifierInv
<1>2. RunTypes' BY <1>1 DEF RunTypes, runVars
<1>3. call.pc # "returned" => call.result # "zero" BY <1>1 DEF ResultMeansGone
<1>4. call \in CallSet BY <1>1 DEF GroupTypes
<1>5. CASE Prepare
  <2>1. GroupTypes'
    <3>1. \/ call' = [call EXCEPT !.pc = "output"]
          \/ call' = [pc |-> "refused", cancelled |-> FALSE, failed |-> FALSE, result |-> Unset]
      BY <1>5 DEF Prepare, Calls, NotCalled, Returned
    <3>2. call' \in CallSet
      <4>1. {"output", "refused"} \subseteq CallPcs BY DEF CallPcs
      <4>2. [call EXCEPT !.pc = "output"] \in CallSet BY <1>4, <4>1 DEF CallSet
      <4>3. [pc |-> "refused", cancelled |-> FALSE, failed |-> FALSE, result |-> Unset] \in CallSet
        BY <4>1 DEF CallSet
      <4> QED BY <3>1, <4>2, <4>3
    <3> QED BY <1>1, <1>5, <3>2 DEF Prepare, GroupTypes, groupVars
  <2>2. NotStarted'
    BY <1>1, <1>5, Constants DEF Prepare, NoFiles, Calls, NotCalled, Returned, groupVars, runVars, GroupTypes, CallSet, FileSet, RunTypes, NotStarted, Before, Late, Starting
  <2>3. GroupEnds'
    BY <1>1, <1>5, Constants DEF Prepare, NoFiles, Calls, NotCalled, Returned, groupVars, runVars, GroupTypes, CallSet, FileSet, RunTypes, GroupEnds, NotStarted, Starting
  <2>4. ResultMeansGone'
    BY <1>1, <1>5, Constants DEF Prepare, NoFiles, Calls, NotCalled, Returned, groupVars, runVars, GroupTypes, CallSet, FileSet, RunTypes, ResultMeansGone, NotStarted, Starting, Late, Open
  <2> QED BY <1>2, <2>1, <2>2, <2>3, <2>4 DEF VerifierInv
<1>6. CASE CreateOutput
  <2>1. GroupTypes'
    <3>1. \/ /\ call' = [call EXCEPT !.pc = "start"] /\ files' = [files EXCEPT !.output = TRUE]
          \/ /\ call' = [pc |-> "returned", cancelled |-> FALSE, failed |-> TRUE, result |-> Unset]
             /\ files' = [files EXCEPT !.output = FALSE, !.tmp = Unset]
      BY <1>6 DEF CreateOutput, ProtocolError, Calls, Returned
    <3>2. call' \in CallSet
      <4>1. {"start", "returned"} \subseteq CallPcs BY DEF CallPcs
      <4>2. [call EXCEPT !.pc = "start"] \in CallSet BY <1>4, <4>1 DEF CallSet
      <4>3. [pc |-> "returned", cancelled |-> FALSE, failed |-> TRUE, result |-> Unset] \in CallSet
        BY <4>1 DEF CallSet
      <4> QED BY <3>1, <4>2, <4>3
    <3>3. files \in FileSet BY <1>1 DEF GroupTypes
    <3>4. files' \in FileSet BY <3>1, <3>3 DEF FileSet
    <3> QED BY <1>1, <1>6, <3>2, <3>4 DEF CreateOutput, GroupTypes, groupVars
  <2>2. NotStarted'
    BY <1>1, <1>6, Constants DEF CreateOutput, ProtocolError, Calls, NotCalled, Returned, groupVars, runVars, GroupTypes, CallSet, FileSet, RunTypes, NotStarted, Before, Late, Starting
  <2>3. GroupEnds'
    BY <1>1, <1>6, Constants DEF CreateOutput, ProtocolError, Calls, NotCalled, Returned, groupVars, runVars, GroupTypes, CallSet, FileSet, RunTypes, GroupEnds, NotStarted, Starting
  <2>4. ResultMeansGone'
    BY <1>1, <1>6, Constants DEF CreateOutput, ProtocolError, Calls, NotCalled, Returned, groupVars, runVars, GroupTypes, CallSet, FileSet, RunTypes, ResultMeansGone, NotStarted, Starting, Late, Open
  <2> QED BY <1>2, <2>1, <2>2, <2>3, <2>4 DEF VerifierInv
<1>7. CASE StartSupervisor
  <2>1. GroupTypes'
    <3>1. files' \in FileSet
      BY <1>1, <1>7 DEF StartSupervisor, GroupTypes, FileSet
    <3>2. call' \in CallSet
      BY <1>1, <1>7, Constants DEF StartSupervisor, GroupTypes, CallSet, CallPcs, Calls, Returned
    <3>3. group' \subseteq {"supervisor", "verifier", "descendant", "reaper"} /\ age' \in Nat
      BY <1>1, <1>7 DEF StartSupervisor, GroupTypes, groupVars
    <3> QED BY <1>1, <1>7, <3>1, <3>2, <3>3 DEF StartSupervisor, GroupTypes, groupVars
  <2>2. NotStarted'
    BY <1>1, <1>7, Constants DEF StartSupervisor, Calls, NotCalled, Returned, groupVars, runVars, GroupTypes, CallSet, FileSet, RunTypes, NotStarted, Before, Late, Starting
  <2>3. GroupEnds'
    BY <1>1, <1>7, Constants DEF StartSupervisor, Calls, NotCalled, Returned, groupVars, runVars, GroupTypes, CallSet, FileSet, RunTypes, GroupEnds, NotStarted, Starting
  <2>4. ResultMeansGone'
    BY <1>1, <1>7, Constants DEF StartSupervisor, Calls, NotCalled, Returned, groupVars, runVars, GroupTypes, CallSet, FileSet, RunTypes, ResultMeansGone, NotStarted, Starting, Late, Open
  <2> QED BY <1>2, <2>1, <2>2, <2>3, <2>4 DEF VerifierInv
<1>8. CASE WaitReturns
  <2>1. /\ call.pc = "wait" /\ UNCHANGED <<groupVars, files>>
        /\ \E b \in BOOLEAN : call' = [call EXCEPT !.pc = "kill", !.cancelled = b]
    <3>1. call' = [call EXCEPT !.pc = "kill"] => call' = [call EXCEPT !.pc = "kill", !.cancelled = call.cancelled]
      BY <1>4 DEF CallSet
    <3>2. call.cancelled \in BOOLEAN BY <1>4 DEF CallSet
    <3> QED BY <1>8, <3>1, <3>2 DEF WaitReturns, Calls
  <2> QED BY <1>1, <1>3, <2>1, MoveGoesOn, GoingOnKeeps DEF groupVars, GroupTypes
<1>9. CASE ObserveGroup
  <2>1. call.pc = "kill" /\ UNCHANGED groupVars BY <1>9 DEF ObserveGroup
  <2>2. CallGoesOn
    <3>1. CASE KillFailed BY <1>1, <1>3, <2>1, <3>1, KillFailedGoesOn
    <3>2. CASE group = {} /\ Gone BY <1>1, <1>3, <2>1, <3>2, GoneGoesOn
    <3>3. ASSUME NEW pc \in {"reap", "signal"}, call' = [call EXCEPT !.pc = pc], UNCHANGED files
          PROVE  CallGoesOn
      <4>1. call' = [call EXCEPT !.pc = pc, !.cancelled = call.cancelled] /\ call.cancelled \in BOOLEAN
        BY <1>4, <3>3 DEF CallSet
      <4> QED BY <1>1, <1>3, <2>1, <3>3, <4>1, MoveGoesOn
    <3> QED BY <1>9, <3>1, <3>2, <3>3 DEF ObserveGroup, Members, Calls
  <2> QED BY <1>1, <2>1, <2>2, GoingOnKeeps DEF groupVars, GroupTypes
<1>10. CASE SignalGroup
  <2>1. /\ call.pc = "signal" /\ UNCHANGED <<group, forked, code, status, age, orphaned>>
        /\ signalled' \in BOOLEAN
    BY <1>1, <1>10 DEF SignalGroup, GroupTypes
  <2>2. CallGoesOn
    <3>1. CASE KillFailed BY <1>1, <1>3, <2>1, <3>1, KillFailedGoesOn
    <3>2. CASE group = {} /\ Gone BY <1>1, <1>3, <2>1, <3>2, GoneGoesOn
    <3>3. ASSUME NEW pc \in {"reap", "gone"}, call' = [call EXCEPT !.pc = pc], UNCHANGED files
          PROVE  CallGoesOn
      <4>1. call' = [call EXCEPT !.pc = pc, !.cancelled = call.cancelled] /\ call.cancelled \in BOOLEAN
        BY <1>4, <3>3 DEF CallSet
      <4> QED BY <1>1, <1>3, <2>1, <3>3, <4>1, MoveGoesOn
    <3> QED BY <1>10, <3>1, <3>2, <3>3 DEF SignalGroup, Members, Calls
  <2> QED BY <1>1, <2>1, <2>2, GoingOnKeeps
<1>11. CASE ReapSupervisor
  <2>1. /\ call.pc = "reap" /\ UNCHANGED <<groupVars, files>>
        /\ call' = [call EXCEPT !.pc = "gone", !.cancelled = call.cancelled] /\ call.cancelled \in BOOLEAN
    BY <1>4, <1>11 DEF ReapSupervisor, Calls, CallSet
  <2> QED BY <1>1, <1>3, <2>1, MoveGoesOn, GoingOnKeeps DEF groupVars, GroupTypes
<1>12. CASE AwaitGone
  <2>1. call.pc = "gone" /\ UNCHANGED groupVars BY <1>12 DEF AwaitGone
  <2>2. CallGoesOn
    BY <1>1, <1>3, <1>12, <2>1, GoneGoesOn, ProtocolErrorGoesOn DEF AwaitGone, Members
  <2> QED BY <1>1, <2>1, <2>2, GoingOnKeeps DEF groupVars, GroupTypes
<1>13. CASE WriteTemp
  <2>1. call.pc = "publish" /\ UNCHANGED groupVars BY <1>13 DEF WriteTemp
  <2>2. CallGoesOn
    <3>1. CASE ProtocolError BY <1>1, <3>1, ProtocolErrorGoesOn
    <3>2. CASE files' = [files EXCEPT !.tmp = "partial"] /\ call' = [call EXCEPT !.pc = "rename"]
      BY <1>1, <1>3, <1>4, <2>1, <3>2 DEF GroupTypes, FileSet, CallSet, CallPcs, CallGoesOn, ResultMeansGone
    <3> QED BY <1>13, <3>1, <3>2 DEF WriteTemp, Calls
  <2> QED BY <1>1, <2>1, <2>2, GoingOnKeeps DEF groupVars, GroupTypes
<1>14. CASE RenameMarker
  <2>1. call.pc = "rename" /\ UNCHANGED groupVars /\ group = {}
    BY <1>1, <1>14 DEF RenameMarker, ResultMeansGone
  <2>2. CASE ProtocolError
    BY <1>1, <2>1, <2>2, ProtocolErrorGoesOn, GoingOnKeeps DEF groupVars, GroupTypes
  <2>3. ASSUME files' \in FileSet, files'.marker = status, call' \in CallSet, call'.pc = "returned"
        PROVE  VerifierInv'
    <3>1. GroupTypes' BY <1>1, <2>1, <2>3 DEF GroupTypes, groupVars
    <3>2. ~Before BY <1>1, <2>1 DEF NotStarted, NotCalled, Returned
    <3>3. NotStarted' BY <3>2, <2>3 DEF NotStarted, Before, runVars, Starting
    <3>4. GroupEnds' BY <1>1, <2>1 DEF GroupEnds, runVars, groupVars
    <3>5. ResultMeansGone' BY <1>1, <2>1, <2>3 DEF ResultMeansGone, runVars, groupVars, Open
    <3> QED BY <1>2, <3>1, <3>3, <3>4, <3>5 DEF VerifierInv
  <2>4. CASE /\ files' = [files EXCEPT !.tmp = Unset, !.marker = status]
             /\ call' = [Returned EXCEPT !.result = status]
    <3>1. files' \in FileSet /\ files'.marker = status BY <1>1, <2>4 DEF GroupTypes, FileSet
    <3>2. call' \in CallSet /\ call'.pc = "returned"
      BY <1>1, <2>4 DEF GroupTypes, CallSet, CallPcs, Returned
    <3> QED BY <2>3, <3>1, <3>2
  <2>5. CASE /\ files' = [output |-> FALSE, tmp |-> Unset, marker |-> status]
             /\ call' = [Returned EXCEPT !.failed = TRUE]
    <3>1. files' \in FileSet /\ files'.marker = status BY <1>1, <2>5 DEF GroupTypes, FileSet
    <3>2. call' \in CallSet /\ call'.pc = "returned" BY <2>5 DEF CallSet, CallPcs, Returned
    <3> QED BY <2>3, <3>1, <3>2
  <2> QED BY <1>14, <2>2, <2>4, <2>5 DEF RenameMarker, Calls
<1> QED BY <1>5, <1>6, <1>7, <1>8, <1>9, <1>10, <1>11, <1>12, <1>13, <1>14 DEF CallStep

-----------------------------------------------------------------------------

\* What every step of a thread does that neither claims the verifier nor removes
\* its files: the thread goes where only a group that is gone lets it succeed.
ThreadGoesOn(t, x) ==
    /\ x \in ThSet /\ th' = [th EXCEPT ![t] = x]
    /\ x.pc = "review" => x.from \in {"running", "settled"}
    /\ state' \in RunStates /\ verdict' \in {"unverified", "passed", "failed"}
    /\ agent' \in {"waiting", "running", "settled"}
    /\ Before' => Before /\ x.pc \notin {"verifier", "finish", "takeover", "clean"}
    /\ Starting => state' = state /\ x.pc \notin {"finish", "takeover", "clean"}
    /\ Open' => Open
    /\ x.pc \in {"finish", "takeover"} /\ x.outcome = "succeeded" => group = {}
    /\ x.pc = "clean" => ~Open'

\* Such a step keeps the invariant.
LEMMA ThreadKeeps ==
    ASSUME VerifierInv, UNCHANGED verifierVars, UNCHANGED lease,
           NEW t \in Threads, NEW x, ThreadGoesOn(t, x)
    PROVE  VerifierInv'
<1>1. GroupTypes /\ RunTypes /\ NotStarted /\ GroupEnds /\ ResultMeansGone BY DEF VerifierInv
<1>2. GroupTypes' /\ GroupEnds' BY <1>1 DEF GroupTypes, GroupEnds, verifierVars
<1>3. RunTypes' BY <1>1 DEF RunTypes, ThreadGoesOn
<1>4. NotStarted'
  <2>1. \A s \in Threads : th'[s] = th[s] \/ (s = t /\ th'[s] = x) BY <1>1 DEF RunTypes, ThreadGoesOn
  <2>2. Starting' <=> Starting BY DEF Starting, verifierVars
  <2> QED BY <1>1, <2>1, <2>2 DEF NotStarted, ThreadGoesOn, verifierVars, Late
<1>5. ResultMeansGone'
  <2>1. \A s \in Threads : th'[s] = th[s] \/ (s = t /\ th'[s] = x) BY <1>1 DEF RunTypes, ThreadGoesOn
  <2> QED BY <1>1, <2>1 DEF ResultMeansGone, ThreadGoesOn, verifierVars
<1> QED BY <1>2, <1>3, <1>4, <1>5 DEF VerifierInv

\* A step that changes neither the threads nor what the invariant speaks of.
LEMMA OthersKeep ==
    ASSUME VerifierInv, UNCHANGED <<verifierVars, state, verdict, lease, th>>,
           agent' \in {"waiting", "running", "settled"}
    PROVE  VerifierInv'
<1>1. GroupTypes /\ RunTypes /\ NotStarted /\ GroupEnds /\ ResultMeansGone BY DEF VerifierInv
<1>2. GroupTypes' /\ GroupEnds' BY <1>1 DEF GroupTypes, GroupEnds, verifierVars
<1>3. RunTypes' BY <1>1 DEF RunTypes
<1>4. NotStarted' BY <1>1 DEF NotStarted, Before, Starting, Late, verifierVars
<1>5. ResultMeansGone' BY <1>1 DEF ResultMeansGone, Open, verifierVars
<1> QED BY <1>2, <1>3, <1>4, <1>5 DEF VerifierInv

\* The steps of the threads up to the claim.
LEMMA MonitorKeeps ==
    ASSUME VerifierInv, NEW t \in Threads,
           Stage \/ StartAgent \/ MonitorSettles \/ ReconcileRun(t) \/ EndReview(t)
    PROVE  VerifierInv'
<1>1. GroupTypes /\ RunTypes /\ NotStarted /\ GroupEnds /\ ResultMeansGone BY DEF VerifierInv
<1> DEFINE m == "monitor"
<1>2. m \in Threads /\ th[m] \in ThSet /\ th[t] \in ThSet /\ Resting \in ThSet /\ state \in RunStates
  BY <1>1, Constants DEF RunTypes, Resting, ThSet, ThreadPcs, RunStates, Terminal
<1>3. ASSUME NEW s \in Threads, NEW x \in ThSet, th' = [th EXCEPT ![s] = x], UNCHANGED <<verifierVars, lease>>,
             x.pc \in {"idle", "staged", "await", "review", "settled"},
             x.pc = "review" => x.from \in {"running", "settled"},
             state' \in RunStates, verdict' \in {"unverified", "passed", "failed"},
             agent' \in {"waiting", "running", "settled"},
             Before' => Before, Starting => state' = state, Open' => Open
      PROVE  VerifierInv'
  BY <1>3, ThreadKeeps DEF ThreadGoesOn
<1>4. CASE Stage
  <2>1. [th[m] EXCEPT !.pc = "staged"] \in ThSet BY <1>2 DEF ThSet, ThreadPcs
  <2>2. th' = [th EXCEPT ![m] = [th[m] EXCEPT !.pc = "staged"]] /\ UNCHANGED <<verifierVars, state, verdict, lease, agent>>
    BY <1>4 DEF Stage, Moves, rowRest
  <2> QED BY <1>1, <1>2, <1>3, <2>1, <2>2 DEF RunTypes, Before, Open, ThSet
<1>5. CASE StartAgent
  <2>1. [th[m] EXCEPT !.pc = "await"] \in ThSet BY <1>2 DEF ThSet, ThreadPcs
  <2>2. \E x \in ThSet : x.pc \in {"idle", "await"} /\ th' = [th EXCEPT ![m] = x]
    BY <1>2, <1>5, <2>1 DEF StartAgent, Moves, Rests, Resting, ThSet
  <2>3. /\ UNCHANGED <<verifierVars, lease>> /\ agent' \in {"waiting", "running", "settled"}
        /\ \E to \in {"failed", "running"} : Finish("starting", to, "unverified")
    BY <1>1, <1>5 DEF StartAgent, RunTypes
  <2>4. /\ state' \in RunStates /\ verdict' \in {"unverified", "passed", "failed"}
        /\ (Before' => Before) /\ (Open' => Open) /\ (Starting => state' = state)
    BY <1>1, <2>3 DEF Finish, RunTypes, RunStates, Terminal, Before, Open, NotStarted
  <2> QED BY <1>2, <1>3, <2>2, <2>3, <2>4
<1>6. CASE MonitorSettles
  <2>1. [th[m] EXCEPT !.pc = "review", !.from = "running"] \in ThSet BY <1>2 DEF ThSet, ThreadPcs, RunStates
  <2>2. /\ th' = [th EXCEPT ![m] = [th[m] EXCEPT !.pc = "review", !.from = "running"]]
        /\ UNCHANGED <<verifierVars, state, verdict, lease, agent>>
    BY <1>6 DEF MonitorSettles, rowRest
  <2> QED BY <1>1, <1>2, <1>3, <2>1, <2>2 DEF RunTypes, Before, Open, ThSet
<1>7. CASE ReconcileRun(t)
  <2>1. [th[t] EXCEPT !.pc = "review", !.from = state] \in ThSet BY <1>2 DEF ThSet, ThreadPcs
  <2>2. /\ th' = [th EXCEPT ![t] = [th[t] EXCEPT !.pc = "review", !.from = state]]
        /\ UNCHANGED <<verifierVars, state, verdict, lease, agent>> /\ state \in {"running", "settled"}
    BY <1>7 DEF ReconcileRun
  <2> QED BY <1>1, <1>2, <1>3, <2>1, <2>2 DEF RunTypes, Before, Open, ThSet
<1>8. CASE EndReview(t)
  <2>1. [th[t] EXCEPT !.pc = "settled"] \in ThSet BY <1>2 DEF ThSet, ThreadPcs
  <2>2. \E x \in ThSet : x.pc \in {"idle", "settled"} /\ th' = [th EXCEPT ![t] = x]
    BY <1>2, <1>8, <2>1 DEF EndReview, Moves, Rests, Resting, ThSet
  <2>3. UNCHANGED <<verifierVars, lease, agent>> BY <1>8 DEF EndReview, rowRest
  <2>4. \/ UNCHANGED <<state, verdict>>
        \/ state = th[t].from /\ state' = "failed" /\ verdict' = "unverified"
        \/ state = th[t].from /\ state' = "settled" /\ verdict' = verdict
    BY <1>8 DEF EndReview, Finish
  <2>5. /\ state' \in RunStates /\ verdict' \in {"unverified", "passed", "failed"}
        /\ (Before' => Before) /\ (Open' => Open) /\ (Starting => state' = state)
    BY <1>1, <1>8, <2>4 DEF EndReview, RunTypes, RunStates, Terminal, Before, Open, NotStarted
  <2> QED BY <1>1, <1>2, <1>3, <2>2, <2>3, <2>5 DEF RunTypes
<1> QED BY <1>4, <1>5, <1>6, <1>7, <1>8

\* The claim is made once, by one thread, before there is a group or a file.
LEMMA ClaimKeeps == ASSUME VerifierInv, NEW t \in Threads, ClaimOrFinish(t) PROVE VerifierInv'
<1>1. GroupTypes /\ RunTypes /\ NotStarted /\ GroupEnds /\ ResultMeansGone BY DEF VerifierInv
<1>2. th[t] \in ThSet /\ Resting \in ThSet /\ [th[t] EXCEPT !.pc = "verifier"] \in ThSet
  BY <1>1 DEF RunTypes, Resting, ThSet, ThreadPcs, RunStates, Terminal
<1>3. \E x \in ThSet : x.pc \in {"idle", "verifier"} /\ th' = [th EXCEPT ![t] = x]
  BY <1>2 DEF ClaimOrFinish, Moves, Rests, Resting, ThSet
<1>4. UNCHANGED <<groupVars, files, agent>> BY DEF ClaimOrFinish
<1>5. CASE UNCHANGED <<lease, call>> /\ th' = [th EXCEPT ![t] = Resting]
           /\ (Finish("settled", "succeeded", "unverified") \/ UNCHANGED <<state, verdict>>)
  <2>1. /\ state' \in RunStates /\ verdict' \in {"unverified", "passed", "failed"}
        /\ (Before' => Before) /\ (Open' => Open) /\ (Starting => state' = state)
    BY <1>1, <1>5 DEF Finish, RunTypes, RunStates, Terminal, Before, Open, NotStarted
  <2>2. ThreadGoesOn(t, Resting)
    BY <1>1, <1>2, <1>4, <1>5, <2>1 DEF ThreadGoesOn, Resting, RunTypes
  <2> QED BY <1>4, <1>5, <2>2, ThreadKeeps DEF verifierVars, groupVars
<1>6. CASE state = "settled" /\ state' = "verifying" /\ lease' = Lease /\ verdict' = verdict
           /\ call' = [NotCalled EXCEPT !.pc = "prepare"]
           /\ th' = [th EXCEPT ![t] = [th[t] EXCEPT !.pc = "verifier"]]
  <2>1. GroupTypes'
    <3>1. call' \in CallSet /\ call'.pc = "prepare" /\ call'.result = Unset
      BY <1>6, Constants DEF NotCalled, Returned, CallSet, CallPcs
    <3> QED BY <1>1, <1>4, <3>1 DEF GroupTypes, groupVars
  <2>2. call'.pc = "prepare" /\ call'.result = Unset BY <1>6 DEF NotCalled, Returned
  <2>3. \A s \in Threads : th'[s] = th[s] \/ th'[s].pc = "verifier"
    BY <1>1, <1>2, <1>6 DEF RunTypes, ThSet
  <2>4. RunTypes'
    BY <1>1, <1>2, <1>4, <1>6, <2>3, Constants DEF RunTypes, RunStates, Terminal
  <2>5. NotStarted'
    BY <1>1, <1>4, <1>6, <2>2, <2>3, Constants DEF NotStarted, Before, Starting, Late, groupVars
  <2>6. GroupEnds' BY <1>1, <1>4, <1>6, <2>2 DEF GroupEnds, groupVars, NotStarted, Before
  <2>7. ResultMeansGone'
    BY <1>1, <1>4, <1>6, <2>2, <2>3, Constants DEF ResultMeansGone, groupVars, NotStarted, Before, Late
  <2> QED BY <2>1, <2>4, <2>5, <2>6, <2>7 DEF VerifierInv
<1> QED BY <1>5, <1>6 DEF ClaimOrFinish, Rests, Moves

\* The owner reads a result, or a pass takes an expired verifier over.
LEMMA ResultKeeps ==
    ASSUME VerifierInv, NEW t \in Threads, VerifierReturned(t) \/ VerifierRefused(t) \/ ReadReceipt
    PROVE  VerifierInv'
<1>1. GroupTypes /\ RunTypes /\ NotStarted /\ GroupEnds /\ ResultMeansGone BY DEF VerifierInv
<1>2. th[t] \in ThSet /\ Resting \in ThSet /\ call \in CallSet
  BY <1>1 DEF RunTypes, Resting, ThSet, ThreadPcs, RunStates, Terminal, GroupTypes
<1>3. CASE VerifierReturned(t)
  <2> DEFINE o == IF call.result = "zero" THEN "succeeded" ELSE "failed"
             v == IF call.failed THEN "unverified" ELSE IF call.result = "zero" THEN "passed" ELSE "failed"
             x == [th[t] EXCEPT !.pc = "finish", !.from = "verifying", !.outcome = o, !.verdict = v]
  <2>1. /\ x \in ThSet /\ x.pc = "finish"
        /\ x.outcome = "succeeded" => call.result = "zero"
    <3>1. /\ o \in Terminal /\ v \in {"unverified", "passed", "failed"}
          /\ o = "succeeded" => call.result = "zero"
      BY DEF Terminal
    <3> HIDE DEF o, v
    <3>2. {"finish"} \subseteq ThreadPcs /\ {"verifying"} \subseteq RunStates BY DEF ThreadPcs, RunStates
    <3>3. th[t] \in ThSet BY <1>2
    <3> QED BY <3>1, <3>2, <3>3 DEF ThSet
  <2>2. th' = [th EXCEPT ![t] = x] BY <1>3 DEF VerifierReturned
  <2> HIDE DEF x
  <2>3. call.pc = "returned" /\ UNCHANGED <<verifierVars, state, verdict, lease, agent>>
    BY <1>3 DEF VerifierReturned, rowRest
  <2>4. ~Before /\ ~Starting BY <1>1, <2>3 DEF NotStarted, NotCalled, Returned, Starting
  <2>5. ThreadGoesOn(t, x)
    BY <1>1, <2>1, <2>2, <2>3, <2>4 DEF ThreadGoesOn, RunTypes, ResultMeansGone, Before, Open
  <2> QED BY <2>3, <2>5, ThreadKeeps
<1>4. CASE VerifierRefused(t)
  <2>1. /\ call.pc = "refused" /\ th' = [th EXCEPT ![t] = Resting] /\ UNCHANGED <<verifierVars, lease, agent>>
        /\ Finish("verifying", "failed", "unverified") \/ UNCHANGED <<state, verdict>>
    BY <1>4 DEF VerifierRefused, rowRest, Rests
  <2>2. /\ state' \in RunStates /\ verdict' \in {"unverified", "passed", "failed"}
        /\ (Before' => Before) /\ (Open' => Open) /\ ~Starting
    BY <1>1, <2>1 DEF Finish, RunTypes, RunStates, Terminal, Before, Open, Starting
  <2>3. ThreadGoesOn(t, Resting)
    BY <1>1, <1>2, <2>1, <2>2 DEF ThreadGoesOn, Resting, RunTypes
  <2> QED BY <2>1, <2>3, ThreadKeeps
<1>5. CASE ReadReceipt
  <2> DEFINE r == "reconciler"
             x == [pc |-> "takeover", from |-> "verifying",
                   outcome |-> Result(files.marker)[1], verdict |-> Result(files.marker)[2]]
  <2>1. files.marker \in {"zero", "nonzero", Unset} BY <1>1, Constants DEF GroupTypes, FileSet
  <2>2. /\ Result(files.marker)[1] \in Terminal
        /\ Result(files.marker)[2] \in {"unverified", "passed", "failed"}
        /\ Result(files.marker)[1] = "succeeded" => files.marker # Unset
    <3>1. CASE files.marker = "zero" BY <3>1, Constants DEF Result, Terminal
    <3>2. CASE files.marker = "nonzero" BY <3>2 DEF Result, Terminal
    <3>3. CASE files.marker \notin {"zero", "nonzero"}
      <4>1. Result(files.marker) = <<"interrupted", "unverified">> BY <3>3 DEF Result
      <4> QED BY <4>1 DEF Terminal
    <3> QED BY <3>1, <3>2, <3>3
  <2>3. x \in ThSet /\ x.pc = "takeover" /\ (x.outcome = "succeeded" => files.marker # Unset)
    BY <2>2 DEF ThSet, ThreadPcs, RunStates
  <2>4. r \in Threads /\ th' = [th EXCEPT ![r] = x] BY <1>5, Constants DEF ReadReceipt
  <2> HIDE DEF x
  <2>5. state = "verifying" /\ lease = 0 /\ UNCHANGED <<verifierVars, state, verdict, lease, agent>>
    BY <1>5 DEF ReadReceipt, Expired, rowRest
  <2>6. ~Before /\ ~Starting BY <1>1, <2>5, Constants DEF NotStarted, Before, RunTypes
  <2>7. ThreadGoesOn(r, x)
    BY <1>1, <2>3, <2>4, <2>5, <2>6 DEF ThreadGoesOn, RunTypes, ResultMeansGone, Before, Open
  <2> QED BY <2>4, <2>5, <2>7, ThreadKeeps
<1> QED BY <1>3, <1>4, <1>5

\* The outcome is persisted, and only then are the files removed.
LEMMA ConcludeKeeps ==
    ASSUME VerifierInv, NEW t \in Threads, Conclude(t) \/ RemoveArtifacts(t)
    PROVE  VerifierInv'
<1>1. GroupTypes /\ RunTypes /\ NotStarted /\ GroupEnds /\ ResultMeansGone BY DEF VerifierInv
<1>2. th[t] \in ThSet /\ Resting \in ThSet /\ [th[t] EXCEPT !.pc = "clean"] \in ThSet
  BY <1>1 DEF RunTypes, Resting, ThSet, ThreadPcs, RunStates, Terminal
<1>3. CASE Conclude(t)
  <2>1. Late(t) /\ UNCHANGED <<verifierVars, lease, agent>> BY <1>3 DEF Conclude, Late, rowRest
  <2>2. ~Before /\ ~Starting BY <1>1, <2>1 DEF NotStarted
  <2>3. CASE UNCHANGED <<state, verdict>> /\ th' = [th EXCEPT ![t] = Resting]
    <3>1. ThreadGoesOn(t, Resting)
      BY <1>1, <1>2, <2>1, <2>2, <2>3 DEF ThreadGoesOn, Resting, RunTypes, Before, Open
    <3> QED BY <2>1, <3>1, ThreadKeeps
  <2>4. CASE /\ state' \in Terminal /\ verdict' \in {"unverified", "passed", "failed"}
             /\ th' = [th EXCEPT ![t] = [th[t] EXCEPT !.pc = "clean"]]
    <3>1. [th[t] EXCEPT !.pc = "clean"].pc = "clean" BY <1>2 DEF ThSet
    <3>2. ThreadGoesOn(t, [th[t] EXCEPT !.pc = "clean"])
      BY <1>1, <1>2, <2>1, <2>2, <2>4, <3>1 DEF ThreadGoesOn, RunTypes, Before, Open, RunStates, Terminal
    <3> QED BY <2>1, <3>2, ThreadKeeps
  <2> QED BY <1>2, <1>3, <2>3, <2>4 DEF Conclude, Rests, Moves, ThSet, Terminal
<1>4. CASE RemoveArtifacts(t)
  <2>1. /\ th[t].pc = "clean" /\ files' = NoFiles /\ th' = [th EXCEPT ![t] = Resting]
        /\ UNCHANGED <<groupVars, call, state, verdict, lease, agent>>
    BY <1>4 DEF RemoveArtifacts, Rests, rowRest
  <2>2. ~Before /\ ~Starting BY <1>1, <2>1 DEF NotStarted, Late
  <2>3. GroupTypes' BY <1>1, <2>1 DEF GroupTypes, groupVars, NoFiles, FileSet
  <2>4. \A s \in Threads : th'[s] = th[s] \/ th'[s].pc = "idle" BY <1>1, <2>1 DEF RunTypes, Resting
  <2>5. RunTypes' BY <1>1, <1>2, <2>1, <2>4 DEF RunTypes
  <2>6. NotStarted' /\ GroupEnds'
    BY <1>1, <2>1, <2>2 DEF NotStarted, GroupEnds, Before, Starting, groupVars
  <2>7. ResultMeansGone' BY <1>1, <2>1, <2>4 DEF ResultMeansGone, groupVars, NoFiles, Open
  <2> QED BY <2>3, <2>5, <2>6, <2>7 DEF VerifierInv
<1> QED BY <1>3, <1>4

\* The scheduler dies and returns, and the clock ticks: a tick finds no signal
\* under way, no reaper at work and a supervisor younger than its alarm.
LEMMA WorldKeeps == ASSUME VerifierInv, Crash \/ Restart \/ Tick PROVE VerifierInv'
<1>1. GroupTypes /\ RunTypes /\ NotStarted /\ GroupEnds /\ ResultMeansGone BY DEF VerifierInv
<1>2. Resting \in ThSet /\ Resting.pc = "idle" BY DEF Resting, ThSet, ThreadPcs, RunStates, Terminal
<1>3. CASE Crash
  <2>1. /\ th' = [t \in Threads |-> Resting] /\ call' = NotCalled
        /\ UNCHANGED <<groupVars, files, state, verdict, lease, agent>>
    BY <1>3 DEF Crash
  <2>2. call' \in CallSet /\ call'.pc = "none" /\ call'.result = Unset
    BY <2>1 DEF NotCalled, Returned, CallSet, CallPcs
  <2>3. GroupTypes' BY <1>1, <2>1, <2>2 DEF GroupTypes, groupVars
  <2>4. RunTypes' BY <1>1, <1>2, <2>1 DEF RunTypes
  <2>5. NotStarted' BY <1>1, <1>2, <2>1, <2>2 DEF NotStarted, Before, Starting, Late, groupVars
  <2>6. GroupEnds' BY <1>1, <2>1 DEF GroupEnds, groupVars
  <2>7. ResultMeansGone' BY <1>1, <1>2, <2>1, <2>2, Constants DEF ResultMeansGone, groupVars
  <2> QED BY <2>3, <2>4, <2>5, <2>6, <2>7 DEF VerifierInv
<1>4. CASE Restart
  <2> DEFINE m == "monitor"
  <2>1. m \in Threads /\ UNCHANGED <<verifierVars, lease, agent>> BY <1>4, Constants DEF Restart
  <2>2. th[m] \in ThSet /\ [th[m] EXCEPT !.pc = "await"] \in ThSet BY <1>1, <2>1 DEF RunTypes, ThSet, ThreadPcs
  <2>3. \/ UNCHANGED <<state, verdict>>
        \/ state = "starting" /\ state' = "interrupted" /\ verdict' = "unverified"
    BY <1>4 DEF Restart, Finish
  <2>4. /\ state' \in RunStates /\ verdict' \in {"unverified", "passed", "failed"}
        /\ (Before' => Before) /\ (Open' => Open) /\ (Starting => state' = state)
    BY <1>1, <2>3 DEF RunTypes, RunStates, Terminal, Before, Open, NotStarted
  <2>5. CASE th' = [th EXCEPT ![m] = [th[m] EXCEPT !.pc = "await"]]
    <3>1. [th[m] EXCEPT !.pc = "await"].pc = "await" BY <2>2 DEF ThSet
    <3>2. ThreadGoesOn(m, [th[m] EXCEPT !.pc = "await"])
      BY <1>1, <2>1, <2>2, <2>4, <2>5, <3>1 DEF ThreadGoesOn, RunTypes
    <3> QED BY <2>1, <3>2, ThreadKeeps
  <2>6. CASE th' = th
    <3>1. GroupTypes' /\ GroupEnds' BY <1>1, <2>1 DEF GroupTypes, GroupEnds, verifierVars
    <3>2. RunTypes' BY <1>1, <2>1, <2>4, <2>6 DEF RunTypes
    <3>3. NotStarted' BY <1>1, <2>1, <2>4, <2>6 DEF NotStarted, Starting, Late, verifierVars
    <3>4. ResultMeansGone' BY <1>1, <2>1, <2>4, <2>6 DEF ResultMeansGone, verifierVars
    <3> QED BY <3>1, <3>2, <3>3, <3>4 DEF VerifierInv
  <2> QED BY <1>4, <2>5, <2>6 DEF Restart
<1>5. CASE Tick
  <2>1. /\ state = "verifying" /\ lease > 0 /\ ClockMayTick /\ lease' = lease - 1
        /\ (Starting => lease > Lease - StartDelay)
        /\ age' = IF "supervisor" \in group THEN age + 1 ELSE age
        /\ UNCHANGED <<group, forked, signalled, code, status, orphaned, files, call, state, verdict, agent, th>>
    BY <1>5 DEF Tick
  <2>2. GroupTypes' BY <1>1, <2>1 DEF GroupTypes
  <2>3. RunTypes' BY <1>1, <2>1 DEF RunTypes
  <2>4. NotStarted'
    BY <1>1, <2>1, Constants DEF NotStarted, Before, Starting, Late, RunTypes
  <2>5. GroupEnds'
    BY <1>1, <2>1, Constants DEF GroupEnds, ClockMayTick, GroupTypes, RunTypes
  <2>6. ResultMeansGone' BY <1>1, <2>1 DEF ResultMeansGone, Open
  <2> QED BY <2>2, <2>3, <2>4, <2>5, <2>6 DEF VerifierInv
<1> QED BY <1>3, <1>4, <1>5

\* Whoever writes to a file or observes one leaves all this alone.
LEMMA FilesKeep ==
    ASSUME VerifierInv,
           \/ AgentSettles \/ AgentWrites \/ LeftoverWrites \/ GroupWrites \/ SourceChanges
           \/ \E t \in Threads : Observe(t)
           \/ UNCHANGED vars
    PROVE  VerifierInv'
<1>1. RunTypes BY DEF VerifierInv
<1>2. UNCHANGED <<verifierVars, state, verdict, lease, th>> /\ agent' \in {"waiting", "running", "settled"}
  BY <1>1 DEF AgentSettles, AgentWrites, LeftoverWrites, GroupWrites, SourceChanges, Observe, vars, runVars, RunTypes
<1> QED BY <1>2, OthersKeep

\* Every step keeps what is said of the verifier.
LEMMA VerifierKept == VerifierInv /\ [Next]_vars => VerifierInv'
  BY GroupKeeps, CallKeeps, MonitorKeeps, ClaimKeeps, ResultKeeps, ConcludeKeeps, WorldKeeps, FilesKeep, Constants
  DEF Next

\* The invariant holds of every reachable state.
THEOREM VerifierAlways == Spec => []VerifierInv
  BY VerifierAtFirst, VerifierKept, PTL DEF Spec

-----------------------------------------------------------------------------

\* A published result, or a pass its owner accepts, is that of a group that has
\* no member left (publishVerifierReceipt after waitVerifierProcessGroupGone).
THEOREM PublishedAfterDeath == Spec => []PublishedMeansGone
<1>1. VerifierInv => PublishedMeansGone BY DEF VerifierInv, ResultMeansGone, PublishedMeansGone
<1> QED BY <1>1, VerifierAlways, PTL

\* From the instant another pass may take the verifier over, no process of its
\* group is left, unless there was no fork for the reaper (verifierLease against
\* the supervisor's alarm).
THEOREM TakeoverFindsNobody == Spec => []GoneBeforeTakeover
<1>1. VerifierInv => GoneBeforeTakeover
  BY DEF VerifierInv, GroupEnds, GroupTypes, GoneBeforeTakeover, Expired
<1> QED BY <1>1, VerifierAlways, PTL

\* The result file holds the verifier's status from the instant a reader can
\* find it and until the run has its outcome (the RENAME_EXCL of
\* publishVerifierReceipt against removeVerifierArtifacts).
THEOREM MarkerStays == Spec => MarkerIsFinal
<1> DEFINE A == files.marker # Unset => /\ files.marker = status
                                        /\ files'.marker = files.marker \/ ~Open
<1>1. VerifierInv /\ [Next]_vars => [A]_vars
  <2> SUFFICES ASSUME VerifierInv, Next, files.marker # Unset
      PROVE  files.marker = status /\ (files'.marker = files.marker \/ ~Open)
    OBVIOUS
  <2>1. ResultMeansGone /\ GroupTypes BY DEF VerifierInv
  <2>2. files \in FileSet BY <2>1 DEF GroupTypes
  <2>3. CASE Call
    <3>1. ProtocolError => files'.marker = files.marker BY <2>2 DEF ProtocolError, FileSet
    <3>2. Gone => files'.marker = files.marker BY <2>2 DEF Gone, FileSet
    <3>3. KillFailed => files'.marker = files.marker BY <3>1 DEF KillFailed
    <3> QED
      BY <2>1, <2>2, <2>3, <3>1, <3>2, <3>3
      DEF Call, CallStep, Prepare, CreateOutput, StartSupervisor, WaitReturns, ObserveGroup, SignalGroup,
          ReapSupervisor, AwaitGone, WriteTemp, RenameMarker, FileSet, ResultMeansGone
  <2>4. CASE Group
    BY <2>1, <2>4 DEF Group, GroupStep, ForkVerifier, ForkDescendant, VerifierExits, SupervisorExits,
       ReaperKills, AlarmKills, Die, ResultMeansGone
  <2>5. CASE \E t \in Threads : RemoveArtifacts(t)
    BY <2>1, <2>5 DEF ResultMeansGone, RemoveArtifacts
  <2>6. files' = files => (files.marker = status /\ (files'.marker = files.marker \/ ~Open))
    BY <2>1 DEF ResultMeansGone
  <2> QED
    BY <2>3, <2>4, <2>5, <2>6
    DEF Next, Stage, StartAgent, AgentSettles, MonitorSettles, ReadReceipt, ReconcileRun, EndReview, ClaimOrFinish,
        VerifierReturned, VerifierRefused, Conclude, Observe, Crash, Restart, Tick, AgentWrites, LeftoverWrites,
        GroupWrites, SourceChanges, verifierVars
<1> QED BY <1>1, VerifierAlways, PTL DEF Spec, MarkerIsFinal

-----------------------------------------------------------------------------
(* What a review reads and writes.                                         *)

\* A receipt, and the content of every path that was observed so far.
Receipts == UNION {[S -> Held] : S \in SUBSET Names}
Listings == [changed : SUBSET Names, untracked : SUBSET Names]
ObsSet == [pc : ReviewPcs, todo : SUBSET Names, stamp : Nat, changed : SUBSET Names,
           untracked : SUBSET Names, states : Receipts,
           first : [listing : Listings, states : Receipts] \cup {None},
           between : Receipts \cup {None}]

Staging == {"open", "copy"}
Reviewing == {"prove", "proving", "diff", "others", "ignored", "observe", "reading"}

ReviewTypes ==
    /\ job \in [inputs : SUBSET Inputs, scoped : BOOLEAN, verifier : BOOLEAN]
    /\ source \in [Inputs -> Files] /\ tree \in [Names -> Files]
    /\ inputReceipt \in Receipts \cup {None} /\ changeReceipt \in Receipts \cup {None}
    /\ obs \in [Threads -> ObsSet] /\ restored \in BOOLEAN
    /\ \A t \in Threads :
         /\ obs[t].pc \in {"copy", "prove", "proving", "reading"} => obs[t].todo # {}
         /\ obs[t].pc \in Staging => obs[t].todo \subseteq job.inputs

\* A thread stages or observes only while its code is at that place; it stages
\* before the agent starts and observes after the agent has settled.
Places ==
    /\ \A t \in Threads :
         /\ obs[t].pc \in Staging => th[t].pc = "staged"
         /\ obs[t].pc \in Reviewing => th[t].pc \in {"review", "finish", "takeover"}
         /\ obs[t].pc \in {"ok", "failed"} => th[t].pc \in {"staged", "review", "finish", "takeover"}
         /\ th[t].pc \in {"stage", "staged"} => t = "monitor" /\ agent = "waiting"
         /\ th[t].pc \in {"review", "settled", "verifier", "finish", "takeover", "clean"} => agent = "settled"
    /\ state \in {"settled", "verifying", "succeeded"} => agent = "settled"

\* A thread that stages has a sound copy of the inputs it is done with, each
\* whole and from one instant; the receipt, once set, is of all the inputs.
FromSource(receipt) ==
    \A i \in DOMAIN receipt : i \in Inputs /\ receipt[i] \in source[i].past \ {Absent}
InHand(o) ==
    /\ job.inputs # {} /\ inputReceipt = None
    /\ DOMAIN o.states = job.inputs \ o.todo /\ FromSource(o.states)
    /\ o.pc = "copy" =>
         /\ o.stamp <= source[First(o.todo)].stamp
         /\ o.stamp = source[First(o.todo)].stamp => source[First(o.todo)].data # Absent
StagedSoFar ==
    /\ \A i \in Inputs : source[i].data \in source[i].past
    /\ \A t \in Threads : obs[t].pc \in Staging => InHand(obs[t])
    /\ \A t \in Threads : th[t].pc = "stage" => inputReceipt = None
    /\ \A t \in Threads :
         th[t].pc = "staged" /\ obs[t].pc = "ok" /\ job.inputs # {} => inputReceipt # None
    /\ agent # "waiting" /\ job.inputs # {} => inputReceipt # None
    /\ inputReceipt # None =>
         job.inputs # {} /\ DOMAIN inputReceipt = job.inputs /\ FromSource(inputReceipt)

StagingInv == ReviewTypes /\ RunTypes /\ Places /\ StagedSoFar

\* The first path of a set that is not empty is one of its paths.
LEMMA FirstIn == ASSUME NEW S \in SUBSET Names, S # {} PROVE First(S) \in S
<1> DEFINE N == Len(Sorted)
           D == {i \in DOMAIN Sorted : Sorted[i] \in S}
           Below(x) == {y \in D : y < x}
           Belows == {Below(x) : x \in D}
<1>1. N \in Nat /\ DOMAIN Sorted = 1 .. N /\ {Sorted[i] : i \in DOMAIN Sorted} = Names BY ReviewAssumption
<1>2. D \subseteq 1 .. N /\ D # {} BY <1>1
<1>3. IsFiniteSet(D) /\ \A i \in D : i \in Nat
  <2>1. IsFiniteSet(1 .. N) BY <1>1, FS_Interval
  <2> QED BY <1>2, <2>1, FS_Subset
<1> HIDE DEF D
<1>4. ASSUME NEW T \in SUBSET D PROVE T \in FiniteSubsetsOf(D)
  BY <1>3, FS_Subset DEF FiniteSubsetsOf
<1>5. Belows \subseteq FiniteSubsetsOf(D) /\ Belows # {} BY <1>2, <1>4
<1>6. IsWellFoundedOn(StrictSubsetOrdering(D), FiniteSubsetsOf(D))
  BY <1>3, FS_StrictSubsetOrderingWellFounded
<1>7. PICK B \in Belows : \A C \in Belows : ~(<<C, B>> \in StrictSubsetOrdering(D))
  <2> HIDE DEF Belows
  <2> QED BY <1>5, <1>6, WFMin
<1>8. PICK x \in D : B = Below(x) OBVIOUS
<1>9. ASSUME NEW y \in D, y < x PROVE FALSE
  <2>1. ASSUME NEW z \in D, z < y PROVE z < x BY <1>9, <1>3, <2>1
  <2>2. Below(y) \subseteq Below(x) BY <2>1
  <2>3. y \in Below(x) /\ y \notin Below(y) BY <1>9, <1>3
  <2>4. Below(y) \subseteq D /\ Below(x) \subseteq D OBVIOUS
  <2>5. <<Below(y), Below(x)>> \in StrictSubsetOrdering(D)
    <3>1. Below(y) # Below(x) BY <2>3
    <3> HIDE DEF Below
    <3> QED BY <1>3, <2>2, <2>4, <3>1, FS_Subset DEF StrictSubsetOrdering
  <2> QED BY <1>7, <1>8, <2>5
<1>10. \A y \in D : x <= y BY <1>3, <1>9
<1>11. Min(D) \in D BY <1>10 DEF Min
<1>12. Sorted[Min(D)] \in S BY <1>11 DEF D
<1> QED BY <1>12 DEF First, D

\* Adding a path to what was observed adds that path and changes no other.
LEMMA WithPath ==
    ASSUME NEW states \in Receipts, NEW n \in Names, NEW d \in Held
    PROVE  /\ With(states, n, d) \in Receipts
           /\ DOMAIN With(states, n, d) = DOMAIN states \cup {n}
           /\ With(states, n, d)[n] = d
           /\ \A m \in DOMAIN states : m # n => With(states, n, d)[m] = states[m]
<1>1. PICK S \in SUBSET Names : states \in [S -> Held] BY DEF Receipts
<1>2. DOMAIN states = S BY <1>1
<1>3. With(states, n, d) = [m \in S \cup {n} |-> IF m = n THEN d ELSE states[m]] BY <1>2 DEF With
<1>4. With(states, n, d) \in [S \cup {n} -> Held] BY <1>1, <1>3
<1>5. S \cup {n} \in SUBSET Names OBVIOUS
<1>6. With(states, n, d) \in Receipts BY <1>4, <1>5 DEF Receipts
<1> QED BY <1>2, <1>3, <1>6

\* Nothing observed yet, and no receipt, are told apart.
LEMMA NoPaths ==
    /\ [n \in {} |-> Absent] \in Receipts /\ DOMAIN [n \in {} |-> Absent] = {}
    /\ None \notin Receipts
<1>1. [n \in {} |-> Absent] \in [{} -> Held] OBVIOUS
<1>2. {} \in SUBSET Names OBVIOUS
<1> QED BY <1>1, <1>2, ReviewAssumption DEF Receipts

\* A thread that observes nothing, or begins to.
LEMMA IdleTyped ==
    /\ Idle \in ObsSet /\ Idle.pc = "idle"
    /\ \A p \in ReviewPcs : /\ [Idle EXCEPT !.pc = p] \in ObsSet
                            /\ [Idle EXCEPT !.pc = p].pc = p
    /\ \A p \in ReviewPcs, S \in SUBSET Names :
         /\ [Idle EXCEPT !.pc = p, !.todo = S] \in ObsSet
         /\ [Idle EXCEPT !.pc = p, !.todo = S].pc = p
         /\ [Idle EXCEPT !.pc = p, !.todo = S].todo = S
<1>1. [n \in {} |-> Absent] \in Receipts BY NoPaths
<1>2. Idle \in ObsSet /\ Idle.pc = "idle"
  <2> DEFINE e == [n \in {} |-> Absent]
  <2>1. Idle = [pc |-> "idle", todo |-> {}, stamp |-> 0, changed |-> {}, untracked |-> {},
                states |-> e, first |-> None, between |-> None]
    BY DEF Idle
  <2>2. e \in Receipts BY <1>1
  <2> HIDE DEF e
  <2> QED BY <2>1, <2>2 DEF ObsSet, ReviewPcs
<1> QED BY <1>2 DEF ObsSet

\* A thread moves on, to a place where it has a path left if it needs one.
ObsGoesOn(t, x) ==
    /\ x \in ObsSet /\ obs' = [obs EXCEPT ![t] = x]
    /\ x.pc \in {"copy", "prove", "proving", "reading"} => x.todo # {}
    /\ x.pc \in Staging => x.todo \subseteq job.inputs

\* What was written has the content, a later stamp and one more past content.
LEMMA WrittenTyped ==
    ASSUME NEW f \in Files, NEW d \in Held
    PROVE  /\ Written(f, d) \in Files
           /\ Written(f, d).data = d /\ Written(f, d).stamp = f.stamp + 1
           /\ Written(f, d).past = f.past \cup {d}
  BY DEF Written, Files

\* The end of a staging or of an observation is such a move.
LEMMA EndMoves == ASSUME NEW t \in Threads, Fails(t) \/ Passes(t) PROVE \E x : ObsGoesOn(t, x)
<1>1. PICK p \in {"failed", "ok"} : obs' = [obs EXCEPT ![t] = [Idle EXCEPT !.pc = p]]
  BY DEF Fails, Passes, Goto
<1>2. p \in ReviewPcs BY DEF ReviewPcs
<1>3. ObsGoesOn(t, [Idle EXCEPT !.pc = p]) BY <1>1, <1>2, IdleTyped DEF ObsGoesOn, Staging
<1> QED BY <1>3

\* A step of staging moves on, or ends it.
LEMMA StagingMoves ==
    ASSUME ReviewTypes, NEW t \in Threads, NEW open \in BOOLEAN,
           OpenSource(t) \/ CopySource(t) \/ SaveInputs(t, open)
    PROVE  \E x : ObsGoesOn(t, x)
<1> DEFINE o == obs[t]
           i == First(o.todo)
<1>1. o \in ObsSet /\ job.inputs \in SUBSET Inputs BY DEF ReviewTypes
<1>2. /\ o.todo \in SUBSET Names /\ (o.todo # {} => i \in o.todo)
      /\ o.pc = "copy" => o.todo # {}
      /\ o.pc \in Staging => o.todo \subseteq job.inputs
  BY <1>1, FirstIn DEF ObsSet, ReviewTypes
<1>3. o.states \in Receipts BY <1>1 DEF ObsSet
<1>4. \A n \in Inputs : source[n].data \in Held /\ source[n].stamp \in Nat /\ n \in Names
  BY DEF ReviewTypes, Files, Names
<1>5. CASE OpenSource(t)
  <2>1. CASE Goto(t, [o EXCEPT !.pc = "copy", !.stamp = source[i].stamp])
    <3>1. o.pc = "open" /\ o.todo # {} BY <1>5 DEF OpenSource, At
    <3>2. source[i].stamp \in Nat BY <1>1, <1>2, <1>4, <3>1 DEF Staging
    <3> HIDE DEF i, o
    <3>3. ObsGoesOn(t, [o EXCEPT !.pc = "copy", !.stamp = source[i].stamp])
      BY <1>1, <1>2, <2>1, <3>1, <3>2 DEF ObsGoesOn, Goto, ObsSet, ReviewPcs, Staging, o
    <3> QED BY <3>3
  <2> QED BY <1>5, <2>1, EndMoves DEF OpenSource
<1>6. CASE CopySource(t)
  <2>1. PICK copied \in Held :
          \/ Fails(t)
          \/ Goto(t, [o EXCEPT !.pc = "open", !.todo = @ \ {i}, !.states = With(@, i, copied)])
    <3>1. o.pc = "copy" BY <1>6 DEF CopySource, At
    <3>2. source[i].data \in Held BY <1>1, <1>2, <1>4, <3>1 DEF Staging
    <3>3. Partial \in Held BY DEF Held
    <3> QED BY <1>6, <3>2, <3>3 DEF CopySource
  <2>2. CASE Goto(t, [o EXCEPT !.pc = "open", !.todo = @ \ {i}, !.states = With(@, i, copied)])
    <3>1. o.pc = "copy" BY <1>6 DEF CopySource, At
    <3>2. With(o.states, i, copied) \in Receipts BY <1>1, <1>2, <1>3, <1>4, <3>1, WithPath
    <3> HIDE DEF i, o
    <3>3. ObsGoesOn(t, [o EXCEPT !.pc = "open", !.todo = @ \ {i}, !.states = With(@, i, copied)])
      BY <1>1, <1>2, <2>2, <3>1, <3>2 DEF ObsGoesOn, Goto, ObsSet, ReviewPcs, Staging, o
    <3> QED BY <3>3
  <2> QED BY <2>1, <2>2, EndMoves
<1> QED BY <1>5, <1>6, EndMoves DEF SaveInputs

\* A step of the proof of the inputs, or of one of the three listings, does.
LEMMA ListingMoves ==
    ASSUME ReviewTypes, NEW t \in Threads,
           OpenInput(t) \/ ProveInput(t) \/ GitFails(t) \/ DiffTracked(t) \/ ListOthers(t) \/ ListIgnored(t)
    PROVE  \E x : ObsGoesOn(t, x)
<1> DEFINE o == obs[t]
           i == First(o.todo)
<1>1. o \in ObsSet BY DEF ReviewTypes
<1>2. /\ o.todo \in SUBSET Names /\ (o.todo # {} => i \in o.todo)
      /\ o.pc \in {"prove", "proving"} => o.todo # {}
  BY <1>1, FirstIn DEF ObsSet, ReviewTypes
<1>3. \A n \in Names : tree[n].stamp \in Nat BY DEF ReviewTypes, Files
<1>4. CASE OpenInput(t)
  <2>1. CASE Goto(t, [o EXCEPT !.pc = "proving", !.stamp = tree[i].stamp])
    <3>1. o.pc = "prove" BY <1>4 DEF OpenInput, At
    <3>2. tree[i].stamp \in Nat BY <1>2, <1>3, <3>1
    <3> HIDE DEF i, o
    <3>3. ObsGoesOn(t, [o EXCEPT !.pc = "proving", !.stamp = tree[i].stamp])
      BY <1>1, <1>2, <2>1, <3>1, <3>2 DEF ObsGoesOn, Goto, ObsSet, ReviewPcs, Staging, o
    <3> QED BY <3>3
  <2> QED BY <1>4, <2>1, EndMoves DEF OpenInput
<1>5. CASE ProveInput(t)
  <2>1. CASE Goto(t, [o EXCEPT !.pc = ProveOrDiff(o.todo \ {i}), !.todo = @ \ {i}])
    <3>1. ProveOrDiff(o.todo \ {i}) \in ReviewPcs \ Staging
      BY DEF ProveOrDiff, ReviewPcs, Staging
    <3>2. ProveOrDiff(o.todo \ {i}) \in {"copy", "prove", "proving", "reading"} => o.todo \ {i} # {}
      BY DEF ProveOrDiff
    <3> HIDE DEF i, o
    <3> DEFINE p == ProveOrDiff(o.todo \ {i})
    <3> HIDE DEF p
    <3>3. ObsGoesOn(t, [o EXCEPT !.pc = p, !.todo = @ \ {i}])
      BY <1>1, <1>2, <2>1, <3>1, <3>2 DEF ObsGoesOn, Goto, ObsSet, o, p
    <3> QED BY <3>3
  <2> QED BY <1>5, <2>1, EndMoves DEF ProveInput
<1>6. CASE DiffTracked(t)
  <2> DEFINE c == {n \in Tracked : tree[n].data # Original}
  <2>1. c \in SUBSET Names BY DEF Names
  <2>2. obs' = [obs EXCEPT ![t] = [o EXCEPT !.pc = "others", !.changed = c]] BY <1>6 DEF DiffTracked, Goto
  <2> HIDE DEF c, o
  <2>3. ObsGoesOn(t, [o EXCEPT !.pc = "others", !.changed = c])
    BY <1>1, <2>1, <2>2 DEF ObsGoesOn, ObsSet, ReviewPcs, Staging
  <2> QED BY <2>3
<1>7. CASE ListOthers(t)
  <2> DEFINE u == {n \in Names \ Tracked : Present(n) /\ ~IgnoredNow(n)}
  <2>1. u \in SUBSET Names OBVIOUS
  <2>2. obs' = [obs EXCEPT ![t] = [o EXCEPT !.pc = "ignored", !.untracked = u]] BY <1>7 DEF ListOthers, Goto
  <2> HIDE DEF u, o
  <2>3. ObsGoesOn(t, [o EXCEPT !.pc = "ignored", !.untracked = u])
    BY <1>1, <2>1, <2>2 DEF ObsGoesOn, ObsSet, ReviewPcs, Staging
  <2> QED BY <2>3
<1>8. CASE ListIgnored(t)
  <2> DEFINE u == o.untracked \cup {n \in Names \ Tracked : Present(n) /\ IgnoredNow(n)}
             c == (o.changed \cup u) \ Excluded
             e == [n \in {} |-> Absent]
  <2>1. u \in SUBSET Names /\ c \in SUBSET Names BY <1>1 DEF ObsSet
  <2>2. e \in Receipts BY NoPaths
  <2>3. \/ Fails(t) \/ Passes(t)
        \/ obs' = [obs EXCEPT ![t] = [o EXCEPT !.pc = "observe", !.changed = c, !.untracked = u,
                                              !.todo = c, !.states = e]]
    BY <1>8 DEF ListIgnored, Goto
  <2> HIDE DEF u, c, e, o
  <2>4. CASE obs' = [obs EXCEPT ![t] = [o EXCEPT !.pc = "observe", !.changed = c, !.untracked = u,
                                                  !.todo = c, !.states = e]]
    <3>1. ObsGoesOn(t, [o EXCEPT !.pc = "observe", !.changed = c, !.untracked = u, !.todo = c, !.states = e])
      BY <1>1, <2>1, <2>2, <2>4 DEF ObsGoesOn, ObsSet, ReviewPcs, Staging
    <3> QED BY <3>1
  <2> QED BY <2>3, <2>4, EndMoves
<1> QED BY <1>4, <1>5, <1>6, <1>7, <1>8, EndMoves DEF GitFails

\* A step of the observation of the paths does.
LEMMA ObservingMoves ==
    ASSUME ReviewTypes, NEW t \in Threads, NEW open \in BOOLEAN,
           OpenPath(t) \/ ReadPath(t) \/ BeginSecondPass(t) \/ SaveChanges(t, open)
    PROVE  \E x : ObsGoesOn(t, x)
<1> DEFINE o == obs[t]
           n == First(o.todo)
<1>1. o \in ObsSet BY DEF ReviewTypes
<1>2. /\ o.todo \in SUBSET Names /\ (o.todo # {} => n \in o.todo)
      /\ o.pc = "reading" => o.todo # {}
  BY <1>1, FirstIn DEF ObsSet, ReviewTypes
<1>3. \A m \in Names : tree[m].stamp \in Nat /\ tree[m].data \in Held BY DEF ReviewTypes, Files
<1>4. o.states \in Receipts BY <1>1 DEF ObsSet
<1>5. ASSUME NEW d \in Held, NEW p \in {"observe"}, o.todo # {},
             obs' = [obs EXCEPT ![t] = [o EXCEPT !.pc = p, !.todo = @ \ {n}, !.states = With(@, n, d)]]
      PROVE  \E x : ObsGoesOn(t, x)
  <2>1. With(o.states, n, d) \in Receipts BY <1>2, <1>4, <1>5, WithPath
  <2> HIDE DEF n, o
  <2>2. ObsGoesOn(t, [o EXCEPT !.pc = p, !.todo = @ \ {n}, !.states = With(@, n, d)])
    BY <1>1, <1>2, <1>5, <2>1 DEF ObsGoesOn, ObsSet, ReviewPcs, Staging
  <2> QED BY <2>2
<1>6. CASE OpenPath(t)
  <2>1. o.pc = "observe" /\ o.todo # {} BY <1>6 DEF OpenPath, At
  <2>2. CASE obs' = [obs EXCEPT ![t] = [o EXCEPT !.todo = @ \ {n}, !.states = With(@, n, Absent)]]
    <3>1. [o EXCEPT !.todo = @ \ {n}, !.states = With(@, n, Absent)]
            = [o EXCEPT !.pc = "observe", !.todo = @ \ {n}, !.states = With(@, n, Absent)]
      <4> HIDE DEF n
      <4> QED BY <1>1, <2>1 DEF ObsSet
    <3>2. Absent \in Held BY DEF Held
    <3> QED BY <1>5, <2>1, <2>2, <3>1, <3>2
  <2>3. CASE obs' = [obs EXCEPT ![t] = [o EXCEPT !.pc = "reading", !.stamp = tree[n].stamp]]
    <3>1. tree[n].stamp \in Nat BY <1>2, <1>3, <2>1
    <3> HIDE DEF n, o
    <3>2. ObsGoesOn(t, [o EXCEPT !.pc = "reading", !.stamp = tree[n].stamp])
      BY <1>1, <2>1, <2>3, <3>1 DEF ObsGoesOn, ObsSet, ReviewPcs, Staging
    <3> QED BY <3>2
  <2> QED BY <1>6, <2>2, <2>3, EndMoves DEF OpenPath, Goto
<1>7. CASE ReadPath(t)
  <2>1. o.pc = "reading" BY <1>7 DEF ReadPath, At
  <2>2. tree[n].data \in Held /\ Partial \in Held BY <1>2, <1>3, <2>1 DEF Held
  <2>3. PICK d \in Held :
          \/ Fails(t)
          \/ obs' = [obs EXCEPT ![t] = [o EXCEPT !.pc = "observe", !.todo = @ \ {n}, !.states = With(o.states, n, d)]]
    BY <1>7, <2>2 DEF ReadPath, Goto
  <2> QED BY <1>2, <1>5, <2>1, <2>3, EndMoves
<1>8. CASE BeginSecondPass(t)
  <2> DEFINE f == [listing |-> [changed |-> o.changed, untracked |-> o.untracked], states |-> o.states]
             b == Changes(tree, Excluded)
  <2>1. f \in [listing : Listings, states : Receipts] BY <1>1 DEF ObsSet, Listings
  <2>2. b \in Receipts
    <3>1. b \in [{m \in Names \ Excluded : tree[m].data # Base(m)} -> Held] BY <1>3 DEF Changes
    <3>2. {m \in Names \ Excluded : tree[m].data # Base(m)} \in SUBSET Names OBVIOUS
    <3> QED BY <3>1, <3>2 DEF Receipts
  <2>3. obs' = [obs EXCEPT ![t] = [Idle EXCEPT !.pc = "diff", !.first = f, !.between = b]]
    BY <1>8 DEF BeginSecondPass, Goto
  <2> HIDE DEF f, b
  <2>4. ObsGoesOn(t, [Idle EXCEPT !.pc = "diff", !.first = f, !.between = b])
    <3>1. Idle \in ObsSet BY IdleTyped
    <3> DEFINE x == [Idle EXCEPT !.pc = "diff", !.first = f, !.between = b]
    <3>2. x \in ObsSet /\ x.pc = "diff" BY <2>1, <2>2, <3>1 DEF ObsSet, ReviewPcs
    <3> HIDE DEF x
    <3>3. ObsGoesOn(t, x) BY <2>3, <3>2 DEF ObsGoesOn, Staging, x
    <3> QED BY <3>3 DEF x
  <2> QED BY <2>4
<1> QED BY <1>6, <1>7, <1>8, EndMoves DEF SaveChanges

\* Every step of staging or observing moves on.
LEMMA ObserverMoves ==
    ASSUME ReviewTypes, NEW t \in Threads, NEW open \in BOOLEAN, ReviewStep(t, open)
    PROVE  \E x : ObsGoesOn(t, x)
<1>1. CASE OpenSource(t) \/ CopySource(t) \/ SaveInputs(t, open) BY <1>1, StagingMoves
<1>2. CASE OpenInput(t) \/ ProveInput(t) \/ GitFails(t) \/ DiffTracked(t) \/ ListOthers(t) \/ ListIgnored(t)
  BY <1>2, ListingMoves
<1>3. CASE OpenPath(t) \/ ReadPath(t) \/ BeginSecondPass(t) \/ SaveChanges(t, open) BY <1>3, ObservingMoves
<1> QED BY <1>1, <1>2, <1>3 DEF ReviewStep

\* A move keeps the types, if the columns and files it writes keep theirs.
LEMMA MoveTyped ==
    ASSUME ReviewTypes, NEW t \in Threads, NEW x, ObsGoesOn(t, x), job' = job,
           source' \in [Inputs -> Files], tree' \in [Names -> Files], restored' \in BOOLEAN,
           inputReceipt' \in Receipts \cup {None}, changeReceipt' \in Receipts \cup {None}
    PROVE  ReviewTypes'
<1>1. obs' \in [Threads -> ObsSet] /\ \A s \in Threads : obs'[s] = obs[s] \/ (s = t /\ obs'[s] = x)
  BY DEF ReviewTypes, ObsGoesOn
<1> QED BY <1>1 DEF ReviewTypes, ObsGoesOn

\* So the steps of staging and observing keep the types.
LEMMA ObserverTyped ==
    ASSUME ReviewTypes, NEW t \in Threads, NEW open \in BOOLEAN, ReviewStep(t, open)
    PROVE  ReviewTypes'
<1>1. PICK x : ObsGoesOn(t, x) BY ObserverMoves
<1>2. obs[t] \in ObsSet BY DEF ReviewTypes
<1>3. obs[t].states \in Receipts BY <1>2 DEF ObsSet
<1>4. /\ job' = job /\ source' = source /\ restored' = restored
      /\ inputReceipt' \in Receipts \cup {None} /\ changeReceipt' \in Receipts \cup {None}
  BY <1>3 DEF ReviewTypes, ReviewStep, OpenSource, CopySource, SaveInputs, OpenInput, ProveInput, GitFails, DiffTracked,
     ListOthers, ListIgnored, OpenPath, ReadPath, BeginSecondPass, SaveChanges, Looks
<1>5. tree' \in [Names -> Files]
  <2>1. CASE tree' = tree BY <2>1 DEF ReviewTypes
  <2>2. CASE OpenSource(t) \/ CopySource(t)
    <3> DEFINE i == First(obs[t].todo)
    <3>1. PICK d \in Held : tree' = tree \/ tree' = [tree EXCEPT ![i] = Written(@, d)]
      <4>1. source[i].data \in Held
        <5>1. obs[t].pc \in {"open", "copy"} /\ obs[t].todo # {}
          BY <1>2, <2>2 DEF OpenSource, CopySource, At, ReviewTypes
        <5>2. obs[t].todo \in SUBSET Names BY <1>2 DEF ObsSet
        <5>3. i \in job.inputs BY <5>1, <5>2, FirstIn DEF ReviewTypes, Staging
        <5> QED BY <5>3 DEF ReviewTypes, Files
      <4>2. Partial \in Held BY DEF Held
      <4> QED BY <2>2, <4>1, <4>2 DEF OpenSource, CopySource
    <3> HIDE DEF i
    <3>2. \A n \in Names : Written(tree[n], d) \in Files BY WrittenTyped DEF ReviewTypes
    <3> QED BY <3>1, <3>2 DEF ReviewTypes
  <2> QED
    BY <2>1, <2>2 DEF ReviewStep, SaveInputs, OpenInput, ProveInput, GitFails, DiffTracked,
       ListOthers, ListIgnored, OpenPath, ReadPath, BeginSecondPass, SaveChanges, Looks
<1> QED BY <1>1, <1>4, <1>5, MoveTyped DEF ReviewTypes

\* A review begins with the inputs, or with git, or has nothing to look at.
LEMMA ReviewMoves ==
    ASSUME ReviewTypes, NEW t \in Threads, Review(t)
    PROVE  \E x : ObsGoesOn(t, x) /\ x.pc \in {"prove", "diff", "ok"}
<1>1. CASE Passes(t)
  <2>1. "ok" \in ReviewPcs BY DEF ReviewPcs
  <2>2. obs' = [obs EXCEPT ![t] = [Idle EXCEPT !.pc = "ok"]] BY <1>1 DEF Passes, Goto
  <2>3. ObsGoesOn(t, [Idle EXCEPT !.pc = "ok"]) /\ [Idle EXCEPT !.pc = "ok"].pc = "ok"
    BY <2>1, <2>2, IdleTyped DEF ObsGoesOn, Staging
  <2> QED BY <2>3
<1>2. CASE Goto(t, [Idle EXCEPT !.pc = ProveOrDiff(Excluded), !.todo = Excluded])
  <2> DEFINE p == ProveOrDiff(Excluded)
             x == [Idle EXCEPT !.pc = p, !.todo = Excluded]
  <2>1. p \in {"prove", "diff"} /\ (p = "prove" => Excluded # {}) BY DEF ProveOrDiff
  <2>2. Excluded \in SUBSET Names BY DEF Excluded, ReviewTypes, Receipts
  <2>3. obs' = [obs EXCEPT ![t] = x] BY <1>2 DEF Goto
  <2> HIDE DEF p
  <2>4. x \in ObsSet /\ x.pc = p /\ x.todo = Excluded
    <3>1. p \in ReviewPcs BY <2>1 DEF ReviewPcs
    <3> QED BY <3>1, <2>2, IdleTyped, Zenon
  <2> HIDE DEF x
  <2>5. ObsGoesOn(t, x) /\ x.pc \in {"prove", "diff", "ok"}
    BY <2>1, <2>3, <2>4 DEF ObsGoesOn, Staging
  <2> QED BY <2>5
<1> QED BY <1>1, <1>2 DEF Review, BeginReview

\* Staging goes on as staging and observing as observing, until they end; one
\* thread does not touch the state of another.
LEMMA ObserverPcs ==
    ASSUME ReviewTypes, NEW t \in Threads, NEW open \in BOOLEAN, ReviewStep(t, open)
    PROVE  /\ \/ obs[t].pc \in Staging /\ obs'[t].pc \in Staging \cup {"ok", "failed"}
              \/ obs[t].pc \in Reviewing /\ obs'[t].pc \in Reviewing \cup {"ok", "failed"}
           /\ \A s \in Threads : s # t => obs'[s] = obs[s]
<1>1. obs \in [Threads -> ObsSet] /\ obs[t] \in ObsSet BY DEF ReviewTypes
<1>2. \A x : Goto(t, x) => obs'[t] = x BY <1>1 DEF Goto
<1>3. [Idle EXCEPT !.pc = "failed"].pc = "failed" /\ [Idle EXCEPT !.pc = "ok"].pc = "ok" BY DEF Idle
<1>4. (Fails(t) => obs'[t].pc = "failed") /\ (Passes(t) => obs'[t].pc = "ok")
  BY <1>2, <1>3 DEF Fails, Passes
<1>5. \A s \in Threads : s # t => obs'[s] = obs[s]
  <2>1. \A x : Goto(t, x) => \A s \in Threads : s # t => obs'[s] = obs[s] BY <1>1 DEF Goto
  <2> QED
    BY <2>1 DEF Fails, Passes, ReviewStep, OpenSource, CopySource, SaveInputs, OpenInput, ProveInput, GitFails, DiffTracked,
       ListOthers, ListIgnored, OpenPath, ReadPath, BeginSecondPass, SaveChanges
<1>6. CASE OpenSource(t) \/ CopySource(t) \/ SaveInputs(t, open)
  BY <1>1, <1>2, <1>4, <1>5, <1>6 DEF OpenSource, CopySource, SaveInputs, At, Staging, ObsSet
<1>7. CASE OpenInput(t) \/ ProveInput(t) \/ GitFails(t)
  BY <1>1, <1>2, <1>4, <1>5, <1>7 DEF OpenInput, ProveInput, GitFails, ProveOrDiff, At, Reviewing, ObsSet
<1>8. CASE DiffTracked(t) \/ ListOthers(t) \/ ListIgnored(t)
  <2>1. DiffTracked(t) => obs[t].pc = "diff" /\ obs'[t].pc = "others"
    BY <1>1, <1>2 DEF DiffTracked, At, ObsSet
  <2>2. ListOthers(t) => obs[t].pc = "others" /\ obs'[t].pc = "ignored"
    BY <1>1, <1>2 DEF ListOthers, At, ObsSet
  <2>3. ListIgnored(t) => obs[t].pc = "ignored" /\ obs'[t].pc \in {"observe", "ok", "failed"}
    <3> SUFFICES ASSUME ListIgnored(t)
                 PROVE  obs[t].pc = "ignored" /\ obs'[t].pc \in {"observe", "ok", "failed"}
      OBVIOUS
    <3> DEFINE u == obs[t].untracked \cup {n \in Names \ Tracked : Present(n) /\ IgnoredNow(n)}
               c == (obs[t].changed \cup u) \ Excluded
               e == [n \in {} |-> Absent]
               x == [obs[t] EXCEPT !.pc = "observe", !.changed = c, !.untracked = u, !.todo = c, !.states = e]
    <3>1. obs[t].pc = "ignored" /\ (obs'[t].pc \in {"ok", "failed"} \/ obs'[t] = x)
      BY <1>2, <1>4 DEF ListIgnored, At
    <3> HIDE DEF u, c, e
    <3>2. x.pc = "observe" BY <1>1 DEF ObsSet
    <3> HIDE DEF x
    <3> QED BY <3>1, <3>2
  <2> QED BY <1>5, <1>8, <2>1, <2>2, <2>3 DEF Reviewing
<1>9. CASE OpenPath(t) \/ ReadPath(t) \/ SaveChanges(t, open)
  <2>1. OpenPath(t) => obs[t].pc = "observe" /\ obs'[t].pc \in {"observe", "reading", "failed"}
    BY <1>1, <1>2, <1>4 DEF OpenPath, At, ObsSet
  <2>2. ReadPath(t) => obs[t].pc = "reading" /\ obs'[t].pc \in {"observe", "failed"}
    BY <1>1, <1>2, <1>4 DEF ReadPath, At, ObsSet
  <2>3. SaveChanges(t, open) => obs[t].pc = "observe" /\ obs'[t].pc \in {"ok", "failed"}
    BY <1>4 DEF SaveChanges, At
  <2> QED BY <1>5, <1>9, <2>1, <2>2, <2>3 DEF Reviewing
<1>10. CASE BeginSecondPass(t)
  <2>1. obs[t].pc = "observe" /\ obs'[t].pc = "diff" BY <1>2, <1>10 DEF BeginSecondPass, At, Idle
  <2> QED BY <1>5, <2>1 DEF Reviewing
<1> QED BY <1>6, <1>7, <1>8, <1>9, <1>10 DEF ReviewStep

-----------------------------------------------------------------------------
(* The staged inputs.                                                      *)

\* A receipt that was true of the sources' pasts stays so: a past only grows.
LEMMA PastGrows ==
    ASSUME NEW receipt, FromSource(receipt), \A i \in Inputs : source[i].past \subseteq source'[i].past
    PROVE  \A i \in DOMAIN receipt : i \in Inputs /\ receipt[i] \in source'[i].past \ {Absent}
  BY DEF FromSource

\* A step of staging copies what the source really held, whole.
LEMMA StagingObserved ==
    ASSUME StagingInv, NEW t \in Threads, NEW open \in BOOLEAN, ReviewStep(t, open), UNCHANGED <<agent, th, state>>
    PROVE  Places' /\ StagedSoFar'
<1>1. ReviewTypes /\ Places /\ StagedSoFar /\ RunTypes BY DEF StagingInv
<1>2. /\ \/ obs[t].pc \in Staging /\ obs'[t].pc \in Staging \cup {"ok", "failed"}
         \/ obs[t].pc \in Reviewing /\ obs'[t].pc \in Reviewing \cup {"ok", "failed"}
      /\ \A s \in Threads : s # t => obs'[s] = obs[s]
  BY <1>1, ObserverPcs
<1>3. Places' BY <1>1, <1>2 DEF Places, Staging, Reviewing
<1>4. job' = job /\ source' = source
  BY DEF ReviewStep, OpenSource, CopySource, SaveInputs, OpenInput, ProveInput, GitFails, DiffTracked,
     ListOthers, ListIgnored, OpenPath, ReadPath, BeginSecondPass, SaveChanges, Looks
<1>5. obs \in [Threads -> ObsSet] /\ obs[t] \in ObsSet BY <1>1 DEF ReviewTypes
<1>6. \A x : Goto(t, x) => obs'[t] = x BY <1>5 DEF Goto
<1>7. \A i \in Inputs : source[i].data \in Held /\ source[i].stamp \in Nat /\ i \in Names
  BY <1>1 DEF ReviewTypes, Files, Names
<1>8. (Fails(t) => obs'[t].pc = "failed") /\ (Passes(t) => obs'[t].pc = "ok")
  BY <1>6 DEF Fails, Passes, Idle
<1>9. CASE inputReceipt' = inputReceipt /\ obs'[t].pc \notin Staging /\ (obs[t].pc \in Staging => obs'[t].pc = "failed")
  <2>1. \A s \in Threads : obs'[s].pc \in Staging => s # t BY <1>9
  <2>2. th[t].pc = "staged" => obs'[t].pc # "ok"
    BY <1>1, <1>2, <1>9 DEF Places, Reviewing, Staging
  <2>3. \A s \in Threads : (obs[s].pc \in Staging => InHand(obs[s]))'
    BY <1>1, <1>2, <1>4, <1>9, <2>1 DEF StagedSoFar, InHand, FromSource
  <2>4. \A s \in Threads : th[s].pc = "staged" /\ obs'[s].pc = "ok" /\ job.inputs # {} => inputReceipt # None
    BY <1>1, <1>2, <2>2 DEF StagedSoFar
  <2> QED BY <1>1, <1>3, <1>4, <1>9, <2>3, <2>4 DEF StagedSoFar, FromSource
<1>10. CASE OpenSource(t) /\ ~Fails(t)
  <2> DEFINE i == First(obs[t].todo)
             x == [obs[t] EXCEPT !.pc = "copy", !.stamp = source[i].stamp]
  <2>1. /\ obs[t].pc = "open" /\ obs'[t] = x /\ source[i].data # Absent /\ inputReceipt' = inputReceipt
        /\ obs[t].todo # {}
    BY <1>6, <1>10 DEF OpenSource, At, HasSource
  <2>2. i \in Inputs
    <3>1. obs[t].todo \in SUBSET Names BY <1>5 DEF ObsSet
    <3>2. i \in job.inputs BY <1>1, <2>1, <3>1, FirstIn DEF ReviewTypes, Staging
    <3> QED BY <1>1, <3>2 DEF ReviewTypes
  <2> HIDE DEF i
  <2>3. /\ x.pc = "copy" /\ x.todo = obs[t].todo /\ x.states = obs[t].states /\ x.stamp = source[i].stamp
    BY <1>5 DEF ObsSet
  <2> HIDE DEF x
  <2>4. obs[t].pc \in Staging BY <2>1 DEF Staging
  <2>5. /\ job.inputs # {} /\ inputReceipt = None
        /\ DOMAIN x.states = job.inputs \ x.todo /\ FromSource(x.states)
    BY <1>1, <2>3, <2>4 DEF StagedSoFar, InHand
  <2>6. First(x.todo) = i BY <2>3 DEF i
  <2>7. x.stamp <= source[First(x.todo)].stamp BY <1>7, <2>2, <2>3, <2>6
  <2> QED
    BY <1>1, <1>2, <1>3, <1>4, <2>1, <2>3, <2>5, <2>6, <2>7 DEF StagedSoFar, FromSource, InHand
<1>11. CASE CopySource(t) /\ ~Fails(t)
  <2> DEFINE i == First(obs[t].todo)
             d == source[i].data
             x == [obs[t] EXCEPT !.pc = "open", !.todo = @ \ {i}, !.states = With(@, i, d)]
  <2>1. obs[t].pc = "copy" /\ source[i].stamp = obs[t].stamp /\ inputReceipt' = inputReceipt /\ obs'[t] = x
    BY <1>6, <1>11 DEF CopySource, At, SameStatIdentity
  <2>2. obs[t].pc \in Staging /\ obs[t].todo # {} /\ obs[t].todo \subseteq job.inputs /\ job.inputs \subseteq Inputs
    BY <1>1, <2>1 DEF ReviewTypes, Staging
  <2>3. i \in obs[t].todo BY <1>5, <2>2, FirstIn DEF ObsSet
  <2>4. d # Absent /\ d \in source[i].past /\ d \in Held /\ i \in Names
    BY <1>1, <1>7, <2>1, <2>2, <2>3 DEF StagedSoFar, InHand
  <2>5. obs[t].states \in Receipts BY <1>5 DEF ObsSet
  <2> HIDE DEF i, d
  <2>6. /\ x.pc = "open" /\ x.todo = obs[t].todo \ {i} /\ x.states = With(obs[t].states, i, d)
    BY <1>5 DEF ObsSet
  <2> HIDE DEF x
  <2>7. /\ DOMAIN x.states = DOMAIN obs[t].states \cup {i} /\ x.states[i] = d
        /\ \A m \in DOMAIN obs[t].states : m # i => x.states[m] = obs[t].states[m]
    <3>1. /\ DOMAIN With(obs[t].states, i, d) = DOMAIN obs[t].states \cup {i}
          /\ With(obs[t].states, i, d)[i] = d
          /\ \A m \in DOMAIN obs[t].states : m # i => With(obs[t].states, i, d)[m] = obs[t].states[m]
      BY <2>4, <2>5, WithPath, Zenon
    <3> QED BY <2>6, <3>1
  <2>8. /\ job.inputs # {} /\ inputReceipt = None
        /\ DOMAIN obs[t].states = job.inputs \ obs[t].todo /\ FromSource(obs[t].states)
    BY <1>1, <2>2 DEF StagedSoFar, InHand
  <2>9. DOMAIN x.states = job.inputs \ x.todo BY <2>2, <2>3, <2>6, <2>7, <2>8
  <2>10. FromSource(x.states) BY <2>2, <2>3, <2>4, <2>7, <2>8 DEF FromSource
  <2> QED
    BY <1>1, <1>2, <1>3, <1>4, <2>1, <2>6, <2>8, <2>9, <2>10 DEF StagedSoFar, FromSource, InHand
<1>12. CASE SaveInputs(t, open) /\ ~Fails(t)
  <2>1. obs[t].pc = "open" /\ obs[t].todo = {} /\ inputReceipt' = obs[t].states /\ Passes(t)
    BY <1>12 DEF SaveInputs, At
  <2>2. /\ job.inputs # {} /\ DOMAIN obs[t].states = job.inputs /\ FromSource(obs[t].states)
    BY <1>1, <2>1 DEF StagedSoFar, Staging, InHand
  <2>3. inputReceipt' # None BY <1>5, <2>1, NoPaths DEF ObsSet
  <2>4. th[t].pc = "staged" /\ agent = "waiting" BY <1>1, <2>1 DEF Places, Staging
  <2>5. \A s \in Threads : obs'[s].pc \in Staging => FALSE
    <3>1. obs'[t].pc = "ok" BY <1>8, <2>1
    <3>2. \A s \in Threads : s # t => obs'[s].pc \notin Staging
      BY <1>1, <1>2, <2>4, Constants DEF Places
    <3> QED BY <3>1, <3>2 DEF Staging
  <2>6. \A s \in Threads : th[s].pc # "stage" BY <1>1, <2>4 DEF Places
  <2> QED
    BY <1>1, <1>4, <1>3, <2>1, <2>2, <2>3, <2>5, <2>6 DEF StagedSoFar, FromSource
<1>13. CASE obs[t].pc \in Reviewing
  <2>1. inputReceipt' = inputReceipt
    BY <1>13 DEF ReviewStep, OpenSource, CopySource, SaveInputs, OpenInput, ProveInput, GitFails, DiffTracked,
       ListOthers, ListIgnored, OpenPath, ReadPath, BeginSecondPass, SaveChanges, Looks, At, Reviewing
  <2> QED BY <1>2, <1>9, <1>13, <2>1 DEF Reviewing, Staging
<1>14. CASE Fails(t) /\ (OpenSource(t) \/ CopySource(t) \/ SaveInputs(t, open))
  <2>1. inputReceipt' = inputReceipt \/ (Passes(t) /\ Fails(t))
    BY <1>14 DEF OpenSource, CopySource, SaveInputs
  <2> QED BY <1>8, <1>9, <1>14, <2>1 DEF Staging
<1> QED
  BY <1>2, <1>10, <1>11, <1>12, <1>13, <1>14
  DEF ReviewStep, OpenInput, ProveInput, GitFails, DiffTracked, ListOthers, ListIgnored, OpenPath, ReadPath,
      BeginSecondPass, SaveChanges, At, Reviewing

\* A step of a thread outside its stagings and observations keeps all this.
LEMMA ThreadKeepsStaging ==
    ASSUME StagingInv, RunTypes', UNCHANGED reviewRest, agent' = agent,
           NEW t \in Threads, NEW x, ObsGoesOn(t, x), NEW y \in ThSet, th' = [th EXCEPT ![t] = y],
           x.pc \in {"idle", "ok", "prove", "diff"},
           x.pc # "idle" => y.pc \in {"review", "finish", "takeover"},
           y.pc \notin {"stage", "staged"},
           y.pc \in {"review", "settled", "verifier", "finish", "takeover", "clean"} => agent = "settled",
           state' \in {"settled", "verifying", "succeeded"} => agent = "settled"
    PROVE  StagingInv'
<1>1. ReviewTypes /\ RunTypes /\ Places /\ StagedSoFar BY DEF StagingInv
<1>2. ReviewTypes' BY <1>1, MoveTyped DEF ReviewTypes, reviewRest
<1>3. /\ obs'[t] = x /\ \A s \in Threads : s # t => obs'[s] = obs[s]
      /\ th'[t] = y /\ \A s \in Threads : s # t => th'[s] = th[s]
  BY <1>1 DEF ObsGoesOn, ReviewTypes, RunTypes
<1>4. Places' BY <1>1, <1>3 DEF Places, Staging, Reviewing
<1>5. StagedSoFar'
  <2>1. \A s \in Threads : (obs[s].pc \in Staging => InHand(obs[s]))'
    <3>1. ASSUME NEW s \in Threads, obs'[s].pc \in Staging PROVE obs'[s] = obs[s] BY <1>3, <3>1 DEF Staging
    <3> QED BY <1>1, <3>1 DEF StagedSoFar, InHand, FromSource, reviewRest
  <2> QED BY <1>1, <1>3, <2>1 DEF StagedSoFar, FromSource, reviewRest
<1> QED BY <1>2, <1>4, <1>5 DEF StagingInv

\* Where a thread neither stages nor observes.
LEMMA NotObserving ==
    ASSUME StagingInv, NEW t \in Threads, th[t].pc \notin {"staged", "review", "finish", "takeover"}
    PROVE  obs[t].pc = "idle" /\ (obs' = obs => ObsGoesOn(t, obs[t]))
<1>1. ReviewTypes /\ Places BY DEF StagingInv
<1>2. obs \in [Threads -> ObsSet] /\ obs[t] \in ObsSet BY <1>1 DEF ReviewTypes
<1>3. obs[t].pc = "idle" BY <1>1, <1>2 DEF Places, Staging, Reviewing, ObsSet, ReviewPcs
<1> QED BY <1>2, <1>3 DEF ObsGoesOn, Staging

\* The inputs are staged, and the agent starts only when they are.
LEMMA StartKeepsStaging == ASSUME StagingInv, RunTypes', Stage \/ StartAgent PROVE StagingInv'
<1> DEFINE m == "monitor"
<1>1. ReviewTypes /\ RunTypes /\ Places /\ StagedSoFar /\ m \in Threads BY Constants DEF StagingInv
<1>2. \A y : th' = [th EXCEPT ![m] = y] => th'[m] = y /\ \A s \in Threads : s # m => th'[s] = th[s]
  BY <1>1 DEF RunTypes
<1>3. CASE Stage
  <2>1. /\ th[m].pc = "stage" /\ th'[m].pc = "staged" /\ UNCHANGED reviewRest /\ UNCHANGED <<state, agent>>
        /\ \A s \in Threads : s # m => th'[s] = th[s]
    BY <1>1, <1>2, <1>3 DEF Stage, Moves, RunTypes, ThSet, rowRest
  <2>2. PICK x : /\ ObsGoesOn(m, x) /\ x.pc \in {"open", "ok"}
                 /\ x.pc = "open" => x.todo = job.inputs /\ DOMAIN x.states = {} /\ job.inputs # {}
                 /\ x.pc = "ok" => job.inputs = {}
    <3>1. CASE job.inputs = {}
      <4>1. obs' = [obs EXCEPT ![m] = [Idle EXCEPT !.pc = "ok"]] BY <1>3, <3>1 DEF Stage, Goto
      <4>2. "ok" \in ReviewPcs BY DEF ReviewPcs
      <4>3. ObsGoesOn(m, [Idle EXCEPT !.pc = "ok"]) /\ [Idle EXCEPT !.pc = "ok"].pc = "ok"
        BY <4>1, <4>2, IdleTyped DEF ObsGoesOn, Staging
      <4> QED BY <3>1, <4>3
    <3>2. CASE job.inputs # {}
      <4> DEFINE x == [Idle EXCEPT !.pc = "open", !.todo = job.inputs]
      <4>1. obs' = [obs EXCEPT ![m] = x] BY <1>3, <3>2 DEF Stage, BeginStaging, Goto
      <4>2. "open" \in ReviewPcs /\ job.inputs \in SUBSET Names BY <1>1 DEF ReviewPcs, ReviewTypes, Names
      <4>3. x \in ObsSet /\ x.pc = "open" /\ x.todo = job.inputs BY <4>2, IdleTyped, Zenon
      <4>4. x.states = [n \in {} |-> Absent] BY DEF Idle
      <4> HIDE DEF x
      <4>5. ObsGoesOn(m, x) BY <4>1, <4>3 DEF ObsGoesOn, Staging
      <4> QED BY <3>2, <4>3, <4>4, <4>5, NoPaths
    <3> QED BY <3>1, <3>2
  <2>3. obs'[m] = x /\ \A s \in Threads : s # m => obs'[s] = obs[s] BY <1>1, <2>2 DEF ObsGoesOn, ReviewTypes
  <2>4. ReviewTypes' BY <1>1, <2>1, <2>2, MoveTyped DEF ReviewTypes, reviewRest
  <2>5. Places' BY <1>1, <2>1, <2>2, <2>3 DEF Places, Staging, Reviewing
  <2>6. \A s \in Threads : (obs[s].pc \in Staging => InHand(obs[s]))'
    <3>1. inputReceipt = None BY <1>1, <2>1 DEF StagedSoFar
    <3>2. CASE x.pc = "open"
      <4>1. InHand(obs[m])' BY <2>1, <2>2, <2>3, <3>1, <3>2 DEF InHand, FromSource, reviewRest
      <4> QED BY <1>1, <2>1, <2>3, <4>1 DEF StagedSoFar, InHand, FromSource, reviewRest
    <3>3. CASE x.pc = "ok" BY <1>1, <2>1, <2>3, <3>3 DEF StagedSoFar, InHand, FromSource, reviewRest, Staging
    <3> QED BY <2>2, <3>2, <3>3
  <2>7. StagedSoFar'
    <3>1. \A s \in Threads : th'[s].pc # "stage" BY <1>1, <2>1 DEF Places
    <3>2. \A s \in Threads : th'[s].pc = "staged" => s = m BY <2>5 DEF Places
    <3> QED BY <1>1, <2>1, <2>2, <2>3, <2>6, <3>1, <3>2 DEF StagedSoFar, FromSource, reviewRest
  <2> QED BY <2>4, <2>5, <2>7 DEF StagingInv
<1>4. CASE StartAgent
  <2>1. /\ th[m].pc = "staged" /\ agent = "waiting" /\ UNCHANGED reviewRest
        /\ \A s \in Threads : s # m => th'[s] = th[s]
    BY <1>1, <1>2, <1>4 DEF StartAgent, Places, Moves, Rests
  <2>2. ObsGoesOn(m, Idle) BY <1>4, IdleTyped DEF StartAgent, DropReview, ObsGoesOn, Staging
  <2>3. obs'[m] = Idle /\ \A s \in Threads : s # m => obs'[s] = obs[s] BY <1>1, <2>2 DEF ObsGoesOn, ReviewTypes
  <2>4. ReviewTypes' BY <1>1, <2>1, <2>2, MoveTyped DEF ReviewTypes, reviewRest
  <2>5. \/ agent' = agent /\ th'[m].pc = "idle" /\ Finish("starting", "failed", "unverified")
        \/ /\ agent' = "running" /\ th'[m].pc = "await" /\ obs[m].pc = "ok"
           /\ Finish("starting", "running", "unverified")
    BY <1>1, <1>2, <1>4 DEF StartAgent, Moves, Rests, Resting, RunTypes, ThSet
  <2>6. state \notin {"settled", "verifying", "succeeded"} BY <1>1, <2>1 DEF Places
  <2>7. state' \notin {"settled", "verifying", "succeeded"} BY <2>5, <2>6 DEF Finish
  <2>8. \A s \in Threads : s # m => th[s].pc \notin {"stage", "staged", "review", "settled", "verifier",
                                                      "finish", "takeover", "clean"}
    BY <1>1, <2>1 DEF Places
  <2>9. Places' BY <1>1, <2>1, <2>3, <2>5, <2>7, <2>8, IdleTyped DEF Places, Staging, Reviewing
  <2>10. \A s \in Threads : obs'[s].pc \notin Staging
    BY <1>1, <2>3, <2>8, IdleTyped DEF Places, Staging
  <2>11. StagedSoFar'
    BY <1>1, <2>1, <2>3, <2>5, <2>8, <2>10 DEF StagedSoFar, FromSource, reviewRest
  <2> QED BY <2>4, <2>9, <2>11 DEF StagingInv
<1> QED BY <1>3, <1>4

\* The thread steps that neither stage nor start the agent: they come after it
\* has settled, and begin an observation or drop one.
SettledStep(t) ==
    \/ (MonitorSettles /\ t = "monitor") \/ (ReadReceipt /\ t = "reconciler")
    \/ ReconcileRun(t) \/ EndReview(t) \/ ClaimOrFinish(t) \/ VerifierReturned(t)
    \/ VerifierRefused(t) \/ Conclude(t) \/ RemoveArtifacts(t)

\* What such a step does to the thread and its observation.
LEMMA SettledMoves ==
    ASSUME ReviewTypes, RunTypes, Places, RunTypes', NEW t \in Threads, SettledStep(t)
    PROVE  /\ agent = "settled" /\ agent' = agent /\ UNCHANGED reviewRest
           /\ th'[t] \in ThSet /\ th' = [th EXCEPT ![t] = th'[t]]
           /\ th'[t].pc \in {"idle", "review", "settled", "verifier", "finish", "takeover", "clean"}
           /\ \/ /\ th'[t].pc \in {"review", "finish", "takeover"}
                 /\ Review(t) \/ (Passes(t) /\ th'[t].pc = "takeover" /\ th'[t].outcome # "succeeded")
              \/ th'[t].pc \notin {"review", "finish", "takeover"} /\ DropReview(t)
              \/ /\ th'[t].pc \notin {"review", "finish", "takeover"} /\ obs' = obs
                 /\ th[t].pc \notin {"staged", "review", "finish", "takeover"}
<1> USE DEF reviewRest, rowRest, reviewVars
<1>1. th \in [Threads -> ThSet] /\ th[t] \in ThSet /\ th' \in [Threads -> ThSet] BY DEF RunTypes
<1>2. \A y : th' = [th EXCEPT ![t] = y] => th'[t] = y /\ th' = [th EXCEPT ![t] = th'[t]] BY <1>1
<1>3. th[t].pc \in {"review", "settled", "verifier", "finish", "takeover", "clean"} => agent = "settled"
  BY DEF Places
<1>4. Resting.pc = "idle" BY DEF Resting
<1>5. \A p : Moves(t, p) => th'[t].pc = p /\ th' = [th EXCEPT ![t] = th'[t]]
  BY <1>1 DEF Moves, ThSet
<1>6. Rests(t) => th'[t].pc = "idle" /\ th' = [th EXCEPT ![t] = th'[t]] BY <1>2, <1>4 DEF Rests
<1>7. th'[t] \in ThSet BY <1>1
<1>8. CASE MonitorSettles /\ t = "monitor"
  <2>1. th'[t].pc = "review" /\ th' = [th EXCEPT ![t] = th'[t]]
    BY <1>1, <1>2, <1>8 DEF MonitorSettles, ThSet
  <2> QED BY <1>7, <1>8, <2>1 DEF MonitorSettles
<1>9. CASE ReadReceipt /\ t = "reconciler"
  <2> DEFINE y == [pc |-> "takeover", from |-> "verifying",
                   outcome |-> Result(files.marker)[1], verdict |-> Result(files.marker)[2]]
  <2>0. th' = [th EXCEPT ![t] = y] /\ y.pc = "takeover" BY <1>9 DEF ReadReceipt
  <2>1. th'[t].pc = "takeover" /\ th' = [th EXCEPT ![t] = th'[t]]
    <3> HIDE DEF y
    <3> QED BY <1>2, <2>0
  <2>2. agent = "settled" BY <1>9 DEF ReadReceipt, Places
  <2>3. Review(t) \/ (Passes(t) /\ th'[t].outcome # "succeeded")
    <3>1. CASE files.marker \in Codes BY <1>9, <3>1 DEF ReadReceipt, ReviewAgain
    <3>2. CASE files.marker \notin Codes
      <4>1. Result(files.marker) = <<"interrupted", "unverified">> BY <3>2 DEF Result, Codes
      <4>2. y.outcome = "interrupted" BY <4>1
      <4>3. Passes(t) BY <1>9, <3>2 DEF ReadReceipt
      <4> HIDE DEF y
      <4> QED BY <1>2, <2>0, <4>2, <4>3
    <3> QED BY <3>1, <3>2
  <2>4. UNCHANGED reviewRest /\ agent' = agent BY <1>9 DEF ReadReceipt
  <2> HIDE DEF y
  <2> QED BY <1>7, <2>1, <2>2, <2>3, <2>4
<1>10. CASE ReconcileRun(t)
  <2>1. th'[t].pc = "review" /\ th' = [th EXCEPT ![t] = th'[t]]
    BY <1>1, <1>2, <1>10 DEF ReconcileRun, ThSet
  <2> QED BY <1>7, <1>10, <2>1 DEF ReconcileRun
<1>11. CASE EndReview(t)
  <2>1. th'[t].pc \in {"idle", "settled"} /\ th' = [th EXCEPT ![t] = th'[t]]
    BY <1>5, <1>6, <1>11 DEF EndReview
  <2> QED BY <1>3, <1>7, <1>11, <2>1 DEF EndReview
<1>12. CASE ClaimOrFinish(t)
  <2>1. th'[t].pc \in {"idle", "verifier"} /\ th' = [th EXCEPT ![t] = th'[t]]
    BY <1>5, <1>6, <1>12 DEF ClaimOrFinish
  <2> QED BY <1>3, <1>7, <1>12, <2>1 DEF ClaimOrFinish
<1>13. CASE VerifierReturned(t)
  <2>1. th'[t].pc = "finish" /\ th' = [th EXCEPT ![t] = th'[t]]
    BY <1>1, <1>2, <1>13 DEF VerifierReturned, ThSet
  <2> QED BY <1>3, <1>7, <1>13, <2>1 DEF VerifierReturned, ReviewAgain
<1>14. CASE VerifierRefused(t)
  BY <1>3, <1>6, <1>7, <1>14 DEF VerifierRefused
<1>15. CASE Conclude(t)
  <2>1. th'[t].pc \in {"idle", "clean"} /\ th' = [th EXCEPT ![t] = th'[t]]
    BY <1>5, <1>6, <1>15 DEF Conclude
  <2> QED BY <1>3, <1>7, <1>15, <2>1 DEF Conclude
<1>16. CASE RemoveArtifacts(t) BY <1>3, <1>6, <1>7, <1>16 DEF RemoveArtifacts
<1> QED BY <1>8, <1>9, <1>10, <1>11, <1>12, <1>13, <1>14, <1>15, <1>16 DEF SettledStep

\* So it keeps what was staged.
LEMMA SettledStepKeepsStaging ==
    ASSUME StagingInv, RunTypes', NEW t \in Threads, SettledStep(t)
    PROVE  StagingInv'
<1>1. ReviewTypes /\ RunTypes /\ Places BY DEF StagingInv
<1>2. /\ agent = "settled" /\ agent' = agent /\ UNCHANGED reviewRest
      /\ th'[t] \in ThSet /\ th' = [th EXCEPT ![t] = th'[t]]
      /\ th'[t].pc \in {"idle", "review", "settled", "verifier", "finish", "takeover", "clean"}
  BY <1>1, SettledMoves
<1>3. PICK x : /\ ObsGoesOn(t, x) /\ x.pc \in {"idle", "ok", "prove", "diff"}
               /\ x.pc # "idle" => th'[t].pc \in {"review", "finish", "takeover"}
  <2>1. CASE th'[t].pc \in {"review", "finish", "takeover"} /\ Review(t) BY <1>1, <2>1, ReviewMoves
  <2>2. CASE th'[t].pc \in {"review", "finish", "takeover"} /\ Passes(t)
    <3>1. "ok" \in ReviewPcs BY DEF ReviewPcs
    <3>2. ObsGoesOn(t, [Idle EXCEPT !.pc = "ok"]) /\ [Idle EXCEPT !.pc = "ok"].pc = "ok"
      BY <2>2, <3>1, IdleTyped DEF ObsGoesOn, Staging, Passes, Goto
    <3> QED BY <2>2, <3>2
  <2>3. CASE DropReview(t)
    <3>1. ObsGoesOn(t, Idle) BY <2>3, IdleTyped DEF DropReview, ObsGoesOn, Staging
    <3> QED BY <3>1, IdleTyped
  <2>4. CASE obs' = obs /\ th[t].pc \notin {"staged", "review", "finish", "takeover"}
    BY <2>4, NotObserving
  <2> QED BY <1>1, <2>1, <2>2, <2>3, <2>4, SettledMoves
<1>4. th'[t].pc \notin {"stage", "staged"} BY <1>2
<1> QED BY <1>2, <1>3, <1>4, ThreadKeepsStaging

\* Whoever else writes, in the worktree or to a source, leaves the staging
\* thread able to see it.
LEMMA WritersKeepStaging ==
    ASSUME StagingInv, RunTypes', UNCHANGED <<agent, th, state>>,
           NEW n, NEW d \in Anything,
           (n \in Names /\ WriteTree(n, d)) \/ (n \in Inputs /\ WriteSource(n, d))
    PROVE  StagingInv'
<1>1. ReviewTypes /\ RunTypes /\ Places /\ StagedSoFar BY DEF StagingInv
<1>2. d \in Held BY DEF Anything, Held
<1>3. job' = job /\ obs' = obs /\ inputReceipt' = inputReceipt /\ changeReceipt' = changeReceipt
  BY DEF WriteTree, WriteSource
<1>4. Places' BY <1>1, <1>3 DEF Places
<1>5. CASE n \in Names /\ WriteTree(n, d)
  <2>1. source' = source /\ tree' = [tree EXCEPT ![n] = Written(@, d)] /\ restored' \in BOOLEAN
    BY <1>1, <1>5 DEF WriteTree, ReviewTypes
  <2>2. Written(tree[n], d) \in Files BY <1>1, <1>2, <1>5, WrittenTyped DEF ReviewTypes
  <2>3. ReviewTypes' BY <1>1, <1>3, <2>1, <2>2 DEF ReviewTypes
  <2>4. \A s \in Threads : (obs[s].pc \in Staging => InHand(obs[s]))'
    BY <1>1, <1>3, <2>1 DEF StagedSoFar, InHand, FromSource
  <2>5. StagedSoFar' BY <1>1, <1>3, <2>1, <2>4 DEF StagedSoFar, FromSource
  <2> QED BY <1>4, <2>3, <2>5 DEF StagingInv
<1>6. CASE n \in Inputs /\ WriteSource(n, d)
  <2>1. tree' = tree /\ source' = [source EXCEPT ![n] = Written(@, d)] /\ restored' = restored
    BY <1>6 DEF WriteSource
  <2>2. /\ Written(source[n], d) \in Files /\ Written(source[n], d).data = d
        /\ Written(source[n], d).stamp = source[n].stamp + 1
        /\ Written(source[n], d).past = source[n].past \cup {d}
    BY <1>1, <1>2, <1>6, WrittenTyped DEF ReviewTypes
  <2>3. ReviewTypes' BY <1>1, <1>3, <2>1, <2>2 DEF ReviewTypes
  <2>4. \A i \in Inputs : /\ source[i].past \subseteq source'[i].past /\ source'[i].data \in source'[i].past
                          /\ source[i].stamp \in Nat /\ source'[i].stamp \in Nat
                          /\ source'[i] = source[i] \/ source'[i].stamp = source[i].stamp + 1
    BY <1>1, <1>6, <2>1, <2>2 DEF ReviewTypes, StagedSoFar, Files
  <2>5. \A receipt : FromSource(receipt) =>
           \A i \in DOMAIN receipt : i \in Inputs /\ receipt[i] \in source'[i].past \ {Absent}
    BY <2>4, PastGrows
  <2>6. ASSUME NEW s \in Threads, obs[s].pc \in Staging PROVE InHand(obs[s])'
    <3>1. InHand(obs[s]) BY <1>1, <2>6 DEF StagedSoFar
    <3>2. obs[s].pc = "copy" => First(obs[s].todo) \in Inputs
      <4>1. obs[s].todo \in SUBSET Names BY <1>1 DEF ReviewTypes, ObsSet
      <4>2. obs[s].pc = "copy" => First(obs[s].todo) \in job.inputs
        BY <1>1, <2>6, <4>1, FirstIn DEF ReviewTypes
      <4> QED BY <1>1, <4>2 DEF ReviewTypes
    <3>3. obs[s].stamp \in Nat BY <1>1 DEF ReviewTypes, ObsSet
    <3>4. obs[s].pc = "copy" =>
            /\ obs[s].stamp <= source'[First(obs[s].todo)].stamp
            /\ obs[s].stamp = source'[First(obs[s].todo)].stamp => source'[First(obs[s].todo)].data # Absent
      BY <2>4, <3>1, <3>2, <3>3 DEF InHand
    <3>5. \A i \in DOMAIN obs[s].states : i \in Inputs /\ obs[s].states[i] \in source'[i].past \ {Absent}
      BY <2>5, <3>1 DEF InHand
    <3> QED BY <1>3, <3>1, <3>4, <3>5 DEF InHand, FromSource
  <2>7. StagedSoFar'
    <3>1. FromSource(inputReceipt) => FromSource(inputReceipt)' BY <1>3, <2>5 DEF FromSource
    <3>2. \A s \in Threads : (obs[s].pc \in Staging => InHand(obs[s]))' BY <1>3, <2>6
    <3> QED BY <1>1, <1>3, <2>4, <3>1, <3>2 DEF StagedSoFar
  <2> QED BY <1>4, <2>3, <2>7 DEF StagingInv
<1> QED BY <1>5, <1>6

\* While the scheduler is down no thread is at work.
Down == ~up => \A t \in Threads : th[t].pc = "idle" /\ obs[t].pc = "idle"

\* A crash forgets every staging and observation.
LEMMA CrashKeepsStaging == ASSUME StagingInv, RunTypes', Crash PROVE StagingInv' /\ Down'
<1>1. ReviewTypes /\ RunTypes /\ Places /\ StagedSoFar BY DEF StagingInv
<1>2. /\ UNCHANGED reviewRest /\ UNCHANGED <<agent, state>>
      /\ \A t \in Threads : obs'[t] = Idle /\ th'[t].pc = "idle"
  BY DEF Crash, Resting
<1>3. obs' \in [Threads -> ObsSet] BY IdleTyped DEF Crash
<1>4. ReviewTypes' BY <1>1, <1>2, <1>3, IdleTyped DEF ReviewTypes, reviewRest, Staging
<1>5. Places' BY <1>1, <1>2, IdleTyped DEF Places, Staging, Reviewing
<1>6. StagedSoFar'
  <2>1. \A t \in Threads : obs'[t].pc \notin Staging BY <1>2, IdleTyped DEF Staging
  <2> QED BY <1>1, <1>2, <2>1 DEF StagedSoFar, FromSource, reviewRest
<1>7. Down' BY <1>2, IdleTyped DEF Down
<1> QED BY <1>4, <1>5, <1>6, <1>7 DEF StagingInv

\* A daemon that comes back does not stage again: the start is interrupted.
LEMMA RestartKeepsStaging == ASSUME StagingInv, Down, RunTypes', Restart PROVE StagingInv' /\ Down'
<1>1. ReviewTypes /\ RunTypes /\ Places /\ StagedSoFar BY DEF StagingInv
<1>2. UNCHANGED reviewVars /\ agent' = agent /\ up' BY DEF Restart
<1>3. \A t \in Threads : obs[t].pc = "idle" /\ th[t].pc = "idle" BY DEF Restart, Down
<1>4. \A t \in Threads : th'[t].pc \in {"idle", "await"} BY <1>1, <1>3 DEF Restart, RunTypes, ThSet
<1>5. state' = state \/ state' = "interrupted" BY DEF Restart, Finish
<1>6. ReviewTypes' BY <1>1, <1>2 DEF ReviewTypes, reviewVars
<1>7. Places' BY <1>1, <1>2, <1>3, <1>4, <1>5 DEF Places, reviewVars, Staging, Reviewing
<1>8. StagedSoFar' BY <1>1, <1>2, <1>3, <1>4 DEF StagedSoFar, FromSource, reviewVars, Staging
<1> QED BY <1>2, <1>6, <1>7, <1>8 DEF StagingInv, Down

\* Every other step has the scheduler up, or is not its own.
LEMMA DownStaysDown ==
    ASSUME RunTypes, ReviewTypes, Down, [Next]_vars, ~Crash, ~Restart
    PROVE  Down'
<1>1. up' = up
  BY DEF Next, Stage, StartAgent, AgentSettles, MonitorSettles, ReadReceipt, ReconcileRun, EndReview, ClaimOrFinish,
         VerifierReturned, VerifierRefused, Conclude, RemoveArtifacts, Observe, Group, Call, Tick, AgentWrites,
         LeftoverWrites, GroupWrites, SourceChanges, rowRest, runVars, vars
<1> SUFFICES ASSUME ~up PROVE th' = th /\ obs' = obs BY <1>1 DEF Down
<1>2. \A t \in Threads : th[t].pc = "idle" /\ obs[t].pc = "idle" BY DEF Down
<1>3. "monitor" \in Threads /\ "reconciler" \in Threads BY Constants
<1>4. CASE Stage \/ StartAgent \/ MonitorSettles \/ ReadReceipt
  BY <1>2, <1>3, <1>4 DEF Stage, StartAgent, MonitorSettles, ReadReceipt
<1>5. CASE \E t \in Threads : \/ ReconcileRun(t) \/ EndReview(t) \/ ClaimOrFinish(t) \/ VerifierReturned(t)
                              \/ VerifierRefused(t) \/ Conclude(t) \/ RemoveArtifacts(t)
  BY <1>2, <1>5 DEF ReconcileRun, EndReview, ClaimOrFinish, VerifierReturned, VerifierRefused, Conclude, RemoveArtifacts
<1>6. CASE \E t \in Threads : Observe(t)
  <2>1. PICK t \in Threads : ReviewStep(t, Open) BY <1>6 DEF Observe
  <2>2. Open \in BOOLEAN BY DEF Open
  <2>3. obs[t].pc \in Staging \cup Reviewing BY <2>1, <2>2, ObserverPcs
  <2> QED BY <1>2, <2>3 DEF Staging, Reviewing
<1>7. CASE AgentSettles \/ Group \/ Call \/ Tick
  BY <1>7 DEF AgentSettles, Group, Call, Tick, reviewVars, runVars
<1>8. CASE AgentWrites \/ LeftoverWrites \/ GroupWrites \/ SourceChanges
  BY <1>8 DEF AgentWrites, LeftoverWrites, GroupWrites, SourceChanges, WriteTree, WriteSource, runVars
<1>9. CASE UNCHANGED vars BY <1>9 DEF vars, reviewVars, runVars
<1> QED BY <1>4, <1>5, <1>6, <1>7, <1>8, <1>9 DEF Next

\* Nothing is staged at first.
LEMMA StagingAtFirst == Init => StagingInv /\ Down
<1> SUFFICES ASSUME Init PROVE StagingInv /\ Down OBVIOUS
<1>1. RunTypes /\ VerifierInv BY VerifierAtFirst DEF VerifierInv
<1>2. /\ obs = [t \in Threads |-> Idle] /\ inputReceipt = None /\ changeReceipt = None /\ restored = FALSE
      /\ agent = "waiting" /\ up = TRUE /\ state = "starting"
      /\ \A t \in Threads : th[t].pc \in {"idle", "stage"} /\ (th[t].pc = "stage" => t = "monitor")
  BY DEF Init, ReviewInit, Resting
<1>3. job \in [inputs : SUBSET Inputs, scoped : BOOLEAN, verifier : BOOLEAN]
  BY SettledAssumption DEF Init
<1>4. \A d \in Held : NewFile(d) \in Files /\ NewFile(d).data = d /\ NewFile(d).past = {d}
  BY DEF NewFile, Files
<1>5. Contents \cup {Absent} \subseteq Held /\ \A n \in Names : Base(n) \in Held
  BY ReviewAssumption DEF Held, Base
<1>6. source \in [Inputs -> Files] /\ \A i \in Inputs : source[i].data \in source[i].past
  <2>1. source \in [Inputs -> {NewFile(d) : d \in Contents \cup {Absent}}] BY DEF Init, ReviewInit
  <2>2. {NewFile(d) : d \in Contents \cup {Absent}} \subseteq {f \in Files : f.data \in f.past} BY <1>4, <1>5
  <2> QED BY <2>1, <2>2
<1>7. tree \in [Names -> Files] BY <1>4, <1>5 DEF Init, ReviewInit
<1>8. \A t \in Threads : obs[t] = Idle BY <1>2
<1>9. ReviewTypes
  <2>1. obs \in [Threads -> ObsSet] BY <1>2, IdleTyped
  <2> QED BY <1>2, <1>3, <1>6, <1>7, <1>8, <2>1, IdleTyped DEF ReviewTypes, Staging
<1>10. Places BY <1>2, <1>8, IdleTyped DEF Places, Staging, Reviewing
<1>11. StagedSoFar BY <1>2, <1>6, <1>8, IdleTyped DEF StagedSoFar, Staging
<1>12. Down BY <1>2 DEF Down
<1> QED BY <1>1, <1>9, <1>10, <1>11, <1>12 DEF StagingInv

\* Every step keeps what was staged.
LEMMA StagingKept ==
    StagingInv /\ Down /\ VerifierInv' /\ [Next]_vars => StagingInv' /\ Down'
<1> SUFFICES ASSUME StagingInv, Down, VerifierInv', [Next]_vars PROVE StagingInv' /\ Down' OBVIOUS
<1>1. ReviewTypes /\ RunTypes /\ Places /\ StagedSoFar BY DEF StagingInv
<1>2. RunTypes' BY DEF VerifierInv
<1>3. CASE Crash BY <1>2, <1>3, CrashKeepsStaging
<1>4. CASE Restart BY <1>2, <1>4, RestartKeepsStaging
<1>5. ~Crash /\ ~Restart => Down' BY <1>1, DownStaysDown
<1>6. ASSUME Stage \/ StartAgent PROVE StagingInv' BY <1>2, <1>6, StartKeepsStaging
<1>7. ASSUME NEW t \in Threads, SettledStep(t) PROVE StagingInv' BY <1>2, <1>7, SettledStepKeepsStaging
<1>8. ASSUME MonitorSettles \/ ReadReceipt PROVE StagingInv' BY <1>7, <1>8, Constants DEF SettledStep
<1>9. ASSUME NEW t \in Threads, Observe(t) PROVE StagingInv'
  <2>1. ReviewStep(t, Open) /\ UNCHANGED <<agent, th, state>> BY <1>9 DEF Observe, runVars
  <2>2. Open \in BOOLEAN BY DEF Open
  <2>3. ReviewTypes' BY <1>1, <2>1, <2>2, ObserverTyped
  <2>4. Places' /\ StagedSoFar' BY <2>1, <2>2, StagingObserved
  <2> QED BY <1>2, <2>3, <2>4 DEF StagingInv
<1>10. ASSUME UNCHANGED <<reviewVars, th, state>>, agent' \in {agent, "settled"},
              agent' # agent => agent = "running"
       PROVE  StagingInv'
  <2>1. ReviewTypes' BY <1>1, <1>10 DEF ReviewTypes, reviewVars
  <2>2. Places' BY <1>1, <1>10 DEF Places, reviewVars
  <2>3. \A s \in Threads : (obs[s].pc \in Staging => InHand(obs[s]))'
    BY <1>1, <1>10 DEF StagedSoFar, InHand, FromSource, reviewVars
  <2>4. StagedSoFar' BY <1>1, <1>10, <2>3 DEF StagedSoFar, FromSource, reviewVars
  <2> QED BY <1>2, <2>1, <2>2, <2>4 DEF StagingInv
<1>11. ASSUME AgentSettles \/ Group \/ Call \/ Tick \/ UNCHANGED vars PROVE StagingInv'
  BY <1>10, <1>11 DEF AgentSettles, Group, Call, Tick, runVars, vars
<1>12. ASSUME AgentWrites \/ LeftoverWrites \/ GroupWrites \/ SourceChanges PROVE StagingInv'
  <2>1. /\ UNCHANGED <<agent, th, state>>
        /\ \E n : \E d \in Anything :
             (n \in Names /\ WriteTree(n, d)) \/ (n \in Inputs /\ WriteSource(n, d))
    BY <1>12 DEF AgentWrites, LeftoverWrites, GroupWrites, SourceChanges, runVars
  <2> QED BY <1>2, <2>1, WritersKeepStaging
<1>13. ASSUME NEW t \in Threads, \/ ReconcileRun(t) \/ EndReview(t) \/ ClaimOrFinish(t) \/ VerifierReturned(t)
                                 \/ VerifierRefused(t) \/ Conclude(t) \/ RemoveArtifacts(t)
       PROVE  StagingInv'
  BY <1>7, <1>13 DEF SettledStep
<1> QED BY <1>3, <1>4, <1>5, <1>6, <1>8, <1>9, <1>11, <1>12, <1>13 DEF Next

\* So it always holds.
LEMMA StagingAlways == Spec => [](StagingInv /\ Down)
<1>1. Init => StagingInv /\ Down BY StagingAtFirst
<1>2. StagingInv /\ Down /\ VerifierInv' /\ [Next]_vars => StagingInv' /\ Down' BY StagingKept
<1> QED BY <1>1, <1>2, VerifierAlways, PTL DEF Spec

\* Staging: whatever the producers of the inputs and the crashes do, an agent
\* that was started has every declared input in a durable receipt, each whole
\* and as its source was at one instant (stageBoundedInputs, copyBoundedInput).
THEOREM StagedWhole == Spec => []InputsNeverTorn
<1>1. StagingInv => InputsNeverTorn BY DEF StagingInv, StagedSoFar, FromSource, InputsNeverTorn
<1> QED BY <1>1, StagingAlways, PTL

-----------------------------------------------------------------------------
(* What a run that succeeds has left in its worktree.                      *)

\* What the property asks of the worktree and the receipts.
Matches ==
    /\ job.scoped => changeReceipt = Changes(tree, Excluded) /\ DOMAIN changeReceipt \subseteq Scope
    /\ job.inputs # {} =>
         /\ \A i \in job.inputs : tree[i].data = inputReceipt[i]
         /\ \A n \in Reserved : tree[n].data = Absent

\* An observation whose result still counts: the row has not moved past the
\* review, or the verifier of the claim has passed and is gone.
Counts(t) ==
    \/ th[t].pc = "review" /\ state \in {"running", "settled"}
    \/ th[t].pc \in {"finish", "takeover"} /\ th[t].outcome = "succeeded"

\* What an observation knows, at each of its places, of a worktree nobody writes in.
InputsHold(S) == \A i \in S : tree[i].data = inputReceipt[i]
Changed == {n \in Names \ Excluded : tree[n].data # Base(n)}
Seen(o) ==
    /\ o.pc \in {"prove", "proving"} => o.todo \subseteq Excluded /\ InputsHold(Excluded \ o.todo)
    /\ o.pc \in {"diff", "others", "ignored", "observe", "reading"} => InputsHold(Excluded)
    /\ o.pc \in {"others", "ignored"} => o.changed = {n \in Tracked : tree[n].data # Original}
    /\ o.pc = "ignored" => o.untracked = {n \in Names \ Tracked : Present(n) /\ ~IgnoredNow(n)}
    /\ o.pc \in {"observe", "reading"} =>
         /\ o.changed = Changed /\ Changed \subseteq Scope
         /\ \A n \in Reserved : tree[n].data = Absent
         /\ o.todo \subseteq Changed /\ DOMAIN o.states = Changed \ o.todo
         /\ \A n \in DOMAIN o.states : o.states[n] = tree[n].data
    /\ o.pc = "ok" => Matches

SuccessInv ==
    /\ \A t \in Threads : Counts(t) /\ ~late => Seen(obs[t])
    /\ \A t \in Threads : th[t].pc = "settled" /\ state \in {"running", "settled"} /\ ~late => Matches
    /\ state = "succeeded" => group = {}
    /\ state = "succeeded" /\ ~late => Matches

\* What a receipt of the worktree would say is one.
LEMMA ChangesTyped ==
    ASSUME ReviewTypes
    PROVE  /\ Changes(tree, Excluded) \in Receipts /\ DOMAIN Changes(tree, Excluded) = Changed
           /\ \A n \in Changed : Changes(tree, Excluded)[n] = tree[n].data
<1>1. Changes(tree, Excluded) = [n \in Changed |-> tree[n].data] BY DEF Changes, Changed
<1>2. \A n \in Names : tree[n].data \in Held BY DEF ReviewTypes, Files
<1>3. Changed \in SUBSET Names BY DEF Changed
<1> HIDE DEF Changed
<1>4. Changes(tree, Excluded) \in [Changed -> Held] BY <1>1, <1>2, <1>3
<1> QED BY <1>1, <1>3, <1>4 DEF Receipts

\* An observation that has every changed path, each as it is, says the same.
LEMMA ChangesAre ==
    ASSUME ReviewTypes, NEW states \in Receipts, DOMAIN states = Changed,
           \A n \in Changed : states[n] = tree[n].data
    PROVE  states = Changes(tree, Excluded)
<1>1. PICK S \in SUBSET Names : states \in [S -> Held] BY DEF Receipts
<1>2. S = Changed BY <1>1
<1>3. states = [n \in Changed |-> states[n]] BY <1>1, <1>2
<1>4. Changes(tree, Excluded) = [n \in Changed |-> tree[n].data] BY DEF Changes, Changed
<1> HIDE DEF Changed
<1> QED BY <1>3, <1>4

\* A step that leaves the worktree alone; the change receipt is set once.
Quiet ==
    /\ UNCHANGED <<job, tree, inputReceipt>>
    /\ changeReceipt # None => changeReceipt' = changeReceipt

\* Across such a step receipts that match go on matching.
LEMMA MatchesStays == ASSUME ReviewTypes, Matches, Quiet PROVE Matches'
<1>1. job' = job /\ tree' = tree /\ inputReceipt' = inputReceipt BY DEF Quiet
<1>2. Excluded' = Excluded /\ Changes(tree, Excluded)' = Changes(tree, Excluded)
  BY <1>1 DEF Excluded, Changes
<1>3. job.scoped => changeReceipt # None BY ChangesTyped, NoPaths DEF Matches
<1> QED BY <1>1, <1>2, <1>3 DEF Matches, Quiet

\* And an observation goes on knowing what it has seen.
LEMMA SeenStays ==
    ASSUME ReviewTypes, NEW t \in Threads, Seen(obs[t]), Quiet, obs'[t] = obs[t]
    PROVE  Seen(obs[t])'
<1>1. job' = job /\ tree' = tree /\ inputReceipt' = inputReceipt BY DEF Quiet
<1>2. Excluded' = Excluded BY <1>1 DEF Excluded
<1>3. Changed' = Changed BY <1>1, <1>2 DEF Changed
<1>4. Matches => Matches' BY MatchesStays
<1>5. /\ \A n \in Names : Present(n)' = Present(n) /\ IgnoredNow(n)' = IgnoredNow(n)
      /\ InputsHold(Excluded \ obs[t].todo)' = InputsHold(Excluded \ obs[t].todo)
      /\ InputsHold(Excluded)' = InputsHold(Excluded)
  BY <1>1, <1>2 DEF Present, IgnoredNow, InputsHold
<1> QED BY <1>1, <1>2, <1>3, <1>4, <1>5 DEF Seen

\* A step of the observation that changes no receipt knows what it now says.
LEMMA SeenMoves ==
    ASSUME NEW t \in Threads, NEW x, Seen(x), obs'[t] = x, UNCHANGED <<job, tree, inputReceipt, changeReceipt>>
    PROVE  Seen(obs[t])'
<1>1. /\ Excluded' = Excluded /\ Changed' = Changed /\ Matches' = Matches
      /\ \A n \in Names : Present(n)' = Present(n) /\ IgnoredNow(n)' = IgnoredNow(n)
      /\ InputsHold(Excluded \ x.todo)' = InputsHold(Excluded \ x.todo)
      /\ InputsHold(Excluded)' = InputsHold(Excluded)
  BY DEF Excluded, Changed, Matches, Changes, Present, IgnoredNow, InputsHold
<1>2. Seen(x)' BY <1>1 DEF Seen
<1> QED BY <1>2 DEF Seen

\* A review begins knowing nothing, or ends at once with nothing to know.
LEMMA BeginningSees ==
    ASSUME ReviewTypes, StagedSoFar, agent = "settled", NEW t \in Threads, Review(t), UNCHANGED reviewRest
    PROVE  Seen(obs[t])'
<1>1. \A x : Goto(t, x) => obs'[t] = x BY DEF Goto, ReviewTypes
<1>2. UNCHANGED <<job, tree, inputReceipt, changeReceipt>> BY DEF reviewRest
<1>3. CASE Passes(t) /\ job.inputs = {} /\ ~job.scoped
  <2>1. obs'[t].pc = "ok" BY <1>1, <1>3 DEF Passes, Idle
  <2>2. Matches' BY <1>2, <1>3 DEF Matches
  <2> QED BY <2>1, <2>2 DEF Seen
<1>4. CASE Goto(t, [Idle EXCEPT !.pc = ProveOrDiff(Excluded), !.todo = Excluded])
  <2>1. PICK p : p = ProveOrDiff(Excluded) OBVIOUS
  <2>2. p \in {"prove", "diff"} /\ (p = "diff" => Excluded = {}) BY <2>1 DEF ProveOrDiff
  <2>3. PICK x : x = [Idle EXCEPT !.pc = p, !.todo = Excluded] OBVIOUS
  <2>4. x.pc = p /\ x.todo = Excluded BY <2>3 DEF Idle
  <2>5. Seen(x) BY <2>2, <2>4 DEF Seen, InputsHold
  <2>6. obs'[t] = x BY <1>1, <1>4, <2>1, <2>3
  <2> QED BY <1>2, <2>5, <2>6, SeenMoves
<1>5. job.inputs # {} => inputReceipt # None BY DEF StagedSoFar
<1> QED BY <1>3, <1>4, <1>5 DEF Review, BeginReview

\* The proof of the inputs knows of one more input, the listings of what they list.
LEMMA ListingSees ==
    ASSUME ReviewTypes, StagedSoFar, agent = "settled", NEW t \in Threads, Seen(obs[t]),
           OpenInput(t) \/ ProveInput(t) \/ GitFails(t) \/ DiffTracked(t) \/ ListOthers(t) \/ ListIgnored(t)
    PROVE  Seen(obs[t])'
<1>1. \A x : Goto(t, x) => obs'[t] = x BY DEF Goto, ReviewTypes
<1>2. UNCHANGED <<job, tree, inputReceipt, changeReceipt>>
  BY DEF OpenInput, ProveInput, GitFails, DiffTracked, ListOthers, ListIgnored, Looks
<1>3. ASSUME Fails(t) PROVE Seen(obs[t])'
  <2>1. obs'[t].pc = "failed" BY <1>1, <1>3 DEF Fails, Idle
  <2> QED BY <2>1 DEF Seen
<1>4. obs[t] \in ObsSet BY DEF ReviewTypes
<1>5. CASE OpenInput(t)
  <2>1. PICK stamp : Fails(t) \/ Goto(t, [obs[t] EXCEPT !.pc = "proving", !.stamp = stamp])
    BY <1>5 DEF OpenInput
  <2>2. PICK x : x = [obs[t] EXCEPT !.pc = "proving", !.stamp = stamp] OBVIOUS
  <2>3. x.pc = "proving" /\ x.todo = obs[t].todo /\ obs[t].pc = "prove"
    BY <1>4, <1>5, <2>2 DEF ObsSet, OpenInput, At
  <2>4. Seen(x) BY <2>3 DEF Seen
  <2>5. obs'[t] = x => Seen(obs[t])' BY <1>2, <2>4, SeenMoves
  <2> QED BY <1>1, <1>3, <2>1, <2>2, <2>5
<1>6. CASE ProveInput(t)
  <2>1. PICK i : i = First(obs[t].todo) OBVIOUS
  <2>2. PICK p : p = ProveOrDiff(obs[t].todo \ {i}) OBVIOUS
  <2>3. PICK x : x = [obs[t] EXCEPT !.pc = p, !.todo = @ \ {i}] OBVIOUS
  <2>4. x.pc = p /\ x.todo = obs[t].todo \ {i} BY <1>4, <2>3 DEF ObsSet
  <2>5. obs[t].pc = "proving" BY <1>6 DEF ProveInput, At
  <2>6. CASE tree[i].data = inputReceipt[i]
    <3>1. obs[t].todo \subseteq Excluded /\ InputsHold(Excluded \ obs[t].todo) BY <2>5 DEF Seen
    <3>2. x.todo \subseteq Excluded /\ InputsHold(Excluded \ x.todo)
      BY <2>4, <2>6, <3>1 DEF InputsHold
    <3>3. p \in {"prove", "diff"} /\ (p = "diff" => x.todo = {}) BY <2>2, <2>4 DEF ProveOrDiff
    <3>4. p = "diff" => InputsHold(Excluded) BY <3>2, <3>3 DEF InputsHold
    <3>5. Seen(x) BY <2>4, <3>2, <3>3, <3>4 DEF Seen
    <3>6. obs'[t] = x => Seen(obs[t])' BY <1>2, <3>5, SeenMoves
    <3> QED BY <1>1, <1>3, <1>6, <2>1, <2>2, <2>3, <3>6 DEF ProveInput
  <2>7. CASE tree[i].data # inputReceipt[i] BY <1>3, <1>6, <2>1, <2>7 DEF ProveInput
  <2> QED BY <2>6, <2>7
<1>7. CASE DiffTracked(t)
  <2>1. PICK c : c = {n \in Tracked : tree[n].data # Original} OBVIOUS
  <2>2. PICK x : x = [obs[t] EXCEPT !.pc = "others", !.changed = c] OBVIOUS
  <2>3. x.pc = "others" /\ x.changed = c /\ obs[t].pc = "diff"
    BY <1>4, <1>7, <2>2 DEF ObsSet, DiffTracked, At
  <2>4. Seen(x) BY <2>1, <2>3 DEF Seen
  <2>5. obs'[t] = x BY <1>1, <1>7, <2>1, <2>2 DEF DiffTracked
  <2> QED BY <1>2, <2>4, <2>5, SeenMoves
<1>8. CASE ListOthers(t)
  <2>1. PICK u : u = {n \in Names \ Tracked : Present(n) /\ ~IgnoredNow(n)} OBVIOUS
  <2>2. PICK x : x = [obs[t] EXCEPT !.pc = "ignored", !.untracked = u] OBVIOUS
  <2>3. x.pc = "ignored" /\ x.changed = obs[t].changed /\ x.untracked = u /\ obs[t].pc = "others"
    BY <1>4, <1>8, <2>2 DEF ObsSet, ListOthers, At
  <2>4. Seen(x) BY <2>1, <2>3 DEF Seen
  <2>5. obs'[t] = x BY <1>1, <1>8, <2>1, <2>2 DEF ListOthers
  <2> QED BY <1>2, <2>4, <2>5, SeenMoves
<1>9. CASE ListIgnored(t)
  <2>1. obs[t].pc = "ignored" BY <1>9 DEF ListIgnored, At
  <2>2. /\ InputsHold(Excluded) /\ obs[t].changed = {n \in Tracked : tree[n].data # Original}
        /\ obs[t].untracked = {n \in Names \ Tracked : Present(n) /\ ~IgnoredNow(n)}
    BY <2>1 DEF Seen
  <2>3. PICK u : u = obs[t].untracked \cup {n \in Names \ Tracked : Present(n) /\ IgnoredNow(n)} OBVIOUS
  <2>4. PICK c : c = (obs[t].changed \cup u) \ Excluded OBVIOUS
  <2>5. u = {n \in Names \ Tracked : tree[n].data # Absent} BY <2>2, <2>3 DEF Present
  <2>6. c = Changed
    <3>1. \A n \in Names : n \in c <=> n \in Changed BY <2>2, <2>4, <2>5 DEF Changed, Base
    <3>2. c \subseteq Names /\ Changed \subseteq Names BY <2>2, <2>4, <2>5 DEF Changed, Names
    <3> HIDE DEF Changed
    <3> QED BY <3>1, <3>2
  <2>7. inputReceipt # None => Excluded = job.inputs /\ job.inputs \subseteq Inputs
    BY DEF Excluded, StagedSoFar, ReviewTypes
  <2>8. Reserved \cap Excluded = {} /\ Reserved \subseteq Names \ Tracked
    <3>1. Excluded \subseteq Inputs BY <2>7 DEF Excluded
    <3> QED BY <3>1, ReviewAssumption DEF Names
  <2>9. (u \ Excluded) \cap Reserved = {} => \A n \in Reserved : tree[n].data = Absent
    BY <2>5, <2>8
  <2>10. PICK e : e = [n \in {} |-> Absent] OBVIOUS
  <2>11. PICK x : x = [obs[t] EXCEPT !.pc = "observe", !.changed = c, !.untracked = u, !.todo = c, !.states = e] OBVIOUS
  <2>12. x.pc = "observe" /\ x.changed = c /\ x.todo = c /\ x.states = e BY <1>4, <2>11 DEF ObsSet
  <2>13. \/ Fails(t)
         \/ (u \ Excluded) \cap Reserved = {} /\ ~job.scoped /\ Passes(t)
         \/ (u \ Excluded) \cap Reserved = {} /\ c \subseteq Scope /\ Goto(t, x)
    <3> DEFINE listing == [changed |-> c, untracked |-> u]
    <3>1. \/ Fails(t)
          \/ NothingPlanted(listing) /\ ~job.scoped /\ Passes(t)
          \/ NothingPlanted(listing) /\ InScope(listing) /\ Goto(t, x)
      BY <1>9, <2>3, <2>4, <2>10, <2>11 DEF ListIgnored
    <3> QED BY <3>1 DEF NothingPlanted, InScope
  <2>14. CASE (u \ Excluded) \cap Reserved = {} /\ ~job.scoped /\ Passes(t)
    <3>1. obs'[t].pc = "ok" BY <1>1, <2>14 DEF Passes, Idle
    <3>2. job.inputs # {} => \A i \in job.inputs : tree[i].data = inputReceipt[i]
      BY <2>2, <2>7 DEF InputsHold, StagedSoFar
    <3>3. Matches BY <2>9, <2>14, <3>2 DEF Matches
    <3>4. Matches' BY <1>2, <3>3, MatchesStays DEF Quiet
    <3> QED BY <3>1, <3>4 DEF Seen
  <2>15. CASE (u \ Excluded) \cap Reserved = {} /\ c \subseteq Scope /\ Goto(t, x)
    <3>1. DOMAIN x.states = {} BY <2>10, <2>12, NoPaths
    <3>2. Seen(x)
      <4> HIDE DEF Changed
      <4> QED BY <2>2, <2>6, <2>9, <2>12, <2>15, <3>1 DEF Seen
    <3> QED BY <1>1, <1>2, <2>15, <3>2, SeenMoves
  <2> QED BY <1>3, <2>13, <2>14, <2>15
<1> QED BY <1>3, <1>5, <1>6, <1>7, <1>8, <1>9 DEF GitFails

\* The observation of the paths knows of one more path, and what it saves is a
\* receipt of the worktree.
LEMMA ObservingSees ==
    ASSUME ReviewTypes, StagedSoFar, agent = "settled", NEW t \in Threads, Seen(obs[t]), NEW open \in BOOLEAN,
           OpenPath(t) \/ ReadPath(t) \/ BeginSecondPass(t) \/ SaveChanges(t, open)
    PROVE  Seen(obs[t])'
<1>1. \A x : Goto(t, x) => obs'[t] = x BY DEF Goto, ReviewTypes
<1>2. UNCHANGED <<job, tree, inputReceipt>>
  BY DEF OpenPath, ReadPath, BeginSecondPass, SaveChanges, Looks
<1>3. ASSUME Fails(t) PROVE Seen(obs[t])'
  <2>1. obs'[t].pc = "failed" BY <1>1, <1>3 DEF Fails, Idle
  <2> QED BY <2>1 DEF Seen
<1>4. obs[t] \in ObsSet /\ obs[t].states \in Receipts BY DEF ReviewTypes, ObsSet
<1>5. obs[t].pc \in {"observe", "reading"}
  BY DEF OpenPath, ReadPath, BeginSecondPass, SaveChanges, At
<1>6. /\ InputsHold(Excluded) /\ obs[t].changed = Changed /\ Changed \subseteq Scope
      /\ \A n \in Reserved : tree[n].data = Absent
      /\ obs[t].todo \subseteq Changed /\ DOMAIN obs[t].states = Changed \ obs[t].todo
      /\ \A n \in DOMAIN obs[t].states : obs[t].states[n] = tree[n].data
  BY <1>5 DEF Seen
<1> HIDE DEF Changed
<1>7. PICK n : n = First(obs[t].todo) OBVIOUS
<1>8. obs[t].todo # {} => n \in obs[t].todo /\ n \in Names
  <2>1. obs[t].todo \in SUBSET Names BY <1>4 DEF ObsSet
  <2> QED BY <1>7, <2>1, FirstIn
<1>9. \A m \in Names : tree[m].data \in Held BY DEF ReviewTypes, Files
<1>10. ASSUME obs[t].todo # {}, UNCHANGED changeReceipt,
              Goto(t, [obs[t] EXCEPT !.pc = "observe", !.todo = @ \ {n}, !.states = With(@, n, tree[n].data)])
       PROVE  Seen(obs[t])'
  <2>1. PICK x : x = [obs[t] EXCEPT !.pc = "observe", !.todo = @ \ {n}, !.states = With(@, n, tree[n].data)] OBVIOUS
  <2>2. /\ x.pc = "observe" /\ x.todo = obs[t].todo \ {n} /\ x.changed = obs[t].changed
        /\ x.states = With(obs[t].states, n, tree[n].data)
    BY <1>4, <2>1 DEF ObsSet
  <2>3. /\ DOMAIN x.states = DOMAIN obs[t].states \cup {n} /\ x.states[n] = tree[n].data
        /\ \A m \in DOMAIN obs[t].states : m # n => x.states[m] = obs[t].states[m]
    <3>1. tree[n].data \in Held /\ n \in Names BY <1>8, <1>9, <1>10
    <3>2. PICK f : f = With(obs[t].states, n, tree[n].data) OBVIOUS
    <3>3. /\ DOMAIN f = DOMAIN obs[t].states \cup {n} /\ f[n] = tree[n].data
          /\ \A m \in DOMAIN obs[t].states : m # n => f[m] = obs[t].states[m]
      <4>1. PICK g : g = obs[t].states OBVIOUS
      <4>2. PICK d : d = tree[n].data OBVIOUS
      <4>3. g \in Receipts BY <1>4, <4>1 DEF ObsSet
      <4>4. d \in Held BY <3>1, <4>2
      <4>5. f = With(g, n, d) BY <3>2, <4>1, <4>2
      <4>6. /\ DOMAIN f = DOMAIN g \cup {n} /\ f[n] = d
            /\ \A m \in DOMAIN g : m # n => f[m] = g[m]
        BY <3>1, <4>3, <4>4, <4>5, WithPath, Zenon
      <4> QED BY <4>1, <4>2, <4>6
    <3>4. x.states = f BY <2>2, <3>2
    <3> QED BY <3>3, <3>4
  <2>4. DOMAIN x.states = Changed \ x.todo /\ x.todo \subseteq Changed BY <1>6, <1>8, <1>10, <2>2, <2>3
  <2>5. \A m \in DOMAIN x.states : x.states[m] = tree[m].data BY <1>6, <2>3
  <2>6. Seen(x) BY <1>6, <2>2, <2>4, <2>5 DEF Seen
  <2> QED BY <1>1, <1>2, <1>10, <2>1, <2>6, SeenMoves
<1>11. CASE OpenPath(t)
  <2>1. obs[t].pc = "observe" /\ obs[t].todo # {} /\ UNCHANGED changeReceipt BY <1>11 DEF OpenPath, At, Looks
  <2>2. CASE tree[n].data = Absent
    <3>1. Goto(t, [obs[t] EXCEPT !.todo = @ \ {n}, !.states = With(@, n, tree[n].data)])
      BY <1>7, <1>11, <2>2 DEF OpenPath, Deleted
    <3>2. \A S, f : [obs[t] EXCEPT !.todo = S, !.states = f] = [obs[t] EXCEPT !.pc = "observe", !.todo = S, !.states = f]
      BY <1>4, <2>1 DEF ObsSet
    <3>3. Goto(t, [obs[t] EXCEPT !.pc = "observe", !.todo = @ \ {n}, !.states = With(@, n, tree[n].data)])
      BY <3>1, <3>2
    <3> QED BY <1>10, <2>1, <3>3
  <2>3. CASE tree[n].data # Absent
    <3>1. PICK stamp : Fails(t) \/ Goto(t, [obs[t] EXCEPT !.pc = "reading", !.stamp = stamp])
      BY <1>7, <1>11, <2>3 DEF OpenPath, Deleted
    <3>2. PICK x : x = [obs[t] EXCEPT !.pc = "reading", !.stamp = stamp] OBVIOUS
    <3>3. /\ x.pc = "reading" /\ x.todo = obs[t].todo /\ x.changed = obs[t].changed /\ x.states = obs[t].states
      BY <1>4, <3>2 DEF ObsSet
    <3>4. Seen(x) BY <1>6, <3>3 DEF Seen
    <3>5. obs'[t] = x => Seen(obs[t])' BY <1>2, <2>1, <3>4, SeenMoves
    <3> QED BY <1>1, <1>3, <3>1, <3>2, <3>5
  <2> QED BY <2>2, <2>3
<1>12. CASE ReadPath(t)
  <2>1. obs[t].pc = "reading" /\ UNCHANGED changeReceipt BY <1>12 DEF ReadPath, At, Looks
  <2>2. obs[t].todo # {} BY <2>1 DEF ReviewTypes
  <2>3. \/ Fails(t)
        \/ Goto(t, [obs[t] EXCEPT !.pc = "observe", !.todo = @ \ {n}, !.states = With(obs[t].states, n, tree[n].data)])
    BY <1>7, <1>12 DEF ReadPath, SameStatIdentity
  <2> QED BY <1>3, <1>10, <2>1, <2>2, <2>3
<1>13. CASE BeginSecondPass(t)
  <2>1. PICK f, b : Goto(t, [Idle EXCEPT !.pc = "diff", !.first = f, !.between = b])
    BY <1>13 DEF BeginSecondPass
  <2>2. PICK x : x = [Idle EXCEPT !.pc = "diff", !.first = f, !.between = b] OBVIOUS
  <2>3. x.pc = "diff" BY <2>2 DEF Idle
  <2>4. Seen(x) BY <1>6, <2>3 DEF Seen
  <2>5. UNCHANGED changeReceipt BY <1>13 DEF BeginSecondPass, Looks
  <2> QED BY <1>1, <1>2, <2>1, <2>2, <2>4, <2>5, SeenMoves
<1>14. CASE SaveChanges(t, open)
  <2>1. CASE changeReceipt' = obs[t].states /\ Passes(t)
    <3>1. obs[t].todo = {} BY <1>14 DEF SaveChanges
    <3>2. obs[t].states = Changes(tree, Excluded) BY <1>4, <1>6, <3>1, ChangesAre
    <3>3. DOMAIN obs[t].states \subseteq Scope BY <1>6, <3>1
    <3>4. job.inputs # {} => Excluded = job.inputs BY DEF StagedSoFar, Excluded
    <3>5. Changes(tree, Excluded)' = Changes(tree, Excluded) BY <1>2 DEF Changes, Excluded
    <3>6. Matches' BY <1>2, <1>6, <2>1, <3>2, <3>3, <3>4, <3>5 DEF Matches, InputsHold
    <3>7. obs'[t].pc = "ok" BY <1>1, <2>1 DEF Passes, Idle
    <3> QED BY <3>6, <3>7 DEF Seen
  <2> QED BY <1>3, <1>14, <2>1 DEF SaveChanges
<1> QED BY <1>11, <1>12, <1>13, <1>14

\* Once the agent has settled nobody but the verifier's group and what the agent
\* left behind writes in the worktree, and the inputs have their receipt.
LEMMA NobodyWrites ==
    ASSUME StagingInv, [Next]_vars, agent = "settled", group = {}, ~late'
    PROVE  Quiet /\ ~late /\ agent' = "settled"
<1>1. ReviewTypes /\ RunTypes /\ Places /\ "monitor" \in Threads BY Constants DEF StagingInv
<1>2. \A t \in Threads : th[t].pc \notin {"stage", "staged"} /\ obs[t].pc \notin Staging BY <1>1 DEF Places
<1>3. ~Stage /\ ~StartAgent BY <1>1, <1>2 DEF Stage, StartAgent
<1>4. CASE \E t \in Threads : Observe(t)
  <2>1. PICK t \in Threads : Observe(t) BY <1>4
  <2>2. ReviewStep(t, Open) /\ late' = late /\ agent' = agent BY <2>1 DEF Observe, runVars
  <2>3. obs[t].pc \notin {"open", "copy"} BY <1>2 DEF Staging
  <2>4. CASE SaveChanges(t, Open)
    BY <1>1, <2>2, <2>4 DEF SaveChanges, CanSetOnce, Quiet
  <2>5. CASE ~SaveChanges(t, Open)
    BY <2>2, <2>3, <2>5 DEF ReviewStep, OpenSource, CopySource, SaveInputs, OpenInput, ProveInput, GitFails, DiffTracked,
       ListOthers, ListIgnored, OpenPath, ReadPath, BeginSecondPass, Looks, At, Quiet
  <2> QED BY <2>4, <2>5
<1>5. CASE AgentSettles \/ MonitorSettles \/ ReadReceipt \/ Group \/ Call \/ Crash \/ Restart \/ Tick \/ UNCHANGED vars
  BY <1>5 DEF AgentSettles, MonitorSettles, ReadReceipt, Group, Call, Crash, Restart, Tick, vars, reviewVars, runVars, rowRest,
     reviewRest, Quiet
<1>6. CASE \E t \in Threads : \/ ReconcileRun(t) \/ EndReview(t) \/ ClaimOrFinish(t) \/ VerifierReturned(t)
                              \/ VerifierRefused(t) \/ Conclude(t) \/ RemoveArtifacts(t)
  BY <1>6 DEF ReconcileRun, EndReview, ClaimOrFinish, VerifierReturned, VerifierRefused, Conclude, RemoveArtifacts,
     reviewVars, rowRest, reviewRest, Quiet
<1>7. CASE AgentWrites \/ LeftoverWrites \/ GroupWrites BY <1>7 DEF AgentWrites, LeftoverWrites, GroupWrites
<1>8. CASE SourceChanges
  BY <1>8 DEF SourceChanges, WriteSource, runVars, Quiet
<1> QED BY <1>3, <1>4, <1>5, <1>6, <1>7, <1>8 DEF Next

\* An observation that has listed nothing.
Fresh(o) == o.first = None /\ o.pc \notin {"others", "ignored", "observe", "reading"}

\* A thread's place and observation change by its own steps only.
LEMMA OwnStep ==
    ASSUME ReviewTypes, RunTypes, RunTypes', Places, Down, [Next]_vars, NEW t \in Threads
    PROVE  \/ obs'[t] = obs[t] /\ th'[t] = th[t]
           \/ SettledStep(t) \/ Observe(t)
           \/ th'[t].pc \in {"idle", "await", "staged"} /\ (obs'[t] = obs[t] \/ Fresh(obs'[t]))
<1> USE DEF SettledStep
<1>1. obs \in [Threads -> ObsSet] /\ th \in [Threads -> ThSet] BY DEF ReviewTypes, RunTypes
<1>2. ASSUME NEW s \in Threads, SettledStep(s), s # t PROVE obs'[t] = obs[t] /\ th'[t] = th[t]
  <2>1. th' = [th EXCEPT ![s] = th'[s]] /\ (Review(s) \/ Passes(s) \/ DropReview(s) \/ obs' = obs)
    <3> HIDE DEF SettledStep
    <3> QED BY <1>2, SettledMoves
  <2>2. th'[t] = th[t] BY <1>1, <1>2, <2>1
  <2>3. obs'[t] = obs[t]
    BY <1>1, <1>2, <2>1 DEF Review, BeginReview, Passes, DropReview, Goto
  <2> QED BY <2>2, <2>3
<1>3. ASSUME NEW s \in Threads, Observe(s), s # t PROVE obs'[t] = obs[t] /\ th'[t] = th[t]
  <2>1. ReviewStep(s, Open) /\ th' = th BY <1>3 DEF Observe, runVars
  <2>2. Open \in BOOLEAN BY DEF Open
  <2>3. obs'[t] = obs[t] BY <1>3, <2>1, <2>2, ObserverPcs
  <2> QED BY <2>1, <2>3
<1>4. "monitor" \in Threads /\ "reconciler" \in Threads BY Constants
<1>5. CASE Stage \/ StartAgent
  <2>1. \A y : (th' = [th EXCEPT !["monitor"] = y]) => th'["monitor"] = y BY <1>1, <1>4
  <2>2. th'["monitor"].pc \in {"idle", "await", "staged"}
    BY <1>1, <1>4, <1>5, <2>1 DEF Stage, StartAgent, Moves, Rests, Resting, ThSet
  <2>3. t # "monitor" => obs'[t] = obs[t] /\ th'[t] = th[t]
    BY <1>1, <1>5 DEF Stage, StartAgent, Moves, Rests, BeginStaging, Goto, DropReview
  <2>4. Fresh(obs'["monitor"])
    <3>1. \A x : Goto("monitor", x) => obs'["monitor"] = x BY <1>1, <1>4 DEF Goto
    <3>2. \/ Goto("monitor", [Idle EXCEPT !.pc = "ok"]) \/ Goto("monitor", Idle)
          \/ Goto("monitor", [Idle EXCEPT !.pc = "open", !.todo = job.inputs])
      BY <1>5 DEF Stage, StartAgent, BeginStaging, DropReview, Goto
    <3>3. Idle.first = None /\ Idle.pc = "idle" BY DEF Idle
    <3>4. /\ [Idle EXCEPT !.pc = "ok"].first = None /\ [Idle EXCEPT !.pc = "ok"].pc = "ok"
          /\ [Idle EXCEPT !.pc = "open", !.todo = job.inputs].first = None
          /\ [Idle EXCEPT !.pc = "open", !.todo = job.inputs].pc = "open"
      BY DEF Idle
    <3> QED BY <3>1, <3>2, <3>3, <3>4 DEF Fresh
  <2> QED BY <2>2, <2>3, <2>4
<1>6. CASE MonitorSettles \/ ReadReceipt BY <1>2, <1>4, <1>6
<1>7. CASE \E s \in Threads : \/ ReconcileRun(s) \/ EndReview(s) \/ ClaimOrFinish(s) \/ VerifierReturned(s)
                              \/ VerifierRefused(s) \/ Conclude(s) \/ RemoveArtifacts(s)
  BY <1>2, <1>7
<1>8. CASE \E s \in Threads : Observe(s) BY <1>3, <1>8
<1>9. CASE Crash BY <1>9 DEF Crash, Resting, Idle, Fresh
<1>10. CASE Restart
  <2>1. th[t].pc = "idle" BY <1>10 DEF Restart, Down
  <2> QED BY <1>1, <1>10, <2>1 DEF Restart, ThSet, reviewVars
<1>11. CASE AgentSettles \/ Group \/ Call \/ Tick \/ UNCHANGED vars
  BY <1>11 DEF AgentSettles, Group, Call, Tick, vars, reviewVars, runVars
<1>12. CASE AgentWrites \/ LeftoverWrites \/ GroupWrites \/ SourceChanges
  BY <1>12 DEF AgentWrites, LeftoverWrites, GroupWrites, SourceChanges, WriteTree, WriteSource, runVars
<1> QED BY <1>5, <1>6, <1>7, <1>8, <1>9, <1>10, <1>11, <1>12 DEF Next

\* A run whose agent has settled does not go back, and succeeds in two ways only.
LEMMA StateMoves ==
    ASSUME StagingInv, [Next]_vars, agent = "settled"
    PROVE  /\ state' \in {"running", "settled"} => state \in {"running", "settled"}
           /\ state' = "succeeded" /\ state # "succeeded" =>
                \E t \in Threads :
                  \/ th[t].pc = "settled" /\ state = "settled" /\ group' = group
                  \/ /\ th[t].pc \in {"finish", "takeover"} /\ th[t].outcome = "succeeded"
                     /\ obs[t].pc = "ok" /\ group' = group
<1>1. RunTypes /\ Places /\ "monitor" \in Threads BY Constants DEF StagingInv
<1>2. ~StartAgent BY <1>1 DEF StartAgent, Places
<1>3. CASE \E t \in Threads : EndReview(t) \/ ClaimOrFinish(t) \/ VerifierRefused(t) \/ Conclude(t)
  <2>1. PICK t \in Threads : EndReview(t) \/ ClaimOrFinish(t) \/ VerifierRefused(t) \/ Conclude(t) BY <1>3
  <2>2. th[t] \in ThSet BY <1>1 DEF RunTypes
  <2>3. CASE EndReview(t)
    <3>1. th[t].from \in {"running", "settled"} BY <1>1, <2>3 DEF EndReview, RunTypes
    <3>2. state' = state \/ (state = th[t].from /\ state' \in {"failed", "settled"})
      BY <2>3 DEF EndReview, Finish
    <3> QED BY <3>1, <3>2
  <2>4. CASE ClaimOrFinish(t)
    <3>1. state' = state \/ state' = "verifying" \/ (state = "settled" /\ state' = "succeeded" /\ th[t].pc = "settled")
      BY <2>4 DEF ClaimOrFinish, Finish
    <3>2. group' = group BY <2>4 DEF ClaimOrFinish, groupVars
    <3> QED BY <3>1, <3>2
  <2>5. CASE VerifierRefused(t)
    <3>1. state' = state \/ state' = "failed" BY <2>5 DEF VerifierRefused, Finish
    <3> QED BY <3>1
  <2>6. CASE Conclude(t)
    <3>1. state' = state \/ state' = "failed" \/ (state' = th[t].outcome /\ obs[t].pc = "ok")
      BY <2>6 DEF Conclude
    <3>2. th[t].outcome \in Terminal BY <2>2 DEF ThSet
    <3>3. group' = group /\ th[t].pc \in {"finish", "takeover"} BY <2>6 DEF Conclude, verifierVars
    <3> QED BY <3>1, <3>2, <3>3 DEF Terminal
  <2> QED BY <2>1, <2>3, <2>4, <2>5, <2>6
<1>4. CASE Restart
  <2>1. state' = state \/ state' = "interrupted" BY <1>4 DEF Restart, Finish
  <2> QED BY <2>1
<1>5. CASE state' = state BY <1>5
<1> QED
  BY <1>2, <1>3, <1>4, <1>5
  DEF Next, Stage, AgentSettles, MonitorSettles, ReadReceipt, ReconcileRun, VerifierReturned, RemoveArtifacts, Observe,
      Group, Call, Crash, Tick, AgentWrites, LeftoverWrites, GroupWrites, SourceChanges, runVars, vars

\* While an observation counts there is no group, and its agent has settled.
LEMMA CountsAlone ==
    ASSUME VerifierInv, Places, NEW t \in Threads, Counts(t)
    PROVE  group = {} /\ agent = "settled"
<1>1. NotStarted /\ ResultMeansGone BY DEF VerifierInv
<1>2. CASE th[t].pc = "review" /\ state \in {"running", "settled"}
  BY <1>1, <1>2 DEF NotStarted, Before, Places
<1>3. CASE th[t].pc \in {"finish", "takeover"} /\ th[t].outcome = "succeeded"
  BY <1>1, <1>3 DEF ResultMeansGone, Places
<1> QED BY <1>2, <1>3 DEF Counts

\* An observation that counts knows what it has seen, after every step.
LEMMA SeenKept ==
    ASSUME SuccessInv, StagingInv, Down, VerifierInv, VerifierInv', [Next]_vars,
           NEW t \in Threads, Counts(t)', ~late'
    PROVE  Seen(obs[t])'
<1>1. ReviewTypes /\ RunTypes /\ Places /\ StagedSoFar /\ RunTypes' BY DEF StagingInv, VerifierInv
<1>2. th'[t].pc \in {"review", "finish", "takeover"} BY DEF Counts
<1>3. ASSUME th'[t] = th[t] PROVE Counts(t) /\ group = {} /\ agent = "settled" /\ Quiet /\ Seen(obs[t])
  <2>1. agent = "settled" BY <1>1, <1>2, <1>3 DEF Places
  <2>2. Counts(t) BY <1>3, <2>1, StateMoves DEF Counts
  <2>3. group = {} BY <1>1, <2>2, CountsAlone
  <2>4. Quiet /\ ~late BY <2>1, <2>3, NobodyWrites
  <2> QED BY <2>1, <2>2, <2>3, <2>4 DEF SuccessInv
<1>4. CASE obs'[t] = obs[t] /\ th'[t] = th[t] BY <1>1, <1>3, <1>4, SeenStays
<1>5. CASE SettledStep(t)
  <2>1. agent = "settled" /\ UNCHANGED reviewRest BY <1>1, <1>5, SettledMoves
  <2>2. Review(t) \/ (Passes(t) /\ th'[t].pc = "takeover" /\ th'[t].outcome # "succeeded")
    BY <1>1, <1>2, <1>5, SettledMoves
  <2>3. Review(t) BY <2>2 DEF Counts
  <2> QED BY <1>1, <2>1, <2>3, BeginningSees
<1>6. CASE Observe(t)
  <2>1. ReviewStep(t, Open) /\ th' = th BY <1>6 DEF Observe, runVars
  <2>2. Open \in BOOLEAN BY DEF Open
  <2>3. Seen(obs[t]) /\ agent = "settled" BY <1>3, <2>1
  <2>4. obs[t].pc \notin Staging BY <1>1, <2>3 DEF Places
  <2>5. ~(OpenSource(t) \/ CopySource(t) \/ SaveInputs(t, Open))
    BY <2>4 DEF OpenSource, CopySource, SaveInputs, At, Staging
  <2>6. CASE OpenInput(t) \/ ProveInput(t) \/ GitFails(t) \/ DiffTracked(t) \/ ListOthers(t) \/ ListIgnored(t)
    BY <1>1, <2>3, <2>6, ListingSees
  <2>7. CASE OpenPath(t) \/ ReadPath(t) \/ BeginSecondPass(t) \/ SaveChanges(t, Open)
    BY <1>1, <2>2, <2>3, <2>7, ObservingSees
  <2> QED BY <2>1, <2>5, <2>6, <2>7 DEF ReviewStep
<1> QED BY <1>1, <1>2, <1>4, <1>5, <1>6, OwnStep

\* What a thread is about to accept is what its observation has seen.
LEMMA AcceptedKept ==
    ASSUME SuccessInv, StagingInv, Down, VerifierInv, VerifierInv', [Next]_vars,
           NEW t \in Threads, th'[t].pc = "settled", state' \in {"running", "settled"}, ~late'
    PROVE  Matches'
<1>1. ReviewTypes /\ RunTypes /\ Places /\ RunTypes' BY DEF StagingInv, VerifierInv
<1>2. ASSUME agent = "settled" PROVE Quiet /\ ~late /\ state \in {"running", "settled"}
  <2>1. state \in {"running", "settled"} BY <1>2, StateMoves
  <2>2. group = {} BY <2>1 DEF VerifierInv, NotStarted, Before
  <2> QED BY <1>2, <2>1, <2>2, NobodyWrites
<1>3. CASE th'[t] = th[t]
  <2>1. agent = "settled" BY <1>1, <1>3 DEF Places
  <2>2. Matches BY <1>2, <1>3, <2>1 DEF SuccessInv
  <2> QED BY <1>1, <1>2, <2>1, <2>2, MatchesStays
<1>4. CASE SettledStep(t)
  <2>1. agent = "settled" BY <1>1, <1>4, SettledMoves
  <2>2. EndReview(t)
    <3>1. \A y : th' = [th EXCEPT ![t] = y] => th'[t] = y BY <1>1 DEF RunTypes
    <3>2. /\ Rests(t) => th'[t].pc = "idle"
          /\ \A p : Moves(t, p) => th'[t].pc = p
      BY <1>1, <3>1 DEF Rests, Moves, Resting, RunTypes, ThSet
    <3>3. ~VerifierRefused(t) /\ ~RemoveArtifacts(t) BY <3>2 DEF VerifierRefused, RemoveArtifacts
    <3>4. ~Conclude(t) BY <3>2 DEF Conclude
    <3>5. ~ClaimOrFinish(t) BY <3>2 DEF ClaimOrFinish
    <3>6. ~ReconcileRun(t) /\ ~VerifierReturned(t) /\ ~(MonitorSettles /\ t = "monitor")
      <4>1. ASSUME ReconcileRun(t) PROVE FALSE
        <5>1. PICK y : y = [th[t] EXCEPT !.pc = "review", !.from = state] OBVIOUS
        <5>2. th'[t] = y BY <3>1, <4>1, <5>1 DEF ReconcileRun
        <5>3. y.pc = "review" BY <1>1, <5>1 DEF RunTypes, ThSet
        <5> QED BY <5>2, <5>3
      <4>2. ~(MonitorSettles /\ t = "monitor") BY <1>1, <3>1 DEF MonitorSettles, RunTypes, ThSet
      <4>3. ASSUME VerifierReturned(t) PROVE FALSE
        <5>1. PICK a, b : th' = [th EXCEPT ![t] = [@ EXCEPT !.pc = "finish", !.from = "verifying",
                                                            !.outcome = a, !.verdict = b]]
          BY <4>3 DEF VerifierReturned
        <5> QED BY <1>1, <3>1, <5>1 DEF RunTypes, ThSet
      <4> QED BY <4>1, <4>2, <4>3
    <3>7. ~(ReadReceipt /\ t = "reconciler")
      <4> SUFFICES ASSUME ReadReceipt, t = "reconciler" PROVE FALSE OBVIOUS
      <4>1. PICK a, b : th' = [th EXCEPT ![t] = [pc |-> "takeover", from |-> "verifying", outcome |-> a, verdict |-> b]]
        BY DEF ReadReceipt
      <4>2. PICK y : y = [pc |-> "takeover", from |-> "verifying", outcome |-> a, verdict |-> b] OBVIOUS
      <4>3. y.pc = "takeover" BY <4>2
      <4>4. th'[t] = y BY <3>1, <4>1, <4>2
      <4> QED BY <4>3, <4>4
    <3> QED BY <1>4, <3>3, <3>4, <3>5, <3>6, <3>7 DEF SettledStep
  <2>3. th[t].pc = "review" /\ obs[t].pc = "ok"
    <3>1. Rests(t) => th'[t].pc = "idle" BY <1>1 DEF Rests, Resting, RunTypes
    <3> QED BY <2>2, <3>1 DEF EndReview, ReviewDone
  <2>4. Matches BY <1>2, <2>1, <2>3 DEF SuccessInv, Counts, Seen
  <2> QED BY <1>1, <1>2, <2>1, <2>4, MatchesStays
<1>5. CASE Observe(t)
  <2>1. th' = th BY <1>5 DEF Observe, runVars
  <2> QED BY <1>3, <2>1
<1> QED BY <1>1, <1>3, <1>4, <1>5, OwnStep

\* No verifier starts once the run has succeeded.
LEMMA NoGroupAfter ==
    ASSUME VerifierInv, [Next]_vars, state = "succeeded", group = {}
    PROVE  group' = {}
<1>1. call.pc # "start" BY DEF VerifierInv, NotStarted, Starting
<1>2. CASE Group
  BY <1>2 DEF Group, GroupStep, ForkVerifier, ForkDescendant, VerifierExits, SupervisorExits, ReaperKills, AlarmKills, Die
<1>3. CASE Call
  BY <1>1, <1>3 DEF Call, CallStep, Prepare, CreateOutput, StartSupervisor, WaitReturns, ObserveGroup, SignalGroup,
     ReapSupervisor, AwaitGone, WriteTemp, RenameMarker, groupVars
<1>4. CASE group' = group BY <1>4
<1> QED
  BY <1>2, <1>3, <1>4
  DEF Next, Stage, StartAgent, AgentSettles, MonitorSettles, ReadReceipt, ReconcileRun, EndReview, ClaimOrFinish,
      VerifierReturned, VerifierRefused, Conclude, RemoveArtifacts, Observe, Crash, Restart, Tick, AgentWrites,
      LeftoverWrites, GroupWrites, SourceChanges, verifierVars, groupVars, vars

\* Every step keeps what the threads know of the worktree.
LEMMA SuccessKept ==
    SuccessInv /\ StagingInv /\ StagingInv' /\ Down /\ VerifierInv /\ VerifierInv' /\ [Next]_vars => SuccessInv'
<1> SUFFICES ASSUME SuccessInv, StagingInv, StagingInv', Down, VerifierInv, VerifierInv', [Next]_vars
             PROVE  SuccessInv'
  OBVIOUS
<1>1. \A t \in Threads : Counts(t)' /\ ~late' => Seen(obs[t])' BY SeenKept
<1>2. \A t \in Threads : th'[t].pc = "settled" /\ state' \in {"running", "settled"} /\ ~late' => Matches'
  BY AcceptedKept
<1>3. ReviewTypes /\ Places BY DEF StagingInv
<1>4. ASSUME state' = "succeeded" PROVE group' = {} /\ (~late' => Matches')
  <2>1. CASE state = "succeeded"
    <3>1. group = {} /\ group' = {} BY <2>1, NoGroupAfter DEF SuccessInv
    <3>2. agent = "settled" BY <1>3, <2>1 DEF Places
    <3>3. ~late' => Quiet /\ ~late BY <3>1, <3>2, NobodyWrites
    <3>4. ~late => Matches BY <2>1 DEF SuccessInv
    <3> QED BY <1>3, <3>1, <3>3, <3>4, MatchesStays
  <2>2. CASE state # "succeeded"
    <3>1. agent = "settled"
      <4>1. ASSUME StartAgent PROVE FALSE
        <5>1. state = "starting" => state' # "succeeded" BY <4>1 DEF StartAgent, Finish
        <5>2. state' = state \/ state = "starting" BY <4>1 DEF StartAgent, Finish
        <5> QED BY <1>4, <2>2, <5>1, <5>2
      <4>2. agent' = "settled" BY <1>4 DEF StagingInv, Places
      <4>3. ~AgentSettles BY <1>4, <2>2 DEF AgentSettles
      <4> QED
        BY <4>1, <4>2, <4>3
        DEF Next, Stage, MonitorSettles, ReadReceipt, ReconcileRun, EndReview, ClaimOrFinish,
            VerifierReturned, VerifierRefused, Conclude, RemoveArtifacts, Observe, Group, Call, Crash, Restart, Tick,
            AgentWrites, LeftoverWrites, GroupWrites, SourceChanges, rowRest, runVars, vars
    <3>2. PICK t \in Threads :
            \/ th[t].pc = "settled" /\ state = "settled" /\ group' = group
            \/ /\ th[t].pc \in {"finish", "takeover"} /\ th[t].outcome = "succeeded"
               /\ obs[t].pc = "ok" /\ group' = group
      BY <1>4, <2>2, <3>1, StateMoves
    <3>3. CASE th[t].pc = "settled" /\ state = "settled" /\ group' = group
      <4>1. group = {} BY <3>3 DEF VerifierInv, NotStarted, Before
      <4>2. ~late' => Quiet /\ ~late BY <3>1, <4>1, NobodyWrites
      <4>3. ~late => Matches BY <3>3 DEF SuccessInv
      <4> QED BY <1>3, <3>3, <4>1, <4>2, <4>3, MatchesStays
    <3>4. CASE /\ th[t].pc \in {"finish", "takeover"} /\ th[t].outcome = "succeeded"
               /\ obs[t].pc = "ok" /\ group' = group
      <4>1. Counts(t) BY <3>4 DEF Counts
      <4>2. group = {} BY <1>3, <4>1, CountsAlone
      <4>3. ~late' => Quiet /\ ~late BY <3>1, <4>2, NobodyWrites
      <4>4. ~late => Matches BY <3>4, <4>1 DEF SuccessInv, Seen
      <4> QED BY <1>3, <3>4, <4>2, <4>3, <4>4, MatchesStays
    <3> QED BY <3>2, <3>3, <3>4
  <2> QED BY <2>1, <2>2
<1> QED BY <1>1, <1>2, <1>4 DEF SuccessInv

\* It always holds.
LEMMA SuccessAlways == Spec => []SuccessInv
<1>1. Init => SuccessInv
  BY Constants DEF Init, Resting, SuccessInv, Counts
<1>2. SuccessInv /\ StagingInv /\ StagingInv' /\ Down /\ VerifierInv /\ VerifierInv' /\ [Next]_vars => SuccessInv'
  BY SuccessKept
<1> QED BY <1>1, <1>2, VerifierAlways, StagingAlways, PTL DEF Spec

\* The boundary: a run that succeeds, verified or not, on the first attempt or
\* after a crash, has left its worktree as its receipts say, what the verifier
\* wrote included (Engine.monitor, reconcileExpiredVerifier, verifyBoundedReview).
THEOREM SuccessIsObserved == Spec => []SuccessMatchesWorktree
<1>1. SuccessInv => SuccessMatchesWorktree BY DEF SuccessInv, Matches, SuccessMatchesWorktree
<1> QED BY <1>1, SuccessAlways, PTL

-----------------------------------------------------------------------------
(* What a change receipt says of the instant between the two passes.       *)

\* The path was written since the worktree was made.
Moved(n) == tree[n].past # {Base(n)}

\* The history of a path: as long as nothing is put back, a path that was written
\* is never again as HEAD has it.  The staged inputs are written by the scheduler.
Histories ==
    \A n \in Names :
      /\ tree[n].data \in tree[n].past /\ Base(n) \in tree[n].past
      /\ ~restored /\ n \notin job.inputs /\ tree[n].data = Base(n) => ~Moved(n)

\* What each pass knows: the paths it lists have moved, and what it read of one
\* is in the path's past.
Listed(o) ==
    /\ o.pc \in {"others", "ignored", "observe", "reading"} => \A n \in o.changed \ job.inputs : Moved(n)
    /\ o.pc = "ignored" => \A n \in o.untracked \ job.inputs : Moved(n)
    /\ o.pc \in {"observe", "reading"} =>
         /\ o.changed \cap job.inputs = {} /\ o.todo \subseteq o.changed
         /\ DOMAIN o.states = o.changed \ o.todo
         /\ \A n \in DOMAIN o.states : o.states[n] \in tree[n].past

\* What the second pass knows of the instant it began at.  A path the first pass
\* has read and that is still, or was read again, as it was then, was so at that
\* instant; and a path that had changed by then is in the second listing, unless
\* the ignore file has hidden it from both halves of the listing.
Was(o, n) == n \in DOMAIN o.between /\ o.between[n] = o.first.states[n]
Compared(o) ==
    /\ \A n \in DOMAIN o.first.states : tree[n].data = o.first.states[n] => Was(o, n)
    /\ o.pc \in {"observe", "reading"} =>
         /\ \A n \in DOMAIN o.states \cap DOMAIN o.first.states : o.states[n] = o.first.states[n] => Was(o, n)
         /\ \A n \in DOMAIN o.between : n \in o.changed \/ ~Steady(n)
    /\ o.pc \in {"others", "ignored"} => \A n \in DOMAIN o.between \cap Tracked : n \in o.changed
    /\ o.pc = "ignored" =>
         \A n \in DOMAIN o.between \ Tracked :
           n \in o.untracked \/ \E c \in tree[IgnoreFile].past : n \in Ignores[c]
SecondPass(o) ==
    /\ \A n \in DOMAIN o.first.states : n \in Names \ job.inputs /\ Moved(n) /\ o.first.states[n] \in tree[n].past
    /\ o.between # None /\ \A n \in DOMAIN o.between : n \in Names \ job.inputs /\ Moved(n)
    /\ ~restored => Compared(o)

HistoryInv ==
    /\ Histories
    /\ \A t \in Threads :
         /\ Listed(obs[t])
         /\ obs[t].first # None => SecondPass(obs[t])
         /\ obs[t].pc \in Staging => obs[t].first = None

\* Every step lets a history grow by what is written, and what is written back is
\* remembered as that.
Grows ==
    /\ job' = job /\ (restored => restored')
    /\ \A n \in Names :
         \/ tree'[n] = tree[n]
         \/ /\ tree'[n].past = tree[n].past \cup {tree'[n].data}
            /\ n \in job.inputs \/ tree'[n].data \notin tree[n].past \/ restored'

\* So a history stays one, what has moved has moved, and what was unsteady is.
LEMMA HistoryGrows ==
    ASSUME Histories, Grows
    PROVE  /\ Histories'
           /\ \A n \in Names : /\ tree[n].past \subseteq tree'[n].past
                               /\ Moved(n) => Moved(n)'
                               /\ ~Steady(n) => ~Steady(n)'
<1>1. \A n \in Names : tree[n].past \subseteq tree'[n].past BY DEF Grows
<1>2. \A n \in Names : Moved(n) => Moved(n)'
  BY <1>1 DEF Moved, Histories
<1>3. \A n \in Names : ~Steady(n) => ~Steady(n)'
  <2>1. IgnoreFile \in Names BY ReviewAssumption DEF Names
  <2>2. tree[IgnoreFile].past \subseteq tree'[IgnoreFile].past BY <1>1, <2>1
  <2> QED BY <2>2 DEF Steady
<1>4. ASSUME NEW n \in Names
      PROVE  /\ tree'[n].data \in tree'[n].past /\ Base(n) \in tree'[n].past
             /\ ~restored' /\ n \notin job.inputs /\ tree'[n].data = Base(n) => tree'[n].past = {Base(n)}
  <2>1. CASE tree'[n] = tree[n] BY <2>1 DEF Histories, Grows, Moved
  <2>2. CASE /\ tree'[n].past = tree[n].past \cup {tree'[n].data}
             /\ n \in job.inputs \/ tree'[n].data \notin tree[n].past \/ restored'
    BY <2>2 DEF Histories
  <2> QED BY <2>1, <2>2 DEF Grows
<1>5. Histories' BY <1>4 DEF Histories, Moved, Grows
<1> QED BY <1>1, <1>2, <1>3, <1>5

\* What an observation knows stays true while others write.
LEMMA KnownStays ==
    ASSUME ReviewTypes, Histories, Grows, NEW t \in Threads, obs'[t] = obs[t],
           Listed(obs[t]), obs[t].first # None => SecondPass(obs[t])
    PROVE  Listed(obs[t])' /\ (obs'[t].first # None => SecondPass(obs[t])')
<1>1. job' = job BY DEF Grows
<1>2. \A n \in Names : /\ tree[n].past \subseteq tree'[n].past
                       /\ Moved(n) => Moved(n)'
                       /\ ~Steady(n) => ~Steady(n)'
  BY HistoryGrows
<1>3. obs[t].changed \in SUBSET Names /\ obs[t].untracked \in SUBSET Names BY DEF ReviewTypes, ObsSet
<1>4. Listed(obs[t])'
  <2>1. obs[t].pc \in {"others", "ignored", "observe", "reading"} => \A n \in obs[t].changed \ job.inputs : Moved(n)'
    BY <1>2, <1>3 DEF Listed
  <2>2. obs[t].pc = "ignored" => \A n \in obs[t].untracked \ job.inputs : Moved(n)' BY <1>2, <1>3 DEF Listed
  <2>3. obs[t].pc \in {"observe", "reading"} =>
          /\ obs[t].changed \cap job.inputs = {} /\ obs[t].todo \subseteq obs[t].changed
          /\ DOMAIN obs[t].states = obs[t].changed \ obs[t].todo
          /\ \A n \in DOMAIN obs[t].states : obs[t].states[n] \in tree'[n].past
    BY <1>2, <1>3 DEF Listed
  <2> QED BY <1>1, <2>1, <2>2, <2>3 DEF Listed
<1>5. ASSUME obs[t].first # None PROVE SecondPass(obs[t])'
  <2>1. SecondPass(obs[t]) BY <1>5
  <2>2. \A n \in DOMAIN obs[t].first.states :
          n \in Names \ job.inputs /\ Moved(n)' /\ obs[t].first.states[n] \in tree'[n].past
    BY <1>2, <2>1 DEF SecondPass
  <2>3. obs[t].between # None /\ \A n \in DOMAIN obs[t].between : n \in Names \ job.inputs /\ Moved(n)'
    BY <1>2, <2>1 DEF SecondPass
  <2>4. ASSUME ~restored' PROVE Compared(obs[t])'
    <3>1. ~restored /\ Compared(obs[t]) BY <2>1, <2>4 DEF SecondPass, Grows
    <3>2. \A n \in DOMAIN obs[t].first.states : tree'[n].data = obs[t].first.states[n] => Was(obs[t], n)
      BY <2>1, <2>4, <3>1 DEF SecondPass, Compared, Grows
    <3>3. obs[t].pc \in {"observe", "reading"} =>
            /\ \A n \in DOMAIN obs[t].states \cap DOMAIN obs[t].first.states :
                 obs[t].states[n] = obs[t].first.states[n] => Was(obs[t], n)
            /\ \A n \in DOMAIN obs[t].between : n \in obs[t].changed \/ ~Steady(n)'
      BY <1>2, <2>3, <3>1 DEF Compared
    <3>4. obs[t].pc \in {"others", "ignored"} => \A n \in DOMAIN obs[t].between \cap Tracked : n \in obs[t].changed
      BY <3>1 DEF Compared
    <3>5. obs[t].pc = "ignored" =>
            \A n \in DOMAIN obs[t].between \ Tracked :
              n \in obs[t].untracked \/ \E c \in tree'[IgnoreFile].past : n \in Ignores[c]
      <4>1. IgnoreFile \in Names BY ReviewAssumption DEF Names
      <4>2. tree[IgnoreFile].past \subseteq tree'[IgnoreFile].past BY <1>2, <4>1
      <4> QED BY <3>1, <4>2 DEF Compared
    <3> HIDE DEF Steady
    <3> QED BY <3>2, <3>3, <3>4, <3>5 DEF Compared, Was
  <2> QED BY <1>1, <2>2, <2>3, <2>4 DEF SecondPass
<1> QED BY <1>4, <1>5

\* What a step of the observation itself comes to know is true at once.
LEMMA KnownMoves ==
    ASSUME NEW t \in Threads, NEW x, Listed(x), x.first # None => SecondPass(x),
           obs'[t] = x, UNCHANGED <<job, tree, restored>>
    PROVE  Listed(obs[t])' /\ (obs'[t].first # None => SecondPass(obs[t])')
<1>1. \A n : Moved(n)' = Moved(n) BY DEF Moved
<1>2. \A n : Steady(n)' = Steady(n) BY DEF Steady
<1>3. Listed(x)' BY <1>1 DEF Listed
<1>4. Compared(x) => Compared(x)' BY <1>2 DEF Compared, Was
<1>5. SecondPass(x) => SecondPass(x)' BY <1>1, <1>4 DEF SecondPass
<1> QED BY <1>3, <1>5 DEF Listed, SecondPass, Compared, Was

\* Who has listed nothing knows nothing, and need not.
LEMMA FreshKnows ==
    ASSUME NEW t \in Threads, Fresh(obs'[t])
    PROVE  Listed(obs[t])' /\ (obs'[t].first # None => SecondPass(obs[t])')
  BY DEF Fresh, Listed

\* An observation that ends, or a review that begins, is of that kind.
LEMMA EndIsFresh ==
    ASSUME ReviewTypes, NEW t \in Threads, Fails(t) \/ Passes(t) \/ Review(t) \/ DropReview(t)
    PROVE  Fresh(obs'[t])
<1>1. \A x : Goto(t, x) => obs'[t] = x BY DEF Goto, ReviewTypes
<1>2. CASE Fails(t) \/ Passes(t) BY <1>1, <1>2 DEF Fails, Passes, Idle, Fresh
<1>3. CASE DropReview(t) BY <1>3 DEF DropReview, ReviewTypes, Idle, Fresh
<1>4. CASE Goto(t, [Idle EXCEPT !.pc = ProveOrDiff(Excluded), !.todo = Excluded])
  <2>1. PICK p : p = ProveOrDiff(Excluded) OBVIOUS
  <2>2. p \in {"prove", "diff"} BY <2>1 DEF ProveOrDiff
  <2>3. PICK x : x = [Idle EXCEPT !.pc = p, !.todo = Excluded] OBVIOUS
  <2>4. x.pc = p /\ x.first = None BY <2>3 DEF Idle
  <2>5. obs'[t] = x BY <1>1, <1>4, <2>1, <2>3
  <2> QED BY <2>2, <2>4, <2>5 DEF Fresh
<1> QED BY <1>2, <1>3, <1>4 DEF Review, BeginReview

\* Once the agent was started what a review leaves out are the staged inputs.
LEMMA ExcludedIs == ASSUME StagedSoFar, agent # "waiting" PROVE Excluded = job.inputs
  BY DEF StagedSoFar, Excluded

\* A listing lists what has moved, and the second one whatever had moved before.
LEMMA ListingKnows ==
    ASSUME ReviewTypes, StagedSoFar, agent # "waiting", Histories, NEW t \in Threads,
           Listed(obs[t]), obs[t].first # None => SecondPass(obs[t]),
           OpenInput(t) \/ ProveInput(t) \/ GitFails(t) \/ DiffTracked(t) \/ ListOthers(t) \/ ListIgnored(t)
    PROVE  Listed(obs[t])' /\ (obs'[t].first # None => SecondPass(obs[t])')
<1>1. \A x : Goto(t, x) => obs'[t] = x BY DEF Goto, ReviewTypes
<1>2. UNCHANGED <<job, tree, restored>>
  BY DEF OpenInput, ProveInput, GitFails, DiffTracked, ListOthers, ListIgnored, Looks
<1>3. Fails(t) \/ Passes(t) => Listed(obs[t])' /\ (obs'[t].first # None => SecondPass(obs[t])')
  BY EndIsFresh, FreshKnows
<1>4. obs[t] \in ObsSet BY DEF ReviewTypes
<1>5. \A n \in Names : tree[n].data # Base(n) => Moved(n) BY DEF Histories, Moved
<1>6. ~restored => \A n \in Names \ job.inputs : Moved(n) => tree[n].data # Base(n) BY DEF Histories
<1>7. ASSUME NEW p \in {"prove", "proving", "diff"}, NEW S, NEW stamp, NEW x,
             x = [obs[t] EXCEPT !.pc = p, !.todo = S, !.stamp = stamp], obs'[t] = x
      PROVE  Listed(obs[t])' /\ (obs'[t].first # None => SecondPass(obs[t])')
  <2>1. x.pc = p /\ x.first = obs[t].first /\ x.between = obs[t].between BY <1>4, <1>7 DEF ObsSet
  <2>2. Listed(x) BY <2>1 DEF Listed
  <2>3. x.first # None => SecondPass(x) BY <2>1 DEF SecondPass, Compared, Was
  <2> QED BY <1>2, <1>7, <2>2, <2>3, KnownMoves
<1>8. CASE OpenInput(t)
  <2>1. PICK stamp : Fails(t) \/ Goto(t, [obs[t] EXCEPT !.pc = "proving", !.stamp = stamp])
    BY <1>8 DEF OpenInput
  <2>2. PICK x : x = [obs[t] EXCEPT !.pc = "proving", !.stamp = stamp] OBVIOUS
  <2>3. PICK S : S = obs[t].todo OBVIOUS
  <2>4. x = [obs[t] EXCEPT !.pc = "proving", !.todo = S, !.stamp = stamp] BY <1>4, <2>2, <2>3 DEF ObsSet
  <2>5. Fails(t) \/ obs'[t] = x BY <1>1, <2>1, <2>2
  <2> QED BY <1>3, <1>7, <2>4, <2>5
<1>9. CASE ProveInput(t)
  <2>1. PICK S : S = obs[t].todo \ {First(obs[t].todo)} OBVIOUS
  <2>2. PICK p : p = ProveOrDiff(S) OBVIOUS
  <2>3. p \in {"prove", "diff"} BY <2>2 DEF ProveOrDiff
  <2>4. PICK x : x = [obs[t] EXCEPT !.pc = p, !.todo = S] OBVIOUS
  <2>5. PICK stamp : stamp = obs[t].stamp OBVIOUS
  <2>6. x = [obs[t] EXCEPT !.pc = p, !.todo = S, !.stamp = stamp] BY <1>4, <2>4, <2>5 DEF ObsSet
  <2>7. Fails(t) \/ obs'[t] = x BY <1>1, <1>9, <2>1, <2>2, <2>4 DEF ProveInput
  <2> QED BY <1>3, <1>7, <2>3, <2>6, <2>7
<1>10. CASE DiffTracked(t)
  <2>1. PICK c : c = {n \in Tracked : tree[n].data # Original} OBVIOUS
  <2>2. PICK x : x = [obs[t] EXCEPT !.pc = "others", !.changed = c] OBVIOUS
  <2>3. /\ x.pc = "others" /\ x.changed = c /\ x.first = obs[t].first /\ x.between = obs[t].between
    BY <1>4, <2>2 DEF ObsSet
  <2>4. \A n \in Tracked : n \in Names /\ Base(n) = Original BY DEF Names, Base
  <2>5. Listed(x) BY <1>5, <2>1, <2>3, <2>4 DEF Listed
  <2>6. x.first # None => SecondPass(x)
    BY <1>6, <2>1, <2>3, <2>4 DEF SecondPass, Compared, Was
  <2>7. obs'[t] = x BY <1>1, <1>10, <2>1, <2>2 DEF DiffTracked
  <2> QED BY <1>2, <2>5, <2>6, <2>7, KnownMoves
<1>11. CASE ListOthers(t)
  <2>1. PICK u : u = {n \in Names \ Tracked : Present(n) /\ ~IgnoredNow(n)} OBVIOUS
  <2>2. PICK x : x = [obs[t] EXCEPT !.pc = "ignored", !.untracked = u] OBVIOUS
  <2>3. /\ x.pc = "ignored" /\ x.untracked = u /\ x.changed = obs[t].changed
        /\ x.first = obs[t].first /\ x.between = obs[t].between
        /\ obs[t].pc = "others"
    BY <1>4, <1>11, <2>2 DEF ObsSet, ListOthers, At
  <2>4. \A n \in Names \ Tracked : Base(n) = Absent BY DEF Base
  <2>5. Listed(x) BY <1>5, <2>1, <2>3, <2>4 DEF Listed, Present
  <2>6. tree[IgnoreFile].data \in tree[IgnoreFile].past BY ReviewAssumption DEF Histories, Names
  <2>7. ASSUME x.first # None PROVE SecondPass(x)
    <3>1. SecondPass(obs[t]) BY <2>3, <2>7
    <3>2. ASSUME ~restored PROVE Compared(x)
      <4>1. Compared(obs[t]) BY <3>1, <3>2 DEF SecondPass
      <4>2. \A n \in DOMAIN x.between \ Tracked :
              n \in x.untracked \/ \E c \in tree[IgnoreFile].past : n \in Ignores[c]
        BY <1>6, <2>1, <2>3, <2>4, <2>6, <3>1, <3>2 DEF SecondPass, Present, IgnoredNow
      <4> QED BY <2>3, <4>1, <4>2 DEF Compared, Was
    <3> QED BY <2>3, <3>1, <3>2 DEF SecondPass
  <2>8. obs'[t] = x BY <1>1, <1>11, <2>1, <2>2 DEF ListOthers
  <2> QED BY <1>2, <2>5, <2>7, <2>8, KnownMoves
<1>12. CASE ListIgnored(t)
  <2>1. PICK u : u = obs[t].untracked \cup {n \in Names \ Tracked : Present(n) /\ IgnoredNow(n)} OBVIOUS
  <2>2. PICK c : c = (obs[t].changed \cup u) \ Excluded OBVIOUS
  <2>3. PICK e : e = [n \in {} |-> Absent] OBVIOUS
  <2>4. PICK x : x = [obs[t] EXCEPT !.pc = "observe", !.changed = c, !.untracked = u, !.todo = c, !.states = e] OBVIOUS
  <2>5. /\ x.pc = "observe" /\ x.changed = c /\ x.todo = c /\ x.states = e
        /\ x.first = obs[t].first /\ x.between = obs[t].between
        /\ obs[t].pc = "ignored"
    BY <1>4, <1>12, <2>4 DEF ObsSet, ListIgnored, At
  <2>6. DOMAIN e = {} BY <2>3, NoPaths
  <2>7. \A n \in Names \ Tracked : Base(n) = Absent BY DEF Base
  <2>8. c \cap job.inputs = {} BY <2>2, ExcludedIs
  <2>9. \A n \in c : Moved(n)
    BY <1>5, <2>1, <2>2, <2>5, <2>7, <2>8 DEF Listed, Present
  <2>10. Listed(x) BY <2>5, <2>6, <2>8, <2>9 DEF Listed
  <2>11. tree[IgnoreFile].data \in tree[IgnoreFile].past BY ReviewAssumption DEF Histories, Names
  <2>12. ASSUME x.first # None PROVE SecondPass(x)
    <3>1. SecondPass(obs[t]) BY <2>5, <2>12
    <3>2. ASSUME ~restored PROVE Compared(x)
      <4>1. Compared(obs[t]) BY <3>1, <3>2 DEF SecondPass
      <4>2. ASSUME NEW n \in DOMAIN x.between PROVE n \in x.changed \/ ~Steady(n)
        <5>1. n \in Names \ job.inputs /\ Moved(n) BY <2>5, <3>1 DEF SecondPass
        <5>2. CASE n \in Tracked
          BY <2>2, <2>5, <4>1, <5>1, <5>2, ExcludedIs DEF Compared
        <5>3. CASE n \notin Tracked
          <6>1. Present(n) BY <1>6, <2>7, <3>2, <5>1, <5>3 DEF Present
          <6>2. n \in u \/ (~IgnoredNow(n) /\ \E d \in tree[IgnoreFile].past : n \in Ignores[d])
            BY <2>1, <2>5, <4>1, <5>1, <5>3, <6>1 DEF Compared
          <6>3. n \in u => n \in c BY <2>2, <5>1, ExcludedIs
          <6> QED BY <2>5, <2>11, <5>3, <6>2, <6>3 DEF Steady, IgnoredNow
        <5> QED BY <5>2, <5>3
      <4>3. DOMAIN x.states = {} BY <2>5, <2>6
      <4> HIDE DEF Steady
      <4> QED BY <2>5, <4>1, <4>2, <4>3 DEF Compared, Was
    <3> QED BY <2>5, <3>1, <3>2 DEF SecondPass
  <2>13. Fails(t) \/ Passes(t) \/ obs'[t] = x
    BY <1>1, <1>12, <2>1, <2>2, <2>3, <2>4 DEF ListIgnored
  <2> QED BY <1>2, <1>3, <2>10, <2>12, <2>13, KnownMoves
<1> QED BY <1>3, <1>8, <1>9, <1>10, <1>11, <1>12 DEF GitFails

\* The observation of the paths reads what is in their past, and what the second
\* pass reads again as the first did was so between the two.
LEMMA ObservingKnows ==
    ASSUME ReviewTypes, StagedSoFar, agent # "waiting", Histories, NEW t \in Threads,
           Listed(obs[t]), obs[t].first # None => SecondPass(obs[t]), NEW open \in BOOLEAN,
           OpenPath(t) \/ ReadPath(t) \/ BeginSecondPass(t) \/ SaveChanges(t, open)
    PROVE  Listed(obs[t])' /\ (obs'[t].first # None => SecondPass(obs[t])')
<1>1. \A x : Goto(t, x) => obs'[t] = x BY DEF Goto, ReviewTypes
<1>2. UNCHANGED <<job, tree, restored>>
  BY DEF OpenPath, ReadPath, BeginSecondPass, SaveChanges, Looks
<1>3. Fails(t) \/ Passes(t) => Listed(obs[t])' /\ (obs'[t].first # None => SecondPass(obs[t])')
  BY EndIsFresh, FreshKnows
<1>4. obs[t] \in ObsSet /\ obs[t].states \in Receipts /\ obs[t].changed \in SUBSET Names
  BY DEF ReviewTypes, ObsSet
<1>5. obs[t].pc \in {"observe", "reading"}
  BY DEF OpenPath, ReadPath, BeginSecondPass, SaveChanges, At
<1>6. /\ obs[t].changed \cap job.inputs = {} /\ obs[t].todo \subseteq obs[t].changed
      /\ DOMAIN obs[t].states = obs[t].changed \ obs[t].todo
      /\ \A n \in DOMAIN obs[t].states : obs[t].states[n] \in tree[n].past
      /\ \A n \in obs[t].changed \ job.inputs : Moved(n)
  BY <1>5 DEF Listed
<1>7. PICK n : n = First(obs[t].todo) OBVIOUS
<1>8. obs[t].todo # {} => n \in obs[t].todo /\ n \in Names
  <2>1. obs[t].todo \in SUBSET Names BY <1>4 DEF ObsSet
  <2> QED BY <1>7, <2>1, FirstIn
<1>9. \A m \in Names : tree[m].data \in Held /\ tree[m].data \in tree[m].past
  BY DEF ReviewTypes, Files, Histories
<1>10. ASSUME obs[t].todo # {},
              Goto(t, [obs[t] EXCEPT !.pc = "observe", !.todo = @ \ {n}, !.states = With(@, n, tree[n].data)])
       PROVE  Listed(obs[t])' /\ (obs'[t].first # None => SecondPass(obs[t])')
  <2>1. PICK f : f = With(obs[t].states, n, tree[n].data) OBVIOUS
  <2>2. /\ DOMAIN f = DOMAIN obs[t].states \cup {n} /\ f[n] = tree[n].data
        /\ \A m \in DOMAIN obs[t].states : m # n => f[m] = obs[t].states[m]
    <3>1. tree[n].data \in Held /\ n \in Names BY <1>8, <1>9, <1>10
    <3>2. PICK g : g = obs[t].states OBVIOUS
    <3>3. PICK d : d = tree[n].data OBVIOUS
    <3>4. g \in Receipts BY <1>4, <3>2 DEF ObsSet
    <3>5. d \in Held BY <3>1, <3>3
    <3>6. f = With(g, n, d) BY <2>1, <3>2, <3>3
    <3>7. /\ DOMAIN f = DOMAIN g \cup {n} /\ f[n] = d
          /\ \A m \in DOMAIN g : m # n => f[m] = g[m]
      BY <3>1, <3>4, <3>5, <3>6, WithPath, Zenon
    <3> QED BY <3>2, <3>3, <3>7
  <2>3. PICK x : x = [obs[t] EXCEPT !.pc = "observe", !.todo = @ \ {n}, !.states = f] OBVIOUS
  <2>4. /\ x.pc = "observe" /\ x.todo = obs[t].todo \ {n} /\ x.changed = obs[t].changed
        /\ x.states = f /\ x.first = obs[t].first /\ x.between = obs[t].between
    BY <1>4, <2>3 DEF ObsSet
  <2>5. DOMAIN x.states = x.changed \ x.todo /\ x.todo \subseteq x.changed
    BY <1>6, <1>8, <1>10, <2>2, <2>4
  <2>6. \A m \in DOMAIN x.states : x.states[m] \in tree[m].past BY <1>6, <1>8, <1>9, <1>10, <2>2, <2>4
  <2>7. Listed(x) BY <1>6, <2>4, <2>5, <2>6 DEF Listed
  <2>8. ASSUME x.first # None PROVE SecondPass(x)
    <3>1. SecondPass(obs[t]) BY <2>4, <2>8
    <3>2. ASSUME ~restored PROVE Compared(x)
      <4>1. Compared(obs[t]) BY <3>1, <3>2 DEF SecondPass
      <4>2. \A m \in DOMAIN x.states \cap DOMAIN x.first.states :
              x.states[m] = x.first.states[m] => Was(x, m)
        BY <1>5, <2>2, <2>4, <4>1 DEF Compared, Was
      <4> HIDE DEF Steady
      <4> QED BY <1>5, <2>4, <4>1, <4>2 DEF Compared, Was
    <3> QED BY <2>4, <3>1, <3>2 DEF SecondPass
  <2>9. obs'[t] = x BY <1>1, <1>10, <2>1, <2>3
  <2> QED BY <1>2, <2>7, <2>8, <2>9, KnownMoves
<1>11. CASE OpenPath(t)
  <2>1. obs[t].pc = "observe" /\ obs[t].todo # {} BY <1>11 DEF OpenPath, At
  <2>2. CASE tree[n].data = Absent
    <3>1. Goto(t, [obs[t] EXCEPT !.todo = @ \ {n}, !.states = With(@, n, tree[n].data)])
      BY <1>7, <1>11, <2>2 DEF OpenPath, Deleted
    <3>2. \A S, f : [obs[t] EXCEPT !.todo = S, !.states = f] = [obs[t] EXCEPT !.pc = "observe", !.todo = S, !.states = f]
      BY <1>4, <2>1 DEF ObsSet
    <3>3. Goto(t, [obs[t] EXCEPT !.pc = "observe", !.todo = @ \ {n}, !.states = With(@, n, tree[n].data)])
      BY <3>1, <3>2
    <3> QED BY <1>10, <2>1, <3>3
  <2>3. CASE tree[n].data # Absent
    <3>1. PICK stamp : Fails(t) \/ Goto(t, [obs[t] EXCEPT !.pc = "reading", !.stamp = stamp])
      BY <1>7, <1>11, <2>3 DEF OpenPath, Deleted
    <3>2. PICK x : x = [obs[t] EXCEPT !.pc = "reading", !.stamp = stamp] OBVIOUS
    <3>3. /\ x.pc = "reading" /\ x.todo = obs[t].todo /\ x.changed = obs[t].changed /\ x.states = obs[t].states
          /\ x.first = obs[t].first /\ x.between = obs[t].between
      BY <1>4, <3>2 DEF ObsSet
    <3>4. Listed(x) BY <1>6, <3>3 DEF Listed
    <3>5. x.first # None => SecondPass(x)
      <4>1. Compared(obs[t]) => Compared(x)
        <5> HIDE DEF Steady
        <5> QED BY <2>1, <3>3 DEF Compared, Was
      <4> QED BY <3>3, <4>1 DEF SecondPass
    <3>6. Fails(t) \/ obs'[t] = x BY <1>1, <3>1, <3>2
    <3> QED BY <1>2, <1>3, <3>4, <3>5, <3>6, KnownMoves
  <2> QED BY <2>2, <2>3
<1>12. CASE ReadPath(t)
  <2>1. obs[t].todo # {} BY <1>12 DEF ReadPath, At, ReviewTypes
  <2>2. \/ Fails(t)
        \/ Goto(t, [obs[t] EXCEPT !.pc = "observe", !.todo = @ \ {n}, !.states = With(obs[t].states, n, tree[n].data)])
    BY <1>7, <1>12 DEF ReadPath, SameStatIdentity
  <2> QED BY <1>3, <1>10, <2>1, <2>2
<1>13. CASE BeginSecondPass(t)
  <2>1. PICK f : f = [listing |-> [changed |-> obs[t].changed, untracked |-> obs[t].untracked],
                      states |-> obs[t].states]
    OBVIOUS
  <2>2. f.states = obs[t].states BY <2>1
  <2>3. PICK b : b = Changes(tree, Excluded) OBVIOUS
  <2>4. b # None /\ DOMAIN b = Changed /\ \A m \in Changed : b[m] = tree[m].data
    BY <2>3, ChangesTyped, NoPaths
  <2>5. PICK x : x = [Idle EXCEPT !.pc = "diff", !.first = f, !.between = b] OBVIOUS
  <2>6. x.pc = "diff" /\ x.first = f /\ x.between = b BY <2>5 DEF Idle
  <2>7. Listed(x) BY <2>6 DEF Listed
  <2>8. obs[t].todo = {} BY <1>13 DEF BeginSecondPass
  <2>9. Changed = {m \in Names \ job.inputs : tree[m].data # Base(m)} BY ExcludedIs DEF Changed
  <2>10. \A m \in Changed : m \in Names \ job.inputs /\ Moved(m) BY <1>9, <2>9 DEF Moved
  <2>11. \A m \in DOMAIN f.states : m \in Names \ job.inputs /\ Moved(m) /\ f.states[m] \in tree[m].past
    BY <1>4, <1>6, <2>2, <2>8
  <2>12. ~restored => \A m \in DOMAIN f.states : tree[m].data = f.states[m] => Was(x, m)
    BY <2>4, <2>6, <2>9, <2>11 DEF Was, Histories
  <2>13. SecondPass(x)
    <3>1. ~restored => Compared(x) BY <2>6, <2>12 DEF Compared
    <3> HIDE DEF Changed
    <3> QED BY <2>4, <2>6, <2>10, <2>11, <3>1 DEF SecondPass
  <2>14. obs'[t] = x BY <1>1, <1>13, <2>1, <2>3, <2>5 DEF BeginSecondPass
  <2> QED BY <1>2, <2>7, <2>13, <2>14, KnownMoves
<1> QED BY <1>3, <1>11, <1>12, <1>13 DEF SaveChanges

\* Every step grows the histories of the worktree.
LEMMA StepGrows == ASSUME StagingInv, Histories, [Next]_vars PROVE Grows
<1>1. ReviewTypes /\ Places BY DEF StagingInv
<1>2. ASSUME UNCHANGED <<job, tree, restored>> PROVE Grows BY <1>2 DEF Grows
<1>3. ASSUME NEW n \in Names, NEW d, WriteTree(n, d) PROVE Grows
  <2>1. /\ tree' = [tree EXCEPT ![n] = Written(@, d)] /\ job' = job
        /\ restored' = (restored \/ d \in tree[n].past)
    BY <1>3 DEF WriteTree
  <2>2. tree'[n] = Written(tree[n], d) /\ \A m \in Names : m # n => tree'[m] = tree[m]
    BY <1>1, <2>1 DEF ReviewTypes
  <2>3. tree'[n].data = d /\ tree'[n].past = tree[n].past \cup {d} BY <2>2 DEF Written
  <2> QED BY <2>1, <2>2, <2>3 DEF Grows
<1>4. ASSUME NEW t \in Threads, Observe(t) PROVE Grows
  <2>1. ReviewStep(t, Open) BY <1>4 DEF Observe
  <2>2. CASE OpenSource(t) \/ CopySource(t)
    <3>1. obs[t].pc \in {"open", "copy"} /\ obs[t].todo # {} BY <1>1, <2>2 DEF OpenSource, CopySource, At, ReviewTypes
    <3>2. First(obs[t].todo) \in job.inputs
      <4>1. obs[t].todo \in SUBSET Names BY <1>1 DEF ReviewTypes, ObsSet
      <4> QED BY <1>1, <3>1, <4>1, FirstIn DEF ReviewTypes, Staging
    <3>3. PICK i, d : i \in job.inputs /\ (tree' = tree \/ tree' = [tree EXCEPT ![i] = Written(@, d)])
      BY <2>2, <3>2 DEF OpenSource, CopySource
    <3>4. job' = job /\ restored' = restored BY <2>2 DEF OpenSource, CopySource
    <3>5. tree' = tree \/ (/\ tree'[i] = Written(tree[i], d) /\ \A m \in Names : m # i => tree'[m] = tree[m])
      BY <1>1, <3>3 DEF ReviewTypes, Names
    <3>6. Written(tree[i], d).data = d /\ Written(tree[i], d).past = tree[i].past \cup {d} BY DEF Written
    <3> QED BY <3>3, <3>4, <3>5, <3>6 DEF Grows
  <2>3. CASE ~(OpenSource(t) \/ CopySource(t))
    BY <1>2, <2>1, <2>3 DEF ReviewStep, SaveInputs, OpenInput, ProveInput, GitFails, DiffTracked,
       ListOthers, ListIgnored, OpenPath, ReadPath, BeginSecondPass, SaveChanges, Looks
  <2> QED BY <2>2, <2>3
<1>5. CASE AgentWrites \/ LeftoverWrites \/ GroupWrites
  BY <1>3, <1>5 DEF AgentWrites, LeftoverWrites, GroupWrites
<1>6. CASE SourceChanges BY <1>2, <1>6 DEF SourceChanges, WriteSource
<1>7. CASE \/ Stage \/ StartAgent \/ AgentSettles \/ MonitorSettles \/ ReadReceipt \/ Group \/ Call
           \/ Crash \/ Restart \/ Tick \/ UNCHANGED vars
  BY <1>2, <1>7 DEF Stage, StartAgent, AgentSettles, MonitorSettles, ReadReceipt, Group, Call, Crash, Restart, Tick,
     vars, reviewVars, reviewRest
<1>8. CASE \E t \in Threads : \/ ReconcileRun(t) \/ EndReview(t) \/ ClaimOrFinish(t) \/ VerifierReturned(t)
                              \/ VerifierRefused(t) \/ Conclude(t) \/ RemoveArtifacts(t)
  BY <1>2, <1>8 DEF ReconcileRun, EndReview, ClaimOrFinish, VerifierReturned, VerifierRefused, Conclude, RemoveArtifacts,
     reviewVars, reviewRest
<1> QED BY <1>4, <1>5, <1>6, <1>7, <1>8 DEF Next

\* What each thread's observation knows stays true, or is learned.
LEMMA ThreadKnows ==
    ASSUME HistoryInv, StagingInv, Down, RunTypes', [Next]_vars, NEW t \in Threads
    PROVE  /\ Listed(obs[t])' /\ (obs'[t].first # None => SecondPass(obs[t])')
           /\ obs'[t].pc \in Staging => obs'[t].first = None
<1>1. ReviewTypes /\ RunTypes /\ Places /\ StagedSoFar /\ Histories /\ Grows
  BY StepGrows DEF StagingInv, HistoryInv
<1>2. Listed(obs[t]) /\ (obs[t].first # None => SecondPass(obs[t])) BY DEF HistoryInv
<1>3. obs[t].pc \in Staging => obs[t].first = None BY DEF HistoryInv
<1>4. CASE obs'[t] = obs[t] BY <1>1, <1>2, <1>3, <1>4, KnownStays
<1>5. CASE Fresh(obs'[t]) BY <1>5, FreshKnows DEF Fresh
<1>6. CASE SettledStep(t)
  <2>1. Review(t) \/ Passes(t) \/ DropReview(t) \/ obs' = obs BY <1>1, <1>6, SettledMoves
  <2> QED BY <1>1, <1>4, <1>5, <2>1, EndIsFresh
<1>7. CASE Observe(t)
  <2>1. ReviewStep(t, Open) BY <1>7 DEF Observe
  <2>2. Open \in BOOLEAN BY DEF Open
  <2>3. \/ obs[t].pc \in Staging /\ obs'[t].pc \in Staging \cup {"ok", "failed"}
        \/ obs[t].pc \in Reviewing /\ obs'[t].pc \in Reviewing \cup {"ok", "failed"}
    BY <1>1, <2>1, <2>2, ObserverPcs
  <2>4. CASE OpenSource(t) \/ CopySource(t) \/ SaveInputs(t, Open)
    <3>1. obs[t].pc \in Staging BY <2>4 DEF OpenSource, CopySource, SaveInputs, At, Staging
    <3>2. obs[t] \in ObsSet /\ \A x : Goto(t, x) => obs'[t] = x BY <1>1 DEF ReviewTypes, Goto
    <3>3. CASE Fails(t) \/ Passes(t) BY <1>1, <1>5, <3>3, EndIsFresh
    <3>4. CASE ~Fails(t) /\ ~Passes(t)
      <4>1. obs'[t].first = obs[t].first
        BY <2>4, <3>2, <3>4 DEF OpenSource, CopySource, SaveInputs, ObsSet
      <4>2. obs'[t].pc \in {"open", "copy", "ok", "failed"} BY <2>3, <3>1 DEF Staging, Reviewing
      <4> QED BY <1>3, <1>5, <3>1, <4>1, <4>2 DEF Fresh
    <3> QED BY <3>3, <3>4
  <2>5. CASE ~(OpenSource(t) \/ CopySource(t) \/ SaveInputs(t, Open))
    <3>1. obs[t].pc \in Reviewing
      BY <2>1, <2>5 DEF ReviewStep, OpenInput, ProveInput, GitFails, DiffTracked,
         ListOthers, ListIgnored, OpenPath, ReadPath, BeginSecondPass, SaveChanges, At, Reviewing
    <3>2. agent # "waiting" BY <1>1, <3>1 DEF Places
    <3>3. Listed(obs[t])' /\ (obs'[t].first # None => SecondPass(obs[t])')
      <4>1. CASE OpenInput(t) \/ ProveInput(t) \/ GitFails(t) \/ DiffTracked(t) \/ ListOthers(t) \/ ListIgnored(t)
        BY <1>1, <1>2, <3>2, <4>1, ListingKnows
      <4>2. CASE OpenPath(t) \/ ReadPath(t) \/ BeginSecondPass(t) \/ SaveChanges(t, Open)
        BY <1>1, <1>2, <2>2, <3>2, <4>2, ObservingKnows
      <4> QED BY <2>1, <2>5, <4>1, <4>2 DEF ReviewStep
    <3>4. obs'[t].pc \notin Staging BY <2>3, <3>1 DEF Staging, Reviewing
    <3> QED BY <3>3, <3>4
  <2> QED BY <2>4, <2>5
<1> QED BY <1>1, <1>4, <1>5, <1>6, <1>7, OwnStep

\* The histories always say so.
LEMMA HistoryAlways == Spec => []HistoryInv
<1>1. Init => HistoryInv
  <2> SUFFICES ASSUME Init PROVE HistoryInv OBVIOUS
  <2>1. tree = [n \in Names |-> NewFile(Base(n))] /\ obs = [t \in Threads |-> Idle] BY DEF Init, ReviewInit
  <2>2. Histories BY <2>1 DEF Histories, NewFile, Moved
  <2>3. \A t \in Threads : obs[t] = Idle BY <2>1
  <2>4. Idle.first = None /\ Idle.pc = "idle" BY DEF Idle
  <2> QED BY <2>2, <2>3, <2>4 DEF HistoryInv, Listed, Staging
<1>2. HistoryInv /\ StagingInv /\ Down /\ VerifierInv' /\ [Next]_vars => HistoryInv'
  <2> SUFFICES ASSUME HistoryInv, StagingInv, Down, VerifierInv', [Next]_vars PROVE HistoryInv' OBVIOUS
  <2>1. Histories' BY StepGrows, HistoryGrows DEF HistoryInv
  <2>2. RunTypes' BY DEF VerifierInv
  <2> QED BY <2>1, <2>2, ThreadKnows DEF HistoryInv
<1> QED BY <1>1, <1>2, VerifierAlways, StagingAlways, PTL DEF Spec

\* The change receipt is written by the observation that has made both passes.
LEMMA ReceiptSaved ==
    ASSUME StagingInv, [Next]_vars, changeReceipt' # changeReceipt
    PROVE  \E t \in Threads : /\ obs[t].pc = "observe" /\ obs[t].todo = {} /\ obs[t].first # None
                              /\ obs[t].first.states = obs[t].states /\ changeReceipt' = obs[t].states
<1>1. CASE \E t \in Threads : Observe(t)
  <2>1. PICK t \in Threads : ReviewStep(t, Open) BY <1>1 DEF Observe
  <2>2. SaveChanges(t, Open)
    BY <2>1 DEF ReviewStep, OpenSource, CopySource, SaveInputs, OpenInput, ProveInput, GitFails, DiffTracked,
       ListOthers, ListIgnored, OpenPath, ReadPath, BeginSecondPass, Looks
  <2>3. /\ obs[t].pc = "observe" /\ obs[t].todo = {} /\ obs[t].first # None
        /\ obs[t].first.states = obs[t].states /\ changeReceipt' = obs[t].states
    BY <2>2 DEF SaveChanges, At, SameStates
  <2> QED BY <2>3
<1>2. CASE AgentWrites \/ LeftoverWrites \/ GroupWrites \/ SourceChanges
  BY <1>2 DEF AgentWrites, LeftoverWrites, GroupWrites, SourceChanges, WriteTree, WriteSource
<1>3. CASE \/ Stage \/ StartAgent \/ AgentSettles \/ MonitorSettles \/ ReadReceipt \/ Group \/ Call
           \/ Crash \/ Restart \/ Tick \/ UNCHANGED vars
  BY <1>3 DEF Stage, StartAgent, AgentSettles, MonitorSettles, ReadReceipt, Group, Call, Crash, Restart, Tick,
     vars, reviewVars, reviewRest
<1>4. CASE \E t \in Threads : \/ ReconcileRun(t) \/ EndReview(t) \/ ClaimOrFinish(t) \/ VerifierReturned(t)
                              \/ VerifierRefused(t) \/ Conclude(t) \/ RemoveArtifacts(t)
  BY <1>4 DEF ReconcileRun, EndReview, ClaimOrFinish, VerifierReturned, VerifierRefused, Conclude, RemoveArtifacts,
     reviewVars, reviewRest
<1> QED BY <1>1, <1>2, <1>3, <1>4 DEF Next

\* Two passes: whatever writes while the worktree is observed, a change receipt
\* is true of one instant between them, as long as no path is put back to an
\* earlier content, but for what the ignore file has hidden
\* (boundedObserveChanges, boundedSameStates).
THEOREM TwoPassesAgree == Spec => ReceiptIsASnapshot
<1>1. ASSUME HistoryInv, StagingInv, [Next]_vars, changeReceipt' # changeReceipt, ~restored
      PROVE  \E t \in Threads :
               LET then == obs[t].between
               IN  /\ then # None
                   /\ \A n \in DOMAIN changeReceipt' : n \in DOMAIN then /\ changeReceipt'[n] = then[n]
                   /\ \A n \in DOMAIN then \ DOMAIN changeReceipt' : ~Steady(n)
  <2>1. PICK t \in Threads : /\ obs[t].pc = "observe" /\ obs[t].todo = {} /\ obs[t].first # None
                             /\ obs[t].first.states = obs[t].states /\ changeReceipt' = obs[t].states
    BY <1>1, ReceiptSaved
  <2>2. SecondPass(obs[t]) /\ Listed(obs[t]) /\ Compared(obs[t]) BY <1>1, <2>1 DEF HistoryInv, SecondPass
  <2>3. DOMAIN obs[t].states = obs[t].changed BY <2>1, <2>2 DEF Listed
  <2>4. obs[t].between # None BY <2>2 DEF SecondPass
  <2>5. \A n \in DOMAIN obs[t].states : n \in DOMAIN obs[t].between /\ obs[t].states[n] = obs[t].between[n]
    BY <2>1, <2>2 DEF Compared, Was
  <2>6. \A n \in DOMAIN obs[t].between \ DOMAIN obs[t].states : ~Steady(n) BY <2>1, <2>2, <2>3 DEF Compared
  <2> HIDE DEF Steady
  <2> QED BY <2>1, <2>4, <2>5, <2>6
<1>2. HistoryInv /\ StagingInv /\ [Next]_vars =>
        [(changeReceipt' # changeReceipt /\ ~restored) =>
           \E t \in Threads :
             LET then == obs[t].between
             IN  /\ then # None
                 /\ \A n \in DOMAIN changeReceipt' : n \in DOMAIN then /\ changeReceipt'[n] = then[n]
                 /\ \A n \in DOMAIN then \ DOMAIN changeReceipt' : ~Steady(n)]_vars
  BY <1>1
<1> QED BY <1>2, HistoryAlways, StagingAlways, PTL DEF Spec, ReceiptIsASnapshot
=============================================================================
