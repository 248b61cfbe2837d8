------------------------------- MODULE Inbox -------------------------------
(***************************************************************************)
(* The operator's view of the runs: `show' (cmd/herdr-bots/main.go) and    *)
(* the pane (internal/pane/pane.go), which mark runs as read while the     *)
(* scheduler finishes them.  Both act on rows they read earlier: `show'    *)
(* prints a row and then marks it, the pane keeps the list of its last     *)
(* refresh and marks a row once Herdr has focused its workspace.           *)
(***************************************************************************)
EXTENDS Naturals, Sequences, SequencesExt

CONSTANTS
    Runs,       \* run ids, in the order of acceptance
    ListLimit,  \* terminal rows the pane asks for (100)
    None

ASSUME InboxAssumption == Runs \subseteq Nat /\ ListLimit \in Nat \ {0}

VARIABLES
    row,        \* state, workspace, acceptance lane and unread flag of every run
    show,       \* the run `show' has printed and not yet marked
    pane        \* is it open, the rows on display, the cursor, the runs being opened

inboxVars == <<row, show, pane>>

\* "running" stands for running and settled, "closing" for any state under a
\* workspace-close claim, "done" for the terminal states.
Phases == {"absent", "accepted", "provisioning", "starting", "running", "verifying", "closing", "done"}
Lanes == {"mandatory", "sample", "auto"}
Closed == [open |-> FALSE, rows |-> <<>>, cursor |-> 1, opening |-> {}]
Existing == {r \in Runs : row[r].state # "absent"}
Ended == {r \in Runs : row[r].state = "done"}

-----------------------------------------------------------------------------
(* What the scheduler writes.                                              *)

\* Mutant: the flag of an ended run is left as a reader has set it.
TerminalRowKeepsFlag(r, lane) == [row[r] EXCEPT !.state = "done", !.lane = lane]
\* terminalAcceptanceTx: the lane decides whether the outcome is unread.
TerminalRow(r, lane) ==
    [row[r] EXCEPT !.state = "done", !.lane = lane, !.unread = lane # "auto"]

Retire(r, lane) == row' = [row EXCEPT ![r] = TerminalRow(r, lane)]

\* Evidence makes the run unread, except the evidence that was recorded last.
RecordRunEvent(r) ==
    \/ row' = [row EXCEPT ![r].unread = TRUE]
    \/ UNCHANGED row
CloseFailed(r) == row' = [row EXCEPT ![r].state = "closing", ![r].unread = TRUE]

MarkRead(r) == row' = [row EXCEPT ![r].unread = FALSE]

-----------------------------------------------------------------------------
(* show                                                                    *)

Show(r) ==
    /\ show = None /\ r \in Existing
    /\ show' = r /\ UNCHANGED <<row, pane>>

ShowMarksRead ==
    /\ show # None /\ MarkRead(show) /\ show' = None
    /\ UNCHANGED pane

-----------------------------------------------------------------------------
(* The pane.                                                               *)

Group(r) == CASE r \notin Ended -> 3
              [] row[r].lane = "auto" -> 2 [] row[r].lane = "sample" -> 1 [] OTHER -> 0
InOrder(r, s) == Group(r) < Group(s) \/ (Group(r) = Group(s) /\ r > s)
\* ListRunsGroupedByAcceptance: ended runs by lane up to the limit, then every
\* active one, the newest first.
Listing ==
    LET ended == SetToSortSeq(Ended, InOrder)
    IN  SubSeq(ended, 1, IF Len(ended) < ListLimit THEN Len(ended) ELSE ListLimit)
          \o SetToSortSeq(Existing \ Ended, InOrder)

\* The rows on display, each with the workspace it had; none when the query fails.
Loaded == [i \in DOMAIN Listing |-> [run |-> Listing[i], workspace |-> row[Listing[i]].workspace]]
Loads == {Loaded, <<>>}

OpenPane ==
    /\ ~pane.open
    /\ \E rows \in Loads : pane' = [Closed EXCEPT !.open = TRUE, !.rows = rows]
    /\ UNCHANGED <<row, show>>

\* A list that shrank takes the cursor with it.
ClampedCursor(cursor, rows) ==
    IF cursor <= Len(rows) THEN cursor ELSE IF rows = <<>> THEN 1 ELSE Len(rows)

Refresh ==
    /\ pane.open
    /\ \E rows \in Loads :
         pane' = [pane EXCEPT !.rows = rows, !.cursor = ClampedCursor(@, rows)]
    /\ UNCHANGED <<row, show>>

MoveCursor ==
    /\ pane.open
    /\ \E c \in {pane.cursor - 1, pane.cursor + 1} :
         c \in DOMAIN pane.rows /\ pane' = [pane EXCEPT !.cursor = c]
    /\ UNCHANGED <<row, show>>

\* The workspace is focused by a command that returns later.
Enter ==
    /\ pane.open /\ pane.cursor \in DOMAIN pane.rows /\ pane.rows[pane.cursor].workspace
    /\ pane' = [pane EXCEPT !.opening = @ \cup {pane.rows[pane.cursor].run}]
    /\ UNCHANGED <<row, show>>

\* Marked and closed, or the error is shown and the pane stays.
FocusReturns(r) ==
    /\ r \in pane.opening
    /\ \/ MarkRead(r) /\ pane' = Closed
       \/ pane' = [pane EXCEPT !.opening = @ \ {r}] /\ UNCHANGED row
    /\ UNCHANGED show

Quit ==
    /\ pane.open /\ pane' = Closed
    /\ UNCHANGED <<row, show>>

Reader ==
    \/ \E r \in Runs : Show(r) \/ FocusReturns(r)
    \/ ShowMarksRead \/ OpenPane \/ Refresh \/ MoveCursor \/ Enter \/ Quit

-----------------------------------------------------------------------------
(* Properties.                                                             *)

\* An outcome that needs the operator and is not marked as unread.
OutOfInbox(r) == r \in Ended /\ row[r].lane # "auto" /\ ~row[r].unread
\* A mark of a run as read.
Marks(r) == \/ show = r /\ show' = None
            \/ r \in pane.opening /\ ~pane'.open
\* What the operator read of a run before it ended says nothing of how it
\* ended: an outcome that needs review is out of the unread inbox only through
\* a mark made after the run had ended (terminalAcceptanceTx against MarkRead).
OutcomeStaysUnread == [][\A r \in Runs : OutOfInbox(r)' /\ ~OutOfInbox(r) => r \in Ended /\ Marks(r)]_inboxVars
=============================================================================
