--------------------------- MODULE BoundedReview ---------------------------
(***************************************************************************)
(* Bounded review (internal/engine/bounded_review.go): the inputs a run is *)
(* given are copied into its worktree before the agent starts, and what    *)
(* the run changed is observed after the agent has settled, once more      *)
(* after the verifier.  Staging and observation are sequences of system    *)
(* calls; whoever else has the worktree or a source open may write between *)
(* any two of them, which is why every file is stat'd, read and stat'd     *)
(* again, and the whole observation is made twice.                         *)
(*                                                                         *)
(* A file is its content and a stamp that stands for inode, size, mtime    *)
(* and ctime: every write moves it (boundedSameStatIdentity).  Regular     *)
(* files and symlinks are observed the same way and not told apart.  The   *)
(* walk of the parent directories is part of opening a path.  Paths,       *)
(* contents and the ignore rules are small sets; `past' and `between' are  *)
(* history, which no guard reads.                                          *)
(***************************************************************************)
EXTENDS Naturals, Sequences, FiniteSetsExt

CONSTANTS
    Threads,        \* who may observe: the monitor and the reconciler
    Tracked,        \* paths in HEAD
    Untracked,      \* other paths a writer may create, the inputs aside
    Inputs,         \* destinations of staged inputs, under the reserved directory
    Sorted,         \* every path, in the order git's output is sorted into
    Reserved,       \* untracked paths under the reserved directory
    Scope,          \* the declared write paths, as the set of paths they grant
    IgnoreFile,     \* the tracked path whose content says what git ignores
    Ignores,        \* content of IgnoreFile -> ignored untracked paths
    Contents,       \* what a file may hold
    Original,       \* the content of every tracked path in HEAD
    Absent,         \* no such file
    Partial,        \* a copy that was begun and not finished
    None,           \* an empty receipt column
    Size,           \* content -> bytes
    MaxFile,        \* maxBoundedInputFileBytes, maxBoundedChangeFileBytes
    MaxTotal        \* maxBoundedInputTotalBytes, maxBoundedChangeTotalBytes

Names == Tracked \cup Untracked \cup Inputs
Held == Contents \cup {Absent, Partial}

ASSUME ReviewAssumption ==
    /\ Sorted \in Seq(Names) /\ {Sorted[i] : i \in DOMAIN Sorted} = Names
    /\ Tracked \cap (Untracked \cup Inputs) = {} /\ Untracked \cap Inputs = {}
    /\ Reserved \subseteq Untracked /\ Scope \cap (Reserved \cup Inputs) = {}
    /\ Original \in Contents /\ IgnoreFile \in Tracked
    /\ Absent \notin Contents /\ Partial \notin Contents
    /\ \A S \in SUBSET Names : None \notin [S -> Held]
    /\ Ignores \in [Contents \cup {Absent} -> SUBSET Names]
    /\ Size \in [Contents \cup {Absent, Partial} -> Nat] /\ Size[Absent] = 0
    /\ MaxFile \in Nat /\ MaxTotal \in Nat

VARIABLES
    job,            \* the declared inputs, and whether a write scope and a verifier are
    source,         \* the files outside the worktree the inputs are copied from
    tree,           \* the run's worktree
    inputReceipt,   \* runs.input_receipt: destination -> content, or None
    changeReceipt,  \* runs.change_receipt: changed path -> content, or None
    obs,            \* the local state of each thread's staging or observation
    restored        \* history: some path was put back to an earlier content

reviewVars == <<job, source, tree, inputReceipt, changeReceipt, obs, restored>>

Files == [data : Held, stamp : Nat, past : SUBSET Held]

\* A thread that observes nothing.
Idle == [pc |-> "idle", todo |-> {}, stamp |-> 0, changed |-> {}, untracked |-> {},
         states |-> [n \in {} |-> Absent], first |-> None, between |-> None]
NewFile(d) == [data |-> d, stamp |-> 0, past |-> {d}]
Written(f, d) == [data |-> d, stamp |-> f.stamp + 1, past |-> f.past \cup {d}]

\* What HEAD holds at a path.
Base(n) == IF n \in Tracked THEN Original ELSE Absent

ReviewInit ==
    /\ source \in [Inputs -> {NewFile(d) : d \in Contents \cup {Absent}}]
    /\ \A i \in Inputs \ job.inputs : source[i] = NewFile(Absent)
    /\ tree = [n \in Names |-> NewFile(Base(n))]
    /\ inputReceipt = None /\ changeReceipt = None
    /\ obs = [t \in Threads |-> Idle]
    /\ restored = FALSE

\* The first of the paths still to do, in the order of the sorted listing.
First(S) == Sorted[Min({i \in DOMAIN Sorted : Sorted[i] \in S})]
Bytes(states) == MapThenSumSet(LAMBDA n : Size[states[n]], DOMAIN states)
\* What a change receipt of this worktree would say at this instant.
Changes(tr, excluded) ==
    [n \in {m \in Names \ excluded : tr[m].data # Base(m)} |-> tr[n].data]
With(states, n, d) == [m \in DOMAIN states \cup {n} |-> IF m = n THEN d ELSE states[m]]

At(t, pc) == obs[t].pc = pc
Goto(t, o) == obs' = [obs EXCEPT ![t] = o]
Fails(t) == Goto(t, [Idle EXCEPT !.pc = "failed"])
\* A step that reads files and changes none.
Looks == UNCHANGED <<job, source, tree, inputReceipt, changeReceipt, restored>>
Passes(t) == Goto(t, [Idle EXCEPT !.pc = "ok"])

-----------------------------------------------------------------------------
(* stageBoundedInputs: one input after the other, then the receipt.        *)

BeginStaging(t) == Goto(t, [Idle EXCEPT !.pc = "open", !.todo = job.inputs])

\* Mutant: only inode and length are compared, which a rewrite in place keeps.
SameInode(f, stamp) == TRUE
\* boundedSameStatIdentity: the file has not been touched since it was opened.
SameStatIdentity(f, stamp) == f.stamp = stamp

\* openBoundedSource: there is a regular file of that name.
HasSource(i) == source[i].data # Absent

\* The source is opened and the destination, which must not exist, created.
OpenSource(t) ==
    LET o == obs[t]
        i == First(o.todo)
        refused == \/ ~HasSource(i)
                   \/ Size[source[i].data] > MaxFile
                   \/ Bytes(o.states) + Size[source[i].data] > MaxTotal
                   \/ tree[i].data # Absent
    IN  /\ At(t, "open") /\ o.todo # {}
        /\ \/ refused /\ Fails(t) /\ UNCHANGED tree
           \/ /\ ~refused
              /\ Goto(t, [o EXCEPT !.pc = "copy", !.stamp = source[i].stamp])
              /\ tree' = [tree EXCEPT ![i] = Written(@, Partial)]
        /\ UNCHANGED <<job, source, inputReceipt, changeReceipt, restored>>

\* A source that was written during the copy leaves a mixture of two contents.
CopySource(t) ==
    LET o == obs[t]
        i == First(o.todo)
        copied == IF source[i].stamp = o.stamp THEN source[i].data ELSE Partial
    IN  /\ At(t, "copy")
        /\ tree' = [tree EXCEPT ![i] = Written(@, copied)]
        /\ IF SameStatIdentity(source[i], o.stamp)
           THEN Goto(t, [o EXCEPT !.pc = "open", !.todo = @ \ {i},
                                  !.states = With(@, i, copied)])
           ELSE Fails(t)
        /\ UNCHANGED <<job, source, inputReceipt, changeReceipt, restored>>

\* setImmutableRunReceipt: the same receipt again is accepted, another one conflicts.
CanSetOnce(column, receipt, open) == open /\ column \in {None, receipt}

\* SetInputReceipt; `open' says that the run is not terminal.
SaveInputs(t, open) ==
    /\ At(t, "open") /\ obs[t].todo = {}
    /\ IF CanSetOnce(inputReceipt, obs[t].states, open)
       THEN inputReceipt' = obs[t].states /\ Passes(t)
       ELSE UNCHANGED inputReceipt /\ Fails(t)
    /\ UNCHANGED <<job, source, tree, changeReceipt, restored>>

-----------------------------------------------------------------------------
(* verifyBoundedReview.                                                    *)

Excluded == IF inputReceipt = None THEN {} ELSE DOMAIN inputReceipt

\* The staged inputs are proved one by one, then git is asked.
ProveOrDiff(todo) == IF todo = {} THEN "diff" ELSE "prove"

BeginReview(t) ==
    IF inputReceipt = None /\ ~job.scoped
    THEN Passes(t)
    ELSE Goto(t, [Idle EXCEPT !.pc = ProveOrDiff(Excluded), !.todo = Excluded])

\* verifyOneStagedInput up to the fstat of the opened descriptor.
OpenInput(t) ==
    LET o == obs[t]
        i == First(o.todo)
    IN  /\ At(t, "prove")
        /\ IF tree[i].data = Absent \/ Size[tree[i].data] # Size[inputReceipt[i]]
           THEN Fails(t)
           ELSE Goto(t, [o EXCEPT !.pc = "proving", !.stamp = tree[i].stamp])
        /\ Looks

\* The read, the second fstat and the comparison with the receipt.
ProveInput(t) ==
    LET o == obs[t]
        i == First(o.todo)
    IN  /\ At(t, "proving")
        /\ IF SameStatIdentity(tree[i], o.stamp) /\ tree[i].data = inputReceipt[i]
           THEN Goto(t, [o EXCEPT !.pc = ProveOrDiff(o.todo \ {i}), !.todo = @ \ {i}])
           ELSE Fails(t)
        /\ Looks

(* boundedRepositoryChanges: three git commands at three instants, each of *)
(* which may fail or run out of its time.                                  *)

Present(n) == tree[n].data # Absent
IgnoredNow(n) == n \in Ignores[tree[IgnoreFile].data]

GitFails(t) ==
    /\ obs[t].pc \in {"diff", "others", "ignored"} /\ Fails(t)
    /\ Looks

DiffTracked(t) ==
    /\ At(t, "diff")
    /\ Goto(t, [obs[t] EXCEPT !.pc = "others",
                              !.changed = {n \in Tracked : tree[n].data # Original}])
    /\ Looks

ListOthers(t) ==
    /\ At(t, "others")
    /\ Goto(t, [obs[t] EXCEPT !.pc = "ignored",
                    !.untracked = {n \in Names \ Tracked : Present(n) /\ ~IgnoredNow(n)}])
    /\ Looks

\* boundedSamePaths of both lists, when there is a first pass to compare with.
SameListing(o, listing) == o.first = None \/ o.first.listing = listing

\* Whatever lies under the reserved directory and was not staged is refused.
NothingPlanted(listing) == (listing.untracked \ Excluded) \cap Reserved = {}

\* boundedCheckWriteScope
InScope(listing) == listing.changed \subseteq Scope

\* boundedEnumerateChanges returns and the policies that need no content are
\* applied to what it found.
ListIgnored(t) ==
    LET o == obs[t]
        untracked == o.untracked \cup {n \in Names \ Tracked : Present(n) /\ IgnoredNow(n)}
        listing == [changed |-> (o.changed \cup untracked) \ Excluded,
                    untracked |-> untracked]
    IN  /\ At(t, "ignored")
        /\ IF ~NothingPlanted(listing) THEN Fails(t)
           ELSE IF ~job.scoped THEN Passes(t)
           ELSE IF ~InScope(listing) \/ ~SameListing(o, listing) THEN Fails(t)
           ELSE Goto(t, [o EXCEPT !.pc = "observe", !.changed = listing.changed,
                            !.untracked = untracked, !.todo = listing.changed,
                            !.states = [n \in {} |-> Absent]])
        /\ Looks

(* boundedObserveChangedPaths: a missing path is a deletion and described  *)
(* at once, any other is opened, read and stat'd again.                    *)

\* openBoundedParents and the stat of the name: one of them finds nothing.
Deleted(n) == tree[n].data = Absent

OpenPath(t) ==
    LET o == obs[t]
        n == First(o.todo)
    IN  /\ At(t, "observe") /\ o.todo # {}
        /\ IF Deleted(n)
           THEN Goto(t, [o EXCEPT !.todo = @ \ {n}, !.states = With(@, n, Absent)])
           ELSE IF Size[tree[n].data] > MaxFile THEN Fails(t)
           ELSE Goto(t, [o EXCEPT !.pc = "reading", !.stamp = tree[n].stamp])
        /\ Looks

ReadPath(t) ==
    LET o == obs[t]
        n == First(o.todo)
        read == IF tree[n].stamp = o.stamp THEN tree[n].data ELSE Partial
        states == With(o.states, n, read)
    IN  /\ At(t, "reading")
        /\ IF SameStatIdentity(tree[n], o.stamp) /\ Bytes(states) <= MaxTotal
           THEN Goto(t, [o EXCEPT !.pc = "observe", !.todo = @ \ {n}, !.states = states])
           ELSE Fails(t)
        /\ Looks

\* The first pass is complete and the second begins from nothing.
BeginSecondPass(t) ==
    LET o == obs[t]
    IN  /\ At(t, "observe") /\ o.todo = {} /\ o.first = None
        /\ Goto(t, [Idle EXCEPT !.pc = "diff",
                        !.first = [listing |-> [changed |-> o.changed, untracked |-> o.untracked],
                                   states |-> o.states],
                        !.between = Changes(tree, Excluded)])
        /\ Looks

\* Mutant: the second pass is not compared with the first.
SameStatesAlways(first, states) == TRUE
\* boundedSameStates
SameStates(first, states) == first.states = states

\* The two passes agree and SetChangeReceipt accepts the second one.
SaveChanges(t, open) ==
    LET o == obs[t]
    IN  /\ At(t, "observe") /\ o.todo = {} /\ o.first # None
        /\ IF SameStates(o.first, o.states) /\ CanSetOnce(changeReceipt, o.states, open)
           THEN changeReceipt' = o.states /\ Passes(t)
           ELSE UNCHANGED changeReceipt /\ Fails(t)
        /\ UNCHANGED <<job, source, tree, inputReceipt, restored>>

ReviewStep(t, open) ==
    \/ OpenSource(t) \/ CopySource(t) \/ SaveInputs(t, open)
    \/ OpenInput(t) \/ ProveInput(t)
    \/ GitFails(t) \/ DiffTracked(t) \/ ListOthers(t) \/ ListIgnored(t)
    \/ OpenPath(t) \/ ReadPath(t) \/ BeginSecondPass(t) \/ SaveChanges(t, open)

-----------------------------------------------------------------------------
(* Everybody else who writes: in the worktree, or to a source.             *)

WriteTree(n, d) ==
    /\ tree[n].data # d
    /\ tree' = [tree EXCEPT ![n] = Written(@, d)]
    /\ restored' = (restored \/ d \in tree[n].past)
    /\ UNCHANGED <<job, source, inputReceipt, changeReceipt, obs>>

WriteSource(i, d) ==
    /\ source[i].data # d
    /\ source' = [source EXCEPT ![i] = Written(@, d)]
    /\ UNCHANGED <<job, tree, inputReceipt, changeReceipt, obs, restored>>
=============================================================================
