-------------------------- MODULE AdmissionProofs ---------------------------
(***************************************************************************)
(* What is proved of Admission for every set of runs, every number of      *)
(* processes and disks, all reserves and both limits: its types, the cap   *)
(* on executing runs, the exclusion of queue_one jobs, one dispatch per    *)
(* run, admission under the authority of the moment, and the headroom that *)
(* is kept up to what runs wrote that ended behind a probe's back.         *)
(***************************************************************************)
EXTENDS Admission, FiniteSetTheorems, WellFoundedInduction, TLAPS

-----------------------------------------------------------------------------
(* Sums over runs.                                                         *)

Units(f, S) == UNION {{i} \X (1 .. f[i]) : i \in S}

\* The units of finitely many runs are finitely many, and their sum is a number.
LEMMA SumType ==
    ASSUME NEW f \in [Runs -> Nat], NEW S \in SUBSET Runs
    PROVE  IsFiniteSet(Units(f, S)) /\ SumOf(f, S) \in Nat
<1> DEFINE Pairs(i) == {i} \X (1 .. f[i])
           Family == {Pairs(i) : i \in S}
           pairs == [i \in S |-> Pairs(i)]
<1>1. IsFiniteSet(S)
  BY AdmissionAssumption, FS_Subset DEF AdmissionAssumption
<1>2. pairs \in Surjection(S, Family)
  BY DEF Surjection
<1>3. IsFiniteSet(Family)
  BY <1>1, <1>2, FS_Surjection
<1>4. ASSUME NEW i \in S PROVE IsFiniteSet(Pairs(i))
  <2>1. f[i] \in Nat /\ IsFiniteSet({i})
    BY FS_Singleton
  <2>2. IsFiniteSet(1 .. f[i]) BY <2>1, FS_Interval
  <2> QED BY <2>1, <2>2, FS_Product
<1>5. IsFiniteSet(UNION Family)
  BY <1>3, <1>4, FS_UNION
<1> QED BY <1>5, FS_CardinalityType DEF Units, SumOf

\* The sum over a part is not more than the sum over the whole.
LEMMA SumSubset ==
    ASSUME NEW f \in [Runs -> Nat], NEW T \in SUBSET Runs, NEW S \in SUBSET T
    PROVE  SumOf(f, S) <= SumOf(f, T)
<1>1. IsFiniteSet(Units(f, T)) BY SumType
<1>2. Units(f, S) \subseteq Units(f, T) BY DEF Units
<1> QED BY <1>1, <1>2, FS_Subset DEF Units, SumOf

\* Sums over runs that are apart add up.
LEMMA SumUnion ==
    ASSUME NEW f \in [Runs -> Nat], NEW S \in SUBSET Runs, NEW T \in SUBSET Runs, S \cap T = {}
    PROVE  SumOf(f, S \cup T) = SumOf(f, S) + SumOf(f, T)
<1>1. IsFiniteSet(Units(f, S)) /\ IsFiniteSet(Units(f, T)) /\ SumOf(f, S) \in Nat /\ SumOf(f, T) \in Nat
  BY SumType
<1>2. Units(f, S \cup T) = Units(f, S) \cup Units(f, T) BY DEF Units
<1>3. Units(f, S) \cap Units(f, T) = {} BY DEF Units
<1>4. Cardinality(Units(f, S) \cap Units(f, T)) = 0 BY <1>3, FS_EmptySet
<1>5. Cardinality(Units(f, S) \cup Units(f, T)) = Cardinality(Units(f, S)) + Cardinality(Units(f, T)) - 0
  BY <1>1, <1>4, FS_Union
<1>6. SumOf(f, S) = Cardinality(Units(f, S)) /\ SumOf(f, T) = Cardinality(Units(f, T))
      /\ SumOf(f, S \cup T) = Cardinality(Units(f, S) \cup Units(f, T))
  BY <1>2 DEF Units, SumOf
<1> QED BY <1>1, <1>5, <1>6

\* The sum over one run is its number, and over none it is 0.
LEMMA SumSingle ==
    ASSUME NEW f \in [Runs -> Nat], NEW i \in Runs
    PROVE  SumOf(f, {i}) = f[i] /\ SumOf(f, {}) = 0
<1>1. f[i] \in Nat /\ IsFiniteSet({i}) /\ Cardinality({i}) = 1
  BY FS_Singleton
<1>2. Cardinality({i} \X (1 .. f[i])) = f[i]
  <2>1. IsFiniteSet(1 .. f[i]) /\ Cardinality(1 .. f[i]) = IF 1 > f[i] THEN 0 ELSE f[i] - 1 + 1
    BY <1>1, FS_Interval
  <2>2. Cardinality(1 .. f[i]) = f[i] BY <1>1, <2>1
  <2>3. Cardinality({i} \X (1 .. f[i])) = Cardinality({i}) * Cardinality(1 .. f[i])
    BY <1>1, <2>1, FS_Product
  <2> QED BY <1>1, <2>2, <2>3
<1>3. Units(f, {i}) = {i} \X (1 .. f[i]) BY DEF Units
<1>4. Units(f, {}) = {} BY DEF Units
<1>5. Cardinality(Units(f, {})) = 0 BY <1>4, FS_EmptySet
<1> QED BY <1>1, <1>2, <1>3, <1>5 DEF Units, SumOf

\* One run more, one run less.
LEMMA SumRemove ==
    ASSUME NEW f \in [Runs -> Nat], NEW S \in SUBSET Runs, NEW i \in S
    PROVE  SumOf(f, S) = SumOf(f, S \ {i}) + f[i]
<1>1. S = (S \ {i}) \cup {i} /\ (S \ {i}) \cap {i} = {} /\ i \in Runs OBVIOUS
<1>2. SumOf(f, (S \ {i}) \cup {i}) = SumOf(f, S \ {i}) + SumOf(f, {i}) BY <1>1, SumUnion
<1> QED BY <1>1, <1>2, SumSingle

\* Only the numbers of the runs summed over matter, and smaller ones do not
\* give more.
LEMMA SumCompare ==
    ASSUME NEW f \in [Runs -> Nat], NEW g \in [Runs -> Nat], NEW S \in SUBSET Runs,
           \A i \in S : f[i] <= g[i]
    PROVE  SumOf(f, S) <= SumOf(g, S)
<1>1. ASSUME NEW i \in S PROVE {i} \X (1 .. f[i]) \subseteq {i} \X (1 .. g[i])
  <2>1. f[i] \in Nat /\ g[i] \in Nat /\ f[i] <= g[i] OBVIOUS
  <2>2. 1 .. f[i] \subseteq 1 .. g[i] BY <2>1
  <2> QED BY <2>2
<1>2. Units(f, S) \subseteq Units(g, S) BY <1>1 DEF Units
<1>3. IsFiniteSet(Units(g, S)) BY SumType
<1> QED BY <1>2, <1>3, FS_Subset DEF Units, SumOf

\* Only the numbers of the runs summed over matter.
LEMMA SumAgree ==
    ASSUME NEW f \in [Runs -> Nat], NEW g \in [Runs -> Nat], NEW S \in SUBSET Runs,
           \A i \in S : f[i] = g[i]
    PROVE  SumOf(f, S) = SumOf(g, S)
<1>1. Units(f, S) = Units(g, S) BY DEF Units
<1> QED BY <1>1 DEF Units, SumOf

-----------------------------------------------------------------------------
(* The candidate is on the list.                                           *)

\* A list that is not empty has a least run: one with the fewest before it.
LEMMA LeastRun ==
    ASSUME NEW S \in SUBSET Runs, S # {}
    PROVE  Min(S) \in S
<1> DEFINE Before(x) == {y \in S : y < x}
           Befores == {Before(x) : x \in S}
<1>1. Runs \subseteq Nat /\ IsFiniteSet(S)
  BY AdmissionAssumption, FS_Subset DEF AdmissionAssumption
<1>2. ASSUME NEW T \in SUBSET S PROVE T \in FiniteSubsetsOf(S)
  BY <1>1, FS_Subset DEF FiniteSubsetsOf
<1>3. Befores \subseteq FiniteSubsetsOf(S) /\ Befores # {} BY <1>2
<1>4. IsWellFoundedOn(StrictSubsetOrdering(S), FiniteSubsetsOf(S))
  BY FS_StrictSubsetOrderingWellFounded
<1>5. PICK B \in Befores : \A C \in Befores : ~(<<C, B>> \in StrictSubsetOrdering(S))
  <2> HIDE DEF Befores
  <2> QED BY <1>3, <1>4, WFMin
<1>6. PICK x \in S : B = Before(x) OBVIOUS
<1>7. ASSUME NEW y \in S, y < x PROVE FALSE
  <2>1. x \in Nat /\ \A z \in S : z \in Nat BY <1>1
  <2>2. ASSUME NEW z \in S, z < y PROVE z < x BY <1>7, <2>1, <2>2
  <2>3. Before(y) \subseteq Before(x) BY <2>2
  <2>4. y \in Before(x) /\ y \notin Before(y) BY <1>7, <2>1
  <2>5. <<Before(y), Before(x)>> \in StrictSubsetOrdering(S) BY <2>3, <2>4 DEF StrictSubsetOrdering
  <2> QED BY <1>5, <1>6, <2>5
<1>8. \A y \in S : x <= y BY <1>1, <1>7
<1> QED BY <1>8 DEF Min

-----------------------------------------------------------------------------
(* Types.                                                                  *)

RowSet == [state : {"absent", "accepted", "active", "done"}, device : Devices \cup {None},
           reserve : Nat, owner : Processes \cup {None}]
DispSet == [pc : {"idle", "check", "decide"}, todo : SUBSET Runs, free : Int, probed : BOOLEAN]
GoodRow(r) == r \in RowSet /\ (r.device = None <=> r.reserve = 0)
GoodDisp(x) == x \in DispSet /\ (x.pc = "idle" <=> x.todo = {})

\* The type invariant, row by row and process by process.
LEMMA TypeParts ==
    TypeOK <=> /\ row \in [Runs -> RowSet] /\ \A i \in Runs : GoodRow(row[i])
               /\ used \in [Runs -> Nat] /\ \A i \in Runs : used[i] <= Definition[i].reserve
               /\ held \subseteq Jobs /\ global \in BOOLEAN /\ late \subseteq Runs
               /\ disp \in [Processes -> DispSet] /\ \A p \in Processes : GoodDisp(disp[p])
BY DEF TypeOK, RowSet, DispSet, GoodRow, GoodDisp

\* The same of the next state.
LEMMA TypePartsNext ==
    TypeOK' <=> /\ row' \in [Runs -> RowSet] /\ \A i \in Runs : GoodRow(row'[i])
                /\ used' \in [Runs -> Nat] /\ \A i \in Runs : used'[i] <= Definition[i].reserve
                /\ held' \subseteq Jobs /\ global' \in BOOLEAN /\ late' \subseteq Runs
                /\ disp' \in [Processes -> DispSet] /\ \A p \in Processes : GoodDisp(disp'[p])
BY DEF TypeOK, RowSet, DispSet, GoodRow, GoodDisp

\* A process that is not idle has a candidate, one of the runs.
LEMMA CandidateListed ==
    ASSUME TypeOK, NEW p \in Processes, disp[p].pc # "idle"
    PROVE  Candidate(p) \in disp[p].todo /\ Candidate(p) \in Runs
<1>1. disp[p].todo \subseteq Runs /\ disp[p].todo # {}
  BY TypeParts DEF GoodDisp, DispSet
<1> QED BY <1>1, LeastRun DEF Candidate

\* What a process goes on with: a list that is not empty, or nothing.
LEMMA ListedGood ==
    ASSUME NEW T \in SUBSET Runs
    PROVE  /\ T # {} => GoodDisp(Listed(T)) /\ Listed(T).pc # "decide"
           /\ GoodDisp(Idle) /\ Idle.pc # "decide"
<1>1. Listed(T) = [pc |-> "check", todo |-> T, free |-> 0, probed |-> FALSE] BY DEF Listed
<1>2. GoodDisp(Idle) /\ Idle.pc # "decide" BY DEF Idle, GoodDisp, DispSet
<1>3. ASSUME T # {} PROVE GoodDisp(Listed(T)) BY <1>1, <1>3 DEF GoodDisp, DispSet
<1> QED BY <1>1, <1>2, <1>3

\* A process that has handled its candidate goes on with the rest of its
\* list, or is done.
LEMMA RestGood ==
    ASSUME TypeOK, NEW p \in Processes
    PROVE  GoodDisp(Rest(p)) /\ Rest(p).pc # "decide"
<1> DEFINE rest == disp[p].todo \ {Candidate(p)}
<1>1. rest \in SUBSET Runs BY TypeParts DEF GoodDisp, DispSet
<1>2. Rest(p) = IF rest = {} THEN Idle ELSE Listed(rest) BY DEF Rest
<1> HIDE DEF rest
<1> QED BY <1>1, <1>2, ListedGood

\* Every run has a reserve of at least one GiB on one of the disks.
LEMMA ReserveType ==
    /\ Reserve \in [Runs -> Nat]
    /\ \A i \in Runs : Reserve[i] = Definition[i].reserve /\ Definition[i].reserve \in Nat \ {0}
                       /\ Definition[i].device \in Devices
    /\ None \notin Devices
BY AdmissionAssumption DEF AdmissionAssumption, Reserve

\* What is free is a number: every run's use counts on its own device.
LEMMA FreeType ==
    ASSUME used \in [Runs -> Nat], NEW d \in Devices
    PROVE  Free(d) \in Int
<1>1. Size[d] \in Nat BY AdmissionAssumption DEF AdmissionAssumption
<1>2. SumOf(used, {i \in Runs : Definition[i].device = d}) \in Nat BY SumType
<1> QED BY <1>1, <1>2 DEF Free

\* A decision yields a row again.
LEMMA DecideGood ==
    ASSUME TypeOK, NEW i \in Runs, NEW p \in Processes, NEW free, NEW probed
    PROVE  GoodRow(Decide(i, p, free, probed))
<1>1. GoodRow(row[i]) BY TypeParts
<1>2. GoodRow([row[i] EXCEPT !.state = "done"]) BY <1>1 DEF GoodRow, RowSet
<1>3. GoodRow(Claimed(i, p)) BY ReserveType DEF GoodRow, RowSet, Claimed
<1> QED BY <1>1, <1>2, <1>3 DEF Decide

\* One row changes, one process moves.
LEMMA RowMoves ==
    ASSUME TypeOK, NEW i \in Runs, NEW r, GoodRow(r), row' = [row EXCEPT ![i] = r]
    PROVE  row' \in [Runs -> RowSet] /\ \A k \in Runs : GoodRow(row'[k])
BY TypeParts DEF GoodRow

\* One process moves: the others keep their lists.
LEMMA DispMoves ==
    ASSUME TypeOK, NEW p \in Processes, NEW x, GoodDisp(x), Become(p, x)
    PROVE  disp' \in [Processes -> DispSet] /\ \A q \in Processes : GoodDisp(disp'[q])
BY TypeParts DEF GoodDisp, Become

\* At the start no run exists and no process dispatches.
LEMMA TypesInit == Init => TypeOK
<1> SUFFICES ASSUME Init PROVE TypeOK OBVIOUS
<1>1. \A i \in Runs : GoodRow(Absent(i)) BY DEF Absent, GoodRow, RowSet
<1>2. row \in [Runs -> RowSet] /\ \A i \in Runs : GoodRow(row[i])
  BY <1>1 DEF Init, GoodRow
<1>3. GoodDisp(Idle) BY ListedGood
<1>4. disp \in [Processes -> DispSet] /\ \A p \in Processes : GoodDisp(disp[p])
  BY <1>3 DEF Init, GoodDisp
<1>5. used \in [Runs -> Nat] /\ \A i \in Runs : used[i] <= Definition[i].reserve
  BY ReserveType DEF Init
<1>6. held \subseteq Jobs /\ global \in BOOLEAN /\ late \subseteq Runs BY DEF Init
<1> QED BY <1>2, <1>4, <1>5, <1>6, TypeParts

\* Every step of Dispatch, of a run and of the operator keeps the types.
LEMMA TypesNext == TypeOK /\ [Next]_vars => TypeOK'
<1> SUFFICES ASSUME TypeOK, [Next]_vars PROVE TypeOK' OBVIOUS
<1>1. ASSUME NEW p \in Processes, ListQueue(p) PROVE TypeOK'
  <2>1. GoodDisp(Listed(Queue)) BY <1>1, ListedGood DEF ListQueue, Queue, In
  <2>2. Become(p, Listed(Queue)) /\ UNCHANGED <<row, used, held, global, late>> BY <1>1 DEF ListQueue
  <2> QED BY <2>1, <2>2, DispMoves, TypeParts, TypePartsNext
<1>2. ASSUME NEW p \in Processes, CreateAttended(p) PROVE TypeOK'
  <2>1. PICK i \in In("absent") : row' = [row EXCEPT ![i].state = "accepted"] /\ Become(p, Listed({i}))
    BY <1>2 DEF CreateAttended
  <2>2. i \in Runs BY DEF In
  <2>3. GoodDisp(Listed({i})) BY <2>2, ListedGood
  <2>4. GoodRow([row[i] EXCEPT !.state = "accepted"]) BY <2>2, TypeParts, TypePartsNext DEF GoodRow, RowSet
  <2>5. UNCHANGED <<used, held, global, late>> BY <1>2 DEF CreateAttended
  <2> QED BY <2>1, <2>2, <2>3, <2>4, <2>5, DispMoves, RowMoves, TypeParts, TypePartsNext
<1>3. ASSUME NEW p \in Processes, CheckJob(p) PROVE TypeOK'
  <2>1. disp[p].pc # "idle" /\ Become(p, Rest(p)) /\ UNCHANGED <<row, used, held, global, late>>
    BY <1>3 DEF CheckJob, Skip
  <2> QED BY <2>1, RestGood, DispMoves, TypeParts, TypePartsNext
<1>4. ASSUME NEW p \in Processes, ProbeDiskCapacity(p) PROVE TypeOK'
  <2>1. disp[p].pc = "check" /\ UNCHANGED <<row, used, held, global, late>> BY <1>4 DEF ProbeDiskCapacity
  <2>2. Candidate(p) \in Runs BY <2>1, CandidateListed
  <2>3. PICK ok \in BOOLEAN :
          Become(p, [disp[p] EXCEPT !.pc = "decide", !.probed = ok,
                                    !.free = IF ok THEN Free(Definition[Candidate(p)].device) ELSE 0])
    BY <1>4 DEF ProbeDiskCapacity
  <2>4. Free(Definition[Candidate(p)].device) \in Int BY <2>2, FreeType, ReserveType, TypeParts, TypePartsNext
  <2>5. GoodDisp([disp[p] EXCEPT !.pc = "decide", !.probed = ok,
                                 !.free = IF ok THEN Free(Definition[Candidate(p)].device) ELSE 0])
    <3> DEFINE n == IF ok THEN Free(Definition[Candidate(p)].device) ELSE 0
    <3>1. disp[p] \in DispSet /\ disp[p].todo # {} BY <2>1, TypeParts DEF GoodDisp
    <3>2. n \in Int BY <2>4
    <3> HIDE DEF n
    <3>3. GoodDisp([disp[p] EXCEPT !.pc = "decide", !.probed = ok, !.free = n])
      BY <3>1, <3>2 DEF GoodDisp, DispSet
    <3> QED BY <3>3 DEF n
  <2> QED BY <2>1, <2>3, <2>5, DispMoves, TypeParts, TypePartsNext
<1>5. ASSUME NEW p \in Processes, DecideAdmission(p) PROVE TypeOK'
  <2> DEFINE i == Candidate(p)
             r == Decide(i, p, disp[p].free, disp[p].probed)
  <2>1. disp[p].pc # "idle" /\ row' = [row EXCEPT ![i] = r] /\ Become(p, Rest(p))
        /\ UNCHANGED <<used, held, global, late>>
    BY <1>5 DEF DecideAdmission
  <2>2. i \in Runs BY <2>1, CandidateListed
  <2>3. GoodRow(r) BY <2>2, DecideGood
  <2> HIDE DEF i, r
  <2> QED BY <2>1, <2>2, <2>3, RestGood, DispMoves, RowMoves, TypeParts, TypePartsNext
<1>6. ASSUME NEW p \in Processes, Crash(p) PROVE TypeOK'
  <2>1. GoodDisp(Idle) BY ListedGood
  <2>2. Become(p, Idle) /\ UNCHANGED <<row, used, held, global, late>> BY <1>6 DEF Crash
  <2> QED BY <2>1, <2>2, DispMoves, TypeParts, TypePartsNext
<1>7. ASSUME NEW i \in Runs, Finish(i) PROVE TypeOK'
  <2>1. row' = [row EXCEPT ![i].state = "done"] /\ UNCHANGED <<used, held, global, disp>> BY <1>7 DEF Finish
  <2>2. GoodRow([row[i] EXCEPT !.state = "done"]) BY TypeParts, TypePartsNext DEF GoodRow, RowSet
  <2>3. late' \subseteq Runs BY <1>7, TypeParts, TypePartsNext DEF Finish
  <2> QED BY <2>1, <2>2, <2>3, RowMoves, TypeParts, TypePartsNext
<1>8. ASSUME Accept \/ CancelAccepted PROVE TypeOK'
  <2>1. PICK i \in Runs : \/ row' = [row EXCEPT ![i].state = "accepted"]
                          \/ row' = [row EXCEPT ![i].state = "done"]
    BY <1>8 DEF Accept, CancelAccepted, In
  <2>2. GoodRow([row[i] EXCEPT !.state = "accepted"]) /\ GoodRow([row[i] EXCEPT !.state = "done"])
    BY TypeParts, TypePartsNext DEF GoodRow, RowSet
  <2>3. UNCHANGED <<used, held, global, disp, late>> BY <1>8 DEF Accept, CancelAccepted
  <2> QED BY <2>1, <2>2, <2>3, RowMoves, TypeParts, TypePartsNext
<1>9. CASE Write
  <2>1. PICK i \in Runs : used[i] < Definition[i].reserve /\ used' = [used EXCEPT ![i] = @ + 1]
    BY <1>9 DEF Write, In
  <2>2. used' \in [Runs -> Nat] /\ \A k \in Runs : used'[k] <= Definition[k].reserve
    BY <2>1, TypeParts, TypePartsNext, ReserveType
  <2> QED BY <1>9, <2>2, TypeParts, TypePartsNext DEF Write
<1>10. CASE RemoveWorktrees
  <2>1. used' \in [Runs -> Nat] /\ \A k \in Runs : used'[k] <= Definition[k].reserve
    BY <1>10, TypeParts, TypePartsNext, ReserveType DEF RemoveWorktrees
  <2> QED BY <1>10, <2>1, TypeParts, TypePartsNext DEF RemoveWorktrees
<1>11. CASE Pause
  <2>1. held' \subseteq Jobs /\ global' \in BOOLEAN BY <1>11, TypeParts, TypePartsNext, AdmissionAssumption DEF Pause, AdmissionAssumption
  <2> QED BY <1>11, <2>1, TypeParts, TypePartsNext DEF Pause
<1>12. CASE UNCHANGED vars
  BY <1>12, TypeParts, TypePartsNext DEF vars
<1> QED BY <1>1, <1>2, <1>3, <1>4, <1>5, <1>6, <1>7, <1>8, <1>9, <1>10, <1>11, <1>12 DEF Next, Dispatch

\* Types, for the reader and for what follows.
THEOREM AdmissionTyped == Spec => []TypeOK
BY TypesInit, TypesNext, PTL DEF Spec

-----------------------------------------------------------------------------
(* Which rows a step changes, and how.                                     *)

Ended(i) == row' = [row EXCEPT ![i].state = "done"]
Queued(i) == row[i].state = "absent" /\ row' = [row EXCEPT ![i].state = "accepted"]
\* The candidate was claimed: the decision admitted it on the rows of that
\* moment with the free space of the probe.
ClaimedBy(p, i) ==
    /\ disp[p].pc = "decide" /\ disp[p].probed /\ i = Candidate(p)
    /\ row[i].state = "accepted" /\ ~Stopped(i) /\ ~Conflicting(i)
    /\ AdmissionDecision(i, disp[p].free, In("active")) = "admit"
    /\ row' = [row EXCEPT ![i] = Claimed(i, p)]
RowStep(i) ==
    \/ Queued(i)
    \/ row[i].state = "accepted" /\ Ended(i)
    \/ Finish(i)
    \/ \E p \in Processes : ClaimedBy(p, i)

\* Every step leaves the rows alone or accepts, ends or claims one run.
LEMMA RowSteps ==
    ASSUME TypeOK, [Next]_vars
    PROVE  UNCHANGED row \/ \E i \in Runs : RowStep(i)
<1>1. ASSUME NEW p \in Processes, CreateAttended(p) PROVE \E i \in Runs : RowStep(i)
  BY <1>1 DEF CreateAttended, In, RowStep, Queued
<1>2. ASSUME NEW p \in Processes, DecideAdmission(p)
      PROVE  UNCHANGED row \/ \E i \in Runs : RowStep(i)
  <2> DEFINE i == Candidate(p)
             r == Decide(i, p, disp[p].free, disp[p].probed)
  <2>1. disp[p].pc = "decide" /\ row' = [row EXCEPT ![i] = r] BY <1>2 DEF DecideAdmission
  <2>2. i \in Runs BY <2>1, CandidateListed
  <2>3. row \in [Runs -> RowSet] BY TypeParts
  <2>4. CASE r = row[i]
    <3>1. row' = row BY <2>1, <2>2, <2>3, <2>4
    <3> QED BY <3>1
  <2>5. CASE row[i].state = "accepted" /\ r = [row[i] EXCEPT !.state = "done"]
    <3>1. RowStep(i) BY <2>1, <2>5 DEF RowStep, Ended
    <3> QED BY <2>2, <3>1
  <2>6. CASE /\ disp[p].probed /\ row[i].state = "accepted" /\ ~Stopped(i) /\ ~Conflicting(i)
             /\ AdmissionDecision(i, disp[p].free, In("active")) = "admit" /\ r = Claimed(i, p)
    <3>1. ClaimedBy(p, i) BY <2>1, <2>6 DEF ClaimedBy
    <3> QED BY <2>2, <3>1 DEF RowStep
  <2> QED BY <2>4, <2>5, <2>6 DEF Decide
<1>3. ASSUME NEW i \in Runs, Finish(i) PROVE RowStep(i)
  BY <1>3 DEF RowStep
<1>4. ASSUME Accept \/ CancelAccepted PROVE \E i \in Runs : RowStep(i)
  BY <1>4 DEF Accept, CancelAccepted, In, RowStep, Queued, Ended
<1> QED
  BY <1>1, <1>2, <1>3, <1>4
  DEF Next, vars, Dispatch, ListQueue, CheckJob, ProbeDiskCapacity, Crash, Write, RemoveWorktrees, Pause

\* What such a step does to each run.
LEMMA RowStepEffects ==
    ASSUME TypeOK, NEW i \in Runs, RowStep(i), NEW k \in Runs
    PROVE  /\ k # i => row'[k] = row[k]
           /\ row[i].state \in {"absent", "accepted", "active"}
           /\ row[i].state = "active" => row'[i].owner = row[i].owner /\ row'[i].state = "done"
           /\ row'[i].state = "active" => \E p \in Processes : ClaimedBy(p, i)
           /\ \A p \in Processes : ClaimedBy(p, i) => row'[i] = Claimed(i, p) /\ row[i].state = "accepted"
<1>1. row \in [Runs -> RowSet] BY TypeParts
<1>2. CASE Queued(i) BY <1>1, <1>2 DEF Queued, RowSet, ClaimedBy
<1>3. CASE (row[i].state = "accepted" /\ Ended(i)) \/ Finish(i)
  BY <1>1, <1>3 DEF Ended, Finish, RowSet, ClaimedBy
<1>4. ASSUME NEW p \in Processes, ClaimedBy(p, i)
      PROVE  /\ k # i => row'[k] = row[k]
             /\ row[i].state = "accepted" /\ row'[i] = Claimed(i, p)
  BY <1>1, <1>4 DEF ClaimedBy
<1> QED BY <1>2, <1>3, <1>4 DEF RowStep

\* "accepted runs dispatch once": an executing run keeps its executor until it
\* ends, and what has ended is not touched again.
THEOREM AcceptedRunsDispatchOnce == Spec => DispatchedOnce
<1> DEFINE Once ==
      \A i \in Runs :
          /\ row[i].state = "active" => row'[i].owner = row[i].owner /\ row'[i].state # "accepted"
          /\ row[i].state = "done" => row'[i] = row[i]
<1>1. TypeOK /\ [Next]_vars => [Once]_vars
  <2> SUFFICES ASSUME TypeOK, [Next]_vars, NEW k \in Runs
               PROVE  /\ row[k].state = "active" => row'[k].owner = row[k].owner /\ row'[k].state # "accepted"
                      /\ row[k].state = "done" => row'[k] = row[k]
    OBVIOUS
  <2>1. CASE UNCHANGED row BY <2>1
  <2>2. ASSUME NEW i \in Runs, RowStep(i)
        PROVE  /\ row[k].state = "active" => row'[k].owner = row[k].owner /\ row'[k].state # "accepted"
               /\ row[k].state = "done" => row'[k] = row[k]
    BY <2>2, RowStepEffects
  <2> QED BY <2>1, <2>2, RowSteps
<1> QED BY <1>1, AdmissionTyped, PTL DEF Spec, DispatchedOnce

\* Authority is asked in the transaction that admits, not when the queue was
\* listed.
THEOREM AdmissionsUnderAuthority == Spec => AdmittedUnderAuthority
<1> DEFINE Under == \A i \in Runs : row[i].state # "active" /\ row'[i].state = "active" => ~Stopped(i)
<1>1. TypeOK /\ [Next]_vars => [Under]_vars
  <2> SUFFICES ASSUME TypeOK, [Next]_vars, NEW k \in Runs, row[k].state # "active", row'[k].state = "active"
               PROVE  ~Stopped(k)
    OBVIOUS
  <2>1. PICK i \in Runs : RowStep(i) BY RowSteps
  <2>2. k = i BY <2>1, RowStepEffects
  <2>3. PICK p \in Processes : ClaimedBy(p, i) BY <2>1, <2>2, RowStepEffects
  <2> QED BY <2>2, <2>3 DEF ClaimedBy
<1> QED BY <1>1, AdmissionTyped, PTL DEF Spec, AdmittedUnderAuthority

-----------------------------------------------------------------------------
(* The cap.                                                                *)

\* An admission sees fewer executing runs than the cap, and adds one.
LEMMA CapNext == TypeOK /\ ActiveWithinCap /\ [Next]_vars => ActiveWithinCap'
<1> SUFFICES ASSUME TypeOK, ActiveWithinCap, [Next]_vars PROVE ActiveWithinCap' OBVIOUS
<1>0. IsFiniteSet(Runs) /\ MaxConcurrent \in Nat BY AdmissionAssumption DEF AdmissionAssumption
<1>1. In("active") \subseteq Runs BY DEF In
<1>2. IsFiniteSet(In("active")) /\ Cardinality(In("active")) \in Nat
  BY <1>0, <1>1, FS_Subset, FS_CardinalityType
<1>3. CASE UNCHANGED row BY <1>3 DEF ActiveWithinCap, In
<1>4. ASSUME NEW i \in Runs, RowStep(i), row'[i].state # "active" PROVE ActiveWithinCap'
  <2>1. In("active")' \subseteq In("active") BY <1>4, RowStepEffects DEF In
  <2>2. Cardinality(In("active")') <= Cardinality(In("active")) BY <1>2, <2>1, FS_Subset
  <2>3. Cardinality(In("active")') \in Nat BY <1>2, <2>1, FS_Subset, FS_CardinalityType
  <2> QED BY <1>0, <1>2, <2>2, <2>3 DEF ActiveWithinCap
<1>5. ASSUME NEW i \in Runs, RowStep(i), row'[i].state = "active" PROVE ActiveWithinCap'
  <2>1. PICK p \in Processes : ClaimedBy(p, i) BY <1>5, RowStepEffects
  <2>2. ~(Cardinality(In("active")) >= MaxConcurrent) BY <2>1 DEF ClaimedBy, AdmissionDecision
  <2>3. In("active")' = In("active") \cup {i} BY <1>5, RowStepEffects DEF In
  <2>4. Cardinality(In("active") \cup {i}) <= Cardinality(In("active")) + 1
    BY <1>2, FS_AddElement
  <2>5. Cardinality(In("active") \cup {i}) \in Nat BY <1>2, FS_AddElement, FS_CardinalityType
  <2>6. Cardinality(In("active") \cup {i}) <= MaxConcurrent
    <3> DEFINE m == Cardinality(In("active"))
               n == Cardinality(In("active") \cup {i})
    <3>1. m \in Nat /\ n \in Nat /\ ~(m >= MaxConcurrent) /\ n <= m + 1 BY <1>2, <2>2, <2>4, <2>5
    <3> HIDE DEF m, n
    <3>2. n <= MaxConcurrent BY <1>0, <3>1
    <3> QED BY <3>2 DEF n
  <2> QED BY <2>3, <2>6 DEF ActiveWithinCap
<1> QED BY <1>3, <1>4, <1>5, RowSteps

\* At the start nothing executes.
LEMMA CapInit == Init => ActiveWithinCap
<1> SUFFICES ASSUME Init PROVE ActiveWithinCap OBVIOUS
<1>1. In("active") = Legacy BY AdmissionAssumption DEF Init, In, Absent, AdmissionAssumption
<1> QED BY <1>1, AdmissionAssumption DEF ActiveWithinCap, AdmissionAssumption

\* max_concurrent_runs holds, however many processes dispatch at once.
THEOREM CapHolds == Spec => []ActiveWithinCap
BY CapInit, CapNext, AdmissionTyped, PTL DEF Spec

-----------------------------------------------------------------------------
(* queue_one.                                                              *)

\* The decision asks for the candidate's overlap only, so the exclusion is one
\* of runs that agree on it: no edit changed the job's overlap between them.
OneOverlapPerJob ==
    \A i, k \in Runs : Definition[i].job = Definition[k].job => Definition[i].overlap = Definition[k].overlap
\* A version without disk claims excluded them already.
LegacyAlone ==
    \A i, k \in Legacy : i < k /\ Definition[i].job = Definition[k].job =>
        "queue_one" \notin {Definition[i].overlap, Definition[k].overlap}

\* A queue_one job never has a second executing run, whichever process and
\* trigger admits it, as long as its overlap policy stays what it is.
THEOREM QueueOneAlone ==
    ASSUME OneOverlapPerJob, LegacyAlone PROVE Spec => []QueueOneExecutesAlone
<1>1. Init => QueueOneExecutesAlone
  <2> SUFFICES ASSUME Init PROVE QueueOneExecutesAlone OBVIOUS
  <2>1. In("active") = Legacy BY AdmissionAssumption DEF Init, In, Absent, AdmissionAssumption
  <2> QED BY <2>1 DEF QueueOneExecutesAlone, LegacyAlone
<1>2. TypeOK /\ QueueOneExecutesAlone /\ [Next]_vars => QueueOneExecutesAlone'
  <2> SUFFICES ASSUME TypeOK, QueueOneExecutesAlone, [Next]_vars PROVE QueueOneExecutesAlone' OBVIOUS
  <2>1. CASE UNCHANGED row BY <2>1 DEF QueueOneExecutesAlone, In
  <2>2. ASSUME NEW x \in Runs, RowStep(x), row'[x].state # "active" PROVE QueueOneExecutesAlone'
    <3>1. \A i \in Runs : row'[i].state = "active" => row[i].state = "active" BY <2>2, RowStepEffects
    <3> QED BY <3>1 DEF QueueOneExecutesAlone, In
  <2>3. ASSUME NEW x \in Runs, RowStep(x), row'[x].state = "active" PROVE QueueOneExecutesAlone'
    <3>1. PICK p \in Processes : ClaimedBy(p, x) BY <2>3, RowStepEffects
    <3>2. ~(/\ Definition[x].overlap = "queue_one"
            /\ \E k \in In("active") : Definition[k].job = Definition[x].job)
      BY <3>1 DEF ClaimedBy, AdmissionDecision
    <3>3. \A i \in Runs : i # x /\ row'[i].state = "active" => row[i].state = "active"
      BY <2>3, RowStepEffects
    <3>4. SUFFICES ASSUME NEW i \in Runs, NEW k \in Runs, row'[i].state = "active", row'[k].state = "active",
                          i < k, Definition[i].job = Definition[k].job
                   PROVE  "queue_one" \notin {Definition[i].overlap, Definition[k].overlap}
      BY DEF QueueOneExecutesAlone, In
    <3>5. i # k BY <3>4, AdmissionAssumption DEF AdmissionAssumption
    <3>6. CASE i # x /\ k # x BY <3>3, <3>4, <3>6 DEF QueueOneExecutesAlone, In
    <3>7. CASE i = x \/ k = x
      <4>1. Definition[x].overlap # "queue_one" BY <3>2, <3>3, <3>4, <3>5, <3>7 DEF In
      <4> QED BY <3>4, <3>7, <4>1 DEF OneOverlapPerJob
    <3> QED BY <3>6, <3>7
  <2> QED BY <2>1, <2>2, <2>3, RowSteps
<1> QED BY <1>1, <1>2, AdmissionTyped, PTL DEF Spec

-----------------------------------------------------------------------------
(* The headroom.                                                           *)

ActiveOn(d) == {i \in In("active") : Definition[i].device = d}
\* Runs whose use nobody watches: they neither execute nor are they late.
Left(d) == {i \in Runs : Definition[i].device = d /\ row[i].state # "active" /\ i \notin late}

\* Only a run that was admitted has written.
Written == \A i \in Runs : used[i] > 0 => row[i].state \in {"active", "done"}
\* A claim names the device and the reserve of its run, or is a legacy one.
ClaimsKept ==
    \A i \in In("active") :
        \/ row[i].device = None
        \/ row[i].device = Definition[i].device /\ row[i].reserve = Definition[i].reserve
LateEnded == late \subseteq In("done")
\* The whole reserve of the executing runs is there beside what is left over.
Room == \A d \in Devices : MinFree + SumOf(Reserve, ActiveOn(d)) + SumOf(used, Left(d)) <= Size[d]
\* A probe may have missed what executing and late runs wrote, nothing else.
ProbeFits(p) ==
    disp[p].pc = "decide" /\ disp[p].probed =>
        \A d \in Devices : d = Definition[Candidate(p)].device =>
            disp[p].free + SumOf(used, Left(d)) <= Size[d]
ProbesFit == \A p \in Processes : ProbeFits(p)
DiskInv == TypeOK /\ Written /\ ClaimsKept /\ LateEnded /\ Room /\ ProbesFit

\* The limits of the disks are numbers.
LEMMA SizeType == MinFree \in Nat /\ \A d \in Devices : Size[d] \in Nat
BY AdmissionAssumption DEF AdmissionAssumption

\* What the runs have written are numbers of GiB.
LEMMA UsedType == TypeOK => used \in [Runs -> Nat]
BY TypeParts

\* The runs on a device: executing, late, and the rest.
LEMMA DeviceParts ==
    ASSUME TypeOK, LateEnded, NEW d \in Devices
    PROVE  LET All == {i \in Runs : Definition[i].device = d}
               Late == {i \in late : Definition[i].device = d}
           IN /\ SumOf(used, All) = SumOf(used, ActiveOn(d)) + SumOf(used, Late) + SumOf(used, Left(d))
              /\ SumOf(used, ActiveOn(d)) \in Nat /\ SumOf(used, Late) \in Nat
              /\ SumOf(used, Left(d)) \in Nat /\ SumOf(used, All) \in Nat
<1> DEFINE All == {i \in Runs : Definition[i].device = d}
           Late == {i \in late : Definition[i].device = d}
<1>1. used \in [Runs -> Nat] /\ late \subseteq Runs BY TypeParts
<1>2. ActiveOn(d) \subseteq Runs /\ Late \subseteq Runs /\ Left(d) \subseteq Runs /\ All \subseteq Runs
  BY <1>1 DEF ActiveOn, Left, In
<1>3. All = (ActiveOn(d) \cup Late) \cup Left(d) BY <1>1 DEF ActiveOn, Left, In
<1>4. (ActiveOn(d) \cup Late) \cap Left(d) = {} BY DEF ActiveOn, Left, In
<1>5. ActiveOn(d) \cap Late = {} BY DEF ActiveOn, In, LateEnded
<1> HIDE DEF All, Late
<1>6. SumOf(used, All) = SumOf(used, ActiveOn(d) \cup Late) + SumOf(used, Left(d))
  BY <1>1, <1>2, <1>3, <1>4, SumUnion
<1>7. SumOf(used, ActiveOn(d) \cup Late) = SumOf(used, ActiveOn(d)) + SumOf(used, Late)
  BY <1>1, <1>2, <1>5, SumUnion
<1>8. /\ SumOf(used, ActiveOn(d)) \in Nat /\ SumOf(used, Late) \in Nat
      /\ SumOf(used, Left(d)) \in Nat /\ SumOf(used, All) \in Nat
  BY <1>1, <1>2, SumType
<1>9. SumOf(used, All) = SumOf(used, ActiveOn(d)) + SumOf(used, Late) + SumOf(used, Left(d))
  BY <1>6, <1>7, <1>8
<1> QED BY <1>8, <1>9 DEF All, Late

\* Room is the headroom, said without differences.
LEMMA RoomIsHeadroom == DiskInv => HeadroomKeptUpToLateRuns
<1> SUFFICES ASSUME DiskInv, NEW d \in Devices
             PROVE  MinFree + Promised(d)
                      <= Free(d) + SumOf(used, {i \in late : Definition[i].device = d})
  BY DEF HeadroomKeptUpToLateRuns
<1> DEFINE a == SumOf(used, ActiveOn(d))
           b == SumOf(used, {i \in late : Definition[i].device = d})
           c == SumOf(used, Left(d))
           e == SumOf(used, {i \in Runs : Definition[i].device = d})
           q == SumOf(Reserve, ActiveOn(d))
<1>1. e = a + b + c /\ a \in Nat /\ b \in Nat /\ c \in Nat /\ e \in Nat BY DeviceParts DEF DiskInv
<1>2. q \in Nat
  <2>1. ActiveOn(d) \in SUBSET Runs BY DEF ActiveOn, In
  <2> QED BY <2>1, ReserveType, SumType
<1>3. MinFree + q + c <= Size[d] /\ MinFree \in Nat /\ Size[d] \in Nat BY SizeType DEF DiskInv, Room
<1>4. Promised(d) = q - a BY DEF Promised, ActiveOn
<1>5. Free(d) = Size[d] - e BY DEF Free
<1> HIDE DEF a, b, c, e, q
<1>6. MinFree + (q - a) <= (Size[d] - e) + b BY <1>1, <1>2, <1>3
<1> QED BY <1>4, <1>5, <1>6 DEF b

\* At the start nothing is written, claimed or probed.
LEMMA DiskInit == Init => DiskInv
<1> SUFFICES ASSUME Init PROVE DiskInv OBVIOUS
<1>1. TypeOK BY TypesInit
<1>2. Written /\ ClaimsKept /\ LateEnded /\ ProbesFit
  BY DEF Init, Absent, In, Idle, Written, ClaimsKept, LateEnded, ProbesFit, ProbeFits
<1>3. ASSUME NEW d \in Devices
      PROVE  MinFree + SumOf(Reserve, ActiveOn(d)) + SumOf(used, Left(d)) <= Size[d]
  <2>1. Legacy \in SUBSET Runs /\ MinFree + SumOf(Reserve, Legacy) <= Size[d] /\ MinFree \in Nat
        /\ Size[d] \in Nat
    BY <1>3, AdmissionAssumption DEF AdmissionAssumption
  <2>2. ActiveOn(d) \in SUBSET Legacy BY DEF ActiveOn, Init, In, Absent
  <2>3. SumOf(Reserve, ActiveOn(d)) <= SumOf(Reserve, Legacy) /\ SumOf(Reserve, ActiveOn(d)) \in Nat
        /\ SumOf(Reserve, Legacy) \in Nat
    BY <2>1, <2>2, ReserveType, SumSubset, SumType
  <2>4. Left(d) \in SUBSET Runs /\ used \in [Runs -> Nat] BY DEF Left, Init
  <2>5. Units(used, Left(d)) = {} BY DEF Units, Left, Init
  <2>6. SumOf(used, Left(d)) = 0 BY <2>5, FS_EmptySet DEF SumOf, Units
  <2> QED BY <2>1, <2>3, <2>6
<1> QED BY <1>1, <1>2, <1>3 DEF DiskInv, Room

\* What a step does to the lists: nothing, or the process that moved is not at
\* a decision afterwards, or it has just probed.
LEMMA DispSteps ==
    ASSUME TypeOK, [Next]_vars, NEW p \in Processes
    PROVE  disp'[p] = disp[p] \/ disp'[p].pc # "decide" \/ ProbeDiskCapacity(p)
<1> DEFINE Fine == disp'[p] = disp[p] \/ disp'[p].pc # "decide" \/ ProbeDiskCapacity(p)
<1>0. disp \in [Processes -> DispSet] BY TypeParts
<1>1. ASSUME NEW q \in Processes, NEW x, Become(q, x), x.pc # "decide" PROVE Fine
  BY <1>0, <1>1 DEF Become
<1>2. ASSUME NEW q \in Processes, ListQueue(q) PROVE Fine
  BY <1>1, <1>2 DEF ListQueue, Listed
<1>3. ASSUME NEW q \in Processes, CreateAttended(q) PROVE Fine
  BY <1>1, <1>3 DEF CreateAttended, Listed
<1>4. ASSUME NEW q \in Processes, CheckJob(q) PROVE Fine
  BY <1>1, <1>4, RestGood DEF CheckJob, Skip
<1>5. ASSUME NEW q \in Processes, DecideAdmission(q) PROVE Fine
  BY <1>1, <1>5, RestGood DEF DecideAdmission
<1>6. ASSUME NEW q \in Processes, Crash(q) PROVE Fine
  BY <1>1, <1>6 DEF Crash, Idle
<1>7. ASSUME NEW q \in Processes, ProbeDiskCapacity(q) PROVE Fine
  <2>1. CASE q = p BY <1>7, <2>1
  <2>2. CASE q # p BY <1>0, <1>7, <2>2 DEF ProbeDiskCapacity, Become
  <2> QED BY <2>1, <2>2
<1>8. CASE UNCHANGED disp BY <1>8
<1> QED
  BY <1>2, <1>3, <1>4, <1>5, <1>6, <1>7, <1>8
  DEF Next, vars, Dispatch, Finish, Accept, Write, CancelAccepted, RemoveWorktrees, Pause

\* Which steps write, and which make a run late.
LEMMA UsedSteps ==
    ASSUME [Next]_vars
    PROVE  /\ UNCHANGED used \/ (Write /\ UNCHANGED <<row, late>>) \/ (RemoveWorktrees /\ UNCHANGED <<row, late>>)
           /\ UNCHANGED late \/ \E i \in Runs : Finish(i)
           /\ (\E p \in Processes : ProbeDiskCapacity(p)) => UNCHANGED <<row, used, late>>
BY DEF Next, vars, Dispatch, ListQueue, CreateAttended, CheckJob, ProbeDiskCapacity, DecideAdmission, Crash,
       Finish, Accept, Write, CancelAccepted, RemoveWorktrees, Pause

\* A run that starts or stops to execute was claimed or has finished.
LEMMA ActiveSteps ==
    ASSUME TypeOK, [Next]_vars, NEW k \in Runs
    PROVE  /\ row[k].state = "active" /\ row'[k].state # "active" => Finish(k)
           /\ row[k].state # "active" /\ row'[k].state = "active" => \E p \in Processes : ClaimedBy(p, k)
           /\ row[k].state = "done" => row'[k] = row[k]
<1>1. CASE UNCHANGED row BY <1>1
<1>2. ASSUME NEW i \in Runs, RowStep(i)
      PROVE  /\ row[k].state = "active" /\ row'[k].state # "active" => Finish(k)
             /\ row[k].state # "active" /\ row'[k].state = "active" => \E p \in Processes : ClaimedBy(p, k)
             /\ row[k].state = "done" => row'[k] = row[k]
  <2>1. CASE k # i BY <1>2, <2>1, RowStepEffects
  <2>2. CASE k = i
    <3>1. row[k].state \in {"absent", "accepted", "active"}
          /\ (row'[k].state = "active" => \E p \in Processes : ClaimedBy(p, k))
      BY <1>2, <2>2, RowStepEffects
    <3>2. row[k].state = "active" => Finish(k)
      BY <1>2, <2>2 DEF RowStep, Queued, ClaimedBy
    <3> QED BY <3>1, <3>2
  <2> QED BY <2>1, <2>2
<1> QED BY <1>1, <1>2, RowSteps

\* Only runs that ended behind a probe are late, and an ended run stays ended.
LEMMA LateEndedNext == TypeOK /\ LateEnded /\ [Next]_vars => LateEnded'
<1> SUFFICES ASSUME TypeOK, LateEnded, [Next]_vars, NEW k \in late' PROVE k \in In("done")'
  BY DEF LateEnded
<1>1. CASE k \in late BY <1>1, ActiveSteps DEF LateEnded, In
<1>2. CASE k \notin late
  <2>1. PICK i \in Runs : Finish(i) BY <1>2, UsedSteps
  <2>2. k = i BY <1>2, <2>1 DEF Finish
  <2>3. row \in [Runs -> RowSet] BY TypeParts
  <2> QED BY <2>1, <2>2, <2>3 DEF Finish, In, RowSet
<1> QED BY <1>1, <1>2

\* Only a run that executes writes, and what has executed stays so.
\* Only a run that executes or has ended has written: absent and accepted
\* runs have no worktree.
LEMMA WrittenNext == TypeOK /\ Written /\ [Next]_vars => Written'
<1> SUFFICES ASSUME TypeOK, Written, [Next]_vars, NEW k \in Runs, used'[k] > 0
             PROVE  row'[k].state \in {"active", "done"}
  BY DEF Written
<1>0. used \in [Runs -> Nat] /\ row \in [Runs -> RowSet] BY TypeParts
<1>1. row[k].state \in {"active", "done"}
  <2>1. CASE UNCHANGED used BY <2>1 DEF Written
  <2>2. CASE Write BY <1>0, <2>2 DEF Write, In, Written
  <2>3. CASE RemoveWorktrees BY <1>0, <2>3 DEF RemoveWorktrees, Written
  <2> QED BY <2>1, <2>2, <2>3, UsedSteps
<1>2. CASE row'[k].state = "active" BY <1>2
<1>3. CASE row[k].state = "done" BY <1>3, ActiveSteps
<1>4. CASE row[k].state = "active" /\ row'[k].state # "active"
  <2>1. Finish(k) BY <1>4, ActiveSteps
  <2> QED BY <1>0, <2>1 DEF Finish, RowSet
<1> QED BY <1>1, <1>2, <1>3, <1>4

\* An executing run keeps the reserve and the disk it was claimed with.
LEMMA ClaimsKeptNext == TypeOK /\ ClaimsKept /\ [Next]_vars => ClaimsKept'
<1> SUFFICES ASSUME TypeOK, ClaimsKept, [Next]_vars, NEW k \in Runs, row'[k].state = "active"
             PROVE  \/ row'[k].device = None
                    \/ row'[k].device = Definition[k].device /\ row'[k].reserve = Definition[k].reserve
  BY DEF ClaimsKept, In
<1>1. CASE row'[k] = row[k] BY <1>1 DEF ClaimsKept, In
<1>2. CASE row'[k] # row[k]
  <2>1. PICK i \in Runs : RowStep(i) BY <1>2, RowSteps
  <2>2. k = i BY <1>2, <2>1, RowStepEffects
  <2>3. PICK p \in Processes : ClaimedBy(p, k) BY <2>1, <2>2, RowStepEffects
  <2>4. row'[k] = Claimed(k, p) BY <2>1, <2>2, <2>3, RowStepEffects
  <2> QED BY <2>4 DEF Claimed
<1> QED BY <1>1, <1>2

\* As long as no run ends unseen by every probe, what is left over only
\* becomes less.
LEMMA LeftSum ==
    ASSUME DiskInv, [Next]_vars, NEW d \in Devices,
           \A i \in Runs : Finish(i) => \E p \in Processes : disp[p].pc = "decide"
    PROVE  SumOf(used', Left(d)') <= SumOf(used, Left(d))
<1>1. TypeOK /\ TypeOK' BY TypesNext DEF DiskInv
<1>2. used \in [Runs -> Nat] /\ used' \in [Runs -> Nat] BY <1>1, TypeParts, TypePartsNext
<1>3. late \subseteq late' BY UsedSteps DEF Finish
<1>4. ASSUME NEW k \in Left(d)' PROVE k \in Left(d) /\ used'[k] <= used[k]
  <2>1. k \in Runs /\ Definition[k].device = d /\ row'[k].state # "active" /\ k \notin late'
    BY DEF Left
  <2>2. row[k].state # "active"
    <3>1. SUFFICES ASSUME row[k].state = "active" PROVE FALSE OBVIOUS
    <3>2. Finish(k) BY <1>1, <2>1, <3>1, ActiveSteps
    <3>3. k \in late' BY <2>1, <3>2 DEF Finish
    <3> QED BY <2>1, <3>3
  <2>3. k \in Left(d) BY <1>3, <2>1, <2>2 DEF Left
  <2>4. CASE UNCHANGED used BY <1>2, <2>1, <2>3, <2>4
  <2>5. CASE Write
    <3>1. used'[k] = used[k] BY <1>2, <2>1, <2>2, <2>5 DEF Write, In
    <3> QED BY <1>2, <2>1, <2>3, <3>1
  <2>6. CASE RemoveWorktrees BY <1>2, <2>1, <2>3, <2>6 DEF RemoveWorktrees
  <2> QED BY <2>3, <2>4, <2>5, <2>6, UsedSteps
<1>5. Left(d)' \in SUBSET Left(d) /\ Left(d) \in SUBSET Runs /\ Left(d)' \in SUBSET Runs
  BY <1>4 DEF Left
<1> DEFINE L == Left(d)'
<1>6. SumOf(used', L) <= SumOf(used, L)
  <2>1. L \in SUBSET Runs /\ \A k \in L : used'[k] <= used[k] BY <1>4, <1>5
  <2> HIDE DEF L
  <2> QED BY <1>2, <2>1, SumCompare
<1>7. SumOf(used, L) <= SumOf(used, Left(d)) BY <1>2, <1>5, SumSubset
<1>8. SumOf(used, L) \in Nat /\ SumOf(used', L) \in Nat /\ SumOf(used, Left(d)) \in Nat
  <2>1. L \in SUBSET Runs BY <1>5
  <2> HIDE DEF L
  <2> QED BY <1>2, <1>5, <2>1, SumType
<1>9. SumOf(used', L) <= SumOf(used, Left(d))
  <2> HIDE DEF L
  <2> QED BY <1>6, <1>7, <1>8
<1> QED BY <1>9

\* A run that ends unseen moves its reserve to what is left over, which is
\* not more than it had.
LEMMA UnseenEnd ==
    ASSUME DiskInv, NEW i \in Runs, Finish(i), \A p \in Processes : disp[p].pc # "decide",
           NEW d \in Devices
    PROVE  SumOf(Reserve, ActiveOn(d)') + SumOf(used', Left(d)')
             <= SumOf(Reserve, ActiveOn(d)) + SumOf(used, Left(d))
<1>0. row \in [Runs -> RowSet] /\ used \in [Runs -> Nat] /\ \A k \in Runs : used[k] <= Definition[k].reserve
  BY TypeParts DEF DiskInv
<1>1. /\ row[i].state = "active" /\ row' = [row EXCEPT ![i].state = "done"] /\ used' = used
      /\ late' = late /\ i \notin late
  BY DEF Finish, DiskInv, LateEnded, In
<1>2. ActiveOn(d) \in SUBSET Runs /\ Left(d) \in SUBSET Runs BY DEF ActiveOn, Left, In
<1>3. CASE Definition[i].device # d
  <2>1. ActiveOn(d)' = ActiveOn(d) /\ Left(d)' = Left(d)
    BY <1>0, <1>1, <1>3 DEF ActiveOn, Left, In, RowSet
  <2>2. SumOf(Reserve, ActiveOn(d)) \in Nat /\ SumOf(used, Left(d)) \in Nat
    BY <1>0, <1>2, ReserveType, SumType
  <2> QED BY <1>1, <2>1, <2>2
<1>4. CASE Definition[i].device = d
  <2> DEFINE A == ActiveOn(d)
             B == ActiveOn(d) \ {i}
             L == Left(d)
             M == Left(d) \cup {i}
  <2>1. ActiveOn(d)' = B /\ Left(d)' = M
    BY <1>0, <1>1, <1>4 DEF ActiveOn, Left, In, RowSet
  <2>2. A \in SUBSET Runs /\ M \in SUBSET Runs /\ i \in A /\ i \in M /\ M \ {i} = L /\ B \in SUBSET Runs
        /\ L \in SUBSET Runs
    BY <1>1, <1>2, <1>4 DEF ActiveOn, Left, In
  <2>3. SumOf(Reserve, A) = SumOf(Reserve, B) + Reserve[i] BY <2>2, ReserveType, SumRemove
  <2>4. SumOf(used, M) = SumOf(used, L) + used[i]
    <3> HIDE DEF L, M
    <3> QED BY <1>0, <2>2, SumRemove
  <2>5. SumOf(Reserve, A) \in Nat /\ SumOf(Reserve, B) \in Nat /\ SumOf(used, L) \in Nat /\ SumOf(used, M) \in Nat
    <3> HIDE DEF A, B, L, M
    <3> QED BY <1>0, <2>2, ReserveType, SumType
  <2>6. used[i] \in Nat /\ Reserve[i] \in Nat /\ used[i] <= Reserve[i] BY <1>0, ReserveType
  <2> HIDE DEF A, B, L, M
  <2>7. SumOf(Reserve, B) + SumOf(used, M) <= SumOf(Reserve, A) + SumOf(used, L)
    BY <2>3, <2>4, <2>5, <2>6
  <2> QED BY <1>1, <2>1, <2>7 DEF A, L
<1> QED BY <1>3, <1>4

\* The decision charges at least the reserve of every executing run of the
\* device: claims on their device, legacy rows on every one.
LEMMA ReservedCovers ==
    ASSUME DiskInv, NEW d \in Devices
    PROVE  /\ SumOf(Reserve, ActiveOn(d)) <= Reserved(In("active"), d)
           /\ Reserved(In("active"), d) \in Nat /\ SumOf(Reserve, ActiveOn(d)) \in Nat
<1> DEFINE C == {i \in In("active") : row[i].device = d}
           N == {i \in In("active") : row[i].device = None}
           CA == {i \in ActiveOn(d) : row[i].device = d}
           NA == {i \in ActiveOn(d) : row[i].device = None}
<1>0. row \in [Runs -> RowSet] BY TypeParts DEF DiskInv
<1>1. ClaimedReserve \in [Runs -> Nat] BY <1>0 DEF ClaimedReserve, RowSet
<1>2. Reserve \in [Runs -> Nat] /\ None # d BY ReserveType
<1>3. ActiveOn(d) = CA \cup NA BY DEF ActiveOn, DiskInv, ClaimsKept
<1>4. CA \cap NA = {} BY <1>2
<1>5. /\ CA \in SUBSET C /\ NA \in SUBSET N /\ C \in SUBSET Runs /\ N \in SUBSET Runs
      /\ CA \in SUBSET Runs /\ NA \in SUBSET Runs
  BY DEF ActiveOn, In
<1>6. \A i \in CA : Reserve[i] = ClaimedReserve[i]
  <2> SUFFICES ASSUME NEW i \in CA PROVE Reserve[i] = ClaimedReserve[i] OBVIOUS
  <2>1. i \in Runs /\ i \in In("active") /\ row[i].device = d BY DEF ActiveOn, In
  <2>2. row[i].reserve = Definition[i].reserve BY <1>2, <2>1 DEF DiskInv, ClaimsKept
  <2> QED BY <2>1, <2>2, ReserveType DEF ClaimedReserve
<1>7. Reserved(In("active"), d) = SumOf(ClaimedReserve, C) + SumOf(Reserve, N) BY DEF Reserved
<1> HIDE DEF C, N, CA, NA
<1>8. SumOf(Reserve, ActiveOn(d)) = SumOf(Reserve, CA) + SumOf(Reserve, NA)
  BY <1>2, <1>3, <1>4, <1>5, SumUnion
<1>9. SumOf(Reserve, CA) = SumOf(ClaimedReserve, CA) BY <1>1, <1>2, <1>5, <1>6, SumAgree
<1>10. SumOf(ClaimedReserve, CA) <= SumOf(ClaimedReserve, C) /\ SumOf(Reserve, NA) <= SumOf(Reserve, N)
  BY <1>1, <1>2, <1>5, SumSubset
<1>11. /\ SumOf(ClaimedReserve, CA) \in Nat /\ SumOf(ClaimedReserve, C) \in Nat
       /\ SumOf(Reserve, NA) \in Nat /\ SumOf(Reserve, N) \in Nat
  BY <1>1, <1>2, <1>5, SumType
<1> QED BY <1>7, <1>8, <1>9, <1>10, <1>11

\* An admission finds its reserve beside everybody else's.
LEMMA RoomAdmitted ==
    ASSUME DiskInv, [Next]_vars, NEW i \in Runs, NEW p \in Processes, ClaimedBy(p, i)
    PROVE  LET d == Definition[i].device IN
           MinFree + SumOf(Reserve, ActiveOn(d)') + SumOf(used', Left(d)') <= Size[d]
<1> DEFINE d == Definition[i].device
<1>0. row \in [Runs -> RowSet] /\ used \in [Runs -> Nat] /\ TypeOK' /\ disp \in [Processes -> DispSet]
  BY TypeParts, TypesNext DEF DiskInv
<1>1. d \in Devices /\ Reserve \in [Runs -> Nat] /\ Reserve[i] = Definition[i].reserve /\ Reserve[i] \in Nat
  BY ReserveType
<1>2. disp[p].pc = "decide" /\ disp[p].probed /\ i = Candidate(p) /\ row[i].state = "accepted"
  BY DEF ClaimedBy
<1>3. \A k \in Runs : ~Finish(k) BY <1>0, <1>2 DEF ClaimedBy, Claimed, Finish, RowSet
<1> HIDE DEF d
<1> DEFINE q == SumOf(Reserve, ActiveOn(d))
           c == SumOf(used, Left(d))
           n == SumOf(used', Left(d)')
           v == Reserved(In("active"), d)
           A == ActiveOn(d)'
<1>4. n <= c BY <1>1, <1>3, LeftSum
<1>5. q <= v /\ v \in Nat /\ q \in Nat BY <1>1, ReservedCovers
<1>6. c \in Nat /\ n \in Nat
  <2>1. Left(d) \in SUBSET Runs /\ Left(d)' \in SUBSET Runs BY DEF Left
  <2>2. used' \in [Runs -> Nat] BY <1>0, TypePartsNext
  <2> QED BY <1>0, <2>1, <2>2, SumType
<1>7. MinFree + v + Reserve[i] <= disp[p].free
  <2>1. ~(MinFree + Reserved(In("active"), d) + Definition[i].reserve > disp[p].free)
    BY DEF ClaimedBy, AdmissionDecision, d
  <2>2. disp[p].free \in Int BY <1>0 DEF DispSet
  <2> QED BY <1>1, <1>5, <2>1, <2>2, SizeType
<1>8. disp[p].free + c <= Size[d] BY <1>1, <1>2 DEF DiskInv, ProbesFit, ProbeFits, d
<1>9. SumOf(Reserve, A) = q + Reserve[i]
  <2>1. row'[i].state = "active" /\ \A k \in Runs : k # i => row'[k] = row[k]
    BY <1>0 DEF ClaimedBy, Claimed
  <2>2. i \in A /\ A \ {i} = ActiveOn(d) /\ A \in SUBSET Runs
    BY <1>2, <2>1 DEF ActiveOn, In, d
  <2> HIDE DEF A
  <2> QED BY <1>1, <2>2, SumRemove
<1>10. disp[p].free \in Int /\ MinFree \in Nat /\ Size[d] \in Nat BY <1>0, <1>1, SizeType DEF DispSet
<1> HIDE DEF q, c, n, v, A
<1>11. MinFree + SumOf(Reserve, A) + n <= Size[d]
  BY <1>1, <1>4, <1>5, <1>6, <1>7, <1>8, <1>9, <1>10
<1> QED BY <1>11 DEF A, n, d

\* The reserves of executing runs and the use of runs neither executing nor
\* late leave the minimum free: the claim adds up reserves on the rows of the
\* decision, beside a probe that fits.
LEMMA RoomNext == DiskInv /\ [Next]_vars => Room'
<1> SUFFICES ASSUME DiskInv, [Next]_vars, NEW d \in Devices
             PROVE  MinFree + SumOf(Reserve, ActiveOn(d)') + SumOf(used', Left(d)') <= Size[d]
  BY DEF Room
<1> DEFINE q == SumOf(Reserve, ActiveOn(d))
           c == SumOf(used, Left(d))
           m == SumOf(Reserve, ActiveOn(d)')
           n == SumOf(used', Left(d)')
<1>0. MinFree + q + c <= Size[d] /\ MinFree \in Nat /\ Size[d] \in Nat
  BY SizeType DEF DiskInv, Room
<1>1. q \in Nat /\ c \in Nat /\ m \in Nat /\ n \in Nat
  <2>1. used \in [Runs -> Nat] /\ used' \in [Runs -> Nat]
    BY TypeParts, TypePartsNext, TypesNext DEF DiskInv
  <2>2. /\ ActiveOn(d) \in SUBSET Runs /\ ActiveOn(d)' \in SUBSET Runs
        /\ Left(d) \in SUBSET Runs /\ Left(d)' \in SUBSET Runs
    BY DEF ActiveOn, Left, In
  <2> QED BY <2>1, <2>2, ReserveType, SumType
<1>2. ASSUME NEW i \in Runs, Finish(i), \A p \in Processes : disp[p].pc # "decide"
      PROVE  m + n <= q + c
  BY <1>2, UnseenEnd
<1>3. ASSUME \A i \in Runs : Finish(i) => \E p \in Processes : disp[p].pc = "decide",
             ~\E i \in Runs, p \in Processes : ClaimedBy(p, i)
      PROVE  m + n <= q + c
  <2>1. n <= c BY <1>3, LeftSum
  <2>2. ActiveOn(d)' \in SUBSET ActiveOn(d) /\ ActiveOn(d) \in SUBSET Runs
    BY <1>3, ActiveSteps DEF ActiveOn, In, DiskInv
  <2>3. m <= q BY <2>2, ReserveType, SumSubset
  <2> HIDE DEF q, c, m, n
  <2> QED BY <1>1, <2>1, <2>3
<1>4. ASSUME NEW i \in Runs, NEW p \in Processes, ClaimedBy(p, i) PROVE MinFree + m + n <= Size[d]
  <2>1. CASE Definition[i].device = d BY <1>4, <2>1, RoomAdmitted
  <2>2. CASE Definition[i].device # d
    <3>1. row \in [Runs -> RowSet] BY TypeParts DEF DiskInv
    <3>2. row[i].state = "accepted" /\ row'[i].state = "active" /\ \A k \in Runs : k # i => row'[k] = row[k]
      BY <1>4, <3>1 DEF ClaimedBy, Claimed
    <3>3. ActiveOn(d)' = ActiveOn(d) BY <2>2, <3>2 DEF ActiveOn, In
    <3>4. \A k \in Runs : ~Finish(k) BY <3>1, <3>2 DEF Finish, RowSet
    <3>5. n <= c BY <3>4, LeftSum
    <3>6. m = q BY <3>3
    <3> HIDE DEF q, c, m, n
    <3> QED BY <1>0, <1>1, <3>5, <3>6
  <2> QED BY <2>1, <2>2
<1>5. CASE m + n <= q + c
  <2> HIDE DEF q, c, m, n
  <2>1. MinFree + m + n <= Size[d] BY <1>0, <1>1, <1>5
  <2> QED BY <2>1 DEF m, n
<1> QED BY <1>2, <1>3, <1>4, <1>5

\* A probe that waits for its decision shows no more than is free beside the
\* runs that neither execute nor ended behind it.
LEMMA ProbesFitNext == DiskInv /\ [Next]_vars => ProbesFit'
<1> SUFFICES ASSUME DiskInv, [Next]_vars, NEW p \in Processes, disp'[p].pc = "decide", disp'[p].probed,
                    NEW d \in Devices, d = Definition[Candidate(p)'].device
             PROVE  disp'[p].free + SumOf(used', Left(d)') <= Size[d]
  BY DEF ProbesFit, ProbeFits
<1>0. TypeOK /\ disp \in [Processes -> DispSet] /\ used \in [Runs -> Nat] /\ used' \in [Runs -> Nat]
  BY TypeParts, TypePartsNext, TypesNext DEF DiskInv
<1>1. CASE disp'[p] = disp[p]
  <2> DEFINE c == SumOf(used, Left(d))
             n == SumOf(used', Left(d)')
  <2>1. Candidate(p)' = Candidate(p) BY <1>1 DEF Candidate
  <2>4. disp[p].free + c <= Size[d] BY <1>1, <2>1 DEF DiskInv, ProbesFit, ProbeFits
  <2>5. n <= c BY <1>1, LeftSum
  <2>6. c \in Nat /\ n \in Nat
    <3>1. Left(d) \in SUBSET Runs /\ Left(d)' \in SUBSET Runs BY DEF Left
    <3> QED BY <1>0, <3>1, SumType
  <2>7. disp[p].free \in Int /\ Size[d] \in Nat BY <1>0, SizeType DEF DispSet
  <2> HIDE DEF c, n
  <2>8. disp[p].free + n <= Size[d] BY <2>4, <2>5, <2>6, <2>7
  <2> QED BY <1>1, <2>8 DEF n
<1>2. CASE ProbeDiskCapacity(p)
  <2> DEFINE c == SumOf(used, Left(d))
             e == SumOf(used, {i \in Runs : Definition[i].device = d})
  <2>1. PICK ok \in BOOLEAN :
          Become(p, [disp[p] EXCEPT !.pc = "decide", !.probed = ok,
                                    !.free = IF ok THEN Free(Definition[Candidate(p)].device) ELSE 0])
    BY <1>2 DEF ProbeDiskCapacity
  <2>2. disp'[p].todo = disp[p].todo 
        /\ disp'[p].free = IF ok THEN Free(Definition[Candidate(p)].device) ELSE 0
    BY <1>0, <2>1 DEF Become, DispSet
  <2>3. ok BY <1>0, <2>1 DEF Become, DispSet
  <2>4. Candidate(p)' = Candidate(p) BY <2>2 DEF Candidate
  <2>5. disp[p].pc = "check" /\ UNCHANGED <<row, used, late>> BY <1>2 DEF ProbeDiskCapacity
  <2>7. Size[d] \in Nat BY SizeType
  <2>8. c <= e /\ c \in Nat /\ e \in Nat
    <3>1. /\ Left(d) \in SUBSET {i \in Runs : Definition[i].device = d}
          /\ {i \in Runs : Definition[i].device = d} \in SUBSET Runs /\ Left(d) \in SUBSET Runs
      BY DEF Left
    <3> QED BY <1>0, <3>1, SumSubset, SumType
  <2>9. disp'[p].free = Size[d] - e BY <2>2, <2>3, <2>4 DEF Free
  <2>10. SumOf(used', Left(d)') = c BY <2>5 DEF Left
  <2> HIDE DEF c, e
  <2>11. disp'[p].free + c <= Size[d] BY <2>7, <2>8, <2>9
  <2> QED BY <2>10, <2>11
<1> QED BY <1>1, <1>2, DispSteps DEF DiskInv

\* The room an executing run may still fill is there, up to what runs wrote
\* that ended while a probe was waiting for its decision.
THEOREM HeadroomHolds == Spec => []HeadroomKeptUpToLateRuns
<1>1. DiskInv /\ [Next]_vars => DiskInv'
  BY TypesNext, WrittenNext, ClaimsKeptNext, LateEndedNext, RoomNext, ProbesFitNext DEF DiskInv
<1> QED BY <1>1, DiskInit, RoomIsHeadroom, PTL DEF Spec
=============================================================================
