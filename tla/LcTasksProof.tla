---------------------------- MODULE LcTasksProof ----------------------------
(***************************************************************************)
(* The safety of LcTasks for every finite set of workers: IInv of          *)
(* LcTasksInv is inductive and implies the properties that TLC checks.     *)
(***************************************************************************)
EXTENDS LcTasksInv, FiniteSetTheorems, SequenceTheorems, TLAPS

-----------------------------------------------------------------------------
(* How the set of workers that hold a task grows and shrinks.              *)

LEMMA SizesAreNat ==
  /\ Cardinality(Workers) \in Nat /\ MAX_TASKS \in Nat /\ MaxLen \in Nat \ {0}
  /\ Cardinality(Workers) <= MaxLen /\ MAX_TASKS <= MaxLen
BY WorkersAssumption, CapacityAssumption, FS_CardinalityType DEF MaxLen

LEMMA BusyFinite == IsFiniteSet(Busy) /\ Cardinality(Busy) \in Nat
                    /\ (Cardinality(Busy) = 0 <=> Busy = {})
<1>1. Busy \in SUBSET Workers BY DEF Busy
<1>2. IsFiniteSet(Busy) BY <1>1, WorkersAssumption, FS_Subset
<1> QED BY <1>2, FS_CardinalityType, FS_EmptySet

\* A worker that goes from one place to another moves in, out, or neither.
LEMMA BusyMoves ==
  ASSUME pc \in [Workers -> WorkerPlaces], NEW w \in Workers, NEW p, Goto(w, p)
  PROVE  /\ pc[w] \notin {"unlock", "work", "count"} /\ p \in {"unlock", "work", "count"} =>
              Busy' = Busy \cup {w} /\ Cardinality(Busy') = Cardinality(Busy) + 1
         /\ pc[w] \in {"unlock", "work", "count"} /\ p \notin {"unlock", "work", "count"} =>
              Busy' = Busy \ {w} /\ Cardinality(Busy') = Cardinality(Busy) - 1
         /\ (pc[w] \in {"unlock", "work", "count"} <=> p \in {"unlock", "work", "count"}) =>
              Busy' = Busy
<1>1. \A v \in Workers : pc'[v] = IF v = w THEN p ELSE pc[v] BY DEF Goto
<1>2. CASE pc[w] \notin {"unlock", "work", "count"} /\ p \in {"unlock", "work", "count"}
  <2>1. Busy' = Busy \cup {w} BY <1>1, <1>2 DEF Busy
  <2>2. w \notin Busy BY <1>2 DEF Busy
  <2> QED BY <1>2, <2>1, <2>2, BusyFinite, FS_AddElement
<1>3. CASE pc[w] \in {"unlock", "work", "count"} /\ p \notin {"unlock", "work", "count"}
  <2>1. Busy' = Busy \ {w} BY <1>1, <1>3 DEF Busy
  <2>2. w \in Busy BY <1>3 DEF Busy
  <2> QED BY <1>3, <2>1, <2>2, BusyFinite, FS_RemoveElement
<1>4. CASE pc[w] \in {"unlock", "work", "count"} <=> p \in {"unlock", "work", "count"}
  BY <1>1, <1>4 DEF Busy
<1> QED BY <1>2, <1>3, <1>4

-----------------------------------------------------------------------------
(* Consequences of IInv in a single state.                                 *)

\* A worker that holds a task holds one that is in the vector.
LEMMA HeldExists ==
  ASSUME IInv, NEW w \in Busy
  PROVE  /\ w \in Workers /\ id[w] + 1 \in 1 .. Len(tasks) /\ at \in Filling
         /\ task_count = Len(tasks) /\ completed < tasks_taken /\ Busy # {}
<1>1. w \in Workers /\ pc[w] \in {"unlock", "work", "count"} BY DEF Busy
<1>2. at \in Filling BY DEF IInv, SumInv
<1>3. tasks_taken <= Len(tasks) /\ id[w] < tasks_taken /\ id[w] \in 0 .. MaxLen
  BY <1>1, <1>2 DEF IInv, SumInv, TakenInv, TypeOK, Filling
<1>4. Len(tasks) \in Nat /\ tasks_taken \in Nat /\ completed \in Nat
  BY SizesAreNat DEF IInv, TypeOK
<1>5. tasks_taken = completed + Cardinality(Busy) BY <1>2 DEF IInv, SumInv, Filling
<1> QED BY <1>1, <1>2, <1>3, <1>4, <1>5, BusyFinite DEF IInv, CountInv

\* A task more, not complete; the others as they were.
LEMMA OneMore ==
  ASSUME tasks \in Seq(BOOLEAN)
  PROVE  LET t == Append(tasks, FALSE)
         IN  t \in Seq(BOOLEAN) /\ Len(t) = Len(tasks) + 1
             /\ \A i \in 1 .. Len(tasks) : t[i] = tasks[i]
BY AppendProperties

\* A worker passes on a part of its task only in the picking stage.
LEMMA PassOnWhere ==
  ASSUME IInv, NEW w \in Workers, PassOn(w)
  PROVE  at \in {"gather", "wait", "waitCount"}
<1>1. w \in Busy BY DEF PassOn, Busy
<1> QED BY <1>1, HeldExists DEF PassOn, Filling, IInv, CountInv

\* When WaitForTasks has read as many completions as there are tasks, all is done.
LEMMA CountedAll ==
  ASSUME IInv, at = "waitCount", task_count = seen
  PROVE  Busy = {} /\ tasks_taken = Len(tasks) /\ \A i \in 1 .. Len(tasks) : tasks[i]
<1>1. /\ seen <= completed /\ task_count = Len(tasks) /\ tasks_taken <= Len(tasks)
      /\ tasks_taken = completed + Cardinality(Busy)
  BY DEF IInv, CountInv, SumInv, Filling
<1>2. completed \in Nat /\ seen \in Nat /\ Len(tasks) \in Nat /\ tasks_taken \in Nat
  BY SizesAreNat DEF IInv, TypeOK
<1>3. Busy = {} /\ tasks_taken = Len(tasks) BY <1>1, <1>2, BusyFinite
<1>4. \A w \in Workers : pc[w] \notin {"unlock", "work"} BY <1>3 DEF Busy
<1> QED BY <1>3, <1>4 DEF IInv, TakenInv

-----------------------------------------------------------------------------
(* Every step preserves IInv, part by part.                                *)

LEMMA TypeStep == ASSUME IInv, [Next]_vars PROVE TypeOK'
<1> USE SizesAreNat DEF TypeOK, shared, mine, locals
<1>0. TypeOK BY DEF IInv
<1>1. CASE BeginPicking \/ Reset \/ ResetTaken \/ Clear \/ WakeWorkers \/ Gathered
  <2>1. CASE BeginPicking BY <1>0, <2>1 DEF BeginPicking, Stations
  <2>2. CASE Reset BY <1>0, <2>2 DEF Reset, Stations
  <2>3. CASE ResetTaken BY <1>0, <2>3 DEF ResetTaken, Stations
  <2>4. CASE Clear BY <1>0, <2>4, EmptySeq DEF Clear, Stations
  <2>5. CASE WakeWorkers BY <1>0, <2>5 DEF WakeWorkers, Stations
  <2>6. CASE Gathered BY <1>0, <2>6 DEF Gathered, Stations
  <2> QED BY <1>1, <2>1, <2>2, <2>3, <2>4, <2>5, <2>6
<1>2. CASE Gather
  <2>1. task_count = Len(tasks) BY <1>2 DEF Gather, IInv, CountInv, Filling
  <2> QED BY <1>0, <1>2, <2>1, OneMore DEF Gather, PassOff
<1>3. CASE Wait \/ WaitCount \/ Split \/ ShareDone
  BY <1>0, <1>3 DEF Wait, WaitCount, Split, ShareDone, Stations
<1>4. CASE AddProcessing
  <2>1. task_count = Len(tasks) /\ Len(tasks) + toSplit <= Cardinality(Workers)
    BY <1>4 DEF AddProcessing, IInv, CountInv, Filling
  <2> QED BY <1>0, <1>4, <2>1, OneMore DEF AddProcessing
<1>5. CASE EndIteration \/ StartExit \/ Exit \/ Join
  <2>1. CASE EndIteration BY <1>0, <2>1 DEF EndIteration, Stations
  <2>2. CASE StartExit BY <1>0, <2>2 DEF StartExit, Stations
  <2>3. CASE Exit BY <1>0, <2>3 DEF Exit, Stations
  <2>4. CASE Join BY <1>0, <2>4 DEF Join, Stations
  <2> QED BY <1>5, <2>1, <2>2, <2>3, <2>4
<1>6. ASSUME NEW w \in Workers,
             Look(w) \/ Compare(w) \/ Grab(w) \/ Recheck(w) \/ Recompare(w) \/ Unlock(w)
             \/ Sleep(w) \/ Wake(w) \/ Spurious(w)
      PROVE  TypeOK'
  BY <1>0, <1>6 DEF Look, Compare, Grab, Recheck, Recompare, Unlock, Sleep, Wake, Spurious,
                    ReadTaken, Goto, WorkerPlaces
<1>7. ASSUME NEW w \in Workers, Fetch(w) PROVE TypeOK'
  <2>1. tasks_taken < task_count /\ task_count <= MaxLen
    BY <1>0, <1>7 DEF Fetch, IInv, LockInv
  <2> QED BY <1>0, <1>7, <2>1 DEF Fetch, Goto, WorkerPlaces
<1>8. ASSUME NEW w \in Workers, PassOn(w) PROVE TypeOK'
  <2>1. task_count = Len(tasks) BY <1>8, PassOnWhere DEF IInv, CountInv, Filling
  <2> QED BY <1>0, <1>8, <2>1, OneMore DEF PassOn, PassOff
<1>9. ASSUME NEW w \in Workers, Work(w) PROVE TypeOK'
  <2>1. w \in Busy BY <1>9 DEF Work, Busy
  <2>2. id[w] + 1 \in 1 .. Len(tasks) BY <2>1, HeldExists
  <2>3. tasks' \in Seq(BOOLEAN) /\ Len(tasks') = Len(tasks)
    BY <1>0, <1>9, <2>2, ExceptSeq DEF Work
  <2> QED BY <1>0, <1>9, <2>3 DEF Work, Goto, WorkerPlaces
<1>10. ASSUME NEW w \in Workers, Count(w) PROVE TypeOK'
  <2>1. w \in Busy BY <1>10 DEF Count, Busy
  <2>2. completed < tasks_taken BY <2>1, HeldExists
  <2> QED BY <1>0, <1>10, <2>2 DEF Count, Goto, WorkerPlaces
<1>11. CASE UNCHANGED vars BY <1>0, <1>11 DEF vars
<1> QED BY <1>1, <1>2, <1>3, <1>4, <1>5, <1>6, <1>7, <1>8, <1>9, <1>10, <1>11
        DEF Next, Search, RunTasks

LEMMA CountStep == ASSUME IInv, [Next]_vars PROVE CountInv'
<1> USE SizesAreNat DEF CountInv, Filling, shared, mine, locals
<1>0. TypeOK /\ CountInv BY DEF IInv
<1>1. CASE BeginPicking \/ Reset \/ ResetTaken \/ Clear \/ WakeWorkers \/ Gathered
  BY <1>0, <1>1 DEF BeginPicking, Reset, ResetTaken, Clear, WakeWorkers, Gathered, TypeOK
<1>2. CASE Gather BY <1>0, <1>2, OneMore DEF Gather, PassOff, TypeOK
<1>3. CASE Wait \/ WaitCount \/ Split \/ ShareDone
  BY <1>0, <1>3 DEF Wait, WaitCount, Split, ShareDone, TypeOK
<1>4. CASE AddProcessing
  <2>1. task_count = Len(tasks) /\ Len(tasks) + toSplit <= Cardinality(Workers)
    BY <1>0, <1>4 DEF AddProcessing
  <2>2. Len(tasks') = Len(tasks) + 1 BY <1>0, <1>4, OneMore DEF AddProcessing, TypeOK
  <2>3. toSplit \in Nat /\ Len(tasks) \in Nat BY <1>0 DEF TypeOK
  <2> QED BY <1>0, <1>4, <2>1, <2>2, <2>3 DEF AddProcessing
<1>5. CASE EndIteration \/ StartExit \/ Exit \/ Join
  BY <1>0, <1>5 DEF EndIteration, StartExit, Exit, Join
<1>6. ASSUME NEW w \in Workers,
             Look(w) \/ Compare(w) \/ Grab(w) \/ Recheck(w) \/ Recompare(w) \/ Fetch(w)
             \/ Unlock(w) \/ Sleep(w) \/ Wake(w) \/ Spurious(w)
      PROVE  CountInv'
  BY <1>0, <1>6 DEF Look, Compare, Grab, Recheck, Recompare, Fetch, Unlock, Sleep, Wake,
                    Spurious, ReadTaken
<1>7. ASSUME NEW w \in Workers, PassOn(w) PROVE CountInv'
  BY <1>0, <1>7, PassOnWhere, OneMore DEF PassOn, PassOff, TypeOK
<1>8. ASSUME NEW w \in Workers, Work(w) PROVE CountInv'
  <2>1. w \in Busy BY <1>8 DEF Work, Busy
  <2>2. Len(tasks') = Len(tasks) BY <1>0, <1>8, <2>1, HeldExists, ExceptSeq DEF Work, TypeOK
  <2>3. at \in Filling BY <2>1, HeldExists
  <2> QED BY <1>0, <1>8, <2>2, <2>3 DEF Work
<1>9. ASSUME NEW w \in Workers, Count(w) PROVE CountInv'
  BY <1>0, <1>9 DEF Count, TypeOK
<1>10. CASE UNCHANGED vars BY <1>0, <1>10 DEF vars
<1> QED BY <1>1, <1>2, <1>3, <1>4, <1>5, <1>6, <1>7, <1>8, <1>9, <1>10
        DEF Next, Search, RunTasks

\* The search thread's steps that leave the workers, their tasks and the counters alone.
Aside == BeginPicking \/ WakeWorkers \/ Gathered \/ Wait \/ WaitCount \/ Split \/ ShareDone
         \/ Exit \/ Join

LEMMA AsideStep ==
  ASSUME Aside PROVE UNCHANGED <<task_count, tasks_taken, completed, taking, tasks, locals>>
BY DEF Aside, BeginPicking, WakeWorkers, Gathered, Wait, WaitCount, Split, ShareDone, Exit, Join,
       shared

\* Nobody is about to take a task when the search thread leaves the filling stations.
LEMMA NoFetchAfterAll ==
  ASSUME IInv, Aside, NEW w \in Workers, pc[w] = "fetch"
  PROVE  at' \in Filling
<1>1. at \in Filling /\ tasks_taken < task_count BY DEF IInv, LockInv
<1>2. at = "waitCount" => task_count # seen
  <2> SUFFICES ASSUME at = "waitCount", task_count = seen PROVE FALSE OBVIOUS
  <2>1. tasks_taken = Len(tasks) BY CountedAll
  <2>2. task_count = Len(tasks) BY <1>1 DEF IInv, CountInv
  <2> QED BY <1>1, <2>1, <2>2 DEF IInv, TypeOK
<1> QED BY <1>1, <1>2 DEF Aside, BeginPicking, WakeWorkers, Gathered, Wait, WaitCount, Split,
                          ShareDone, Exit, Join, Filling

LEMMA LockStep == ASSUME IInv, [Next]_vars PROVE LockInv'
<1> USE DEF LockInv, Locked
<1>0. TypeOK /\ LockInv BY DEF IInv
<1>1. CASE Aside
  BY <1>0, <1>1, AsideStep, NoFetchAfterAll DEF locals
<1>2. CASE Reset \/ ResetTaken \/ Clear \/ EndIteration \/ StartExit
  <2>1. at \notin Filling BY <1>2 DEF Reset, ResetTaken, Clear, EndIteration, StartExit, Filling
  <2>2. tasks_taken' \in {0, tasks_taken}
    BY <1>2 DEF Reset, ResetTaken, Clear, EndIteration, StartExit
  <2>3. \A w \in Workers : nta[w] \in Nat BY <1>0 DEF TypeOK
  <2>4. UNCHANGED <<taking, pc, nta>>
    BY <1>2 DEF Reset, ResetTaken, Clear, EndIteration, StartExit, locals
  <2> QED BY <1>0, <2>1, <2>2, <2>3, <2>4
<1>3. CASE Gather \/ AddProcessing
  <2>1. at' = at /\ task_count' = task_count + 1 /\ UNCHANGED <<tasks_taken, taking, pc, nta>>
    BY <1>3 DEF Gather, AddProcessing, PassOff, mine, locals
  <2> QED BY <1>0, <2>1 DEF TypeOK
<1>4. ASSUME NEW w \in Workers,
             Look(w) \/ Compare(w) \/ Work(w) \/ Count(w) \/ Sleep(w) \/ Wake(w)
      PROVE  LockInv'
  <2>1. /\ UNCHANGED <<task_count, tasks_taken, taking, mine>>
        /\ pc[w] \notin Locked
        /\ \E p \in WorkerPlaces \ Locked : Goto(w, p)
        /\ \A v \in Workers \ {w} : nta'[v] = nta[v]
    BY <1>0, <1>4 DEF Look, Compare, Work, Count, Sleep, Wake, ReadTaken, TypeOK, shared,
                      WorkerPlaces
  <2>2. \A v \in Workers : v # w => pc'[v] = pc[v]
    BY <1>0, <2>1 DEF Goto, TypeOK
  <2>3. pc'[w] \notin Locked BY <1>0, <2>1 DEF Goto, TypeOK
  <2> QED BY <1>0, <2>1, <2>2, <2>3 DEF mine
<1>5. ASSUME NEW w \in Workers, Grab(w) PROVE LockInv'
  BY <1>0, <1>5 DEF Grab, Goto, TypeOK, mine, WorkerPlaces
<1>6. ASSUME NEW w \in Workers, Recheck(w) PROVE LockInv'
  BY <1>0, <1>6 DEF Recheck, ReadTaken, Goto, TypeOK, shared, mine
<1>7. ASSUME NEW w \in Workers, Recompare(w) PROVE LockInv'
  <2>1. tasks_taken <= nta[w] BY <1>0, <1>7 DEF Recompare
  <2>2. ASSUME nta[w] < task_count PROVE at \in Filling /\ tasks_taken < task_count
    <3>1. nta[w] \in Nat /\ tasks_taken \in Nat /\ task_count \in Int /\ Len(tasks) \in Nat
      BY <1>0, SizesAreNat DEF TypeOK
    <3>2. tasks_taken < task_count BY <2>1, <2>2, <3>1
    <3>3. SumInv /\ CountInv BY DEF IInv
    <3>4. at \in Filling
      <4> SUFFICES ASSUME at \notin Filling PROVE FALSE OBVIOUS
      <4>1. task_count <= 0 \/ task_count = Len(tasks)
        BY <1>0, <3>1, <3>3 DEF CountInv, Filling, TypeOK, Stations
      <4>2. (tasks_taken = 0 /\ task_count = 0) \/ tasks_taken = Len(tasks)
        BY <3>3 DEF SumInv, CountInv, Filling
      <4> QED BY <3>1, <3>2, <4>1, <4>2
    <3> QED BY <3>2, <3>4
  <2> QED BY <1>0, <1>7, <2>2 DEF Recompare, Goto, TypeOK, mine
<1>8. ASSUME NEW w \in Workers, Fetch(w) PROVE LockInv'
  <2>1. \A v \in Workers : v # w => pc[v] \notin Locked BY <1>0, <1>8 DEF Fetch
  <2> QED BY <1>0, <1>8, <2>1 DEF Fetch, Goto, TypeOK, mine
<1>9. ASSUME NEW w \in Workers, Unlock(w) PROVE LockInv'
  BY <1>0, <1>9 DEF Unlock, Goto, TypeOK, mine
<1>10. ASSUME NEW w \in Workers, PassOn(w) PROVE LockInv'
  BY <1>0, <1>10 DEF PassOn, PassOff, TypeOK, mine, locals
<1>11. CASE UNCHANGED vars \/ \E w \in Workers : Spurious(w)
  BY <1>0, <1>11 DEF vars, shared, mine, locals, Spurious
<1> QED BY <1>1, <1>2, <1>3, <1>4, <1>5, <1>6, <1>7, <1>8, <1>9, <1>10, <1>11
        DEF Next, Search, RunTasks, Aside

\* A worker's steps that neither take nor finish nor count a task.
Idle(w) == Look(w) \/ Compare(w) \/ Grab(w) \/ Recheck(w) \/ Recompare(w) \/ Unlock(w)
           \/ Sleep(w) \/ Wake(w) \/ Spurious(w)

LEMMA IdleStep ==
  ASSUME TypeOK, NEW w \in Workers, Idle(w)
  PROVE  /\ UNCHANGED <<task_count, tasks_taken, completed, tasks, at, id>>
         /\ Busy' = Busy
         /\ \A v \in Workers : pc[v] \in {"unlock", "work"} => pc'[v] \in {"unlock", "work"}
<1>1. UNCHANGED <<task_count, tasks_taken, completed, tasks, at, id>>
  BY DEF Idle, Look, Compare, Grab, Recheck, Recompare, Unlock, Sleep, Wake, Spurious, ReadTaken,
         shared, mine, locals
<1>2. CASE pc' = pc BY <1>1, <1>2 DEF Busy
<1>3. CASE pc[w] = "unlock" /\ Goto(w, "work")
  BY <1>1, <1>3, BusyMoves DEF TypeOK, Goto
<1>4. ASSUME NEW p \in WorkerPlaces \ {"unlock", "work", "count"}, Goto(w, p),
             pc[w] \notin {"unlock", "work", "count"}
      PROVE  /\ Busy' = Busy
             /\ \A v \in Workers :
                   pc[v] \in {"unlock", "work"} => pc'[v] \in {"unlock", "work"}
  BY <1>4, BusyMoves DEF TypeOK, Goto
<1>5. \/ pc' = pc
      \/ pc[w] = "unlock" /\ Goto(w, "work")
      \/ /\ pc[w] \notin {"unlock", "work", "count"}
         /\ \E p \in WorkerPlaces \ {"unlock", "work", "count"} : Goto(w, p)
  BY DEF Idle, Look, Compare, Grab, Recheck, Recompare, Unlock, Sleep, Wake, Spurious, ReadTaken,
         locals, WorkerPlaces
<1> QED BY <1>1, <1>2, <1>3, <1>4, <1>5

LEMMA TakenStep == ASSUME IInv, [Next]_vars PROVE TakenInv'
<1>0. TypeOK /\ TakenInv /\ SumInv BY DEF IInv
<1>1. CASE Aside \/ Reset \/ EndIteration \/ StartExit \/ UNCHANGED vars
  <2>1. UNCHANGED <<tasks_taken, tasks, pc, id>>
    BY <1>1, AsideStep DEF Reset, EndIteration, StartExit, vars, shared, locals
  <2>2. Busy' = Busy BY <2>1 DEF Busy
  <2> QED BY <1>0, <2>1, <2>2 DEF TakenInv
<1>2. CASE ResetTaken \/ Clear
  <2>1. Busy = {} /\ tasks_taken' = 0 /\ pc' = pc
    BY <1>0, <1>2 DEF ResetTaken, Clear, SumInv, Filling, locals
  <2>2. Busy' = {} BY <2>1 DEF Busy
  <2> QED BY <2>1, <2>2 DEF TakenInv
<1>3. ASSUME tasks' = Append(tasks, FALSE), UNCHANGED <<tasks_taken, pc, id>> PROVE TakenInv'
  <2>1. Busy' = Busy BY <1>3 DEF Busy
  <2>2. tasks_taken \in Nat /\ Len(tasks) \in Nat /\ tasks_taken <= Len(tasks)
    BY <1>0 DEF TypeOK, SumInv
  <2>3. \A i \in 1 .. Len(tasks) : tasks'[i] = tasks[i] BY <1>0, <1>3, OneMore DEF TypeOK
  <2> QED BY <1>0, <1>3, <2>1, <2>2, <2>3 DEF TakenInv
<1>4. ASSUME NEW w \in Workers, Idle(w) PROVE TakenInv'
  BY <1>0, <1>4, IdleStep DEF TakenInv
<1>5. ASSUME NEW w \in Workers, Fetch(w) PROVE TakenInv'
  <2>1. Busy' = Busy \cup {w} BY <1>0, <1>5, BusyMoves DEF Fetch, TypeOK
  <2>2. /\ tasks' = tasks /\ tasks_taken' = tasks_taken + 1
        /\ id'[w] = tasks_taken /\ pc'[w] = "unlock"
        /\ \A v \in Workers : v # w => id'[v] = id[v] /\ pc'[v] = pc[v]
    BY <1>0, <1>5 DEF Fetch, Goto, TypeOK
  <2>3. tasks_taken \in Nat /\ \A v \in Workers : id[v] \in Nat BY <1>0 DEF TypeOK
  <2>4. w \notin Busy /\ Busy \subseteq Workers BY <1>5 DEF Fetch, Busy
  <2>5. \A i \in 1 .. tasks_taken : tasks[i] \/ \E v \in Workers :
            v # w /\ pc[v] \in {"unlock", "work"} /\ id[v] + 1 = i
    BY <1>0, <1>5 DEF TakenInv, Fetch
  <2>6. \A v \in Busy' :
          id'[v] < tasks_taken' /\ \A u \in Busy' : u # v => id'[u] # id'[v]
    BY <1>0, <2>1, <2>2, <2>3, <2>4 DEF TakenInv
  <2>7. \A i \in 1 .. tasks_taken' :
          tasks'[i] \/ \E v \in Workers : pc'[v] \in {"unlock", "work"} /\ id'[v] + 1 = i
    BY <2>2, <2>3, <2>5
  <2> QED BY <2>6, <2>7 DEF TakenInv
<1>6. ASSUME NEW w \in Workers, Work(w) PROVE TakenInv'
  <2>1. Busy' = Busy BY <1>0, <1>6, BusyMoves DEF Work, TypeOK
  <2>2. w \in Busy BY <1>6 DEF Work, Busy
  <2>3. /\ tasks'[id[w] + 1]
        /\ \A i \in 1 .. Len(tasks) : i # id[w] + 1 => tasks'[i] = tasks[i]
    <3>1. id[w] + 1 \in 1 .. Len(tasks) BY <2>2, HeldExists
    <3>2. tasks \in [1 .. Len(tasks) -> BOOLEAN] BY <1>0 DEF TypeOK
    <3> QED BY <1>6, <3>1, <3>2 DEF Work
  <2>4. tasks_taken <= Len(tasks) /\ UNCHANGED <<tasks_taken, id>>
        /\ \A v \in Workers : v # w => pc'[v] = pc[v]
    BY <1>0, <1>6 DEF Work, Goto, SumInv, TypeOK
  <2>5. \A i \in 1 .. tasks_taken : i \in 1 .. Len(tasks) BY <1>0, <2>4 DEF TypeOK
  <2> QED BY <1>0, <2>1, <2>3, <2>4, <2>5 DEF TakenInv
<1>7. ASSUME NEW w \in Workers, Count(w) PROVE TakenInv'
  <2>1. Busy' = Busy \ {w} BY <1>0, <1>7, BusyMoves DEF Count, TypeOK
  <2>2. \A v \in Workers : pc[v] \in {"unlock", "work"} => pc'[v] = pc[v]
    BY <1>0, <1>7 DEF Count, Goto, TypeOK
  <2> QED BY <1>0, <1>7, <2>1, <2>2 DEF TakenInv, Count
<1> QED BY <1>1, <1>2, <1>3, <1>4, <1>5, <1>6, <1>7
        DEF Next, Search, RunTasks, Aside, Idle, Gather, AddProcessing, PassOn, PassOff, locals

LEMMA SumStep == ASSUME IInv, [Next]_vars PROVE SumInv'
<1>0. TypeOK /\ CountInv /\ SumInv BY DEF IInv
<1>a. /\ tasks_taken \in Nat /\ completed \in Nat /\ Len(tasks) \in Nat
      /\ Cardinality(Busy) \in Nat /\ Cardinality({}) = 0
  BY <1>0, BusyFinite, FS_EmptySet DEF TypeOK
<1>1. CASE Aside
  <2>1. UNCHANGED <<tasks_taken, completed, tasks>> /\ Busy' = Busy
    BY <1>1, AsideStep DEF locals, Busy
  <2>2. at # "clear" /\ at' # "clear"
    BY <1>1 DEF Aside, BeginPicking, WakeWorkers, Gathered, Wait, WaitCount, Split, ShareDone,
                Exit, Join
  <2>3. at' \notin Filling =>
          Busy = {} /\ tasks_taken = Len(tasks) /\ \A i \in 1 .. Len(tasks) : tasks[i]
    <3>1. CASE at \notin Filling BY <1>0, <2>2, <3>1 DEF SumInv
    <3>2. CASE at \in Filling
      <4> SUFFICES ASSUME at' \notin Filling PROVE at = "waitCount" /\ task_count = seen
        BY CountedAll
      <4> QED BY <1>1, <3>2 DEF Aside, BeginPicking, WakeWorkers, Gathered, Wait, WaitCount,
                                Split, ShareDone, Exit, Join, Filling
    <3> QED BY <3>1, <3>2
  <2> QED BY <1>0, <2>1, <2>2, <2>3 DEF SumInv
<1>2. CASE Reset \/ EndIteration \/ StartExit
  <2>1. UNCHANGED <<tasks_taken, completed, tasks, pc>>
        /\ at \notin Filling \cup {"clear"} /\ at' # "clear"
    BY <1>2 DEF Reset, EndIteration, StartExit, locals, Filling
  <2>2. Busy' = Busy BY <2>1 DEF Busy
  <2> QED BY <1>0, <2>1, <2>2 DEF SumInv
<1>3. CASE ResetTaken
  <2>1. at = "resetTaken" /\ at' = "clear" /\ tasks_taken' = 0 /\ tasks' = tasks /\ pc' = pc
    BY <1>3 DEF ResetTaken, locals
  <2>2. Busy' = Busy BY <2>1 DEF Busy
  <2> QED BY <1>0, <1>a, <2>1, <2>2 DEF SumInv, Filling
<1>4. CASE Clear
  <2>1. /\ at = "clear" /\ at' \in {"wake", "split"} /\ completed' = 0 /\ tasks' = << >>
        /\ tasks_taken' = tasks_taken /\ pc' = pc
    BY <1>4 DEF Clear, locals
  <2>2. Busy = {} /\ tasks_taken = 0 BY <1>0, <2>1 DEF SumInv, Filling
  <2>3. Busy' = {} BY <2>1, <2>2 DEF Busy
  <2>4. Len(tasks') = 0 /\ tasks_taken' = 0 /\ Cardinality(Busy') = 0
    BY <1>a, <2>1, <2>2, <2>3
  <2> QED BY <2>1, <2>3, <2>4 DEF SumInv, Filling
<1>5. ASSUME tasks' = Append(tasks, FALSE), UNCHANGED <<tasks_taken, completed, pc>>,
             at \in Filling, at' = at
      PROVE  SumInv'
  <2>1. Busy' = Busy BY <1>5 DEF Busy
  <2>2. Len(tasks') = Len(tasks) + 1 BY <1>0, <1>5, OneMore DEF TypeOK
  <2> QED BY <1>0, <1>a, <1>5, <2>1, <2>2 DEF SumInv, Filling
<1>6. ASSUME NEW w \in Workers, Idle(w) \/ UNCHANGED vars PROVE SumInv'
  <2>1. UNCHANGED <<tasks_taken, completed, tasks, at>> /\ Busy' = Busy
    BY <1>0, <1>6, IdleStep DEF vars, shared, mine, locals, Busy
  <2> QED BY <1>0, <2>1 DEF SumInv
<1>7. ASSUME NEW w \in Workers, Fetch(w) PROVE SumInv'
  <2>1. Cardinality(Busy') = Cardinality(Busy) + 1
    BY <1>0, <1>7, BusyMoves DEF Fetch, TypeOK
  <2>2. at \in Filling /\ tasks_taken < task_count BY <1>7 DEF Fetch, IInv, LockInv
  <2>3. tasks_taken + 1 <= Len(tasks) BY <1>0, <1>a, <2>2 DEF CountInv
  <2> QED BY <1>0, <1>a, <1>7, <2>1, <2>2, <2>3 DEF Fetch, SumInv, Filling, mine
<1>8. ASSUME NEW w \in Workers, Work(w) PROVE SumInv'
  <2>1. Busy' = Busy BY <1>0, <1>8, BusyMoves DEF Work, TypeOK
  <2>2. w \in Busy BY <1>8 DEF Work, Busy
  <2>3. Len(tasks') = Len(tasks) BY <1>0, <1>8, <2>2, HeldExists, ExceptSeq DEF Work, TypeOK
  <2>4. at \in Filling BY <2>2, HeldExists
  <2> QED BY <1>0, <1>8, <2>1, <2>3, <2>4 DEF Work, SumInv, Filling, mine
<1>9. ASSUME NEW w \in Workers, Count(w) PROVE SumInv'
  <2>1. Cardinality(Busy') = Cardinality(Busy) - 1
    BY <1>0, <1>9, BusyMoves DEF Count, TypeOK
  <2>2. at \in Filling BY <1>9, HeldExists DEF Count, Busy
  <2> QED BY <1>0, <1>a, <1>9, <2>1, <2>2 DEF Count, SumInv, Filling, mine
<1>10. CASE UNCHANGED vars
  BY <1>0, <1>10 DEF SumInv, Busy, vars, shared, mine, locals
<1>11. CASE Gather \/ AddProcessing \/ \E w \in Workers : PassOn(w)
  <2>1. at \in Filling BY <1>11, PassOnWhere DEF Gather, AddProcessing, Filling
  <2> QED BY <1>5, <1>11, <2>1 DEF Gather, AddProcessing, PassOn, PassOff, mine, locals
<1> QED BY <1>1, <1>2, <1>3, <1>4, <1>6, <1>7, <1>8, <1>9, <1>10, <1>11
        DEF Next, Search, RunTasks, Aside, Idle

-----------------------------------------------------------------------------
(* The invariant and what follows from it.                                 *)

LEMMA InitInv == ASSUME Init PROVE IInv
<1>1. Busy = {} BY DEF Init, Busy
<1>2. TypeOK
  <2>1. << >> \in Seq(BOOLEAN) /\ Len(<< >>) = 0 BY EmptySeq
  <2>2. task_count \in -1 .. MaxLen BY SizesAreNat DEF Init
  <2>3. at \in Stations /\ stage \in {"pick", "process"} /\ asleep \subseteq Workers
    BY DEF Init, Stations
  <2>4. pc \in [Workers -> WorkerPlaces] BY DEF Init, WorkerPlaces
  <2>5. 0 \in 0 .. MaxLen /\ 0 <= MaxLen BY SizesAreNat
  <2>6. /\ {tasks_taken, completed, seen, toSplit} \subseteq 0 .. MaxLen
        /\ {nta, id} \subseteq [Workers -> 0 .. MaxLen]
    BY <2>5 DEF Init
  <2>7. tasks \in Seq(BOOLEAN) /\ Len(tasks) <= MaxLen BY <2>1, <2>5 DEF Init
  <2> QED BY <2>2, <2>3, <2>4, <2>6, <2>7 DEF Init, TypeOK
<1>3. CountInv BY SizesAreNat DEF Init, CountInv, Filling
<1>4. LockInv BY DEF Init, LockInv, Locked
<1>5. TakenInv BY <1>1 DEF Init, TakenInv
<1>6. SumInv BY <1>1, FS_EmptySet DEF Init, SumInv, Filling
<1> QED BY <1>2, <1>3, <1>4, <1>5, <1>6 DEF IInv

LEMMA Inductive == ASSUME IInv, [Next]_vars PROVE IInv'
BY TypeStep, CountStep, LockStep, TakenStep, SumStep DEF IInv

\* In every reachable state, the invariant of the counters and the tasks holds.
THEOREM TasksInvariant == Spec => []IInv
<1>1. Init => IInv BY InitInv
<1>2. IInv /\ [Next]_vars => IInv' BY Inductive
<1> QED BY <1>1, <1>2, PTL DEF Spec

\* For every number of workers the counters stay within their bounds: none of them
\* exceeds the number of tasks there can be.
THEOREM TypeCorrect == Spec => []TypeOK
<1>1. IInv => TypeOK BY DEF IInv
<1> QED BY <1>1, TasksInvariant, PTL

\* A task is never taken by two workers, nor taken before it is added, and as long as
\* there are no more workers than reserved places the vector is never reallocated
\* under the pointers they hold.
THEOREM EveryTaskTakenOnce ==
  ASSUME Cardinality(Workers) <= MAX_TASKS PROVE Spec => []TakenOnce
<1>1. ASSUME IInv PROVE TakenOnce
  <2>1. MaxLen = MAX_TASKS BY SizesAreNat DEF MaxLen
  <2>2. \A w \in Busy : id[w] + 1 \in 1 .. Len(tasks) BY <1>1, HeldExists
  <2>3. \A w \in Busy : id[w] \in Nat /\ Len(tasks) \in Nat
    BY <1>1 DEF IInv, TypeOK, Busy
  <2> QED BY <1>1, <2>1, <2>2, <2>3 DEF IInv, TypeOK, TakenInv, TakenOnce
<1> QED BY <1>1, TasksInvariant, PTL

\* WaitForTasks waits for all the tasks, with any number of workers: past it they are
\* complete, and no worker is at one.
THEOREM AllTasksWaitedFor == Spec => []WaitedForAll
<1>1. IInv => WaitedForAll BY DEF IInv, SumInv, WaitedForAll, Filling
<1> QED BY <1>1, TasksInvariant, PTL
=============================================================================
