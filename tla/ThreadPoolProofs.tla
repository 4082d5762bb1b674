-------------------------- MODULE ThreadPoolProofs --------------------------
(***************************************************************************)
(* Proofs about ThreadPool for any number of threads and items.            *)
(*                                                                         *)
(* The inductive invariant joins the properties the runs check with the    *)
(* facts that tie the flags to the program counters: run is set exactly    *)
(* while the pool is up, and a worker holds an item exactly while it works.*)
(***************************************************************************)
EXTENDS ThreadPool, FiniteSetTheorems, TLAPS

\* The flags agree with the program counters.
FlagsMatchPcs ==
    /\ run <=> ownerPc \in {"starting", "running"}
    /\ \A t \in Threads : job[t] # NoJob <=> pc[t] = "work"
    /\ \A t \in Threads : pc[t] = "ending" => t \in Dynamic

TypeInv    == TypeOK /\ BusyNeverUnderflows
ControlInv == FlagsMatchPcs /\ PoolAccounting /\ NobodySleepsThroughStop

\* What a critical section of the owner and of popJob may do to the others'
\* program counters: wake some sleepers, nothing else.
LEMMA SignalledWakes ==
    ASSUME NEW pcs \in [Threads -> WorkerPcs], NEW p \in Signalled(pcs)
    PROVE  /\ p \in [Threads -> WorkerPcs]
           /\ \A t \in Threads : p[t] = pcs[t] \/ (pcs[t] = "waiting" /\ p[t] = "woken")
BY DEF Signalled, WorkerPcs

-----------------------------------------------------------------------------
(***************************************************************************)
(* Types and the busy counter.                                             *)
(***************************************************************************)

LEMMA ThreadsFinite == IsFiniteSet(Threads)
BY PoolAssumption, FS_Union DEF Threads

\* The marked threads are a finite set.
LEMMA BusyFinite == IsFiniteSet(Busy) /\ Cardinality(Busy) \in Nat
<1>1. Busy \in SUBSET Threads
  BY DEF Busy
<1>. QED
  BY <1>1, ThreadsFinite, FS_Subset, FS_CardinalityType

\* Clearing the mark of one thread removes it from the marked ones.
LEMMA ClearMark ==
    ASSUME TypeOK, NEW t \in Threads, isBusy' = [isBusy EXCEPT ![t] = FALSE]
    PROVE  Cardinality(Busy') = IF isBusy[t] THEN Cardinality(Busy) - 1 ELSE Cardinality(Busy)
<1>1. Busy' = Busy \ {t}
  BY DEF TypeOK, Busy
<1>2. t \in Busy <=> isBusy[t]
  BY DEF Busy
<1>. QED
  BY <1>1, <1>2, BusyFinite, FS_RemoveElement

\* Setting the mark of one thread adds it to them.
LEMMA SetMark ==
    ASSUME TypeOK, NEW t \in Threads, isBusy' = [isBusy EXCEPT ![t] = TRUE]
    PROVE  Cardinality(Busy') = IF isBusy[t] THEN Cardinality(Busy) ELSE Cardinality(Busy) + 1
<1>1. Busy' = Busy \cup {t}
  BY DEF TypeOK, Busy
<1>2. t \in Busy <=> isBusy[t]
  BY DEF Busy
<1>. QED
  BY <1>1, <1>2, BusyFinite, FS_AddElement

\* Leaving the marks alone leaves the counter's bound alone.
LEMMA SameMarks ==
    ASSUME BusyNeverUnderflows, UNCHANGED <<isBusy, busyThreads>>
    PROVE  BusyNeverUnderflows'
<1>1. Busy' = Busy
  BY DEF Busy
<1>. QED
  BY <1>1 DEF BusyNeverUnderflows

LEMMA CreateTypes ==
    ASSUME TypeInv, NEW t \in Threads, Create(t), busyThreads' = busyThreads
    PROVE  /\ threads' \in SUBSET Threads /\ createdThreads' \in Nat
           /\ skipWait' \in [Threads -> BOOLEAN] /\ isBusy' \in [Threads -> BOOLEAN]
           /\ job' \in [Threads -> Jobs \cup {NoJob}]
           /\ BusyNeverUnderflows'
<1>1. isBusy' = [isBusy EXCEPT ![t] = FALSE]
  BY DEF Create
<1>2. Cardinality(Busy') = IF isBusy[t] THEN Cardinality(Busy) - 1 ELSE Cardinality(Busy)
  BY <1>1, ClearMark DEF TypeInv
<1>3. BusyNeverUnderflows'
  <2>1. Cardinality(Busy') <= Cardinality(Busy) /\ Cardinality(Busy') \in Int
    BY <1>2, BusyFinite
  <2>. QED
    BY <2>1, BusyFinite DEF TypeInv, TypeOK, BusyNeverUnderflows
<1>. QED
  BY <1>3 DEF TypeInv, TypeOK, Create

\* While the pool runs, the threads shrink() joins are among those it counts.
LEMMA ShrinkCounts ==
    ASSUME TypeOK, ControlInv, Shrink
    PROVE  createdThreads' = Cardinality(threads') /\ createdThreads' \in Nat
           /\ createdThreads' <= createdThreads
<1>1. threads \in SUBSET Threads /\ IsFiniteSet(threads)
  BY ThreadsFinite, FS_Subset DEF TypeOK
<1>2. finished \in SUBSET threads /\ createdThreads = Cardinality(threads)
  BY DEF TypeOK, ControlInv, PoolAccounting, Shrink, Threads
<1>3. IsFiniteSet(finished) /\ threads \cap finished = finished
  BY <1>1, <1>2, FS_Subset
<1>4. Cardinality(threads \ finished) = Cardinality(threads) - Cardinality(finished)
      /\ IsFiniteSet(threads \ finished)
  BY <1>1, <1>3, FS_Difference
<1>5. Cardinality(threads) \in Nat /\ Cardinality(finished) \in Nat
      /\ Cardinality(threads \ finished) \in Nat
  BY <1>1, <1>3, <1>4, FS_CardinalityType
<1>6. threads' = threads \ finished /\ createdThreads' = createdThreads - Cardinality(finished)
  BY DEF Shrink
<1>. QED
  BY <1>2, <1>4, <1>5, <1>6

\* No action breaks the types or lets the counter fall behind the marks.
LEMMA TypeStep == TypeInv /\ ControlInv /\ [Next]_vars => TypeInv'
<1>. SUFFICES ASSUME TypeInv, ControlInv, [Next]_vars PROVE TypeInv'
  OBVIOUS
<1>. USE DEF TypeInv
<1>1. CASE Start
  BY <1>1, SameMarks DEF Start, TypeOK, workerVars
<1>2. CASE LockQueue
  BY <1>2, SameMarks DEF LockQueue, TypeOK, ownerVars, workerVars
<1>3. CASE UnlockQueue
  BY <1>3, SameMarks DEF UnlockQueue, TypeOK, ownerVars, workerVars
<1>4. CASE Shrink
  <2>1. /\ threads' \in SUBSET Threads /\ pc' \in [Threads -> WorkerPcs]
        /\ createdThreads' = createdThreads - Cardinality(finished)
    BY <1>4 DEF Shrink, TypeOK, WorkerPcs
  <2>2. createdThreads' \in Nat
    BY <1>4, ShrinkCounts
  <2>. QED
    BY <1>4, <2>1, <2>2, SameMarks DEF Shrink, TypeOK, workerVars
<1>5. CASE Stop
  BY <1>5, SameMarks DEF Stop, Broadcast, TypeOK, WorkerPcs, workerVars
<1>6. CASE Stopped
  BY <1>6, SameMarks DEF Stopped, TypeOK, workerVars
<1>7. ASSUME NEW t \in Static, StartThread(t) PROVE TypeInv'
  BY <1>7, CreateTypes DEF StartThread, TypeOK, WorkerPcs, Threads
<1>8. ASSUME NEW j \in Jobs, AddToQueue(j) PROVE TypeInv'
  <2>1. /\ run' \in BOOLEAN /\ queueLocked' \in BOOLEAN /\ queue' \in Seq(Jobs)
        /\ finished' \in SUBSET Dynamic /\ busyThreads' \in Nat /\ busyThreads' = busyThreads
        /\ ownerPc' \in {"new", "starting", "running", "stopping", "stopped"}
        /\ added' \in SUBSET Jobs /\ done' \in SUBSET Jobs
    BY <1>8 DEF AddToQueue, TypeOK
  <2>2. CASE WantsGrow
    <3>1. PICK d \in Dynamic : Create(d) /\ pc' \in Signalled([pc EXCEPT ![d] = "pop"])
      BY <1>8, <2>2 DEF AddToQueue
    <3>2. [pc EXCEPT ![d] = "pop"] \in [Threads -> WorkerPcs]
      BY DEF TypeOK, WorkerPcs
    <3>3. pc' \in [Threads -> WorkerPcs]
      BY <3>1, <3>2, SignalledWakes
    <3>. QED
      BY <2>1, <3>1, <3>3, CreateTypes DEF TypeOK, Threads
  <2>3. CASE ~WantsGrow
    <3>1. pc' \in Signalled(pc) /\ UNCHANGED <<threads, createdThreads, workerVars>>
      BY <1>8, <2>3 DEF AddToQueue
    <3>2. pc' \in [Threads -> WorkerPcs]
      BY <3>1, SignalledWakes DEF TypeOK
    <3>. QED
      BY <2>1, <3>1, <3>2, SameMarks DEF TypeOK, workerVars
  <2>. QED
    BY <2>2, <2>3
<1>9. ASSUME NEW t \in Threads, Join(t) PROVE TypeInv'
  BY <1>9, SameMarks DEF Join, TypeOK, WorkerPcs, workerVars
<1>10. ASSUME NEW t \in Threads, PopNotRunning(t) PROVE TypeInv'
  BY <1>10, SameMarks DEF PopNotRunning, TypeOK, WorkerPcs, ownerVars, workerVars
<1>11. ASSUME NEW t \in Threads, PopWait(t) PROVE TypeInv'
  <2>1. Cardinality(Busy') = IF isBusy[t] THEN Cardinality(Busy) - 1 ELSE Cardinality(Busy)
    BY <1>11, ClearMark DEF PopWait
  <2>2. isBusy[t] => Cardinality(Busy) >= 1
    BY BusyFinite, FS_EmptySet DEF Busy
  <2>3. busyThreads' = IF isBusy[t] THEN busyThreads - 1 ELSE busyThreads
    BY <1>11 DEF PopWait
  <2>4. busyThreads' \in Nat /\ BusyNeverUnderflows'
    BY <2>1, <2>2, <2>3, BusyFinite DEF TypeOK, BusyNeverUnderflows
  <2>. QED
    BY <1>11, <2>4 DEF PopWait, TypeOK, WorkerPcs, ownerVars
<1>12. ASSUME NEW t \in Threads, PopEmpty(t) PROVE TypeInv'
  BY <1>12, SameMarks DEF PopEmpty, TypeOK, WorkerPcs, ownerVars, workerVars
<1>13. ASSUME NEW t \in Threads, NEW slept \in BOOLEAN, PopItem(t, slept) PROVE TypeInv'
  <2>1. pc' \in [Threads -> WorkerPcs]
    <3>1. [pc EXCEPT ![t] = "work"] \in [Threads -> WorkerPcs]
      BY DEF TypeOK, WorkerPcs
    <3>. QED
      BY <1>13, <3>1, SignalledWakes DEF PopItem
  <2>2. busyThreads' \in Nat /\ BusyNeverUnderflows'
    <3>1. CASE slept
      <4>1. isBusy' = [isBusy EXCEPT ![t] = TRUE]
        BY <1>13, <3>1 DEF PopItem
      <4>2. Cardinality(Busy') = IF isBusy[t] THEN Cardinality(Busy) ELSE Cardinality(Busy) + 1
        BY <4>1, SetMark
      <4>3. busyThreads' = IF ~isBusy[t] THEN busyThreads + 1 ELSE busyThreads
        BY <1>13, <3>1 DEF PopItem
      <4>. QED
        BY <4>2, <4>3, BusyFinite DEF TypeOK, BusyNeverUnderflows
    <3>2. CASE ~slept
      <4>1. isBusy' = isBusy /\ busyThreads' = busyThreads
        BY <1>13, <3>2 DEF PopItem, TypeOK
      <4>. QED
        BY <4>1, SameMarks DEF TypeOK
    <3>. QED
      BY <3>1, <3>2
  <2>3. Head(queue) \in Jobs /\ queue' \in Seq(Jobs)
    BY <1>13 DEF PopItem, TypeOK
  <2>. QED
    BY <1>13, <2>1, <2>2, <2>3 DEF PopItem, TypeOK, ownerVars
<1>14. ASSUME NEW t \in Threads, Work(t) PROVE TypeInv'
  <2>1. job[t] \in Jobs
    BY <1>14 DEF Work, TypeOK, ControlInv, FlagsMatchPcs
  <2>. QED
    BY <1>14, <2>1, SameMarks DEF Work, TypeOK, WorkerPcs, ownerVars
<1>15. ASSUME NEW t \in Threads, Check(t) PROVE TypeInv'
  BY <1>15, SameMarks DEF Check, TypeOK, WorkerPcs, ownerVars
<1>16. ASSUME NEW t \in Threads, PushFinished(t) PROVE TypeInv'
  BY <1>16, SameMarks DEF PushFinished, ControlInv, FlagsMatchPcs, TypeOK, WorkerPcs, ownerVars, workerVars, Threads
<1>17. ASSUME NEW t \in Threads, TimeOut(t) PROVE TypeInv'
  BY <1>17, SameMarks DEF TimeOut, TypeOK, WorkerPcs, ownerVars, workerVars
<1>18. CASE UNCHANGED vars
  BY <1>18, SameMarks DEF vars, TypeOK
<1>. QED
  BY <1>1, <1>2, <1>3, <1>4, <1>5, <1>6, <1>7, <1>8, <1>9, <1>10, <1>11, <1>12, <1>13,
     <1>14, <1>15, <1>16, <1>17, <1>18
     DEF Next, WorkerStep, PopSkipWait, PopAfterWait, SpuriousWakeup, Terminated, Threads

-----------------------------------------------------------------------------
(***************************************************************************)
(* Threads, their accounting and the sleepers.                             *)
(***************************************************************************)

\* A new thread takes a slot that was free, so it is counted once.
LEMMA CreateCounts ==
    ASSUME TypeOK, PoolAccounting, NEW t \in Threads, Create(t),
           ownerPc \in {"new", "starting", "running"}
    PROVE  /\ createdThreads' = Cardinality(threads') /\ createdThreads' <= MaxGrow
           /\ t \notin threads
<1>1. t \notin threads
  BY DEF Create, PoolAccounting
<1>2. threads' \in SUBSET Threads /\ threads' = threads \cup {t} /\ createdThreads' = createdThreads + 1
  BY DEF Create, TypeOK
<1>3. IsFiniteSet(threads)
  BY ThreadsFinite, FS_Subset DEF TypeOK
<1>4. Cardinality(threads') = Cardinality(threads) + 1
  BY <1>1, <1>2, <1>3, FS_AddElement
<1>5. Cardinality(threads') <= MaxGrow
  BY <1>2, ThreadsFinite, FS_Subset DEF MaxGrow
<1>. QED
  BY <1>1, <1>2, <1>4, <1>5 DEF PoolAccounting

\* A step that only moves one live worker on, perhaps waking others.
LEMMA WorkerMoves ==
    ASSUME TypeOK, ControlInv, NEW t \in Threads, pc[t] \notin {"none", "exited"},
           UNCHANGED <<run, ownerPc, threads, createdThreads>>,
           pc' \in [Threads -> WorkerPcs], pc'[t] # "none",
           \A u \in Threads \ {t} : pc'[u] = pc[u] \/ (pc[u] = "waiting" /\ pc'[u] = "woken"),
           \A d \in finished' : d \in finished \/ (d = t /\ pc'[t] = "exited"),
           pc'[t] = "waiting" => run,
           pc'[t] = "ending" => t \in Dynamic,
           \A u \in Threads \ {t} : job'[u] = job[u],
           job'[t] # NoJob <=> pc'[t] = "work"
    PROVE  ControlInv'
<1>1. FlagsMatchPcs'
  BY DEF ControlInv, FlagsMatchPcs, TypeOK
<1>2. PoolAccounting'
  <2>1. threads' = {u \in Threads : pc'[u] # "none"}
    BY DEF ControlInv, PoolAccounting, TypeOK
  <2>2. ASSUME ownerPc \in {"new", "starting", "running"}, NEW d \in finished'
        PROVE  pc'[d] = "exited"
    <3>1. CASE d \in finished
      <4>1. pc[d] = "exited" /\ d \in Threads
        BY <2>2, <3>1 DEF ControlInv, PoolAccounting, TypeOK, Threads
      <4>. QED
        BY <4>1
    <3>2. CASE d = t /\ pc'[t] = "exited"
      BY <3>2
    <3>. QED
      BY <2>2, <3>1, <3>2
  <2>. QED
    BY <2>1, <2>2 DEF ControlInv, PoolAccounting, MaxGrow
<1>3. NobodySleepsThroughStop'
  BY DEF ControlInv, FlagsMatchPcs, NobodySleepsThroughStop
<1>. QED
  BY <1>1, <1>2, <1>3 DEF ControlInv

\* No action breaks the accounting, and none lets a thread sleep through stop().
LEMMA ControlStep == TypeInv /\ ControlInv /\ [Next]_vars => ControlInv'
<1>. SUFFICES ASSUME TypeOK, ControlInv, [Next]_vars PROVE ControlInv'
  BY DEF TypeInv
<1>1. CASE Start
  BY <1>1 DEF Start, ControlInv, FlagsMatchPcs, PoolAccounting, NobodySleepsThroughStop,
              workerVars, MaxGrow
<1>2. CASE LockQueue
  BY <1>2 DEF LockQueue, ControlInv, FlagsMatchPcs, PoolAccounting, NobodySleepsThroughStop,
              ownerVars, workerVars, MaxGrow
<1>3. CASE UnlockQueue
  BY <1>3 DEF UnlockQueue, ControlInv, FlagsMatchPcs, PoolAccounting, NobodySleepsThroughStop,
              ownerVars, workerVars, MaxGrow
<1>4. CASE Shrink
  <2>1. createdThreads' = Cardinality(threads') /\ createdThreads' <= MaxGrow
    BY <1>4, ShrinkCounts, FS_CardinalityType, ThreadsFinite
       DEF ControlInv, PoolAccounting, TypeOK, MaxGrow
  <2>2. threads' = {t \in Threads : pc'[t] # "none"}
    BY <1>4 DEF Shrink, ControlInv, PoolAccounting, TypeOK
  <2>3. \A t \in finished : pc[t] = "exited"
    BY <1>4 DEF Shrink, ControlInv, PoolAccounting
  <2>4. FlagsMatchPcs' /\ NobodySleepsThroughStop'
    BY <1>4, <2>3 DEF Shrink, ControlInv, FlagsMatchPcs, NobodySleepsThroughStop, TypeOK, workerVars
  <2>. QED
    BY <1>4, <2>1, <2>2, <2>4 DEF Shrink, ControlInv, PoolAccounting, MaxGrow
<1>5. CASE Stop
  BY <1>5 DEF Stop, Broadcast, ControlInv, FlagsMatchPcs, PoolAccounting,
              NobodySleepsThroughStop, workerVars, TypeOK, MaxGrow
<1>6. CASE Stopped
  BY <1>6 DEF Stopped, ControlInv, FlagsMatchPcs, PoolAccounting, NobodySleepsThroughStop,
              workerVars, MaxGrow
<1>7. ASSUME NEW t \in Static, StartThread(t) PROVE ControlInv'
  <2>1. t \in Threads /\ ownerPc = "starting" /\ Create(t) /\ pc' = [pc EXCEPT ![t] = "pop"]
        /\ ownerPc' \in {"starting", "running"} /\ finished' = finished /\ run' = run
    BY <1>7 DEF StartThread, Threads
  <2>2. createdThreads' = Cardinality(threads') /\ createdThreads' <= MaxGrow
    BY <2>1, CreateCounts DEF ControlInv
  <2>3. threads' = {u \in Threads : pc'[u] # "none"}
    BY <2>1 DEF Create, ControlInv, PoolAccounting, TypeOK
  <2>4. FlagsMatchPcs' /\ NobodySleepsThroughStop'
    BY <2>1 DEF Create, ControlInv, FlagsMatchPcs, NobodySleepsThroughStop, TypeOK
  <2>5. \A d \in finished : pc[d] = "exited" /\ pc'[d] = "exited"
    BY <2>1 DEF Create, ControlInv, PoolAccounting, TypeOK, Threads
  <2>. QED
    BY <2>1, <2>2, <2>3, <2>4, <2>5 DEF ControlInv, PoolAccounting, MaxGrow
<1>8. ASSUME NEW j \in Jobs, AddToQueue(j) PROVE ControlInv'
  <2>1. ownerPc = "running" /\ ownerPc' = ownerPc /\ finished' = finished /\ run' = run
    BY <1>8 DEF AddToQueue
  <2>2. CASE WantsGrow
    <3>1. PICK d \in Dynamic : Create(d) /\ pc' \in Signalled([pc EXCEPT ![d] = "pop"])
      BY <1>8, <2>2 DEF AddToQueue
    <3>2. d \in Threads /\ [pc EXCEPT ![d] = "pop"] \in [Threads -> WorkerPcs]
      BY DEF TypeOK, WorkerPcs, Threads
    <3>3. /\ pc' \in [Threads -> WorkerPcs] /\ pc'[d] = "pop"
          /\ \A u \in Threads \ {d} : pc'[u] = pc[u] \/ (pc[u] = "waiting" /\ pc'[u] = "woken")
      <4>. DEFINE entered == [pc EXCEPT ![d] = "pop"]
      <4>1. /\ entered \in [Threads -> WorkerPcs] /\ entered[d] = "pop"
            /\ \A u \in Threads \ {d} : entered[u] = pc[u]
        BY <3>2 DEF TypeOK
      <4>2. pc' \in Signalled(entered)
        BY <3>1
      <4>. HIDE DEF entered
      <4>3. /\ pc' \in [Threads -> WorkerPcs]
            /\ \A u \in Threads : pc'[u] = entered[u] \/ (entered[u] = "waiting" /\ pc'[u] = "woken")
        BY <4>1, <4>2, SignalledWakes
      <4>. QED
        BY <3>2, <4>1, <4>3
    <3>4. createdThreads' = Cardinality(threads') /\ createdThreads' <= MaxGrow
      BY <2>1, <3>1, <3>2, CreateCounts DEF ControlInv
    <3>5. threads' = {u \in Threads : pc'[u] # "none"}
      BY <3>1, <3>2, <3>3 DEF Create, ControlInv, PoolAccounting, TypeOK
    <3>6. FlagsMatchPcs' /\ NobodySleepsThroughStop'
      BY <2>1, <3>1, <3>2, <3>3
         DEF Create, ControlInv, FlagsMatchPcs, NobodySleepsThroughStop, TypeOK
    <3>7. \A u \in finished : u \in Threads /\ u # d /\ pc[u] = "exited"
      BY <2>1, <3>1 DEF Create, ControlInv, PoolAccounting, TypeOK, Threads
    <3>8. \A u \in finished : pc'[u] = "exited"
      BY <3>3, <3>7
    <3>. QED
      BY <2>1, <3>4, <3>5, <3>6, <3>8 DEF ControlInv, PoolAccounting, MaxGrow
  <2>3. CASE ~WantsGrow
    <3>1. pc' \in Signalled(pc) /\ UNCHANGED <<threads, createdThreads, workerVars>>
      BY <1>8, <2>3 DEF AddToQueue
    <3>2. /\ pc' \in [Threads -> WorkerPcs]
          /\ \A u \in Threads : pc'[u] = pc[u] \/ (pc[u] = "waiting" /\ pc'[u] = "woken")
      BY <3>1, SignalledWakes DEF TypeOK
    <3>3. FlagsMatchPcs' /\ NobodySleepsThroughStop'
      BY <2>1, <3>1, <3>2 DEF ControlInv, FlagsMatchPcs, NobodySleepsThroughStop, workerVars
    <3>4. \A u \in finished : pc'[u] = "exited"
      BY <2>1, <3>2 DEF ControlInv, PoolAccounting, TypeOK, Threads
    <3>5. threads' = {u \in Threads : pc'[u] # "none"}
      BY <3>1, <3>2 DEF ControlInv, PoolAccounting
    <3>. QED
      BY <2>1, <3>1, <3>3, <3>4, <3>5 DEF ControlInv, PoolAccounting, MaxGrow
  <2>. QED
    BY <2>2, <2>3
<1>9. ASSUME NEW t \in Threads, Join(t) PROVE ControlInv'
  BY <1>9 DEF Join, ControlInv, FlagsMatchPcs, PoolAccounting, NobodySleepsThroughStop,
              workerVars, TypeOK, MaxGrow
<1>10. ASSUME NEW t \in Threads, PopNotRunning(t) PROVE ControlInv'
  BY <1>10, WorkerMoves
     DEF PopNotRunning, AtPop, ownerVars, workerVars, TypeOK, WorkerPcs, ControlInv, FlagsMatchPcs
<1>11. ASSUME NEW t \in Threads, PopWait(t) PROVE ControlInv'
  BY <1>11, WorkerMoves DEF PopWait, AtPop, ownerVars, TypeOK, WorkerPcs, ControlInv, FlagsMatchPcs
<1>12. ASSUME NEW t \in Threads, pc[t] \in {"pop", "woken"}, PopEmpty(t) PROVE ControlInv'
  BY <1>12, WorkerMoves
     DEF PopEmpty, ownerVars, workerVars, TypeOK, WorkerPcs, ControlInv, FlagsMatchPcs
<1>13. ASSUME NEW t \in Threads, NEW slept \in BOOLEAN, pc[t] \in {"pop", "woken"}, PopItem(t, slept)
       PROVE  ControlInv'
  <2>1. [pc EXCEPT ![t] = "work"] \in [Threads -> WorkerPcs]
    BY DEF TypeOK, WorkerPcs
  <2>2. /\ pc' \in [Threads -> WorkerPcs] /\ pc'[t] = "work"
        /\ \A u \in Threads \ {t} : pc'[u] = pc[u] \/ (pc[u] = "waiting" /\ pc'[u] = "woken")
    <3>. DEFINE working == [pc EXCEPT ![t] = "work"]
    <3>1. /\ working \in [Threads -> WorkerPcs] /\ working[t] = "work"
          /\ \A u \in Threads \ {t} : working[u] = pc[u]
      BY <2>1 DEF TypeOK
    <3>2. pc' = working \/ pc' \in Signalled(working)
      BY <1>13 DEF PopItem
    <3>. HIDE DEF working
    <3>3. /\ pc' \in [Threads -> WorkerPcs]
          /\ \A u \in Threads : pc'[u] = working[u] \/ (working[u] = "waiting" /\ pc'[u] = "woken")
      BY <3>1, <3>2, SignalledWakes
    <3>. QED
      BY <3>1, <3>3
  <2>3. job' = [job EXCEPT ![t] = Head(queue)] /\ Head(queue) \in Jobs /\ Head(queue) # NoJob
    BY <1>13, PoolAssumption DEF PopItem, TypeOK
  <2>4. UNCHANGED <<run, ownerPc, threads, createdThreads, finished>>
    BY <1>13 DEF PopItem, ownerVars
  <2>. QED
    BY <1>13, <2>2, <2>3, <2>4, WorkerMoves DEF TypeOK
<1>14. ASSUME NEW t \in Threads, Work(t) PROVE ControlInv'
  BY <1>14, WorkerMoves DEF Work, ownerVars, TypeOK, WorkerPcs
<1>15. ASSUME NEW t \in Threads, Check(t) PROVE ControlInv'
  BY <1>15, WorkerMoves DEF Check, ownerVars, TypeOK, WorkerPcs, ControlInv, FlagsMatchPcs
<1>16. ASSUME NEW t \in Threads, PushFinished(t) PROVE ControlInv'
  BY <1>16, WorkerMoves
     DEF PushFinished, ownerVars, workerVars, TypeOK, WorkerPcs, ControlInv, FlagsMatchPcs
<1>17. ASSUME NEW t \in Threads, TimeOut(t) PROVE ControlInv'
  BY <1>17, WorkerMoves
     DEF TimeOut, ownerVars, workerVars, TypeOK, WorkerPcs, ControlInv, FlagsMatchPcs
<1>18. CASE UNCHANGED vars
  BY <1>18 DEF vars, ControlInv, FlagsMatchPcs, PoolAccounting, NobodySleepsThroughStop, MaxGrow
<1>. QED
  BY <1>1, <1>2, <1>3, <1>4, <1>5, <1>6, <1>7, <1>8, <1>9, <1>10, <1>11, <1>12, <1>13,
     <1>14, <1>15, <1>16, <1>17, <1>18
     DEF Next, WorkerStep, PopSkipWait, PopAfterWait, SpuriousWakeup, Terminated, Threads, AtPop

\* The invariant of the two sections above.
LEMMA PoolInvariant == Spec => [](TypeInv /\ ControlInv)
<1>1. Init => TypeInv /\ ControlInv
  <2>. SUFFICES ASSUME Init PROVE TypeInv /\ ControlInv
    OBVIOUS
  <2>1. TypeOK
    <3>1. queue \in Seq(Jobs)
      BY DEF Init
    <3>2. /\ pc \in [Threads -> WorkerPcs] /\ job \in [Threads -> Jobs \cup {NoJob}]
          /\ skipWait \in [Threads -> BOOLEAN] /\ isBusy \in [Threads -> BOOLEAN]
      BY DEF Init, WorkerPcs
    <3>. QED
      BY <3>1, <3>2 DEF Init, TypeOK
  <2>2. BusyNeverUnderflows
    <3>1. Busy = {}
      BY DEF Init, Busy
    <3>. QED
      BY <3>1, FS_EmptySet DEF Init, BusyNeverUnderflows
  <2>3. PoolAccounting
    <3>1. threads = {t \in Threads : pc[t] # "none"} /\ threads = {} /\ finished = {}
      BY DEF Init
    <3>2. Cardinality(threads) = 0
      BY <3>1, FS_EmptySet
    <3>3. MaxGrow \in Nat
      BY FS_CardinalityType, ThreadsFinite DEF MaxGrow
    <3>. QED
      BY <3>1, <3>2, <3>3 DEF Init, PoolAccounting
  <2>4. FlagsMatchPcs /\ NobodySleepsThroughStop
    BY DEF Init, FlagsMatchPcs, NobodySleepsThroughStop
  <2>. QED
    BY <2>1, <2>2, <2>3, <2>4 DEF TypeInv, ControlInv
<1>2. TypeInv /\ ControlInv /\ [Next]_vars => (TypeInv /\ ControlInv)'
  BY TypeStep, ControlStep
<1>. QED
  BY <1>1, <1>2, PTL DEF Spec

\* Every variable keeps its type in every reachable state of a pool of any size;
\* in particular popJob's unsigned --busyThreads never wraps.
THEOREM PoolTypeOK == Spec => []TypeOK
BY PoolInvariant, PTL DEF TypeInv

\* busyThreads is never below the number of marked threads.
THEOREM PoolBusyNeverUnderflows == Spec => []BusyNeverUnderflows
BY PoolInvariant, PTL DEF TypeInv

\* createdThreads is exact while the pool runs and stays within maxGrow, and
\* shrink() only ever joins a thread that has ended and was not joined before.
THEOREM PoolAccountingHolds == Spec => []PoolAccounting
BY PoolInvariant, PTL DEF ControlInv

\* No thread sleeps in popJob once stop() has cleared run.
THEOREM PoolNobodySleepsThroughStop == Spec => []NobodySleepsThroughStop
BY PoolInvariant, PTL DEF ControlInv

-----------------------------------------------------------------------------
(***************************************************************************)
(* Items.                                                                  *)
(***************************************************************************)

Distinct(q) == \A i, k \in 1..Len(q) : q[i] = q[k] => i = k

\* Taking the head of a queue without duplicates removes exactly that item.
LEMMA TailDropsHead ==
    ASSUME NEW q \in Seq(Jobs), q # << >>, Distinct(q)
    PROVE  /\ Distinct(Tail(q))
           /\ \A j : (\E i \in 1..Len(Tail(q)) : Tail(q)[i] = j)
                        <=> (\E i \in 1..Len(q) : q[i] = j) /\ j # Head(q)
<1>1. /\ Len(q) \in Nat /\ Len(q) >= 1 /\ Len(Tail(q)) = Len(q) - 1 /\ Head(q) = q[1]
      /\ \A i \in 1..Len(Tail(q)) : Tail(q)[i] = q[i + 1]
  OBVIOUS
<1>2. Distinct(Tail(q))
  BY <1>1 DEF Distinct
<1>3. ASSUME NEW j, NEW i \in 1..Len(Tail(q)), Tail(q)[i] = j
      PROVE  (\E k \in 1..Len(q) : q[k] = j) /\ j # Head(q)
  <2>1. i + 1 \in 1..Len(q) /\ q[i + 1] = j /\ 1 \in 1..Len(q) /\ i + 1 # 1
    BY <1>1, <1>3
  <2>. QED
    BY <2>1, <1>1 DEF Distinct
<1>4. ASSUME NEW j, NEW i \in 1..Len(q), q[i] = j, j # Head(q)
      PROVE  \E k \in 1..Len(Tail(q)) : Tail(q)[k] = j
  <2>1. i # 1
    BY <1>1, <1>4
  <2>2. i - 1 \in 1..Len(Tail(q)) /\ Tail(q)[i - 1] = q[i]
    BY <1>1, <2>1
  <2>. QED
    BY <1>4, <2>2
<1>. QED
  BY <1>2, <1>3, <1>4

\* Queueing an item that is not queued yet adds exactly that item.
LEMMA AppendAddsItem ==
    ASSUME NEW q \in Seq(Jobs), NEW j \in Jobs, Distinct(q), \A i \in 1..Len(q) : q[i] # j
    PROVE  /\ Distinct(Append(q, j))
           /\ \A k : (\E i \in 1..Len(Append(q, j)) : Append(q, j)[i] = k)
                        <=> (\E i \in 1..Len(q) : q[i] = k) \/ k = j
<1>1. /\ Len(q) \in Nat /\ Len(Append(q, j)) = Len(q) + 1
      /\ Append(q, j)[Len(q) + 1] = j /\ \A i \in 1..Len(q) : Append(q, j)[i] = q[i]
  OBVIOUS
<1>2. Distinct(Append(q, j))
  BY <1>1 DEF Distinct
<1>3. Len(q) + 1 \in 1..Len(Append(q, j)) /\ \A i \in 1..Len(q) : i \in 1..Len(Append(q, j))
  BY <1>1
<1>4. \A i \in 1..Len(Append(q, j)) : i \in 1..Len(q) \/ i = Len(q) + 1
  BY <1>1
<1>. QED
  BY <1>1, <1>2, <1>3, <1>4

Held(j) == \E t \in Threads : job[t] = j

\* A step that moves no item.
LEMMA ItemsStay ==
    ASSUME EachItemOnce, UNCHANGED <<queue, job, added, done>>
    PROVE  EachItemOnce'
BY DEF EachItemOnce, Queued

\* A step that creates a worker in a free slot moves no item either.
LEMMA CreateKeepsJobs ==
    ASSUME TypeOK, ControlInv, NEW t \in Threads, Create(t)
    PROVE  job' = job
<1>1. job[t] = NoJob
  BY DEF Create, ControlInv, FlagsMatchPcs
<1>. QED
  BY <1>1 DEF Create, TypeOK

LEMMA ItemStep == TypeInv /\ ControlInv /\ EachItemOnce /\ [Next]_vars => EachItemOnce'
<1>. SUFFICES ASSUME TypeOK, ControlInv, EachItemOnce, [Next]_vars PROVE EachItemOnce'
  BY DEF TypeInv
<1>1. CASE Start
  BY <1>1, ItemsStay DEF Start, workerVars
<1>2. CASE LockQueue
  BY <1>2, ItemsStay DEF LockQueue, workerVars
<1>3. CASE UnlockQueue
  BY <1>3, ItemsStay DEF UnlockQueue, workerVars
<1>4. CASE Shrink
  BY <1>4, ItemsStay DEF Shrink, workerVars
<1>5. CASE Stop
  BY <1>5, ItemsStay DEF Stop, workerVars
<1>6. CASE Stopped
  BY <1>6, ItemsStay DEF Stopped, workerVars
<1>7. ASSUME NEW t \in Static, StartThread(t) PROVE EachItemOnce'
  BY <1>7, ItemsStay, CreateKeepsJobs DEF StartThread, Threads
<1>8. ASSUME NEW j \in Jobs, AddToQueue(j) PROVE EachItemOnce'
  <2>1. j \notin added /\ added' = added \cup {j} /\ queue' = Append(queue, j) /\ done' = done
    BY <1>8 DEF AddToQueue
  <2>2. job' = job
    BY <1>8, CreateKeepsJobs DEF AddToQueue, Threads, workerVars
  <2>3. ~Queued(j) /\ j \notin done /\ ~Held(j) /\ j # NoJob
    BY <2>1, PoolAssumption DEF EachItemOnce, Held
  <2>4. Distinct(queue)
    BY DEF EachItemOnce, Distinct
  <2>5. Distinct(queue') /\ \A k : Queued(k)' <=> Queued(k) \/ k = j
    BY <2>1, <2>3, <2>4, AppendAddsItem DEF TypeOK, Queued
  <2>. QED
    BY <2>1, <2>2, <2>3, <2>5 DEF EachItemOnce, Distinct, Held
<1>9. ASSUME NEW t \in Threads, Join(t) PROVE EachItemOnce'
  BY <1>9, ItemsStay DEF Join, workerVars
<1>10. ASSUME NEW t \in Threads, PopNotRunning(t) PROVE EachItemOnce'
  BY <1>10, ItemsStay DEF PopNotRunning, workerVars
<1>11. ASSUME NEW t \in Threads, PopWait(t) PROVE EachItemOnce'
  BY <1>11, ItemsStay DEF PopWait
<1>12. ASSUME NEW t \in Threads, pc[t] \in {"pop", "woken"}, PopEmpty(t) PROVE EachItemOnce'
  BY <1>12, ItemsStay DEF PopEmpty, workerVars
<1>13. ASSUME NEW t \in Threads, NEW slept \in BOOLEAN, pc[t] \in {"pop", "woken"}, PopItem(t, slept)
       PROVE  EachItemOnce'
  <2>1. /\ queue # << >> /\ queue' = Tail(queue) /\ job' = [job EXCEPT ![t] = Head(queue)]
        /\ added' = added /\ done' = done /\ Head(queue) \in Jobs
    BY <1>13 DEF PopItem, TypeOK
  <2>2. Distinct(queue)
    BY DEF EachItemOnce, Distinct
  <2>3. Distinct(queue') /\ \A k : Queued(k)' <=> Queued(k) /\ k # Head(queue)
    BY <2>1, <2>2, TailDropsHead DEF TypeOK, Queued
  <2>4. job[t] = NoJob
    BY <1>13 DEF ControlInv, FlagsMatchPcs
  <2>5. Queued(Head(queue))
    BY <2>1 DEF Queued, TypeOK
  <2>6. Head(queue) \notin done /\ ~Held(Head(queue)) /\ Head(queue) # NoJob
    BY <2>1, <2>5, PoolAssumption DEF EachItemOnce, Held
  <2>7. \A u \in Threads : job'[u] = IF u = t THEN Head(queue) ELSE job[u]
    BY <2>1 DEF TypeOK
  <2>8. \A k \in Jobs : Held(k)' <=> Held(k) \/ k = Head(queue)
    BY <2>4, <2>7, PoolAssumption DEF Held
  <2>9. added = {k \in Jobs : Queued(k) \/ k \in done \/ Held(k)}
    BY DEF EachItemOnce, Held
  <2>10. added' = {k \in Jobs : Queued(k)' \/ k \in done' \/ Held(k)'}
    BY <2>1, <2>3, <2>5, <2>8, <2>9
  <2>11. \A u, v \in Threads : job'[u] = job'[v] /\ job'[u] # NoJob => u = v
    BY <2>6, <2>7 DEF EachItemOnce, Held
  <2>12. \A u \in Threads : job'[u] # NoJob =>
            (\A i \in 1..Len(queue') : queue'[i] # job'[u]) /\ job'[u] \notin done'
    <3>1. \A k : ~Queued(k) \/ k = Head(queue) => \A i \in 1..Len(queue') : queue'[i] # k
      BY <2>3 DEF Queued
    <3>2. \A u \in Threads : job[u] # NoJob => ~Queued(job[u]) /\ job[u] \notin done
      BY DEF EachItemOnce
    <3>. QED
      BY <2>1, <2>6, <2>7, <3>1, <3>2
  <2>13. \A k \in done' : ~Queued(k)'
    BY <2>1, <2>3 DEF EachItemOnce
  <2>. QED
    BY <2>3, <2>10, <2>11, <2>12, <2>13 DEF EachItemOnce, Distinct, Held, Queued
<1>14. ASSUME NEW t \in Threads, Work(t) PROVE EachItemOnce'
  <2>1. /\ done' = done \cup {job[t]} /\ queue' = queue /\ added' = added
        /\ \A u \in Threads : job'[u] = IF u = t THEN NoJob ELSE job[u]
    BY <1>14 DEF Work, TypeOK
  <2>2. job[t] \in Jobs /\ job[t] # NoJob
    BY <1>14 DEF Work, TypeOK, ControlInv, FlagsMatchPcs
  <2>3. \A k : Queued(k)' <=> Queued(k)
    BY <2>1 DEF Queued
  <2>4. \A k \in Jobs : k \in done' \/ Held(k)' <=> k \in done \/ Held(k)
    <3>1. \A k \in Jobs : Held(k)' <=> \E u \in Threads \ {t} : job[u] = k
      BY <2>1, PoolAssumption DEF Held
    <3>2. \A k \in Jobs : Held(k) <=> k = job[t] \/ \E u \in Threads \ {t} : job[u] = k
      BY DEF Held
    <3>. QED
      BY <2>1, <3>1, <3>2
  <2>5. added' = {k \in Jobs : Queued(k)' \/ k \in done' \/ Held(k)'}
    <3>1. added = {k \in Jobs : Queued(k) \/ k \in done \/ Held(k)}
      BY DEF EachItemOnce, Held
    <3>. QED
      BY <2>1, <2>3, <2>4, <3>1
  <2>6. \A u, v \in Threads : job'[u] = job'[v] /\ job'[u] # NoJob => u = v
    BY <2>1 DEF EachItemOnce
  <2>7. \A u \in Threads : job'[u] # NoJob =>
            (\A i \in 1..Len(queue') : queue'[i] # job'[u]) /\ job'[u] \notin done'
    <3>1. \A u \in Threads : job[u] # NoJob => ~Queued(job[u]) /\ job[u] \notin done
      BY DEF EachItemOnce
    <3>2. \A u \in Threads : u # t /\ job[u] # NoJob => job[u] # job[t]
      BY <2>2 DEF EachItemOnce
    <3>. QED
      BY <2>1, <3>1, <3>2 DEF Queued
  <2>8. \A k \in done' : ~Queued(k)'
    BY <2>1, <2>2, <2>3 DEF EachItemOnce
  <2>9. \A i, k \in 1..Len(queue') : queue'[i] = queue'[k] => i = k
    BY <2>1 DEF EachItemOnce
  <2>. QED
    BY <2>5, <2>6, <2>7, <2>8, <2>9 DEF EachItemOnce, Held, Queued
<1>15. ASSUME NEW t \in Threads, Check(t) PROVE EachItemOnce'
  BY <1>15, ItemsStay DEF Check
<1>16. ASSUME NEW t \in Threads, PushFinished(t) PROVE EachItemOnce'
  BY <1>16, ItemsStay DEF PushFinished, workerVars
<1>17. ASSUME NEW t \in Threads, TimeOut(t) PROVE EachItemOnce'
  BY <1>17, ItemsStay DEF TimeOut, workerVars
<1>18. CASE UNCHANGED vars
  BY <1>18, ItemsStay DEF vars
<1>. QED
  BY <1>1, <1>2, <1>3, <1>4, <1>5, <1>6, <1>7, <1>8, <1>9, <1>10, <1>11, <1>12, <1>13,
     <1>14, <1>15, <1>16, <1>17, <1>18
     DEF Next, WorkerStep, PopSkipWait, PopAfterWait, SpuriousWakeup, Terminated, Threads, AtPop

\* Every item passed to addToQueue is in exactly one place, for ever.
THEOREM PoolEachItemOnce == Spec => []EachItemOnce
<1>1. Init => EachItemOnce
  BY PoolAssumption DEF Init, EachItemOnce, Queued
<1>2. TypeInv /\ ControlInv /\ EachItemOnce /\ [Next]_vars => EachItemOnce'
  BY ItemStep
<1>. QED
  BY <1>1, <1>2, PoolInvariant, PTL DEF Spec

\* stop() returns when it has joined all.
Drained == ownerPc = "stopped" => threads = {}

LEMMA PoolDrained == Spec => []Drained
<1>1. Init => Drained
  BY DEF Init, Drained
<1>2. Drained /\ [Next]_vars => Drained'
  BY DEF Drained, Next, vars, Start, LockQueue, UnlockQueue, Shrink, Stop, Stopped, StartThread,
         AddToQueue, Join, WorkerStep, PopNotRunning, PopWait, PopSkipWait, PopAfterWait,
         PopEmpty, PopItem, Work, Check, PushFinished, TimeOut, SpuriousWakeup, Terminated, ownerVars
<1>. QED
  BY <1>1, <1>2, PTL DEF Spec

\* Without threads nobody holds an item.
LEMMA NobodyWorks == ControlInv /\ threads = {} => \A t \in Threads : pc[t] = "none" /\ job[t] = NoJob
BY DEF ControlInv, PoolAccounting, FlagsMatchPcs

\* When stop() has returned there is no worker left and ClearQueue sees every
\* item that was not processed.
THEOREM PoolStopLeavesNoWorker == Spec => []StopLeavesNoWorker
<1>1. ControlInv /\ EachItemOnce /\ Drained => StopLeavesNoWorker
  BY NobodyWorks, PoolAssumption DEF Drained, StopLeavesNoWorker, EachItemOnce
<1>. QED
  BY <1>1, PoolInvariant, PoolEachItemOnce, PoolDrained, PTL

-----------------------------------------------------------------------------
(***************************************************************************)
(* The abstract pool.  There is a lemma for each way a step looks to it.   *)
(***************************************************************************)

Working == {j \in Jobs : \E t \in Threads : job[t] = j}

Phase == CASE ownerPc = "stopping" -> "closing"
           [] ownerPc = "stopped"  -> "closed"
           [] OTHER                -> "open"

PoolStep == [Pool!Next]_(Pool!poolVars)

\* The step moves no item, and no owner into or out of stop().
LEMMA Unseen ==
    ASSUME UNCHANGED <<queue, job, done>>, Phase' = Phase
    PROVE  PoolStep
BY DEF PoolStep, Pool!poolVars, Phase

\* A worker goes on with something else than an item.
LEMMA UnseenByOwner ==
    ASSUME UNCHANGED <<queue, job, done, ownerPc>>
    PROVE  PoolStep
BY Unseen DEF Phase

LEMMA LooksLikeQueue ==
    ASSUME TypeOK, EachItemOnce, NEW j \in Jobs, ownerPc = "running", j \notin added,
           queue' = Append(queue, j), UNCHANGED <<job, done, ownerPc>>
    PROVE  PoolStep
<1>1. ~Queued(j) /\ j \notin done /\ j \notin Working
  BY DEF EachItemOnce, Working
<1>2. j \notin Pool!Known
  BY <1>1 DEF Pool!Known, Working, Queued, TypeOK
<1>3. Pool!Queue(j)
  BY <1>2 DEF Pool!Queue
<1>. QED
  BY <1>3 DEF PoolStep, Pool!Next

LEMMA LooksLikeTake ==
    ASSUME TypeOK, NEW t \in Threads, job[t] = NoJob, queue # << >>, ownerPc # "stopped",
           job' = [job EXCEPT ![t] = Head(queue)], queue' = Tail(queue), UNCHANGED <<done, ownerPc>>
    PROVE  PoolStep
<1>1. Head(queue) \in Jobs
  BY DEF TypeOK
<1>2. \A u \in Threads : job'[u] = IF u = t THEN Head(queue) ELSE job[u]
  BY DEF TypeOK
<1>3. Working' = Working \cup {Head(queue)}
  BY <1>1, <1>2, PoolAssumption DEF Working
<1>4. Pool!Take
  BY <1>3 DEF Pool!Take, Working
<1>. QED
  BY <1>4 DEF PoolStep, Pool!Next

LEMMA LooksLikeFinish ==
    ASSUME TypeOK, EachItemOnce, NEW t \in Threads, job[t] \in Jobs,
           job' = [job EXCEPT ![t] = NoJob], done' = done \cup {job[t]}, UNCHANGED <<queue, ownerPc>>
    PROVE  PoolStep
<1>1. \A u \in Threads : job'[u] = IF u = t THEN NoJob ELSE job[u]
  BY DEF TypeOK
<1>2. \A u \in Threads : job[u] = job[t] => u = t
  BY PoolAssumption DEF EachItemOnce
<1>3. Working' = Working \ {job[t]} /\ job[t] \in Working
  BY <1>1, <1>2, PoolAssumption DEF Working
<1>4. PICK i \in Jobs : i = job[t]
  OBVIOUS
<1>5. i \in Working /\ Working' = Working \ {i} /\ done' = done \cup {i} /\ Phase' = Phase
  BY <1>3, <1>4 DEF Phase
<1>6. Pool!Finish(i)
  BY <1>5 DEF Pool!Finish, Working, Phase
<1>. QED
  BY <1>6 DEF PoolStep, Pool!Next

\* Every action of the code looks like one of these.
LEMMA PoolRefines ==
    ASSUME TypeOK, ControlInv, EachItemOnce, Drained, [Next]_vars
    PROVE  PoolStep
<1>1. CASE Start \/ LockQueue \/ UnlockQueue \/ Shrink \/ Terminated \/ UNCHANGED vars
  BY <1>1, Unseen DEF Start, LockQueue, UnlockQueue, Shrink, Terminated, vars, ownerVars, workerVars, Phase
<1>2. CASE Stop
  <2>1. Pool!Close
    BY <1>2 DEF Stop, workerVars, Pool!Close
  <2>. QED
    BY <2>1 DEF PoolStep, Pool!Next
<1>3. CASE Stopped
  <2>1. Working = {}
    BY <1>3, NobodyWorks, PoolAssumption DEF Stopped, Working
  <2>2. Pool!Closed
    BY <1>3, <2>1 DEF Stopped, workerVars, Pool!Closed, Working
  <2>. QED
    BY <2>2 DEF PoolStep, Pool!Next
<1>4. ASSUME NEW t \in Static, StartThread(t) PROVE PoolStep
  BY <1>4, Unseen, CreateKeepsJobs DEF StartThread, Threads, Phase
<1>5. ASSUME NEW j \in Jobs, AddToQueue(j) PROVE PoolStep
  <2>1. job' = job
    BY <1>5, CreateKeepsJobs DEF AddToQueue, Threads, workerVars
  <2>. QED
    BY <1>5, <2>1, LooksLikeQueue DEF AddToQueue
<1>6. ASSUME NEW t \in Threads, Join(t) PROVE PoolStep
  BY <1>6, UnseenByOwner DEF Join, workerVars
<1>7. ASSUME NEW t \in Threads,
             PopNotRunning(t) \/ PopWait(t) \/ PopEmpty(t) \/ Check(t) \/ PushFinished(t) \/ TimeOut(t)
      PROVE  PoolStep
  BY <1>7, UnseenByOwner
     DEF PopNotRunning, PopWait, PopEmpty, Check, PushFinished, TimeOut, ownerVars, workerVars
<1>8. ASSUME NEW t \in Threads, NEW slept \in BOOLEAN, pc[t] \in {"pop", "woken"}, PopItem(t, slept)
      PROVE  PoolStep
  <2>1. job[t] = NoJob /\ ownerPc # "stopped"
    BY <1>8, NobodyWorks DEF ControlInv, FlagsMatchPcs, Drained
  <2>. QED
    BY <1>8, <2>1, LooksLikeTake DEF PopItem, ownerVars
<1>9. ASSUME NEW t \in Threads, Work(t) PROVE PoolStep
  <2>1. job[t] \in Jobs
    BY <1>9 DEF Work, TypeOK, ControlInv, FlagsMatchPcs
  <2>. QED
    BY <1>9, <2>1, LooksLikeFinish DEF Work, ownerVars
<1>. QED
  BY <1>1, <1>2, <1>3, <1>4, <1>5, <1>6, <1>7, <1>8, <1>9
     DEF Next, WorkerStep, PopSkipWait, PopAfterWait, SpuriousWakeup, AtPop, Threads

\* The pool implements WorkPool: items are taken in the order of addToQueue, each
\* once, also while stop() waits, and nobody works when stop() has returned.
THEOREM PoolIsWorkPool == Spec => IsWorkPool
<1>1. Init => Pool!Init
  BY PoolAssumption DEF Init, Pool!Init
<1>2. TypeInv /\ ControlInv /\ EachItemOnce /\ Drained /\ [Next]_vars => [Pool!Next]_(Pool!poolVars)
  BY PoolRefines DEF TypeInv, PoolStep
<1>. QED
  BY <1>1, <1>2, PoolInvariant, PoolEachItemOnce, PoolDrained, PTL DEF Spec, IsWorkPool, Pool!Spec
=============================================================================
