-------------------------- MODULE ThreadPoolProofs --------------------------
(***************************************************************************)
(* Proofs about ThreadPool, for any number of workers, tasks and threads   *)
(* that destroy it, and any size of the ring: the ring stays consistent    *)
(* over every wrap, no signal is lost, a graceful shutdown drains the      *)
(* ring, and the pool implements the bounded FIFO TaskPool.                *)
(***************************************************************************)
EXTENDS ThreadPool, SequenceTheorems, FiniteSetTheorems, TLAPS

\* The part of the type invariant that is not about counting workers.
DataTypes ==
  /\ creating \in BOOLEAN
  /\ lock_ \in {"free", "leaked", "destroyed"}
  /\ queue_ \in [Slots -> Tasks \union {None}]
  /\ begin_ \in Slots /\ end_ \in Slots /\ count_ \in 0..queue_size_
  /\ shutdown_ \in {0, IMMEDIATE_SHUTDOWN, GRACEFUL_SHUTDOWN}
  /\ at \in [Workers -> Places]
  /\ task \in [Workers -> Tasks \union {None}]
  /\ \A w \in Workers : at[w] = "running" <=> task[w] # None
  /\ destroy \in [Destroyers -> {"idle", "joining", "returned", "refused"}]
  /\ answer \in [Tasks -> Answers]
  /\ taken \in Seq(Tasks)
  /\ done \subseteq Tasks

\* started_ counts the workers alive.
Alive == {w \in Workers : at[w] \notin {"none", "finished"}}
StartedCounts == started_ = Cardinality(Alive)

\* A worker ends only after a shutdown, and after a graceful one only with an
\* empty ring.
EndIsShutdown ==
  (\E w \in Workers : at[w] = "finished") => shutdown_ # 0

IInv ==
  DataTypes /\ RingIsConsistent /\ NoIdleWithWork /\ EndIsShutdown
    /\ GracefulDrains

-----------------------------------------------------------------------------
\* Arithmetic of the ring: a step around its end.
LEMMA WrapOnce ==
  ASSUME NEW x \in 0..(2 * queue_size_ - 1)
  PROVE  x % queue_size_ = IF x < queue_size_ THEN x ELSE x - queue_size_
<1>1. CASE x < queue_size_
  BY <1>1, QueueSizeAssumption
<1>2. CASE x >= queue_size_
  BY <1>2, QueueSizeAssumption
<1> QED
  BY <1>1, <1>2, QueueSizeAssumption

LEMMA SlotAtWraps ==
  ASSUME DataTypes, NEW i \in 0..queue_size_
  PROVE  SlotAt(i) = IF begin_ + i < queue_size_ THEN begin_ + i
                     ELSE begin_ + i - queue_size_
<1>1. begin_ \in Nat /\ i \in Nat /\ queue_size_ \in Nat \ {0}
      /\ begin_ + i \in 0..(2 * queue_size_ - 1)
  BY QueueSizeAssumption DEF DataTypes, Slots
<1>2. (begin_ + i) % queue_size_
        = IF begin_ + i < queue_size_ THEN begin_ + i
          ELSE begin_ + i - queue_size_
  BY <1>1
<1> QED
  BY <1>2 DEF SlotAt, SlotBehind

LEMMA NextSlotWraps ==
  ASSUME NEW s \in Slots
  PROVE  /\ NextSlot(s) \in Slots
         /\ NextSlot(s) = IF s + 1 < queue_size_ THEN s + 1
                          ELSE s + 1 - queue_size_
<1>1. s + 1 \in 0..(2 * queue_size_ - 1)
  BY QueueSizeAssumption DEF Slots
<1> QED
  BY <1>1, WrapOnce, QueueSizeAssumption DEF NextSlot, Slots

\* The slots of up to queue_size_ places behind begin_ are different ones.
LEMMA SlotInRing ==
  ASSUME DataTypes, NEW i \in 0..(queue_size_ - 1)
  PROVE  SlotAt(i) \in Slots
<1>1. begin_ \in 0..(queue_size_ - 1) /\ i \in 0..queue_size_
  BY QueueSizeAssumption DEF DataTypes, Slots
<1> QED
  BY <1>1, SlotAtWraps, QueueSizeAssumption DEF Slots

LEMMA SlotsDiffer ==
  ASSUME DataTypes, NEW i \in 0..(queue_size_ - 1), NEW j \in 0..(queue_size_ - 1),
         i # j
  PROVE  SlotAt(i) # SlotAt(j)
<1>1. begin_ \in 0..(queue_size_ - 1)
  BY DEF DataTypes, Slots
<1>2. SlotAt(i) = IF begin_ + i < queue_size_ THEN begin_ + i
                  ELSE begin_ + i - queue_size_
  BY SlotAtWraps, QueueSizeAssumption
<1>3. SlotAt(j) = IF begin_ + j < queue_size_ THEN begin_ + j
                  ELSE begin_ + j - queue_size_
  BY SlotAtWraps, QueueSizeAssumption
<1> QED
  BY <1>1, <1>2, <1>3, QueueSizeAssumption

\* What TakeTask and AddTask find in the ring.
LEMMA TaskAtBegin ==
  ASSUME DataTypes, RingIsConsistent, count_ > 0
  PROVE  SlotAt(0) = begin_ /\ queue_[begin_] \in Tasks
<1>1. SlotAt(0) = begin_
  BY SlotAtWraps, QueueSizeAssumption DEF DataTypes, Slots
<1>2. 0 \in 0..(count_ - 1)
  BY DEF DataTypes
<1>3. SlotAt(0) \in {s \in Slots : queue_[s] # None}
  BY <1>2 DEF RingIsConsistent
<1> QED
  BY <1>1, <1>3 DEF DataTypes

\* A step of begin_ moves every place by one.
LEMMA SlotsShift ==
  ASSUME DataTypes, NEW i \in 0..(queue_size_ - 1)
  PROVE  SlotBehind(NextSlot(begin_), i) = SlotAt(i + 1)
<1> DEFINE b == NextSlot(begin_)
<1>1. /\ begin_ \in 0..(queue_size_ - 1) /\ i \in Nat
      /\ queue_size_ \in Nat \ {0} /\ i + 1 \in 0..queue_size_
  BY QueueSizeAssumption DEF DataTypes, Slots
<1>2. /\ b \in 0..(queue_size_ - 1)
      /\ b = IF begin_ + 1 < queue_size_ THEN begin_ + 1
             ELSE begin_ + 1 - queue_size_
  BY NextSlotWraps DEF DataTypes, Slots
<1> HIDE DEF b
<1>3. (b + i) % queue_size_
        = IF b + i < queue_size_ THEN b + i ELSE b + i - queue_size_
  BY <1>1, <1>2
<1>4. SlotAt(i + 1) = IF begin_ + (i + 1) < queue_size_ THEN begin_ + (i + 1)
                      ELSE begin_ + (i + 1) - queue_size_
  BY <1>1, SlotAtWraps
<1>5. (b + i) % queue_size_ = SlotAt(i + 1)
  BY <1>1, <1>2, <1>3, <1>4
<1> QED
  BY <1>5 DEF b, SlotBehind

\* The slot behind the last one.
LEMMA NextIsNextPlace ==
  ASSUME DataTypes, NEW i \in 0..(queue_size_ - 1)
  PROVE  NextSlot(SlotAt(i)) = SlotAt(i + 1)
<1>1. /\ begin_ \in 0..(queue_size_ - 1) /\ i \in 0..queue_size_
      /\ queue_size_ \in Nat \ {0} /\ i + 1 \in 0..queue_size_
  BY QueueSizeAssumption DEF DataTypes, Slots
<1>2. SlotAt(i) = IF begin_ + i < queue_size_ THEN begin_ + i
                  ELSE begin_ + i - queue_size_
  BY <1>1, SlotAtWraps
<1>3. SlotAt(i + 1) = IF begin_ + (i + 1) < queue_size_ THEN begin_ + (i + 1)
                      ELSE begin_ + (i + 1) - queue_size_
  BY <1>1, SlotAtWraps
<1>4. \A s \in Slots : NextSlot(s) = IF s + 1 < queue_size_ THEN s + 1
                                     ELSE s + 1 - queue_size_
  BY NextSlotWraps
<1>5. NextSlot(SlotAt(i)) = IF SlotAt(i) + 1 < queue_size_ THEN SlotAt(i) + 1
                            ELSE SlotAt(i) + 1 - queue_size_
  BY <1>4, SlotInRing
<1> QED
  BY <1>1, <1>2, <1>3, <1>5

-----------------------------------------------------------------------------
\* ThreadPoolAdd keeps the ring consistent.
LEMMA AddKeepsRing ==
  ASSUME DataTypes, RingIsConsistent, NEW t \in Tasks, AddTask(t)
  PROVE  RingIsConsistent'
<1>1. /\ count_ \in 0..(queue_size_ - 1) /\ end_ = SlotAt(count_)
      /\ end_ \in Slots
  BY QueueSizeAssumption DEF DataTypes, AddTask, RingIsConsistent
<1>2. /\ queue_' = [queue_ EXCEPT ![end_] = t] /\ end_' = NextSlot(end_)
      /\ count_' = count_ + 1 /\ begin_' = begin_
  BY DEF AddTask
<1>3. end_' = SlotBehind(begin_, count_')
  BY <1>1, <1>2, NextIsNextPlace DEF SlotAt
<1>4. {s \in Slots : queue_'[s] # None}
        = {s \in Slots : queue_[s] # None} \union {end_}
  BY <1>1, <1>2, NoneAssumption DEF DataTypes
<1>5. 0..(count_' - 1) = (0..(count_ - 1)) \union {count_}
  BY <1>1, <1>2
<1>6. {SlotAt(i) : i \in 0..(count_' - 1)}
        = {SlotAt(i) : i \in 0..(count_ - 1)} \union {SlotAt(count_)}
  BY <1>5
<1> QED
  BY <1>1, <1>2, <1>3, <1>4, <1>6 DEF RingIsConsistent, SlotAt

\* So does a worker that takes a task.
LEMMA TakeKeepsRing ==
  ASSUME DataTypes, RingIsConsistent, count_ > 0, NEW w \in Workers, TakeTask(w)
  PROVE  RingIsConsistent'
<1>1. /\ count_ \in 1..queue_size_ /\ count_ - 1 \in 0..(queue_size_ - 1)
      /\ begin_ \in Slots /\ SlotAt(0) = begin_
  BY TaskAtBegin, QueueSizeAssumption DEF DataTypes
<1>2. /\ queue_' = [queue_ EXCEPT ![begin_] = None]
      /\ begin_' = NextSlot(begin_) /\ count_' = count_ - 1 /\ end_' = end_
  BY DEF TakeTask
<1>3. \A i \in 0..(queue_size_ - 1) : SlotBehind(begin_', i) = SlotAt(i + 1)
  BY <1>2, SlotsShift
<1>4. end_' = SlotBehind(begin_', count_')
  <2>1. count_' + 1 = count_
    BY <1>1, <1>2
  <2> QED
    BY <1>1, <1>2, <1>3, <2>1 DEF RingIsConsistent
<1>5. {s \in Slots : queue_'[s] # None}
        = {s \in Slots : queue_[s] # None} \ {begin_}
  BY <1>1, <1>2 DEF DataTypes
<1>6. \A i \in 1..(count_ - 1) : SlotAt(i) # begin_
  <2>1. \A i \in 1..(count_ - 1) : /\ i \in 0..(queue_size_ - 1) /\ i # 0
                                   /\ 0 \in 0..(queue_size_ - 1)
    BY <1>1, QueueSizeAssumption
  <2> QED
    BY <1>1, <2>1, SlotsDiffer
<1>7. {SlotAt(i) : i \in 0..(count_ - 1)} \ {begin_}
        = {SlotAt(i) : i \in 1..(count_ - 1)}
  <2>1. 0..(count_ - 1) = {0} \union 1..(count_ - 1)
    BY <1>1
  <2> QED
    BY <1>1, <1>6, <2>1
<1>8. {SlotBehind(begin_', i) : i \in 0..(count_' - 1)} = {SlotAt(i) : i \in 1..(count_ - 1)}
  <2>1. \A i \in 0..(count_' - 1) : /\ SlotBehind(begin_', i) = SlotAt(i + 1)
                                    /\ i + 1 \in 1..(count_ - 1)
    BY <1>1, <1>2, <1>3, QueueSizeAssumption
  <2>2. \A j \in 1..(count_ - 1) : /\ j - 1 \in 0..(count_' - 1)
                                   /\ SlotBehind(begin_', j - 1) = SlotAt(j)
    <3> SUFFICES ASSUME NEW j \in 1..(count_ - 1)
                 PROVE  /\ j - 1 \in 0..(count_' - 1)
                        /\ SlotBehind(begin_', j - 1) = SlotAt(j)
      OBVIOUS
    <3>1. /\ j - 1 \in 0..(count_' - 1) /\ j - 1 \in 0..(queue_size_ - 1)
          /\ (j - 1) + 1 = j
      BY <1>1, <1>2, QueueSizeAssumption
    <3> QED
      BY <1>3, <3>1
  <2> QED
    BY <2>1, <2>2
<1> QED
  BY <1>4, <1>5, <1>7, <1>8 DEF RingIsConsistent, SlotAt

\* A taken task leaves the types of the data alone.
LEMMA TakeKeepsTypes ==
  ASSUME DataTypes, RingIsConsistent, count_ > 0, NEW w \in Workers, TakeTask(w)
  PROVE  DataTypes'
<1>1. queue_[begin_] \in Tasks /\ queue_[begin_] # None
  BY TaskAtBegin, NoneAssumption
<1>2. Append(taken, queue_[begin_]) \in Seq(Tasks)
  BY <1>1, AppendProperties DEF DataTypes
<1>3. begin_' \in Slots
  BY NextSlotWraps DEF TakeTask, DataTypes
<1>4. count_' \in 0..queue_size_
  BY QueueSizeAssumption DEF TakeTask, DataTypes
<1>5. /\ at' \in [Workers -> Places]
      /\ task' \in [Workers -> Tasks \union {None}]
      /\ \A v \in Workers : at'[v] = "running" <=> task'[v] # None
      /\ queue_' \in [Slots -> Tasks \union {None}]
  BY <1>1 DEF TakeTask, DataTypes, Places
<1> QED
  BY <1>2, <1>3, <1>4, <1>5 DEF TakeTask, DataTypes

\* Signal wakes at most one worker up, and one if any waits.
LEMMA SignalWakes ==
  ASSUME DataTypes, Signal
  PROVE  /\ at' \in [Workers -> Places]
         /\ \A w \in Workers : \/ at'[w] = at[w]
                               \/ at[w] = "waiting" /\ at'[w] = "lock"
         /\ (\E w \in Workers : at[w] = "waiting")
              => \E w \in Workers : at'[w] = "lock"
BY DEF DataTypes, Signal, Places

LEMMA PoolInit == Init => IInv
<1> SUFFICES ASSUME Init
             PROVE  IInv
  OBVIOUS
<1>1. DataTypes
  BY QueueSizeAssumption, EmptySeq
  DEF Init, DataTypes, Slots, Places, Answers
<1>2. RingIsConsistent
  <2>1. SlotAt(0) = 0
    BY <1>1, SlotAtWraps, QueueSizeAssumption DEF Init
  <2>2. 0..(count_ - 1) = {}
    BY DEF Init
  <2> QED
    BY <2>1, <2>2 DEF Init, RingIsConsistent
<1>3. NoIdleWithWork /\ EndIsShutdown /\ GracefulDrains
  BY DEF Init, NoIdleWithWork, EndIsShutdown, GracefulDrains
<1> QED
  BY <1>1, <1>2, <1>3 DEF IInv

LEMMA PoolStep == IInv /\ [Next]_vars => IInv'
<1> SUFFICES ASSUME IInv, [Next]_vars
             PROVE  IInv'
  OBVIOUS
<1>0. DataTypes /\ RingIsConsistent
  BY DEF IInv
<1>a. ASSUME UNCHANGED ringVars
      PROVE  RingIsConsistent'
  BY <1>0, <1>a DEF RingIsConsistent, SlotAt, ringVars
<1> USE DEF IInv, NoIdleWithWork, EndIsShutdown, GracefulDrains, Threads,
            IMMEDIATE_SHUTDOWN, GRACEFUL_SHUTDOWN
<1>1. ASSUME NEW w \in Workers, CreateThread(w)
      PROVE  IInv'
  <2>1. DataTypes'
    BY <1>1, <1>0 DEF CreateThread, DataTypes, ringVars, histVars, Places
  <2>2. NoIdleWithWork' /\ EndIsShutdown' /\ GracefulDrains'
    BY <1>1, <1>0 DEF CreateThread, DataTypes, ringVars
  <2> QED
    BY <1>1, <1>a, <2>1, <2>2 DEF CreateThread
<1>2. ASSUME CreateReturns
      PROVE  IInv'
  BY <1>2, <1>0, <1>a DEF CreateReturns, DataTypes, ringVars, histVars, workerVars
<1>3. ASSUME NEW t \in Tasks, AddFull(t) \/ AddShutdown(t)
      PROVE  IInv'
  BY <1>3, <1>0, <1>a DEF AddFull, AddShutdown, DataTypes, ringVars, workerVars,
    Answers
<1>4. ASSUME NEW t \in Tasks, AddTask(t)
      PROVE  IInv'
  <2>1. Signal
    BY <1>4 DEF AddTask
  <2>2. DataTypes'
    <3>1. end_' \in Slots /\ count_' \in 0..queue_size_
      BY <1>4, <1>0, NextSlotWraps, QueueSizeAssumption DEF AddTask, DataTypes
    <3>2. \A w \in Workers : at'[w] = "running" <=> at[w] = "running"
      BY <1>0, <2>1, SignalWakes
    <3> QED
      BY <1>4, <1>0, <2>1, <3>1, <3>2, SignalWakes
      DEF AddTask, DataTypes, Answers
  <2>3. NoIdleWithWork'
    BY <1>4, <1>0, <2>1, SignalWakes DEF AddTask, DataTypes
  <2>4. EndIsShutdown' /\ GracefulDrains'
    BY <1>4, <1>0, <2>1, SignalWakes DEF AddTask, DataTypes
  <2> QED
    BY <1>4, <1>0, <2>2, <2>3, <2>4, AddKeepsRing
<1>5. ASSUME NEW w \in Workers, Wait(w)
      PROVE  IInv'
  <2>1. DataTypes'
    BY <1>5, <1>0 DEF Wait, DataTypes, ringVars, histVars, Places
  <2>2. NoIdleWithWork' /\ EndIsShutdown' /\ GracefulDrains'
    BY <1>5, <1>0 DEF Wait, DataTypes, ringVars
  <2> QED
    BY <1>5, <1>a, <2>1, <2>2 DEF Wait
<1>6. ASSUME NEW w \in Workers, SpuriousWakeup(w)
      PROVE  IInv'
  <2>1. DataTypes'
    BY <1>6, <1>0 DEF SpuriousWakeup, DataTypes, ringVars, histVars, Places
  <2>2. NoIdleWithWork' /\ EndIsShutdown' /\ GracefulDrains'
    BY <1>6, <1>0 DEF SpuriousWakeup, DataTypes, ringVars
  <2> QED
    BY <1>6, <1>a, <2>1, <2>2 DEF SpuriousWakeup
<1>7. ASSUME NEW w \in Workers, Exit(w)
      PROVE  IInv'
  <2>1. DataTypes'
    BY <1>7, <1>0 DEF Exit, DataTypes, ringVars, histVars, Places
  <2>2. NoIdleWithWork' /\ EndIsShutdown' /\ GracefulDrains'
    BY <1>7, <1>0 DEF Exit, MustExit, DataTypes, ringVars
  <2> QED
    BY <1>7, <1>a, <2>1, <2>2 DEF Exit
<1>8. ASSUME NEW w \in Workers, TakeTask(w)
      PROVE  IInv'
  <2>1. count_ > 0
    BY <1>8, <1>0, QueueSizeAssumption DEF TakeTask, MustExit, DataTypes
  <2>2. NoIdleWithWork' /\ EndIsShutdown' /\ GracefulDrains'
    BY <1>8, <1>0, <2>1, QueueSizeAssumption DEF TakeTask, DataTypes
  <2> QED
    BY <1>8, <1>0, <2>1, <2>2, TakeKeepsTypes, TakeKeepsRing
<1>9. ASSUME NEW w \in Workers, RunTask(w)
      PROVE  IInv'
  <2>1. DataTypes'
    BY <1>9, <1>0 DEF RunTask, DataTypes, ringVars, histVars, Places
  <2>2. NoIdleWithWork' /\ EndIsShutdown' /\ GracefulDrains'
    BY <1>9, <1>0 DEF RunTask, DataTypes, ringVars
  <2> QED
    BY <1>9, <1>a, <2>1, <2>2 DEF RunTask
<1>10. ASSUME NEW d \in Destroyers, NEW option \in {1, 2}, Destroy(d, option)
       PROVE  IInv'
  <2>1. DataTypes'
    BY <1>10, <1>0 DEF Destroy, DataTypes, ringVars, histVars, Places
  <2>2. NoIdleWithWork' /\ EndIsShutdown' /\ GracefulDrains'
    BY <1>10, <1>0 DEF Destroy, DataTypes, ringVars
  <2> QED
    BY <1>10, <1>a, <2>1, <2>2 DEF Destroy
<1>11. ASSUME NEW d \in Destroyers, DestroyAgain(d) \/ JoinAndFree(d)
       PROVE  IInv'
  BY <1>11, <1>0, <1>a DEF DestroyAgain, JoinAndFree, DataTypes, ringVars,
    workerVars, histVars
<1>12. CASE UNCHANGED vars
  BY <1>12, <1>0, <1>a DEF vars, DataTypes, ringVars, workerVars, histVars
<1> QED
  BY <1>1, <1>2, <1>3, <1>4, <1>5, <1>6, <1>7, <1>8, <1>9, <1>10, <1>11, <1>12
  DEF Next, Worker

-----------------------------------------------------------------------------
\* started_ counts the workers alive.
LEMMA CountInit == Init => StartedCounts
<1> SUFFICES ASSUME Init
             PROVE  StartedCounts
  OBVIOUS
<1>1. Alive = {}
  BY DEF Init, Alive
<1> QED
  BY <1>1, FS_EmptySet DEF Init, StartedCounts

LEMMA CountStep == IInv /\ StartedCounts /\ [Next]_vars => StartedCounts'
<1> SUFFICES ASSUME IInv, StartedCounts, [Next]_vars
             PROVE  StartedCounts'
  OBVIOUS
<1>1. IsFiniteSet(Alive)
  <2>1. Alive \in SUBSET Workers
    BY DEF Alive
  <2> QED
    BY <2>1, WorkersAssumption, FS_Subset
<1>2. at \in [Workers -> Places] /\ DataTypes
  BY DEF IInv, DataTypes
<1>3. ASSUME NEW w \in Workers, CreateThread(w)
      PROVE  StartedCounts'
  <2>1. w \notin Alive /\ Alive' = Alive \union {w}
    BY <1>3, <1>2 DEF CreateThread, Alive
  <2> QED
    BY <1>3, <1>1, <2>1, FS_AddElement DEF CreateThread, StartedCounts
<1>4. ASSUME NEW w \in Workers, Exit(w)
      PROVE  StartedCounts'
  <2>1. w \in Alive /\ Alive' = Alive \ {w}
    BY <1>4, <1>2 DEF Exit, Alive
  <2> QED
    BY <1>4, <1>1, <2>1, FS_RemoveElement DEF Exit, StartedCounts
<1>5. ASSUME NEW w \in Workers,
             Wait(w) \/ TakeTask(w) \/ RunTask(w) \/ SpuriousWakeup(w)
      PROVE  StartedCounts'
  <2>1. Alive' = Alive
    BY <1>5, <1>2 DEF Wait, TakeTask, RunTask, SpuriousWakeup, Alive
  <2> QED
    BY <1>5, <2>1 DEF Wait, TakeTask, RunTask, SpuriousWakeup, StartedCounts
<1>6. ASSUME NEW t \in Tasks, AddTask(t)
      PROVE  StartedCounts'
  <2>1. \A v \in Workers : \/ at'[v] = at[v]
                           \/ at[v] = "waiting" /\ at'[v] = "lock"
    BY <1>2, <1>6, SignalWakes DEF AddTask
  <2>2. Alive' = Alive
    BY <2>1 DEF Alive
  <2> QED
    BY <1>6, <2>2 DEF AddTask, StartedCounts
<1>7. ASSUME NEW d \in Destroyers, NEW option \in {1, 2}, Destroy(d, option)
      PROVE  StartedCounts'
  <2>1. Alive' = Alive
    BY <1>7, <1>2 DEF Destroy, Alive
  <2> QED
    BY <1>7, <2>1 DEF Destroy, StartedCounts
<1>8. ASSUME UNCHANGED <<at, started_>>
      PROVE  StartedCounts'
  BY <1>8 DEF StartedCounts, Alive
<1> QED
  BY <1>3, <1>4, <1>5, <1>6, <1>7, <1>8
  DEF Next, Worker, CreateReturns, AddFull, AddShutdown, DestroyAgain,
    JoinAndFree, vars, workerVars, IMMEDIATE_SHUTDOWN, GRACEFUL_SHUTDOWN

-----------------------------------------------------------------------------
LEMMA Invariance == Spec => [](IInv /\ StartedCounts)
<1>1. Init => IInv /\ StartedCounts
  BY PoolInit, CountInit
<1>2. (IInv /\ StartedCounts) /\ [Next]_vars => (IInv /\ StartedCounts)'
  BY PoolStep, CountStep
<1> QED
  BY <1>1, <1>2, PTL DEF Spec

\* The pool is well typed and counts its workers.
THEOREM TypeCorrect == Spec => []TypeOK
<1>1. IInv /\ StartedCounts => TypeOK
  BY DEF IInv, DataTypes, StartedCounts, Alive, TypeOK
<1> QED
  BY <1>1, Invariance, PTL

\* begin_, end_, count_ and the slots agree, whatever wraps around the ring.
THEOREM RingConsistent == Spec => []RingIsConsistent
<1>1. IInv => RingIsConsistent
  BY DEF IInv
<1> QED
  BY <1>1, Invariance, PTL

\* One signal per task loses no task, whatever the number of workers.
THEOREM SignalsSuffice == Spec => []NoIdleWithWork
<1>1. IInv => NoIdleWithWork
  BY DEF IInv
<1> QED
  BY <1>1, Invariance, PTL

\* After a graceful shutdown no worker ends with a task in the ring.
THEOREM GracefulShutdown == Spec => []GracefulDrains
<1>1. IInv => GracefulDrains
  BY DEF IInv
<1> QED
  BY <1>1, Invariance, PTL

-----------------------------------------------------------------------------
\* The refinement: the ring, read from begin_, is the queue of TaskPool.
Queue == [i \in 1..count_ |-> queue_[SlotAt(i - 1)]]
Offered == {t \in Tasks : answer[t] # "none"}

\* The queue is a sequence of count_ tasks.
QueueReads ==
  /\ Queue \in Seq(Tasks) /\ Len(Queue) = count_ /\ count_ \in Nat
  /\ \A i \in 1..count_ : Queue[i] = queue_[SlotAt(i - 1)]

LEMMA QueueIsASeq == IInv => QueueReads
<1> SUFFICES ASSUME IInv
             PROVE  QueueReads
  OBVIOUS
<1>1. count_ \in Nat
  BY DEF IInv, DataTypes
<1>2. \A i \in 1..count_ : queue_[SlotAt(i - 1)] \in Tasks
  <2> SUFFICES ASSUME NEW i \in 1..count_
               PROVE  queue_[SlotAt(i - 1)] \in Tasks
    OBVIOUS
  <2>1. i - 1 \in 0..(count_ - 1)
    BY <1>1
  <2>2. SlotAt(i - 1) \in {s \in Slots : queue_[s] # None}
    BY <2>1 DEF IInv, RingIsConsistent
  <2> QED
    BY <2>2 DEF IInv, DataTypes
<1>3. Queue \in [1..count_ -> Tasks]
  BY <1>2 DEF Queue
<1>4. Queue \in Seq(Tasks) /\ Len(Queue) = count_
  BY <1>1, <1>3
<1> QED
  BY <1>1, <1>4 DEF Queue, QueueReads

\* ThreadPoolAdd appends.
LEMMA AddAppends ==
  ASSUME IInv, IInv', NEW t \in Tasks, AddTask(t)
  PROVE  Queue' = Append(Queue, t)
<1>1. /\ Queue \in Seq(Tasks) /\ Len(Queue) = count_ /\ count_ \in Nat
      /\ \A i \in 1..count_ : Queue[i] = queue_[SlotAt(i - 1)]
  BY QueueIsASeq DEF QueueReads
<1>2. /\ Queue' \in Seq(Tasks) /\ Len(Queue') = count_'
      /\ \A i \in 1..count_' : Queue'[i] = queue_'[SlotBehind(begin_', i - 1)]
  <2>1. QueueReads'
    BY QueueIsASeq, PTL
  <2> QED
    BY <2>1 DEF QueueReads, SlotAt
<1>3. /\ queue_' = [queue_ EXCEPT ![end_] = t] /\ count_' = count_ + 1
      /\ begin_' = begin_ /\ count_ \in 0..(queue_size_ - 1)
      /\ end_ = SlotAt(count_) /\ end_ \in Slots
      /\ queue_ \in [Slots -> Tasks \union {None}]
  BY QueueSizeAssumption DEF AddTask, IInv, DataTypes, RingIsConsistent
<1>4. /\ Append(Queue, t) \in Seq(Tasks) /\ Len(Append(Queue, t)) = count_ + 1
      /\ \A i \in 1..count_ : Append(Queue, t)[i] = Queue[i]
      /\ Append(Queue, t)[count_ + 1] = t
  BY <1>1, AppendProperties
<1>5. ASSUME NEW i \in 1..count_
      PROVE  Queue'[i] = Append(Queue, t)[i]
  <2>1. /\ i - 1 \in 0..(queue_size_ - 1) /\ i - 1 # count_ /\ i \in 1..count_'
        /\ DataTypes
    BY <1>1, <1>3, QueueSizeAssumption DEF IInv
  <2>2. SlotAt(i - 1) \in Slots /\ SlotAt(i - 1) # end_
    BY <1>3, <2>1, SlotInRing, SlotsDiffer
  <2>3. queue_'[SlotAt(i - 1)] = queue_[SlotAt(i - 1)]
    BY <1>3, <2>2
  <2> QED
    BY <1>1, <1>2, <1>3, <1>4, <2>1, <2>3 DEF SlotAt
<1>6. Queue'[count_ + 1] = t
  <2>1. count_ + 1 \in 1..count_' /\ (count_ + 1) - 1 = count_
    BY <1>1, <1>3
  <2>2. Queue'[count_ + 1] = queue_'[SlotBehind(begin_', count_)]
    BY <1>2, <2>1
  <2> QED
    BY <1>3, <2>2 DEF SlotAt
<1>7. \A i \in 1..Len(Queue') : Queue'[i] = Append(Queue, t)[i]
  <2>1. \A i \in 1..Len(Queue') : i \in 1..count_ \/ i = count_ + 1
    BY <1>1, <1>2, <1>3
  <2> QED
    BY <1>4, <1>5, <1>6, <2>1
<1> QED
  BY <1>2, <1>3, <1>4, <1>7, SeqEqual

\* A worker takes the head.
LEMMA TakeTakesHead ==
  ASSUME IInv, IInv', count_ > 0, NEW w \in Workers, TakeTask(w)
  PROVE  /\ Queue # <<>> /\ Head(Queue) = queue_[begin_]
         /\ Queue' = Tail(Queue)
<1>1. /\ Queue \in Seq(Tasks) /\ Len(Queue) = count_ /\ count_ \in Nat
      /\ \A i \in 1..count_ : Queue[i] = queue_[SlotAt(i - 1)]
  BY QueueIsASeq DEF QueueReads
<1>2. /\ Queue' \in Seq(Tasks) /\ Len(Queue') = count_'
      /\ \A i \in 1..count_' : Queue'[i] = queue_'[SlotBehind(begin_', i - 1)]
  <2>1. QueueReads'
    BY QueueIsASeq, PTL
  <2> QED
    BY <2>1 DEF QueueReads, SlotAt
<1>3. /\ queue_' = [queue_ EXCEPT ![begin_] = None] /\ count_' = count_ - 1
      /\ begin_' = NextSlot(begin_) /\ count_ \in 1..queue_size_
      /\ DataTypes /\ queue_ \in [Slots -> Tasks \union {None}]
  BY QueueSizeAssumption DEF TakeTask, IInv, DataTypes
<1>4. SlotAt(0) = begin_
  BY TaskAtBegin DEF IInv
<1>5. Queue # <<>> /\ Head(Queue) = queue_[begin_]
  <2>1. Queue # <<>> /\ Head(Queue) = Queue[1]
    BY <1>1, <1>3, EmptySeq
  <2>2. 1 \in 1..count_ /\ 1 - 1 = 0
    BY <1>3
  <2> QED
    BY <1>1, <1>4, <2>1, <2>2
<1>6. /\ Tail(Queue) \in Seq(Tasks) /\ Len(Tail(Queue)) = count_ - 1
      /\ \A i \in 1..(count_ - 1) : Tail(Queue)[i] = Queue[i + 1]
  BY <1>1, <1>5, HeadTailProperties
<1>7. ASSUME NEW i \in 1..(count_ - 1)
      PROVE  Queue'[i] = Tail(Queue)[i]
  <2>1. /\ i - 1 \in 0..(queue_size_ - 1) /\ i \in 0..(queue_size_ - 1) /\ i # 0
        /\ 0 \in 0..(queue_size_ - 1) /\ (i - 1) + 1 = i /\ (i + 1) - 1 = i
        /\ i + 1 \in 1..count_ /\ i \in 1..count_'
    BY <1>1, <1>3, QueueSizeAssumption
  <2>2. SlotBehind(begin_', i - 1) = SlotAt(i)
    BY <1>3, <2>1, SlotsShift
  <2>3. SlotAt(i) \in Slots /\ SlotAt(i) # begin_
    BY <1>3, <1>4, <2>1, SlotInRing, SlotsDiffer
  <2>4. queue_'[SlotAt(i)] = queue_[SlotAt(i)]
    BY <1>3, <2>3
  <2>5. Queue'[i] = queue_'[SlotAt(i)]
    BY <1>2, <2>1, <2>2
  <2>6. Tail(Queue)[i] = queue_[SlotAt(i)]
    BY <1>1, <1>6, <2>1
  <2> QED
    BY <2>4, <2>5, <2>6
<1>8. Queue' = Tail(Queue)
  BY <1>2, <1>3, <1>6, <1>7, SeqEqual
<1> QED
  BY <1>5, <1>8

LEMMA InitRefines == Init => TP!Init
<1> SUFFICES ASSUME Init
             PROVE  TP!Init
  OBVIOUS
<1>1. IInv
  BY PoolInit
<1>2. Queue = <<>>
  BY <1>1, QueueIsASeq, EmptySeq DEF QueueReads, Init
<1> QED
  BY <1>2 DEF TP!Init, Init, Queue

LEMMA StepRefines == IInv /\ IInv' /\ [Next]_vars => [TP!Next]_TP!vars
<1> SUFFICES ASSUME IInv, IInv', [Next]_vars
             PROVE  [TP!Next]_TP!vars
  OBVIOUS
<1>1. /\ DataTypes
      /\ Queue \in Seq(Tasks) /\ Len(Queue) = count_
  BY QueueIsASeq DEF IInv, QueueReads
<1>a. ASSUME UNCHANGED <<ringVars, answer, taken, shutdown_>>
      PROVE  UNCHANGED TP!vars
  BY <1>a DEF TP!vars, ringVars, SlotAt
<1>2. ASSUME NEW t \in Tasks, AddTask(t)
      PROVE  TP!Next
  <2>1. Queue' = Append(Queue, t)
    BY <1>2, AddAppends
  <2>2. t \notin Offered /\ Offered' = Offered \union {t}
    BY <1>1, <1>2 DEF AddTask, Offered, DataTypes
  <2>3. Len(Queue) < queue_size_
    BY <1>1, <1>2, QueueSizeAssumption DEF AddTask, DataTypes
  <2>4. TP!Accept(t)
    BY <1>2, <2>1, <2>2, <2>3 DEF TP!Accept, AddTask, Queue, Offered
  <2> QED
    BY <2>4 DEF TP!Next
<1>3. ASSUME NEW t \in Tasks, AddFull(t) \/ AddShutdown(t)
      PROVE  TP!Next
  <2>1. t \notin Offered /\ Offered' = Offered \union {t}
    BY <1>1, <1>3 DEF AddFull, AddShutdown, Offered, DataTypes
  <2>2. shutdown_ # 0 \/ Len(Queue) = queue_size_
    BY <1>1, <1>3 DEF AddFull, AddShutdown
  <2>3. Queue' = Queue /\ taken' = taken /\ shutdown_' = shutdown_
    BY <1>3 DEF AddFull, AddShutdown, ringVars, Queue, SlotAt
  <2>4. TP!Refuse(t)
    BY <2>1, <2>2, <2>3 DEF TP!Refuse, Queue, Offered
  <2> QED
    BY <2>4 DEF TP!Next
<1>4. ASSUME NEW w \in Workers, TakeTask(w)
      PROVE  TP!Next
  <2>1. count_ > 0
    BY <1>1, <1>4, QueueSizeAssumption
    DEF TakeTask, MustExit, DataTypes, IMMEDIATE_SHUTDOWN, GRACEFUL_SHUTDOWN
  <2>2. /\ Queue # <<>> /\ Head(Queue) = queue_[begin_]
        /\ Queue' = Tail(Queue)
    BY <1>4, <2>1, TakeTakesHead
  <2>3. TP!Take
    BY <1>4, <2>2 DEF TP!Take, TakeTask, Queue
  <2> QED
    BY <2>3 DEF TP!Next
<1>5. ASSUME NEW d \in Destroyers, NEW option \in {1, 2}, Destroy(d, option)
      PROVE  TP!Next
  <2>1. shutdown_' # 0 /\ UNCHANGED <<ringVars, answer, taken>>
    BY <1>5 DEF Destroy, histVars
  <2>2. TP!Close
    BY <2>1 DEF TP!Close, ringVars, SlotAt
  <2> QED
    BY <2>2 DEF TP!Next
<1>6. ASSUME NEW w \in Workers,
             CreateThread(w) \/ Wait(w) \/ Exit(w) \/ RunTask(w) \/ SpuriousWakeup(w)
      PROVE  UNCHANGED TP!vars
  BY <1>6, <1>a
  DEF CreateThread, Wait, Exit, RunTask, SpuriousWakeup, histVars
<1>7. ASSUME NEW d \in Destroyers, DestroyAgain(d) \/ JoinAndFree(d)
      PROVE  UNCHANGED TP!vars
  BY <1>7, <1>a DEF DestroyAgain, JoinAndFree, histVars
<1>8. CASE CreateReturns \/ UNCHANGED vars
  BY <1>8, <1>a DEF CreateReturns, vars, histVars
<1> QED
  BY <1>2, <1>3, <1>4, <1>5, <1>6, <1>7, <1>8
  DEF Next, Worker, IMMEDIATE_SHUTDOWN, GRACEFUL_SHUTDOWN

\* The pool is the bounded FIFO TaskPool: every task is accepted or refused as
\* the bound and the shutdown say, and tasks reach workers in order, each once.
THEOREM PoolIsAFifo == Spec => ImplementsTaskPool
<1>1. Spec => [](IInv /\ StartedCounts)
  BY Invariance
<1> QED
  BY <1>1, InitRefines, StepRefines, PTL DEF Spec, ImplementsTaskPool, TP!Spec
=============================================================================
