----------------------------- MODULE ThreadPool -----------------------------
(***************************************************************************)
(* ThreadPool: a ring of tasks under one mutex and one condition variable, *)
(* workers that take tasks from it, and the threads that create the pool,  *)
(* add tasks to it and destroy it.                                         *)
(*                                                                         *)
(* A stretch of code that holds lock_ from start to end is one step, whose *)
(* guard is that lock_ is free.  lock_ is a variable all the same: two     *)
(* paths through ThreadPoolDestroy return without unlocking it.            *)
(***************************************************************************)
EXTENDS Naturals, Sequences, FiniteSets

CONSTANTS
  Workers,            \* the threads ThreadPoolCreate is asked for
  queue_size_,        \* slots of the ring
  Tasks,              \* each is offered to the pool at most once (the bound)
  Destroyers,         \* threads that call ThreadPoolDestroy, each once
  None                \* an empty slot

ASSUME QueueSizeAssumption == queue_size_ \in Nat \ {0}
ASSUME WorkersAssumption == IsFiniteSet(Workers)
ASSUME NoneAssumption == None \notin Tasks

IMMEDIATE_SHUTDOWN == 1
GRACEFUL_SHUTDOWN == 2

VARIABLES
  creating,           \* ThreadPoolCreate has not returned
  lock_,              \* "free" between steps; "leaked" or "destroyed"
  queue_, begin_, end_, count_,
  shutdown_,
  started_,
  at,                 \* per worker: where it is; "none" before its creation
  task,               \* per worker: the task it runs
  destroy,            \* per destroyer: where it is
  answer,             \* history: what ThreadPoolAdd returned for a task
  taken,              \* history: tasks in the order workers took them
  done                \* history: tasks that were run

ringVars == <<queue_, begin_, end_, count_>>
workerVars == <<at, task>>
histVars == <<answer, taken, done>>
vars == <<creating, lock_, ringVars, shutdown_, started_, workerVars, destroy,
          histVars>>

Slots == 0..(queue_size_ - 1)
Answers == {"none", "ok", "kThreadPoolQueueFull", "kThreadPoolShutdown"}
Places == {"none", "lock", "waiting", "running", "finished"}

Threads == {w \in Workers : at[w] # "none"}

Init ==
  /\ creating = TRUE /\ lock_ = "free"
  /\ queue_ = [s \in Slots |-> None]
  /\ begin_ = 0 /\ end_ = 0 /\ count_ = 0
  /\ shutdown_ = 0 /\ started_ = 0
  /\ at = [w \in Workers |-> "none"] /\ task = [w \in Workers |-> None]
  /\ destroy = [d \in Destroyers |-> "idle"]
  /\ answer = [t \in Tasks |-> "none"] /\ taken = <<>> /\ done = {}

-----------------------------------------------------------------------------
\* ThreadPoolCreate: one thread after the other, until pthread_create fails
\* or all are there.  The threads run at once.
CreateThread(w) ==
  /\ creating
  /\ at[w] = "none"
  /\ at' = [at EXCEPT ![w] = "lock"]
  /\ started_' = started_ + 1
  /\ UNCHANGED <<creating, lock_, ringVars, shutdown_, task, destroy, histVars>>

CreateReturns ==
  /\ creating
  /\ creating' = FALSE
  /\ UNCHANGED <<lock_, ringVars, shutdown_, started_, workerVars, destroy,
                 histVars>>

-----------------------------------------------------------------------------
\* Mutant: the ring has one slot less.
NextSlotShort(s) == IF s + 2 >= queue_size_ THEN 0 ELSE s + 1

NextSlot(s) == (s + 1) % queue_size_

\* pthread_cond_signal: one of the waiting workers, if there is one, is on
\* its way to the mutex.
Signal ==
  IF \E w \in Workers : at[w] = "waiting"
  THEN \E w \in Workers : /\ at[w] = "waiting"
                          /\ at' = [at EXCEPT ![w] = "lock"]
  ELSE UNCHANGED at

\* ThreadPoolAdd of t: full, closed, or stored and signalled.
AddFull(t) ==
  /\ ~creating /\ lock_ = "free"
  /\ answer[t] = "none"
  /\ count_ = queue_size_
  /\ answer' = [answer EXCEPT ![t] = "kThreadPoolQueueFull"]
  /\ UNCHANGED <<creating, lock_, ringVars, shutdown_, started_, workerVars,
                 destroy, taken, done>>

AddShutdown(t) ==
  /\ ~creating /\ lock_ = "free"
  /\ answer[t] = "none"
  /\ count_ # queue_size_ /\ shutdown_ # 0
  /\ answer' = [answer EXCEPT ![t] = "kThreadPoolShutdown"]
  /\ UNCHANGED <<creating, lock_, ringVars, shutdown_, started_, workerVars,
                 destroy, taken, done>>

\* Mutant: the task is stored and nobody is told.
AddTaskNoSignal(t) ==
  /\ ~creating /\ lock_ = "free"
  /\ answer[t] = "none"
  /\ count_ # queue_size_ /\ shutdown_ = 0
  /\ queue_' = [queue_ EXCEPT ![end_] = t]
  /\ end_' = NextSlot(end_)
  /\ count_' = count_ + 1
  /\ answer' = [answer EXCEPT ![t] = "ok"]
  /\ UNCHANGED <<creating, lock_, begin_, shutdown_, started_, workerVars,
                 destroy, taken, done>>

AddTask(t) ==
  /\ ~creating /\ lock_ = "free"
  /\ answer[t] = "none"
  /\ count_ # queue_size_ /\ shutdown_ = 0
  /\ queue_' = [queue_ EXCEPT ![end_] = t]
  /\ end_' = NextSlot(end_)
  /\ count_' = count_ + 1
  /\ Signal
  /\ answer' = [answer EXCEPT ![t] = "ok"]
  /\ UNCHANGED <<creating, lock_, begin_, shutdown_, started_, task, destroy,
                 taken, done>>

-----------------------------------------------------------------------------
\* ThreadPoolThread.

\* Nothing to do: pthread_cond_wait gives lock_ up.
Wait(w) ==
  /\ at[w] = "lock" /\ lock_ = "free"
  /\ count_ = 0 /\ shutdown_ = 0
  /\ at' = [at EXCEPT ![w] = "waiting"]
  /\ UNCHANGED <<creating, lock_, ringVars, shutdown_, started_, task, destroy,
                 histVars>>

\* pthread_cond_wait may return without a signal.
SpuriousWakeup(w) ==
  /\ at[w] = "waiting"
  /\ at' = [at EXCEPT ![w] = "lock"]
  /\ UNCHANGED <<creating, lock_, ringVars, shutdown_, started_, task, destroy,
                 histVars>>

\* Mutant: a graceful shutdown does not wait for the ring to empty.
MustExitAtOnce == shutdown_ # 0

\* The test after the wait that ends the thread.
MustExit ==
  \/ shutdown_ = IMMEDIATE_SHUTDOWN
  \/ shutdown_ = GRACEFUL_SHUTDOWN /\ count_ = 0

Exit(w) ==
  /\ at[w] = "lock" /\ lock_ = "free"
  /\ MustExit
  /\ at' = [at EXCEPT ![w] = "finished"]
  /\ started_' = started_ - 1
  /\ UNCHANGED <<creating, lock_, ringVars, shutdown_, task, destroy, histVars>>

\* Mutant: the slot keeps the task.
TakeTaskKept(w) ==
  /\ at[w] = "lock" /\ lock_ = "free"
  /\ ~(count_ = 0 /\ shutdown_ = 0) /\ ~MustExit
  /\ at' = [at EXCEPT ![w] = "running"]
  /\ task' = [task EXCEPT ![w] = queue_[begin_]]
  /\ taken' = Append(taken, queue_[begin_])
  /\ begin_' = NextSlot(begin_)
  /\ count_' = count_ - 1
  /\ UNCHANGED <<creating, lock_, queue_, end_, shutdown_, started_, destroy,
                 answer, done>>

\* Mutant: a worker takes the youngest task.
TakeTaskLast(w) ==
  LET last == (end_ + queue_size_ - 1) % queue_size_ IN
  /\ at[w] = "lock" /\ lock_ = "free"
  /\ ~(count_ = 0 /\ shutdown_ = 0) /\ ~MustExit
  /\ at' = [at EXCEPT ![w] = "running"]
  /\ task' = [task EXCEPT ![w] = queue_[last]]
  /\ taken' = Append(taken, queue_[last])
  /\ queue_' = [queue_ EXCEPT ![last] = None]
  /\ end_' = last
  /\ count_' = count_ - 1
  /\ UNCHANGED <<creating, lock_, begin_, shutdown_, started_, destroy, answer,
                 done>>

TakeTask(w) ==
  /\ at[w] = "lock" /\ lock_ = "free"
  /\ ~(count_ = 0 /\ shutdown_ = 0) /\ ~MustExit
  /\ at' = [at EXCEPT ![w] = "running"]
  /\ task' = [task EXCEPT ![w] = queue_[begin_]]
  /\ taken' = Append(taken, queue_[begin_])
  /\ queue_' = [queue_ EXCEPT ![begin_] = None]
  /\ begin_' = NextSlot(begin_)
  /\ count_' = count_ - 1
  /\ UNCHANGED <<creating, lock_, end_, shutdown_, started_, destroy, answer,
                 done>>

\* task.func(task.args) returns; the task is destroyed with its scope.
RunTask(w) ==
  /\ at[w] = "running"
  /\ at' = [at EXCEPT ![w] = "lock"]
  /\ task' = [task EXCEPT ![w] = None]
  /\ done' = done \union {task[w]}
  /\ UNCHANGED <<creating, lock_, ringVars, shutdown_, started_, destroy, answer,
                 taken>>

-----------------------------------------------------------------------------
\* Mutant: signal instead of broadcast.
DestroySignals(d, shutdown_option) ==
  /\ ~creating /\ lock_ = "free"
  /\ destroy[d] = "idle"
  /\ shutdown_ = 0
  /\ shutdown_' = shutdown_option
  /\ Signal
  /\ destroy' = [destroy EXCEPT ![d] = "joining"]
  /\ UNCHANGED <<creating, lock_, ringVars, started_, task, histVars>>

\* ThreadPoolDestroy up to the unlock: the first call closes the pool and
\* wakes every worker up.
Destroy(d, shutdown_option) ==
  /\ ~creating /\ lock_ = "free"
  /\ destroy[d] = "idle"
  /\ shutdown_ = 0
  /\ shutdown_' = shutdown_option
  /\ at' = [w \in Workers |-> IF at[w] = "waiting" THEN "lock" ELSE at[w]]
  /\ destroy' = [destroy EXCEPT ![d] = "joining"]
  /\ UNCHANGED <<creating, lock_, ringVars, started_, task, histVars>>

\* A later call: kThreadPoolShutdown is returned with lock_ still locked.
DestroyAgain(d) ==
  /\ ~creating /\ lock_ = "free"
  /\ destroy[d] = "idle"
  /\ shutdown_ # 0
  /\ lock_' = "leaked"
  /\ destroy' = [destroy EXCEPT ![d] = "refused"]
  /\ UNCHANGED <<creating, ringVars, shutdown_, started_, workerVars, histVars>>

\* The joins, and ThreadPoolFree: if no worker is left it locks the mutex and
\* destroys it locked.  glibc then refuses to destroy it, and nobody can lock
\* it again.
JoinAndFree(d) ==
  /\ destroy[d] = "joining"
  /\ \A w \in Threads : at[w] = "finished"
  /\ IF started_ > 0
     THEN UNCHANGED lock_
     ELSE lock_ = "free" /\ lock_' = "destroyed"
  /\ destroy' = [destroy EXCEPT ![d] = "returned"]
  /\ UNCHANGED <<creating, ringVars, shutdown_, started_, workerVars, histVars>>

-----------------------------------------------------------------------------
Worker(w) == Wait(w) \/ Exit(w) \/ TakeTask(w) \/ RunTask(w)

Next ==
  \/ \E w \in Workers : CreateThread(w) \/ Worker(w) \/ SpuriousWakeup(w)
  \/ CreateReturns
  \/ \E t \in Tasks : AddFull(t) \/ AddShutdown(t) \/ AddTask(t)
  \/ \E d \in Destroyers :
       \/ \E option \in {IMMEDIATE_SHUTDOWN, GRACEFUL_SHUTDOWN} :
            Destroy(d, option)
       \/ DestroyAgain(d)
       \/ JoinAndFree(d)

Spec == Init /\ [][Next]_vars

\* Workers are scheduled, tasks end, and a thread that joins goes on.  Between
\* two steps lock_ is free or lost for good, so weak fairness is enough.
FairSpec ==
  /\ Spec
  /\ \A w \in Workers : WF_vars(Worker(w))
  /\ \A d \in Destroyers : WF_vars(JoinAndFree(d))

-----------------------------------------------------------------------------
\* Properties.

\* Every variable has its type, and started_ counts the workers alive.
TypeOK ==
  /\ creating \in BOOLEAN
  /\ lock_ \in {"free", "leaked", "destroyed"}
  /\ queue_ \in [Slots -> Tasks \union {None}]
  /\ begin_ \in Slots /\ end_ \in Slots /\ count_ \in 0..queue_size_
  /\ shutdown_ \in {0, IMMEDIATE_SHUTDOWN, GRACEFUL_SHUTDOWN}
  /\ started_ = Cardinality({w \in Workers : at[w] \notin {"none", "finished"}})
  /\ at \in [Workers -> Places]
  /\ task \in [Workers -> Tasks \union {None}]
  /\ \A w \in Workers : at[w] = "running" <=> task[w] # None
  /\ destroy \in [Destroyers -> {"idle", "joining", "returned", "refused"}]
  /\ answer \in [Tasks -> Answers]
  /\ taken \in Seq(Tasks)
  /\ done \subseteq Tasks

\* The slot i places behind slot s, around the end of the ring.
SlotBehind(s, i) == (s + i) % queue_size_
SlotAt(i) == SlotBehind(begin_, i)

\* begin_, end_ and count_ agree over every wrap, and exactly the slots
\* between them hold tasks: a slot whose task was taken keeps neither the
\* function nor its argument alive.
RingIsConsistent ==
  /\ end_ = SlotAt(count_)
  /\ {s \in Slots : queue_[s] # None} = {SlotAt(i) : i \in 0..(count_ - 1)}

\* The single signal of ThreadPoolAdd is enough: never do all workers wait
\* while there is a task, or after the pool was told to shut down.
NoIdleWithWork ==
  Threads # {} /\ (count_ > 0 \/ shutdown_ # 0)
    => \E w \in Threads : at[w] # "waiting"

\* A graceful shutdown leaves no accepted task in the ring: no worker ends
\* before the ring is empty, and it stays empty.
GracefulDrains ==
  shutdown_ = GRACEFUL_SHUTDOWN /\ (\E w \in Workers : at[w] = "finished")
    => count_ = 0

\* An accepted task runs, unless the pool is shut down at once, has no worker,
\* or its mutex was lost to a second ThreadPoolDestroy.
AcceptedRuns ==
  \A t \in Tasks :
    answer[t] = "ok"
      ~> \/ t \in done
         \/ shutdown_ = IMMEDIATE_SHUTDOWN \/ Threads = {} \/ lock_ = "leaked"

\* ThreadPoolDestroy returns, if nobody calls it again meanwhile: every worker
\* sees the shutdown and ends.
DestroyReturns ==
  \A d \in Destroyers :
    destroy[d] = "joining" ~> destroy[d] = "returned" \/ lock_ = "leaked"

\* The ring implements the bounded FIFO, whatever wraps around it.
TP == INSTANCE TaskPool WITH
  Capacity <- queue_size_,
  offered <- {t \in Tasks : answer[t] # "none"},
  queue <- [i \in 1..count_ |-> queue_[SlotAt(i - 1)]],
  closed <- shutdown_ # 0
ImplementsTaskPool == TP!Spec
=============================================================================
