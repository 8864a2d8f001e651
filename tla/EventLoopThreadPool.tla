------------------------ MODULE EventLoopThreadPool ------------------------
(***************************************************************************)
(* EventLoopThreadPool and its EventLoopThreads: the main thread starts    *)
(* the threads one by one, each builds a loop on its own stack and hands   *)
(* out a pointer to it; the destructor quits the loops and joins.          *)
(*                                                                         *)
(* A loop is here only what its thread makes of it: built, in Loop(),      *)
(* destroyed.  EventLoop is the model of a loop's turns.                   *)
(***************************************************************************)
EXTENDS Naturals, Sequences

CONSTANT num_threads_
ASSUME NumThreadsAssumption == num_threads_ \in Nat \ {0}

Threads == 1..num_threads_

VARIABLES
  main,               \* where the main thread is, see MainPlaces
  k,                  \* the thread it starts or destroys
  at,                 \* per thread: where it is in RunInThread, ThreadFunc
  count_,             \* per thread: latch_
  loop_,              \* per thread: loop_ points to its loop
  quit_,              \* per thread: its loop's quit_
  loops_, next_,
  early               \* history: threads told to quit before Loop()

poolVars == <<main, k, at, count_, loop_, quit_, loops_, next_, early>>

MainPlaces == {"start", "latch", "latch_asleep", "loop", "loop_asleep", "ready",
               "destroy", "quit", "join", "done"}
Places == {"none", "created", "started", "published", "looping", "left", "ended"}
Live == {"published", "looping"}      \* its loop exists and has not quit

PoolInit ==
  /\ main = "start" /\ k = 1
  /\ at = [t \in Threads |-> "none"]
  /\ count_ = [t \in Threads |-> 1]
  /\ loop_ = [t \in Threads |-> FALSE]
  /\ quit_ = [t \in Threads |-> FALSE]
  /\ loops_ = <<>> /\ next_ = 0
  /\ early = {}

-----------------------------------------------------------------------------
\* Thread::Start: pthread_create, then the latch.  If it fails, started_ is
\* set back and StartLoop goes on all the same.
CreateThread ==
  /\ main = "start" /\ k <= num_threads_
  /\ \/ at' = [at EXCEPT ![k] = "created"] /\ main' = "latch"
     \/ UNCHANGED at /\ main' = "loop"
  /\ UNCHANGED <<k, count_, loop_, quit_, loops_, next_, early>>

\* CountDownLatch::Wait, and the wait of StartLoop, test under their mutex.
LatchWait ==
  /\ main = "latch"
  /\ main' = IF count_[k] > 0 THEN "latch_asleep" ELSE "loop"
  /\ UNCHANGED <<k, at, count_, loop_, quit_, loops_, next_, early>>

\* Mutant: StartLoop does not wait.
StartLoopAtOnce ==
  /\ main = "loop"
  /\ main' = IF k = num_threads_ THEN "ready" ELSE "start"
  /\ k' = k + 1 /\ loops_' = Append(loops_, k)
  /\ UNCHANGED <<at, count_, loop_, quit_, next_, early>>

StartLoop ==
  /\ main = "loop"
  /\ IF loop_[k]
     THEN /\ main' = IF k = num_threads_ THEN "ready" ELSE "start"
          /\ k' = k + 1 /\ loops_' = Append(loops_, k)
     ELSE main' = "loop_asleep" /\ UNCHANGED <<k, loops_>>
  /\ UNCHANGED <<at, count_, loop_, quit_, next_, early>>

\* pthread_cond_wait may return by itself.
SpuriousWakeup ==
  \/ /\ main = "latch_asleep" /\ main' = "latch"
     /\ UNCHANGED <<k, at, count_, loop_, quit_, loops_, next_, early>>
  \/ /\ main = "loop_asleep" /\ main' = "loop"
     /\ UNCHANGED <<k, at, count_, loop_, quit_, loops_, next_, early>>

-----------------------------------------------------------------------------
\* RunInThread up to the latch.
CountDown(t) ==
  /\ at[t] = "created"
  /\ at' = [at EXCEPT ![t] = "started"]
  /\ count_' = [count_ EXCEPT ![t] = @ - 1]
  /\ main' = IF main = "latch_asleep" THEN "latch" ELSE main
  /\ UNCHANGED <<k, loop_, quit_, loops_, next_, early>>

\* Mutant: nobody is told.
PublishNoNotify(t) ==
  /\ at[t] = "started"
  /\ at' = [at EXCEPT ![t] = "published"]
  /\ loop_' = [loop_ EXCEPT ![t] = TRUE]
  /\ UNCHANGED <<main, k, count_, quit_, loops_, next_, early>>

\* ThreadFunc builds the loop, and publishes it under mutex_.
Publish(t) ==
  /\ at[t] = "started"
  /\ at' = [at EXCEPT ![t] = "published"]
  /\ loop_' = [loop_ EXCEPT ![t] = TRUE]
  /\ main' = IF main = "loop_asleep" THEN "loop" ELSE main
  /\ UNCHANGED <<k, count_, quit_, loops_, next_, early>>

\* Loop() starts with quit_ = false.
EnterLoop(t) ==
  /\ at[t] = "published"
  /\ at' = [at EXCEPT ![t] = "looping"]
  /\ quit_' = [quit_ EXCEPT ![t] = FALSE]
  /\ UNCHANGED <<main, k, count_, loop_, loops_, next_, early>>

LeaveLoop(t) ==
  /\ at[t] = "looping" /\ quit_[t]
  /\ at' = [at EXCEPT ![t] = "left"]
  /\ UNCHANGED <<main, k, count_, loop_, quit_, loops_, next_, early>>

\* loop_ is cleared without the mutex, the loop destroyed, the thread ends.
EndThread(t) ==
  /\ at[t] = "left"
  /\ at' = [at EXCEPT ![t] = "ended"]
  /\ loop_' = [loop_ EXCEPT ![t] = FALSE]
  /\ UNCHANGED <<main, k, count_, quit_, loops_, next_, early>>

-----------------------------------------------------------------------------
\* The pool is destroyed: the threads_ one after the other.
BeginDestroy ==
  /\ main = "ready"
  /\ main' = "destroy" /\ k' = 1
  /\ UNCHANGED <<at, count_, loop_, quit_, loops_, next_, early>>

\* ~EventLoopThread: the test of loop_, Quit() and Join() are three steps.  A
\* thread that is not joined is detached.
DestroyThread ==
  /\ main = "destroy"
  /\ IF k > num_threads_ THEN main' = "done" /\ UNCHANGED k
     ELSE IF loop_[k] THEN main' = "quit" /\ UNCHANGED k
          ELSE main' = "destroy" /\ k' = k + 1
  /\ UNCHANGED <<at, count_, loop_, quit_, loops_, next_, early>>

\* Mutant: the thread is joined and not told to quit.
QuitLoopForgotten ==
  /\ main = "quit"
  /\ main' = "join"
  /\ UNCHANGED <<k, at, count_, loop_, quit_, loops_, next_, early>>

QuitLoop ==
  /\ main = "quit"
  /\ main' = "join"
  /\ quit_' = [quit_ EXCEPT ![k] = TRUE]
  /\ early' = early \union {t \in {k} : at[t] = "published"}
  /\ UNCHANGED <<k, at, count_, loop_, loops_, next_>>

Join ==
  /\ main = "join" /\ at[k] = "ended"
  /\ main' = "destroy" /\ k' = k + 1
  /\ UNCHANGED <<at, count_, loop_, quit_, loops_, next_, early>>

-----------------------------------------------------------------------------
\* Mutant: the last loop is left out.
SuccessorShort(i) == IF i + 2 >= num_threads_ THEN 0 ELSE i + 1

Successor(i) == (i + 1) % num_threads_

\* GetNextLoop returns the loop of NextLoop and moves on.
NextLoop == loops_[next_ + 1]
GetNextLoop ==
  /\ next_' = Successor(next_)
  /\ UNCHANGED <<main, k, at, count_, loop_, quit_, loops_, early>>

PoolThread(t) ==
  CountDown(t) \/ Publish(t) \/ EnterLoop(t) \/ LeaveLoop(t) \/ EndThread(t)

PoolMain ==
  CreateThread \/ LatchWait \/ StartLoop \/ DestroyThread \/ QuitLoop \/ Join

PoolTypeOK ==
  /\ main \in MainPlaces /\ k \in 1..(num_threads_ + 1)
  /\ at \in [Threads -> Places] /\ count_ \in [Threads -> {0, 1}]
  /\ loop_ \in [Threads -> BOOLEAN] /\ quit_ \in [Threads -> BOOLEAN]
  /\ \A t \in Threads : /\ loop_[t] <=> at[t] \in {"published", "looping", "left"}
                        /\ count_[t] = 1 <=> at[t] \in {"none", "created"}
  /\ loops_ \in Seq(Threads) /\ next_ \in 0..(num_threads_ - 1)
  /\ early \subseteq Threads
=============================================================================
