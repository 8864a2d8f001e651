-------------------------- MODULE EventLoopProofs ---------------------------
(***************************************************************************)
(* Proofs about EventLoop, for any number of callers, channels, functors   *)
(* and any batch size: the type invariant, the absence of lost wakeups     *)
(* (of QueueInLoop and of Quit), and that the loop implements the abstract *)
(* FunctorQueue.                                                           *)
(***************************************************************************)
EXTENDS EventLoop, SequenceTheorems, TLAPS

\* The strengthening of NoLostWakeup that is inductive.  A queued functor has
\* its wakeup not only while the loop waits but at all times except between
\* the return of Poll and the swap: there the swap itself will take it.
PendingCovered ==
  pc \notin {"events", "pending"} /\ pending_functors_ # <<>> => WakeupComing

IInv == TypeOK /\ PendingCovered /\ QuitNotSlept

-----------------------------------------------------------------------------
\* Every step keeps the type invariant, whatever the callers do.
LEMMA TypeStep == TypeOK /\ [Next]_vars => TypeOK'
<1> SUFFICES ASSUME TypeOK, [Next]_vars
             PROVE  TypeOK'
  OBVIOUS
<1> USE DEF TypeOK, Phases, AllChannels, loopVars, queueVars, epollVars,
            callerVars
<1>1. CASE StartLoop
  BY <1>1 DEF StartLoop
<1>2. CASE TestQuit
  BY <1>2 DEF TestQuit
<1>3. CASE Poll
  BY <1>3 DEF Poll, Reportable
<1>4. ASSUME NEW c \in AllChannels, HandleEvents(c)
      PROVE  TypeOK'
  BY <1>4 DEF HandleEvents
<1>5. CASE EventsHandled
  BY <1>5 DEF EventsHandled
<1>6. CASE SwapPending
  BY <1>6 DEF SwapPending
<1>7. CASE RunFunctor
  BY <1>7 DEF RunFunctor
<1>8. CASE FunctorsDone
  BY <1>8 DEF FunctorsDone
<1>9. CASE HandleExpired
  BY <1>9 DEF HandleExpired
<1>10. ASSUME NEW f \in Functors, LoopQueueInLoop(f)
       PROVE  TypeOK'
  BY <1>10 DEF LoopQueueInLoop, InCallback, RaiseWakeup
<1>11. ASSUME NEW f \in Functors, LoopRunInLoop(f)
       PROVE  TypeOK'
  BY <1>11 DEF LoopRunInLoop, InCallback
<1>12. CASE LoopQuit
  BY <1>12 DEF LoopQuit, InCallback
<1>13. ASSUME NEW t \in Callers, NEW f \in Functors, QueueInLoop(t, f)
       PROVE  TypeOK'
  BY <1>13 DEF QueueInLoop
<1>14. ASSUME NEW t \in Callers, Quit(t)
       PROVE  TypeOK'
  BY <1>14 DEF Quit
<1>15. ASSUME NEW t \in Callers, WakeUp(t)
       PROVE  TypeOK'
  BY <1>15 DEF WakeUp, RaiseWakeup
<1>16. ASSUME NEW c \in Channels, SocketReady(c)
       PROVE  TypeOK'
  BY <1>16 DEF SocketReady
<1>17. CASE UNCHANGED vars
  BY <1>17 DEF vars
<1> QED
  BY <1>1, <1>2, <1>3, <1>4, <1>5, <1>6, <1>7, <1>8, <1>9, <1>10, <1>11,
     <1>12, <1>13, <1>14, <1>15, <1>16, <1>17
  DEF Next, LoopStep, CallbackStep, CallerStep, Terminated

\* A step of any thread other than Poll and HandleEvents leaves a coming
\* wakeup coming: a caller about to write the eventfd writes it.
LEMMA WakeupStable ==
  ASSUME TypeOK, [Next]_vars, WakeupComing, pc # "poll", pc # "events"
  PROVE  WakeupComing'
<1> USE DEF TypeOK, WakeupComing, loopVars, queueVars, epollVars, callerVars
<1>1. CASE LoopStep
  BY <1>1 DEF LoopStep, StartLoop, TestQuit, Poll, HandleEvents,
     EventsHandled, SwapPending, RunFunctor, FunctorsDone, HandleExpired
<1>2. CASE CallbackStep
  BY <1>2 DEF CallbackStep, LoopQueueInLoop, LoopRunInLoop, LoopQuit,
     RaiseWakeup
<1>3. CASE CallerStep
  <2>1. ASSUME NEW t \in Callers, NEW f \in Functors, QueueInLoop(t, f)
        PROVE  WakeupComing'
    BY <2>1 DEF QueueInLoop
  <2>2. ASSUME NEW t \in Callers, Quit(t)
        PROVE  WakeupComing'
    BY <2>2 DEF Quit
  <2>3. ASSUME NEW t \in Callers, WakeUp(t)
        PROVE  WakeupComing'
    BY <2>3 DEF WakeUp, RaiseWakeup
  <2> QED
    BY <1>3, <2>1, <2>2, <2>3 DEF CallerStep
<1>4. ASSUME NEW c \in Channels, SocketReady(c)
      PROVE  WakeupComing'
  BY <1>4 DEF SocketReady
<1>5. CASE UNCHANGED vars
  BY <1>5 DEF vars
<1> QED
  BY <1>1, <1>2, <1>3, <1>4, <1>5 DEF Next, Terminated

\* The eventfd protocol is inductive: posting hands the loop a wakeup, and
\* the one phase in which a handler may post without one ends in the swap.
LEMMA CoverStep == IInv /\ [Next]_vars => (PendingCovered /\ QuitNotSlept)'
<1> SUFFICES ASSUME IInv, [Next]_vars
             PROVE  PendingCovered' /\ QuitNotSlept'
  OBVIOUS
<1> USE DEF IInv, PendingCovered, QuitNotSlept
<1>1. CASE LoopStep
  <2>1. CASE StartLoop \/ TestQuit
    BY <1>1, <2>1, WakeupStable DEF StartLoop, TestQuit, queueVars, TypeOK
  <2>2. CASE Poll
    BY <2>2 DEF Poll
  <2>3. ASSUME NEW c \in AllChannels, HandleEvents(c)
        PROVE  PendingCovered' /\ QuitNotSlept'
    BY <2>3 DEF HandleEvents, loopVars
  <2>4. CASE EventsHandled \/ SwapPending
    BY <2>4 DEF EventsHandled, SwapPending
  <2>5. CASE RunFunctor \/ FunctorsDone \/ HandleExpired
    BY <1>1, <2>5, WakeupStable
    DEF RunFunctor, FunctorsDone, HandleExpired, loopVars, queueVars
  <2> QED
    BY <1>1, <2>1, <2>2, <2>3, <2>4, <2>5 DEF LoopStep
<1>2. CASE CallbackStep
  <2>1. ASSUME NEW f \in Functors, LoopQueueInLoop(f)
        PROVE  PendingCovered' /\ QuitNotSlept'
    BY <2>1 DEF LoopQueueInLoop, InCallback, RaiseWakeup, WakeupComing,
       TypeOK, loopVars
  <2>2. ASSUME NEW f \in Functors, LoopRunInLoop(f)
        PROVE  PendingCovered' /\ QuitNotSlept'
    BY <2>2 DEF LoopRunInLoop, InCallback, WakeupComing, loopVars,
       epollVars, callerVars
  <2>3. CASE LoopQuit
    BY <2>3 DEF LoopQuit, InCallback, WakeupComing, queueVars, epollVars,
       callerVars
  <2> QED
    BY <1>2, <2>1, <2>2, <2>3 DEF CallbackStep
<1>3. CASE CallerStep
  <2>1. ASSUME NEW t \in Callers, NEW f \in Functors, QueueInLoop(t, f)
        PROVE  PendingCovered' /\ QuitNotSlept'
    BY <2>1 DEF QueueInLoop, WakeupComing, TypeOK
  <2>2. ASSUME NEW t \in Callers, Quit(t)
        PROVE  PendingCovered' /\ QuitNotSlept'
    BY <2>2 DEF Quit, WakeupComing, TypeOK
  <2>3. ASSUME NEW t \in Callers, WakeUp(t)
        PROVE  PendingCovered' /\ QuitNotSlept'
    BY <2>3 DEF WakeUp, RaiseWakeup, WakeupComing, TypeOK, loopVars, queueVars
  <2> QED
    BY <1>3, <2>1, <2>2, <2>3 DEF CallerStep
<1>4. ASSUME NEW c \in Channels, SocketReady(c)
      PROVE  PendingCovered' /\ QuitNotSlept'
  BY <1>4 DEF SocketReady, WakeupComing, loopVars, queueVars, callerVars
<1>5. CASE UNCHANGED vars
  BY <1>5 DEF vars, WakeupComing, loopVars, queueVars, epollVars, callerVars
<1> QED
  BY <1>1, <1>2, <1>3, <1>4, <1>5 DEF Next, Terminated

-----------------------------------------------------------------------------
\* The inductive invariant holds in every reachable state of every instance.
LEMMA Invariance == Spec => []IInv
<1>1. Init => IInv
  <2> SUFFICES ASSUME Init
               PROVE  IInv
    OBVIOUS
  <2>1. TypeOK
    <3>1. pc = "init" /\ ~looping_ /\ ~calling_pending_functors_
      BY Zenon DEF Init
    <3>2. /\ looping_ \in BOOLEAN /\ quit_ \in BOOLEAN
          /\ calling_pending_functors_ \in BOOLEAN
      BY Zenon DEF Init
    <3> QED
      BY <3>1, <3>2 DEF Init, TypeOK, Phases
  <2> QED
    BY <2>1 DEF Init, IInv, PendingCovered, QuitNotSlept
<1>2. IInv /\ [Next]_vars => IInv'
  BY TypeStep, CoverStep DEF IInv
<1> QED
  BY <1>1, <1>2, PTL DEF Spec

\* The loop's flags agree with where the loop thread is, in every instance.
THEOREM TypeCorrect == Spec => []TypeOK
<1>1. IInv => TypeOK
  BY DEF IInv
<1> QED
  BY <1>1, Invariance, PTL

\* QueueInLoop never loses a wakeup: whatever the callers and the handlers
\* post and when, the loop does not sleep on a queued functor.
THEOREM NoWakeupIsLost == Spec => []NoLostWakeup
<1>1. IInv => NoLostWakeup
  BY DEF IInv, PendingCovered, NoLostWakeup
<1> QED
  BY <1>1, Invariance, PTL

\* A Quit() that the loop has not seen always has its wakeup under way.
THEOREM QuitIsNoticed == Spec => []QuitNotSlept
<1>1. IInv => QuitNotSlept
  BY DEF IInv
<1> QED
  BY <1>1, Invariance, PTL

-----------------------------------------------------------------------------
\* Facts about the concatenation the refinement mapping is built from.
LEMMA AppendRight ==
  ASSUME NEW S, NEW s \in Seq(S), NEW t \in Seq(S), NEW e \in S
  PROVE  s \o Append(t, e) = Append(s \o t, e)
  BY ConcatAssociative, AppendIsConcat, ConcatProperties

LEMMA PopLeft ==
  ASSUME NEW S, NEW s \in Seq(S), NEW t \in Seq(S), s # <<>>
  PROVE  /\ s \o t # <<>>
         /\ Head(s \o t) = Head(s)
         /\ Tail(s \o t) = Tail(s) \o t
  OBVIOUS

\* DoPendingFunctors, QueueInLoop and RunInLoop together are a FIFO queue in
\* which nothing is lost, repeated or overtaken: the swap is invisible.
THEOREM LoopImplementsQueue == Spec => ImplementsQueue
<1> DEFINE Q == functors \o pending_functors_
<1>1. Init => FQ!Init
  BY DEF Init, FQ!Init
<1>2. TypeOK /\ [Next]_vars => [FQ!Next]_(FQ!vars)
  <2> SUFFICES ASSUME TypeOK, [Next]_vars
               PROVE  [FQ!Next]_(FQ!vars)
    OBVIOUS
  <2> USE DEF loopVars, queueVars, epollVars, callerVars, FQ!vars
  <2>0. functors \in Seq(Functors) /\ pending_functors_ \in Seq(Functors)
    BY DEF TypeOK
  <2>1. ASSUME UNCHANGED queueVars
        PROVE  UNCHANGED FQ!vars
    BY <2>1
  <2>2. CASE SwapPending
    <3>1. functors = <<>>
      BY <2>2 DEF SwapPending, TypeOK
    <3>2. Q' = Q
      BY <2>0, <2>2, <3>1, ConcatEmptySeq DEF SwapPending
    <3> QED
      BY <2>2, <3>2 DEF SwapPending
  <2>3. CASE RunFunctor
    <3>1. FQ!RunNext
      BY <2>0, <2>3, PopLeft DEF RunFunctor, FQ!RunNext
    <3> QED
      BY <3>1 DEF FQ!Next
  <2>4. ASSUME NEW f \in Functors,
               LoopQueueInLoop(f) \/ \E t \in Callers : QueueInLoop(t, f)
        PROVE  FQ!Next
    <3>1. /\ f \in unqueued /\ unqueued' = unqueued \ {f}
          /\ pending_functors_' = Append(pending_functors_, f)
          /\ functors' = functors /\ executed' = executed
      BY <2>4 DEF LoopQueueInLoop, QueueInLoop
    <3>2. functors \o Append(pending_functors_, f)
            = Append(functors \o pending_functors_, f)
      BY <2>0, AppendRight
    <3>3. FQ!Enqueue(f)
      BY <3>1, <3>2 DEF FQ!Enqueue
    <3> QED
      BY <3>3 DEF FQ!Next
  <2>5. ASSUME NEW f \in Functors, LoopRunInLoop(f)
        PROVE  FQ!Next
    <3>1. FQ!RunDirect(f)
      BY <2>5 DEF LoopRunInLoop, FQ!RunDirect
    <3> QED
      BY <3>1 DEF FQ!Next
  <2>6. CASE LoopStep
    BY <2>1, <2>2, <2>3, <2>6
    DEF LoopStep, StartLoop, TestQuit, Poll, HandleEvents, EventsHandled,
        FunctorsDone, HandleExpired
  <2>7. CASE CallbackStep
    BY <2>1, <2>4, <2>5, <2>7 DEF CallbackStep, LoopQuit
  <2>8. CASE CallerStep
    BY <2>1, <2>4, <2>8 DEF CallerStep, Quit, WakeUp
  <2>9. CASE (\E c \in Channels : SocketReady(c)) \/ UNCHANGED vars
    BY <2>1, <2>9 DEF SocketReady, vars
  <2> QED
    BY <2>6, <2>7, <2>8, <2>9 DEF Next, Terminated
<1> QED
  BY <1>1, <1>2, TypeCorrect, PTL DEF Spec, ImplementsQueue, FQ!Spec
=============================================================================
