----------------------------- MODULE EventLoop ------------------------------
(***************************************************************************)
(* One EventLoop: the thread inside Loop(), the threads that call          *)
(* QueueInLoop, RunInLoop and Quit on it, the eventfd that wakes epoll up, *)
(* and the edge-triggered channels that are ready.                         *)
(*                                                                         *)
(* A caller's QueueInLoop is two steps, because the code releases mutex_   *)
(* before it writes the eventfd; so is its Quit.  The loop thread's own    *)
(* calls happen inside a handler or a functor, where nothing of the loop   *)
(* can run between the push and the write, and are one step each.          *)
(***************************************************************************)
EXTENDS Naturals, Sequences, FiniteSets

CONSTANTS
  Callers,            \* the threads other than the loop thread
  Channels,           \* channels registered with the poller, sockets only
  WakeupChannel,      \* p_wakeup_channel_, the channel of wakeup_fd_
  Functors,           \* callbacks; each is posted at most once (the bound)
  kEventsNum          \* how many events one epoll_wait returns at most

ASSUME WakeupAssumption == WakeupChannel \notin Channels
ASSUME KEventsNumAssumption == kEventsNum \in Nat \ {0}

VARIABLES
  pc,                 \* where the loop thread is in Loop()
  looping_, quit_, calling_pending_functors_,
  pending_functors_,  \* the shared queue, guarded by mutex_
  functors,           \* the local vector of DoPendingFunctors: what is left
  active,             \* channels of the last Poll not handled yet
  ready,              \* channels on epoll's ready list (edges not reported)
  wakeup,             \* the counter of the eventfd
  at,                 \* per caller: "wake" between its push and its WakeUp()
  unqueued,           \* functors not posted yet
  executed,           \* history: the functors that ran, in order
  quitters            \* history: the callers that called Quit()

loopVars == <<pc, looping_, quit_, calling_pending_functors_>>
queueVars == <<pending_functors_, functors, unqueued, executed>>
epollVars == <<active, ready, wakeup>>
callerVars == <<at, quitters>>
vars == <<loopVars, queueVars, epollVars, callerVars>>

AllChannels == Channels \union {WakeupChannel}
Phases == {"init", "test", "poll", "events", "pending", "functors",
           "expired", "done"}

\* EventLoop::EventLoop: the flags are false and the wakeup channel is added
\* to the poller; the loop thread has not entered Loop() yet.
Init ==
  /\ pc = "init"
  /\ looping_ = FALSE /\ quit_ = FALSE /\ calling_pending_functors_ = FALSE
  /\ pending_functors_ = <<>> /\ functors = <<>>
  /\ active = {} /\ ready = {} /\ wakeup = 0
  /\ at = [t \in Callers |-> "idle"]
  /\ unqueued = Functors /\ executed = <<>> /\ quitters = {}

-----------------------------------------------------------------------------
\* The loop thread.

\* Loop() before the while: looping_ is set and quit_ is RESET.
StartLoop ==
  /\ pc = "init"
  /\ pc' = "test"
  /\ looping_' = TRUE
  /\ quit_' = FALSE
  /\ UNCHANGED <<calling_pending_functors_, queueVars, epollVars, callerVars>>

\* Mutant: quit_ is reset inside the while, at every turn.
TestQuitReset ==
  /\ pc = "test"
  /\ pc' = "poll"
  /\ quit_' = FALSE
  /\ UNCHANGED <<looping_, calling_pending_functors_, queueVars, epollVars,
                 callerVars>>

\* while (!quit_), and what follows the loop.
TestQuit ==
  /\ pc = "test"
  /\ pc' = IF quit_ THEN "done" ELSE "poll"
  /\ looping_' = ~quit_
  /\ UNCHANGED <<quit_, calling_pending_functors_, queueVars, epollVars,
                 callerVars>>

\* What epoll_wait can report: an edge of the eventfd counts only while the
\* counter is not zero.
Reportable == {c \in ready : c = WakeupChannel => wakeup > 0}

\* Epoll::Poll returns once there is an event, at most kEventsNum of them;
\* the channels it does not report stay on the ready list.
Poll ==
  /\ pc = "poll"
  /\ Reportable # {}
  /\ \E batch \in SUBSET Reportable :
       /\ Cardinality(batch) = IF Cardinality(Reportable) > kEventsNum
                               THEN kEventsNum ELSE Cardinality(Reportable)
       /\ active' = batch
       /\ ready' = Reportable \ batch
  /\ pc' = "events"
  /\ UNCHANGED <<looping_, quit_, calling_pending_functors_, queueVars,
                 wakeup, callerVars>>

\* it->HandleEvents(): EventLoop::HandleRead empties the eventfd (the
\* following HandleConn re-arms an unchanged event set: no effect); the
\* handler of a socket is a callback, see the calls it can make below.
HandleEvents(c) ==
  /\ pc = "events"
  /\ c \in active
  /\ active' = active \ {c}
  /\ wakeup' = IF c = WakeupChannel THEN 0 ELSE wakeup
  /\ UNCHANGED <<loopVars, queueVars, ready, callerVars>>

\* The for loop over the reported channels is over; DoPendingFunctors
\* raises its flag before it takes the lock.
EventsHandled ==
  /\ pc = "events"
  /\ active = {}
  /\ pc' = "pending"
  /\ calling_pending_functors_' = TRUE
  /\ UNCHANGED <<looping_, quit_, queueVars, epollVars, callerVars>>

\* Mutant: the vector is copied instead of swapped.
SwapPendingCopies ==
  /\ pc = "pending"
  /\ pc' = "functors"
  /\ functors' = pending_functors_
  /\ UNCHANGED <<looping_, quit_, calling_pending_functors_, pending_functors_,
                 unqueued, executed, epollVars, callerVars>>

\* functors.swap(pending_functors_), under mutex_.
SwapPending ==
  /\ pc = "pending"
  /\ pc' = "functors"
  /\ functors' = pending_functors_
  /\ pending_functors_' = <<>>
  /\ UNCHANGED <<looping_, quit_, calling_pending_functors_, unqueued,
                 executed, epollVars, callerVars>>

\* Mutant: only the first functor of the batch is run.
RunFunctorFirstOnly ==
  /\ pc = "functors"
  /\ functors # <<>>
  /\ executed' = Append(executed, Head(functors))
  /\ functors' = <<>>
  /\ UNCHANGED <<loopVars, pending_functors_, unqueued, epollVars, callerVars>>

\* functors[i]() returns.
RunFunctor ==
  /\ pc = "functors"
  /\ functors # <<>>
  /\ executed' = Append(executed, Head(functors))
  /\ functors' = Tail(functors)
  /\ UNCHANGED <<loopVars, pending_functors_, unqueued, epollVars, callerVars>>

FunctorsDone ==
  /\ pc = "functors"
  /\ functors = <<>>
  /\ pc' = "expired"
  /\ calling_pending_functors_' = FALSE
  /\ UNCHANGED <<looping_, quit_, queueVars, epollVars, callerVars>>

\* poller_->HandleExpired() closes connections and posts nothing.
HandleExpired ==
  /\ pc = "expired"
  /\ pc' = "test"
  /\ UNCHANGED <<looping_, quit_, calling_pending_functors_, queueVars,
                 epollVars, callerVars>>

\* The loop thread is inside the handler of a socket or inside a functor.
InCallback ==
  \/ pc = "events" /\ active \ {WakeupChannel} # {}
  \/ pc = "functors" /\ functors # <<>>

\* The eventfd is written: its counter grows and an edge is raised.
RaiseWakeup ==
  /\ wakeup' = wakeup + 1
  /\ ready' = ready \union {WakeupChannel}

\* Mutant: the test of calling_pending_functors_ is dropped.
LoopQueueInLoopNoWake(f) ==
  /\ InCallback
  /\ f \in unqueued
  /\ unqueued' = unqueued \ {f}
  /\ pending_functors_' = Append(pending_functors_, f)
  /\ UNCHANGED <<loopVars, functors, executed, epollVars, callerVars>>

\* QueueInLoop called by a callback: IsInLoopThread() holds, so the eventfd
\* is written only while functors are being run.
LoopQueueInLoop(f) ==
  /\ InCallback
  /\ f \in unqueued
  /\ unqueued' = unqueued \ {f}
  /\ pending_functors_' = Append(pending_functors_, f)
  /\ IF calling_pending_functors_ THEN RaiseWakeup
                                  ELSE UNCHANGED <<wakeup, ready>>
  /\ UNCHANGED <<loopVars, functors, executed, active, callerVars>>

\* RunInLoop called by a callback: cb() at once.
LoopRunInLoop(f) ==
  /\ InCallback
  /\ f \in unqueued
  /\ unqueued' = unqueued \ {f}
  /\ executed' = Append(executed, f)
  /\ UNCHANGED <<loopVars, pending_functors_, functors, epollVars, callerVars>>

\* Quit called by a callback: no WakeUp.
LoopQuit ==
  /\ InCallback
  /\ ~quit_
  /\ quit_' = TRUE
  /\ UNCHANGED <<pc, looping_, calling_pending_functors_, queueVars,
                 epollVars, callerVars>>

-----------------------------------------------------------------------------
\* The other threads.  They hold a pointer to a loop that has not ended.

\* QueueInLoop (RunInLoop too, which forwards to it) up to the unlock.
QueueInLoop(t, f) ==
  /\ pc # "done"
  /\ at[t] = "idle"
  /\ f \in unqueued
  /\ unqueued' = unqueued \ {f}
  /\ pending_functors_' = Append(pending_functors_, f)
  /\ at' = [at EXCEPT ![t] = "wake"]
  /\ UNCHANGED <<loopVars, functors, executed, epollVars, quitters>>

\* Mutant: Quit() does not write the eventfd.
QuitNoWake(t) ==
  /\ pc # "done"
  /\ at[t] = "idle"
  /\ t \notin quitters
  /\ quitters' = quitters \union {t}
  /\ quit_' = TRUE
  /\ UNCHANGED <<pc, looping_, calling_pending_functors_, queueVars, epollVars,
                 at>>

\* Quit up to the assignment.  Each caller quits at most once (the bound).
Quit(t) ==
  /\ pc # "done"
  /\ at[t] = "idle"
  /\ t \notin quitters
  /\ quitters' = quitters \union {t}
  /\ quit_' = TRUE
  /\ at' = [at EXCEPT ![t] = "wake"]
  /\ UNCHANGED <<pc, looping_, calling_pending_functors_, queueVars, epollVars>>

\* The WakeUp() that ends QueueInLoop and Quit.
WakeUp(t) ==
  /\ at[t] = "wake"
  /\ at' = [at EXCEPT ![t] = "idle"]
  /\ RaiseWakeup
  /\ UNCHANGED <<loopVars, queueVars, active, quitters>>

\* The kernel: an edge on a registered socket.
SocketReady(c) ==
  /\ c \notin ready
  /\ ready' = ready \union {c}
  /\ UNCHANGED <<loopVars, queueVars, active, wakeup, callerVars>>

\* Loop() returned and no caller is inside a call: the system is at rest.
Terminated ==
  /\ pc = "done"
  /\ \A t \in Callers : at[t] = "idle"
  /\ UNCHANGED vars

-----------------------------------------------------------------------------
LoopStep ==
  \/ StartLoop \/ TestQuit \/ Poll
  \/ \E c \in AllChannels : HandleEvents(c)
  \/ EventsHandled \/ SwapPending \/ RunFunctor \/ FunctorsDone
  \/ HandleExpired

CallbackStep ==
  \/ \E f \in Functors : LoopQueueInLoop(f) \/ LoopRunInLoop(f)
  \/ LoopQuit

CallerStep ==
  \E t \in Callers :
    \/ \E f \in Functors : QueueInLoop(t, f)
    \/ Quit(t)
    \/ WakeUp(t)

Next ==
  \/ LoopStep
  \/ CallbackStep
  \/ CallerStep
  \/ \E c \in Channels : SocketReady(c)
  \/ Terminated

Spec == Init /\ [][Next]_vars

\* The scheduler runs the loop thread, and a thread that has entered WakeUp()
\* writes the eventfd.  Nobody has to post, to quit, or to send anything.
Fairness ==
  /\ WF_vars(LoopStep)
  /\ \A t \in Callers : WF_vars(WakeUp(t))

FairSpec == Spec /\ Fairness

-----------------------------------------------------------------------------
\* Properties.

\* Every variable has its type, and the two flags the loop thread keeps say
\* where it is: looping_ from the entry of Loop() to its end, and
\* calling_pending_functors_ exactly during DoPendingFunctors.
TypeOK ==
  /\ pc \in Phases
  /\ looping_ \in BOOLEAN /\ quit_ \in BOOLEAN
  /\ calling_pending_functors_ \in BOOLEAN
  /\ looping_ <=> pc \notin {"init", "done"}
  /\ calling_pending_functors_ <=> pc \in {"pending", "functors"}
  /\ pending_functors_ \in Seq(Functors)
  /\ functors \in Seq(Functors)
  /\ pc # "functors" => functors = <<>>
  /\ active \subseteq AllChannels
  /\ pc # "events" => active = {}
  /\ ready \subseteq AllChannels
  /\ wakeup \in Nat
  /\ at \in [Callers -> {"idle", "wake"}]
  /\ unqueued \subseteq Functors
  /\ executed \in Seq(Functors)
  /\ quitters \subseteq Callers

\* epoll_wait will return: an edge is raised on a counter that is not zero,
\* or some thread is about to write the eventfd.
WakeupComing ==
  \/ WakeupChannel \in ready /\ wakeup > 0
  \/ \E t \in Callers : at[t] = "wake"

\* The loop thread never waits in epoll while a functor is in the queue and
\* nothing is going to wake it: QueueInLoop writes the eventfd outside the
\* lock, and not at all from a handler, yet no wakeup is lost.
NoLostWakeup == pc = "poll" /\ pending_functors_ # <<>> => WakeupComing

\* The loop thread never waits in epoll after a Quit() that nothing is going
\* to tell it about: a Quit() from a callback is seen by the next test.
QuitNotSlept == pc = "poll" /\ quit_ => WakeupComing

\* A functor that was queued runs, unless the loop ends first: no functor
\* waits in pending_functors_ for an unrelated socket event.
EveryFunctorRuns ==
  \A f \in Functors :
    (\E i \in DOMAIN pending_functors_ : pending_functors_[i] = f)
      ~> (pc = "done" \/ \E i \in DOMAIN executed : executed[i] = f)

\* A quit_ that the running loop can see ends the loop.
QuitStopsLoop == (looping_ /\ quit_) ~> (pc = "done")

\* The loop implements the abstract queue: what is left of the local vector,
\* then the shared one, is the queue its callers see.
FQ == INSTANCE FunctorQueue WITH queue <- functors \o pending_functors_
ImplementsQueue == FQ!Spec
=============================================================================
