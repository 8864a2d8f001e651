---------------------------- MODULE FunctorQueue ----------------------------
(***************************************************************************)
(* What EventLoop::QueueInLoop promises to its callers: every functor is   *)
(* handed over once, functors that went through the queue run in the order *)
(* in which they were queued, and a functor given to RunInLoop by the loop *)
(* thread itself runs at once.  Threads, locks, eventfd and epoll do not   *)
(* appear here: EventLoop is shown to implement this.                      *)
(***************************************************************************)
EXTENDS Sequences

CONSTANT Functors     \* the callbacks, each posted at most once

VARIABLES
  unqueued,           \* functors nobody has posted yet
  queue,              \* functors posted and not yet run, oldest first
  executed            \* functors that ran, in the order they ran

vars == <<unqueued, queue, executed>>

Init ==
  /\ unqueued = Functors
  /\ queue = <<>>
  /\ executed = <<>>

Enqueue(f) ==
  /\ f \in unqueued
  /\ unqueued' = unqueued \ {f}
  /\ queue' = Append(queue, f)
  /\ UNCHANGED executed

RunNext ==
  /\ queue # <<>>
  /\ executed' = Append(executed, Head(queue))
  /\ queue' = Tail(queue)
  /\ UNCHANGED unqueued

RunDirect(f) ==
  /\ f \in unqueued
  /\ unqueued' = unqueued \ {f}
  /\ executed' = Append(executed, f)
  /\ UNCHANGED queue

Next ==
  \/ \E f \in Functors : Enqueue(f) \/ RunDirect(f)
  \/ RunNext

Spec == Init /\ [][Next]_vars
=============================================================================
