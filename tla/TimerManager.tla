---------------------------- MODULE TimerManager ----------------------------
(***************************************************************************)
(* TimerNode and TimerManager: a priority queue of nodes with lazy         *)
(* deletion, as operators on the set of nodes in the queue.  A node keeps  *)
(* its HttpData alive through sp_http_data_; HttpData points back through  *)
(* the weak timer_, which holds the node as AddTimer made it.              *)
(*                                                                         *)
(* Time is the code's: gettimeofday seconds modulo 10000, here a clock     *)
(* modulo TimeWrap.  The field due is not in the code: it is when the node *)
(* should expire on a clock that does not wrap.                            *)
(***************************************************************************)
EXTENDS Naturals, FiniteSets

CONSTANTS
  None,               \* the null shared_ptr
  TimeWrap            \* expiry times are taken modulo this

ASSUME TimeWrapAssumption == TimeWrap \in Nat \ {0}

\* Mutant: the timeout is not added.
TimerNodeNoTimeout(c, clock, timeout) ==
  [sp_http_data_ |-> c, expired_time_ |-> clock % TimeWrap,
   deleted_ |-> FALSE, due |-> clock + timeout]

\* The constructor TimerNode(request_data, timeout) at the time clock.
TimerNode(c, clock, timeout) ==
  [sp_http_data_ |-> c,
   expired_time_ |-> (clock % TimeWrap) + timeout,
   deleted_ |-> FALSE,
   due |-> clock + timeout]

\* TimerNode::IsValid, without the SetDeleted of a node about to be popped.
IsValid(n, clock) == clock % TimeWrap < n.expired_time_

\* TimerManager::AddTimer: the node is pushed.  LinkTimer is the caller's.
AddTimer(queue, c, clock, timeout) ==
  queue \union {TimerNode(c, clock, timeout)}

\* Mutant: the weak pointer is dropped, the node is not told.
ClearReqForgotten(queue, n) == queue

\* timer_.lock() and ClearReq: if the node is still in the queue it lets its
\* HttpData go and is marked; it stays in the queue.
ClearReq(queue, n) ==
  IF n \in queue
  THEN (queue \ {n}) \union {[n EXCEPT !.sp_http_data_ = None,
                                       !.deleted_ = TRUE]}
  ELSE queue

\* The nodes that stop the loop of HandleExpiredEvent when they are on top.
Blocking(queue, clock) ==
  {n \in queue : ~n.deleted_ /\ IsValid(n, clock)}

\* Mutant: the loop stops at a deleted node too.
PoppedStopsAtDeleted(queue, clock) ==
  {{n \in queue : \A b \in Blocking(queue, clock) \union {m \in queue : m.deleted_} :
                     n.expired_time_ < b.expired_time_}}

\* HandleExpiredEvent: what it can pop.  Everything before the first blocking
\* node goes; of the deleted nodes with the very key of that node, the heap
\* may hold any number before it.
Popped(queue, clock) ==
  LET before == {n \in queue : \A b \in Blocking(queue, clock) :
                                 n.expired_time_ < b.expired_time_}
      tied == {n \in queue \ before :
                 n.deleted_ /\ \A b \in Blocking(queue, clock) :
                                 n.expired_time_ <= b.expired_time_}
  IN  {before \union more : more \in SUBSET tied}
=============================================================================
