------------------------------ MODULE TaskPool ------------------------------
(***************************************************************************)
(* What the thread pool promises: a bounded FIFO of tasks.  A task offered *)
(* to a full or closed pool is refused, any other is accepted; accepted    *)
(* tasks are handed to workers one by one, in order.                       *)
(***************************************************************************)
EXTENDS Naturals, Sequences

CONSTANTS Tasks, Capacity

VARIABLES
  offered,            \* tasks Add() has answered for
  queue,              \* accepted tasks no worker has yet
  taken,              \* tasks handed to workers, in order
  closed

vars == <<offered, queue, taken, closed>>

Init ==
  /\ offered = {} /\ queue = <<>> /\ taken = <<>>
  /\ closed = FALSE

Accept(t) ==
  /\ t \notin offered
  /\ ~closed /\ Len(queue) < Capacity
  /\ offered' = offered \union {t}
  /\ queue' = Append(queue, t)
  /\ UNCHANGED <<taken, closed>>

Refuse(t) ==
  /\ t \notin offered
  /\ closed \/ Len(queue) = Capacity
  /\ offered' = offered \union {t}
  /\ UNCHANGED <<queue, taken, closed>>

Take ==
  /\ queue # <<>>
  /\ taken' = Append(taken, Head(queue))
  /\ queue' = Tail(queue)
  /\ UNCHANGED <<offered, closed>>

Close ==
  /\ closed' = TRUE
  /\ UNCHANGED <<offered, queue, taken>>

Next ==
  \/ \E t \in Tasks : Accept(t) \/ Refuse(t)
  \/ Take
  \/ Close

Spec == Init /\ [][Next]_vars
=============================================================================
