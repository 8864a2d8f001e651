---------------------------- MODULE MCThreadPool ----------------------------
(***************************************************************************)
(* Instance of ThreadPool for TLC: two workers, a ring of two slots and    *)
(* four tasks, so that the ring fills up and wraps around; two threads     *)
(* destroy the pool.                                                       *)
(***************************************************************************)
EXTENDS ThreadPool
=============================================================================
