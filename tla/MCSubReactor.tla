---------------------------- MODULE MCSubReactor ----------------------------
(***************************************************************************)
(* Instances of SubReactor for TLC.  SubReactor.cfg has two connections on *)
(* two descriptors, so that they share a batch, share the timer queue and  *)
(* take over each other's descriptor.  SubReactorOne.cfg follows one       *)
(* connection further, over a clock that wraps.  The other two look for    *)
(* what the documentation promises and the code does not do.               *)
(***************************************************************************)
EXTENDS SubReactor, TLC

\* Connections are interchangeable: no action singles one out.
ConnSymmetry == Permutations(Conns)
=============================================================================
