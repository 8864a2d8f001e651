---------------------------- MODULE MCEventLoop -----------------------------
(***************************************************************************)
(* Instance of EventLoop for TLC.  Two threads post and quit on the loop   *)
(* while a socket is ready at the same time as the eventfd; kEventsNum = 1 *)
(* is below the number of channels, so that a batch can leave the eventfd  *)
(* out.  Three functors, each posted once by a caller or by a callback.    *)
(***************************************************************************)
EXTENDS EventLoop
=============================================================================
