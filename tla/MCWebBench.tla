----------------------------- MODULE MCWebBench -----------------------------
(***************************************************************************)
(* Instance of WebBench for TLC: two clients that begin three requests     *)
(* between them, and one connection refused.                               *)
(***************************************************************************)
EXTENDS WebBench
=============================================================================
