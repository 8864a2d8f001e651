------------------------------ MODULE MCServer ------------------------------
(***************************************************************************)
(* Instance of Server for TLC: two loops, and three connections, so that   *)
(* the round robin comes round.                                            *)
(***************************************************************************)
EXTENDS Server
=============================================================================
