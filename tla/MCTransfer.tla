----------------------------- MODULE MCTransfer -----------------------------
(***************************************************************************)
(* Instance of Transfer for TLC: three requests of two bytes, read one or  *)
(* two bytes at a time; answers that do not fit the socket's buffer.       *)
(***************************************************************************)
EXTENDS Transfer

MCPageParts == <<1, 1>>
=============================================================================
