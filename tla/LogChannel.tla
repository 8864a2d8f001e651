----------------------------- MODULE LogChannel -----------------------------
(***************************************************************************)
(* What the asynchronous log promises: messages reach the file in the      *)
(* order in which Append() took them, and none is lost unless so many are  *)
(* waiting that the backend gives up on a stretch of them, where the       *)
(* oldest ones survive, or a write fails and a short stretch is lost.      *)
(* Messages are numbered by the order of Append().                         *)
(***************************************************************************)
EXTENDS Naturals, Sequences

CONSTANTS
  Limit,              \* waiting messages without which nothing is discarded
  Keep,               \* the oldest messages, never discarded
  Burst               \* the longest stretch that one failing write loses

VARIABLES
  appended,           \* how many messages Append() took
  waiting,            \* messages on their way to the file, oldest first
  file,               \* the messages in the file
  failures            \* how many writes failed

vars == <<appended, waiting, file, failures>>

Init ==
  /\ appended = 0
  /\ waiting = <<>>
  /\ file = <<>>
  /\ failures = 0

Append1 ==
  /\ appended' = appended + 1
  /\ waiting' = Append(waiting, appended + 1)
  /\ UNCHANGED <<file, failures>>

\* Some of the oldest messages are written.
Write ==
  /\ \E n \in 1..Len(waiting) :
       /\ file' = file \o SubSeq(waiting, 1, n)
       /\ waiting' = SubSeq(waiting, n + 1, Len(waiting))
  /\ UNCHANGED <<appended, failures>>

\* A stretch of messages behind the oldest ones is dropped.
Discard ==
  /\ Len(waiting) >= Limit
  /\ \E n \in (Keep + 1)..Len(waiting) :
       waiting' = SubSeq(waiting, 1, Keep) \o SubSeq(waiting, n + 1, Len(waiting))
  /\ UNCHANGED <<appended, file, failures>>

\* A write of some of the oldest messages fails, and those of them that are
\* not in the file are lost.
Fail ==
  /\ failures' = failures + 1
  /\ \E n \in 0..Len(waiting) :
       /\ n <= Burst
       /\ waiting' = SubSeq(waiting, n + 1, Len(waiting))
       /\ \E k \in 0..n : file' = file \o SubSeq(waiting, 1, k)
  /\ UNCHANGED appended

Next == Append1 \/ Write \/ Discard \/ Fail

Spec == Init /\ [][Next]_vars
=============================================================================
