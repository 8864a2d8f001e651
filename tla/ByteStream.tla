----------------------------- MODULE ByteStream -----------------------------
(***************************************************************************)
(* What one direction of a connection promises.  The bytes a writer puts   *)
(* are numbered; they reach the reader in order, each once, none skipped,  *)
(* until the stream breaks.  A broken stream loses a tail, and all that    *)
(* can still be added to it are bytes of an error notice, numbered 0.      *)
(***************************************************************************)
EXTENDS Naturals, Sequences, SequencesExt

VARIABLES
  produced,           \* how many bytes were put
  queued,             \* bytes on their way, oldest first
  delivered,          \* what the reader has
  broken,
  overwritten         \* a writer has replaced bytes nobody had sent yet

vars == <<produced, queued, delivered, broken, overwritten>>

Init ==
  /\ produced = 0
  /\ queued = <<>> /\ delivered = <<>>
  /\ broken = FALSE /\ overwritten = FALSE

\* The bytes put by a step that takes produced to produced'.
Fresh == [i \in 1..(produced' - produced) |-> produced + i]

Put ==
  /\ ~broken
  /\ produced' > produced
  /\ queued' = queued \o Fresh
  /\ UNCHANGED <<delivered, broken, overwritten>>

\* The one thing that skips bytes of a stream that goes on.
Overwrite ==
  /\ ~broken
  /\ produced' > produced
  /\ \E n \in 0..Len(queued) : queued' = SubSeq(queued, 1, n) \o Fresh
  /\ overwritten' = TRUE
  /\ UNCHANGED <<delivered, broken>>

Deliver ==
  /\ \E n \in 1..Len(queued) :
       /\ delivered' = delivered \o SubSeq(queued, 1, n)
       /\ queued' = SubSeq(queued, n + 1, Len(queued))
  /\ UNCHANGED <<produced, broken, overwritten>>

\* The stream breaks or, broken, loses more; what is put into it is lost.
Break ==
  /\ broken' = TRUE
  /\ IsPrefix(queued', queued)
  /\ produced' >= produced
  /\ overwritten' \in {overwritten, TRUE}
  /\ UNCHANGED delivered

Notice ==
  /\ broken
  /\ IsPrefix(queued, queued')
  /\ \A i \in (Len(queued) + 1)..Len(queued') : queued'[i] = 0
  /\ UNCHANGED <<produced, delivered, broken, overwritten>>

Next == Put \/ Overwrite \/ Deliver \/ Break \/ Notice

Spec == Init /\ [][Next]_vars
=============================================================================
