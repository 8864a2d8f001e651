--------------------------- MODULE TransferProofs ---------------------------
(***************************************************************************)
(* Proofs about Transfer, for any lengths of requests, answers, pages and  *)
(* buffers: the loop never goes to sleep on work it could do, and both     *)
(* directions of a connection implement ByteStream.                        *)
(***************************************************************************)
EXTENDS Transfer, SequenceTheorems, TLAPS

-----------------------------------------------------------------------------
\* Sequences that are cut.

\* A sequence cut in two is its two parts.
LEMMA Pieces ==
  ASSUME NEW S, NEW s \in Seq(S), NEW m \in Nat, m <= Len(s)
  PROVE  /\ SubSeq(s, 1, m) \in Seq(S) /\ Len(SubSeq(s, 1, m)) = m
         /\ SubSeq(s, m + 1, Len(s)) \in Seq(S)
         /\ Len(SubSeq(s, m + 1, Len(s))) = Len(s) - m
         /\ SubSeq(s, 1, m) \o SubSeq(s, m + 1, Len(s)) = s
<1>1. Len(s) \in Nat /\ \A i \in 1..Len(s) : s[i] \in S
  BY LenProperties, ElementOfSeq
<1>2. SubSeq(s, 1, m) \in Seq(S) /\ Len(SubSeq(s, 1, m)) = m
  <2>1. \A i \in 1..m : s[i] \in S
    BY <1>1
  <2> QED
    BY <2>1, SubSeqProperties
<1>3. /\ SubSeq(s, m + 1, Len(s)) \in Seq(S)
      /\ Len(SubSeq(s, m + 1, Len(s))) = Len(s) - m
  <2>1. \A i \in (m + 1)..Len(s) : s[i] \in S
    BY <1>1
  <2> QED
    BY <1>1, <2>1, SubSeqProperties
<1>4. SubSeq(s, 1, m) \o SubSeq(s, m + 1, Len(s)) = SubSeq(s, 1, Len(s))
  <2>1. 1 \in 1..Len(s) + 1 /\ m \in (1 - 1)..Len(s) /\ Len(s) \in m..Len(s)
    BY <1>1
  <2> QED
    BY <2>1, ConcatAdjacentSubSeq, Zenon
<1> QED
  BY <1>2, <1>3, <1>4, SubSeqFull

\* The beginning and the end of two sequences, cut in the first one.
LEMMA PiecesOfConcat ==
  ASSUME NEW S, NEW s \in Seq(S), NEW t \in Seq(S), NEW m \in Nat, m <= Len(s)
  PROVE  /\ SubSeq(s \o t, 1, m) = SubSeq(s, 1, m)
         /\ SubSeq(s \o t, m + 1, Len(s \o t)) = SubSeq(s, m + 1, Len(s)) \o t
<1> DEFINE b == SubSeq(s, m + 1, Len(s))
           y == SubSeq(s \o t, m + 1, Len(s \o t))
<1>1. Len(s) \in Nat /\ Len(t) \in Nat
  BY LenProperties
<1>2. /\ s \o t \in Seq(S) /\ Len(s \o t) = Len(s) + Len(t)
      /\ \A i \in 1..(Len(s) + Len(t)) :
           (s \o t)[i] = IF i <= Len(s) THEN s[i] ELSE t[i - Len(s)]
  BY ConcatProperties
<1>3. SubSeq(s \o t, 1, m) = SubSeq(s, 1, m)
  <2>1. CASE m = 0
    BY <2>1, SubSeqEmpty
  <2>2. CASE m # 0
    <3>1. 1 \in 1..Len(s) /\ m \in 1..Len(s)
      BY <1>1, <2>2
    <3> QED
      BY <3>1, SubSeqOfConcat1, Zenon
  <2> QED
    BY <2>1, <2>2
<1>4. /\ b \in Seq(S) /\ Len(b) = Len(s) - m
      /\ y \in Seq(S) /\ Len(y) = Len(s) + Len(t) - m
  <2>1. m <= Len(s \o t)
    BY <1>1, <1>2
  <2>2. y \in Seq(S) /\ Len(y) = Len(s \o t) - m
    BY <1>2, <2>1, Pieces
  <2> QED
    BY <1>2, <2>2, Pieces
<1>5. /\ \A i \in 1..(Len(s) - m) : b[i] = s[m + i]
      /\ \A i \in 1..(Len(s) + Len(t) - m) : y[i] = (s \o t)[m + i]
  BY <1>1, <1>2
<1> HIDE DEF b, y
<1>6. /\ b \o t \in Seq(S) /\ Len(b \o t) = Len(s) - m + Len(t)
      /\ \A i \in 1..(Len(s) - m + Len(t)) :
           (b \o t)[i] = IF i <= Len(s) - m THEN b[i] ELSE t[i - (Len(s) - m)]
  BY <1>4, ConcatProperties
<1>7. ASSUME NEW i \in 1..Len(y)
      PROVE  y[i] = (b \o t)[i]
  <2>1. m + i \in 1..(Len(s) + Len(t)) /\ i \in 1..(Len(s) + Len(t) - m)
    BY <1>1, <1>4
  <2>2. y[i] = IF m + i <= Len(s) THEN s[m + i] ELSE t[m + i - Len(s)]
    BY <1>2, <1>5, <2>1
  <2>3. (b \o t)[i] = IF i <= Len(s) - m THEN b[i] ELSE t[i - (Len(s) - m)]
    BY <1>1, <1>6, <2>1
  <2>4. CASE i <= Len(s) - m
    BY <1>1, <1>5, <2>1, <2>2, <2>3, <2>4
  <2>5. CASE ~(i <= Len(s) - m)
    BY <1>1, <2>1, <2>2, <2>3, <2>5
  <2> QED
    BY <2>4, <2>5
<1>8. y = b \o t
  <2>1. Len(y) = Len(b \o t)
    BY <1>1, <1>4, <1>6
  <2> QED
    BY <1>4, <1>6, <1>7, <2>1, SeqEqual
<1> QED
  BY <1>3, <1>8 DEF b, y

-----------------------------------------------------------------------------
\* The inductive invariant, by what it is about.

Places ==
  {"wait", "read", "parse", "page", "tail", "write", "reset", "conn", "closed"}

TypeOK ==
  /\ pc \in Places
  /\ caller \in {"read", "events"}
  /\ revents \subseteq {"IN", "OUT"} /\ events \subseteq {"IN", "OUT"}
  /\ in_buffer_ \in Seq(Nat) /\ out_buffer_ \in Seq(Nat)
  /\ error_ \in BOOLEAN /\ finished \in BOOLEAN /\ some \in BOOLEAN
  /\ connection_state_ \in {"H_CONNECTED", "H_DISCONNECTING"}
  /\ write_sum \in Nat /\ page \in Seq(Nat \ {0})
  /\ rx \in Seq(Nat) /\ tx \in Seq(Nat)
  /\ eof \in BOOLEAN /\ rst \in BOOLEAN
  /\ interest \in {{"IN"}, {"OUT"}} /\ edge \in BOOLEAN /\ nospace \in BOOLEAN
  /\ sent \in Nat /\ produced \in Nat
  /\ parsed \in Seq(Nat) /\ received \in Seq(Nat)
  /\ overwritten \in BOOLEAN

\* WriteN stays inside out_buffer_ and the socket's buffer, and leaves nothing
\* half done.
Writing ==
  /\ write_sum <= Len(out_buffer_)
  /\ write_sum # 0 => pc = "write"
  /\ Len(tx) <= SendRoom

\* An error ends the work on a connection, a half close its input; a reset has
\* emptied the socket.
Endings ==
  /\ error_ => pc \in {"page", "reset", "conn", "closed"}
  /\ pc = "page" => error_
  /\ connection_state_ = "H_DISCONNECTING" => eof
  /\ rst => rx = <<>>

\* Neither half closed, failed nor reset.
Open == connection_state_ = "H_CONNECTED" /\ ~error_ /\ ~rst

\* No whole request is left behind, unless HandleRead is going to run again.
InputParsed ==
  /\ pc \in {"wait", "conn"} \/ (pc = "write" /\ caller = "events") =>
       Len(in_buffer_) < RequestLength
  /\ pc \in {"tail", "reset"} \/ (pc = "write" /\ caller = "read") =>
       finished \/ Len(in_buffer_) < RequestLength

\* Output that is left is asked for, until the handlers are through; then it is
\* watched for.
OutputAsked ==
  /\ pc \in {"read", "parse", "reset", "conn"} /\ out_buffer_ # <<>> =>
       "OUT" \in events
  /\ pc = "wait" /\ interest = {"IN"} => out_buffer_ = <<>>

\* Input that has come since ReadN found none has raised the edge.
InputSeen ==
  interest = {"IN"} /\ pc # "read" /\ (rx # <<>> \/ eof) => edge

\* While output is watched for, only HandleWrite runs; it asks for more only
\* when the kernel owes it a report.
OutputSeen ==
  interest = {"OUT"} =>
    /\ pc \in {"wait", "write", "conn", "closed"}
    /\ pc = "write" => caller = "events" /\ events = {}
    /\ pc = "wait" \/ (pc = "conn" /\ "OUT" \in events) =>
         edge \/ (Room = 0 /\ nospace)

Awake == Open /\ pc # "closed" =>
           InputParsed /\ OutputAsked /\ InputSeen /\ OutputSeen

IInv == TypeOK /\ Writing /\ Endings /\ Awake

-----------------------------------------------------------------------------
\* Sequences.

\* A sequence is a prefix of what it grows to.
LEMMA PrefixOfConcat ==
  ASSUME NEW S, NEW s \in Seq(S), NEW t \in Seq(S)
  PROVE  IsPrefix(s, s \o t) /\ IsPrefix(s, s) /\ IsPrefix(<<>>, s)
<1>1. Len(s) \in Nat /\ Len(t) \in Nat
  BY LenProperties
<1>2. SubSeq(s \o t, 1, Len(s)) = SubSeq(s, 1, Len(s))
  BY <1>1, PiecesOfConcat
<1>3. Len(s \o t) = Len(s) + Len(t)
  BY ConcatProperties
<1>4. SubSeq(<<>>, 1, 0) = <<>> /\ SubSeq(s, 1, 0) = <<>> /\ Len(<<>>) = 0
  BY SubSeqEmpty, EmptySeq
<1> QED
  BY <1>1, <1>2, <1>3, <1>4 DEF IsPrefix

\* What read() and write() may move.
LEMMA Moves ==
  ASSUME NEW a \in Nat, NEW b \in Nat, NEW n \in 1..Min({a, b})
  PROVE  n \in Nat \ {0} /\ n <= a /\ n <= b
<1>1. CASE a <= b
  <2>1. Min({a, b}) \in {a, b} /\ Min({a, b}) <= a
    BY <1>1 DEF Min
  <2> QED
    BY <1>1, <2>1
<1>2. CASE b < a
  <2>1. Min({a, b}) \in {a, b} /\ Min({a, b}) <= b
    BY <1>2 DEF Min
  <2> QED
    BY <1>2, <2>1
<1> QED
  BY <1>1, <1>2

\* The lengths, one by one.
LEMMA Lengths ==
  /\ RequestLength \in Nat \ {0} /\ ResponseLength \in Nat \ {0}
  /\ EchoLength \in Nat \ {0} /\ kMaxBuff \in Nat \ {0}
  /\ SendRoom \in Nat \ {0}
BY LengthAssumption

\* New bytes, and those of a page.
LEMMA Bytes ==
  ASSUME NEW n \in Nat, produced \in Nat
  PROVE  /\ NewBytes(n) \in Seq(Nat) /\ Len(NewBytes(n)) = n
         /\ [i \in 1..n |-> 0] \in Seq(Nat) /\ Len([i \in 1..n |-> 0]) = n
BY DEF NewBytes

-----------------------------------------------------------------------------
\* Types.

\* What ReadN takes from the socket.
LEMMA Taken ==
  ASSUME TypeOK, NEW n \in 1..Min({kMaxBuff, Len(rx)})
  PROVE  /\ n \in Nat /\ n <= Len(rx)
         /\ SubSeq(rx, 1, n) \in Seq(Nat)
         /\ SubSeq(rx, n + 1, Len(rx)) \in Seq(Nat)
         /\ SubSeq(rx, 1, n) \o SubSeq(rx, n + 1, Len(rx)) = rx
         /\ in_buffer_ \o SubSeq(rx, 1, n) \in Seq(Nat)
<1>1. rx \in Seq(Nat) /\ in_buffer_ \in Seq(Nat) /\ Len(rx) \in Nat /\ kMaxBuff \in Nat
  BY Lengths, LenProperties DEF TypeOK
<1>2. n \in Nat /\ n <= Len(rx)
  BY <1>1, Moves
<1>3. /\ SubSeq(rx, 1, n) \in Seq(Nat)
      /\ SubSeq(rx, n + 1, Len(rx)) \in Seq(Nat)
      /\ SubSeq(rx, 1, n) \o SubSeq(rx, n + 1, Len(rx)) = rx
  BY <1>1, <1>2, Pieces
<1> QED
  BY <1>1, <1>2, <1>3, ConcatProperties

\* What WriteN hands to the socket.
LEMMA Handed ==
  ASSUME TypeOK, Writing, NEW n \in 1..Min({Len(out_buffer_) - write_sum, Room})
  PROVE  /\ n \in Nat \ {0} /\ write_sum + n <= Len(out_buffer_)
         /\ SubSeq(out_buffer_, write_sum + 1, write_sum + n) \in Seq(Nat)
         /\ Len(SubSeq(out_buffer_, write_sum + 1, write_sum + n)) = n
         /\ tx \o SubSeq(out_buffer_, write_sum + 1, write_sum + n) \in Seq(Nat)
         /\ Len(tx \o SubSeq(out_buffer_, write_sum + 1, write_sum + n)) <= SendRoom
<1>1. /\ tx \in Seq(Nat) /\ Len(tx) \in Nat /\ SendRoom \in Nat
      /\ out_buffer_ \in Seq(Nat) /\ Len(out_buffer_) \in Nat /\ write_sum \in Nat
      /\ \A i \in 1..Len(out_buffer_) : out_buffer_[i] \in Nat
  BY Lengths, LenProperties, ElementOfSeq DEF TypeOK
<1>2. Room \in Nat /\ Len(out_buffer_) - write_sum \in Nat
  BY <1>1 DEF Writing, Room
<1>3. n \in Nat \ {0} /\ n <= Len(out_buffer_) - write_sum /\ n <= Room
  BY <1>2, Moves
<1>4. \A i \in (write_sum + 1)..(write_sum + n) : out_buffer_[i] \in Nat
  BY <1>1, <1>3
<1>5. /\ SubSeq(out_buffer_, write_sum + 1, write_sum + n) \in Seq(Nat)
      /\ Len(SubSeq(out_buffer_, write_sum + 1, write_sum + n)) = n
  BY <1>1, <1>3, <1>4, SubSeqProperties
<1>6. /\ tx \o SubSeq(out_buffer_, write_sum + 1, write_sum + n) \in Seq(Nat)
      /\ Len(tx \o SubSeq(out_buffer_, write_sum + 1, write_sum + n)) = Len(tx) + n
  BY <1>1, <1>5, ConcatProperties
<1> QED
  BY <1>1, <1>3, <1>5, <1>6 DEF Room

\* What HandleError hands to the socket.
LEMMA HandedPage ==
  ASSUME TypeOK, Writing, page # <<>>, NEW n \in 1..Min({Head(page), Room})
  PROVE  /\ n \in Nat \ {0}
         /\ tx \o [i \in 1..n |-> 0] \in Seq(Nat)
         /\ Len(tx \o [i \in 1..n |-> 0]) <= SendRoom
         /\ Tail(page) \in Seq(Nat \ {0})
         /\ n # Head(page) => [page EXCEPT ![1] = @ - n] \in Seq(Nat \ {0})
<1>1. /\ tx \in Seq(Nat) /\ Len(tx) \in Nat /\ SendRoom \in Nat
      /\ Head(page) \in Nat \ {0} /\ Tail(page) \in Seq(Nat \ {0})
      /\ page \in Seq(Nat \ {0}) /\ 1 \in 1..Len(page) /\ Head(page) = page[1]
  BY Lengths, LenProperties, HeadTailProperties, EmptySeq DEF TypeOK
<1>2. Room \in Nat
  BY <1>1 DEF Writing, Room
<1>3. n \in Nat \ {0} /\ n <= Head(page) /\ n <= Room
  BY <1>1, <1>2, Moves
<1>4. /\ tx \o [i \in 1..n |-> 0] \in Seq(Nat)
      /\ Len(tx \o [i \in 1..n |-> 0]) = Len(tx) + n
  BY <1>1, <1>3, Bytes, ConcatProperties DEF TypeOK
<1>5. ASSUME n # Head(page)
      PROVE  [page EXCEPT ![1] = @ - n] \in Seq(Nat \ {0})
  <2>1. page[1] - n \in Nat \ {0}
    BY <1>1, <1>3, <1>5
  <2> QED
    BY <1>1, <2>1, ExceptSeq
<1> QED
  BY <1>1, <1>3, <1>4, <1>5 DEF Room

LEMMA TypeStep ==
  ASSUME TypeOK, Writing, [Next]_vars
  PROVE  TypeOK'
<1> USE DEF Places, loopVars, bufferVars, stateVars, callVars, peerVars,
            epollVars, histVars
<1>0. /\ rx \in Seq(Nat) /\ tx \in Seq(Nat) /\ in_buffer_ \in Seq(Nat)
      /\ out_buffer_ \in Seq(Nat) /\ parsed \in Seq(Nat) /\ received \in Seq(Nat)
      /\ page \in Seq(Nat \ {0}) /\ sent \in Nat /\ produced \in Nat
      /\ write_sum \in Nat /\ events \subseteq {"IN", "OUT"}
  BY DEF TypeOK
<1>1. CASE UNCHANGED vars
  BY <1>1 DEF TypeOK, vars
<1>2. CASE PeerSends
  <2>1. rx' \in Seq(Nat) /\ sent' \in Nat
    BY <1>0, <1>2, AppendProperties DEF PeerSends
  <2> QED
    BY <1>2, <2>1 DEF TypeOK, PeerSends, Raise
<1>3. CASE PeerCloses
  BY <1>3 DEF TypeOK, PeerCloses, Raise
<1>4. CASE PeerResets
  BY <1>4 DEF TypeOK, PeerResets
<1>5. CASE PeerReads
  <2>1. tx' \in Seq(Nat) /\ received' \in Seq(Nat)
    BY <1>0, <1>5, HeadTailProperties, AppendProperties DEF PeerReads
  <2>2. edge' \in BOOLEAN /\ nospace' \in BOOLEAN
    BY <1>5 DEF PeerReads
  <2> QED
    BY <1>5, <2>1, <2>2 DEF TypeOK, PeerReads
<1>6. CASE Poll
  <2>1. revents' \subseteq {"IN", "OUT"}
    BY <1>0, <1>6 DEF Poll, Reportable, Ready
  <2> QED
    BY <1>6, <2>1 DEF TypeOK, Poll, Polled
<1>7. CASE ReadSome
  <2>1. in_buffer_' \in Seq(Nat) /\ rx' \in Seq(Nat)
    BY <1>0, <1>7, Taken DEF ReadSome
  <2> QED
    BY <1>7, <2>1 DEF TypeOK, ReadSome
<1>8. CASE ReadReturns
  <2>1. page' \in Seq(Nat \ {0})
    BY <1>0, <1>8, PageAssumption DEF ReadReturns
  <2>2. /\ pc' \in Places
        /\ connection_state_' \in {"H_CONNECTED", "H_DISCONNECTING"}
    BY <1>8 DEF ReadReturns
  <2>3. in_buffer_' \in Seq(Nat) /\ error_' \in BOOLEAN
    BY <1>8, EmptySeq DEF ReadReturns, TypeOK
  <2> QED
    BY <1>8, <2>1, <2>2, <2>3 DEF TypeOK, ReadReturns
<1>9. CASE ParseAgain
  BY <1>9 DEF TypeOK, ParseAgain
<1>10. CASE Answer
  <2>1. RequestLength \in Nat /\ RequestLength <= Len(in_buffer_)
    BY <1>0, <1>10, Lengths, LenProperties DEF Answer
  <2>2. in_buffer_' \in Seq(Nat)
    BY <1>0, <1>10, <2>1, Pieces DEF Answer
  <2>3. parsed' \in Seq(Nat)
    <3>1. SubSeq(in_buffer_, 1, RequestLength) \in Seq(Nat)
      BY <1>0, <2>1, Pieces
    <3> QED
      BY <1>0, <1>10, <3>1, ConcatProperties DEF Answer
  <2>4. out_buffer_' \in Seq(Nat) /\ produced' \in Nat
    <3>1. /\ NewBytes(ResponseLength) \in Seq(Nat)
          /\ NewBytes(EchoLength) \in Seq(Nat)
          /\ ResponseLength \in Nat /\ EchoLength \in Nat
      BY <1>0, Lengths, Bytes
    <3>2. out_buffer_ \o NewBytes(ResponseLength) \in Seq(Nat)
      BY <1>0, <3>1, ConcatProperties
    <3>3. \/ /\ out_buffer_' = out_buffer_ \o NewBytes(ResponseLength)
             /\ produced' = produced + ResponseLength
          \/ /\ out_buffer_' = NewBytes(EchoLength)
             /\ produced' = produced + EchoLength
      BY <1>10, Zenon DEF Answer
    <3>4. out_buffer_' \in Seq(Nat)
      BY <3>1, <3>2, <3>3, Zenon
    <3>5. produced' \in Nat
      BY <1>0, <3>1, <3>3
    <3> QED
      BY <3>4, <3>5
  <2> QED
    BY <1>10, <2>2, <2>3, <2>4 DEF TypeOK, Answer
<1>11. CASE Refuse
  <2>1. out_buffer_' \in Seq(Nat) /\ page' \in Seq(Nat \ {0})
    BY <1>0, <1>11, PageAssumption, EmptySeq DEF Refuse
  <2> QED
    BY <1>11, <2>1 DEF TypeOK, Refuse
<1>12. CASE WritePage
  <2>1. tx' \in Seq(Nat) /\ page' \in Seq(Nat \ {0})
    BY <1>0, <1>12, HandedPage DEF WritePage
  <2> QED
    BY <1>12, <2>1 DEF TypeOK, WritePage
<1>13. CASE GiveUpPart
  <2>1. page' \in Seq(Nat \ {0})
    BY <1>0, <1>13, HeadTailProperties DEF GiveUpPart
  <2> QED
    BY <1>13, <2>1 DEF TypeOK, GiveUpPart
<1>14. CASE PageDone
  BY <1>14 DEF TypeOK, PageDone, AfterRead
<1>15. CASE WriteSome
  <2>1. PICK n \in 1..Min({Len(out_buffer_) - write_sum, Room}) :
          /\ tx' = tx \o SubSeq(out_buffer_, write_sum + 1, write_sum + n)
          /\ write_sum' = write_sum + n
    BY <1>15 DEF WriteSome
  <2>2. tx' \in Seq(Nat)
    BY <2>1, Handed, Zenon
  <2>3. n \in Nat
    BY Handed
  <2> QED
    BY <1>0, <1>15, <2>1, <2>2, <2>3 DEF TypeOK, WriteSome
<1>16. CASE WriteReturns
  <2>1. out_buffer_' \in Seq(Nat)
    BY <1>0, <1>16, Pieces DEF WriteReturns, Writing
  <2> QED
    BY <1>16, <2>1 DEF TypeOK, WriteReturns
<1>17. CASE WriteFails
  BY <1>17 DEF TypeOK, WriteFails
<1>18. CASE FlushAnswer
  BY <1>18 DEF TypeOK, FlushAnswer
<1>19. CASE ResetOrWait
  BY <1>19 DEF TypeOK, ResetOrWait, AfterRead
<1>20. CASE WatchOn
  <2>1. interest' \in {{"IN"}, {"OUT"}}
    BY <1>0, <1>20 DEF WatchOn, NextEvents
  <2> QED
    BY <1>20, <2>1 DEF TypeOK, WatchOn, Polled
<1>21. CASE LeaveHalfClosed
  BY <1>21 DEF TypeOK, LeaveHalfClosed
<1>22. CASE HandleClose
  BY <1>22 DEF TypeOK, HandleClose, Close
<1>23. CASE TimedOut
  BY <1>23 DEF TypeOK, TimedOut, Close
<1> QED
  BY <1>1, <1>2, <1>3, <1>4, <1>5, <1>6, <1>7, <1>8, <1>9, <1>10, <1>11, <1>12,
     <1>13, <1>14, <1>15, <1>16, <1>17, <1>18, <1>19, <1>20, <1>21, <1>22, <1>23
  DEF Next, LoopStep, Peer

-----------------------------------------------------------------------------
\* Calls that stay inside their buffers, and what an ending leaves.

LEMMA WritingStep ==
  ASSUME TypeOK, TypeOK', Writing, [Next]_vars
  PROVE  Writing'
<1> USE DEF Writing
<1>0. /\ Len(out_buffer_) \in Nat /\ Len(out_buffer_') \in Nat
      /\ write_sum \in Nat /\ SendRoom \in Nat
      /\ tx \in Seq(Nat) /\ Len(<<>>) = 0
  BY Lengths, EmptySeq, LenProperties DEF TypeOK
<1>1. CASE UNCHANGED <<write_sum, out_buffer_, tx>> /\ (pc = "write" => pc' = "write")
  BY <1>1
<1>2. CASE write_sum' = 0 /\ tx' = tx
  BY <1>0, <1>2
<1>3. CASE PeerResets
  BY <1>0, <1>3 DEF PeerResets, loopVars, bufferVars, callVars
<1>4. CASE PeerReads
  <2>1. Len(tx') <= SendRoom
    BY <1>0, <1>4, HeadTailProperties, LenProperties DEF PeerReads
  <2> QED
    BY <1>4, <2>1 DEF PeerReads, loopVars, bufferVars, callVars
<1>5. CASE WritePage
  <2>1. PICK n \in 1..Min({Head(page), Room}) : tx' = tx \o [i \in 1..n |-> 0]
    BY <1>5 DEF WritePage
  <2>2. page # <<>> /\ UNCHANGED <<pc, out_buffer_, write_sum>>
    BY <1>5 DEF WritePage, loopVars, bufferVars
  <2>3. Len(tx') <= SendRoom
    BY <2>1, <2>2, HandedPage
  <2> QED
    BY <2>2, <2>3
<1>6. CASE WriteSome
  <2>1. PICK n \in 1..Min({Len(out_buffer_) - write_sum, Room}) :
          /\ tx' = tx \o SubSeq(out_buffer_, write_sum + 1, write_sum + n)
          /\ write_sum' = write_sum + n
    BY <1>6 DEF WriteSome
  <2>2. pc' = "write" /\ out_buffer_' = out_buffer_
    BY <1>6 DEF WriteSome, loopVars, bufferVars
  <2>3. Len(tx') <= SendRoom /\ write_sum' <= Len(out_buffer_)
    BY <2>1, Handed
  <2> QED
    BY <2>2, <2>3
<1>7. CASE Close /\ write_sum' = write_sum /\ pc # "write" /\ out_buffer_' = out_buffer_
  BY <1>0, <1>7 DEF Close
<1>8. CASE UNCHANGED vars
  BY <1>1, <1>8 DEF vars, loopVars, bufferVars, callVars
<1>9. CASE PeerSends \/ PeerCloses
  BY <1>1, <1>9 DEF PeerSends, PeerCloses, loopVars, bufferVars, callVars
<1>10. CASE Poll \/ ReadSome \/ ReadReturns \/ ParseAgain \/ Answer \/ Refuse
  BY <1>0, <1>2, <1>10
  DEF Poll, ReadSome, ReadReturns, ParseAgain, Answer, Refuse, callVars
<1>11. CASE GiveUpPart \/ PageDone \/ FlushAnswer \/ ResetOrWait \/ WatchOn
              \/ LeaveHalfClosed
  BY <1>0, <1>2, <1>11
  DEF GiveUpPart, PageDone, FlushAnswer, ResetOrWait, WatchOn, LeaveHalfClosed, callVars
<1>12. CASE WriteReturns \/ WriteFails
  BY <1>2, <1>12 DEF WriteReturns, WriteFails
<1>13. CASE HandleClose \/ TimedOut
  BY <1>7, <1>13 DEF HandleClose, TimedOut, bufferVars, callVars
<1> QED
  BY <1>3, <1>4, <1>5, <1>6, <1>8, <1>9, <1>10, <1>11, <1>12, <1>13
  DEF Next, LoopStep, Peer

LEMMA EndingsStep ==
  ASSUME TypeOK, Endings, [Next]_vars
  PROVE  Endings'
<1> USE DEF Endings
<1>0. connection_state_ \in {"H_CONNECTED", "H_DISCONNECTING"} /\ error_ \in BOOLEAN
  BY DEF TypeOK
<1>1. CASE UNCHANGED vars
  BY <1>1 DEF vars, loopVars, stateVars, peerVars
<1>2. CASE Peer
  BY <1>2 DEF Peer, PeerSends, PeerCloses, PeerResets, PeerReads, loopVars,
              stateVars, peerVars
<1>3. CASE Poll \/ ReadSome \/ ParseAgain \/ Answer \/ Refuse
  BY <1>3 DEF Poll, ReadSome, ParseAgain, Answer, Refuse, loopVars, stateVars, peerVars
<1>4. CASE ReadReturns
  BY <1>0, <1>4 DEF ReadReturns, peerVars
<1>5. CASE WritePage \/ GiveUpPart \/ PageDone
  BY <1>5 DEF WritePage, GiveUpPart, PageDone, AfterRead, loopVars, stateVars, peerVars
<1>6. CASE WriteSome \/ WriteReturns \/ WriteFails
  BY <1>6 DEF WriteSome, WriteReturns, WriteFails, loopVars, stateVars, peerVars
<1>7. CASE FlushAnswer \/ ResetOrWait
  BY <1>7 DEF FlushAnswer, ResetOrWait, AfterRead, stateVars, peerVars
<1>8. CASE WatchOn \/ LeaveHalfClosed
  BY <1>8 DEF WatchOn, LeaveHalfClosed, stateVars, peerVars
<1>9. CASE HandleClose \/ TimedOut
  BY <1>9 DEF HandleClose, TimedOut, Close, stateVars, peerVars
<1> QED
  BY <1>1, <1>2, <1>3, <1>4, <1>5, <1>6, <1>7, <1>8, <1>9 DEF Next, LoopStep

-----------------------------------------------------------------------------
\* Never asleep on work.

\* What is reported, while the peer has not reset.
LEMMA Reports ==
  ASSUME ~rst, NEW watch \in {{"IN"}, {"OUT"}}
  PROVE  /\ "HUP" \notin Reportable(watch)
         /\ "IN" \in Reportable(watch) <=> watch = {"IN"} /\ (rx # <<>> \/ eof)
         /\ "OUT" \in Reportable(watch) <=> watch = {"OUT"} /\ Room > 0
         /\ Reportable(watch) # {} <=>
              IF watch = {"IN"} THEN rx # <<>> \/ eof ELSE Room > 0
BY DEF Reportable, Ready

\* Nothing that ends is opened again.
LEMMA StaysClosed ==
  ASSUME TypeOK, [Next]_vars, Open', pc' # "closed"
  PROVE  Open /\ pc # "closed"
<1> USE DEF Open
<1>0. connection_state_ \in {"H_CONNECTED", "H_DISCONNECTING"}
  BY DEF TypeOK
<1>1. CASE UNCHANGED vars
  BY <1>1 DEF vars, loopVars, stateVars, peerVars
<1>2. CASE Peer
  BY <1>2 DEF Peer, PeerSends, PeerCloses, PeerResets, PeerReads, loopVars,
              stateVars, peerVars
<1>3. CASE Poll \/ ReadSome \/ ReadReturns \/ ParseAgain \/ Answer \/ Refuse
  BY <1>0, <1>3 DEF Poll, ReadSome, ReadReturns, ParseAgain, Answer, Refuse,
                    stateVars, peerVars
<1>4. CASE WritePage \/ GiveUpPart \/ PageDone
  BY <1>4 DEF WritePage, GiveUpPart, PageDone, AfterRead, stateVars, peerVars
<1>5. CASE WriteSome \/ WriteReturns \/ WriteFails
  BY <1>5 DEF WriteSome, WriteReturns, WriteFails, stateVars, peerVars
<1>6. CASE FlushAnswer \/ ResetOrWait \/ WatchOn \/ LeaveHalfClosed
  BY <1>6 DEF FlushAnswer, ResetOrWait, WatchOn, LeaveHalfClosed, stateVars, peerVars
<1>7. CASE HandleClose \/ TimedOut
  BY <1>7 DEF HandleClose, TimedOut, Close
<1> QED
  BY <1>1, <1>2, <1>3, <1>4, <1>5, <1>6, <1>7 DEF Next, LoopStep

LEMMA InputParsedStep ==
  ASSUME TypeOK, Endings, [Next]_vars, Open, Open', InputParsed
  PROVE  InputParsed'
<1> USE DEF InputParsed, Open
<1>0. /\ Len(in_buffer_) \in Nat /\ RequestLength \in Nat \ {0} /\ Len(<<>>) = 0
      /\ finished \in BOOLEAN /\ caller \in {"read", "events"}
  BY Lengths, LenProperties, EmptySeq DEF TypeOK
<1>1. CASE UNCHANGED vars
  BY <1>1 DEF vars, loopVars, bufferVars, stateVars
<1>2. CASE Peer
  BY <1>2 DEF Peer, PeerSends, PeerCloses, PeerResets, PeerReads, loopVars,
              bufferVars, stateVars
<1>3. CASE Poll
  BY <1>3 DEF Poll, bufferVars
<1>4. CASE ReadSome
  BY <1>4 DEF ReadSome, loopVars
<1>5. CASE ReadReturns
  BY <1>5 DEF ReadReturns
<1>6. CASE ParseAgain \/ Answer
  BY <1>6 DEF ParseAgain, Answer, bufferVars
<1>7. CASE WriteSome
  BY <1>7 DEF WriteSome, loopVars, bufferVars, stateVars
<1>8. CASE WriteReturns
  BY <1>0, <1>8 DEF WriteReturns, stateVars
<1>9. CASE FlushAnswer
  BY <1>9 DEF FlushAnswer, bufferVars, stateVars
<1>10. CASE ResetOrWait
  BY <1>0, <1>10 DEF ResetOrWait, AfterRead, bufferVars
<1>11. CASE WatchOn
  BY <1>11 DEF WatchOn, bufferVars
<1>12. CASE Refuse \/ WriteFails \/ LeaveHalfClosed
  BY <1>12 DEF Refuse, WriteFails, LeaveHalfClosed
<1>13. CASE HandleClose \/ TimedOut
  BY <1>13 DEF HandleClose, TimedOut, Close
<1>14. CASE WritePage \/ GiveUpPart \/ PageDone
  BY <1>14 DEF WritePage, GiveUpPart, PageDone, Endings
<1> QED
  BY <1>1, <1>2, <1>3, <1>4, <1>5, <1>6, <1>7, <1>8, <1>9, <1>10, <1>11, <1>12,
     <1>13, <1>14 DEF Next, LoopStep

LEMMA OutputAskedStep ==
  ASSUME TypeOK, Endings, [Next]_vars, Open, Open', OutputAsked
  PROVE  OutputAsked'
<1> USE DEF OutputAsked, Open
<1>1. CASE UNCHANGED vars
  BY <1>1 DEF vars, loopVars, bufferVars, epollVars
<1>2. CASE Peer
  BY <1>2 DEF Peer, PeerSends, PeerCloses, PeerResets, PeerReads, loopVars, bufferVars
<1>3. CASE Poll
  <2>1. pc' = "read" => interest = {"IN"}
    BY <1>3, Reports DEF Poll, TypeOK
  <2> QED
    BY <1>3, <2>1 DEF Poll, bufferVars
<1>4. CASE ReadSome
  BY <1>4 DEF ReadSome, loopVars
<1>5. CASE ReadReturns
  BY <1>5 DEF ReadReturns
<1>6. CASE ParseAgain \/ Answer
  BY <1>6 DEF ParseAgain, Answer
<1>7. CASE WriteSome
  BY <1>7 DEF WriteSome, loopVars
<1>8. CASE WriteReturns
  BY <1>8 DEF WriteReturns
<1>9. CASE FlushAnswer
  BY <1>9 DEF FlushAnswer, bufferVars
<1>10. CASE ResetOrWait
  BY <1>10 DEF ResetOrWait, AfterRead, bufferVars
<1>11. CASE WatchOn
  BY <1>11 DEF WatchOn, NextEvents, bufferVars
<1>12. CASE Refuse \/ WriteFails \/ LeaveHalfClosed
  BY <1>12 DEF Refuse, WriteFails, LeaveHalfClosed
<1>13. CASE HandleClose \/ TimedOut
  BY <1>13 DEF HandleClose, TimedOut, Close
<1>14. CASE WritePage \/ GiveUpPart \/ PageDone
  BY <1>14 DEF WritePage, GiveUpPart, PageDone, Endings
<1> QED
  BY <1>1, <1>2, <1>3, <1>4, <1>5, <1>6, <1>7, <1>8, <1>9, <1>10, <1>11, <1>12,
     <1>13, <1>14 DEF Next, LoopStep

LEMMA InputSeenStep ==
  ASSUME TypeOK, Endings, [Next]_vars, Open, Open', InputSeen
  PROVE  InputSeen'
<1> USE DEF InputSeen, Open
<1>1. CASE UNCHANGED vars
  BY <1>1 DEF vars, loopVars, peerVars, epollVars
<1>2. CASE Peer
  BY <1>2 DEF Peer, PeerSends, PeerCloses, PeerResets, PeerReads, Raise, loopVars
<1>3. CASE Poll
  <2>1. "IN" \notin Reportable(interest) \/ pc' = "read"
    BY <1>3, Reports DEF Poll, TypeOK
  <2> QED
    BY <1>3, <2>1, Reports DEF Poll, TypeOK, peerVars
<1>4. CASE ReadSome
  BY <1>4 DEF ReadSome, loopVars
<1>5. CASE ReadReturns
  BY <1>5 DEF ReadReturns, peerVars
<1>6. CASE ParseAgain \/ Answer
  BY <1>6 DEF ParseAgain, Answer, peerVars, epollVars
<1>7. CASE WriteSome
  BY <1>7 DEF WriteSome, loopVars, peerVars, epollVars
<1>8. CASE WriteReturns
  BY <1>8 DEF WriteReturns, peerVars
<1>9. CASE FlushAnswer \/ ResetOrWait
  BY <1>9 DEF FlushAnswer, ResetOrWait, peerVars, epollVars
<1>10. CASE WatchOn
  <2>1. NextEvents # interest => (edge' <=> Reportable(NextEvents) # {})
    BY <1>10 DEF WatchOn
  <2>2. NextEvents = {"IN"} => (Reportable(NextEvents) # {} <=> rx # <<>> \/ eof)
    BY Reports
  <2> QED
    BY <1>10, <2>1, <2>2 DEF WatchOn, peerVars
<1>11. CASE Refuse \/ WriteFails \/ LeaveHalfClosed
  BY <1>11 DEF Refuse, WriteFails, LeaveHalfClosed
<1>12. CASE HandleClose \/ TimedOut
  BY <1>12 DEF HandleClose, peerVars, epollVars, TimedOut, Close
<1>13. CASE WritePage \/ GiveUpPart \/ PageDone
  BY <1>13 DEF WritePage, GiveUpPart, PageDone, Endings
<1> QED
  BY <1>1, <1>2, <1>3, <1>4, <1>5, <1>6, <1>7, <1>8, <1>9, <1>10, <1>11, <1>12,
     <1>13 DEF Next, LoopStep

LEMMA OutputSeenStep ==
  ASSUME TypeOK, Writing, Endings, [Next]_vars, Open, Open', OutputSeen
  PROVE  OutputSeen'
<1> USE DEF OutputSeen, Open
<1>0. Room \in Nat /\ (UNCHANGED tx => Room' = Room)
  BY Lengths, LenProperties DEF TypeOK, Writing, Room
<1>1. CASE UNCHANGED vars
  BY <1>0, <1>1 DEF vars, loopVars, epollVars
<1>2. CASE PeerSends \/ PeerCloses \/ PeerResets
  BY <1>0, <1>2 DEF PeerSends, PeerCloses, PeerResets, Raise, loopVars
<1>3. CASE PeerReads
  BY <1>3 DEF PeerReads, loopVars
<1>4. CASE Poll
  <2>1. interest \in {{"IN"}, {"OUT"}} /\ interest' = interest /\ Room' = Room
    BY <1>0, <1>4 DEF Poll, TypeOK
  <2>2. interest = {"OUT"} =>
          /\ pc' \in {"wait", "write"} /\ caller' = "events" /\ events' = {}
          /\ pc' = "wait" => Room = 0
    BY <1>0, <1>4, <2>1, Reports DEF Poll
  <2>3. interest = {"OUT"} /\ Room = 0 => nospace'
    BY <1>4 DEF Poll, Polled
  <2> QED
    BY <2>1, <2>2, <2>3
<1>5. CASE ReadSome \/ ReadReturns \/ ParseAgain \/ Answer \/ Refuse
  BY <1>5 DEF ReadSome, ReadReturns, ParseAgain, Answer, Refuse, epollVars
<1>6. CASE WriteSome
  BY <1>6 DEF WriteSome, loopVars, epollVars
<1>7. CASE WriteReturns
  <2>1. write_sum \in Nat /\ Len(out_buffer_) \in Nat /\ write_sum <= Len(out_buffer_)
    BY LenProperties DEF TypeOK, Writing
  <2>2. ASSUME interest = {"OUT"}, "OUT" \in events'
        PROVE  Room = 0 /\ nospace'
    <3>1. events = {} /\ out_buffer_' # <<>>
      BY <1>7, <2>2 DEF WriteReturns
    <3>2. ASSUME write_sum = Len(out_buffer_) PROVE FALSE
      <4>1. out_buffer_' = SubSeq(out_buffer_, write_sum + 1, Len(out_buffer_))
        BY <1>7 DEF WriteReturns
      <4>2. SubSeq(out_buffer_, write_sum + 1, Len(out_buffer_)) = <<>>
        BY <2>1, <3>2, SubSeqEmpty
      <4> QED
        BY <3>1, <4>1, <4>2, Zenon
    <3>3. write_sum < Len(out_buffer_)
      BY <2>1, <3>2
    <3>4. /\ write_sum = Len(out_buffer_) \/ Room = 0
          /\ nospace' <=> nospace \/ write_sum < Len(out_buffer_)
      BY <1>7 DEF WriteReturns
    <3> QED
      BY <3>2, <3>3, <3>4
  <2> QED
    BY <1>0, <1>7, <2>2 DEF WriteReturns
<1>8. CASE FlushAnswer \/ ResetOrWait
  BY <1>8 DEF FlushAnswer, ResetOrWait, epollVars
<1>9. CASE WatchOn
  <2>1. pc' = "wait" /\ interest' = NextEvents /\ Room' = Room
    BY <1>0, <1>9 DEF WatchOn
  <2>2. CASE NextEvents = interest
    BY <1>9, <2>1, <2>2 DEF WatchOn, NextEvents
  <2>3. CASE NextEvents # interest
    <3>1. /\ edge' <=> Reportable(NextEvents) # {}
          /\ nospace' <=> nospace \/ ("OUT" \in NextEvents /\ Room = 0)
      BY <1>9, <2>3 DEF WatchOn, Polled
    <3>2. NextEvents = {"OUT"} => (Reportable(NextEvents) # {} <=> Room > 0)
      BY Reports
    <3> QED
      BY <1>0, <2>1, <3>1, <3>2
  <2> QED
    BY <2>2, <2>3
<1>10. CASE WriteFails \/ LeaveHalfClosed
  BY <1>10 DEF WriteFails, LeaveHalfClosed
<1>11. CASE HandleClose \/ TimedOut
  BY <1>11 DEF HandleClose, TimedOut, Close, epollVars
<1>12. CASE WritePage \/ GiveUpPart \/ PageDone
  BY <1>12 DEF WritePage, GiveUpPart, PageDone, Endings
<1> QED
  BY <1>1, <1>2, <1>3, <1>4, <1>5, <1>6, <1>7, <1>8, <1>9, <1>10, <1>11, <1>12
  DEF Next, LoopStep, Peer

-----------------------------------------------------------------------------
\* The invariant holds.

LEMMA Initially ==
  ASSUME Init
  PROVE  IInv
<1> USE DEF Init
<1>1. TypeOK
  BY EmptySeq DEF TypeOK, Places
<1>2. Writing
  BY Lengths, EmptySeq DEF Writing
<1>3. Endings
  BY DEF Endings
<1>4. Awake
  BY Lengths, EmptySeq DEF Awake, InputParsed, OutputAsked, InputSeen, OutputSeen
<1> QED
  BY <1>1, <1>2, <1>3, <1>4 DEF IInv

LEMMA Inductive ==
  ASSUME IInv, [Next]_vars
  PROVE  IInv'
<1> USE DEF IInv
<1>1. TypeOK'
  BY TypeStep
<1>2. Writing'
  BY <1>1, WritingStep
<1>3. Endings'
  BY EndingsStep
<1>4. Awake'
  BY StaysClosed, InputParsedStep, OutputAskedStep, InputSeenStep, OutputSeenStep
  DEF Awake
<1> QED
  BY <1>1, <1>2, <1>3, <1>4

LEMMA Invariance == Spec => []IInv
BY Initially, Inductive, PTL DEF Spec

\* Every variable has its type, WriteN stays inside its buffers, and an error or
\* a reset leaves nothing half done, for any lengths and any cuts of the streams.
THEOREM TypeCorrect == Spec => [](TypeOK /\ Writing /\ Endings)
<1>1. IInv => TypeOK /\ Writing /\ Endings
  BY DEF IInv
<1> QED
  BY <1>1, Invariance, PTL

\* ReadN, WriteN and HandleConn never leave a connection in epoll_wait with
\* input that nobody will report, with output that nobody asked room for, or
\* with a whole request in in_buffer_.
THEOREM LoopIsAwake == Spec => []NobodyStalls
<1>1. ASSUME IInv PROVE NobodyStalls
  <2> SUFFICES ASSUME pc = "wait", connection_state_ = "H_CONNECTED", ~rst
               PROVE  /\ interest = {"IN"} => out_buffer_ = <<>>
                      /\ Reportable(interest) # {} => edge
                      /\ Len(in_buffer_) < RequestLength
    BY DEF NobodyStalls
  <2>1. ~error_
    BY <1>1 DEF IInv, Endings
  <2>2. InputParsed /\ OutputAsked /\ InputSeen /\ OutputSeen
    BY <1>1, <2>1 DEF IInv, Awake, Open
  <2>3. interest \in {{"IN"}, {"OUT"}}
    BY <1>1 DEF IInv, TypeOK
  <2>4. Reportable(interest) # {} =>
          IF interest = {"IN"} THEN rx # <<>> \/ eof ELSE Room > 0
    BY <2>3, Reports
  <2>5. Reportable(interest) # {} => edge
    BY <2>2, <2>3, <2>4 DEF InputSeen, OutputSeen
  <2> QED
    BY <2>2, <2>5 DEF InputParsed, OutputAsked
<1> QED
  BY <1>1, Invariance, PTL

-----------------------------------------------------------------------------
\* The two streams.

\* What is not parsed yet, what is not written yet, and what neither has reached
\* the peer yet.
Unread == IF error_ \/ pc = "closed" THEN <<>> ELSE in_buffer_ \o rx
Pending == SubSeq(out_buffer_, write_sum + 1, Len(out_buffer_))
Unsent == IF Lost THEN tx ELSE tx \o Pending

LEMMA Associative ==
  \A s, t, u \in Seq(Nat) : (s \o t) \o u = s \o (t \o u)
OBVIOUS

\* The sequences the streams are made of.
LEMMA StreamTypes ==
  ASSUME TypeOK, Writing
  PROVE  /\ in_buffer_ \in Seq(Nat) /\ out_buffer_ \in Seq(Nat) /\ rx \in Seq(Nat)
         /\ tx \in Seq(Nat) /\ received \in Seq(Nat) /\ parsed \in Seq(Nat)
         /\ Len(in_buffer_) \in Nat /\ Len(out_buffer_) \in Nat /\ Len(tx) \in Nat
         /\ write_sum \in Nat /\ sent \in Nat /\ produced \in Nat
         /\ Pending \in Seq(Nat) /\ Len(Pending) = Len(out_buffer_) - write_sum
         /\ Unread \in Seq(Nat) /\ Unsent \in Seq(Nat)
<1>1. /\ in_buffer_ \in Seq(Nat) /\ out_buffer_ \in Seq(Nat) /\ rx \in Seq(Nat)
      /\ tx \in Seq(Nat) /\ received \in Seq(Nat) /\ parsed \in Seq(Nat)
      /\ write_sum \in Nat /\ sent \in Nat /\ produced \in Nat
  BY DEF TypeOK
<1>2. Len(in_buffer_) \in Nat /\ Len(out_buffer_) \in Nat /\ Len(tx) \in Nat
  BY <1>1, LenProperties
<1>3. Pending \in Seq(Nat) /\ Len(Pending) = Len(out_buffer_) - write_sum
  BY <1>1, Pieces DEF Pending, Writing
<1>4. tx \o Pending \in Seq(Nat) /\ in_buffer_ \o rx \in Seq(Nat)
  BY <1>1, <1>3, ConcatProperties
<1>5. Unread \in Seq(Nat) /\ Unsent \in Seq(Nat)
  BY <1>1, <1>4, EmptySeq DEF Unread, Unsent
<1> QED
  BY <1>1, <1>2, <1>3, <1>5

\* A step of Transfer that is none of the stream of requests.
LEMMA RequestsStay ==
  ASSUME sent' = sent, parsed' = parsed, Unread' = Unread,
         (Lost \/ connection_state_ = "H_DISCONNECTING")'
           <=> (Lost \/ connection_state_ = "H_DISCONNECTING")
  PROVE  UNCHANGED Requests!vars
<1>1. UNCHANGED (Lost \/ connection_state_ = "H_DISCONNECTING")
  OBVIOUS
<1> QED
  BY <1>1 DEF Requests!vars, Unread

\* A step that breaks the stream of requests, or finds it broken.
LEMMA RequestsBreak ==
  ASSUME TypeOK, Writing, Lost' \/ connection_state_' = "H_DISCONNECTING",
         Unread' \in {Unread, <<>>}
           \/ (Unread' = in_buffer_ /\ Unread = in_buffer_ \o rx),
         sent \in Nat, sent' \in Nat, sent' >= sent, parsed' = parsed
  PROVE  Requests!Break
<1>1. IsPrefix(Unread', Unread)
  BY StreamTypes, PrefixOfConcat
<1>2. Requests!IsPrefix(Unread', Unread)
  BY <1>1 DEF IsPrefix, Requests!IsPrefix
<1>3. (Lost \/ connection_state_ = "H_DISCONNECTING")' = TRUE
  OBVIOUS
<1>4. sent' >= sent /\ FALSE' \in {FALSE, TRUE} /\ parsed' = parsed
  OBVIOUS
<1> QED
  BY <1>2, <1>3, <1>4, Zenon DEF Requests!Break, Unread

\* A step of Transfer that is none of the stream of answers.
LEMMA AnswersStay ==
  ASSUME produced' = produced, received' = received, Unsent' = Unsent,
         Lost' <=> Lost, overwritten' = overwritten
  PROVE  UNCHANGED Answers!vars
<1>1. UNCHANGED Lost
  OBVIOUS
<1> QED
  BY <1>1 DEF Answers!vars, Unsent, Pending

\* A step that breaks the stream of answers, or finds it broken.
LEMMA AnswersBreak ==
  ASSUME TypeOK, Writing, Lost', Unsent' \in {Unsent, tx, <<>>},
         produced' \in Nat, produced' >= produced,
         overwritten' \in {overwritten, TRUE}, received' = received
  PROVE  Answers!Break
<1>1. IsPrefix(Unsent', Unsent)
  <2>1. Unsent \in {tx, tx \o Pending} /\ tx \in Seq(Nat) /\ Pending \in Seq(Nat)
    BY StreamTypes DEF Unsent
  <2> QED
    BY <2>1, StreamTypes, PrefixOfConcat
<1>2. Answers!IsPrefix(Unsent', Unsent)
  BY <1>1 DEF IsPrefix, Answers!IsPrefix
<1>3. Lost' = TRUE
  BY DEF Lost
<1> QED
  BY <1>2, <1>3, Zenon DEF Answers!Break, Unsent, Pending

-----------------------------------------------------------------------------
\* The stream of requests.

\* A byte sent is put into the stream, or lost behind an error.
LEMMA RequestSent ==
  ASSUME TypeOK, Writing, Endings, PeerSends
  PROVE  Requests!Put \/ Requests!Break
<1> USE DEF PeerSends, loopVars, bufferVars, stateVars, histVars
<1>1. /\ sent' = sent + 1 /\ rx' = Append(rx, sent + 1) /\ parsed' = parsed
      /\ in_buffer_' = in_buffer_ /\ error_' = error_ /\ rst' = rst /\ pc' = pc
      /\ connection_state_' = connection_state_ /\ pc # "closed" /\ ~rst
      /\ connection_state_ # "H_DISCONNECTING" /\ sent \in Nat
  BY DEF Endings, TypeOK
<1>2. CASE error_
  <2>1. Lost' /\ Unread' = Unread
    BY <1>1, <1>2 DEF Lost, Unread
  <2>2. sent' \in Nat /\ sent' >= sent
    BY <1>1
  <2> QED
    BY <1>1, <2>1, <2>2, RequestsBreak
<1>3. CASE ~error_
  <2>1. (Lost \/ connection_state_ = "H_DISCONNECTING")'
          = (Lost \/ connection_state_ = "H_DISCONNECTING")
    BY <1>1 DEF Lost
  <2>2. ~(Lost \/ connection_state_ = "H_DISCONNECTING")
    BY <1>1, <1>3 DEF Lost
  <2>3. Unread' = Unread \o <<sent + 1>>
    <3>1. Unread' = in_buffer_ \o Append(rx, sent + 1) /\ Unread = in_buffer_ \o rx
      BY <1>1, <1>3 DEF Unread
    <3>2. /\ in_buffer_ \in Seq(Nat) /\ rx \in Seq(Nat) /\ sent + 1 \in Nat
          /\ <<sent + 1>> \in Seq(Nat)
      BY <1>1 DEF TypeOK
    <3>3. Append(rx, sent + 1) = rx \o <<sent + 1>>
      BY <3>2, AppendIsConcat
    <3>4. in_buffer_ \o (rx \o <<sent + 1>>) = (in_buffer_ \o rx) \o <<sent + 1>>
      BY <3>2, Associative
    <3> QED
      BY <3>1, <3>3, <3>4, Zenon
  <2>4. Requests!Fresh = <<sent + 1>>
    BY <1>1 DEF Requests!Fresh
  <2>5. sent' > sent
    BY <1>1
  <2> QED
    BY <1>1, <2>1, <2>2, <2>3, <2>4, <2>5, Zenon DEF Requests!Put, Unread
<1> QED
  BY <1>2, <1>3

\* A request that is parsed is delivered.
LEMMA RequestParsed ==
  ASSUME TypeOK, Writing, Endings, Answer
  PROVE  Requests!Deliver
<1> DEFINE n == RequestLength
<1>1. /\ n \in Nat \ {0} /\ n <= Len(in_buffer_) /\ Len(in_buffer_) \in Nat
      /\ in_buffer_ \in Seq(Nat) /\ rx \in Seq(Nat)
  BY Lengths, StreamTypes DEF Answer
<1>2. /\ in_buffer_' = SubSeq(in_buffer_, n + 1, Len(in_buffer_))
      /\ parsed' = parsed \o SubSeq(in_buffer_, 1, n)
      /\ rx' = rx /\ error_' = error_ /\ rst' = rst /\ sent' = sent
      /\ connection_state_' = connection_state_
      /\ pc = "parse" /\ pc' = "tail"
  BY DEF Answer, peerVars
<1>3. Unread = in_buffer_ \o rx /\ Unread' = in_buffer_' \o rx
  BY <1>2 DEF Endings, Unread
<1> HIDE DEF n
<1>4. /\ parsed' = parsed \o SubSeq(Unread, 1, n)
      /\ Unread' = SubSeq(Unread, n + 1, Len(Unread))
  <2>1. LET s == in_buffer_ \o rx
        IN  /\ SubSeq(s, 1, n) = SubSeq(in_buffer_, 1, n)
            /\ SubSeq(s, n + 1, Len(s)) = SubSeq(in_buffer_, n + 1, Len(in_buffer_)) \o rx
    BY <1>1, PiecesOfConcat
  <2> QED
    BY <1>2, <1>3, <2>1, Zenon
<1>5. n \in 1..Len(Unread)
  BY <1>1, <1>3, ConcatProperties, LenProperties
<1>6. (Lost \/ connection_state_ = "H_DISCONNECTING")'
        = (Lost \/ connection_state_ = "H_DISCONNECTING")
  BY <1>2 DEF Lost
<1> QED
  BY <1>2, <1>4, <1>5, <1>6, Zenon DEF Requests!Deliver, Unread

\* ReadN returns: the stream goes on, or it is at its end.
LEMMA RequestsRead ==
  ASSUME TypeOK, Writing, Endings, ReadReturns
  PROVE  Requests!Break \/ UNCHANGED Requests!vars
<1>1. /\ pc = "read" /\ pc' # "closed" /\ rx = <<>> /\ rx' = rx /\ ~error_
      /\ sent' = sent /\ parsed' = parsed /\ rst' = rst
      /\ sent \in Nat /\ in_buffer_ \in Seq(Nat)
  BY DEF ReadReturns, Endings, TypeOK, peerVars, histVars
<1>2. CASE connection_state_ = "H_DISCONNECTING" \/ rst \/ eof
  <2>1. Lost' \/ connection_state_' = "H_DISCONNECTING"
    BY <1>1, <1>2 DEF ReadReturns, Lost
  <2>2. Unread' \in {Unread, <<>>}
    <3>1. in_buffer_' \in {in_buffer_, <<>>}
      BY DEF ReadReturns
    <3>2. <<>> \o <<>> = <<>> /\ Unread = in_buffer_ \o rx
      BY <1>1 DEF Unread
    <3>3. Unread' \in {<<>>, in_buffer_' \o rx}
      BY <1>1 DEF Unread
    <3> QED
      BY <1>1, <3>1, <3>2, <3>3
  <2>3. sent' >= sent
    BY <1>1
  <2> QED
    BY <1>1, <2>1, <2>2, <2>3, RequestsBreak
<1>3. CASE ~(connection_state_ = "H_DISCONNECTING" \/ rst \/ eof)
  <2>1. /\ error_' = error_ /\ in_buffer_' = in_buffer_
        /\ connection_state_' = connection_state_
    BY <1>1, <1>3 DEF ReadReturns, TypeOK
  <2> QED
    BY <1>1, <2>1, RequestsStay DEF Unread, Lost
<1> QED
  BY <1>2, <1>3

\* Every step of Transfer is one of the stream of requests, or none of it.
LEMMA RequestsStep ==
  ASSUME TypeOK, Writing, Endings, [Next]_vars
  PROVE  [Requests!Next]_(Requests!vars)
<1> USE DEF loopVars, bufferVars, stateVars, peerVars, histVars
<1>0. sent \in Nat /\ sent >= sent
  BY DEF TypeOK
<1>1. CASE UNCHANGED vars \/ PeerCloses \/ PeerReads
  <2>1. /\ sent' = sent /\ parsed' = parsed /\ in_buffer_' = in_buffer_ /\ rx' = rx
        /\ error_' = error_ /\ rst' = rst /\ pc' = pc
        /\ connection_state_' = connection_state_
    BY <1>1 DEF vars, PeerCloses, PeerReads
  <2> QED
    BY <2>1, RequestsStay DEF Unread, Lost
<1>2. CASE \/ Poll \/ ParseAgain \/ WritePage \/ GiveUpPart \/ PageDone
           \/ WriteSome \/ WriteReturns
           \/ FlushAnswer \/ ResetOrWait \/ WatchOn \/ LeaveHalfClosed
  <2>1. /\ sent' = sent /\ parsed' = parsed /\ in_buffer_' = in_buffer_ /\ rx' = rx
        /\ error_' = error_ /\ rst' = rst /\ pc # "closed" /\ pc' # "closed"
        /\ connection_state_' = connection_state_
    BY <1>2
    DEF Poll, ParseAgain, WritePage, GiveUpPart, PageDone, WriteSome, WriteReturns,
        FlushAnswer, ResetOrWait, AfterRead, WatchOn, LeaveHalfClosed
  <2> QED
    BY <2>1, RequestsStay DEF Unread, Lost
<1>3. CASE ReadSome
  <2>1. PICK n \in 1..Min({kMaxBuff, Len(rx)}) :
          /\ in_buffer_' = in_buffer_ \o SubSeq(rx, 1, n)
          /\ rx' = SubSeq(rx, n + 1, Len(rx))
    BY <1>3 DEF ReadSome
  <2>2. /\ sent' = sent /\ parsed' = parsed /\ error_' = error_ /\ rst' = rst
        /\ pc' = pc /\ connection_state_' = connection_state_
    BY <1>3 DEF ReadSome
  <2>3. /\ in_buffer_ \in Seq(Nat)
        /\ SubSeq(rx, 1, n) \in Seq(Nat) /\ SubSeq(rx, n + 1, Len(rx)) \in Seq(Nat)
        /\ SubSeq(rx, 1, n) \o SubSeq(rx, n + 1, Len(rx)) = rx
    BY Taken DEF TypeOK
  <2>4. in_buffer_' \o rx' = in_buffer_ \o rx
    <3> DEFINE a == SubSeq(rx, 1, n)
               b == SubSeq(rx, n + 1, Len(rx))
    <3> HIDE DEF a, b
    <3>1. (in_buffer_ \o a) \o b = in_buffer_ \o (a \o b)
      BY <2>3, Associative DEF a, b
    <3> QED
      BY <2>1, <2>3, <3>1, Zenon DEF a, b
  <2>5. Unread' = Unread
    BY <2>2, <2>4, Zenon DEF Unread
  <2> QED
    BY <2>2, <2>5, RequestsStay DEF Lost
<1>4. CASE PeerSends
  BY <1>4, RequestSent DEF Requests!Next
<1>5. CASE PeerResets
  <2>1. Lost' /\ sent' = sent /\ parsed' = parsed
    BY <1>5 DEF PeerResets, Lost
  <2>2. in_buffer_ \in Seq(Nat) /\ in_buffer_' = in_buffer_ /\ rx' = <<>>
    BY <1>5 DEF PeerResets, TypeOK
  <2>3. in_buffer_' \o rx' = in_buffer_
    BY <2>2, ConcatEmptySeq
  <2>4. Unread' = <<>> \/ (Unread' = in_buffer_ /\ Unread = in_buffer_ \o rx)
    BY <1>5, <2>3 DEF PeerResets, Unread
  <2> QED
    BY <1>0, <2>1, <2>4, RequestsBreak DEF Requests!Next
<1>6. CASE ReadReturns
  BY <1>6, RequestsRead DEF Requests!Next
<1>7. CASE Answer
  BY <1>7, RequestParsed DEF Requests!Next
<1>8. CASE Refuse \/ WriteFails \/ HandleClose \/ TimedOut
  <2>1. Lost' /\ Unread' = <<>> /\ sent' = sent /\ parsed' = parsed
    BY <1>8 DEF Refuse, WriteFails, HandleClose, TimedOut, Close, Lost, Unread
  <2> QED
    BY <1>0, <2>1, RequestsBreak DEF Requests!Next
<1> QED
  BY <1>1, <1>2, <1>3, <1>4, <1>5, <1>6, <1>7, <1>8 DEF Next, LoopStep, Peer

-----------------------------------------------------------------------------
\* The stream of answers.

\* Byte by byte, what the kernel has reaches the peer.
LEMMA AnswerRead ==
  ASSUME TypeOK, Writing, PeerReads
  PROVE  Answers!Deliver
<1> DEFINE rest == IF Lost THEN <<>> ELSE Pending
<1>1. /\ tx \in Seq(Nat) /\ tx # <<>> /\ received \in Seq(Nat)
      /\ tx' = Tail(tx) /\ received' = Append(received, Head(tx))
      /\ Pending \in Seq(Nat) /\ <<>> \in Seq(Nat)
  BY StreamTypes, EmptySeq DEF PeerReads
<1>2. /\ error_' = error_ /\ rst' = rst /\ pc' = pc /\ produced' = produced
      /\ overwritten' = overwritten /\ out_buffer_' = out_buffer_
      /\ write_sum' = write_sum
  BY DEF PeerReads, stateVars, loopVars, bufferVars, callVars, histVars
<1>3. rest \in Seq(Nat) /\ rest' = rest /\ UNCHANGED Lost
  BY <1>1, <1>2 DEF Lost, Pending
<1>4. Unsent = tx \o rest /\ Unsent' = tx' \o rest'
  <2>1. tx \o <<>> = tx /\ Tail(tx) \o <<>> = Tail(tx)
    BY <1>1, ConcatEmptySeq, HeadTailProperties
  <2>2. /\ Lost' <=> Lost
        /\ Pending' = Pending
    BY <1>2 DEF Lost, Pending
  <2>3. CASE Lost
    BY <1>1, <2>1, <2>2, <2>3, Zenon DEF Unsent
  <2>4. CASE ~Lost
    BY <2>2, <2>4, Zenon DEF Unsent
  <2> QED
    BY <2>3, <2>4
<1>5. rest' = rest
  BY <1>3
<1> HIDE DEF rest
<1>6. Len(tx) \in Nat \ {0} /\ 1 <= Len(tx)
  BY <1>1, LenProperties, EmptySeq
<1>7. /\ SubSeq(Unsent, 1, 1) = SubSeq(tx, 1, 1)
      /\ SubSeq(Unsent, 1 + 1, Len(Unsent)) = SubSeq(tx, 1 + 1, Len(tx)) \o rest
  BY <1>1, <1>3, <1>4, <1>6, PiecesOfConcat
<1>8. SubSeq(tx, 1, 1) = <<Head(tx)>> /\ SubSeq(tx, 1 + 1, Len(tx)) = Tail(tx)
  <2>1. 1 \in 1..Len(tx) /\ 1 \in 1..1 /\ Head(tx) = tx[1] /\ tx[1] \in Nat
    BY <1>1, <1>6
  <2>2. /\ SubSeq(tx, 1, 1) \in Seq(Nat) /\ Len(SubSeq(tx, 1, 1)) = 1
        /\ SubSeq(tx, 1, 1)[1] = tx[1]
    BY <1>1, <1>6, <2>1
  <2>3. SubSeq(tx, 1, 1) = <<Head(tx)>>
    <3>1. /\ <<Head(tx)>> \in Seq(Nat) /\ Len(<<Head(tx)>>) = 1
          /\ <<Head(tx)>>[1] = tx[1]
      BY <2>1
    <3>2. \A i \in 1..Len(SubSeq(tx, 1, 1)) : SubSeq(tx, 1, 1)[i] = <<Head(tx)>>[i]
      BY <2>2, <3>1
    <3> QED
      BY <2>2, <3>1, <3>2, SeqEqual
  <2>4. SubSeq(tx, 1 + 1, Len(tx)) = Tail(tx)
    BY <1>1, TailIsSubSeq
  <2> QED
    BY <2>3, <2>4
<1>9. received' = received \o <<Head(tx)>>
  BY <1>1, HeadTailProperties, AppendIsConcat
<1>10. /\ received' = received \o SubSeq(Unsent, 1, 1)
       /\ Unsent' = SubSeq(Unsent, 1 + 1, Len(Unsent))
  BY <1>1, <1>4, <1>5, <1>7, <1>8, <1>9
<1>11. 1 \in 1..Len(Unsent)
  BY <1>1, <1>3, <1>4, <1>6, ConcatProperties, LenProperties
<1> QED
  BY <1>2, <1>3, <1>10, <1>11, Zenon DEF Answers!Deliver, Unsent, Pending

\* An answer is put into the stream; the one to /hello in the place of what was
\* pending, if anything was; and behind a reset all is lost.
LEMMA AnswerPut ==
  ASSUME TypeOK, Writing, Endings, Answer
  PROVE  Answers!Put \/ Answers!Overwrite \/ Answers!Break
<1>1. /\ pc = "parse" /\ pc' = "tail" /\ error_' = error_ /\ rst' = rst /\ tx' = tx
      /\ write_sum' = write_sum /\ received' = received
      /\ write_sum = 0 /\ ~error_ /\ UNCHANGED Lost
      /\ overwritten \in BOOLEAN /\ produced \in Nat
      /\ tx \in Seq(Nat) /\ out_buffer_ \in Seq(Nat) /\ Len(tx) \in Nat
      /\ NewBytes(ResponseLength) \in Seq(Nat) /\ NewBytes(EchoLength) \in Seq(Nat)
      /\ Len(NewBytes(ResponseLength)) = ResponseLength
      /\ Len(NewBytes(EchoLength)) = EchoLength
  BY Lengths, Bytes, LenProperties
  DEF Answer, callVars, peerVars, Writing, Endings, TypeOK, Lost
<1>2. PICK k \in {ResponseLength, EchoLength} :
        /\ produced' = produced + k
        /\ \/ /\ out_buffer_' = out_buffer_ \o NewBytes(k)
              /\ overwritten' = overwritten
           \/ /\ out_buffer_' = NewBytes(k)
              /\ overwritten' = (overwritten \/ out_buffer_ # <<>>)
  BY DEF Answer
<1>3. /\ k \in Nat \ {0} /\ produced' \in Nat /\ produced' > produced
      /\ produced' - produced = k
      /\ NewBytes(k) \in Seq(Nat)
  BY <1>1, <1>2, Lengths
<1>4. Answers!Fresh = NewBytes(k)
  BY <1>3 DEF Answers!Fresh, NewBytes
<1>5. /\ Pending = out_buffer_ /\ out_buffer_' \in Seq(Nat)
      /\ Pending' = out_buffer_'
  <2>1. out_buffer_' \in Seq(Nat)
    BY <1>1, <1>2, <1>3, ConcatProperties
  <2>2. /\ SubSeq(out_buffer_, 0 + 1, Len(out_buffer_)) = out_buffer_
        /\ SubSeq(out_buffer_', 0 + 1, Len(out_buffer_')) = out_buffer_'
    BY <1>1, <2>1, SubSeqFull
  <2> QED
    BY <1>1, <2>1, <2>2 DEF Pending
<1>6. CASE Lost
  <2>1. Lost' /\ Unsent' = Unsent
    BY <1>1, <1>6 DEF Unsent
  <2>2. overwritten' \in {overwritten, TRUE}
    BY <1>1, <1>2
  <2>3. produced' >= produced
    BY <1>1, <1>3
  <2> QED
    BY <1>1, <1>3, <2>1, <2>2, <2>3, AnswersBreak
<1>7. CASE ~Lost
  <2>1. Unsent = tx \o out_buffer_ /\ Unsent' = tx \o out_buffer_'
    BY <1>1, <1>5, <1>7 DEF Unsent
  <2>2. CASE out_buffer_' = out_buffer_ \o NewBytes(k) /\ overwritten' = overwritten
    <3>1. tx \o (out_buffer_ \o NewBytes(k)) = (tx \o out_buffer_) \o NewBytes(k)
      BY <1>1, <1>3, Associative
    <3>2. Unsent' = Unsent \o Answers!Fresh
      BY <1>4, <2>1, <2>2, <3>1, Zenon
    <3> QED
      BY <1>1, <1>3, <1>7, <2>2, <3>2, Zenon DEF Answers!Put, Unsent, Pending
  <2>3. CASE /\ out_buffer_' = NewBytes(k)
             /\ overwritten' = (overwritten \/ out_buffer_ # <<>>)
    <3>1. CASE out_buffer_ = <<>>
      <4>1. Unsent = tx
        BY <1>1, <2>1, <3>1, ConcatEmptySeq
      <4>2. Unsent' = Unsent \o Answers!Fresh
        BY <1>4, <2>1, <2>3, <4>1, Zenon
      <4>3. overwritten' = overwritten
        BY <1>1, <2>3, <3>1
      <4> QED
        BY <1>1, <1>3, <1>7, <4>2, <4>3, Zenon DEF Answers!Put, Unsent, Pending
    <3>2. CASE out_buffer_ # <<>>
      <4>1. SubSeq(Unsent, 1, Len(tx)) = tx
        <5>1. SubSeq(Unsent, 1, Len(tx)) = SubSeq(tx, 1, Len(tx))
          BY <1>1, <2>1, PiecesOfConcat
        <5> QED
          BY <1>1, <5>1, SubSeqFull
      <4>2. Unsent' = SubSeq(Unsent, 1, Len(tx)) \o Answers!Fresh
        BY <1>4, <2>1, <2>3, <4>1, Zenon
      <4>3. Len(tx) \in 0..Len(Unsent)
        BY <1>1, <2>1, ConcatProperties, LenProperties
      <4>4. overwritten' = TRUE
        BY <1>1, <2>3, <3>2
      <4> QED
        BY <1>1, <1>3, <1>7, <4>2, <4>3, <4>4, Zenon
        DEF Answers!Overwrite, Unsent, Pending
    <3> QED
      BY <3>1, <3>2
  <2> QED
    BY <1>2, <2>2, <2>3
<1> QED
  BY <1>6, <1>7

\* WriteN takes the bytes it has handed to the kernel from what is pending, and
\* trims them from out_buffer_ when it returns.
LEMMA AnswersWritten ==
  ASSUME TypeOK, Writing, Endings, WriteSome \/ WriteReturns
  PROVE  UNCHANGED Answers!vars
<1>1. /\ error_' = error_ /\ rst' = rst /\ received' = received
      /\ produced' = produced /\ overwritten' = overwritten
      /\ pc # "closed" /\ pc' # "closed" /\ ~error_ /\ (Lost' <=> Lost)
  BY DEF WriteSome, WriteReturns, stateVars, peerVars, histVars, loopVars, Endings, Lost
<1>2. CASE WriteSome
  <2>1. PICK n \in 1..Min({Len(out_buffer_) - write_sum, Room}) :
          /\ tx' = tx \o SubSeq(out_buffer_, write_sum + 1, write_sum + n)
          /\ write_sum' = write_sum + n
    BY <1>2 DEF WriteSome
  <2> DEFINE a == SubSeq(out_buffer_, write_sum + 1, write_sum + n)
             b == SubSeq(out_buffer_, write_sum + n + 1, Len(out_buffer_))
  <2>2. /\ n \in Nat \ {0} /\ write_sum + n <= Len(out_buffer_) /\ a \in Seq(Nat)
    BY Handed
  <2>3. /\ tx \in Seq(Nat) /\ out_buffer_ \in Seq(Nat) /\ write_sum \in Nat
        /\ Len(out_buffer_) \in Nat /\ Pending \in Seq(Nat)
    BY StreamTypes
  <2>4. b \in Seq(Nat)
    <3>1. write_sum + n \in Nat
      BY <2>2, <2>3
    <3> QED
      BY <2>2, <2>3, <3>1, Pieces
  <2>5. a \o b = Pending
    <3>1. /\ write_sum + 1 \in 1..Len(out_buffer_) + 1
          /\ write_sum + n \in (write_sum + 1) - 1..Len(out_buffer_)
          /\ Len(out_buffer_) \in (write_sum + n)..Len(out_buffer_)
      BY <2>2, <2>3
    <3> QED
      BY <2>3, <3>1, ConcatAdjacentSubSeq, Zenon DEF Pending
  <2>6. Pending' = b /\ ~Lost
    BY <1>1, <1>2, <2>1 DEF Pending, Lost, WriteSome, bufferVars
  <2>7. (tx \o a) \o b = tx \o Pending
    <3> HIDE DEF a, b
    <3>1. tx \in Seq(Nat) /\ a \in Seq(Nat) /\ b \in Seq(Nat)
      BY <2>2, <2>3, <2>4
    <3>2. (tx \o a) \o b = tx \o (a \o b)
      BY <3>1, Associative
    <3> QED
      BY <2>5, <3>2, Zenon
  <2>8. Unsent' = Unsent
    BY <1>1, <2>1, <2>6, <2>7, Zenon DEF Unsent
  <2> QED
    BY <1>1, <2>8, AnswersStay
<1>3. CASE WriteReturns
  <2>1. out_buffer_' = Pending /\ write_sum' = 0 /\ tx' = tx
    BY <1>3 DEF WriteReturns, Pending
  <2>2. Pending \in Seq(Nat)
    BY StreamTypes
  <2>3. SubSeq(Pending, 0 + 1, Len(Pending)) = Pending
    BY <2>2, SubSeqFull
  <2>4. Pending' = SubSeq(out_buffer_', write_sum' + 1, Len(out_buffer_'))
    BY DEF Pending
  <2>5. Pending' = Pending
    BY <2>1, <2>3, <2>4, Zenon
  <2>6. Unsent' = Unsent
    BY <1>1, <2>1, <2>5, Zenon DEF Unsent
  <2> QED
    BY <1>1, <2>6, AnswersStay
<1> QED
  BY <1>2, <1>3

\* Every step of Transfer is one of the stream of answers, or none of it.
LEMMA AnswersStep ==
  ASSUME TypeOK, Writing, Endings, [Next]_vars
  PROVE  [Answers!Next]_(Answers!vars)
<1> USE DEF loopVars, bufferVars, stateVars, callVars, peerVars, histVars
<1>0. /\ produced \in Nat /\ produced >= produced
      /\ overwritten \in {overwritten, TRUE}
  BY DEF TypeOK
<1>1. CASE \/ UNCHANGED vars \/ PeerSends \/ PeerCloses
  <2>1. /\ tx' = tx /\ out_buffer_' = out_buffer_ /\ write_sum' = write_sum
        /\ error_' = error_ /\ rst' = rst /\ pc' = pc
        /\ produced' = produced /\ received' = received /\ overwritten' = overwritten
    BY <1>1 DEF vars, PeerSends, PeerCloses
  <2> QED
    BY <2>1, AnswersStay DEF Unsent, Pending, Lost
<1>2. CASE \/ Poll \/ ReadSome \/ ReadReturns \/ ParseAgain \/ GiveUpPart \/ PageDone
           \/ FlushAnswer \/ ResetOrWait \/ WatchOn \/ LeaveHalfClosed
  <2>1. /\ tx' = tx /\ out_buffer_' = out_buffer_ /\ write_sum' = write_sum
        /\ rst' = rst /\ (error_' # error_ => rst) /\ pc # "closed" /\ pc' # "closed"
        /\ produced' = produced /\ received' = received /\ overwritten' = overwritten
    BY <1>2
    DEF Poll, ReadSome, ReadReturns, ParseAgain, GiveUpPart, PageDone, FlushAnswer,
        ResetOrWait, AfterRead, WatchOn, LeaveHalfClosed
  <2>2. Lost' <=> Lost
    BY <2>1 DEF Lost
  <2> QED
    BY <2>1, <2>2, AnswersStay DEF Unsent, Pending
<1>3. CASE PeerReads
  BY <1>3, AnswerRead DEF Answers!Next
<1>4. CASE PeerResets
  <2>1. /\ Lost' /\ Unsent' = <<>> /\ produced' = produced /\ received' = received
        /\ overwritten' = overwritten
    BY <1>4 DEF PeerResets, Lost, Unsent
  <2> QED
    BY <1>0, <2>1, AnswersBreak DEF Answers!Next
<1>5. CASE Answer
  BY <1>5, AnswerPut DEF Answers!Next
<1>6. CASE Refuse
  <2>1. /\ Lost' /\ Unsent' = tx /\ produced' = produced /\ received' = received
        /\ overwritten' = overwritten
    BY <1>6 DEF Refuse, Lost, Unsent
  <2> QED
    BY <1>0, <2>1, AnswersBreak DEF Answers!Next
<1>7. CASE WritePage
  <2>1. PICK n \in 1..Min({Head(page), Room}) : tx' = tx \o [i \in 1..n |-> 0]
    BY <1>7 DEF WritePage
  <2>2. /\ Lost /\ UNCHANGED Lost /\ produced' = produced /\ received' = received
        /\ overwritten' = overwritten /\ Unsent = tx /\ Unsent' = tx'
    BY <1>7 DEF WritePage, Endings, Lost, Unsent
  <2>3. tx \in Seq(Nat) /\ Len(tx) \in Nat
    BY StreamTypes
  <2>4. n \in Nat /\ [i \in 1..n |-> 0] \in Seq(Nat) /\ Len([i \in 1..n |-> 0]) = n
    BY <1>7, HandedPage, Bytes DEF WritePage, TypeOK
  <2> DEFINE zeros == [i \in 1..n |-> 0]
  <2>5. \A i \in 1..n : zeros[i] = 0
    OBVIOUS
  <2> HIDE DEF zeros
  <2>6. IsPrefix(tx, tx \o zeros)
    BY <2>3, <2>4, PrefixOfConcat DEF zeros
  <2>7. Answers!IsPrefix(tx, tx \o zeros)
    BY <2>6 DEF IsPrefix, Answers!IsPrefix
  <2>8. \A i \in (Len(tx) + 1)..Len(tx \o zeros) : (tx \o zeros)[i] = 0
    <3>1. /\ Len(tx \o zeros) = Len(tx) + n
          /\ \A i \in 1..Len(tx) + n :
               (tx \o zeros)[i] = IF i <= Len(tx) THEN tx[i] ELSE zeros[i - Len(tx)]
      BY <2>3, <2>4, ConcatProperties DEF zeros
    <3> QED
      BY <2>3, <2>4, <2>5, <3>1
  <2>9. Unsent' = tx \o zeros
    BY <2>1, <2>2 DEF zeros
  <2> QED
    BY <2>2, <2>7, <2>8, <2>9, Zenon DEF Answers!Next, Answers!Notice, Unsent, Pending
<1>8. CASE WriteSome \/ WriteReturns
  BY <1>8, AnswersWritten
<1>9. CASE WriteFails
  <2>1. /\ Lost /\ Lost' /\ tx' = tx /\ produced' = produced /\ received' = received
        /\ overwritten' = overwritten
    BY <1>9 DEF WriteFails, Lost
  <2> QED
    BY <2>1, AnswersStay DEF Unsent
<1>10. CASE HandleClose \/ TimedOut
  <2>1. /\ Lost' /\ Unsent' \in {tx, <<>>} /\ produced' = produced
        /\ received' = received /\ overwritten' = overwritten
    BY <1>10 DEF HandleClose, TimedOut, Close, Lost, Unsent
  <2> QED
    BY <1>0, <2>1, AnswersBreak DEF Answers!Next
<1> QED
  BY <1>1, <1>2, <1>3, <1>4, <1>5, <1>6, <1>7, <1>8, <1>9, <1>10
  DEF Next, LoopStep, Peer

-----------------------------------------------------------------------------
LEMMA StreamsBegin ==
  ASSUME Init
  PROVE  Requests!Init /\ Answers!Init
<1> USE DEF Init
<1>1. Unread = <<>> /\ ~(Lost \/ connection_state_ = "H_DISCONNECTING")
  BY EmptySeq, ConcatEmptySeq DEF Unread, Lost
<1>2. Unsent = <<>> /\ ~Lost
  <2>1. Pending = <<>>
    BY SubSeqEmpty, EmptySeq DEF Pending
  <2> QED
    BY <2>1, EmptySeq, ConcatEmptySeq DEF Unsent, Lost
<1>3. Requests!Init
  BY <1>1, Zenon DEF Requests!Init, Unread
<1>4. Answers!Init
  <2>1. Lost = FALSE
    BY DEF Lost
  <2> QED
    BY <1>2, <2>1, Zenon DEF Answers!Init, Unsent, Pending
<1> QED
  BY <1>3, <1>4

\* However read() and write() cut the two streams of a connection, and wherever
\* an error, a reset or a close falls: the parser and the peer get the bytes in
\* order, each once, none skipped but by the answer to /hello, and nothing but an
\* error page follows a break.
THEOREM StreamsAreImplemented == Spec => ImplementsStreams
<1>1. ASSUME IInv, [Next]_vars
      PROVE  [Requests!Next]_(Requests!vars) /\ [Answers!Next]_(Answers!vars)
  BY <1>1, RequestsStep, AnswersStep DEF IInv
<1> QED
  BY <1>1, StreamsBegin, Invariance, PTL
  DEF Spec, ImplementsStreams, Requests!Spec, Answers!Spec

=============================================================================
