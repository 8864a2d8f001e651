------------------------------ MODULE Transfer ------------------------------
(***************************************************************************)
(* The bytes of one connection: the loops of ReadN and WriteN over short   *)
(* reads and writes, the buffers they fill and trim, the error page that   *)
(* HandleError writes past out_buffer_, and the edge-triggered epoll that  *)
(* decides when HandleRead and HandleWrite run again.                      *)
(*                                                                         *)
(* SubReactor takes a ReadN or a WriteN for one step with one of a few     *)
(* outcomes; here every read() and write() is a step of its own and the    *)
(* peer moves between any two.  A request is RequestLength bytes, and what *)
(* it says is HttpParser's concern: it is answered or refused.  Bytes are  *)
(* numbered as they are sent, those of an error page are 0.  A call that   *)
(* returns EINTR is repeated with nothing changed: a stuttering step.      *)
(***************************************************************************)
EXTENDS Naturals, Sequences, SequencesExt, FiniteSetsExt

CONSTANTS
  MaxRequests,        \* bound: requests the peer sends
  RequestLength,
  ResponseLength,     \* header and file
  EchoLength,         \* the answer to /hello
  PageParts,          \* lengths of the two parts of an error page
  kMaxBuff,           \* bytes a read() asks for (4096)
  SendRoom            \* bytes the kernel's send buffer holds

ASSUME LengthAssumption ==
  {MaxRequests, RequestLength, ResponseLength, EchoLength, kMaxBuff, SendRoom}
    \subseteq Nat \ {0}
ASSUME PageAssumption == PageParts \in Seq(Nat \ {0})

VARIABLES
  pc,                 \* the call the loop's thread is in; "wait" is epoll_wait
  caller,             \* who called HandleWrite: "read" or "events"
  revents, events,    \* what Poll reported; what the handlers ask for
  in_buffer_, out_buffer_,
  error_, connection_state_,
  finished,           \* state_ is STATE_FINISH
  some,               \* ReadN: read_sum > 0
  write_sum,          \* WriteN
  page,               \* HandleError: what is left of its parts
  rx, tx,             \* the kernel's buffers
  eof, rst,           \* the peer has closed its end; has reset
  interest, edge,     \* epoll: the events watched; on the ready list
  nospace,            \* a write or a poll found tx full, nobody was told since
  sent, parsed,       \* history: bytes the peer sent; bytes parsed
  produced, received, \* history: bytes put into out_buffer_; bytes at the peer
  overwritten         \* history: /hello replaced output that was pending

loopVars == <<pc, caller, revents, events>>
bufferVars == <<in_buffer_, out_buffer_>>
stateVars == <<error_, connection_state_, finished>>
callVars == <<some, write_sum, page>>
peerVars == <<eof, rst, sent, received>>
epollVars == <<interest, edge, nospace>>
histVars == <<parsed, produced, overwritten>>
vars == <<loopVars, bufferVars, stateVars, callVars, rx, tx, peerVars, epollVars,
          histVars>>

Init ==
  /\ pc = "wait" /\ caller = "events" /\ revents = {} /\ events = {}
  /\ in_buffer_ = <<>> /\ out_buffer_ = <<>>
  /\ error_ = FALSE /\ connection_state_ = "H_CONNECTED" /\ finished = FALSE
  /\ some = FALSE /\ write_sum = 0 /\ page = <<>>
  /\ rx = <<>> /\ tx = <<>> /\ eof = FALSE /\ rst = FALSE
  /\ interest = {"IN"} /\ edge = FALSE /\ nospace = FALSE
  /\ sent = 0 /\ parsed = <<>> /\ produced = 0 /\ received = <<>>
  /\ overwritten = FALSE

-----------------------------------------------------------------------------
\* The kernel and the peer (external).

Room == SendRoom - Len(tx)
Ready == (IF rx # <<>> \/ eof \/ rst THEN {"IN"} ELSE {})
           \union (IF Room > 0 \/ rst THEN {"OUT"} ELSE {})
           \union (IF rst THEN {"HUP"} ELSE {})
Reportable(watch) == Ready \intersect (watch \union {"HUP"})

\* Polling a socket that is full asks the kernel for a report of room.
Polled(watch) == nospace' = (nospace \/ ("OUT" \in watch /\ Room = 0))

Raise(bit) == edge' = (edge \/ bit \in interest)

PeerSends ==
  /\ pc # "closed" /\ ~eof /\ ~rst
  /\ sent < MaxRequests * RequestLength
  /\ sent' = sent + 1
  /\ rx' = Append(rx, sent + 1)
  /\ Raise("IN")
  /\ UNCHANGED <<loopVars, bufferVars, stateVars, callVars, tx, eof, rst, received,
                 interest, nospace, histVars>>

PeerCloses ==
  /\ pc # "closed" /\ ~eof /\ ~rst
  /\ eof' = TRUE
  /\ Raise("IN")
  /\ UNCHANGED <<loopVars, bufferVars, stateVars, callVars, rx, tx, rst, sent,
                 received, interest, nospace, histVars>>

\* A reset empties both buffers and is reported whatever is watched.
PeerResets ==
  /\ pc # "closed" /\ ~rst
  /\ rst' = TRUE /\ edge' = TRUE
  /\ rx' = <<>> /\ tx' = <<>>
  /\ UNCHANGED <<loopVars, bufferVars, stateVars, callVars, eof, sent, received,
                 interest, nospace, histVars>>

\* Room is reported only to who has found none.
PeerReads ==
  /\ tx # <<>>
  /\ received' = Append(received, Head(tx))
  /\ tx' = Tail(tx)
  /\ edge' = (edge \/ (nospace /\ "OUT" \in interest))
  /\ nospace' = FALSE
  /\ UNCHANGED <<loopVars, bufferVars, stateVars, callVars, rx, eof, rst, sent,
                 interest, histVars>>

-----------------------------------------------------------------------------
\* epoll_wait and the dispatch of HandleEvents; a hang-up without EPOLLIN
\* ends it at once.
Poll ==
  LET now == Reportable(interest)
      hungUp == "HUP" \in now /\ "IN" \notin now
  IN  /\ pc = "wait" /\ edge
      /\ edge' = FALSE
      /\ Polled(interest)
      /\ events' = {}
      /\ revents' = now \ {"HUP"}
      /\ some' = FALSE
      /\ caller' = "events"
      /\ pc' = IF hungUp \/ now = {} THEN "wait"
               ELSE IF "IN" \in now THEN "read" ELSE "write"
      /\ UNCHANGED <<bufferVars, stateVars, write_sum, page, rx, tx, peerVars,
                     interest, histVars>>

\* Behind HandleRead: HandleWrite, which does nothing on an error, or
\* HandleConn.
AfterRead ==
  /\ caller' = "events"
  /\ pc' = IF "OUT" \in revents /\ ~error_ THEN "write" ELSE "conn"

-----------------------------------------------------------------------------
\* ReadN(fd, in_buffer, zero).

\* Mutant: one read() and no loop.
ReadSomeOnce ==
  /\ pc = "read" /\ ~rst /\ rx # <<>>
  /\ \E n \in 1..Min({kMaxBuff, Len(rx)}) :
       /\ in_buffer_' = in_buffer_ \o SubSeq(rx, 1, n)
       /\ rx' = SubSeq(rx, n + 1, Len(rx))
  /\ pc' = "parse"
  /\ UNCHANGED <<caller, revents, events, out_buffer_, stateVars, callVars, tx,
                 peerVars, epollVars, histVars>>

ReadSome ==
  /\ pc = "read" /\ ~rst /\ rx # <<>>
  /\ \E n \in 1..Min({kMaxBuff, Len(rx)}) :
       /\ in_buffer_' = in_buffer_ \o SubSeq(rx, 1, n)
       /\ rx' = SubSeq(rx, n + 1, Len(rx))
  /\ some' = TRUE
  /\ UNCHANGED <<loopVars, out_buffer_, stateVars, write_sum, page, tx, peerVars,
                 epollVars, histVars>>

\* ReadN returns to HandleRead at EAGAIN, at the end of the stream or with an
\* error.  A connection that was half closed before throws its input away.
ReadReturns ==
  /\ pc = "read" /\ (rst \/ rx = <<>>)
  /\ \/ /\ connection_state_ = "H_DISCONNECTING"
        /\ in_buffer_' = <<>> /\ pc' = "tail"
        /\ UNCHANGED <<error_, connection_state_, page>>
     \/ /\ connection_state_ = "H_CONNECTED" /\ rst
        /\ error_' = TRUE /\ page' = PageParts /\ pc' = "page"
        /\ UNCHANGED <<in_buffer_, connection_state_>>
     \/ /\ connection_state_ = "H_CONNECTED" /\ ~rst
        /\ connection_state_' = IF eof THEN "H_DISCONNECTING" ELSE "H_CONNECTED"
        /\ pc' = IF eof /\ ~some THEN "tail" ELSE "parse"
        /\ UNCHANGED <<in_buffer_, error_, page>>
  /\ UNCHANGED <<caller, revents, events, out_buffer_, finished, some, write_sum,
                 rx, tx, peerVars, epollVars, histVars>>

-----------------------------------------------------------------------------
\* The state machine of HandleRead, once per call.

\* A request is not complete.
ParseAgain ==
  /\ pc = "parse"
  /\ Len(in_buffer_) < RequestLength
  /\ pc' = "tail"
  /\ UNCHANGED <<caller, revents, events, bufferVars, stateVars, callVars, rx, tx,
                 peerVars, epollVars, histVars>>

\* The next n bytes of output.
NewBytes(n) == [i \in 1..n |-> produced + i]

\* AnalysisRequest appends the answer, but assigns the one to /hello: what
\* an earlier request has left unsent is gone.
Answer ==
  /\ pc = "parse"
  /\ Len(in_buffer_) >= RequestLength
  /\ in_buffer_' = SubSeq(in_buffer_, RequestLength + 1, Len(in_buffer_))
  /\ parsed' = parsed \o SubSeq(in_buffer_, 1, RequestLength)
  /\ \/ /\ out_buffer_' = out_buffer_ \o NewBytes(ResponseLength)
        /\ produced' = produced + ResponseLength
        /\ UNCHANGED overwritten
     \/ /\ out_buffer_' = NewBytes(EchoLength)
        /\ produced' = produced + EchoLength
        /\ overwritten' = (overwritten \/ out_buffer_ # <<>>)
  /\ finished' = TRUE
  /\ pc' = "tail"
  /\ UNCHANGED <<caller, revents, events, error_, connection_state_, callVars,
                 rx, tx, peerVars, epollVars>>

\* A request is refused, with an error page or (a POST) without; a file that
\* cannot be opened clears out_buffer_.
Refuse ==
  /\ pc = "parse"
  /\ in_buffer_ # <<>>
  /\ error_' = TRUE
  /\ page' \in {PageParts, <<>>}
  /\ out_buffer_' \in {out_buffer_, <<>>}
  /\ pc' = "page"
  /\ UNCHANGED <<caller, revents, events, in_buffer_, connection_state_, finished,
                 some, write_sum, rx, tx, peerVars, epollVars, histVars>>

-----------------------------------------------------------------------------
\* HandleError: WriteN(fd, buff, n) for the header and for the body.  What the
\* socket does not take of a part is given up, and so is a failing part.
WritePage ==
  /\ pc = "page" /\ page # <<>> /\ ~rst
  /\ \E n \in 1..Min({Head(page), Room}) :
       /\ tx' = tx \o [i \in 1..n |-> 0]
       /\ page' = IF n = Head(page) THEN Tail(page)
                  ELSE [page EXCEPT ![1] = @ - n]
  /\ UNCHANGED <<loopVars, bufferVars, stateVars, some, write_sum, rx, peerVars,
                 epollVars, histVars>>

GiveUpPart ==
  /\ pc = "page" /\ page # <<>>
  /\ rst \/ Room = 0
  /\ page' = Tail(page)
  /\ nospace' = (nospace \/ Room = 0)
  /\ UNCHANGED <<loopVars, bufferVars, stateVars, some, write_sum, rx, tx, peerVars,
                 interest, edge, histVars>>

\* HandleRead's tail has nothing to do on an error.
PageDone ==
  /\ pc = "page" /\ page = <<>>
  /\ AfterRead
  /\ UNCHANGED <<revents, events, bufferVars, stateVars, callVars, rx, tx, peerVars,
                 epollVars, histVars>>

-----------------------------------------------------------------------------
\* WriteN(fd, s_buff), called by HandleWrite.

WriteSome ==
  /\ pc = "write" /\ ~rst
  /\ \E n \in 1..Min({Len(out_buffer_) - write_sum, Room}) :
       /\ tx' = tx \o SubSeq(out_buffer_, write_sum + 1, write_sum + n)
       /\ write_sum' = write_sum + n
  /\ UNCHANGED <<loopVars, bufferVars, stateVars, some, page, rx, peerVars,
                 epollVars, histVars>>

\* Mutant: out_buffer_ is trimmed only when all of it was written.
WriteReturnsUntrimmed ==
  /\ pc = "write"
  /\ write_sum = Len(out_buffer_) \/ (Room = 0 /\ ~rst)
  /\ out_buffer_' = IF write_sum = Len(out_buffer_) THEN <<>> ELSE out_buffer_
  /\ events' = IF out_buffer_' = <<>> THEN events ELSE events \union {"OUT"}
  /\ write_sum' = 0
  /\ nospace' = (nospace \/ write_sum < Len(out_buffer_))
  /\ pc' = IF caller = "read" THEN "reset" ELSE "conn"
  /\ UNCHANGED <<caller, revents, in_buffer_, stateVars, some, page, rx, tx,
                 peerVars, interest, edge, histVars>>

\* All is written, or EAGAIN: what is left stays and asks for EPOLLOUT.
WriteReturns ==
  /\ pc = "write"
  /\ write_sum = Len(out_buffer_) \/ (Room = 0 /\ ~rst)
  /\ out_buffer_' = SubSeq(out_buffer_, write_sum + 1, Len(out_buffer_))
  /\ events' = IF out_buffer_' = <<>> THEN events ELSE events \union {"OUT"}
  /\ write_sum' = 0
  /\ nospace' = (nospace \/ write_sum < Len(out_buffer_))
  /\ pc' = IF caller = "read" THEN "reset" ELSE "conn"
  /\ UNCHANGED <<caller, revents, in_buffer_, stateVars, some, page, rx, tx,
                 peerVars, interest, edge, histVars>>

\* A failing write(): out_buffer_ keeps what was written, and error_ keeps it
\* from being written again.
WriteFails ==
  /\ pc = "write" /\ rst
  /\ write_sum < Len(out_buffer_)
  /\ error_' = TRUE
  /\ events' = {"OUT"}
  /\ write_sum' = 0
  /\ pc' = IF caller = "read" THEN "reset" ELSE "conn"
  /\ UNCHANGED <<caller, revents, bufferVars, connection_state_, finished, some,
                 page, rx, tx, peerVars, epollVars, histVars>>

-----------------------------------------------------------------------------
\* HandleRead behind its state machine.

\* Output is written at once.
FlushAnswer ==
  /\ pc = "tail"
  /\ caller' = "read"
  /\ pc' = IF out_buffer_ = <<>> THEN "reset" ELSE "write"
  /\ UNCHANGED <<revents, events, bufferVars, stateVars, callVars, rx, tx, peerVars,
                 epollVars, histVars>>

\* Reset after a finished request and HandleRead again for the input it has
\* left; without one, EPOLLIN is asked for.
ResetOrWait ==
  LET again == /\ ~error_ /\ finished
               /\ in_buffer_ # <<>> /\ connection_state_ # "H_DISCONNECTING"
  IN  /\ pc = "reset"
      /\ IF again THEN pc' = "read" /\ caller' = "events" ELSE AfterRead
      /\ finished' = (finished /\ error_)
      /\ some' = FALSE
      /\ events' = IF error_ \/ finished THEN events ELSE events \union {"IN"}
      /\ UNCHANGED <<revents, bufferVars, error_, connection_state_, write_sum, page,
                     rx, tx, peerVars, epollVars, histVars>>

-----------------------------------------------------------------------------
\* HandleConn: watch on, output first; or leave a half-closed connection with
\* output as it is; or close.

\* The descriptor is closed: unread input turns that into a reset.
Close ==
  /\ pc' = "closed"
  /\ tx' = IF rx = <<>> THEN tx ELSE <<>>
  /\ rx' = <<>>

\* Mutant: input first.
NextEventsInputFirst ==
  IF events = {} \/ "IN" \in events THEN {"IN"} ELSE events

NextEvents ==
  IF events = {} THEN {"IN"} ELSE IF "OUT" \in events THEN {"OUT"} ELSE events

\* epoll_ctl is called for other events than the last, and polls then.
WatchOn ==
  /\ pc = "conn" /\ ~error_ /\ connection_state_ = "H_CONNECTED"
  /\ pc' = "wait"
  /\ interest' = NextEvents
  /\ edge' = IF NextEvents = interest THEN edge ELSE Reportable(NextEvents) # {}
  /\ IF NextEvents = interest THEN UNCHANGED nospace ELSE Polled(NextEvents)
  /\ UNCHANGED <<caller, revents, events, bufferVars, stateVars, callVars, rx, tx,
                 peerVars, histVars>>

LeaveHalfClosed ==
  /\ pc = "conn" /\ ~error_ /\ connection_state_ = "H_DISCONNECTING"
  /\ "OUT" \in events
  /\ pc' = "wait"
  /\ UNCHANGED <<caller, revents, events, bufferVars, stateVars, callVars, rx, tx,
                 peerVars, epollVars, histVars>>

HandleClose ==
  /\ pc = "conn"
  /\ error_ \/ (connection_state_ = "H_DISCONNECTING" /\ "OUT" \notin events)
  /\ Close
  /\ UNCHANGED <<caller, revents, events, bufferVars, stateVars, callVars, peerVars,
                 epollVars, histVars>>

\* The timer of a connection that is watched expires.
TimedOut ==
  /\ pc = "wait" /\ connection_state_ = "H_CONNECTED"
  /\ Close
  /\ UNCHANGED <<caller, revents, events, bufferVars, stateVars, callVars, peerVars,
                 epollVars, histVars>>

-----------------------------------------------------------------------------
LoopStep ==
  \/ Poll
  \/ ReadSome \/ ReadReturns \/ ParseAgain \/ Answer \/ Refuse
  \/ WritePage \/ GiveUpPart \/ PageDone
  \/ WriteSome \/ WriteReturns \/ WriteFails
  \/ FlushAnswer \/ ResetOrWait
  \/ WatchOn \/ LeaveHalfClosed \/ HandleClose

Peer == PeerSends \/ PeerCloses \/ PeerResets \/ PeerReads

Next == LoopStep \/ Peer \/ TimedOut

Spec == Init /\ [][Next]_vars

\* The scheduler runs the loop's thread; the peer reads what has reached it.
FairSpec == Spec /\ WF_vars(LoopStep) /\ WF_vars(PeerReads)

-----------------------------------------------------------------------------
\* Properties.

Lost == error_ \/ rst \/ pc = "closed"

Requests == INSTANCE ByteStream WITH
  produced <- sent,
  queued <- IF error_ \/ pc = "closed" THEN <<>> ELSE in_buffer_ \o rx,
  delivered <- parsed,
  broken <- Lost \/ connection_state_ = "H_DISCONNECTING",
  overwritten <- FALSE

Answers == INSTANCE ByteStream WITH
  queued <- IF Lost THEN tx
            ELSE tx \o SubSeq(out_buffer_, write_sum + 1, Len(out_buffer_)),
  delivered <- received,
  broken <- Lost

\* However read() and write() cut the streams, and wherever an error or a close
\* falls: the parser gets the bytes of the requests and the peer those of the
\* answers in order, each once, none skipped but by the answer to /hello.
\* After an error nothing but the error page follows what the kernel has.
ImplementsStreams == Requests!Spec /\ Answers!Spec

\* ReadN and WriteN stop only where the kernel will report more, and the loop
\* never goes to sleep on work it could do: what is watched for is reported if
\* it is there, pending output is watched for, and no whole request is left in
\* in_buffer_.  (Output may be watched for although a second pass of HandleRead
\* has flushed it: the next report of room puts that right.)
NobodyStalls ==
  pc = "wait" /\ connection_state_ = "H_CONNECTED" /\ ~rst =>
    /\ interest = {"IN"} => out_buffer_ = <<>>
    /\ Reportable(interest) # {} => edge
    /\ Len(in_buffer_) < RequestLength

\* A peer that keeps reading, and neither closes its end nor is refused, gets
\* all of its answers, however small the socket's buffer is.
OutputIsDelivered ==
  (produced > Len(received))
    ~> (produced = Len(received) \/ overwritten \/ eof \/ Lost)
=============================================================================
