-------------------------- MODULE SubReactorProofs --------------------------
(***************************************************************************)
(* Proofs about SubReactor, for any connections, descriptors and times: no *)
(* handler of a dead HttpData, one timer per connection and never early,   *)
(* no leak after a close, and no lost edge.                                *)
(***************************************************************************)
EXTENDS SubReactor, TLAPS

-----------------------------------------------------------------------------
\* The inductive invariant, by what it is about.

\* The NewEvent of c is bound in a functor that has not run.
Bound(c) ==
  \/ \E i \in DOMAIN pending_functors_ : pending_functors_[i] = c
  \/ \E i \in DOMAIN functors : functors[i] = c

\* What a connection has read and will read, it was sent.
Buffered ==
  \A c \in Conns : http[c].in_buffer_ + sock[c].rx <= sock[c].sent

\* Epoll's tables agree with fd_ and with each other, and what has a timer, is
\* to be handled or is watched is in them.
Tables ==
  /\ \A f \in Fds, c \in Conns : fd2http_[f] = c => http[c].fd_ = f
  /\ \A f \in Fds, c \in Conns : fd2channel_[f] = c => fd2http_[f] = c
  /\ \A n \in timer_node_queue_, c \in Conns :
       n.sp_http_data_ = c => \E f \in Fds : fd2http_[f] = c
  /\ \A c \in active : \E f \in Fds : fd2channel_[f] = c
  /\ \A c \in Conns : interest[c] # {} => http[c].fd_ \in Fds

\* As the constructor leaves it.
Fresh(h) ==
  ~h.error_ /\ h.connection_state_ = "H_CONNECTED" /\ ~h.out_buffer_

\* A connection whose NewEvent has not run is new and in no table; its
\* descriptor is its own.
Newcomers ==
  /\ \A c \in Conns : Bound(c) \/ http[c].fd_ = None => Fresh(http[c])
  /\ \A c \in Conns : Bound(c) =>
       http[c].fd_ \in Fds /\ fd2http_[http[c].fd_] = None
  /\ \A c, d \in Conns :
       Bound(c) /\ Bound(d) /\ http[c].fd_ = http[d].fd_ => c = d

\* NewEvent is bound once.
BoundOnce ==
  /\ \A i \in DOMAIN pending_functors_, j \in DOMAIN functors :
       pending_functors_[i] # functors[j]
  /\ \A i, j \in DOMAIN functors : functors[i] = functors[j] => i = j
  /\ \A i, j \in DOMAIN pending_functors_ :
       pending_functors_[i] = pending_functors_[j] => i = j

\* timer_ points to a node made for its connection; a node that lets its
\* HttpData go is marked.
Nodes ==
  /\ \A c \in Conns : timer_[c] # None => timer_[c].sp_http_data_ = c
  /\ \A n \in timer_node_queue_ : n.deleted_ <=> n.sp_http_data_ = None

\* ConnectedIsTimed and ClosedIsDestroyed for the connections of a batch that
\* wait for their handlers, too.
Timed ==
  \A c \in Conns, f \in Fds :
    c # cur /\ fd2http_[f] = c /\ http[c].connection_state_ = "H_CONNECTED"
      => timer_[c] \in timer_node_queue_
Gone ==
  \A c \in Conns :
    c # cur /\ (http[c].error_ \/ http[c].connection_state_ = "H_DISCONNECTED")
      => ~Bound(c) /\ \A f \in Fds : fd2http_[f] # c

Owners == Tables /\ Newcomers /\ BoundOnce /\ Nodes /\ OneTimer /\ Timed /\ Gone

\* A node's times are those of a moment in the past.
NodeTime(n) ==
  \E t \in 0..clock :
    t <= n.due /\ n.expired_time_ = (t % TimeWrap) + (n.due - t)
NodeTimes == \A n \in timer_node_queue_ : NodeTime(n)

-----------------------------------------------------------------------------
\* Edges.  A connection that epoll serves is watched for what it waits for.
Watching(c) ==
  \/ /\ interest[c] \in {{"IN"}, {"IN", "ONESHOT"}}
     /\ ~http[c].out_buffer_
     /\ sock[c].rx > 0 \/ sock[c].eof => edge[c]
     /\ channel[c].last_events_ = interest[c]
  \/ /\ interest[c] = {"OUT"}
     /\ http[c].out_buffer_ \/ sock[c].room
     /\ sock[c].room => edge[c]
     /\ channel[c].last_events_ = interest[c]

\* Input was reported, and the watch is spent or lasts.
ForInput(c) ==
  /\ "IN" \in channel[c].revents_
  /\ \/ interest[c] = {"IN"} /\ channel[c].last_events_ = {"IN"}
     \/ interest[c] = {} /\ channel[c].last_events_ = {"IN", "ONESHOT"}
\* Room was reported.
ForOutput(c) ==
  /\ "IN" \notin channel[c].revents_ /\ "OUT" \in channel[c].revents_
  /\ interest[c] = {"OUT"} /\ channel[c].last_events_ = {"OUT"}

\* Not handled yet.
Reported(c) ==
  /\ "HUP" \notin channel[c].revents_
  /\ ForOutput(c) \/ (ForInput(c) /\ ~http[c].out_buffer_)

\* What the handlers ask for so far covers the output they leave.
Asked(c) ==
  /\ channel[c].events_ \subseteq {"IN", "OUT"}
  /\ http[c].out_buffer_ => "OUT" \in channel[c].events_
  /\ "OUT" \in channel[c].events_ => http[c].out_buffer_ \/ sock[c].room

\* A watch that lasted has seen the input that came since HandleRead.
Seen(c) == interest[c] = {"IN"} /\ (sock[c].rx > 0 \/ sock[c].eof) => edge[c]

\* In its handlers.
Handled(c) ==
  \/ stage = "read" /\ ForInput(c) /\ Asked(c)
  \/ stage \in {"write", "conn"} /\ ForInput(c) /\ Asked(c) /\ Seen(c)
  \/ stage = "write" /\ ForOutput(c) /\ channel[c].events_ = {}
  \/ /\ stage = "conn" /\ ForOutput(c) /\ Asked(c)
     /\ "OUT" \in channel[c].events_ =>
          http[c].out_buffer_ /\ (sock[c].room => edge[c])

\* Served by epoll, and neither half closed, failed nor reset.
Live(c) ==
  /\ \E f \in Fds : fd2channel_[f] = c
  /\ http[c].connection_state_ = "H_CONNECTED" /\ ~http[c].error_
  /\ ~sock[c].rst

EdgeKept(c) ==
  Live(c) => \/ c \notin active /\ Watching(c)
             \/ c \in active /\ c # cur /\ Reported(c)
             \/ c \in active /\ c = cur /\ Handled(c)
Edges == \A c \in Conns : EdgeKept(c)

IInv == TypeOK /\ Buffered /\ Owners /\ NodeTimes /\ Edges

-----------------------------------------------------------------------------
\* What the operators return.

\* The cases of HandleWrite.
Failed(h) == [h EXCEPT !.error_ = TRUE]
Flushed(h) == [h EXCEPT !.out_buffer_ = FALSE]

\* HandleWrite has nothing to write, fails, stops at EAGAIN or flushes.
LEMMA WriteCases ==
  ASSUME NEW h, NEW s \in SockType, NEW events, NEW w \in WriteOutcomes(h, s, events)
  PROVE  /\ w.room \in BOOLEAN
         /\ \/ /\ h.error_ \/ h.connection_state_ = "H_DISCONNECTED"
                 \/ ~h.out_buffer_
               /\ w.http = h /\ (w.room <=> s.room) /\ w.events = events
            \/ /\ h.out_buffer_ /\ s.rst
               /\ w.http = Failed(h)
               /\ (w.room <=> s.room) /\ w.events = {"OUT"}
            \/ /\ h.out_buffer_ /\ ~s.rst
               /\ w.http = h /\ ~w.room /\ w.events = events \union {"OUT"}
            \/ /\ h.out_buffer_ /\ ~s.rst
               /\ w.http = Flushed(h) /\ w.room /\ w.events = events
<1> DEFINE idle == [http |-> h, room |-> s.room, events |-> events]
           failed == [http |-> Failed(h), room |-> s.room,
                      events |-> {"OUT"}]
           some == [http |-> h, room |-> FALSE, events |-> events \union {"OUT"}]
           all == [http |-> Flushed(h), room |-> TRUE,
                   events |-> events]
<1>0. s.room \in BOOLEAN
  BY DEF SockType
<1>1. CASE h.error_ \/ h.connection_state_ = "H_DISCONNECTED" \/ ~h.out_buffer_
  <2>1. w = idle
    BY <1>1 DEF WriteOutcomes
  <2>2. w.http = h /\ w.room = s.room /\ w.events = events
    BY <2>1, Zenon
  <2> QED
    BY <1>0, <1>1, <2>2, Zenon
<1>2. CASE ~(h.error_ \/ h.connection_state_ = "H_DISCONNECTED" \/ ~h.out_buffer_)
  <2>1. PICK r \in WriteN(s) :
          w = CASE r = "error" -> failed [] r = "some" -> some [] r = "all" -> all
    BY <1>2 DEF WriteOutcomes, Failed, Flushed
  <2>2. CASE r = "error"
    <3>1. w = failed
      BY <2>1, <2>2
    <3>2. w.http = Failed(h) /\ w.room = s.room /\ w.events = {"OUT"}
      BY <3>1, Zenon
    <3> QED
      BY <1>0, <1>2, <2>2, <3>2, Zenon DEF WriteN
  <2>3. CASE r = "some"
    <3>1. w = some
      BY <2>1, <2>3
    <3>2. w.http = h /\ w.room = FALSE /\ w.events = events \union {"OUT"}
      BY <3>1, Zenon
    <3> QED
      BY <1>0, <1>2, <2>3, <3>2, Zenon DEF WriteN
  <2>4. CASE r = "all"
    <3>1. w = all
      BY <2>1, <2>4
    <3>2. w.http = Flushed(h) /\ w.room = TRUE /\ w.events = events
      BY <3>1, Zenon
    <3> QED
      BY <1>0, <1>2, <2>4, <3>2, Zenon DEF WriteN
  <2> QED
    BY <2>2, <2>3, <2>4 DEF WriteN
<1> QED
  BY <1>1, <1>2

\* What a failure and a flush leave alone.
LEMMA FailedFlushed ==
  ASSUME NEW h \in HttpType
  PROVE  /\ Failed(h) \in HttpType /\ Flushed(h) \in HttpType
         /\ Failed(h).fd_ = h.fd_ /\ Flushed(h).fd_ = h.fd_
         /\ Failed(h).in_buffer_ = h.in_buffer_
         /\ Flushed(h).in_buffer_ = h.in_buffer_
         /\ Failed(h).connection_state_ = h.connection_state_
         /\ Flushed(h).connection_state_ = h.connection_state_
         /\ Failed(h).error_ /\ (Flushed(h).error_ <=> h.error_)
         /\ (Failed(h).out_buffer_ <=> h.out_buffer_) /\ ~Flushed(h).out_buffer_
BY DEF HttpType, Failed, Flushed

\* Whatever HandleWrite meets, it keeps the types, the descriptor and the
\* state of the connection, and no error goes away.
LEMMA WriteOutcome ==
  ASSUME NEW h \in HttpType, NEW s \in SockType, NEW events \in SUBSET Bits,
         NEW w \in WriteOutcomes(h, s, events)
  PROVE  /\ w.http \in HttpType /\ w.room \in BOOLEAN /\ w.events \in SUBSET Bits
         /\ w.http.fd_ = h.fd_ /\ w.http.in_buffer_ = h.in_buffer_
         /\ w.http.connection_state_ = h.connection_state_
         /\ h.error_ => w.http.error_
<1>1. w.http = h \/ w.http = Failed(h) \/ w.http = Flushed(h)
  BY WriteCases
<1>2. \A e \in w.events : e \in events \/ e = "OUT"
  BY WriteCases
<1>3. w.events \in SUBSET Bits
  BY <1>2 DEF Bits
<1>4. w.room \in BOOLEAN
  BY WriteCases, Zenon
<1>5. /\ w.http \in HttpType
      /\ w.http.fd_ = h.fd_ /\ w.http.in_buffer_ = h.in_buffer_
      /\ w.http.connection_state_ = h.connection_state_
      /\ h.error_ => w.http.error_
  BY <1>1, FailedFlushed
<1> QED
  BY <1>3, <1>4, <1>5

\* What is left of output is watched for.
LEMMA WriteAsks ==
  ASSUME NEW h \in HttpType, NEW s \in SockType, NEW events \in SUBSET Bits,
         NEW w \in WriteOutcomes(h, s, events),
         h.connection_state_ = "H_CONNECTED", ~w.http.error_, ~s.rst
  PROVE  \/ /\ ~h.out_buffer_ /\ ~w.http.out_buffer_
            /\ (w.room <=> s.room) /\ w.events = events
         \/ /\ h.out_buffer_ /\ w.http.out_buffer_
            /\ ~w.room /\ w.events = events \union {"OUT"}
         \/ /\ h.out_buffer_ /\ ~w.http.out_buffer_
            /\ w.room /\ w.events = events
BY WriteCases, FailedFlushed

\* The parser only takes input away, only adds output, and keeps errors.
LEMMA ParseOutcome ==
  ASSUME NEW h \in HttpType, NEW r \in ParseOutcomes(h)
  PROVE  /\ r.http \in HttpType
         /\ r.http.fd_ = h.fd_ /\ r.http.in_buffer_ <= h.in_buffer_
         /\ r.http.connection_state_ = h.connection_state_
         /\ h.error_ => r.http.error_
         /\ h.out_buffer_ => r.http.out_buffer_
<1>0. h.in_buffer_ \in 0..MaxSegments /\ MaxSegments \in Nat
  BY BoundsAssumption DEF HttpType
<1>1. CASE r.http = h
  BY <1>0, <1>1
<1>2. CASE r.http = [h EXCEPT !.error_ = TRUE]
  <2>1. [h EXCEPT !.error_ = TRUE] \in HttpType
    BY DEF HttpType
  <2> QED
    BY <1>0, <1>2, <2>1 DEF HttpType
<1>3. ASSUME NEW n \in 1..h.in_buffer_, NEW k \in BOOLEAN,
             r = [http |-> Answered(h, n, k), finished |-> TRUE]
      PROVE  /\ r.http \in HttpType
             /\ r.http.fd_ = h.fd_ /\ r.http.in_buffer_ <= h.in_buffer_
             /\ r.http.connection_state_ = h.connection_state_
             /\ h.error_ => r.http.error_
             /\ h.out_buffer_ => r.http.out_buffer_
  <2>0. r.http = Answered(h, n, k)
    BY <1>3, Zenon
  <2>1. h.in_buffer_ - n \in 0..MaxSegments /\ h.in_buffer_ - n <= h.in_buffer_
    BY <1>0
  <2>2. r.http \in HttpType
    BY <2>0, <2>1 DEF Answered, HttpType
  <2>3. r.http.in_buffer_ = h.in_buffer_ - n
    BY <2>0 DEF Answered, HttpType
  <2>4. /\ r.http.fd_ = h.fd_
        /\ r.http.connection_state_ = h.connection_state_
    BY <2>0 DEF Answered, HttpType
  <2>5. r.http.error_ <=> h.error_
    BY <2>0 DEF Answered, HttpType
  <2>6. r.http.out_buffer_
    BY <2>0 DEF Answered, HttpType
  <2> QED
    BY <2>1, <2>2, <2>3, <2>4, <2>5, <2>6
<1>4. \/ r = [http |-> h, finished |-> FALSE]
      \/ r = [http |-> [h EXCEPT !.error_ = TRUE], finished |-> FALSE]
      \/ \E n \in 1..h.in_buffer_, k \in BOOLEAN :
           r = [http |-> Answered(h, n, k), finished |-> TRUE]
  BY DEF ParseOutcomes
<1>5. CASE r = [http |-> h, finished |-> FALSE]
  BY <1>1, <1>5, Zenon
<1>6. CASE r = [http |-> [h EXCEPT !.error_ = TRUE], finished |-> FALSE]
  BY <1>2, <1>6, Zenon
<1> QED
  BY <1>3, <1>4, <1>5, <1>6

\* HandleRead up to its tail: a connection that is still open and unbroken has
\* met neither the end of the stream nor a reset.
LEMMA ReadOutcome ==
  ASSUME NEW h \in HttpType, NEW s \in SockType,
         h.in_buffer_ + s.rx <= s.sent,
         NEW r \in ReadOutcomes(h, s)
  PROVE  /\ r.http \in HttpType
         /\ r.http.fd_ = h.fd_
         /\ r.http.in_buffer_ <= s.sent
         /\ r.http.connection_state_ \in {h.connection_state_, "H_DISCONNECTING"}
         /\ h.error_ => r.http.error_
         /\ r.http.connection_state_ = "H_CONNECTED" /\ ~r.http.error_ =>
              /\ ~s.rst /\ ~s.eof
              /\ h.out_buffer_ => r.http.out_buffer_
<1> DEFINE in == h.in_buffer_ + s.rx
           h1 == [h EXCEPT !.in_buffer_ = in]
           h2 == [h1 EXCEPT !.connection_state_ = "H_DISCONNECTING"]
<1>1. in \in 0..MaxSegments /\ s.sent \in 0..MaxSegments
  BY BoundsAssumption DEF HttpType, SockType
<1>2. /\ h1 \in HttpType /\ h1.fd_ = h.fd_ /\ h1.in_buffer_ = in
      /\ h1.connection_state_ = h.connection_state_
      /\ (h1.error_ <=> h.error_) /\ (h1.out_buffer_ <=> h.out_buffer_)
  BY <1>1 DEF HttpType
<1>3. /\ h2 \in HttpType /\ h2.fd_ = h.fd_ /\ h2.in_buffer_ = in
      /\ h2.connection_state_ = "H_DISCONNECTING" /\ (h2.error_ <=> h.error_)
  BY <1>2 DEF HttpType
<1> HIDE DEF h1, h2
<1>4. \/ /\ h.connection_state_ = "H_DISCONNECTING"
         /\ r = [http |-> [h1 EXCEPT !.in_buffer_ = 0], finished |-> FALSE]
      \/ /\ h.connection_state_ # "H_DISCONNECTING" /\ s.rst
         /\ r = [http |-> [h1 EXCEPT !.error_ = TRUE], finished |-> FALSE]
      \/ /\ h.connection_state_ # "H_DISCONNECTING"
         /\ r = [http |-> h2, finished |-> FALSE]
      \/ /\ h.connection_state_ # "H_DISCONNECTING"
         /\ r \in ParseOutcomes(h2)
      \/ /\ h.connection_state_ # "H_DISCONNECTING" /\ ~s.rst /\ ~s.eof
         /\ r \in ParseOutcomes(h1)
  BY <1>2 DEF ReadOutcomes, ReadN, h1, h2
<1>5. CASE h.connection_state_ = "H_DISCONNECTING"
  <2>1. r = [http |-> [h1 EXCEPT !.in_buffer_ = 0], finished |-> FALSE]
    BY <1>4, <1>5
  <2>2. r.http = [h1 EXCEPT !.in_buffer_ = 0]
    BY <2>1, Zenon
  <2>3. 0 \in 0..MaxSegments
    BY BoundsAssumption
  <2>4. r.http \in HttpType
    BY <1>2, <2>2, <2>3 DEF HttpType
  <2>5. /\ r.http.fd_ = h.fd_ /\ r.http.in_buffer_ = 0
        /\ r.http.connection_state_ = "H_DISCONNECTING"
        /\ r.http.error_ <=> h.error_
    BY <1>2, <1>5, <2>2 DEF HttpType
  <2> QED
    BY <1>1, <2>4, <2>5
<1>6. CASE r = [http |-> [h1 EXCEPT !.error_ = TRUE], finished |-> FALSE]
  <2>1. r.http = [h1 EXCEPT !.error_ = TRUE]
    BY <1>6, Zenon
  <2>2. r.http \in HttpType
    BY <1>2, <2>1 DEF HttpType
  <2>3. /\ r.http.fd_ = h.fd_ /\ r.http.in_buffer_ = in
        /\ r.http.connection_state_ = h.connection_state_
        /\ r.http.error_
    BY <1>2, <2>1 DEF HttpType
  <2> QED
    BY <1>1, <2>2, <2>3
<1>7. CASE r = [http |-> h2, finished |-> FALSE]
  <2>1. r.http = h2
    BY <1>7, Zenon
  <2> QED
    BY <1>1, <1>3, <2>1
<1>8. CASE r \in ParseOutcomes(h2)
  <2>1. /\ r.http \in HttpType
        /\ r.http.fd_ = h2.fd_ /\ r.http.in_buffer_ <= h2.in_buffer_
        /\ r.http.connection_state_ = h2.connection_state_
        /\ h2.error_ => r.http.error_
    BY <1>3, <1>8, ParseOutcome
  <2>2. r.http.in_buffer_ \in 0..MaxSegments
    BY <2>1 DEF HttpType
  <2> QED
    BY <1>1, <1>3, <2>1, <2>2
<1>9. CASE ~s.rst /\ ~s.eof /\ r \in ParseOutcomes(h1)
  <2>1. /\ r.http \in HttpType
        /\ r.http.fd_ = h1.fd_ /\ r.http.in_buffer_ <= h1.in_buffer_
        /\ r.http.connection_state_ = h1.connection_state_
        /\ h1.error_ => r.http.error_
        /\ h1.out_buffer_ => r.http.out_buffer_
    BY <1>2, <1>9, ParseOutcome
  <2>2. r.http.in_buffer_ \in 0..MaxSegments
    BY <2>1 DEF HttpType
  <2> QED
    BY <1>1, <1>2, <1>9, <2>1, <2>2
<1> QED
  BY <1>4, <1>5, <1>6, <1>7, <1>8, <1>9

\* The fields of a node as AddTimer makes it.
LEMMA NodeMade ==
  ASSUME NEW c \in Conns, NEW t \in Nat, NEW timeout \in Nat
  PROVE  /\ TimerNode(c, t, timeout) \in NodeType
         /\ TimerNode(c, t, timeout).sp_http_data_ = c
         /\ ~TimerNode(c, t, timeout).deleted_
         /\ TimerNode(c, t, timeout).expired_time_ = (t % TimeWrap) + timeout
         /\ TimerNode(c, t, timeout).due = t + timeout
<1>1. t % TimeWrap \in Nat
  BY TimeWrapAssumption
<1> QED
  BY <1>1 DEF TimerNode, NodeType

\* What ClearReq leaves: the other nodes, and the marked copy of its own.
LEMMA Cleared ==
  ASSUME NEW queue \in SUBSET NodeType, NEW n, NEW m \in ClearReq(queue, n)
  PROVE  /\ m \in NodeType
         /\ \/ m \in queue /\ m # n
            \/ /\ n \in queue
               /\ m.sp_http_data_ = None /\ m.deleted_
               /\ m.expired_time_ = n.expired_time_ /\ m.due = n.due
<1>1. CASE m \in queue /\ m # n
  BY <1>1
<1>2. CASE n \in queue /\ m = [n EXCEPT !.sp_http_data_ = None, !.deleted_ = TRUE]
  BY <1>2 DEF NodeType
<1> QED
  BY <1>1, <1>2 DEF ClearReq

\* ClearReq leaves every node but its own.
LEMMA ClearedKeeps ==
  ASSUME NEW queue, NEW n, NEW m \in queue, m # n
  PROVE  m \in ClearReq(queue, n)
BY DEF ClearReq

\* Timeouts are natural numbers.
LEMMA Timeouts ==
  ASSUME NEW h, NEW events
  PROVE  NextTimeout(h, events) \in Nat /\ kDefaultExpiredTime \in Nat
BY TimeoutAssumption DEF NextTimeout

\* HandleExpiredEvent pops nodes of the queue.
LEMMA PoppedNodes ==
  ASSUME NEW queue, NEW t, NEW popped \in Popped(queue, t)
  PROVE  popped \subseteq queue
BY DEF Popped

\* HandleClose touches the connections of its set, and their descriptors.
LEMMA Closes ==
  ASSUME TypeOK, NEW cs \in SUBSET Conns, Close(cs)
  PROVE  /\ http' \in [Conns -> HttpType]
         /\ \A c \in Conns \ cs : http'[c] = http[c]
         /\ \A c \in Conns :
              /\ http'[c].fd_ = http[c].fd_
              /\ http'[c].in_buffer_ = http[c].in_buffer_
              /\ http'[c].error_ <=> http[c].error_
         /\ \A c \in cs : http'[c].connection_state_ = "H_DISCONNECTED"
<1>1. \A c \in Conns \ cs : http'[c] = http[c]
  BY DEF Close
<1>2. \A c \in cs :
        http'[c] = [http[c] EXCEPT !.connection_state_ = "H_DISCONNECTED"]
  BY DEF Close
<1>3. ASSUME NEW c \in cs
      PROVE  /\ http'[c] \in HttpType
             /\ http'[c].fd_ = http[c].fd_
             /\ http'[c].in_buffer_ = http[c].in_buffer_
             /\ http'[c].error_ <=> http[c].error_
             /\ http'[c].connection_state_ = "H_DISCONNECTED"
  <2>1. http[c] \in HttpType
    BY DEF TypeOK
  <2> QED
    BY <1>2, <2>1 DEF HttpType
<1>4. \A c \in Conns : http'[c] \in HttpType
  BY <1>1, <1>3 DEF TypeOK
<1>5. http' \in [Conns -> HttpType]
  BY <1>4 DEF Close
<1> QED
  BY <1>1, <1>3, <1>5

\* HandleClose keeps the types of epoll's tables.
LEMMA CloseTables ==
  ASSUME TypeOK, NEW cs \in SUBSET Conns, Close(cs)
  PROVE  /\ fd2channel_' \in [Fds -> Conns \union {None}]
         /\ fd2http_' \in [Fds -> Conns \union {None}]
         /\ interest' \in [Conns -> SUBSET Bits]
         /\ edge' \in [Conns -> BOOLEAN]
<1>1. fd2channel_' \in [Fds -> Conns \union {None}]
  BY DEF TypeOK, Close
<1>2. fd2http_' \in [Fds -> Conns \union {None}]
  BY DEF TypeOK, Close
<1>3. interest' \in [Conns -> SUBSET Bits]
  BY DEF TypeOK, Close
<1>4. edge' \in [Conns -> BOOLEAN]
  BY DEF TypeOK, Close
<1> QED
  BY <1>1, <1>2, <1>3, <1>4

\* What HandleRead does, given what it read and parsed and what it wrote.
ReadWith(c, r, w) ==
  /\ r \in ReadOutcomes(http[c], sock[c])
  /\ w \in WriteOutcomes(r.http, sock[c], channel[c].events_)
  /\ http' = [http EXCEPT ![c] = w.http]
  /\ channel' = [channel EXCEPT ![c].events_ =
        IF ~w.http.error_ /\ ~r.finished THEN w.events \union {"IN"} ELSE w.events]
  /\ sock' = [sock EXCEPT ![c].rx = 0, ![c].room = w.room]
  /\ stage' = "read" \/ stage' = AfterRead(c)
  /\ stage' = "read" => ~w.http.error_ /\ r.finished
  /\ IF ~w.http.error_ /\ r.finished
     THEN /\ timer_node_queue_' = ClearReq(timer_node_queue_, timer_[c])
          /\ timer_' = [timer_ EXCEPT ![c] = None]
     ELSE timer_' = timer_ /\ timer_node_queue_' = timer_node_queue_

\* HandleRead, by the outcomes of its two halves.
LEMMA HandleReadWith ==
  ASSUME NEW c \in Conns, HandleRead(c)
  PROVE  \E r, w : ReadWith(c, r, w)
<1> DEFINE body(r, w) ==
       LET ok == ~w.http.error_
           again == /\ ok /\ r.finished /\ w.http.in_buffer_ > 0
                    /\ w.http.connection_state_ # "H_DISCONNECTING"
       IN  /\ http' = [http EXCEPT ![c] = w.http]
           /\ channel' = [channel EXCEPT ![c].events_ =
                IF ok /\ ~r.finished THEN w.events \union {"IN"} ELSE w.events]
           /\ sock' = [sock EXCEPT ![c].rx = 0, ![c].room = w.room]
           /\ stage' = IF again THEN "read" ELSE AfterRead(c)
           /\ IF ok /\ r.finished
              THEN /\ timer_node_queue_' = ClearReq(timer_node_queue_, timer_[c])
                   /\ timer_' = [timer_ EXCEPT ![c] = None]
              ELSE UNCHANGED timerVars
<1>1. ASSUME NEW r \in ReadOutcomes(http[c], sock[c]),
             NEW w \in WriteOutcomes(r.http, sock[c], channel[c].events_),
             body(r, w)
      PROVE  ReadWith(c, r, w)
  <2>1. stage' = "read" \/ stage' = AfterRead(c)
    BY <1>1
  <2>2. stage' = "read" => ~w.http.error_ /\ r.finished
    BY <1>1 DEF AfterRead
  <2>3. IF ~w.http.error_ /\ r.finished
        THEN /\ timer_node_queue_' = ClearReq(timer_node_queue_, timer_[c])
             /\ timer_' = [timer_ EXCEPT ![c] = None]
        ELSE timer_' = timer_ /\ timer_node_queue_' = timer_node_queue_
    BY <1>1, Zenon DEF timerVars
  <2> QED
    BY <1>1, <2>1, <2>2, <2>3, Zenon DEF ReadWith
<1>2. \E r \in ReadOutcomes(http[c], sock[c]) :
        \E w \in WriteOutcomes(r.http, sock[c], channel[c].events_) : body(r, w)
  BY Zenon DEF HandleRead
<1> HIDE DEF body
<1> QED
  BY <1>1, <1>2, Zenon

\* A handler changes what its connection asks for; EpollMod and NewEvent, what
\* epoll was last told, too.
LEMMA Asks ==
  ASSUME channel \in [Conns -> ChannelType], NEW c \in Conns, NEW e \in SUBSET Bits,
         channel' = [channel EXCEPT ![c].events_ = e]
  PROVE  /\ channel' \in [Conns -> ChannelType]
         /\ \A d \in Conns \ {c} : channel'[d] = channel[d]
         /\ channel'[c].events_ = e
         /\ channel'[c].last_events_ = channel[c].last_events_
         /\ channel'[c].revents_ = channel[c].revents_
<1> DEFINE x == [channel[c] EXCEPT !.events_ = e]
<1>1. /\ x \in ChannelType /\ x.events_ = e
      /\ x.last_events_ = channel[c].last_events_
      /\ x.revents_ = channel[c].revents_
  BY DEF ChannelType
<1>2. channel' = [channel EXCEPT ![c] = x]
  BY Zenon
<1> QED
  BY <1>1, <1>2

\* EpollMod and NewEvent record what epoll was told.
LEMMA Watches ==
  ASSUME channel \in [Conns -> ChannelType], NEW c \in Conns, NEW e \in SUBSET Bits,
         channel' = [channel EXCEPT ![c].events_ = e, ![c].last_events_ = e]
  PROVE  /\ channel' \in [Conns -> ChannelType]
         /\ \A d \in Conns \ {c} : channel'[d] = channel[d]
         /\ channel'[c].events_ = e
         /\ channel'[c].last_events_ = e
         /\ channel'[c].revents_ = channel[c].revents_
<1> DEFINE x == [channel[c] EXCEPT !.events_ = e, !.last_events_ = e]
<1>1. /\ x \in ChannelType /\ x.events_ = e
      /\ x.last_events_ = e
      /\ x.revents_ = channel[c].revents_
  BY DEF ChannelType
<1>2. channel' = [channel EXCEPT ![c] = x]
  BY Zenon
<1> QED
  BY <1>1, <1>2

\* What a read and a write change of a socket.
LEMMA SockUpdate ==
  ASSUME sock \in [Conns -> SockType], NEW c \in Conns, NEW n \in 0..MaxSegments,
         NEW room \in BOOLEAN,
         sock' = [sock EXCEPT ![c].rx = n, ![c].room = room]
  PROVE  /\ sock' \in [Conns -> SockType]
         /\ \A d \in Conns \ {c} : sock'[d] = sock[d]
         /\ sock'[c].rx = n /\ sock'[c].sent = sock[c].sent
         /\ sock'[c].room <=> room
         /\ sock'[c].rst <=> sock[c].rst
         /\ sock'[c].eof <=> sock[c].eof
<1> DEFINE x == [sock[c] EXCEPT !.rx = n, !.room = room]
<1>1. /\ x \in SockType /\ x.rx = n /\ x.sent = sock[c].sent
      /\ x.room <=> room
      /\ x.rst <=> sock[c].rst
      /\ x.eof <=> sock[c].eof
  BY DEF SockType
<1>2. sock' = [sock EXCEPT ![c] = x]
  BY Zenon
<1> QED
  BY <1>1, <1>2

\* HandNewConn gives its connection a free descriptor, and no more.
LEMMA Accepts ==
  ASSUME TypeOK, NEW c \in Conns, Accept(c)
  PROVE  \E f \in Fds :
           /\ f \in FreeFds
           /\ http' = [http EXCEPT ![c] = [http[c] EXCEPT !.fd_ = f]]
           /\ [http[c] EXCEPT !.fd_ = f] \in HttpType
           /\ [http[c] EXCEPT !.fd_ = f].fd_ = f
<1>1. PICK f \in FreeFds : http' = [http EXCEPT ![c].fd_ = f]
  BY Zenon DEF Accept
<1>2. http' = [http EXCEPT ![c] = [http[c] EXCEPT !.fd_ = f]]
  BY <1>1, Zenon
<1>3. f \in Fds /\ http[c] \in HttpType
  BY <1>1 DEF FreeFds, TypeOK
<1>4. [http[c] EXCEPT !.fd_ = f] \in HttpType /\ [http[c] EXCEPT !.fd_ = f].fd_ = f
  BY <1>3 DEF HttpType
<1> QED
  BY <1>1, <1>2, <1>3, <1>4

-----------------------------------------------------------------------------
\* Types.

\* Peers keep the types.
LEMMA SocketTypes ==
  ASSUME TypeOK, NEW c \in Conns, NEW s \in SockType, NEW bits,
         SocketEvent(c, s, bits)
  PROVE  TypeOK'
<1>1. sock' \in [Conns -> SockType]
  BY DEF SocketEvent, TypeOK
<1>2. edge' \in [Conns -> BOOLEAN]
  BY DEF SocketEvent, TypeOK
<1> QED
  BY <1>1, <1>2 DEF TypeOK, SocketEvent, loopVars, pollVars, timerVars

\* The type invariant, with the bound on what a connection has read that it
\* rests on.
LEMMA TypeStep ==
  ASSUME TypeOK, Buffered, [Next]_vars
  PROVE  TypeOK'
<1> USE ConnsAssumption, FdsAssumption, BoundsAssumption
<1>1. CASE UNCHANGED vars
  BY <1>1 DEF TypeOK, vars, loopVars, pollVars, timerVars, kernelVars
<1>2. ASSUME NEW c \in Conns, Accept(c)
      PROVE  TypeOK'
  <2>1. http' \in [Conns -> HttpType]
    BY <1>2, Accepts DEF TypeOK
  <2>2. pending_functors_' \in Seq(Conns)
    BY <1>2 DEF Accept, TypeOK
  <2> QED
    BY <1>2, <2>1, <2>2 DEF Accept, TypeOK, pollVars, timerVars, kernelVars
<1>3. ASSUME NEW c \in Conns, PeerSends(c)
      PROVE  TypeOK'
  <2>0. /\ sock[c] \in SockType
        /\ sock[c].rx + 1 \in 0..MaxSegments /\ sock[c].sent + 1 \in 0..MaxSegments
    BY <1>3 DEF PeerSends, TypeOK, Buffered, HttpType, SockType
  <2>1. [sock[c] EXCEPT !.rx = @ + 1, !.sent = @ + 1] \in SockType
    BY <2>0 DEF SockType
  <2> QED
    BY <1>3, <2>1, SocketTypes DEF PeerSends
<1>4. ASSUME NEW c \in Conns, PeerCloses(c) \/ PeerResets(c) \/ PeerDrains(c)
      PROVE  TypeOK'
  <2>1. /\ [sock[c] EXCEPT !.eof = TRUE] \in SockType
        /\ [sock[c] EXCEPT !.rst = TRUE] \in SockType
        /\ [sock[c] EXCEPT !.room = TRUE] \in SockType
    BY DEF TypeOK, SockType
  <2> QED
    BY <1>4, <2>1, SocketTypes DEF PeerCloses, PeerResets, PeerDrains
<1>5. CASE Tick
  BY <1>5 DEF Tick, TypeOK, loopVars, pollVars, timerVars, kernelVars
<1>6. CASE Poll
  <2>1. channel' \in [Conns -> ChannelType]
    <3>1. ASSUME NEW c \in Conns, NEW s \in SUBSET Bits
          PROVE  [channel[c] EXCEPT !.revents_ = s, !.events_ = {}] \in ChannelType
      <4>1. {} \in SUBSET Bits /\ channel[c] \in ChannelType
        BY DEF TypeOK
      <4> QED
        BY <4>1 DEF ChannelType
    <3>2. ASSUME NEW c \in Conns
          PROVE  Watched(PollState(sock[c]), interest[c]) \in SUBSET Bits
      BY DEF Watched, PollState, Bits
    <3>3. \A c \in Conns : channel'[c] \in ChannelType
      BY <1>6, <3>1, <3>2 DEF Poll, TypeOK
    <3> QED
      BY <1>6, <3>3 DEF Poll
  <2>2. interest' \in [Conns -> SUBSET Bits]
    BY <1>6 DEF Poll, TypeOK
  <2>3. edge' \in [Conns -> BOOLEAN]
    BY <1>6 DEF Poll, TypeOK
  <2>4. active' \subseteq Conns /\ cur = None /\ cur' = cur /\ (active' # {} => phase' = "events")
    BY <1>6 DEF Poll, TypeOK
  <2> QED
    BY <1>6, <2>1, <2>2, <2>3, <2>4 DEF Poll, TypeOK, pollVars, timerVars
<1>7. ASSUME NEW c \in Conns, HandleEvents(c)
      PROVE  TypeOK'
  <2>1. channel' \in [Conns -> ChannelType]
    <3>1. {} \in SUBSET Bits /\ channel' = [channel EXCEPT ![c].events_ = {}]
      BY <1>7 DEF HandleEvents
    <3> QED
      BY <3>1, Asks DEF TypeOK
  <2>2. stage' \in {"idle", "read", "write", "conn"}
    BY <1>7 DEF HandleEvents, AfterRead
  <2>3. cur' \in active' \union {None} /\ (cur' = None <=> stage' = "idle")
    BY <1>7 DEF HandleEvents, AfterRead
  <2>4. active' \subseteq Conns /\ phase' = "events"
    BY <1>7 DEF HandleEvents, TypeOK
  <2> QED
    BY <1>7, <2>1, <2>2, <2>3, <2>4
    DEF HandleEvents, TypeOK, pollVars, timerVars, kernelVars
<1>8. ASSUME NEW c \in Conns, HandleRead(c)
      PROVE  TypeOK'
  <2>0. /\ cur = c /\ c \in active /\ http[c] \in HttpType /\ sock[c] \in SockType
        /\ channel[c].events_ \in SUBSET Bits
        /\ http[c].in_buffer_ + sock[c].rx <= sock[c].sent
    BY <1>8 DEF HandleRead, TypeOK, ChannelType, Buffered
  <2>1. PICK r, w : ReadWith(c, r, w)
    BY <1>8, HandleReadWith
  <2>2. /\ r.http \in HttpType
        /\ w.http \in HttpType /\ w.room \in BOOLEAN /\ w.events \in SUBSET Bits
    BY <2>0, <2>1, ReadOutcome, WriteOutcome DEF ReadWith
  <2>3. http' \in [Conns -> HttpType]
    BY <2>1, <2>2 DEF ReadWith, TypeOK
  <2>4. channel' \in [Conns -> ChannelType]
    <3>1. w.events \union {"IN"} \in SUBSET Bits
      BY <2>2 DEF Bits
    <3>2. channel' = [channel EXCEPT ![c].events_ = w.events \union {"IN"}]
          \/ channel' = [channel EXCEPT ![c].events_ = w.events]
      BY <2>1, Zenon DEF ReadWith
    <3> QED
      BY <2>2, <3>1, <3>2, Asks DEF TypeOK
  <2>5. sock' \in [Conns -> SockType]
    <3>1. /\ sock' = [sock EXCEPT ![c].rx = 0, ![c].room = w.room]
          /\ 0 \in 0..MaxSegments
      BY <2>1 DEF ReadWith
    <3> QED
      BY <2>2, <3>1, SockUpdate DEF TypeOK
  <2>6. timer_' \in [Conns -> NodeType \union {None}]
    BY <2>1 DEF ReadWith, TypeOK
  <2>7. timer_node_queue_' \subseteq NodeType
    BY <2>1, Cleared DEF ReadWith, TypeOK
  <2>8. stage' \in {"read", "write", "conn"}
    BY <2>1 DEF ReadWith, AfterRead
  <2> QED
    BY <1>8, <2>0, <2>3, <2>4, <2>5, <2>6, <2>7, <2>8 DEF HandleRead, TypeOK, pollVars
<1>9. ASSUME NEW c \in Conns, HandleWrite(c)
      PROVE  TypeOK'
  <2>0. /\ cur = c /\ c \in active /\ http[c] \in HttpType /\ sock[c] \in SockType
        /\ channel[c].events_ \in SUBSET Bits
    BY <1>9 DEF HandleWrite, TypeOK, ChannelType
  <2>1. PICK w \in WriteOutcomes(http[c], sock[c], channel[c].events_) :
          /\ http' = [http EXCEPT ![c] = w.http]
          /\ channel' = [channel EXCEPT ![c].events_ = w.events]
          /\ sock' = [sock EXCEPT ![c].room = w.room]
    BY <1>9 DEF HandleWrite
  <2>2. w.http \in HttpType /\ w.room \in BOOLEAN /\ w.events \in SUBSET Bits
    BY <2>0, WriteOutcome
  <2>3. http' \in [Conns -> HttpType]
    BY <2>1, <2>2 DEF TypeOK
  <2>4. channel' \in [Conns -> ChannelType]
    BY <2>1, <2>2, Asks DEF TypeOK
  <2>5. sock' \in [Conns -> SockType]
    BY <2>1, <2>2 DEF TypeOK, SockType
  <2> QED
    BY <1>9, <2>0, <2>3, <2>4, <2>5 DEF HandleWrite, TypeOK, pollVars, timerVars
<1>10. ASSUME NEW c \in Conns, HandleConn(c)
       PROVE  TypeOK'
  <2> DEFINE queue == ClearReq(timer_node_queue_, timer_[c])
             made == TimerNode(c, clock, NextTimeout(http[c], channel[c].events_))
  <2>0. /\ cur = c /\ c \in active /\ channel[c] \in ChannelType
        /\ timer_node_queue_ \in SUBSET NodeType /\ clock \in Nat
    BY <1>10 DEF HandleConn, TypeOK
  <2>1. queue \in SUBSET NodeType
    BY <2>0, Cleared
  <2>2. made \in NodeType
    BY <2>0, Timeouts, NodeMade
  <2>3. NextEvents(channel[c].events_) \in SUBSET Bits
    BY <2>0 DEF NextEvents, ChannelType, Bits
  <2>4. http' \in [Conns -> HttpType]
    BY <1>10, Closes DEF HandleConn, TypeOK
  <2>5. channel' \in [Conns -> ChannelType]
    <3>1. {"OUT"} \in SUBSET Bits
      BY DEF Bits
    <3>2. \/ channel' = [channel EXCEPT
                           ![c].events_ = NextEvents(channel[c].events_),
                           ![c].last_events_ = NextEvents(channel[c].events_)]
          \/ channel' = [channel EXCEPT ![c].events_ = {"OUT"}]
          \/ channel' = channel
      BY <1>10, Zenon DEF HandleConn, EpollMod
    <3> QED
      BY <2>3, <3>1, <3>2, Asks, Watches DEF TypeOK
  <2>6. timer_' \in [Conns -> NodeType \union {None}]
    BY <1>10, <2>2 DEF HandleConn, EpollMod, TypeOK
  <2>7. timer_node_queue_' \subseteq NodeType
    BY <1>10, <2>1, <2>2 DEF HandleConn, EpollMod, AddTimer
  <2>8. /\ fd2channel_' \in [Fds -> Conns \union {None}]
        /\ fd2http_' \in [Fds -> Conns \union {None}]
        /\ interest' \in [Conns -> SUBSET Bits]
        /\ edge' \in [Conns -> BOOLEAN]
        /\ sock' = sock
    <3>1. CASE Close({c}) /\ UNCHANGED channel
      BY <3>1, CloseTables DEF Close
    <3>2. CASE UNCHANGED <<pollVars, kernelVars>>
      BY <3>2 DEF TypeOK, pollVars, kernelVars
    <3>3. CASE EpollMod(c, NextEvents(channel[c].events_), queue,
                        NextTimeout(http[c], channel[c].events_))
      <4>1. /\ fd2channel_' \in [Fds -> Conns \union {None}]
            /\ fd2http_' = fd2http_ /\ sock' = sock
        BY <3>3 DEF EpollMod, TypeOK
      <4>2. /\ interest' \in [Conns -> SUBSET Bits]
            /\ edge' \in [Conns -> BOOLEAN]
        <5>1. \/ /\ interest' = [interest EXCEPT ![c] = NextEvents(channel[c].events_)]
                 /\ edge' = [edge EXCEPT ![c] =
                       Watched(PollState(sock[c]), NextEvents(channel[c].events_)) # {}]
              \/ interest' = interest /\ edge' = edge
          BY <3>3 DEF EpollMod
        <5>2. interest' \in [Conns -> SUBSET Bits]
          BY <2>3, <5>1 DEF TypeOK
        <5>3. edge' \in [Conns -> BOOLEAN]
          BY <5>1 DEF TypeOK
        <5> QED
          BY <5>2, <5>3
      <4> QED
        BY <4>1, <4>2 DEF TypeOK
    <3> QED
      BY <1>10, <3>1, <3>2, <3>3 DEF HandleConn, pollVars, kernelVars
  <2> QED
    BY <1>10, <2>0, <2>4, <2>5, <2>6, <2>7, <2>8 DEF HandleConn, TypeOK
<1>11. CASE DoPendingFunctors
  BY <1>11 DEF DoPendingFunctors, TypeOK, pollVars, timerVars, kernelVars
<1>12. ASSUME NEW c \in Conns, NewEvent(c)
       PROVE  TypeOK'
  <2> DEFINE made == TimerNode(c, clock, kDefaultExpiredTime)
  <2>1. made \in NodeType
    BY Timeouts, NodeMade DEF TypeOK
  <2>2. timer_node_queue_' \subseteq NodeType
    BY <1>12, <2>1 DEF NewEvent, EpollAdd, AddTimer, TypeOK
  <2>3. timer_' \in [Conns -> NodeType \union {None}]
    BY <1>12, <2>1 DEF NewEvent, EpollAdd, TypeOK
  <2>4. channel' \in [Conns -> ChannelType]
    <3>1. {"IN", "ONESHOT"} \in SUBSET Bits
      BY DEF Bits
    <3> QED
      BY <1>12, <3>1, Watches DEF NewEvent, TypeOK
  <2>5. /\ fd2channel_' \in [Fds -> Conns \union {None}]
        /\ fd2http_' \in [Fds -> Conns \union {None}]
    <3>1. fd2http_' = [fd2http_ EXCEPT ![http[c].fd_] = c]
      BY <1>12 DEF NewEvent, EpollAdd
    <3>2. \/ fd2channel_' = [fd2channel_ EXCEPT ![http[c].fd_] = c]
          \/ fd2channel_' = [fd2channel_ EXCEPT ![http[c].fd_] = None]
      BY <1>12 DEF NewEvent, EpollAdd
    <3> QED
      BY <3>1, <3>2 DEF TypeOK
  <2>6. interest' \in [Conns -> SUBSET Bits] /\ edge' \in [Conns -> BOOLEAN]
    <3>1. {"IN", "ONESHOT"} \in SUBSET Bits
      BY DEF Bits
    <3>2. \/ /\ interest' = [interest EXCEPT ![c] = {"IN", "ONESHOT"}]
             /\ edge' = [edge EXCEPT ![c] =
                           Watched(PollState(sock[c]), {"IN", "ONESHOT"}) # {}]
          \/ interest' = interest /\ edge' = edge
      BY <1>12 DEF NewEvent, EpollAdd
    <3>3. interest' \in [Conns -> SUBSET Bits]
      BY <3>1, <3>2 DEF TypeOK
    <3>4. edge' \in [Conns -> BOOLEAN]
      BY <3>2 DEF TypeOK
    <3> QED
      BY <3>3, <3>4
  <2>7. functors' \in Seq(Conns) /\ phase = "functors"
    BY <1>12 DEF NewEvent, TypeOK
  <2> QED
    BY <1>12, <2>2, <2>3, <2>4, <2>5, <2>6, <2>7 DEF NewEvent, TypeOK
<1>13. CASE FunctorsDone
  BY <1>13 DEF FunctorsDone, TypeOK, pollVars, timerVars, kernelVars
<1>14. CASE HandleExpired
  <2>1. PICK popped \in Popped(timer_node_queue_, clock) :
          /\ timer_node_queue_' = timer_node_queue_ \ popped
          /\ Close({n.sp_http_data_ : n \in popped} \ {None})
    BY <1>14 DEF HandleExpired
  <2>2. {n.sp_http_data_ : n \in popped} \ {None} \in SUBSET Conns
    BY PoppedNodes DEF TypeOK, NodeType
  <2>3. http' \in [Conns -> HttpType]
    BY <2>1, <2>2, Closes
  <2>4. /\ fd2channel_' \in [Fds -> Conns \union {None}]
        /\ fd2http_' \in [Fds -> Conns \union {None}]
        /\ interest' \in [Conns -> SUBSET Bits]
        /\ edge' \in [Conns -> BOOLEAN]
    BY <2>1, <2>2, CloseTables
  <2>5. sock' = sock /\ timer_node_queue_' \subseteq NodeType
    BY <2>1 DEF Close, TypeOK
  <2> QED
    BY <1>14, <2>3, <2>4, <2>5 DEF HandleExpired, TypeOK
<1> QED
  BY <1>1, <1>2, <1>3, <1>4, <1>5, <1>6, <1>7, <1>8, <1>9, <1>10, <1>11, <1>12,
     <1>13, <1>14 DEF Next, LoopStep, Environment

\* No step reads what was not sent.
LEMMA BufferedStep ==
  ASSUME TypeOK, Buffered, [Next]_vars
  PROVE  Buffered'
<1> SUFFICES ASSUME NEW d \in Conns
             PROVE  http'[d].in_buffer_ + sock'[d].rx <= sock'[d].sent
  BY DEF Buffered
<1>0. /\ http[d].in_buffer_ \in Nat /\ sock[d].rx \in Nat /\ sock[d].sent \in Nat
      /\ http[d].in_buffer_ + sock[d].rx <= sock[d].sent
  BY BoundsAssumption DEF TypeOK, HttpType, SockType, Buffered
<1>1. CASE UNCHANGED <<http, sock>>
  BY <1>0, <1>1
<1>2. ASSUME NEW c \in Conns, Accept(c)
      PROVE  http'[d].in_buffer_ = http[d].in_buffer_ /\ sock' = sock
  <2>1. PICK f \in Fds :
          http' = [http EXCEPT ![c] = [http[c] EXCEPT !.fd_ = f]]
    BY <1>2, Accepts
  <2>2. [http[c] EXCEPT !.fd_ = f].in_buffer_ = http[c].in_buffer_
    BY DEF TypeOK, HttpType
  <2> QED
    BY <1>2, <2>1, <2>2 DEF TypeOK, Accept, kernelVars
<1>3. ASSUME NEW c \in Conns, PeerSends(c)
      PROVE  /\ http' = http
             /\ \/ sock'[d] = sock[d]
                \/ sock'[d].rx = sock[d].rx + 1 /\ sock'[d].sent = sock[d].sent + 1
  <2> DEFINE s == [sock[c] EXCEPT !.rx = @ + 1, !.sent = @ + 1]
  <2>1. s.rx = sock[c].rx + 1 /\ s.sent = sock[c].sent + 1
    BY DEF TypeOK, SockType
  <2>2. http' = http /\ sock' = [sock EXCEPT ![c] = s]
    BY <1>3, Zenon DEF PeerSends, SocketEvent
  <2> HIDE DEF s
  <2> QED
    BY <2>1, <2>2 DEF TypeOK
<1>4. ASSUME NEW c \in Conns, PeerCloses(c) \/ PeerResets(c) \/ PeerDrains(c)
      PROVE  /\ http' = http
             /\ sock'[d].rx = sock[d].rx /\ sock'[d].sent = sock[d].sent
  <2>1. PICK s \in {[sock[c] EXCEPT !.eof = TRUE], [sock[c] EXCEPT !.rst = TRUE],
                    [sock[c] EXCEPT !.room = TRUE]} :
          http' = http /\ sock' = [sock EXCEPT ![c] = s]
    BY <1>4 DEF PeerCloses, PeerResets, PeerDrains, SocketEvent
  <2>2. s.rx = sock[c].rx /\ s.sent = sock[c].sent
    BY DEF TypeOK, SockType
  <2> QED
    BY <2>1, <2>2 DEF TypeOK
<1>5. ASSUME NEW c \in Conns, HandleRead(c)
      PROVE  http'[d].in_buffer_ + sock'[d].rx <= sock'[d].sent
  <2>0. /\ http[c] \in HttpType /\ sock[c] \in SockType
        /\ channel[c].events_ \in SUBSET Bits
        /\ http[c].in_buffer_ + sock[c].rx <= sock[c].sent
    BY DEF TypeOK, ChannelType, Buffered
  <2>1. PICK r, w : ReadWith(c, r, w)
    BY <1>5, HandleReadWith
  <2>2. r.http \in HttpType /\ r.http.in_buffer_ <= sock[c].sent
    BY <2>0, <2>1, ReadOutcome DEF ReadWith
  <2>3. /\ w.http.in_buffer_ = r.http.in_buffer_ /\ w.room \in BOOLEAN
        /\ r.http.in_buffer_ \in Nat
    BY <2>0, <2>1, <2>2, WriteOutcome, BoundsAssumption DEF ReadWith, HttpType
  <2>4. sock' = [sock EXCEPT ![c].rx = 0, ![c].room = w.room] /\ 0 \in 0..MaxSegments
    BY <2>1, BoundsAssumption DEF ReadWith
  <2>5. /\ \A e \in Conns \ {c} : sock'[e] = sock[e]
        /\ sock'[c].rx = 0 /\ sock'[c].sent = sock[c].sent
    BY <2>3, <2>4, SockUpdate DEF TypeOK
  <2>6. http' = [http EXCEPT ![c] = w.http]
    BY <2>1 DEF ReadWith
  <2> QED
    BY <1>0, <2>2, <2>3, <2>5, <2>6 DEF TypeOK
<1>6. ASSUME NEW c \in Conns, HandleWrite(c)
      PROVE  /\ http'[d].in_buffer_ = http[d].in_buffer_
             /\ sock'[d].rx = sock[d].rx /\ sock'[d].sent = sock[d].sent
  <2>0. /\ http[c] \in HttpType /\ sock[c] \in SockType
        /\ channel[c].events_ \in SUBSET Bits
    BY DEF TypeOK, ChannelType
  <2>1. PICK w \in WriteOutcomes(http[c], sock[c], channel[c].events_) :
          /\ http' = [http EXCEPT ![c] = w.http]
          /\ sock' = [sock EXCEPT ![c] = [sock[c] EXCEPT !.room = w.room]]
    BY <1>6 DEF HandleWrite
  <2>2. w.http.in_buffer_ = http[c].in_buffer_
    BY <2>0, WriteOutcome
  <2>3. /\ [sock[c] EXCEPT !.room = w.room].rx = sock[c].rx
        /\ [sock[c] EXCEPT !.room = w.room].sent = sock[c].sent
    BY <2>0 DEF SockType
  <2> QED
    BY <2>1, <2>2, <2>3 DEF TypeOK
<1>7. ASSUME NEW cs \in SUBSET Conns, Close(cs)
      PROVE  http'[d].in_buffer_ = http[d].in_buffer_ /\ sock' = sock
  BY <1>7, Closes DEF Close
<1>8. ASSUME NEW c \in Conns, HandleConn(c)
      PROVE  \/ UNCHANGED <<http, sock>>
             \/ Close({c})
  BY <1>8 DEF HandleConn, EpollMod, kernelVars
<1>9. CASE HandleExpired
  <2>1. PICK popped \in Popped(timer_node_queue_, clock) :
          Close({n.sp_http_data_ : n \in popped} \ {None})
    BY <1>9 DEF HandleExpired
  <2>2. {n.sp_http_data_ : n \in popped} \ {None} \in SUBSET Conns
    BY PoppedNodes DEF TypeOK, NodeType
  <2> QED
    BY <1>0, <1>7, <2>1, <2>2
<1>10. CASE \E c \in Conns : HandleEvents(c) \/ NewEvent(c)
  BY <1>1, <1>10 DEF HandleEvents, NewEvent, EpollAdd, kernelVars
<1>11. CASE Poll \/ DoPendingFunctors \/ FunctorsDone \/ Tick \/ UNCHANGED vars
  BY <1>1, <1>11 DEF Poll, DoPendingFunctors, FunctorsDone, Tick, vars, kernelVars
<1>12. CASE \E c \in Conns : HandleRead(c) \/ HandleWrite(c) \/ HandleConn(c)
  BY <1>0, <1>1, <1>5, <1>6, <1>7, <1>8, <1>12
<1>13. CASE Environment
  BY <1>0, <1>2, <1>3, <1>4, <1>11, <1>13 DEF Environment
<1> QED
  BY <1>9, <1>10, <1>11, <1>12, <1>13 DEF Next, LoopStep

-----------------------------------------------------------------------------
\* Who holds what.

\* A connection in a batch is in both tables, and not a newcomer.
LEMMA Served ==
  ASSUME TypeOK, Tables, Newcomers, NEW c \in active
  PROVE  /\ c \in Conns /\ ~Bound(c)
         /\ http[c].fd_ \in Fds
         /\ fd2channel_[http[c].fd_] = c /\ fd2http_[http[c].fd_] = c
<1>1. PICK f \in Fds : fd2channel_[f] = c
  BY DEF Tables
<1>2. c \in Conns
  BY DEF TypeOK
<1>3. fd2http_[f] = c /\ http[c].fd_ = f
  BY <1>1, <1>2 DEF Tables
<1>4. ~Bound(c)
  BY <1>2, <1>3, ConnsAssumption DEF Newcomers
<1> QED
  BY <1>1, <1>2, <1>3, <1>4

\* The nodes after timer_ of c is told: what is left of a connection's nodes
\* was there before, and belongs to another one.
LEMMA ToldNodes ==
  ASSUME TypeOK, OneTimer, NEW c \in Conns,
         NEW n \in ClearReq(timer_node_queue_, timer_[c])
  PROVE  /\ n \in NodeType
         /\ n.sp_http_data_ # None =>
              n \in timer_node_queue_ /\ n.sp_http_data_ # c
         /\ n \notin timer_node_queue_ => n.deleted_
<1>1. timer_node_queue_ \in SUBSET NodeType
  BY DEF TypeOK
<1>2. n \in NodeType
  BY <1>1, Cleared
<1>3. \/ n \in timer_node_queue_ /\ n # timer_[c]
      \/ n.sp_http_data_ = None /\ n.deleted_
  BY <1>1, Cleared
<1>4. n \in timer_node_queue_ /\ n.sp_http_data_ = c => n = timer_[c] \/ c = None
  BY DEF OneTimer
<1> QED
  BY <1>2, <1>3, <1>4, ConnsAssumption

\* A timer of another connection stays.
LEMMA OtherTimer ==
  ASSUME TypeOK, Nodes, NEW c \in Conns, NEW d \in Conns \ {c},
         timer_[d] \in timer_node_queue_
  PROVE  /\ timer_[d] \in ClearReq(timer_node_queue_, timer_[c])
         /\ timer_[d].sp_http_data_ = d
<1>1. timer_[d] # None
  BY NodeAssumption DEF TypeOK
<1>2. timer_[d] # timer_[c]
  BY <1>1 DEF Nodes
<1> QED
  BY <1>1, <1>2, ClearedKeeps DEF Nodes

\* HandleRead and HandleWrite: they change c alone, in its handlers, and may
\* drop its timer.
LEMMA HandlerOwners ==
  ASSUME TypeOK, TypeOK', Owners, NEW c \in active, cur = c,
         \A d \in Conns \ {c} : http'[d] = http[d],
         http'[c].fd_ = http[c].fd_,
         \/ UNCHANGED timerVars
         \/ /\ timer_node_queue_' = ClearReq(timer_node_queue_, timer_[c])
            /\ timer_' = [timer_ EXCEPT ![c] = None],
         UNCHANGED <<pending_functors_, functors, active, cur, pollVars, interest>>
  PROVE  Owners'
<1>1. /\ c \in Conns /\ ~Bound(c)
      /\ http[c].fd_ \in Fds /\ fd2http_[http[c].fd_] = c
  BY Served DEF Owners
<1>2. \A d \in Conns : Bound(d)' <=> Bound(d)
  BY DEF Bound
<1>3. \A d \in Conns : http'[d].fd_ = http[d].fd_
  OBVIOUS
<1>4. /\ fd2http_' = fd2http_ /\ fd2channel_' = fd2channel_
      /\ active' = active /\ cur' = cur /\ interest' = interest
      /\ pending_functors_' = pending_functors_ /\ functors' = functors
  BY DEF pollVars
<1>5. ASSUME NEW n \in timer_node_queue_'
      PROVE  /\ n \in NodeType
             /\ n.sp_http_data_ # None => n \in timer_node_queue_
             /\ n \in timer_node_queue_ \/ (n.deleted_ /\ n.sp_http_data_ = None)
  BY <1>1, <1>5, ToldNodes, ConnsAssumption DEF Owners, timerVars, TypeOK
<1>6. Tables'
  BY <1>3, <1>4, <1>5, ConnsAssumption DEF Owners, Tables
<1>7. Newcomers'
  <2>1. \A d \in Conns : Bound(d) \/ http[d].fd_ = None => d # c
    BY <1>1, FdsAssumption
  <2> QED
    BY <1>2, <1>3, <1>4, <2>1 DEF Owners, Newcomers
<1>8. BoundOnce'
  BY <1>4 DEF Owners, BoundOnce
<1>9. Nodes'
  <2>1. \A d \in Conns : timer_'[d] = timer_[d] \/ timer_'[d] = None
    BY <1>1 DEF timerVars, TypeOK
  <2> QED
    BY <1>5, <2>1 DEF Owners, Nodes
<1>10. OneTimer'
  <2> SUFFICES ASSUME NEW n \in timer_node_queue_', n.sp_http_data_ # None
               PROVE  timer_'[n.sp_http_data_] = n
    BY DEF OneTimer
  <2>1. n \in timer_node_queue_ /\ timer_[n.sp_http_data_] = n
    BY <1>5 DEF Owners, OneTimer
  <2>2. CASE UNCHANGED timerVars
    BY <2>1, <2>2 DEF timerVars
  <2>3. CASE /\ timer_node_queue_' = ClearReq(timer_node_queue_, timer_[c])
             /\ timer_' = [timer_ EXCEPT ![c] = None]
    <3>1. n.sp_http_data_ # c
      BY <1>1, <2>3, ToldNodes DEF Owners
    <3>2. n.sp_http_data_ \in Conns
      BY <2>1 DEF TypeOK, NodeType
    <3> QED
      BY <2>1, <2>3, <3>1, <3>2 DEF TypeOK
  <2> QED
    BY <2>2, <2>3
<1>11. Timed'
  <2> SUFFICES ASSUME NEW d \in Conns, NEW f \in Fds, d # c, fd2http_[f] = d,
                      http[d].connection_state_ = "H_CONNECTED"
               PROVE  timer_'[d] \in timer_node_queue_'
    BY <1>4 DEF Timed
  <2>1. timer_[d] \in timer_node_queue_
    BY DEF Owners, Timed
  <2>2. CASE UNCHANGED timerVars
    BY <2>1, <2>2 DEF timerVars
  <2>3. CASE /\ timer_node_queue_' = ClearReq(timer_node_queue_, timer_[c])
             /\ timer_' = [timer_ EXCEPT ![c] = None]
    BY <1>1, <2>1, <2>3, OtherTimer DEF Owners, TypeOK
  <2> QED
    BY <2>2, <2>3
<1>12. Gone'
  BY <1>2, <1>4 DEF Owners, Gone
<1> QED
  BY <1>6, <1>7, <1>8, <1>9, <1>10, <1>11, <1>12 DEF Owners

\* HandleConn on a connection that goes on: a new timer, the same tables (or
\* none of the channel, if epoll_ctl fails).
LEMMA ConnGoesOnOwners ==
  ASSUME TypeOK, TypeOK', Owners, NEW c \in active, cur = c,
         NEW events \in SUBSET Bits, NEW timeout \in Nat,
         ~http[c].error_, http[c].connection_state_ = "H_CONNECTED",
         EpollMod(c, events, ClearReq(timer_node_queue_, timer_[c]), timeout),
         cur' = None, active' = active \ {c},
         UNCHANGED <<http, pending_functors_, functors>>
  PROVE  Owners'
<1> DEFINE made == TimerNode(c, clock, timeout)
<1>1. /\ c \in Conns /\ ~Bound(c)
      /\ http[c].fd_ \in Fds
      /\ fd2channel_[http[c].fd_] = c /\ fd2http_[http[c].fd_] = c
  BY Served DEF Owners
<1>2. \A d \in Conns : Bound(d)' <=> Bound(d)
  BY DEF Bound
<1>3. made \in NodeType /\ made.sp_http_data_ = c /\ ~made.deleted_
  BY <1>1, NodeMade DEF TypeOK
<1>4. /\ timer_node_queue_' = ClearReq(timer_node_queue_, timer_[c]) \union {made}
      /\ timer_' = [timer_ EXCEPT ![c] = made]
      /\ fd2http_' = fd2http_
      /\ \/ fd2channel_' = fd2channel_
         \/ fd2channel_' = [fd2channel_ EXCEPT ![http[c].fd_] = None]
      /\ \/ interest' = interest
         \/ interest' = [interest EXCEPT ![c] = events]
  BY DEF EpollMod, AddTimer
<1> HIDE DEF made
<1>5. ASSUME NEW n \in timer_node_queue_'
      PROVE  \/ n = made
             \/ /\ n.sp_http_data_ # None =>
                      n \in timer_node_queue_ /\ n.sp_http_data_ # c
                /\ n \in timer_node_queue_ \/ (n.deleted_ /\ n.sp_http_data_ = None)
  BY <1>1, <1>4, <1>5, ToldNodes, ConnsAssumption DEF Owners
<1>6. Tables'
  <2>1. \A f \in Fds, d \in Conns : fd2http_'[f] = d => http'[d].fd_ = f
    BY <1>4 DEF Owners, Tables
  <2>2. \A f \in Fds, d \in Conns : fd2channel_'[f] = d => fd2channel_[f] = d
    BY <1>4, ConnsAssumption DEF TypeOK
  <2>3. \A f \in Fds, d \in Conns : fd2channel_'[f] = d => fd2http_'[f] = d
    BY <1>4, <2>2 DEF Owners, Tables
  <2>4. \A n \in timer_node_queue_', d \in Conns :
          n.sp_http_data_ = d => \E f \in Fds : fd2http_'[f] = d
    BY <1>1, <1>3, <1>4, <1>5, ConnsAssumption DEF Owners, Tables
  <2>5. \A d \in active' : \E f \in Fds : fd2channel_'[f] = d
    <3> SUFFICES ASSUME NEW d \in active, d # c
                 PROVE  \E f \in Fds : fd2channel_'[f] = d
      OBVIOUS
    <3>1. /\ d \in Conns /\ http[d].fd_ \in Fds
          /\ fd2channel_[http[d].fd_] = d
      BY Served DEF Owners
    <3>2. http[d].fd_ # http[c].fd_
      BY <1>1, <3>1
    <3>3. fd2channel_'[http[d].fd_] = d
      BY <1>4, <3>1, <3>2 DEF TypeOK
    <3> QED
      BY <3>1, <3>3
  <2>6. \A d \in Conns : interest'[d] # {} => http'[d].fd_ \in Fds
    <3> SUFFICES ASSUME NEW d \in Conns, interest'[d] # {}
                 PROVE  http[d].fd_ \in Fds
      OBVIOUS
    <3>1. CASE d = c
      BY <1>1, <3>1
    <3>2. CASE d # c
      <4>1. interest[d] # {}
        BY <1>4, <3>2 DEF TypeOK
      <4> QED
        BY <4>1 DEF Owners, Tables
    <3> QED
      BY <3>1, <3>2
  <2> QED
    BY <2>1, <2>3, <2>4, <2>5, <2>6 DEF Tables
<1>7. Newcomers'
  BY <1>2, <1>4 DEF Owners, Newcomers
<1>8. BoundOnce'
  BY DEF Owners, BoundOnce
<1>9. Nodes'
  <2>1. \A d \in Conns : timer_'[d] = timer_[d] \/ (d = c /\ timer_'[d] = made)
    BY <1>1, <1>4 DEF TypeOK
  <2> QED
    BY <1>1, <1>3, <1>5, <2>1, ConnsAssumption DEF Owners, Nodes
<1>10. OneTimer'
  <2> SUFFICES ASSUME NEW n \in timer_node_queue_', n.sp_http_data_ # None
               PROVE  timer_'[n.sp_http_data_] = n
    BY DEF OneTimer
  <2>1. CASE n = made
    BY <1>1, <1>3, <1>4, <2>1 DEF TypeOK
  <2>2. CASE n # made
    <3>1. /\ n \in timer_node_queue_ /\ n.sp_http_data_ # c
          /\ timer_[n.sp_http_data_] = n
      BY <1>5, <2>2 DEF Owners, OneTimer
    <3>2. n.sp_http_data_ \in Conns
      BY <3>1 DEF TypeOK, NodeType
    <3> QED
      BY <1>4, <3>1, <3>2 DEF TypeOK
  <2> QED
    BY <2>1, <2>2
<1>11. Timed'
  <2> SUFFICES ASSUME NEW d \in Conns, NEW f \in Fds, fd2http_[f] = d,
                      http[d].connection_state_ = "H_CONNECTED"
               PROVE  timer_'[d] \in timer_node_queue_'
    BY <1>4 DEF Timed
  <2>1. CASE d = c
    BY <1>1, <1>4, <2>1 DEF TypeOK
  <2>2. CASE d # c
    <3>1. timer_[d] \in timer_node_queue_
      BY <2>2 DEF Owners, Timed
    <3> QED
      BY <1>1, <1>4, <2>2, <3>1, OtherTimer DEF Owners, TypeOK
  <2> QED
    BY <2>1, <2>2
<1>12. Gone'
  BY <1>2, <1>4 DEF Owners, Gone
<1> QED
  BY <1>6, <1>7, <1>8, <1>9, <1>10, <1>11, <1>12 DEF Owners

\* A half-closed connection that still has output to write: no timer.
LEMMA ConnFlushingOwners ==
  ASSUME TypeOK, TypeOK', Owners, NEW c \in active, cur = c,
         ~http[c].error_, http[c].connection_state_ = "H_DISCONNECTING",
         timer_node_queue_' = ClearReq(timer_node_queue_, timer_[c]),
         timer_' = [timer_ EXCEPT ![c] = None],
         cur' = None, active' = active \ {c},
         UNCHANGED <<http, pending_functors_, functors, pollVars, interest>>
  PROVE  Owners'
<1>1. /\ c \in Conns /\ fd2http_' = fd2http_ /\ fd2channel_' = fd2channel_
      /\ \A d \in Conns : Bound(d)' <=> Bound(d)
  BY DEF TypeOK, Bound, pollVars
<1>2. ASSUME NEW n \in timer_node_queue_'
      PROVE  /\ n \in NodeType
             /\ n.sp_http_data_ # None =>
                  n \in timer_node_queue_ /\ n.sp_http_data_ # c
             /\ n \in timer_node_queue_ \/ (n.deleted_ /\ n.sp_http_data_ = None)
  BY <1>1, <1>2, ToldNodes DEF Owners
<1>3. Tables'
  BY <1>1, <1>2, ConnsAssumption DEF Owners, Tables
<1>4. Newcomers'
  BY <1>1 DEF Owners, Newcomers
<1>5. BoundOnce'
  BY DEF Owners, BoundOnce
<1>6. Nodes'
  <2>1. \A d \in Conns : timer_'[d] = timer_[d] \/ timer_'[d] = None
    BY <1>1 DEF TypeOK
  <2> QED
    BY <1>2, <2>1 DEF Owners, Nodes
<1>7. OneTimer'
  <2> SUFFICES ASSUME NEW n \in timer_node_queue_', n.sp_http_data_ # None
               PROVE  timer_'[n.sp_http_data_] = n
    BY DEF OneTimer
  <2>1. /\ n \in timer_node_queue_ /\ n.sp_http_data_ # c
        /\ timer_[n.sp_http_data_] = n
    BY <1>2 DEF Owners, OneTimer
  <2>2. n.sp_http_data_ \in Conns
    BY <2>1 DEF TypeOK, NodeType
  <2> QED
    BY <2>1, <2>2 DEF TypeOK
<1>8. Timed'
  <2> SUFFICES ASSUME NEW d \in Conns, NEW f \in Fds, fd2http_[f] = d,
                      http[d].connection_state_ = "H_CONNECTED"
               PROVE  timer_'[d] \in timer_node_queue_'
    BY <1>1 DEF Timed
  <2>1. d # c
    OBVIOUS
  <2>2. timer_[d] \in timer_node_queue_
    BY <2>1 DEF Owners, Timed
  <2> QED
    BY <1>1, <2>1, <2>2, OtherTimer DEF Owners, TypeOK
<1>9. Gone'
  BY <1>1 DEF Owners, Gone
<1> QED
  BY <1>3, <1>4, <1>5, <1>6, <1>7, <1>8, <1>9 DEF Owners

\* HandleClose of the connections of a set, whose nodes leave the queue.
LEMMA CloseOwners ==
  ASSUME TypeOK, TypeOK', Owners, NEW cs \in SUBSET Conns, Close(cs),
         \A c \in cs : \E f \in Fds : fd2http_[f] = c,
         \A n \in timer_node_queue_' :
           /\ n.sp_http_data_ # None =>
                n \in timer_node_queue_ /\ n.sp_http_data_ \notin cs
           /\ n \in timer_node_queue_ \/ (n.deleted_ /\ n.sp_http_data_ = None),
         \A d \in Conns \ cs :
           /\ timer_'[d] = timer_[d]
           /\ timer_[d] \in timer_node_queue_ => timer_[d] \in timer_node_queue_',
         \A d \in cs : timer_'[d] = timer_[d] \/ timer_'[d] = None,
         active' = active \ cs, cur' = None, cur \in cs \union {None},
         UNCHANGED <<pending_functors_, functors>>
  PROVE  Owners'
<1>1. \A c \in cs :
        /\ http[c].fd_ \in Fds /\ fd2http_[http[c].fd_] = c /\ ~Bound(c)
  <2> TAKE c \in cs
  <2>1. PICK f \in Fds : fd2http_[f] = c
    OBVIOUS
  <2>2. http[c].fd_ = f
    BY <2>1 DEF Owners, Tables
  <2> QED
    BY <2>1, <2>2, ConnsAssumption DEF Owners, Newcomers
<1>2. \A d \in Conns : Bound(d)' <=> Bound(d)
  BY DEF Bound
<1>3. /\ \A d \in Conns \ cs : http'[d] = http[d]
      /\ \A d \in Conns : http'[d].fd_ = http[d].fd_
      /\ \A d \in cs : http'[d].connection_state_ = "H_DISCONNECTED"
  BY Closes
<1> DEFINE gone == {http[c].fd_ : c \in cs}
<1>4. /\ fd2http_' = [f \in Fds |-> IF f \in gone THEN None ELSE fd2http_[f]]
      /\ fd2channel_' = [f \in Fds |-> IF f \in gone THEN None ELSE fd2channel_[f]]
      /\ interest' = [c \in Conns |-> IF c \in cs THEN {} ELSE interest[c]]
  BY DEF Close
<1>5. \A f \in Fds, d \in Conns : fd2http_'[f] = d <=> fd2http_[f] = d /\ d \notin cs
  <2> TAKE f \in Fds, d \in Conns
  <2>1. CASE f \in gone
    <3>1. PICK c \in cs : f = http[c].fd_
      BY <2>1
    <3>2. fd2http_[f] = c
      BY <1>1, <3>1
    <3> QED
      BY <1>4, <2>1, <3>2, ConnsAssumption
  <2>2. CASE f \notin gone
    <3>1. fd2http_[f] = d => http[d].fd_ = f
      BY DEF Owners, Tables
    <3>2. d \in cs => fd2http_[f] # d
      BY <2>2, <3>1
    <3> QED
      BY <1>4, <2>2, <3>2
  <2> QED
    BY <2>1, <2>2
<1>6. \A f \in Fds, d \in Conns :
        fd2channel_'[f] = d <=> fd2channel_[f] = d /\ d \notin cs
  <2> TAKE f \in Fds, d \in Conns
  <2>1. CASE f \in gone
    <3>1. PICK c \in cs : f = http[c].fd_
      BY <2>1
    <3>2. fd2http_[f] = c
      BY <1>1, <3>1
    <3>3. fd2channel_[f] = d => d = c
      BY <3>2 DEF Owners, Tables
    <3> QED
      BY <1>4, <2>1, <3>1, <3>3, ConnsAssumption
  <2>2. CASE f \notin gone
    <3>1. fd2channel_[f] = d => http[d].fd_ = f
      BY DEF Owners, Tables
    <3>2. d \in cs => fd2channel_[f] # d
      BY <2>2, <3>1
    <3> QED
      BY <1>4, <2>2, <3>2
  <2> QED
    BY <2>1, <2>2
<1> HIDE DEF gone
<1>7. Tables'
  <2>1. \A f \in Fds, d \in Conns : fd2http_'[f] = d => http'[d].fd_ = f
    BY <1>3, <1>5 DEF Owners, Tables
  <2>2. \A f \in Fds, d \in Conns : fd2channel_'[f] = d => fd2http_'[f] = d
    BY <1>5, <1>6 DEF Owners, Tables
  <2>3. \A n \in timer_node_queue_', d \in Conns :
          n.sp_http_data_ = d => \E f \in Fds : fd2http_'[f] = d
    BY <1>5, ConnsAssumption DEF Owners, Tables
  <2>4. \A d \in active' : \E f \in Fds : fd2channel_'[f] = d
    BY <1>6 DEF Owners, Tables, TypeOK
  <2>5. \A d \in Conns : interest'[d] # {} => http'[d].fd_ \in Fds
    BY <1>3, <1>4 DEF Owners, Tables
  <2> QED
    BY <2>1, <2>2, <2>3, <2>4, <2>5 DEF Tables
<1>8. Newcomers'
  <2>1. \A d \in Conns : Bound(d) \/ http[d].fd_ = None => d \notin cs
    BY <1>1, FdsAssumption
  <2>2. \A d \in Conns : Bound(d)' \/ http'[d].fd_ = None => Fresh(http'[d])
    BY <1>2, <1>3, <2>1 DEF Owners, Newcomers
  <2>3. \A d \in Conns :
          Bound(d)' => http'[d].fd_ \in Fds /\ fd2http_'[http'[d].fd_] = None
    BY <1>2, <1>3, <1>4 DEF Owners, Newcomers
  <2> QED
    BY <1>2, <1>3, <2>2, <2>3 DEF Owners, Newcomers
<1>9. BoundOnce'
  BY DEF Owners, BoundOnce
<1>10. Nodes'
  <2>1. \A d \in Conns : timer_'[d] = timer_[d] \/ timer_'[d] = None
    OBVIOUS
  <2> QED
    BY <2>1 DEF Owners, Nodes
<1>11. OneTimer'
  <2> SUFFICES ASSUME NEW n \in timer_node_queue_', n.sp_http_data_ # None
               PROVE  timer_'[n.sp_http_data_] = n
    BY DEF OneTimer
  <2>1. /\ n \in timer_node_queue_ /\ n.sp_http_data_ \notin cs
        /\ timer_[n.sp_http_data_] = n
    BY DEF Owners, OneTimer
  <2>2. n.sp_http_data_ \in Conns
    BY <2>1 DEF TypeOK, NodeType
  <2> QED
    BY <2>1, <2>2
<1>12. Timed'
  <2> SUFFICES ASSUME NEW d \in Conns, NEW f \in Fds, fd2http_[f] = d, d \notin cs,
                      http[d].connection_state_ = "H_CONNECTED"
               PROVE  timer_'[d] \in timer_node_queue_'
    BY <1>3, <1>5 DEF Timed
  <2> QED
    BY ConnsAssumption DEF Owners, Timed
<1>13. Gone'
  <2> SUFFICES ASSUME NEW d \in Conns,
                      http'[d].error_ \/ http'[d].connection_state_ = "H_DISCONNECTED"
               PROVE  ~Bound(d) /\ \A f \in Fds : fd2http_'[f] # d
    BY <1>2 DEF Gone
  <2>1. CASE d \in cs
    BY <1>1, <1>5, <2>1
  <2>2. CASE d \notin cs
    BY <1>3, <1>5, <2>2, ConnsAssumption DEF Owners, Gone
  <2> QED
    BY <2>1, <2>2
<1> QED
  BY <1>7, <1>8, <1>9, <1>10, <1>11, <1>12, <1>13 DEF Owners

\* HandNewConn: a newcomer on a descriptor that nobody alive has.
LEMMA AcceptOwners ==
  ASSUME TypeOK, TypeOK', Owners, NEW c \in Conns, Accept(c)
  PROVE  Owners'
<1>1. PICK f \in FreeFds :
        /\ f \in Fds
        /\ http' = [http EXCEPT ![c] = [http[c] EXCEPT !.fd_ = f]]
        /\ [http[c] EXCEPT !.fd_ = f].fd_ = f
  BY Accepts, Zenon
<1>2. /\ http[c].fd_ = None
      /\ pending_functors_' = Append(pending_functors_, c)
      /\ functors' = functors
      /\ UNCHANGED <<active, cur, fd2channel_, fd2http_, timer_, timer_node_queue_,
                     interest>>
  BY DEF Accept, pollVars, timerVars, kernelVars
<1>3. Fresh(http[c]) /\ ~Bound(c) /\ \A g \in Fds : fd2http_[g] # c
  <2>1. ~Bound(c)
    BY <1>2, FdsAssumption DEF Owners, Newcomers
  <2> QED
    BY <1>2, <2>1, FdsAssumption DEF Owners, Newcomers, Tables
<1>4. fd2http_[f] = None /\ \A d \in Conns : Bound(d) => http[d].fd_ # f
  <2>1. \A d \in Conns : Alive(d) => http[d].fd_ # f
    BY <1>1 DEF FreeFds
  <2>2. \A d \in Conns : Bound(d) => Alive(d)
    BY DEF Bound, Alive
  <2>3. \A d \in Conns : fd2http_[f] = d => Alive(d) /\ http[d].fd_ = f
    BY <1>1 DEF Alive, Owners, Tables
  <2>4. fd2http_[f] \in Conns \union {None}
    BY <1>1 DEF TypeOK
  <2> QED
    BY <2>1, <2>2, <2>3, <2>4
<1>5. \A d \in Conns : Bound(d)' <=> Bound(d) \/ d = c
  <2> DEFINE n == Len(pending_functors_) + 1
  <2>1. pending_functors_ \in Seq(Conns)
    BY DEF TypeOK
  <2>2. n \in DOMAIN pending_functors_' /\ pending_functors_'[n] = c
    BY <1>2, <2>1
  <2>3. \A i \in DOMAIN pending_functors_ :
          i \in DOMAIN pending_functors_' /\ pending_functors_'[i] = pending_functors_[i]
    BY <1>2, <2>1
  <2>4. \A i \in DOMAIN pending_functors_' : i \in DOMAIN pending_functors_ \/ i = n
    BY <1>2, <2>1
  <2> HIDE DEF n
  <2> QED
    BY <1>2, <2>2, <2>3, <2>4 DEF Bound
<1>6. /\ \A d \in Conns \ {c} : http'[d] = http[d]
      /\ http'[c].fd_ = f
  BY <1>1 DEF TypeOK
<1>7. Fresh(http'[c])
  <2>1. http[c] \in HttpType /\ Fresh(http[c])
    BY <1>3 DEF TypeOK
  <2>2. http'[c] = [http[c] EXCEPT !.fd_ = f]
    BY <1>1 DEF TypeOK
  <2> QED
    BY <2>1, <2>2 DEF Fresh, HttpType
<1>8. Tables'
  <2>1. \A g \in Fds, d \in Conns : fd2http_[g] = d => d # c
    BY <1>3
  <2>2. interest[c] = {}
    BY <1>2, FdsAssumption DEF Owners, Tables
  <2> QED
    BY <1>2, <1>6, <2>1, <2>2 DEF Owners, Tables
<1>9. Newcomers'
  BY <1>1, <1>2, <1>4, <1>5, <1>6, <1>7 DEF Owners, Newcomers
<1>10. BoundOnce'
  <2>1. \A i \in DOMAIN pending_functors_ : pending_functors_[i] # c
    BY <1>3 DEF Bound
  <2>2. \A i \in DOMAIN functors : functors[i] # c
    BY <1>3 DEF Bound
  <2>3. pending_functors_ \in Seq(Conns) /\ functors \in Seq(Conns)
    BY DEF TypeOK
  <2> QED
    BY <1>2, <2>1, <2>2, <2>3 DEF Owners, BoundOnce
<1>11. Nodes' /\ OneTimer'
  BY <1>2 DEF Owners, Nodes, OneTimer
<1>12. Timed'
  <2>1. \A g \in Fds, d \in Conns : fd2http_[g] = d => d # c
    BY <1>3
  <2> QED
    BY <1>2, <1>6, <2>1 DEF Owners, Timed
<1>13. Gone'
  <2> SUFFICES ASSUME NEW d \in Conns, d # cur,
                      http'[d].error_ \/ http'[d].connection_state_ = "H_DISCONNECTED"
               PROVE  ~Bound(d)' /\ \A g \in Fds : fd2http_[g] # d
    BY <1>2 DEF Gone
  <2>1. d # c
    BY <1>7 DEF Fresh
  <2> QED
    BY <1>5, <1>6, <2>1 DEF Owners, Gone
<1> QED
  BY <1>8, <1>9, <1>10, <1>11, <1>12, <1>13 DEF Owners

\* NewEvent: the newcomer enters the tables, with its timer.
LEMMA NewEventOwners ==
  ASSUME TypeOK, TypeOK', Owners, NEW c \in Conns, NewEvent(c)
  PROVE  Owners'
<1> DEFINE made == TimerNode(c, clock, kDefaultExpiredTime)
           f == http[c].fd_
<1>1. /\ functors # <<>> /\ c = Head(functors) /\ functors' = Tail(functors)
      /\ UNCHANGED <<http, pending_functors_, active, cur>>
      /\ phase = "functors"
  BY DEF NewEvent
<1>2. /\ timer_node_queue_' = timer_node_queue_ \union {made}
      /\ timer_' = [timer_ EXCEPT ![c] = made]
      /\ fd2http_' = [fd2http_ EXCEPT ![f] = c]
      /\ \/ fd2channel_' = [fd2channel_ EXCEPT ![f] = c]
         \/ fd2channel_' = [fd2channel_ EXCEPT ![f] = None]
      /\ \/ interest' = [interest EXCEPT ![c] = {"IN", "ONESHOT"}]
         \/ interest' = interest
  BY DEF NewEvent, EpollAdd, AddTimer
<1>3. made \in NodeType /\ made.sp_http_data_ = c /\ ~made.deleted_
  BY NodeMade, Timeouts DEF TypeOK
<1> HIDE DEF made
<1>4. functors \in Seq(Conns) /\ 1 \in DOMAIN functors /\ functors[1] = c
  BY <1>1 DEF TypeOK
<1>5. /\ Bound(c) /\ f \in Fds /\ fd2http_[f] = None /\ Fresh(http[c])
      /\ active = {} /\ cur = None
  <2>1. Bound(c)
    BY <1>4 DEF Bound
  <2> QED
    BY <1>1, <2>1 DEF Owners, Newcomers, TypeOK
<1>6. \A d \in Conns : Bound(d)' <=> Bound(d) /\ d # c
  <2>1. \A i \in DOMAIN pending_functors_ : pending_functors_[i] # c
    BY <1>4 DEF Owners, BoundOnce
  <2>2. \A i \in DOMAIN functors : functors[i] = c => i = 1
    BY <1>4 DEF Owners, BoundOnce
  <2>3. \A d : (\E i \in DOMAIN functors' : functors'[i] = d)
             <=> (\E i \in DOMAIN functors : i # 1 /\ functors[i] = d)
    <3>1. \A i \in DOMAIN functors' :
            i + 1 \in DOMAIN functors /\ i + 1 # 1 /\ functors'[i] = functors[i + 1]
      BY <1>1, <1>4
    <3>2. \A i \in DOMAIN functors : i # 1 =>
            i - 1 \in DOMAIN functors' /\ functors'[i - 1] = functors[i]
      BY <1>1, <1>4
    <3> QED
      BY <3>1, <3>2
  <2>4. \A d : (\E i \in DOMAIN functors' : functors'[i] = d)
             <=> d # c /\ \E i \in DOMAIN functors : functors[i] = d
    BY <1>4, <2>2, <2>3
  <2> QED
    BY <1>1, <2>1, <2>4 DEF Bound
<1>7. \A g \in Fds, d \in Conns :
        fd2http_'[g] = d <=> (g = f /\ d = c) \/ fd2http_[g] = d
  BY <1>2, <1>5, ConnsAssumption DEF TypeOK
<1>8. \A g \in Fds : fd2http_[g] # c
  BY <1>5, ConnsAssumption DEF Owners, Tables
<1> HIDE DEF f
<1>9. Tables'
  <2>1. \A g \in Fds, d \in Conns : fd2http_'[g] = d => http'[d].fd_ = g
    BY <1>1, <1>7 DEF Owners, Tables, f
  <2>2. \A g \in Fds, d \in Conns : fd2channel_'[g] = d => fd2http_'[g] = d
    BY <1>2, <1>5, <1>7, ConnsAssumption DEF Owners, Tables, TypeOK
  <2>3. \A n \in timer_node_queue_', d \in Conns :
          n.sp_http_data_ = d => \E g \in Fds : fd2http_'[g] = d
    <3> TAKE n \in timer_node_queue_', d \in Conns
    <3>1. CASE n = made
      BY <1>3, <1>5, <1>7, <3>1
    <3>2. CASE n \in timer_node_queue_
      <4>1. n.sp_http_data_ = d => \E g \in Fds : fd2http_[g] = d
        BY <3>2 DEF Owners, Tables
      <4> QED
        BY <1>7, <4>1
    <3> QED
      BY <1>2, <3>1, <3>2
  <2>4. \A d \in Conns : interest'[d] # {} => http'[d].fd_ \in Fds
    <3>1. \A d \in Conns \ {c} : interest'[d] = interest[d]
      BY <1>2 DEF TypeOK
    <3>2. http'[c].fd_ \in Fds
      BY <1>1, <1>5 DEF f
    <3> QED
      BY <1>1, <3>1, <3>2 DEF Owners, Tables
  <2> QED
    BY <1>1, <1>5, <2>1, <2>2, <2>3, <2>4 DEF Tables
<1>10. Newcomers'
  <2>1. \A d \in Conns : Bound(d) /\ d # c => http[d].fd_ # f
    BY <1>5 DEF Owners, Newcomers, f
  <2>2. \A d \in Conns : Bound(d)' =>
          http'[d].fd_ \in Fds /\ fd2http_'[http'[d].fd_] = None
    BY <1>1, <1>2, <1>6, <2>1 DEF Owners, Newcomers, TypeOK
  <2>3. \A d \in Conns : Bound(d)' \/ http'[d].fd_ = None => Fresh(http'[d])
    BY <1>1, <1>6 DEF Owners, Newcomers
  <2> QED
    BY <1>1, <1>6, <2>2, <2>3 DEF Owners, Newcomers
<1>11. BoundOnce'
  <2>1. \A i \in DOMAIN functors' :
          i + 1 \in DOMAIN functors /\ functors'[i] = functors[i + 1] /\ i \in Nat
    BY <1>1, <1>4
  <2>2. \A i, j \in DOMAIN functors' : functors'[i] = functors'[j] => i = j
    <3> TAKE i \in DOMAIN functors', j \in DOMAIN functors'
    <3>1. functors[i + 1] = functors[j + 1] => i + 1 = j + 1
      BY <2>1 DEF Owners, BoundOnce
    <3> QED
      BY <2>1, <3>1
  <2>3. \A i \in DOMAIN pending_functors_, j \in DOMAIN functors' :
          pending_functors_[i] # functors'[j]
    BY <2>1 DEF Owners, BoundOnce
  <2> QED
    BY <1>1, <2>2, <2>3 DEF Owners, BoundOnce
<1>12. Nodes'
  BY <1>2, <1>3, ConnsAssumption DEF Owners, Nodes, TypeOK
<1>13. OneTimer'
  <2> SUFFICES ASSUME NEW n \in timer_node_queue_', n.sp_http_data_ # None
               PROVE  timer_'[n.sp_http_data_] = n
    BY DEF OneTimer
  <2>1. CASE n = made
    BY <1>2, <1>3, <2>1 DEF TypeOK
  <2>2. CASE n \in timer_node_queue_
    <3>1. n.sp_http_data_ \in Conns /\ timer_[n.sp_http_data_] = n
      BY <2>2 DEF Owners, OneTimer, TypeOK, NodeType
    <3>2. n.sp_http_data_ # c
      BY <1>8, <2>2 DEF Owners, Tables
    <3> QED
      BY <1>2, <3>1, <3>2 DEF TypeOK
  <2> QED
    BY <1>2, <2>1, <2>2
<1>14. Timed'
  <2> SUFFICES ASSUME NEW d \in Conns, NEW g \in Fds, fd2http_'[g] = d,
                      http[d].connection_state_ = "H_CONNECTED"
               PROVE  timer_'[d] \in timer_node_queue_'
    BY <1>1 DEF Timed
  <2>1. CASE d = c
    BY <1>2, <2>1 DEF TypeOK
  <2>2. CASE d # c
    <3>1. timer_[d] \in timer_node_queue_
      BY <1>5, <1>7, <2>2, ConnsAssumption DEF Owners, Timed
    <3> QED
      BY <1>2, <2>2, <3>1 DEF TypeOK
  <2> QED
    BY <2>1, <2>2
<1>15. Gone'
  <2> SUFFICES ASSUME NEW d \in Conns,
                      http[d].error_ \/ http[d].connection_state_ = "H_DISCONNECTED"
               PROVE  ~Bound(d)' /\ \A g \in Fds : fd2http_'[g] # d
    BY <1>1 DEF Gone
  <2>1. d # c
    BY <1>5 DEF Fresh
  <2> QED
    BY <1>5, <1>6, <1>7, <2>1, ConnsAssumption DEF Owners, Gone
<1> QED
  BY <1>9, <1>10, <1>11, <1>12, <1>13, <1>14, <1>15 DEF Owners

\* HandleExpired: what it closes is in no functor, and leaves every table.
LEMMA ExpiredOwners ==
  ASSUME TypeOK, TypeOK', Owners, HandleExpired
  PROVE  Owners'
<1>1. PICK popped \in Popped(timer_node_queue_, clock) :
        /\ timer_node_queue_' = timer_node_queue_ \ popped
        /\ Close({n.sp_http_data_ : n \in popped} \ {None})
  BY DEF HandleExpired
<1> DEFINE cs == {n.sp_http_data_ : n \in popped} \ {None}
<1>2. popped \subseteq timer_node_queue_
  BY PoppedNodes
<1>3. /\ phase = "expired" /\ timer_' = timer_
      /\ active' = active /\ cur' = cur
      /\ UNCHANGED <<pending_functors_, functors>>
  BY DEF HandleExpired
<1>4. active = {} /\ cur = None
  BY <1>3 DEF TypeOK
<1>5. cs \in SUBSET Conns
  BY <1>2 DEF TypeOK, NodeType
<1>6. \A c \in cs : timer_[c] \in popped /\ \E f \in Fds : fd2http_[f] = c
  <2> TAKE c \in cs
  <2>1. PICK n \in popped : n.sp_http_data_ = c /\ c # None
    OBVIOUS
  <2> QED
    BY <1>2, <1>5, <2>1 DEF Owners, OneTimer, Tables
<1>7. \A n \in timer_node_queue_ : n.sp_http_data_ \in cs => n \in popped
  BY <1>5, <1>6, ConnsAssumption DEF Owners, OneTimer
<1>8. \A d \in Conns \ cs : timer_[d] \in popped => timer_[d] \notin timer_node_queue_
  <2> SUFFICES ASSUME NEW d \in Conns \ cs, timer_[d] \in popped
               PROVE  timer_[d] \notin timer_node_queue_
    OBVIOUS
  <2>1. timer_[d].sp_http_data_ \in cs \/ timer_[d].sp_http_data_ = None
    OBVIOUS
  <2>2. timer_[d] \in timer_node_queue_ => timer_[d].sp_http_data_ = d
    BY NodeAssumption DEF Owners, Nodes, TypeOK
  <2> QED
    BY <2>1, <2>2, ConnsAssumption
<1> HIDE DEF cs
<1>9. Close(cs)
  BY <1>1 DEF cs
<1>10. \A n \in timer_node_queue_' :
         n \in timer_node_queue_ /\ n.sp_http_data_ \notin cs
  BY <1>1, <1>7
<1> QED
  BY <1>1, <1>3, <1>4, <1>5, <1>6, <1>8, <1>9, <1>10, CloseOwners

\* What holds an object depends on these alone.
LEMMA SameOwners ==
  ASSUME Owners, TypeOK',
         UNCHANGED <<http, pollVars, timerVars, pending_functors_, functors,
                     active, interest>>,
         cur' = cur \/ cur = None
  PROVE  Owners'
<1>1. /\ fd2http_' = fd2http_ /\ fd2channel_' = fd2channel_
      /\ timer_' = timer_ /\ timer_node_queue_' = timer_node_queue_
      /\ \A d \in Conns : Bound(d)' <=> Bound(d)
  BY DEF pollVars, timerVars, Bound
<1>2. Tables' /\ BoundOnce' /\ Nodes' /\ OneTimer'
  BY <1>1 DEF Owners, Tables, BoundOnce, Nodes, OneTimer
<1>3. Newcomers'
  BY <1>1 DEF Owners, Newcomers
<1>4. Timed' /\ Gone'
  BY <1>1, ConnsAssumption DEF Owners, Timed, Gone
<1> QED
  BY <1>2, <1>3, <1>4 DEF Owners

\* Poll: what it returns is in the tables.
LEMMA PollOwners ==
  ASSUME TypeOK, TypeOK', Owners, Poll
  PROVE  Owners'
<1>1. /\ fd2http_' = fd2http_ /\ fd2channel_' = fd2channel_
      /\ timer_' = timer_ /\ timer_node_queue_' = timer_node_queue_
      /\ UNCHANGED <<http, pending_functors_, functors, cur>>
      /\ \A d \in Conns : Bound(d)' <=> Bound(d)
  BY DEF Poll, pollVars, timerVars, Bound
<1>2. \A c \in active' : \E f \in Fds : fd2channel_[f] = c
  <2> TAKE c \in active'
  <2>1. /\ c \in Conns /\ fd2channel_[http[c].fd_] = c
        /\ Watched(PollState(sock[c]), interest[c]) # {}
    BY DEF Poll
  <2>2. interest[c] # {}
    BY <2>1 DEF Watched
  <2>3. http[c].fd_ \in Fds
    BY <2>1, <2>2 DEF Owners, Tables
  <2> QED
    BY <2>1, <2>3
<1>3. \A c \in Conns : interest'[c] = interest[c] \/ interest'[c] = {}
  BY DEF Poll
<1>4. Tables'
  BY <1>1, <1>2, <1>3 DEF Owners, Tables
<1>5. BoundOnce' /\ Nodes' /\ OneTimer'
  BY <1>1 DEF Owners, BoundOnce, Nodes, OneTimer
<1>6. Newcomers'
  BY <1>1 DEF Owners, Newcomers
<1>7. Timed' /\ Gone'
  BY <1>1 DEF Owners, Timed, Gone
<1> QED
  BY <1>4, <1>5, <1>6, <1>7 DEF Owners

\* HandleEvents: no owner changes hands.
LEMMA HandleEventsOwners ==
  ASSUME TypeOK, TypeOK', Owners, NEW c \in Conns, HandleEvents(c)
  PROVE  Owners'
<1>1. /\ fd2http_' = fd2http_ /\ fd2channel_' = fd2channel_
      /\ timer_' = timer_ /\ timer_node_queue_' = timer_node_queue_
      /\ UNCHANGED <<http, pending_functors_, functors, interest>>
      /\ cur = None /\ active' \subseteq active
      /\ \A d \in Conns : Bound(d)' <=> Bound(d)
  BY DEF HandleEvents, pollVars, timerVars, kernelVars, Bound
<1>2. Tables' /\ BoundOnce' /\ Nodes' /\ OneTimer'
  BY <1>1 DEF Owners, Tables, BoundOnce, Nodes, OneTimer
<1>3. Newcomers'
  BY <1>1 DEF Owners, Newcomers
<1>4. Timed' /\ Gone'
  BY <1>1, ConnsAssumption DEF Owners, Timed, Gone
<1> QED
  BY <1>2, <1>3, <1>4 DEF Owners

\* DoPendingFunctors: the queued functors become the batch.
LEMMA DoPendingFunctorsOwners ==
  ASSUME TypeOK, TypeOK', Owners, DoPendingFunctors
  PROVE  Owners'
<1>1. /\ fd2http_' = fd2http_ /\ fd2channel_' = fd2channel_
      /\ timer_' = timer_ /\ timer_node_queue_' = timer_node_queue_
      /\ UNCHANGED <<http, active, cur, interest>>
      /\ functors' = pending_functors_ /\ pending_functors_' = <<>>
      /\ functors = <<>>
  BY DEF DoPendingFunctors, pollVars, timerVars, kernelVars, TypeOK
<1>2. \A d \in Conns : Bound(d)' <=> Bound(d)
  BY <1>1 DEF Bound
<1>3. Tables' /\ Nodes' /\ OneTimer'
  BY <1>1 DEF Owners, Tables, Nodes, OneTimer
<1>4. BoundOnce'
  BY <1>1 DEF Owners, BoundOnce
<1>5. Newcomers'
  BY <1>1, <1>2 DEF Owners, Newcomers
<1>6. Timed' /\ Gone'
  BY <1>1, <1>2 DEF Owners, Timed, Gone
<1> QED
  BY <1>3, <1>4, <1>5, <1>6 DEF Owners

\* HandleConn, by its three cases.
LEMMA ConnOwners ==
  ASSUME TypeOK, TypeOK', Owners, NEW c \in Conns, HandleConn(c)
  PROVE  Owners'
<1> DEFINE queue == ClearReq(timer_node_queue_, timer_[c])
<1>1. /\ c \in active /\ cur = c /\ cur' = None /\ active' = active \ {c}
      /\ UNCHANGED <<pending_functors_, functors>>
  BY DEF HandleConn, TypeOK
<1>2. CASE /\ ~http[c].error_ /\ http[c].connection_state_ = "H_CONNECTED"
           /\ EpollMod(c, NextEvents(channel[c].events_), queue,
                       NextTimeout(http[c], channel[c].events_))
           /\ UNCHANGED http
  <2>1. NextEvents(channel[c].events_) \in SUBSET Bits
    BY DEF NextEvents, TypeOK, ChannelType, Bits
  <2> QED
    BY <1>1, <1>2, <2>1, Timeouts, ConnGoesOnOwners
<1>3. CASE /\ ~http[c].error_ /\ http[c].connection_state_ = "H_DISCONNECTING"
           /\ timer_node_queue_' = queue
           /\ timer_' = [timer_ EXCEPT ![c] = None]
           /\ UNCHANGED <<http, pollVars, kernelVars>>
  BY <1>1, <1>3, ConnFlushingOwners DEF kernelVars
<1>4. CASE /\ Close({c})
           /\ timer_node_queue_' = queue
           /\ timer_' = [timer_ EXCEPT ![c] = None]
  <2>1. \A n \in timer_node_queue_' :
          /\ n.sp_http_data_ # None =>
               n \in timer_node_queue_ /\ n.sp_http_data_ \notin {c}
          /\ n \in timer_node_queue_ \/ (n.deleted_ /\ n.sp_http_data_ = None)
    BY <1>4, ToldNodes DEF Owners
  <2>2. \A d \in Conns \ {c} :
          /\ timer_'[d] = timer_[d]
          /\ timer_[d] \in timer_node_queue_ => timer_[d] \in timer_node_queue_'
    BY <1>4, OtherTimer DEF Owners, TypeOK
  <2>3. timer_'[c] = None
    BY <1>4 DEF TypeOK
  <2>4. \A e \in {c} : \E f \in Fds : fd2http_[f] = e
    BY <1>1, Served DEF Owners
  <2>5. /\ {c} \in SUBSET Conns
        /\ \A d \in {c} : timer_'[d] = timer_[d] \/ timer_'[d] = None
        /\ cur \in {c} \union {None}
    BY <1>1, <2>3
  <2> QED
    BY <1>1, <1>4, <2>1, <2>2, <2>4, <2>5, CloseOwners
<1> QED
  BY <1>2, <1>3, <1>4 DEF HandleConn

\* HandleRead.
LEMMA ReadOwners ==
  ASSUME TypeOK, TypeOK', Buffered, Owners, NEW c \in Conns, HandleRead(c)
  PROVE  Owners'
<1>1. /\ cur = c /\ c \in active
      /\ UNCHANGED <<pending_functors_, functors, active, cur, pollVars, interest>>
  BY DEF HandleRead, TypeOK
<1>2. PICK r, w : ReadWith(c, r, w)
  BY HandleReadWith
<1>3. /\ http[c] \in HttpType /\ sock[c] \in SockType
      /\ channel[c].events_ \in SUBSET Bits
      /\ http[c].in_buffer_ + sock[c].rx <= sock[c].sent
  BY DEF TypeOK, ChannelType, Buffered
<1>4. r.http \in HttpType /\ r.http.fd_ = http[c].fd_
  BY <1>2, <1>3, ReadOutcome DEF ReadWith
<1>5. w.http.fd_ = http[c].fd_
  BY <1>2, <1>3, <1>4, WriteOutcome DEF ReadWith
<1>6. http' = [http EXCEPT ![c] = w.http]
  BY <1>2 DEF ReadWith
<1>7. (\A d \in Conns \ {c} : http'[d] = http[d]) /\ http'[c].fd_ = http[c].fd_
  BY <1>5, <1>6 DEF TypeOK
<1>8. \/ UNCHANGED timerVars
      \/ /\ timer_node_queue_' = ClearReq(timer_node_queue_, timer_[c])
         /\ timer_' = [timer_ EXCEPT ![c] = None]
  BY <1>2 DEF ReadWith, timerVars
<1> QED
  BY <1>1, <1>7, <1>8, HandlerOwners

\* HandleWrite.
LEMMA WriteOwners ==
  ASSUME TypeOK, TypeOK', Owners, NEW c \in Conns, HandleWrite(c)
  PROVE  Owners'
<1>1. /\ cur = c /\ c \in active
      /\ UNCHANGED <<pending_functors_, functors, active, cur, pollVars, interest,
                     timerVars>>
  BY DEF HandleWrite, TypeOK
<1>2. /\ http[c] \in HttpType /\ sock[c] \in SockType
      /\ channel[c].events_ \in SUBSET Bits
  BY DEF TypeOK, ChannelType
<1>3. PICK w \in WriteOutcomes(http[c], sock[c], channel[c].events_) :
        http' = [http EXCEPT ![c] = w.http]
  BY DEF HandleWrite
<1>4. w.http.fd_ = http[c].fd_
  BY <1>2, WriteOutcome
<1>5. (\A d \in Conns \ {c} : http'[d] = http[d]) /\ http'[c].fd_ = http[c].fd_
  BY <1>3, <1>4 DEF TypeOK
<1> QED
  BY <1>1, <1>5, HandlerOwners

\* Every step keeps the owners.
LEMMA OwnersStep ==
  ASSUME TypeOK, TypeOK', Buffered, Owners, [Next]_vars
  PROVE  Owners'
<1>1. CASE \E c \in Conns : PeerSends(c) \/ PeerCloses(c) \/ PeerResets(c)
                             \/ PeerDrains(c)
  BY <1>1, SameOwners
  DEF PeerSends, PeerCloses, PeerResets, PeerDrains, SocketEvent, loopVars
<1>2. CASE Tick \/ FunctorsDone \/ UNCHANGED vars
  BY <1>2, SameOwners DEF Tick, FunctorsDone, vars, loopVars, kernelVars
<1> QED
  BY <1>1, <1>2, AcceptOwners, PollOwners, HandleEventsOwners, ReadOwners,
     WriteOwners, ConnOwners, DoPendingFunctorsOwners, NewEventOwners,
     ExpiredOwners
  DEF Next, LoopStep, Environment

-----------------------------------------------------------------------------
\* Times.

\* Products stay natural.
LEMMA TimesNat ==
  ASSUME NEW m \in Nat, NEW n \in Nat
  PROVE  m * n \in Nat
OBVIOUS

\* A time taken modulo TimeWrap is ahead of a later one's only after a wrap:
\* a node that the wrapped clock does not hold back is due.
LEMMA NotBeforeDue ==
  ASSUME NEW t \in Nat, NEW due \in Nat, NEW now \in Nat, t <= now, t <= due,
         (t % TimeWrap) + (due - t) <= now % TimeWrap
  PROVE  due <= now
<1> DEFINE W == TimeWrap
           q1 == t \div TimeWrap
           q2 == now \div TimeWrap
           r1 == t % TimeWrap
           r2 == now % TimeWrap
<1>1. /\ W \in Nat /\ q1 \in Nat /\ q2 \in Nat /\ r1 \in 0..(W - 1) /\ r2 \in 0..(W - 1)
      /\ t = W * q1 + r1 /\ now = W * q2 + r2
  BY TimeWrapAssumption
<1>2. r1 + (due - t) <= r2
  OBVIOUS
<1> HIDE DEF W, q1, q2, r1, r2
<1>3. W * q1 <= W * q2
  <2>1. CASE q1 <= q2
    <3>1. W * (q2 - q1) \in Nat /\ W * q1 \in Nat /\ W * q2 \in Nat
      BY <1>1, <2>1, TimesNat
    <3>2. W * q2 = W * q1 + W * (q2 - q1)
      BY <1>1
    <3> QED
      BY <3>1, <3>2
  <2>2. CASE q2 < q1
    <3>1. W * (q1 - q2 - 1) \in Nat /\ W * q1 \in Nat /\ W * q2 \in Nat
      BY <1>1, <2>2, TimesNat
    <3>2. W * q1 = W * q2 + W + W * (q1 - q2 - 1)
      BY <1>1
    <3> QED
      BY <1>1, <3>1, <3>2
  <2> QED
    BY <1>1, <2>1, <2>2
<1>4. W * q1 \in Nat /\ W * q2 \in Nat
  BY <1>1, TimesNat
<1> QED
  BY <1>1, <1>2, <1>3, <1>4

\* Every step keeps the times of the nodes in the past.
LEMMA NodeTimesStep ==
  ASSUME TypeOK, NodeTimes, [Next]_vars
  PROVE  NodeTimes'
<1>1. clock \in Nat /\ clock' \in Nat /\ clock <= clock'
  <2>1. CASE Tick
    BY <2>1 DEF Tick, TypeOK
  <2>2. ASSUME NEW c \in Conns,
               HandleEvents(c) \/ HandleRead(c) \/ HandleWrite(c) \/ HandleConn(c)
                 \/ NewEvent(c) \/ Accept(c)
        PROVE  clock' = clock
    BY <2>2 DEF HandleEvents, HandleRead, HandleWrite, HandleConn, NewEvent, Accept
  <2>3. ASSUME NEW c \in Conns,
               PeerSends(c) \/ PeerCloses(c) \/ PeerResets(c) \/ PeerDrains(c)
        PROVE  clock' = clock
    BY <2>3 DEF PeerSends, PeerCloses, PeerResets, PeerDrains, SocketEvent
  <2>4. Poll \/ DoPendingFunctors \/ FunctorsDone \/ HandleExpired \/ UNCHANGED vars
          => clock' = clock
    BY DEF Poll, DoPendingFunctors, FunctorsDone, HandleExpired, vars
  <2>5. Tick \/ clock' = clock
    BY <2>2, <2>3, <2>4 DEF Next, LoopStep, Environment
  <2> QED
    BY <2>1, <2>5 DEF TypeOK
<1>2. ASSUME NEW n \in timer_node_queue_
      PROVE  \E t \in 0..clock' :
               t <= n.due /\ n.expired_time_ = (t % TimeWrap) + (n.due - t)
  BY <1>1 DEF NodeTimes, NodeTime
<1>3. ASSUME NEW c \in Conns, NEW timeout \in Nat
      PROVE  LET n == TimerNode(c, clock, timeout)
             IN  \E t \in 0..clock' :
                   t <= n.due /\ n.expired_time_ = (t % TimeWrap) + (n.due - t)
  <2> DEFINE n == TimerNode(c, clock, timeout)
  <2>1. n.due = clock + timeout /\ n.expired_time_ = (clock % TimeWrap) + timeout
    BY <1>1, NodeMade
  <2>2. clock \in 0..clock' /\ clock <= n.due /\ n.due - clock = timeout
    BY <1>1, <2>1
  <2> HIDE DEF n
  <2>3. n.expired_time_ = (clock % TimeWrap) + (n.due - clock)
    BY <2>1, <2>2
  <2> USE DEF n
  <2> QED
    BY <2>2, <2>3
<1>4. ASSUME NEW c \in Conns, NEW n \in ClearReq(timer_node_queue_, timer_[c])
      PROVE  \E t \in 0..clock' :
               t <= n.due /\ n.expired_time_ = (t % TimeWrap) + (n.due - t)
  <2>1. timer_node_queue_ \in SUBSET NodeType
    BY DEF TypeOK
  <2>2. \E m \in timer_node_queue_ :
          n.due = m.due /\ n.expired_time_ = m.expired_time_
    BY <2>1, Cleared
  <2> QED
    BY <1>2, <2>2
<1>5. ASSUME NEW n \in timer_node_queue_'
      PROVE  \/ n \in timer_node_queue_
             \/ \E c \in Conns : n \in ClearReq(timer_node_queue_, timer_[c])
             \/ \E c \in Conns, timeout \in Nat : n = TimerNode(c, clock, timeout)
  <2>1. ASSUME NEW c \in Conns, HandleRead(c)
        PROVE  timer_node_queue_' = timer_node_queue_
               \/ timer_node_queue_' = ClearReq(timer_node_queue_, timer_[c])
    <3>1. PICK r, w : ReadWith(c, r, w)
      BY <2>1, HandleReadWith
    <3> QED
      BY <3>1 DEF ReadWith
  <2>2. ASSUME NEW c \in Conns, HandleConn(c)
        PROVE  \E timeout \in Nat : timer_node_queue_' \subseteq
                 ClearReq(timer_node_queue_, timer_[c])
                   \union {TimerNode(c, clock, timeout)}
    BY <2>2, Timeouts DEF HandleConn, EpollMod, AddTimer
  <2>3. ASSUME NEW c \in Conns, NewEvent(c)
        PROVE  timer_node_queue_' =
                 timer_node_queue_ \union {TimerNode(c, clock, kDefaultExpiredTime)}
    BY <2>3 DEF NewEvent, EpollAdd, AddTimer
  <2>4. CASE HandleExpired
    BY <1>5, <2>4 DEF HandleExpired
  <2>5. ASSUME NEW c \in Conns, HandleEvents(c) \/ HandleWrite(c)
        PROVE  timer_node_queue_' = timer_node_queue_
    BY <2>5 DEF HandleEvents, HandleWrite, timerVars
  <2>6. CASE Poll \/ DoPendingFunctors \/ FunctorsDone \/ UNCHANGED vars
    BY <1>5, <2>6 DEF Poll, DoPendingFunctors, FunctorsDone, vars, timerVars
  <2>7. CASE Environment
    BY <1>5, <2>7 DEF Environment, Accept, PeerSends, PeerCloses, PeerResets,
       PeerDrains, SocketEvent, Tick, timerVars
  <2> QED
    BY <1>5, <2>1, <2>2, <2>3, <2>4, <2>5, <2>6, <2>7, Timeouts DEF Next, LoopStep
<1> QED
  BY <1>2, <1>3, <1>4, <1>5 DEF NodeTimes, NodeTime

\* A node that can close its connection is popped only when it is due.
LEMMA PoppedIsDue ==
  ASSUME TypeOK, Nodes, NodeTimes, NEW popped \in Popped(timer_node_queue_, clock),
         NEW n \in popped, n.sp_http_data_ # None
  PROVE  n.due <= clock
<1>1. n \in timer_node_queue_ /\ n \in NodeType /\ ~n.deleted_
  BY PoppedNodes DEF TypeOK, Nodes
<1>2. \A b \in Blocking(timer_node_queue_, clock) : n.expired_time_ < b.expired_time_
  BY <1>1 DEF Popped
<1>3. n.expired_time_ \in Nat /\ n.due \in Nat /\ clock \in Nat
      /\ clock % TimeWrap \in Nat
  BY <1>1, TimeWrapAssumption DEF NodeType, TypeOK
<1>4. ~IsValid(n, clock)
  <2>1. n \notin Blocking(timer_node_queue_, clock)
    BY <1>2, <1>3
  <2> QED
    BY <1>1, <2>1 DEF Blocking
<1>5. n.expired_time_ <= clock % TimeWrap
  BY <1>3, <1>4 DEF IsValid
<1>6. PICK t \in 0..clock :
        t <= n.due /\ n.expired_time_ = (t % TimeWrap) + (n.due - t)
  BY <1>1 DEF NodeTimes, NodeTime
<1>7. t \in Nat /\ t <= clock
  BY <1>3, <1>6
<1> QED
  BY <1>3, <1>5, <1>6, <1>7, NotBeforeDue

\* Until the wrap, the first node that holds HandleExpiredEvent back, and every
\* node behind it, has time left.
LEMMA LeftIsNotDue ==
  ASSUME TypeOK, NodeTimes, clock < TimeWrap,
         NEW popped \in Popped(timer_node_queue_, clock),
         NEW n \in timer_node_queue_ \ popped
  PROVE  clock < n.due
<1>1. PICK b \in Blocking(timer_node_queue_, clock) :
        ~(n.expired_time_ < b.expired_time_)
  BY DEF Popped
<1>2. /\ b \in timer_node_queue_ /\ n \in NodeType /\ b \in NodeType
      /\ clock % TimeWrap < b.expired_time_
  BY <1>1 DEF Blocking, IsValid, TypeOK
<1>3. /\ n.expired_time_ \in Nat /\ b.expired_time_ \in Nat /\ n.due \in Nat
      /\ clock \in Nat
  BY <1>2 DEF NodeType, TypeOK
<1>4. clock % TimeWrap = clock
  BY <1>3, TimeWrapAssumption
<1>5. clock < n.expired_time_
  BY <1>1, <1>2, <1>3, <1>4
<1>6. PICK t \in 0..clock :
        t <= n.due /\ n.expired_time_ = (t % TimeWrap) + (n.due - t)
  BY DEF NodeTimes, NodeTime
<1>7. t % TimeWrap = t
  BY <1>3, <1>6, TimeWrapAssumption
<1> QED
  BY <1>3, <1>5, <1>6, <1>7

-----------------------------------------------------------------------------
\* Edges.

\* A step that leaves a connection alone.
LEMMA EdgeFrame ==
  ASSUME NEW d \in Conns, EdgeKept(d),
         http'[d] = http[d], channel'[d] = channel[d], sock'[d] = sock[d],
         interest'[d] = interest[d], edge'[d] = edge[d],
         \A f \in Fds : fd2channel_'[f] = d => fd2channel_[f] = d,
         d \in active' <=> d \in active, d = cur' <=> d = cur,
         d = cur => stage' = stage
  PROVE  EdgeKept(d)'
<1>1. Live(d)' => Live(d)
  BY DEF Live
<1>2. Watching(d) => Watching(d)'
  BY DEF Watching
<1>3. Reported(d) => Reported(d)'
  BY DEF Reported, ForInput, ForOutput
<1>4. d = cur /\ Handled(d) => Handled(d)'
  BY DEF Handled, ForInput, ForOutput, Asked, Seen
<1> QED
  BY <1>1, <1>2, <1>3, <1>4 DEF EdgeKept

\* Input or room that comes raises the edge of what waits for it.
LEMMA PeerEdges ==
  ASSUME TypeOK, Edges, NEW c \in Conns, NEW s \in SockType, NEW bits,
         SocketEvent(c, s, bits), ~s.rst => ~sock[c].rst,
         (s.rx = sock[c].rx /\ (s.eof <=> sock[c].eof)) \/ "IN" \in bits,
         (s.room <=> sock[c].room) \/ (s.room /\ "OUT" \in bits)
  PROVE  Edges'
<1> SUFFICES ASSUME NEW d \in Conns PROVE EdgeKept(d)'
  BY DEF Edges
<1>1. /\ sock' = [sock EXCEPT ![c] = s]
      /\ edge' = [edge EXCEPT ![c] = edge[c] \/ Watched(bits, interest[c]) # {}]
      /\ http' = http /\ channel' = channel /\ fd2channel_' = fd2channel_
      /\ interest' = interest /\ active' = active /\ cur' = cur /\ stage' = stage
  BY DEF SocketEvent, loopVars, pollVars
<1>2. CASE d # c
  <2>1. sock'[d] = sock[d] /\ edge'[d] = edge[d]
    BY <1>1, <1>2 DEF TypeOK
  <2> QED
    BY <1>1, <2>1, EdgeFrame DEF Edges
<1>3. CASE d = c
  <2>1. sock'[c] = s /\ (edge'[c] <=> edge[c] \/ Watched(bits, interest[c]) # {})
    BY <1>1 DEF TypeOK
  <2>2. Live(c)' => Live(c)
    BY <1>1, <2>1 DEF Live
  <2>3. /\ interest[c] \in {{"IN"}, {"IN", "ONESHOT"}} /\ "IN" \in bits => edge'[c]
        /\ interest[c] = {"OUT"} /\ "OUT" \in bits => edge'[c]
    BY <2>1 DEF Watched
  <2>4. edge[c] => edge'[c]
    BY <2>1
  <2>5. Watching(c) => Watching(c)'
    BY <1>1, <2>1, <2>3, <2>4 DEF Watching
  <2>6. Reported(c) => Reported(c)'
    BY <1>1 DEF Reported, ForInput, ForOutput
  <2>7. ForInput(c) => ForInput(c)'
    BY <1>1 DEF ForInput
  <2>8. ForOutput(c) => ForOutput(c)'
    BY <1>1 DEF ForOutput
  <2>9. Asked(c) => Asked(c)'
    BY <1>1, <2>1 DEF Asked
  <2>10. Seen(c) => Seen(c)'
    BY <1>1, <2>1, <2>3, <2>4 DEF Seen
  <2>11. ForOutput(c) /\ (sock[c].room => edge[c]) => (sock'[c].room => edge'[c])
    BY <2>1, <2>3, <2>4 DEF ForOutput
  <2>12. Handled(c) => Handled(c)'
    BY <1>1, <2>7, <2>8, <2>9, <2>10, <2>11 DEF Handled
  <2> QED
    BY <1>1, <1>3, <2>2, <2>5, <2>6, <2>12 DEF Edges, EdgeKept
<1> QED
  BY <1>2, <1>3

\* Poll: what it does not return has nothing to report, or stays ready.
LEMMA PollEdges ==
  ASSUME TypeOK, Owners, Edges, Poll
  PROVE  Edges'
<1> SUFFICES ASSUME NEW d \in Conns, Live(d)'
             PROVE  \/ d \notin active' /\ Watching(d)'
                    \/ d \in active' /\ Reported(d)'
  <2>1. cur' = None
    BY DEF Poll, TypeOK
  <2> QED
    BY <2>1, ConnsAssumption DEF Edges, EdgeKept
<1> DEFINE got == Watched(PollState(sock[d]), interest[d])
<1>1. /\ http' = http /\ sock' = sock /\ fd2channel_' = fd2channel_
      /\ active = {} /\ edge'[d] = FALSE
  BY DEF Poll, pollVars, TypeOK
<1>2. Live(d) /\ Watching(d)
  BY <1>1 DEF Live, Edges, EdgeKept
<1>3. fd2channel_[http[d].fd_] = d
  BY <1>2 DEF Live, Owners, Tables
<1>4. /\ d \in active' <=> edge[d] /\ got # {}
      /\ d \in active' => channel'[d] = [channel[d] EXCEPT !.revents_ = got, !.events_ = {}]
      /\ d \notin active' => channel'[d] = channel[d]
  BY <1>3 DEF Poll
<1>5. interest'[d] = IF edge[d] /\ got # {} /\ "ONESHOT" \in interest[d] THEN {}
                     ELSE interest[d]
  BY DEF Poll
<1>6. /\ "IN" \in PollState(sock[d]) <=> sock[d].rx > 0 \/ sock[d].eof
      /\ "OUT" \in PollState(sock[d]) <=> sock[d].room
      /\ "HUP" \notin PollState(sock[d]) /\ "ONESHOT" \notin PollState(sock[d])
  BY <1>2 DEF Live, PollState
<1>7. /\ interest[d] \in {{"IN"}, {"IN", "ONESHOT"}} =>
           /\ got # {} <=> sock[d].rx > 0 \/ sock[d].eof
           /\ got # {} => "IN" \in got
      /\ interest[d] = {"OUT"} =>
           /\ got # {} <=> sock[d].room
           /\ got # {} => "OUT" \in got /\ "IN" \notin got
      /\ "HUP" \notin got
  BY <1>6 DEF Watched
<1> HIDE DEF got
<1>8. CASE d \notin active'
  <2>1. interest'[d] = interest[d] /\ channel'[d] = channel[d]
    BY <1>4, <1>5, <1>8
  <2>2. interest[d] \in {{"IN"}, {"IN", "ONESHOT"}} =>
          ~(edge[d] /\ (sock[d].rx > 0 \/ sock[d].eof))
    BY <1>4, <1>7, <1>8
  <2>3. interest[d] = {"OUT"} => ~(edge[d] /\ sock[d].room)
    BY <1>4, <1>7, <1>8
  <2> QED
    BY <1>1, <1>2, <1>8, <2>1, <2>2, <2>3 DEF Watching
<1>9. CASE d \in active'
  <2>1. /\ channel'[d].revents_ = got
        /\ channel'[d].last_events_ = channel[d].last_events_
    BY <1>4, <1>9 DEF TypeOK, ChannelType
  <2>2. CASE interest[d] = {"IN"}
    BY <1>1, <1>2, <1>4, <1>5, <1>7, <1>9, <2>1, <2>2 DEF Watching, Reported, ForInput
  <2>3. CASE interest[d] = {"IN", "ONESHOT"}
    BY <1>1, <1>2, <1>4, <1>5, <1>7, <1>9, <2>1, <2>3 DEF Watching, Reported, ForInput
  <2>4. CASE interest[d] = {"OUT"}
    BY <1>1, <1>2, <1>4, <1>5, <1>7, <1>9, <2>1, <2>4 DEF Watching, Reported, ForOutput
  <2> QED
    BY <1>2, <1>9, <2>2, <2>3, <2>4 DEF Watching
<1> QED
  BY <1>8, <1>9

\* HandleEvents: the handler it starts with is the one for what was reported.
LEMMA HandleEventsEdges ==
  ASSUME TypeOK, Edges, NEW c \in Conns, HandleEvents(c)
  PROVE  Edges'
<1> SUFFICES ASSUME NEW d \in Conns PROVE EdgeKept(d)'
  BY DEF Edges
<1>1. /\ http' = http /\ sock' = sock /\ fd2channel_' = fd2channel_
      /\ interest' = interest /\ edge' = edge
      /\ channel' = [channel EXCEPT ![c].events_ = {}] /\ {} \in SUBSET Bits
      /\ c \in active /\ cur = None
  BY DEF HandleEvents, pollVars, kernelVars
<1>2. /\ \A e \in Conns \ {c} : channel'[e] = channel[e]
      /\ channel'[c].events_ = {}
      /\ channel'[c].last_events_ = channel[c].last_events_
      /\ channel'[c].revents_ = channel[c].revents_
  BY <1>1, Asks DEF TypeOK
<1>3. CASE d # c
  <2>1. d # cur' /\ d # cur /\ (d \in active' <=> d \in active)
    BY <1>1, <1>3, ConnsAssumption DEF HandleEvents
  <2> QED
    BY <1>1, <1>2, <1>3, <2>1, EdgeFrame DEF Edges
<1>4. CASE d = c
  <2> SUFFICES ASSUME Live(c)'
               PROVE  c \in active' /\ c = cur' /\ Handled(c)'
    BY <1>4 DEF EdgeKept
  <2>1. Reported(c)
    BY <1>1, ConnsAssumption DEF Live, Edges, EdgeKept
  <2>2. /\ cur' = c /\ active' = active
        /\ stage' = IF "IN" \in channel[c].revents_ THEN "read" ELSE AfterRead(c)
    BY <2>1 DEF HandleEvents, Reported
  <2>3. CASE "IN" \in channel[c].revents_
    BY <1>1, <1>2, <2>1, <2>2, <2>3 DEF Reported, ForInput, ForOutput, Handled, Asked
  <2>4. CASE "IN" \notin channel[c].revents_
    BY <1>1, <1>2, <2>1, <2>2, <2>4
    DEF Reported, ForInput, ForOutput, Handled, AfterRead
  <2> QED
    BY <1>1, <2>2, <2>3, <2>4
<1> QED
  BY <1>3, <1>4

\* HandleRead: it takes all the input there is, and asks for what it leaves.
LEMMA ReadEdges ==
  ASSUME TypeOK, Buffered, Edges, NEW c \in Conns, HandleRead(c)
  PROVE  Edges'
<1> SUFFICES ASSUME NEW d \in Conns PROVE EdgeKept(d)'
  BY DEF Edges
<1>1. /\ cur = c /\ c \in active /\ stage = "read"
      /\ cur' = cur /\ active' = active /\ fd2channel_' = fd2channel_
      /\ interest' = interest /\ edge' = edge
  BY DEF HandleRead, TypeOK, pollVars
<1>2. PICK r, w : ReadWith(c, r, w)
  BY HandleReadWith
<1>3. /\ http[c] \in HttpType /\ sock[c] \in SockType
      /\ channel[c].events_ \in SUBSET Bits
      /\ http[c].in_buffer_ + sock[c].rx <= sock[c].sent
  BY DEF TypeOK, ChannelType, Buffered
<1>4. r.http \in HttpType
  BY <1>2, <1>3, ReadOutcome DEF ReadWith
<1>5. /\ w.room \in BOOLEAN /\ w.events \in SUBSET Bits
      /\ w.http.connection_state_ = r.http.connection_state_
      /\ r.http.error_ => w.http.error_
  BY <1>2, <1>3, <1>4, WriteOutcome DEF ReadWith
<1>6. http' = [http EXCEPT ![c] = w.http]
  BY <1>2 DEF ReadWith
<1>7. sock' = [sock EXCEPT ![c].rx = 0, ![c].room = w.room] /\ 0 \in 0..MaxSegments
  BY <1>2, BoundsAssumption DEF ReadWith
<1>8. /\ \A e \in Conns \ {c} : sock'[e] = sock[e]
      /\ sock'[c].rx = 0 /\ (sock'[c].room <=> w.room)
      /\ (sock'[c].rst <=> sock[c].rst) /\ (sock'[c].eof <=> sock[c].eof)
  BY <1>5, <1>7, SockUpdate DEF TypeOK
<1>9. PICK events \in {w.events, w.events \union {"IN"}} :
        channel' = [channel EXCEPT ![c].events_ = events]
  BY <1>2, Zenon DEF ReadWith
<1>10. events \in SUBSET Bits
  BY <1>5 DEF Bits
<1>11. /\ \A e \in Conns \ {c} : channel'[e] = channel[e]
       /\ channel'[c].events_ = events
       /\ channel'[c].last_events_ = channel[c].last_events_
       /\ channel'[c].revents_ = channel[c].revents_
  BY <1>9, <1>10, Asks DEF TypeOK
<1>12. CASE d # c
  BY <1>1, <1>6, <1>8, <1>11, <1>12, EdgeFrame DEF Edges, TypeOK
<1>13. CASE d = c
  <2> SUFFICES ASSUME Live(c)'
               PROVE  Handled(c)'
    BY <1>1, <1>13 DEF EdgeKept
  <2>1. /\ w.http.connection_state_ = "H_CONNECTED" /\ ~w.http.error_ /\ ~sock[c].rst
        /\ http'[c] = w.http
    BY <1>6, <1>8 DEF Live, TypeOK
  <2>2. r.http.connection_state_ = "H_CONNECTED" /\ ~r.http.error_
    BY <1>5, <2>1
  <2>3. /\ r.http.connection_state_ \in {http[c].connection_state_, "H_DISCONNECTING"}
        /\ http[c].error_ => r.http.error_
        /\ ~sock[c].eof /\ (http[c].out_buffer_ => r.http.out_buffer_)
    BY <1>2, <1>3, <2>2, ReadOutcome DEF ReadWith
  <2>4. Live(c)
    BY <1>1, <2>1, <2>2, <2>3 DEF Live
  <2>5. ForInput(c) /\ Asked(c)
    BY <1>1, <2>4 DEF Edges, EdgeKept, Handled
  <2>6. \/ /\ ~r.http.out_buffer_ /\ ~w.http.out_buffer_
           /\ (w.room <=> sock[c].room) /\ w.events = channel[c].events_
        \/ /\ w.http.out_buffer_
           /\ w.events = channel[c].events_ \union {"OUT"}
        \/ /\ ~w.http.out_buffer_
           /\ w.room /\ w.events = channel[c].events_
    BY <1>2, <1>3, <1>4, <2>1, <2>2, WriteAsks DEF ReadWith
  <2>7. events \subseteq {"IN", "OUT"} /\ ("OUT" \in events <=> "OUT" \in w.events)
    BY <2>5, <2>6 DEF Asked
  <2>8. Asked(c)'
    BY <1>8, <1>11, <2>1, <2>3, <2>5, <2>6, <2>7 DEF Asked
  <2>9. ForInput(c)' /\ Seen(c)'
    BY <1>1, <1>8, <1>11, <2>3, <2>5 DEF ForInput, Seen
  <2>10. stage' \in {"read", "write", "conn"}
    BY <1>2 DEF ReadWith, AfterRead
  <2> QED
    BY <2>8, <2>9, <2>10 DEF Handled
<1> QED
  BY <1>12, <1>13

\* HandleWrite: output that is left waits for room that is not there yet.
LEMMA WriteEdges ==
  ASSUME TypeOK, Edges, NEW c \in Conns, HandleWrite(c)
  PROVE  Edges'
<1> SUFFICES ASSUME NEW d \in Conns PROVE EdgeKept(d)'
  BY DEF Edges
<1>1. /\ cur = c /\ c \in active /\ stage = "write" /\ stage' = "conn"
      /\ cur' = cur /\ active' = active /\ fd2channel_' = fd2channel_
      /\ interest' = interest /\ edge' = edge
  BY DEF HandleWrite, TypeOK, pollVars
<1>2. /\ http[c] \in HttpType /\ sock[c] \in SockType
      /\ channel[c].events_ \in SUBSET Bits
  BY DEF TypeOK, ChannelType
<1>3. PICK w \in WriteOutcomes(http[c], sock[c], channel[c].events_) :
        /\ http' = [http EXCEPT ![c] = w.http]
        /\ channel' = [channel EXCEPT ![c].events_ = w.events]
        /\ sock' = [sock EXCEPT ![c] = [sock[c] EXCEPT !.room = w.room]]
  BY DEF HandleWrite
<1>4. /\ w.room \in BOOLEAN /\ w.events \in SUBSET Bits
      /\ w.http.connection_state_ = http[c].connection_state_
      /\ http[c].error_ => w.http.error_
  BY <1>2, WriteOutcome
<1>5. /\ [sock[c] EXCEPT !.room = w.room].rx = sock[c].rx
      /\ [sock[c] EXCEPT !.room = w.room].eof <=> sock[c].eof
      /\ [sock[c] EXCEPT !.room = w.room].rst <=> sock[c].rst
      /\ [sock[c] EXCEPT !.room = w.room].room <=> w.room
  BY <1>2 DEF SockType
<1>6. /\ \A e \in Conns \ {c} : sock'[e] = sock[e]
      /\ sock'[c].rx = sock[c].rx /\ (sock'[c].eof <=> sock[c].eof)
      /\ (sock'[c].rst <=> sock[c].rst) /\ (sock'[c].room <=> w.room)
  BY <1>3, <1>5 DEF TypeOK
<1>7. /\ \A e \in Conns \ {c} : channel'[e] = channel[e]
      /\ channel'[c].events_ = w.events
      /\ channel'[c].last_events_ = channel[c].last_events_
      /\ channel'[c].revents_ = channel[c].revents_
  BY <1>3, <1>4, Asks DEF TypeOK
<1>8. CASE d # c
  BY <1>1, <1>3, <1>6, <1>7, <1>8, EdgeFrame DEF Edges, TypeOK
<1>9. CASE d = c
  <2> SUFFICES ASSUME Live(c)'
               PROVE  Handled(c)'
    BY <1>1, <1>9 DEF EdgeKept
  <2>1. /\ w.http.connection_state_ = "H_CONNECTED" /\ ~w.http.error_ /\ ~sock[c].rst
        /\ http'[c] = w.http
    BY <1>3, <1>6 DEF Live, TypeOK
  <2>2. Live(c)
    BY <1>1, <1>4, <2>1 DEF Live
  <2>3. \/ /\ ~http[c].out_buffer_ /\ ~w.http.out_buffer_
           /\ (w.room <=> sock[c].room) /\ w.events = channel[c].events_
        \/ /\ http[c].out_buffer_ /\ w.http.out_buffer_
           /\ ~w.room /\ w.events = channel[c].events_ \union {"OUT"}
        \/ /\ http[c].out_buffer_ /\ ~w.http.out_buffer_
           /\ w.room /\ w.events = channel[c].events_
    BY <1>2, <1>4, <2>1, WriteAsks
  <2>4. CASE ForInput(c) /\ Asked(c) /\ Seen(c)
    <3>1. Asked(c)'
      BY <1>6, <1>7, <2>1, <2>3, <2>4 DEF Asked
    <3>2. ForInput(c)' /\ Seen(c)'
      BY <1>1, <1>6, <1>7, <2>4 DEF ForInput, Seen
    <3> QED
      BY <1>1, <3>1, <3>2 DEF Handled
  <2>5. CASE ForOutput(c) /\ channel[c].events_ = {}
    <3>1. ForOutput(c)'
      BY <1>1, <1>7, <2>5 DEF ForOutput
    <3>2. Asked(c)' /\ ("OUT" \in w.events => w.http.out_buffer_ /\ ~w.room)
      BY <1>6, <1>7, <2>1, <2>3, <2>5 DEF Asked
    <3> QED
      BY <1>1, <1>6, <1>7, <2>1, <3>1, <3>2 DEF Handled
  <2> QED
    BY <1>1, <2>2, <2>4, <2>5 DEF Edges, EdgeKept, Handled
<1> QED
  BY <1>8, <1>9

\* Those that are closed are not served any more, and the others keep theirs.
LEMMA CloseEdges ==
  ASSUME TypeOK, Edges, NEW cs \in SUBSET Conns, Close(cs), channel' = channel,
         cur' = None, cur \in cs \union {None}, active' = active \ cs
  PROVE  Edges'
<1> SUFFICES ASSUME NEW d \in Conns PROVE EdgeKept(d)'
  BY DEF Edges
<1>1. CASE d \in cs
  <2>1. http'[d].connection_state_ = "H_DISCONNECTED"
    BY <1>1, Closes
  <2> QED
    BY <2>1 DEF EdgeKept, Live
<1>2. CASE d \notin cs
  <2>1. http'[d] = http[d]
    BY <1>2, Closes
  <2>2. sock' = sock /\ interest'[d] = interest[d] /\ edge'[d] = edge[d]
    BY <1>2 DEF Close
  <2>3. \A f \in Fds : fd2channel_'[f] = d => fd2channel_[f] = d
    BY ConnsAssumption DEF Close
  <2>4. d # cur /\ d # cur' /\ (d \in active' <=> d \in active)
    BY <1>2, ConnsAssumption
  <2> QED
    BY <2>1, <2>2, <2>3, <2>4, EdgeFrame DEF Edges
<1> QED
  BY <1>1, <1>2

\* EpollMod watches c for what NextEvents makes of what the handlers asked for.
LEMMA ModEdges ==
  ASSUME TypeOK, Owners, Edges, NEW c \in active, cur = c, stage = "conn",
         NEW queue, NEW timeout,
         EpollMod(c, NextEvents(channel[c].events_), queue, timeout),
         http' = http, cur' = None, active' = active \ {c}
  PROVE  Edges'
<1> SUFFICES ASSUME NEW d \in Conns PROVE EdgeKept(d)'
  BY DEF Edges
<1> DEFINE next == NextEvents(channel[c].events_)
<1>1. /\ c \in Conns /\ http[c].fd_ \in Fds /\ channel[c] \in ChannelType
      /\ fd2channel_[http[c].fd_] = c
  BY Served DEF Owners, TypeOK
<1>2. next \in SUBSET Bits
  BY <1>1 DEF NextEvents, ChannelType, Bits
<1>3. channel' = [channel EXCEPT ![c].events_ = next, ![c].last_events_ = next]
  BY DEF EpollMod
<1> HIDE DEF next
<1>4. /\ \A e \in Conns \ {c} : channel'[e] = channel[e]
      /\ channel'[c].last_events_ = next
  BY <1>1, <1>2, <1>3, Watches DEF TypeOK
<1>5. /\ sock' = sock
      /\ \/ /\ channel[c].last_events_ = next
            /\ fd2channel_' = fd2channel_ /\ interest' = interest /\ edge' = edge
         \/ /\ channel[c].last_events_ # next
            /\ interest' = [interest EXCEPT ![c] = next]
            /\ edge' = [edge EXCEPT ![c] = Watched(PollState(sock[c]), next) # {}]
            /\ fd2channel_' = fd2channel_
         \/ /\ fd2channel_' = [fd2channel_ EXCEPT ![http[c].fd_] = None]
            /\ interest' = interest /\ edge' = edge
  BY DEF EpollMod, next
<1>6. CASE d # c
  <2>1. interest'[d] = interest[d] /\ edge'[d] = edge[d]
    BY <1>1, <1>5, <1>6 DEF TypeOK
  <2>2. \A f \in Fds : fd2channel_'[f] = d => fd2channel_[f] = d
    BY <1>5, ConnsAssumption DEF TypeOK
  <2>3. d # cur' /\ d # cur /\ (d \in active' <=> d \in active)
    BY <1>6, ConnsAssumption
  <2> QED
    BY <1>4, <1>5, <1>6, <2>1, <2>2, <2>3, EdgeFrame DEF Edges
<1>7. CASE d = c
  <2> SUFFICES ASSUME Live(c)'
               PROVE  Watching(c)'
    BY <1>7 DEF EdgeKept
  <2>1. fd2channel_' = fd2channel_
    <3>1. \A f \in Fds : fd2channel_[f] = c => f = http[c].fd_
      BY <1>1 DEF Owners, Tables
    <3>2. PICK f \in Fds : fd2channel_'[f] = c
      BY DEF Live
    <3> QED
      BY <1>1, <1>5, <3>1, <3>2, ConnsAssumption DEF TypeOK
  <2>2. \/ /\ channel[c].last_events_ = next
           /\ interest'[c] = interest[c] /\ edge'[c] = edge[c]
        \/ /\ channel[c].last_events_ # next
           /\ interest'[c] = next
           /\ edge'[c] <=> Watched(PollState(sock[c]), next) # {}
    <3>1. CASE fd2channel_' = [fd2channel_ EXCEPT ![http[c].fd_] = None]
      BY <1>1, <2>1, <3>1, ConnsAssumption DEF TypeOK
    <3> QED
      BY <1>1, <1>5, <3>1 DEF TypeOK
  <2>3. Live(c) /\ Handled(c)
    <3>1. Live(c)
      BY <1>5, <2>1 DEF Live
    <3> QED
      BY <1>1, <3>1 DEF Edges, EdgeKept
  <2>4. /\ Watched(PollState(sock[c]), {"IN"}) # {} <=> sock[c].rx > 0 \/ sock[c].eof
        /\ Watched(PollState(sock[c]), {"OUT"}) # {} <=> sock[c].room
    <3>1. /\ "IN" \in PollState(sock[c]) <=> sock[c].rx > 0 \/ sock[c].eof
          /\ "OUT" \in PollState(sock[c]) <=> sock[c].room
          /\ "HUP" \notin PollState(sock[c])
      BY <2>3 DEF Live, PollState
    <3> QED
      BY <3>1 DEF Watched
  <2>6. Asked(c) /\ ((ForInput(c) /\ Seen(c)) \/ ForOutput(c))
    BY <2>3 DEF Handled
  <2>7. next = IF "OUT" \in channel[c].events_ THEN {"OUT"} ELSE {"IN"}
    BY <2>6 DEF next, NextEvents, Asked
  <2>8. CASE "OUT" \in channel[c].events_
    <3>1. next = {"OUT"} /\ (http[c].out_buffer_ \/ sock[c].room)
      BY <2>6, <2>7, <2>8 DEF Asked
    <3>2. CASE channel[c].last_events_ = next
      <4>1. ForOutput(c) /\ http[c].out_buffer_ /\ (sock[c].room => edge[c])
        BY <2>3, <2>8, <3>1, <3>2 DEF Handled, ForInput
      <4> QED
        BY <1>4, <1>5, <2>2, <3>1, <3>2, <4>1 DEF Watching, ForOutput
    <3>3. CASE channel[c].last_events_ # next
      BY <1>4, <1>5, <2>2, <2>4, <3>1, <3>3 DEF Watching
    <3> QED
      BY <3>2, <3>3
  <2>9. CASE "OUT" \notin channel[c].events_
    <3>1. next = {"IN"} /\ ~http[c].out_buffer_
      BY <2>6, <2>7, <2>9 DEF Asked
    <3>2. CASE channel[c].last_events_ = next
      <4>1. ForInput(c) /\ Seen(c)
        BY <2>6, <3>1, <3>2 DEF ForOutput
      <4>2. interest[c] = {"IN"}
        BY <3>1, <3>2, <4>1 DEF ForInput
      <4>3. sock[c].rx > 0 \/ sock[c].eof => edge[c]
        BY <4>1, <4>2 DEF Seen
      <4> QED
        BY <1>4, <1>5, <2>2, <3>1, <3>2, <4>2, <4>3 DEF Watching
    <3>3. CASE channel[c].last_events_ # next
      BY <1>4, <1>5, <2>2, <2>4, <3>1, <3>3 DEF Watching
    <3> QED
      BY <3>2, <3>3
  <2> QED
    BY <2>8, <2>9
<1> QED
  BY <1>6, <1>7

\* HandleConn, by its three cases.
LEMMA ConnEdges ==
  ASSUME TypeOK, Owners, Edges, NEW c \in Conns, HandleConn(c)
  PROVE  Edges'
<1> DEFINE queue == ClearReq(timer_node_queue_, timer_[c])
<1>1. /\ c \in active /\ cur = c /\ cur' = None /\ active' = active \ {c}
      /\ stage = "conn"
  BY DEF HandleConn, TypeOK
<1>2. CASE /\ EpollMod(c, NextEvents(channel[c].events_), queue,
                       NextTimeout(http[c], channel[c].events_))
           /\ UNCHANGED http
  BY <1>1, <1>2, ModEdges
<1>3. CASE /\ http[c].connection_state_ = "H_DISCONNECTING"
           /\ channel' = [channel EXCEPT ![c].events_ = {"OUT"}]
           /\ UNCHANGED <<http, pollVars, kernelVars>>
  <2> SUFFICES ASSUME NEW d \in Conns PROVE EdgeKept(d)'
    BY DEF Edges
  <2>1. CASE d = c
    BY <1>3, <2>1 DEF EdgeKept, Live
  <2>2. CASE d # c
    <3>1. /\ fd2channel_' = fd2channel_ /\ sock' = sock /\ http' = http
          /\ interest' = interest /\ edge' = edge /\ channel'[d] = channel[d]
      BY <1>3, <2>2 DEF pollVars, kernelVars, TypeOK
    <3>2. d # cur' /\ d # cur /\ (d \in active' <=> d \in active)
      BY <1>1, <2>2, ConnsAssumption
    <3> QED
      BY <3>1, <3>2, EdgeFrame DEF Edges
  <2> QED
    BY <2>1, <2>2
<1>4. CASE Close({c}) /\ UNCHANGED channel
  BY <1>1, <1>4, CloseEdges
<1> QED
  BY <1>2, <1>3, <1>4 DEF HandleConn

\* NewEvent: a descriptor that is registered is ready for what it has.
LEMMA NewEventEdges ==
  ASSUME TypeOK, Owners, Edges, NEW c \in Conns, NewEvent(c)
  PROVE  Edges'
<1> SUFFICES ASSUME NEW d \in Conns PROVE EdgeKept(d)'
  BY DEF Edges
<1> DEFINE first == {"IN", "ONESHOT"}
<1>1. /\ http' = http /\ sock' = sock
      /\ active' = {} /\ active = {} /\ cur' = None /\ cur = None
      /\ channel' = [channel EXCEPT ![c].events_ = first, ![c].last_events_ = first]
      /\ first \in SUBSET Bits
      /\ functors # <<>> /\ c = Head(functors)
  BY DEF NewEvent, TypeOK, Bits
<1>2. /\ \A e \in Conns \ {c} : channel'[e] = channel[e]
      /\ channel'[c].last_events_ = first
  BY <1>1, Watches DEF TypeOK
<1>3. /\ \/ /\ fd2channel_' = [fd2channel_ EXCEPT ![http[c].fd_] = c]
            /\ interest' = [interest EXCEPT ![c] = first]
            /\ edge' = [edge EXCEPT ![c] = Watched(PollState(sock[c]), first) # {}]
         \/ /\ fd2channel_' = [fd2channel_ EXCEPT ![http[c].fd_] = None]
            /\ interest' = interest /\ edge' = edge
  BY DEF NewEvent, EpollAdd
<1>4. http[c].fd_ \in Fds /\ fd2http_[http[c].fd_] = None /\ Fresh(http[c])
  <2>1. 1 \in DOMAIN functors /\ functors[1] = c
    BY <1>1 DEF TypeOK
  <2>2. Bound(c)
    BY <2>1 DEF Bound
  <2> QED
    BY <2>2 DEF Owners, Newcomers
<1>5. CASE d # c
  <2>1. interest'[d] = interest[d] /\ edge'[d] = edge[d]
    BY <1>3, <1>5 DEF TypeOK
  <2>2. \A f \in Fds : fd2channel_'[f] = d => fd2channel_[f] = d
    BY <1>3, <1>5, ConnsAssumption DEF TypeOK
  <2> QED
    BY <1>1, <1>2, <1>5, <2>1, <2>2, ConnsAssumption, EdgeFrame DEF Edges
<1>6. CASE d = c
  <2> SUFFICES ASSUME Live(c)'
               PROVE  Watching(c)'
    BY <1>1, <1>6 DEF EdgeKept
  <2>1. \A f \in Fds : fd2channel_[f] # c
    BY <1>4, ConnsAssumption DEF Owners, Tables
  <2>2. PICK f \in Fds : fd2channel_'[f] = c
    BY DEF Live
  <2>3. fd2channel_' # [fd2channel_ EXCEPT ![http[c].fd_] = None]
    BY <2>1, <2>2, ConnsAssumption DEF TypeOK
  <2>4. /\ interest'[c] = first
        /\ edge'[c] <=> Watched(PollState(sock[c]), first) # {}
    BY <1>3, <2>3 DEF TypeOK
  <2>5. sock[c].rx > 0 \/ sock[c].eof => edge'[c]
    BY <2>4 DEF Watched, PollState
  <2> QED
    BY <1>1, <1>2, <1>4, <2>4, <2>5 DEF Watching, Fresh
<1> QED
  BY <1>5, <1>6

\* HandNewConn: epoll does not serve the newcomer yet.
LEMMA AcceptEdges ==
  ASSUME TypeOK, Owners, Edges, NEW c \in Conns, Accept(c)
  PROVE  Edges'
<1> SUFFICES ASSUME NEW d \in Conns PROVE EdgeKept(d)'
  BY DEF Edges
<1>1. /\ http[c].fd_ = None
      /\ UNCHANGED <<channel, sock, fd2channel_, active, cur, stage, interest, edge>>
  BY DEF Accept, pollVars, kernelVars
<1>2. CASE d # c
  <2>1. http'[d] = http[d]
    BY <1>2, Accepts DEF TypeOK
  <2> QED
    BY <1>1, <2>1, EdgeFrame DEF Edges
<1>3. CASE d = c
  <2>1. ASSUME NEW f \in Fds, fd2channel_[f] = c
        PROVE  FALSE
    <3>1. fd2http_[f] = c
      BY <2>1 DEF Owners, Tables
    <3>2. http[c].fd_ = f
      BY <3>1 DEF Owners, Tables
    <3> QED
      BY <1>1, <3>2, FdsAssumption
  <2> QED
    BY <1>1, <1>3, <2>1 DEF EdgeKept, Live
<1> QED
  BY <1>2, <1>3

\* HandleExpired: what is left is as it was.
LEMMA ExpiredEdges ==
  ASSUME TypeOK, Owners, Edges, HandleExpired
  PROVE  Edges'
<1>1. PICK popped \in Popped(timer_node_queue_, clock) :
        Close({n.sp_http_data_ : n \in popped} \ {None})
  BY DEF HandleExpired
<1>2. {n.sp_http_data_ : n \in popped} \ {None} \in SUBSET Conns
  BY PoppedNodes DEF TypeOK, NodeType
<1>3. channel' = channel /\ cur = None /\ cur' = None /\ active = {} /\ active' = {}
  BY DEF HandleExpired, TypeOK
<1> QED
  BY <1>1, <1>2, <1>3, CloseEdges

\* Every step keeps the edges.
LEMMA EdgesStep ==
  ASSUME TypeOK, Buffered, Owners, Edges, [Next]_vars
  PROVE  Edges'
<1>1. CASE Tick \/ DoPendingFunctors \/ FunctorsDone \/ UNCHANGED vars
  <2>1. UNCHANGED <<http, channel, sock, fd2channel_, active, cur, stage, interest, edge>>
    BY <1>1
    DEF Tick, DoPendingFunctors, FunctorsDone, vars, loopVars, pollVars, kernelVars
  <2> QED
    BY <2>1, EdgeFrame DEF Edges
<1>2. ASSUME NEW c \in Conns, PeerSends(c)
      PROVE  Edges'
  <2> DEFINE s == [sock[c] EXCEPT !.rx = @ + 1, !.sent = @ + 1]
  <2>1. /\ sock[c] \in SockType /\ http[c].in_buffer_ \in Nat
        /\ http[c].in_buffer_ + sock[c].rx <= sock[c].sent
        /\ sock[c].sent < MaxSegments
    BY <1>2, BoundsAssumption DEF PeerSends, TypeOK, HttpType, Buffered
  <2>2. sock[c].rx + 1 \in 0..MaxSegments /\ sock[c].sent + 1 \in 0..MaxSegments
    BY <2>1, BoundsAssumption DEF SockType
  <2>3. /\ s \in SockType /\ (s.rst <=> sock[c].rst) /\ (s.room <=> sock[c].room)
    BY <2>1, <2>2 DEF SockType
  <2>4. SocketEvent(c, s, {"IN"})
    BY <1>2 DEF PeerSends
  <2> HIDE DEF s
  <2> QED
    BY <2>3, <2>4, PeerEdges
<1>3. ASSUME NEW c \in Conns, PeerCloses(c)
      PROVE  Edges'
  <2> DEFINE s == [sock[c] EXCEPT !.eof = TRUE]
  <2>1. s \in SockType /\ (s.rst <=> sock[c].rst) /\ (s.room <=> sock[c].room)
    BY DEF TypeOK, SockType
  <2>2. SocketEvent(c, s, {"IN"})
    BY <1>3 DEF PeerCloses
  <2> HIDE DEF s
  <2> QED
    BY <2>1, <2>2, PeerEdges
<1>4. ASSUME NEW c \in Conns, PeerResets(c)
      PROVE  Edges'
  <2> DEFINE s == [sock[c] EXCEPT !.rst = TRUE]
  <2>1. s \in SockType /\ s.rst /\ (s.room <=> sock[c].room)
    BY DEF TypeOK, SockType
  <2>2. SocketEvent(c, s, {"IN", "OUT", "HUP"})
    BY <1>4 DEF PeerResets
  <2> HIDE DEF s
  <2> QED
    BY <2>1, <2>2, PeerEdges
<1>5. ASSUME NEW c \in Conns, PeerDrains(c)
      PROVE  Edges'
  <2> DEFINE s == [sock[c] EXCEPT !.room = TRUE]
  <2>1. /\ s \in SockType /\ (s.rst <=> sock[c].rst) /\ s.room
        /\ s.rx = sock[c].rx /\ (s.eof <=> sock[c].eof)
    BY DEF TypeOK, SockType
  <2>2. SocketEvent(c, s, {"OUT"})
    BY <1>5 DEF PeerDrains
  <2> HIDE DEF s
  <2> QED
    BY <2>1, <2>2, PeerEdges
<1> QED
  BY <1>1, <1>2, <1>3, <1>4, <1>5, AcceptEdges, PollEdges, HandleEventsEdges,
     ReadEdges, WriteEdges, ConnEdges, NewEventEdges, ExpiredEdges
  DEF Next, LoopStep, Environment

-----------------------------------------------------------------------------
\* The invariant holds.

\* The invariant holds of the initial state,
LEMMA Initially ==
  ASSUME Init
  PROVE  IInv
<1> USE ConnsAssumption, FdsAssumption, BoundsAssumption DEF Init
<1>1. NewHttp \in HttpType /\ NewChannel \in ChannelType /\ NewSock \in SockType
  BY DEF NewHttp, HttpType, NewChannel, ChannelType, Bits, NewSock, SockType
<1>2. TypeOK
  <2>1. /\ http \in [Conns -> HttpType] /\ channel \in [Conns -> ChannelType]
        /\ sock \in [Conns -> SockType]
    BY <1>1
  <2>2. pending_functors_ \in Seq(Conns) /\ functors \in Seq(Conns)
    BY SMT
  <2> QED
    BY <2>1, <2>2 DEF TypeOK
<1>3. \A c \in Conns :
        /\ http[c].in_buffer_ = 0 /\ sock[c].rx = 0 /\ sock[c].sent = 0
        /\ http[c].fd_ = None /\ http[c].connection_state_ = "H_CONNECTED"
        /\ ~http[c].error_ /\ ~http[c].out_buffer_
  BY DEF NewHttp, NewSock
<1>4. Buffered
  BY <1>3 DEF Buffered
<1>5. \A c \in Conns : ~Bound(c)
  BY DEF Bound
<1>6. Owners
  <2>1. Tables
    BY DEF Tables
  <2>2. Newcomers
    BY <1>3, <1>5 DEF Newcomers, Fresh
  <2>3. BoundOnce
    BY DEF BoundOnce
  <2>4. Nodes /\ OneTimer
    BY DEF Nodes, OneTimer
  <2>5. Timed
    BY DEF Timed
  <2>6. Gone
    BY <1>3 DEF Gone
  <2> QED
    BY <2>1, <2>2, <2>3, <2>4, <2>5, <2>6 DEF Owners
<1>7. NodeTimes
  BY DEF NodeTimes
<1>8. Edges
  BY DEF Edges, EdgeKept, Live
<1> QED
  BY <1>2, <1>4, <1>6, <1>7, <1>8 DEF IInv

\* every step keeps it,
LEMMA Inductive ==
  ASSUME IInv, [Next]_vars
  PROVE  IInv'
<1> USE DEF IInv
<1>1. TypeOK'
  BY TypeStep
<1>2. Buffered'
  BY BufferedStep
<1>3. Owners'
  BY <1>1, OwnersStep
<1>4. NodeTimes'
  BY NodeTimesStep
<1>5. Edges'
  BY EdgesStep
<1> QED
  BY <1>1, <1>2, <1>3, <1>4, <1>5

\* and so it always holds.
LEMMA Invariance == Spec => []IInv
BY Initially, Inductive, PTL DEF Spec

-----------------------------------------------------------------------------
\* What the runs check.

\* Every variable keeps its type, the buffers stay within what the peer may
\* send, and a handler runs only while a batch of events is handled.
THEOREM TypeCorrect == Spec => []TypeOK
<1>1. IInv => TypeOK
  BY DEF IInv
<1> QED
  BY <1>1, Invariance, PTL

\* Whatever the handlers, the timers and the peers do between two events, a
\* channel of the batch that Poll returned still has its HttpData when its
\* handlers, which are bound to a raw this, are called.
THEOREM HandlersAreNotDangling == Spec => []NoDanglingHandler
<1>1. ASSUME IInv PROVE NoDanglingHandler
  <2>1. ASSUME NEW c \in active PROVE Alive(c)
    <3>1. c \in Conns /\ http[c].fd_ \in Fds /\ fd2http_[http[c].fd_] = c
      BY <1>1, Served DEF IInv, Owners
    <3> QED
      BY <3>1 DEF Alive
  <2> QED
    BY <2>1 DEF NoDanglingHandler
<1> QED
  BY <1>1, Invariance, PTL

\* However often HandleRead drops a timer and HandleConn adds one, no node but
\* the one that timer_ points to can still close the connection.
THEOREM TimersAreUnique == Spec => []OneTimer
<1>1. IInv => OneTimer
  BY DEF IInv, Owners
<1> QED
  BY <1>1, Invariance, PTL

\* A connection that epoll serves and that is not half closed is never left
\* without a timer by its handlers.
THEOREM ConnectedHaveTimers == Spec => []ConnectedIsTimed
<1>1. ASSUME IInv PROVE ConnectedIsTimed
  <2> SUFFICES ASSUME NEW c \in Conns \ active, NEW f \in Fds, fd2http_[f] = c,
                      http[c].connection_state_ = "H_CONNECTED"
               PROVE  timer_[c] \in timer_node_queue_ /\ timer_[c].sp_http_data_ = c
    BY DEF ConnectedIsTimed
  <2>1. c # cur /\ timer_node_queue_ \subseteq NodeType
    BY <1>1, ConnsAssumption DEF IInv, TypeOK
  <2>2. timer_[c] \in timer_node_queue_
    BY <1>1, <2>1 DEF IInv, Owners, Timed
  <2>3. timer_[c] # None
    BY <2>1, <2>2, NodeAssumption
  <2> QED
    BY <1>1, <2>2, <2>3 DEF IInv, Owners, Nodes
<1> QED
  BY <1>1, Invariance, PTL

\* When its last handler returns, a connection that failed or was closed has
\* no owner left: no functor, table or timer node leaks it.
THEOREM ClosedAreDestroyed == Spec => []ClosedIsDestroyed
<1>1. ASSUME IInv PROVE ClosedIsDestroyed
  <2> SUFFICES ASSUME NEW c \in Conns \ active,
                      http[c].error_ \/ http[c].connection_state_ = "H_DISCONNECTED"
               PROVE  ~Alive(c)
    BY DEF ClosedIsDestroyed
  <2>1. c # cur
    BY <1>1, ConnsAssumption DEF IInv, TypeOK
  <2>2. ~Bound(c) /\ \A f \in Fds : fd2http_[f] # c
    BY <1>1, <2>1 DEF IInv, Owners, Gone
  <2>3. \A n \in timer_node_queue_ : n.sp_http_data_ # c
    BY <1>1, <2>2 DEF IInv, Owners, Tables
  <2> QED
    BY <2>2, <2>3 DEF Alive, Bound
<1> QED
  BY <1>1, Invariance, PTL

\* Edge triggering, one-shot watches, epoll_ctl calls that are skipped and
\* handlers that read while events arrive never lose an edge: a connection
\* with something to do is on epoll's ready list.
THEOREM EdgesAreNotLost == Spec => []NoLostEdge
<1>1. ASSUME IInv PROVE NoLostEdge
  <2> SUFFICES ASSUME NEW c \in Conns \ active, NEW f \in Fds, fd2channel_[f] = c,
                      http[c].connection_state_ = "H_CONNECTED", ~sock[c].rst,
                      IF http[c].out_buffer_ THEN sock[c].room
                                             ELSE sock[c].rx > 0 \/ sock[c].eof
               PROVE  edge[c] /\ Watched(PollState(sock[c]), interest[c]) # {}
    BY DEF NoLostEdge
  <2>1. c # cur
    BY <1>1, ConnsAssumption DEF IInv, TypeOK
  <2>2. ~http[c].error_
    BY <1>1, <2>1 DEF IInv, Owners, Gone, Tables
  <2>3. Watching(c)
    BY <1>1, <2>2 DEF IInv, Edges, EdgeKept, Live
  <2>4. CASE interest[c] = {"OUT"} /\ (sock[c].room => edge[c])
             /\ (http[c].out_buffer_ \/ sock[c].room)
    <3>1. sock[c].room /\ edge[c]
      BY <2>4
    <3>2. "OUT" \in Watched(PollState(sock[c]), interest[c])
      BY <2>4, <3>1 DEF PollState, Watched
    <3> QED
      BY <3>1, <3>2
  <2>5. CASE interest[c] \in {{"IN"}, {"IN", "ONESHOT"}} /\ ~http[c].out_buffer_
             /\ (sock[c].rx > 0 \/ sock[c].eof => edge[c])
    <3>1. (sock[c].rx > 0 \/ sock[c].eof) /\ edge[c]
      BY <2>5
    <3>2. "IN" \in Watched(PollState(sock[c]), interest[c])
      BY <2>5, <3>1 DEF PollState, Watched
    <3> QED
      BY <3>1, <3>2
  <2> QED
    BY <2>3, <2>4, <2>5 DEF Watching
<1> QED
  BY <1>1, Invariance, PTL

\* HandleExpired never closes a connection before the timeout that its last
\* activity set is over, however often the clock has wrapped since: popping a
\* node on its wrapped time, or a deleted one out of order, harms nobody.
THEOREM TimersAreNotEarly == Spec => NoEarlyTimeout
<1>1. ASSUME IInv, [Next]_vars
      PROVE  [\A c \in Conns :
               /\ phase = "expired"
               /\ http[c].connection_state_ # "H_DISCONNECTED"
               /\ http'[c].connection_state_ = "H_DISCONNECTED"
               => timer_[c].due <= clock]_vars
  <2> SUFFICES ASSUME NEW c \in Conns, phase = "expired",
                      http[c].connection_state_ # "H_DISCONNECTED",
                      http'[c].connection_state_ = "H_DISCONNECTED"
               PROVE  timer_[c].due <= clock
    OBVIOUS
  <2>1. cur = None /\ stage = "idle" /\ active = {} /\ http \in [Conns -> HttpType]
    BY <1>1 DEF IInv, TypeOK
  <2>2. http' # http
    OBVIOUS
  <2>3. CASE HandleExpired
    <3>1. PICK popped \in Popped(timer_node_queue_, clock) :
            Close({n.sp_http_data_ : n \in popped} \ {None})
      BY <2>3 DEF HandleExpired
    <3>2. PICK n \in popped : n.sp_http_data_ = c
      BY <3>1 DEF Close
    <3>3. n \in timer_node_queue_ /\ c # None
      BY PoppedNodes, ConnsAssumption
    <3>4. timer_[c] = n
      BY <1>1, <3>2, <3>3 DEF IInv, Owners, OneTimer
    <3> QED
      BY <1>1, <3>2, <3>3, <3>4, PoppedIsDue DEF IInv, Owners
  <2>4. CASE \E d \in Conns : Accept(d)
    <3>1. PICK d \in Conns : Accept(d)
      BY <2>4
    <3>2. PICK f \in FreeFds : http' = [http EXCEPT ![d].fd_ = f]
      BY <3>1 DEF Accept
    <3>3. http'[c].connection_state_ = http[c].connection_state_
      BY <2>1, <3>2 DEF HttpType
    <3> QED
      BY <3>3
  <2>5. CASE UNCHANGED http
    BY <2>2, <2>5
  <2> QED
    BY <1>1, <2>1, <2>3, <2>4, <2>5, ConnsAssumption
    DEF Next, LoopStep, Environment, Poll, HandleEvents, HandleRead,
        HandleWrite, HandleConn, DoPendingFunctors, NewEvent, FunctorsDone,
        PeerSends, PeerCloses, PeerResets, PeerDrains, SocketEvent, Tick, vars
<1> QED
  BY <1>1, Invariance, PTL DEF Spec, NoEarlyTimeout

\* Until the clock wraps, HandleExpired leaves no node whose time has come,
\* whatever lies above it in the heap.
THEOREM PassesAreComplete == Spec => PassLeavesNothingOverdue
<1>1. ASSUME IInv, [Next]_vars
      PROVE  [phase = "expired" /\ phase' = "poll" /\ clock < TimeWrap
                => \A n \in timer_node_queue_' : clock < n.due]_vars
  <2> SUFFICES ASSUME phase = "expired", phase' = "poll", clock < TimeWrap,
                      NEW n \in timer_node_queue_'
               PROVE  clock < n.due
    OBVIOUS
  <2>1. HandleExpired
    BY <1>1
    DEF Next, LoopStep, Environment, Poll, HandleEvents, HandleRead,
        HandleWrite, HandleConn, DoPendingFunctors, NewEvent, FunctorsDone,
        Accept, PeerSends, PeerCloses, PeerResets, PeerDrains, SocketEvent,
        Tick, vars, loopVars
  <2>2. PICK popped \in Popped(timer_node_queue_, clock) :
          timer_node_queue_' = timer_node_queue_ \ popped
    BY <2>1 DEF HandleExpired
  <2> QED
    BY <1>1, <2>2, LeftIsNotDue DEF IInv
<1> QED
  BY <1>1, Invariance, PTL DEF Spec, PassLeavesNothingOverdue

=============================================================================
