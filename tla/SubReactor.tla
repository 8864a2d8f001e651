----------------------------- MODULE SubReactor -----------------------------
(***************************************************************************)
(* The connections of one sub-loop: Epoll (fd2channel_, fd2http_, the      *)
(* timer queue), Channel (events_, last_events_, revents_) and the life of *)
(* HttpData from NewEvent to its destruction, driven by one EventLoop.     *)
(* The sockets and the kernel's epoll are environment, modelled from how   *)
(* they are used: edge-triggered, one-shot on the first event.             *)
(*                                                                         *)
(* Sets of event bits leave EPOLLET out: every set that reaches epoll_ctl  *)
(* has it.  A request is a segment of input; parsing one has any of the    *)
(* outcomes the parser has.  HttpData is destroyed with its last           *)
(* shared_ptr: Alive below counts them.                                    *)
(***************************************************************************)
EXTENDS Naturals, Sequences, FiniteSets, TimerManager

CONSTANTS
  Conns,                   \* HttpData objects; each is accepted at most once
  Fds,                     \* descriptor numbers accept() can return
  kDefaultExpiredTime,     \* 2 s in the code
  kDefaultKeepAliveTime,   \* 5 min in the code
  MaxSegments,             \* bound: segments of input a peer sends
  MaxClock                 \* bound: the clock stops here

ASSUME ConnsAssumption == None \notin Conns
ASSUME FdsAssumption == Fds \subseteq Nat /\ None \notin Fds
ASSUME BoundsAssumption == MaxSegments \in Nat /\ MaxClock \in Nat
ASSUME TimeoutAssumption ==
  /\ kDefaultExpiredTime \in Nat \ {0}
  /\ kDefaultKeepAliveTime \in Nat
  /\ kDefaultKeepAliveTime >= 2

VARIABLES
  http,                    \* HttpData: fd_, flags, how much the buffers hold
  channel,                 \* Channel: events_, last_events_, revents_
  timer_,                  \* HttpData::timer_, a weak pointer
  fd2channel_, fd2http_,   \* Epoll's tables, by descriptor
  timer_node_queue_,       \* TimerManager's queue
  pending_functors_,       \* connections whose NewEvent is queued
  functors,                \* connections whose NewEvent is about to run
  wakeup,                  \* the eventfd is readable
  phase,                   \* where Loop() is
  active,                  \* channels of the last Poll not yet handled
  cur, stage,              \* the channel in HandleEvents; the handler it is in
  interest,                \* kernel: what epoll watches, {} when disarmed
  edge,                    \* kernel: the descriptor is on the ready list
  sock,                    \* kernel: the socket
  clock

loopVars == <<pending_functors_, functors, wakeup, phase, active,
              cur, stage>>
pollVars == <<fd2channel_, fd2http_>>
timerVars == <<timer_, timer_node_queue_>>
kernelVars == <<interest, edge, sock>>
vars == <<http, channel, loopVars, pollVars, timerVars, kernelVars, clock>>

Bits == {"IN", "OUT", "HUP", "ONESHOT"}
HttpType ==
  [fd_ : Fds \union {None}, error_ : BOOLEAN,
   connection_state_ : {"H_CONNECTED", "H_DISCONNECTING", "H_DISCONNECTED"},
   keep_alive_ : BOOLEAN,
   in_buffer_ : 0..MaxSegments, out_buffer_ : BOOLEAN]
ChannelType ==
  [events_ : SUBSET Bits, last_events_ : SUBSET Bits, revents_ : SUBSET Bits]
SockType ==
  [rx : 0..MaxSegments, sent : 0..MaxSegments, eof : BOOLEAN, rst : BOOLEAN,
   room : BOOLEAN]
NodeType ==
  [sp_http_data_ : Conns \union {None}, expired_time_ : Nat,
   deleted_ : BOOLEAN, due : Nat]

ASSUME NodeAssumption == None \notin NodeType

\* The constructors of HttpData and Channel, but for the descriptor.
NewHttp ==
  [fd_ |-> None, error_ |-> FALSE, connection_state_ |-> "H_CONNECTED",
   keep_alive_ |-> FALSE, in_buffer_ |-> 0, out_buffer_ |-> FALSE]
NewChannel == [events_ |-> {}, last_events_ |-> {}, revents_ |-> {}]
NewSock ==
  [rx |-> 0, sent |-> 0, eof |-> FALSE, rst |-> FALSE, room |-> TRUE]

Init ==
  /\ http = [c \in Conns |-> NewHttp]
  /\ channel = [c \in Conns |-> NewChannel]
  /\ timer_ = [c \in Conns |-> None]
  /\ fd2channel_ = [f \in Fds |-> None]
  /\ fd2http_ = [f \in Fds |-> None]
  /\ timer_node_queue_ = {}
  /\ pending_functors_ = <<>> /\ functors = <<>> /\ wakeup = FALSE
  /\ phase = "poll" /\ active = {}
  /\ cur = None /\ stage = "idle"
  /\ interest = [c \in Conns |-> {}]
  /\ edge = [c \in Conns |-> FALSE]
  /\ sock = [c \in Conns |-> NewSock]
  /\ clock = 0

\* The shared_ptrs to an HttpData: the bound NewEvent, fd2http_, and the
\* timer nodes that have not let it go.  Its destructor closes the fd.
Alive(c) ==
  \/ \E i \in DOMAIN pending_functors_ : pending_functors_[i] = c
  \/ \E i \in DOMAIN functors : functors[i] = c
  \/ \E f \in Fds : fd2http_[f] = c
  \/ \E n \in timer_node_queue_ : n.sp_http_data_ = c

-----------------------------------------------------------------------------
\* The kernel (external).

\* What poll() would say of a socket.
PollState(s) ==
  (IF s.rx > 0 \/ s.eof \/ s.rst THEN {"IN"} ELSE {})
    \union (IF s.room \/ s.rst THEN {"OUT"} ELSE {})
    \union (IF s.rst THEN {"HUP"} ELSE {})

\* The bits epoll reports: those watched, and EPOLLHUP always; nothing while
\* the descriptor is not registered or its one shot is spent.
Watched(bits, watch) ==
  IF watch = {} THEN {} ELSE bits \intersect (watch \union {"HUP"})

\* The socket of c becomes s, which raises the given bits.
SocketEvent(c, s, bits) ==
  /\ sock' = [sock EXCEPT ![c] = s]
  /\ edge' = [edge EXCEPT ![c] = @ \/ Watched(bits, interest[c]) # {}]
  /\ UNCHANGED <<http, channel, loopVars, pollVars, timerVars, interest, clock>>

\* The peer sends a segment, closes its end, resets, or reads our output.
PeerSends(c) ==
  /\ Alive(c)
  /\ ~sock[c].eof /\ ~sock[c].rst /\ sock[c].sent < MaxSegments
  /\ SocketEvent(c, [sock[c] EXCEPT !.rx = @ + 1, !.sent = @ + 1], {"IN"})

PeerCloses(c) ==
  /\ Alive(c)
  /\ ~sock[c].eof /\ ~sock[c].rst
  /\ SocketEvent(c, [sock[c] EXCEPT !.eof = TRUE], {"IN"})

PeerResets(c) ==
  /\ Alive(c)
  /\ ~sock[c].rst
  /\ SocketEvent(c, [sock[c] EXCEPT !.rst = TRUE], {"IN", "OUT", "HUP"})

PeerDrains(c) ==
  /\ Alive(c)
  /\ ~sock[c].room /\ ~sock[c].rst
  /\ SocketEvent(c, [sock[c] EXCEPT !.room = TRUE], {"OUT"})

Tick ==
  /\ clock < MaxClock
  /\ clock' = clock + 1
  /\ UNCHANGED <<http, channel, loopVars, pollVars, timerVars, kernelVars>>

-----------------------------------------------------------------------------
\* The main loop's thread: HandNewConn makes the HttpData and queues its
\* NewEvent; accept() returns the lowest free descriptor.
FreeFds == {f \in Fds : \A c \in Conns : Alive(c) => http[c].fd_ # f}

\* Mutant: NewEvent is queued and the loop is not woken up.
AcceptNoWake(c) ==
  /\ http[c].fd_ = None
  /\ \E f \in FreeFds :
       /\ \A g \in FreeFds : f <= g
       /\ http' = [http EXCEPT ![c].fd_ = f]
  /\ pending_functors_' = Append(pending_functors_, c)
  /\ UNCHANGED <<channel, functors, wakeup, phase, active, cur, stage,
                 pollVars, timerVars, kernelVars, clock>>

Accept(c) ==
  /\ http[c].fd_ = None
  /\ \E f \in FreeFds :
       /\ \A g \in FreeFds : f <= g
       /\ http' = [http EXCEPT ![c].fd_ = f]
  /\ pending_functors_' = Append(pending_functors_, c)
  /\ wakeup' = TRUE
  /\ UNCHANGED <<channel, functors, phase, active, cur, stage, pollVars,
                 timerVars, kernelVars, clock>>

-----------------------------------------------------------------------------
\* Epoll.  The three operations set the poll tables and the kernel's watch;
\* epoll_ctl may fail.

\* Mutant: fd2http_ is not set, only the timer holds the HttpData.
EpollAddNoHold(c, events, timeout) ==
  LET f == http[c].fd_
      n == TimerNode(c, clock, timeout)
  IN  /\ timer_node_queue_' = AddTimer(timer_node_queue_, c, clock, timeout)
      /\ timer_' = [timer_ EXCEPT ![c] = n]
      /\ fd2channel_' = [fd2channel_ EXCEPT ![f] = c]
      /\ interest' = [interest EXCEPT ![c] = events]
      /\ edge' = [edge EXCEPT ![c] = Watched(PollState(sock[c]), events) # {}]
      /\ UNCHANGED fd2http_

\* EpollAdd with a timeout; last_events_ is the caller's.
EpollAdd(c, events, timeout) ==
  LET f == http[c].fd_
      n == TimerNode(c, clock, timeout)
  IN  /\ timer_node_queue_' = AddTimer(timer_node_queue_, c, clock, timeout)
      /\ timer_' = [timer_ EXCEPT ![c] = n]
      /\ fd2http_' = [fd2http_ EXCEPT ![f] = c]
      /\ \/ /\ fd2channel_' = [fd2channel_ EXCEPT ![f] = c]
            /\ interest' = [interest EXCEPT ![c] = events]
            /\ edge' = [edge EXCEPT
                          ![c] = Watched(PollState(sock[c]), events) # {}]
         \/ /\ fd2channel_' = [fd2channel_ EXCEPT ![f] = None]
            /\ UNCHANGED <<interest, edge>>

\* Mutant: the timer is armed only when epoll_ctl is called.
EpollModTimerOnChange(c, events, queue, timeout) ==
  LET f == http[c].fd_
      n == TimerNode(c, clock, timeout)
  IN  /\ channel' = [channel EXCEPT ![c].events_ = events,
                                    ![c].last_events_ = events]
      /\ UNCHANGED <<fd2http_, sock, fd2channel_>>
      /\ IF channel[c].last_events_ = events
         THEN /\ timer_node_queue_' = queue
              /\ timer_' = [timer_ EXCEPT ![c] = None]
              /\ UNCHANGED <<interest, edge>>
         ELSE /\ timer_node_queue_' = AddTimer(queue, c, clock, timeout)
              /\ timer_' = [timer_ EXCEPT ![c] = n]
              /\ interest' = [interest EXCEPT ![c] = events]
              /\ edge' = [edge EXCEPT
                            ![c] = Watched(PollState(sock[c]), events) # {}]

\* EpollMod with a timeout, on a timer queue that SeperateTimer has left:
\* epoll_ctl is called only if the events differ from the last ones.
EpollMod(c, events, queue, timeout) ==
  LET f == http[c].fd_
      n == TimerNode(c, clock, timeout)
  IN  /\ timer_node_queue_' = AddTimer(queue, c, clock, timeout)
      /\ timer_' = [timer_ EXCEPT ![c] = n]
      /\ channel' = [channel EXCEPT ![c].events_ = events,
                                    ![c].last_events_ = events]
      /\ UNCHANGED <<fd2http_, sock>>
      /\ \/ /\ channel[c].last_events_ = events
            /\ UNCHANGED <<fd2channel_, interest, edge>>
         \/ /\ channel[c].last_events_ # events
            /\ interest' = [interest EXCEPT ![c] = events]
            /\ edge' = [edge EXCEPT
                          ![c] = Watched(PollState(sock[c]), events) # {}]
            /\ UNCHANGED fd2channel_
         \/ /\ channel[c].last_events_ # events
            /\ fd2channel_' = [fd2channel_ EXCEPT ![f] = None]
            /\ UNCHANGED <<interest, edge>>

\* Mutant: EpollDel forgets fd2http_.
CloseKeepsHttp(cs) ==
  LET gone == {http[c].fd_ : c \in cs}
  IN  /\ http' = [c \in Conns |->
                    IF c \in cs
                    THEN [http[c] EXCEPT !.connection_state_ = "H_DISCONNECTED"]
                    ELSE http[c]]
      /\ fd2channel_' = [f \in Fds |-> IF f \in gone THEN None ELSE fd2channel_[f]]
      /\ interest' = [c \in Conns |-> IF c \in cs THEN {} ELSE interest[c]]
      /\ edge' = [c \in Conns |-> IF c \in cs THEN FALSE ELSE edge[c]]
      /\ UNCHANGED <<fd2http_, sock>>

\* HandleClose and its EpollDel, for the connections of a set at once.
Close(cs) ==
  LET gone == {http[c].fd_ : c \in cs}
  IN  /\ http' = [c \in Conns |->
                    IF c \in cs
                    THEN [http[c] EXCEPT !.connection_state_ = "H_DISCONNECTED"]
                    ELSE http[c]]
      /\ fd2channel_' = [f \in Fds |-> IF f \in gone THEN None ELSE fd2channel_[f]]
      /\ fd2http_' = [f \in Fds |-> IF f \in gone THEN None ELSE fd2http_[f]]
      /\ interest' = [c \in Conns |-> IF c \in cs THEN {} ELSE interest[c]]
      /\ edge' = [c \in Conns |-> IF c \in cs THEN FALSE ELSE edge[c]]
      /\ UNCHANGED sock

\* Epoll::Poll: epoll_wait and GetEventsRequest.  A reported descriptor whose
\* fd2channel_ is empty is dropped; Poll returns once a channel is left.
Poll ==
  LET reported == {c \in Conns : /\ edge[c]
                                 /\ Watched(PollState(sock[c]), interest[c]) # {}}
      found == {c \in reported : fd2channel_[http[c].fd_] = c}
  IN  /\ phase = "poll"
      /\ reported # {} \/ wakeup
      /\ wakeup' = FALSE
      /\ active' = found
      /\ phase' = IF found # {} \/ wakeup THEN "events" ELSE "poll"
      /\ channel' = [c \in Conns |->
           IF c \in found
           THEN [channel[c] EXCEPT
                   !.revents_ = Watched(PollState(sock[c]), interest[c]),
                   !.events_ = {}]
           ELSE channel[c]]
      /\ edge' = [c \in Conns |-> FALSE]
      /\ interest' = [c \in Conns |->
           IF c \in reported /\ "ONESHOT" \in interest[c] THEN {} ELSE interest[c]]
      /\ UNCHANGED <<http, pollVars, timerVars, pending_functors_, functors,
                     cur, stage, sock, clock>>

-----------------------------------------------------------------------------
\* Channel::HandleEvents and the handlers HttpData gives it.

\* The handler that follows HandleRead.
AfterRead(c) == IF "OUT" \in channel[c].revents_ THEN "write" ELSE "conn"

\* HandleEvents up to its first handler.  A hang-up that does not come with
\* EPOLLIN ends it at once: not even HandleConn runs.
HandleEvents(c) ==
  /\ phase = "events" /\ cur = None
  /\ c \in active
  /\ LET revents == channel[c].revents_
         hungUp == "HUP" \in revents /\ "IN" \notin revents
     IN  /\ cur' = IF hungUp THEN None ELSE c
         /\ stage' = IF hungUp THEN "idle"
                     ELSE IF "IN" \in revents THEN "read" ELSE AfterRead(c)
         /\ active' = IF hungUp THEN active \ {c} ELSE active
  /\ channel' = [channel EXCEPT ![c].events_ = {}]
  /\ UNCHANGED <<http, pending_functors_, functors, wakeup, phase, pollVars,
                 timerVars, kernelVars, clock>>

\* WriteN on output: all is written, the socket fills up, or it is broken.
WriteN(s) ==
  IF s.rst THEN {"error"}
  ELSE IF s.room THEN {"some", "all"} ELSE {"some"}

\* Mutant: HandleWrite asks for EPOLLOUT whatever WriteN leaves.
WriteOutcomesAlwaysAsk(h, s, events) ==
  IF h.error_ \/ h.connection_state_ = "H_DISCONNECTED"
  THEN {[http |-> h, room |-> s.room, events |-> events]}
  ELSE IF ~h.out_buffer_
  THEN {[http |-> h, room |-> s.room, events |-> events \union {"OUT"}]}
  ELSE {CASE r = "error" ->
               [http |-> [h EXCEPT !.error_ = TRUE], room |-> s.room,
                events |-> {"OUT"}]
          [] r = "some" ->
               [http |-> h, room |-> FALSE, events |-> events \union {"OUT"}]
          [] r = "all" ->
               [http |-> [h EXCEPT !.out_buffer_ = FALSE], room |-> TRUE,
                events |-> events \union {"OUT"}] : r \in WriteN(s)}

\* HttpData::HandleWrite on h: what WriteN leaves asks for EPOLLOUT.
WriteOutcomes(h, s, events) ==
  IF h.error_ \/ h.connection_state_ = "H_DISCONNECTED" \/ ~h.out_buffer_
  THEN {[http |-> h, room |-> s.room, events |-> events]}
  ELSE {CASE r = "error" ->
               [http |-> [h EXCEPT !.error_ = TRUE], room |-> s.room,
                events |-> {"OUT"}]
          [] r = "some" ->
               [http |-> h, room |-> FALSE, events |-> events \union {"OUT"}]
          [] r = "all" ->
               [http |-> [h EXCEPT !.out_buffer_ = FALSE], room |-> TRUE,
                events |-> events] : r \in WriteN(s)}

\* AnalysisRequest on h: n segments are a request, answered.
Answered(h, n, k) ==
  [h EXCEPT !.in_buffer_ = @ - n, !.out_buffer_ = TRUE, !.keep_alive_ = @ \/ k]

\* ParseURI, ParseHeaders, the body of a POST and AnalysisRequest on h: more
\* input is needed; the request is refused; a request of one or more segments
\* is answered, which may turn keep_alive_ on and never turns it off.
ParseOutcomes(h) ==
  {[http |-> h, finished |-> FALSE],
   [http |-> [h EXCEPT !.error_ = TRUE], finished |-> FALSE]}
  \union
  {[http |-> Answered(h, n, k), finished |-> TRUE] :
     n \in 1..h.in_buffer_, k \in BOOLEAN}

\* ReadN takes all there is, to EAGAIN, to the end of the stream (zero) or to
\* an error.
ReadN(in_buffer_, s) ==
  [in_buffer_ |-> in_buffer_ + s.rx, error |-> s.rst, zero |-> s.eof]

\* HandleRead up to its tail: the state machine runs once.
ReadOutcomes(h0, s) ==
  LET r == ReadN(h0.in_buffer_, s)
      h == [h0 EXCEPT !.in_buffer_ = r.in_buffer_]
      closing == [h EXCEPT !.connection_state_ = "H_DISCONNECTING"]
  IN  IF h.connection_state_ = "H_DISCONNECTING"
      THEN {[http |-> [h EXCEPT !.in_buffer_ = 0], finished |-> FALSE]}
      ELSE IF r.error
      THEN {[http |-> [h EXCEPT !.error_ = TRUE], finished |-> FALSE]}
      ELSE IF r.zero /\ s.rx = 0
      THEN {[http |-> closing, finished |-> FALSE]}
      ELSE ParseOutcomes(IF r.zero THEN closing ELSE h)

\* HttpData::HandleRead: read, parse and answer, write, then Reset after a
\* finished request (which drops the timer) and once more for what a
\* pipelining peer has left in in_buffer_; or ask for EPOLLIN.
HandleRead(c) ==
  /\ cur = c /\ stage = "read"
  /\ \E r \in ReadOutcomes(http[c], sock[c]) :
     \E w \in WriteOutcomes(r.http, sock[c], channel[c].events_) :
       LET ok == ~w.http.error_
           again == /\ ok /\ r.finished /\ w.http.in_buffer_ > 0
                    /\ w.http.connection_state_ # "H_DISCONNECTING"
       IN  /\ http' = [http EXCEPT ![c] = w.http]
           /\ channel' = [channel EXCEPT ![c].events_ =
                IF ok /\ ~r.finished THEN w.events \union {"IN"} ELSE w.events]
           /\ sock' = [sock EXCEPT ![c].rx = 0, ![c].room = w.room]
           /\ stage' = IF again THEN "read" ELSE AfterRead(c)
           /\ IF ok /\ r.finished
              THEN /\ timer_node_queue_' = ClearReq(timer_node_queue_, timer_[c])
                   /\ timer_' = [timer_ EXCEPT ![c] = None]
              ELSE UNCHANGED timerVars
  /\ UNCHANGED <<pending_functors_, functors, wakeup, phase, active, cur,
                 pollVars, interest, edge, clock>>

HandleWrite(c) ==
  /\ cur = c /\ stage = "write"
  /\ \E w \in WriteOutcomes(http[c], sock[c], channel[c].events_) :
       /\ http' = [http EXCEPT ![c] = w.http]
       /\ channel' = [channel EXCEPT ![c].events_ = w.events]
       /\ sock' = [sock EXCEPT ![c].room = w.room]
  /\ stage' = "conn"
  /\ UNCHANGED <<pending_functors_, functors, wakeup, phase, active, cur,
                 pollVars, timerVars, interest, edge, clock>>

\* Mutant: a short connection keeps EPOLLONESHOT, as the line commented out
\* in HandleConn does.
NextEventsOneShot(events) ==
  IF events = {} THEN {"IN", "ONESHOT"}
  ELSE IF {"IN", "OUT"} \subseteq events THEN {"OUT"} ELSE events

\* The events and the timeout HandleConn asks for on a connection that goes
\* on: output first, else input.
NextEvents(events) ==
  IF events = {} THEN {"IN"}
  ELSE IF {"IN", "OUT"} \subseteq events THEN {"OUT"} ELSE events

NextTimeout(h, events) ==
  IF h.keep_alive_ THEN kDefaultKeepAliveTime
  ELSE IF events # {} THEN kDefaultExpiredTime
  ELSE kDefaultKeepAliveTime \div 2

\* HttpData::HandleConn: drop the timer, then watch again with a new timer;
\* or, half closed with output left, note EPOLLOUT and tell nobody; or close.
HandleConn(c) ==
  LET h == http[c]
      events == channel[c].events_
      queue == ClearReq(timer_node_queue_, timer_[c])
      goesOn == ~h.error_ /\ h.connection_state_ = "H_CONNECTED"
      flushing == /\ ~h.error_ /\ h.connection_state_ = "H_DISCONNECTING"
                  /\ "OUT" \in events
  IN  /\ cur = c /\ stage = "conn"
      /\ \/ /\ goesOn
            /\ EpollMod(c, NextEvents(events), queue, NextTimeout(h, events))
            /\ UNCHANGED http
         \/ /\ flushing
            /\ channel' = [channel EXCEPT ![c].events_ = {"OUT"}]
            /\ timer_node_queue_' = queue
            /\ timer_' = [timer_ EXCEPT ![c] = None]
            /\ UNCHANGED <<http, pollVars, kernelVars>>
         \/ /\ ~goesOn /\ ~flushing
            /\ Close({c})
            /\ timer_node_queue_' = queue
            /\ timer_' = [timer_ EXCEPT ![c] = None]
            /\ UNCHANGED channel
      /\ cur' = None /\ stage' = "idle"
      /\ active' = active \ {c}
      /\ UNCHANGED <<pending_functors_, functors, wakeup, phase, clock>>

-----------------------------------------------------------------------------
\* The rest of a turn of EventLoop::Loop.

\* The handlers are done; DoPendingFunctors takes the queue.
DoPendingFunctors ==
  /\ phase = "events" /\ active = {}
  /\ phase' = "functors"
  /\ functors' = pending_functors_
  /\ pending_functors_' = <<>>
  /\ UNCHANGED <<http, channel, wakeup, active, cur, stage, pollVars,
                 timerVars, kernelVars, clock>>

\* HttpData::NewEvent, the functor of an accepted connection.
NewEvent(c) ==
  /\ phase = "functors"
  /\ functors # <<>> /\ c = Head(functors)
  /\ functors' = Tail(functors)
  /\ channel' = [channel EXCEPT ![c].events_ = {"IN", "ONESHOT"},
                                ![c].last_events_ = {"IN", "ONESHOT"}]
  /\ EpollAdd(c, {"IN", "ONESHOT"}, kDefaultExpiredTime)
  /\ UNCHANGED <<http, pending_functors_, wakeup, phase, active, cur, stage,
                 sock, clock>>

\* Mutant: the rest of the batch waits for another turn.
FunctorsDoneEarly ==
  /\ phase = "functors"
  /\ phase' = "expired"
  /\ UNCHANGED <<http, channel, pending_functors_, functors, wakeup, active,
                 cur, stage, pollVars, timerVars, kernelVars, clock>>

FunctorsDone ==
  /\ phase = "functors" /\ functors = <<>>
  /\ phase' = "expired"
  /\ UNCHANGED <<http, channel, pending_functors_, functors, wakeup, active,
                 cur, stage, pollVars, timerVars, kernelVars, clock>>

\* Epoll::HandleExpired: the popped nodes are destroyed, and a node that
\* still holds its HttpData closes it.  Reading the clock once per pass.
HandleExpired ==
  /\ phase = "expired"
  /\ phase' = "poll"
  /\ \E popped \in Popped(timer_node_queue_, clock) :
       /\ timer_node_queue_' = timer_node_queue_ \ popped
       /\ Close({n.sp_http_data_ : n \in popped} \ {None})
  /\ UNCHANGED <<channel, timer_, pending_functors_, functors, wakeup, active,
                 cur, stage, clock>>

-----------------------------------------------------------------------------
LoopStep ==
  \/ Poll
  \/ \E c \in Conns :
       HandleEvents(c) \/ HandleRead(c) \/ HandleWrite(c) \/ HandleConn(c)
  \/ DoPendingFunctors
  \/ \E c \in Conns : NewEvent(c)
  \/ FunctorsDone
  \/ HandleExpired

Environment ==
  \/ \E c \in Conns :
       \/ Accept(c)
       \/ PeerSends(c) \/ PeerCloses(c) \/ PeerResets(c) \/ PeerDrains(c)
  \/ Tick

Next == LoopStep \/ Environment

Spec == Init /\ [][Next]_vars

\* The scheduler runs the loop's thread.  Peers and the clock owe nothing.
FairSpec == Spec /\ WF_vars(LoopStep)

-----------------------------------------------------------------------------
\* Properties.

\* Every variable has its type; a handler runs only while events are handled.
TypeOK ==
  /\ http \in [Conns -> HttpType]
  /\ channel \in [Conns -> ChannelType]
  /\ timer_ \in [Conns -> NodeType \union {None}]
  /\ fd2channel_ \in [Fds -> Conns \union {None}]
  /\ fd2http_ \in [Fds -> Conns \union {None}]
  /\ timer_node_queue_ \subseteq NodeType
  /\ pending_functors_ \in Seq(Conns)
  /\ functors \in Seq(Conns)
  /\ wakeup \in BOOLEAN
  /\ phase \in {"poll", "events", "functors", "expired"}
  /\ active \subseteq Conns
  /\ cur \in active \union {None}
  /\ stage \in {"idle", "read", "write", "conn"}
  /\ cur = None <=> stage = "idle"
  /\ active # {} => phase = "events"
  /\ functors # <<>> => phase = "functors"
  /\ interest \in [Conns -> SUBSET Bits]
  /\ edge \in [Conns -> BOOLEAN]
  /\ sock \in [Conns -> SockType]
  /\ clock \in Nat

\* A Channel outlives its HttpData (fd2channel_ and the vector of Poll hold
\* it) and its handlers are bound to a raw this: whenever a channel is going
\* to be handled, its HttpData still exists.
NoDanglingHandler == \A c \in active : Alive(c)

\* A connection has at most one timer node that can close it, the one its
\* timer_ points to: AddTimer never leaves an older node armed.
OneTimer ==
  \A n \in timer_node_queue_ :
    n.sp_http_data_ # None => timer_[n.sp_http_data_] = n

\* Outside its handlers, a connection that epoll still serves and that has
\* not been half closed has a timer that will close it.
ConnectedIsTimed ==
  \A c \in Conns \ active :
    /\ \E f \in Fds : fd2http_[f] = c
    /\ http[c].connection_state_ = "H_CONNECTED"
    => timer_[c] \in timer_node_queue_ /\ timer_[c].sp_http_data_ = c

\* README.md: timers handle the connections that time out.  Outside its
\* handlers, every connection that epoll keeps open has a timer.
OpenIsTimed ==
  \A c \in Conns \ active :
    (\E f \in Fds : fd2http_[f] = c) =>
      timer_[c] \in timer_node_queue_ /\ timer_[c].sp_http_data_ = c

\* No edge is lost: with edge triggering and with epoll_ctl skipped when the
\* events look unchanged, a served connection with output to flush and room
\* for it, or with no output and input to read, is going to be reported by
\* epoll_wait.  (A reset peer is left to the timer: HandleEvents returns
\* early on EPOLLHUP.)
NoLostEdge ==
  \A c \in Conns \ active :
    /\ \E f \in Fds : fd2channel_[f] = c
    /\ http[c].connection_state_ = "H_CONNECTED" /\ ~sock[c].rst
    /\ IF http[c].out_buffer_ THEN sock[c].room
                              ELSE sock[c].rx > 0 \/ sock[c].eof
    => edge[c] /\ Watched(PollState(sock[c]), interest[c]) # {}

\* A connection that failed or was closed is destroyed with its last handler:
\* no table, no timer node keeps the object and its descriptor.
ClosedIsDestroyed ==
  \A c \in Conns \ active :
    http[c].error_ \/ http[c].connection_state_ = "H_DISCONNECTED"
      => ~Alive(c)

\* HandleExpired closes a connection only when the timeout that its last
\* activity set has passed, wrapping clock or not: an older node never does.
NoEarlyTimeout ==
  [][\A c \in Conns :
       /\ phase = "expired"
       /\ http[c].connection_state_ # "H_DISCONNECTED"
       /\ http'[c].connection_state_ = "H_DISCONNECTED"
       => timer_[c].due <= clock]_vars

\* Until the clock wraps, a pass over the timers leaves no node, live or
\* deleted, whose time has come: nothing overdue hides behind the top of the
\* heap.  (A node made just before the wrap has a time that the clock never
\* reaches, and may stay.)
PassLeavesNothingOverdue ==
  [][phase = "expired" /\ phase' = "poll" /\ clock < TimeWrap
       => \A n \in timer_node_queue_' : clock < n.due]_vars

\* An accepted connection is registered with epoll or given a timer, or is
\* gone: its NewEvent is not left in the queue.
AcceptedIsAdopted ==
  \A c \in Conns :
    (http[c].fd_ # None) ~> ((\E f \in Fds : fd2http_[f] = c) \/ ~Alive(c))

\* Input that arrives while no output is pending is read, or the connection
\* is closed, without any help of the peer or of the clock: also where
\* EPOLLOUT is still watched for output that is gone.  (A reset peer is left
\* to the timer: reported without EPOLLIN, its input is not read.)
InputIsRead ==
  \A c \in Conns :
    /\ \E f \in Fds : fd2channel_[f] = c
    /\ http[c].connection_state_ = "H_CONNECTED"
    /\ ~http[c].out_buffer_ /\ sock[c].rx > 0
    ~> \/ sock[c].rx = 0 \/ sock[c].rst
       \/ \A f \in Fds : fd2channel_[f] # c

\* README.md: connections that time out are handled.
TimedOutIsClosed ==
  \A c \in Conns :
    (\E n \in timer_node_queue_ : n.sp_http_data_ = c /\ n.due <= clock)
      ~> ~(\E n \in timer_node_queue_ : n.sp_http_data_ = c /\ n.due <= clock)
=============================================================================
