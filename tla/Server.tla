------------------------------- MODULE Server -------------------------------
(***************************************************************************)
(* The main thread of the server: it starts the pool of loops, registers   *)
(* the listening socket, and hands every accepted connection to the next   *)
(* loop, edge triggered and with every error path.                         *)
(*                                                                         *)
(* SubReactor is the model of what a loop does with its connections.       *)
(***************************************************************************)
EXTENDS EventLoopThreadPool, Integers

CONSTANT Conns        \* each connects once (the bound)

VARIABLES
  accepting,          \* where the main loop is with accept_channel_
  backlog,            \* completed connections nobody has accepted
  edge,               \* the listening socket is on epoll's ready list
  events_, last_events_,  \* of accept_channel_: "in" or "none"
  watched,            \* EPOLLIN is in epoll's mask
  channel,            \* fd2channel_ still has accept_channel_
  place,              \* per connection
  handed,             \* history: per loop, how often it was its turn
  failed              \* history: a system call failed

serverVars == <<accepting, backlog, edge, events_, last_events_, watched, channel,
                place, handed, failed>>
vars == <<poolVars, serverVars>>

Init ==
  /\ PoolInit
  /\ accepting = "no" /\ backlog = <<>> /\ edge = FALSE
  /\ events_ = "none" /\ last_events_ = "none"
  /\ watched = FALSE /\ channel = FALSE
  /\ place = [c \in Conns |-> "away"]
  /\ handed = [t \in Threads |-> 0]
  /\ failed = FALSE

-----------------------------------------------------------------------------
\* The kernel completes a connection.
Connect(c) ==
  /\ place[c] = "away"
  /\ place' = [place EXCEPT ![c] = "backlog"]
  /\ backlog' = Append(backlog, c)
  /\ edge' = watched
  /\ UNCHANGED <<poolVars, accepting, events_, last_events_, watched, channel,
                 handed, failed>>

\* Server::Start behind the pool's: epoll_ctl reports what is there already.
Start ==
  /\ main = "ready" /\ accepting = "no"
  /\ accepting' = "poll"
  /\ events_' = "in" /\ last_events_' = "in"
  /\ \/ /\ watched' = TRUE /\ channel' = TRUE /\ edge' = (backlog # <<>>)
        /\ UNCHANGED failed
     \/ failed' = TRUE /\ UNCHANGED <<watched, channel, edge>>
  /\ UNCHANGED <<poolVars, backlog, place, handed>>

\* Poll returns accept_channel_, and HandleEvents clears its events_.
PollAccept ==
  /\ main = "ready" /\ accepting = "poll"
  /\ edge /\ watched /\ channel /\ backlog # <<>>
  /\ accepting' = "accept"
  /\ edge' = FALSE /\ events_' = "none"
  /\ UNCHANGED <<poolVars, backlog, last_events_, watched, channel, place, handed,
                 failed>>

\* HandNewConn, one turn of its loop: the connection over the limit is closed,
\* after it was some loop's turn.
Accept(outcome) ==
  /\ accepting = "accept" /\ backlog # <<>>
  /\ backlog' = Tail(backlog)
  /\ place' = [place EXCEPT ![Head(backlog)] = outcome]
  /\ handed' = [handed EXCEPT ![NextLoop] = @ + 1]
  /\ GetNextLoop

AcceptConn ==
  /\ Accept("queued") \/ Accept("closed")
  /\ UNCHANGED <<accepting, edge, events_, last_events_, watched, channel, failed>>

\* SetSocketNonBlocking fails: HandNewConn returns at once, without closing the
\* descriptor and without setting the events.
AcceptBlocking ==
  /\ Accept("leaked")
  /\ accepting' = "conn" /\ failed' = TRUE
  /\ UNCHANGED <<edge, events_, last_events_, watched, channel>>

\* Mutant: HandNewConn forgets to set the events.
AcceptEndsDeaf ==
  /\ accepting = "accept"
  /\ accepting' = "conn"
  /\ failed' = (failed \/ backlog # <<>>)
  /\ UNCHANGED <<poolVars, backlog, edge, events_, last_events_, watched, channel,
                 place, handed>>

\* accept() returns -1, for want of connections or for any other reason.
AcceptEnds ==
  /\ accepting = "accept"
  /\ accepting' = "conn"
  /\ events_' = "in"
  /\ failed' = (failed \/ backlog # <<>>)
  /\ UNCHANGED <<poolVars, backlog, edge, last_events_, watched, channel, place,
                 handed>>

\* HandThisConn: EpollMod, which calls epoll_ctl only for other events than
\* the last.
HandThisConn ==
  /\ accepting = "conn"
  /\ accepting' = "poll"
  /\ last_events_' = events_
  /\ IF events_ = last_events_ THEN UNCHANGED <<watched, edge, channel, failed>>
     ELSE \/ /\ watched' = (events_ = "in")
             /\ edge' = (watched' /\ backlog # <<>>)
             /\ UNCHANGED <<channel, failed>>
          \/ channel' = FALSE /\ failed' = TRUE /\ UNCHANGED <<watched, edge>>
  /\ UNCHANGED <<poolVars, backlog, events_, place, handed>>

Destroy ==
  /\ accepting = "poll"
  /\ BeginDestroy
  /\ UNCHANGED serverVars

-----------------------------------------------------------------------------
Main ==
  \/ PoolMain /\ UNCHANGED serverVars
  \/ Start \/ PollAccept \/ AcceptConn \/ AcceptBlocking \/ AcceptEnds
  \/ HandThisConn

Thread(t) == PoolThread(t) /\ UNCHANGED serverVars

Next ==
  \/ Main \/ Destroy
  \/ SpuriousWakeup /\ UNCHANGED serverVars
  \/ \E t \in Threads : Thread(t)
  \/ \E c \in Conns : Connect(c)

Spec == Init /\ [][Next]_vars

\* The threads are scheduled; whoever connects or ends the server owes nothing.
FairSpec ==
  /\ Spec
  /\ WF_vars(Main)
  /\ \A t \in Threads : WF_vars(Thread(t))

-----------------------------------------------------------------------------
\* Properties.

\* Every variable has its type; loop_ and latch_ say where their thread is.
TypeOK ==
  /\ PoolTypeOK
  /\ accepting \in {"no", "poll", "accept", "conn"}
  /\ backlog \in Seq(Conns)
  /\ events_ \in {"in", "none"} /\ last_events_ \in {"in", "none"}
  /\ edge \in BOOLEAN /\ watched \in BOOLEAN /\ channel \in BOOLEAN
  /\ place \in [Conns -> {"away", "backlog", "queued", "closed", "leaked"}]
  /\ handed \in [Threads -> Nat] /\ failed \in BOOLEAN

\* A pointer in loops_ is to a loop that exists and runs, until the destructor
\* of its thread has told it to quit: nothing is queued on a dead loop.
LoopsAreLive ==
  /\ \A i \in DOMAIN loops_ :
       at[loops_[i]] \notin Live
         => main \in {"destroy", "join", "quit", "done"} /\ loops_[i] <= k
  /\ accepting # "no" => Len(loops_) = num_threads_

\* Connections are dealt out in turn: no loop has had its turn twice more
\* often than another, whatever became of the connections.
RoundRobin == \A s, t \in Threads : handed[s] - handed[t] \in -1..1

\* A thread that pthread_create made becomes a loop of the pool: the two waits
\* of the start end.
StartReturns ==
  \A t \in Threads : at[t] = "created" ~> \E i \in DOMAIN loops_ : loops_[i] = t

\* The destructor's join ends, unless Quit() was before Loop(), which loses it.
JoinReturns ==
  \A t \in Threads :
    main = "join" /\ k = t /\ t \notin early ~> ~(main = "join" /\ k = t)

\* The backlog is emptied, edge triggered, as long as no system call fails.
BacklogIsDrained ==
  main = "ready" /\ backlog # <<>>
    ~> backlog = <<>> \/ failed \/ main # "ready"
=============================================================================
