------------------------------ MODULE WebBench ------------------------------
(***************************************************************************)
(* WebBench, the load generator that comes with the server: a parent forks *)
(* clients, each asks the server again and again until SIGALRM and writes  *)
(* its counts to a pipe, and the parent adds them up.                      *)
(*                                                                         *)
(* The parent and its children keep both ends of the pipe open.  So a      *)
(* report never meets a closed pipe, and the parent never reads an end of  *)
(* file: fscanf waits for as many reports as there are clients, and the    *)
(* branch for children that died without one is dead code.  Bytes are      *)
(* counted where pages are and left out.                                   *)
(***************************************************************************)
EXTENDS Naturals, Sequences, FiniteSets, FiniteSetsExt, SequencesExt

CONSTANTS
  Clients,            \* the children
  MaxAttempts,        \* bound: requests of all children before their alarms
  MaxRefusals         \* bound: connections the server refuses

ASSUME ClientsAssumption == IsFiniteSet(Clients)

VARIABLES
  keep_alive, force, http10,        \* options
  parent,             \* where the parent is
  totals,             \* its speed and failed
  waiting,            \* its clients: reports it still waits for
  mypipe,             \* reports written and not read
  pc,                 \* per child: where it is
  timerexpired, armed,              \* per child: the flag; SIGALRM is due
  speed, failed,      \* per child
  sock,               \* per child: the socket s names, or NoSocket
  open,               \* per child: sockets it has open
  attempts, corrected,  \* per child, history: requests begun; a failure was
                        \* taken back
  refusals            \* history: connections refused

options == <<keep_alive, force, http10>>
parentVars == <<parent, totals, waiting>>
childVars == <<pc, timerexpired, armed, speed, failed, sock, open, attempts,
               refusals, corrected>>
vars == <<options, parentVars, mypipe, childVars>>

\* A socket: there is something to read; what the server did to it.
NoSocket == [rx |-> FALSE, server |-> "none"]
NewSocket == [rx |-> FALSE, server |-> "up"]

\* What main() makes of its arguments; build_request leaves HTTP/0.9 only to
\* a plain GET.  The keep-alive loop does not look at the version.
Init ==
  /\ keep_alive \in BOOLEAN /\ force \in BOOLEAN
  /\ http10 \in {0, 2}
  /\ parent = "check"
  /\ totals = [speed |-> 0, failed |-> 0]
  /\ waiting = Cardinality(Clients)
  /\ mypipe = <<>>
  /\ pc = [c \in Clients |-> "unborn"]
  /\ timerexpired = [c \in Clients |-> FALSE]
  /\ armed = [c \in Clients |-> FALSE]
  /\ speed = [c \in Clients |-> 0] /\ failed = [c \in Clients |-> 0]
  /\ sock = [c \in Clients |-> NoSocket]
  /\ open = [c \in Clients |-> 0]
  /\ attempts = [c \in Clients |-> 0] /\ refusals = 0
  /\ corrected = [c \in Clients |-> FALSE]

-----------------------------------------------------------------------------
\* The parent, bench().

\* Is the server there, and can the pipe be made?
Check ==
  /\ parent = "check"
  /\ parent' \in {"fork", "returned 1", "returned 3"}
  /\ UNCHANGED <<options, totals, waiting, mypipe, childVars>>

\* A failing fork(), and behind the last one a failing fdopen() of the pipe,
\* ends the parent; the children it has stay.
Fork ==
  /\ parent = "fork"
  /\ \/ \E c \in Clients :
          /\ pc[c] = "unborn"
          /\ pc' = [pc EXCEPT ![c] = "born"]
          /\ parent' \in IF \E d \in Clients \ {c} : pc[d] = "unborn"
                         THEN {"fork"} ELSE {"gather", "returned 3"}
     \/ parent' = "returned 3" /\ UNCHANGED pc
  /\ UNCHANGED <<options, totals, waiting, mypipe, timerexpired, armed, speed,
                 failed, sock, open, attempts, refusals, corrected>>

\* One fscanf and what is done with its report.
Gather ==
  /\ parent = "gather"
  /\ mypipe # <<>>
  /\ totals' = [speed |-> totals.speed + Head(mypipe).speed,
                failed |-> totals.failed + Head(mypipe).failed]
  /\ mypipe' = Tail(mypipe)
  /\ waiting' = waiting - 1
  /\ parent' = IF waiting' = 0 THEN "printed" ELSE "gather"
  /\ UNCHANGED <<options, childVars>>

-----------------------------------------------------------------------------
\* A child, benchcore().  Moves(c, from, to) is where it goes.
Moves(c, from, to) == pc[c] = from /\ pc' = [pc EXCEPT ![c] = to]

SumOf(S, f(_)) == FoldSet(LAMBDA x, total : f(x) + total, 0, S)

Bump(counter, c) == [counter EXCEPT ![c] = @ + 1]

\* close(s), which does nothing to a socket that was closed before.
CloseSocket(c) ==
  /\ sock' = [sock EXCEPT ![c] = NoSocket]
  /\ open' = IF sock[c] = NoSocket THEN open ELSE [open EXCEPT ![c] = @ - 1]

\* sleep, sigaction and alarm.
Setup(c) ==
  /\ Moves(c, "born", IF keep_alive THEN "connect" ELSE "top")
  /\ armed' = [armed EXCEPT ![c] = TRUE]
  /\ UNCHANGED <<options, parentVars, mypipe, timerexpired, speed, failed, sock,
                 open, attempts, refusals, corrected>>

\* sigaction() fails, and the child exits.
SetupFails(c) ==
  /\ Moves(c, "born", "dead")
  /\ UNCHANGED <<options, parentVars, mypipe, timerexpired, armed, speed, failed,
                 sock, open, attempts, refusals, corrected>>

\* Mutant: the read that SIGALRM interrupts is not closed.
AlarmLeavesSocket(c) ==
  /\ armed[c]
  /\ armed' = [armed EXCEPT ![c] = FALSE]
  /\ timerexpired' = [timerexpired EXCEPT ![c] = TRUE]
  /\ IF pc[c] = "reading"
     THEN pc' = [pc EXCEPT ![c] = "top"] /\ failed' = Bump(failed, c)
     ELSE UNCHANGED <<pc, failed>>
  /\ UNCHANGED <<options, parentVars, mypipe, speed, sock, open, attempts,
                 refusals, corrected>>

\* SIGALRM.  A read() or connect() that blocks returns EINTR, and a write()
\* that found a full socket, as one that kept its connection may, EINTR or a
\* part; a call about to be made does not notice.
Alarm(c) ==
  /\ armed[c]
  /\ armed' = [armed EXCEPT ![c] = FALSE]
  /\ timerexpired' = [timerexpired EXCEPT ![c] = TRUE]
  /\ \/ /\ pc[c] = "reading"
        /\ pc' = [pc EXCEPT ![c] = "top"]
        /\ failed' = Bump(failed, c)
        /\ CloseSocket(c)
     \/ /\ pc[c] = "write" /\ keep_alive /\ sock[c].server \in {"up", "fin"}
        /\ pc' = [pc EXCEPT ![c] = "connect"]
        /\ failed' = Bump(failed, c)
        /\ CloseSocket(c)
     \/ /\ pc[c] = "connecting"
        /\ pc' = [pc EXCEPT ![c] = IF keep_alive THEN "connect" ELSE "top"]
        /\ failed' = IF keep_alive THEN failed ELSE Bump(failed, c)
        /\ UNCHANGED <<sock, open>>
     \/ /\ pc[c] \notin {"reading", "connecting"}
        /\ UNCHANGED <<pc, failed, sock, open>>
  /\ UNCHANGED <<options, parentVars, mypipe, speed, attempts, refusals, corrected>>

\* The top of both loops: the end, with one failure taken back, or another
\* request.  The keep-alive loop has a socket already.
TimeIsUp(c) ==
  /\ timerexpired[c]
  /\ Moves(c, "top", "report")
  /\ failed' = [failed EXCEPT ![c] = IF @ > 0 THEN @ - 1 ELSE @]
  /\ corrected' = [corrected EXCEPT ![c] = failed[c] > 0]
  /\ UNCHANGED <<options, parentVars, mypipe, timerexpired, armed, speed, sock,
                 open, attempts, refusals>>

Attempt(c) ==
  /\ ~timerexpired[c]
  /\ SumOf(Clients, LAMBDA d : attempts[d]) < MaxAttempts
  /\ Moves(c, "top", IF keep_alive THEN "write" ELSE "connect")
  /\ attempts' = Bump(attempts, c)
  /\ UNCHANGED <<options, parentVars, mypipe, timerexpired, armed, speed, failed,
                 sock, open, refusals, corrected>>

\* Socket(): socket() and connect(); a refused attempt is a failure, or is
\* made again where a connection is to be kept.
Connect(c) ==
  /\ Moves(c, "connect", "connecting")
  /\ UNCHANGED <<options, parentVars, mypipe, timerexpired, armed, speed, failed,
                 sock, open, attempts, refusals, corrected>>

Connected(c) ==
  /\ Moves(c, "connecting", IF keep_alive THEN "top" ELSE "write")
  /\ sock' = [sock EXCEPT ![c] = NewSocket]
  /\ open' = Bump(open, c)
  /\ UNCHANGED <<options, parentVars, mypipe, timerexpired, armed, speed, failed,
                 attempts, refusals, corrected>>

Refused(c) ==
  /\ refusals < MaxRefusals
  /\ refusals' = refusals + 1
  /\ Moves(c, "connecting", IF keep_alive THEN "connect" ELSE "top")
  /\ failed' = IF keep_alive THEN failed ELSE Bump(failed, c)
  /\ UNCHANGED <<options, parentVars, mypipe, timerexpired, armed, speed, sock,
                 open, attempts, corrected>>

\* A counted failure that ends a request: the socket is closed.
Fails(c, to) ==
  /\ pc' = [pc EXCEPT ![c] = to]
  /\ failed' = Bump(failed, c)
  /\ CloseSocket(c)
  /\ UNCHANGED speed

\* write() of the request, and close() and Socket() where it fails.  A socket
\* closed after a failing read() is still the one that is written to.
Write(c) ==
  /\ pc[c] = "write"
  /\ \/ /\ sock[c].server \in {"up", "fin"}
        /\ pc' = [pc EXCEPT ![c] = IF http10 = 0 /\ ~keep_alive THEN "shutdown"
                                   ELSE IF force THEN "done" ELSE "test"]
        /\ UNCHANGED <<speed, failed, sock, open>>
     \/ /\ sock[c].server \in {"none", "rst"}
        /\ Fails(c, IF keep_alive THEN "connect" ELSE "top")
     \/ /\ sock[c].server = "rst"             \* SIGPIPE
        /\ pc' = [pc EXCEPT ![c] = "dead"]
        /\ sock' = [sock EXCEPT ![c] = NoSocket]
        /\ open' = [open EXCEPT ![c] = 0]
        /\ UNCHANGED <<speed, failed>>
  /\ UNCHANGED <<options, parentVars, mypipe, timerexpired, armed, attempts,
                 refusals, corrected>>

Shutdown(c) ==
  /\ pc[c] = "shutdown"
  /\ IF sock[c].server = "rst"
     THEN Fails(c, "top")
     ELSE /\ pc' = [pc EXCEPT ![c] = IF force THEN "done" ELSE "test"]
          /\ UNCHANGED <<speed, failed, sock, open>>
  /\ UNCHANGED <<options, parentVars, mypipe, timerexpired, armed, attempts,
                 refusals, corrected>>

\* Mutant: the loop that reads does not look at the alarm.
TestForgotten(c) ==
  /\ Moves(c, "test", "toread")
  /\ UNCHANGED <<options, parentVars, mypipe, timerexpired, armed, speed, failed,
                 sock, open, attempts, refusals, corrected>>

\* if (timerexpired) break, and the step from there into read().
Test(c) ==
  /\ Moves(c, "test", IF timerexpired[c] THEN "done" ELSE "toread")
  /\ UNCHANGED <<options, parentVars, mypipe, timerexpired, armed, speed, failed,
                 sock, open, attempts, refusals, corrected>>

EnterRead(c) ==
  /\ Moves(c, "toread", "reading")
  /\ UNCHANGED <<options, parentVars, mypipe, timerexpired, armed, speed, failed,
                 sock, open, attempts, refusals, corrected>>

\* read() of what came, of the end of the stream, or of a reset.  Where the
\* connection is kept, one read() is the answer.
Read(c) ==
  /\ pc[c] = "reading"
  /\ \/ /\ sock[c].rx
        /\ sock' = [sock EXCEPT ![c].rx = FALSE]
        /\ pc' = [pc EXCEPT ![c] = IF keep_alive THEN "done" ELSE "test"]
        /\ UNCHANGED <<speed, failed, open>>
     \/ /\ ~sock[c].rx /\ sock[c].server = "fin"
        /\ pc' = [pc EXCEPT ![c] = "done"]
        /\ UNCHANGED <<speed, failed, sock, open>>
     \/ /\ sock[c].server = "rst"
        /\ Fails(c, "top")
  /\ UNCHANGED <<options, parentVars, mypipe, timerexpired, armed, attempts,
                 refusals, corrected>>

\* The end of a request: close() unless the connection is kept, speed++.
Done(c) ==
  /\ Moves(c, "done", "top")
  /\ speed' = Bump(speed, c)
  /\ IF keep_alive THEN UNCHANGED <<sock, open>> ELSE CloseSocket(c)
  /\ UNCHANGED <<options, parentVars, mypipe, timerexpired, armed, failed,
                 attempts, refusals, corrected>>

\* fdopen, fprintf, fclose: one write to the pipe, and the child is gone, as
\* it is, without the write, where fdopen fails.
Report(c) ==
  /\ Moves(c, "report", "exited")
  /\ mypipe' = Append(mypipe, [speed |-> speed[c], failed |-> failed[c]])
  /\ sock' = [sock EXCEPT ![c] = NoSocket]
  /\ open' = [open EXCEPT ![c] = 0]
  /\ UNCHANGED <<options, parentVars, timerexpired, armed, speed, failed,
                 attempts, refusals, corrected>>

ReportFails(c) ==
  /\ Moves(c, "report", "dead")
  /\ sock' = [sock EXCEPT ![c] = NoSocket]
  /\ open' = [open EXCEPT ![c] = 0]
  /\ UNCHANGED <<options, parentVars, mypipe, timerexpired, armed, speed, failed,
                 attempts, refusals, corrected>>

-----------------------------------------------------------------------------
\* The server, as a child sees it: it answers, closes, or resets.
ServerDoes(c, state) ==
  /\ sock' = [sock EXCEPT ![c] = state]
  /\ UNCHANGED <<options, parentVars, mypipe, pc, timerexpired, armed, speed,
                 failed, open, attempts, refusals, corrected>>

Serve(c) ==
  /\ sock[c].server = "up"
  /\ \/ /\ pc[c] \in {"shutdown", "test", "toread", "reading", "done"}
        /\ ~sock[c].rx
        /\ ServerDoes(c, [sock[c] EXCEPT !.rx = TRUE])
     \/ ServerDoes(c, [sock[c] EXCEPT !.server = "fin"])

ServerResets(c) ==
  /\ sock[c].server \in {"up", "fin"}
  /\ ServerDoes(c, [rx |-> FALSE, server |-> "rst"])

-----------------------------------------------------------------------------
ChildStep(c) ==
  \/ Setup(c) \/ TimeIsUp(c) \/ Attempt(c) \/ Connect(c)
  \/ Write(c) \/ Shutdown(c) \/ Test(c) \/ EnterRead(c) \/ Read(c) \/ Done(c)
  \/ Report(c)

Next ==
  \/ Check \/ Fork \/ Gather
  \/ \E c \in Clients :
       \/ ChildStep(c) \/ SetupFails(c) \/ ReportFails(c)
       \/ Alarm(c) \/ Connected(c) \/ Refused(c)
       \/ Serve(c) \/ ServerResets(c)

\* Processes run, the alarm comes, a listening server completes a connection
\* and reads what it is sent, and it answers or closes what somebody waits for.
Fairness ==
  /\ WF_vars(Fork) /\ WF_vars(Gather)
  /\ \A c \in Clients :
       /\ WF_vars(ChildStep(c)) /\ WF_vars(Alarm(c)) /\ WF_vars(Connected(c))
       /\ WF_vars(pc[c] = "reading" /\ Serve(c))

Spec == Init /\ [][Next]_vars
FairSpec == Spec /\ Fairness

-----------------------------------------------------------------------------
\* Whatever the server does and whenever the alarm comes, a child counts every
\* request it began exactly once, as a success or as a failure, but for the
\* one failure it takes back at the end; it never has more than the one socket
\* it names open; and the parent's totals with the reports on their way are
\* the counts of the children that are done.
EveryAttemptIsCounted ==
  /\ \A c \in Clients :
       /\ open[c] = IF sock[c] = NoSocket THEN 0 ELSE 1
       /\ pc[c] = "top" \/ (pc[c] \in {"connect", "connecting"} /\ keep_alive) =>
            speed[c] + failed[c] = attempts[c]
       /\ pc[c] = "top" /\ ~keep_alive => open[c] = 0
       /\ pc[c] \in {"report", "exited"} =>
            speed[c] + failed[c] + (IF corrected[c] THEN 1 ELSE 0) = attempts[c]
  /\ LET exited == {c \in Clients : pc[c] = "exited"}
         Sent(f) == SumOf(1..Len(mypipe), LAMBDA i : mypipe[i][f])
     IN /\ totals.speed + Sent("speed") = SumOf(exited, LAMBDA c : speed[c])
        /\ totals.failed + Sent("failed") = SumOf(exited, LAMBDA c : failed[c])

\* A benchmark whose children all live ends: each notices the alarm, wherever
\* it comes, and the parent gets every report.
BenchEnds ==
  parent = "fork" ~>
    \/ parent \in {"printed", "returned 3"}
    \/ \E c \in Clients : pc[c] = "dead"
=============================================================================
