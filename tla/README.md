# Verification of Webserver-moc in TLA+

Webserver-moc is a C++11 HTTP server in the style of muduo: one main loop that
accepts, a fixed set of threads that each run an epoll loop over their
connections, timers that close idle connections, and an asynchronous log. This
directory holds TLA+ modules of its parts, TLC configurations that check them on
small instances, and proofs checked by TLAPS. `PROJECT.json` lists components,
runs, mutants, the lines each definition stands for, findings, hazards and
theorems; this file explains them. Paths below are relative to `src/src/`,
except those of `WebBench/`, which are relative to `src/`.

## 1. Inventory

| component | state | operations | shared with |
|---|---|---|---|
| `EventLoop` | `looping_`, `quit_`, `calling_pending_functors_`, `pending_functors_` under `mutex_`, eventfd | `Loop`, `QueueInLoop`, `RunInLoop`, `Quit`, `WakeUp`, `DoPendingFunctors` | any thread may queue, run and quit |
| `Epoll`, `Channel` | `fd2channel_`, `fd2http_`, `events_`, `last_events_`, `revents_` | `EpollAdd`, `EpollMod`, `EpollDel`, `Poll`, `HandleExpired`, `HandleEvents` | the loop's thread only |
| `HttpData` (life) | `connection_state_`, `error_`, `keep_alive_`, both buffers, `timer_` | `NewEvent`, `HandleRead`, `HandleWrite`, `HandleConn`, `HandleClose`, `Reset` | created by the main thread, owned by the tables and timers of its loop |
| `HttpData` (parser) | `state_`, `h_state_`, `now_read_pos_`, `headers_` | `ParseURI`, `ParseHeaders`, `AnalysisRequest` | called by `HandleRead` |
| `TimerManager` | heap of `TimerNode`s | `AddTimer`, `ClearReq`, `HandleExpiredEvent` | one per `Epoll` |
| `Server` | `accept_channel_`, the listening socket | `Start`, `HandNewConn`, `HandThisConn` | queues `NewEvent` on a sub-loop |
| `EventLoopThread(Pool)` | `loop_`, `threads_`, `loops_`, `next_` | `StartLoop`, `ThreadFunc`, destructor, `Start`, `GetNextLoop` | starter and loop thread share `loop_` |
| `Thread`, `CountDownLatch` | `started_`, `joined_`, `count_` | `Start`, `Join`, `Wait`, `CountDown` | starter and new thread |
| `ThreadPool` (not used by the server) | ring of tasks, `started_`, `shutdown_` | `Create`, `Add`, `Destroy`, `Free`, `Thread` | callers and workers |
| `AsyncLogging`, `LogFile` | two front buffers and a vector under `mutex_`, two spares, `running_`, `count_` | `Append`, `Start`, `Stop`, `ThreadFunc` | every logging thread and the backend |
| `LogStream`, `FixedBuffer`, `Logger` | a line in a buffer of `kSmallBuffer` bytes | `operator<<`, `convert`, `ConvertHex`, `Append`, `~Logger` | one thread each; the line goes to `Append` |
| `AppendFile` | a `FILE*` | `Append`, `Flush` | called by `LogFile` only |
| `util` | none; the buffers it is given | `ReadN`, `WriteN`, socket options | called by the handlers of `HttpData` |
| WebBench (a load generator, a program of its own) | per process `speed`, `failed`, `timerexpired`; a pipe | `bench`, `benchcore`, `Socket`, `alarm_handler` | parent and clients share the pipe; clients and the server a socket |

How they interact: the main loop's `HandNewConn` makes an `HttpData` and queues
`NewEvent` on a sub-loop (`QueueInLoop`, then the eventfd); the sub-loop
registers the descriptor with its epoll and with a timer; every later event
runs read, write and conn handlers, and `HandleConn` either re-arms epoll and
the timer or closes. A connection object lives as long as one of these holds
it: the bound `NewEvent`, `fd2http_`, or a timer node. Its descriptor closes with
it, and the kernel may give the number to the next connection at once.

What is hard, and the property each part owes:

- *Wakeups.* The eventfd is written outside the mutex and only in some cases.
  No functor and no `Quit` may be slept over; functors run once and in order.
- *Edge triggering.* `epoll_ctl` is skipped when the event set looks unchanged,
  the first registration is one-shot, output takes precedence over input. No
  edge may be lost.
- *Lifetimes.* Channels call handlers bound to a raw `this`; objects are destroyed
  by the last of three kinds of owners; descriptors are reused. No handler on a
  dead object, no object (and descriptor) kept after its close.
- *Timers.* Lazy deletion, replacement at every activity, a clock modulo 10000 s,
  and an expiry pass that runs only after epoll has returned. One armed timer
  per connection, never early, and not overlooked.
- *Partial failure.* `epoll_ctl`, `accept` and `fcntl` may fail, a peer may half
  close, reset or stop reading at any point.
- *The log.* Buffers change hands between threads; null pointers exist inside
  critical sections; order and loss across swaps, pile-ups and `Stop`.
- *Start and stop of threads.* A loop pointer is published under a mutex and
  withdrawn without one; `Loop()` resets `quit_`.
- *Incremental parsing.* Requests arrive in pieces and back to back.
- *Short transfers.* A read or a write moves any number of bytes, the peer acts
  between any two, and with edge triggering nobody asks again. Neither stream may
  skip or repeat a byte, and nobody may sleep on work.
- *Text in place.* Numbers are formatted behind the line without a bound of their
  own. No line may leave its buffer or say something false.
- *A signal.* WebBench's clients learn from SIGALRM that they are done, wherever
  it finds them. Every request is counted once, and the parent gets all reports.

## 2. Modules

### EventLoop (with FunctorQueue, EventLoopProofs, MCEventLoop)

One loop, its thread, and the threads `Callers` that post to it. `pc` is the
place of the loop thread in `Loop()`: `init` (constructed, not yet in `Loop`),
`test` (`while (!quit_)`), `poll`, `events`, `pending` (flag raised, before the
swap), `functors`, `expired`, `done`. A caller's `QueueInLoop` is two steps, the
push under `mutex_` (`QueueInLoop`) and `WakeUp`, and its `Quit` is the assignment
and `WakeUp`. Calls the loop thread makes from a handler or a functor are single
steps, since nothing of the loop runs inside them: `LoopQueueInLoop`,
`LoopRunInLoop`, `LoopQuit`. `unqueued`, `executed` and `quitters` are history.
`FunctorQueue` is the abstract specification: a FIFO of functors each run once;
`ImplementsQueue` maps `functors \o pending_functors_` to it.

Quit_ is a plain `bool` written by other threads; the model reads it atomically,
and lets the write happen at any point. A loop pointer is used only while the
loop exists (`pc # "done"`); what happens when it is not belongs to
`EventLoopThreadPool`.

### SubReactor (with TimerManager, SubReactorProofs, MCSubReactor)

One sub-loop with its `Epoll`, `Channel`s, `HttpData`s and timers. `phase` is the
loop's place, `active` the vector `Poll` returned, `cur` and `stage` the handler
that is running. One action per handler: `HandleEvents` (the dispatch),
`HandleRead` (one pass of its state machine and its tail; the recursive call for
pipelined input is another pass), `HandleWrite`, `HandleConn`, `NewEvent`,
`HandleExpired`. Peers and accepts interleave between any two of them.
`interest`, `edge` and `sock` are the kernel: what epoll watches, whether the
descriptor is on the ready list, and the socket. `epoll_ctl` may fail in ADD
and MOD. `Alive` counts the `shared_ptr`s; when it turns false the descriptor is
free for the next `Accept`.

Data is abstracted: a request is made of segments, the parser may answer any
prefix of what is buffered, refuse it, or wait; output is pending or not.
`EPOLLET` is left out of event sets because every set that reaches `epoll_ctl` has
it. The push and the eventfd write of an accept are one step: `EventLoop` shows
that what comes between loses nothing. `HandleExpired` reads the clock once per
pass. Every ready descriptor is returned by one `epoll_wait`, as there is room
for 4096.

`TimerManager` is operators on the set of nodes in the heap. Equal keys may be
popped in any order (`Popped` returns every possible result). A node has the
code's wrapped `expired_time_` and a field `due`, the time it stands for, which
only properties read.

### Transfer (with ByteStream, TransferProofs, MCTransfer)

The bytes of one connection. `SubReactor` takes `ReadN` and `WriteN` for a step with
one of a few outcomes; here every `read()` and `write()` is a step, of any length the
kernel's buffers `rx` and `tx` allow, and the peer sends, reads, closes or resets
between any two. `pc` is the call the loop's thread is in: `read` (`ReadSome`,
`ReadReturns`), `parse` (`ParseAgain`, `Answer`, `Refuse`), `page` (`HandleError`'s two
writes), `tail` and `reset` (the end of `HandleRead`, with its `HandleWrite` and its
recursive call), `write` (`WriteSome`, `WriteReturns`, `WriteFails`), `conn`, and `wait`
for epoll. `interest`, `edge` and `nospace` are epoll's side: what is watched, whether
the descriptor is on the ready list, and whether the socket owes a report of room.
A request is `RequestLength` bytes and is answered or refused; what it says is
`HttpParser`'s concern. `TimedOut` is the timer of a watched connection.

`ByteStream` is the abstract specification of a direction: numbered bytes arrive in
order, each once, none skipped, until the stream breaks, and then only bytes of
an error notice may follow. `Transfer` implements it twice: `Requests`, from the
peer to the parser through `rx` and `in_buffer_`, and `Answers`, from `out_buffer_`
through `tx` to the peer. The one exception, `Overwrite`, is what `/hello` does.

### AsyncLogging (with LogChannel, LogStream, AsyncLoggingProofs, MCAsyncLogging)

A buffer is the sequence of messages in it, a pointer a buffer or `Null`. `Append`
holds `mutex_` throughout and is one action; messages are numbered in the order
in which they get the mutex. `ThreadFunc` is `TestRunning` (`while (running_)`, the
asserts, and the flush behind the loop), `WaitForBuffers`, `SwapBuffers` (the locked
block), `TrimBuffers`, the writes, and `RecycleBuffers`. `running_` is not guarded by
the mutex, so `Stop` interleaves with all of them. A failed assert goes to
`aborted`. What `AppendFile` writes goes through the stdio stream: `stdio` is what
`fwrite` took and the file does not have, at most `kStdioBuffer`, and `file` what
reached it. Per buffer, `WriteBuffer` is an `fwrite` that takes all of it, `WriteStops`
one that takes a part (`taken`), after which `AppendFile::Append` tries again, `GiveUp`
the try that took nothing, and `CountBuffer` LogFile's count and flush. An `fwrite`
or an `fflush` that fails (`BreakOff`) may have written any part of the stream and
empties it; `AppendFile::Flush` ignores it. `LogChannel` is the abstract
specification: a FIFO to the file that may discard messages only behind the
oldest ones and only when very many wait (`Discard`), and whose failing call
loses at most what the stream holds and one buffer (`Fail`); `ImplementsChannel` is
the refinement.

`LogStream` is what makes a message: operators for `FixedBuffer`, `convert`,
`ConvertHex`, `FormatInteger`, the operators `<<`, and the line that `Logger` puts
together. A buffer is its text and `reached`, how far it was ever written: numbers
are written in place with a NUL behind, which does not count as text. `Quotient`
and `Remainder` are C++'s, which round toward zero. `MCAsyncLogging` extends both
modules; as a line does not depend on the state of the log, `LinesAreFaithful` is
evaluated in the state before the log is started, where the first LOG statement
finds it.

### ThreadPool (with TaskPool, ThreadPoolProofs, MCThreadPool)

The ring is `queue_`, `begin_`, `end_` and `count_` as in the code; `at` is the place
of a worker, `destroy` the place of a thread that destroys the pool, `answer` what
`ThreadPoolAdd` returned for a task. What happens under `lock_` without a wait is
one action; `pthread_cond_wait` is a step to `waiting`, a signal picks any waiting
worker, and waits may end spuriously. The creation runs thread by thread beside
the workers and may fail at any of them: `ThreadPoolCreate` then returns -1, and the
threads made so far go on (the destruction at `thread_pool.cpp:35` is commented
out).
`lock_` is a variable only because a second destruction returns with the mutex
locked (`DestroyAgain`). `TaskPool` is the abstract specification: a bounded FIFO,
each accepted task taken once and in order; the refinement reads the ring from
`begin_` on.

### HttpParser (with HttpParserProofs, MCHttpParser)

`ParseURI`, `ParseHeaders`, the wait for a body, `AnalysisRequest` and `Reset`, as the
state machine of `HandleRead` drives them. The stream is a sequence of symbols:
words and the punctuation the parser looks at; a read takes any prefix of what
is on the wire. Positions count from 1 and `npos` is 0, so that `npos + 1` is the
first position as it is in the code, where it wraps. A range that begins at a
position never set is read from before the buffer in the code; here it begins
with the symbol `junk`. `Advance` is one turn of the header loop with the same nine
states. Where the code eats one byte too many, at the end of the headers, the
model eats one symbol. `clean` and `piped` are history: whether every read ended
where the parser can take it, and whether the client waited for its answers.
`RequestOK` is what HTTP allows in a request, and any such request may be sent.
`Clear` says which of them the parser can tell: no method in the path, no colon
at its end, no empty header value, no body with a GET or HEAD. Nothing in the
code checks this, so it is a condition inside the properties about answers,
never an assumption: they speak of a client whose requests were all clear. With
others the program answers something else than what was asked (section 5).

### EventLoopThreadPool and Server (with ServerProofs, MCServer)

The main thread from `Start()` to the destructor of the pool, and the threads it
starts. `main` is where it is: in `Thread::Start` (`start`), in the latch, in
`StartLoop`'s wait, `ready`, or in a destructor. A thread goes through `created`,
`started` (latch counted down), `published` (`loop_` set), `looping`, `left`, `ended`;
a loop is here only built, looping or destroyed, and `EventLoop` models its turns.
The destructor's test of `loop_`, `Quit()` and `Join()` are separate steps. `Server`
adds the listening socket: backlog, edge, `events_` and `last_events_`, each turn of
the accept loop with its four outcomes (queued, closed over the limit, leaked
when it cannot be made non-blocking, `accept()` error), and `HandThisConn`.

### WebBench (with MCWebBench, WebBenchProofs)

The load generator beside the server. The parent checks the server, forks the
clients and adds up what they write to a pipe (`parent`, `waiting`, `mypipe`); a
client (`pc` per child) runs one of the two loops of `benchcore`, with or without
keep-alive, until it sees `timerexpired`. `Alarm` is SIGALRM and interleaves with
every step: it interrupts a blocking `connect()` or `read()`, and goes unnoticed
between the test of the flag (`Test`) and the call (`EnterRead`); a `write()` that it
interrupts or cuts short counts as a failed request. `sigaction` or the child's
`fdopen` may fail and end the child without a report (`SetupFails`, `ReportFails`), and
the parent's `fdopen` ends the parent (`Fork`). The server
answers, closes or resets as it likes; a write to a reset socket fails or, with
SIGPIPE, ends the child. `sock` is what `s` names and `open` how many sockets the
child has; `attempts` and `corrected` are history. All processes keep both ends of
the pipe open, so the parent never reads an end of file.

## 3. Runs

| run | instance | result |
|---|---|---|
| `event_loop` | 2 callers, 1 socket, 3 functors, batches of 1 | no lost wakeup, no slept-over quit, every functor runs, a seen quit stops the loop, refines `FunctorQueue` |
| `connections` | 2 connections, 2 descriptors, symmetric | handlers never dangle, one timer, timed while connected, no lost edge, destroyed when closed, the expiry pass is complete until the clock wraps |
| `one_connection` | 1 connection, 3 segments of pipelined input, clock modulo 3 up to 5 | never early, always adopted, input is read unless the peer resets |
| `half_closed` | 1 connection | **violated**: half close with pending output leaves no timer (`http_data.cpp:299`) |
| `idle_loop` | 1 connection | **violated**: without events nobody looks at the timers (`epoll.cpp:84`) |
| `transfer` | 3 requests of 2 bytes, reads of at most 2, a socket buffer of 3 | nobody sleeps on work, both directions refine `ByteStream`, a peer that reads gets its answers |
| `log` | buffers of 2 messages, pile-up above 3, flush every 2, a stream of 2 messages, 8 messages, 2 failing calls; lines of up to 3 pieces in a buffer of 20, integers of 8 bits | no assert fails, lines are whole and true, what is appended gets to the file and not just to the stream, `Stop` returns, refines `LogChannel` |
| `thread_pool` | 2 workers, ring of 2, 4 tasks, 2 destroyers | the ring is consistent, no task behind sleeping workers, graceful shutdown drains, accepted tasks run, `Destroy` returns, refines `TaskPool` |
| `parser` | 12 requests, 5 of them not clear, 2 per connection, values of at most 2 symbols | with clear requests, what is served is what was asked, whole requests are understood, complete ones decided |
| `pipelining` | the same | **violated**: a pipelined request loses its first symbol and is refused (`http_data.cpp:467`) |
| `server` | 2 loops, 3 connections | loops in use are live, turns are fair, start and join return, the backlog is drained |
| `webbench` | 2 clients, 3 requests, 1 refused connection, with and without keep-alive, `-f` and HTTP/0.9 | every request is counted once, one socket at most is open, the benchmark ends unless a child was killed or left without a report |

Bounds. *EventLoop*: `kEventsNum = 1` is below the number of channels, so a batch
can leave the eventfd out for as long as the socket stays ready; two callers
overlap push, write and quit; three functors let one be in the local vector,
one in the shared vector and one be posted meanwhile. *SubReactor*: two
connections share a batch, the timer queue and, after a close, a descriptor;
everything a property relates concerns one connection, one descriptor or one
timer node and one other. The clock of `connections` reaches 1, one
default timeout; longer clocks, the wrap and three segments are in
`one_connection`: a pass of `HandleRead` that leaves output, one that flushes it, and
input that comes after both. The keep-alive time 2 and its half keep the order of the
code's times. *AsyncLogging*: eight messages fill four buffers, one more than
`kMaxBuffers = 3`, so the pile-up happens, and `kFlushEveryN = 2` makes LogFile's
own flush fall inside a batch; a stream of two messages holds a whole buffer
back, or takes a part of the next one; the two calls that may fail are both tries
of one buffer, two buffers, a write and a flush, before or after a pile-up. *LogStream*: integers of 8 bits go through
the same digits and signs as those of 64, all of them are tried, and the 5
characters that a number must find are the longest number and its NUL ("-128",
"0xFF"), where the code's 32 leave room to spare; three pieces and the place
overflow a line of 20. *Transfer*: answers of 4 bytes (2 for `/hello`) never fit the
3 bytes of the socket's buffer at once, requests of 2 are cut by reads and joined
by pipelining, and three of them give a third answer while the rest of the first
is waiting; each of the page's two parts may be cut off. *WebBench*: three requests
over two clients let one client meet a failure, an alarm and a success; the
parent reads reports in either order; one refusal is enough for either of its
two effects. *ThreadPool*: four tasks go twice round a ring of
two, with one more worker than the last task needs; the second destroyer finds
the pool being shut down. *HttpParser*: the second request is where state of the
first would show; the requests differ in method, path, query, empty path,
headers, a value with a colon, a value at the bound (`MaxValue` is the code's 255)
and a body, and each kind of request that is not clear occurs; every cut of the
stream into reads happens. *Server*: three connections
come round two loops, and one can complete while another is being accepted.

Deadlock checking is off where the system may rest: a loop waits in epoll when
no peer sends, a worker when there is no task, a parser when there is no input,
and the environment (accepts, messages, requests, clock) is bounded; WebBench
ends. `EventLoop`
has it on, with an explicit step for the ended loop.

Fairness. The threads of the program are scheduled: `WF_vars(LoopStep)`,
`WF_vars(LoopStep)` again in `Transfer`, `WF_vars(Backend)`, the workers, destroyers and
creation of `ThreadPool`, `Main` and every `Thread` of `Server`, the parent and the
clients of WebBench; and a thread that entered `WakeUp()` gets to write the
eventfd. Weak fairness is enough because none of these steps is disabled by
another thread once enabled, except epoll waiting for events and workers waiting
for tasks, which is the point. The log's wait has a timeout, hence it always
ends. What `Transfer` promises a peer is promised to one that reads what has
reached it (`WF_vars(PeerReads)`). In WebBench the alarm comes, a listening server
completes a connection, refusing at most `MaxRefusals`, it reads what it is sent,
and it answers or closes what a client waits for: the code has no timeout of its own but SIGALRM, and
reconnects for ever with keep-alive. Other peers, callers, `Tick`, `Append`, whoever adds tasks, connects or destroys, and
spurious wakeups owe nothing.

## 4. Proofs

`EventLoopProofs`, for any callers, channels, functors and batch size:

- `TypeCorrect`, `NoWakeupIsLost`, `QuitIsNoticed`: the invariants of the run.
  `NoLostWakeup` speaks of `poll` only and is not inductive: a functor posted long
  before `Poll` needs its wakeup kept. `PendingCovered` strengthens it to every
  phase but `events` and `pending`, where a handler may post without a wakeup
  because the swap is still ahead. `WakeupStable` says that outside `Poll` and the
  wakeup handler a coming wakeup stays coming; `QuitNotSlept` is inductive next
  to it.
- `LoopImplementsQueue`: every step is a step of `FunctorQueue` or a stutter; the
  swap is a stutter because the local vector is empty before it.

`AsyncLoggingProofs`, for every buffer size of at least 2, every pile-up
threshold of at least 2, every stream and any number of messages:

- `AssertsHold`: no assert of `ThreadFunc` fails; `CurrentIsABuffer`: `Append` never
  meets a null `current_buffer_`. The inductive invariant `Exchange` counts
  buffers: the front end gives up its spare only by filling a buffer, and from
  swap to recycling the backend has as many buffers to empty as it lent. The
  assumption on the threshold is needed: with 1, the trim would leave one buffer
  for two spares.
- `TypeCorrect`: every variable has its type, in particular the positions in the
  vector of full buffers and in the one that is being written stay inside it, the
  stream holds no more than it may, and the file only messages that were
  appended, however calls fail. `FileTypes` is inductive next to `Exchange`; what
  the stream passes on or breaks off are messages (`PassedOn`, `BrokenOff`), and so
  is what a pile-up erases (`ErasedAreMessages`).
- `LogIsAChannel`: every step is a step of `LogChannel` or a stutter. The channel's
  contents are the stream, then what is left of `buffers_to_write`, then `buffers_`,
  then `current_buffer_`. Appending goes to their end, the swap leaves them as they
  are, and a write or a flush takes messages off the front (`PassOnIsAWrite`), or
  loses some there when it fails (`BreakOffIsAFailure`). Between two tries the
  channel begins inside a buffer (`PendingCut`). That a pile-up is a `Discard` within
  the promised limits
  needs `Filled`: every buffer behind `current_buffer_` is full, and
  `current_buffer_` holds the message that did not fit, so that two buffers are
  `Keep` messages and a pile-up is at least `Limit`.

`FlattenSeq` is recursive, and the library's induction theorems take a predicate,
which no prover here can instantiate; its well-founded relations are sets, and by
them a set of numbers has a least one (`Least`) and a set that has 0 and is closed
under successor has every number (`Induction`). What `FlattenSeq` makes of an
appended buffer, of two vectors and of full buffers are inductions over such a set,
in `AsyncLoggingProofs` and, where they are needed again, in the modules below.

`ThreadPoolProofs`, for any workers, tasks and destroyers and every ring size:

- `RingConsistent`: the occupied slots are the `count_` ones from `begin_` and end at
  `end_`. The four lemmas on `%` (`WrapOnce`, `SlotAtWraps`, `SlotsDiffer`, `SlotsShift`)
  carry it round the ring.
- `SignalsSuffice`: no task waits while every worker sleeps. Inductive with the
  types, as a signal wakes a worker in the step that adds the task.
- `GracefulShutdown`: needs that a worker ends only after a shutdown
  (`EndIsShutdown`).
- `TypeCorrect`: `started_` is the number of live workers, a cardinality argument
  kept apart (`StartedCounts`).
- `PoolIsAFifo`: every step is a step of `TaskPool` or a stutter, the queue being the
  slots from `begin_` on.

`ServerProofs`, for any number of loops and connections:

- `TypeCorrect`, and `LoopsLive`: `Started` follows the start thread by thread (the
  threads behind `k` do not exist, `loops_` has the ones before it), `Built` says that
  what is in `loops_` was published, and `Leaving` that only a loop told to quit
  ends. Together they make the unlocked reads of `loop_` harmless.
- `TurnsAreFair`: `Dealt` says that the connections so far are some full rounds and
  the first `next_` loops once more, whatever became of each.

`SubReactorProofs`, for any connections, descriptors, segments, timeouts and every
`TimeWrap`. The inductive invariant has five parts:

- `TypeOK`, and `Buffered`: what was read and what waits was sent.
- `Owners` says who holds a connection in each phase of its life: the bound
  `NewEvent` (`Newcomers`, `BoundOnce`: bound once, new, in no table, its descriptor its
  own), then the tables (`Tables`: both agree with `fd_`, and whatever has a timer, is
  in the batch or is watched is in them), and the nodes (`Nodes`: `timer_` points to a
  node made for its connection, and a node that has let its connection go is
  marked). `Timed` and `Gone` are `ConnectedIsTimed` and `ClosedIsDestroyed` for the
  connections of a batch that still wait for their handlers; the properties speak
  of the moments between two passes and are not inductive.
- `NodeTimes`: a node's two times are those of one moment in the past. That is why
  `NoEarlyTimeout` holds for every `TimeWrap`.
- `Edges`: a connection that epoll serves is watched for what it waits for
  (`Watching`), or has been reported and not handled (`Reported`), or is in its
  handlers, which so far have asked for what they leave (`Handled`). The three are
  needed because the one-shot watch is spent by the report and `HandleConn` skips
  `epoll_ctl` when the set looks unchanged.

From it follow `HandlersAreNotDangling`, `TimersAreUnique`, `ConnectedHaveTimers`,
`ClosedAreDestroyed`, `EdgesAreNotLost` and, of steps, `TimersAreNotEarly` and
`PassesAreComplete`. `PassLeavesNothingOverdue` is about a clock that has not
wrapped yet: behind the wrap it is false (section 5).

`TransferProofs`, for any lengths of requests, answers, pages, reads and buffers:

- `TypeCorrect`: with the types, `WriteN` stays inside `out_buffer_` and the socket's
  buffer (`Writing`), and an error, a half close or a reset leaves nothing half
  done (`Endings`).
- `LoopIsAwake`: `NobodyStalls` speaks of `wait` only. `InputParsed` and `OutputAsked` say
  what each place in the handlers owes before the loop gets there, `InputSeen` that
  input which came behind `ReadN` has raised the edge, and `OutputSeen` that while
  output is watched only `HandleWrite` runs, and asks for more only when the kernel
  owes it a report.
- `StreamsAreImplemented`: every step is a step of `Requests` or a stutter, and the
  same of `Answers`. What is unread is `in_buffer_` and `rx`, what is unsent `tx` and the
  rest of `out_buffer_`; how a read or a write cuts them is a fact about
  concatenation (`Pieces`, `PiecesOfConcat`).

`WebBenchProofs`, for any finite set of clients and any number of requests and
refusals:

- `TypeCorrect`: the failure that is taken back was counted, a socket that is closed
  was open, and the parent reads no more reports than it waits for.
- `AttemptsAreCounted`: `EveryAttemptIsCounted` says nothing of a child inside a request
  and is not inductive. `Counted` adds that there one attempt is not counted yet,
  and `OneSocket` that a child which connects has no socket: otherwise `Socket()`
  would lose one. A step of a child other than a report keeps the sums
  (`Keeps`, one lemma per action, and `KeepsAll`); a report takes the counts of its
  child into the pipe, and the parent's `fscanf` from the pipe to the totals.
- `NoReportIsMissed`: `waiting` is the number of reports in the pipe and of children
  that have not written theirs; so the loop round `fscanf` ends when every child is
  done, and what is printed is what the children counted.

`SumOf` is a fold, and what it adds up to is once more induction over a set of
numbers (`SumInAnyOrder`): the choice of `FoldSet` does not matter, one more element
adds one more number (`TotalWithOneMore`), and a pipe loses its first report in
front and gains one behind (`PipeTail`, `PipeAppend`).

`HttpParserProofs`, for any requests that HTTP allows (`RequestOK`: paths, headers,
values and bodies of any length), any bound on values, any files, every cut of the
stream into reads and any pipelining. What the first three promise, they promise
as long as every request that was sent is `Clear`, so the invariant has a part
that holds whatever is sent (`Typed`, `StateInv`) and one that holds while the
requests are clear (`PlainInv`, which is `ServedInv` and `PlaceInv` under that
condition); the lemmas about places are about clear requests only, of which
`RequestOK` and `Clear` give what they need (`PlainRequestIs`):

- `AnswersAreRight`. `NeverServesAnother` says nothing of a request that is half read
  and is not inductive. The parser keeps no more than a buffer and a state, so the
  invariant (`PlaceInv`) says where they belong: everything that was sent is one
  text T, request i begins in it behind `at[i]` symbols (`LaidOut`), and the buffer and
  the wire follow its first b symbols (`Dropped`), where b is a place that the state
  allows (`ParserAt`). Between two requests b is up to two symbols off, because the
  end of the headers takes one too many or is left over (`Before`); inside a request
  `Place` lists where each of the nine states of `ParseHeaders` can be, including the
  request line, which is scanned as a header when a read cuts it short or when a
  request without headers is followed by another one. `PlaceTurn` takes one turn of
  the loop from a place to the next, to an error or to the end of these headers;
  `ScanPlace` is the induction over the buffer. So whatever ends, ends at the end of
  the request whose line `ParseURI` has read (`URIWithin`), and is served under its
  method and name (`LineMeans`, `NamedIs`).
- `ArrivedAreDecided`: with the wire empty, the buffer reaches to the end of T, and no
  place inside a request does (`PlaceWithin`, `ArrivedFollows`).
- `WholeRequestsAreUnderstood`: a client that waits for its answers keeps the parser
  at one of three places (`WholeInv`, inductive next to the invariant above): behind
  everything, before its last request, or behind the request line of it. From
  there `ScanReads` follows the scan with its locals: the headers read so far are
  those of the first j (`Holds`), the last of equal keys counting, and no line is too
  long. It ends with all of them (`HeadersUnderstood`) or waits at `H_START`
  (`HeadersAwaited`).
- `TypeCorrect`, with what `Reset` leaves between two requests, for all requests.

Assumptions are those of the modules (`WakeupAssumption`, `KEventsNumAssumption`,
`BufferAssumption`, `PileUpAssumption`, `NullAssumption`, `MessagesAssumption`,
`FailuresAssumption`, `FlushAssumption`, `StdioAssumption`, those of `ThreadPool`, `NumThreadsAssumption`,
`ConnsAssumption`, `FdsAssumption`, `BoundsAssumption`, `TimeoutAssumption`,
`NodeAssumption`, `TimeWrapAssumption`, `LengthAssumption`, `PageAssumption`,
`ClientsAssumption` and `RequestsAssumption`, which says of requests only what HTTP
does), which TLC evaluates in the runs. The type invariants of
`EventLoop`, `AsyncLogging`, `ThreadPool` and `Server` are theorems, and no run repeats
them.

Only model-checked: `LogStream`, and all liveness, which is outside this prover's
reach. That a line tells the truth about an integer would take an induction along
signed division; the run reads every integer of eight bits back instead
(`LinesAreFaithful`).

## 5. Findings

Each has a run that shows it:

1. A half-closed connection with pending output: `HandleConn` has dropped its
   timer and only assigns `events`; neither epoll nor a timer will ever close it
   if the peer stops reading (`half_closed`).
2. `Poll()` loops until there is an event, so on an idle loop timed-out
   connections are not closed (`idle_loop`).
3. The end of the headers takes one character of what follows, so a pipelined
   request is refused, against `src/README.md:51` (`pipelining`).

Met while modelling, and excepted by name in the properties they would break:

- `Loop()` sets `quit_ = false` (`event_loop.cpp:123`): a `Quit()` between construction
  and `Loop()` has no effect, against the comment on `Quit()` in `event_loop.h`. In
  `Server` the same makes a destructor that comes right after the start wait for
  ever; `JoinReturns` excepts these threads (`early`).
- `Stop()` loses what was appended since the last swap (`async_logging.cpp:76`),
  against `async_logging.cpp:134`: `AppendedIsSettled` excepts what is with the front
  end when the logging thread ends (`LeftBehind`).
- The rest of a buffer that `fwrite` refuses is dropped with a line on stderr
  (`file_util.cpp:23`), and a failing `fflush` is not noticed at all
  (`file_util.cpp:35-37`): what the stream held and could not write is gone, although
  `fwrite` had taken it. With small batches this is where a full disk shows
  (`dropped`, `failures`).
- `AnalysisRequest` assigns the answer to `/hello` to `out_buffer_`
  (`http_data.cpp:506`), where others are appended: what an earlier pipelined
  request has left unsent is lost (`overwritten`).
- `HandleError` writes past `out_buffer_` (`http_data.cpp:578`): the page follows
  whatever the kernel has of an answer that is cut short, and `error_` keeps the
  rest from being sent. A failing `write()` leaves `out_buffer_` with bytes that were
  sent (`util.cpp:128`), harmless for the same reason.
- A peer that closes its end while an answer waits for room is left with a
  watch that need not be on EPOLLOUT: `OutputIsDelivered` excepts `eof`.
- EPOLLOUT may stay watched, and EPOLLIN not, although a second pass of
  `HandleRead` has flushed the buffer (`http_data.cpp:276`). The next report of room
  puts it right, but not when the peer resets: its hang-up comes without EPOLLIN,
  `channel.cpp:80` returns, and what the peer had sent is not read. `InputIsRead` and
  `NoLostEdge` except peers that reset.
- A text longer than the room in a line is dropped whole, the final newline
  too; `LinesAreFaithful` allows it where the line is nearly full.
- A second `ThreadPoolDestroy` returns at `thread_pool.cpp:98` with `lock_` locked;
  every worker then waits for ever (`lock_ = "leaked"`).
- When a socket cannot be made non-blocking, `server.cpp:60` returns with the
  descriptor open and without setting the events: `EpollMod` then disarms the
  listening socket (`failed`).
- When `pthread_create` fails, `StartLoop` waits for a loop that never comes.
- Expiry times are not wrapped while the clock is: a node made in the last
  moments before the wrap outlives its timeout, against the comment at
  `timer.cpp:61`; no timeout is early (`NoEarlyTimeout`).
- `ParseURI` compares unsigned positions with 0, so a request line is parsed before
  it is complete, against the comment at `http_data.cpp:308`, and header lines cut
  by a read are refused or stored under a wrong name: `WholeIsUnderstood` is about
  requests that arrive whole. A request without headers is never served, a POST
  never answered, and its body loses a character when it comes with the headers.
- The method is searched for anywhere in the line, `GET` first
  (`http_data.cpp:322`), so a path that names one is taken for the request's own.
  A request without headers waits in `H_START`, and a pipelined one behind it is
  scanned as its headers: when its path ends with a colon, its request line reads
  like a header and is swallowed, and a header without a value takes the next line
  for its value. The body of a GET or HEAD is taken for the next request. `Clear`
  excepts these in the properties, and the run sends them: without that condition
  `NeverServesAnother` is false.
- `Reset()` never clears `keep_alive_` (`http_data.cpp:130`): after one request with
  Connection: Keep-Alive, later ones without it still get the longer timer. The
  header of an answer goes by the present request, so no answer shows it.
- WebBench: a child killed by SIGPIPE, or one whose `sigaction` or `fdopen` failed
  (`webbench.c:466`, `400`), leaves the parent waiting, since every process keeps the
  pipe open, and the branch at `WebBench/webbench.c:431` is dead
  code (`BenchEnds` excepts dead children); the last failure is taken back at the end
  whatever caused it (`corrected`); an end of file counts as a success; the
  keep-alive loop reconnects without looking at the alarm (lines 477 and 494);
  and `bench` returns the last child's count (line 452), where the usage comment
  at its top gives 0 for success.

## 6. Not modelled

The text of answers and of doubles, the MIME table, `main` and the test clients
(see `PROJECT.json`); the pthread wrappers, whose critical sections and waits are
in the modules that use them; `SocketBindListen`, the socket options and the rest
of what runs once before `Server::Start`; `EventLoop::ShutDown` and
`ReadN(int, string&)` (no caller; the overload for raw memory is the read of the
eventfd in `EventLoop`); EPOLLERR handlers (none is ever set). `EPOLLPRI` and `EPOLLRDHUP`
are never watched. In `HttpParser`: the spelling of words, so a cut inside a word,
a word inside another (`GET` in a path) and a Content-length that is no number. In
WebBench: the spelling of the request, the options, and the resolution of the
host. `Transfer` leaves out failing `epoll_ctl` and the second connection, which
`SubReactor` has. `SubReactor` leaves out the main thread's own `shared_ptr` to a new
`HttpData` (`server.cpp:66`), which lives a moment longer than `QueueInLoop`: the
bound `NewEvent` holds the object as well, and when that ran first, the object
only lives longer, on a descriptor that is not yet free.

## 7. Plan

Done: the modules described above. Left, in order:

1. The composition of `EventLoop` with `EventLoopThreadPool`: a loop that starts in
   `init`, so that the quit that `Loop()` overwrites and the handshakes are in one
   model.
