---------------------------- MODULE AsyncLogging ----------------------------
(***************************************************************************)
(* AsyncLogging: front-end threads fill buffers under mutex_, the logging  *)
(* thread swaps them out, writes them through LogFile and hands two of     *)
(* them back.  A buffer is the sequence of the messages in it; a pointer   *)
(* is a buffer or Null.  Append() holds mutex_ from start to end, so the   *)
(* messages are numbered in the order in which it took them and it does    *)
(* not matter by which thread; every message has length 1.                 *)
(* A write(2) under fwrite or fflush may fail: glibc then leaves the stream *)
(* empty, and what it held and did not write is gone, whoever asks later.  *)
(***************************************************************************)
EXTENDS Naturals, Sequences, SequencesExt

CONSTANTS
  Null,               \* the null shared_ptr
  kLargeBuffer,       \* size of a buffer (4000000 in the code)
  kMaxBuffers,        \* more buffers than this are a pile-up (25 in the code)
  kFlushEveryN,       \* LogFile flushes after so many Appends (1024)
  kStdioBuffer,       \* what AppendFile's stream holds back (64 KB)
  MaxMessages,        \* bound: messages appended
  MaxFailures         \* bound: calls of fwrite and fflush that fail

ASSUME BufferAssumption == kLargeBuffer \in Nat /\ kLargeBuffer >= 2
ASSUME PileUpAssumption == kMaxBuffers \in Nat /\ kMaxBuffers >= 2
ASSUME NullAssumption == Null \notin Seq(Nat)
ASSUME MessagesAssumption == MaxMessages \in Nat
ASSUME FailuresAssumption == MaxFailures \in Nat
ASSUME FlushAssumption == kFlushEveryN \in Nat \ {0}
ASSUME StdioAssumption == kStdioBuffer \in Nat

VARIABLES
  pc,                 \* where ThreadFunc is; "aborted" after a failed assert
  running_,
  appended,           \* history: how many messages were appended
  current_buffer_, next_buffer_, buffers_,           \* guarded by mutex_
  new_buffer_1, new_buffer_2, buffers_to_write,      \* locals of ThreadFunc
  i,                  \* the next of buffers_to_write to write
  taken,              \* n of AppendFile::Append: what fwrite took of it
  count_,             \* LogFile::count_
  file,               \* the messages in the file
  stdio,              \* the messages fwrite took that are in the stream only
  dropped,            \* history: messages erased in a pile-up or lost
  failures            \* history: how many calls of fwrite and fflush failed

frontVars == <<current_buffer_, next_buffer_, buffers_>>
backVars == <<new_buffer_1, new_buffer_2, buffers_to_write, i>>
fileVars == <<count_, taken, file, stdio>>
histVars == <<appended, dropped, failures>>
vars == <<pc, running_, frontVars, backVars, fileVars, histVars>>

Buffers == Seq(1..MaxMessages)
Pointers == Buffers \union {Null}

\* The constructor, and the locals ThreadFunc sets up before its loop.
Init ==
  /\ pc = "off" /\ running_ = FALSE
  /\ current_buffer_ = <<>> /\ next_buffer_ = <<>> /\ buffers_ = <<>>
  /\ new_buffer_1 = <<>> /\ new_buffer_2 = <<>>
  /\ buffers_to_write = <<>> /\ i = 1
  /\ count_ = 0 /\ taken = 0 /\ file = <<>> /\ stdio = <<>>
  /\ appended = 0 /\ dropped = {} /\ failures = 0

-----------------------------------------------------------------------------
\* The front end.

\* FixedBuffer::Avail() > len, for a message of length 1.
HasRoom(buffer) == kLargeBuffer - Len(buffer) > 1

\* AsyncLogging::Append.  The Notify that ends it adds nothing: the backend
\* waits with a timeout and may wake up at any time.
AppendMessage ==
  /\ pc # "off"
  /\ appended < MaxMessages
  /\ appended' = appended + 1
  /\ IF HasRoom(current_buffer_)
     THEN /\ current_buffer_' = Append(current_buffer_, appended + 1)
          /\ UNCHANGED <<next_buffer_, buffers_>>
     ELSE /\ buffers_' = Append(buffers_, current_buffer_)
          /\ current_buffer_' = <<appended + 1>>
          /\ next_buffer_' = Null
  /\ UNCHANGED <<pc, running_, backVars, fileVars, dropped, failures>>

\* Start(): running_ is set, the thread is created, and latch_ waits until
\* ThreadFunc has passed its first assert.
Start ==
  /\ pc = "off"
  /\ pc' = "test"
  /\ running_' = TRUE
  /\ UNCHANGED <<frontVars, backVars, fileVars, histVars>>

\* Stop() up to its Join(): running_ is cleared without mutex_.
Stop ==
  /\ running_
  /\ running_' = FALSE
  /\ UNCHANGED <<pc, frontVars, backVars, fileVars, histVars>>

-----------------------------------------------------------------------------
\* The back end, ThreadFunc.

\* The stream is given s: it keeps the end of it, as much as it has room for
\* or less, and writes what is before.
PassOn(s, room) ==
  /\ \E k \in 0..Len(s) :
       /\ Len(s) - k <= room
       /\ file' = file \o SubSeq(s, 1, k)
       /\ stdio' = SubSeq(s, k + 1, Len(s))
  /\ UNCHANGED <<dropped, failures>>

\* The stream, with s in it, does not get all of it written: it is empty, and
\* the end of s is lost, with the refused messages it never took.
BreakOff(s, refused) ==
  /\ \E k \in 0..Len(s) :
       /\ file' = file \o SubSeq(s, 1, k)
       /\ dropped' = dropped \union ToSet(SubSeq(s, k + 1, Len(s)) \o refused)
  /\ stdio' = <<>>
  /\ failures' = failures + 1
  /\ failures' <= MaxFailures

\* AppendFile::Flush, which does not look at what fflush returns.
Flush ==
  \/ PassOn(stdio, 0)
  \/ stdio # <<>> /\ BreakOff(stdio, <<>>)

\* while (running_), with the asserts that open the body, and the Flush
\* after the loop.
TestRunning ==
  /\ pc = "test"
  /\ IF running_
     THEN /\ pc' = IF new_buffer_1 = <<>> /\ new_buffer_2 = <<>>
                       /\ buffers_to_write = <<>>
                   THEN "lock" ELSE "aborted"
          /\ UNCHANGED <<file, stdio, dropped, failures>>
     ELSE pc' = "done" /\ Flush
  /\ UNCHANGED <<running_, frontVars, backVars, count_, taken, appended>>

\* Nothing to write: WaitForSeconds releases mutex_.
WaitForBuffers ==
  /\ pc = "lock"
  /\ buffers_ = <<>>
  /\ pc' = "waiting"
  /\ UNCHANGED <<running_, frontVars, backVars, fileVars, histVars>>

\* Mutant: the backend waits until a buffer is full, without a timeout.
SwapBuffersNoTimeout ==
  /\ pc \in {"waiting", "lock"} /\ buffers_ # <<>>
  /\ pc' = "swapped"
  /\ buffers_to_write' = Append(buffers_, current_buffer_)
  /\ buffers_' = <<>>
  /\ current_buffer_' = new_buffer_1
  /\ new_buffer_1' = Null
  /\ IF next_buffer_ = Null
     THEN next_buffer_' = new_buffer_2 /\ new_buffer_2' = Null
     ELSE UNCHANGED <<next_buffer_, new_buffer_2>>
  /\ i' = 1
  /\ UNCHANGED <<running_, fileVars, histVars>>

\* Mutant: the current buffer goes before the full ones.
SwapBuffersCurrentFirst ==
  /\ \/ pc = "waiting"
     \/ pc = "lock" /\ buffers_ # <<>>
  /\ pc' = "swapped"
  /\ buffers_to_write' = <<current_buffer_>> \o buffers_
  /\ buffers_' = <<>>
  /\ current_buffer_' = new_buffer_1
  /\ new_buffer_1' = Null
  /\ IF next_buffer_ = Null
     THEN next_buffer_' = new_buffer_2 /\ new_buffer_2' = Null
     ELSE UNCHANGED <<next_buffer_, new_buffer_2>>
  /\ i' = 1
  /\ UNCHANGED <<running_, fileVars, histVars>>

\* The rest of the locked block, right away or after the wait, which ends by
\* a Notify or by its timeout: at any time.
SwapBuffers ==
  /\ \/ pc = "waiting"
     \/ pc = "lock" /\ buffers_ # <<>>
  /\ pc' = "swapped"
  /\ buffers_to_write' = Append(buffers_, current_buffer_)
  /\ buffers_' = <<>>
  /\ current_buffer_' = new_buffer_1
  /\ new_buffer_1' = Null
  /\ IF next_buffer_ = Null
     THEN next_buffer_' = new_buffer_2 /\ new_buffer_2' = Null
     ELSE UNCHANGED <<next_buffer_, new_buffer_2>>
  /\ i' = 1
  /\ UNCHANGED <<running_, fileVars, histVars>>

Messages(buffers) == FlattenSeq(buffers)

\* What is in the k-th of buffers_to_write and in those behind it.
MessagesFrom(k) ==
  UNION {ToSet(buffers_to_write[j]) : j \in k..Len(buffers_to_write)}

\* Mutant: only the first buffer survives a pile-up.
TrimBuffersToOne ==
  /\ pc = "swapped"
  /\ pc' = IF buffers_to_write # <<>> THEN "write" ELSE "aborted"
  /\ IF Len(buffers_to_write) > kMaxBuffers
     THEN /\ buffers_to_write' = SubSeq(buffers_to_write, 1, 1)
          /\ dropped' = dropped \union MessagesFrom(2)
     ELSE UNCHANGED <<buffers_to_write, dropped>>
  /\ UNCHANGED <<running_, frontVars, new_buffer_1, new_buffer_2, i, fileVars,
                 appended, failures>>

\* The assert after the block, and the pile-up: of more than kMaxBuffers
\* buffers the first two are kept.
TrimBuffers ==
  /\ pc = "swapped"
  /\ pc' = IF buffers_to_write # <<>> THEN "write" ELSE "aborted"
  /\ IF Len(buffers_to_write) > kMaxBuffers
     THEN /\ buffers_to_write' = SubSeq(buffers_to_write, 1, 2)
          /\ dropped' = dropped \union MessagesFrom(3)
     ELSE UNCHANGED <<buffers_to_write, dropped>>
  /\ UNCHANGED <<running_, frontVars, new_buffer_1, new_buffer_2, i, fileVars,
                 appended, failures>>

\* Mutant: the loop over the buffers stops one too early.
AllWrittenTooSoon == i >= Len(buffers_to_write)

\* The loop over the buffers has ended.
AllWritten == i > Len(buffers_to_write)

\* What fwrite has not taken yet of the buffer that is being written.
Rest == SubSeq(buffers_to_write[i], taken + 1, Len(buffers_to_write[i]))

\* fwrite takes all that is left of the buffer, at once or when
\* AppendFile::Append tries again.
WriteBuffer ==
  /\ pc \in {"write", "rewrite"}
  /\ ~AllWritten
  /\ PassOn(stdio \o Rest, kStdioBuffer)
  /\ taken' = Len(buffers_to_write[i])
  /\ pc' = "count"
  /\ UNCHANGED <<running_, frontVars, backVars, count_, appended>>

\* fwrite stops after n messages: AppendFile::Append tries again with the
\* others, unless a second try took nothing.
WriteStops ==
  /\ pc \in {"write", "rewrite"}
  /\ ~AllWritten
  /\ \E n \in 0..(Len(Rest) - 1) :
       /\ pc = "write" \/ n > 0
       /\ BreakOff(stdio \o SubSeq(Rest, 1, n), <<>>)
       /\ taken' = taken + n
  /\ pc' = "rewrite"
  /\ UNCHANGED <<running_, frontVars, backVars, count_, appended>>

\* The try that took nothing: the rest of the buffer is given up.
GiveUp ==
  /\ pc = "rewrite"
  /\ Rest # <<>>
  /\ BreakOff(stdio, Rest)
  /\ taken' = Len(buffers_to_write[i])
  /\ pc' = "count"
  /\ UNCHANGED <<running_, frontVars, backVars, count_, appended>>

\* LogFile counts the buffer, written or not, and flushes now and then; the
\* loop goes on to the next one.
CountBuffer ==
  /\ pc = "count"
  /\ pc' = "write"
  /\ count_' = (count_ + 1) % kFlushEveryN
  /\ IF count_' = 0 THEN Flush
     ELSE UNCHANGED <<file, stdio, dropped, failures>>
  /\ i' = i + 1
  /\ taken' = 0
  /\ UNCHANGED <<running_, frontVars, new_buffer_1, new_buffer_2,
                 buffers_to_write, appended>>

\* How many buffers the two resets below take back.
Wanted == (IF new_buffer_1 = Null THEN 1 ELSE 0)
            + (IF new_buffer_2 = Null THEN 1 ELSE 0)

\* All is written: two buffers at most are kept, emptied and taken back where
\* a spare is missing (asserting that there is one); then Flush.
RecycleBuffers ==
  /\ pc = "write"
  /\ AllWritten
  /\ IF Len(buffers_to_write) < Wanted
     THEN pc' = "aborted" /\ UNCHANGED <<new_buffer_1, new_buffer_2>>
     ELSE pc' = "test" /\ new_buffer_1' = <<>> /\ new_buffer_2' = <<>>
  /\ buffers_to_write' = <<>>
  /\ i' = 1
  /\ Flush
  /\ UNCHANGED <<running_, frontVars, count_, taken, appended>>

-----------------------------------------------------------------------------
Backend ==
  \/ TestRunning \/ WaitForBuffers \/ SwapBuffers \/ TrimBuffers
  \/ WriteBuffer \/ WriteStops \/ GiveUp \/ CountBuffer \/ RecycleBuffers

Next == AppendMessage \/ Start \/ Stop \/ Backend

Spec == Init /\ [][Next]_vars

\* The scheduler runs the logging thread, and its wait has a timeout.
FairSpec == Spec /\ WF_vars(Backend)

-----------------------------------------------------------------------------
\* Properties.

\* Every variable has its type; in particular current_buffer_ is never null
\* where Append() dereferences it.
TypeOK ==
  /\ pc \in {"off", "test", "lock", "waiting", "swapped", "write", "rewrite",
             "count", "done", "aborted"}
  /\ running_ \in BOOLEAN
  /\ appended \in 0..MaxMessages
  /\ current_buffer_ \in Buffers
  /\ next_buffer_ \in Pointers
  /\ buffers_ \in Seq(Buffers)
  /\ new_buffer_1 \in Pointers /\ new_buffer_2 \in Pointers
  /\ buffers_to_write \in Seq(Buffers)
  /\ i \in 1..(Len(buffers_to_write) + 1)
  /\ taken \in Nat
  /\ pc \in {"write", "rewrite", "count"} /\ ~AllWritten =>
       taken <= Len(buffers_to_write[i])
  /\ count_ \in 0..(kFlushEveryN - 1)
  /\ file \in Buffers
  /\ stdio \in Buffers /\ Len(stdio) <= kStdioBuffer
  /\ dropped \subseteq 1..MaxMessages
  /\ failures \in 0..MaxFailures

\* None of the asserts of ThreadFunc fails: the buffers it lent to the front
\* end come back, whatever the front end used while the file was written,
\* and a spare taken by the front end is always matched by a full buffer.
NoAssertFails == pc # "aborted"

\* Message m is in the file, was erased in a pile-up, or was lost by one of
\* the calls that failures counts.
Settled(m) == m \in dropped \/ m \in ToSet(file)

\* The logging thread has ended without the message: it came after the last
\* swap, and nobody writes it any more.
LeftBehind(m) ==
  pc = "done" /\ m \in ToSet(Messages(buffers_) \o current_buffer_)

\* An appended message reaches the file by itself, not just the stream: no
\* further Append() is needed to push it out of a half-full buffer.  Only
\* messages that a Stop() finds with the front end stay there.
AppendedIsSettled ==
  \A m \in 1..MaxMessages :
    (pc # "off" /\ m <= appended) ~> (Settled(m) \/ LeftBehind(m))

\* Stop() returns: its Join() sees the logging thread end.
StopReturns == (pc # "off" /\ ~running_) ~> (pc = "done")

\* What the backend swapped out and fwrite has not taken.
Swapped == Messages(SubSeq(buffers_to_write, i, Len(buffers_to_write)))

\* The two buffers, the vector, the swap and the stream are a FIFO channel to
\* the file that loses messages only when more than kMaxBuffers buffers are
\* waiting, or in a call of fwrite or fflush that fails: then at most what the
\* stream held and that one buffer.
LC == INSTANCE LogChannel WITH
  Limit <- kMaxBuffers * (kLargeBuffer - 1) + 1,
  Keep <- 2 * (kLargeBuffer - 1),
  Burst <- kStdioBuffer + kLargeBuffer - 1,
  waiting <- stdio \o SubSeq(Swapped, taken + 1, Len(Swapped))
               \o Messages(buffers_) \o current_buffer_
ImplementsChannel == LC!Spec
=============================================================================
