---------------------------- MODULE ServerProofs ----------------------------
(***************************************************************************)
(* Type correctness, LoopsAreLive and RoundRobin of Server, for any number *)
(* of loops and connections.                                               *)
(***************************************************************************)
EXTENDS Server, TLAPS

After == {"ready", "destroy", "quit", "join", "done"}   \* the start is over
Ending == After \ {"ready"}

\* The destructor has told the loop of t to quit.
Told(t) == main \in Ending /\ t <= k /\ (t = k => main = "join")

\* Before the start is over k is the thread being started, and the threads
\* behind it are not.
Started ==
  /\ main \in After => Len(loops_) = num_threads_
  /\ main \notin After =>
       /\ k <= num_threads_ /\ Len(loops_) = k - 1
       /\ \A t \in Threads : t > k => at[t] = "none"
       /\ main = "start" => at[k] = "none"
  /\ main \in {"quit", "join"} => k <= num_threads_

\* loops_ has the loops in the order of their threads, and each was built.
Built ==
  \A i \in DOMAIN loops_ :
    loops_[i] = i /\ at[i] \notin {"none", "created", "started"}

\* Only what was told to quit leaves its loop.
Leaving == \A t \in Threads : quit_[t] \/ at[t] \in {"left", "ended"} => Told(t)

PoolInv == PoolTypeOK /\ Started /\ Built /\ Leaving

\* Some number of full rounds, and the first next_ loops once more.
Dealt ==
  \E q \in Nat : \A t \in Threads :
    handed[t] = IF t <= next_ THEN q + 1 ELSE q

\* The server accepts only behind the start.
AcceptsAfter == accepting # "no" => main \in After

\* TypeOK without the pool's part, by what the provers can take together.
DataTypes ==
  /\ accepting \in {"no", "poll", "accept", "conn"}
  /\ backlog \in Seq(Conns)
  /\ events_ \in {"in", "none"} /\ last_events_ \in {"in", "none"}
  /\ place \in [Conns -> {"away", "backlog", "queued", "closed", "leaked"}]
  /\ handed \in [Threads -> Nat]
FlagTypes ==
  edge \in BOOLEAN /\ watched \in BOOLEAN /\ channel \in BOOLEAN /\ failed \in BOOLEAN

IInv == PoolInv /\ AcceptsAfter /\ DataTypes /\ FlagTypes /\ Dealt

-----------------------------------------------------------------------------
LEMMA NumThreads == num_threads_ \in Nat /\ num_threads_ >= 1
BY NumThreadsAssumption

USE NumThreads DEF Threads

LEMMA PoolStep ==
  ASSUME PoolInv,
         PoolMain \/ SpuriousWakeup \/ BeginDestroy \/ \E t \in Threads : PoolThread(t)
  PROVE  PoolInv'
<1> USE DEF PoolInv, PoolTypeOK, Started, Built, Leaving, Told, MainPlaces,
            Places, After, Ending
<1>1. CASE CreateThread
  <2>1. PoolTypeOK'
    BY <1>1 DEF CreateThread
  <2>2. Started' /\ Leaving'
    BY <1>1 DEF CreateThread
  <2>3. Built'
    <3>1. DOMAIN loops_ = 1..(k - 1) /\ k \in Nat /\ loops_' = loops_
      BY <1>1 DEF CreateThread
    <3>2. \A i \in 1..(k - 1) : i \in Threads /\ i # k
      BY <1>1 DEF CreateThread
    <3>3. \A i \in 1..(k - 1) : at'[i] = at[i]
      BY <1>1, <3>1, <3>2 DEF CreateThread
    <3> QED
      BY <3>1, <3>3
  <2> QED
    BY <2>1, <2>2, <2>3
<1>2. CASE LatchWait
  BY <1>2 DEF LatchWait
<1>3. CASE StartLoop
  <2>1. CASE ~loop_[k]
    BY <1>3, <2>1 DEF StartLoop
  <2>2. CASE loop_[k]
    <3>1. k \in Threads /\ at[k] \in {"published", "looping", "left"}
      BY <1>3, <2>2 DEF StartLoop
    <3>0. /\ loops_' = Append(loops_, k) /\ k' = k + 1
          /\ loops_ \in Seq(Threads) /\ Len(loops_) = k - 1
      BY <1>3, <2>2 DEF StartLoop
    <3>2. /\ loops_' \in Seq(Threads) /\ Len(loops_') = k
          /\ \A i \in 1..(k - 1) : loops_'[i] = loops_[i]
          /\ loops_'[k] = k
      BY <3>1, <3>0
    <3>3. PoolTypeOK'
      BY <1>3, <2>2, <3>0, <3>1, <3>2 DEF StartLoop
    <3>4. Started' /\ Leaving'
      BY <1>3, <2>2, <3>0, <3>1, <3>2 DEF StartLoop
    <3>5. Built'
      BY <1>3, <2>2, <3>0, <3>1, <3>2 DEF StartLoop
    <3> QED
      BY <3>3, <3>4, <3>5
  <2> QED
    BY <2>1, <2>2
<1>4. CASE DestroyThread
  BY <1>4 DEF DestroyThread
<1>5. CASE QuitLoop
  <2>1. k \in Threads /\ quit_' \in [Threads -> BOOLEAN]
    BY <1>5 DEF QuitLoop
  <2>2. PoolTypeOK'
    BY <1>5, <2>1 DEF QuitLoop
  <2>3. Started' /\ Built'
    BY <1>5 DEF QuitLoop
  <2>4. Leaving'
    BY <1>5, <2>1 DEF QuitLoop
  <2> QED
    BY <2>2, <2>3, <2>4
<1>6. CASE Join
  BY <1>6 DEF Join
<1>7. CASE SpuriousWakeup
  <2>1. /\ UNCHANGED <<k, at, count_, loop_, quit_, loops_, next_, early>>
        /\ main \notin After /\ main' \in {"latch", "loop"}
    BY <1>7 DEF SpuriousWakeup
  <2> QED
    BY <2>1
<1>8. CASE BeginDestroy
  BY <1>8 DEF BeginDestroy
<1>9. ASSUME NEW t \in Threads, PoolThread(t) PROVE PoolInv'
  <2>1. CASE CountDown(t)
    BY <2>1 DEF CountDown
  <2>2. CASE Publish(t)
    BY <2>2 DEF Publish
  <2>3. CASE EnterLoop(t)
    BY <2>3 DEF EnterLoop
  <2>4. CASE LeaveLoop(t)
    BY <2>4 DEF LeaveLoop
  <2>5. CASE EndThread(t)
    BY <2>5 DEF EndThread
  <2> QED
    BY <1>9, <2>1, <2>2, <2>3, <2>4, <2>5 DEF PoolThread
<1> QED
  BY <1>1, <1>2, <1>3, <1>4, <1>5, <1>6, <1>7, <1>8, <1>9 DEF PoolMain

-----------------------------------------------------------------------------
LEMMA InitInv == Init => IInv
<1> SUFFICES ASSUME Init PROVE IInv
  OBVIOUS
<1>1. PoolTypeOK
  BY DEF Init, PoolInit, PoolTypeOK, MainPlaces, Places
<1>2. Started /\ Built /\ Leaving
  BY DEF Init, PoolInit, Started, Built, Leaving, After
<1>3. AcceptsAfter /\ DataTypes
  BY DEF Init, AcceptsAfter, DataTypes
<1>4. FlagTypes
  BY DEF Init, FlagTypes
<1>5. Dealt
  <2>1. \A t \in Threads : handed[t] = IF t <= next_ THEN 0 + 1 ELSE 0
    BY DEF Init, PoolInit
  <2> QED
    BY <2>1 DEF Dealt
<1> QED
  BY <1>1, <1>2, <1>3, <1>4, <1>5 DEF IInv, PoolInv

\* The turn goes to the next loop, and from the last one round to the first.
LEMMA SuccessorWraps ==
  ASSUME NEW i \in 0..(num_threads_ - 1)
  PROVE  Successor(i) = IF i + 1 = num_threads_ THEN 0 ELSE i + 1
BY DEF Successor

\* A connection that is dealt out keeps the deal even.
LEMMA TurnStep ==
  ASSUME IInv, accepting # "no", GetNextLoop,
         handed' = [handed EXCEPT ![NextLoop] = @ + 1]
  PROVE  handed' \in [Threads -> Nat] /\ Dealt' /\ PoolInv'
<1>1. /\ next_ \in 0..(num_threads_ - 1)
      /\ loops_ \in Seq(Threads) /\ Len(loops_) = num_threads_
  BY DEF IInv, PoolInv, PoolTypeOK, AcceptsAfter, Started
<1>2. NextLoop = next_ + 1 /\ NextLoop \in Threads
  BY <1>1 DEF IInv, PoolInv, Built, NextLoop
<1>3. next_' = IF next_ + 1 = num_threads_ THEN 0 ELSE next_ + 1
  BY <1>1, SuccessorWraps DEF GetNextLoop
<1>4. handed \in [Threads -> Nat]
  BY DEF IInv, DataTypes
<1>5. handed' \in [Threads -> Nat]
  BY <1>2, <1>4
<1>6. PICK q \in Nat : \A t \in Threads :
        handed[t] = IF t <= next_ THEN q + 1 ELSE q
  BY DEF IInv, Dealt
<1>7. \A t \in Threads : handed'[t] = IF t <= next_ + 1 THEN q + 1 ELSE q
  BY <1>1, <1>2, <1>4, <1>6
<1>8. Dealt'
  <2>1. CASE next_ + 1 = num_threads_
    <3>1. \A t \in Threads : handed'[t] = IF t <= next_' THEN (q + 1) + 1 ELSE q + 1
      BY <1>1, <1>3, <1>7, <2>1
    <3> QED
      BY <3>1 DEF Dealt
  <2>2. CASE next_ + 1 # num_threads_
    BY <1>1, <1>3, <1>7, <2>2 DEF Dealt
  <2> QED
    BY <2>1, <2>2
<1>9. PoolInv'
  <2>1. next_' \in 0..(num_threads_ - 1)
    BY <1>1, <1>3
  <2> QED
    BY <2>1 DEF IInv, PoolInv, PoolTypeOK, Started, Built, Leaving, Told, After,
       Ending, GetNextLoop
<1> QED
  BY <1>5, <1>8, <1>9

-----------------------------------------------------------------------------
\* The steps that leave the pool and the turn alone.
LEMMA QuietStep ==
  ASSUME IInv, UNCHANGED <<poolVars, handed>>
  PROVE  PoolInv' /\ Dealt'
BY DEF IInv, PoolInv, PoolTypeOK, Started, Built, Leaving, Told, After, Ending,
   Dealt, poolVars

\* The steps that leave the server alone, and never take the start back.
LEMMA PoolOnlyStep ==
  ASSUME IInv, UNCHANGED serverVars,
         PoolMain \/ SpuriousWakeup \/ BeginDestroy \/ \E t \in Threads : PoolThread(t)
  PROVE  IInv'
<1>1. PoolInv'
  BY PoolStep DEF IInv
<1>2. next_' = next_ /\ (main \in After => main' \in After)
  BY DEF PoolMain, CreateThread, LatchWait, StartLoop, DestroyThread, QuitLoop, Join,
     SpuriousWakeup, BeginDestroy, PoolThread, CountDown, Publish, EnterLoop,
     LeaveLoop, EndThread, After
<1>3. AcceptsAfter' /\ DataTypes' /\ Dealt'
  BY <1>2 DEF IInv, AcceptsAfter, DataTypes, Dealt, serverVars
<1>4. FlagTypes'
  BY DEF IInv, FlagTypes, serverVars
<1> QED
  BY <1>1, <1>3, <1>4 DEF IInv

LEMMA InvStep == IInv /\ [Next]_vars => IInv'
<1> SUFFICES ASSUME IInv, [Next]_vars PROVE IInv'
  OBVIOUS
<1> USE DEF AcceptsAfter, DataTypes
<1>1. DataTypes /\ AcceptsAfter
  BY DEF IInv
<1>2. FlagTypes
  BY DEF IInv
<1>3. CASE \/ PoolMain /\ UNCHANGED serverVars
           \/ SpuriousWakeup /\ UNCHANGED serverVars
           \/ Destroy
           \/ \E t \in Threads : Thread(t)
  BY <1>3, PoolOnlyStep DEF Destroy, Thread
<1>4. ASSUME NEW c \in Conns, Connect(c) PROVE IInv'
  <2>1. PoolInv' /\ Dealt'
    BY <1>4, QuietStep DEF Connect
  <2>2. AcceptsAfter' /\ DataTypes'
    BY <1>1, <1>4 DEF Connect, poolVars
  <2>3. FlagTypes'
    BY <1>2, <1>4 DEF Connect, FlagTypes
  <2> QED
    BY <2>1, <2>2, <2>3 DEF IInv
<1>5. CASE Start \/ PollAccept \/ AcceptEnds \/ HandThisConn
  <2>1. PoolInv' /\ Dealt'
    BY <1>5, QuietStep DEF Start, PollAccept, AcceptEnds, HandThisConn
  <2>2. AcceptsAfter' /\ DataTypes'
    BY <1>1, <1>5 DEF Start, PollAccept, AcceptEnds, HandThisConn, poolVars, After
  <2>3. FlagTypes'
    <3>1. CASE Start
      BY <1>2, <3>1 DEF Start, FlagTypes
    <3>2. CASE PollAccept
      BY <1>2, <3>2 DEF PollAccept, FlagTypes
    <3>3. CASE AcceptEnds
      BY <1>2, <3>3 DEF AcceptEnds, FlagTypes
    <3>4. CASE HandThisConn
      BY <1>2, <3>4 DEF HandThisConn, FlagTypes
    <3> QED
      BY <1>5, <3>1, <3>2, <3>3, <3>4
  <2> QED
    BY <2>1, <2>2, <2>3 DEF IInv
<1>6. CASE AcceptConn \/ AcceptBlocking
  <2>1. PICK outcome \in {"queued", "closed", "leaked"} : Accept(outcome)
    BY <1>6 DEF AcceptConn, AcceptBlocking
  <2>2. handed' \in [Threads -> Nat] /\ Dealt' /\ PoolInv'
    BY <2>1, TurnStep DEF Accept
  <2>3. backlog' \in Seq(Conns) /\ Head(backlog) \in Conns
    BY <1>1, <2>1 DEF Accept
  <2>4. AcceptsAfter' /\ DataTypes'
    BY <1>1, <1>6, <2>1, <2>2, <2>3
       DEF Accept, AcceptConn, AcceptBlocking, GetNextLoop
  <2>5. FlagTypes'
    BY <1>2, <1>6 DEF AcceptConn, AcceptBlocking, FlagTypes
  <2> QED
    BY <2>2, <2>4, <2>5 DEF IInv
<1>7. CASE UNCHANGED vars
  <2>1. PoolInv' /\ Dealt'
    BY <1>7, QuietStep DEF vars, serverVars
  <2>2. AcceptsAfter' /\ DataTypes'
    BY <1>1, <1>7 DEF vars, serverVars, poolVars
  <2>3. FlagTypes'
    BY <1>2, <1>7 DEF vars, serverVars, FlagTypes
  <2> QED
    BY <2>1, <2>2, <2>3 DEF IInv
<1> QED
  BY <1>3, <1>4, <1>5, <1>6, <1>7 DEF Next, Main

-----------------------------------------------------------------------------
LEMMA Invariance == Spec => []IInv
BY InitInv, InvStep, PTL DEF Spec

\* Every variable has its type; loop_ and latch_ agree with the place of their
\* thread, whichever of the two the main thread is waiting for.
THEOREM TypeCorrect == Spec => []TypeOK
<1>1. IInv => TypeOK
  <2> SUFFICES ASSUME IInv PROVE TypeOK
    OBVIOUS
  <2>1. PoolTypeOK /\ DataTypes /\ FlagTypes
    BY DEF IInv, PoolInv
  <2> QED
    BY <2>1, Zenon DEF TypeOK, DataTypes, FlagTypes
<1> QED
  BY <1>1, Invariance, PTL

\* The pointers GetNextLoop hands out are to loops that exist and run, until
\* the destructor of their thread has told them to quit.
THEOREM LoopsLive == Spec => []LoopsAreLive
<1>1. IInv => LoopsAreLive
  <2> SUFFICES ASSUME IInv PROVE LoopsAreLive
    OBVIOUS
  <2>1. accepting # "no" => Len(loops_) = num_threads_
    BY DEF IInv, PoolInv, AcceptsAfter, Started
  <2>2. ASSUME NEW i \in DOMAIN loops_, at[loops_[i]] \notin Live
        PROVE  main \in {"destroy", "join", "quit", "done"} /\ loops_[i] <= k
    <3>1. loops_[i] = i /\ i \in Threads
      BY DEF IInv, PoolInv, PoolTypeOK, Built
    <3>2. at[i] \in {"left", "ended"}
      BY <2>2, <3>1 DEF IInv, PoolInv, PoolTypeOK, Built, Live, Places
    <3>3. Told(i)
      BY <3>1, <3>2 DEF IInv, PoolInv, Leaving
    <3> QED
      BY <3>1, <3>3 DEF Told, Ending, After
  <2> QED
    BY <2>1, <2>2 DEF LoopsAreLive
<1> QED
  BY <1>1, Invariance, PTL

\* GetNextLoop deals the connections out in turn, whatever becomes of them.
THEOREM TurnsAreFair == Spec => []RoundRobin
<1>1. IInv => RoundRobin
  <2> SUFFICES ASSUME IInv, NEW s \in Threads, NEW t \in Threads
               PROVE  handed[s] - handed[t] \in -1..1
    BY DEF RoundRobin
  <2>1. next_ \in Nat
    BY DEF IInv, PoolInv, PoolTypeOK
  <2>2. PICK q \in Nat : \A u \in Threads :
          handed[u] = IF u <= next_ THEN q + 1 ELSE q
    BY DEF IInv, Dealt
  <2> QED
    BY <2>1, <2>2
<1> QED
  BY <1>1, Invariance, PTL
=============================================================================
