--------------------------- MODULE WebBenchProofs ---------------------------
(***************************************************************************)
(* WebBench counts right for any finite number of clients, any number of   *)
(* requests and refusals, and whenever the alarms come: no request is lost *)
(* or counted twice on its way from a child through the pipe to the totals *)
(* that the parent prints.                                                 *)
(*                                                                         *)
(* SumOf is recursive, so what it adds up to is shown by induction on the  *)
(* number of elements.                                                     *)
(***************************************************************************)
EXTENDS WebBench, FiniteSetTheorems, SequenceTheorems, WellFoundedInduction, TLAPS

-----------------------------------------------------------------------------
\* Induction over the natural numbers, through sets of them.

\* A set of numbers has a least one.
LEMMA Least ==
  ASSUME NEW T \in SUBSET Nat, T # {}
  PROVE  \E m \in T : \A n \in T : m <= n
<1>1. PICK m \in T : \A n \in T : ~(<<n, m>> \in OpToRel(<, Nat))
  BY NatLessThanWellFounded, WFMin, Zenon
<1>2. \A n \in T : ~(n < m)
  BY <1>1 DEF OpToRel
<1> QED
  BY <1>2

\* Induction, over the numbers of which a formula holds.
LEMMA Induction ==
  ASSUME NEW G \in SUBSET Nat, 0 \in G, \A n \in G : n + 1 \in G
  PROVE  \A n \in Nat : n \in G
<1> SUFFICES ASSUME Nat \ G # {} PROVE FALSE
  OBVIOUS
<1>1. PICK m \in Nat \ G : \A n \in Nat \ G : m <= n
  BY Least
<1>2. m - 1 \in Nat /\ m - 1 \in G
  BY <1>1
<1> QED
  BY <1>1, <1>2

-----------------------------------------------------------------------------
\* Sums over finite sets, which SumOf makes by recursion over the set.

Choice(s) == CHOOSE x \in s : TRUE

\* A function that is defined by the recursion of FoldSet.
AddsUp(f, g, S) ==
  f = [s \in SUBSET S |-> IF s = {} THEN 0
                          ELSE g[Choice(s)] + f[s \ {Choice(s)}]]

Total(g, S) == (CHOOSE f : AddsUp(f, g, S))[S]

\* The same, for the sets of up to n elements.
Upto(S, n) == {s \in SUBSET S : Cardinality(s) <= n}
AddsUpto(f, g, S, n) ==
  f = [s \in Upto(S, n) |-> IF s = {} THEN 0
                            ELSE g[Choice(s)] + f[s \ {Choice(s)}]]

\* CHOOSE takes an element where there is one.
LEMMA ChoiceIsIn ==
  ASSUME NEW s, s # {}
  PROVE  Choice(s) \in s
BY DEF Choice

\* A set without one of its elements, and the numbers of their elements.
LEMMA OneLess ==
  ASSUME NEW S, IsFiniteSet(S), NEW T \in SUBSET S, NEW x \in T
  PROVE  /\ T \ {x} \in SUBSET S /\ IsFiniteSet(T) /\ Cardinality(T) \in Nat
         /\ Cardinality(T \ {x}) = Cardinality(T) - 1
         /\ Cardinality(T) # 0
<1>1. IsFiniteSet(T)
  BY FS_Subset
<1>2. Cardinality(T \ {x}) = Cardinality(T) - 1 /\ IsFiniteSet(T \ {x})
  BY <1>1, FS_RemoveElement
<1>3. Cardinality(T) \in Nat /\ Cardinality(T \ {x}) \in Nat
  BY <1>1, <1>2, FS_CardinalityType
<1> QED
  BY <1>1, <1>2, <1>3

\* The recursion defines a function on the subsets of a finite set.
LEMMA SumsExist ==
  ASSUME NEW g, NEW S, IsFiniteSet(S)
  PROVE  \E f : AddsUp(f, g, S)
<1> DEFINE G == {n \in Nat : \E f : AddsUpto(f, g, S, n)}
<1>1. \A s \in SUBSET S : /\ Cardinality(s) \in Nat /\ (Cardinality(s) = 0 => s = {})
                          /\ Cardinality(s) <= Cardinality(S)
  <2>1. \A s \in SUBSET S : IsFiniteSet(s) /\ Cardinality(s) <= Cardinality(S)
    BY FS_Subset
  <2> QED
    BY <2>1, FS_CardinalityType, FS_EmptySet
<1>2. 0 \in G
  <2> DEFINE f == [s \in Upto(S, 0) |-> 0]
  <2>1. \A s \in Upto(S, 0) : s = {}
    BY <1>1 DEF Upto
  <2>2. AddsUpto(f, g, S, 0)
    BY <2>1 DEF AddsUpto
  <2> QED
    BY <2>2
<1>3. ASSUME NEW n \in G PROVE n + 1 \in G
  <2>1. PICK f : AddsUpto(f, g, S, n)
    OBVIOUS
  <2> DEFINE h == [s \in Upto(S, n + 1) |-> IF s = {} THEN 0
                                            ELSE g[Choice(s)] + f[s \ {Choice(s)}]]
  <2>2. \A s \in Upto(S, n) : h[s] = f[s]
    <3>1. TAKE s \in Upto(S, n)
    <3>2. f[s] = IF s = {} THEN 0 ELSE g[Choice(s)] + f[s \ {Choice(s)}]
      BY <2>1, Zenon DEF AddsUpto
    <3>3. s \in Upto(S, n + 1)
      BY <1>1 DEF Upto
    <3> QED
      BY <3>2, <3>3
  <2>3. \A s \in Upto(S, n + 1) : s # {} => s \ {Choice(s)} \in Upto(S, n)
    <3>1. TAKE s \in Upto(S, n + 1)
    <3>2. HAVE s # {}
    <3>3. Choice(s) \in s /\ s \in SUBSET S /\ Cardinality(s) <= n + 1
      BY <3>2, ChoiceIsIn DEF Upto
    <3>4. /\ s \ {Choice(s)} \in SUBSET S
          /\ Cardinality(s \ {Choice(s)}) = Cardinality(s) - 1
      BY <3>3, OneLess
    <3> QED
      BY <1>1, <3>3, <3>4 DEF Upto
  <2>4. AddsUpto(h, g, S, n + 1)
    <3>1. \A s \in Upto(S, n + 1) :
            s # {} => h[s \ {Choice(s)}] = f[s \ {Choice(s)}]
      BY <2>2, <2>3, Zenon
    <3> QED
      BY <3>1 DEF AddsUpto
  <2> HIDE DEF h
  <2> QED
    BY <2>4
<1> HIDE DEF G
<1>4. \A n \in Nat : n \in G
  BY <1>2, <1>3, Induction DEF G
<1>5. Cardinality(S) \in G
  BY <1>4, FS_CardinalityType
<1>6. PICK f : AddsUpto(f, g, S, Cardinality(S))
  BY <1>5 DEF G
<1>7. Upto(S, Cardinality(S)) = SUBSET S
  BY <1>1 DEF Upto
<1> QED
  BY <1>6, <1>7, Zenon DEF AddsUp, AddsUpto

\* The recursion, step by step.
LEMMA SumStep ==
  ASSUME NEW f, NEW g, NEW S, AddsUp(f, g, S)
  PROVE  /\ f[{}] = 0
         /\ \A s \in SUBSET S :
              s # {} => /\ Choice(s) \in s
                        /\ f[s] = g[Choice(s)] + f[s \ {Choice(s)}]
<1>1. \A s \in SUBSET S :
        f[s] = IF s = {} THEN 0 ELSE g[Choice(s)] + f[s \ {Choice(s)}]
  BY Zenon DEF AddsUp
<1>2. {} \in SUBSET S
  OBVIOUS
<1> QED
  BY <1>1, <1>2, ChoiceIsIn

\* Sums agree where what is added does.
LEMMA SumsAgree ==
  ASSUME NEW f, NEW g, NEW S, AddsUp(f, g, S), IsFiniteSet(S),
         NEW h, NEW k, NEW R \in SUBSET S, AddsUp(h, k, R),
         \A x \in R : g[x] = k[x]
  PROVE  \A T \in SUBSET R : f[T] = h[T]
<1> DEFINE G == {n \in Nat : \A T \in SUBSET R : Cardinality(T) = n => f[T] = h[T]}
<1>1. \A T \in SUBSET R : /\ T \in SUBSET S /\ Cardinality(T) \in Nat
                          /\ (Cardinality(T) = 0 => T = {})
  <2>1. \A T \in SUBSET R : T \in SUBSET S /\ IsFiniteSet(T)
    BY FS_Subset
  <2> QED
    BY <2>1, FS_CardinalityType, FS_EmptySet
<1>2. f[{}] = 0 /\ h[{}] = 0
  BY SumStep
<1>3. 0 \in G
  BY <1>1, <1>2
<1>4. ASSUME NEW n \in G PROVE n + 1 \in G
  <2>1. ASSUME NEW T \in SUBSET R, Cardinality(T) = n + 1
        PROVE  f[T] = h[T]
    <3>1. T # {} /\ T \in SUBSET S
      <4>1. n + 1 # 0 /\ Cardinality({}) = 0
        BY FS_EmptySet
      <4> QED
        BY <2>1, <4>1
    <3>2. /\ Choice(T) \in T
          /\ f[T] = g[Choice(T)] + f[T \ {Choice(T)}]
          /\ h[T] = k[Choice(T)] + h[T \ {Choice(T)}]
      BY <3>1, SumStep
    <3>3. Cardinality(T \ {Choice(T)}) = n /\ T \ {Choice(T)} \in SUBSET R
      <4>1. Cardinality(T \ {Choice(T)}) = Cardinality(T) - 1
        BY <3>1, <3>2, OneLess
      <4> QED
        BY <2>1, <4>1
    <3>4. f[T \ {Choice(T)}] = h[T \ {Choice(T)}]
      BY <3>3
    <3>5. g[Choice(T)] = k[Choice(T)]
      BY <3>2
    <3> QED
      BY <3>2, <3>4, <3>5, Zenon
  <2> QED
    BY <2>1
<1> HIDE DEF G
<1>5. \A n \in Nat : n \in G
  BY <1>3, <1>4, Induction DEF G
<1> QED
  BY <1>1, <1>5 DEF G

\* A sum of natural numbers.
LEMMA SumIsNat ==
  ASSUME NEW f, NEW g, NEW S, AddsUp(f, g, S), IsFiniteSet(S),
         \A x \in S : g[x] \in Nat
  PROVE  \A T \in SUBSET S : f[T] \in Nat
<1> DEFINE G == {n \in Nat : \A T \in SUBSET S : Cardinality(T) = n => f[T] \in Nat}
<1>1. \A T \in SUBSET S : /\ Cardinality(T) \in Nat
                          /\ (Cardinality(T) = 0 => T = {})
  <2>1. \A T \in SUBSET S : IsFiniteSet(T)
    BY FS_Subset
  <2> QED
    BY <2>1, FS_CardinalityType, FS_EmptySet
<1>0. /\ f[{}] = 0
      /\ \A s \in SUBSET S :
           s # {} => Choice(s) \in s /\ f[s] = g[Choice(s)] + f[s \ {Choice(s)}]
  BY SumStep
<1>2. 0 \in G
  BY <1>0, <1>1
<1>3. ASSUME NEW n \in G PROVE n + 1 \in G
  <2>1. ASSUME NEW T \in SUBSET S, Cardinality(T) = n + 1
        PROVE  f[T] \in Nat
    <3>1. T # {}
      <4>1. n + 1 # 0 /\ Cardinality({}) = 0
        BY FS_EmptySet
      <4> QED
        BY <2>1, <4>1
    <3>2. Choice(T) \in T /\ f[T] = g[Choice(T)] + f[T \ {Choice(T)}]
      BY <1>0, <3>1, Zenon
    <3>3. T \ {Choice(T)} \in SUBSET S /\ Cardinality(T \ {Choice(T)}) = n
      BY <2>1, <3>2, OneLess
    <3>4. g[Choice(T)] \in Nat /\ f[T \ {Choice(T)}] \in Nat
      BY <3>2, <3>3
    <3> QED
      BY <3>2, <3>4
  <2> QED
    BY <2>1
<1> HIDE DEF G
<1>4. \A n \in Nat : n \in G
  BY <1>2, <1>3, Induction DEF G
<1> QED
  BY <1>1, <1>4 DEF G

\* The order in which the elements are added makes no difference.
LEMMA SumInAnyOrder ==
  ASSUME NEW f, NEW g, NEW S, AddsUp(f, g, S), IsFiniteSet(S),
         \A x \in S : g[x] \in Nat
  PROVE  \A T \in SUBSET S : \A x \in T : f[T] = g[x] + f[T \ {x}]
<1> DEFINE G == {n \in Nat : \A T \in SUBSET S : Cardinality(T) = n =>
                   \A x \in T : f[T] = g[x] + f[T \ {x}]}
<1>1. \A T \in SUBSET S : /\ Cardinality(T) \in Nat /\ f[T] \in Nat
                          /\ (Cardinality(T) = 0 => T = {})
  <2>1. \A T \in SUBSET S : IsFiniteSet(T)
    BY FS_Subset
  <2> QED
    BY <2>1, FS_CardinalityType, FS_EmptySet, SumIsNat
<1>2. 0 \in G
  BY <1>1
<1>3. ASSUME NEW n \in G PROVE n + 1 \in G
  <2>1. ASSUME NEW T \in SUBSET S, Cardinality(T) = n + 1, NEW x \in T
        PROVE  f[T] = g[x] + f[T \ {x}]
    <3> DEFINE y == Choice(T)
    <3>1. T # {}
      OBVIOUS
    <3>2. y \in T /\ f[T] = g[y] + f[T \ {y}]
      BY <3>1, SumStep
    <3> HIDE DEF y
    <3>3. CASE x = y
      BY <3>2, <3>3
    <3>4. CASE x # y
      <4>1. x \in T \ {y} /\ y \in T \ {x} /\ (T \ {y}) \ {x} = (T \ {x}) \ {y}
        BY <3>2, <3>4
      <4>2. /\ Cardinality(T \ {x}) = n /\ T \ {x} \in SUBSET S
            /\ Cardinality(T \ {y}) = n /\ T \ {y} \in SUBSET S
        BY <2>1, <3>2, OneLess
      <4>3. /\ f[T \ {y}] = g[x] + f[(T \ {y}) \ {x}]
            /\ f[T \ {x}] = g[y] + f[(T \ {x}) \ {y}]
        BY <4>1, <4>2
      <4>4. g[x] \in Nat /\ g[y] \in Nat /\ f[(T \ {x}) \ {y}] \in Nat
        BY <1>1, <3>2
      <4> DEFINE w == f[(T \ {x}) \ {y}]
      <4>5. /\ f[T] = g[y] + (g[x] + w) /\ f[T \ {x}] = g[y] + w
            /\ g[x] \in Nat /\ g[y] \in Nat /\ w \in Nat
        BY <3>2, <4>1, <4>3, <4>4, Zenon
      <4> HIDE DEF w
      <4> QED
        BY <4>5
    <3> QED
      BY <3>3, <3>4
  <2> QED
    BY <2>1
<1> HIDE DEF G
<1>4. \A n \in Nat : n \in G
  BY <1>2, <1>3, Induction DEF G
<1> QED
  BY <1>1, <1>4 DEF G

\* What Total is of: nothing, one more, and the same numbers.
LEMMA TotalAddsUp ==
  ASSUME NEW g, NEW S, IsFiniteSet(S)
  PROVE  \E f : AddsUp(f, g, S) /\ Total(g, S) = f[S]
<1>1. \E f : AddsUp(f, g, S)
  BY SumsExist
<1> QED
  BY <1>1, Zenon DEF Total

LEMMA TotalOfNone == \A g : Total(g, {}) = 0
<1>1. TAKE g
<1>2. PICK f : AddsUp(f, g, {}) /\ Total(g, {}) = f[{}]
  BY TotalAddsUp, FS_EmptySet
<1> QED
  BY <1>2, SumStep

LEMMA TotalIsNat ==
  ASSUME NEW g, NEW S, IsFiniteSet(S), \A x \in S : g[x] \in Nat
  PROVE  Total(g, S) \in Nat
<1>1. PICK f : AddsUp(f, g, S) /\ Total(g, S) = f[S]
  BY TotalAddsUp
<1> QED
  BY <1>1, SumIsNat

LEMMA TotalOfTheSame ==
  ASSUME NEW g, NEW k, NEW S, IsFiniteSet(S), \A x \in S : g[x] = k[x]
  PROVE  Total(g, S) = Total(k, S)
<1>1. PICK f : AddsUp(f, g, S) /\ Total(g, S) = f[S]
  BY TotalAddsUp
<1>2. PICK h : AddsUp(h, k, S) /\ Total(k, S) = h[S]
  BY TotalAddsUp
<1>3. S \in SUBSET S
  OBVIOUS
<1>4. \A T \in SUBSET S : f[T] = h[T]
  BY <1>1, <1>2, <1>3, SumsAgree
<1> QED
  BY <1>1, <1>2, <1>3, <1>4, Zenon

LEMMA TotalWithOneMore ==
  ASSUME NEW g, NEW S, IsFiniteSet(S), NEW x, x \notin S,
         \A y \in S \union {x} : g[y] \in Nat
  PROVE  Total(g, S \union {x}) = g[x] + Total(g, S)
<1> DEFINE R == S \union {x}
<1>1. IsFiniteSet(R)
  BY FS_AddElement
<1>2. PICK f : AddsUp(f, g, R) /\ Total(g, R) = f[R]
  BY <1>1, TotalAddsUp
<1>3. PICK h : AddsUp(h, g, S) /\ Total(g, S) = h[S]
  BY TotalAddsUp
<1>4. R \in SUBSET R /\ x \in R /\ R \ {x} = S /\ S \in SUBSET R
  OBVIOUS
<1>5. f[R] = g[x] + f[R \ {x}]
  <2>1. \A y \in R : g[y] \in Nat
    OBVIOUS
  <2> HIDE DEF R
  <2>2. AddsUp(f, g, R)
    BY <1>2
  <2>3. ASSUME NEW T \in SUBSET R, NEW y \in T
        PROVE  f[T] = g[y] + f[T \ {y}]
    BY <1>1, <2>1, <2>2, SumInAnyOrder
  <2> QED
    BY <1>4, <2>3
<1>6. f[S] = h[S]
  <2>1. \A y \in S : g[y] = g[y]
    OBVIOUS
  <2> HIDE DEF R
  <2>2. \A T \in SUBSET S : f[T] = h[T]
    BY <1>1, <1>2, <1>3, <1>4, <2>1, SumsAgree
  <2>3. S \in SUBSET S
    OBVIOUS
  <2> QED
    BY <2>2, <2>3, Zenon
<1> QED
  BY <1>2, <1>3, <1>4, <1>5, <1>6, Zenon

-----------------------------------------------------------------------------
\* The inductive invariant.

Places ==
  {"unborn", "born", "top", "connect", "connecting", "write", "shutdown",
   "test", "toread", "reading", "done", "report", "exited", "dead"}

Reports == [speed : Nat, failed : Nat]
Sockets == [rx : BOOLEAN, server : {"none", "up", "fin", "rst"}]

ChildTypes ==
  /\ keep_alive \in BOOLEAN /\ force \in BOOLEAN /\ http10 \in {0, 2}
  /\ pc \in [Clients -> Places]
  /\ timerexpired \in [Clients -> BOOLEAN] /\ armed \in [Clients -> BOOLEAN]
  /\ speed \in [Clients -> Nat] /\ failed \in [Clients -> Nat]
  /\ sock \in [Clients -> Sockets] /\ open \in [Clients -> Nat]
  /\ attempts \in [Clients -> Nat] /\ corrected \in [Clients -> BOOLEAN]
  /\ refusals \in Nat

ParentTypes ==
  /\ parent \in {"check", "fork", "gather", "printed", "returned 1", "returned 3"}
  /\ totals \in Reports
  /\ waiting \in Nat
  /\ mypipe \in Seq(Reports)

TypeOK == ChildTypes /\ ParentTypes

\* A child has no socket while it connects, nor, unless it keeps connections,
\* between two requests; and it has the one socket that s names open.
OneSocket(c) ==
  /\ sock[c] = NoSocket \/ sock[c].server # "none"
  /\ open[c] = IF sock[c] = NoSocket THEN 0 ELSE 1
  /\ pc[c] \in {"unborn", "born", "connect", "connecting"} => sock[c] = NoSocket
  /\ pc[c] = "top" /\ ~keep_alive => sock[c] = NoSocket

\* A child is inside a request from its beginning until it is counted.  With
\* keep-alive it connects between two requests.
InRequest(c) ==
  \/ pc[c] \in {"write", "shutdown", "test", "toread", "reading", "done"}
  \/ pc[c] \in {"connect", "connecting"} /\ ~keep_alive

Counted(c) ==
  /\ pc[c] \in {"unborn", "born"} =>
       speed[c] = 0 /\ failed[c] = 0 /\ attempts[c] = 0
  /\ pc[c] = "top" \/ (pc[c] \in {"connect", "connecting"} /\ keep_alive) =>
       speed[c] + failed[c] = attempts[c]
  /\ InRequest(c) => speed[c] + failed[c] + 1 = attempts[c]
  /\ pc[c] \in {"report", "exited"} =>
       speed[c] + failed[c] + (IF corrected[c] THEN 1 ELSE 0) = attempts[c]

Children == \A c \in Clients : OneSocket(c) /\ Counted(c)

\* What the reports in the pipe add up to.
Exited == {c \in Clients : pc[c] = "exited"}
InPipe(q, field) == Total([k \in 1..Len(q) |-> q[k][field]], 1..Len(q))

\* What the parent has and what is on its way to it are the counts of the
\* children that are done, and it waits for the other reports.
Sums ==
  /\ totals.speed + InPipe(mypipe, "speed") = Total(speed, Exited)
  /\ totals.failed + InPipe(mypipe, "failed") = Total(failed, Exited)
Awaited == waiting = Len(mypipe) + Cardinality(Clients \ Exited)

IInv == TypeOK /\ Children /\ Sums /\ Awaited

-----------------------------------------------------------------------------
\* The steps of a child.

\* A socket is of its type, and a new one is no NoSocket.
LEMMA SocketTypes ==
  NoSocket \in Sockets /\ NewSocket \in Sockets /\ NewSocket # NoSocket
BY DEF NoSocket, NewSocket, Sockets

\* close(s), whether s is open or not.
LEMMA SocketClosed ==
  ASSUME ChildTypes, NEW c \in Clients, OneSocket(c), CloseSocket(c)
  PROVE  /\ sock' \in [Clients -> Sockets] /\ open' \in [Clients -> Nat]
         /\ sock'[c] = NoSocket /\ open'[c] = 0
         /\ \A d \in Clients \ {c} : sock'[d] = sock[d] /\ open'[d] = open[d]
<1>1. sock' = [sock EXCEPT ![c] = NoSocket]
  BY DEF CloseSocket
<1>2. sock' \in [Clients -> Sockets] /\ sock'[c] = NoSocket
      /\ \A d \in Clients \ {c} : sock'[d] = sock[d]
  BY <1>1, SocketTypes DEF ChildTypes
<1>3. CASE sock[c] = NoSocket
  <2>1. open' = open /\ open[c] = 0
    BY <1>3 DEF CloseSocket, OneSocket
  <2> QED
    BY <1>2, <2>1 DEF ChildTypes
<1>4. CASE sock[c] # NoSocket
  <2>1. open' = [open EXCEPT ![c] = @ - 1] /\ open[c] = 1
    BY <1>4 DEF CloseSocket, OneSocket
  <2> QED
    BY <1>2, <2>1 DEF ChildTypes
<1> QED
  BY <1>3, <1>4

Untouched(c) ==
  \A d \in Clients \ {c} :
    /\ pc'[d] = pc[d] /\ speed'[d] = speed[d] /\ failed'[d] = failed[d]
    /\ sock'[d] = sock[d] /\ open'[d] = open[d]
    /\ attempts'[d] = attempts[d] /\ corrected'[d] = corrected[d]

\* A step of c that is no report.
Keeps(c) ==
  /\ UNCHANGED <<keep_alive, totals, waiting, mypipe, parent>>
  /\ ChildTypes' /\ Untouched(c)
  /\ OneSocket(c)' /\ Counted(c)'
  /\ pc[c] = "exited" <=> pc'[c] = "exited"
  /\ pc[c] = "exited" => speed'[c] = speed[c] /\ failed'[c] = failed[c]

\* A counted failure: the request is over, and so is its socket.
LEMMA FailsKeeps ==
  ASSUME ChildTypes, NEW c \in Clients, OneSocket(c), Counted(c), InRequest(c),
         NEW to, to = "top" \/ (to = "connect" /\ keep_alive), Fails(c, to),
         UNCHANGED <<options, parentVars, mypipe, attempts, refusals, corrected>>,
         timerexpired' \in [Clients -> BOOLEAN], armed' \in [Clients -> BOOLEAN]
  PROVE  Keeps(c)
<1>1. /\ UNCHANGED <<keep_alive, force, http10, totals, waiting, mypipe, parent>>
      /\ UNCHANGED <<attempts, refusals, corrected, speed>>
      /\ pc' = [pc EXCEPT ![c] = to] /\ failed' = [failed EXCEPT ![c] = @ + 1]
      /\ CloseSocket(c)
  BY DEF Fails, Bump, options, parentVars
<1>2. /\ sock' \in [Clients -> Sockets] /\ open' \in [Clients -> Nat]
      /\ sock'[c] = NoSocket /\ open'[c] = 0
      /\ \A d \in Clients \ {c} : sock'[d] = sock[d] /\ open'[d] = open[d]
  BY <1>1, SocketClosed
<1>3. ChildTypes'
  <2>1. to \in Places
    BY DEF Places
  <2>2. pc' \in [Clients -> Places] /\ failed' \in [Clients -> Nat]
    BY <1>1, <2>1 DEF ChildTypes
  <2> QED
    BY <1>1, <1>2, <2>2 DEF ChildTypes
<1>4. Untouched(c)
  BY <1>1, <1>2 DEF Untouched, ChildTypes
<1>5. OneSocket(c)'
  BY <1>2 DEF OneSocket
<1>6. pc'[c] = to /\ failed'[c] = failed[c] + 1 /\ speed'[c] = speed[c]
      /\ attempts'[c] = attempts[c]
  BY <1>1 DEF ChildTypes
<1>7. Counted(c)'
  <2>1. speed[c] + failed[c] + 1 = attempts[c]
    BY DEF Counted
  <2>2. speed[c] \in Nat /\ failed[c] \in Nat /\ attempts[c] \in Nat
    BY DEF ChildTypes
  <2>3. speed'[c] + failed'[c] = attempts'[c]
    BY <1>6, <2>1, <2>2
  <2> QED
    BY <1>1, <1>6, <2>3 DEF Counted, InRequest
<1>8. pc[c] # "exited" /\ pc'[c] # "exited"
  BY <1>6 DEF InRequest
<1> QED
  BY <1>1, <1>3, <1>4, <1>5, <1>7, <1>8 DEF Keeps

\* A child that starts has counted nothing and has no socket.
LEMMA SetupKeeps ==
  ASSUME ChildTypes, NEW c \in Clients, OneSocket(c), Counted(c), Setup(c)
  PROVE  Keeps(c)
<1> USE SocketTypes DEF Setup, Moves, parentVars, options
<1>1. UNCHANGED <<keep_alive, force, http10, totals, waiting, mypipe, parent>>
  OBVIOUS
<1>2. ChildTypes'
  BY <1>1 DEF ChildTypes, OneSocket, Places, Sockets
<1>3. Untouched(c)
  BY DEF Untouched, ChildTypes
<1>4. OneSocket(c)'
  BY DEF OneSocket, ChildTypes, Sockets, NoSocket, NewSocket
<1>5. Counted(c)'
  BY DEF Counted, InRequest, ChildTypes, Sockets, OneSocket
<1>6. /\ pc[c] = "exited" <=> pc'[c] = "exited"
      /\ pc[c] = "exited" => speed'[c] = speed[c] /\ failed'[c] = failed[c]
  BY DEF ChildTypes
<1> QED
  BY <1>1, <1>2, <1>3, <1>4, <1>5, <1>6 DEF Keeps

\* A child whose sigaction fails has counted nothing, either.
LEMMA SetupFailsKeeps ==
  ASSUME ChildTypes, NEW c \in Clients, OneSocket(c), Counted(c), SetupFails(c)
  PROVE  Keeps(c)
<1> USE DEF SetupFails, Moves, parentVars, options
<1>1. UNCHANGED <<keep_alive, force, http10, totals, waiting, mypipe, parent>>
  OBVIOUS
<1>2. ChildTypes'
  BY <1>1 DEF ChildTypes, Places
<1>3. Untouched(c)
  BY DEF Untouched, ChildTypes
<1>4. OneSocket(c)' /\ Counted(c)'
  BY DEF OneSocket, Counted, InRequest, ChildTypes
<1>5. pc[c] # "exited" /\ pc'[c] # "exited"
  BY DEF ChildTypes
<1> QED
  BY <1>1, <1>2, <1>3, <1>4, <1>5 DEF Keeps

\* The alarm, in a read(), a write(), a connect(), or anywhere else.
LEMMA AlarmKeeps ==
  ASSUME ChildTypes, NEW c \in Clients, OneSocket(c), Counted(c), Alarm(c)
  PROVE  Keeps(c)
<1>1. /\ UNCHANGED <<options, parentVars, mypipe, speed, attempts, refusals, corrected>>
      /\ timerexpired' \in [Clients -> BOOLEAN] /\ armed' \in [Clients -> BOOLEAN]
  BY DEF Alarm, ChildTypes
<1>2. CASE pc[c] = "reading"
  <2>1. Fails(c, "top") /\ InRequest(c)
    BY <1>2 DEF Alarm, Fails, InRequest
  <2> QED
    BY <1>1, <2>1, FailsKeeps
<1>3. CASE /\ pc[c] = "write" /\ keep_alive
           /\ pc' = [pc EXCEPT ![c] = "connect"] /\ failed' = Bump(failed, c)
           /\ CloseSocket(c)
  <2>1. Fails(c, "connect") /\ InRequest(c)
    BY <1>1, <1>3 DEF Fails, InRequest
  <2> QED
    BY <1>1, <1>3, <2>1, FailsKeeps
<1>4. CASE pc[c] = "connecting"
  <2> DEFINE to == IF keep_alive THEN "connect" ELSE "top"
  <2>1. /\ pc' = [pc EXCEPT ![c] = to] /\ UNCHANGED <<sock, open, speed, attempts>>
        /\ failed' = IF keep_alive THEN failed ELSE [failed EXCEPT ![c] = @ + 1]
        /\ UNCHANGED <<keep_alive, force, http10, totals, waiting, mypipe, parent>>
        /\ UNCHANGED <<refusals, corrected>>
    BY <1>1, <1>4 DEF Alarm, Bump, options, parentVars
  <2>2. ChildTypes'
    BY <1>1, <2>1 DEF ChildTypes, Places
  <2>3. Untouched(c)
    BY <2>1 DEF Untouched, ChildTypes
  <2>4. OneSocket(c)'
    BY <1>4, <2>1 DEF OneSocket, ChildTypes
  <2>5. Counted(c)'
    BY <1>4, <2>1 DEF Counted, InRequest, ChildTypes
  <2>6. pc[c] # "exited" /\ pc'[c] # "exited"
    BY <1>4, <2>1 DEF ChildTypes
  <2> QED
    BY <2>1, <2>2, <2>3, <2>4, <2>5, <2>6 DEF Keeps
<1>5. CASE UNCHANGED <<pc, failed, sock, open>>
  <2>1. /\ UNCHANGED <<pc, failed, sock, open, speed, attempts, refusals, corrected>>
        /\ UNCHANGED <<keep_alive, force, http10, totals, waiting, mypipe, parent>>
    BY <1>1, <1>5 DEF Alarm, options, parentVars
  <2>2. ChildTypes' /\ Untouched(c) /\ OneSocket(c)' /\ Counted(c)'
    BY <1>1, <2>1 DEF ChildTypes, Untouched, OneSocket, Counted, InRequest
  <2> QED
    BY <2>1, <2>2 DEF Keeps
<1> QED
  BY <1>2, <1>3, <1>4, <1>5 DEF Alarm

\* The end of a child takes one failure back and remembers it.
LEMMA TimeIsUpKeeps ==
  ASSUME ChildTypes, NEW c \in Clients, OneSocket(c), Counted(c), TimeIsUp(c)
  PROVE  Keeps(c)
<1> USE SocketTypes DEF TimeIsUp, Moves, parentVars, options
<1>1. UNCHANGED <<keep_alive, force, http10, totals, waiting, mypipe, parent>>
  OBVIOUS
<1>2. ChildTypes'
  BY <1>1 DEF ChildTypes, OneSocket, Places, Sockets
<1>3. Untouched(c)
  BY DEF Untouched, ChildTypes
<1>4. OneSocket(c)'
  BY DEF OneSocket, ChildTypes, Sockets, NoSocket, NewSocket
<1>5. Counted(c)'
  <2>1. /\ speed[c] \in Nat /\ failed[c] \in Nat /\ attempts[c] \in Nat
        /\ speed[c] + failed[c] = attempts[c] /\ pc'[c] = "report"
        /\ speed'[c] = speed[c] /\ attempts'[c] = attempts[c]
    BY DEF Counted, ChildTypes
  <2>2. CASE failed[c] > 0
    <3>1. failed'[c] = failed[c] - 1 /\ corrected'[c]
      BY <2>1, <2>2 DEF ChildTypes
    <3> QED
      BY <2>1, <2>2, <3>1 DEF Counted, InRequest
  <2>3. CASE ~(failed[c] > 0)
    <3>1. failed'[c] = failed[c] /\ ~corrected'[c]
      BY <2>1, <2>3 DEF ChildTypes
    <3> QED
      BY <2>1, <2>3, <3>1 DEF Counted, InRequest
  <2> QED
    BY <2>1, <2>2, <2>3
<1>6. /\ pc[c] = "exited" <=> pc'[c] = "exited"
      /\ pc[c] = "exited" => speed'[c] = speed[c] /\ failed'[c] = failed[c]
  BY DEF ChildTypes
<1> QED
  BY <1>1, <1>2, <1>3, <1>4, <1>5, <1>6 DEF Keeps

\* A request begins: from here on it is inside.
LEMMA AttemptKeeps ==
  ASSUME ChildTypes, NEW c \in Clients, OneSocket(c), Counted(c), Attempt(c)
  PROVE  Keeps(c)
<1> USE SocketTypes DEF Attempt, Moves, Bump, parentVars, options
<1>1. UNCHANGED <<keep_alive, force, http10, totals, waiting, mypipe, parent>>
  OBVIOUS
<1>2. ChildTypes'
  BY <1>1 DEF ChildTypes, OneSocket, Places, Sockets
<1>3. Untouched(c)
  BY DEF Untouched, ChildTypes
<1>4. OneSocket(c)'
  BY DEF OneSocket, ChildTypes, Sockets, NoSocket, NewSocket
<1>5. Counted(c)'
  BY DEF Counted, InRequest, ChildTypes, Sockets, OneSocket
<1>6. /\ pc[c] = "exited" <=> pc'[c] = "exited"
      /\ pc[c] = "exited" => speed'[c] = speed[c] /\ failed'[c] = failed[c]
  BY DEF ChildTypes
<1> QED
  BY <1>1, <1>2, <1>3, <1>4, <1>5, <1>6 DEF Keeps

\* Connecting counts nothing and has no socket yet.
LEMMA ConnectKeeps ==
  ASSUME ChildTypes, NEW c \in Clients, OneSocket(c), Counted(c), Connect(c)
  PROVE  Keeps(c)
<1> USE SocketTypes DEF Connect, Moves, parentVars, options
<1>1. UNCHANGED <<keep_alive, force, http10, totals, waiting, mypipe, parent>>
  OBVIOUS
<1>2. ChildTypes'
  BY <1>1 DEF ChildTypes, OneSocket, Places, Sockets
<1>3. Untouched(c)
  BY DEF Untouched, ChildTypes
<1>4. OneSocket(c)'
  BY DEF OneSocket, ChildTypes, Sockets, NoSocket, NewSocket
<1>5. Counted(c)'
  BY DEF Counted, InRequest, ChildTypes, Sockets, OneSocket
<1>6. /\ pc[c] = "exited" <=> pc'[c] = "exited"
      /\ pc[c] = "exited" => speed'[c] = speed[c] /\ failed'[c] = failed[c]
  BY DEF ChildTypes
<1> QED
  BY <1>1, <1>2, <1>3, <1>4, <1>5, <1>6 DEF Keeps

\* A connection makes the one socket.
LEMMA ConnectedKeeps ==
  ASSUME ChildTypes, NEW c \in Clients, OneSocket(c), Counted(c), Connected(c)
  PROVE  Keeps(c)
<1> USE SocketTypes DEF Connected, Moves, Bump, parentVars, options
<1>1. UNCHANGED <<keep_alive, force, http10, totals, waiting, mypipe, parent>>
  OBVIOUS
<1>2. ChildTypes'
  BY <1>1 DEF ChildTypes, OneSocket, Places, Sockets
<1>3. Untouched(c)
  BY DEF Untouched, ChildTypes
<1>4. OneSocket(c)'
  BY DEF OneSocket, ChildTypes, Sockets, NoSocket, NewSocket
<1>5. Counted(c)'
  BY DEF Counted, InRequest, ChildTypes, Sockets, OneSocket
<1>6. /\ pc[c] = "exited" <=> pc'[c] = "exited"
      /\ pc[c] = "exited" => speed'[c] = speed[c] /\ failed'[c] = failed[c]
  BY DEF ChildTypes
<1> QED
  BY <1>1, <1>2, <1>3, <1>4, <1>5, <1>6 DEF Keeps

\* A refusal is a failure, or nothing where connections are kept.
LEMMA RefusedKeeps ==
  ASSUME ChildTypes, NEW c \in Clients, OneSocket(c), Counted(c), Refused(c)
  PROVE  Keeps(c)
<1> USE SocketTypes DEF Refused, Moves, Bump, parentVars, options
<1>1. UNCHANGED <<keep_alive, force, http10, totals, waiting, mypipe, parent>>
  OBVIOUS
<1>2. ChildTypes'
  BY <1>1 DEF ChildTypes, OneSocket, Places, Sockets
<1>3. Untouched(c)
  BY DEF Untouched, ChildTypes
<1>4. OneSocket(c)'
  BY DEF OneSocket, ChildTypes, Sockets, NoSocket, NewSocket
<1>5. Counted(c)'
  BY DEF Counted, InRequest, ChildTypes, Sockets, OneSocket
<1>6. /\ pc[c] = "exited" <=> pc'[c] = "exited"
      /\ pc[c] = "exited" => speed'[c] = speed[c] /\ failed'[c] = failed[c]
  BY DEF ChildTypes
<1> QED
  BY <1>1, <1>2, <1>3, <1>4, <1>5, <1>6 DEF Keeps

\* A write that works, one that fails, and one that kills the child.
LEMMA WriteKeeps ==
  ASSUME ChildTypes, NEW c \in Clients, OneSocket(c), Counted(c), Write(c)
  PROVE  Keeps(c)
<1>0. pc[c] = "write" /\ InRequest(c)
  BY DEF Write, InRequest
<1>1. /\ UNCHANGED <<options, parentVars, mypipe, timerexpired, armed>>
      /\ UNCHANGED <<attempts, refusals, corrected>>
      /\ UNCHANGED <<keep_alive, force, http10, totals, waiting, parent>>
      /\ timerexpired' \in [Clients -> BOOLEAN] /\ armed' \in [Clients -> BOOLEAN]
  BY DEF Write, ChildTypes, options, parentVars
<1>2. CASE Fails(c, IF keep_alive THEN "connect" ELSE "top")
  <2> DEFINE to == IF keep_alive THEN "connect" ELSE "top"
  <2>1. to = "top" \/ (to = "connect" /\ keep_alive)
    OBVIOUS
  <2>2. Fails(c, to)
    BY <1>2
  <2> HIDE DEF to
  <2> QED
    BY <1>0, <1>1, <2>1, <2>2, FailsKeeps
<1>3. CASE \E to \in {"shutdown", "done", "test"} :
             /\ pc' = [pc EXCEPT ![c] = to]
             /\ UNCHANGED <<speed, failed, sock, open>>
  <2>1. PICK to \in {"shutdown", "done", "test"} :
          /\ pc' = [pc EXCEPT ![c] = to]
          /\ UNCHANGED <<speed, failed, sock, open>>
    BY <1>3
  <2>2. ChildTypes'
    BY <1>1, <2>1 DEF ChildTypes, Places
  <2>3. Untouched(c)
    BY <1>1, <2>1 DEF Untouched, ChildTypes
  <2>4. OneSocket(c)' /\ Counted(c)'
    BY <1>0, <1>1, <2>1 DEF OneSocket, Counted, InRequest, ChildTypes
  <2>5. pc[c] # "exited" /\ pc'[c] # "exited"
    BY <1>0, <1>1, <2>1 DEF ChildTypes
  <2> QED
    BY <1>1, <2>1, <2>2, <2>3, <2>4, <2>5 DEF Keeps
<1>4. CASE /\ pc' = [pc EXCEPT ![c] = "dead"]
           /\ sock' = [sock EXCEPT ![c] = NoSocket]
           /\ open' = [open EXCEPT ![c] = 0]
           /\ UNCHANGED <<speed, failed>>
  <2>2. ChildTypes'
    BY <1>1, <1>4, SocketTypes DEF ChildTypes, Places
  <2>3. Untouched(c)
    BY <1>1, <1>4 DEF Untouched, ChildTypes
  <2>4. OneSocket(c)' /\ Counted(c)'
    BY <1>1, <1>4 DEF OneSocket, Counted, InRequest, ChildTypes
  <2>5. pc[c] # "exited" /\ pc'[c] # "exited"
    BY <1>0, <1>4 DEF ChildTypes
  <2> QED
    BY <1>1, <2>2, <2>3, <2>4, <2>5 DEF Keeps
<1> QED
  BY <1>2, <1>3, <1>4 DEF Write

\* A shutdown() that works and one that fails.
LEMMA ShutdownKeeps ==
  ASSUME ChildTypes, NEW c \in Clients, OneSocket(c), Counted(c), Shutdown(c)
  PROVE  Keeps(c)
<1>0. pc[c] = "shutdown" /\ InRequest(c)
  BY DEF Shutdown, InRequest
<1>1. /\ UNCHANGED <<options, parentVars, mypipe, timerexpired, armed>>
      /\ UNCHANGED <<attempts, refusals, corrected>>
      /\ UNCHANGED <<keep_alive, force, http10, totals, waiting, parent>>
      /\ timerexpired' \in [Clients -> BOOLEAN] /\ armed' \in [Clients -> BOOLEAN]
  BY DEF Shutdown, ChildTypes, options, parentVars
<1>2. CASE Fails(c, "top")
  BY <1>0, <1>1, <1>2, FailsKeeps
<1>3. CASE \E to \in {"done", "test"} :
             /\ pc' = [pc EXCEPT ![c] = to]
             /\ UNCHANGED <<speed, failed, sock, open>>
  <2>1. PICK to \in {"done", "test"} :
          /\ pc' = [pc EXCEPT ![c] = to]
          /\ UNCHANGED <<speed, failed, sock, open>>
    BY <1>3
  <2>2. ChildTypes'
    BY <1>1, <2>1 DEF ChildTypes, Places
  <2>3. Untouched(c)
    BY <1>1, <2>1 DEF Untouched, ChildTypes
  <2>4. OneSocket(c)' /\ Counted(c)'
    BY <1>0, <1>1, <2>1 DEF OneSocket, Counted, InRequest, ChildTypes
  <2>5. pc[c] # "exited" /\ pc'[c] # "exited"
    BY <1>0, <1>1, <2>1 DEF ChildTypes
  <2> QED
    BY <1>1, <2>1, <2>2, <2>3, <2>4, <2>5 DEF Keeps
<1> QED
  BY <1>2, <1>3 DEF Shutdown

\* The test of the flag, which counts nothing.
LEMMA TestKeeps ==
  ASSUME ChildTypes, NEW c \in Clients, OneSocket(c), Counted(c), Test(c)
  PROVE  Keeps(c)
<1> USE SocketTypes DEF Test, Moves, parentVars, options
<1>1. UNCHANGED <<keep_alive, force, http10, totals, waiting, mypipe, parent>>
  OBVIOUS
<1>2. ChildTypes'
  BY <1>1 DEF ChildTypes, OneSocket, Places, Sockets
<1>3. Untouched(c)
  BY DEF Untouched, ChildTypes
<1>4. OneSocket(c)'
  BY DEF OneSocket, ChildTypes, Sockets, NoSocket, NewSocket
<1>5. Counted(c)'
  BY DEF Counted, InRequest, ChildTypes, Sockets, OneSocket
<1>6. /\ pc[c] = "exited" <=> pc'[c] = "exited"
      /\ pc[c] = "exited" => speed'[c] = speed[c] /\ failed'[c] = failed[c]
  BY DEF ChildTypes
<1> QED
  BY <1>1, <1>2, <1>3, <1>4, <1>5, <1>6 DEF Keeps

\* The step into read(), which counts nothing.
LEMMA EnterReadKeeps ==
  ASSUME ChildTypes, NEW c \in Clients, OneSocket(c), Counted(c), EnterRead(c)
  PROVE  Keeps(c)
<1> USE SocketTypes DEF EnterRead, Moves, parentVars, options
<1>1. UNCHANGED <<keep_alive, force, http10, totals, waiting, mypipe, parent>>
  OBVIOUS
<1>2. ChildTypes'
  BY <1>1 DEF ChildTypes, OneSocket, Places, Sockets
<1>3. Untouched(c)
  BY DEF Untouched, ChildTypes
<1>4. OneSocket(c)'
  BY DEF OneSocket, ChildTypes, Sockets, NoSocket, NewSocket
<1>5. Counted(c)'
  BY DEF Counted, InRequest, ChildTypes, Sockets, OneSocket
<1>6. /\ pc[c] = "exited" <=> pc'[c] = "exited"
      /\ pc[c] = "exited" => speed'[c] = speed[c] /\ failed'[c] = failed[c]
  BY DEF ChildTypes
<1> QED
  BY <1>1, <1>2, <1>3, <1>4, <1>5, <1>6 DEF Keeps

\* A read of something, of the end, and of a reset.
LEMMA ReadKeeps ==
  ASSUME ChildTypes, NEW c \in Clients, OneSocket(c), Counted(c), Read(c)
  PROVE  Keeps(c)
<1>0. pc[c] = "reading" /\ InRequest(c)
  BY DEF Read, InRequest
<1>1. /\ UNCHANGED <<options, parentVars, mypipe, timerexpired, armed>>
      /\ UNCHANGED <<attempts, refusals, corrected>>
      /\ UNCHANGED <<keep_alive, force, http10, totals, waiting, parent>>
      /\ timerexpired' \in [Clients -> BOOLEAN] /\ armed' \in [Clients -> BOOLEAN]
  BY DEF Read, ChildTypes, options, parentVars
<1>2. CASE Fails(c, "top")
  BY <1>0, <1>1, <1>2, FailsKeeps
<1>3. CASE /\ sock[c].rx
           /\ sock' = [sock EXCEPT ![c].rx = FALSE]
           /\ pc' = [pc EXCEPT ![c] = IF keep_alive THEN "done" ELSE "test"]
           /\ UNCHANGED <<speed, failed, open>>
  <2>1. sock[c] \in Sockets /\ sock[c] # NoSocket /\ sock[c].server # "none"
    BY <1>3 DEF ChildTypes, OneSocket, NoSocket
  <2>2. [sock[c] EXCEPT !.rx = FALSE] \in Sockets
        /\ [sock[c] EXCEPT !.rx = FALSE].server # "none"
    BY <2>1 DEF Sockets
  <2>3. sock' = [sock EXCEPT ![c] = [sock[c] EXCEPT !.rx = FALSE]]
    BY <1>3
  <2>4. ChildTypes'
    BY <1>1, <1>3, <2>2, <2>3 DEF ChildTypes, Places
  <2>5. Untouched(c)
    BY <1>1, <1>3 DEF Untouched, ChildTypes
  <2>6. OneSocket(c)'
    BY <1>1, <1>3, <2>1, <2>2, <2>3 DEF OneSocket, ChildTypes, NoSocket
  <2>7. Counted(c)'
    BY <1>0, <1>1, <1>3 DEF Counted, InRequest, ChildTypes
  <2>8. pc[c] # "exited" /\ pc'[c] # "exited"
    BY <1>0, <1>3 DEF ChildTypes
  <2> QED
    BY <1>1, <2>4, <2>5, <2>6, <2>7, <2>8 DEF Keeps
<1>4. CASE \E to \in {"done"} : /\ pc' = [pc EXCEPT ![c] = to]
                                /\ UNCHANGED <<speed, failed, sock, open>>
  <2>1. PICK to \in {"done"} : /\ pc' = [pc EXCEPT ![c] = to]
                               /\ UNCHANGED <<speed, failed, sock, open>>
    BY <1>4
  <2>2. ChildTypes'
    BY <1>1, <2>1 DEF ChildTypes, Places
  <2>3. Untouched(c)
    BY <1>1, <2>1 DEF Untouched, ChildTypes
  <2>4. OneSocket(c)' /\ Counted(c)'
    BY <1>0, <1>1, <2>1 DEF OneSocket, Counted, InRequest, ChildTypes
  <2>5. pc[c] # "exited" /\ pc'[c] # "exited"
    BY <1>0, <1>1, <2>1 DEF ChildTypes
  <2> QED
    BY <1>1, <2>1, <2>2, <2>3, <2>4, <2>5 DEF Keeps
<1> QED
  BY <1>2, <1>3, <1>4 DEF Read

\* The request is counted, its socket closed unless it is kept.
LEMMA DoneKeeps ==
  ASSUME ChildTypes, NEW c \in Clients, OneSocket(c), Counted(c), Done(c)
  PROVE  Keeps(c)
<1>1. /\ UNCHANGED <<keep_alive, force, http10, totals, waiting, mypipe, parent>>
      /\ UNCHANGED <<timerexpired, armed, failed, attempts, refusals, corrected>>
      /\ pc[c] = "done" /\ pc' = [pc EXCEPT ![c] = "top"]
      /\ speed' = [speed EXCEPT ![c] = @ + 1]
  BY DEF Done, Moves, Bump, options, parentVars
<1>2. /\ sock' \in [Clients -> Sockets] /\ open' \in [Clients -> Nat]
      /\ \A d \in Clients \ {c} : sock'[d] = sock[d] /\ open'[d] = open[d]
      /\ OneSocket(c)'
  <2>1. CASE keep_alive
    <3>1. UNCHANGED <<sock, open>>
      BY <2>1 DEF Done
    <3> QED
      BY <1>1, <2>1, <3>1 DEF ChildTypes, OneSocket
  <2>2. CASE ~keep_alive
    <3>1. CloseSocket(c)
      BY <2>2 DEF Done
    <3> QED
      BY <3>1, SocketClosed DEF OneSocket
  <2> QED
    BY <2>1, <2>2
<1>3. ChildTypes'
  <2>1. pc' \in [Clients -> Places] /\ speed' \in [Clients -> Nat]
    BY <1>1 DEF ChildTypes, Places
  <2> QED
    BY <1>1, <1>2, <2>1 DEF ChildTypes
<1>4. Untouched(c)
  BY <1>1, <1>2 DEF Untouched, ChildTypes
<1>5. Counted(c)'
  BY <1>1 DEF Counted, InRequest, ChildTypes
<1>6. pc[c] # "exited" /\ pc'[c] # "exited"
  BY <1>1 DEF ChildTypes
<1> QED
  BY <1>1, <1>2, <1>3, <1>4, <1>5, <1>6 DEF Keeps

\* What the server does to a socket that is open.
LEMMA ServerKeeps ==
  ASSUME ChildTypes, NEW c \in Clients, OneSocket(c), Counted(c),
         NEW state \in Sockets, state.server # "none", sock[c].server # "none",
         ServerDoes(c, state)
  PROVE  Keeps(c)
<1>1. /\ UNCHANGED <<keep_alive, force, http10, totals, waiting, mypipe, parent>>
      /\ UNCHANGED <<pc, timerexpired, armed, speed, failed, open, attempts>>
      /\ UNCHANGED <<refusals, corrected>>
      /\ sock' = [sock EXCEPT ![c] = state]
  BY DEF ServerDoes, options, parentVars
<1>2. ChildTypes' /\ Untouched(c)
  BY <1>1 DEF ChildTypes, Untouched
<1>3. sock'[c] = state /\ state # NoSocket /\ sock[c] # NoSocket
  BY <1>1 DEF ChildTypes, NoSocket
<1>4. OneSocket(c)'
  BY <1>1, <1>3 DEF OneSocket
<1>5. Counted(c)'
  BY <1>1 DEF Counted, InRequest
<1> QED
  BY <1>1, <1>2, <1>4, <1>5 DEF Keeps

LEMMA ServeKeeps ==
  ASSUME ChildTypes, NEW c \in Clients, OneSocket(c), Counted(c), Serve(c)
  PROVE  Keeps(c)
<1>1. sock[c] \in Sockets /\ sock[c].server = "up"
  BY DEF ChildTypes, Serve
<1>2. /\ [sock[c] EXCEPT !.rx = TRUE] \in Sockets
      /\ [sock[c] EXCEPT !.rx = TRUE].server # "none"
      /\ [sock[c] EXCEPT !.server = "fin"] \in Sockets
      /\ [sock[c] EXCEPT !.server = "fin"].server # "none"
  BY <1>1 DEF Sockets
<1>3. \/ ServerDoes(c, [sock[c] EXCEPT !.rx = TRUE])
      \/ ServerDoes(c, [sock[c] EXCEPT !.server = "fin"])
  BY DEF Serve
<1> QED
  BY <1>1, <1>2, <1>3, ServerKeeps

LEMMA ServerResetsKeeps ==
  ASSUME ChildTypes, NEW c \in Clients, OneSocket(c), Counted(c), ServerResets(c)
  PROVE  Keeps(c)
<1> USE SocketTypes DEF ServerResets, ServerDoes, parentVars, options
<1>1. UNCHANGED <<keep_alive, force, http10, totals, waiting, mypipe, parent>>
  OBVIOUS
<1>2. ChildTypes'
  BY <1>1 DEF ChildTypes, OneSocket, Places, Sockets
<1>3. Untouched(c)
  BY DEF Untouched, ChildTypes
<1>4. OneSocket(c)'
  BY DEF OneSocket, ChildTypes, Sockets, NoSocket, NewSocket
<1>5. Counted(c)'
  BY DEF Counted, InRequest, ChildTypes, Sockets, OneSocket
<1>6. /\ pc[c] = "exited" <=> pc'[c] = "exited"
      /\ pc[c] = "exited" => speed'[c] = speed[c] /\ failed'[c] = failed[c]
  BY DEF ChildTypes
<1> QED
  BY <1>1, <1>2, <1>3, <1>4, <1>5, <1>6 DEF Keeps

-----------------------------------------------------------------------------
\* The reports.

\* The positions of a pipe, and the numbers at them.
LEMMA PipeTypes ==
  ASSUME NEW q \in Seq(Reports), NEW field \in {"speed", "failed"}
  PROVE  /\ Len(q) \in Nat /\ IsFiniteSet(1..Len(q))
         /\ \A k \in 1..Len(q) : q[k] \in Reports /\ q[k][field] \in Nat
<1>1. Len(q) \in Nat
  BY LenProperties
<1>2. IsFiniteSet(1..Len(q))
  BY <1>1, FS_Interval
<1>3. \A k \in 1..Len(q) : q[k] \in Reports
  BY ElementOfSeq
<1> QED
  BY <1>1, <1>2, <1>3 DEF Reports

\* A report written last is added to what the pipe adds up to.
LEMMA PipeAppend ==
  ASSUME NEW q \in Seq(Reports), NEW r \in Reports, NEW field \in {"speed", "failed"}
  PROVE  InPipe(Append(q, r), field) = r[field] + InPipe(q, field)
<1> DEFINE n == Len(q)
           g == [k \in 1..n |-> q[k][field]]
           p == Append(q, r)
           h == [k \in 1..Len(p) |-> p[k][field]]
<1>1. /\ p \in Seq(Reports) /\ Len(p) = n + 1 /\ n \in Nat
      /\ \A k \in 1..n : p[k] = q[k]
      /\ p[n + 1] = r
  BY AppendProperties, LenProperties
<1>2. /\ \A k \in 1..n : h[k] = g[k]
      /\ h[n + 1] = r[field]
  BY <1>1
<1>3. \A k \in 1..(n + 1) : h[k] \in Nat
  BY <1>1, PipeTypes
<1>4. 1..Len(p) = (1..n) \union {n + 1} /\ n + 1 \notin 1..n
  BY <1>1
<1>5. IsFiniteSet(1..n)
  BY PipeTypes
<1> HIDE DEF g, h, p, n
<1>6. Total(h, (1..n) \union {n + 1}) = h[n + 1] + Total(h, 1..n)
  <2>1. \A k \in (1..n) \union {n + 1} : h[k] \in Nat
    BY <1>1, <1>3
  <2> QED
    BY <1>4, <1>5, <2>1, TotalWithOneMore
<1>7. Total(h, 1..n) = Total(g, 1..n)
  BY <1>2, <1>5, TotalOfTheSame
<1>8. InPipe(p, field) = Total(h, 1..Len(p)) /\ InPipe(q, field) = Total(g, 1..n)
  BY DEF InPipe, g, h, n
<1> QED
  BY <1>2, <1>4, <1>6, <1>7, <1>8, Zenon DEF p

\* A sum without its first term.
LEMMA TotalShifted ==
  ASSUME NEW m \in Nat, NEW g, \A j \in 1..(m + 1) : g[j] \in Nat,
         NEW h, \A j \in 1..m : h[j] = g[j + 1]
  PROVE  Total(g, 1..(m + 1)) = g[1] + Total(h, 1..m)
<1> DEFINE G == {n \in Nat : n <= m =>
                   Total(g, 1..(n + 1)) = g[1] + Total(h, 1..n)}
<1>0. \A n \in Nat : IsFiniteSet(1..n)
  BY FS_Interval
<1>1. 0 \in G
  <2>1. 1..(0 + 1) = {} \union {1} /\ 1..0 = {} /\ 1 \notin {}
    OBVIOUS
  <2>2. \A j \in {} \union {1} : g[j] \in Nat
    OBVIOUS
  <2>3. Total(g, {} \union {1}) = g[1] + Total(g, {})
    BY <2>1, <2>2, FS_EmptySet, TotalWithOneMore
  <2>4. Total(g, {}) = 0 /\ Total(h, {}) = 0
    BY TotalOfNone
  <2>5. Total(g, 1..(0 + 1)) = g[1] + Total(h, 1..0)
    BY <2>1, <2>3, <2>4, Zenon
  <2> QED
    BY <2>5
<1>2. ASSUME NEW n \in G PROVE n + 1 \in G
  <2>1. CASE ~(n + 1 <= m)
    BY <2>1
  <2>2. CASE n + 1 <= m
    <3>0. n \in Nat /\ n + 1 \in Nat /\ (n + 1) + 1 \in Nat
      OBVIOUS
    <3>1. /\ 1..((n + 1) + 1) = (1..(n + 1)) \union {(n + 1) + 1}
          /\ (n + 1) + 1 \notin 1..(n + 1)
          /\ 1..(n + 1) = (1..n) \union {n + 1} /\ n + 1 \notin 1..n
      BY <3>0
    <3>2. /\ \A j \in (1..(n + 1)) \union {(n + 1) + 1} : g[j] \in Nat
          /\ \A j \in (1..n) \union {n + 1} : h[j] \in Nat
          /\ h[n + 1] = g[(n + 1) + 1] /\ g[1] \in Nat
      BY <2>2, <3>0
    <3>3. IsFiniteSet(1..(n + 1)) /\ IsFiniteSet(1..n)
      BY <1>0, <3>0
    <3>4. Total(g, (1..(n + 1)) \union {(n + 1) + 1})
            = g[(n + 1) + 1] + Total(g, 1..(n + 1))
      BY <3>1, <3>2, <3>3, TotalWithOneMore
    <3>5. Total(h, (1..n) \union {n + 1}) = h[n + 1] + Total(h, 1..n)
      BY <3>1, <3>2, <3>3, TotalWithOneMore
    <3>6. Total(g, 1..(n + 1)) = g[1] + Total(h, 1..n)
      BY <2>2
    <3>7. Total(h, 1..n) \in Nat
      BY <3>2, <3>3, TotalIsNat
    <3> DEFINE a == Total(g, 1..((n + 1) + 1))
               b == Total(h, 1..(n + 1))
               c == Total(h, 1..n)
    <3>8. a = h[n + 1] + (g[1] + c) /\ b = h[n + 1] + c
      BY <3>1, <3>2, <3>4, <3>5, <3>6, Zenon
    <3>9. h[n + 1] \in Nat /\ g[1] \in Nat /\ c \in Nat
      BY <3>2, <3>7
    <3> HIDE DEF a, b, c
    <3>10. a = g[1] + b
      BY <3>8, <3>9
    <3> QED
      BY <3>10 DEF a, b
  <2> QED
    BY <2>1, <2>2
<1> HIDE DEF G
<1>3. \A n \in Nat : n \in G
  BY <1>1, <1>2, Induction DEF G
<1> QED
  BY <1>3 DEF G

\* A report read first is taken from what the pipe adds up to.
LEMMA PipeTail ==
  ASSUME NEW q \in Seq(Reports), q # <<>>, NEW field \in {"speed", "failed"}
  PROVE  InPipe(q, field) = Head(q)[field] + InPipe(Tail(q), field)
<1> DEFINE m == Len(Tail(q))
           g == [k \in 1..Len(q) |-> q[k][field]]
           h == [k \in 1..m |-> Tail(q)[k][field]]
<1>1. /\ Len(q) = m + 1 /\ m \in Nat /\ Head(q) = q[1]
      /\ \A k \in 1..m : Tail(q)[k] = q[k + 1]
  <2>1. /\ Tail(q) \in Seq(Reports) /\ Len(Tail(q)) = Len(q) - 1
        /\ \A k \in 1..Len(Tail(q)) : Tail(q)[k] = q[k + 1]
    BY HeadTailProperties
  <2>2. Len(Tail(q)) \in Nat /\ Len(q) \in Nat
    BY <2>1, LenProperties
  <2> QED
    BY <2>1, <2>2
<1>2. /\ \A k \in 1..(m + 1) : g[k] \in Nat
      /\ \A k \in 1..m : h[k] = g[k + 1]
      /\ g[1] = Head(q)[field]
  <2>1. \A k \in 1..(m + 1) : g[k] \in Nat
    BY <1>1, PipeTypes
  <2>2. \A k \in 1..m : h[k] = g[k + 1]
    BY <1>1
  <2>3. g[1] = Head(q)[field]
    BY <1>1
  <2> QED
    BY <2>1, <2>2, <2>3
<1>3. InPipe(q, field) = Total(g, 1..(m + 1)) /\ InPipe(Tail(q), field) = Total(h, 1..m)
  BY <1>1 DEF InPipe
<1> HIDE DEF g, h, m
<1> QED
  BY <1>1, <1>2, <1>3, TotalShifted

\* What the pipe adds up to is a number.
LEMMA InPipeIsNat ==
  ASSUME NEW q \in Seq(Reports), NEW field \in {"speed", "failed"}
  PROVE  InPipe(q, field) \in Nat
<1> DEFINE g == [k \in 1..Len(q) |-> q[k][field]]
<1>1. IsFiniteSet(1..Len(q)) /\ \A k \in 1..Len(q) : g[k] \in Nat
  BY PipeTypes
<1> HIDE DEF g
<1>2. Total(g, 1..Len(q)) \in Nat
  BY <1>1, TotalIsNat
<1> QED
  BY <1>2 DEF InPipe, g

\* SumOf, of the counts of children and of the reports in the pipe.
LEMMA SumIsTotal ==
  ASSUME NEW g, NEW S
  PROVE  SumOf(S, LAMBDA c : g[c]) = Total(g, S)
BY Zenon DEF SumOf, FoldSet, MapThenFoldSet, Total, AddsUp, Choice

LEMMA SumIsInPipe ==
  ASSUME NEW q \in Seq(Reports), NEW field \in {"speed", "failed"}
  PROVE  SumOf(1..Len(q), LAMBDA k : q[k][field]) = InPipe(q, field)
<1> DEFINE S == 1..Len(q)
           g == [k \in S |-> q[k][field]]
           Folds(f) == f = [s \in SUBSET S |->
                              IF s = {} THEN 0
                              ELSE q[Choice(s)][field] + f[s \ {Choice(s)}]]
<1>1. SumOf(S, LAMBDA k : q[k][field]) = (CHOOSE f : Folds(f))[S]
  BY Zenon DEF SumOf, FoldSet, MapThenFoldSet, Choice
<1>2. \A f : Folds(f) <=> AddsUp(f, g, S)
  <2>1. \A s \in SUBSET S : s # {} => g[Choice(s)] = q[Choice(s)][field]
    BY ChoiceIsIn
  <2>2. ASSUME NEW f
        PROVE  [s \in SUBSET S |-> IF s = {} THEN 0
                                   ELSE q[Choice(s)][field] + f[s \ {Choice(s)}]]
                = [s \in SUBSET S |-> IF s = {} THEN 0
                                      ELSE g[Choice(s)] + f[s \ {Choice(s)}]]
    BY <2>1
  <2> HIDE DEF g, S
  <2> QED
    BY <2>2 DEF AddsUp
<1> HIDE DEF Folds
<1>3. IsFiniteSet(S)
  BY PipeTypes
<1>4. PICK f : AddsUp(f, g, S) /\ Total(g, S) = f[S]
  BY <1>3, TotalAddsUp
<1>5. AddsUp(CHOOSE h : Folds(h), g, S)
  <2>1. Folds(CHOOSE h : Folds(h))
    BY <1>2, <1>4, Zenon
  <2> QED
    BY <1>2, <2>1, Zenon
<1>6. f[S] = (CHOOSE h : Folds(h))[S]
  <2> DEFINE h == CHOOSE h : Folds(h)
  <2>1. AddsUp(h, g, S) /\ S \in SUBSET S /\ \A x \in S : g[x] = g[x]
    BY <1>5
  <2> HIDE DEF h, g, S
  <2>2. \A T \in SUBSET S : f[T] = h[T]
    BY <1>3, <1>4, <2>1, SumsAgree
  <2> QED
    BY <2>1, <2>2, Zenon DEF h
<1> QED
  BY <1>1, <1>4, <1>6, Zenon DEF InPipe

-----------------------------------------------------------------------------
\* Every step keeps the invariant.

\* Clients that have exited and others are finitely many.
LEMMA ExitedTypes ==
  ASSUME ChildTypes
  PROVE  /\ IsFiniteSet(Exited) /\ IsFiniteSet(Clients \ Exited)
         /\ Cardinality(Clients \ Exited) \in Nat
<1>1. Exited \in SUBSET Clients /\ Clients \ Exited \in SUBSET Clients
  BY DEF Exited
<1> QED
  BY <1>1, ClientsAssumption, FS_Subset, FS_CardinalityType

\* A step of a child that is no report leaves the parent's sums alone.
LEMMA KeepsAll ==
  ASSUME IInv, NEW c \in Clients, Keeps(c)
  PROVE  IInv'
<1> USE DEF IInv, TypeOK
<1>1. Children'
  <2>1. ASSUME NEW d \in Clients PROVE OneSocket(d)' /\ Counted(d)'
    <3>1. CASE d = c
      BY <3>1 DEF Keeps
    <3>2. CASE d # c
      <4>1. /\ pc'[d] = pc[d] /\ speed'[d] = speed[d] /\ failed'[d] = failed[d]
            /\ sock'[d] = sock[d] /\ open'[d] = open[d]
            /\ attempts'[d] = attempts[d] /\ corrected'[d] = corrected[d]
            /\ keep_alive' = keep_alive
        BY <3>2 DEF Keeps, Untouched
      <4>2. OneSocket(d) /\ Counted(d)
        BY DEF Children
      <4> QED
        BY <4>1, <4>2 DEF OneSocket, Counted, InRequest
    <3> QED
      BY <3>1, <3>2
  <2> QED
    BY <2>1 DEF Children
<1>2. ParentTypes'
  BY DEF Keeps, ParentTypes
<1>3. \A d \in Clients : /\ pc[d] = "exited" <=> pc'[d] = "exited"
                         /\ pc[d] = "exited" => /\ speed'[d] = speed[d]
                                                /\ failed'[d] = failed[d]
  BY DEF Keeps, Untouched
<1>4. Exited' = Exited
  BY <1>3 DEF Exited
<1>5. /\ Total(speed', Exited) = Total(speed, Exited)
      /\ Total(failed', Exited) = Total(failed, Exited)
  <2>1. \A d \in Exited : speed'[d] = speed[d] /\ failed'[d] = failed[d]
    BY <1>3 DEF Exited
  <2> QED
    BY <2>1, ExitedTypes, TotalOfTheSame
<1>6. UNCHANGED <<totals, waiting, mypipe>> /\ ChildTypes'
  BY DEF Keeps
<1>7. Sums'
  BY <1>4, <1>5, <1>6 DEF Sums
<1>8. Awaited'
  BY <1>4, <1>6 DEF Awaited
<1> QED
  BY <1>1, <1>2, <1>6, <1>7, <1>8

\* A child that cannot report takes nothing there.
LEMMA ReportFailsKeeps ==
  ASSUME ChildTypes, NEW c \in Clients, OneSocket(c), Counted(c), ReportFails(c)
  PROVE  Keeps(c)
<1> USE SocketTypes DEF ReportFails, Moves, parentVars, options
<1>1. UNCHANGED <<keep_alive, force, http10, totals, waiting, mypipe, parent>>
  OBVIOUS
<1>2. ChildTypes'
  BY <1>1 DEF ChildTypes, Places
<1>3. Untouched(c)
  BY DEF Untouched, ChildTypes
<1>4. OneSocket(c)' /\ Counted(c)'
  BY DEF OneSocket, Counted, InRequest, ChildTypes
<1>5. pc[c] # "exited" /\ pc'[c] # "exited"
  BY DEF ChildTypes
<1> QED
  BY <1>1, <1>2, <1>3, <1>4, <1>5 DEF Keeps

\* A report takes the counts of its child to the pipe.
LEMMA ReportKeeps ==
  ASSUME IInv, NEW c \in Clients, Report(c)
  PROVE  IInv'
<1> USE DEF IInv, TypeOK
<1> DEFINE r == [speed |-> speed[c], failed |-> failed[c]]
<1>1. /\ UNCHANGED <<keep_alive, force, http10, totals, waiting, parent>>
      /\ UNCHANGED <<timerexpired, armed, speed, failed, attempts, refusals>>
      /\ UNCHANGED corrected
      /\ pc[c] = "report" /\ pc' = [pc EXCEPT ![c] = "exited"]
      /\ mypipe' = Append(mypipe, r)
      /\ sock' = [sock EXCEPT ![c] = NoSocket]
      /\ open' = [open EXCEPT ![c] = 0]
  BY DEF Report, Moves, options, parentVars
<1>2. r \in Reports /\ r["speed"] = speed[c] /\ r["failed"] = failed[c]
  BY DEF ChildTypes, Reports
<1>3. mypipe \in Seq(Reports) /\ mypipe' \in Seq(Reports)
      /\ Len(mypipe') = Len(mypipe) + 1 /\ Len(mypipe) \in Nat
  <2>1. mypipe \in Seq(Reports)
    BY DEF ParentTypes
  <2> HIDE DEF r
  <2>2. /\ Append(mypipe, r) \in Seq(Reports)
        /\ Len(Append(mypipe, r)) = Len(mypipe) + 1
    BY <1>2, <2>1, AppendProperties
  <2>3. Len(mypipe) \in Nat
    BY <2>1, LenProperties
  <2> QED
    BY <1>1, <2>1, <2>2, <2>3
<1>4. /\ InPipe(mypipe', "speed") = speed[c] + InPipe(mypipe, "speed")
      /\ InPipe(mypipe', "failed") = failed[c] + InPipe(mypipe, "failed")
  <2> HIDE DEF r
  <2> QED
    BY <1>1, <1>2, <1>3, PipeAppend
<1>5. ChildTypes' /\ ParentTypes'
  BY <1>1, <1>3, SocketTypes DEF ChildTypes, ParentTypes, Places
<1>6. Children'
  <2>1. ASSUME NEW d \in Clients PROVE OneSocket(d)' /\ Counted(d)'
    <3>0. OneSocket(d) /\ Counted(d)
      BY DEF Children
    <3>1. CASE d = c
      BY <1>1, <3>0, <3>1 DEF OneSocket, Counted, InRequest, ChildTypes
    <3>2. CASE d # c
      BY <1>1, <3>0, <3>2 DEF OneSocket, Counted, InRequest, ChildTypes
    <3> QED
      BY <3>1, <3>2
  <2> QED
    BY <2>1 DEF Children
<1>7. Exited' = Exited \union {c} /\ c \notin Exited
  BY <1>1 DEF Exited, ChildTypes
<1>8. /\ Total(speed, Exited \union {c}) = speed[c] + Total(speed, Exited)
      /\ Total(failed, Exited \union {c}) = failed[c] + Total(failed, Exited)
  <2>1. \A d \in Exited \union {c} : speed[d] \in Nat /\ failed[d] \in Nat
    BY DEF ChildTypes, Exited
  <2> QED
    BY <1>7, <2>1, ExitedTypes, TotalWithOneMore
<1>9. Sums'
  <2>1. /\ totals.speed \in Nat /\ totals.failed \in Nat
        /\ speed[c] \in Nat /\ failed[c] \in Nat
    BY DEF ParentTypes, ChildTypes, Reports
  <2>2. /\ InPipe(mypipe, "speed") \in Nat /\ InPipe(mypipe, "failed") \in Nat
    BY <1>3, InPipeIsNat
  <2> DEFINE a == InPipe(mypipe, "speed")
             b == InPipe(mypipe, "failed")
             x == Total(speed, Exited)
             y == Total(failed, Exited)
  <2>3. totals.speed + a = x /\ totals.failed + b = y
    BY DEF Sums
  <2>4. a \in Nat /\ b \in Nat
    BY <2>2
  <2> HIDE DEF a, b, x, y
  <2>5. /\ totals.speed + (speed[c] + a) = speed[c] + x
        /\ totals.failed + (failed[c] + b) = failed[c] + y
    BY <2>1, <2>3, <2>4
  <2> QED
    BY <1>1, <1>4, <1>7, <1>8, <2>5 DEF Sums, a, b, x, y
<1>10. Awaited'
  <2>1. Clients \ Exited' = (Clients \ Exited) \ {c} /\ c \in Clients \ Exited
    BY <1>7
  <2>2. Cardinality((Clients \ Exited) \ {c}) = Cardinality(Clients \ Exited) - 1
    BY <2>1, ExitedTypes, FS_RemoveElement
  <2>3. Cardinality(Clients \ Exited') = Cardinality(Clients \ Exited) - 1
    BY <2>1, <2>2, Zenon
  <2> QED
    BY <1>1, <1>3, <2>3, ExitedTypes DEF Awaited
<1> QED
  BY <1>5, <1>6, <1>9, <1>10

\* The parent adds the first report.
LEMMA GatherKeeps ==
  ASSUME IInv, Gather
  PROVE  IInv'
<1> USE DEF IInv, TypeOK
<1>1. /\ mypipe # <<>> /\ mypipe' = Tail(mypipe) /\ waiting' = waiting - 1
      /\ totals' = [speed |-> totals.speed + Head(mypipe).speed,
                    failed |-> totals.failed + Head(mypipe).failed]
      /\ parent' \in {"printed", "gather"}
      /\ UNCHANGED <<options, childVars>>
  BY DEF Gather
<1>2. /\ mypipe \in Seq(Reports) /\ Head(mypipe) \in Reports
      /\ mypipe' \in Seq(Reports) /\ Len(mypipe') = Len(mypipe) - 1
      /\ Len(mypipe) \in Nat /\ Len(mypipe') \in Nat
  <2>1. mypipe \in Seq(Reports)
    BY DEF ParentTypes
  <2>2. /\ Head(mypipe) \in Reports /\ Tail(mypipe) \in Seq(Reports)
        /\ Len(Tail(mypipe)) = Len(mypipe) - 1
    BY <1>1, <2>1, HeadTailProperties
  <2> QED
    BY <1>1, <2>1, <2>2, LenProperties
<1>3. UNCHANGED childVars /\ UNCHANGED <<keep_alive, force, http10>>
  BY <1>1 DEF options
<1>4. ChildTypes' /\ Children' /\ Exited' = Exited
  BY <1>3 DEF childVars, ChildTypes, Children, OneSocket, Counted, InRequest, Exited
<1>5. Awaited'
  <2> DEFINE n == Cardinality(Clients \ Exited)
  <2>1. n \in Nat /\ waiting = Len(mypipe) + n /\ Cardinality(Clients \ Exited') = n
    BY <1>4, ExitedTypes, Zenon DEF Awaited
  <2> HIDE DEF n
  <2>2. waiting' = Len(mypipe') + n
    BY <1>1, <1>2, <2>1
  <2> QED
    BY <2>1, <2>2 DEF Awaited
<1>6. ParentTypes'
  <2>1. waiting' \in Nat
    BY <1>2, <1>4, <1>5, ExitedTypes DEF Awaited
  <2>2. totals' \in Reports
    <3>1. /\ totals.speed \in Nat /\ totals.failed \in Nat
          /\ Head(mypipe).speed \in Nat /\ Head(mypipe).failed \in Nat
      BY <1>2 DEF ParentTypes, Reports
    <3>2. /\ totals.speed + Head(mypipe).speed \in Nat
          /\ totals.failed + Head(mypipe).failed \in Nat
      BY <3>1
    <3> QED
      BY <1>1, <3>2 DEF Reports
  <2> QED
    BY <1>1, <1>2, <2>1, <2>2 DEF ParentTypes
<1>7. /\ InPipe(mypipe, "speed") = Head(mypipe).speed + InPipe(mypipe', "speed")
      /\ InPipe(mypipe, "failed") = Head(mypipe).failed + InPipe(mypipe', "failed")
  <2>1. /\ InPipe(mypipe, "speed") = Head(mypipe)["speed"] + InPipe(Tail(mypipe), "speed")
        /\ InPipe(mypipe, "failed") = Head(mypipe)["failed"] + InPipe(Tail(mypipe), "failed")
    BY <1>1, <1>2, PipeTail
  <2> QED
    BY <1>1, <2>1, Zenon
<1>8. Sums'
  <2>1. /\ totals.speed \in Nat /\ totals.failed \in Nat
        /\ Head(mypipe).speed \in Nat /\ Head(mypipe).failed \in Nat
    BY <1>2 DEF ParentTypes, Reports
  <2>2. /\ InPipe(mypipe', "speed") \in Nat /\ InPipe(mypipe', "failed") \in Nat
    BY <1>2, InPipeIsNat
  <2>3. /\ totals'.speed = totals.speed + Head(mypipe).speed
        /\ totals'.failed = totals.failed + Head(mypipe).failed
    BY <1>1
  <2> DEFINE a == InPipe(mypipe', "speed")
             b == InPipe(mypipe', "failed")
  <2>4. /\ totals.speed + (Head(mypipe).speed + a) = Total(speed, Exited)
        /\ totals.failed + (Head(mypipe).failed + b) = Total(failed, Exited)
    BY <1>7, Zenon DEF Sums
  <2>5. a \in Nat /\ b \in Nat
    BY <2>2
  <2> HIDE DEF a, b
  <2>6. /\ totals'.speed + a = Total(speed, Exited)
        /\ totals'.failed + b = Total(failed, Exited)
    BY <2>1, <2>3, <2>4, <2>5
  <2>7. speed' = speed /\ failed' = failed
    BY <1>3 DEF childVars
  <2> QED
    BY <1>4, <2>6, <2>7, Zenon DEF Sums, a, b
<1> QED
  BY <1>4, <1>5, <1>6, <1>8

\* The steps of the parent that leave the pipe alone.
LEMMA CheckKeeps ==
  ASSUME IInv, Check
  PROVE  IInv'
<1>1. UNCHANGED <<keep_alive, force, http10, totals, waiting, mypipe, childVars>>
  BY DEF Check, options
<1>2. parent' \in {"fork", "returned 1", "returned 3"}
  BY DEF Check
<1>3. ChildTypes' /\ Children' /\ Exited' = Exited
  BY <1>1 DEF IInv, TypeOK, childVars, ChildTypes, Children, OneSocket, Counted,
              InRequest, Exited
<1>4. ParentTypes'
  BY <1>1, <1>2 DEF IInv, TypeOK, ParentTypes
<1>5. speed' = speed /\ failed' = failed
  BY <1>1 DEF childVars
<1>6. Sums' /\ Awaited'
  BY <1>1, <1>3, <1>5 DEF IInv, Sums, Awaited
<1> QED
  BY <1>3, <1>4, <1>6 DEF IInv, TypeOK

\* A fork makes an unborn child born, or fails.
LEMMA ForkKeeps ==
  ASSUME IInv, Fork
  PROVE  IInv'
<1> USE DEF IInv, TypeOK
<1>1. /\ UNCHANGED <<keep_alive, force, http10, totals, waiting, mypipe>>
      /\ UNCHANGED <<timerexpired, armed, speed, failed, sock, open, attempts>>
      /\ UNCHANGED <<refusals, corrected>>
      /\ parent' \in {"fork", "gather", "returned 3"}
  BY DEF Fork, options
<1>2. \/ pc' = pc
      \/ \E c \in Clients : pc[c] = "unborn" /\ pc' = [pc EXCEPT ![c] = "born"]
  BY DEF Fork
<1>3. /\ pc' \in [Clients -> Places]
      /\ \A d \in Clients : \/ pc'[d] = pc[d]
                            \/ pc[d] = "unborn" /\ pc'[d] = "born"
  <2>1. pc \in [Clients -> Places]
    BY DEF ChildTypes
  <2>2. CASE pc' = pc
    BY <2>1, <2>2
  <2>3. CASE \E c \in Clients : pc[c] = "unborn" /\ pc' = [pc EXCEPT ![c] = "born"]
    <3>1. PICK c \in Clients : pc[c] = "unborn" /\ pc' = [pc EXCEPT ![c] = "born"]
      BY <2>3
    <3> QED
      BY <2>1, <3>1 DEF Places
  <2> QED
    BY <1>2, <2>2, <2>3
<1>4. ChildTypes' /\ ParentTypes'
  BY <1>1, <1>3 DEF ChildTypes, ParentTypes
<1>5. Children'
  <2>1. ASSUME NEW d \in Clients PROVE OneSocket(d)' /\ Counted(d)'
    <3>1. OneSocket(d) /\ Counted(d)
      BY DEF Children
    <3>2. /\ speed[d] \in Nat /\ failed[d] \in Nat /\ attempts[d] \in Nat
      BY DEF ChildTypes
    <3>3. CASE pc'[d] = pc[d]
      BY <1>1, <3>1, <3>3 DEF OneSocket, Counted, InRequest
    <3>4. CASE pc[d] = "unborn" /\ pc'[d] = "born"
      BY <1>1, <3>1, <3>2, <3>4 DEF OneSocket, Counted, InRequest
    <3> QED
      BY <1>3, <3>3, <3>4
  <2> QED
    BY <2>1 DEF Children
<1>6. Exited' = Exited
  BY <1>3 DEF Exited
<1>7. Sums' /\ Awaited'
  BY <1>1, <1>6 DEF Sums, Awaited
<1> QED
  BY <1>4, <1>5, <1>7

-----------------------------------------------------------------------------
\* The invariant holds, and what follows from it.

\* Nothing is open, counted or reported at the start.
LEMMA InitIsSound == Init => IInv
<1>1. HAVE Init
<1>2. TypeOK
  <2>1. Cardinality(Clients) \in Nat
    BY ClientsAssumption, FS_CardinalityType
  <2>2. mypipe \in Seq(Reports)
    BY <1>1, EmptySeq DEF Init
  <2>3. ParentTypes
    BY <1>1, <2>1, <2>2 DEF Init, ParentTypes, Reports
  <2>4. ChildTypes
    BY <1>1, SocketTypes DEF Init, ChildTypes, Places
  <2> QED
    BY <2>3, <2>4 DEF TypeOK
<1>3. Children
  BY <1>1 DEF Init, Children, OneSocket, Counted, InRequest
<1>4. Exited = {} /\ mypipe = <<>> /\ totals.speed = 0 /\ totals.failed = 0
  BY <1>1 DEF Init, Exited
<1>5. \A field : InPipe(mypipe, field) = 0
  <2>1. 1..Len(mypipe) = {}
    BY <1>4
  <2> QED
    BY <2>1, TotalOfNone, Zenon DEF InPipe
<1>6. Sums
  <2>1. Total(speed, Exited) = 0 /\ Total(failed, Exited) = 0
    BY <1>4, TotalOfNone, Zenon
  <2> QED
    BY <1>4, <1>5, <2>1 DEF Sums
<1>7. Awaited
  <2> DEFINE n == Cardinality(Clients)
  <2>1. waiting = n /\ Len(mypipe) = 0 /\ n \in Nat
    BY <1>1, <1>4, ClientsAssumption, FS_CardinalityType DEF Init
  <2>2. Cardinality(Clients \ Exited) = n
    <3>1. Clients \ Exited = Clients
      BY <1>4
    <3> QED
      BY <3>1, Zenon
  <2> HIDE DEF n
  <2>3. waiting = Len(mypipe) + n
    BY <2>1
  <2> QED
    BY <2>2, <2>3 DEF Awaited
<1> QED
  BY <1>2, <1>3, <1>6, <1>7 DEF IInv

\* A stutter keeps what the variables say.
LEMMA StutterKeeps == IInv /\ UNCHANGED vars => IInv'
<1> SUFFICES ASSUME IInv, UNCHANGED vars PROVE IInv'
  OBVIOUS
<1>1. UNCHANGED <<keep_alive, force, http10, parent, totals, waiting, mypipe, childVars>>
  BY DEF vars, options, parentVars
<1>2. ChildTypes' /\ ParentTypes' /\ Children' /\ Exited' = Exited
  BY <1>1 DEF IInv, TypeOK, childVars, ChildTypes, ParentTypes, Children, OneSocket,
              Counted, InRequest, Exited
<1>3. speed' = speed /\ failed' = failed
  BY <1>1 DEF childVars
<1>4. Sums' /\ Awaited'
  BY <1>1, <1>2, <1>3 DEF IInv, Sums, Awaited
<1> QED
  BY <1>2, <1>4 DEF IInv, TypeOK

\* The invariant is inductive.
LEMMA StepIsSound == IInv /\ [Next]_vars => IInv'
<1> SUFFICES ASSUME IInv, [Next]_vars PROVE IInv'
  OBVIOUS
<1>1. CASE Check
  BY <1>1, CheckKeeps
<1>2. CASE Fork
  BY <1>2, ForkKeeps
<1>3. CASE Gather
  BY <1>3, GatherKeeps
<1>4. ASSUME NEW c \in Clients,
             \/ ChildStep(c) \/ SetupFails(c) \/ ReportFails(c)
             \/ Alarm(c) \/ Connected(c) \/ Refused(c)
             \/ Serve(c) \/ ServerResets(c)
      PROVE  IInv'
  <2>1. ChildTypes /\ OneSocket(c) /\ Counted(c)
    BY DEF IInv, TypeOK, Children
  <2>2. CASE Report(c)
    BY <2>2, ReportKeeps
  <2>3. CASE \/ Setup(c) \/ TimeIsUp(c) \/ Attempt(c) \/ Connect(c)
             \/ Write(c) \/ Shutdown(c) \/ Test(c) \/ EnterRead(c) \/ Read(c)
             \/ Done(c)
    <3>1. Keeps(c)
      BY <2>1, <2>3, SetupKeeps, TimeIsUpKeeps, AttemptKeeps, ConnectKeeps, WriteKeeps,
         ShutdownKeeps, TestKeeps, EnterReadKeeps, ReadKeeps, DoneKeeps
    <3> QED
      BY <3>1, KeepsAll
  <2>4. CASE \/ SetupFails(c) \/ ReportFails(c) \/ Alarm(c) \/ Connected(c)
             \/ Refused(c) \/ Serve(c) \/ ServerResets(c)
    <3>1. Keeps(c)
      BY <2>1, <2>4, SetupFailsKeeps, ReportFailsKeeps, AlarmKeeps, ConnectedKeeps,
         RefusedKeeps, ServeKeeps, ServerResetsKeeps
    <3> QED
      BY <3>1, KeepsAll
  <2> QED
    BY <1>4, <2>2, <2>3, <2>4 DEF ChildStep
<1>5. CASE UNCHANGED vars
  BY <1>5, StutterKeeps
<1> QED
  BY <1>1, <1>2, <1>3, <1>4, <1>5 DEF Next

\* The inductive invariant holds of every benchmark.
THEOREM Invariance == Spec => []IInv
<1>1. Init => IInv
  BY InitIsSound
<1>2. IInv /\ [Next]_vars => IInv'
  BY StepIsSound
<1> QED
  BY <1>1, <1>2, PTL DEF Spec

\* Every variable of the parent and of its children keeps its type: no counter
\* of a child goes below zero (the failure that is taken back was counted, and
\* a socket that is closed was open), and the parent does not count reports
\* beyond those it waits for.
THEOREM TypeCorrect == Spec => []TypeOK
<1>1. IInv => TypeOK
  BY DEF IInv
<1> QED
  BY <1>1, Invariance, PTL

\* For any number of children, any order of alarms, resets and refusals: each
\* child counts every request it began once, as a success or a failure, but
\* for the failure it takes back at the end, and never loses a socket; and the
\* totals with the reports in the pipe are the counts of the children that
\* are done.
THEOREM AttemptsAreCounted == Spec => []EveryAttemptIsCounted
<1>1. ASSUME IInv PROVE EveryAttemptIsCounted
  <2>1. ASSUME NEW c \in Clients
        PROVE  /\ open[c] = IF sock[c] = NoSocket THEN 0 ELSE 1
               /\ pc[c] = "top" \/ (pc[c] \in {"connect", "connecting"} /\ keep_alive) =>
                    speed[c] + failed[c] = attempts[c]
               /\ pc[c] = "top" /\ ~keep_alive => open[c] = 0
               /\ pc[c] \in {"report", "exited"} =>
                    speed[c] + failed[c] + (IF corrected[c] THEN 1 ELSE 0) = attempts[c]
    <3>1. OneSocket(c) /\ Counted(c)
      BY <1>1 DEF IInv, Children
    <3> QED
      BY <3>1 DEF OneSocket, Counted
  <2>2. mypipe \in Seq(Reports)
    BY <1>1 DEF IInv, TypeOK, ParentTypes
  <2>3. /\ SumOf(1..Len(mypipe), LAMBDA i : mypipe[i]["speed"]) = InPipe(mypipe, "speed")
        /\ SumOf(1..Len(mypipe), LAMBDA i : mypipe[i]["failed"]) = InPipe(mypipe, "failed")
    BY <2>2, SumIsInPipe
  <2>4. /\ SumOf(Exited, LAMBDA c : speed[c]) = Total(speed, Exited)
        /\ SumOf(Exited, LAMBDA c : failed[c]) = Total(failed, Exited)
    BY SumIsTotal
  <2>5. /\ totals.speed + SumOf(1..Len(mypipe), LAMBDA i : mypipe[i]["speed"])
             = SumOf(Exited, LAMBDA c : speed[c])
        /\ totals.failed + SumOf(1..Len(mypipe), LAMBDA i : mypipe[i]["failed"])
             = SumOf(Exited, LAMBDA c : failed[c])
    BY <1>1, <2>3, <2>4, Zenon DEF IInv, Sums
  <2> QED
    BY <2>1, <2>5, Zenon DEF EveryAttemptIsCounted, Exited
<1> QED
  BY <1>1, Invariance, PTL

\* What fscanf relies on, with both ends of the pipe open and no end of file to
\* stop it: the parent waits for a report from each child that has not written
\* one and for those in the pipe, and when it prints, every child is done and
\* its totals are all the children counted.
AllReported ==
  /\ waiting = Len(mypipe) + Cardinality(Clients \ Exited)
  /\ waiting = 0 => /\ Exited = Clients /\ mypipe = <<>>
                    /\ totals.speed = SumOf(Clients, LAMBDA c : speed[c])
                    /\ totals.failed = SumOf(Clients, LAMBDA c : failed[c])

THEOREM NoReportIsMissed == Spec => []AllReported
<1>1. ASSUME IInv PROVE AllReported
  <2>1. mypipe \in Seq(Reports) /\ Len(mypipe) \in Nat
    BY <1>1, LenProperties DEF IInv, TypeOK, ParentTypes
  <2>2. IsFiniteSet(Clients \ Exited) /\ Cardinality(Clients \ Exited) \in Nat
    BY <1>1, ExitedTypes DEF IInv, TypeOK
  <2>3. waiting = Len(mypipe) + Cardinality(Clients \ Exited)
    BY <1>1 DEF IInv, Awaited
  <2>4. ASSUME waiting = 0
        PROVE  /\ Exited = Clients /\ mypipe = <<>>
               /\ totals.speed = SumOf(Clients, LAMBDA c : speed[c])
               /\ totals.failed = SumOf(Clients, LAMBDA c : failed[c])
    <3>1. Len(mypipe) = 0 /\ Cardinality(Clients \ Exited) = 0
      <4> DEFINE n == Cardinality(Clients \ Exited)
      <4>1. n \in Nat /\ waiting = Len(mypipe) + n
        BY <2>2, <2>3
      <4> HIDE DEF n
      <4>2. Len(mypipe) = 0 /\ n = 0
        BY <2>1, <2>4, <4>1
      <4> QED
        BY <4>2 DEF n
    <3>2. Clients \ Exited = {}
      BY <2>2, <3>1, FS_EmptySet
    <3>3. Exited = Clients
      BY <3>2 DEF Exited
    <3>4. mypipe = <<>>
      BY <2>1, <3>1, EmptySeq
    <3>5. InPipe(mypipe, "speed") = 0 /\ InPipe(mypipe, "failed") = 0
      <4>1. 1..Len(mypipe) = {}
        BY <3>1
      <4> QED
        BY <4>1, TotalOfNone, Zenon DEF InPipe
    <3>6. totals.speed \in Nat /\ totals.failed \in Nat
      BY <1>1 DEF IInv, TypeOK, ParentTypes, Reports
    <3>7. totals.speed = Total(speed, Clients) /\ totals.failed = Total(failed, Clients)
      BY <1>1, <3>3, <3>5, <3>6 DEF IInv, Sums
    <3>8. /\ SumOf(Clients, LAMBDA c : speed[c]) = Total(speed, Clients)
          /\ SumOf(Clients, LAMBDA c : failed[c]) = Total(failed, Clients)
      BY SumIsTotal
    <3> QED
      BY <3>3, <3>4, <3>7, <3>8, Zenon
  <2> QED
    BY <2>3, <2>4, Zenon DEF AllReported
<1> QED
  BY <1>1, Invariance, PTL
=============================================================================
