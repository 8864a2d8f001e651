-------------------------- MODULE HttpParserProofs --------------------------
(***************************************************************************)
(* Proofs about HttpParser, for any requests HTTP allows, however the      *)
(* stream is cut into reads and however much is pipelined: the types; and, *)
(* as long as every request that was sent is Clear (a hypothesis of the    *)
(* properties themselves: what the code makes of another request is not    *)
(* what it asks for), that the answer is the one that was asked for, that  *)
(* what has arrived is decided, and that a client which waits for its      *)
(* answers is understood.                                                  *)
(*                                                                         *)
(* The parser forgets what it has read, so the invariant keeps it: T is    *)
(* everything that was sent, the buffer and the wire follow its first b    *)
(* symbols, and the state says in which part of which request b lies       *)
(* (PlaceInv).  What a pass makes of the buffer is then read off T.        *)
(***************************************************************************)
EXTENDS HttpParser, SequenceTheorems, WellFoundedInduction, TLAPS

-----------------------------------------------------------------------------
\* Induction over the natural numbers, through sets of them.

\* A set of numbers has a least one.
LEMMA Least ==
  ASSUME NEW T \in SUBSET Nat, T # {}
  PROVE  \E m \in T : \A n \in T : m <= n
<1>1. PICK m \in T : \A n \in T : ~(<<n, m>> \in OpToRel(<, Nat))
  BY NatLessThanWellFounded, WFMin, Zenon
<1>2. \A n \in T : ~(n < m)
  BY <1>1 DEF OpToRel
<1> QED
  BY <1>2

\* Induction, over the numbers of which a formula holds.
LEMMA Induction ==
  ASSUME NEW G \in SUBSET Nat, 0 \in G, \A n \in G : n + 1 \in G
  PROVE  \A n \in Nat : n \in G
<1> SUFFICES ASSUME Nat \ G # {} PROVE FALSE
  OBVIOUS
<1>1. PICK m \in Nat \ G : \A n \in Nat \ G : m <= n
  BY Least
<1>2. m - 1 \in Nat /\ m - 1 \in G
  BY <1>1
<1> QED
  BY <1>1, <1>2

-----------------------------------------------------------------------------
\* FlattenSeq, which the lines of the headers are put together with.

\* A function that is defined by FlattenSeq's recursion.
Flattens(f, s, n) ==
  f = [k \in 1..n |-> IF k = 1 THEN s[k] ELSE f[k - 1] \o s[k]]

\* The recursion defines a function.
LEMMA FlattensExists ==
  ASSUME NEW s, NEW n \in Nat
  PROVE  \E f : Flattens(f, s, n)
<1> DEFINE G == {m \in Nat : \E f : Flattens(f, s, m)}
<1>1. 0 \in G
  <2>1. Flattens([k \in 1..0 |-> s], s, 0)
    BY DEF Flattens
  <2> QED
    BY <2>1
<1>2. ASSUME NEW m \in G PROVE m + 1 \in G
  <2>1. PICK f : Flattens(f, s, m)
    OBVIOUS
  <2> DEFINE g == [k \in 1..(m + 1) |-> IF k = 1 THEN s[k] ELSE f[k - 1] \o s[k]]
  <2>2. \A k \in 1..m : g[k] = f[k]
    <3>1. TAKE k \in 1..m
    <3>2. f[k] = IF k = 1 THEN s[k] ELSE f[k - 1] \o s[k]
      BY <2>1, Zenon DEF Flattens
    <3>3. k \in 1..(m + 1)
      OBVIOUS
    <3> QED
      BY <3>2, <3>3
  <2>3. \A k \in 1..(m + 1) : k # 1 => g[k - 1] = f[k - 1]
    <3>1. TAKE k \in 1..(m + 1)
    <3>2. k # 1 => k - 1 \in 1..m
      OBVIOUS
    <3> QED
      BY <2>2, <3>2, Zenon
  <2>4. g = [k \in 1..(m + 1) |-> IF k = 1 THEN s[k] ELSE g[k - 1] \o s[k]]
    BY <2>3
  <2>5. Flattens(g, s, m + 1)
    BY <2>4 DEF Flattens
  <2> QED
    BY <2>5
<1> HIDE DEF G
<1>3. \A m \in Nat : m \in G
  BY <1>1, <1>2, Induction DEF G
<1> QED
  BY <1>3 DEF G

Partial(s) == CHOOSE f : Flattens(f, s, Len(s))

\* FlattenSeq by the function it is defined with, place by place.
LEMMA FlattenIs ==
  ASSUME NEW S, NEW s \in Seq(Seq(S))
  PROVE  /\ Len(s) # 0 => /\ FlattenSeq(s) = Partial(s)[Len(s)]
                          /\ Partial(s)[1] = s[1]
         /\ \A k \in 1..Len(s) :
              k + 1 <= Len(s) => Partial(s)[k + 1] = Partial(s)[k] \o s[k + 1]
         /\ \A k \in 1..Len(s) : Partial(s)[k] \in Seq(S)
<1> DEFINE n == Len(s)
           f == Partial(s)
<1>0. n \in Nat /\ \A k \in 1..n : s[k] \in Seq(S)
  BY LenProperties, ElementOfSeq
<1>1. Flattens(f, s, n)
  <2>1. \E g : Flattens(g, s, n)
    BY <1>0, FlattensExists
  <2> QED
    BY <2>1, Zenon DEF Partial
<1>2. n # 0 => FlattenSeq(s) = f[n]
  BY Zenon DEF FlattenSeq, Partial, Flattens
<1> HIDE DEF n, f
<1>3. \A k \in 1..n : f[k] = IF k = 1 THEN s[k] ELSE f[k - 1] \o s[k]
  BY <1>1, Zenon DEF Flattens
<1>4. n # 0 => f[1] = s[1]
  BY <1>0, <1>3
<1>5. ASSUME NEW k \in 1..n, k + 1 <= n
      PROVE  f[k + 1] = f[k] \o s[k + 1]
  <2>1. k + 1 \in 1..n /\ k + 1 # 1 /\ (k + 1) - 1 = k
    BY <1>0, <1>5
  <2>2. f[k + 1] = f[(k + 1) - 1] \o s[k + 1]
    BY <1>3, <2>1, Zenon
  <2> QED
    BY <2>1, <2>2, Zenon
<1>6. \A k \in 1..n : f[k] \in Seq(S)
  <2> DEFINE G == {m \in Nat : 1 <= m /\ m <= n => f[m] \in Seq(S)}
  <2>1. 0 \in G
    OBVIOUS
  <2>2. ASSUME NEW m \in G PROVE m + 1 \in G
    <3>1. CASE m = 0
      BY <1>0, <1>4, <3>1
    <3>2. CASE m # 0 /\ m + 1 <= n
      <4>1. m \in 1..n /\ f[m] \in Seq(S) /\ s[m + 1] \in Seq(S)
        BY <1>0, <3>2
      <4>2. f[m] \o s[m + 1] \in Seq(S)
        BY <4>1, ConcatProperties
      <4>3. f[m + 1] = f[m] \o s[m + 1]
        BY <1>5, <3>2, <4>1
      <4>4. f[m + 1] \in Seq(S)
        BY <4>2, <4>3, Zenon
      <4> QED
        BY <4>4
    <3>3. CASE ~(m + 1 <= n)
      BY <3>3
    <3> QED
      BY <3>1, <3>2, <3>3
  <2> HIDE DEF G
  <2>3. \A m \in Nat : m \in G
    BY <2>1, <2>2, Induction DEF G
  <2> QED
    BY <1>0, <2>3 DEF G
<1> QED
  BY <1>2, <1>4, <1>5, <1>6, Zenon DEF n, f

\* How long the first j of the sequences are together.
Upto(s, j) == IF j = 0 THEN 0 ELSE Len(Partial(s)[j])

\* Where the parts of a flattened sequence are.
LEMMA FlattenPlaces ==
  ASSUME NEW S, NEW s \in Seq(Seq(S))
  PROVE  /\ FlattenSeq(s) \in Seq(S) /\ Len(FlattenSeq(s)) = Upto(s, Len(s))
         /\ Upto(s, 0) = 0 /\ \A j \in 0..Len(s) : Upto(s, j) \in Nat
         /\ \A j \in 1..Len(s) : Upto(s, j) = Upto(s, j - 1) + Len(s[j])
         /\ \A j \in 0..Len(s) : Upto(s, j) <= Upto(s, Len(s))
         /\ \A j \in 1..Len(s) : \A i \in 1..Len(s[j]) :
              FlattenSeq(s)[Upto(s, j - 1) + i] = s[j][i]
<1> DEFINE n == Len(s)
           P == Partial(s)
           U == [j \in 0..n |-> Upto(s, j)]
<1>0. n \in Nat /\ \A k \in 1..n : s[k] \in Seq(S) /\ Len(s[k]) \in Nat
  BY LenProperties, ElementOfSeq
<1>1. /\ n # 0 => FlattenSeq(s) = P[n] /\ P[1] = s[1]
      /\ \A k \in 1..n : k + 1 <= n => P[k + 1] = P[k] \o s[k + 1]
      /\ \A k \in 1..n : P[k] \in Seq(S)
  BY FlattenIs, Zenon
<1>2. n = 0 => FlattenSeq(s) = <<>>
  <2>1. n = 0 => FlattenSeq(s) = s /\ s = <<>>
    BY EmptySeq DEF FlattenSeq
  <2> QED
    BY <2>1
<1>3. U[0] = 0 /\ \A j \in 1..n : U[j] = Len(P[j])
  BY <1>0 DEF Upto
<1>12. \A j \in 0..n : U[j] = Upto(s, j)
  OBVIOUS
<1> HIDE DEF n, P, U
<1>4. \A j \in 0..n : U[j] \in Nat
  BY <1>0, <1>1, <1>3, LenProperties
<1>5. ASSUME NEW j \in 1..n PROVE U[j] = U[j - 1] + Len(s[j])
  <2>1. CASE j = 1
    BY <1>0, <1>1, <1>3, <2>1
  <2>2. CASE j # 1
    <3>1. /\ j - 1 \in 1..n /\ (j - 1) + 1 = j /\ j <= n
      BY <1>0, <2>2
    <3>2. P[j] = P[j - 1] \o s[j] /\ P[j - 1] \in Seq(S) /\ s[j] \in Seq(S)
      BY <1>0, <1>1, <3>1
    <3>3. Len(P[j]) = Len(P[j - 1]) + Len(s[j])
      BY <3>2, ConcatProperties
    <3> QED
      BY <1>3, <3>1, <3>3
  <2> QED
    BY <2>1, <2>2
<1> DEFINE Good(k) ==
             /\ \A j \in 0..k : U[j] <= U[k]
             /\ \A j \in 1..k : \A i \in 1..Len(s[j]) : P[k][U[j - 1] + i] = s[j][i]
           G == {k \in Nat : 1 <= k /\ k <= n => Good(k)}
<1> HIDE DEF Good, G
<1>6. ASSUME 1 <= n PROVE Good(1)
  <2>1. P[1] = s[1] /\ U[0] = 0 /\ U[1] \in Nat
    BY <1>0, <1>1, <1>3, <1>4, <1>6
  <2>2. ASSUME NEW j \in 1..1, NEW i \in 1..Len(s[j])
        PROVE  P[1][U[j - 1] + i] = s[j][i]
    <3>1. j = 1 /\ j - 1 = 0 /\ i \in Int
      OBVIOUS
    <3>2. U[j - 1] + i = i
      BY <2>1, <3>1
    <3> QED
      BY <2>1, <3>1, <3>2
  <2>3. \A j \in 0..1 : U[j] <= U[1]
    BY <2>1
  <2> QED
    BY <2>2, <2>3 DEF Good
<1>7. ASSUME NEW k \in 1..n, k + 1 \in 1..n, Good(k)
      PROVE  Good(k + 1)
  <2>1. /\ P[k + 1] = P[k] \o s[k + 1] /\ P[k] \in Seq(S) /\ s[k + 1] \in Seq(S)
        /\ U[k] = Len(P[k])
    <3>1. k + 1 <= n
      BY <1>0, <1>7
    <3> QED
      BY <1>0, <1>1, <1>3, <1>7, <3>1, Zenon
  <2>6. U[k] \in Nat /\ U[k + 1] \in Nat /\ Len(s[k + 1]) \in Nat
    <3>1. k \in 0..n /\ k + 1 \in 0..n
      BY <1>0, <1>7
    <3> QED
      BY <1>0, <1>4, <1>7, <3>1
  <2>2. U[k + 1] = U[k] + Len(s[k + 1])
    <3>1. (k + 1) - 1 = k
      OBVIOUS
    <3> QED
      BY <1>5, <1>7, <3>1
  <2>3. \A i \in 1..(U[k] + Len(s[k + 1])) :
          P[k + 1][i] = IF i <= U[k] THEN P[k][i] ELSE s[k + 1][i - U[k]]
    <3>1. \A i \in 1..(Len(P[k]) + Len(s[k + 1])) :
            (P[k] \o s[k + 1])[i] = IF i <= Len(P[k]) THEN P[k][i]
                                    ELSE s[k + 1][i - Len(P[k])]
      BY <2>1, ConcatProperties
    <3> QED
      BY <2>1, <3>1, Zenon
  <2>4. ASSUME NEW j \in 0..(k + 1)
        PROVE  U[j] <= U[k + 1]
    <3>1. CASE j = k + 1
      BY <2>6, <3>1
    <3>2. CASE j # k + 1
      <4>1. j \in 0..k /\ j \in 0..n
        BY <1>0, <3>2
      <4>2. U[j] <= U[k] /\ U[j] \in Nat
        BY <1>4, <1>7, <4>1 DEF Good
      <4> QED
        BY <2>2, <2>6, <4>2
    <3> QED
      BY <3>1, <3>2
  <2>5. ASSUME NEW j \in 1..(k + 1), NEW i \in 1..Len(s[j])
        PROVE  P[k + 1][U[j - 1] + i] = s[j][i]
    <3>0. j \in 1..n /\ Len(s[j]) \in Nat /\ U[j] \in Nat /\ U[j - 1] \in Nat
      <4>1. j \in 1..n /\ j \in 0..n /\ j - 1 \in 0..n
        BY <1>0, <1>7
      <4> QED
        BY <1>0, <1>4, <4>1
    <3>1. CASE j = k + 1
      <4>0. j - 1 = k /\ i \in Int /\ 1 <= i /\ i <= Len(s[k + 1])
        BY <3>0, <3>1
      <4>1. /\ U[j - 1] = U[k]
            /\ U[k] + i \in 1..(U[k] + Len(s[k + 1])) /\ ~(U[k] + i <= U[k])
            /\ (U[k] + i) - U[k] = i
        BY <2>6, <4>0
      <4>2. P[k + 1][U[k] + i] = s[k + 1][(U[k] + i) - U[k]]
        BY <2>3, <4>1, Zenon
      <4> QED
        BY <3>1, <4>1, <4>2
    <3>2. CASE j # k + 1
      <4>1. j \in 1..k /\ j \in 0..k
        BY <3>2
      <4>2. U[j] <= U[k] /\ P[k][U[j - 1] + i] = s[j][i]
        BY <1>7, <4>1 DEF Good
      <4>3. U[j] = U[j - 1] + Len(s[j])
        BY <1>5, <3>0
      <4>4. /\ U[j - 1] + i \in 1..(U[k] + Len(s[k + 1]))
            /\ U[j - 1] + i <= U[k]
        <5>1. i \in Int /\ 1 <= i /\ i <= Len(s[j]) /\ U[j] <= U[k]
          BY <3>0, <4>2
        <5>2. \A a, l, u, q \in Nat : \A e \in Int :
                1 <= e /\ e <= l /\ a + l <= u => a + e \in 1..(u + q) /\ a + e <= u
          OBVIOUS
        <5> QED
          BY <2>6, <3>0, <4>3, <5>1, <5>2
      <4> QED
        BY <2>3, <4>2, <4>4
    <3> QED
      BY <3>1, <3>2
  <2> QED
    BY <2>4, <2>5 DEF Good
<1>13. 0 \in G /\ \A k \in G : k + 1 \in G
  <2>1. 0 \in G
    BY DEF G
  <2>2. ASSUME NEW k \in G PROVE k + 1 \in G
    <3>1. k \in Nat /\ (k \in 1..n => Good(k))
      BY <1>0 DEF G
    <3>2. k + 1 <= n => Good(k + 1)
      <4>1. CASE k = 0
        BY <1>6, <4>1
      <4>2. CASE k # 0 /\ k + 1 <= n
        <5>1. k \in 1..n /\ k + 1 \in 1..n
          BY <1>0, <3>1, <4>2
        <5> QED
          BY <1>7, <3>1, <5>1
      <4> QED
        BY <4>1, <4>2
    <3> QED
      BY <3>1, <3>2 DEF G
  <2> QED
    BY <2>1, <2>2
<1>8. \A k \in Nat : k \in G
  BY <1>13, Induction DEF G
<1>9. n # 0 => Good(n)
  <2>1. n \in G
    BY <1>0, <1>8
  <2> QED
    BY <1>0, <2>1 DEF G
<1>10. CASE n = 0
  <2>1. FlattenSeq(s) = <<>> /\ <<>> \in Seq(S) /\ Len(<<>>) = 0
    BY <1>2, <1>10, EmptySeq
  <2> QED
    BY <1>3, <1>10, <1>12, <2>1 DEF n
<1>11. CASE n # 0
  <2>1. FlattenSeq(s) = P[n] /\ P[n] \in Seq(S) /\ U[n] = Len(P[n])
    BY <1>0, <1>1, <1>3, <1>11
  <2>2. /\ \A j \in 0..n : U[j] <= U[n]
        /\ \A j \in 1..n : \A i \in 1..Len(s[j]) : P[n][U[j - 1] + i] = s[j][i]
    BY <1>9, <1>11 DEF Good
  <2>3. \A j \in 1..n : j \in 0..n /\ j - 1 \in 0..n
    BY <1>0
  <2>4. n \in 0..n /\ 0 \in 0..n
    BY <1>0
  <2> QED
    BY <1>3, <1>4, <1>5, <1>12, <2>1, <2>2, <2>3, <2>4, Zenon DEF n
<1> QED
  BY <1>10, <1>11

-----------------------------------------------------------------------------
\* The requests the properties speak of.

Plain(r) == RequestOK(r) /\ Clear(r)
PlainRequests == {r \in Requests : Clear(r)}

LEMMA PlainRequestIs == \A r \in PlainRequests : Plain(r)
BY RequestsAssumption, Zenon DEF Plain, PlainRequests

\* All requests are plain when each is clear.
LEMMA PlainSequence ==
  ASSUME NEW ss \in Seq(Requests)
  PROVE  /\ (\A i \in DOMAIN ss : Clear(ss[i])) <=> ss \in Seq(PlainRequests)
         /\ Seq(PlainRequests) \subseteq Seq(Requests)
<1>1. ss \in Seq(PlainRequests) => \A i \in DOMAIN ss : ss[i] \in PlainRequests
  BY ElementOfSeq, LenProperties, Zenon
<1>2. ASSUME \A i \in DOMAIN ss : Clear(ss[i]) PROVE ss \in Seq(PlainRequests)
  <2>1. /\ Len(ss) \in Nat /\ DOMAIN ss = 1..Len(ss)
        /\ \A i \in 1..Len(ss) : ss[i] \in Requests
    BY LenProperties, ElementOfSeq, Zenon
  <2>2. \A i \in 1..Len(ss) : ss[i] \in PlainRequests
    BY <1>2, <2>1, Zenon DEF PlainRequests
  <2>3. ss = [i \in 1..Len(ss) |-> ss[i]]
    BY <2>1
  <2> DEFINE n == Len(ss)
  <2> HIDE DEF n
  <2>4. n \in Nat /\ \A i \in 1..n : ss[i] \in PlainRequests
    BY <2>1, <2>2, Zenon DEF n
  <2>5. [i \in 1..n |-> ss[i]] \in Seq(PlainRequests)
    BY <2>4
  <2> QED
    BY <2>3, <2>5, Zenon DEF n
<1>3. PlainRequests \subseteq Requests
  BY Zenon DEF PlainRequests
<1>4. Seq(PlainRequests) \subseteq Seq(Requests)
  BY <1>3, SeqMonotonic, Zenon
<1>5. \A q \in PlainRequests : Clear(q)
  BY Zenon DEF PlainRequests
<1> QED
  BY <1>1, <1>2, <1>4, <1>5, Zenon

-----------------------------------------------------------------------------
\* Where the parts of a request are.

RequestLine(r) ==
  <<r.method, " ", "/">> \o r.path \o <<" ", "HTTP", "/", "1.1", "CR", "LF">>
Lines(r) == [i \in DOMAIN r.headers |-> HeaderLine(r.headers[i])]

\* Where header j ends, in the headers and in the request; the request line
\* for 0.
LineUpto(r) == [j \in 0..Len(r.headers) |-> Upto(Lines(r), j)]
End(r) == [j \in 0..Len(r.headers) |-> 9 + Len(r.path) + LineUpto(r)[j]]

\* The symbols of a stream.  All are strings; those the program names are
\* listed, as the provers do not know that they are.
Symbol ==
  STRING \union Methods \union {" ", "/", ":", "HTTP", "1.1", "CR", "LF"}

\* Words and delimiters are symbols.
LEMMA Symbols ==
  /\ STRING \subseteq Symbol /\ Methods \subseteq Symbol
  /\ " " \in Symbol /\ "/" \in Symbol /\ ":" \in Symbol /\ "HTTP" \in Symbol
  /\ "1.1" \in Symbol /\ "CR" \in Symbol /\ "LF" \in Symbol
BY Zenon DEF Symbol

\* t is s between a and b.
Framed(t, a, s, b) ==
  /\ t \in Seq(Symbol) /\ Len(t) = Len(a) + Len(s) + Len(b)
  /\ \A i \in 1..Len(a) : t[i] = a[i]
  /\ \A i \in 1..Len(s) : t[Len(a) + i] = s[i]
  /\ \A i \in 1..Len(b) : t[Len(a) + Len(s) + i] = b[i]

\* Three sequences behind each other.
LEMMA ConcatFramed ==
  ASSUME NEW s \in Seq(Symbol), NEW a \in Seq(Symbol), NEW b \in Seq(Symbol)
  PROVE  Framed(a \o s \o b, a, s, b)
<1>1. /\ a \o s \in Seq(Symbol) /\ Len(a \o s) = Len(a) + Len(s)
      /\ \A i \in 1..(Len(a) + Len(s)) :
           (a \o s)[i] = IF i <= Len(a) THEN a[i] ELSE s[i - Len(a)]
  BY ConcatProperties
<1> DEFINE t == a \o s
<1> HIDE DEF t
<1>2. /\ t \o b \in Seq(Symbol) /\ Len(t \o b) = Len(t) + Len(b)
      /\ \A i \in 1..(Len(t) + Len(b)) :
           (t \o b)[i] = IF i <= Len(t) THEN t[i] ELSE b[i - Len(t)]
  BY <1>1, ConcatProperties DEF t
<1>3. Len(a) \in Nat /\ Len(s) \in Nat /\ Len(b) \in Nat /\ Len(t) = Len(a) + Len(s)
  BY <1>1, LenProperties DEF t
<1> DEFINE la == Len(a)
           ls == Len(s)
           lb == Len(b)
           all == t \o b
<1>4. /\ \A i \in 1..(la + ls) : t[i] = IF i <= la THEN a[i] ELSE s[i - la]
      /\ \A i \in 1..(la + ls + lb) :
           all[i] = IF i <= la + ls THEN t[i] ELSE b[i - (la + ls)]
      /\ la \in Nat /\ ls \in Nat /\ lb \in Nat
  BY <1>1, <1>2, <1>3 DEF t
<1> HIDE DEF la, ls, lb, all
<1>5. /\ \A i \in 1..la : all[i] = a[i]
      /\ \A i \in 1..ls : all[la + i] = s[i]
      /\ \A i \in 1..lb : all[la + ls + i] = b[i]
  BY <1>4
<1> QED
  BY <1>1, <1>2, <1>3, <1>5 DEF Framed, t, la, ls, lb, all

\* The parts of a header line.
LEMMA HeaderLineIs ==
  ASSUME NEW h, h.key \in Symbol, h.value \in Seq(Symbol)
  PROVE  LET n == Len(h.value)
             line == HeaderLine(h)
         IN
         /\ line \in Seq(Symbol) /\ n \in Nat /\ Len(line) = n + 5
         /\ line[1] = h.key /\ line[2] = ":" /\ line[3] = " "
         /\ \A i \in 1..n : line[3 + i] = h.value[i]
         /\ line[n + 4] = "CR" /\ line[n + 5] = "LF"
<1> DEFINE a == <<h.key, ":", " ">>
           b == <<"CR", "LF">>
           s == h.value
           n == Len(s)
           line == a \o s \o b
<1>1. HeaderLine(h) = line
  BY Zenon DEF HeaderLine
<1>2. /\ a \in Seq(Symbol) /\ Len(a) = 3 /\ a[1] = h.key /\ a[2] = ":" /\ a[3] = " "
      /\ b \in Seq(Symbol) /\ Len(b) = 2 /\ b[1] = "CR" /\ b[2] = "LF"
  <2>1. \A x, y, z \in Symbol :
          LET t == <<x, y, z>> IN
          t \in Seq(Symbol) /\ Len(t) = 3 /\ t[1] = x /\ t[2] = y /\ t[3] = z
    OBVIOUS
  <2>2. \A x, y \in Symbol :
          LET t == <<x, y>> IN
          t \in Seq(Symbol) /\ Len(t) = 2 /\ t[1] = x /\ t[2] = y
    OBVIOUS
  <2> QED
    BY <2>1, <2>2, Symbols, Zenon
<1>3. s \in Seq(Symbol) /\ n \in Nat
  BY LenProperties
<1> HIDE DEF a, b, s, line
<1>4. Framed(line, a, s, b)
  BY <1>2, <1>3, ConcatFramed DEF line
<1> HIDE DEF n
<1>5. /\ line[1] = a[1] /\ line[2] = a[2] /\ line[3] = a[3]
      /\ line[3 + n + 1] = b[1] /\ line[3 + n + 2] = b[2]
      /\ \A i \in 1..n : line[3 + i] = s[i]
      /\ line \in Seq(Symbol) /\ Len(line) = 3 + n + 2
  <2>1. /\ 1 \in 1..3 /\ 2 \in 1..3 /\ 3 \in 1..3 /\ 1 \in 1..2 /\ 2 \in 1..2
    OBVIOUS
  <2> QED
    BY <1>2, <1>4, <2>1, Zenon DEF Framed, n
<1>6. 3 + n + 1 = n + 4 /\ 3 + n + 2 = n + 5
  BY <1>3
<1> QED
  BY <1>1, <1>2, <1>3, <1>5, <1>6, Zenon DEF n, s

\* A request, by the types its parts have.
LEMMA RequestTypes ==
  ASSUME NEW r, Plain(r)
  PROVE  /\ r.method \in Methods /\ r.method \in Symbol
         /\ r.path \in Seq(Symbol) /\ Len(r.path) \in Nat
         /\ r.body \in Seq(Symbol) /\ Len(r.body) \in Nat
         /\ Len(r.headers) \in Nat /\ DOMAIN r.headers = 1..Len(r.headers)
         /\ \A j \in 1..Len(r.headers) :
              /\ r.headers[j].key \in Symbol /\ r.headers[j].value \in Seq(Symbol)
              /\ Len(r.headers[j].value) \in Nat \ {0}
<1>1. /\ r.method \in Methods /\ r.path \in Seq(STRING) /\ r.body \in Seq(STRING)
      /\ r.headers \in Seq([key : STRING, value : Seq(STRING)])
      /\ \A i \in DOMAIN r.headers : r.headers[i].value # <<>>
  BY Zenon DEF Plain, RequestOK, Clear
<1>2. \A s \in Seq(STRING) : s \in Seq(Symbol)
  BY Symbols, SeqMonotonic, Zenon
<1>3. Len(r.headers) \in Nat /\ DOMAIN r.headers = 1..Len(r.headers)
  BY <1>1, LenProperties, Zenon
<1>4. ASSUME NEW j \in 1..Len(r.headers)
      PROVE  /\ r.headers[j].key \in Symbol /\ r.headers[j].value \in Seq(Symbol)
             /\ Len(r.headers[j].value) \in Nat \ {0}
  <2>1. r.headers[j] \in [key : STRING, value : Seq(STRING)]
    BY <1>1, ElementOfSeq, Zenon
  <2>2. r.headers[j].key \in STRING /\ r.headers[j].value \in Seq(STRING)
    BY <2>1, Zenon
  <2>3. r.headers[j].key \in Symbol /\ r.headers[j].value \in Seq(Symbol)
    BY <1>2, <2>2, Symbols, Zenon
  <2>4. r.headers[j].value # <<>>
    BY <1>1, <1>3, Zenon
  <2> QED
    BY <2>3, <2>4, EmptySeq, Zenon
<1>5. Len(r.path) \in Nat /\ Len(r.body) \in Nat
  BY <1>1, LenProperties, Zenon
<1> QED
  BY <1>1, <1>2, <1>3, <1>4, <1>5, Symbols, Zenon

\* The parts of a request line.
LEMMA RequestLineIs ==
  ASSUME NEW r, Plain(r)
  PROVE  LET L == RequestLine(r)
             P == Len(r.path)
         IN
         /\ L \in Seq(Symbol) /\ Len(L) = 9 + P
         /\ L[1] = r.method /\ L[2] = " " /\ L[3] = "/"
         /\ \A i \in 1..P : L[3 + i] = r.path[i]
         /\ L[4 + P] = " " /\ L[5 + P] = "HTTP" /\ L[6 + P] = "/"
         /\ L[7 + P] = "1.1" /\ L[8 + P] = "CR" /\ L[9 + P] = "LF"
<1> DEFINE a == <<r.method, " ", "/">>
           b == <<" ", "HTTP", "/", "1.1", "CR", "LF">>
           s == r.path
           n == Len(s)
           line == a \o s \o b
<1>1. RequestLine(r) = line
  BY Zenon DEF RequestLine
<1>2. /\ a \in Seq(Symbol) /\ Len(a) = 3 /\ a[1] = r.method /\ a[2] = " " /\ a[3] = "/"
      /\ b \in Seq(Symbol) /\ Len(b) = 6 /\ b[1] = " " /\ b[2] = "HTTP" /\ b[3] = "/"
      /\ b[4] = "1.1" /\ b[5] = "CR" /\ b[6] = "LF"
  <2>1. \A x, y, z \in Symbol :
          LET t == <<x, y, z>> IN
          t \in Seq(Symbol) /\ Len(t) = 3 /\ t[1] = x /\ t[2] = y /\ t[3] = z
    OBVIOUS
  <2>2. \A x, y, z, u, v, w \in Symbol :
          LET t == <<x, y, z, u, v, w>> IN
          /\ t \in Seq(Symbol) /\ Len(t) = 6
          /\ t[1] = x /\ t[2] = y /\ t[3] = z /\ t[4] = u /\ t[5] = v /\ t[6] = w
    OBVIOUS
  <2>3. r.method \in Symbol
    BY RequestTypes, Zenon
  <2>4. a \in Seq(Symbol) /\ Len(a) = 3 /\ a[1] = r.method /\ a[2] = " " /\ a[3] = "/"
    BY <2>1, <2>3, Symbols, Zenon
  <2>5. /\ b \in Seq(Symbol) /\ Len(b) = 6
        /\ b[1] = " " /\ b[2] = "HTTP" /\ b[3] = "/"
        /\ b[4] = "1.1" /\ b[5] = "CR" /\ b[6] = "LF"
    BY <2>2, Symbols
  <2> QED
    BY <2>4, <2>5
<1>3. s \in Seq(Symbol) /\ n \in Nat
  BY RequestTypes
<1> HIDE DEF a, b, s, line
<1>4. Framed(line, a, s, b)
  BY <1>2, <1>3, ConcatFramed DEF line
<1> HIDE DEF n
<1>5. /\ line[1] = a[1] /\ line[2] = a[2] /\ line[3] = a[3]
      /\ line[3 + n + 1] = b[1] /\ line[3 + n + 2] = b[2] /\ line[3 + n + 3] = b[3]
      /\ line[3 + n + 4] = b[4] /\ line[3 + n + 5] = b[5] /\ line[3 + n + 6] = b[6]
      /\ \A i \in 1..n : line[3 + i] = s[i]
      /\ line \in Seq(Symbol) /\ Len(line) = 3 + n + 6
  <2>1. /\ 1 \in 1..3 /\ 2 \in 1..3 /\ 3 \in 1..3 /\ 1 \in 1..6 /\ 2 \in 1..6
        /\ 3 \in 1..6 /\ 4 \in 1..6 /\ 5 \in 1..6 /\ 6 \in 1..6
    OBVIOUS
  <2> QED
    BY <1>2, <1>4, <2>1, Zenon DEF Framed, n
<1>6. /\ 3 + n + 1 = 4 + n /\ 3 + n + 2 = 5 + n /\ 3 + n + 3 = 6 + n
      /\ 3 + n + 4 = 7 + n /\ 3 + n + 5 = 8 + n /\ 3 + n + 6 = 9 + n
  BY <1>3
<1> QED
  BY <1>1, <1>2, <1>3, <1>5, <1>6, Zenon DEF n, s

\* The lines of the headers.
LEMMA LinesAre ==
  ASSUME NEW r, Plain(r)
  PROVE  /\ Lines(r) \in Seq(Seq(Symbol)) /\ Len(Lines(r)) = Len(r.headers)
         /\ \A j \in 1..Len(r.headers) :
              LET n == Len(r.headers[j].value)
                  line == Lines(r)[j]
              IN
              /\ n \in Nat \ {0} /\ Len(line) = n + 5
              /\ line[1] = r.headers[j].key /\ line[2] = ":" /\ line[3] = " "
              /\ \A i \in 1..n : line[3 + i] = r.headers[j].value[i]
              /\ line[n + 4] = "CR" /\ line[n + 5] = "LF"
<1> DEFINE m == Len(r.headers)
<1>1. /\ m \in Nat /\ DOMAIN r.headers = 1..m
      /\ \A j \in 1..m : /\ r.headers[j].key \in Symbol
                         /\ r.headers[j].value \in Seq(Symbol)
                         /\ Len(r.headers[j].value) \in Nat \ {0}
  BY RequestTypes, Zenon
<1> HIDE DEF m
<1>2. Lines(r) = [j \in 1..m |-> HeaderLine(r.headers[j])]
  BY <1>1, Zenon DEF Lines
<1>3. \A j \in 1..m : Lines(r)[j] = HeaderLine(r.headers[j])
  BY <1>2, Zenon
<1>4. ASSUME NEW j \in 1..m
      PROVE  LET n == Len(r.headers[j].value)
                 line == HeaderLine(r.headers[j])
             IN
             /\ line \in Seq(Symbol) /\ n \in Nat \ {0} /\ Len(line) = n + 5
             /\ line[1] = r.headers[j].key /\ line[2] = ":" /\ line[3] = " "
             /\ \A i \in 1..n : line[3 + i] = r.headers[j].value[i]
             /\ line[n + 4] = "CR" /\ line[n + 5] = "LF"
  BY <1>1, HeaderLineIs, Zenon
<1>5. Lines(r) \in [1..m -> Seq(Symbol)]
  BY <1>2, <1>4, Zenon
<1>6. \A f \in [1..m -> Seq(Symbol)] : f \in Seq(Seq(Symbol)) /\ Len(f) = m
  BY <1>1
<1> QED
  BY <1>3, <1>4, <1>5, <1>6, Zenon DEF m

\* The headers of a request, and what follows them.
HeadersLaid(H, U, r) ==
  LET m == Len(r.headers) IN
  /\ H \in Seq(Symbol) /\ Len(H) = U[m] + 2 + Len(r.body)
  /\ U[0] = 0 /\ \A j \in 0..m : U[j] \in Nat /\ U[j] <= U[m]
  /\ H[U[m] + 1] = "CR" /\ H[U[m] + 2] = "LF"
  /\ \A j \in 1..m :
       /\ U[j] = U[j - 1] + Len(Lines(r)[j])
       /\ \A i \in 1..Len(Lines(r)[j]) : H[U[j - 1] + i] = Lines(r)[j][i]

\* The header part is its lines, one behind the other, CR and LF, and the body.
LEMMA HeaderPartIs ==
  ASSUME NEW r, Plain(r)
  PROVE  HeadersLaid(HeaderPart(r), LineUpto(r), r)
<1> DEFINE m == Len(r.headers)
           L == Lines(r)
           F == FlattenSeq(L)
           c == <<"CR", "LF">>
           H == F \o c \o r.body
           U == [j \in 0..m |-> Upto(L, j)]
<1>1. m \in Nat /\ r.body \in Seq(Symbol) /\ Len(r.body) \in Nat
  BY RequestTypes, Zenon
<1>2. /\ L \in Seq(Seq(Symbol)) /\ Len(L) = m
      /\ \A j \in 1..m : Len(L[j]) \in Nat
  <2>1. L \in Seq(Seq(Symbol)) /\ Len(L) = m
    BY LinesAre, Zenon
  <2> QED
    BY <2>1, ElementOfSeq, LenProperties
<1>3. HeaderPart(r) = H
  BY Zenon DEF HeaderPart, Lines
<1>4. c \in Seq(Symbol) /\ Len(c) = 2 /\ c[1] = "CR" /\ c[2] = "LF"
  <2>1. \A x, y \in Symbol :
          LET t == <<x, y>> IN
          t \in Seq(Symbol) /\ Len(t) = 2 /\ t[1] = x /\ t[2] = y
    OBVIOUS
  <2> QED
    BY <2>1, Symbols, Zenon
<1> HIDE DEF L, c, F, H
<1>5. /\ F \in Seq(Symbol) /\ Len(F) = Upto(L, m)
      /\ Upto(L, 0) = 0 /\ \A j \in 0..m : Upto(L, j) \in Nat
      /\ \A j \in 1..m : Upto(L, j) = Upto(L, j - 1) + Len(L[j])
      /\ \A j \in 0..m : Upto(L, j) <= Upto(L, m)
      /\ \A j \in 1..m : \A i \in 1..Len(L[j]) : F[Upto(L, j - 1) + i] = L[j][i]
  <2>1. /\ F \in Seq(Symbol) /\ Len(F) = Upto(L, Len(L))
        /\ Upto(L, 0) = 0 /\ \A j \in 0..Len(L) : Upto(L, j) \in Nat
        /\ \A j \in 1..Len(L) : Upto(L, j) = Upto(L, j - 1) + Len(L[j])
        /\ \A j \in 0..Len(L) : Upto(L, j) <= Upto(L, Len(L))
        /\ \A j \in 1..Len(L) : \A i \in 1..Len(L[j]) :
             F[Upto(L, j - 1) + i] = L[j][i]
    BY <1>2, FlattenPlaces DEF F
  <2>2. Len(L) = m
    BY <1>2
  <2> HIDE DEF m
  <2> QED
    BY <2>1, <2>2
<1> HIDE DEF m
<1>6. /\ Len(F) = U[m] /\ U[0] = 0 /\ \A j \in 0..m : U[j] \in Nat /\ U[j] <= U[m]
      /\ \A j \in 1..m : U[j] = U[j - 1] + Len(L[j])
      /\ \A j \in 1..m : \A i \in 1..Len(L[j]) : F[U[j - 1] + i] = L[j][i]
  <2>1. 0 \in 0..m /\ m \in 0..m /\ \A j \in 1..m : j \in 0..m /\ j - 1 \in 0..m
    BY <1>1
  <2>2. \A j \in 0..m : U[j] = Upto(L, j)
    BY Zenon
  <2> HIDE DEF U
  <2> QED
    BY <1>5, <2>1, <2>2, Zenon
<1>11. LineUpto(r) = U
  BY Zenon DEF LineUpto, L, m
<1> HIDE DEF U
<1>7. Framed(H, F, c, r.body)
  BY <1>1, <1>4, <1>5, ConcatFramed DEF H
<1>8. H \in Seq(Symbol) /\ Len(H) = U[m] + 2 + Len(r.body)
  BY <1>4, <1>6, <1>7, Zenon DEF Framed
<1>9. H[U[m] + 1] = "CR" /\ H[U[m] + 2] = "LF"
  <2>1. 1 \in 1..2 /\ 2 \in 1..2
    OBVIOUS
  <2> QED
    BY <1>4, <1>6, <1>7, <2>1, Zenon DEF Framed
<1>10. ASSUME NEW j \in 1..m, NEW i \in 1..Len(L[j])
       PROVE  H[U[j - 1] + i] = L[j][i]
  <2>1. /\ U[j - 1] \in Nat /\ U[j] \in Nat /\ U[j] <= U[m] /\ U[m] \in Nat
        /\ Len(L[j]) \in Nat /\ U[j] = U[j - 1] + Len(L[j])
    <3>1. j - 1 \in 0..m /\ j \in 0..m /\ m \in 0..m
      BY <1>1
    <3> QED
      BY <1>2, <1>6, <3>1, Zenon
  <2>2. \A a, l, u \in Nat : \A e \in 1..l : a + l <= u => a + e \in 1..u
    OBVIOUS
  <2>3. U[j - 1] + i \in 1..Len(F)
    BY <1>6, <2>1, <2>2
  <2>4. H[U[j - 1] + i] = F[U[j - 1] + i]
    BY <1>7, <2>3, Zenon DEF Framed
  <2> QED
    BY <1>6, <2>4, Zenon
<1> QED
  BY <1>3, <1>6, <1>8, <1>9, <1>10, <1>11, Zenon DEF HeadersLaid, m, L

\* A header line in R, behind e symbols.
LineLaid(R, e, h) ==
  LET n == Len(h.value) IN
  /\ n \in Nat \ {0}
  /\ R[e + 1] = h.key /\ R[e + 2] = ":" /\ R[e + 3] = " "
  /\ \A i \in 1..n : R[e + 3 + i] = h.value[i]
  /\ R[e + 4 + n] = "CR" /\ R[e + 5 + n] = "LF"

\* The parts of a request, each at its place; header j ends at E[j].
RequestLaid(R, E, r) ==
  LET P == Len(r.path)
      m == Len(r.headers)
  IN
  /\ R \in Seq(Symbol) /\ Len(R) \in Nat /\ P \in Nat /\ m \in Nat
  /\ R[1] = r.method /\ R[2] = " " /\ R[3] = "/"
  /\ \A i \in 1..P : R[3 + i] = r.path[i]
  /\ R[4 + P] = " " /\ R[5 + P] = "HTTP" /\ R[6 + P] = "/"
  /\ R[7 + P] = "1.1" /\ R[8 + P] = "CR" /\ R[9 + P] = "LF"
  /\ E[0] = 9 + P /\ \A j \in 0..m : E[j] \in Nat /\ E[j] <= E[m]
  /\ Len(R) = E[m] + 2 + Len(r.body) /\ Len(r.body) \in Nat
  /\ R[E[m] + 1] = "CR" /\ R[E[m] + 2] = "LF"
  /\ \A j \in 1..m : /\ E[j] = E[j - 1] + 5 + Len(r.headers[j].value)
                     /\ LineLaid(R, E[j - 1], r.headers[j])

\* A request on the wire is its request line and its header part, laid out
\* behind each other.
LEMMA RequestIs ==
  ASSUME NEW r, Plain(r)
  PROVE  /\ RequestLaid(Render(r), End(r), r)
         /\ Render(r) = RequestLine(r) \o HeaderPart(r)
<1> DEFINE R == Render(r)
           P == Len(r.path)
           m == Len(r.headers)
           E == End(r)
           U == LineUpto(r)
           A == RequestLine(r)
           H == HeaderPart(r)
           N == [j \in 1..m |-> Len(r.headers[j].value)]
<1>1. P \in Nat /\ m \in Nat /\ Len(r.body) \in Nat
  BY RequestTypes, Zenon
<1>2. /\ A \in Seq(Symbol) /\ Len(A) = 9 + P
      /\ A[1] = r.method /\ A[2] = " " /\ A[3] = "/"
      /\ \A i \in 1..P : A[3 + i] = r.path[i]
      /\ A[4 + P] = " " /\ A[5 + P] = "HTTP" /\ A[6 + P] = "/"
      /\ A[7 + P] = "1.1" /\ A[8 + P] = "CR" /\ A[9 + P] = "LF"
  BY RequestLineIs, Zenon
<1>3. /\ H \in Seq(Symbol) /\ Len(H) = U[m] + 2 + Len(r.body)
      /\ U[0] = 0
      /\ \A j \in 0..m : U[j] \in Nat /\ U[j] <= U[m]
      /\ H[U[m] + 1] = "CR" /\ H[U[m] + 2] = "LF"
      /\ \A j \in 1..m :
           /\ U[j] = U[j - 1] + Len(Lines(r)[j])
           /\ \A i \in 1..Len(Lines(r)[j]) : H[U[j - 1] + i] = Lines(r)[j][i]
  <2>1. HeadersLaid(H, U, r)
    BY HeaderPartIs, Zenon
  <2> HIDE DEF H, U
  <2> QED
    BY <2>1, Zenon DEF HeadersLaid
<1>4. \A j \in 1..m :
        LET n == Len(r.headers[j].value)
            line == Lines(r)[j]
        IN
        /\ n \in Nat \ {0} /\ Len(line) = n + 5
        /\ line[1] = r.headers[j].key /\ line[2] = ":" /\ line[3] = " "
        /\ \A i \in 1..n : line[3 + i] = r.headers[j].value[i]
        /\ line[n + 4] = "CR" /\ line[n + 5] = "LF"
  BY LinesAre, Zenon
<1>5. R = A \o H
  BY Zenon DEF Render, RequestLine
<1>6. \A j \in 0..m : E[j] = 9 + P + U[j]
  BY Zenon DEF End
<1>13. \A j \in 1..m : N[j] = Len(r.headers[j].value)
  BY Zenon
<1> HIDE DEF E, U, N, A, H, R, P, m
<1>7. /\ R \in Seq(Symbol) /\ Len(R) = 9 + P + Len(H)
      /\ \A i \in 1..(9 + P) : R[i] = A[i]
      /\ \A i \in 1..Len(H) : R[9 + P + i] = H[i]
  <2> DEFINE k == 9 + P
             l == Len(H)
  <2>1. k \in Nat /\ l \in Nat /\ Len(A) = k
    BY <1>1, <1>2, <1>3, LenProperties
  <2>2. /\ A \o H \in Seq(Symbol) /\ Len(A \o H) = Len(A) + Len(H)
        /\ \A i \in 1..(Len(A) + Len(H)) :
             (A \o H)[i] = IF i <= Len(A) THEN A[i] ELSE H[i - Len(A)]
    <3>1. A \in Seq(Symbol) /\ H \in Seq(Symbol)
      BY <1>2, <1>3, Zenon
    <3> QED
      BY <3>1, ConcatProperties, Zenon
  <2> HIDE DEF k, l
  <2>3. /\ R \in Seq(Symbol) /\ Len(R) = k + l
        /\ \A i \in 1..(k + l) : R[i] = IF i <= k THEN A[i] ELSE H[i - k]
    BY <1>5, <2>1, <2>2, Zenon DEF l
  <2>4. /\ \A i \in 1..k : R[i] = A[i]
        /\ \A i \in 1..l : R[k + i] = H[i]
    BY <2>1, <2>3
  <2> QED
    BY <2>3, <2>4, Zenon DEF k, l
<1>8. /\ R[1] = r.method /\ R[2] = " " /\ R[3] = "/"
      /\ \A i \in 1..P : R[3 + i] = r.path[i]
      /\ R[4 + P] = " " /\ R[5 + P] = "HTTP" /\ R[6 + P] = "/"
      /\ R[7 + P] = "1.1" /\ R[8 + P] = "CR" /\ R[9 + P] = "LF"
  <2>1. /\ 1 \in 1..(9 + P) /\ 2 \in 1..(9 + P) /\ 3 \in 1..(9 + P)
        /\ 4 + P \in 1..(9 + P) /\ 5 + P \in 1..(9 + P) /\ 6 + P \in 1..(9 + P)
        /\ 7 + P \in 1..(9 + P) /\ 8 + P \in 1..(9 + P) /\ 9 + P \in 1..(9 + P)
        /\ \A i \in 1..P : 3 + i \in 1..(9 + P)
    BY <1>1
  <2> QED
    BY <1>2, <1>7, <2>1, Zenon
<1>9. /\ E[0] = 9 + P /\ \A j \in 0..m : E[j] \in Nat /\ E[j] <= E[m]
      /\ Len(R) = E[m] + 2 + Len(r.body)
  <2>0. m \in 0..m /\ \A j \in 0..m : U[j] \in Nat /\ U[j] <= U[m]
    BY <1>1, <1>3
  <2>1. \A j \in 0..m : E[j] \in Nat /\ E[j] <= E[m]
    BY <1>1, <1>6, <2>0
  <2>2. E[0] = 9 + P
    BY <1>1, <1>3, <1>6
  <2>3. U[m] \in Nat /\ E[m] = 9 + P + U[m]
    BY <1>1, <1>3, <1>6
  <2>4. Len(R) = 9 + P + Len(H) /\ Len(H) = U[m] + 2 + Len(r.body)
    BY <1>3, <1>7, Zenon
  <2>5. Len(R) = E[m] + 2 + Len(r.body)
    BY <1>1, <2>3, <2>4
  <2> QED
    BY <2>1, <2>2, <2>5
<1>10. R[E[m] + 1] = "CR" /\ R[E[m] + 2] = "LF"
  <2>1. U[m] \in Nat /\ E[m] = 9 + P + U[m]
    BY <1>1, <1>3, <1>6
  <2>2. Len(H) = U[m] + 2 + Len(r.body)
    BY <1>3
  <2>3. U[m] + 1 \in 1..Len(H) /\ U[m] + 2 \in 1..Len(H)
    BY <1>1, <2>1, <2>2
  <2>4. E[m] + 1 = 9 + P + (U[m] + 1) /\ E[m] + 2 = 9 + P + (U[m] + 2)
    BY <1>1, <2>1
  <2> QED
    BY <1>3, <1>7, <2>3, <2>4, Zenon
<1>11. ASSUME NEW j \in 1..m
       PROVE  /\ E[j] = E[j - 1] + 5 + N[j]
              /\ \A i \in 1..(N[j] + 5) : R[E[j - 1] + i] = Lines(r)[j][i]
  <2>1. /\ j \in 0..m /\ j - 1 \in 0..m /\ m \in 0..m
    BY <1>1
  <2>2. /\ U[j] \in Nat /\ U[j - 1] \in Nat /\ U[m] \in Nat /\ U[j] <= U[m]
        /\ E[j] = 9 + P + U[j] /\ E[j - 1] = 9 + P + U[j - 1]
        /\ N[j] \in Nat /\ Len(Lines(r)[j]) = N[j] + 5
        /\ U[j] = U[j - 1] + Len(Lines(r)[j])
    BY <1>3, <1>4, <1>6, <1>13, <2>1
  <2>3. Len(H) = U[m] + 2 + Len(r.body)
    BY <1>3
  <2>4. U[j] = U[j - 1] + (N[j] + 5)
    BY <2>2, Zenon
  <2>5. E[j] = E[j - 1] + 5 + N[j]
    <3>1. /\ E[j] = 9 + P + U[j] /\ E[j - 1] = 9 + P + U[j - 1]
          /\ U[j - 1] \in Nat /\ N[j] \in Nat /\ P \in Nat
      BY <1>1, <2>2, Zenon
    <3> QED
      BY <2>4, <3>1
  <2>6. ASSUME NEW i \in 1..(N[j] + 5)
        PROVE  R[E[j - 1] + i] = Lines(r)[j][i]
    <3>1. \A u, v, w, n, b, a \in Nat : \A e \in 1..(n + 5) :
            v <= w /\ v = u + (n + 5) =>
              u + e \in 1..(w + 2 + b) /\ (9 + a + u) + e = 9 + a + (u + e)
      OBVIOUS
    <3>5. /\ U[j] \in Nat /\ U[j - 1] \in Nat /\ U[m] \in Nat /\ U[j] <= U[m]
          /\ E[j - 1] = 9 + P + U[j - 1] /\ N[j] \in Nat /\ P \in Nat
          /\ Len(r.body) \in Nat
      BY <1>1, <2>2, Zenon
    <3>6. U[j - 1] + i \in 1..(U[m] + 2 + Len(r.body))
      BY <2>4, <3>1, <3>5
    <3>7. E[j - 1] + i = 9 + P + (U[j - 1] + i)
      BY <3>5
    <3>2. U[j - 1] + i \in 1..Len(H) /\ E[j - 1] + i = 9 + P + (U[j - 1] + i)
      BY <2>3, <3>6, <3>7, Zenon
    <3>3. R[E[j - 1] + i] = H[U[j - 1] + i]
      BY <1>7, <3>2, Zenon
    <3>4. H[U[j - 1] + i] = Lines(r)[j][i]
      <4>1. i \in 1..Len(Lines(r)[j])
        BY <2>2, Zenon
      <4> QED
        BY <1>3, <4>1, Zenon
    <3> QED
      BY <3>3, <3>4, Zenon
  <2> QED
    BY <2>5, <2>6
<1>12. ASSUME NEW j \in 1..m
       PROVE  E[j] = E[j - 1] + 5 + N[j] /\ LineLaid(R, E[j - 1], r.headers[j])
  <2> DEFINE e == E[j - 1]
             h == r.headers[j]
             n == Len(h.value)
  <2>1. /\ n \in Nat \ {0}
        /\ Lines(r)[j][1] = h.key /\ Lines(r)[j][2] = ":" /\ Lines(r)[j][3] = " "
        /\ \A i \in 1..n : Lines(r)[j][3 + i] = h.value[i]
        /\ Lines(r)[j][n + 4] = "CR" /\ Lines(r)[j][n + 5] = "LF"
    BY <1>4, Zenon
  <2>2. e \in Nat
    <3>1. j - 1 \in 0..m
      BY <1>1
    <3> QED
      BY <1>9, <3>1
  <2>3. \A i \in 1..(n + 5) : R[e + i] = Lines(r)[j][i]
    <3>1. N[j] = n
      BY <1>13
    <3> QED
      BY <1>11, <3>1
  <2> HIDE DEF e, n, h
  <2>4. /\ 1 \in 1..(n + 5) /\ 2 \in 1..(n + 5) /\ 3 \in 1..(n + 5)
        /\ n + 4 \in 1..(n + 5) /\ n + 5 \in 1..(n + 5)
        /\ \A i \in 1..n : 3 + i \in 1..(n + 5) /\ e + 3 + i = e + (3 + i)
        /\ e + 4 + n = e + (n + 4) /\ e + 5 + n = e + (n + 5)
    <3>1. n \in Nat \ {0}
      BY <2>1, Zenon
    <3> QED
      BY <2>2, <3>1
  <2>5. /\ R[e + 1] = h.key /\ R[e + 2] = ":" /\ R[e + 3] = " "
        /\ \A i \in 1..n : R[e + 3 + i] = h.value[i]
        /\ R[e + 4 + n] = "CR" /\ R[e + 5 + n] = "LF"
    BY <2>1, <2>3, <2>4, Zenon
  <2>6. LineLaid(R, e, h)
    BY <2>1, <2>5, Zenon DEF LineLaid, n
  <2> QED
    BY <1>11, <2>6, Zenon DEF e, h
<1>14. Len(R) \in Nat
  BY <1>7, LenProperties
<1>15. \A j \in 1..m : /\ E[j] = E[j - 1] + 5 + Len(r.headers[j].value)
                        /\ LineLaid(R, E[j - 1], r.headers[j])
  BY <1>12, <1>13, Zenon
<1>16. RequestLaid(R, E, r)
  BY <1>1, <1>7, <1>8, <1>9, <1>10, <1>14, <1>15, Zenon DEF RequestLaid, P, m
<1> QED
  BY <1>5, <1>16, Zenon DEF R, E, A, H

\* What is sent is symbols, whatever the request.
LEMMA RenderTyped ==
  ASSUME NEW r, RequestOK(r)
  PROVE  Render(r) \in Seq(Symbol)
<1> DEFINE a == <<r.method, " ", "/">>
           b == <<" ", "HTTP", "/", "1.1", "CR", "LF">>
           c == <<"CR", "LF">>
           F == FlattenSeq(Lines(r))
           m == Len(r.headers)
<1>1. /\ r.method \in Methods /\ r.path \in Seq(STRING) /\ r.body \in Seq(STRING)
      /\ r.headers \in Seq([key : STRING, value : Seq(STRING)])
  BY Zenon DEF RequestOK
<1>2. \A s \in Seq(STRING) : s \in Seq(Symbol)
  BY Symbols, SeqMonotonic, Zenon
<1>3. m \in Nat /\ DOMAIN r.headers = 1..m
  BY <1>1, LenProperties, Zenon
<1>4. ASSUME NEW j \in 1..m PROVE HeaderLine(r.headers[j]) \in Seq(Symbol)
  <2>1. r.headers[j] \in [key : STRING, value : Seq(STRING)]
    BY <1>1, ElementOfSeq, Zenon
  <2>2. r.headers[j].key \in STRING /\ r.headers[j].value \in Seq(STRING)
    BY <2>1, Zenon
  <2>3. r.headers[j].key \in Symbol /\ r.headers[j].value \in Seq(Symbol)
    BY <1>2, <2>2, Symbols, Zenon
  <2> QED
    BY <2>3, HeaderLineIs, Zenon
<1> HIDE DEF m
<1>5. Lines(r) = [j \in 1..m |-> HeaderLine(r.headers[j])]
  BY <1>3, Zenon DEF Lines
<1>6. Lines(r) \in Seq(Seq(Symbol))
  <2>1. Lines(r) \in [1..m -> Seq(Symbol)]
    BY <1>4, <1>5, Zenon
  <2>2. \A f \in [1..m -> Seq(Symbol)] : f \in Seq(Seq(Symbol))
    BY <1>3
  <2> QED
    BY <2>1, <2>2, Zenon
<1>7. F \in Seq(Symbol)
  BY <1>6, FlattenPlaces, Zenon
<1>8. a \in Seq(Symbol) /\ b \in Seq(Symbol) /\ c \in Seq(Symbol)
  <2>1. \A x, y, z \in Symbol : <<x, y, z>> \in Seq(Symbol)
    OBVIOUS
  <2>2. \A x, y, z, u, v, w \in Symbol : <<x, y, z, u, v, w>> \in Seq(Symbol)
    OBVIOUS
  <2>3. \A x, y \in Symbol : <<x, y>> \in Seq(Symbol)
    OBVIOUS
  <2>4. r.method \in Symbol
    BY <1>1, Symbols, Zenon
  <2> QED
    BY <2>1, <2>2, <2>3, <2>4, Symbols
<1>9. r.path \in Seq(Symbol) /\ r.body \in Seq(Symbol)
  BY <1>1, <1>2, Zenon
<1>10. Render(r) = a \o r.path \o b \o (F \o c \o r.body)
  BY Zenon DEF Render, HeaderPart, Lines
<1> HIDE DEF a, b, c, F
<1>11. \A x, y \in Seq(Symbol) : x \o y \in Seq(Symbol)
  BY ConcatProperties
<1>12. a \o r.path \o b \in Seq(Symbol) /\ F \o c \o r.body \in Seq(Symbol)
  BY <1>7, <1>8, <1>9, <1>11, Zenon
<1> QED
  BY <1>10, <1>11, <1>12, Zenon

-----------------------------------------------------------------------------
\* The loop of ParseHeaders.

\* The locals of ParseHeaders; whatever the headers are.
IsLocals(p) ==
  p \in [h_state_ : ParseState \union {"error"}, headers_ : {p.headers_},
         key_start : Nat, key_end : Nat, value_start : Nat, value_end : Nat,
         now_read_line_begin : Nat \ {0}, finished : BOOLEAN]

\* A turn on character c in state h may lead to g: the line goes on, it begins
\* with c, or there is an error.
Keeps(h, c, g) ==
  \/ h = "H_START" /\ c \in {"CR", "LF"} /\ g = h
  \/ h = "H_KEY" /\ c = ":" /\ g \in {"H_COLON", "error"}
  \/ h = "H_KEY" /\ c \notin {":", "CR", "LF"} /\ g = h
  \/ h = "H_COLON" /\ c = " " /\ g = "H_SPACES_AFTER_COLON"
  \/ h = "H_SPACES_AFTER_COLON" /\ g = "H_VALUE"
  \/ h = "H_VALUE" /\ c = "CR" /\ g \in {"H_CR", "error"}
  \/ h = "H_VALUE" /\ c # "CR" /\ g \in {h, "error"}
  \/ h = "H_LF" /\ c = "CR" /\ g = "H_END_CR"
  \/ h = "H_LF" /\ c # "CR" /\ g = "H_KEY"
  \/ h = "H_END_CR" /\ c = "LF" /\ g = "H_END_LF"
Opens(h, c, g) ==
  \/ h = "H_START" /\ c \notin {"CR", "LF"} /\ g = "H_KEY"
  \/ h = "H_CR" /\ c = "LF" /\ g = "H_LF"
Fails(h, c, g) ==
  /\ g = "error"
  /\ \/ h = "H_KEY" /\ c \in {"CR", "LF"}
     \/ h = "H_COLON" /\ c # " "
     \/ h = "H_CR" /\ c # "LF"
     \/ h = "H_END_CR" /\ c # "LF"

\* What a turn on character c does to the state and to the place where the
\* line begins, which is B before it and C after it; the character is behind
\* u others.
Moves(h, B, u, c, g, C, done) ==
  \/ /\ ~done
     /\ \/ Keeps(h, c, g) /\ C = B
        \/ Opens(h, c, g) /\ C = u
        \/ Fails(h, c, g)
  \/ done /\ h = "H_END_LF" /\ g = h

\* A turn of the loop, by its effect on the state and the line.
LEMMA AdvanceIs ==
  ASSUME NEW p, NEW str, NEW i \in Nat \ {0},
         IsLocals(p), p.h_state_ # "error", ~p.finished
  PROVE  LET q == Advance(p, str, i) IN
         /\ IsLocals(q)
         /\ Moves(p.h_state_, p.now_read_line_begin, i, str[i],
                  q.h_state_, q.now_read_line_begin, q.finished)
<1> DEFINE q == Advance(p, str, i)
           h == p.h_state_
           c == str[i]
<1>1. /\ p \in [h_state_ : ParseState \union {"error"}, headers_ : {p.headers_},
                key_start : Nat, key_end : Nat, value_start : Nat, value_end : Nat,
                now_read_line_begin : Nat \ {0}, finished : BOOLEAN]
      /\ p.finished = FALSE
  BY Zenon DEF IsLocals
<1>2. h \in {"H_START", "H_KEY", "H_COLON", "H_SPACES_AFTER_COLON", "H_VALUE",
             "H_CR", "H_LF", "H_END_CR", "H_END_LF"}
  BY <1>1 DEF ParseState
<1>3. CASE h = "H_START"
  <2>1. q = IF c \in {"CR", "LF"} THEN p
            ELSE [[p EXCEPT !.h_state_ = "H_KEY"]
                    EXCEPT !.key_start = i, !.now_read_line_begin = i]
    BY <1>3, Zenon DEF Advance
  <2> HIDE DEF q
  <2>2. IsLocals(q)
    BY <1>1, <2>1 DEF IsLocals, ParseState
  <2>3. /\ q.finished = FALSE
        /\ c \in {"CR", "LF"} => q.h_state_ = h /\ q.now_read_line_begin = p.now_read_line_begin
        /\ c \notin {"CR", "LF"} => q.h_state_ = "H_KEY" /\ q.now_read_line_begin = i
    BY <1>1, <2>1
  <2> QED
    BY <1>3, <2>2, <2>3, Zenon DEF Moves, Keeps, Opens, Fails, q
<1>4. CASE h = "H_KEY"
  <2>1. q = IF c = ":" /\ i > p.key_start
            THEN [[p EXCEPT !.h_state_ = "H_COLON"] EXCEPT !.key_end = i]
            ELSE IF c = ":" \/ c \in {"CR", "LF"}
                 THEN [p EXCEPT !.h_state_ = "error"] ELSE p
    BY <1>4, Zenon DEF Advance
  <2> HIDE DEF q
  <2>2. IsLocals(q)
    BY <1>1, <2>1 DEF IsLocals, ParseState
  <2>3. /\ q.finished = FALSE /\ q.now_read_line_begin = p.now_read_line_begin
        /\ c = ":" => q.h_state_ \in {"H_COLON", "error"}
        /\ c # ":" /\ c \in {"CR", "LF"} => q.h_state_ = "error"
        /\ c \notin {":", "CR", "LF"} => q.h_state_ = h
    BY <1>1, <2>1
  <2> QED
    BY <1>4, <2>2, <2>3, Zenon DEF Moves, Keeps, Opens, Fails, q
<1>5. CASE h = "H_COLON"
  <2>1. q = [p EXCEPT !.h_state_ = IF c = " " THEN "H_SPACES_AFTER_COLON"
                                     ELSE "error"]
    BY <1>5, Zenon DEF Advance
  <2> HIDE DEF q
  <2>2. IsLocals(q)
    BY <1>1, <2>1 DEF IsLocals, ParseState
  <2>3. /\ q.finished = FALSE /\ q.now_read_line_begin = p.now_read_line_begin
        /\ c = " " => q.h_state_ = "H_SPACES_AFTER_COLON"
        /\ c # " " => q.h_state_ = "error"
    BY <1>1, <2>1
  <2> QED
    BY <1>5, <2>2, <2>3, Zenon DEF Moves, Keeps, Opens, Fails, q
<1>6. CASE h = "H_SPACES_AFTER_COLON"
  <2>1. q = [[p EXCEPT !.h_state_ = "H_VALUE"] EXCEPT !.value_start = i]
    BY <1>6, Zenon DEF Advance
  <2> HIDE DEF q
  <2>2. IsLocals(q)
    BY <1>1, <2>1 DEF IsLocals, ParseState
  <2>3. /\ q.finished = FALSE /\ q.now_read_line_begin = p.now_read_line_begin
        /\ q.h_state_ = "H_VALUE"
    BY <1>1, <2>1
  <2> QED
    BY <1>6, <2>2, <2>3, Zenon DEF Moves, Keeps, Opens, Fails, q
<1>7. CASE h = "H_VALUE"
  <2>1. q = IF c = "CR" /\ i > p.value_start
            THEN [[p EXCEPT !.h_state_ = "H_CR"] EXCEPT !.value_end = i]
            ELSE IF c = "CR" \/ TooLong(p, i)
                 THEN [p EXCEPT !.h_state_ = "error"] ELSE p
    BY <1>7, Zenon DEF Advance
  <2> HIDE DEF q
  <2>2. IsLocals(q)
    BY <1>1, <2>1 DEF IsLocals, ParseState
  <2>3. /\ q.finished = FALSE /\ q.now_read_line_begin = p.now_read_line_begin
        /\ c = "CR" => q.h_state_ \in {"H_CR", "error"}
        /\ c # "CR" => q.h_state_ \in {h, "error"}
    BY <1>1, <2>1
  <2> QED
    BY <1>7, <2>2, <2>3, Zenon DEF Moves, Keeps, Opens, Fails, q
<1>8. CASE h = "H_CR"
  <2>1. q = IF c = "LF"
            THEN [[p EXCEPT !.h_state_ = "H_LF"] EXCEPT
                    !.headers_ = Assign(p.headers_,
                                        Slice(str, p.key_start, p.key_end),
                                        Slice(str, p.value_start, p.value_end)),
                    !.now_read_line_begin = i]
            ELSE [p EXCEPT !.h_state_ = "error"]
    BY <1>8, Zenon DEF Advance
  <2> HIDE DEF q
  <2>2. IsLocals(q)
    BY <1>1, <2>1 DEF IsLocals, ParseState
  <2>3. /\ q.finished = FALSE
        /\ c = "LF" => q.h_state_ = "H_LF" /\ q.now_read_line_begin = i
        /\ c # "LF" => q.h_state_ = "error"
    BY <1>1, <2>1
  <2> QED
    BY <1>8, <2>2, <2>3, Zenon DEF Moves, Keeps, Opens, Fails, q
<1>9. CASE h = "H_LF"
  <2>1. q = IF c = "CR" THEN [p EXCEPT !.h_state_ = "H_END_CR"]
            ELSE [[p EXCEPT !.h_state_ = "H_KEY"] EXCEPT !.key_start = i]
    BY <1>9, Zenon DEF Advance
  <2> HIDE DEF q
  <2>2. IsLocals(q)
    BY <1>1, <2>1 DEF IsLocals, ParseState
  <2>3. /\ q.finished = FALSE /\ q.now_read_line_begin = p.now_read_line_begin
        /\ c = "CR" => q.h_state_ = "H_END_CR"
        /\ c # "CR" => q.h_state_ = "H_KEY"
    BY <1>1, <2>1
  <2> QED
    BY <1>9, <2>2, <2>3, Zenon DEF Moves, Keeps, Opens, Fails, q
<1>10. CASE h = "H_END_CR"
  <2>1. q = [p EXCEPT !.h_state_ = IF c = "LF" THEN "H_END_LF" ELSE "error"]
    BY <1>10, Zenon DEF Advance
  <2> HIDE DEF q
  <2>2. IsLocals(q)
    BY <1>1, <2>1 DEF IsLocals, ParseState
  <2>3. /\ q.finished = FALSE /\ q.now_read_line_begin = p.now_read_line_begin
        /\ c = "LF" => q.h_state_ = "H_END_LF"
        /\ c # "LF" => q.h_state_ = "error"
    BY <1>1, <2>1
  <2> QED
    BY <1>10, <2>2, <2>3, Zenon DEF Moves, Keeps, Opens, Fails, q
<1>11. CASE h = "H_END_LF"
  <2>1. q = [p EXCEPT !.finished = TRUE, !.key_start = i,
                      !.now_read_line_begin = i]
    BY <1>11, Zenon DEF Advance
  <2> HIDE DEF q
  <2>2. IsLocals(q)
    BY <1>1, <2>1 DEF IsLocals, ParseState
  <2>3. q.finished = TRUE /\ q.h_state_ = h
    BY <1>1, <2>1
  <2> QED
    BY <1>11, <2>2, <2>3, Zenon DEF Moves, Keeps, Opens, Fails, q
<1> QED
  BY <1>2, <1>3, <1>4, <1>5, <1>6, <1>7, <1>8, <1>9, <1>10, <1>11, Zenon

\* The locals before turn n + 1, and after it.
Turn(str, s, n) ==
  IF s.p.finished \/ s.p.h_state_ = "error" THEN s
  ELSE [p |-> Advance(s.p, str, n), i |-> n]

\* A function that is defined by the recursion of Scan.
Scans(f, h, N) ==
  f = [n \in 0..N |->
        IF n = 0 THEN [p |-> Locals(h), i |-> 0]
        ELSE LET s == f[n - 1] IN
             IF s.p.finished \/ s.p.h_state_ = "error" THEN s
             ELSE [p |-> Advance(s.p, h.in_buffer_, n), i |-> n]]

\* The recursion defines a function.
LEMMA ScansExists ==
  ASSUME NEW h, NEW N \in Nat
  PROVE  \E f : Scans(f, h, N)
<1> DEFINE G == {m \in Nat : \E f : Scans(f, h, m)}
           Go(f, n) == IF n = 0 THEN [p |-> Locals(h), i |-> 0]
                       ELSE LET s == f[n - 1] IN
                            IF s.p.finished \/ s.p.h_state_ = "error" THEN s
                            ELSE [p |-> Advance(s.p, h.in_buffer_, n), i |-> n]
<1>0. \A f, m : Scans(f, h, m) <=> f = [n \in 0..m |-> Go(f, n)]
  BY Zenon DEF Scans
<1>1. 0 \in G
  <2> DEFINE g == [n \in 0..0 |-> [p |-> Locals(h), i |-> 0]]
  <2>1. g = [n \in 0..0 |-> Go(g, n)]
    BY \A n \in 0..0 : n = 0, Zenon
  <2>2. Scans(g, h, 0)
    BY <1>0, <2>1, Zenon
  <2> QED
    BY <2>2, Zenon
<1>2. ASSUME NEW m \in G PROVE m + 1 \in G
  <2>1. PICK f : Scans(f, h, m)
    OBVIOUS
  <2>0. m \in Nat
    OBVIOUS
  <2> HIDE DEF G
  <2> DEFINE g == [n \in 0..(m + 1) |-> Go(f, n)]
  <2>2. \A n \in 0..m : n \in 0..(m + 1)
    BY <2>0
  <2>3. \A n \in 0..m : g[n] = f[n]
    <3>1. TAKE n \in 0..m
    <3>3. f[n] = Go(f, n)
      BY <2>1, Zenon DEF Scans
    <3> QED
      BY <2>2, <3>3, Zenon
  <2>4. \A n \in 0..(m + 1) : n # 0 => g[n - 1] = f[n - 1]
    <3>1. TAKE n \in 0..(m + 1)
    <3>2. n # 0 => n - 1 \in 0..m
      BY <2>0
    <3> QED
      BY <2>3, <3>2, Zenon
  <2>5. \A n \in 0..(m + 1) : Go(f, n) = Go(g, n)
    <3>1. TAKE n \in 0..(m + 1)
    <3>2. n # 0 => g[n - 1] = f[n - 1]
      BY <2>4, Zenon
    <3> HIDE DEF g
    <3> QED
      BY <3>2, Zenon
  <2>6. g = [n \in 0..(m + 1) |-> Go(g, n)]
    <3> HIDE DEF Go
    <3> QED
      BY <2>5, Zenon
  <2>7. Scans(g, h, m + 1)
    BY <1>0, <2>6, Zenon
  <2>8. m + 1 \in Nat
    BY <2>0
  <2> QED
    BY <2>7, <2>8, Zenon DEF G
<1> HIDE DEF G
<1>3. \A m \in Nat : m \in G
  BY <1>1, <1>2, Induction DEF G
<1> QED
  BY <1>3, Zenon DEF G

\* Scan, turn by turn: f[n] is what it knows after n of them.
LEMMA ScanIs ==
  ASSUME NEW h, Len(h.in_buffer_) \in Nat
  PROVE  \E f : /\ f[0] = [p |-> Locals(h), i |-> 0]
                /\ \A n \in 1..Len(h.in_buffer_) : f[n] = Turn(h.in_buffer_, f[n - 1], n)
                /\ Scan(h) = f[Len(h.in_buffer_)]
<1> DEFINE N == Len(h.in_buffer_)
           f == CHOOSE g : Scans(g, h, N)
<1>1. Scan(h) = f[N]
  BY Zenon DEF Scan, Scans
<1>2. Scans(f, h, N)
  BY ScansExists, Zenon
<1> HIDE DEF f, N
<1>3. N \in Nat
  BY DEF N
<1>4. 0 \in 0..N /\ \A n \in 1..N : n \in 0..N /\ n # 0
  BY <1>3
<1>5. f[0] = [p |-> Locals(h), i |-> 0]
  BY <1>2, <1>4, Zenon DEF Scans
<1>6. ASSUME NEW n \in 1..N PROVE f[n] = Turn(h.in_buffer_, f[n - 1], n)
  BY <1>2, <1>4, Zenon DEF Scans, Turn
<1> QED
  BY <1>1, <1>5, <1>6, Zenon DEF N

-----------------------------------------------------------------------------
\* A request in the stream.

\* Where header j of r ends in a text, of which r follows the first a symbols.
EndAt(r, a) == [j \in 0..Len(r.headers) |-> a + End(r)[j]]

\* r stands in T behind a symbols.
Stands(T, a, r) ==
  LET P == Len(r.path)
      m == Len(r.headers)
      X == EndAt(r, a)
  IN
  /\ a \in Nat /\ P \in Nat /\ m \in Nat /\ Len(r.body) \in Nat
  /\ T[a + 1] = r.method /\ T[a + 2] = " " /\ T[a + 3] = "/"
  /\ \A i \in 1..P : T[a + 3 + i] = r.path[i]
  /\ T[a + 4 + P] = " " /\ T[a + 5 + P] = "HTTP" /\ T[a + 6 + P] = "/"
  /\ T[a + 7 + P] = "1.1" /\ T[a + 8 + P] = "CR" /\ T[a + 9 + P] = "LF"
  /\ X[0] = a + 9 + P
  /\ \A j \in 0..m : X[j] \in Nat /\ a < X[j] /\ X[j] <= X[m] /\ T[X[j]] = "LF"
  /\ a + Len(Render(r)) = X[m] + 2 + Len(r.body)
  /\ T[X[m] + 1] = "CR" /\ T[X[m] + 2] = "LF"
  /\ \A j \in 1..m : /\ X[j] = X[j - 1] + 5 + Len(r.headers[j].value)
                     /\ LineLaid(T, X[j - 1], r.headers[j])

\* R follows the first a symbols of T.
Spells(T, a, R) == \A p \in 1..Len(R) : T[a + p] = R[p]

\* What is spelled as a request stands as one.
LEMMA StandsIs ==
  ASSUME NEW r, Plain(r), NEW a \in Nat, NEW T,
         Spells(T, a, Render(r))
  PROVE  Stands(T, a, r)
<1> DEFINE R == Render(r)
           E == End(r)
           X == EndAt(r, a)
           P == Len(r.path)
           m == Len(r.headers)
           B == Len(r.body)
           L == Len(R)
<1>1. RequestLaid(R, E, r)
  BY RequestIs, Zenon
<1>2. /\ L \in Nat /\ P \in Nat /\ m \in Nat /\ B \in Nat
      /\ R[1] = r.method /\ R[2] = " " /\ R[3] = "/"
      /\ \A i \in 1..P : R[3 + i] = r.path[i]
      /\ R[4 + P] = " " /\ R[5 + P] = "HTTP" /\ R[6 + P] = "/"
      /\ R[7 + P] = "1.1" /\ R[8 + P] = "CR" /\ R[9 + P] = "LF"
  <2> HIDE DEF R, E
  <2> QED
    BY <1>1, Zenon DEF RequestLaid
<1>3. /\ E[0] = 9 + P /\ \A j \in 0..m : E[j] \in Nat /\ E[j] <= E[m]
      /\ L = E[m] + 2 + B
      /\ R[E[m] + 1] = "CR" /\ R[E[m] + 2] = "LF"
      /\ \A j \in 1..m : /\ E[j] = E[j - 1] + 5 + Len(r.headers[j].value)
                         /\ LineLaid(R, E[j - 1], r.headers[j])
  <2> HIDE DEF R, E
  <2> QED
    BY <1>1, Zenon DEF RequestLaid
<1>4. \A j \in 0..m : X[j] = a + E[j]
  BY Zenon DEF EndAt
<1>5. \A p \in 1..L : T[a + p] = R[p]
  BY Zenon DEF Spells
<1> HIDE DEF R, E, X, P, m, B, L
<1>14. m \in Nat /\ P \in Nat /\ B \in Nat
  BY <1>2, Zenon
<1>6. 0 \in 0..m /\ m \in 0..m /\ \A j \in 1..m : j \in 0..m /\ j - 1 \in 0..m
  BY <1>14
<1>7. E[m] \in Nat /\ E[0] \in Nat /\ E[0] <= E[m] /\ L \in Nat
  BY <1>2, <1>3, <1>6, Zenon
<1>8. /\ T[a + 1] = r.method /\ T[a + 2] = " " /\ T[a + 3] = "/"
      /\ \A i \in 1..P : T[a + 3 + i] = r.path[i]
      /\ T[a + 4 + P] = " " /\ T[a + 5 + P] = "HTTP" /\ T[a + 6 + P] = "/"
      /\ T[a + 7 + P] = "1.1" /\ T[a + 8 + P] = "CR" /\ T[a + 9 + P] = "LF"
  <2>1. P \in Nat /\ E[0] = 9 + P /\ L = E[m] + 2 + B /\ B \in Nat
    BY <1>2, <1>3, Zenon
  <2>2. 9 + P <= L
    BY <1>7, <2>1
  <2>3. /\ 1 \in 1..L /\ 2 \in 1..L /\ 3 \in 1..L /\ 4 + P \in 1..L /\ 5 + P \in 1..L
        /\ 6 + P \in 1..L /\ 7 + P \in 1..L /\ 8 + P \in 1..L /\ 9 + P \in 1..L
        /\ \A i \in 1..P : 3 + i \in 1..L /\ a + 3 + i = a + (3 + i)
        /\ a + 4 + P = a + (4 + P) /\ a + 5 + P = a + (5 + P) /\ a + 6 + P = a + (6 + P)
        /\ a + 7 + P = a + (7 + P) /\ a + 8 + P = a + (8 + P) /\ a + 9 + P = a + (9 + P)
    BY <1>7, <2>1, <2>2
  <2> QED
    BY <1>2, <1>5, <2>3, Zenon
<1>9. X[0] = a + 9 + P /\ X[m] = a + E[m]
  <2>1. X[0] = a + E[0] /\ E[0] = 9 + P /\ P \in Nat
    BY <1>2, <1>3, <1>4, <1>6, Zenon
  <2>2. X[m] = a + E[m]
    BY <1>4, <1>6, Zenon
  <2> QED
    BY <2>1, <2>2
<1>10. a + L = X[m] + 2 + B
  <2>1. L = E[m] + 2 + B /\ X[m] = a + E[m] /\ E[m] \in Nat /\ B \in Nat
    BY <1>2, <1>3, <1>7, <1>9, Zenon
  <2> QED
    BY <2>1
<1>11. T[X[m] + 1] = "CR" /\ T[X[m] + 2] = "LF"
  <2>1. L = E[m] + 2 + B /\ B \in Nat
    BY <1>2, <1>3, Zenon
  <2>2. /\ E[m] + 1 \in 1..L /\ E[m] + 2 \in 1..L
        /\ X[m] + 1 = a + (E[m] + 1) /\ X[m] + 2 = a + (E[m] + 2)
    <3>1. X[m] = a + E[m] /\ E[m] \in Nat
      BY <1>7, <1>9, Zenon
    <3>2. \A e, b, c \in Nat :
            /\ e + 1 \in 1..(e + 2 + b) /\ e + 2 \in 1..(e + 2 + b)
            /\ (c + e) + 1 = c + (e + 1) /\ (c + e) + 2 = c + (e + 2)
      OBVIOUS
    <3> QED
      BY <2>1, <3>1, <3>2
  <2> QED
    BY <1>3, <1>5, <2>2, Zenon
<1>12. ASSUME NEW j \in 1..m
       PROVE  /\ X[j] = X[j - 1] + 5 + Len(r.headers[j].value)
              /\ LineLaid(T, X[j - 1], r.headers[j])
              /\ T[X[j]] = "LF" /\ a < X[j]
  <2> DEFINE e == E[j - 1]
             n == Len(r.headers[j].value)
  <2>1. /\ e \in Nat /\ E[j] \in Nat /\ E[j] <= E[m]
        /\ X[j] = a + E[j] /\ X[j - 1] = a + e
        /\ E[j] = e + 5 + n /\ LineLaid(R, e, r.headers[j])
    BY <1>3, <1>4, <1>6, Zenon
  <2>2. /\ n \in Nat \ {0}
        /\ R[e + 1] = r.headers[j].key /\ R[e + 2] = ":" /\ R[e + 3] = " "
        /\ \A i \in 1..n : R[e + 3 + i] = r.headers[j].value[i]
        /\ R[e + 4 + n] = "CR" /\ R[e + 5 + n] = "LF"
    <3> HIDE DEF e
    <3> QED
      BY <2>1, Zenon DEF LineLaid
  <2> HIDE DEF e, n
  <2>3. e + 5 + n <= L /\ n \in Nat \ {0} /\ e \in Nat
    <3>1. L = E[m] + 2 + B /\ B \in Nat
      BY <1>2, <1>3, Zenon
    <3>2. E[j] <= E[m] /\ E[j] = e + 5 + n /\ n \in Nat \ {0} /\ e \in Nat
      BY <2>1, <2>2, Zenon
    <3> QED
      BY <1>7, <3>1, <3>2
  <2>4. /\ e + 1 \in 1..L /\ e + 2 \in 1..L /\ e + 3 \in 1..L /\ e + 4 + n \in 1..L
        /\ e + 5 + n \in 1..L /\ \A i \in 1..n : e + 3 + i \in 1..L
    BY <1>7, <2>3
  <2>5. /\ (a + e) + 1 = a + (e + 1) /\ (a + e) + 2 = a + (e + 2)
        /\ (a + e) + 3 = a + (e + 3) /\ (a + e) + 4 + n = a + (e + 4 + n)
        /\ (a + e) + 5 + n = a + (e + 5 + n)
        /\ \A i \in 1..n : (a + e) + 3 + i = a + (e + 3 + i)
    BY <2>3
  <2> DEFINE x == a + e
  <2> HIDE DEF x
  <2>6. /\ T[x + 1] = r.headers[j].key /\ T[x + 2] = ":" /\ T[x + 3] = " "
        /\ \A i \in 1..n : T[x + 3 + i] = r.headers[j].value[i]
        /\ T[x + 4 + n] = "CR" /\ T[x + 5 + n] = "LF"
    <3>1. /\ T[a + (e + 1)] = R[e + 1] /\ T[a + (e + 2)] = R[e + 2]
          /\ T[a + (e + 3)] = R[e + 3] /\ T[a + (e + 4 + n)] = R[e + 4 + n]
          /\ T[a + (e + 5 + n)] = R[e + 5 + n]
          /\ \A i \in 1..n : T[a + (e + 3 + i)] = R[e + 3 + i]
      BY <1>5, <2>4, Zenon
    <3>2. /\ x + 1 = a + (e + 1) /\ x + 2 = a + (e + 2) /\ x + 3 = a + (e + 3)
          /\ x + 4 + n = a + (e + 4 + n) /\ x + 5 + n = a + (e + 5 + n)
          /\ \A i \in 1..n : x + 3 + i = a + (e + 3 + i)
      BY <2>5, Zenon DEF x
    <3> QED
      BY <2>2, <3>1, <3>2, Zenon
  <2>7. LineLaid(T, x, r.headers[j])
    BY <2>2, <2>6, Zenon DEF LineLaid, n
  <2>8. X[j] = x + 5 + n /\ a < X[j]
    <3>1. X[j] = a + E[j] /\ E[j] = e + 5 + n
      BY <2>1, Zenon
    <3> QED
      BY <2>3, <3>1 DEF x
  <2> QED
    BY <2>1, <2>6, <2>7, <2>8, Zenon DEF x, n
<1>13. ASSUME NEW j \in 0..m
       PROVE  X[j] \in Nat /\ a < X[j] /\ X[j] <= X[m] /\ T[X[j]] = "LF"
  <2>1. X[j] = a + E[j] /\ E[j] \in Nat /\ E[j] <= E[m]
    BY <1>3, <1>4, Zenon
  <2>2. X[j] \in Nat /\ X[j] <= X[m]
    BY <1>7, <1>9, <2>1
  <2>3. CASE j = 0
    <3>1. P \in Nat
      BY <1>14
    <3>2. a < a + 9 + P
      BY <3>1
    <3> QED
      BY <1>8, <1>9, <2>2, <2>3, <3>2, Zenon
  <2>4. CASE j # 0
    <3>1. j \in 1..m
      BY <1>14, <2>4
    <3> QED
      BY <1>12, <2>2, <3>1, Zenon
  <2> QED
    BY <2>3, <2>4
<1> QED
  BY <1>2, <1>8, <1>9, <1>10, <1>11, <1>12, <1>13, Zenon DEF Stands, X, P, m, B, L, R

-----------------------------------------------------------------------------
\* The request line.

\* find: the first place, or npos.
Found(str, c, from, i) ==
  \/ i = npos /\ \A k \in from..Len(str) : str[k] # c
  \/ i \in from..Len(str) /\ str[i] = c /\ \A k \in from..(i - 1) : str[k] # c

\* find returns the first place of a character, or npos when there is none.
LEMMA FindIs ==
  ASSUME NEW str, NEW c, NEW from \in Nat \ {0}, Len(str) \in Nat
  PROVE  Found(str, c, from, Find(str, c, from))
<1> DEFINE I == {i \in from..Len(str) : str[i] = c}
           m == CHOOSE x \in I : \A y \in I : x <= y
<1>1. Find(str, c, from) = IF I # {} THEN m ELSE 0
  BY Zenon DEF Find, SelectInSubSeq, npos, Min
<1>2. CASE I = {}
  <2>1. \A k \in from..Len(str) : str[k] # c
    BY <1>2, Zenon
  <2> QED
    BY <1>1, <1>2, <2>1, Zenon DEF Found, npos
<1>3. CASE I # {}
  <2>1. I \in SUBSET Nat
    OBVIOUS
  <2>2. \E x \in I : \A y \in I : x <= y
    BY <1>3, <2>1, Least
  <2>3. m \in I /\ \A y \in I : m <= y
    BY <2>2, Zenon
  <2>4. Find(str, c, from) = m
    BY <1>1, <1>3, Zenon
  <2> HIDE DEF m
  <2>5. ASSUME NEW k \in from..(m - 1) PROVE str[k] # c
    <3>1. k \in from..Len(str) /\ ~(m <= k)
      BY <2>3
    <3> QED
      BY <2>3, <3>1
  <2>6. m \in from..Len(str) /\ str[m] = c
    BY <2>3
  <2> QED
    BY <2>4, <2>5, <2>6, Zenon DEF Found
<1> QED
  BY <1>2, <1>3

\* A path, its query and the file it names.
LEMMA NamedIs ==
  ASSUME NEW r, Plain(r)
  PROVE  FileName(r.path) = Named(r)
<1> DEFINE path == r.path
           P == Len(path)
           q == Find(path, "?", 1)
           Good(name) == /\ ~Contains(name, "?")
                         /\ name = path \/ path[Len(name) + 1] = "?"
<1>1. path \in Seq(Symbol) /\ P \in Nat
  BY RequestTypes, Zenon
<1>2. CASE path = <<>>
  BY <1>2, Zenon DEF FileName, Named
<1>3. CASE path # <<>>
  <2>1. Found(path, "?", 1, q)
    <3>1. 1 \in Nat \ {0}
      OBVIOUS
    <3> QED
      BY <1>1, <3>1, FindIs, Zenon
  <2>2. /\ FileName(path) = IF q = npos THEN path ELSE SubSeq(path, 1, q - 1)
        /\ Named(r) = CHOOSE name \in Prefixes(path) : Good(name)
    BY <1>3, Zenon DEF FileName, Named
  <2> HIDE DEF path, q, P
  <2>3. ASSUME NEW l \in 0..P
        PROVE  LET s == SubSeq(path, 1, l) IN
               /\ Len(s) = l /\ \A i \in 1..l : s[i] = path[i]
    <3>1. \A i \in 1..l : path[i] \in Symbol
      BY <1>1 DEF P
    <3>2. l \in Int /\ 1 \in Int /\ l - 1 + 1 = l
      OBVIOUS
    <3>3. /\ SubSeq(path, 1, l) \in Seq(Symbol)
          /\ Len(SubSeq(path, 1, l)) = IF 1 <= l THEN l - 1 + 1 ELSE 0
          /\ \A i \in 1..l - 1 + 1 : SubSeq(path, 1, l)[i] = path[1 + i - 1]
      BY <3>1, <3>2, SubSeqProperties
    <3> QED
      BY <3>2, <3>3
  <2>4. SubSeq(path, 1, P) = path
    BY <1>1, SubSeqFull DEF P
  <2>5. CASE q = npos
    <3>1. \A k \in 1..P : path[k] # "?"
      BY <1>1, <2>1, <2>5 DEF Found, npos, P
    <3>2. path \in Prefixes(path) /\ Good(path)
      <4>1. P \in 0..P
        BY <1>1
      <4>2. path \in Prefixes(path)
        BY <2>4, <4>1, Zenon DEF Prefixes, P
      <4> QED
        BY <3>1, <4>2, Zenon DEF Contains, P
    <3>3. ASSUME NEW name \in Prefixes(path), Good(name)
          PROVE  name = path
      <4>1. PICK l \in 0..P : name = SubSeq(path, 1, l)
        BY Zenon DEF Prefixes, P
      <4>2. Len(name) = l
        BY <2>3, <4>1
      <4>3. CASE l = P
        BY <2>4, <4>1, <4>3
      <4>4. CASE l # P
        <5>1. l + 1 \in 1..P
          BY <1>1, <4>4
        <5> QED
          BY <3>1, <3>3, <4>2, <5>1, Zenon
      <4> QED
        BY <4>3, <4>4
    <3> HIDE DEF Good
    <3> QED
      BY <2>2, <2>5, <3>2, <3>3, Zenon DEF path
  <2>6. CASE q # npos
    <3>1. q \in 1..P /\ path[q] = "?" /\ \A k \in 1..(q - 1) : path[k] # "?"
      BY <2>1, <2>6, Zenon DEF Found, P
    <3>2. q - 1 \in 0..P /\ q \in Int /\ (q - 1) + 1 = q
      BY <3>1, <1>1
    <3> DEFINE s == SubSeq(path, 1, q - 1)
    <3>3. /\ s \in Prefixes(path) /\ Len(s) = q - 1
          /\ \A i \in 1..(q - 1) : s[i] = path[i]
      BY <2>3, <3>2, Zenon DEF Prefixes, P
    <3> HIDE DEF s
    <3>4. Good(s)
      <4>1. path[Len(s) + 1] = "?"
        BY <3>1, <3>2, <3>3
      <4>2. \A i \in 1..Len(s) : s[i] # "?"
        BY <3>1, <3>3
      <4> QED
        BY <4>1, <4>2, Zenon DEF Contains
    <3>5. ASSUME NEW name \in Prefixes(path), Good(name)
          PROVE  name = s
      <4>1. PICK l \in 0..P : name = SubSeq(path, 1, l)
        BY Zenon DEF Prefixes, P
      <4>2. Len(name) = l /\ \A i \in 1..l : name[i] = path[i]
        BY <2>3, <4>1
      <4>3. \A i \in 1..l : path[i] # "?"
        BY <3>5, <4>2, Zenon DEF Contains
      <4>4. l < q
        BY <1>1, <3>1, <4>3
      <4>5. l # P
        BY <1>1, <3>1, <4>4
      <4>6. path[l + 1] = "?"
        <5>1. name # path
          BY <4>2, <4>5 DEF P
        <5> QED
          BY <3>5, <4>2, <5>1, Zenon
      <4>7. l + 1 = q
        BY <1>1, <3>1, <4>4, <4>6
      <4>8. l = q - 1
        BY <3>2, <4>7
      <4> QED
        BY <4>1, <4>8, Zenon DEF s
    <3> HIDE DEF Good
    <3>6. Named(r) = s
      BY <2>2, <3>3, <3>4, <3>5, Zenon
    <3> QED
      BY <2>2, <2>6, <3>6, Zenon DEF path, s
  <2> QED
    BY <2>5, <2>6
<1> QED
  BY <1>2, <1>3

\* A line that begins like the request line of r: w symbols are in front of it.
LineOf(line, w, r) ==
  LET l == Len(line)
      P == Len(r.path)
  IN
  /\ l \in Nat /\ l <= w + 7 + P
  /\ \A i \in 1..l : line[i] \in Methods <=> i = w + 1
  /\ w + 1 <= l => line[w + 1] = r.method
  /\ \A i \in 1..l : line[i] = " " <=> i \in {w + 2, w + 4 + P}
  /\ w + 3 <= l => line[w + 3] = "/"
  /\ w + 5 + P <= l => line[w + 5 + P] = "HTTP"
  /\ w + 6 + P <= l => line[w + 6 + P] = "/"
  /\ w + 7 + P <= l => line[w + 7 + P] = "1.1"
  /\ \A i \in 1..P : w + 3 + i <= l => line[w + 3 + i] = r.path[i]
  /\ 1 <= l => line[1] \notin {"1.0", "1.1"}

\* The method of such a line is that of the request, or missing.
LEMMA MethodIs ==
  ASSUME NEW r, r.method \in Methods, NEW line, NEW w \in Nat, LineOf(line, w, r)
  PROVE  MethodIn(line) = IF w + 1 <= Len(line) THEN r.method ELSE "none"
<1> DEFINE l == Len(line)
<1>1. /\ l \in Nat /\ \A i \in 1..l : line[i] \in Methods <=> i = w + 1
      /\ w + 1 <= l => line[w + 1] = r.method
  BY Zenon DEF LineOf
<1> HIDE DEF l
<1>2. CASE w + 1 <= l
  <2>1. w + 1 \in 1..l
    BY <1>1, <1>2
  <2>2. \A c \in Methods : (\E i \in 1..l : line[i] = c) <=> c = r.method
    BY <1>1, <1>2, <2>1, Zenon
  <2>3. \A c \in Methods : Contains(line, c) <=> c = r.method
    BY <2>2, Zenon DEF Contains, l
  <2>4. /\ Contains(line, "GET") <=> r.method = "GET"
        /\ Contains(line, "POST") <=> r.method = "POST"
        /\ Contains(line, "HEAD") <=> r.method = "HEAD"
    BY <2>3 DEF Methods
  <2>5. r.method = "GET" \/ r.method = "POST" \/ r.method = "HEAD"
    BY DEF Methods
  <2> HIDE DEF l
  <2>6. MethodIn(line) = r.method
    BY <2>4, <2>5 DEF MethodIn
  <2> QED
    BY <1>2, <2>6, Zenon DEF l
<1>3. CASE ~(w + 1 <= l)
  <2>1. \A i \in 1..l : line[i] \notin Methods
    BY <1>1, <1>3
  <2>2. /\ ~Contains(line, "GET") /\ ~Contains(line, "POST") /\ ~Contains(line, "HEAD")
    BY <2>1, Zenon DEF Contains, l, Methods
  <2>3. MethodIn(line) = "none"
    BY <2>2, Zenon DEF MethodIn
  <2> QED
    BY <1>3, <2>3, Zenon DEF l
<1> QED
  BY <1>2, <1>3

\* What ParseURI finds in a line, as it names it.
Slash(line) == Find(line, "/", Find(line, MethodIn(line), 1))
Space(line) == Find(line, " ", Slash(line))
Name(line) ==
  IF Slash(line) = npos THEN <<>>
  ELSE IF Space(line) = npos THEN SubSeq(line, Slash(line) + 1, Len(line))
  ELSE SubSeq(line, Slash(line) + 1, Space(line) - 1)
Version(line) == Find(line, "/", Space(line)) + 1
LineFits(line) ==
  /\ MethodIn(line) # "none"
  /\ Version(line) <= Len(line) /\ line[Version(line)] \in {"1.0", "1.1"}

\* The whole request line is understood, and no part of it.
LEMMA LineMeans ==
  ASSUME NEW r, Plain(r), NEW line \in Seq(Symbol), NEW w \in Nat,
         LineOf(line, w, r)
  PROVE  /\ LineFits(line) <=> Len(line) = w + 7 + Len(r.path)
         /\ Len(line) = w + 7 + Len(r.path) =>
              MethodIn(line) = r.method /\ Name(line) = r.path
<1> DEFINE l == Len(line)
           P == Len(r.path)
           m == MethodIn(line)
           f == Find(line, m, 1)
           slash == Slash(line)
           space == Space(line)
           second == Find(line, "/", space)
<1>1. P \in Nat /\ r.path \in Seq(Symbol) /\ r.method \in Methods /\ l \in Nat
  BY RequestTypes, LenProperties, Zenon
<1>2. m = IF w + 1 <= l THEN r.method ELSE "none"
  BY <1>1, MethodIs, Zenon
<1>3. /\ l <= w + 7 + P
      /\ \A i \in 1..l : line[i] \in Methods <=> i = w + 1
      /\ w + 1 <= l => line[w + 1] = r.method
      /\ \A i \in 1..l : line[i] = " " <=> i \in {w + 2, w + 4 + P}
      /\ w + 3 <= l => line[w + 3] = "/"
      /\ w + 5 + P <= l => line[w + 5 + P] = "HTTP"
      /\ w + 6 + P <= l => line[w + 6 + P] = "/"
      /\ w + 7 + P <= l => line[w + 7 + P] = "1.1"
      /\ \A i \in 1..P : w + 3 + i <= l => line[w + 3 + i] = r.path[i]
      /\ 1 <= l => line[1] \notin {"1.0", "1.1"}
  BY Zenon DEF LineOf
<1>4. \A c : \A from \in Nat \ {0} : Found(line, c, from, Find(line, c, from))
  BY <1>1, FindIs
<1>5. \A c : Find(line, c, npos) = npos
  BY Zenon DEF Find, npos
<1>6. slash = Find(line, "/", f) /\ space = Find(line, " ", slash)
  BY Zenon DEF Slash, Space
<1>7. /\ LineFits(line) <=> /\ m # "none" /\ second + 1 <= l
                            /\ line[second + 1] \in {"1.0", "1.1"}
  BY Zenon DEF LineFits, Version
<1>8. Name(line) = IF slash = npos THEN <<>>
                   ELSE IF space = npos THEN SubSeq(line, slash + 1, l)
                   ELSE SubSeq(line, slash + 1, space - 1)
  BY Zenon DEF Name
<1> HIDE DEF l, P, m, f, slash, space, second
<1>0. P \in Nat /\ l \in Nat /\ w \in Nat /\ l <= w + 7 + P
  BY <1>1, <1>3, Zenon
<1>9. CASE ~(w + 1 <= l)
  <2>1. ~LineFits(line)
    BY <1>2, <1>7, <1>9, Zenon
  <2>2. l # w + 7 + P
    BY <1>0, <1>9
  <2> QED
    BY <2>1, <2>2, Zenon DEF l, P
<1>10. CASE w + 1 <= l
  <2>1. m = r.method /\ m \in Methods /\ w + 1 \in 1..l /\ line[w + 1] = m
    <3>1. w + 1 \in 1..l
      BY <1>0, <1>10
    <3> QED
      BY <1>1, <1>2, <1>3, <1>10, <3>1, Zenon
  <2>2. f = w + 1
    <3>1. Found(line, m, 1, f)
      BY <1>4 DEF f
    <3>2. f # npos
      BY <2>1, <3>1 DEF Found, npos, l
    <3>3. f \in 1..l /\ line[f] = m
      BY <3>1, <3>2, Zenon DEF Found, l
    <3> QED
      BY <1>3, <2>1, <3>3
  <2>3. slash = IF w + 3 <= l THEN w + 3 ELSE npos
    <3>1. Found(line, "/", w + 1, slash)
      <4>1. w + 1 \in Nat \ {0}
        BY <1>0
      <4> QED
        BY <1>4, <1>6, <2>2, <4>1, Zenon
    <3>2. line[w + 1] # "/"
      BY <2>1 DEF Methods
    <3>3. w + 2 <= l => line[w + 2] # "/"
      <4>1. w + 2 <= l => w + 2 \in 1..l
        BY <1>0
      <4>2. w + 2 <= l => line[w + 2] = " "
        BY <1>3, <4>1, Zenon
      <4> QED
        BY <4>2
    <3>4. CASE w + 3 <= l
      <4>1. w + 3 \in (w + 1)..l /\ line[w + 3] = "/"
        <5>1. w + 3 \in (w + 1)..l
          BY <1>0, <3>4
        <5> QED
          BY <1>3, <3>4, <5>1, Zenon
      <4>2. slash \in (w + 1)..l /\ line[slash] = "/"
            /\ \A k \in (w + 1)..(slash - 1) : line[k] # "/"
        BY <3>1, <4>1, Zenon DEF Found, l
      <4>3. slash # w + 1 /\ slash # w + 2
        BY <1>0, <3>2, <3>3, <3>4, <4>2
      <4>4. ~(w + 3 < slash)
        BY <1>0, <4>1, <4>2
      <4> QED
        BY <1>0, <3>4, <4>2, <4>3, <4>4
    <3>5. CASE ~(w + 3 <= l)
      <4>1. ASSUME slash # npos PROVE FALSE
        <5>1. slash \in (w + 1)..l /\ line[slash] = "/"
          BY <3>1, <4>1, Zenon DEF Found, l
        <5>3. slash \in (w + 1)..l
          BY <5>1, Zenon
        <5>2. slash = w + 1 \/ (slash = w + 2 /\ w + 2 <= l)
          <6>1. slash \in Nat /\ w + 1 <= slash /\ slash <= l /\ l < w + 3
            BY <1>0, <3>5, <5>3
          <6>2. slash # w + 1 => slash = w + 2
            BY <1>0, <6>1
          <6>3. slash = w + 2 => w + 2 <= l
            BY <6>1
          <6> QED
            BY <6>2, <6>3
        <5> QED
          BY <3>2, <3>3, <5>1, <5>2, Zenon
      <4> QED
        BY <3>5, <4>1
    <3> QED
      BY <3>4, <3>5
  <2>4. space = IF w + 4 + P <= l THEN w + 4 + P ELSE npos
    <3>1. CASE w + 3 <= l
      <4>1. Found(line, " ", w + 3, space)
        <5>1. w + 3 \in Nat \ {0}
          BY <1>0
        <5> QED
          BY <1>4, <1>6, <2>3, <3>1, <5>1, Zenon
      <4>2. CASE w + 4 + P <= l
        <5>1. w + 4 + P \in (w + 3)..l /\ w + 4 + P \in 1..l
          BY <1>0, <4>2
        <5>2. line[w + 4 + P] = " "
          BY <1>3, <5>1, Zenon
        <5>3. space \in (w + 3)..l /\ line[space] = " "
          BY <4>1, <5>1, <5>2, Zenon DEF Found, l
        <5>6. space \in (w + 3)..l
          BY <5>3, Zenon
        <5>4. space \in 1..l
          BY <1>0, <5>6
        <5>5. space \in {w + 2, w + 4 + P}
          BY <1>3, <5>3, <5>4, Zenon
        <5> QED
          BY <1>0, <4>2, <5>6, <5>5
      <4>3. CASE ~(w + 4 + P <= l)
        <5>1. ASSUME space # npos PROVE FALSE
          <6>1. space \in (w + 3)..l /\ line[space] = " "
            BY <4>1, <5>1, Zenon DEF Found, l
          <6>4. space \in (w + 3)..l
            BY <6>1, Zenon
          <6>2. space \in 1..l
            BY <1>0, <6>4
          <6>3. space \in {w + 2, w + 4 + P}
            BY <1>3, <6>1, <6>2, Zenon
          <6> QED
            BY <1>0, <4>3, <6>4, <6>3
        <5> QED
          BY <4>3, <5>1
      <4> QED
        BY <4>2, <4>3
    <3>2. CASE ~(w + 3 <= l)
      <4>1. ~(w + 4 + P <= l)
        BY <1>0, <3>2
      <4>2. space = npos
        BY <1>5, <1>6, <2>3, <3>2
      <4> QED
        BY <4>1, <4>2
    <3> QED
      BY <3>1, <3>2
  <2>5. second = IF w + 6 + P <= l THEN w + 6 + P ELSE npos
    <3>1. CASE w + 4 + P <= l
      <4>1. Found(line, "/", w + 4 + P, second)
        <5>1. w + 4 + P \in Nat \ {0}
          BY <1>0
        <5> QED
          BY <1>4, <2>4, <3>1, <5>1 DEF second
      <4>2. line[w + 4 + P] # "/" /\ (w + 5 + P <= l => line[w + 5 + P] # "/")
        <5>1. w + 4 + P \in 1..l
          BY <1>0, <3>1
        <5>2. line[w + 4 + P] = " "
          BY <1>3, <5>1, Zenon
        <5>3. w + 5 + P <= l => line[w + 5 + P] = "HTTP"
          BY <1>3, Zenon
        <5> QED
          BY <5>2, <5>3
      <4>3. CASE w + 6 + P <= l
        <5>1. w + 6 + P \in (w + 4 + P)..l /\ line[w + 6 + P] = "/"
          <6>1. w + 6 + P \in (w + 4 + P)..l
            BY <1>0, <4>3
          <6> QED
            BY <1>3, <4>3, <6>1, Zenon
        <5>2. second \in (w + 4 + P)..l /\ line[second] = "/"
              /\ \A k \in (w + 4 + P)..(second - 1) : line[k] # "/"
          BY <4>1, <5>1, Zenon DEF Found, l
        <5>3. second # w + 4 + P /\ second # w + 5 + P
          BY <1>0, <4>2, <4>3, <5>2
        <5>4. ~(w + 6 + P < second)
          BY <1>0, <5>1, <5>2
        <5> QED
          BY <1>0, <4>3, <5>2, <5>3, <5>4
      <4>4. CASE ~(w + 6 + P <= l)
        <5>1. ASSUME second # npos PROVE FALSE
          <6>1. second \in (w + 4 + P)..l /\ line[second] = "/"
            BY <4>1, <5>1, Zenon DEF Found, l
          <6>3. second \in (w + 4 + P)..l
            BY <6>1, Zenon
          <6>2. second = w + 4 + P \/ (second = w + 5 + P /\ w + 5 + P <= l)
            <7>1. /\ second \in Nat /\ w + 4 + P <= second /\ second <= l
                  /\ l < w + 6 + P
              BY <1>0, <4>4, <6>3
            <7>2. second # w + 4 + P => second = w + 5 + P
              BY <1>0, <7>1
            <7>3. second = w + 5 + P => w + 5 + P <= l
              BY <7>1
            <7> QED
              BY <7>2, <7>3
          <6> QED
            BY <4>2, <6>1, <6>2, Zenon
        <5> QED
          BY <4>4, <5>1
      <4> QED
        BY <4>3, <4>4
    <3>2. CASE ~(w + 4 + P <= l)
      <4>1. ~(w + 6 + P <= l)
        BY <1>0, <3>2
      <4>2. second = npos
        BY <1>5, <2>4, <3>2 DEF second
      <4> QED
        BY <4>1, <4>2
    <3> QED
      BY <3>1, <3>2
  <2>6. CASE l = w + 7 + P
    <3>1. second + 1 = l /\ line[l] = "1.1"
      <4>1. w + 7 + P <= l /\ w + 6 + P <= l /\ w + 6 + P + 1 = l
        BY <1>0, <2>6
      <4> QED
        BY <1>3, <2>5, <2>6, <4>1, Zenon
    <3>2. LineFits(line)
      BY <1>0, <1>7, <2>1, <3>1 DEF Methods
    <3>3. slash = w + 3 /\ space = w + 4 + P /\ slash # npos /\ space # npos
      BY <1>0, <2>3, <2>4, <2>6 DEF npos
    <3>4. Name(line) = SubSeq(line, w + 3 + 1, w + 4 + P - 1)
      <4>1. ~(w + 3 = npos) /\ ~(w + 4 + P = npos)
        BY <1>0 DEF npos
      <4>2. Name(line) = SubSeq(line, slash + 1, space - 1)
        BY <1>8, <3>3
      <4>3. slash + 1 = w + 3 + 1 /\ space - 1 = w + 4 + P - 1
        BY <1>0, <3>3
      <4> QED
        BY <4>2, <4>3, Zenon
    <3>5. SubSeq(line, w + 3 + 1, w + 4 + P - 1) = r.path
      <4> DEFINE a == w + 3 + 1
                 b == w + 4 + P - 1
                 s == SubSeq(line, a, b)
      <4>1. a \in Int /\ b \in Int /\ b - a + 1 = P /\ (a <= b <=> P # 0)
        BY <1>0
      <4>2. \A i \in a..b : line[i] \in Symbol
        <5>1. \A i \in a..b : i \in 1..Len(line)
          BY <1>0, <2>6 DEF l
        <5> QED
          BY <5>1, ElementOfSeq
      <4> HIDE DEF a, b
      <4>3. /\ s \in Seq(Symbol) /\ Len(s) = IF a <= b THEN b - a + 1 ELSE 0
            /\ \A i \in 1..b - a + 1 : s[i] = line[a + i - 1]
        BY <4>1, <4>2, SubSeqProperties
      <4> HIDE DEF s
      <4>4. s \in Seq(Symbol) /\ Len(s) = P /\ \A i \in 1..P : s[i] = line[a + i - 1]
        BY <1>0, <4>1, <4>3
      <4>5. ASSUME NEW i \in 1..P PROVE s[i] = r.path[i]
        <5>1. a + i - 1 = w + 3 + i /\ w + 3 + i <= l
          BY <1>0, <2>6 DEF a
        <5> QED
          <6>1. s[i] = line[w + 3 + i]
            BY <4>4, <5>1, Zenon
          <6> QED
            BY <1>3, <5>1, <6>1, Zenon
      <4>6. Len(s) = Len(r.path) /\ \A i \in 1..Len(s) : s[i] = r.path[i]
        BY <4>4, <4>5, Zenon DEF P
      <4>7. s = r.path
        BY <1>1, <4>4, <4>6, SeqEqual, Zenon
      <4> QED
        BY <4>7, Zenon DEF s, a, b
    <3> QED
      BY <2>1, <2>6, <3>2, <3>4, <3>5, Zenon DEF l, P, m
  <2>7. CASE l # w + 7 + P
    <3>1. second = w + 6 + P => ~(second + 1 <= l)
      BY <1>0, <2>7
    <3>2. second = npos => line[second + 1] \notin {"1.0", "1.1"}
      <4>1. 1 <= l
        BY <1>0, <1>10
      <4>2. second = npos => second + 1 = 1
        BY DEF npos
      <4> QED
        BY <1>3, <4>1, <4>2, Zenon
    <3>3. ~LineFits(line)
      BY <1>7, <2>5, <3>1, <3>2, Zenon
    <3> QED
      BY <2>7, <3>3, Zenon DEF l, P
  <2> QED
    BY <2>6, <2>7
<1> QED
  BY <1>9, <1>10

\* What is where in a request line behind a symbols of T.
LineSymbols(T, a, r) ==
  LET P == Len(r.path) IN
  /\ \A u \in (a + 1)..(a + 7 + P) :
       /\ T[u] # "CR" /\ T[u] # "LF"
       /\ T[u] \in Methods <=> u = a + 1
       /\ T[u] = " " <=> u = a + 2 \/ u = a + 4 + P
       /\ T[u] = ":" => a + 4 <= u /\ u <= a + 2 + P

\* What a request line may hold follows from what a clear request is.
LEMMA LineSymbolsAre ==
  ASSUME NEW r, Plain(r), NEW a, NEW T, Stands(T, a, r)
  PROVE  LineSymbols(T, a, r)
<1> DEFINE P == Len(r.path)
<1>1. /\ a \in Nat /\ P \in Nat
      /\ T[a + 1] = r.method /\ T[a + 2] = " " /\ T[a + 3] = "/"
      /\ \A i \in 1..P : T[a + 3 + i] = r.path[i]
      /\ T[a + 4 + P] = " " /\ T[a + 5 + P] = "HTTP" /\ T[a + 6 + P] = "/"
      /\ T[a + 7 + P] = "1.1"
  BY Zenon DEF Stands
<1>2. /\ r.method \in Methods
      /\ \A i \in 1..P : r.path[i] \notin Methods \union {" ", "CR", "LF"}
      /\ P # 0 => r.path[P] # ":"
  <2>1. /\ r.method \in Methods /\ r.path \in Seq(STRING)
        /\ \A i \in DOMAIN r.path : r.path[i] \notin Methods \union {" ", "CR", "LF"}
        /\ r.path # <<>> => r.path[Len(r.path)] # ":"
    <3>1. /\ r.method \in Methods /\ r.path \in Seq(STRING)
          /\ \A i \in DOMAIN r.path : r.path[i] \notin {" ", "CR", "LF"}
          /\ \A i \in DOMAIN r.path : r.path[i] \notin Methods
          /\ r.path # <<>> => r.path[Len(r.path)] # ":"
      BY Zenon DEF Plain, RequestOK, Clear
    <3> QED
      BY <3>1, Zenon
  <2>2. DOMAIN r.path = 1..P /\ (P # 0 => r.path # <<>>)
    BY <2>1, LenProperties, EmptySeq
  <2> QED
    BY <2>1, <2>2, Zenon
<1> HIDE DEF P
<1>3. ASSUME NEW u \in (a + 1)..(a + 7 + P)
      PROVE  /\ T[u] # "CR" /\ T[u] # "LF"
             /\ T[u] \in Methods <=> u = a + 1
             /\ T[u] = " " <=> u = a + 2 \/ u = a + 4 + P
             /\ T[u] = ":" => a + 4 <= u /\ u <= a + 2 + P
  <2>0. a \in Nat /\ P \in Nat /\ u \in Nat /\ a + 1 <= u /\ u <= a + 7 + P
    <3>1. a \in Nat /\ P \in Nat
      BY <1>1, Zenon
    <3> QED
      BY <3>1
  <2>1. CASE u = a + 1
    <3>1. u # a + 2 /\ u # a + 4 + P
      BY <2>0, <2>1
    <3>2. T[u] \in Methods
      BY <1>1, <1>2, <2>1, Zenon
    <3>3. T[u] # "CR" /\ T[u] # "LF" /\ T[u] # " " /\ T[u] # ":"
      BY <3>2 DEF Methods
    <3> QED
      BY <2>1, <3>1, <3>2, <3>3, Zenon
  <2>2. CASE u = a + 2 \/ u = a + 4 + P
    <3>1. u # a + 1
      BY <2>0, <2>2
    <3>2. T[u] = " "
      BY <1>1, <2>2, Zenon
    <3>3. T[u] # "CR" /\ T[u] # "LF" /\ T[u] \notin Methods /\ T[u] # ":"
      BY <3>2 DEF Methods
    <3> QED
      BY <2>2, <3>1, <3>2, <3>3, Zenon
  <2>3. CASE u = a + 3 \/ u = a + 5 + P \/ u = a + 6 + P \/ u = a + 7 + P
    <3>1. u # a + 1 /\ u # a + 2 /\ u # a + 4 + P
      BY <2>0, <2>3
    <3>2. T[u] \in {"/", "HTTP", "1.1"}
      BY <1>1, <2>3, Zenon
    <3>3. T[u] # "CR" /\ T[u] # "LF" /\ T[u] \notin Methods /\ T[u] # " " /\ T[u] # ":"
      BY <3>2 DEF Methods
    <3> QED
      BY <3>1, <3>3, Zenon
  <2>4. CASE u - a - 3 \in 1..P
    <3> DEFINE i == u - a - 3
    <3>1. /\ u = a + 3 + i /\ u # a + 1 /\ u # a + 2 /\ u # a + 4 + P
          /\ a + 4 <= u /\ (u <= a + 2 + P \/ i = P)
      BY <2>0, <2>4
    <3>2. P # 0
      BY <2>0, <2>4
    <3>3. i \in 1..P
      BY <2>4
    <3> HIDE DEF i
    <3>4. T[u] = r.path[i]
      BY <1>1, <3>1, <3>3, Zenon
    <3>5. T[u] \notin Methods \union {" ", "CR", "LF"}
      BY <1>2, <3>3, <3>4, Zenon
    <3>6. T[u] # "CR" /\ T[u] # "LF" /\ T[u] \notin Methods /\ T[u] # " "
      BY <3>5, Zenon
    <3>7. i = P => T[u] # ":"
      BY <1>2, <3>2, <3>4, Zenon
    <3> QED
      BY <3>1, <3>6, <3>7, Zenon
  <2>5. \/ u = a + 1
        \/ u = a + 2 \/ u = a + 4 + P
        \/ u = a + 3 \/ u = a + 5 + P \/ u = a + 6 + P \/ u = a + 7 + P
        \/ u - a - 3 \in 1..P
    BY <2>0
  <2> QED
    BY <2>1, <2>2, <2>3, <2>4, <2>5, Zenon
<1> QED
  BY <1>3, Zenon DEF LineSymbols, P

\* ParseURI, by the line it finds.
Line(str) ==
  IF Find(str, "CR", 1) = npos THEN str ELSE SubSeq(str, 1, Find(str, "CR", 1) - 1)

\* ParseURI succeeds on a line in which it finds a method, and an HTTP version
\* behind it; anything else is a 400.
LEMMA ParseURIIs ==
  ASSUME NEW h
  PROVE  LET str == h.in_buffer_ IN
         ParseURI(h) =
           IF LineFits(Line(str))
           THEN [h EXCEPT !.in_buffer_ = SubSeq(str, Find(str, "CR", 1) + 1, Len(str)),
                          !.method_ = MethodIn(Line(str)),
                          !.file_name_ = FileName(Name(Line(str))),
                          !.state_ = "STATE_PARSE_HEADERS"]
           ELSE [h EXCEPT !.in_buffer_ = <<>>, !.error_ = "400"]
BY Zenon DEF ParseURI, Line, LineFits, Name, Slash, Space, Version

\* Without a method in the line there is an error.
LEMMA NoMethod ==
  ASSUME NEW h, NEW str \in Seq(Symbol), h.in_buffer_ = str,
         \A i \in 1..Len(str) : str[i] \notin Methods \/ \E j \in 1..i : str[j] = "CR"
  PROVE  ParseURI(h) = [h EXCEPT !.in_buffer_ = <<>>, !.error_ = "400"]
<1> DEFINE cr == Find(str, "CR", 1)
           line == Line(str)
           l == Len(line)
<1>1. Len(str) \in Nat
  BY LenProperties
<1>2. Found(str, "CR", 1, cr)
  BY <1>1, FindIs
<1>3. /\ l \in Nat /\ l <= Len(str)
      /\ \A i \in 1..l : line[i] = str[i] /\ str[i] # "CR"
  <2>1. CASE cr = npos
    <3>1. line = str
      BY <2>1, Zenon DEF Line
    <3>2. \A i \in 1..Len(str) : str[i] # "CR"
      <4>1. ~(cr \in 1..Len(str))
        BY <2>1, <1>1 DEF npos
      <4> QED
        BY <1>2, <4>1, Zenon DEF Found
    <3> QED
      BY <1>1, <3>1, <3>2
  <2>2. CASE cr # npos
    <3>1. /\ cr \in 1..Len(str) /\ \A i \in 1..(cr - 1) : str[i] # "CR"
      BY <1>2, <2>2, Zenon DEF Found
    <3>2. line = SubSeq(str, 1, cr - 1)
      BY <2>2, Zenon DEF Line
    <3> HIDE DEF cr, line
    <3>3. \A i \in 1..(cr - 1) : i \in 1..Len(str)
      BY <1>1, <3>1
    <3>4. cr \in Nat \ {0}
      BY <1>1, <3>1
    <3>5. \A i \in 1..(cr - 1) : str[i] \in Symbol
      BY <3>3, ElementOfSeq
    <3>6. /\ l = IF 1 <= cr - 1 THEN cr - 1 - 1 + 1 ELSE 0
          /\ \A i \in 1..(cr - 1 - 1 + 1) : line[i] = str[1 + i - 1]
      <4>1. cr - 1 \in Int
        BY <3>4
      <4> QED
        BY <3>2, <3>5, <4>1, SubSeqProperties
    <3> HIDE DEF l
    <3>7. l = cr - 1 /\ cr - 1 - 1 + 1 = cr - 1 /\ \A i \in 1..l : 1 + i - 1 = i
      BY <3>4, <3>6
    <3>8. l \in Nat /\ l <= Len(str)
      BY <1>1, <3>1, <3>7
    <3> QED
      BY <3>1, <3>6, <3>7, <3>8
  <2> QED
    BY <2>1, <2>2
<1> HIDE DEF cr, line
<1>4. \A i \in 1..l : line[i] \notin Methods
  <2>1. ASSUME NEW i \in 1..l PROVE line[i] \notin Methods
    <3>1. i \in 1..Len(str) /\ \A j \in 1..i : j \in 1..l
      BY <1>1, <1>3
    <3>2. ~ \E j \in 1..i : str[j] = "CR"
      BY <1>3, <3>1, Zenon
    <3> QED
      BY <1>3, <3>1, <3>2, Zenon
  <2> QED
    BY <2>1
<1>5. MethodIn(line) = "none"
  BY <1>4, Zenon DEF MethodIn, Contains, Methods
<1>6. ~LineFits(line)
  BY <1>5, Zenon DEF LineFits
<1> QED
  BY <1>6, ParseURIIs, Zenon DEF line

\* str is what follows the first b symbols of T.
Follows(str, T, b) == \A p \in 1..Len(str) : str[p] = T[b + p]

\* The line that ParseURI finds, w symbols in front of r.
LEMMA LineWithin ==
  ASSUME NEW r, Plain(r), NEW T, NEW a, Stands(T, a, r),
         NEW b \in Nat, NEW w \in {0, 1}, a = b + w, w = 1 => T[a] = "LF",
         NEW str \in Seq(Symbol), Follows(str, T, b)
  PROVE  LET P == Len(r.path)
             line == Line(str)
         IN
         /\ line \in Seq(Symbol) /\ LineOf(line, w, r)
         /\ IF w + 8 + P <= Len(str)
            THEN Len(line) = w + 7 + P /\ Find(str, "CR", 1) = w + 8 + P
            ELSE Len(line) = Len(str) /\ Find(str, "CR", 1) = npos
<1> DEFINE P == Len(r.path)
           N == Len(str)
           cr == Find(str, "CR", 1)
           line == Line(str)
           l == Len(line)
<1>1. /\ \A i \in 1..N : str[i] = T[b + i]
      /\ N \in Nat
  BY LenProperties, Zenon DEF Follows
<1>2. a \in Nat /\ P \in Nat /\ T[a + 8 + P] = "CR"
  BY Zenon DEF Stands
<1>3. LineSymbols(T, a, r)
  BY LineSymbolsAre, Zenon
<1>4. Found(str, "CR", 1, cr)
  BY <1>1, FindIs
<1> HIDE DEF P, N, cr, line, l
<1>0. a \in Nat /\ P \in Nat /\ N \in Nat /\ b \in Nat /\ w \in {0, 1} /\ a = b + w
  BY <1>1, <1>2, Zenon
<1>5. \A i \in 1..N : i <= w + 7 + P => str[i] # "CR"
  <2>1. ASSUME NEW i \in 1..N, i <= w + 7 + P PROVE str[i] # "CR"
    <3>1. CASE i <= w
      <4>1. i = 1 /\ w = 1 /\ b + i = a
        BY <1>0, <3>1
      <4>2. str[i] = "LF"
        BY <1>1, <4>1, Zenon
      <4> QED
        BY <4>2
    <3>2. CASE ~(i <= w)
      <4>1. b + i \in (a + 1)..(a + 7 + P)
        BY <1>0, <2>1, <3>2
      <4> QED
        BY <1>1, <1>3, <4>1, Zenon DEF LineSymbols, P
    <3> QED
      BY <3>1, <3>2
  <2> QED
    BY <2>1
<1>6. /\ IF w + 8 + P <= N THEN l = w + 7 + P /\ cr = w + 8 + P
                           ELSE l = N /\ cr = npos
      /\ line \in Seq(Symbol)
      /\ \A i \in 1..l : line[i] = str[i]
  <2>1. CASE w + 8 + P <= N
    <3>1. w + 8 + P \in 1..N /\ b + (w + 8 + P) = a + 8 + P
      BY <1>0, <2>1
    <3>2. str[w + 8 + P] = "CR"
      BY <1>1, <1>2, <3>1, Zenon
    <3>3. cr \in 1..N /\ str[cr] = "CR" /\ \A i \in 1..(cr - 1) : str[i] # "CR"
      BY <1>4, <3>1, <3>2, Zenon DEF Found, N
    <3>4. ~(cr <= w + 7 + P) /\ w + 8 + P \notin 1..(cr - 1)
      BY <1>5, <3>2, <3>3, Zenon
    <3>5. cr \in Nat /\ cr <= N
      <4>1. cr \in 1..N
        BY <3>3, Zenon
      <4> QED
        BY <1>0, <4>1
    <3>6. cr = w + 8 + P
      BY <1>0, <3>4, <3>5
    <3>7. cr # npos /\ cr - 1 = w + 7 + P
      BY <1>0, <3>6 DEF npos
    <3>8. line = SubSeq(str, 1, w + 7 + P)
      BY <3>7, Zenon DEF Line, line, cr
    <3>9. /\ \A i \in 1..(w + 7 + P) : i \in 1..N
          /\ w + 7 + P \in Int /\ 1 <= w + 7 + P /\ w + 7 + P - 1 + 1 = w + 7 + P
      BY <1>0, <2>1
    <3>10. \A i \in 1..(w + 7 + P) : str[i] \in Symbol
      BY <3>9, ElementOfSeq DEF N
    <3>11. /\ line \in Seq(Symbol) /\ l = w + 7 + P - 1 + 1
           /\ \A i \in 1..(w + 7 + P - 1 + 1) : line[i] = str[1 + i - 1]
      BY <3>8, <3>9, <3>10, SubSeqProperties DEF l
    <3>12. l = w + 7 + P /\ \A i \in 1..l : 1 + i - 1 = i
      BY <1>0, <3>9, <3>11
    <3> QED
      BY <2>1, <3>6, <3>11, <3>12, Zenon
  <2>2. CASE ~(w + 8 + P <= N)
    <3>1. \A i \in 1..N : i <= w + 7 + P
      BY <1>0, <2>2
    <3>2. cr = npos
      BY <1>4, <1>5, <3>1, Zenon DEF Found, N
    <3>3. line = str
      BY <3>2, Zenon DEF Line, line, cr
    <3> QED
      BY <2>2, <3>2, <3>3, Zenon DEF l, N
  <2> QED
    BY <2>1, <2>2
<1>7. l \in Nat /\ l <= N /\ l <= w + 7 + P
  <2>1. w + 8 + P <= N => l = w + 7 + P
    BY <1>6, Zenon
  <2>2. ~(w + 8 + P <= N) => l = N
    BY <1>6, Zenon
  <2> QED
    BY <1>0, <2>1, <2>2
<1>8. \A i \in 1..l : line[i] = T[b + i]
  <2>1. \A i \in 1..l : i \in 1..N
    BY <1>0, <1>7
  <2> QED
    BY <1>1, <1>6, <2>1, Zenon
<1>9. \A i \in 1..l : \/ i = 1 /\ w = 1 /\ line[i] = "LF"
                      \/ i # w /\ b + i \in (a + 1)..(a + 7 + P)
  <2>1. TAKE i \in 1..l
  <2>2. CASE i = w
    <3>1. i = 1 /\ w = 1 /\ b + i = a
      BY <1>0, <2>2
    <3> QED
      BY <1>8, <3>1, Zenon
  <2>3. CASE i # w
    <3>1. b + i \in (a + 1)..(a + 7 + P)
      BY <1>0, <1>7, <2>3
    <3> QED
      BY <2>3, <3>1
  <2> QED
    BY <2>2, <2>3
<1>10. LineOf(line, w, r)
  <2>1. \A i \in 1..l : line[i] \in Methods <=> i = w + 1
    <3>1. TAKE i \in 1..l
    <3>2. CASE i = 1 /\ w = 1 /\ line[i] = "LF"
      <4>1. i # w + 1
        BY <3>2
      <4>2. "LF" \notin Methods
        BY DEF Methods
      <4> QED
        BY <3>2, <4>1, <4>2, Zenon
    <3>3. CASE i # w /\ b + i \in (a + 1)..(a + 7 + P)
      <4>1. b + i = a + 1 <=> i = w + 1
        BY <1>0
      <4>2. T[b + i] \in Methods <=> b + i = a + 1
        BY <1>3, <3>3, Zenon DEF LineSymbols, P
      <4> QED
        BY <1>8, <4>1, <4>2, Zenon
    <3> QED
      BY <1>9, <3>2, <3>3, Zenon
  <2>2. \A i \in 1..l : line[i] = " " <=> i \in {w + 2, w + 4 + P}
    <3>1. TAKE i \in 1..l
    <3>2. CASE i = 1 /\ w = 1 /\ line[i] = "LF"
      <4>1. i \notin {w + 2, w + 4 + P}
        BY <1>0, <3>2
      <4>2. line[i] # " "
        BY <3>2
      <4> QED
        BY <4>1, <4>2, Zenon
    <3>3. CASE i # w /\ b + i \in (a + 1)..(a + 7 + P)
      <4>1. (b + i = a + 2 \/ b + i = a + 4 + P) <=> i \in {w + 2, w + 4 + P}
        BY <1>0
      <4>2. T[b + i] = " " <=> b + i = a + 2 \/ b + i = a + 4 + P
        BY <1>3, <3>3, Zenon DEF LineSymbols, P
      <4> QED
        BY <1>8, <4>1, <4>2, Zenon
    <3> QED
      BY <1>9, <3>2, <3>3, Zenon
  <2>3. /\ T[a + 1] = r.method /\ T[a + 3] = "/"
        /\ \A i \in 1..P : T[a + 3 + i] = r.path[i]
        /\ T[a + 5 + P] = "HTTP" /\ T[a + 6 + P] = "/" /\ T[a + 7 + P] = "1.1"
    BY Zenon DEF Stands, P
  <2>4. ASSUME NEW j \in 1..(7 + P), w + j <= l PROVE line[w + j] = T[a + j]
    <3>1. w + j \in 1..l /\ b + (w + j) = a + j
      BY <1>0, <2>4
    <3> QED
      BY <1>8, <3>1, Zenon
  <2>5. /\ 1 \in 1..(7 + P) /\ 3 \in 1..(7 + P)
        /\ \A i \in 1..P : /\ 3 + i \in 1..(7 + P)
                           /\ w + 3 + i = w + (3 + i) /\ a + 3 + i = a + (3 + i)
        /\ 5 + P \in 1..(7 + P) /\ w + 5 + P = w + (5 + P) /\ a + 5 + P = a + (5 + P)
        /\ 6 + P \in 1..(7 + P) /\ w + 6 + P = w + (6 + P) /\ a + 6 + P = a + (6 + P)
        /\ 7 + P \in 1..(7 + P) /\ w + 7 + P = w + (7 + P) /\ a + 7 + P = a + (7 + P)
    BY <1>0
  <2>6. /\ w + 1 <= l => line[w + 1] = r.method
        /\ w + 3 <= l => line[w + 3] = "/"
        /\ w + 5 + P <= l => line[w + 5 + P] = "HTTP"
        /\ w + 6 + P <= l => line[w + 6 + P] = "/"
        /\ w + 7 + P <= l => line[w + 7 + P] = "1.1"
        /\ \A i \in 1..P : w + 3 + i <= l => line[w + 3 + i] = r.path[i]
    <3>1. w + 1 <= l => line[w + 1] = r.method
      BY <2>3, <2>4, <2>5, Zenon
    <3>2. w + 3 <= l => line[w + 3] = "/"
      BY <2>3, <2>4, <2>5, Zenon
    <3>3. w + 5 + P <= l => line[w + 5 + P] = "HTTP"
      BY <2>3, <2>4, <2>5, Zenon
    <3>4. w + 6 + P <= l => line[w + 6 + P] = "/"
      BY <2>3, <2>4, <2>5, Zenon
    <3>5. w + 7 + P <= l => line[w + 7 + P] = "1.1"
      BY <2>3, <2>4, <2>5, Zenon
    <3>6. ASSUME NEW i \in 1..P, w + 3 + i <= l PROVE line[w + 3 + i] = r.path[i]
      <4>1. line[w + (3 + i)] = T[a + (3 + i)]
        BY <2>4, <2>5, <3>6, Zenon
      <4> QED
        BY <2>3, <2>5, <4>1, Zenon
    <3> QED
      BY <3>1, <3>2, <3>3, <3>4, <3>5, <3>6, Zenon
  <2>7. 1 <= l => line[1] \notin {"1.0", "1.1"}
    <3>1. SUFFICES ASSUME 1 <= l PROVE line[1] \notin {"1.0", "1.1"}
      OBVIOUS
    <3>2. CASE w = 1
      <4>1. 1 \in 1..l /\ b + 1 = a
        BY <1>0, <1>7, <3>1, <3>2
      <4>2. line[1] = "LF"
        BY <1>8, <3>2, <4>1, Zenon
      <4> QED
        BY <4>2
    <3>3. CASE w = 0
      <4>1. 1 \in 1..l /\ 1 = w + 1
        BY <1>7, <3>1, <3>3
      <4>2. line[1] \in Methods
        BY <2>1, <4>1, Zenon
      <4> QED
        BY <4>2 DEF Methods
    <3> QED
      BY <1>0, <3>2, <3>3
  <2> QED
    BY <1>7, <2>1, <2>2, <2>6, <2>7, Zenon DEF LineOf, l, P
<1> QED
  BY <1>6, <1>10, Zenon DEF P, N, cr, line, l

\* What ParseURI makes of the beginning of r, w symbols in front of it.
URIRead(h, q, str, w, r) ==
  LET P == Len(r.path) IN
  IF w + 7 + P <= Len(str)
  THEN q = [h EXCEPT !.in_buffer_ = IF w + 7 + P = Len(str) THEN str
                                    ELSE SubSeq(str, w + 9 + P, Len(str)),
                     !.method_ = r.method, !.file_name_ = Named(r),
                     !.state_ = "STATE_PARSE_HEADERS"]
  ELSE q = [h EXCEPT !.in_buffer_ = <<>>, !.error_ = "400"]

\* ParseURI on a buffer that begins at a request, or at the LF before it: its
\* own method and its own file, or a 400.
LEMMA URIWithin ==
  ASSUME NEW r, Plain(r), NEW T, NEW a, Stands(T, a, r),
         NEW b \in Nat, NEW w \in {0, 1}, a = b + w, w = 1 => T[a] = "LF",
         NEW h, NEW str \in Seq(Symbol), h.in_buffer_ = str, Follows(str, T, b)
  PROVE  URIRead(h, ParseURI(h), str, w, r)
<1> DEFINE P == Len(r.path)
           N == Len(str)
           cr == Find(str, "CR", 1)
           line == Line(str)
           l == Len(line)
<1>1. /\ line \in Seq(Symbol) /\ LineOf(line, w, r)
      /\ IF w + 8 + P <= N THEN l = w + 7 + P /\ cr = w + 8 + P ELSE l = N /\ cr = npos
  BY LineWithin, Zenon
<1>2. /\ LineFits(line) <=> l = w + 7 + P
      /\ l = w + 7 + P => MethodIn(line) = r.method /\ Name(line) = r.path
  <2>1. w \in Nat
    OBVIOUS
  <2> QED
    BY <1>1, <2>1, LineMeans, Zenon
<1>3. FileName(r.path) = Named(r)
  BY NamedIs, Zenon
<1>4. N \in Nat /\ P \in Nat
  BY LenProperties, Zenon DEF Stands
<1>5. ParseURI(h) =
        IF LineFits(line)
        THEN [h EXCEPT !.in_buffer_ = SubSeq(str, cr + 1, N),
                       !.method_ = MethodIn(line), !.file_name_ = FileName(Name(line)),
                       !.state_ = "STATE_PARSE_HEADERS"]
        ELSE [h EXCEPT !.in_buffer_ = <<>>, !.error_ = "400"]
  BY ParseURIIs, Zenon
<1> HIDE DEF P, N, cr, line, l
<1>6. LineFits(line) <=> w + 7 + P <= N
  <2>1. w + 8 + P <= N => l = w + 7 + P
    BY <1>1, Zenon
  <2>2. ~(w + 8 + P <= N) => l = N
    BY <1>1, Zenon
  <2>3. l = w + 7 + P <=> w + 7 + P <= N
    BY <1>4, <2>1, <2>2
  <2> QED
    BY <1>2, <2>3, Zenon
<1>7. CASE w + 7 + P <= N
  <2>1. l = w + 7 + P
    BY <1>2, <1>6, <1>7, Zenon
  <2>2. SubSeq(str, cr + 1, N) = IF w + 7 + P = N THEN str ELSE SubSeq(str, w + 9 + P, N)
    <3>1. CASE w + 7 + P = N
      <4>1. ~(w + 8 + P <= N)
        BY <1>4, <3>1
      <4>2. cr + 1 = 1
        BY <1>1, <4>1 DEF npos
      <4>3. SubSeq(str, 1, N) = str
        BY SubSeqFull DEF N
      <4> QED
        BY <3>1, <4>2, <4>3, Zenon
    <3>2. CASE w + 7 + P # N
      <4>1. w + 8 + P <= N
        BY <1>4, <1>7, <3>2
      <4>2. cr = w + 8 + P
        BY <1>1, <4>1, Zenon
      <4>3. cr + 1 = w + 9 + P
        BY <1>4, <4>2
      <4> QED
        BY <3>2, <4>3, Zenon
    <3> QED
      BY <3>1, <3>2
  <2> DEFINE rest == SubSeq(str, cr + 1, N)
  <2>3. ParseURI(h) = [h EXCEPT !.in_buffer_ = rest, !.method_ = r.method,
                                !.file_name_ = Named(r),
                                !.state_ = "STATE_PARSE_HEADERS"]
    BY <1>2, <1>3, <1>5, <1>6, <1>7, <2>1, Zenon
  <2> QED
    BY <1>7, <2>2, <2>3, Zenon DEF URIRead, P, N
<1>8. CASE ~(w + 7 + P <= N)
  BY <1>5, <1>6, <1>8, Zenon DEF URIRead, P, N
<1> QED
  BY <1>7, <1>8

-----------------------------------------------------------------------------
\* Where the loop of ParseHeaders is: h is its state, its line begins behind B
\* symbols of T, and u are scanned.

\* A header from x to e.
HeaderAt(T, x, e) ==
  /\ x \in Nat \ {0} /\ e \in Nat /\ x + 6 <= e
  /\ T[x] = "LF" /\ T[x + 1] \notin {":", " ", "CR", "LF"}
  /\ T[x + 2] = ":" /\ T[x + 3] = " "
  /\ \A u \in (x + 4)..(e - 2) : T[u] # "CR"
  /\ T[e - 1] = "CR" /\ T[e] = "LF"

\* In the header from x to e; u = B when a read begins there.
InHeader(x, e, h, B, u) ==
  \/ h = "H_KEY" /\ (u = B \/ u = x + 1)
  \/ h = "H_COLON" /\ (u = B \/ u = x + 2)
  \/ h = "H_SPACES_AFTER_COLON" /\ (u = B \/ u = x + 3)
  \/ h = "H_VALUE" /\ B <= u /\ u <= e - 2
  \/ h = "H_CR" /\ (u = B \/ u = e - 1)

\* Behind the line that ends at x.
BehindLine(x, h, B, u) ==
  h \in {"H_LF", "H_KEY"} /\ B = x - 1 /\ (u = B \/ u = x)

\* In the empty line behind the headers, which end at x.
InEmptyLine(x, h, B, u) ==
  /\ B = x - 1
  /\ \/ h = "H_END_CR" /\ (u = B \/ u = x + 1)
     \/ h = "H_END_LF" /\ (u = x \/ u = x + 2)

\* One turn in a header leaves it only at its end; a read that begins with the
\* state H_CR goes on behind the line before.
LEMMA HeaderTurn ==
  ASSUME NEW T, NEW x, NEW e, HeaderAt(T, x, e),
         NEW B \in {x - 1, x}, NEW u \in Nat, NEW h, InHeader(x, e, h, B, u),
         NEW g, NEW C, NEW done, Moves(h, B, u, T[u + 1], g, C, done)
  PROVE  \/ g = "error"
         \/ ~done /\ C = B /\ InHeader(x, e, g, B, u + 1)
         \/ ~done /\ BehindLine(e, g, C, u + 1)
         \/ ~done /\ BehindLine(x, g, C, u + 1)
<1> DEFINE c == T[u + 1]
<1>1. /\ x \in Nat /\ e \in Nat /\ B \in Nat /\ 1 <= x /\ x + 6 <= e
      /\ x - 1 <= B /\ B <= x /\ u \in Nat
  <2>1. x \in Nat \ {0} /\ e \in Nat /\ x + 6 <= e
    BY Zenon DEF HeaderAt
  <2> QED
    BY <2>1
<1>2. /\ T[x] = "LF" /\ T[x + 1] \notin {":", " ", "CR", "LF"}
      /\ T[x + 2] = ":" /\ T[x + 3] = " "
      /\ \A v \in (x + 4)..(e - 2) : T[v] # "CR"
      /\ T[e - 1] = "CR" /\ T[e] = "LF"
  BY Zenon DEF HeaderAt
<1>3. Moves(h, B, u, c, g, C, done)
  OBVIOUS
<1>4. u = B => c # " " /\ c # ":"
  <2>1. u = B => u + 1 = x \/ u + 1 = x + 1
    BY <1>1
  <2>2. T[x] # " " /\ T[x + 1] # " " /\ T[x] # ":" /\ T[x + 1] # ":"
    BY <1>2
  <2> QED
    BY <2>1, <2>2, Zenon
<1> HIDE DEF c
<1>5. CASE h = "H_KEY"
  <2>1. u = B \/ u = x + 1
    BY <1>5 DEF InHeader
  <2>2. CASE u = B
    <3>1. c # ":"
      BY <1>4, <2>2
    <3>2. CASE c \in {"CR", "LF"}
      BY <1>3, <1>5, <3>1, <3>2 DEF Moves, Keeps, Opens, Fails
    <3>3. CASE c \notin {"CR", "LF"}
      <4>1. u # x - 1
        <5>1. u = x - 1 => u + 1 = x
          BY <1>1
        <5>2. u = x - 1 => c = "LF"
          BY <1>2, <5>1, Zenon DEF c
        <5> QED
          BY <3>3, <5>2
      <4>2. u + 1 = x + 1
        BY <1>1, <2>2, <4>1
      <4>3. ~done /\ g = "H_KEY" /\ C = B
        BY <1>3, <1>5, <3>1, <3>3 DEF Moves, Keeps, Opens, Fails
      <4> QED
        BY <4>2, <4>3, Zenon DEF InHeader
    <3> QED
      BY <3>2, <3>3
  <2>3. CASE u = x + 1
    <3>1. u + 1 = x + 2
      BY <1>1, <2>3
    <3>2. c = ":"
      BY <1>2, <3>1, Zenon DEF c
    <3>3. ~done /\ g \in {"H_COLON", "error"} /\ C = B
      BY <1>3, <1>5, <3>2 DEF Moves, Keeps, Opens, Fails
    <3> QED
      BY <3>1, <3>3, Zenon DEF InHeader
  <2> QED
    BY <2>1, <2>2, <2>3
<1>6. CASE h = "H_COLON"
  <2>1. u = B \/ u = x + 2
    BY <1>6 DEF InHeader
  <2>2. CASE u = B
    <3>1. c # " "
      BY <1>4, <2>2
    <3> QED
      BY <1>3, <1>6, <3>1 DEF Moves, Keeps, Opens, Fails
  <2>3. CASE u = x + 2
    <3>1. u + 1 = x + 3
      BY <1>1, <2>3
    <3>2. g = "error" \/ (~done /\ g = "H_SPACES_AFTER_COLON" /\ C = B)
      BY <1>3, <1>6 DEF Moves, Keeps, Opens, Fails
    <3> QED
      BY <3>1, <3>2, Zenon DEF InHeader
  <2> QED
    BY <2>1, <2>2, <2>3
<1>7. CASE h = "H_SPACES_AFTER_COLON"
  <2>1. u = B \/ u = x + 3
    BY <1>7 DEF InHeader
  <2>2. B <= u + 1 /\ u + 1 <= e - 2
    BY <1>1, <2>1
  <2>3. ~done /\ g = "H_VALUE" /\ C = B
    BY <1>3, <1>7 DEF Moves, Keeps, Opens, Fails
  <2> QED
    BY <2>2, <2>3, Zenon DEF InHeader
<1>8. CASE h = "H_VALUE"
  <2>1. B <= u /\ u <= e - 2
    BY <1>8 DEF InHeader
  <2>2. CASE u = e - 2
    <3>1. u + 1 = e - 1
      BY <1>1, <2>2
    <3>2. c = "CR"
      BY <1>2, <3>1, Zenon DEF c
    <3>3. ~done /\ g \in {"H_CR", "error"} /\ C = B
      BY <1>3, <1>8, <3>2 DEF Moves, Keeps, Opens, Fails
    <3> QED
      BY <3>1, <3>3, Zenon DEF InHeader
  <2>3. CASE u # e - 2
    <3>1. B <= u + 1 /\ u + 1 <= e - 2
      BY <1>1, <2>1, <2>3
    <3>2. c # "CR"
      <4>1. \/ u + 1 = x \/ u + 1 = x + 1 \/ u + 1 = x + 2 \/ u + 1 = x + 3
            \/ u + 1 \in (x + 4)..(e - 2)
        BY <1>1, <2>1, <3>1
      <4>2. T[x] # "CR" /\ T[x + 1] # "CR" /\ T[x + 2] # "CR" /\ T[x + 3] # "CR"
        BY <1>2
      <4> QED
        BY <1>2, <4>1, <4>2, Zenon DEF c
    <3>3. ~done /\ g \in {"H_VALUE", "error"} /\ C = B
      BY <1>3, <1>8, <3>2 DEF Moves, Keeps, Opens, Fails
    <3> QED
      BY <3>1, <3>3, Zenon DEF InHeader
  <2> QED
    BY <2>2, <2>3
<1>9. CASE h = "H_CR"
  <2>1. u = B \/ u = e - 1
    BY <1>9 DEF InHeader
  <2>2. CASE u = e - 1
    <3>1. u + 1 = e
      BY <1>1, <2>2
    <3>2. g = "error" \/ (~done /\ g = "H_LF" /\ C = u)
      BY <1>3, <1>9 DEF Moves, Keeps, Opens, Fails
    <3> QED
      BY <2>2, <3>1, <3>2, Zenon DEF BehindLine
  <2>3. CASE u = x - 1
    <3>1. u + 1 = x
      BY <1>1, <2>3
    <3>2. g = "error" \/ (~done /\ g = "H_LF" /\ C = u)
      BY <1>3, <1>9 DEF Moves, Keeps, Opens, Fails
    <3> QED
      BY <2>3, <3>1, <3>2, Zenon DEF BehindLine
  <2>4. CASE u = x
    <3>1. c # "LF"
      <4>1. T[x + 1] # "LF"
        BY <1>2
      <4> QED
        BY <2>4, <4>1, Zenon DEF c
    <3> QED
      BY <1>3, <1>9, <3>1 DEF Moves, Keeps, Opens, Fails
  <2>5. u = e - 1 \/ u = x - 1 \/ u = x
    BY <1>1, <2>1
  <2> QED
    BY <2>2, <2>3, <2>4, <2>5
<1> QED
  BY <1>5, <1>6, <1>7, <1>8, <1>9 DEF InHeader

\* Behind a line comes a header, or the empty line.
LEMMA LineTurn ==
  ASSUME NEW T, NEW x \in Nat \ {0}, T[x] = "LF", NEW e,
         T[x + 1] = "CR" \/ HeaderAt(T, x, e),
         NEW B, NEW u, NEW h, BehindLine(x, h, B, u),
         NEW g, NEW C, NEW done, Moves(h, B, u, T[u + 1], g, C, done)
  PROVE  \/ g = "error"
         \/ ~done /\ BehindLine(x, g, C, u + 1)
         \/ ~done /\ T[x + 1] = "CR" /\ InEmptyLine(x, g, C, u + 1)
         \/ ~done /\ HeaderAt(T, x, e) /\ C = x - 1 /\ InHeader(x, e, g, C, u + 1)
<1> DEFINE c == T[u + 1]
<1>1. Moves(h, B, u, c, g, C, done)
  OBVIOUS
<1>2. h \in {"H_LF", "H_KEY"} /\ B = x - 1 /\ (u = B \/ u = x)
  BY Zenon DEF BehindLine
<1> HIDE DEF c
<1>3. CASE u = B
  <2>1. u + 1 = x
    BY <1>2, <1>3
  <2>2. c = "LF"
    BY <2>1, Zenon DEF c
  <2>3. CASE h = "H_KEY"
    BY <1>1, <2>2, <2>3 DEF Moves, Keeps, Opens, Fails
  <2>4. CASE h = "H_LF"
    <3>1. ~done /\ g = "H_KEY" /\ C = B
      BY <1>1, <2>2, <2>4 DEF Moves, Keeps, Opens, Fails
    <3> QED
      BY <1>2, <2>1, <3>1, Zenon DEF BehindLine
  <2> QED
    BY <1>2, <2>3, <2>4
<1>4. CASE u = x
  <2>1. c = T[x + 1]
    BY <1>4, Zenon DEF c
  <2>2. CASE c = "CR"
    <3>1. CASE h = "H_KEY"
      BY <1>1, <2>2, <3>1 DEF Moves, Keeps, Opens, Fails
    <3>2. CASE h = "H_LF"
      <4>1. ~done /\ g = "H_END_CR" /\ C = B
        BY <1>1, <2>2, <3>2 DEF Moves, Keeps, Opens, Fails
      <4> QED
        BY <1>2, <1>4, <2>1, <2>2, <4>1, Zenon DEF InEmptyLine
    <3> QED
      BY <1>2, <3>1, <3>2
  <2>3. CASE c # "CR"
    <3>1. HeaderAt(T, x, e)
      BY <2>1, <2>3
    <3>2. c \notin {":", " ", "CR", "LF"}
      BY <2>1, <3>1, Zenon DEF HeaderAt
    <3>3. ~done /\ g = "H_KEY" /\ C = B
      BY <1>1, <1>2, <3>2 DEF Moves, Keeps, Opens, Fails
    <3> QED
      BY <1>2, <1>4, <3>1, <3>3, Zenon DEF InHeader
  <2> QED
    BY <2>2, <2>3
<1> QED
  BY <1>2, <1>3, <1>4

\* The empty line ends the headers.
LEMMA EmptyLineTurn ==
  ASSUME NEW T, NEW x \in Nat \ {0},
         NEW B, NEW u, NEW h, InEmptyLine(x, h, B, u),
         NEW g, NEW C, NEW done, Moves(h, B, u, T[u + 1], g, C, done)
  PROVE  \/ g = "error"
         \/ ~done /\ InEmptyLine(x, g, C, u + 1)
         \/ done /\ g = "H_END_LF" /\ (u = x \/ u = x + 2)
<1> DEFINE c == T[u + 1]
<1>1. Moves(h, B, u, c, g, C, done)
  OBVIOUS
<1>2. /\ B = x - 1
      /\ \/ h = "H_END_CR" /\ (u = B \/ u = x + 1)
         \/ h = "H_END_LF" /\ (u = x \/ u = x + 2)
  BY Zenon DEF InEmptyLine
<1> HIDE DEF c
<1>3. CASE h = "H_END_CR"
  <2>1. g = "error" \/ (~done /\ g = "H_END_LF" /\ C = B)
    BY <1>1, <1>3 DEF Moves, Keeps, Opens, Fails
  <2>2. u = B \/ u = x + 1
    BY <1>2, <1>3
  <2>3. u + 1 = x \/ u + 1 = x + 2
    BY <1>2, <2>2
  <2> QED
    BY <1>2, <2>1, <2>3, Zenon DEF InEmptyLine
<1>4. CASE h = "H_END_LF"
  <2>1. done /\ g = "H_END_LF"
    BY <1>1, <1>4 DEF Moves, Keeps, Opens, Fails
  <2>2. u = x \/ u = x + 2
    BY <1>2, <1>4
  <2> QED
    BY <2>1, <2>2
<1> QED
  BY <1>2, <1>3, <1>4

\* In the request line of r, which is taken for a header.
InRequestLine(r, a, h, B, u) ==
  LET P == Len(r.path) IN
  /\ B = a
  /\ \/ h = "H_KEY" /\ a <= u /\ u <= a + 7 + P
     \/ h = "H_COLON" /\ (u = a \/ (a + 4 <= u /\ u <= a + 2 + P))

\* It stays there until an error.
LEMMA RequestLineTurn ==
  ASSUME NEW T, NEW a, NEW r, Plain(r), Stands(T, a, r),
         NEW B, NEW u \in Nat, NEW h, InRequestLine(r, a, h, B, u),
         NEW g, NEW C, NEW done, Moves(h, B, u, T[u + 1], g, C, done)
  PROVE  \/ g = "error"
         \/ ~done /\ InRequestLine(r, a, g, C, u + 1)
<1> DEFINE c == T[u + 1]
           P == Len(r.path)
<1>1. Moves(h, B, u, c, g, C, done)
  OBVIOUS
<1>2. a \in Nat /\ P \in Nat /\ T[a + 8 + P] = "CR"
  BY Zenon DEF Stands
<1>3. \A v \in (a + 1)..(a + 7 + P) :
        /\ T[v] # "CR" /\ T[v] # "LF"
        /\ T[v] = " " <=> v = a + 2 \/ v = a + 4 + P
        /\ T[v] = ":" => a + 4 <= v /\ v <= a + 2 + P
  <2>1. LineSymbols(T, a, r)
    BY LineSymbolsAre, Zenon
  <2> QED
    BY <2>1 DEF LineSymbols
<1>4. /\ B = a
      /\ \/ h = "H_KEY" /\ a <= u /\ u <= a + 7 + P
         \/ h = "H_COLON" /\ (u = a \/ (a + 4 <= u /\ u <= a + 2 + P))
  BY Zenon DEF InRequestLine
<1> HIDE DEF c, P
<1>0. a \in Nat /\ P \in Nat
  BY <1>2, Zenon
<1>5. CASE h = "H_KEY"
  <2>1. a <= u /\ u <= a + 7 + P
    BY <1>4, <1>5
  <2>2. CASE u = a + 7 + P
    <3>1. u + 1 = a + 8 + P
      BY <1>0, <2>2
    <3>2. c = "CR"
      BY <1>2, <3>1, Zenon DEF c
    <3> QED
      BY <1>1, <1>5, <3>2 DEF Moves, Keeps, Opens, Fails
  <2>3. CASE u # a + 7 + P
    <3>1. u + 1 \in (a + 1)..(a + 7 + P) /\ a <= u + 1 /\ u + 1 <= a + 7 + P
      BY <1>0, <2>1, <2>3
    <3>2. c # "CR" /\ c # "LF" /\ (c = ":" => a + 4 <= u + 1 /\ u + 1 <= a + 2 + P)
      BY <1>3, <3>1, Zenon DEF c
    <3>3. CASE c = ":"
      <4>1. ~done /\ g \in {"H_COLON", "error"} /\ C = B
        BY <1>1, <1>5, <3>3 DEF Moves, Keeps, Opens, Fails
      <4> QED
        BY <1>4, <3>2, <3>3, <4>1, Zenon DEF InRequestLine, P
    <3>4. CASE c # ":"
      <4>1. ~done /\ g = "H_KEY" /\ C = B
        BY <1>1, <1>5, <3>2, <3>4 DEF Moves, Keeps, Opens, Fails
      <4> QED
        BY <1>4, <3>1, <4>1, Zenon DEF InRequestLine, P
    <3> QED
      BY <3>3, <3>4
  <2> QED
    BY <2>2, <2>3
<1>6. CASE h = "H_COLON"
  <2>1. u = a \/ (a + 4 <= u /\ u <= a + 2 + P)
    BY <1>4, <1>6
  <2>2. u + 1 \in (a + 1)..(a + 7 + P) /\ u + 1 # a + 2 /\ u + 1 # a + 4 + P
    BY <1>0, <2>1
  <2>3. c # " "
    BY <1>3, <2>2, Zenon DEF c
  <2> QED
    BY <1>1, <1>6, <2>3 DEF Moves, Keeps, Opens, Fails
<1> QED
  BY <1>4, <1>5, <1>6

\* The headers of a request that stands in T.
LEMMA HeadersStand ==
  ASSUME NEW T, NEW a, NEW r, Plain(r), Stands(T, a, r),
         NEW j \in 1..Len(r.headers)
  PROVE  HeaderAt(T, EndAt(r, a)[j - 1], EndAt(r, a)[j])
<1> DEFINE X == EndAt(r, a)
           m == Len(r.headers)
           x == X[j - 1]
           e == X[j]
           v == r.headers[j].value
           n == Len(v)
<1>1. m \in Nat /\ a \in Nat
  BY Zenon DEF Stands
<1>2. j - 1 \in 0..m /\ j \in 0..m
  BY <1>1
<1>3. /\ x \in Nat /\ a < x /\ T[x] = "LF"
      /\ e \in Nat /\ e = x + 5 + n
      /\ LineLaid(T, x, r.headers[j])
  BY <1>2, Zenon DEF Stands
<1>4. /\ n \in Nat \ {0} /\ T[x + 1] = r.headers[j].key /\ T[x + 2] = ":"
      /\ T[x + 3] = " " /\ \A i \in 1..n : T[x + 3 + i] = v[i]
      /\ T[x + 4 + n] = "CR" /\ T[x + 5 + n] = "LF"
  BY <1>3, Zenon DEF LineLaid
<1>5. /\ r.headers[j].key \notin {":", " ", "CR", "LF"}
      /\ \A i \in 1..n : v[i] # "CR"
  <2>1. DOMAIN r.headers = 1..m /\ r.headers[j].value \in Seq(STRING)
    <3>1. r.headers \in Seq([key : STRING, value : Seq(STRING)])
      BY Zenon DEF Plain, RequestOK, Clear
    <3>2. r.headers[j] \in [key : STRING, value : Seq(STRING)]
      BY <3>1, ElementOfSeq
    <3> QED
      BY <3>1, <3>2, LenProperties
  <2>2. j \in DOMAIN r.headers /\ DOMAIN v = 1..n
    BY <2>1, LenProperties
  <2> QED
    BY <2>2, Zenon DEF Plain, RequestOK, Clear
<1> HIDE DEF X, m, x, e, v, n
<1>0. x \in Nat \ {0} /\ e \in Nat /\ n \in Nat \ {0} /\ e = x + 5 + n
  <2>1. x \in Nat /\ a < x /\ e = x + 5 + n /\ n \in Nat \ {0} /\ e \in Nat
    BY <1>3, <1>4, Zenon
  <2> QED
    BY <1>1, <2>1
<1>6. ASSUME NEW u \in (x + 4)..(e - 2) PROVE T[u] # "CR"
  <2>1. u - x - 3 \in 1..n /\ u = x + 3 + (u - x - 3)
    BY <1>0
  <2> QED
    BY <1>4, <1>5, <2>1, Zenon
<1>7. e - 1 = x + 4 + n /\ e = x + 5 + n /\ x + 6 <= e
  BY <1>0
<1>8. T[x + 1] \notin {":", " ", "CR", "LF"} /\ T[e - 1] = "CR" /\ T[e] = "LF"
  BY <1>4, <1>5, <1>7, Zenon
<1>9. HeaderAt(T, x, e)
  BY <1>0, <1>3, <1>4, <1>6, <1>7, <1>8, Zenon DEF HeaderAt
<1> QED
  BY <1>9, Zenon DEF X, x, e

\* In the part of r behind its request line.
InHeaders(r, a, h, B, u) ==
  LET X == EndAt(r, a)
      m == Len(r.headers)
  IN
  \/ /\ h = "H_START" /\ B = X[0] - 1 /\ B <= u
     /\ u <= X[0] \/ (m = 0 /\ u <= X[0] + 2)
  \/ \E j \in 1..m : /\ B = X[j - 1] - 1 \/ (j = 1 /\ B = X[0])
                     /\ InHeader(X[j - 1], X[j], h, B, u)
  \/ \E j \in 0..m : BehindLine(X[j], h, B, u)
  \/ InEmptyLine(X[m], h, B, u)

\* Where it ends.
LastOf(r, a) == EndAt(r, a)[Len(r.headers)] + 2

\* Before the request line.
BeforeRequestLine(a, h, B, u) ==
  h = "H_START" /\ (B = a \/ B = a - 1) /\ B <= u /\ u <= a

\* Where ParseHeaders may be in r, which stands in T behind a symbols; when r
\* has no headers, it goes on into q, which follows if more is TRUE.
Place(r, a, more, q, h, B, u) ==
  \/ InHeaders(r, a, h, B, u)
  \/ BeforeRequestLine(a, h, B, u)
  \/ InRequestLine(r, a, h, B, u)
  \/ more /\ r.headers = <<>> /\ InRequestLine(q, LastOf(r, a), h, B, u)

\* What is around.
Around(T, r, a, more, q) ==
  /\ Plain(r) /\ Stands(T, a, r)
  /\ a = 0 \/ T[a] = "LF"
  /\ more => Plain(q) /\ Stands(T, LastOf(r, a), q)

\* After a turn on the character behind u: an error, another place, or the end.
Turned(r, a, more, q, u, g, C, done) ==
  \/ g = "error"
  \/ ~done /\ Place(r, a, more, q, g, C, u + 1)
  \/ /\ done /\ g = "H_END_LF"
     /\ u + 1 = LastOf(r, a) - 1 \/ u + 1 = LastOf(r, a) + 1

\* One turn of the loop goes from a place in the text to the next one, ends the
\* headers of the request or of the one behind it, or fails.
LEMMA PlaceTurn ==
  ASSUME NEW T, NEW r, NEW a, NEW more, NEW q, Around(T, r, a, more, q),
         NEW B \in Nat, NEW u \in Nat, NEW h, Place(r, a, more, q, h, B, u),
         more \/ u < LastOf(r, a),
         NEW g, NEW C, NEW done, Moves(h, B, u, T[u + 1], g, C, done)
  PROVE  Turned(r, a, more, q, u, g, C, done)
<1> DEFINE X == EndAt(r, a)
           m == Len(r.headers)
           e == LastOf(r, a)
           c == T[u + 1]
<1> SUFFICES \/ g = "error"
             \/ ~done /\ Place(r, a, more, q, g, C, u + 1)
             \/ /\ done /\ g = "H_END_LF"
                /\ u + 1 = LastOf(r, a) - 1 \/ u + 1 = LastOf(r, a) + 1
  BY Zenon DEF Turned
<1>1. /\ Plain(r) /\ Stands(T, a, r) /\ (a = 0 \/ T[a] = "LF")
      /\ more => Plain(q) /\ Stands(T, e, q)
  BY Zenon DEF Around
<1>2. /\ a \in Nat /\ m \in Nat /\ T[a + 1] = r.method
      /\ \A j \in 0..m : X[j] \in Nat /\ a < X[j] /\ T[X[j]] = "LF"
      /\ T[X[m] + 1] = "CR" /\ T[X[m] + 2] = "LF"
  BY <1>1, Zenon DEF Stands
<1>3. e = X[m] + 2
  BY Zenon DEF LastOf
<1>4. \A j \in 1..m : HeaderAt(T, X[j - 1], X[j])
  BY <1>1, HeadersStand, Zenon
<1>5. Moves(h, B, u, c, g, C, done)
  OBVIOUS
<1>6. r.method \in Methods /\ (m = 0 => r.headers = <<>>)
  <2>1. r.method \in Methods /\ r.headers \in Seq([key : STRING, value : Seq(STRING)])
    BY <1>1, Zenon DEF Plain, RequestOK, Clear
  <2> QED
    BY <2>1, EmptySeq
<1> HIDE DEF X, m, e, c
<1>0. /\ a \in Nat /\ m \in Nat
      /\ \A j \in 0..m : X[j] \in Nat /\ a < X[j] /\ X[j] \in Nat \ {0}
  <2>1. a \in Nat /\ m \in Nat /\ \A j \in 0..m : X[j] \in Nat /\ a < X[j]
    BY <1>2, Zenon
  <2> QED
    BY <2>1
<1>7. CASE BeforeRequestLine(a, h, B, u)
  <2>1. h = "H_START" /\ (B = a \/ B = a - 1) /\ B <= u /\ u <= a
    BY <1>7, Zenon DEF BeforeRequestLine
  <2>2. CASE u = a
    <3>1. c = r.method
      BY <1>2, <2>2, Zenon DEF c
    <3>2. c # "CR" /\ c # "LF"
      BY <1>6, <3>1 DEF Methods
    <3>3. ~done /\ g = "H_KEY" /\ C = u
      BY <1>5, <2>1, <3>2 DEF Moves, Keeps, Opens, Fails
    <3>4. a <= u + 1 /\ u + 1 <= a + 7 + Len(r.path) /\ C = a
      <4>1. Len(r.path) \in Nat
        BY <1>1, Zenon DEF Stands
      <4> QED
        <5>1. C = a /\ u = a
          BY <2>2, <3>3, Zenon
        <5> DEFINE P == Len(r.path)
        <5>2. a \in Nat /\ P \in Nat
          BY <1>0, <4>1, Zenon
        <5> HIDE DEF P
        <5>3. a <= a + 1 /\ a + 1 <= a + 7 + P
          BY <5>2
        <5> QED
          BY <5>1, <5>3, Zenon DEF P
    <3> QED
      BY <3>3, <3>4, Zenon DEF Place, InRequestLine
  <2>3. CASE u # a
    <3>1. u + 1 = a /\ a # 0 /\ B <= u + 1 /\ u + 1 <= a
      BY <1>0, <2>1, <2>3
    <3>2. c = "LF"
      BY <1>1, <3>1, Zenon DEF c
    <3>3. ~done /\ g = "H_START" /\ C = B
      BY <1>5, <2>1, <3>2 DEF Moves, Keeps, Opens, Fails
    <3> QED
      BY <2>1, <3>1, <3>3, Zenon DEF Place, BeforeRequestLine
  <2> QED
    BY <2>2, <2>3
<1>8. CASE InRequestLine(r, a, h, B, u)
  <2>1. g = "error" \/ (~done /\ InRequestLine(r, a, g, C, u + 1))
    BY <1>1, <1>5, <1>8, RequestLineTurn, Zenon DEF c
  <2> QED
    BY <2>1, Zenon DEF Place
<1>9. CASE more /\ r.headers = <<>> /\ InRequestLine(q, LastOf(r, a), h, B, u)
  <2>1. g = "error" \/ (~done /\ InRequestLine(q, e, g, C, u + 1))
    BY <1>1, <1>5, <1>9, RequestLineTurn, Zenon DEF c, e
  <2> QED
    BY <1>9, <2>1, Zenon DEF Place, e
<1>10. CASE InHeaders(r, a, h, B, u)
  <2>1. \/ /\ h = "H_START" /\ B = X[0] - 1 /\ B <= u
           /\ u <= X[0] \/ (m = 0 /\ u <= X[0] + 2)
        \/ \E j \in 1..m : /\ B = X[j - 1] - 1 \/ (j = 1 /\ B = X[0])
                           /\ InHeader(X[j - 1], X[j], h, B, u)
        \/ \E j \in 0..m : BehindLine(X[j], h, B, u)
        \/ InEmptyLine(X[m], h, B, u)
    BY <1>10, Zenon DEF InHeaders, X, m
  <2>2. \A i, C2, g2 : (/\ \/ /\ g2 = "H_START" /\ C2 = X[0] - 1 /\ C2 <= i
                              /\ i <= X[0] \/ (m = 0 /\ i <= X[0] + 2)
                           \/ \E j \in 1..m : /\ C2 = X[j - 1] - 1 \/ (j = 1 /\ C2 = X[0])
                                              /\ InHeader(X[j - 1], X[j], g2, C2, i)
                           \/ \E j \in 0..m : BehindLine(X[j], g2, C2, i)
                           \/ InEmptyLine(X[m], g2, C2, i))
                       => Place(r, a, more, q, g2, C2, i)
    BY Zenon DEF Place, InHeaders, X, m
  <2>3. CASE /\ h = "H_START" /\ B = X[0] - 1 /\ B <= u
             /\ u <= X[0] \/ (m = 0 /\ u <= X[0] + 2)
    <3>1. 0 \in 0..m /\ X[0] \in Nat \ {0}
      BY <1>0
    <3>2. ASSUME c \in {"CR", "LF"},
                 B <= u + 1, u + 1 <= X[0] \/ (m = 0 /\ u + 1 <= X[0] + 2)
          PROVE  ~done /\ Place(r, a, more, q, g, C, u + 1)
      <4>1. ~done /\ g = "H_START" /\ C = B
        BY <1>5, <2>3, <3>2 DEF Moves, Keeps, Opens, Fails
      <4> QED
        BY <2>2, <2>3, <3>2, <4>1, Zenon
    <3>3. CASE u = X[0] - 1
      <4>1. u + 1 = X[0] /\ B <= u + 1 /\ u + 1 <= X[0]
        BY <2>3, <3>1, <3>3
      <4>2. c = "LF"
        BY <1>2, <3>1, <4>1, Zenon DEF c
      <4>3. c \in {"CR", "LF"}
        BY <4>2
      <4> QED
        BY <3>2, <4>1, <4>3, Zenon
    <3>4. CASE u = X[0] /\ m # 0
      <4>1. 1 \in 1..m /\ 1 - 1 = 0
        BY <1>0, <3>4
      <4>2. HeaderAt(T, X[0], X[1])
        BY <1>4, <4>1
      <4>3. c \notin {":", " ", "CR", "LF"}
        BY <3>4, <4>2, Zenon DEF HeaderAt, c
      <4>4. ~done /\ g = "H_KEY" /\ C = u
        BY <1>5, <2>3, <4>3 DEF Moves, Keeps, Opens, Fails
      <4>5. InHeader(X[1 - 1], X[1], g, C, u + 1) /\ C = X[0]
        BY <3>4, <4>1, <4>4 DEF InHeader
      <4> QED
        BY <2>2, <4>1, <4>4, <4>5, Zenon
    <3>5. CASE (u = X[0] \/ u = X[0] + 1) /\ m = 0
      <4>1. B <= u + 1 /\ u + 1 <= X[0] + 2
        BY <2>3, <3>1, <3>5
      <4>2. c = "CR" \/ c = "LF"
        <5>1. u = X[0] => c = "CR"
          BY <1>2, <3>5, Zenon DEF c
        <5>2. X[0] + 1 + 1 = X[0] + 2
          BY <3>1
        <5>3. u = X[0] + 1 => c = "LF"
          BY <1>2, <3>5, <5>2, Zenon DEF c
        <5> QED
          BY <3>5, <5>1, <5>3
      <4>3. c \in {"CR", "LF"}
        BY <4>2
      <4> QED
        BY <3>2, <3>5, <4>1, <4>3, Zenon
    <3>6. CASE u = X[0] + 2 /\ m = 0
      <4>1. u = e /\ more /\ r.headers = <<>>
        <5>1. u = e
          BY <1>3, <3>6
        <5>2. ~(u < LastOf(r, a))
          BY <5>1 DEF e
        <5> QED
          BY <1>6, <3>6, <5>1, <5>2
      <4>2. /\ e \in Nat /\ T[e + 1] = q.method /\ q.method \in Methods
            /\ Len(q.path) \in Nat
        BY <1>1, <4>1, Zenon DEF Stands, Plain, RequestOK, Clear
      <4>3. c = q.method
        BY <4>1, <4>2, Zenon DEF c
      <4>4. c # "CR" /\ c # "LF"
        BY <4>2, <4>3 DEF Methods
      <4>5. ~done /\ g = "H_KEY" /\ C = u
        BY <1>5, <2>3, <4>4 DEF Moves, Keeps, Opens, Fails
      <4>6. C = e /\ e <= u + 1 /\ u + 1 <= e + 7 + Len(q.path)
        BY <4>1, <4>2, <4>5
      <4>7. InRequestLine(q, e, g, C, u + 1)
        BY <4>5, <4>6, Zenon DEF InRequestLine
      <4> QED
        BY <4>1, <4>5, <4>7, Zenon DEF Place, e
    <3> QED
      BY <2>3, <3>1, <3>3, <3>4, <3>5, <3>6
  <2>4. ASSUME NEW j \in 1..m, B = X[j - 1] - 1 \/ (j = 1 /\ B = X[0]),
               InHeader(X[j - 1], X[j], h, B, u)
        PROVE  g = "error" \/ (~done /\ Place(r, a, more, q, g, C, u + 1))
    <3>1. j - 1 \in 0..m /\ j \in 0..m /\ (j = 1 => X[0] = X[j - 1])
      BY <1>0
    <3>2. B \in {X[j - 1] - 1, X[j - 1]}
      BY <2>4, <3>1
    <3>3. HeaderAt(T, X[j - 1], X[j])
      BY <1>4
    <3>4. \/ g = "error"
          \/ ~done /\ C = B /\ InHeader(X[j - 1], X[j], g, B, u + 1)
          \/ ~done /\ BehindLine(X[j], g, C, u + 1)
          \/ ~done /\ BehindLine(X[j - 1], g, C, u + 1)
      BY <1>5, <2>4, <3>2, <3>3, HeaderTurn, Zenon DEF c
    <3> QED
      BY <2>2, <2>4, <3>1, <3>4, Zenon
  <2>5. ASSUME NEW j \in 0..m, BehindLine(X[j], h, B, u)
        PROVE  g = "error" \/ (~done /\ Place(r, a, more, q, g, C, u + 1))
    <3>1. X[j] \in Nat \ {0} /\ T[X[j]] = "LF"
      BY <1>0, <1>2, Zenon
    <3>2. CASE j = m
      <4>1. T[X[j] + 1] = "CR"
        BY <1>2, <3>2, Zenon
      <4>2. ~ HeaderAt(T, X[j], 0)
        <5>1. ~(X[j] + 6 <= 0)
          BY <3>1
        <5> QED
          BY <5>1, Zenon DEF HeaderAt
      <4>3. \/ g = "error"
            \/ ~done /\ BehindLine(X[j], g, C, u + 1)
            \/ ~done /\ InEmptyLine(X[j], g, C, u + 1)
        BY <1>5, <2>5, <3>1, <4>1, <4>2, LineTurn, Zenon DEF c
      <4> QED
        BY <2>2, <3>2, <4>3, Zenon
    <3>3. CASE j # m
      <4>1. j + 1 \in 1..m /\ j + 1 - 1 = j
        BY <1>0, <3>3
      <4>2. HeaderAt(T, X[j], X[j + 1])
        BY <1>4, <4>1
      <4>3. T[X[j] + 1] # "CR"
        BY <4>2, Zenon DEF HeaderAt
      <4>4. \/ g = "error"
            \/ ~done /\ BehindLine(X[j], g, C, u + 1)
            \/ ~done /\ C = X[j] - 1 /\ InHeader(X[j], X[j + 1], g, C, u + 1)
        <5>1. \/ g = "error"
              \/ ~done /\ BehindLine(X[j], g, C, u + 1)
              \/ ~done /\ T[X[j] + 1] = "CR" /\ InEmptyLine(X[j], g, C, u + 1)
              \/ /\ ~done /\ HeaderAt(T, X[j], X[j + 1]) /\ C = X[j] - 1
                 /\ InHeader(X[j], X[j + 1], g, C, u + 1)
          BY <1>5, <2>5, <3>1, <4>2, LineTurn, Zenon DEF c
        <5> QED
          BY <4>3, <5>1, Zenon
      <4>5. CASE ~done /\ C = X[j] - 1 /\ InHeader(X[j], X[j + 1], g, C, u + 1)
        <5>1. C = X[(j + 1) - 1] - 1 /\ InHeader(X[(j + 1) - 1], X[j + 1], g, C, u + 1)
          BY <4>1, <4>5
        <5> QED
          BY <2>2, <4>1, <4>5, <5>1, Zenon
      <4> QED
        BY <2>2, <4>4, <4>5, Zenon
    <3> QED
      BY <3>2, <3>3
  <2>6. CASE InEmptyLine(X[m], h, B, u)
    <3>1. X[m] \in Nat \ {0}
      BY <1>0
    <3>2. \/ g = "error"
          \/ ~done /\ InEmptyLine(X[m], g, C, u + 1)
          \/ done /\ g = "H_END_LF" /\ (u = X[m] \/ u = X[m] + 2)
      BY <1>5, <2>6, <3>1, EmptyLineTurn, Zenon DEF c
    <3>3. (u = X[m] => u + 1 = e - 1) /\ (u = X[m] + 2 => u + 1 = e + 1)
      BY <1>3, <3>1
    <3> QED
      BY <2>2, <3>2, <3>3, Zenon DEF e
  <2> QED
    BY <2>1, <2>3, <2>4, <2>5, <2>6, Zenon
<1> QED
  BY <1>7, <1>8, <1>9, <1>10, Zenon DEF Place

\* A place is behind its line's begin, and a read may begin there.
LEMMA PlaceOrder ==
  ASSUME NEW T, NEW r, NEW a, NEW more, NEW q, Around(T, r, a, more, q),
         NEW B \in Nat, NEW u \in Nat, NEW h, Place(r, a, more, q, h, B, u)
  PROVE  B <= u /\ (h # "H_END_LF" => Place(r, a, more, q, h, B, B))
<1> DEFINE X == EndAt(r, a)
           m == Len(r.headers)
           e == LastOf(r, a)
<1>1. /\ Plain(r) /\ Stands(T, a, r)
      /\ more => Stands(T, e, q)
  BY Zenon DEF Around
<1>2. /\ a \in Nat /\ m \in Nat /\ Len(r.path) \in Nat
      /\ \A j \in 0..m : X[j] \in Nat /\ a < X[j]
  BY <1>1, Zenon DEF Stands
<1>3. \A j \in 1..m : HeaderAt(T, X[j - 1], X[j])
  BY <1>1, HeadersStand, Zenon
<1>4. more => e \in Nat /\ Len(q.path) \in Nat
  BY <1>1, Zenon DEF Stands
<1> HIDE DEF X, m, e
<1>5. CASE BeforeRequestLine(a, h, B, u)
  <2>1. h = "H_START" /\ (B = a \/ B = a - 1) /\ B <= u /\ u <= a
    BY <1>5, Zenon DEF BeforeRequestLine
  <2>2. B <= B /\ B <= a
    BY <1>2, <2>1
  <2> QED
    BY <2>1, <2>2, Zenon DEF Place, BeforeRequestLine
<1>6. ASSUME NEW p, NEW x \in Nat, Len(p.path) \in Nat, InRequestLine(p, x, h, B, u)
      PROVE  B <= u /\ InRequestLine(p, x, h, B, B)
  <2> DEFINE P == Len(p.path)
  <2>1. /\ B = x
        /\ \/ h = "H_KEY" /\ x <= u /\ u <= x + 7 + P
           \/ h = "H_COLON" /\ (u = x \/ (x + 4 <= u /\ u <= x + 2 + P))
    BY <1>6, Zenon DEF InRequestLine
  <2>2. P \in Nat
    BY <1>6
  <2> HIDE DEF P
  <2>3. B <= u /\ x <= B /\ B <= x + 7 + P
    BY <2>1, <2>2
  <2> QED
    BY <2>1, <2>3, Zenon DEF InRequestLine, P
<1>7. CASE InRequestLine(r, a, h, B, u)
  BY <1>2, <1>6, <1>7, Zenon DEF Place
<1>8. CASE more /\ r.headers = <<>> /\ InRequestLine(q, LastOf(r, a), h, B, u)
  BY <1>4, <1>6, <1>8, Zenon DEF Place, e
<1>9. CASE InHeaders(r, a, h, B, u)
  <2>1. \/ /\ h = "H_START" /\ B = X[0] - 1 /\ B <= u
           /\ u <= X[0] \/ (m = 0 /\ u <= X[0] + 2)
        \/ \E j \in 1..m : /\ B = X[j - 1] - 1 \/ (j = 1 /\ B = X[0])
                           /\ InHeader(X[j - 1], X[j], h, B, u)
        \/ \E j \in 0..m : BehindLine(X[j], h, B, u)
        \/ InEmptyLine(X[m], h, B, u)
    BY <1>9, Zenon DEF InHeaders, X, m
  <2>2. \A C, g : (/\ \/ /\ g = "H_START" /\ C = X[0] - 1 /\ C <= C
                         /\ C <= X[0] \/ (m = 0 /\ C <= X[0] + 2)
                      \/ \E j \in 1..m : /\ C = X[j - 1] - 1 \/ (j = 1 /\ C = X[0])
                                         /\ InHeader(X[j - 1], X[j], g, C, C)
                      \/ \E j \in 0..m : BehindLine(X[j], g, C, C)
                      \/ InEmptyLine(X[m], g, C, C))
                  => Place(r, a, more, q, g, C, C)
    BY Zenon DEF Place, InHeaders, X, m
  <2>3. CASE /\ h = "H_START" /\ B = X[0] - 1 /\ B <= u
             /\ u <= X[0] \/ (m = 0 /\ u <= X[0] + 2)
    <3>1. X[0] \in Nat
      <4>1. 0 \in 0..m
        BY <1>2
      <4> QED
        BY <1>2, <4>1, Zenon
    <3>2. B <= B /\ B <= X[0]
      BY <2>3, <3>1
    <3> QED
      BY <2>2, <2>3, <3>2, Zenon
  <2>4. ASSUME NEW j \in 1..m, B = X[j - 1] - 1 \/ (j = 1 /\ B = X[0]),
               InHeader(X[j - 1], X[j], h, B, u)
        PROVE  B <= u /\ Place(r, a, more, q, h, B, B)
    <3> DEFINE x == X[j - 1]
               y == X[j]
    <3>1. x \in Nat \ {0} /\ y \in Nat /\ x + 6 <= y
      BY <1>3, Zenon DEF HeaderAt
    <3>2. B = x - 1 \/ B = x
      <4>1. j = 1 => X[0] = x
        OBVIOUS
      <4> QED
        BY <2>4, <4>1
    <3>3. InHeader(x, y, h, B, u)
      BY <2>4
    <3> HIDE DEF x, y
    <3>4. B <= B /\ B <= y - 2 /\ B < x + 1 /\ B < x + 2 /\ B < x + 3 /\ B < y - 1
      BY <3>1, <3>2
    <3>5. B <= u
      <4>1. B <= u \/ u = x + 1 \/ u = x + 2 \/ u = x + 3 \/ u = y - 1
        BY <3>3 DEF InHeader
      <4> QED
        BY <3>1, <3>2, <4>1
    <3>6. InHeader(x, y, h, B, B)
      BY <3>3, <3>4, Zenon DEF InHeader
    <3>7. InHeader(X[j - 1], X[j], h, B, B)
      BY <3>6, Zenon DEF x, y
    <3> QED
      BY <2>2, <2>4, <3>5, <3>7, Zenon
  <2>5. ASSUME NEW j \in 0..m, BehindLine(X[j], h, B, u)
        PROVE  B <= u /\ Place(r, a, more, q, h, B, B)
    <3>1. h \in {"H_LF", "H_KEY"} /\ B = X[j] - 1 /\ (u = B \/ u = X[j])
      BY <2>5, Zenon DEF BehindLine
    <3>2. B <= u
      BY <1>2, <3>1
    <3>3. BehindLine(X[j], h, B, B)
      BY <3>1, Zenon DEF BehindLine
    <3> QED
      BY <2>2, <3>2, <3>3, Zenon
  <2>6. CASE InEmptyLine(X[m], h, B, u)
    <3>1. X[m] \in Nat
      <4>1. m \in 0..m
        BY <1>2
      <4> QED
        BY <1>2, <4>1, Zenon
    <3>2. /\ B = X[m] - 1
          /\ \/ h = "H_END_CR" /\ (u = B \/ u = X[m] + 1)
             \/ h = "H_END_LF" /\ (u = X[m] \/ u = X[m] + 2)
      BY <2>6, Zenon DEF InEmptyLine
    <3>3. B <= u
      <4>1. u = B \/ u = X[m] + 1 \/ u = X[m] \/ u = X[m] + 2
        BY <3>2
      <4> QED
        BY <3>1, <3>2, <4>1
    <3>4. h # "H_END_LF" => InEmptyLine(X[m], h, B, B)
      BY <3>2, Zenon DEF InEmptyLine
    <3> QED
      BY <2>2, <3>3, <3>4, Zenon
  <2> QED
    BY <2>1, <2>3, <2>4, <2>5, <2>6, Zenon
<1> QED
  BY <1>5, <1>7, <1>8, <1>9, Zenon DEF Place

\* The locals have their types in every scan.
LEMMA ScanTyped ==
  ASSUME NEW h, h.h_state_ \in ParseState, Len(h.in_buffer_) \in Nat
  PROVE  IsLocals(Scan(h).p) /\ Scan(h).i \in 0..Len(h.in_buffer_)
<1> DEFINE str == h.in_buffer_
           N == Len(str)
<1>1. PICK f : /\ f[0] = [p |-> Locals(h), i |-> 0]
               /\ \A n \in 1..N : f[n] = Turn(str, f[n - 1], n)
               /\ Scan(h) = f[N]
  BY ScanIs, Zenon
<1>7. N \in Nat
  OBVIOUS
<1> HIDE DEF str, N
<1>8. \A n \in 1..N : f[n] = Turn(str, f[n - 1], n)
  BY <1>1, Zenon
<1> DEFINE G == {n \in Nat : n <= N => IsLocals(f[n].p) /\ f[n].i \in 0..n}
<1>2. 0 \in G
  <2>1. f[0].p = Locals(h) /\ f[0].i = 0
    BY <1>1
  <2>2. IsLocals(Locals(h))
    BY DEF IsLocals, Locals, Unset
  <2> QED
    BY <2>1, <2>2
<1>3. ASSUME NEW n \in G PROVE n + 1 \in G
  <2>1. n \in Nat /\ (n <= N => IsLocals(f[n].p) /\ f[n].i \in 0..n)
    OBVIOUS
  <2>2. SUFFICES ASSUME n + 1 <= N
                 PROVE  IsLocals(f[n + 1].p) /\ f[n + 1].i \in 0..(n + 1)
    BY <2>1
  <2> HIDE DEF G
  <2>3. n + 1 \in 1..N /\ (n + 1) - 1 = n /\ n <= N /\ n + 1 \in Nat \ {0}
    <3>1. n \in Nat
      BY <2>1, Zenon
    <3> QED
      BY <1>7, <2>2, <3>1
  <2>4. f[n + 1] = Turn(str, f[n], n + 1)
    <3> DEFINE k == n + 1
    <3>1. k \in 1..N /\ k - 1 = n
      BY <2>3, Zenon
    <3> HIDE DEF k
    <3>2. f[k] = Turn(str, f[k - 1], k)
      BY <1>8, <3>1, Zenon
    <3>3. f[k] = Turn(str, f[n], k)
      BY <3>1, <3>2, Zenon
    <3> QED
      BY <3>3, Zenon DEF k
  <2>5. IsLocals(f[n].p) /\ f[n].i \in 0..n
    BY <2>1, <2>3, Zenon
  <2>6. f[n].p.finished \in BOOLEAN
    BY <2>5 DEF IsLocals
  <2>7. CASE f[n].p.finished \/ f[n].p.h_state_ = "error"
    <3>1. f[n + 1] = f[n]
      BY <2>4, <2>7, Zenon DEF Turn
    <3>2. f[n].i \in 0..(n + 1)
      BY <2>1, <2>5
    <3> QED
      BY <2>5, <3>1, <3>2, Zenon
  <2>8. CASE ~(f[n].p.finished \/ f[n].p.h_state_ = "error")
    <3>1. f[n + 1] = [p |-> Advance(f[n].p, str, n + 1), i |-> n + 1]
      BY <2>4, <2>8, Zenon DEF Turn
    <3>2. f[n + 1].p = Advance(f[n].p, str, n + 1) /\ f[n + 1].i = n + 1
      BY <3>1
    <3>3. IsLocals(Advance(f[n].p, str, n + 1))
      BY <2>3, <2>5, <2>8, AdvanceIs, Zenon
    <3>4. n + 1 \in 0..(n + 1)
      BY <2>1
    <3> QED
      BY <3>2, <3>3, <3>4, Zenon
  <2> QED
    BY <2>7, <2>8
<1> HIDE DEF G
<1>4. \A n \in Nat : n \in G
  BY <1>2, <1>3, Induction DEF G
<1>5. N \in Nat /\ N <= N
  BY <1>7
<1>6. IsLocals(f[N].p) /\ f[N].i \in 0..N
  BY <1>4, <1>5, Zenon DEF G
<1> QED
  BY <1>1, <1>6, Zenon DEF str, N

\* The positions of a scan begin with 1, behind b symbols of T.
LEMMA MovesShift ==
  ASSUME NEW b \in Nat, NEW h, NEW B \in Nat, NEW i \in Nat, NEW c,
         NEW g, NEW C \in Nat, NEW done, Moves(h, B, i, c, g, C, done)
  PROVE  Moves(h, b + B - 1, b + i - 1, c, g, b + C - 1, done)
<1> DEFINE B3 == b + B - 1
           i3 == b + i - 1
           C3 == b + C - 1
<1>1. (C = B => C3 = B3) /\ (C = i => C3 = i3)
  OBVIOUS
<1>2. Moves(h, B, i, c, g, C, done)
  OBVIOUS
<1> HIDE DEF B3, i3, C3
<1>3. Moves(h, B3, i3, c, g, C3, done)
  BY <1>1, <1>2, Zenon DEF Moves
<1> QED
  BY <1>3, Zenon DEF B3, i3, C3

\* What s, a scan of n symbols behind b others, has come to.
ScanAt(s, r, a, more, q, b, n) ==
  \/ s.p.h_state_ = "error"
  \/ /\ s.p.finished = TRUE /\ s.p.h_state_ = "H_END_LF" /\ s.i \in 1..n
     /\ b + s.i = LastOf(r, a) - 1 \/ b + s.i = LastOf(r, a) + 1
  \/ /\ s.p.finished = FALSE /\ s.i = n
     /\ Place(r, a, more, q, s.p.h_state_, b + s.p.now_read_line_begin - 1, b + n)

\* The same for the locals: the loop keeps its place in the text.
LEMMA ScanTurn ==
  ASSUME NEW T, NEW r, NEW a, NEW more, NEW q, Around(T, r, a, more, q),
         NEW b \in Nat, NEW str, Follows(str, T, b),
         NEW n \in Nat, n + 1 \in 1..Len(str), more \/ b + n < LastOf(r, a),
         NEW s, IsLocals(s.p), ScanAt(s, r, a, more, q, b, n)
  PROVE  ScanAt(Turn(str, s, n + 1), r, a, more, q, b, n + 1)
<1> DEFINE t == Turn(str, s, n + 1)
           v == Advance(s.p, str, n + 1)
           B == s.p.now_read_line_begin
           C == v.now_read_line_begin
           e == LastOf(r, a)
<1>1. s.p.finished \in BOOLEAN /\ B \in Nat \ {0} /\ n + 1 \in Nat \ {0}
  BY DEF IsLocals
<1>2. CASE s.p.finished \/ s.p.h_state_ = "error"
  <2>1. t = s
    BY <1>2, Zenon DEF Turn
  <2>2. s.i \in 1..n => s.i \in 1..(n + 1)
    OBVIOUS
  <2>3. \/ s.p.h_state_ = "error"
        \/ /\ s.p.finished = TRUE /\ s.p.h_state_ = "H_END_LF" /\ s.i \in 1..n
           /\ b + s.i = e - 1 \/ b + s.i = e + 1
    BY <1>2, Zenon DEF ScanAt
  <2>4. ScanAt(s, r, a, more, q, b, n + 1)
    BY <2>2, <2>3, Zenon DEF ScanAt
  <2> QED
    BY <2>1, <2>4, Zenon
<1>3. CASE ~(s.p.finished \/ s.p.h_state_ = "error")
  <2>1. t = [p |-> v, i |-> n + 1]
    BY <1>3, Zenon DEF Turn
  <2>2. t.p = v /\ t.i = n + 1
    BY <2>1
  <2>3. /\ IsLocals(v)
        /\ Moves(s.p.h_state_, B, n + 1, str[n + 1], v.h_state_, C, v.finished)
    BY <1>1, <1>3, AdvanceIs, Zenon
  <2>4. Place(r, a, more, q, s.p.h_state_, b + B - 1, b + n)
    BY <1>3, Zenon DEF ScanAt
  <2> HIDE DEF t, v, B
  <2>5. C \in Nat \ {0} /\ v.finished \in BOOLEAN
    BY <2>3 DEF IsLocals
  <2> HIDE DEF C
  <2>6. str[n + 1] = T[b + n + 1]
    <3>1. str[n + 1] = T[b + (n + 1)]
      BY Zenon DEF Follows
    <3>2. b + (n + 1) = b + n + 1
      OBVIOUS
    <3> QED
      BY <3>1, <3>2, Zenon
  <2>7. /\ b + (n + 1) - 1 = b + n /\ b + B - 1 \in Nat /\ b + n \in Nat
        /\ b + n + 1 = b + (n + 1)
    BY <1>1
  <2>8. Moves(s.p.h_state_, b + B - 1, b + n, T[b + n + 1], v.h_state_, b + C - 1, v.finished)
    <3>1. B \in Nat /\ C \in Nat /\ n + 1 \in Nat
      BY <1>1, <2>5
    <3>2. Moves(s.p.h_state_, b + B - 1, b + (n + 1) - 1, str[n + 1], v.h_state_,
                b + C - 1, v.finished)
      BY <2>3, <3>1, MovesShift, Zenon DEF C
    <3> QED
      BY <2>6, <2>7, <3>2, Zenon
  <2>9. \/ v.h_state_ = "error"
        \/ ~v.finished /\ Place(r, a, more, q, v.h_state_, b + C - 1, b + n + 1)
        \/ /\ v.finished /\ v.h_state_ = "H_END_LF"
           /\ b + n + 1 = e - 1 \/ b + n + 1 = e + 1
    <3> DEFINE w == b + n
               D == b + B - 1
               E == b + C - 1
               g == v.h_state_
               done == v.finished
    <3>1. D \in Nat /\ w \in Nat /\ Place(r, a, more, q, s.p.h_state_, D, w)
      BY <2>4, <2>7, Zenon
    <3>2. Moves(s.p.h_state_, D, w, T[w + 1], g, E, done)
      BY <2>8, Zenon
    <3>3. more \/ w < LastOf(r, a)
      OBVIOUS
    <3> HIDE DEF w, D, E, g, done
    <3>4. Turned(r, a, more, q, w, g, E, done)
      BY <3>1, <3>2, <3>3, PlaceTurn, Zenon
    <3> QED
      BY <3>4, Zenon DEF Turned, w, E, g, done
  <2>10. CASE v.h_state_ = "error"
    BY <2>2, <2>10, Zenon DEF ScanAt, t
  <2>11. CASE ~v.finished /\ Place(r, a, more, q, v.h_state_, b + C - 1, b + n + 1)
    <3>1. v.finished = FALSE
      BY <2>5, <2>11
    <3> QED
      BY <2>2, <2>7, <2>11, <3>1, Zenon DEF ScanAt, C, t
  <2>12. CASE /\ v.finished /\ v.h_state_ = "H_END_LF"
              /\ b + n + 1 = e - 1 \/ b + n + 1 = e + 1
    <3>1. v.finished = TRUE /\ n + 1 \in 1..(n + 1)
      BY <2>5, <2>12
    <3> QED
      BY <2>2, <2>7, <2>12, <3>1, Zenon DEF ScanAt, t
  <2> QED
    BY <2>9, <2>10, <2>11, <2>12, Zenon DEF t
<1> QED
  BY <1>2, <1>3

\* A scan that begins at a place ends at one.
LEMMA ScanPlace ==
  ASSUME NEW T, NEW r, NEW a, NEW more, NEW q, Around(T, r, a, more, q),
         NEW b \in Nat, NEW h, h.h_state_ \in ParseState,
         NEW str, h.in_buffer_ = str, Len(str) \in Nat, Follows(str, T, b),
         Place(r, a, more, q, h.h_state_, b, b),
         more \/ b + Len(str) <= LastOf(r, a)
  PROVE  ScanAt(Scan(h), r, a, more, q, b, Len(str))
<1> DEFINE N == Len(str)
           e == LastOf(r, a)
<1>1. PICK f : /\ f[0] = [p |-> Locals(h), i |-> 0]
               /\ \A n \in 1..N : f[n] = Turn(str, f[n - 1], n)
               /\ Scan(h) = f[N]
  BY ScanIs, Zenon
<1>7. N \in Nat /\ (more \/ b + N <= e)
  OBVIOUS
<1> HIDE DEF N, e
<1>0. more \/ e \in Nat
  <2>1. /\ Stands(T, a, r)
    BY Zenon DEF Around
  <2> DEFINE m == Len(r.headers)
             X == EndAt(r, a)
  <2>2. m \in Nat /\ \A j \in 0..m : X[j] \in Nat
    BY <2>1, Zenon DEF Stands
  <2> HIDE DEF m, X
  <2>3. X[m] \in Nat
    BY <2>2
  <2>4. e = X[m] + 2
    BY Zenon DEF X, m, e, LastOf
  <2> QED
    BY <2>3, <2>4
<1>8. \A n \in 1..N : f[n] = Turn(str, f[n - 1], n)
  BY <1>1, Zenon
<1> DEFINE G == {n \in Nat : n <= N => /\ IsLocals(f[n].p)
                                       /\ ScanAt(f[n], r, a, more, q, b, n)}
<1>2. 0 \in G
  <2>1. f[0].p = Locals(h) /\ f[0].i = 0
    BY <1>1
  <2>2. IsLocals(Locals(h))
    BY DEF IsLocals, Locals, Unset
  <2>3. /\ Locals(h).finished = FALSE /\ Locals(h).h_state_ = h.h_state_
        /\ b + Locals(h).now_read_line_begin - 1 = b /\ b + 0 = b
    BY DEF Locals
  <2>4. ScanAt(f[0], r, a, more, q, b, 0)
    BY <2>1, <2>3, Zenon DEF ScanAt
  <2> QED
    BY <2>1, <2>2, <2>4
<1>3. ASSUME NEW n \in G PROVE n + 1 \in G
  <2>1. n \in Nat /\ (n <= N => IsLocals(f[n].p) /\ ScanAt(f[n], r, a, more, q, b, n))
    OBVIOUS
  <2>2. SUFFICES ASSUME n + 1 <= N
                 PROVE  IsLocals(f[n + 1].p) /\ ScanAt(f[n + 1], r, a, more, q, b, n + 1)
    BY <2>1
  <2> HIDE DEF G
  <2>3. n + 1 \in 1..N /\ (n + 1) - 1 = n /\ n <= N /\ n + 1 \in Nat \ {0}
    <3>1. n \in Nat
      BY <2>1, Zenon
    <3> QED
      BY <1>7, <2>2, <3>1
  <2>4. f[n + 1] = Turn(str, f[n], n + 1)
    <3> DEFINE k == n + 1
    <3>1. k \in 1..N /\ k - 1 = n
      BY <2>3, Zenon
    <3> HIDE DEF k
    <3>2. f[k] = Turn(str, f[k - 1], k)
      BY <1>8, <3>1, Zenon
    <3>3. f[k] = Turn(str, f[n], k)
      BY <3>1, <3>2, Zenon
    <3> QED
      BY <3>3, Zenon DEF k
  <2>5. IsLocals(f[n].p) /\ ScanAt(f[n], r, a, more, q, b, n)
    BY <2>1, <2>3, Zenon
  <2>6. more \/ b + n < e
    <3>1. more \/ b + N <= e
      BY <1>7, Zenon
    <3> QED
      <4>1. CASE more
        BY <4>1
      <4>2. CASE ~more
        <5>1. b + N <= e /\ e \in Nat
          BY <1>0, <3>1, <4>2
        <5> QED
          BY <1>7, <2>1, <2>3, <5>1
      <4> QED
        BY <4>1, <4>2
  <2>7. ScanAt(f[n + 1], r, a, more, q, b, n + 1)
    <3>1. n \in Nat
      BY <2>1, Zenon
    <3> QED
      BY <2>3, <2>4, <2>5, <2>6, <3>1, ScanTurn, Zenon DEF N, e
  <2>8. IsLocals(f[n + 1].p)
    <3>1. CASE f[n].p.finished \/ f[n].p.h_state_ = "error"
      BY <2>4, <2>5, <3>1, Zenon DEF Turn
    <3>2. CASE ~(f[n].p.finished \/ f[n].p.h_state_ = "error")
      <4>1. f[n + 1] = [p |-> Advance(f[n].p, str, n + 1), i |-> n + 1]
        BY <2>4, <3>2, Zenon DEF Turn
      <4>2. f[n + 1].p = Advance(f[n].p, str, n + 1)
        BY <4>1
      <4> QED
        BY <2>3, <2>5, <3>2, <4>2, AdvanceIs, Zenon
    <3> QED
      BY <3>1, <3>2
  <2> QED
    BY <2>7, <2>8
<1> HIDE DEF G
<1>4. \A n \in Nat : n \in G
  BY <1>2, <1>3, Induction DEF G
<1>5. N \in Nat /\ N <= N
  BY <1>7
<1>6. ScanAt(f[N], r, a, more, q, b, N)
  BY <1>4, <1>5, Zenon DEF G
<1> QED
  BY <1>1, <1>6, Zenon DEF N

-----------------------------------------------------------------------------
\* What ParseHeaders returns.

States == {"STATE_PARSE_URI", "STATE_PARSE_HEADERS", "STATE_RECV_BODY",
           "STATE_ANALYSIS", "STATE_FINISH"}
Errors == {"no", "400", "404", "unanswered"}

\* The parser's part of HttpData, whatever the name and the headers are.
HttpTyped(h) ==
  h \in [state_ : States, h_state_ : ParseState, in_buffer_ : Seq(Symbol),
         method_ : Methods, file_name_ : {h.file_name_},
         headers_ : {h.headers_}, keep_alive_ : BOOLEAN, error_ : Errors]

\* The symbols behind the first k of str.
Rest(str, k) == SubSeq(str, k + 1, Len(str))

\* The rest of a buffer that follows a text follows it further on.
LEMMA RestIs ==
  ASSUME NEW str \in Seq(Symbol), NEW k \in 0..Len(str)
  PROVE  /\ Rest(str, k) \in Seq(Symbol) /\ Len(Rest(str, k)) = Len(str) - k
         /\ \A T : \A b \in Nat : Follows(str, T, b) => Follows(Rest(str, k), T, b + k)
<1> DEFINE N == Len(str)
           s == Rest(str, k)
<1>1. N \in Nat
  BY LenProperties
<1>2. k + 1 \in Int /\ N \in Int /\ \A i \in (k + 1)..N : i \in 1..N
  BY <1>1
<1>3. \A i \in (k + 1)..N : str[i] \in Symbol
  BY <1>2, ElementOfSeq
<1> HIDE DEF N
<1>4. /\ s \in Seq(Symbol) /\ Len(s) = IF k + 1 <= N THEN N - (k + 1) + 1 ELSE 0
      /\ \A i \in 1..(N - (k + 1) + 1) : s[i] = str[(k + 1) + i - 1]
  BY <1>2, <1>3, SubSeqProperties DEF Rest, N
<1> HIDE DEF s
<1>0. k \in Nat /\ k <= N
  BY <1>1 DEF N
<1>5. N - (k + 1) + 1 = N - k /\ (IF k + 1 <= N THEN N - (k + 1) + 1 ELSE 0) = N - k
  BY <1>0, <1>1
<1>6. s \in Seq(Symbol) /\ Len(s) = N - k
  BY <1>4, <1>5, Zenon
<1>7. ASSUME NEW T, NEW b \in Nat, Follows(str, T, b) PROVE Follows(s, T, b + k)
  <2>1. ASSUME NEW i \in 1..Len(s) PROVE s[i] = T[(b + k) + i]
    <3>1. i \in 1..(N - (k + 1) + 1)
      BY <1>5, <1>6, Zenon
    <3>2. s[i] = str[(k + 1) + i - 1]
      BY <1>4, <3>1, Zenon
    <3>3. /\ (k + 1) + i - 1 = k + i /\ k + i \in 1..N
          /\ b + (k + i) = (b + k) + i
      BY <1>0, <1>1, <3>1
    <3>4. str[k + i] = T[b + (k + i)]
      BY <1>7, <3>3, Zenon DEF Follows, N
    <3> QED
      BY <3>2, <3>3, <3>4, Zenon
  <2> QED
    BY <2>1, Zenon DEF Follows
<1> QED
  BY <1>6, <1>7, Zenon DEF s, N

\* ParseHeaders at the end of the headers, c symbols consumed, and waiting for
\* more, k symbols dropped.
Ended(h, F, c) ==
  [h EXCEPT !.h_state_ = "H_END_LF", !.headers_ = F,
            !.in_buffer_ = Rest(h.in_buffer_, c),
            !.state_ = IF h.method_ = "POST" THEN "STATE_RECV_BODY"
                       ELSE "STATE_ANALYSIS"]
Waiting(h, F, g, k) ==
  [h EXCEPT !.h_state_ = g, !.headers_ = F, !.in_buffer_ = Rest(h.in_buffer_, k)]

\* By what the scan has come to.
LEMMA ParseHeadersIs ==
  ASSUME NEW h, HttpTyped(h)
  PROVE  LET s == Scan(h) IN
         /\ s.p.h_state_ = "error" => ParseHeaders(h) = [h EXCEPT !.error_ = "400"]
         /\ s.p.h_state_ = "H_END_LF" => ParseHeaders(h) = Ended(h, s.p.headers_, s.i)
         /\ s.p.h_state_ \notin {"error", "H_END_LF"} =>
              ParseHeaders(h) = Waiting(h, s.p.headers_, s.p.h_state_,
                                        s.p.now_read_line_begin - 1)
         /\ IsLocals(s.p) /\ s.i \in 0..Len(h.in_buffer_)
<1> DEFINE s == Scan(h)
           str == h.in_buffer_
           L == s.p.now_read_line_begin
           after == [h EXCEPT !.h_state_ = s.p.h_state_, !.headers_ = s.p.headers_]
<1>1. h.h_state_ \in ParseState /\ str \in Seq(Symbol) /\ Len(str) \in Nat
  BY DEF HttpTyped
<1>2. IsLocals(s.p) /\ s.i \in 0..Len(str)
  BY <1>1, ScanTyped, Zenon
<1>3. L \in Nat \ {0}
  BY <1>2 DEF IsLocals
<1>4. ParseHeaders(h) =
        CASE s.p.h_state_ = "error" -> [h EXCEPT !.error_ = "400"]
          [] s.p.h_state_ = "H_END_LF" ->
               [after EXCEPT !.in_buffer_ = SubSeq(str, s.i + 1, Len(str)),
                             !.state_ = IF h.method_ = "POST" THEN "STATE_RECV_BODY"
                                        ELSE "STATE_ANALYSIS"]
          [] OTHER -> [after EXCEPT !.in_buffer_ = SubSeq(str, L, Len(str))]
  BY Zenon DEF ParseHeaders
<1> HIDE DEF s
<1>5. ASSUME s.p.h_state_ = "error" PROVE ParseHeaders(h) = [h EXCEPT !.error_ = "400"]
  BY <1>4, <1>5
<1>6. ASSUME s.p.h_state_ = "H_END_LF"
      PROVE  ParseHeaders(h) = Ended(h, s.p.headers_, s.i)
  <2> DEFINE rest == SubSeq(str, s.i + 1, Len(str))
             F == s.p.headers_
             st == IF h.method_ = "POST" THEN "STATE_RECV_BODY" ELSE "STATE_ANALYSIS"
             g == s.p.h_state_
  <2>1. ParseHeaders(h) = [[h EXCEPT !.h_state_ = g, !.headers_ = F]
                             EXCEPT !.in_buffer_ = rest, !.state_ = st]
    BY <1>4, <1>6
  <2>2. Ended(h, F, s.i) = [h EXCEPT !.h_state_ = "H_END_LF", !.headers_ = F,
                                     !.in_buffer_ = rest, !.state_ = st]
    BY Zenon DEF Ended, Rest
  <2> HIDE DEF rest, F, st
  <2> QED
    BY <1>6, <2>1, <2>2, Zenon DEF F
<1>7. ASSUME s.p.h_state_ \notin {"error", "H_END_LF"}
      PROVE  ParseHeaders(h) = Waiting(h, s.p.headers_, s.p.h_state_, L - 1)
  <2> DEFINE rest == SubSeq(str, L, Len(str))
             F == s.p.headers_
             g == s.p.h_state_
  <2>1. ParseHeaders(h) = [[h EXCEPT !.h_state_ = g, !.headers_ = F]
                             EXCEPT !.in_buffer_ = rest]
    BY <1>4, <1>7
  <2>2. (L - 1) + 1 = L
    BY <1>3
  <2>3. Waiting(h, F, g, L - 1) = [h EXCEPT !.h_state_ = g, !.headers_ = F,
                                            !.in_buffer_ = rest]
    BY <2>2, Zenon DEF Waiting, Rest
  <2> HIDE DEF rest, F, g, L
  <2> QED
    BY <2>1, <2>3, Zenon DEF F, g, L
<1> QED
  BY <1>2, <1>5, <1>6, <1>7, Zenon DEF s

\* The fields of the results.
HasEnded(h, q, F, c) ==
  /\ HttpTyped(q)
  /\ q.h_state_ = "H_END_LF" /\ q.headers_ = F
  /\ q.in_buffer_ = Rest(h.in_buffer_, c)
  /\ q.state_ = IF h.method_ = "POST" THEN "STATE_RECV_BODY" ELSE "STATE_ANALYSIS"
  /\ q.method_ = h.method_ /\ q.file_name_ = h.file_name_ /\ q.error_ = h.error_

\* ParseHeaders at the end of the headers: the fields it sets.
LEMMA EndedIs ==
  ASSUME NEW h, HttpTyped(h), NEW F, NEW c \in 0..Len(h.in_buffer_)
  PROVE  HasEnded(h, Ended(h, F, c), F, c)
<1> DEFINE rest == Rest(h.in_buffer_, c)
           st == IF h.method_ = "POST" THEN "STATE_RECV_BODY" ELSE "STATE_ANALYSIS"
           q == [h EXCEPT !.h_state_ = "H_END_LF", !.headers_ = F,
                          !.in_buffer_ = rest, !.state_ = st]
<1>1. rest \in Seq(Symbol)
  <2>1. h.in_buffer_ \in Seq(Symbol)
    BY DEF HttpTyped
  <2> QED
    BY <2>1, RestIs
<1>2. st \in States
  BY DEF States
<1>3. h \in [state_ : States, h_state_ : ParseState, in_buffer_ : Seq(Symbol),
             method_ : Methods, file_name_ : {h.file_name_},
             headers_ : {h.headers_}, keep_alive_ : BOOLEAN, error_ : Errors]
  BY Zenon DEF HttpTyped
<1>4. "H_END_LF" \in ParseState
  BY DEF ParseState
<1>5. Ended(h, F, c) = q
  BY Zenon DEF Ended
<1> HIDE DEF rest, st
<1>6. /\ q.h_state_ = "H_END_LF" /\ q.headers_ = F /\ q.in_buffer_ = rest
      /\ q.state_ = st
      /\ q.method_ = h.method_ /\ q.file_name_ = h.file_name_ /\ q.error_ = h.error_
      /\ q.keep_alive_ = h.keep_alive_
  BY <1>3
<1>7. q \in [state_ : States, h_state_ : ParseState, in_buffer_ : Seq(Symbol),
             method_ : Methods, file_name_ : {q.file_name_},
             headers_ : {q.headers_}, keep_alive_ : BOOLEAN, error_ : Errors]
  BY <1>1, <1>2, <1>3, <1>4
<1> HIDE DEF q
<1> QED
  BY <1>5, <1>6, <1>7, Zenon DEF HttpTyped, HasEnded, rest, st

IsWaiting(h, q, F, g, k) ==
  /\ HttpTyped(q)
  /\ q.h_state_ = g /\ q.headers_ = F
  /\ q.in_buffer_ = Rest(h.in_buffer_, k)
  /\ q.state_ = h.state_
  /\ q.method_ = h.method_ /\ q.file_name_ = h.file_name_ /\ q.error_ = h.error_

\* ParseHeaders out of input: the fields it sets.
LEMMA WaitingIs ==
  ASSUME NEW h, HttpTyped(h), NEW F, NEW g \in ParseState, NEW k \in 0..Len(h.in_buffer_)
  PROVE  IsWaiting(h, Waiting(h, F, g, k), F, g, k)
<1> DEFINE rest == Rest(h.in_buffer_, k)
           q == [h EXCEPT !.h_state_ = g, !.headers_ = F, !.in_buffer_ = rest]
<1>1. rest \in Seq(Symbol)
  <2>1. h.in_buffer_ \in Seq(Symbol)
    BY DEF HttpTyped
  <2> QED
    BY <2>1, RestIs
<1>3. h \in [state_ : States, h_state_ : ParseState, in_buffer_ : Seq(Symbol),
             method_ : Methods, file_name_ : {h.file_name_},
             headers_ : {h.headers_}, keep_alive_ : BOOLEAN, error_ : Errors]
  BY Zenon DEF HttpTyped
<1>5. Waiting(h, F, g, k) = q
  BY Zenon DEF Waiting
<1> HIDE DEF rest
<1>6. /\ q.h_state_ = g /\ q.headers_ = F /\ q.in_buffer_ = rest
      /\ q.state_ = h.state_
      /\ q.method_ = h.method_ /\ q.file_name_ = h.file_name_ /\ q.error_ = h.error_
      /\ q.keep_alive_ = h.keep_alive_
  BY <1>3
<1>7. q \in [state_ : States, h_state_ : ParseState, in_buffer_ : Seq(Symbol),
             method_ : Methods, file_name_ : {q.file_name_},
             headers_ : {q.headers_}, keep_alive_ : BOOLEAN, error_ : Errors]
  BY <1>1, <1>3
<1> HIDE DEF q
<1> QED
  BY <1>5, <1>6, <1>7, Zenon DEF HttpTyped, IsWaiting, rest

\* An error is all that changes.
LEMMA FailedIs ==
  ASSUME NEW h, HttpTyped(h), NEW e \in Errors
  PROVE  LET q == [h EXCEPT !.error_ = e] IN
         /\ HttpTyped(q) /\ q.error_ = e
         /\ q.h_state_ = h.h_state_ /\ q.headers_ = h.headers_
         /\ q.in_buffer_ = h.in_buffer_ /\ q.state_ = h.state_
         /\ q.method_ = h.method_ /\ q.file_name_ = h.file_name_
<1> DEFINE q == [h EXCEPT !.error_ = e]
<1>1. h \in [state_ : States, h_state_ : ParseState, in_buffer_ : Seq(Symbol),
             method_ : Methods, file_name_ : {h.file_name_},
             headers_ : {h.headers_}, keep_alive_ : BOOLEAN, error_ : Errors]
  BY Zenon DEF HttpTyped
<1>2. /\ q.error_ = e
      /\ q.h_state_ = h.h_state_ /\ q.headers_ = h.headers_
      /\ q.in_buffer_ = h.in_buffer_ /\ q.state_ = h.state_
      /\ q.method_ = h.method_ /\ q.file_name_ = h.file_name_
  BY <1>1
<1>3. q \in [state_ : States, h_state_ : ParseState, in_buffer_ : Seq(Symbol),
             method_ : Methods, file_name_ : {q.file_name_},
             headers_ : {q.headers_}, keep_alive_ : BOOLEAN, error_ : Errors]
  BY <1>1
<1> HIDE DEF q
<1> QED
  BY <1>2, <1>3, Zenon DEF HttpTyped, q

\* What ParseHeaders returns, of any input.
LEMMA HeadersAnyhow ==
  ASSUME NEW h, HttpTyped(h)
  PROVE  LET q == ParseHeaders(h) IN
         \/ q = [h EXCEPT !.error_ = "400"]
         \/ \E F : \E c \in 0..Len(h.in_buffer_) : q = Ended(h, F, c)
         \/ /\ HttpTyped(q) /\ q.state_ = h.state_ /\ q.error_ = h.error_
            /\ q.method_ = h.method_
<1> DEFINE s == Scan(h)
           N == Len(h.in_buffer_)
<1>1. /\ s.p.h_state_ = "error" => ParseHeaders(h) = [h EXCEPT !.error_ = "400"]
      /\ s.p.h_state_ = "H_END_LF" => ParseHeaders(h) = Ended(h, s.p.headers_, s.i)
      /\ s.p.h_state_ \notin {"error", "H_END_LF"} =>
           ParseHeaders(h) = Waiting(h, s.p.headers_, s.p.h_state_,
                                     s.p.now_read_line_begin - 1)
      /\ IsLocals(s.p) /\ s.i \in 0..N
  BY ParseHeadersIs, Zenon
<1>2. s.p.h_state_ \in ParseState \union {"error"} /\ s.p.now_read_line_begin \in Nat \ {0}
  BY <1>1 DEF IsLocals
<1> HIDE DEF s, N
<1>3. CASE s.p.h_state_ = "error"
  BY <1>1, <1>3, Zenon
<1>4. CASE s.p.h_state_ = "H_END_LF"
  <2> DEFINE F == s.p.headers_
             c == s.i
  <2>1. c \in 0..Len(h.in_buffer_) /\ ParseHeaders(h) = Ended(h, F, c)
    BY <1>1, <1>4, Zenon DEF N
  <2> HIDE DEF F, c
  <2>2. \E G : \E d \in 0..Len(h.in_buffer_) : ParseHeaders(h) = Ended(h, G, d)
    BY <2>1, Zenon
  <2> QED
    BY <2>2, Zenon
<1>5. CASE s.p.h_state_ \notin {"error", "H_END_LF"}
  <2> DEFINE F == s.p.headers_
             g == s.p.h_state_
             l == s.p.now_read_line_begin
             q == ParseHeaders(h)
  <2>1. q = Waiting(h, F, g, l - 1)
    BY <1>1, <1>5, Zenon
  <2>2. g \in ParseState /\ l - 1 \in Nat
    BY <1>2, <1>5
  <2> HIDE DEF F, g, l, q
  <2> DEFINE rest == Rest(h.in_buffer_, l - 1)
  <2>3. rest \in Seq(Symbol)
    <3> DEFINE str == h.in_buffer_
    <3>1. str \in Seq(Symbol) /\ Len(str) \in Nat
      BY DEF HttpTyped
    <3> HIDE DEF str
    <3>2. /\ (l - 1) + 1 \in Int /\ Len(str) \in Int
          /\ \A i \in ((l - 1) + 1)..Len(str) : i \in 1..Len(str)
      BY <2>2, <3>1
    <3>3. \A i \in ((l - 1) + 1)..Len(str) : str[i] \in Symbol
      BY <3>1, <3>2, ElementOfSeq
    <3>4. Rest(str, l - 1) \in Seq(Symbol)
      BY <3>2, <3>3, SubSeqProperties DEF Rest
    <3> QED
      BY <3>4, Zenon DEF str
  <2>4. h \in [state_ : States, h_state_ : ParseState, in_buffer_ : Seq(Symbol),
               method_ : Methods, file_name_ : {h.file_name_},
               headers_ : {h.headers_}, keep_alive_ : BOOLEAN, error_ : Errors]
    BY Zenon DEF HttpTyped
  <2>5. q = [h EXCEPT !.h_state_ = g, !.headers_ = F, !.in_buffer_ = rest]
    BY <2>1, Zenon DEF Waiting
  <2> HIDE DEF rest
  <2>6. /\ q \in [state_ : States, h_state_ : ParseState, in_buffer_ : Seq(Symbol),
                  method_ : Methods, file_name_ : {q.file_name_},
                  headers_ : {q.headers_}, keep_alive_ : BOOLEAN, error_ : Errors]
        /\ q.state_ = h.state_ /\ q.error_ = h.error_ /\ q.method_ = h.method_
    BY <2>2, <2>3, <2>4, <2>5
  <2> QED
    BY <2>6, Zenon DEF HttpTyped, q
<1> QED
  BY <1>3, <1>4, <1>5

\* What it returns when it begins at a place: behind c symbols the headers
\* have ended, or k are dropped and it waits for more.
HeadersRead(h, q, r, a, more, p, b) ==
  LET N == Len(h.in_buffer_)
      e == LastOf(r, a)
  IN
  \/ q = [h EXCEPT !.error_ = "400"]
  \/ \E F : \E c \in 0..N : /\ q = Ended(h, F, c)
                        /\ \/ b + c \in {e - 2, e - 1, e}
                           \/ more /\ b + c = e + 1
  \/ \E F : \E g \in ParseState, k \in 0..N :
       /\ q = Waiting(h, F, g, k) /\ g # "H_END_LF"
       /\ Place(r, a, more, p, g, b + k, b + N)

\* ParseHeaders in a text: it fails, it ends at the end of some headers, or it
\* waits at a place that fits its state.
LEMMA HeadersPlaced ==
  ASSUME NEW T, NEW r, NEW a, NEW more, NEW p, Around(T, r, a, more, p),
         NEW b \in Nat, NEW h, HttpTyped(h), Follows(h.in_buffer_, T, b),
         Place(r, a, more, p, h.h_state_, b, b),
         more \/ b + Len(h.in_buffer_) <= LastOf(r, a)
  PROVE  HeadersRead(h, ParseHeaders(h), r, a, more, p, b)
<1> DEFINE s == Scan(h)
           str == h.in_buffer_
           N == Len(str)
           e == LastOf(r, a)
           X == EndAt(r, a)
           m == Len(r.headers)
<1>1. /\ s.p.h_state_ = "error" => ParseHeaders(h) = [h EXCEPT !.error_ = "400"]
      /\ s.p.h_state_ = "H_END_LF" => ParseHeaders(h) = Ended(h, s.p.headers_, s.i)
      /\ s.p.h_state_ \notin {"error", "H_END_LF"} =>
           ParseHeaders(h) = Waiting(h, s.p.headers_, s.p.h_state_,
                                     s.p.now_read_line_begin - 1)
      /\ IsLocals(s.p) /\ s.i \in 0..N
  BY ParseHeadersIs, Zenon
<1>2. s.p.h_state_ \in ParseState \union {"error"} /\ s.p.now_read_line_begin \in Nat \ {0}
  BY <1>1 DEF IsLocals
<1>3. h.h_state_ \in ParseState /\ N \in Nat
  BY DEF HttpTyped
<1>4. ScanAt(s, r, a, more, p, b, N)
  BY <1>3, ScanPlace, Zenon
<1>5. e \in Nat /\ e = X[m] + 2
  <2>1. m \in Nat /\ \A j \in 0..m : X[j] \in Nat
    BY Zenon DEF Around, Stands
  <2> HIDE DEF X, m
  <2>2. X[m] \in Nat
    BY <2>1
  <2>3. e = X[m] + 2
    BY Zenon DEF LastOf, X, m
  <2> QED
    BY <2>2, <2>3
<1>6. more \/ b + N <= e
  OBVIOUS
<1> HIDE DEF s, str, N, e, X, m
<1>10. ASSUME NEW F, NEW c \in 0..N, ParseHeaders(h) = Ended(h, F, c),
              \/ b + c \in {e - 2, e - 1, e}
              \/ more /\ b + c = e + 1
       PROVE  HeadersRead(h, ParseHeaders(h), r, a, more, p, b)
  <2>1. \E G : \E d \in 0..N : /\ ParseHeaders(h) = Ended(h, G, d)
                           /\ \/ b + d \in {e - 2, e - 1, e}
                              \/ more /\ b + d = e + 1
    BY <1>10, Zenon
  <2> QED
    BY <2>1, Zenon DEF HeadersRead, N, str, e
<1>11. ASSUME NEW F, NEW g \in ParseState, NEW k \in 0..N,
              ParseHeaders(h) = Waiting(h, F, g, k), g # "H_END_LF",
              Place(r, a, more, p, g, b + k, b + N)
       PROVE  HeadersRead(h, ParseHeaders(h), r, a, more, p, b)
  <2>1. \E G : \E f \in ParseState, d \in 0..N :
          /\ ParseHeaders(h) = Waiting(h, G, f, d) /\ f # "H_END_LF"
          /\ Place(r, a, more, p, f, b + d, b + N)
    BY <1>11, Zenon
  <2> QED
    BY <2>1, Zenon DEF HeadersRead, N, str
<1>7. CASE s.p.h_state_ = "error"
  BY <1>1, <1>7, Zenon DEF HeadersRead
<1>8. CASE /\ s.p.finished = TRUE /\ s.p.h_state_ = "H_END_LF" /\ s.i \in 1..N
           /\ b + s.i = e - 1 \/ b + s.i = e + 1
  <2>1. b + s.i = e + 1 => more
    <3>1. s.i \in 1..N
      BY <1>8, Zenon
    <3>2. b + s.i = e + 1 => ~(b + N <= e)
      BY <1>3, <1>5, <3>1
    <3> QED
      BY <1>6, <3>2, Zenon
  <2>2. \/ b + s.i \in {e - 2, e - 1, e}
        \/ more /\ b + s.i = e + 1
    BY <1>8, <2>1, Zenon
  <2> QED
    BY <1>1, <1>8, <1>10, <2>2, Zenon
<1>9. CASE /\ s.p.finished = FALSE /\ s.i = N
           /\ Place(r, a, more, p, s.p.h_state_, b + s.p.now_read_line_begin - 1, b + N)
           /\ s.p.h_state_ # "error"
  <2> DEFINE k == s.p.now_read_line_begin - 1
             g == s.p.h_state_
  <2>1. k \in Nat /\ b + k \in Nat /\ b + N \in Nat
    BY <1>2, <1>3
  <2>2. Place(r, a, more, p, g, b + k, b + N)
    BY <1>9, Zenon
  <2>3. CASE g = "H_END_LF"
    <3>1. InEmptyLine(X[m], g, b + k, b + N)
      BY <2>2, <2>3 DEF Place, InHeaders, InHeader, BehindLine, BeforeRequestLine,
                        InRequestLine, X, m
    <3>2. b + N = X[m] \/ b + N = X[m] + 2
      BY <2>3, <3>1 DEF InEmptyLine
    <3>3. b + N = e - 2 \/ b + N = e
      <4>1. X[m] = e - 2
        <5>1. X[m] \in Int
          <6>1. m \in Nat /\ \A j \in 0..m : X[j] \in Nat
            BY Zenon DEF Around, Stands, X, m
          <6> QED
            BY <6>1
        <5> QED
          BY <1>5, <5>1
      <4> QED
        BY <1>5, <3>2, <4>1, Zenon
    <3>4. b + s.i \in {e - 2, e - 1, e}
      BY <1>9, <3>3, Zenon
    <3> QED
      BY <1>1, <1>10, <2>3, <3>4, Zenon
  <2>4. CASE g # "H_END_LF"
    <3>1. b + k <= b + N
      BY <2>1, <2>2, PlaceOrder, Zenon
    <3>2. k \in 0..N
      BY <1>3, <2>1, <3>1
    <3>3. g \in ParseState
      BY <1>2, <1>9
    <3>4. ParseHeaders(h) = Waiting(h, s.p.headers_, g, k)
      BY <1>1, <1>9, <2>4, Zenon
    <3> HIDE DEF k, g
    <3> QED
      BY <1>11, <2>2, <2>4, <3>2, <3>3, <3>4, Zenon
  <2> QED
    BY <2>3, <2>4
<1> QED
  BY <1>4, <1>7, <1>8, <1>9, Zenon DEF ScanAt, e

-----------------------------------------------------------------------------
\* One pass of HandleRead over its stages.

Uri(h) == Stage(h, "STATE_PARSE_URI", ParseURI(h))
Headers(h) == Stage(h, "STATE_PARSE_HEADERS", ParseHeaders(h))
Body(h) == Stage(h, "STATE_RECV_BODY", ReceiveBody(h))

\* The stages of HandleRead by name.
LEMMA OutcomesAre ==
  ASSUME NEW h
  PROVE  LET q == Body(Headers(Uri(h))) IN
         Outcomes(h) = IF q.state_ = "STATE_ANALYSIS" /\ q.error_ = "no"
                       THEN AnalysisRequest(q) ELSE {q}
BY Zenon DEF Outcomes, Uri, Headers, Body

\* ParseURI, by its types.
LEMMA ParseURITyped ==
  ASSUME NEW h, HttpTyped(h), h.error_ = "no"
  PROVE  LET q == ParseURI(h) IN
         /\ HttpTyped(q) /\ q.h_state_ = h.h_state_ /\ q.headers_ = h.headers_
         /\ \/ /\ q.error_ = "400" /\ q.in_buffer_ = <<>>
               /\ q.state_ = h.state_ /\ q.file_name_ = h.file_name_
            \/ q.error_ = "no" /\ q.state_ = "STATE_PARSE_HEADERS"
<1> DEFINE str == h.in_buffer_
           cr == Find(str, "CR", 1)
           rest == SubSeq(str, cr + 1, Len(str))
           m == MethodIn(Line(str))
           f == FileName(Name(Line(str)))
           q == ParseURI(h)
<1>1. h \in [state_ : States, h_state_ : ParseState, in_buffer_ : Seq(Symbol),
             method_ : Methods, file_name_ : {h.file_name_},
             headers_ : {h.headers_}, keep_alive_ : BOOLEAN, error_ : Errors]
  BY Zenon DEF HttpTyped
<1>2. q = IF LineFits(Line(str))
          THEN [h EXCEPT !.in_buffer_ = rest, !.method_ = m, !.file_name_ = f,
                         !.state_ = "STATE_PARSE_HEADERS"]
          ELSE [h EXCEPT !.in_buffer_ = <<>>, !.error_ = "400"]
  BY ParseURIIs, Zenon
<1>3. rest \in Seq(Symbol)
  <2>1. str \in Seq(Symbol) /\ Len(str) \in Nat
    BY <1>1
  <2> HIDE DEF str
  <2>2. Found(str, "CR", 1, cr)
    BY <2>1, FindIs
  <2>3. cr \in Nat
    <3>1. cr = npos \/ cr \in 1..Len(str)
      BY <2>2, Zenon DEF Found
    <3> QED
      BY <2>1, <3>1 DEF npos
  <2> HIDE DEF cr
  <2>4. /\ cr + 1 \in Int /\ Len(str) \in Int
        /\ \A i \in (cr + 1)..Len(str) : i \in 1..Len(str)
    BY <2>1, <2>3
  <2>5. \A i \in (cr + 1)..Len(str) : str[i] \in Symbol
    BY <2>1, <2>4, ElementOfSeq
  <2> QED
    BY <2>4, <2>5, SubSeqProperties
<1>4. LineFits(Line(str)) => m \in Methods
  BY DEF LineFits, MethodIn, Methods
<1>5. "STATE_PARSE_HEADERS" \in States /\ "400" \in Errors /\ <<>> \in Seq(Symbol)
  BY DEF States, Errors
<1> HIDE DEF str, rest, m, f, q
<1>6. CASE LineFits(Line(str))
  <2>1. q = [h EXCEPT !.in_buffer_ = rest, !.method_ = m, !.file_name_ = f,
                      !.state_ = "STATE_PARSE_HEADERS"]
    BY <1>2, <1>6, Zenon
  <2>2. m \in Methods
    BY <1>4, <1>6, Zenon
  <2>3. q \in [state_ : States, h_state_ : ParseState, in_buffer_ : Seq(Symbol),
               method_ : Methods, file_name_ : {q.file_name_},
               headers_ : {q.headers_}, keep_alive_ : BOOLEAN, error_ : Errors]
    BY <1>1, <1>3, <1>5, <2>1, <2>2
  <2>4. /\ q.h_state_ = h.h_state_ /\ q.headers_ = h.headers_
        /\ q.error_ = "no" /\ q.state_ = "STATE_PARSE_HEADERS"
    BY <1>1, <2>1
  <2> QED
    BY <2>3, <2>4, Zenon DEF HttpTyped, q
<1>7. CASE ~LineFits(Line(str))
  <2>1. q = [h EXCEPT !.in_buffer_ = <<>>, !.error_ = "400"]
    BY <1>2, <1>7, Zenon
  <2>3. q \in [state_ : States, h_state_ : ParseState, in_buffer_ : Seq(Symbol),
               method_ : Methods, file_name_ : {q.file_name_},
               headers_ : {q.headers_}, keep_alive_ : BOOLEAN, error_ : Errors]
    BY <1>1, <1>5, <2>1
  <2>4. /\ q.h_state_ = h.h_state_ /\ q.headers_ = h.headers_
        /\ q.error_ = "400" /\ q.in_buffer_ = <<>>
        /\ q.state_ = h.state_ /\ q.file_name_ = h.file_name_
    BY <1>1, <2>1
  <2> QED
    BY <2>3, <2>4, Zenon DEF HttpTyped, q
<1> QED
  BY <1>6, <1>7

\* The body, and the analysis.
LEMMA ReceiveBodyTyped ==
  ASSUME NEW h, HttpTyped(h), h.error_ = "no"
  PROVE  LET q == ReceiveBody(h) IN
         /\ HttpTyped(q) /\ q.method_ = h.method_
         /\ \/ q.error_ = "400" /\ q.state_ = h.state_
            \/ q.error_ = "no" /\ q.state_ = "STATE_ANALYSIS"
            \/ q = h
<1>1. h \in [state_ : States, h_state_ : ParseState, in_buffer_ : Seq(Symbol),
             method_ : Methods, file_name_ : {h.file_name_},
             headers_ : {h.headers_}, keep_alive_ : BOOLEAN, error_ : Errors]
  BY Zenon DEF HttpTyped
<1>2. \/ ReceiveBody(h) = [h EXCEPT !.error_ = "400"]
      \/ ReceiveBody(h) = [h EXCEPT !.state_ = "STATE_ANALYSIS"]
      \/ ReceiveBody(h) = h
  BY Zenon DEF ReceiveBody
<1>3. "STATE_ANALYSIS" \in States /\ "400" \in Errors
  BY DEF States, Errors
<1> DEFINE q == ReceiveBody(h)
<1> HIDE DEF q
<1>4. CASE q = [h EXCEPT !.error_ = "400"]
  <2>1. /\ q.method_ = h.method_ /\ q.error_ = "400" /\ q.state_ = h.state_
        /\ q \in [state_ : States, h_state_ : ParseState, in_buffer_ : Seq(Symbol),
                  method_ : Methods, file_name_ : {q.file_name_},
                  headers_ : {q.headers_}, keep_alive_ : BOOLEAN, error_ : Errors]
    BY <1>1, <1>3, <1>4
  <2> QED
    BY <2>1, Zenon DEF HttpTyped, q
<1>5. CASE q = [h EXCEPT !.state_ = "STATE_ANALYSIS"]
  <2>1. /\ q.method_ = h.method_ /\ q.error_ = "no" /\ q.state_ = "STATE_ANALYSIS"
        /\ q \in [state_ : States, h_state_ : ParseState, in_buffer_ : Seq(Symbol),
                  method_ : Methods, file_name_ : {q.file_name_},
                  headers_ : {q.headers_}, keep_alive_ : BOOLEAN, error_ : Errors]
    BY <1>1, <1>3, <1>5
  <2> QED
    BY <2>1, Zenon DEF HttpTyped, q
<1>6. CASE q = h
  BY <1>6, Zenon DEF q
<1> QED
  BY <1>2, <1>4, <1>5, <1>6, Zenon DEF q

\* AnalysisRequest leaves the file name, the headers and the buffer alone.
LEMMA AnalysisIs ==
  ASSUME NEW h, HttpTyped(h), h.error_ = "no", NEW q \in AnalysisRequest(h)
  PROVE  /\ HttpTyped(q) /\ q.method_ = h.method_ /\ q.file_name_ = h.file_name_
         /\ q.headers_ = h.headers_ /\ q.in_buffer_ = h.in_buffer_
         /\ \/ q.error_ \in {"404", "unanswered"} /\ q.state_ = h.state_
            \/ /\ q.error_ = "no" /\ q.state_ = "STATE_FINISH"
               /\ h.method_ # "POST"
<1>1. h \in [state_ : States, h_state_ : ParseState, in_buffer_ : Seq(Symbol),
             method_ : Methods, file_name_ : {h.file_name_},
             headers_ : {h.headers_}, keep_alive_ : BOOLEAN, error_ : Errors]
  BY Zenon DEF HttpTyped
<1> DEFINE k == h.keep_alive_ \/ AsksKeepAlive(h.headers_)
           alive == [h EXCEPT !.keep_alive_ = k]
<1>2. \/ q = [h EXCEPT !.error_ = "unanswered"]
      \/ q = [alive EXCEPT !.error_ = "404"]
      \/ h.method_ # "POST" /\ q = [alive EXCEPT !.state_ = "STATE_FINISH"]
  BY Zenon DEF AnalysisRequest
<1>3. k \in BOOLEAN
  BY Zenon
<1>4. "STATE_FINISH" \in States /\ "404" \in Errors /\ "unanswered" \in Errors
  BY DEF States, Errors
<1> HIDE DEF k
<1>5. CASE q = [h EXCEPT !.error_ = "unanswered"]
  <2>1. /\ q.method_ = h.method_ /\ q.file_name_ = h.file_name_
        /\ q.headers_ = h.headers_ /\ q.in_buffer_ = h.in_buffer_
        /\ q.error_ = "unanswered" /\ q.state_ = h.state_
        /\ q \in [state_ : States, h_state_ : ParseState, in_buffer_ : Seq(Symbol),
                  method_ : Methods, file_name_ : {q.file_name_},
                  headers_ : {q.headers_}, keep_alive_ : BOOLEAN, error_ : Errors]
    BY <1>1, <1>4, <1>5
  <2> QED
    BY <2>1, Zenon DEF HttpTyped
<1>6. CASE q = [alive EXCEPT !.error_ = "404"]
  <2>1. /\ q.method_ = h.method_ /\ q.file_name_ = h.file_name_
        /\ q.headers_ = h.headers_ /\ q.in_buffer_ = h.in_buffer_
        /\ q.error_ = "404" /\ q.state_ = h.state_
        /\ q \in [state_ : States, h_state_ : ParseState, in_buffer_ : Seq(Symbol),
                  method_ : Methods, file_name_ : {q.file_name_},
                  headers_ : {q.headers_}, keep_alive_ : BOOLEAN, error_ : Errors]
    BY <1>1, <1>3, <1>4, <1>6
  <2> QED
    BY <2>1, Zenon DEF HttpTyped
<1>7. CASE h.method_ # "POST" /\ q = [alive EXCEPT !.state_ = "STATE_FINISH"]
  <2>1. /\ q.method_ = h.method_ /\ q.file_name_ = h.file_name_
        /\ q.headers_ = h.headers_ /\ q.in_buffer_ = h.in_buffer_
        /\ q.error_ = "no" /\ q.state_ = "STATE_FINISH"
        /\ q \in [state_ : States, h_state_ : ParseState, in_buffer_ : Seq(Symbol),
                  method_ : Methods, file_name_ : {q.file_name_},
                  headers_ : {q.headers_}, keep_alive_ : BOOLEAN, error_ : Errors]
    BY <1>1, <1>3, <1>4, <1>7
  <2> QED
    BY <1>7, <2>1, Zenon DEF HttpTyped
<1> QED
  BY <1>2, <1>5, <1>6, <1>7, Zenon

\* The outcomes have their types, and an error in the request line changes
\* nothing else that is kept.
LEMMA OutcomesTyped ==
  ASSUME NEW h0, HttpTyped(h0), h0.error_ = "no",
         h0.state_ \in {"STATE_PARSE_URI", "STATE_PARSE_HEADERS", "STATE_RECV_BODY"},
         h0.state_ = "STATE_RECV_BODY" => h0.method_ = "POST",
         NEW h \in Outcomes(h0)
  PROVE  /\ HttpTyped(h)
         /\ h0.state_ # "STATE_PARSE_URI" => h.method_ = h0.method_
         /\ \/ /\ h.error_ # "no" /\ h.state_ # "STATE_FINISH"
               /\ h.state_ = "STATE_PARSE_URI" =>
                    /\ h0.state_ = "STATE_PARSE_URI" /\ h.in_buffer_ = <<>>
                    /\ h.h_state_ = h0.h_state_ /\ h.headers_ = h0.headers_
                    /\ h.file_name_ = h0.file_name_
            \/ /\ h.error_ = "no"
               /\ h.state_ \in {"STATE_PARSE_HEADERS", "STATE_RECV_BODY", "STATE_FINISH"}
               /\ h.state_ = "STATE_RECV_BODY" => h.method_ = "POST"
               /\ h.state_ = "STATE_FINISH" => h.method_ # "POST"
<1> DEFINE u == Uri(h0)
           q == Headers(u)
           y == Body(q)
<1>1. h \in IF y.state_ = "STATE_ANALYSIS" /\ y.error_ = "no"
            THEN AnalysisRequest(y) ELSE {y}
  BY OutcomesAre, Zenon
<1>2. /\ HttpTyped(u) /\ (h0.state_ # "STATE_PARSE_URI" => u = h0)
      /\ h0.state_ = "STATE_PARSE_URI" =>
           /\ u.h_state_ = h0.h_state_ /\ u.headers_ = h0.headers_
           /\ \/ /\ u.error_ = "400" /\ u.in_buffer_ = <<>>
                 /\ u.state_ = h0.state_ /\ u.file_name_ = h0.file_name_
              \/ u.error_ = "no" /\ u.state_ = "STATE_PARSE_HEADERS"
  <2>1. CASE h0.state_ = "STATE_PARSE_URI"
    <3>1. u = ParseURI(h0)
      BY <2>1, Zenon DEF Uri, Stage
    <3> HIDE DEF u
    <3> QED
      BY <2>1, <3>1, ParseURITyped, Zenon
  <2>2. CASE h0.state_ # "STATE_PARSE_URI"
    BY <2>2, Zenon DEF Uri, Stage
  <2> QED
    BY <2>1, <2>2
<1> HIDE DEF u
<1>3. CASE u.error_ # "no"
  <2>1. h0.state_ = "STATE_PARSE_URI"
    BY <1>2, <1>3, Zenon
  <2>2. u.state_ = "STATE_PARSE_URI" /\ u.error_ = "400"
    BY <1>2, <1>3, <2>1, Zenon
  <2>3. q = u
    BY <1>3, Zenon DEF Headers, Stage
  <2>4. y = u
    BY <1>3, <2>3, Zenon DEF Body, Stage
  <2> HIDE DEF y
  <2>5. h = u
    BY <1>1, <1>3, <2>4, Zenon
  <2> QED
    BY <1>2, <1>3, <2>1, <2>2, <2>5
<1>4. CASE u.error_ = "no"
  <2>1. /\ u.state_ \in {"STATE_PARSE_HEADERS", "STATE_RECV_BODY"}
        /\ u.state_ = "STATE_RECV_BODY" => u.method_ = "POST"
        /\ h0.state_ # "STATE_PARSE_URI" => u.method_ = h0.method_
    BY <1>2, <1>4
  <2>2. /\ HttpTyped(q) /\ q.method_ = u.method_
        /\ \/ q.error_ # "no" /\ q.state_ \in {"STATE_PARSE_HEADERS", "STATE_RECV_BODY"}
           \/ /\ q.error_ = "no"
              /\ q.state_ \in {"STATE_PARSE_HEADERS", "STATE_RECV_BODY", "STATE_ANALYSIS"}
              /\ q.state_ = "STATE_RECV_BODY" => q.method_ = "POST"
    <3>1. CASE u.state_ = "STATE_PARSE_HEADERS"
      <4>1. q = ParseHeaders(u)
        BY <1>4, <3>1, Zenon DEF Headers, Stage
      <4> HIDE DEF q
      <4>2. \/ q = [u EXCEPT !.error_ = "400"]
            \/ \E F : \E c \in 0..Len(u.in_buffer_) : q = Ended(u, F, c)
            \/ /\ HttpTyped(q) /\ q.state_ = u.state_ /\ q.error_ = u.error_
               /\ q.method_ = u.method_
        BY <1>2, <4>1, HeadersAnyhow, Zenon
      <4>3. CASE q = [u EXCEPT !.error_ = "400"]
        <5>1. "400" \in Errors
          BY DEF Errors
        <5>2. /\ HttpTyped(q) /\ q.error_ = "400" /\ q.state_ = u.state_
              /\ q.method_ = u.method_
          BY <1>2, <4>3, <5>1, FailedIs, Zenon
        <5> QED
          BY <3>1, <5>2
      <4>4. ASSUME NEW F, NEW c \in 0..Len(u.in_buffer_), q = Ended(u, F, c)
            PROVE  /\ HttpTyped(q) /\ q.method_ = u.method_ /\ q.error_ = "no"
                   /\ q.state_ = IF q.method_ = "POST" THEN "STATE_RECV_BODY"
                                 ELSE "STATE_ANALYSIS"
        <5>1. HasEnded(u, q, F, c)
          BY <1>2, <4>4, EndedIs, Zenon
        <5> QED
          BY <1>4, <5>1 DEF HasEnded
      <4>5. CASE \E F : \E c \in 0..Len(u.in_buffer_) : q = Ended(u, F, c)
        <5>1. /\ HttpTyped(q) /\ q.method_ = u.method_ /\ q.error_ = "no"
              /\ q.state_ = IF q.method_ = "POST" THEN "STATE_RECV_BODY"
                            ELSE "STATE_ANALYSIS"
          BY <4>4, <4>5, Zenon
        <5> QED
          BY <5>1
      <4>6. CASE /\ HttpTyped(q) /\ q.state_ = u.state_ /\ q.error_ = u.error_
                 /\ q.method_ = u.method_
        BY <1>4, <3>1, <4>6
      <4> QED
        BY <4>2, <4>3, <4>5, <4>6, Zenon
    <3>2. CASE u.state_ # "STATE_PARSE_HEADERS"
      <4>1. q = u
        BY <3>2, Zenon DEF Headers, Stage
      <4> HIDE DEF q
      <4> QED
        BY <1>2, <1>4, <2>1, <3>2, <4>1
    <3> QED
      BY <3>1, <3>2
  <2> HIDE DEF q
  <2>3. /\ HttpTyped(y) /\ y.method_ = u.method_
        /\ y.state_ \in {"STATE_PARSE_HEADERS", "STATE_RECV_BODY", "STATE_ANALYSIS"}
        /\ y.error_ = "no" /\ y.state_ = "STATE_RECV_BODY" => y.method_ = "POST"
    <3>1. CASE q.state_ = "STATE_RECV_BODY" /\ q.error_ = "no"
      <4>1. y = ReceiveBody(q)
        BY <3>1, Zenon DEF Body, Stage
      <4> HIDE DEF y
      <4>2. /\ HttpTyped(y) /\ y.method_ = q.method_
            /\ \/ y.error_ = "400" /\ y.state_ = q.state_
               \/ y.error_ = "no" /\ y.state_ = "STATE_ANALYSIS"
               \/ y = q
        BY <2>2, <3>1, <4>1, ReceiveBodyTyped, Zenon
      <4>3. q.method_ = "POST"
        BY <2>2, <3>1
      <4>4. CASE y.error_ = "400" /\ y.state_ = q.state_
        BY <2>2, <3>1, <4>2, <4>4
      <4>5. CASE y.error_ = "no" /\ y.state_ = "STATE_ANALYSIS"
        BY <2>2, <4>2, <4>5
      <4>6. CASE y = q
        BY <2>2, <3>1, <4>3, <4>6
      <4> QED
        BY <4>2, <4>4, <4>5, <4>6, Zenon
    <3>2. CASE ~(q.state_ = "STATE_RECV_BODY" /\ q.error_ = "no")
      <4>1. y = q
        BY <3>2, Zenon DEF Body, Stage
      <4> HIDE DEF y
      <4> QED
        BY <2>2, <3>2, <4>1
    <3> QED
      BY <3>1, <3>2
  <2> HIDE DEF y
  <2>4. CASE y.state_ = "STATE_ANALYSIS" /\ y.error_ = "no"
    <3>1. h \in AnalysisRequest(y)
      BY <1>1, <2>4, Zenon
    <3>2. /\ HttpTyped(h) /\ h.method_ = y.method_
          /\ \/ h.error_ \in {"404", "unanswered"} /\ h.state_ = y.state_
             \/ /\ h.error_ = "no" /\ h.state_ = "STATE_FINISH"
                /\ y.method_ # "POST"
      BY <2>3, <2>4, <3>1, AnalysisIs, Zenon
    <3> QED
      BY <2>1, <2>3, <2>4, <3>2
  <2>5. CASE ~(y.state_ = "STATE_ANALYSIS" /\ y.error_ = "no")
    <3>1. h = y
      BY <1>1, <2>5, Zenon
    <3> QED
      BY <2>1, <2>3, <2>5, <3>1
  <2> QED
    BY <2>4, <2>5
<1> QED
  BY <1>3, <1>4

\* What a pass makes of the headers of r, when it begins at a place in them.
PassRead(h, h1, r, a, more, p, b) ==
  LET str == h1.in_buffer_
      N == Len(str)
      e == LastOf(r, a)
  IN
  \/ h.error_ # "no"
  \/ /\ h.error_ = "no" /\ h.state_ = "STATE_FINISH"
     /\ h.method_ = h1.method_ /\ h.file_name_ = h1.file_name_
     /\ \E c \in 0..N : /\ h.in_buffer_ = Rest(str, c)
                        /\ \/ b + c \in {e - 2, e - 1, e}
                           \/ more /\ b + c = e + 1
  \/ /\ h.error_ = "no" /\ h.state_ = "STATE_PARSE_HEADERS"
     /\ h.method_ = h1.method_ /\ h.file_name_ = h1.file_name_
     /\ h.h_state_ # "H_END_LF"
     /\ \E k \in 0..N : /\ h.in_buffer_ = Rest(str, k)
                        /\ Place(r, a, more, p, h.h_state_, b + k, b + N)

\* A pass of HandleRead that begins in the headers of a request that is not a
\* POST.
LEMMA HeadersPass ==
  ASSUME NEW T, NEW r, NEW a, NEW more, NEW p, Around(T, r, a, more, p),
         NEW b \in Nat, NEW h1, HttpTyped(h1), Follows(h1.in_buffer_, T, b),
         Place(r, a, more, p, h1.h_state_, b, b),
         more \/ b + Len(h1.in_buffer_) <= LastOf(r, a),
         h1.error_ = "no", h1.state_ = "STATE_PARSE_HEADERS", h1.method_ # "POST",
         NEW h \in Outcomes(h1)
  PROVE  PassRead(h, h1, r, a, more, p, b)
<1> DEFINE q == ParseHeaders(h1)
           str == h1.in_buffer_
           N == Len(str)
           e == LastOf(r, a)
<1>1. Uri(h1) = h1 /\ Headers(h1) = q
  BY Zenon DEF Uri, Headers, Stage
<1>2. h \in IF Body(q).state_ = "STATE_ANALYSIS" /\ Body(q).error_ = "no"
            THEN AnalysisRequest(Body(q)) ELSE {Body(q)}
  <2> HIDE DEF q
  <2> QED
    BY <1>1, OutcomesAre, Zenon
<1>3. HeadersRead(h1, q, r, a, more, p, b)
  BY HeadersPlaced, Zenon
<1> HIDE DEF q
<1>4. ~(q.state_ = "STATE_RECV_BODY" /\ q.error_ = "no") =>
        h \in IF q.state_ = "STATE_ANALYSIS" /\ q.error_ = "no"
              THEN AnalysisRequest(q) ELSE {q}
  BY <1>2, Zenon DEF Body, Stage
<1>5. CASE q = [h1 EXCEPT !.error_ = "400"]
  <2>1. "400" \in Errors
    BY DEF Errors
  <2>2. q.error_ = "400"
    BY <1>5, <2>1, FailedIs, Zenon
  <2>3. h = q
    BY <1>4, <2>2
  <2> QED
    BY <2>2, <2>3 DEF PassRead
<1>6. ASSUME NEW F, NEW c \in 0..N, q = Ended(h1, F, c),
             \/ b + c \in {e - 2, e - 1, e}
             \/ more /\ b + c = e + 1
      PROVE  PassRead(h, h1, r, a, more, p, b)
  <2>1. /\ HttpTyped(q) /\ q.in_buffer_ = Rest(str, c)
        /\ q.state_ = "STATE_ANALYSIS" /\ q.error_ = "no"
        /\ q.method_ = h1.method_ /\ q.file_name_ = h1.file_name_
    <3>1. HasEnded(h1, q, F, c)
      BY <1>6, EndedIs, Zenon
    <3> HIDE DEF str
    <3> QED
      BY <3>1 DEF HasEnded, str
  <2>2. h \in AnalysisRequest(q)
    BY <1>4, <2>1
  <2>3. /\ h.method_ = q.method_ /\ h.file_name_ = q.file_name_
        /\ h.in_buffer_ = q.in_buffer_
        /\ \/ h.error_ \in {"404", "unanswered"}
           \/ h.error_ = "no" /\ h.state_ = "STATE_FINISH"
    BY <2>1, <2>2, AnalysisIs, Zenon
  <2>4. CASE h.error_ \in {"404", "unanswered"}
    <3>1. h.error_ # "no"
      BY <2>4
    <3> QED
      BY <3>1, Zenon DEF PassRead
  <2>5. CASE h.error_ = "no" /\ h.state_ = "STATE_FINISH"
    <3>1. \E d \in 0..N : /\ h.in_buffer_ = Rest(str, d)
                          /\ \/ b + d \in {e - 2, e - 1, e}
                             \/ more /\ b + d = e + 1
      BY <1>6, <2>1, <2>3, Zenon
    <3>2. h.method_ = h1.method_ /\ h.file_name_ = h1.file_name_
      BY <2>1, <2>3, Zenon
    <3> QED
      BY <2>5, <3>1, <3>2, Zenon DEF PassRead
  <2> QED
    BY <2>3, <2>4, <2>5
<1>7. ASSUME NEW F, NEW g \in ParseState, NEW k \in 0..N,
             q = Waiting(h1, F, g, k), g # "H_END_LF",
             Place(r, a, more, p, g, b + k, b + N)
      PROVE  PassRead(h, h1, r, a, more, p, b)
  <2>1. /\ q.h_state_ = g /\ q.in_buffer_ = Rest(str, k)
        /\ q.state_ = "STATE_PARSE_HEADERS" /\ q.error_ = "no"
        /\ q.method_ = h1.method_ /\ q.file_name_ = h1.file_name_
    <3>1. IsWaiting(h1, q, F, g, k)
      BY <1>7, WaitingIs, Zenon
    <3> QED
      BY <3>1, Zenon DEF IsWaiting
  <2>2. h = q
    BY <1>4, <2>1
  <2>3. \E d \in 0..N : /\ h.in_buffer_ = Rest(str, d)
                        /\ Place(r, a, more, p, h.h_state_, b + d, b + N)
    BY <1>7, <2>1, <2>2, Zenon
  <2> QED
    BY <1>7, <2>1, <2>2, <2>3, Zenon DEF PassRead
<1> QED
  BY <1>3, <1>5, <1>6, <1>7, Zenon DEF HeadersRead

-----------------------------------------------------------------------------
\* Where the parser is in what was sent.

\* T is what was sent, and request i follows its first at[i] symbols.
LaidOut(T, at, ss) ==
  /\ T \in Seq(Symbol) /\ at \in [1..Len(ss) + 1 -> Nat]
  /\ at[1] = 0 /\ at[Len(ss) + 1] = Len(T)
  /\ \A i \in 1..Len(ss) : /\ at[i + 1] = at[i] + Len(Render(ss[i]))
                           /\ Spells(T, at[i], Render(ss[i]))

\* b symbols are dropped; then comes the buffer, then what is on the wire.
Dropped(T, b, str, rest) ==
  /\ b \in Nat /\ b + Len(str) + Len(rest) = Len(T)
  /\ Follows(str, T, b) /\ Follows(rest, T, b + Len(str))

\* Before request k: at its beginning, or a symbol too far, or with the end of
\* the headers before it still there.
Before(at, k, n, b) ==
  \/ b = at[k]
  \/ k <= n /\ b = at[k] + 1
  \/ k > 1 /\ (b = at[k] - 1 \/ b = at[k] - 2)

\* The parser, in its states, when request k is the next that is served.
AtURI(h, rest, T, at, ss, k) ==
  /\ h.state_ = "STATE_PARSE_URI"
  /\ \E b \in Nat : Dropped(T, b, h.in_buffer_, rest) /\ Before(at, k, Len(ss), b)
AtPost(h, ss, k) ==
  /\ h.state_ \in {"STATE_PARSE_HEADERS", "STATE_RECV_BODY"}
  /\ k <= Len(ss) /\ ss[k].method = "POST" /\ h.method_ = "POST"
AtHeaders(h, rest, T, at, ss, k) ==
  /\ h.state_ = "STATE_PARSE_HEADERS" /\ h.h_state_ # "H_END_LF"
  /\ k <= Len(ss) /\ ss[k].method # "POST"
  /\ h.method_ = ss[k].method /\ h.file_name_ = Named(ss[k])
  /\ \E b \in Nat : /\ Dropped(T, b, h.in_buffer_, rest)
                    /\ Place(ss[k], at[k], k < Len(ss), ss[k + 1], h.h_state_,
                             b, b + Len(h.in_buffer_))
ParserAt(h, rest, T, at, ss, k) ==
  \/ h.error_ # "no"
  \/ AtURI(h, rest, T, at, ss, k)
  \/ AtPost(h, ss, k)
  \/ AtHeaders(h, rest, T, at, ss, k)

PlaceInv ==
  \E T, at : LaidOut(T, at, sent) /\ ParserAt(http, wire, T, at, sent, Len(served) + 1)

\* What was served is what was asked for.
ServedInv ==
  /\ Len(served) \in Nat /\ Len(served) <= Len(sent)
  /\ \A i \in 1..Len(served) : /\ served[i].method = sent[i].method
                               /\ served[i].file = Named(sent[i])
                               /\ sent[i].method # "POST"

\* The fields have their types; the headers and what was served are typed by
\* the values they have.
Typed ==
  /\ HttpTyped(http) /\ wire \in Seq(Symbol) /\ again \in BOOLEAN
  /\ sent \in Seq(Requests) /\ served \in Seq({served[i] : i \in DOMAIN served})
  /\ piped \in BOOLEAN /\ clean \in BOOLEAN

\* A new request finds the parser as it was made, and what is left in the
\* buffer is a reason for HandleRead to call itself.
StateInv ==
  /\ http.error_ = "no" =>
       /\ http.state_ \in {"STATE_PARSE_URI", "STATE_PARSE_HEADERS", "STATE_RECV_BODY"}
       /\ http.state_ = "STATE_RECV_BODY" => http.method_ = "POST"
       /\ http.state_ = "STATE_PARSE_URI" => (again <=> http.in_buffer_ # <<>>)
  /\ http.state_ = "STATE_PARSE_URI" =>
       /\ http.h_state_ = "H_START" /\ http.headers_ = NoHeaders
       /\ http.file_name_ = <<>>
  /\ again => http.state_ = "STATE_PARSE_URI" /\ http.error_ = "no"

\* Where the parser is and what it served can be told as long as the requests
\* are plain: what the code makes of others is not what they ask for.
PlainInv == sent \in Seq(PlainRequests) => ServedInv /\ PlaceInv

IInv == Typed /\ StateInv /\ PlainInv
\* The requests in the text.
LEMMA LaidOutIs ==
  ASSUME NEW ss \in Seq(PlainRequests), NEW T, NEW at, LaidOut(T, at, ss)
  PROVE  /\ Len(ss) \in Nat /\ Len(T) \in Nat
         /\ \A i \in 1..(Len(ss) + 1) : at[i] \in Nat /\ at[i] <= Len(T)
         /\ \A i \in 1..Len(ss) : Plain(ss[i]) /\ Stands(T, at[i], ss[i])
<1> DEFINE n == Len(ss)
           L == Len(T)
<1>1. n \in Nat /\ \A i \in 1..n : ss[i] \in PlainRequests
  OBVIOUS
<1>2. /\ T \in Seq(Symbol) /\ at \in [1..(n + 1) -> Nat] /\ at[n + 1] = L
      /\ \A i \in 1..n : /\ at[i + 1] = at[i] + Len(Render(ss[i]))
                         /\ Spells(T, at[i], Render(ss[i]))
  BY Zenon DEF LaidOut
<1>3. L \in Nat
  BY <1>2
<1>4. \A i \in 1..(n + 1) : at[i] \in Nat
  BY <1>2
<1>5. \A i \in 1..n : Plain(ss[i])
  BY <1>1, PlainRequestIs, Zenon
<1> HIDE DEF n, L
<1>6. \A i \in 1..n : Stands(T, at[i], ss[i])
  <2> TAKE i \in 1..n
  <2>1. i \in 1..(n + 1)
    BY <1>1
  <2> QED
    BY <1>2, <1>4, <1>5, <2>1, StandsIs, Zenon
<1>7. \A i \in 1..n : at[i] <= at[i + 1]
  <2> TAKE i \in 1..n
  <2> DEFINE R == Len(Render(ss[i]))
  <2>1. i \in 1..(n + 1)
    BY <1>1
  <2>2. at[i + 1] = at[i] + R /\ at[i] \in Nat
    BY <1>2, <1>4, <2>1, Zenon
  <2>3. R \in Nat
    <3>1. RequestLaid(Render(ss[i]), End(ss[i]), ss[i])
      BY <1>5, RequestIs, Zenon
    <3> QED
      BY <3>1, Zenon DEF RequestLaid
  <2> HIDE DEF R
  <2> QED
    BY <2>2, <2>3
<1> DEFINE G == {d \in Nat : d <= n => at[(n + 1) - d] <= L}
<1>8. 0 \in G
  <2>1. (n + 1) - 0 = n + 1
    BY <1>1
  <2>2. at[n + 1] <= L
    BY <1>2, <1>3
  <2> QED
    BY <2>1, <2>2
<1>9. ASSUME NEW d \in G PROVE d + 1 \in G
  <2>1. d \in Nat /\ (d <= n => at[(n + 1) - d] <= L)
    OBVIOUS
  <2> HIDE DEF G
  <2>2. SUFFICES ASSUME d + 1 <= n PROVE at[(n + 1) - (d + 1)] <= L
    BY <2>1 DEF G
  <2> DEFINE i == (n + 1) - (d + 1)
  <2>3. i \in 1..n /\ i + 1 = (n + 1) - d /\ d <= n /\ i \in 1..(n + 1) /\ i + 1 \in 1..(n + 1)
    BY <1>1, <2>1, <2>2
  <2> HIDE DEF i
  <2>4. at[i] <= at[i + 1] /\ at[i + 1] <= L
    BY <1>7, <2>1, <2>3, Zenon
  <2>5. at[i] \in Nat /\ at[i + 1] \in Nat
    BY <1>4, <2>3, Zenon
  <2>6. at[i] <= L
    BY <1>3, <2>4, <2>5
  <2> QED
    BY <2>6, Zenon DEF i
<1> HIDE DEF G
<1>10. \A d \in Nat : d \in G
  <2>1. G \in SUBSET Nat
    BY DEF G
  <2> QED
    BY <1>8, <1>9, <2>1, Induction, Zenon
<1>11. \A i \in 1..(n + 1) : at[i] <= L
  <2> TAKE i \in 1..(n + 1)
  <2> DEFINE d == (n + 1) - i
  <2>1. d \in Nat /\ d <= n /\ (n + 1) - d = i
    BY <1>1
  <2> HIDE DEF d
  <2>2. d \in G
    BY <1>10, <2>1, Zenon
  <2>3. at[(n + 1) - d] <= L
    BY <2>1, <2>2 DEF G
  <2> QED
    BY <2>1, <2>3, Zenon
<1> QED
  BY <1>1, <1>3, <1>4, <1>5, <1>6, <1>11, Zenon DEF n, L

\* Behind a request that is no POST comes the next one, behind the LF that ends
\* its headers.
NextBegins(T, at, ss, i) ==
  /\ at[i + 1] \in Nat /\ at[i] < at[i + 1] /\ 2 < at[i + 1]
  /\ at[i] + 2 <= at[i + 1]
  /\ ss[i].method # "POST" => /\ LastOf(ss[i], at[i]) = at[i + 1]
                              /\ T[at[i + 1]] = "LF" /\ T[at[i + 1] - 1] = "CR"

\* A request ends before the next one begins, and one that is not a POST with
\* CR and LF.
LEMMA NextRequest ==
  ASSUME NEW ss \in Seq(PlainRequests), NEW T, NEW at, LaidOut(T, at, ss),
         NEW i \in 1..Len(ss)
  PROVE  NextBegins(T, at, ss, i)
<1> DEFINE n == Len(ss)
           r == ss[i]
           a == at[i]
           m == Len(r.headers)
           x == EndAt(r, a)[m]
           R == Len(Render(r))
           B == Len(r.body)
<1>1. i \in 1..(Len(ss) + 1) /\ i + 1 \in 1..(Len(ss) + 1)
  OBVIOUS
<1>2. Plain(r) /\ Stands(T, a, r) /\ a \in Nat /\ at[i + 1] \in Nat
  BY <1>1, LaidOutIs, Zenon
<1>3. at[i + 1] = a + R
  BY Zenon DEF LaidOut
<1>4. /\ m \in Nat /\ B \in Nat /\ a + R = x + 2 + B
      /\ \A j \in 0..m : EndAt(r, a)[j] \in Nat /\ a < EndAt(r, a)[j]
      /\ T[x + 1] = "CR" /\ T[x + 2] = "LF"
  BY <1>2, Zenon DEF Stands
<1>5. m \in 0..m
  BY <1>4
<1>6. x \in Nat /\ a < x
  BY <1>4, <1>5, Zenon
<1>7. r.method # "POST" => B = 0
  <2>1. r.method # "POST" => r.body = <<>>
    BY <1>2, Zenon DEF Plain, RequestOK, Clear
  <2> HIDE DEF r
  <2> QED
    BY <2>1
<1>8. LastOf(r, a) = x + 2
  BY Zenon DEF LastOf
<1> HIDE DEF x, B, R, m, a, r
<1>9. at[i + 1] = x + 2 + B /\ a \in Nat /\ B \in Nat
  BY <1>2, <1>3, <1>4, Zenon
<1>10. /\ a < x + 2 + B /\ a + 2 <= x + 2 + B /\ 2 < x + 2 + B
       /\ B = 0 => x + 2 + B = x + 2 /\ (x + 2) - 1 = x + 1
  BY <1>2, <1>6, <1>9
<1>11. a < at[i + 1] /\ 2 < at[i + 1] /\ a + 2 <= at[i + 1]
  BY <1>9, <1>10, Zenon
<1>12. ASSUME r.method # "POST"
       PROVE  LastOf(r, a) = at[i + 1] /\ T[at[i + 1]] = "LF" /\ T[at[i + 1] - 1] = "CR"
  <2>1. at[i + 1] = x + 2
    BY <1>7, <1>9, <1>10, <1>12, Zenon
  <2>2. at[i + 1] - 1 = x + 1
    BY <1>7, <1>10, <1>12, <2>1, Zenon
  <2> QED
    BY <1>4, <1>8, <2>1, <2>2, Zenon
<1> QED
  BY <1>2, <1>11, <1>12, Zenon DEF NextBegins, a, r
\* Sending adds to the text, and what is there stays.

\* What a concatenation holds.
LEMMA ConcatIs ==
  ASSUME NEW s \in Seq(Symbol), NEW t \in Seq(Symbol)
  PROVE  /\ s \o t \in Seq(Symbol) /\ Len(s \o t) = Len(s) + Len(t)
         /\ Len(s) \in Nat /\ Len(t) \in Nat
         /\ \A p \in 1..Len(s) : (s \o t)[p] = s[p]
         /\ \A p \in 1..Len(t) : (s \o t)[Len(s) + p] = t[p]
  OBVIOUS

\* A buffer that follows a text follows the text with more behind it.
LEMMA FollowsMore ==
  ASSUME NEW T \in Seq(Symbol), NEW R \in Seq(Symbol), NEW b \in Nat,
         NEW str \in Seq(Symbol), b + Len(str) <= Len(T), Follows(str, T, b)
  PROVE  Follows(str, T \o R, b)
<1> DEFINE N == Len(str)
           L == Len(T)
           T2 == T \o R
<1>1. N \in Nat /\ L \in Nat /\ b + N <= L /\ \A p \in 1..L : T2[p] = T[p]
  <2>1. N \in Nat
    OBVIOUS
  <2> QED
    BY <2>1, ConcatIs, Zenon
<1>2. \A p \in 1..N : str[p] = T[b + p]
  BY Zenon DEF Follows
<1> HIDE DEF N, L, T2
<1>3. ASSUME NEW p \in 1..N PROVE str[p] = T2[b + p]
  <2>1. b + p \in 1..L
    BY <1>1
  <2> QED
    BY <1>1, <1>2, <2>1, Zenon
<1> QED
  BY <1>3, Zenon DEF Follows, N, T2

\* So does a buffer with what is on the wire behind it, if that grows with the
\* text.
LEMMA DroppedMore ==
  ASSUME NEW T \in Seq(Symbol), NEW R \in Seq(Symbol), NEW b,
         NEW str \in Seq(Symbol), NEW rest \in Seq(Symbol), Dropped(T, b, str, rest)
  PROVE  Dropped(T \o R, b, str, rest \o R)
<1> DEFINE N == Len(str)
           M == Len(rest)
           L == Len(T)
           K == Len(R)
           T2 == T \o R
           more == rest \o R
<1>1. /\ N \in Nat /\ M \in Nat /\ L \in Nat /\ K \in Nat
      /\ Len(T2) = L + K /\ Len(more) = M + K
      /\ \A p \in 1..L : T2[p] = T[p]
      /\ \A p \in 1..K : T2[L + p] = R[p]
      /\ \A p \in 1..M : more[p] = rest[p]
      /\ \A p \in 1..K : more[M + p] = R[p]
  <2>1. N \in Nat
    OBVIOUS
  <2>2. /\ Len(T2) = L + K /\ L \in Nat /\ K \in Nat
        /\ \A p \in 1..L : T2[p] = T[p]
        /\ \A p \in 1..K : T2[L + p] = R[p]
    BY ConcatIs, Zenon
  <2>3. /\ Len(more) = M + K /\ M \in Nat
        /\ \A p \in 1..M : more[p] = rest[p]
        /\ \A p \in 1..K : more[M + p] = R[p]
    BY ConcatIs, Zenon
  <2> QED
    BY <2>1, <2>2, <2>3, Zenon
<1>2. /\ b \in Nat /\ b + N + M = L
      /\ Follows(str, T, b) /\ \A p \in 1..M : rest[p] = T[(b + N) + p]
  BY Zenon DEF Dropped, Follows
<1>3. Follows(str, T2, b)
  <2>1. b + N <= L
    <3> HIDE DEF N, L
    <3> QED
      BY <1>1, <1>2
  <2> QED
    BY <1>2, <2>1, FollowsMore, Zenon
<1> HIDE DEF N, M, L, K, T2, more
<1>4. ASSUME NEW p \in 1..(M + K) PROVE more[p] = T2[(b + N) + p]
  <2>1. CASE p \in 1..M
    <3>1. (b + N) + p \in 1..L
      BY <1>1, <1>2, <2>1
    <3> QED
      BY <1>1, <1>2, <2>1, <3>1, Zenon
  <2>2. CASE p \notin 1..M
    <3> DEFINE q == p - M
    <3>1. q \in 1..K /\ M + q = p /\ L + q = (b + N) + p
      BY <1>1, <1>2, <2>2
    <3> HIDE DEF q
    <3>2. more[M + q] = R[q] /\ T2[L + q] = R[q]
      BY <1>1, <3>1, Zenon
    <3> QED
      BY <3>1, <3>2, Zenon
  <2> QED
    BY <2>1, <2>2
<1>5. b + N + (M + K) = L + K
  BY <1>1, <1>2
<1>6. Follows(more, T2, b + N)
  BY <1>1, <1>4, Zenon DEF Follows
<1> QED
  BY <1>1, <1>2, <1>3, <1>5, <1>6, Zenon DEF Dropped, N, M, T2, more

\* Where the requests are, with one more.
AtMore(at, n, r) ==
  [i \in 1..(n + 2) |-> IF i <= n + 1 THEN at[i] ELSE at[n + 1] + Len(Render(r))]

\* One more request is laid out behind the ones before.
LEMMA LaidOutMore ==
  ASSUME NEW ss \in Seq(PlainRequests), NEW r \in PlainRequests, NEW T, NEW at, LaidOut(T, at, ss)
  PROVE  /\ LaidOut(T \o Render(r), AtMore(at, Len(ss), r), Append(ss, r))
         /\ \A i \in 1..(Len(ss) + 1) : AtMore(at, Len(ss), r)[i] = at[i]
<1> DEFINE n == Len(ss)
           R == Render(r)
           K == Len(R)
           L == Len(T)
           T2 == T \o R
           ss2 == Append(ss, r)
           at2 == AtMore(at, n, r)
<1>1. /\ n \in Nat /\ L \in Nat
      /\ \A i \in 1..(n + 1) : at[i] \in Nat /\ at[i] <= L
      /\ \A i \in 1..n : Plain(ss[i])
  BY LaidOutIs, Zenon
<1>2. R \in Seq(Symbol) /\ K \in Nat
  <2>1. Plain(r)
    BY PlainRequestIs, Zenon
  <2>2. RequestLaid(R, End(r), r)
    BY <2>1, RequestIs, Zenon
  <2> QED
    BY <2>2, Zenon DEF RequestLaid
<1>3. /\ T \in Seq(Symbol) /\ at[1] = 0 /\ at[n + 1] = L
      /\ \A i \in 1..n : at[i + 1] = at[i] + Len(Render(ss[i]))
      /\ \A i \in 1..n : Spells(T, at[i], Render(ss[i]))
  BY Zenon DEF LaidOut
<1>4. /\ T2 \in Seq(Symbol) /\ Len(T2) = L + K
      /\ \A p \in 1..L : T2[p] = T[p]
      /\ \A p \in 1..K : T2[L + p] = R[p]
  <2> HIDE DEF R
  <2> QED
    BY <1>2, <1>3, ConcatIs, Zenon
<1>5. Len(ss2) = n + 1 /\ ss2[n + 1] = r /\ \A i \in 1..n : ss2[i] = ss[i]
  OBVIOUS
<1>6. at2 = [i \in 1..(n + 2) |-> IF i <= n + 1 THEN at[i] ELSE at[n + 1] + K]
  BY Zenon DEF AtMore
<1> HIDE DEF n, R, K, L, T2, ss2, at2
<1>7. /\ \A i \in 1..(n + 1) : at2[i] = at[i]
      /\ at2[n + 2] = L + K
      /\ at2 \in [1..(n + 2) -> Nat]
  <2>1. n + 2 \in 1..(n + 2) /\ ~(n + 2 <= n + 1)
    BY <1>1
  <2>2. n + 1 \in 1..(n + 1) /\ at[n + 1] = L
    BY <1>1, <1>3
  <2>3. at2[n + 2] = at[n + 1] + K
    BY <1>6, <2>1
  <2>4. ASSUME NEW i \in 1..(n + 1) PROVE at2[i] = at[i]
    <3>1. i \in 1..(n + 2) /\ i <= n + 1
      BY <1>1
    <3> QED
      BY <1>6, <3>1
  <2>5. ASSUME NEW i \in 1..(n + 2) PROVE at2[i] \in Nat
    <3>1. CASE i \in 1..(n + 1)
      BY <1>1, <2>4, <3>1, Zenon
    <3>2. CASE i \notin 1..(n + 1)
      <4>1. i = n + 2
        BY <1>1, <3>2
      <4>2. L + K \in Nat
        BY <1>1, <1>2
      <4> QED
        BY <2>2, <2>3, <4>1, <4>2, Zenon
    <3> QED
      BY <3>1, <3>2
  <2>6. at2 \in [1..(n + 2) -> Nat]
    BY <1>6, <2>5
  <2> QED
    BY <2>2, <2>3, <2>4, <2>6, Zenon
<1>8. ASSUME NEW i \in 1..(n + 1)
      PROVE  /\ at2[i + 1] = at2[i] + Len(Render(ss2[i]))
             /\ Spells(T2, at2[i], Render(ss2[i]))
  <2>1. CASE i \in 1..n
    <3>1. i + 1 \in 1..(n + 1) /\ i \in 1..(n + 1)
      BY <1>1, <2>1
    <3> DEFINE Q == Render(ss[i])
               q == Len(Q)
    <3>2. /\ at2[i + 1] = at[i + 1] /\ at2[i] = at[i] /\ ss2[i] = ss[i]
          /\ at[i + 1] = at[i] + q /\ \A p \in 1..q : T[at[i] + p] = Q[p]
          /\ at[i] \in Nat /\ at[i + 1] <= L
      BY <1>1, <1>3, <1>5, <1>7, <2>1, <3>1, Zenon DEF Spells
    <3>3. q \in Nat
      <4>1. Plain(ss[i])
        BY <1>1, <2>1, Zenon
      <4>2. RequestLaid(Q, End(ss[i]), ss[i])
        BY <4>1, RequestIs, Zenon
      <4> QED
        BY <4>2, Zenon DEF RequestLaid
    <3> HIDE DEF q, Q
    <3>4. ASSUME NEW p \in 1..q PROVE T2[at[i] + p] = Q[p]
      <4>1. at[i] + q <= L
        BY <3>2, Zenon
      <4>2. at[i] + p \in 1..L
        BY <1>1, <3>2, <3>3, <4>1
      <4> QED
        BY <1>4, <3>2, <4>2, Zenon
    <3> QED
      BY <3>2, <3>4, Zenon DEF Spells, q, Q
  <2>2. CASE i \notin 1..n
    <3>1. i = n + 1 /\ i + 1 = n + 2
      BY <1>1, <2>2
    <3>2. at2[i] = L /\ ss2[i] = r /\ at2[i + 1] = L + K
      BY <1>3, <1>5, <1>7, <3>1, Zenon
    <3> QED
      BY <1>4, <3>2, Zenon DEF Spells, K, R
  <2> QED
    BY <2>1, <2>2
<1>9. 1 \in 1..(n + 1) /\ (n + 1) + 1 = n + 2
  BY <1>1
<1>10. LaidOut(T2, at2, ss2)
  <2>1. at2[1] = 0
    BY <1>3, <1>7, <1>9, Zenon
  <2> QED
    BY <1>4, <1>5, <1>7, <1>8, <1>9, <2>1, Zenon DEF LaidOut
<1> QED
  BY <1>7, <1>10, Zenon DEF T2, at2, ss2, R, n
\* The parser stays where it is while a request is sent.
LEMMA ParserAtMore ==
  ASSUME NEW ss \in Seq(PlainRequests), NEW r \in PlainRequests, NEW T, NEW at,
         LaidOut(T, at, ss), NEW h, HttpTyped(h), NEW rest \in Seq(Symbol),
         NEW k \in 1..(Len(ss) + 1), ParserAt(h, rest, T, at, ss, k)
  PROVE  ParserAt(h, rest \o Render(r), T \o Render(r), AtMore(at, Len(ss), r),
                  Append(ss, r), k)
<1> DEFINE n == Len(ss)
           R == Render(r)
           T2 == T \o R
           rest2 == rest \o R
           ss2 == Append(ss, r)
           at2 == AtMore(at, n, r)
           str == h.in_buffer_
<1>1. n \in Nat /\ n + 1 \in Nat /\ Len(ss2) = n + 1 /\ \A i \in 1..n : ss2[i] = ss[i]
  OBVIOUS
<1>2. at2[k] = at[k]
  <2>1. \A i \in 1..(Len(ss) + 1) : AtMore(at, Len(ss), r)[i] = at[i]
    BY LaidOutMore
  <2> QED
    BY <2>1, Zenon
<1>3. T \in Seq(Symbol)
  BY Zenon DEF LaidOut
<1>4. R \in Seq(Symbol)
  <2>1. Plain(r)
    BY PlainRequestIs, Zenon
  <2>2. RequestLaid(R, End(r), r)
    BY <2>1, RequestIs, Zenon
  <2> QED
    BY <2>2, Zenon DEF RequestLaid
<1>5. str \in Seq(Symbol)
  BY DEF HttpTyped
<1>6. \A b : Dropped(T, b, str, rest) => Dropped(T2, b, str, rest2)
  <2> HIDE DEF R, str
  <2> QED
    BY <1>3, <1>4, <1>5, DroppedMore, Zenon
<1> HIDE DEF R, T2, rest2, ss2, at2, str
<1>7. CASE h.error_ # "no"
  BY <1>7, Zenon DEF ParserAt
<1>8. CASE AtURI(h, rest, T, at, ss, k)
  <2>1. PICK b \in Nat : Dropped(T, b, str, rest) /\ Before(at, k, n, b)
    BY <1>8, Zenon DEF AtURI, str
  <2>2. Dropped(T2, b, str, rest2)
    BY <1>6, <2>1, Zenon
  <2>3. k <= n => k <= n + 1
    BY <1>1
  <2>4. Before(at2, k, n + 1, b)
    <3> HIDE DEF n
    <3> QED
      BY <1>2, <2>1, <2>3, Zenon DEF Before
  <2>5. h.state_ = "STATE_PARSE_URI"
    BY <1>8, Zenon DEF AtURI
  <2>6. AtURI(h, rest2, T2, at2, ss2, k)
    BY <1>1, <2>2, <2>4, <2>5, Zenon DEF AtURI, str
  <2> QED
    BY <2>6, Zenon DEF ParserAt, rest2, T2, at2, ss2, R
<1>9. CASE AtPost(h, ss, k)
  <2>1. k <= n
    BY <1>9, Zenon DEF AtPost
  <2>2. k <= n + 1 /\ k \in 1..n
    BY <1>1, <2>1
  <2>3. AtPost(h, ss2, k)
    BY <1>1, <1>9, <2>2, Zenon DEF AtPost
  <2> QED
    BY <2>3, Zenon DEF ParserAt, rest2, T2, at2, ss2, R
<1>10. CASE AtHeaders(h, rest, T, at, ss, k)
  <2>1. /\ h.state_ = "STATE_PARSE_HEADERS" /\ h.h_state_ # "H_END_LF"
        /\ k <= n /\ ss[k].method # "POST"
        /\ h.method_ = ss[k].method /\ h.file_name_ = Named(ss[k])
    BY <1>10, Zenon DEF AtHeaders
  <2> DEFINE N == Len(str)
             g == h.h_state_
  <2>2. PICK b \in Nat :
          /\ Dropped(T, b, str, rest)
          /\ Place(ss[k], at[k], k < n, ss[k + 1], g, b, b + N)
    BY <1>10, Zenon DEF AtHeaders, str
  <2>3. Dropped(T2, b, str, rest2)
    BY <1>6, <2>2, Zenon
  <2>4. k <= n + 1 /\ k \in 1..n /\ k < n + 1 /\ (k < n => k + 1 \in 1..n)
    BY <1>1, <2>1
  <2>5. ss2[k] = ss[k] /\ (k < n => ss2[k + 1] = ss[k + 1])
    BY <1>1, <2>4, Zenon
  <2>6. Place(ss2[k], at2[k], k < n + 1, ss2[k + 1], g, b, b + N)
    <3>1. \/ InHeaders(ss[k], at[k], g, b, b + N)
          \/ BeforeRequestLine(at[k], g, b, b + N)
          \/ InRequestLine(ss[k], at[k], g, b, b + N)
          \/ /\ k < n /\ ss[k].headers = <<>>
             /\ InRequestLine(ss[k + 1], LastOf(ss[k], at[k]), g, b, b + N)
      BY <2>2, Zenon DEF Place
    <3> HIDE DEF N, g, n
    <3> QED
      BY <1>2, <2>4, <2>5, <3>1, Zenon DEF Place
  <2>7. AtHeaders(h, rest2, T2, at2, ss2, k)
    <3> HIDE DEF n
    <3> QED
      BY <1>1, <2>1, <2>3, <2>4, <2>5, <2>6, Zenon DEF AtHeaders, str
  <2> QED
    BY <2>7, Zenon DEF ParserAt, rest2, T2, at2, ss2, R
<1> QED
  BY <1>7, <1>8, <1>9, <1>10, Zenon DEF ParserAt

\* Sending keeps the invariant.
LEMMA SendKeeps ==
  ASSUME IInv, NEW r \in Requests, Send(r)
  PROVE  IInv'
<1> DEFINE R == Render(r)
           n == Len(sent)
           k == Len(served) + 1
<1>1. /\ sent' = Append(sent, r) /\ wire' = wire \o R
      /\ http' = http /\ again' = again /\ served' = served /\ clean' = clean
      /\ piped' = (piped \/ Len(served) < Len(sent) \/ again)
  BY Zenon DEF Send
<1>2. /\ HttpTyped(http) /\ wire \in Seq(Symbol) /\ again \in BOOLEAN
      /\ sent \in Seq(Requests) /\ served \in Seq({served[i] : i \in DOMAIN served})
      /\ clean \in BOOLEAN /\ piped \in BOOLEAN
  BY Zenon DEF IInv, Typed
<1>3. R \in Seq(Symbol)
  BY RequestsAssumption, RenderTyped, Zenon
<1>4. StateInv'
  <2>1. StateInv
    BY Zenon DEF IInv
  <2> QED
    BY <1>1, <2>1, Zenon DEF StateInv
<1>5. Typed'
  <2>1. sent' \in Seq(Requests)
    BY <1>1, <1>2
  <2>2. wire' \in Seq(Symbol)
    <3> HIDE DEF R
    <3> QED
      BY <1>1, <1>2, <1>3
  <2>3. piped' \in BOOLEAN
    BY <1>1
  <2>4. HttpTyped(http')
    BY <1>1, <1>2, Zenon
  <2>5. HttpTyped(http)'
    BY <2>4, Zenon DEF HttpTyped
  <2> QED
    BY <1>1, <1>2, <2>1, <2>2, <2>3, <2>5, Zenon DEF Typed
<1>6. ASSUME sent' \in Seq(PlainRequests) PROVE ServedInv' /\ PlaceInv'
  <2>1. sent \in Seq(PlainRequests)
    <3> DEFINE ss == sent'
    <3>1. ss \in Seq(Requests) /\ ss \in Seq(PlainRequests)
      BY <1>1, <1>2, <1>6
    <3> HIDE DEF ss
    <3>2. \A i \in DOMAIN ss : Clear(ss[i])
      BY <3>1, PlainSequence, Zenon
    <3>3. \A i \in DOMAIN sent' : Clear(sent'[i])
      BY <3>2, Zenon DEF ss
    <3>4. \A i \in DOMAIN sent : i \in DOMAIN sent' /\ sent'[i] = sent[i]
      BY <1>1, <1>2
    <3>5. \A i \in DOMAIN sent : Clear(sent[i])
      BY <3>3, <3>4, Zenon
    <3> QED
      BY <1>2, <3>5, PlainSequence, Zenon
  <2>2. r \in PlainRequests
    <3> DEFINE S == PlainRequests
    <3>1. Append(sent, r) \in Seq(S) /\ Len(sent) \in Nat
      BY <1>1, <1>2, <1>6, LenProperties, Zenon
    <3> HIDE DEF S
    <3>2. Append(sent, r)[Len(sent) + 1] = r /\ Len(Append(sent, r)) = Len(sent) + 1
      BY <1>2
    <3>3. Append(sent, r)[Len(sent) + 1] \in S
      BY <3>1, <3>2, ElementOfSeq
    <3> QED
      BY <3>2, <3>3, Zenon DEF S
  <2>3. /\ Len(served) \in Nat /\ Len(served) <= n /\ n \in Nat
        /\ \A i \in 1..Len(served) : /\ served[i].method = sent[i].method
                                     /\ served[i].file = Named(sent[i])
                                     /\ sent[i].method # "POST"
    <3>1. n \in Nat
      BY <1>2
    <3> QED
      BY <2>1, <3>1, Zenon DEF IInv, PlainInv, ServedInv
  <2>4. Len(sent') = n + 1 /\ \A i \in 1..n : sent'[i] = sent[i]
    BY <1>1, <1>2
  <2>5. ServedInv'
    <3>1. Len(served) <= n + 1 /\ \A i \in 1..Len(served) : i \in 1..n
      BY <2>3
    <3>2. \A i \in 1..Len(served) : /\ served[i].method = sent'[i].method
                                    /\ served[i].file = Named(sent'[i])
                                    /\ sent'[i].method # "POST"
      BY <2>3, <2>4, <3>1, Zenon
    <3> QED
      BY <1>1, <2>3, <2>4, <3>1, <3>2, Zenon DEF ServedInv
  <2>6. PlaceInv'
    <3>1. k \in 1..(n + 1)
      BY <2>3
    <3>2. PICK T, at : LaidOut(T, at, sent) /\ ParserAt(http, wire, T, at, sent, k)
      BY <2>1, Zenon DEF IInv, PlainInv, PlaceInv
    <3> DEFINE T2 == T \o R
               at2 == AtMore(at, n, r)
    <3>3. LaidOut(T2, at2, Append(sent, r))
      BY <2>1, <2>2, <3>2, LaidOutMore, Zenon
    <3>4. ParserAt(http, wire \o R, T2, at2, Append(sent, r), k)
      <4> HIDE DEF k
      <4> QED
        BY <1>2, <2>1, <2>2, <3>1, <3>2, ParserAtMore, Zenon
    <3> HIDE DEF T2, at2
    <3>5. LaidOut(T2, at2, sent') /\ ParserAt(http', wire', T2, at2, sent', Len(served') + 1)
      BY <1>1, <3>3, <3>4, Zenon
    <3> QED
      BY <3>5, Zenon DEF PlaceInv
  <2> QED
    BY <2>5, <2>6, Zenon
<1> QED
  BY <1>4, <1>5, <1>6, Zenon DEF IInv, PlainInv
\* A pass of HandleRead that begins with a request line.
LEMMA OutcomesFail ==
  ASSUME NEW h0, h0.state_ = "STATE_PARSE_URI", h0.error_ = "no",
         ParseURI(h0).error_ # "no", NEW h \in Outcomes(h0)
  PROVE  h.error_ # "no"
<1> DEFINE u == ParseURI(h0)
<1>1. Uri(h0) = u
  BY Zenon DEF Uri, Stage
<1>2. u.error_ # "no"
  OBVIOUS
<1> HIDE DEF u
<1>3. Headers(u) = u /\ Body(u) = u
  BY <1>2, Zenon DEF Headers, Body, Stage
<1>4. h \in IF Body(Headers(Uri(h0))).state_ = "STATE_ANALYSIS"
              /\ Body(Headers(Uri(h0))).error_ = "no"
            THEN AnalysisRequest(Body(Headers(Uri(h0)))) ELSE {Body(Headers(Uri(h0)))}
  BY OutcomesAre, Zenon
<1>5. h \in {u}
  BY <1>1, <1>2, <1>3, <1>4, Zenon
<1> QED
  BY <1>2, <1>5, Zenon

\* A pass that reads the request line goes on as one that begins behind it.
LEMMA OutcomesOn ==
  ASSUME NEW h0, h0.state_ = "STATE_PARSE_URI", h0.error_ = "no",
         ParseURI(h0).state_ = "STATE_PARSE_HEADERS", NEW h \in Outcomes(h0)
  PROVE  h \in Outcomes(ParseURI(h0))
<1> DEFINE u == ParseURI(h0)
<1>1. Uri(h0) = u
  BY Zenon DEF Uri, Stage
<1>2. u.state_ = "STATE_PARSE_HEADERS"
  OBVIOUS
<1> HIDE DEF u
<1>3. Uri(u) = u
  <2>1. u.state_ # "STATE_PARSE_URI"
    BY <1>2
  <2> QED
    BY <2>1, Zenon DEF Uri, Stage
<1>4. Outcomes(h0) = Outcomes(u)
  BY <1>1, <1>3, OutcomesAre, Zenon
<1> QED
  BY <1>4, Zenon DEF u

\* Its first line names no method.
Headless(str) ==
  \A i \in 1..Len(str) : str[i] \notin Methods \/ \E j \in 1..i : str[j] = "CR"

\* What is before a request is at most its first symbol from there, or has no
\* method to find.
Begins(str, at, k, n, b) ==
  \/ Headless(str)
  \/ k <= n /\ b = at[k]
  \/ k <= n /\ k > 1 /\ b + 1 = at[k]

\* Between two requests the buffer begins at a request, at the LF before it, or
\* holds no method at all.
LEMMA BeforeIs ==
  ASSUME NEW ss \in Seq(PlainRequests), NEW T, NEW at, LaidOut(T, at, ss),
         NEW k \in 1..(Len(ss) + 1),
         k > 1 => ss[k - 1].method # "POST",
         NEW b, NEW str \in Seq(Symbol), NEW rest \in Seq(Symbol),
         Dropped(T, b, str, rest), Before(at, k, Len(ss), b)
  PROVE  Begins(str, at, k, Len(ss), b)
<1> DEFINE n == Len(ss)
           N == Len(str)
           M == Len(rest)
           L == Len(T)
           a == at[k]
<1>1. /\ n \in Nat /\ L \in Nat /\ a \in Nat /\ at[n + 1] = L
      /\ k <= n => Plain(ss[k]) /\ Stands(T, a, ss[k])
  <2>1. k <= Len(ss) => k \in 1..Len(ss)
    OBVIOUS
  <2> QED
    BY <2>1, LaidOutIs, Zenon DEF LaidOut
<1>2. k > 1 => 2 < a /\ T[a] = "LF" /\ T[a - 1] = "CR"
  <2> SUFFICES ASSUME k > 1 PROVE 2 < a /\ T[a] = "LF" /\ T[a - 1] = "CR"
    OBVIOUS
  <2> DEFINE i == k - 1
  <2>1. i \in 1..n /\ i + 1 = k
    BY <1>1
  <2>2. ss[i].method # "POST"
    BY Zenon
  <2> HIDE DEF i
  <2>3. NextBegins(T, at, ss, i)
    BY <2>1, NextRequest, Zenon
  <2> QED
    BY <2>1, <2>2, <2>3, Zenon DEF NextBegins
<1>3. /\ b \in Nat /\ b + N + M = L /\ \A p \in 1..N : str[p] = T[b + p]
  BY Zenon DEF Dropped, Follows
<1>4. N \in Nat /\ M \in Nat
  OBVIOUS
<1>5. \/ b = a
      \/ k <= n /\ b = a + 1
      \/ k > 1 /\ (b = a - 1 \/ b = a - 2)
  BY Zenon DEF Before
<1> HIDE DEF n, N, M, L, a
<1>6. ASSUME k <= n, b = a + 1 PROVE Headless(str)
  <2> DEFINE P == Len(ss[k].path)
  <2>1. LineSymbols(T, a, ss[k])
    BY <1>1, <1>6, LineSymbolsAre, Zenon
  <2>2. P \in Nat /\ T[a + 8 + P] = "CR"
    BY <1>1, <1>6, Zenon DEF Stands
  <2>3. \A u \in (a + 1)..(a + 7 + P) : T[u] \in Methods <=> u = a + 1
    BY <2>1, Zenon DEF LineSymbols
  <2> HIDE DEF P
  <2>4. ASSUME NEW i \in 1..N
        PROVE  str[i] \notin Methods \/ \E j \in 1..i : str[j] = "CR"
    <3>1. CASE i <= 6 + P
      <4>1. b + i \in (a + 1)..(a + 7 + P) /\ b + i # a + 1
        BY <1>1, <1>6, <2>2, <3>1
      <4> QED
        BY <1>3, <2>3, <4>1, Zenon
    <3>2. CASE ~(i <= 6 + P)
      <4> DEFINE j == 7 + P
      <4>1. j \in 1..i /\ j \in 1..N /\ b + j = a + 8 + P
        BY <1>1, <1>4, <1>6, <2>2, <3>2
      <4> HIDE DEF j
      <4> QED
        BY <1>3, <2>2, <4>1, Zenon
    <3> QED
      BY <3>1, <3>2
  <2> QED
    BY <2>4, Zenon DEF Headless, N
<1>7. ASSUME k > 1, b = a - 2 PROVE Headless(str)
  <2>1. ASSUME NEW i \in 1..N PROVE \E j \in 1..i : str[j] = "CR"
    <3>1. 1 \in 1..i /\ 1 \in 1..N /\ b + 1 = a - 1
      BY <1>1, <1>4, <1>7
    <3>2. str[1] = "CR"
      BY <1>2, <1>3, <1>7, <3>1, Zenon
    <3> QED
      BY <3>1, <3>2, Zenon
  <2> QED
    BY <2>1, Zenon DEF Headless, N
<1>8. ASSUME ~(k <= n) PROVE a = L /\ k = n + 1
  <2>1. k = n + 1
    BY <1>1, <1>8 DEF n
  <2> QED
    BY <1>1, <2>1, Zenon DEF a
<1>9. ASSUME ~(k <= n), b = a PROVE Headless(str)
  <2>1. N = 0
    BY <1>1, <1>3, <1>4, <1>8, <1>9
  <2>2. 1..N = {}
    BY <2>1
  <2> QED
    BY <2>2, Zenon DEF Headless, N
<1>10. ASSUME ~(k <= n), k > 1, b = a - 1 PROVE Headless(str)
  <2>1. ASSUME NEW i \in 1..N PROVE str[i] \notin Methods
    <3>1. i = 1 /\ b + i = a
      BY <1>1, <1>3, <1>4, <1>8, <1>10
    <3>2. str[i] = "LF"
      BY <1>2, <1>3, <1>10, <3>1, Zenon
    <3> QED
      BY <3>2 DEF Methods
  <2> QED
    BY <2>1, Zenon DEF Headless, N
<1>11. b = a - 1 => b + 1 = a
  BY <1>1
<1> QED
  BY <1>5, <1>6, <1>7, <1>9, <1>10, <1>11, Zenon DEF n, a, Begins
\* Dropping more.
LEMMA DroppedRest ==
  ASSUME NEW T, NEW b, NEW str \in Seq(Symbol), NEW rest \in Seq(Symbol),
         Dropped(T, b, str, rest), NEW c \in 0..Len(str)
  PROVE  /\ Dropped(T, b + c, Rest(str, c), rest)
         /\ (b + c) + Len(Rest(str, c)) = b + Len(str)
<1> DEFINE N == Len(str)
           M == Len(rest)
           K == Len(Rest(str, c))
           L == Len(T)
<1>1. /\ b \in Nat /\ b + N + M = L /\ Follows(str, T, b) /\ Follows(rest, T, b + N)
  BY Zenon DEF Dropped
<1>2. K = N - c /\ \A U : \A d \in Nat : Follows(str, U, d) => Follows(Rest(str, c), U, d + c)
  BY RestIs, Zenon
<1>3. N \in Nat /\ M \in Nat
  OBVIOUS
<1>4. Follows(Rest(str, c), T, b + c)
  BY <1>1, <1>2, Zenon
<1> HIDE DEF N, M, K, L
<1>5. b + c \in Nat /\ (b + c) + K = b + N /\ (b + c) + K + M = L
  BY <1>1, <1>2, <1>3 DEF N
<1> QED
  BY <1>1, <1>4, <1>5, Zenon DEF Dropped, N, M, K, L

\* What is around a request that the parser is in.
LEMMA AroundIs ==
  ASSUME NEW ss \in Seq(PlainRequests), NEW T, NEW at, LaidOut(T, at, ss),
         NEW k \in 1..Len(ss), k > 1 => ss[k - 1].method # "POST",
         ss[k].method # "POST"
  PROVE  /\ Around(T, ss[k], at[k], k < Len(ss), ss[k + 1])
         /\ LastOf(ss[k], at[k]) = at[k + 1]
<1> DEFINE n == Len(ss)
           r == ss[k]
           a == at[k]
           more == k < n
           p == ss[k + 1]
           e == LastOf(r, a)
<1>3. n \in Nat /\ k \in 1..n /\ k + 1 \in 1..(n + 1) /\ (more => k + 1 \in 1..n)
  OBVIOUS
<1>4. /\ Plain(r) /\ Stands(T, a, r) /\ Len(T) \in Nat
      /\ more => Plain(p) /\ Stands(T, at[k + 1], p)
      /\ at[1] = 0 /\ at[n + 1] = Len(T)
  BY <1>3, LaidOutIs, Zenon DEF LaidOut
<1>5. e = at[k + 1]
  <2>1. NextBegins(T, at, ss, k)
    BY <1>3, NextRequest, Zenon
  <2> QED
    BY <2>1, Zenon DEF NextBegins
<1>6. a = 0 \/ T[a] = "LF"
  <2>1. CASE k = 1
    BY <1>4, <2>1, Zenon
  <2>2. CASE k # 1
    <3> DEFINE i == k - 1
    <3>1. i \in 1..n /\ i + 1 = k /\ k > 1
      BY <1>3, <2>2
    <3>2. ss[i].method # "POST"
      BY <3>1, Zenon
    <3> HIDE DEF i
    <3>3. NextBegins(T, at, ss, i)
      BY <3>1, NextRequest, Zenon
    <3> QED
      BY <3>1, <3>2, <3>3, Zenon DEF NextBegins
  <2> QED
    BY <2>1, <2>2
<1>7. Around(T, r, a, more, p)
  BY <1>4, <1>5, <1>6, Zenon DEF Around
<1> QED
  BY <1>5, <1>7, Zenon

\* A pass of HandleRead begins in the headers of request k.
BeginsIn(h, rest, T, at, ss, k) ==
  /\ h.state_ = "STATE_PARSE_HEADERS"
  /\ k <= Len(ss) /\ ss[k].method # "POST"
  /\ h.method_ = ss[k].method /\ h.file_name_ = Named(ss[k])
  /\ \E b \in Nat : /\ Dropped(T, b, h.in_buffer_, rest)
                    /\ Place(ss[k], at[k], k < Len(ss), ss[k + 1], h.h_state_, b, b)

\* Where it ends: the request is served, or the parser waits for more of it.
Passed(h, rest, T, at, ss, k) ==
  \/ h.error_ # "no"
  \/ h.error_ = "no" /\ h.state_ # "STATE_FINISH" /\ AtPost(h, ss, k)
  \/ h.error_ = "no" /\ h.state_ # "STATE_FINISH" /\ AtHeaders(h, rest, T, at, ss, k)
  \/ /\ h.error_ = "no" /\ h.state_ = "STATE_FINISH"
     /\ k <= Len(ss) /\ ss[k].method # "POST"
     /\ h.method_ = ss[k].method /\ h.file_name_ = Named(ss[k])
     /\ \E b \in Nat : /\ Dropped(T, b, h.in_buffer_, rest)
                       /\ Before(at, k + 1, Len(ss), b)

\* A pass that begins in the headers keeps the parser at its place.
LEMMA PassInHeaders ==
  ASSUME NEW ss \in Seq(PlainRequests), NEW T, NEW at, LaidOut(T, at, ss),
         NEW k \in 1..(Len(ss) + 1), k > 1 => ss[k - 1].method # "POST",
         NEW h1, HttpTyped(h1), h1.error_ = "no",
         NEW rest \in Seq(Symbol), BeginsIn(h1, rest, T, at, ss, k),
         NEW h \in Outcomes(h1)
  PROVE  Passed(h, rest, T, at, ss, k)
<1> DEFINE n == Len(ss)
           r == ss[k]
           a == at[k]
           more == k < n
           p == ss[k + 1]
           e == LastOf(r, a)
           str == h1.in_buffer_
           N == Len(str)
<1>1. /\ h1.state_ = "STATE_PARSE_HEADERS" /\ k <= n /\ r.method # "POST"
      /\ h1.method_ = r.method /\ h1.file_name_ = Named(r)
  BY Zenon DEF BeginsIn
<1>2. PICK b \in Nat : /\ Dropped(T, b, str, rest)
                       /\ Place(r, a, more, p, h1.h_state_, b, b)
  BY Zenon DEF BeginsIn
<1>3. n \in Nat /\ k \in 1..n /\ k + 1 \in 1..(n + 1) /\ (more => k + 1 \in 1..n)
  <2>1. n \in Nat
    OBVIOUS
  <2> HIDE DEF n
  <2> QED
    BY <1>1, <2>1 DEF n
<1>4. Len(T) \in Nat /\ at[n + 1] = Len(T)
  BY LaidOutIs, Zenon DEF LaidOut
<1>5. Around(T, r, a, more, p) /\ e = at[k + 1]
  <2>1. k > 1 => ss[k - 1].method # "POST"
    OBVIOUS
  <2> QED
    BY <1>1, <1>3, <2>1, AroundIs, Zenon
<1>7. Around(T, r, a, more, p)
  BY <1>5
<1>8. str \in Seq(Symbol) /\ N \in Nat
  BY DEF HttpTyped
<1>9. Follows(str, T, b) /\ b + N + Len(rest) = Len(T) /\ Len(rest) \in Nat
  <2>1. Len(rest) \in Nat
    OBVIOUS
  <2> QED
    BY <1>2, <2>1, Zenon DEF Dropped
<1>10. more \/ b + N <= e
  <2> SUFFICES ASSUME ~more PROVE b + N <= e
    OBVIOUS
  <2>1. k + 1 = n + 1
    BY <1>3
  <2>2. e = Len(T)
    BY <1>4, <1>5, <2>1, Zenon
  <2> DEFINE M == Len(rest)
             L == Len(T)
  <2> HIDE DEF N, M, L, e
  <2>3. b + N <= L
    BY <1>8, <1>9 DEF M, L
  <2> QED
    BY <2>2, <2>3, Zenon DEF L
<1>11. PassRead(h, h1, r, a, more, p, b)
  <2>1. h1.method_ # "POST"
    BY <1>1, Zenon
  <2> HIDE DEF more, p, r, a
  <2> QED
    BY <1>1, <1>2, <1>7, <1>9, <1>10, <2>1, HeadersPass, Zenon DEF N, e, str
<1>12. \A c \in 0..N : /\ Dropped(T, b + c, Rest(str, c), rest)
                       /\ (b + c) + Len(Rest(str, c)) = b + N
  <2> TAKE c \in 0..N
  <2>1. Dropped(T, b, str, rest)
    BY <1>2
  <2>2. c \in 0..Len(str)
    OBVIOUS
  <2> HIDE DEF str, N
  <2>3. Dropped(T, b + c, Rest(str, c), rest)
    BY <1>8, <2>1, <2>2, DroppedRest, Zenon
  <2>4. (b + c) + Len(Rest(str, c)) = b + Len(str)
    <3>1. /\ Rest(str, c) \in Seq(Symbol) /\ Len(Rest(str, c)) = Len(str) - c
          /\ \A U : \A d \in Nat : Follows(str, U, d) => Follows(Rest(str, c), U, d + c)
      BY <1>8, <2>2, RestIs
    <3>2. Len(str) \in Nat /\ c \in Nat
      BY <1>8, <2>2
    <3> QED
      BY <3>1, <3>2
  <2> QED
    BY <2>3, <2>4 DEF N
<1>13. CASE h.error_ # "no"
  BY <1>13, Zenon DEF Passed
<1>14. ASSUME h.error_ = "no", h.state_ = "STATE_FINISH",
              h.method_ = h1.method_, h.file_name_ = h1.file_name_,
              NEW c \in 0..N, h.in_buffer_ = Rest(str, c),
              \/ b + c \in {e - 2, e - 1, e}
              \/ more /\ b + c = e + 1
       PROVE  Passed(h, rest, T, at, ss, k)
  <2>1. Dropped(T, b + c, h.in_buffer_, rest)
    BY <1>12, <1>14, Zenon
  <2>2. b + c \in Nat /\ k + 1 > 1 /\ (more => k + 1 <= n)
    BY <1>3, <1>8
  <2>3. Before(at, k + 1, n, b + c)
    BY <1>5, <1>14, <2>2, Zenon DEF Before
  <2>4. \E d \in Nat : Dropped(T, d, h.in_buffer_, rest) /\ Before(at, k + 1, n, d)
    BY <2>1, <2>2, <2>3, Zenon
  <2> QED
    BY <1>1, <1>14, <2>4, Zenon DEF Passed
<1>15. ASSUME h.error_ = "no", h.state_ = "STATE_PARSE_HEADERS",
              h.method_ = h1.method_, h.file_name_ = h1.file_name_,
              h.h_state_ # "H_END_LF",
              NEW c \in 0..N, h.in_buffer_ = Rest(str, c),
              Place(r, a, more, p, h.h_state_, b + c, b + N)
       PROVE  Passed(h, rest, T, at, ss, k)
  <2>1. /\ Dropped(T, b + c, h.in_buffer_, rest)
        /\ (b + c) + Len(h.in_buffer_) = b + N
    BY <1>12, <1>15, Zenon
  <2>2. b + c \in Nat
    BY <1>8
  <2>3. \E d \in Nat : /\ Dropped(T, d, h.in_buffer_, rest)
                       /\ Place(r, a, more, p, h.h_state_, d, d + Len(h.in_buffer_))
    BY <1>15, <2>1, <2>2, Zenon
  <2>4. AtHeaders(h, rest, T, at, ss, k)
    BY <1>1, <1>15, <2>3, Zenon DEF AtHeaders
  <2>5. h.state_ # "STATE_FINISH"
    BY <1>15
  <2> QED
    BY <1>15, <2>4, <2>5, Zenon DEF Passed
<1> QED
  BY <1>11, <1>13, <1>14, <1>15, Zenon DEF PassRead

\* A POST is never answered, so it does not matter where the parser is.
LEMMA PassAtPost ==
  ASSUME NEW ss, NEW T, NEW at, NEW k, NEW h1, HttpTyped(h1), h1.error_ = "no",
         NEW rest, AtPost(h1, ss, k), NEW h \in Outcomes(h1)
  PROVE  Passed(h, rest, T, at, ss, k)
<1>1. /\ h1.state_ \in {"STATE_PARSE_HEADERS", "STATE_RECV_BODY"}
      /\ k <= Len(ss) /\ ss[k].method = "POST" /\ h1.method_ = "POST"
  BY Zenon DEF AtPost
<1>2. /\ h1.state_ # "STATE_PARSE_URI"
      /\ h1.state_ \in {"STATE_PARSE_URI", "STATE_PARSE_HEADERS", "STATE_RECV_BODY"}
      /\ h1.state_ = "STATE_RECV_BODY" => h1.method_ = "POST"
  BY <1>1
<1>3. /\ h.method_ = h1.method_
      /\ \/ h.error_ # "no"
         \/ /\ h.error_ = "no"
            /\ h.state_ \in {"STATE_PARSE_HEADERS", "STATE_RECV_BODY", "STATE_FINISH"}
            /\ h.state_ = "STATE_FINISH" => h.method_ # "POST"
  BY <1>2, OutcomesTyped, Zenon
<1>4. CASE h.error_ # "no"
  BY <1>4, Zenon DEF Passed
<1>5. CASE h.error_ = "no"
  <2>1. /\ h.state_ \in {"STATE_PARSE_HEADERS", "STATE_RECV_BODY"}
        /\ h.state_ # "STATE_FINISH" /\ h.method_ = "POST"
    BY <1>1, <1>3, <1>5
  <2> QED
    BY <1>1, <1>5, <2>1, Zenon DEF Passed, AtPost
<1> QED
  BY <1>4, <1>5

\* A pass that begins with the request line keeps the parser at its place.
LEMMA PassAtURI ==
  ASSUME NEW ss \in Seq(PlainRequests), NEW T, NEW at, LaidOut(T, at, ss),
         NEW k \in 1..(Len(ss) + 1), k > 1 => ss[k - 1].method # "POST",
         NEW h1, HttpTyped(h1), h1.error_ = "no", h1.h_state_ = "H_START",
         NEW rest \in Seq(Symbol), AtURI(h1, rest, T, at, ss, k),
         NEW h \in Outcomes(h1)
  PROVE  Passed(h, rest, T, at, ss, k)
<1> DEFINE n == Len(ss)
           r == ss[k]
           a == at[k]
           str == h1.in_buffer_
           N == Len(str)
           q == ParseURI(h1)
           P == Len(r.path)
<1>1. h1.state_ = "STATE_PARSE_URI"
  BY Zenon DEF AtURI
<1>2. PICK b \in Nat : Dropped(T, b, str, rest) /\ Before(at, k, n, b)
  BY Zenon DEF AtURI
<1>3. str \in Seq(Symbol) /\ N \in Nat
  BY DEF HttpTyped
<1>4. \/ Headless(str)
      \/ k <= n /\ b = a
      \/ k <= n /\ k > 1 /\ b + 1 = a
  <2>1. Dropped(T, b, str, rest) /\ Before(at, k, Len(ss), b) /\ str \in Seq(Symbol)
    BY <1>2, <1>3
  <2> HIDE DEF str
  <2>2. k > 1 => ss[k - 1].method # "POST"
    OBVIOUS
  <2>3. Begins(str, at, k, Len(ss), b)
    BY <2>1, <2>2, BeforeIs, Zenon
  <2> QED
    BY <2>3, Zenon DEF Begins
<1>5. q.error_ # "no" => Passed(h, rest, T, at, ss, k)
  <2> SUFFICES ASSUME q.error_ # "no" PROVE h.error_ # "no"
    BY Zenon DEF Passed
  <2> QED
    BY <1>1, OutcomesFail, Zenon
<1>6. HttpTyped(q) /\ q.h_state_ = "H_START"
  BY ParseURITyped, Zenon
<1>7. ASSUME Headless(str) PROVE Passed(h, rest, T, at, ss, k)
  <2>1. q = [h1 EXCEPT !.in_buffer_ = <<>>, !.error_ = "400"]
    <3>1. \A i \in 1..Len(str) : str[i] \notin Methods \/ \E j \in 1..i : str[j] = "CR"
      BY <1>7, Zenon DEF Headless
    <3> QED
      BY <1>3, <3>1, NoMethod, Zenon
  <2>2. q.error_ = "400"
    <3> HIDE DEF q
    <3> QED
      BY <2>1 DEF HttpTyped
  <2>3. q.error_ # "no"
    BY <2>2
  <2> QED
    BY <1>5, <2>3, Zenon
<1>8. ASSUME NEW w \in {0, 1}, k <= n, b + w = a, w = 1 => k > 1
      PROVE  Passed(h, rest, T, at, ss, k)
  <2>1. k \in 1..n
    BY <1>8
  <2>2. Plain(r) /\ Stands(T, a, r) /\ EndAt(r, a)[0] = a + 9 + P /\ P \in Nat
    <3>1. Plain(r) /\ Stands(T, a, r)
      BY <2>1, LaidOutIs, Zenon
    <3> QED
      BY <3>1, Zenon DEF Stands
  <2>3. w = 1 => T[a] = "LF"
    <3> SUFFICES ASSUME w = 1 PROVE T[a] = "LF"
      OBVIOUS
    <3> DEFINE i == k - 1
    <3>1. i \in 1..n /\ i + 1 = k
      BY <1>8, <2>1
    <3>2. ss[i].method # "POST"
      BY <1>8, Zenon
    <3> HIDE DEF i
    <3>3. NextBegins(T, at, ss, i)
      BY <3>1, NextRequest, Zenon
    <3> QED
      BY <3>1, <3>2, <3>3, Zenon DEF NextBegins
  <2>4. Follows(str, T, b)
    BY <1>2, Zenon DEF Dropped
  <2>5. a = b + w
    BY <1>8, Zenon
  <2>6. URIRead(h1, q, str, w, r)
    <3> HIDE DEF a, r, str, q
    <3> QED
      BY <1>3, <2>2, <2>3, <2>4, <2>5, URIWithin, Zenon DEF q, str
  <2>7. CASE ~(w + 7 + P <= N)
    <3>1. q = [h1 EXCEPT !.in_buffer_ = <<>>, !.error_ = "400"]
      BY <2>6, <2>7, Zenon DEF URIRead
    <3>2. q.error_ = "400"
      <4> HIDE DEF q
      <4> QED
        BY <3>1 DEF HttpTyped
    <3>3. q.error_ # "no"
      BY <3>2
    <3> QED
      BY <1>5, <3>3, Zenon
  <2>8. CASE w + 7 + P <= N
    <3> DEFINE d == IF w + 7 + P = N THEN 0 ELSE w + 8 + P
               B == IF w + 7 + P = N THEN str ELSE SubSeq(str, w + 9 + P, Len(str))
    <3>1. q = [h1 EXCEPT !.in_buffer_ = B, !.method_ = r.method, !.file_name_ = Named(r),
                         !.state_ = "STATE_PARSE_HEADERS"]
      BY <2>6, <2>8, Zenon DEF URIRead
    <3>2. d \in 0..N /\ w \in Nat /\ b \in Nat /\ d \in Nat
      <4>1. w \in Nat /\ P \in Nat /\ N \in Nat /\ b \in Nat
        BY <1>3, <2>2
      <4> HIDE DEF P, N
      <4> QED
        BY <2>8, <4>1
    <3>3. B = Rest(str, d)
      <4>1. CASE w + 7 + P = N
        <5>1. Rest(str, 0) = str
          BY <1>3 DEF Rest
        <5> QED
          BY <4>1, <5>1, Zenon
      <4>2. CASE w + 7 + P # N
        <5>1. (w + 8 + P) + 1 = w + 9 + P
          <6>1. P \in Nat
            BY <2>2, Zenon
          <6> HIDE DEF P
          <6> QED
            BY <3>2, <6>1
        <5> QED
          BY <4>2, <5>1, Zenon DEF Rest
      <4> QED
        BY <4>1, <4>2
    <3>4. /\ q.in_buffer_ = Rest(str, d) /\ q.method_ = r.method
          /\ q.file_name_ = Named(r) /\ q.state_ = "STATE_PARSE_HEADERS"
          /\ q.error_ = "no"
      <4> DEFINE X == Rest(str, d)
      <4>1. q = [h1 EXCEPT !.in_buffer_ = X, !.method_ = r.method, !.file_name_ = Named(r),
                           !.state_ = "STATE_PARSE_HEADERS"]
        BY <3>1, <3>3, Zenon
      <4> HIDE DEF q, X, r, B, d
      <4>2. /\ q.in_buffer_ = X /\ q.method_ = r.method
            /\ q.file_name_ = Named(r) /\ q.state_ = "STATE_PARSE_HEADERS"
            /\ q.error_ = h1.error_
        BY <4>1 DEF HttpTyped
      <4> QED
        BY <4>2, Zenon DEF X
    <3>5. Dropped(T, b + d, q.in_buffer_, rest)
      <4>1. Dropped(T, b, str, rest)
        BY <1>2
      <4> HIDE DEF d, str, N, q
      <4>2. d \in 0..Len(str)
        BY <3>2 DEF N
      <4>3. Dropped(T, b + d, Rest(str, d), rest)
        BY <1>3, <4>1, <4>2, DroppedRest, Zenon
      <4> QED
        BY <3>4, <4>3, Zenon
    <3>6. h \in Outcomes(q)
      BY <1>1, <3>4, OutcomesOn, Zenon
    <3>7. CASE r.method = "POST"
      <4>1. AtPost(q, ss, k)
        <5>1. q.state_ \in {"STATE_PARSE_HEADERS", "STATE_RECV_BODY"}
          BY <3>4
        <5> HIDE DEF q
        <5> QED
          BY <1>8, <3>4, <3>7, <5>1, Zenon DEF AtPost
      <4> HIDE DEF q
      <4> QED
        BY <1>6, <3>4, <3>6, <4>1, PassAtPost, Zenon
    <3>8. CASE r.method # "POST"
      <4> DEFINE more == k < n
                 p == ss[k + 1]
      <4>1. b + d \in Nat
        <5> HIDE DEF d
        <5> QED
          BY <3>2
      <4>2. Place(r, a, more, p, "H_START", b + d, b + d)
        <5>1. CASE w + 7 + P = N
          <6>1. a \in Nat /\ (b = a \/ b = a - 1) /\ b <= b /\ b <= a /\ b + 0 = b
            BY <1>8, <2>5, <3>2
          <6>2. BeforeRequestLine(a, "H_START", b, b)
            BY <6>1, Zenon DEF BeforeRequestLine
          <6> QED
            BY <5>1, <6>1, <6>2, Zenon DEF Place
        <5>2. CASE w + 7 + P # N
          <6> DEFINE X == EndAt(r, a)[0]
                     u == b + d
          <6>1. u = b + (w + 8 + P)
            BY <5>2, Zenon
          <6>2. X = (b + w) + 9 + P
            BY <2>2, <2>5, Zenon
          <6>5. P \in Nat
            BY <2>2, Zenon
          <6> HIDE DEF X, u, d, P
          <6>3. u = X - 1 /\ u <= u /\ u <= X
            BY <3>2, <6>1, <6>2, <6>5
          <6>4. InHeaders(r, a, "H_START", u, u)
            BY <6>3, Zenon DEF InHeaders, X
          <6> QED
            BY <6>4, Zenon DEF Place, u
        <5> QED
          BY <5>1, <5>2
      <4>3. \E x \in Nat : /\ Dropped(T, x, q.in_buffer_, rest)
                           /\ Place(r, a, more, p, q.h_state_, x, x)
        BY <1>6, <3>5, <4>1, <4>2, Zenon
      <4>4. BeginsIn(q, rest, T, at, ss, k)
        <5> HIDE DEF q
        <5> QED
          BY <1>8, <3>4, <3>8, <4>3, Zenon DEF BeginsIn
      <4> HIDE DEF q
      <4> QED
        BY <1>6, <3>4, <3>6, <4>4, PassInHeaders, Zenon
    <3> QED
      BY <3>7, <3>8
  <2> QED
    BY <2>7, <2>8
<1>9. a \in Nat /\ b + 0 = b
  BY <1>2, LaidOutIs
<1> HIDE DEF q
<1>10. CASE k <= n /\ b = a
  <2>1. 0 \in {0, 1} /\ b + 0 = a /\ (0 = 1 => k > 1)
    BY <1>9, <1>10
  <2> QED
    BY <1>8, <1>10, <2>1, Zenon
<1>11. CASE k <= n /\ k > 1 /\ b + 1 = a
  <2>1. 1 \in {0, 1} /\ (1 = 1 => k > 1)
    BY <1>11
  <2> QED
    BY <1>8, <1>11, <2>1, Zenon
<1> QED
  BY <1>4, <1>7, <1>10, <1>11
\* A read moves symbols from the wire into the buffer.
LEMMA ReadDropped ==
  ASSUME NEW T, NEW b, NEW str \in Seq(Symbol), NEW w \in Seq(Symbol),
         Dropped(T, b, str, w), NEW n \in 0..Len(w)
  PROVE  /\ str \o SubSeq(w, 1, n) \in Seq(Symbol) /\ Rest(w, n) \in Seq(Symbol)
         /\ Dropped(T, b, str \o SubSeq(w, 1, n), Rest(w, n))
<1> DEFINE N == Len(str)
           M == Len(w)
           L == Len(T)
           s == SubSeq(w, 1, n)
           input == str \o s
           rest == Rest(w, n)
<1>1. /\ b \in Nat /\ b + N + M = L
      /\ \A p \in 1..N : str[p] = T[b + p]
      /\ \A p \in 1..M : w[p] = T[(b + N) + p]
      /\ Follows(w, T, b + N)
  BY Zenon DEF Dropped, Follows
<1>2. N \in Nat /\ M \in Nat /\ n \in Nat /\ n <= M
  OBVIOUS
<1>3. s \in Seq(Symbol) /\ Len(s) = n /\ \A p \in 1..n : s[p] = w[p]
  OBVIOUS
<1>4. /\ rest \in Seq(Symbol) /\ Len(rest) = M - n
      /\ \A U : \A d \in Nat : Follows(w, U, d) => Follows(rest, U, d + n)
  BY RestIs
<1>5. /\ input \in Seq(Symbol) /\ Len(input) = N + n
      /\ \A p \in 1..N : input[p] = str[p]
      /\ \A p \in 1..n : input[N + p] = s[p]
  <2> HIDE DEF s
  <2> QED
    BY <1>3, ConcatIs
<1> HIDE DEF N, M, L, s, input, rest
<1>6. ASSUME NEW p \in 1..(N + n) PROVE input[p] = T[b + p]
  <2>1. CASE p \in 1..N
    BY <1>1, <1>5, <2>1, Zenon
  <2>2. CASE p \notin 1..N
    <3> DEFINE q == p - N
    <3>1. q \in 1..n /\ q \in 1..M /\ N + q = p /\ (b + N) + q = b + p
      BY <1>1, <1>2, <2>2
    <3> HIDE DEF q
    <3> QED
      BY <1>1, <1>3, <1>5, <3>1, Zenon
  <2> QED
    BY <2>1, <2>2
<1>7. Follows(input, T, b)
  BY <1>5, <1>6, Zenon DEF Follows
<1>8. b + N \in Nat /\ (b + N) + n = b + (N + n) /\ b + (N + n) + (M - n) = L
  BY <1>1, <1>2
<1>9. Follows(rest, T, b + (N + n))
  BY <1>1, <1>4, <1>8, Zenon
<1>10. b + Len(input) + Len(rest) = L
  BY <1>4, <1>5, <1>8, Zenon
<1>11. Follows(rest, T, b + Len(input))
  BY <1>5, <1>9, Zenon
<1> QED
  BY <1>1, <1>4, <1>5, <1>7, <1>10, <1>11, Zenon DEF Dropped, L, s, input, rest

\* A pass begins where the one before has left the parser.
LEMMA PassIs ==
  ASSUME NEW ss \in Seq(PlainRequests), NEW T, NEW at, LaidOut(T, at, ss),
         NEW k \in 1..(Len(ss) + 1), k > 1 => ss[k - 1].method # "POST",
         NEW h0, HttpTyped(h0), h0.error_ = "no",
         h0.state_ = "STATE_PARSE_URI" => h0.h_state_ = "H_START",
         NEW w \in Seq(Symbol), ParserAt(h0, w, T, at, ss, k),
         NEW n \in 0..Len(w), NEW h1, HttpTyped(h1),
         h1 = [h0 EXCEPT !.in_buffer_ = h0.in_buffer_ \o SubSeq(w, 1, n)],
         NEW h \in Outcomes(h1)
  PROVE  Passed(h, Rest(w, n), T, at, ss, k)
<1> DEFINE str == h0.in_buffer_
           input == str \o SubSeq(w, 1, n)
           rest == Rest(w, n)
<1>1. /\ h1.in_buffer_ = input /\ h1.state_ = h0.state_ /\ h1.h_state_ = h0.h_state_
      /\ h1.method_ = h0.method_ /\ h1.file_name_ = h0.file_name_
      /\ h1.error_ = "no"
  <2> HIDE DEF input
  <2> QED
    BY DEF HttpTyped, input
<1>2. str \in Seq(Symbol)
  BY DEF HttpTyped
<1>3. \A b : Dropped(T, b, str, w) => Dropped(T, b, input, rest)
  <2> HIDE DEF str
  <2> QED
    BY <1>2, ReadDropped, Zenon
<1>4. rest \in Seq(Symbol)
  BY RestIs
<1>5. k > 1 => ss[k - 1].method # "POST"
  OBVIOUS
<1> HIDE DEF input, rest
<1>6. CASE AtURI(h0, w, T, at, ss, k)
  <2>1. PICK b \in Nat : Dropped(T, b, str, w) /\ Before(at, k, Len(ss), b)
    BY <1>6, Zenon DEF AtURI
  <2>2. AtURI(h1, rest, T, at, ss, k)
    BY <1>1, <1>3, <1>6, <2>1, Zenon DEF AtURI
  <2>3. h1.h_state_ = "H_START"
    BY <1>1, <1>6, Zenon DEF AtURI
  <2> QED
    BY <1>1, <1>4, <1>5, <2>2, <2>3, PassAtURI, Zenon DEF rest
<1>7. CASE AtPost(h0, ss, k)
  <2>1. AtPost(h1, ss, k)
    BY <1>1, <1>7, Zenon DEF AtPost
  <2> QED
    BY <1>1, <2>1, PassAtPost, Zenon
<1>8. CASE AtHeaders(h0, w, T, at, ss, k)
  <2> DEFINE N == Len(str)
             r == ss[k]
             a == at[k]
             more == k < Len(ss)
             p == ss[k + 1]
             g == h0.h_state_
  <2>1. PICK b \in Nat : /\ Dropped(T, b, str, w)
                         /\ Place(r, a, more, p, g, b, b + N)
    BY <1>8, Zenon DEF AtHeaders
  <2>2. /\ h0.state_ = "STATE_PARSE_HEADERS" /\ g # "H_END_LF"
        /\ k <= Len(ss) /\ r.method # "POST"
        /\ h0.method_ = r.method /\ h0.file_name_ = Named(r)
    BY <1>8, Zenon DEF AtHeaders
  <2>3. Around(T, r, a, more, p)
    <3>1. k \in 1..Len(ss)
      BY <2>2
    <3> QED
      BY <1>5, <2>2, <3>1, AroundIs, Zenon
  <2>4. b + N \in Nat
    BY <1>2
  <2>5. Place(r, a, more, p, g, b, b)
    <3> HIDE DEF r, a, more, p, g, N, str
    <3> QED
      BY <2>1, <2>2, <2>3, <2>4, PlaceOrder, Zenon
  <2>6. BeginsIn(h1, rest, T, at, ss, k)
    BY <1>1, <1>3, <2>1, <2>2, <2>5, Zenon DEF BeginsIn
  <2> QED
    BY <1>1, <1>4, <1>5, <2>6, PassInHeaders, Zenon DEF rest
<1> QED
  BY <1>6, <1>7, <1>8, Zenon DEF ParserAt
\* Setting the buffer, and Reset, keep the types.
LEMMA BufferTyped ==
  ASSUME NEW h, HttpTyped(h), NEW B \in Seq(Symbol)
  PROVE  LET q == [h EXCEPT !.in_buffer_ = B] IN
         /\ HttpTyped(q) /\ q.in_buffer_ = B /\ q.state_ = h.state_
         /\ q.h_state_ = h.h_state_ /\ q.headers_ = h.headers_
         /\ q.method_ = h.method_ /\ q.file_name_ = h.file_name_ /\ q.error_ = h.error_
<1> DEFINE q == [h EXCEPT !.in_buffer_ = B]
<1>1. h \in [state_ : States, h_state_ : ParseState, in_buffer_ : Seq(Symbol),
             method_ : Methods, file_name_ : {h.file_name_},
             headers_ : {h.headers_}, keep_alive_ : BOOLEAN, error_ : Errors]
  BY Zenon DEF HttpTyped
<1>2. /\ q.in_buffer_ = B /\ q.state_ = h.state_
      /\ q.h_state_ = h.h_state_ /\ q.headers_ = h.headers_
      /\ q.method_ = h.method_ /\ q.file_name_ = h.file_name_ /\ q.error_ = h.error_
  BY <1>1
<1>3. q \in [state_ : States, h_state_ : ParseState, in_buffer_ : Seq(Symbol),
             method_ : Methods, file_name_ : {q.file_name_},
             headers_ : {q.headers_}, keep_alive_ : BOOLEAN, error_ : Errors]
  BY <1>1
<1> HIDE DEF q
<1> QED
  BY <1>2, <1>3, Zenon DEF HttpTyped, q

\* Reset leaves the buffer and sets the parser to how it was made.
LEMMA ResetIs ==
  ASSUME NEW h, HttpTyped(h)
  PROVE  LET q == Reset(h) IN
         /\ HttpTyped(q) /\ q.in_buffer_ = h.in_buffer_ /\ q.error_ = h.error_
         /\ q.state_ = "STATE_PARSE_URI" /\ q.h_state_ = "H_START"
         /\ q.headers_ = NoHeaders /\ q.file_name_ = <<>>
<1> DEFINE H == NoHeaders
           q == [h EXCEPT !.file_name_ = <<>>, !.state_ = "STATE_PARSE_URI",
                          !.h_state_ = "H_START", !.headers_ = H]
<1>1. h \in [state_ : States, h_state_ : ParseState, in_buffer_ : Seq(Symbol),
             method_ : Methods, file_name_ : {h.file_name_},
             headers_ : {h.headers_}, keep_alive_ : BOOLEAN, error_ : Errors]
  BY Zenon DEF HttpTyped
<1>2. "STATE_PARSE_URI" \in States /\ "H_START" \in ParseState
  BY DEF States, ParseState
<1>3. Reset(h) = q
  BY Zenon DEF Reset
<1> HIDE DEF H
<1>4. /\ q.in_buffer_ = h.in_buffer_ /\ q.error_ = h.error_
      /\ q.state_ = "STATE_PARSE_URI" /\ q.h_state_ = "H_START"
      /\ q.headers_ = H /\ q.file_name_ = <<>>
  BY <1>1
<1>5. q \in [state_ : States, h_state_ : ParseState, in_buffer_ : Seq(Symbol),
             method_ : Methods, file_name_ : {q.file_name_},
             headers_ : {q.headers_}, keep_alive_ : BOOLEAN, error_ : Errors]
  BY <1>1, <1>2
<1> HIDE DEF q
<1> QED
  BY <1>3, <1>4, <1>5, Zenon DEF HttpTyped, H

\* A sequence, whatever its elements are.
IsAppend(t, s, x) ==
  /\ t \in Seq({t[i] : i \in DOMAIN t})
  /\ Len(s) \in Nat /\ Len(t) = Len(s) + 1 /\ t[Len(s) + 1] = x
  /\ \A i \in 1..Len(s) : t[i] = s[i]

\* Appending to such a sequence.
LEMMA AppendIs ==
  ASSUME NEW s, s \in Seq({s[i] : i \in DOMAIN s}), NEW x
  PROVE  IsAppend(Append(s, x), s, x)
<1> DEFINE S == {s[i] : i \in DOMAIN s} \union {x}
           t == Append(s, x)
           n == Len(s)
<1>1. s \in Seq(S) /\ x \in S
  <2> DEFINE A == {s[i] : i \in DOMAIN s}
  <2>1. s \in Seq(A)
    OBVIOUS
  <2> HIDE DEF A
  <2>2. s \in Seq(A \union {x})
    BY <2>1
  <2> QED
    BY <2>2 DEF A
<1> HIDE DEF S
<1>2. /\ t \in Seq(S) /\ n \in Nat /\ Len(t) = n + 1 /\ t[n + 1] = x
      /\ \A i \in 1..n : t[i] = s[i]
  BY <1>1
<1> HIDE DEF t
<1>3. t \in Seq({t[i] : i \in DOMAIN t})
  BY <1>2
<1> QED
  BY <1>2, <1>3, Zenon DEF IsAppend, t

\* A pass of HandleRead keeps the invariant.
LEMMA ReadKeeps ==
  ASSUME IInv, NEW n \in 0..Len(wire), HandleRead(n)
  PROVE  IInv'
<1> DEFINE k == Len(served) + 1
           input == http.in_buffer_ \o SubSeq(wire, 1, n)
           h1 == [http EXCEPT !.in_buffer_ = input]
           rest == Rest(wire, n)
<1>1. /\ HttpTyped(http) /\ wire \in Seq(Symbol) /\ again \in BOOLEAN
      /\ sent \in Seq(Requests) /\ served \in Seq({served[i] : i \in DOMAIN served})
      /\ clean \in BOOLEAN /\ piped \in BOOLEAN
  BY Zenon DEF IInv, Typed
<1>2. /\ http.error_ = "no" /\ sent' = sent /\ wire' = rest /\ piped' = piped
      /\ clean' = (clean /\ CleanCut(n))
  BY Zenon DEF HandleRead, Rest
<1>3. PICK h \in Outcomes(h1) :
        IF h.state_ = "STATE_FINISH"
        THEN /\ served' = Append(served, [method |-> h.method_,
                                         file |-> h.file_name_,
                                         headers |-> h.headers_])
             /\ http' = Reset(h)
             /\ again' = (h.in_buffer_ # <<>>)
        ELSE http' = h /\ again' = FALSE /\ served' = served
  BY Zenon DEF HandleRead
<1>4. StateInv /\ PlainInv
  BY Zenon DEF IInv
<1>5. /\ http.state_ \in {"STATE_PARSE_URI", "STATE_PARSE_HEADERS", "STATE_RECV_BODY"}
      /\ http.state_ = "STATE_RECV_BODY" => http.method_ = "POST"
      /\ http.state_ = "STATE_PARSE_URI" =>
           /\ http.h_state_ = "H_START" /\ http.headers_ = NoHeaders
           /\ http.file_name_ = <<>>
  BY <1>2, <1>4, Zenon DEF StateInv
<1>6. Len(served) \in Nat /\ Len(sent) \in Nat
  BY <1>1, LenProperties, Zenon
<1>7. input \in Seq(Symbol) /\ rest \in Seq(Symbol)
  <2>1. http.in_buffer_ \in Seq(Symbol)
    BY <1>1 DEF HttpTyped
  <2>2. SubSeq(wire, 1, n) \in Seq(Symbol)
    BY <1>1
  <2> DEFINE s == SubSeq(wire, 1, n)
  <2>3. s \in Seq(Symbol)
    BY <2>2
  <2> HIDE DEF s
  <2>4. http.in_buffer_ \o s \in Seq(Symbol)
    BY <2>1, <2>3
  <2>5. rest \in Seq(Symbol)
    BY <1>1, RestIs
  <2> QED
    BY <2>4, <2>5 DEF s
<1>8. /\ HttpTyped(h1) /\ h1.state_ = http.state_ /\ h1.h_state_ = http.h_state_
      /\ h1.headers_ = http.headers_ /\ h1.file_name_ = http.file_name_
      /\ h1.method_ = http.method_ /\ h1.error_ = "no"
  <2> HIDE DEF input
  <2> QED
    BY <1>1, <1>2, <1>7, BufferTyped, Zenon
<1>9. /\ HttpTyped(h)
       /\ \/ /\ h.error_ # "no" /\ h.state_ # "STATE_FINISH"
             /\ h.state_ = "STATE_PARSE_URI" =>
                  /\ http.state_ = "STATE_PARSE_URI" /\ h.in_buffer_ = <<>>
                  /\ h.h_state_ = http.h_state_ /\ h.headers_ = http.headers_
                  /\ h.file_name_ = http.file_name_
          \/ /\ h.error_ = "no"
             /\ h.state_ \in {"STATE_PARSE_HEADERS", "STATE_RECV_BODY", "STATE_FINISH"}
             /\ h.state_ = "STATE_RECV_BODY" => h.method_ = "POST"
             /\ h.state_ = "STATE_FINISH" => h.method_ # "POST"
  <2>1. /\ h1.state_ \in {"STATE_PARSE_URI", "STATE_PARSE_HEADERS", "STATE_RECV_BODY"}
        /\ h1.state_ = "STATE_RECV_BODY" => h1.method_ = "POST"
    BY <1>5, <1>8, Zenon
  <2> HIDE DEF h1
  <2> QED
    BY <1>8, <2>1, OutcomesTyped
<1>10. ASSUME sent \in Seq(PlainRequests)
       PROVE  /\ Len(served) <= Len(sent)
              /\ \A i \in 1..Len(served) : /\ served[i].method = sent[i].method
                                           /\ served[i].file = Named(sent[i])
                                           /\ sent[i].method # "POST"
              /\ \E T, at : LaidOut(T, at, sent) /\ Passed(h, rest, T, at, sent, k)
  <2>1. /\ Len(served) <= Len(sent)
        /\ \A i \in 1..Len(served) : /\ served[i].method = sent[i].method
                                     /\ served[i].file = Named(sent[i])
                                     /\ sent[i].method # "POST"
    BY <1>4, <1>10, Zenon DEF PlainInv, ServedInv
  <2>2. k \in 1..(Len(sent) + 1) /\ (k > 1 => k - 1 \in 1..Len(served))
    BY <1>6, <2>1
  <2>3. PICK T, at : LaidOut(T, at, sent) /\ ParserAt(http, wire, T, at, sent, k)
    BY <1>4, <1>10, Zenon DEF PlainInv, PlaceInv
  <2>4. k > 1 => sent[k - 1].method # "POST"
    BY <2>1, <2>2, Zenon
  <2>5. http.state_ = "STATE_PARSE_URI" => http.h_state_ = "H_START"
    BY <1>5
  <2>6. h1 = [http EXCEPT !.in_buffer_ = http.in_buffer_ \o SubSeq(wire, 1, n)]
    BY Zenon
  <2> HIDE DEF h1, k
  <2>7. Passed(h, rest, T, at, sent, k)
    BY <1>1, <1>2, <1>8, <1>10, <2>2, <2>3, <2>4, <2>5, <2>6, PassIs, Zenon
  <2> QED
    BY <2>1, <2>3, <2>7, Zenon
<1> HIDE DEF h1, input, rest
<1>11. wire' \in Seq(Symbol) /\ sent' \in Seq(Requests) /\ piped' \in BOOLEAN
       /\ clean' \in BOOLEAN
  BY <1>1, <1>2, <1>7
<1>12. CASE h.state_ = "STATE_FINISH"
  <2> DEFINE A == [method |-> h.method_, file |-> h.file_name_, headers |-> h.headers_]
             q == Reset(h)
  <2>1. served' = Append(served, A) /\ http' = q /\ again' = (h.in_buffer_ # <<>>)
    BY <1>3, <1>12, Zenon
  <2>2. h.error_ = "no"
    BY <1>9, <1>12
  <2>3. /\ HttpTyped(q) /\ q.in_buffer_ = h.in_buffer_ /\ q.error_ = "no"
        /\ q.state_ = "STATE_PARSE_URI" /\ q.h_state_ = "H_START"
        /\ q.headers_ = NoHeaders /\ q.file_name_ = <<>>
    BY <1>9, <2>2, ResetIs, Zenon
  <2>4. A.method = h.method_ /\ A.file = h.file_name_
    OBVIOUS
  <2> HIDE DEF A, q
  <2>5. /\ served' \in Seq({served'[i] : i \in DOMAIN served'})
        /\ Len(served') = k /\ served'[k] = A
        /\ \A i \in 1..Len(served) : served'[i] = served[i]
    <3>1. IsAppend(Append(served, A), served, A)
      BY <1>1, AppendIs, Zenon
    <3> QED
      BY <2>1, <3>1, Zenon DEF IsAppend
  <2>6. Typed'
    <3>1. HttpTyped(http')
      BY <2>1, <2>3, Zenon
    <3>2. again' \in BOOLEAN
      BY <2>1
    <3>3. HttpTyped(http)'
      BY <3>1, Zenon DEF HttpTyped
    <3> QED
      BY <1>11, <2>5, <3>2, <3>3, Zenon DEF Typed
  <2>7. StateInv'
    <3>1. /\ http'.state_ \in {"STATE_PARSE_URI", "STATE_PARSE_HEADERS", "STATE_RECV_BODY"}
          /\ http'.state_ # "STATE_RECV_BODY"
      BY <2>1, <2>3
    <3> QED
      BY <2>1, <2>3, <3>1, Zenon DEF StateInv
  <2>8. ASSUME sent' \in Seq(PlainRequests) PROVE ServedInv' /\ PlaceInv'
    <3>1. sent \in Seq(PlainRequests)
      BY <1>2, <2>8, Zenon
    <3>2. PICK T, at : LaidOut(T, at, sent) /\ Passed(h, rest, T, at, sent, k)
      BY <1>10, <3>1, Zenon
    <3>3. \A i \in 1..Len(served) : /\ served[i].method = sent[i].method
                                   /\ served[i].file = Named(sent[i])
                                   /\ sent[i].method # "POST"
      BY <1>10, <3>1, Zenon
    <3>4. /\ k <= Len(sent) /\ sent[k].method # "POST"
          /\ h.method_ = sent[k].method /\ h.file_name_ = Named(sent[k])
          /\ \E b \in Nat : /\ Dropped(T, b, h.in_buffer_, rest)
                            /\ Before(at, k + 1, Len(sent), b)
      BY <1>12, <2>2, <3>2, Zenon DEF Passed
    <3>5. ServedInv'
      <4>1. ASSUME NEW i \in 1..k
            PROVE  /\ served'[i].method = sent[i].method
                   /\ served'[i].file = Named(sent[i]) /\ sent[i].method # "POST"
        <5>1. i = k \/ i \in 1..Len(served)
          BY <1>6
        <5>2. CASE i = k
          BY <2>4, <2>5, <3>4, <5>2, Zenon
        <5>3. CASE i \in 1..Len(served)
          BY <2>5, <3>3, <5>3, Zenon
        <5> QED
          BY <5>1, <5>2, <5>3
      <4>2. k \in Nat
        BY <1>6
      <4> HIDE DEF k
      <4> QED
        BY <1>2, <2>5, <3>4, <4>1, <4>2, Zenon DEF ServedInv
    <3>6. PlaceInv'
      <4>1. AtURI(http', rest, T, at, sent, k + 1)
        BY <2>1, <2>3, <3>4, Zenon DEF AtURI
      <4>2. ParserAt(http', wire', T, at, sent', Len(served') + 1)
        <5> HIDE DEF k
        <5> QED
          BY <1>2, <2>5, <4>1, Zenon DEF ParserAt
      <4> QED
        BY <1>2, <3>2, <4>2, Zenon DEF PlaceInv
    <3> QED
      BY <3>5, <3>6, Zenon
  <2> QED
    BY <2>6, <2>7, <2>8, Zenon DEF IInv, PlainInv
<1>13. CASE h.state_ # "STATE_FINISH"
  <2>1. http' = h /\ again' = FALSE /\ served' = served
    BY <1>3, <1>13, Zenon
  <2>2. Typed'
    <3>1. HttpTyped(http')
      BY <1>9, <2>1, Zenon
    <3>2. again' \in BOOLEAN
      BY <2>1
    <3>3. HttpTyped(http)'
      BY <3>1, Zenon DEF HttpTyped
    <3> QED
      BY <1>1, <1>11, <2>1, <3>2, <3>3, Zenon DEF Typed
  <2>3. StateInv'
    <3>1. CASE h.error_ # "no"
      <4>1. h.state_ = "STATE_PARSE_URI" =>
              /\ h.h_state_ = "H_START" /\ h.headers_ = NoHeaders /\ h.file_name_ = <<>>
        BY <1>5, <1>9, <3>1, Zenon
      <4> QED
        BY <2>1, <3>1, <4>1, Zenon DEF StateInv
    <3>2. CASE h.error_ = "no"
      <4>1. /\ h.state_ \in {"STATE_PARSE_URI", "STATE_PARSE_HEADERS", "STATE_RECV_BODY"}
            /\ h.state_ # "STATE_PARSE_URI"
            /\ h.state_ = "STATE_RECV_BODY" => h.method_ = "POST"
        BY <1>9, <1>13, <3>2
      <4> QED
        BY <2>1, <4>1, Zenon DEF StateInv
    <3> QED
      BY <3>1, <3>2
  <2>4. ASSUME sent' \in Seq(PlainRequests) PROVE ServedInv' /\ PlaceInv'
    <3>1. sent \in Seq(PlainRequests)
      BY <1>2, <2>4, Zenon
    <3>2. PICK T, at : LaidOut(T, at, sent) /\ Passed(h, rest, T, at, sent, k)
      BY <1>10, <3>1, Zenon
    <3>3. ServedInv'
      BY <1>2, <1>4, <2>1, <3>1, Zenon DEF PlainInv, ServedInv
    <3>4. ParserAt(h, rest, T, at, sent, k)
      BY <1>13, <3>2, Zenon DEF Passed, ParserAt
    <3>5. PlaceInv'
      BY <1>2, <2>1, <3>2, <3>4, Zenon DEF PlaceInv
    <3> QED
      BY <3>3, <3>5, Zenon
  <2> QED
    BY <2>2, <2>3, <2>4, Zenon DEF IInv, PlainInv
<1> QED
  BY <1>12, <1>13
\* A request with headers is not over while the parser is in it.
LEMMA PlaceWithin ==
  ASSUME NEW T, NEW r, NEW a, NEW more, NEW q, Around(T, r, a, more, q),
         NEW B \in Nat, NEW u \in Nat, NEW h, Place(r, a, more, q, h, B, u),
         h # "H_END_LF", r.headers # <<>>
  PROVE  u < LastOf(r, a)
<1> DEFINE X == EndAt(r, a)
           m == Len(r.headers)
           P == Len(r.path)
           e == LastOf(r, a)
           x == X[m]
<1>1. Plain(r) /\ Stands(T, a, r)
  BY Zenon DEF Around
<1>2. /\ m \in Nat /\ a \in Nat /\ P \in Nat /\ X[0] = a + 9 + P
      /\ \A j \in 0..m : X[j] \in Nat /\ X[j] <= x
  BY <1>1, Zenon DEF Stands
<1>3. e = x + 2
  BY Zenon DEF LastOf
<1>4. m # 0
  <2>1. r.headers \in Seq([key : STRING, value : Seq(STRING)])
    BY <1>1, Zenon DEF Plain, RequestOK, Clear
  <2> QED
    BY <2>1, EmptySeq
<1>5. \A j \in 1..m : HeaderAt(T, X[j - 1], X[j])
  BY <1>1, HeadersStand, Zenon
<1> HIDE DEF X, m, P, e, x
<1> SUFFICES u < e
  BY Zenon DEF e
<1>6. 0 \in 0..m /\ m \in 0..m
  BY <1>2
<1> DEFINE Y == X[0]
<1>7. x \in Nat /\ Y \in Nat /\ Y <= x /\ Y = a + 9 + P
  BY <1>2, <1>6, Zenon DEF x
<1> HIDE DEF Y
<1>8. \/ InHeaders(r, a, h, B, u)
      \/ BeforeRequestLine(a, h, B, u)
      \/ InRequestLine(r, a, h, B, u)
  BY Zenon DEF Place
<1>9. u <= x + 1 => u < e
  BY <1>3, <1>7
<1>10. CASE BeforeRequestLine(a, h, B, u)
  <2>1. u <= a
    BY <1>10, Zenon DEF BeforeRequestLine
  <2> QED
    BY <1>2, <1>7, <1>9, <2>1
<1>11. CASE InRequestLine(r, a, h, B, u)
  <2>1. \/ u <= a + 7 + P
        \/ u = a \/ u <= a + 2 + P
    BY <1>11, Zenon DEF InRequestLine, P
  <2> QED
    BY <1>2, <1>7, <1>9, <2>1
<1>12. CASE InHeaders(r, a, h, B, u)
  <2>1. \/ u <= Y
        \/ \E j \in 1..m : /\ B = X[j - 1] - 1 \/ (j = 1 /\ B = X[0])
                           /\ InHeader(X[j - 1], X[j], h, B, u)
        \/ \E j \in 0..m : BehindLine(X[j], h, B, u)
        \/ InEmptyLine(x, h, B, u)
    BY <1>4, <1>12, Zenon DEF InHeaders, X, Y, m, x
  <2>2. CASE u <= Y
    BY <1>7, <1>9, <2>2
  <2>3. ASSUME NEW j \in 1..m, B = X[j - 1] - 1 \/ (j = 1 /\ B = X[0]),
               InHeader(X[j - 1], X[j], h, B, u)
        PROVE  u < e
    <3> DEFINE y == X[j - 1]
               z == X[j]
    <3>1. j \in 0..m /\ j - 1 \in 0..m /\ (j = 1 => j - 1 = 0)
      BY <1>2
    <3>2. y \in Nat /\ z \in Nat /\ z <= x
      BY <1>2, <3>1, Zenon
    <3>3. y + 6 <= z
      BY <1>5, Zenon DEF HeaderAt
    <3>4. B = y - 1 \/ B = y
      BY <2>3, <3>1, Zenon
    <3>5. u = B \/ u = y + 1 \/ u = y + 2 \/ u = y + 3 \/ u <= z - 2 \/ u = z - 1
      BY <2>3, Zenon DEF InHeader
    <3> HIDE DEF y, z
    <3> QED
      BY <1>7, <1>9, <3>2, <3>3, <3>4, <3>5
  <2>4. ASSUME NEW j \in 0..m, BehindLine(X[j], h, B, u) PROVE u < e
    <3> DEFINE z == X[j]
    <3>1. z \in Nat /\ z <= x
      BY <1>2, Zenon
    <3>2. B = z - 1 /\ (u = B \/ u = z)
      BY <2>4, Zenon DEF BehindLine
    <3> HIDE DEF z
    <3> QED
      BY <1>7, <1>9, <3>1, <3>2
  <2>5. CASE InEmptyLine(x, h, B, u)
    <3>1. B = x - 1 /\ (u = B \/ u = x + 1)
      BY <2>5, Zenon DEF InEmptyLine
    <3> QED
      BY <1>7, <1>9, <3>1
  <2> QED
    BY <2>1, <2>2, <2>3, <2>4, <2>5, Zenon
<1> QED
  BY <1>8, <1>10, <1>11, <1>12, Zenon DEF e

\* What has arrived, is clear and was not refused, is served.
LEMMA ArrivedFollows == IInv => ArrivedIsDecided
<1> SUFFICES ASSUME IInv, sent # <<>>, wire = <<>>, ~again,
                    \A i \in DOMAIN sent : Clear(sent[i]) /\ Supported(sent[i]),
                    http.error_ = "no"
             PROVE  Len(served) = Len(sent)
  BY Zenon DEF ArrivedIsDecided
<1> DEFINE n == Len(sent)
           k == Len(served) + 1
           str == http.in_buffer_
           N == Len(str)
<1>1. sent \in Seq(PlainRequests)
  <2>1. sent \in Seq(Requests)
    BY Zenon DEF IInv, Typed
  <2> QED
    BY <2>1, PlainSequence, Zenon
<1>2. /\ HttpTyped(http) /\ sent \in Seq(PlainRequests)
      /\ StateInv /\ Len(served) \in Nat /\ Len(served) <= n
      /\ \A i \in 1..Len(served) : sent[i].method # "POST"
  BY <1>1, Zenon DEF IInv, PlainInv, Typed, ServedInv
<1>3. str \in Seq(Symbol) /\ N \in Nat
  BY <1>2 DEF HttpTyped
<1>4. n \in Nat /\ DOMAIN sent = 1..n /\ Len(wire) = 0
  BY <1>2
<1>5. PICK T, at : LaidOut(T, at, sent) /\ ParserAt(http, wire, T, at, sent, k)
  BY <1>2, Zenon DEF IInv, PlainInv, PlaceInv
<1> DEFINE L == Len(T)
<1>6. /\ L \in Nat /\ \A i \in 1..(n + 1) : at[i] \in Nat /\ at[i] <= L
  BY <1>2, <1>5, LaidOutIs, Zenon
<1>7. k \in 1..(n + 1) /\ (k <= n => k \in 1..n /\ k + 1 \in 1..(n + 1))
      /\ (k > 1 => k - 1 \in 1..Len(served))
  BY <1>2, <1>4
<1>8. k <= n => /\ at[k] + 2 <= at[k + 1]
                /\ Supported(sent[k])
  <2> SUFFICES ASSUME k <= n PROVE at[k] + 2 <= at[k + 1] /\ Supported(sent[k])
    OBVIOUS
  <2>1. k \in 1..n /\ sent \in Seq(PlainRequests) /\ LaidOut(T, at, sent)
    BY <1>2, <1>5, <1>7
  <2>2. NextBegins(T, at, sent, k)
    <3> HIDE DEF k
    <3> QED
      BY <2>1, NextRequest, Zenon
  <2>3. Supported(sent[k])
    BY <1>4, <2>1, Zenon
  <2> QED
    BY <2>2, <2>3, Zenon DEF NextBegins
<1>9. at[k] \in Nat /\ at[k] <= L /\ (k <= n => at[k + 1] \in Nat /\ at[k + 1] <= L)
  BY <1>6, <1>7, Zenon
<1>10. \A b : Dropped(T, b, str, wire) => b \in Nat /\ b + N = L
  <2> TAKE b
  <2> SUFFICES ASSUME Dropped(T, b, str, wire) PROVE b \in Nat /\ b + N = L
    OBVIOUS
  <2>1. b \in Nat /\ b + N + Len(wire) = L
    BY Zenon DEF Dropped
  <2> HIDE DEF N, L
  <2> QED
    BY <1>3, <1>4, <2>1
<1>11. CASE AtURI(http, wire, T, at, sent, k)
  <2>1. PICK b \in Nat : Dropped(T, b, str, wire) /\ Before(at, k, n, b)
    BY <1>11, Zenon DEF AtURI
  <2>2. str = <<>>
    BY <1>2, <1>11, Zenon DEF StateInv, AtURI
  <2>3. N = 0
    BY <2>2
  <2>4. b + N = L
    BY <1>10, <2>1, Zenon
  <2>5. \/ b = at[k]
        \/ k <= n /\ b = at[k] + 1
        \/ b = at[k] - 1 \/ b = at[k] - 2
    BY <2>1, Zenon DEF Before
  <2> HIDE DEF N, L
  <2>6. k = n + 1
    <3> SUFFICES ASSUME k <= n PROVE FALSE
      BY <1>4, <1>7
    <3> DEFINE x == at[k]
               y == at[k + 1]
    <3>1. x \in Nat /\ y \in Nat /\ x + 2 <= y /\ y <= L
      BY <1>8, <1>9, Zenon
    <3>2. b = x \/ b = x + 1 \/ b = x - 1 \/ b = x - 2
      BY <2>5
    <3> HIDE DEF x, y
    <3> QED
      BY <1>6, <2>3, <2>4, <3>1, <3>2
  <2> QED
    BY <1>2, <1>4, <2>6
<1>12. CASE AtPost(http, sent, k)
  <2>1. k <= n /\ sent[k].method = "POST"
    BY <1>12, Zenon DEF AtPost
  <2>2. sent[k].method \in {"GET", "HEAD"}
    BY <1>8, <2>1, Zenon DEF Supported
  <2> QED
    BY <2>1, <2>2
<1>13. CASE AtHeaders(http, wire, T, at, sent, k)
  <2> DEFINE r == sent[k]
             a == at[k]
             more == k < n
             p == sent[k + 1]
             g == http.h_state_
  <2>1. k <= n /\ r.method # "POST" /\ g # "H_END_LF" /\ r.headers # <<>>
    BY <1>8, <1>13, Zenon DEF AtHeaders, Supported
  <2>2. PICK b \in Nat : /\ Dropped(T, b, str, wire)
                         /\ Place(r, a, more, p, g, b, b + N)
    BY <1>13, Zenon DEF AtHeaders
  <2>3. b + N = L
    BY <1>10, <2>2, Zenon
  <2>4. k > 1 => sent[k - 1].method # "POST"
    BY <1>2, <1>7, Zenon
  <2>5. Around(T, r, a, more, p) /\ LastOf(r, a) = at[k + 1]
    BY <1>2, <1>5, <1>7, <2>1, <2>4, AroundIs, Zenon
  <2>6. Place(r, a, more, p, g, b, L)
    BY <2>2, <2>3, Zenon
  <2> HIDE DEF L, r, a, more, p, g
  <2>7. L < LastOf(r, a)
    BY <1>6, <2>1, <2>5, <2>6, PlaceWithin, Zenon
  <2>8. L < at[k + 1] /\ at[k + 1] <= L /\ at[k + 1] \in Nat
    BY <1>9, <2>1, <2>5, <2>7, Zenon
  <2> QED
    BY <1>6, <2>8
<1> QED
  BY <1>5, <1>11, <1>12, <1>13, Zenon DEF ParserAt
-----------------------------------------------------------------------------
\* Headers that are read without a cut: what the map holds.

\* The last of the first j headers of r that has the key k.
IsLast(r, j, k, i) ==
  /\ i \in 1..j /\ <<r.headers[i].key>> = k
  /\ \A l \in 1..j : <<r.headers[l].key>> = k => l <= i

\* F holds the first j headers of r.
Holds(F, r, j) ==
  /\ F = [k \in {<<r.headers[i].key>> : i \in 1..j} |-> F[k]]
  /\ \A i \in 1..j : \E l \in 1..j :
       /\ IsLast(r, j, <<r.headers[i].key>>, l)
       /\ F[<<r.headers[i].key>>] = r.headers[l].value

\* At first the map is empty.
LEMMA HoldsNone ==
  ASSUME NEW r
  PROVE  Holds(NoHeaders, r, 0)
<1> DEFINE K == {<<r.headers[i].key>> : i \in 1..0}
<1>1. 1..0 = {}
  OBVIOUS
<1>2. K = {}
  BY <1>1
<1> HIDE DEF K
<1>3. NoHeaders = [k \in K |-> NoHeaders[k]]
  BY <1>2 DEF NoHeaders
<1> QED
  BY <1>1, <1>3, Zenon DEF Holds, K

\* The value of a key is the one that was assigned last.
LEMMA HoldsMore ==
  ASSUME NEW r, NEW j \in Nat, NEW F, Holds(F, r, j),
         NEW k, k = <<r.headers[j + 1].key>>, NEW v, v = r.headers[j + 1].value
  PROVE  Holds(Assign(F, k, v), r, j + 1)
<1> DEFINE Key(i) == <<r.headers[i].key>>
           K == {Key(i) : i \in 1..j}
           K2 == {Key(i) : i \in 1..(j + 1)}
           F2 == Assign(F, k, v)
<1>1. /\ \A i \in 1..j : i \in 1..(j + 1) /\ i <= j + 1 /\ ~(j + 1 <= i)
      /\ \A i \in 1..(j + 1) : i \in 1..j \/ i = j + 1
      /\ \A i \in 1..(j + 1) : i <= j + 1
      /\ j + 1 \in 1..(j + 1)
  OBVIOUS
<1>2. /\ F = [x \in K |-> F[x]]
      /\ \A i \in 1..j : \E l \in 1..j :
           IsLast(r, j, Key(i), l) /\ F[Key(i)] = r.headers[l].value
  BY Zenon DEF Holds
<1>3. K2 = K \union {k}
  BY <1>1, Zenon
<1>4. DOMAIN F = K
  BY <1>2, Zenon
<1>5. F2 = [x \in K2 |-> IF x = k THEN v ELSE F[x]]
  BY <1>3, <1>4, Zenon DEF Assign
<1>6. F2 = [x \in K2 |-> F2[x]]
  BY <1>5, Zenon
<1> HIDE DEF F2
<1>7. ASSUME NEW i \in 1..(j + 1)
      PROVE  \E l \in 1..(j + 1) :
               IsLast(r, j + 1, Key(i), l) /\ F2[Key(i)] = r.headers[l].value
  <2>1. Key(i) \in K2
    BY Zenon
  <2>2. CASE Key(i) = k
    <3>1. IsLast(r, j + 1, Key(i), j + 1)
      BY <1>1, <2>2, Zenon DEF IsLast
    <3>2. F2[Key(i)] = r.headers[j + 1].value
      BY <1>5, <2>1, <2>2, Zenon
    <3> QED
      BY <1>1, <3>1, <3>2, Zenon
  <2>3. CASE Key(i) # k
    <3>1. i \in 1..j
      BY <1>1, <2>3, Zenon
    <3>2. PICK l \in 1..j : IsLast(r, j, Key(i), l) /\ F[Key(i)] = r.headers[l].value
      BY <1>2, <3>1, Zenon
    <3>3. IsLast(r, j + 1, Key(i), l)
      BY <1>1, <2>3, <3>2, Zenon DEF IsLast
    <3>4. F2[Key(i)] = r.headers[l].value
      BY <1>5, <2>1, <2>3, <3>2, Zenon
    <3> QED
      BY <1>1, <3>2, <3>3, <3>4, Zenon
  <2> QED
    BY <2>2, <2>3
<1> QED
  BY <1>6, <1>7, Zenon DEF Holds, F2

\* A map that holds all headers of a request is what they mean.
LEMMA HoldsAll ==
  ASSUME NEW r, Plain(r), NEW F, Holds(F, r, Len(r.headers))
  PROVE  F = Fields(r)
<1> DEFINE m == Len(r.headers)
           D == DOMAIN r.headers
           Key(i) == <<r.headers[i].key>>
           K == {Key(i) : i \in D}
           Latest(k) == CHOOSE i \in D : /\ Key(i) = k
                                         /\ \A l \in D : Key(l) = k => l <= i
<1>1. m \in Nat /\ D = 1..m
  BY RequestTypes, Zenon
<1>2. /\ F = [x \in K |-> F[x]]
      /\ \A i \in D : \E l \in D : IsLast(r, m, Key(i), l) /\ F[Key(i)] = r.headers[l].value
  BY <1>1, Zenon DEF Holds
<1>3. Fields(r) = [k \in K |-> r.headers[Latest(k)].value]
  BY Zenon DEF Fields
<1>4. ASSUME NEW k \in K PROVE F[k] = r.headers[Latest(k)].value
  <2>1. PICK i \in D : k = Key(i)
    BY Zenon
  <2>2. PICK l \in D : IsLast(r, m, k, l) /\ F[k] = r.headers[l].value
    BY <1>2, <2>1, Zenon
  <2>3. Key(l) = k /\ \A x \in D : Key(x) = k => x <= l
    BY <1>1, <2>2, Zenon DEF IsLast
  <2>4. /\ Latest(k) \in D /\ Key(Latest(k)) = k
        /\ \A x \in D : Key(x) = k => x <= Latest(k)
    BY <2>3, Zenon
  <2>5. l <= Latest(k) /\ Latest(k) <= l
    BY <2>3, <2>4, Zenon
  <2> DEFINE c == Latest(k)
  <2>6. c \in 1..m /\ l \in 1..m /\ l <= c /\ c <= l
    BY <1>1, <2>4, <2>5, Zenon
  <2> HIDE DEF c
  <2>7. l = c
    BY <1>1, <2>6
  <2> QED
    BY <2>2, <2>7, Zenon DEF c
<1> HIDE DEF K, Latest
<1> QED
  BY <1>2, <1>3, <1>4, Zenon

-----------------------------------------------------------------------------
\* What a buffer holds from the LF of the request line on.

\* Z is that text, and header j ends behind Y[j] of its symbols.
HeaderText(Z, Y, r) ==
  LET m == Len(r.headers) IN
  /\ m \in Nat /\ Y[0] = 1 /\ Z[1] = "LF"
  /\ \A j \in 0..m : Y[j] \in Nat /\ 1 <= Y[j] /\ Y[j] <= Y[m]
  /\ \A j \in 1..m : /\ Y[j] = Y[j - 1] + 5 + Len(r.headers[j].value)
                     /\ LineLaid(Z, Y[j - 1], r.headers[j])
  /\ Z[Y[m] + 1] = "CR" /\ Z[Y[m] + 2] = "LF"

\* The part of T behind b of its symbols, and where the headers end there.
Behind(T, b) == [p \in Int |-> T[b + p]]
EndBehind(r) == [j \in 0..Len(r.headers) |-> End(r)[j] - (8 + Len(r.path))]

\* A request without a body has its headers at its end.
LEMMA HeaderTextIs ==
  ASSUME NEW r, Plain(r), r.body = <<>>
  PROVE  LET P == Len(r.path)
             Y == EndBehind(r)
             m == Len(r.headers)
         IN
         /\ HeaderText(Behind(Render(r), 8 + P), Y, r)
         /\ Len(Render(r)) = 8 + P + (Y[m] + 2)
<1> DEFINE P == Len(r.path)
           Y == EndBehind(r)
           m == Len(r.headers)
           R == Render(r)
           E == End(r)
           Z == Behind(R, 8 + P)
           b == 8 + P
<1>1. RequestLaid(R, E, r)
  BY RequestIs, Zenon
<1>2. /\ P \in Nat /\ m \in Nat /\ R[9 + P] = "LF"
      /\ E[0] = 9 + P /\ \A j \in 0..m : E[j] \in Nat /\ E[j] <= E[m]
      /\ Len(R) = E[m] + 2 + Len(r.body)
      /\ R[E[m] + 1] = "CR" /\ R[E[m] + 2] = "LF"
      /\ \A j \in 1..m : /\ E[j] = E[j - 1] + 5 + Len(r.headers[j].value)
                         /\ LineLaid(R, E[j - 1], r.headers[j])
  <2> HIDE DEF E, R
  <2> QED
    BY <1>1, Zenon DEF RequestLaid
<1>3. Len(r.body) = 0
  OBVIOUS
<1>4. /\ b \in Nat /\ b = 8 + P
      /\ \A p \in Int : Z[p] = R[b + p]
      /\ \A j \in 0..m : Y[j] = E[j] - b
  BY <1>2 DEF Behind, EndBehind
<1>14. /\ P \in Nat /\ m \in Nat /\ b \in Nat /\ b = 8 + P
       /\ \A j \in 0..m : E[j] \in Nat /\ E[j] <= E[m]
       /\ \A j \in 0..m : Y[j] = E[j] - b
  BY <1>2, <1>4, Zenon
<1>15. \A p \in Int : Z[p] = R[b + p]
  BY <1>4, Zenon
<1> DEFINE n == [j \in 1..m |-> Len(r.headers[j].value)]
<1>5. \A j \in 1..m : n[j] = Len(r.headers[j].value)
  BY Zenon
<1>6. \A j \in 1..m : n[j] \in Nat \ {0}
  BY <1>2, <1>5, Zenon DEF LineLaid
<1> HIDE DEF Y, R, E, Z, b, n, P, m
<1>7. \A j \in 1..m : j \in 0..m /\ j - 1 \in 0..m /\ E[j] = E[j - 1] + 5 + n[j]
  <2>1. \A j \in 1..m : j \in 0..m /\ j - 1 \in 0..m
    BY <1>14
  <2> QED
    BY <1>2, <1>5, <2>1, Zenon
<1>8. \A j \in 0..m : E[j] \in Nat /\ 9 + P <= E[j]
  <2> DEFINE G == {j \in Nat : j <= m => 9 + P <= E[j]}
  <2>1. 0 \in G
    BY <1>2
  <2>2. ASSUME NEW j \in G PROVE j + 1 \in G
    <3>1. CASE j + 1 <= m
      <4>1. j + 1 \in 1..m /\ (j + 1) - 1 = j /\ j \in 0..m /\ 9 + P <= E[j]
        BY <1>2, <3>1
      <4>2. E[j + 1] = E[j] + 5 + n[j + 1] /\ n[j + 1] \in Nat /\ E[j] \in Nat
        BY <1>2, <1>6, <1>7, <4>1
      <4> QED
        BY <1>2, <4>1, <4>2
    <3>2. CASE ~(j + 1 <= m)
      BY <3>2
    <3> QED
      BY <3>1, <3>2
  <2> HIDE DEF G
  <2>3. \A j \in Nat : j \in G
    BY <2>1, <2>2, Induction DEF G
  <2>4. \A j \in 0..m : j \in Nat /\ j <= m
    BY <1>2
  <2> QED
    BY <1>2, <2>3, <2>4, Zenon DEF G
<1>9. \A j \in 0..m : /\ Y[j] \in Nat /\ 1 <= Y[j] /\ Y[j] <= Y[m]
                      /\ E[j] = b + Y[j]
  <2>1. m \in 0..m
    BY <1>14
  <2> QED
    BY <1>8, <1>14, <2>1
<1>10. Y[0] = 1 /\ Z[1] = "LF"
  <2>1. 0 \in 0..m /\ 1 \in Int /\ b + 1 = 9 + P
    BY <1>14
  <2>2. Y[0] = E[0] - b /\ E[0] = 9 + P
    BY <1>2, <1>4, <2>1, Zenon
  <2>3. Y[0] = 1
    BY <1>14, <2>2
  <2> QED
    BY <1>2, <1>4, <2>1, <2>3, Zenon
<1>11. Z[Y[m] + 1] = "CR" /\ Z[Y[m] + 2] = "LF" /\ Len(R) = b + (Y[m] + 2)
  <2>1. Y[m] \in Nat /\ E[m] = b + Y[m] /\ E[m] \in Nat
    <3>1. m \in 0..m
      BY <1>14
    <3> QED
      BY <1>9, <1>14, <3>1, Zenon
  <2>2. /\ Y[m] + 1 \in Int /\ Y[m] + 2 \in Int
        /\ b + (Y[m] + 1) = E[m] + 1 /\ b + (Y[m] + 2) = E[m] + 2
        /\ E[m] + 2 + 0 = b + (Y[m] + 2)
    BY <1>14, <2>1
  <2> QED
    BY <1>2, <1>3, <1>4, <2>2, Zenon
<1>12. ASSUME NEW j \in 1..m
       PROVE  /\ Y[j] = Y[j - 1] + 5 + Len(r.headers[j].value)
              /\ LineLaid(Z, Y[j - 1], r.headers[j])
  <2> DEFINE y == Y[j - 1]
             e == E[j - 1]
             h == r.headers[j]
             l == Len(h.value)
  <2>1. /\ y \in Nat /\ e = b + y /\ l \in Nat \ {0}
        /\ Y[j] \in Nat /\ E[j] = b + Y[j] /\ E[j] = e + 5 + l
    BY <1>5, <1>6, <1>7, <1>9, Zenon
  <2>2. LineLaid(R, e, h)
    BY <1>2, Zenon
  <2> HIDE DEF y, e, l
  <2>3. Y[j] = y + 5 + l
    BY <1>14, <2>1
  <2>4. /\ R[e + 1] = h.key /\ R[e + 2] = ":" /\ R[e + 3] = " "
        /\ \A i \in 1..l : R[e + 3 + i] = h.value[i]
        /\ R[e + 4 + l] = "CR" /\ R[e + 5 + l] = "LF"
    BY <2>2, Zenon DEF LineLaid, l
  <2>5. /\ y + 1 \in Int /\ y + 2 \in Int /\ y + 3 \in Int
        /\ y + 4 + l \in Int /\ y + 5 + l \in Int
        /\ b + (y + 1) = e + 1 /\ b + (y + 2) = e + 2 /\ b + (y + 3) = e + 3
        /\ b + (y + 4 + l) = e + 4 + l /\ b + (y + 5 + l) = e + 5 + l
        /\ \A i \in 1..l : y + 3 + i \in Int /\ b + (y + 3 + i) = e + 3 + i
    BY <1>14, <2>1
  <2>6. /\ Z[y + 1] = h.key /\ Z[y + 2] = ":" /\ Z[y + 3] = " "
        /\ \A i \in 1..l : Z[y + 3 + i] = h.value[i]
        /\ Z[y + 4 + l] = "CR" /\ Z[y + 5 + l] = "LF"
    <3>1. Z[y + 1] = R[e + 1] /\ Z[y + 2] = R[e + 2] /\ Z[y + 3] = R[e + 3]
      BY <1>15, <2>5
    <3>2. Z[y + 4 + l] = R[e + 4 + l] /\ Z[y + 5 + l] = R[e + 5 + l]
      BY <1>15, <2>5
    <3>3. \A i \in 1..l : Z[y + 3 + i] = R[e + 3 + i]
      BY <1>15, <2>5
    <3> QED
      BY <2>4, <3>1, <3>2, <3>3, Zenon
  <2>7. l \in Nat \ {0}
    BY <2>1, Zenon
  <2> HIDE DEF h
  <2>8. LineLaid(Z, y, h)
    BY <2>6, <2>7, Zenon DEF LineLaid, l
  <2> QED
    BY <2>3, <2>8, Zenon DEF y, l, h
<1>13. HeaderText(Z, Y, r)
  BY <1>2, <1>9, <1>10, <1>11, <1>12, Zenon DEF HeaderText, m
<1> QED
  BY <1>11, <1>13, Zenon DEF Y, R, Z, b, P, m

-----------------------------------------------------------------------------
\* The turns of the loop on headers that are read without a cut.

\* What turn i does to the locals p, on the way to a header that is accepted.
Reads(p, q, str, i) ==
  LET h == p.h_state_
      c == str[i]
      g == q.h_state_
      Same == q.headers_ = p.headers_
      SameKey == Same /\ q.key_start = p.key_start /\ q.key_end = p.key_end
  IN
  /\ h = "H_START" /\ c \in {"CR", "LF"} => q = p
  /\ h = "H_START" /\ c \notin {"CR", "LF"} => g = "H_KEY" /\ q.key_start = i /\ Same
  /\ h = "H_KEY" /\ c = ":" /\ i > p.key_start =>
       g = "H_COLON" /\ q.key_start = p.key_start /\ q.key_end = i /\ Same
  /\ h = "H_COLON" /\ c = " " => g = "H_SPACES_AFTER_COLON" /\ SameKey
  /\ h = "H_SPACES_AFTER_COLON" => g = "H_VALUE" /\ SameKey /\ q.value_start = i
  /\ h = "H_VALUE" /\ c # "CR" /\ ~TooLong(p, i) => q = p
  /\ h = "H_VALUE" /\ c = "CR" /\ i > p.value_start =>
       g = "H_CR" /\ SameKey /\ q.value_start = p.value_start /\ q.value_end = i
  /\ h = "H_CR" /\ c = "LF" =>
       /\ g = "H_LF"
       /\ q.headers_ = Assign(p.headers_, Slice(str, p.key_start, p.key_end),
                              Slice(str, p.value_start, p.value_end))
  /\ h = "H_LF" /\ c # "CR" => g = "H_KEY" /\ q.key_start = i /\ Same
  /\ h = "H_LF" /\ c = "CR" => g = "H_END_CR" /\ Same
  /\ h = "H_END_CR" /\ c = "LF" => g = "H_END_LF" /\ Same

\* A turn of the loop, by its effect on the locals.
LEMMA AdvanceReads ==
  ASSUME NEW p, NEW str, NEW i \in Nat \ {0},
         IsLocals(p), p.finished = FALSE,
         p.h_state_ \notin {"error", "H_END_LF"}
  PROVE  LET q == Advance(p, str, i) IN
         IsLocals(q) /\ q.finished = FALSE /\ Reads(p, q, str, i)
<1> DEFINE q == Advance(p, str, i)
           h == p.h_state_
           c == str[i]
<1>1. /\ p \in [h_state_ : ParseState \union {"error"}, headers_ : {p.headers_},
                key_start : Nat, key_end : Nat, value_start : Nat, value_end : Nat,
                now_read_line_begin : Nat \ {0}, finished : BOOLEAN]
      /\ p.finished = FALSE
  BY Zenon DEF IsLocals
<1>2. h \in {"H_START", "H_KEY", "H_COLON", "H_SPACES_AFTER_COLON", "H_VALUE",
             "H_CR", "H_LF", "H_END_CR"}
  BY <1>1 DEF ParseState
<1>0. IsLocals(q) /\ q.finished = FALSE
  <2>1. IsLocals(q) /\ Moves(h, p.now_read_line_begin, i, c, q.h_state_,
                             q.now_read_line_begin, q.finished)
    BY AdvanceIs, Zenon
  <2>2. q.finished \in BOOLEAN
    <3> HIDE DEF q
    <3> QED
      BY <2>1 DEF IsLocals
  <2> QED
    BY <2>1, <2>2, Zenon DEF Moves
<1>3. CASE h = "H_START"
  <2>1. q = IF c \in {"CR", "LF"} THEN p
            ELSE [[p EXCEPT !.h_state_ = "H_KEY"]
                    EXCEPT !.key_start = i, !.now_read_line_begin = i]
    BY <1>3, Zenon DEF Advance
  <2> HIDE DEF q
  <2>2. c \notin {"CR", "LF"} =>
          q.h_state_ = "H_KEY" /\ q.key_start = i /\ q.headers_ = p.headers_
    BY <1>1, <2>1
  <2> QED
    BY <1>0, <1>3, <2>1, <2>2, Zenon DEF Reads, q
<1>4. CASE h = "H_KEY"
  <2>1. c = ":" /\ i > p.key_start =>
          q = [[p EXCEPT !.h_state_ = "H_COLON"] EXCEPT !.key_end = i]
    BY <1>4, Zenon DEF Advance
  <2> HIDE DEF q
  <2>2. c = ":" /\ i > p.key_start =>
          /\ q.h_state_ = "H_COLON" /\ q.key_start = p.key_start
          /\ q.key_end = i /\ q.headers_ = p.headers_
    BY <1>1, <2>1
  <2> QED
    BY <1>0, <1>4, <2>2, Zenon DEF Reads, q
<1>5. CASE h = "H_COLON"
  <2>1. c = " " => q = [p EXCEPT !.h_state_ = "H_SPACES_AFTER_COLON"]
    BY <1>5, Zenon DEF Advance
  <2> HIDE DEF q
  <2>2. c = " " =>
          /\ q.h_state_ = "H_SPACES_AFTER_COLON" /\ q.key_start = p.key_start
          /\ q.key_end = p.key_end /\ q.headers_ = p.headers_
    BY <1>1, <2>1
  <2> QED
    BY <1>0, <1>5, <2>2, Zenon DEF Reads, q
<1>6. CASE h = "H_SPACES_AFTER_COLON"
  <2>1. q = [[p EXCEPT !.h_state_ = "H_VALUE"] EXCEPT !.value_start = i]
    BY <1>6, Zenon DEF Advance
  <2> HIDE DEF q
  <2>2. /\ q.h_state_ = "H_VALUE" /\ q.key_start = p.key_start
        /\ q.key_end = p.key_end /\ q.headers_ = p.headers_ /\ q.value_start = i
    BY <1>1, <2>1
  <2> QED
    BY <1>0, <1>6, <2>2, Zenon DEF Reads, q
<1>7. CASE h = "H_VALUE"
  <2>1. /\ c = "CR" /\ i > p.value_start =>
             q = [[p EXCEPT !.h_state_ = "H_CR"] EXCEPT !.value_end = i]
        /\ c # "CR" /\ ~TooLong(p, i) => q = p
    BY <1>7, Zenon DEF Advance
  <2> HIDE DEF q
  <2>2. c = "CR" /\ i > p.value_start =>
          /\ q.h_state_ = "H_CR" /\ q.key_start = p.key_start
          /\ q.key_end = p.key_end /\ q.headers_ = p.headers_
          /\ q.value_start = p.value_start /\ q.value_end = i
    BY <1>1, <2>1
  <2> QED
    BY <1>0, <1>7, <2>1, <2>2, Zenon DEF Reads, q
<1>8. CASE h = "H_CR"
  <2> DEFINE F == Assign(p.headers_, Slice(str, p.key_start, p.key_end),
                         Slice(str, p.value_start, p.value_end))
  <2>1. c = "LF" => q = [[p EXCEPT !.h_state_ = "H_LF"] EXCEPT
                           !.headers_ = F, !.now_read_line_begin = i]
    BY <1>8, Zenon DEF Advance
  <2> HIDE DEF q, F
  <2>2. c = "LF" => q.h_state_ = "H_LF" /\ q.headers_ = F
    BY <1>1, <2>1
  <2> QED
    BY <1>0, <1>8, <2>2, Zenon DEF Reads, q, F
<1>9. CASE h = "H_LF"
  <2>1. q = IF c = "CR" THEN [p EXCEPT !.h_state_ = "H_END_CR"]
            ELSE [[p EXCEPT !.h_state_ = "H_KEY"] EXCEPT !.key_start = i]
    BY <1>9, Zenon DEF Advance
  <2> HIDE DEF q
  <2>2. /\ c = "CR" => q.h_state_ = "H_END_CR" /\ q.headers_ = p.headers_
        /\ c # "CR" => /\ q.h_state_ = "H_KEY" /\ q.key_start = i
                       /\ q.headers_ = p.headers_
    BY <1>1, <2>1
  <2> QED
    BY <1>0, <1>9, <2>2, Zenon DEF Reads, q
<1>10. CASE h = "H_END_CR"
  <2>1. c = "LF" => q = [p EXCEPT !.h_state_ = "H_END_LF"]
    BY <1>10, Zenon DEF Advance
  <2> HIDE DEF q
  <2>2. c = "LF" => q.h_state_ = "H_END_LF" /\ q.headers_ = p.headers_
    BY <1>1, <2>1
  <2> QED
    BY <1>0, <1>10, <2>2, Zenon DEF Reads, q
<1> QED
  BY <1>0, <1>2, <1>3, <1>4, <1>5, <1>6, <1>7, <1>8, <1>9, <1>10, Zenon

\* A slice that begins at a character of the buffer.
LEMMA SliceIs ==
  ASSUME NEW str \in Seq(Symbol), NEW v \in Seq(Symbol), NEW a \in Nat,
         a + Len(v) <= Len(str), \A i \in 1..Len(v) : str[a + i] = v[i]
  PROVE  Slice(str, a + 1, a + 1 + Len(v)) = v
<1> DEFINE N == Len(str)
           n == Len(v)
           b == a + 1
           e == a + n
           s == SubSeq(str, b, e)
<1>1. N \in Nat /\ n \in Nat
  BY LenProperties
<1>2. /\ (a + 1 + n) - 1 = e /\ a + 1 # 0
      /\ b \in Int /\ e \in Int /\ \A i \in b..e : i \in 1..N
      /\ e - b + 1 = n /\ (b <= e <=> n # 0)
  BY <1>1
<1>3. Slice(str, a + 1, a + 1 + n) = s
  BY <1>2, Zenon DEF Slice, Unset
<1>4. \A i \in b..e : str[i] \in Symbol
  BY <1>2, ElementOfSeq
<1> HIDE DEF b, e, N, n
<1>5. /\ s \in Seq(Symbol) /\ Len(s) = IF b <= e THEN e - b + 1 ELSE 0
      /\ \A i \in 1..(e - b + 1) : s[i] = str[b + i - 1]
  BY <1>2, <1>4, SubSeqProperties
<1> HIDE DEF s
<1>6. Len(s) = n
  BY <1>1, <1>2, <1>5
<1>7. ASSUME NEW i \in 1..n PROVE s[i] = v[i]
  <2>1. b + i - 1 = a + i /\ i \in 1..(e - b + 1)
    BY <1>1, <1>2 DEF b
  <2>2. str[a + i] = v[i]
    BY Zenon DEF n
  <2> QED
    BY <1>5, <2>1, <2>2, Zenon
<1>8. s = v
  <2>1. Len(s) = Len(v) /\ \A i \in 1..Len(s) : s[i] = v[i]
    BY <1>6, <1>7, Zenon DEF n
  <2> QED
    BY <1>5, <2>1, SeqEqual
<1> QED
  BY <1>3, <1>8, Zenon DEF n

\* p is in a header that begins behind y symbols and has l of them in its
\* value; n symbols are read.
InLine(p, y, l, n) ==
  LET h == p.h_state_
      key == p.key_start = y + 1 /\ p.key_end = y + 2
      value == key /\ p.value_start = y + 4
  IN
  \/ n = y + 1 /\ h = "H_KEY" /\ p.key_start = y + 1
  \/ n = y + 2 /\ h = "H_COLON" /\ key
  \/ n = y + 3 /\ h = "H_SPACES_AFTER_COLON" /\ key
  \/ n \in (y + 4)..(y + 3 + l) /\ h = "H_VALUE" /\ value
  \/ n = y + 4 + l /\ h = "H_CR" /\ value /\ p.value_end = n

\* A header of a clear request that fits.
Readable(h) ==
  /\ h.key \in Symbol /\ h.value \in Seq(Symbol) /\ Len(h.value) \in Nat \ {0}
  /\ h.key \notin {"CR", "LF"} /\ \A k \in 1..Len(h.value) : h.value[k] # "CR"
  /\ Len(h.value) <= MaxValue + 1

\* What the next turn does: it stays in the header or ends it.
LineOn(p, q, y, h, n) ==
  \/ InLine(q, y, Len(h.value), n) /\ q.headers_ = p.headers_
  \/ /\ n = y + 5 + Len(h.value) /\ q.h_state_ = "H_LF"
     /\ q.headers_ = Assign(p.headers_, <<h.key>>, h.value)

\* A turn in a header.
LEMMA LineReads ==
  ASSUME NEW str \in Seq(Symbol), NEW y \in Nat, NEW h, Readable(h),
         NEW Z, LineLaid(Z, y, h), \A i \in 1..Len(str) : str[i] = Z[i],
         NEW n \in Nat, n + 1 \in 1..Len(str),
         NEW p, InLine(p, y, Len(h.value), n), NEW q, Reads(p, q, str, n + 1)
  PROVE  LineOn(p, q, y, h, n + 1)
<1> DEFINE l == Len(h.value)
           N == Len(str)
           c == str[n + 1]
           F == q.headers_
<1>1. l \in Nat \ {0} /\ l <= MaxValue + 1 /\ MaxValue \in Nat /\ N \in Nat
  <2>1. MaxValue \in Nat
    BY BoundsAssumption, Zenon
  <2>2. N \in Nat
    BY LenProperties
  <2> QED
    BY <2>1, <2>2, Zenon DEF Readable
<1>2. /\ Z[y + 1] = h.key /\ Z[y + 2] = ":" /\ Z[y + 3] = " "
      /\ \A i \in 1..l : Z[y + 3 + i] = h.value[i] /\ h.value[i] # "CR"
      /\ Z[y + 4 + l] = "CR" /\ Z[y + 5 + l] = "LF"
  BY Zenon DEF LineLaid, Readable
<1>3. c = Z[n + 1] /\ n + 1 <= N
  <2>1. n + 1 <= N
    BY <1>1
  <2> QED
    BY <2>1, Zenon
<1> HIDE DEF c, N, l
<1>4. CASE n = y + 1 /\ p.h_state_ = "H_KEY" /\ p.key_start = y + 1
  <2>1. n + 1 = y + 2 /\ n + 1 > p.key_start
    BY <1>4
  <2>2. c = ":"
    BY <1>2, <1>3, <2>1, Zenon
  <2>3. /\ q.h_state_ = "H_COLON" /\ q.key_start = p.key_start
        /\ q.key_end = n + 1 /\ F = p.headers_
    BY <1>4, <2>1, <2>2, Zenon DEF Reads, c
  <2> QED
    BY <1>4, <2>1, <2>3, Zenon DEF LineOn, InLine, l
<1>5. CASE /\ n = y + 2 /\ p.h_state_ = "H_COLON"
           /\ p.key_start = y + 1 /\ p.key_end = y + 2
  <2>1. n + 1 = y + 3
    BY <1>5
  <2>2. c = " "
    BY <1>2, <1>3, <2>1, Zenon
  <2>3. /\ q.h_state_ = "H_SPACES_AFTER_COLON" /\ q.key_start = p.key_start
        /\ q.key_end = p.key_end /\ F = p.headers_
    BY <1>5, <2>2, Zenon DEF Reads, c
  <2> QED
    BY <1>5, <2>1, <2>3, Zenon DEF LineOn, InLine, l
<1>6. CASE /\ n = y + 3 /\ p.h_state_ = "H_SPACES_AFTER_COLON"
           /\ p.key_start = y + 1 /\ p.key_end = y + 2
  <2>1. n + 1 = y + 4 /\ n + 1 \in (y + 4)..(y + 3 + l)
    <3>1. n = y + 3
      BY <1>6, Zenon
    <3> QED
      BY <1>1, <3>1
  <2>2. /\ q.h_state_ = "H_VALUE" /\ q.key_start = p.key_start
        /\ q.key_end = p.key_end /\ F = p.headers_ /\ q.value_start = n + 1
    BY <1>6, Zenon DEF Reads
  <2> QED
    BY <1>6, <2>1, <2>2, Zenon DEF LineOn, InLine, l
<1>7. CASE /\ n \in (y + 4)..(y + 3 + l) /\ p.h_state_ = "H_VALUE"
           /\ p.key_start = y + 1 /\ p.key_end = y + 2 /\ p.value_start = y + 4
  <2>0. n \in (y + 4)..(y + 3 + l) /\ p.value_start = y + 4
    BY <1>7, Zenon
  <2>1. CASE n = y + 3 + l
    <3>1. n + 1 = y + 4 + l /\ n + 1 > p.value_start
      BY <1>1, <2>0, <2>1
    <3>2. c = "CR"
      BY <1>2, <1>3, <3>1, Zenon
    <3>3. /\ q.h_state_ = "H_CR" /\ q.key_start = p.key_start
          /\ q.key_end = p.key_end /\ F = p.headers_
          /\ q.value_start = p.value_start /\ q.value_end = n + 1
      BY <1>7, <3>1, <3>2, Zenon DEF Reads, c
    <3> QED
      BY <1>7, <3>1, <3>3, Zenon DEF LineOn, InLine, l
  <2>2. CASE n # y + 3 + l
    <3> DEFINE i == n - y - 2
    <3>1. /\ n + 1 \in (y + 4)..(y + 3 + l) /\ i \in 1..l /\ n + 1 = y + 3 + i
          /\ ~((n + 1) - p.value_start > MaxValue)
      BY <1>1, <2>0, <2>2
    <3> HIDE DEF i
    <3>2. c # "CR"
      BY <1>2, <1>3, <3>1, Zenon
    <3>3. q = p
      BY <1>7, <3>1, <3>2, Zenon DEF Reads, TooLong, c
    <3> QED
      BY <1>7, <3>1, <3>3, Zenon DEF LineOn, InLine, l
  <2> QED
    BY <2>1, <2>2
<1>8. CASE /\ n = y + 4 + l /\ p.h_state_ = "H_CR" /\ p.value_end = n
           /\ p.key_start = y + 1 /\ p.key_end = y + 2 /\ p.value_start = y + 4
  <2>0. n = y + 4 + l
    BY <1>8, Zenon
  <2>1. n + 1 = y + 5 + l /\ n + 1 <= N
    <3>1. n + 1 <= N
      BY <1>3, Zenon
    <3> QED
      BY <1>1, <2>0, <3>1
  <2>2. c = "LF"
    BY <1>2, <1>3, <2>1, Zenon
  <2>3. /\ q.h_state_ = "H_LF"
        /\ F = Assign(p.headers_, Slice(str, y + 1, y + 2), Slice(str, y + 4, n))
    BY <1>8, <2>2, Zenon DEF Reads, c
  <2>4. Slice(str, y + 1, y + 2) = <<h.key>>
    <3> DEFINE v == <<h.key>>
    <3>1. h.key \in Symbol
      BY Zenon DEF Readable
    <3>2. v \in Seq(Symbol) /\ Len(v) = 1 /\ v[1] = h.key
      BY <3>1
    <3>3. /\ y + 1 <= N /\ y + 1 \in 1..N /\ 1..1 = {1}
          /\ y + 1 + 1 = y + 2
      BY <1>1, <2>1
    <3>4. str[y + 1] = v[1]
      BY <1>2, <3>2, <3>3, Zenon DEF N
    <3> HIDE DEF v
    <3>5. /\ y + Len(v) <= Len(str) /\ \A i \in 1..Len(v) : str[y + i] = v[i]
          /\ y + 1 + Len(v) = y + 2
      BY <3>2, <3>3, <3>4, Zenon DEF N
    <3>6. Slice(str, y + 1, y + 1 + Len(v)) = v
      BY <3>2, <3>5, SliceIs, Zenon
    <3> QED
      BY <3>5, <3>6, Zenon DEF v
  <2>5. Slice(str, y + 4, n) = h.value
    <3>1. h.value \in Seq(Symbol)
      BY Zenon DEF Readable
    <3>2. /\ y + 3 \in Nat /\ y + 3 + l <= N /\ y + 3 + 1 = y + 4 /\ y + 4 + l = n
          /\ \A i \in 1..l : y + 3 + i \in 1..N
      BY <1>1, <2>0, <2>1
    <3>3. \A i \in 1..l : str[y + 3 + i] = h.value[i]
      BY <1>2, <3>2, Zenon DEF N
    <3>4. Slice(str, y + 3 + 1, y + 3 + 1 + l) = h.value
      BY <3>1, <3>2, <3>3, SliceIs, Zenon DEF N, l
    <3> QED
      BY <3>2, <3>4, Zenon
  <2> QED
    BY <2>1, <2>3, <2>4, <2>5, Zenon DEF LineOn, l
<1> QED
  BY <1>4, <1>5, <1>6, <1>7, <1>8, Zenon DEF InLine, l

\* The headers of a request that the server supports can be read.
LEMMA ReadableIs ==
  ASSUME NEW r, Plain(r), Fits(r), NEW j \in 1..Len(r.headers)
  PROVE  Readable(r.headers[j])
<1> DEFINE h == r.headers[j]
           v == h.value
<1>1. /\ j \in DOMAIN r.headers
      /\ h.key \in Symbol /\ v \in Seq(Symbol) /\ Len(v) \in Nat \ {0}
  BY RequestTypes, Zenon
<1>2. DOMAIN v = 1..Len(v)
  <2> HIDE DEF v
  <2> QED
    BY <1>1
<1>3. h.key \notin {"CR", "LF"} /\ \A k \in DOMAIN v : v[k] # "CR"
  BY <1>1, Zenon DEF Plain, RequestOK, Clear
<1>4. Len(v) <= MaxValue + 1
  BY <1>1, Zenon DEF Fits
<1> QED
  BY <1>1, <1>2, <1>3, <1>4, Zenon DEF Readable

\* Where the loop is, behind n symbols of the headers of r.
ReadTo(p, r, Y, n) ==
  LET m == Len(r.headers)
      h == p.h_state_
      F == p.headers_
  IN
  \/ n <= 1 /\ h = "H_START" /\ F = NoHeaders /\ p.now_read_line_begin = 1
  \/ \E j \in 1..m : /\ Holds(F, r, j - 1)
                     /\ InLine(p, Y[j - 1], Len(r.headers[j].value), n)
  \/ \E j \in 1..m : n = Y[j] /\ h = "H_LF" /\ Holds(F, r, j)
  \/ n = Y[m] + 1 /\ h = "H_END_CR" /\ Holds(F, r, m)
  \/ n = Y[m] + 2 /\ h = "H_END_LF" /\ Holds(F, r, m)

ReadOn(p, r, Y, n) == IsLocals(p) /\ p.finished = FALSE /\ ReadTo(p, r, Y, n)

\* str begins like Z, which holds the headers of r.
ReadsHeaders(str, Z, Y, r) ==
  /\ Plain(r) /\ r.headers # <<>> /\ Fits(r) /\ HeaderText(Z, Y, r)
  /\ str \in Seq(Symbol) /\ Len(str) <= Y[Len(r.headers)] + 2
  /\ \A i \in 1..Len(str) : str[i] = Z[i]

\* One turn.
LEMMA ReadTurn ==
  ASSUME NEW r, NEW Z, NEW Y, NEW str, ReadsHeaders(str, Z, Y, r),
         NEW n \in Nat, n + 1 \in 1..Len(str),
         NEW p, IsLocals(p), p.finished = FALSE, ReadTo(p, r, Y, n)
  PROVE  p.h_state_ # "error" /\ ReadOn(Advance(p, str, n + 1), r, Y, n + 1)
<1> DEFINE q == Advance(p, str, n + 1)
           m == Len(r.headers)
           N == Len(str)
           c == str[n + 1]
<1>1. /\ m \in Nat \ {0} /\ Y[0] = 1
      /\ \A j \in 0..m : Y[j] \in Nat /\ Y[j] <= Y[m]
      /\ N \in Nat /\ N <= Y[m] + 2
  <2>1. m \in Nat /\ r.headers \in Seq([key : STRING, value : Seq(STRING)])
    BY RequestTypes, Zenon DEF ReadsHeaders, Plain, RequestOK, Clear
  <2>2. m # 0
    BY <2>1, EmptySeq, Zenon DEF ReadsHeaders
  <2>3. N \in Nat
    BY LenProperties DEF ReadsHeaders
  <2>4. Y[0] = 1 /\ \A j \in 0..m : Y[j] \in Nat /\ Y[j] <= Y[m]
    BY Zenon DEF ReadsHeaders, HeaderText
  <2>5. N <= Y[m] + 2
    BY Zenon DEF ReadsHeaders
  <2>6. m \in Nat \ {0}
    BY <2>1, <2>2, Zenon
  <2> QED
    BY <2>3, <2>4, <2>5, <2>6, Zenon
<1>2. /\ Z[Y[m] + 1] = "CR" /\ Z[Y[m] + 2] = "LF" /\ Z[1] = "LF"
      /\ \A j \in 1..m : /\ Y[j] = Y[j - 1] + 5 + Len(r.headers[j].value)
                         /\ LineLaid(Z, Y[j - 1], r.headers[j])
                         /\ Readable(r.headers[j])
  BY ReadableIs, Zenon DEF ReadsHeaders, HeaderText
<1>3. c = Z[n + 1] /\ n + 1 <= N
  <2>1. c = Z[n + 1]
    BY Zenon DEF ReadsHeaders
  <2>2. n + 1 <= N
    BY <1>1
  <2> QED
    BY <2>1, <2>2
<1>4. \A j \in 1..m : Z[Y[j - 1] + 1] \notin {"CR", "LF"}
  BY <1>2, Zenon DEF LineLaid, Readable
<1>5. \A j \in 1..m : j \in 0..m /\ j - 1 \in 0..m /\ j - 1 \in Nat /\ (j - 1) + 1 = j
  BY <1>1
<1>6. /\ p.h_state_ \notin {"error", "H_END_LF"}
  <2>1. CASE n = Y[m] + 2
    <3>1. m \in 0..m
      BY <1>1
    <3>2. Y[m] \in Nat /\ n + 1 <= N /\ N <= Y[m] + 2
      BY <1>1, <1>3, <3>1, Zenon
    <3> QED
      BY <2>1, <3>2
  <2>2. CASE n # Y[m] + 2
    BY <2>2, Zenon DEF ReadTo, InLine
  <2> QED
    BY <2>1, <2>2
<1>7. n + 1 \in Nat \ {0}
  OBVIOUS
<1>8. IsLocals(q) /\ q.finished = FALSE /\ Reads(p, q, str, n + 1)
  BY <1>6, <1>7, AdvanceReads, Zenon
<1> HIDE DEF q, m, c, N
<1>20. SUFFICES ReadTo(q, r, Y, n + 1)
  BY <1>6, <1>8, Zenon DEF q, ReadOn
<1>21. ASSUME NEW j \in 1..m, n = Y[j - 1], q.h_state_ = "H_KEY", q.key_start = n + 1,
              Holds(q.headers_, r, j - 1)
       PROVE  ReadTo(q, r, Y, n + 1)
  <2>1. InLine(q, Y[j - 1], Len(r.headers[j].value), n + 1)
    BY <1>21, Zenon DEF InLine
  <2> QED
    BY <1>21, <2>1, Zenon DEF ReadTo, m
<1>9. CASE /\ n <= 1 /\ p.h_state_ = "H_START" /\ p.headers_ = NoHeaders
           /\ p.now_read_line_begin = 1
  <2>1. CASE n = 0
    <3>1. n + 1 = 1
      BY <2>1
    <3>2. c = "LF"
      BY <1>2, <1>3, <3>1, Zenon
    <3>3. q = p
      BY <1>8, <1>9, <3>2, Zenon DEF Reads, c
    <3>4. n + 1 <= 1
      BY <3>1
    <3> QED
      BY <1>9, <3>3, <3>4, Zenon DEF ReadTo
  <2>2. CASE n # 0
    <3>0. n <= 1
      BY <1>9, Zenon
    <3>1. n = 1 /\ 1 \in 1..m /\ 1 - 1 = 0
      BY <1>1, <2>2, <3>0
    <3>2. n = Y[1 - 1]
      BY <1>1, <3>1, Zenon
    <3>3. c \notin {"CR", "LF"}
      BY <1>3, <1>4, <3>1, <3>2, Zenon
    <3>4. q.h_state_ = "H_KEY" /\ q.key_start = n + 1 /\ q.headers_ = p.headers_
      BY <1>8, <1>9, <3>3, Zenon DEF Reads, c
    <3>5. Holds(q.headers_, r, 1 - 1)
      BY <1>9, <3>1, <3>4, HoldsNone, Zenon
    <3> QED
      BY <1>21, <3>1, <3>2, <3>4, <3>5, Zenon
  <2> QED
    BY <2>1, <2>2
<1>10. ASSUME NEW j \in 1..m, Holds(p.headers_, r, j - 1),
              InLine(p, Y[j - 1], Len(r.headers[j].value), n)
       PROVE  ReadTo(q, r, Y, n + 1)
  <2> DEFINE h == r.headers[j]
             y == Y[j - 1]
  <2>1. y \in Nat /\ Readable(h) /\ LineLaid(Z, y, h)
    BY <1>1, <1>2, <1>5, Zenon
  <2>2. LineOn(p, q, y, h, n + 1)
    <3>1. str \in Seq(Symbol) /\ \A i \in 1..Len(str) : str[i] = Z[i]
      BY Zenon DEF ReadsHeaders
    <3> HIDE DEF h, y
    <3>2. InLine(p, y, Len(h.value), n)
      BY <1>10, Zenon DEF h, y
    <3> QED
      BY <1>8, <2>1, <3>1, <3>2, LineReads, Zenon
  <2>3. CASE InLine(q, y, Len(h.value), n + 1) /\ q.headers_ = p.headers_
    BY <1>10, <2>3, Zenon DEF ReadTo, m
  <2>4. CASE /\ n + 1 = y + 5 + Len(h.value) /\ q.h_state_ = "H_LF"
             /\ q.headers_ = Assign(p.headers_, <<h.key>>, h.value)
    <3>1. n + 1 = Y[j]
      BY <1>2, <2>4, Zenon
    <3>2. /\ Holds(p.headers_, r, j - 1) /\ j - 1 \in Nat
          /\ <<h.key>> = <<r.headers[(j - 1) + 1].key>>
          /\ h.value = r.headers[(j - 1) + 1].value
      BY <1>5, <1>10, Zenon
    <3>3. Holds(q.headers_, r, (j - 1) + 1)
      BY <2>4, <3>2, HoldsMore, Zenon
    <3>4. Holds(q.headers_, r, j)
      BY <1>5, <3>3, Zenon
    <3> QED
      BY <2>4, <3>1, <3>4, Zenon DEF ReadTo, m
  <2> QED
    BY <2>2, <2>3, <2>4, Zenon DEF LineOn
<1>11. ASSUME NEW j \in 1..m, n = Y[j], p.h_state_ = "H_LF", Holds(p.headers_, r, j)
       PROVE  ReadTo(q, r, Y, n + 1)
  <2>1. CASE j = m
    <3>1. n + 1 = Y[m] + 1
      BY <1>11, <2>1
    <3>2. c = "CR"
      BY <1>2, <1>3, <3>1, Zenon
    <3>3. q.h_state_ = "H_END_CR" /\ q.headers_ = p.headers_
      BY <1>8, <1>11, <3>2, Zenon DEF Reads, c
    <3> QED
      BY <1>11, <2>1, <3>1, <3>3, Zenon DEF ReadTo, m
  <2>2. CASE j # m
    <3> DEFINE k == j + 1
    <3>1. k \in 1..m /\ k - 1 = j
      BY <1>1, <2>2
    <3> HIDE DEF k
    <3>2. n = Y[k - 1] /\ Holds(p.headers_, r, k - 1)
      BY <1>11, <3>1, Zenon
    <3>3. c \notin {"CR", "LF"}
      BY <1>3, <1>4, <3>1, <3>2, Zenon
    <3>4. q.h_state_ = "H_KEY" /\ q.key_start = n + 1 /\ q.headers_ = p.headers_
      BY <1>8, <1>11, <3>3, Zenon DEF Reads, c
    <3> QED
      BY <1>21, <3>1, <3>2, <3>4, Zenon
  <2> QED
    BY <2>1, <2>2
<1>12. CASE n = Y[m] + 1 /\ p.h_state_ = "H_END_CR" /\ Holds(p.headers_, r, m)
  <2>1. n + 1 = Y[m] + 2
    <3>1. m \in 0..m /\ n = Y[m] + 1
      BY <1>1, <1>12
    <3>2. Y[m] \in Nat
      BY <1>1, <3>1, Zenon
    <3> QED
      BY <3>1, <3>2
  <2>2. c = "LF"
    BY <1>2, <1>3, <2>1, Zenon
  <2>3. q.h_state_ = "H_END_LF" /\ q.headers_ = p.headers_
    BY <1>8, <1>12, <2>2, Zenon DEF Reads, c
  <2> QED
    BY <1>12, <2>1, <2>3, Zenon DEF ReadTo, m
<1> QED
  BY <1>6, <1>9, <1>10, <1>11, <1>12, Zenon DEF ReadTo, m

\* Where the loop is at the end of the buffer.
LEMMA ScanReads ==
  ASSUME NEW r, NEW Z, NEW Y, NEW str, ReadsHeaders(str, Z, Y, r),
         NEW h, h.in_buffer_ = str, h.h_state_ = "H_START", h.headers_ = NoHeaders
  PROVE  /\ Scan(h).i = Len(str)
         /\ ReadTo(Scan(h).p, r, Y, Len(str))
<1> DEFINE N == Len(str)
<1>0. N \in Nat
  BY LenProperties DEF ReadsHeaders
<1>1. PICK f : /\ f[0] = [p |-> Locals(h), i |-> 0]
               /\ \A n \in 1..N : f[n] = Turn(str, f[n - 1], n)
               /\ Scan(h) = f[N]
  BY <1>0, ScanIs, Zenon
<1> HIDE DEF N
<1> DEFINE At(s, n) == /\ IsLocals(s.p) /\ s.p.finished = FALSE /\ s.i = n
                       /\ ReadTo(s.p, r, Y, n)
           G == {n \in Nat : n <= N => At(f[n], n)}
<1>2. 0 \in G
  <2>1. f[0].p = Locals(h) /\ f[0].i = 0
    BY <1>1
  <2>2. /\ Locals(h).finished = FALSE /\ Locals(h).h_state_ = h.h_state_
        /\ Locals(h).headers_ = h.headers_ /\ Locals(h).now_read_line_begin = 1
    BY DEF Locals
  <2>3. IsLocals(Locals(h))
    <3>1. h.h_state_ \in ParseState
      BY DEF ParseState
    <3> QED
      BY <3>1 DEF IsLocals, Locals, Unset
  <2>4. ReadTo(Locals(h), r, Y, 0)
    <3>1. 0 <= 1
      OBVIOUS
    <3> QED
      BY <2>2, <3>1, Zenon DEF ReadTo
  <2>5. At(f[0], 0)
    BY <2>1, <2>2, <2>3, <2>4, Zenon
  <2> HIDE DEF At
  <2> QED
    BY <2>5
<1>3. ASSUME NEW n \in G PROVE n + 1 \in G
  <2>1. n \in Nat /\ (n <= N => At(f[n], n))
    BY Zenon
  <2>2. SUFFICES ASSUME n + 1 <= N PROVE At(f[n + 1], n + 1)
    <3> HIDE DEF At
    <3> QED
      BY <2>1
  <2> HIDE DEF G
  <2>3. n + 1 \in 1..N /\ (n + 1) - 1 = n /\ n <= N
    <3>1. n \in Nat
      BY <2>1, Zenon
    <3> QED
      BY <1>0, <2>2, <3>1
  <2>4. At(f[n], n)
    BY <2>1, <2>3, Zenon
  <2> DEFINE p == f[n].p
             q == Advance(p, str, n + 1)
  <2>5. p.h_state_ # "error" /\ ReadOn(q, r, Y, n + 1)
    <3>1. n \in Nat /\ n + 1 \in 1..Len(str)
      BY <2>1, <2>3, Zenon DEF N
    <3>2. IsLocals(p) /\ p.finished = FALSE /\ ReadTo(p, r, Y, n)
      BY <2>4, Zenon
    <3> HIDE DEF p, q
    <3> QED
      BY <3>1, <3>2, ReadTurn, Zenon DEF q
  <2>6. f[n + 1] = [p |-> q, i |-> n + 1]
    <3>1. f[n + 1] = Turn(str, f[(n + 1) - 1], n + 1)
      BY <1>1, <2>3, Zenon
    <3>2. f[n + 1] = Turn(str, f[n], n + 1)
      BY <2>3, <3>1, Zenon
    <3> QED
      BY <2>4, <2>5, <3>2, Zenon DEF Turn
  <2> HIDE DEF q
  <2>7. f[n + 1].p = q /\ f[n + 1].i = n + 1
    BY <2>6
  <2> QED
    BY <2>5, <2>7, Zenon DEF ReadOn
<1> HIDE DEF G
<1>4. \A n \in Nat : n \in G
  BY <1>2, <1>3, Induction DEF G
<1>5. N <= N
  BY <1>0
<1>6. At(f[N], N)
  BY <1>0, <1>4, <1>5, Zenon DEF G
<1> QED
  BY <1>1, <1>6, Zenon DEF N

\* At the ends of the text there is no doubt where the loop is.
LEMMA ReadToEnds ==
  ASSUME NEW r, Plain(r), NEW Z, NEW Y, HeaderText(Z, Y, r),
         NEW n \in Nat, NEW p, ReadTo(p, r, Y, n)
  PROVE  /\ n <= 1 => /\ p.h_state_ = "H_START" /\ p.headers_ = NoHeaders
                      /\ p.now_read_line_begin = 1
         /\ n = Y[Len(r.headers)] + 2 =>
              p.h_state_ = "H_END_LF" /\ Holds(p.headers_, r, Len(r.headers))
<1> DEFINE m == Len(r.headers)
           l == [j \in 1..m |-> Len(r.headers[j].value)]
<1>1. /\ m \in Nat /\ \A j \in 0..m : Y[j] \in Nat /\ 1 <= Y[j] /\ Y[j] <= Y[m]
      /\ \A j \in 1..m : Y[j] = Y[j - 1] + 5 + Len(r.headers[j].value)
  BY Zenon DEF HeaderText
<1>2. \A j \in 1..m : l[j] = Len(r.headers[j].value) /\ l[j] \in Nat
  BY RequestTypes, Zenon
<1> HIDE DEF m, l
<1>3. \A j \in 1..m : j \in 0..m /\ j - 1 \in 0..m /\ Y[j] = Y[j - 1] + 5 + l[j]
  <2>1. \A j \in 1..m : j \in 0..m /\ j - 1 \in 0..m
    BY <1>1
  <2> QED
    BY <1>1, <1>2, <2>1, Zenon
<1>4. m \in 0..m /\ Y[m] \in Nat /\ 1 <= Y[m]
  BY <1>1
<1>5. CASE n <= 1 /\ p.h_state_ = "H_START" /\ p.headers_ = NoHeaders
           /\ p.now_read_line_begin = 1
  <2>1. n <= 1
    BY <1>5, Zenon
  <2>2. n # Y[m] + 2
    BY <1>4, <2>1
  <2> QED
    BY <1>5, <2>2, Zenon DEF m
<1>6. ASSUME NEW j \in 1..m, InLine(p, Y[j - 1], Len(r.headers[j].value), n)
      PROVE  ~(n <= 1) /\ n # Y[m] + 2
  <2> DEFINE y == Y[j - 1]
             k == l[j]
  <2>1. /\ y \in Nat /\ 1 <= y /\ k \in Nat /\ Y[j] = y + 5 + k
        /\ Y[j] \in Nat /\ Y[j] <= Y[m]
    BY <1>1, <1>2, <1>3, Zenon
  <2>2. InLine(p, y, k, n)
    BY <1>2, <1>6, Zenon
  <2> HIDE DEF y, k
  <2>3. \/ n = y + 1 \/ n = y + 2 \/ n = y + 3 \/ n \in (y + 4)..(y + 3 + k)
        \/ n = y + 4 + k
    BY <2>2, Zenon DEF InLine
  <2> QED
    BY <1>4, <2>1, <2>3
<1>7. ASSUME NEW j \in 1..m, n = Y[j]
      PROVE  ~(n <= 1) /\ n # Y[m] + 2
  <2> DEFINE y == Y[j - 1]
             k == l[j]
  <2>1. /\ y \in Nat /\ 1 <= y /\ k \in Nat /\ n = y + 5 + k
        /\ n <= Y[m]
    BY <1>1, <1>2, <1>3, <1>7, Zenon
  <2> HIDE DEF y, k
  <2> QED
    BY <1>4, <2>1
<1>8. CASE n = Y[m] + 1
  <2>1. ~(n <= 1) /\ n # Y[m] + 2
    BY <1>4, <1>8
  <2> QED
    BY <2>1, Zenon DEF m
<1>9. CASE n = Y[m] + 2 /\ p.h_state_ = "H_END_LF" /\ Holds(p.headers_, r, m)
  <2>1. n = Y[m] + 2
    BY <1>9, Zenon
  <2>2. ~(n <= 1)
    BY <1>4, <2>1
  <2> QED
    BY <1>9, <2>2, Zenon DEF m
<1> QED
  BY <1>5, <1>6, <1>7, <1>8, <1>9, Zenon DEF ReadTo, m

\* ParseHeaders, when it finds no more than the LF of the request line.
LEMMA HeadersAwaited ==
  ASSUME NEW r, NEW Z, NEW Y, NEW h, HttpTyped(h),
         ReadsHeaders(h.in_buffer_, Z, Y, r),
         h.h_state_ = "H_START", h.headers_ = NoHeaders, Len(h.in_buffer_) <= 1
  PROVE  ParseHeaders(h) = Waiting(h, NoHeaders, "H_START", 0)
<1> DEFINE str == h.in_buffer_
           N == Len(str)
           p == Scan(h).p
<1>1. ReadTo(p, r, Y, N)
  BY ScanReads, Zenon
<1>2. N \in Nat /\ Plain(r) /\ HeaderText(Z, Y, r)
  BY LenProperties DEF ReadsHeaders
<1>3. /\ p.h_state_ = "H_START" /\ p.headers_ = NoHeaders
      /\ p.now_read_line_begin = 1
  BY <1>1, <1>2, ReadToEnds, Zenon
<1>4. p.h_state_ \notin {"error", "H_END_LF"}
  BY <1>3
<1>5. ParseHeaders(h) = Waiting(h, p.headers_, p.h_state_, p.now_read_line_begin - 1)
  BY <1>4, ParseHeadersIs, Zenon
<1>6. 1 - 1 = 0
  OBVIOUS
<1> QED
  BY <1>3, <1>5, <1>6, Zenon

\* ParseHeaders, when it finds all headers: it ends with them.
LEMMA HeadersUnderstood ==
  ASSUME NEW r, NEW Z, NEW Y, NEW h, HttpTyped(h),
         ReadsHeaders(h.in_buffer_, Z, Y, r),
         h.h_state_ = "H_START", h.headers_ = NoHeaders,
         Len(h.in_buffer_) = Y[Len(r.headers)] + 2
  PROVE  ParseHeaders(h) = Ended(h, Fields(r), Len(h.in_buffer_))
<1> DEFINE str == h.in_buffer_
           N == Len(str)
           p == Scan(h).p
<1>1. ReadTo(p, r, Y, N) /\ Scan(h).i = N
  BY ScanReads, Zenon
<1>2. N \in Nat /\ Plain(r) /\ HeaderText(Z, Y, r)
  BY LenProperties DEF ReadsHeaders
<1>3. p.h_state_ = "H_END_LF" /\ Holds(p.headers_, r, Len(r.headers))
  BY <1>1, <1>2, ReadToEnds, Zenon
<1>4. p.headers_ = Fields(r)
  BY <1>2, <1>3, HoldsAll, Zenon
<1> QED
  BY <1>1, <1>3, <1>4, ParseHeadersIs, Zenon

-----------------------------------------------------------------------------
\* A client that waits for its answers and whose requests come in one piece.

\* A client as in WholeIsUnderstood.
Fair ==
  /\ clean /\ ~piped
  /\ \A i \in DOMAIN sent : Clear(sent[i]) /\ Supported(sent[i]) /\ Fits(sent[i])

\* Such a client is answered before it asks again, so the parser is before or
\* behind the request line of its last request, or behind its last request.
BehindAll(h, rest) ==
  h.state_ = "STATE_PARSE_URI" /\ h.in_buffer_ = <<>> /\ rest = <<>>
BeforeLast(h, rest, r) ==
  h.state_ = "STATE_PARSE_URI" /\ h.in_buffer_ = <<>> /\ rest = Render(r)
InLast(h, rest, r) ==
  /\ h.state_ = "STATE_PARSE_HEADERS" /\ h.h_state_ = "H_START"
  /\ h.headers_ = NoHeaders /\ h.method_ = r.method /\ h.file_name_ = Named(r)
  /\ Len(h.in_buffer_) <= 1
  /\ Dropped(Render(r), 8 + Len(r.path), h.in_buffer_, rest)
WholeAt(h, rest, ss, k) ==
  \/ h.error_ # "no"
  \/ k = Len(ss) /\ BehindAll(h, rest)
  \/ k + 1 = Len(ss) /\ (BeforeLast(h, rest, ss[k + 1]) \/ InLast(h, rest, ss[k + 1]))

WholeInv ==
  Fair =>
    /\ http.error_ # "400" /\ ~again
    /\ \A i \in 1..Len(served) : served[i] = Meaning(sent[i])
    /\ WholeAt(http, wire, sent, Len(served))

\* What a pass makes of the headers of r: it waits for all of them, understands
\* them, or does not find the file.
Understood(h, h1, r) ==
  \/ h.error_ \notin {"no", "400"}
  \/ /\ Len(h1.in_buffer_) <= 1
     /\ h.error_ = "no" /\ h.state_ = "STATE_PARSE_HEADERS" /\ h.h_state_ = "H_START"
     /\ h.headers_ = NoHeaders /\ h.method_ = r.method /\ h.file_name_ = Named(r)
     /\ h.in_buffer_ = h1.in_buffer_
  \/ /\ 8 + Len(r.path) + Len(h1.in_buffer_) = Len(Render(r))
     /\ h.error_ = "no" /\ h.state_ = "STATE_FINISH" /\ h.in_buffer_ = <<>>
     /\ h.headers_ = Fields(r) /\ h.method_ = r.method /\ h.file_name_ = Named(r)

\* A pass that begins in the headers.
LEMMA PassUnderstands ==
  ASSUME NEW r, Plain(r), Supported(r), Fits(r),
         NEW h1, HttpTyped(h1), h1.error_ = "no", h1.state_ = "STATE_PARSE_HEADERS",
         h1.h_state_ = "H_START", h1.headers_ = NoHeaders,
         h1.method_ = r.method, h1.file_name_ = Named(r),
         Follows(h1.in_buffer_, Render(r), 8 + Len(r.path)),
         \/ Len(h1.in_buffer_) <= 1
         \/ 8 + Len(r.path) + Len(h1.in_buffer_) = Len(Render(r)),
         NEW h \in Outcomes(h1)
  PROVE  Understood(h, h1, r)
<1> DEFINE q == ParseHeaders(h1)
           str == h1.in_buffer_
           N == Len(str)
           R == Render(r)
           P == Len(r.path)
           m == Len(r.headers)
           Y == EndBehind(r)
           Z == Behind(R, 8 + P)
<1>1. Uri(h1) = h1 /\ Headers(h1) = q
  BY Zenon DEF Uri, Headers, Stage
<1>2. h \in IF Body(q).state_ = "STATE_ANALYSIS" /\ Body(q).error_ = "no"
            THEN AnalysisRequest(Body(q)) ELSE {Body(q)}
  <2> HIDE DEF q
  <2> QED
    BY <1>1, OutcomesAre, Zenon
<1>3. str \in Seq(Symbol) /\ N \in Nat /\ P \in Nat /\ m \in Nat
  <2>1. str \in Seq(Symbol)
    BY DEF HttpTyped
  <2>2. N \in Nat
    BY <2>1, LenProperties
  <2>3. P \in Nat /\ m \in Nat
    BY RequestTypes, Zenon
  <2> QED
    BY <2>1, <2>2, <2>3
<1>4. r.method # "POST" /\ r.body = <<>> /\ r.headers # <<>>
  <2>1. r.method \in {"GET", "HEAD"} /\ r.headers # <<>>
    BY Zenon DEF Supported
  <2>2. r.method # "POST"
    BY <2>1
  <2> QED
    BY <2>1, <2>2, Zenon DEF Plain, Clear
<1>5. HeaderText(Z, Y, r) /\ Len(R) = 8 + P + (Y[m] + 2)
  BY <1>4, HeaderTextIs, Zenon
<1>6. Y[m] \in Nat /\ 1 <= Y[m]
  <2>1. m \in 0..m
    BY <1>3
  <2> QED
    BY <1>5, <2>1, Zenon DEF HeaderText
<1>7. \A i \in 1..N : str[i] = Z[i]
  <2>1. \A i \in 1..N : i \in Int
    BY <1>3
  <2> QED
    BY <2>1, Zenon DEF Follows, Behind
<1> HIDE DEF q, Z, Y, R, N, P, m
<1>8. \/ N <= 1
      \/ N = Y[m] + 2 /\ ~(N <= 1) /\ 8 + P + N = Len(R)
  <2>1. N <= 1 \/ 8 + P + N = Len(R)
    BY Zenon DEF N, R, P
  <2>2. CASE N <= 1
    BY <2>2
  <2>3. CASE 8 + P + N = Len(R)
    <3>1. 8 + P + N = 8 + P + (Y[m] + 2)
      BY <1>5, <2>3, Zenon
    <3>2. N = Y[m] + 2 /\ ~(N <= 1)
      BY <1>3, <1>6, <3>1
    <3> QED
      BY <2>3, <3>2
  <2> QED
    BY <2>1, <2>2, <2>3
<1>9. ReadsHeaders(str, Z, Y, r)
  <2>1. N <= Y[m] + 2
    BY <1>3, <1>6, <1>8
  <2> QED
    BY <1>3, <1>4, <1>5, <1>7, <2>1, Zenon DEF ReadsHeaders, N, m
<1>10. ~(q.state_ = "STATE_RECV_BODY" /\ q.error_ = "no") =>
        h \in IF q.state_ = "STATE_ANALYSIS" /\ q.error_ = "no"
              THEN AnalysisRequest(q) ELSE {q}
  BY <1>2, Zenon DEF Body, Stage
<1>11. CASE N <= 1
  <2>1. q = Waiting(h1, NoHeaders, "H_START", 0)
    BY <1>9, <1>11, HeadersAwaited, Zenon DEF q, N
  <2>2. "H_START" \in ParseState /\ 0 \in 0..Len(str)
    BY <1>3 DEF ParseState, N
  <2>3. IsWaiting(h1, q, NoHeaders, "H_START", 0)
    BY <2>1, <2>2, WaitingIs, Zenon
  <2>4. /\ q.state_ = "STATE_PARSE_HEADERS" /\ q.error_ = "no"
        /\ q.h_state_ = "H_START" /\ q.headers_ = NoHeaders
        /\ q.method_ = r.method /\ q.file_name_ = Named(r)
        /\ q.in_buffer_ = Rest(str, 0)
    BY <2>3, Zenon DEF IsWaiting
  <2>5. Rest(str, 0) = str
    <3>1. 0 + 1 = 1
      OBVIOUS
    <3>2. SubSeq(str, 1, Len(str)) = str
      BY <1>3, SubSeqFull, Zenon
    <3> QED
      BY <3>1, <3>2, Zenon DEF Rest
  <2>6. h = q
    <3>1. q.state_ # "STATE_RECV_BODY" /\ q.state_ # "STATE_ANALYSIS"
      BY <2>4
    <3> QED
      BY <1>10, <3>1, Zenon
  <2> QED
    BY <1>11, <2>4, <2>5, <2>6, Zenon DEF Understood, N
<1>12. CASE N = Y[m] + 2 /\ ~(N <= 1) /\ 8 + P + N = Len(R)
  <2>1. q = Ended(h1, Fields(r), N)
    BY <1>9, <1>12, HeadersUnderstood, Zenon DEF q, N, m
  <2>2. N \in 0..Len(str)
    BY <1>3 DEF N
  <2>3. HasEnded(h1, q, Fields(r), N)
    BY <2>1, <2>2, EndedIs, Zenon
  <2>4. /\ HttpTyped(q) /\ q.state_ = "STATE_ANALYSIS" /\ q.error_ = "no"
        /\ q.headers_ = Fields(r)
        /\ q.method_ = r.method /\ q.file_name_ = Named(r)
        /\ q.in_buffer_ = Rest(str, N)
    BY <1>4, <2>3, Zenon DEF HasEnded
  <2>5. Rest(str, N) = <<>>
    <3>1. /\ Rest(str, N) \in Seq(Symbol)
          /\ Len(Rest(str, N)) = Len(str) - N
      BY <1>3, <2>2, RestIs, Zenon
    <3>2. Len(str) - N = 0
      BY <1>3 DEF N
    <3>3. Len(Rest(str, N)) = 0
      BY <3>1, <3>2, Zenon
    <3> QED
      BY <3>1, <3>3, EmptySeq, Zenon
  <2>6. h \in AnalysisRequest(q)
    <3>1. q.state_ # "STATE_RECV_BODY"
      BY <2>4
    <3> QED
      BY <1>10, <2>4, <3>1, Zenon
  <2>7. /\ h.method_ = q.method_ /\ h.file_name_ = q.file_name_
        /\ h.headers_ = q.headers_ /\ h.in_buffer_ = q.in_buffer_
        /\ \/ h.error_ \in {"404", "unanswered"}
           \/ h.error_ = "no" /\ h.state_ = "STATE_FINISH"
    BY <2>4, <2>6, AnalysisIs, Zenon
  <2>8. CASE h.error_ \in {"404", "unanswered"}
    <3>1. h.error_ \notin {"no", "400"}
      BY <2>8
    <3> QED
      BY <3>1, Zenon DEF Understood
  <2>9. CASE h.error_ = "no" /\ h.state_ = "STATE_FINISH"
    BY <1>12, <2>4, <2>5, <2>7, <2>9, Zenon DEF Understood, N, P, R
  <2> QED
    BY <2>7, <2>8, <2>9
<1> QED
  BY <1>8, <1>11, <1>12

\* The same of a pass that first reads the request line, which leaves u.
UnderstoodLine(h, h1, r) ==
  \E u : /\ Understood(h, u, r)
         /\ 8 + Len(r.path) + Len(u.in_buffer_) = Len(h1.in_buffer_)
         /\ Follows(u.in_buffer_, Render(r), 8 + Len(r.path))
         /\ u.in_buffer_ \in Seq(Symbol)

\* A pass that begins with the request line, and reads it all.
LEMMA PassUnderstandsLine ==
  ASSUME NEW r, Plain(r), Supported(r), Fits(r),
         NEW h1, HttpTyped(h1), h1.error_ = "no", h1.state_ = "STATE_PARSE_URI",
         h1.h_state_ = "H_START", h1.headers_ = NoHeaders,
         Follows(h1.in_buffer_, Render(r), 0),
         8 + Len(r.path) <= Len(h1.in_buffer_),
         \/ Len(h1.in_buffer_) <= 9 + Len(r.path)
         \/ Len(h1.in_buffer_) = Len(Render(r)),
         NEW h \in Outcomes(h1)
  PROVE  UnderstoodLine(h, h1, r)
<1> DEFINE str == h1.in_buffer_
           N == Len(str)
           R == Render(r)
           P == Len(r.path)
           u == ParseURI(h1)
           rest == Rest(str, 8 + P)
<1>1. str \in Seq(Symbol) /\ N \in Nat /\ P \in Nat
  <2>1. str \in Seq(Symbol)
    BY DEF HttpTyped
  <2>2. N \in Nat
    BY <2>1, LenProperties
  <2>3. P \in Nat
    BY RequestTypes, Zenon
  <2> QED
    BY <2>1, <2>2, <2>3
<1>2. 8 + P <= N /\ (N <= 9 + P \/ N = Len(R))
  BY Zenon
<1>3. Stands(R, 0, r)
  <2>1. \A p \in 1..Len(R) : 0 + p = p
    OBVIOUS
  <2>2. Spells(R, 0, R)
    <3> HIDE DEF R
    <3> QED
      BY <2>1, Zenon DEF Spells
  <2> QED
    BY <2>2, StandsIs, Zenon
<1>4. URIRead(h1, u, str, 0, r)
  <2>1. 0 = 0 + 0 /\ 0 \in {0, 1} /\ 0 \in Nat /\ ~(0 = 1)
    OBVIOUS
  <2> HIDE DEF u
  <2> QED
    BY <1>1, <1>3, <2>1, URIWithin, Zenon DEF u
<1> HIDE DEF u, R, P, N
<1>5. /\ 0 + 7 + P <= N /\ 0 + 7 + P # N /\ 0 + 9 + P = (8 + P) + 1
      /\ 8 + P \in 0..N
  BY <1>1, <1>2
<1>6. u = [h1 EXCEPT !.in_buffer_ = rest, !.method_ = r.method,
                     !.file_name_ = Named(r), !.state_ = "STATE_PARSE_HEADERS"]
  BY <1>4, <1>5, Zenon DEF URIRead, Rest, P, N
<1>7. /\ rest \in Seq(Symbol) /\ Len(rest) = N - (8 + P)
      /\ Follows(rest, R, 0 + (8 + P))
  <2>1. 8 + P \in 0..Len(str)
    BY <1>5, Zenon DEF N
  <2>2. 0 \in Nat /\ Follows(str, R, 0)
    BY Zenon DEF R
  <2> QED
    BY <1>1, <2>1, <2>2, RestIs, Zenon DEF N
<1>8. Follows(rest, R, 8 + P)
  <2>1. 0 + (8 + P) = 8 + P
    BY <1>1
  <2> QED
    BY <1>7, <2>1, Zenon
<1> HIDE DEF rest
<1>9. /\ u.in_buffer_ = rest /\ u.method_ = r.method /\ u.file_name_ = Named(r)
      /\ u.state_ = "STATE_PARSE_HEADERS" /\ u.error_ = "no"
      /\ u.h_state_ = "H_START" /\ u.headers_ = NoHeaders
  <2>1. h1 \in [state_ : States, h_state_ : ParseState, in_buffer_ : Seq(Symbol),
                method_ : Methods, file_name_ : {h1.file_name_},
                headers_ : {h1.headers_}, keep_alive_ : BOOLEAN, error_ : Errors]
    BY Zenon DEF HttpTyped
  <2> DEFINE f == Named(r)
             none == NoHeaders
  <2>2. u = [h1 EXCEPT !.in_buffer_ = rest, !.method_ = r.method,
                       !.file_name_ = f, !.state_ = "STATE_PARSE_HEADERS"]
    BY <1>6
  <2>3. h1.headers_ = none
    OBVIOUS
  <2> HIDE DEF f, none
  <2>4. /\ u.in_buffer_ = rest /\ u.method_ = r.method /\ u.file_name_ = f
        /\ u.state_ = "STATE_PARSE_HEADERS" /\ u.error_ = h1.error_
        /\ u.h_state_ = h1.h_state_ /\ u.headers_ = h1.headers_
    BY <2>1, <2>2
  <2> QED
    BY <2>3, <2>4 DEF f, none
<1>10. HttpTyped(u)
  BY ParseURITyped, Zenon DEF u
<1>11. h \in Outcomes(u)
  <2>1. ParseURI(h1).state_ = "STATE_PARSE_HEADERS"
    BY <1>9, Zenon DEF u
  <2> QED
    BY <2>1, OutcomesOn, Zenon DEF u
<1>12. 8 + P + Len(rest) = N
  BY <1>1, <1>5, <1>7
<1>13. Len(rest) <= 1 \/ 8 + P + Len(rest) = Len(R)
  <2>1. CASE N <= 9 + P
    <3>1. Len(rest) <= 1
      BY <1>1, <1>5, <1>7, <2>1
    <3> QED
      BY <3>1
  <2>2. CASE N = Len(R)
    BY <1>12, <2>2
  <2> QED
    BY <1>2, <2>1, <2>2
<1>14. Understood(h, u, r)
  BY <1>8, <1>9, <1>10, <1>11, <1>13, PassUnderstands, Zenon DEF R, P
<1> QED
  BY <1>7, <1>8, <1>9, <1>12, <1>14, Zenon DEF UnderstoodLine, R, P, N


\* What a pass makes of r: it does not find the file, it waits for the headers,
\* or r is served and all of it is read.
Decided(h, rest, r) ==
  \/ h.error_ \notin {"no", "400"}
  \/ h.error_ = "no" /\ InLast(h, rest, r)
  \/ /\ h.error_ = "no" /\ h.state_ = "STATE_FINISH"
     /\ h.in_buffer_ = <<>> /\ rest = <<>>
     /\ h.headers_ = Fields(r) /\ h.method_ = r.method /\ h.file_name_ = Named(r)

\* What is left on the wire when a pass has understood r.
LEMMA UnderstoodDecides ==
  ASSUME NEW r, Plain(r), NEW h, NEW u, Understood(h, u, r),
         u.in_buffer_ \in Seq(Symbol), NEW rest \in Seq(Symbol),
         Dropped(Render(r), 8 + Len(r.path), u.in_buffer_, rest)
  PROVE  Decided(h, rest, r)
<1> DEFINE P == Len(r.path)
           L == Len(Render(r))
           N == Len(u.in_buffer_)
           M == Len(rest)
<1>1. P \in Nat
  BY RequestTypes, Zenon
<1>2. N \in Nat /\ M \in Nat
  OBVIOUS
<1>3. 8 + P + N + M = L
  BY Zenon DEF Dropped
<1>4. \/ h.error_ \notin {"no", "400"}
      \/ /\ N <= 1
         /\ h.error_ = "no" /\ h.state_ = "STATE_PARSE_HEADERS" /\ h.h_state_ = "H_START"
         /\ h.headers_ = NoHeaders /\ h.method_ = r.method /\ h.file_name_ = Named(r)
         /\ h.in_buffer_ = u.in_buffer_
      \/ /\ 8 + P + N = L
         /\ h.error_ = "no" /\ h.state_ = "STATE_FINISH" /\ h.in_buffer_ = <<>>
         /\ h.headers_ = Fields(r) /\ h.method_ = r.method /\ h.file_name_ = Named(r)
  BY Zenon DEF Understood
<1>5. 8 + P + N = L => M = 0
  <2> HIDE DEF P, L, N, M
  <2> QED
    BY <1>1, <1>2, <1>3
<1>6. M = 0 => rest = <<>>
  BY EmptySeq, Zenon
<1> QED
  BY <1>4, <1>5, <1>6, Zenon DEF Decided, InLast

\* How long a request is, its request line being 9 symbols and its path.
LEMMA RequestLength ==
  ASSUME NEW r, Plain(r)
  PROVE  /\ Render(r) \in Seq(Symbol) /\ Len(r.path) \in Nat
         /\ Len(HeaderPart(r)) \in Nat
         /\ Len(Render(r)) = 9 + Len(r.path) + Len(HeaderPart(r))
<1> DEFINE A == RequestLine(r)
           H == HeaderPart(r)
<1>1. A \in Seq(Symbol) /\ Len(A) = 9 + Len(r.path)
  BY RequestLineIs, Zenon
<1>2. H \in Seq(Symbol)
  <2>1. HeadersLaid(H, LineUpto(r), r)
    BY HeaderPartIs, Zenon
  <2> QED
    BY <2>1, Zenon DEF HeadersLaid
<1>3. Render(r) = A \o H
  BY RequestIs, Zenon
<1>4. Len(r.path) \in Nat
  BY RequestTypes, Zenon
<1> HIDE DEF A, H
<1>5. A \o H \in Seq(Symbol) /\ Len(A \o H) = Len(A) + Len(H) /\ Len(H) \in Nat
  BY <1>1, <1>2, ConcatProperties, LenProperties
<1> QED
  BY <1>1, <1>3, <1>4, <1>5, Zenon DEF H

\* Cut at its end or next to the LF of its request line, the last request is
\* decided once it is read, and waits until then.
LEMMA PassDecides ==
  ASSUME NEW r, Plain(r), Supported(r), Fits(r),
         NEW h0, HttpTyped(h0), h0.error_ = "no",
         h0.state_ = "STATE_PARSE_URI" =>
           h0.h_state_ = "H_START" /\ h0.headers_ = NoHeaders,
         NEW w \in Seq(Symbol), BeforeLast(h0, w, r) \/ InLast(h0, w, r),
         NEW n \in 0..Len(w), n # 0,
         \/ Len(w) - n = 0
         \/ Len(w) - n = Len(HeaderPart(r))
         \/ Len(w) - n = Len(HeaderPart(r)) + 1,
         NEW h1, HttpTyped(h1), h1.in_buffer_ = h0.in_buffer_ \o SubSeq(w, 1, n),
         h1.state_ = h0.state_, h1.h_state_ = h0.h_state_,
         h1.headers_ = h0.headers_, h1.method_ = h0.method_,
         h1.file_name_ = h0.file_name_, h1.error_ = "no",
         NEW h \in Outcomes(h1)
  PROVE  Decided(h, Rest(w, n), r)
<1> DEFINE R == Render(r)
           P == Len(r.path)
           K == Len(HeaderPart(r))
           L == Len(R)
           W == Len(w)
           str == h0.in_buffer_
           input == str \o SubSeq(w, 1, n)
           N == Len(input)
           rest == Rest(w, n)
           M == Len(rest)
<1>1. R \in Seq(Symbol) /\ P \in Nat /\ K \in Nat /\ L = 9 + P + K
  BY RequestLength, Zenon
<1>2. str \in Seq(Symbol)
  BY DEF HttpTyped
<1>3. W \in Nat /\ n \in Nat /\ n <= W /\ n # 0 /\ (W - n = 0 \/ W - n = K \/ W - n = K + 1)
  OBVIOUS
<1>4. rest \in Seq(Symbol) /\ M = W - n
  BY RestIs, Zenon
<1>5. \A b : Dropped(R, b, str, w) => input \in Seq(Symbol) /\ Dropped(R, b, input, rest)
  <2> HIDE DEF R
  <2> QED
    BY <1>2, ReadDropped, Zenon
<1>6. h1.in_buffer_ = input
  OBVIOUS
<1> HIDE DEF R, P, K, L, W, input, rest, M
<1>7. CASE BeforeLast(h0, w, r)
  <2>1. h0.state_ = "STATE_PARSE_URI" /\ str = <<>> /\ w = R
    BY <1>7, Zenon DEF BeforeLast, R
  <2>2. Dropped(R, 0, str, w)
    <3>1. Len(str) = 0 /\ 1..0 = {} /\ 0 \in Nat
      BY <2>1
    <3>2. 0 + 0 + L = L
      BY <1>1
    <3>3. \A p \in 1..Len(R) : (0 + 0) + p = p
      OBVIOUS
    <3>4. Follows(str, R, 0)
      BY <3>1, Zenon DEF Follows
    <3>5. Follows(w, R, 0 + Len(str))
      BY <2>1, <3>1, <3>3, Zenon DEF Follows
    <3> QED
      BY <2>1, <3>1, <3>2, <3>4, <3>5, Zenon DEF Dropped, L
  <2>3. input \in Seq(Symbol) /\ Dropped(R, 0, input, rest)
    BY <1>5, <2>2, Zenon
  <2>4. 0 + N + M = L /\ Follows(input, R, 0) /\ Follows(rest, R, 0 + N)
    BY <2>3, Zenon DEF Dropped, L, M
  <2>5. N \in Nat
    BY <2>3
  <2>6. W = L
    BY <2>1, Zenon DEF W, L
  <2> HIDE DEF N
  <2>7. N = n
    BY <1>3, <1>4, <2>4, <2>5, <2>6
  <2>8. 8 + P <= N /\ (N <= 9 + P \/ N = L)
    BY <1>1, <1>3, <2>6, <2>7
  <2>9. UnderstoodLine(h, h1, r)
    <3>1. h1.state_ = "STATE_PARSE_URI" /\ h1.h_state_ = "H_START" /\ h1.headers_ = NoHeaders
      BY <2>1, Zenon
    <3>2. Follows(h1.in_buffer_, Render(r), 0)
      BY <1>6, <2>4, Zenon DEF R
    <3>3. 8 + Len(r.path) <= Len(h1.in_buffer_)
      BY <1>6, <2>8, Zenon DEF N, P
    <3>4. Len(h1.in_buffer_) <= 9 + Len(r.path) \/ Len(h1.in_buffer_) = Len(Render(r))
      BY <1>6, <2>8, Zenon DEF N, P, L, R
    <3> QED
      BY <3>1, <3>2, <3>3, <3>4, PassUnderstandsLine, Zenon
  <2>10. PICK u : /\ Understood(h, u, r)
                  /\ 8 + Len(r.path) + Len(u.in_buffer_) = Len(h1.in_buffer_)
                  /\ Follows(u.in_buffer_, Render(r), 8 + Len(r.path))
                  /\ u.in_buffer_ \in Seq(Symbol)
    BY <2>9, Zenon DEF UnderstoodLine
  <2> DEFINE U == Len(u.in_buffer_)
  <2>11. U \in Nat /\ 8 + P + U = N
    <3>1. U \in Nat
      BY <2>10, LenProperties, Zenon
    <3> QED
      BY <1>6, <2>10, <3>1, Zenon DEF P, N
  <2> HIDE DEF U
  <2>12. 8 + P \in Nat /\ 8 + P + U = 0 + N /\ (8 + P) + U + M = L
    BY <1>1, <1>3, <1>4, <2>4, <2>5, <2>11
  <2>13. Dropped(Render(r), 8 + Len(r.path), u.in_buffer_, rest)
    <3>1. Follows(rest, R, 8 + P + U)
      BY <2>4, <2>12, Zenon
    <3> QED
      BY <2>10, <2>12, <3>1, Zenon DEF Dropped, R, P, U, L, M
  <2> QED
    BY <1>4, <2>10, <2>13, UnderstoodDecides, Zenon DEF rest
<1>8. CASE InLast(h0, w, r)
  <2>1. /\ h0.state_ = "STATE_PARSE_HEADERS" /\ h0.h_state_ = "H_START"
        /\ h0.headers_ = NoHeaders /\ h0.method_ = r.method /\ h0.file_name_ = Named(r)
        /\ Dropped(R, 8 + P, str, w)
    BY <1>8, Zenon DEF InLast, R, P
  <2>2. input \in Seq(Symbol) /\ Dropped(R, 8 + P, input, rest)
    BY <1>5, <2>1, Zenon
  <2>3. 8 + P + N + M = L /\ Follows(input, R, 8 + P)
    BY <2>2, Zenon DEF Dropped, L, M
  <2>4. N \in Nat
    BY <2>2
  <2> HIDE DEF N
  <2>5. N <= 1 \/ 8 + P + N = L
    BY <1>1, <1>3, <1>4, <2>3, <2>4
  <2>6. Understood(h, h1, r)
    <3>1. /\ h1.state_ = "STATE_PARSE_HEADERS" /\ h1.h_state_ = "H_START"
          /\ h1.headers_ = NoHeaders /\ h1.method_ = r.method
          /\ h1.file_name_ = Named(r)
      BY <2>1, Zenon
    <3>2. Follows(h1.in_buffer_, Render(r), 8 + Len(r.path))
      BY <1>6, <2>3, Zenon DEF R, P
    <3>3. \/ Len(h1.in_buffer_) <= 1
          \/ 8 + Len(r.path) + Len(h1.in_buffer_) = Len(Render(r))
      BY <1>6, <2>5, Zenon DEF N, P, L, R
    <3> QED
      BY <3>1, <3>2, <3>3, PassUnderstands, Zenon
  <2>7. /\ h1.in_buffer_ \in Seq(Symbol)
        /\ Dropped(Render(r), 8 + Len(r.path), h1.in_buffer_, rest)
    BY <1>6, <2>2, Zenon DEF R, P
  <2> QED
    BY <1>4, <2>6, <2>7, UnderstoodDecides, Zenon DEF rest
<1> QED
  BY <1>7, <1>8

\* Nothing has been sent.
LEMMA WholeInit == Init => WholeInv
<1> SUFFICES ASSUME Init PROVE WholeInv
  OBVIOUS
<1> DEFINE h == [state_ |-> "STATE_PARSE_URI", h_state_ |-> "H_START",
                 in_buffer_ |-> <<>>, method_ |-> "GET", file_name_ |-> <<>>,
                 headers_ |-> NoHeaders, keep_alive_ |-> FALSE, error_ |-> "no"]
           no == NoHeaders
<1>1. http = h /\ wire = <<>> /\ again = FALSE /\ sent = <<>> /\ served = <<>>
  BY Zenon DEF Init
<1>2. http = [state_ |-> "STATE_PARSE_URI", h_state_ |-> "H_START",
              in_buffer_ |-> <<>>, method_ |-> "GET", file_name_ |-> <<>>,
              headers_ |-> no, keep_alive_ |-> FALSE, error_ |-> "no"]
  BY <1>1, Zenon
<1> HIDE DEF h, no
<1>3. http.state_ = "STATE_PARSE_URI" /\ http.in_buffer_ = <<>> /\ http.error_ = "no"
  BY <1>2
<1>4. http.error_ # "400"
  BY <1>3
<1>5. Len(served) = Len(sent) /\ 1..Len(served) = {}
  BY <1>1
<1> QED
  BY <1>1, <1>3, <1>4, <1>5, Zenon DEF WholeInv, WholeAt, BehindAll

\* Sending keeps it: the client of WholeInv has all its answers when it sends.
LEMMA SendWhole ==
  ASSUME IInv, WholeInv, NEW r \in Requests, Send(r)
  PROVE  WholeInv'
<1> SUFFICES ASSUME Fair'
             PROVE  /\ http'.error_ # "400" /\ ~again'
                    /\ \A i \in 1..Len(served') : served'[i] = Meaning(sent'[i])
                    /\ WholeAt(http', wire', sent', Len(served'))
  BY Zenon DEF WholeInv
<1> DEFINE n == Len(sent)
           k == Len(served)
<1>1. /\ sent' = Append(sent, r) /\ wire' = wire \o Render(r)
      /\ http' = http /\ again' = again /\ served' = served /\ clean' = clean
      /\ piped' = (piped \/ Len(served) < Len(sent) \/ again)
      /\ http.error_ = "no"
  BY Zenon DEF Send
<1>2. sent \in Seq(Requests)
  BY Zenon DEF IInv, Typed
<1>3. n \in Nat
  BY <1>2
<1>4. Len(sent') = n + 1 /\ DOMAIN sent' = 1..(n + 1) /\ DOMAIN sent = 1..n
      /\ sent'[n + 1] = r /\ \A i \in 1..n : sent'[i] = sent[i]
  BY <1>1, <1>2
<1>5. /\ clean' /\ ~piped'
      /\ \A i \in DOMAIN sent' : Clear(sent'[i]) /\ Supported(sent'[i]) /\ Fits(sent'[i])
  BY Zenon DEF Fair
<1>6. ~piped /\ ~(k < n) /\ ~again /\ clean
  BY <1>1, <1>5, Zenon
<1>7. Fair
  <2>1. \A i \in 1..n : i \in 1..(n + 1)
    BY <1>3
  <2>2. \A i \in DOMAIN sent : Clear(sent[i]) /\ Supported(sent[i]) /\ Fits(sent[i])
    BY <1>4, <1>5, <2>1, Zenon
  <2> QED
    BY <1>6, <2>2, Zenon DEF Fair
<1>8. k \in Nat /\ k <= n
  <2>1. sent \in Seq(PlainRequests)
    BY <1>2, <1>7, PlainSequence, Zenon DEF Fair
  <2> QED
    BY <2>1, Zenon DEF IInv, PlainInv, ServedInv
<1>9. /\ http.error_ # "400"
      /\ \A i \in 1..k : served[i] = Meaning(sent[i])
      /\ WholeAt(http, wire, sent, k)
  BY <1>7, Zenon DEF WholeInv
<1> HIDE DEF n, k
<1>10. k = n /\ ~(k + 1 = n) /\ k + 1 = n + 1 /\ \A i \in 1..k : i \in 1..n
  BY <1>3, <1>8, <1>6
<1>11. BehindAll(http, wire)
  BY <1>1, <1>9, <1>10, Zenon DEF WholeAt, n
<1>12. BeforeLast(http', wire', sent'[k + 1])
  <2> DEFINE R == Render(r)
  <2>1. R \in Seq(Symbol)
    BY RequestsAssumption, RenderTyped, Zenon
  <2>2. wire' = <<>> \o R
    BY <1>1, <1>11, Zenon DEF BehindAll
  <2> HIDE DEF R
  <2>3. wire' = R
    BY <2>1, <2>2
  <2> QED
    BY <1>1, <1>4, <1>10, <1>11, <2>3, Zenon DEF BehindAll, BeforeLast, R
<1>13. WholeAt(http', wire', sent', k)
  BY <1>4, <1>10, <1>12, Zenon DEF WholeAt
<1>14. \A i \in 1..k : served'[i] = Meaning(sent'[i])
  BY <1>1, <1>4, <1>9, <1>10, Zenon
<1> QED
  BY <1>1, <1>6, <1>9, <1>13, <1>14, Zenon DEF k

\* Reading keeps it.
LEMMA ReadWhole ==
  ASSUME IInv, WholeInv, NEW n \in 0..Len(wire), HandleRead(n)
  PROVE  WholeInv'
<1> SUFFICES ASSUME Fair'
             PROVE  /\ http'.error_ # "400" /\ ~again'
                    /\ \A i \in 1..Len(served') : served'[i] = Meaning(sent'[i])
                    /\ WholeAt(http', wire', sent', Len(served'))
  BY Zenon DEF WholeInv
<1> DEFINE k == Len(served)
           m == Len(sent)
           r == sent[k + 1]
           input == http.in_buffer_ \o SubSeq(wire, 1, n)
           h1 == [http EXCEPT !.in_buffer_ = input]
           rest == Rest(wire, n)
<1>1. /\ HttpTyped(http) /\ wire \in Seq(Symbol)
      /\ sent \in Seq(Requests) /\ served \in Seq({served[i] : i \in DOMAIN served})
  BY Zenon DEF IInv, Typed
<1>2. /\ http.error_ = "no" /\ sent' = sent /\ wire' = rest /\ piped' = piped
      /\ clean' = (clean /\ CleanCut(n)) /\ (again \/ n > 0)
  BY Zenon DEF HandleRead, Rest
<1>3. PICK h \in Outcomes(h1) :
        IF h.state_ = "STATE_FINISH"
        THEN /\ served' = Append(served, [method |-> h.method_,
                                         file |-> h.file_name_,
                                         headers |-> h.headers_])
             /\ http' = Reset(h)
             /\ again' = (h.in_buffer_ # <<>>)
        ELSE http' = h /\ again' = FALSE /\ served' = served
  BY Zenon DEF HandleRead
<1>4. StateInv
  BY Zenon DEF IInv
<1>5. http.state_ = "STATE_PARSE_URI" => http.h_state_ = "H_START" /\ http.headers_ = NoHeaders
  BY <1>4, Zenon DEF StateInv
<1>6. k \in Nat
  BY <1>1, LenProperties, Zenon
<1>7. m \in Nat /\ DOMAIN sent = 1..m
  BY <1>1
<1>8. Fair /\ CleanCut(n)
  BY <1>2, Zenon DEF Fair
<1>9. /\ ~again /\ \A i \in 1..k : served[i] = Meaning(sent[i])
      /\ WholeAt(http, wire, sent, k)
  BY <1>8, Zenon DEF WholeInv
<1>10. n # 0
  <2>1. n > 0
    BY <1>2, <1>9, Zenon
  <2> QED
    BY <2>1
<1>11. wire # <<>>
  BY <1>10
<1>12. k + 1 = m /\ (BeforeLast(http, wire, r) \/ InLast(http, wire, r))
  BY <1>2, <1>9, <1>11, Zenon DEF WholeAt, BehindAll
<1>13. Plain(r) /\ Supported(r) /\ Fits(r)
  <2>1. k + 1 \in 1..m
    BY <1>6, <1>7, <1>12
  <2>2. sent[k + 1] \in Requests
    BY <1>1, <1>7, <2>1, ElementOfSeq, Zenon
  <2>3. Clear(r) /\ Supported(r) /\ Fits(r)
    BY <1>7, <1>8, <2>1, Zenon DEF Fair
  <2> QED
    BY <2>2, <2>3, RequestsAssumption, Zenon DEF Plain
<1>14. \/ Len(wire) - n = 0
       \/ Len(wire) - n = Len(HeaderPart(r))
       \/ Len(wire) - n = Len(HeaderPart(r)) + 1
  <2>1. Last(sent) = r
    BY <1>12, Zenon DEF Last
  <2> QED
    BY <1>8, <1>10, <2>1, Zenon DEF CleanCut
<1>15. input \in Seq(Symbol)
  <2> DEFINE s == SubSeq(wire, 1, n)
  <2>1. s \in Seq(Symbol)
    BY <1>1
  <2>2. http.in_buffer_ \in Seq(Symbol)
    BY <1>1 DEF HttpTyped
  <2> HIDE DEF s
  <2>3. http.in_buffer_ \o s \in Seq(Symbol)
    BY <2>1, <2>2
  <2> QED
    BY <2>3 DEF s
<1>16. /\ HttpTyped(h1) /\ h1.in_buffer_ = input
       /\ h1.state_ = http.state_ /\ h1.h_state_ = http.h_state_
       /\ h1.headers_ = http.headers_ /\ h1.file_name_ = http.file_name_
       /\ h1.method_ = http.method_ /\ h1.error_ = "no"
  <2> HIDE DEF input
  <2> QED
    BY <1>1, <1>2, <1>15, BufferTyped, Zenon
<1>17. Decided(h, rest, r)
  <2> HIDE DEF h1, r
  <2> QED
    BY <1>1, <1>2, <1>5, <1>10, <1>12, <1>13, <1>14, <1>16, PassDecides, Zenon
<1>18. HttpTyped(h) /\ (h.error_ # "no" => h.state_ # "STATE_FINISH")
  <2>1. StateInv
    BY <1>4
  <2>2. /\ h1.state_ \in {"STATE_PARSE_URI", "STATE_PARSE_HEADERS", "STATE_RECV_BODY"}
        /\ h1.state_ = "STATE_RECV_BODY" => h1.method_ = "POST"
    BY <1>2, <1>16, <2>1, Zenon DEF StateInv
  <2> HIDE DEF h1
  <2> QED
    BY <1>16, <2>2, OutcomesTyped
<1> HIDE DEF h1, input, rest
<1>19. CASE h.error_ \notin {"no", "400"}
  <2>1. h.error_ # "no" /\ h.error_ # "400"
    BY <1>19
  <2>2. http' = h /\ again' = FALSE /\ served' = served
    BY <1>3, <1>18, <2>1, Zenon
  <2> QED
    BY <1>2, <1>9, <2>1, <2>2, Zenon DEF WholeAt
<1>20. CASE h.error_ = "no" /\ InLast(h, rest, r)
  <2>1. h.state_ = "STATE_PARSE_HEADERS"
    BY <1>20, Zenon DEF InLast
  <2>2. h.state_ # "STATE_FINISH" /\ h.error_ # "400"
    BY <1>20, <2>1
  <2>3. http' = h /\ again' = FALSE /\ served' = served
    BY <1>3, <2>2, Zenon
  <2>4. WholeAt(http', wire', sent', Len(served'))
    BY <1>2, <1>12, <1>20, <2>3, Zenon DEF WholeAt
  <2> QED
    BY <1>2, <1>9, <2>2, <2>3, <2>4, Zenon
<1>21. CASE /\ h.error_ = "no" /\ h.state_ = "STATE_FINISH"
            /\ h.in_buffer_ = <<>> /\ rest = <<>>
            /\ h.headers_ = Fields(r) /\ h.method_ = r.method /\ h.file_name_ = Named(r)
  <2> DEFINE A == [method |-> h.method_, file |-> h.file_name_, headers |-> h.headers_]
             q == Reset(h)
  <2>1. served' = Append(served, A) /\ http' = q /\ again' = (h.in_buffer_ # <<>>)
    BY <1>3, <1>21, Zenon
  <2>2. ~again'
    BY <1>21, <2>1, Zenon
  <2>3. q.in_buffer_ = <<>> /\ q.error_ = "no" /\ q.state_ = "STATE_PARSE_URI"
    BY <1>18, <1>21, ResetIs, Zenon
  <2>4. A = Meaning(r)
    BY <1>21, Zenon DEF Meaning
  <2> HIDE DEF A, q
  <2>5. /\ Len(served') = k + 1 /\ served'[k + 1] = A
        /\ \A i \in 1..k : served'[i] = served[i]
    <3>1. IsAppend(Append(served, A), served, A)
      BY <1>1, AppendIs, Zenon
    <3> QED
      BY <2>1, <3>1, Zenon DEF IsAppend
  <2>6. ASSUME NEW i \in 1..(k + 1) PROVE served'[i] = Meaning(sent'[i])
    <3>1. i = k + 1 \/ i \in 1..k
      BY <1>6
    <3>2. CASE i = k + 1
      BY <1>2, <2>4, <2>5, <3>2, Zenon
    <3>3. CASE i \in 1..k
      BY <1>2, <1>9, <2>5, <3>3, Zenon
    <3> QED
      BY <3>1, <3>2, <3>3
  <2>7. BehindAll(http', wire')
    BY <1>2, <1>21, <2>1, <2>3, Zenon DEF BehindAll
  <2>8. WholeAt(http', wire', sent', Len(served'))
    BY <1>2, <1>12, <2>5, <2>7, Zenon DEF WholeAt
  <2>9. http'.error_ # "400"
    BY <2>1, <2>3
  <2>10. \A i \in 1..Len(served') : served'[i] = Meaning(sent'[i])
    BY <2>5, <2>6, Zenon
  <2> QED
    BY <2>2, <2>8, <2>9, <2>10
<1> QED
  BY <1>17, <1>19, <1>20, <1>21, Zenon DEF Decided
-----------------------------------------------------------------------------
\* The invariant holds initially, in the empty stream.
LEMMA InitInv == Init => IInv
<1> SUFFICES ASSUME Init PROVE IInv
  OBVIOUS
<1> DEFINE h0 == [state_ |-> "STATE_PARSE_URI", h_state_ |-> "H_START",
                  in_buffer_ |-> <<>>, method_ |-> "GET", file_name_ |-> <<>>,
                  headers_ |-> NoHeaders, keep_alive_ |-> FALSE, error_ |-> "no"]
           no == NoHeaders
<1>1. /\ http = h0 /\ wire = <<>> /\ again = FALSE
      /\ sent = <<>> /\ served = <<>> /\ piped = FALSE /\ clean = TRUE
  BY Zenon DEF Init
<1>2. http = [state_ |-> "STATE_PARSE_URI", h_state_ |-> "H_START",
              in_buffer_ |-> <<>>, method_ |-> "GET", file_name_ |-> <<>>,
              headers_ |-> no, keep_alive_ |-> FALSE, error_ |-> "no"]
  BY <1>1, Zenon
<1> HIDE DEF h0, no
<1>3. /\ http.state_ = "STATE_PARSE_URI" /\ http.h_state_ = "H_START"
      /\ http.in_buffer_ = <<>> /\ http.method_ = "GET" /\ http.file_name_ = <<>>
      /\ http.headers_ = no /\ http.error_ = "no"
  BY <1>2
<1>4. HttpTyped(http)
  <2>1. /\ "STATE_PARSE_URI" \in States /\ "H_START" \in ParseState
        /\ "GET" \in Methods /\ "no" \in Errors /\ <<>> \in Seq(Symbol)
    BY DEF States, ParseState, Methods, Errors
  <2>2. http \in [state_ : States, h_state_ : ParseState, in_buffer_ : Seq(Symbol),
                  method_ : Methods, file_name_ : {http.file_name_},
                  headers_ : {http.headers_}, keep_alive_ : BOOLEAN, error_ : Errors]
    BY <1>2, <2>1
  <2> QED
    BY <2>2, Zenon DEF HttpTyped
<1>5. Typed
  <2>1. /\ wire \in Seq(Symbol) /\ sent \in Seq(Requests)
        /\ served \in Seq({served[i] : i \in DOMAIN served})
    BY <1>1
  <2>2. again \in BOOLEAN /\ piped \in BOOLEAN /\ clean \in BOOLEAN
    BY <1>1
  <2> QED
    BY <1>4, <2>1, <2>2, Zenon DEF Typed
<1>6. StateInv
  <2>1. http.state_ \in {"STATE_PARSE_URI", "STATE_PARSE_HEADERS", "STATE_RECV_BODY"}
        /\ http.state_ # "STATE_RECV_BODY"
    BY <1>3
  <2> QED
    BY <1>1, <1>3, <2>1, Zenon DEF StateInv, no
<1>7. Len(served) = 0 /\ Len(sent) = 0
  BY <1>1
<1>8. ServedInv
  BY <1>7 DEF ServedInv
<1>9. PlaceInv
  <2> DEFINE at == [i \in 1..1 |-> 0]
             none == <<>>
  <2>1. at \in [1..(0 + 1) -> Nat] /\ at[1] = 0 /\ at[0 + 1] = 0
    OBVIOUS
  <2>2. none \in Seq(Symbol) /\ Len(none) = 0 /\ 0 + Len(none) + Len(none) = Len(none)
    OBVIOUS
  <2>3. 1..0 = {} /\ 0 \in Nat
    OBVIOUS
  <2> HIDE DEF at, none
  <2>4. LaidOut(none, at, sent)
    BY <1>7, <2>1, <2>2, <2>3, Zenon DEF LaidOut
  <2>5. \A b : Follows(none, none, b)
    BY <2>2, <2>3, Zenon DEF Follows
  <2>6. Dropped(none, 0, http.in_buffer_, wire)
    BY <1>1, <1>3, <2>2, <2>3, <2>5, Zenon DEF Dropped, none
  <2>7. Before(at, Len(served) + 1, Len(sent), 0)
    <3>1. at[Len(served) + 1] = 0
      BY <1>7, <2>1, Zenon
    <3> QED
      BY <3>1, Zenon DEF Before
  <2>8. AtURI(http, wire, none, at, sent, Len(served) + 1)
    BY <1>3, <2>3, <2>6, <2>7, Zenon DEF AtURI
  <2> QED
    BY <2>4, <2>8, Zenon DEF PlaceInv, ParserAt
<1> QED
  BY <1>5, <1>6, <1>8, <1>9, Zenon DEF IInv, PlainInv

\* Sending and reading keep the invariant.
LEMMA InvStep == IInv /\ [Next]_vars => IInv'
<1> SUFFICES ASSUME IInv, [Next]_vars PROVE IInv'
  OBVIOUS
<1>1. ASSUME NEW r \in Requests, Send(r) PROVE IInv'
  BY <1>1, SendKeeps
<1>2. ASSUME NEW n \in 0..Len(wire), HandleRead(n) PROVE IInv'
  BY <1>2, ReadKeeps
<1>3. CASE UNCHANGED vars
  <2>1. /\ http' = http /\ wire' = wire /\ again' = again /\ sent' = sent
        /\ served' = served /\ piped' = piped /\ clean' = clean
    BY <1>3, Zenon DEF vars
  <2>2. Typed /\ StateInv /\ PlainInv
    BY Zenon DEF IInv
  <2>3. Typed'
    BY <2>1, <2>2, Zenon DEF Typed, HttpTyped
  <2>4. StateInv'
    BY <2>1, <2>2, Zenon DEF StateInv
  <2>5. PlainInv'
    BY <2>1, <2>2, Zenon DEF PlainInv, ServedInv, PlaceInv
  <2> QED
    BY <2>3, <2>4, <2>5, Zenon DEF IInv
<1> QED
  BY <1>1, <1>2, <1>3, Zenon DEF Next

\* It is an invariant.
LEMMA Invariance == Spec => []IInv
BY InitInv, InvStep, PTL DEF Spec

\* So is the one about clients that wait for their answers.
LEMMA WholeStep == IInv /\ WholeInv /\ [Next]_vars => WholeInv'
<1> SUFFICES ASSUME IInv, WholeInv, [Next]_vars PROVE WholeInv'
  OBVIOUS
<1>1. ASSUME NEW r \in Requests, Send(r) PROVE WholeInv'
  BY <1>1, SendWhole
<1>2. ASSUME NEW n \in 0..Len(wire), HandleRead(n) PROVE WholeInv'
  BY <1>2, ReadWhole
<1>3. CASE UNCHANGED vars
  <2>1. /\ http' = http /\ wire' = wire /\ again' = again /\ sent' = sent
        /\ served' = served /\ piped' = piped /\ clean' = clean
    BY <1>3, Zenon DEF vars
  <2> QED
    BY <2>1, Zenon DEF WholeInv, Fair, WholeAt, BehindAll, BeforeLast, InLast
<1> QED
  BY <1>1, <1>2, <1>3, Zenon DEF Next

\* So WholeInv is an invariant, too.
LEMMA WholeInvariance == Spec => []WholeInv
BY WholeInit, WholeStep, Invariance, PTL DEF Spec

-----------------------------------------------------------------------------
\* Whatever requests HTTP allows are sent, the fields have their types, and
\* between two requests the parser is as it was made.
THEOREM TypeCorrect == Spec => []TypeOK
<1>1. IInv => TypeOK
  <2> SUFFICES ASSUME IInv PROVE TypeOK
    OBVIOUS
  <2>1. HttpTyped(http) /\ again \in BOOLEAN /\ StateInv
    BY Zenon DEF IInv, Typed
  <2>2. /\ http.h_state_ \in ParseState /\ http.method_ \in Methods
        /\ http.error_ \in Errors /\ http.keep_alive_ \in BOOLEAN
    BY <2>1 DEF HttpTyped
  <2> QED
    BY <2>1, <2>2, Zenon DEF TypeOK, StateInv, Errors
<1> QED
  BY <1>1, Invariance, PTL

\* Of a client whose requests are all clear, whatever they ask, however the
\* stream is cut into reads and however much is pipelined: what is answered is
\* the file that was asked for, in the order of the requests.
THEOREM AnswersAreRight == Spec => []NeverServesAnother
<1>1. IInv => NeverServesAnother
  <2> SUFFICES ASSUME IInv, \A i \in DOMAIN sent : Clear(sent[i])
               PROVE  /\ Len(served) <= Len(sent)
                      /\ \A i \in DOMAIN served : /\ served[i].method = sent[i].method
                                                  /\ served[i].file = Named(sent[i])
    BY Zenon DEF NeverServesAnother
  <2>1. served \in Seq({served[i] : i \in DOMAIN served}) /\ ServedInv
    <3>1. sent \in Seq(Requests)
      BY Zenon DEF IInv, Typed
    <3>2. sent \in Seq(PlainRequests)
      BY <3>1, PlainSequence, Zenon
    <3> QED
      BY <3>2, Zenon DEF IInv, Typed, PlainInv
  <2>2. DOMAIN served = 1..Len(served)
    BY <2>1
  <2> QED
    BY <2>1, <2>2, Zenon DEF ServedInv
<1> QED
  BY <1>1, Invariance, PTL

\* Clear requests for GET or HEAD with a header that have arrived completely, in
\* whatever pieces, are all served, or one is refused: the parser does not wait
\* for more.
THEOREM ArrivedAreDecided == Spec => []ArrivedIsDecided
BY ArrivedFollows, Invariance, PTL

\* A client that waits for its answers, and whose requests are clear, are
\* supported, fit and arrive whole or cut next to the LF of the request line, is
\* understood: its requests are not refused with 400, and every header has its
\* value and belongs to its request.
THEOREM WholeRequestsAreUnderstood == Spec => []WholeIsUnderstood
<1>1. IInv /\ WholeInv => WholeIsUnderstood
  <2> SUFFICES ASSUME IInv, WholeInv, Fair
               PROVE  /\ http.error_ # "400"
                      /\ \A i \in DOMAIN served : served[i] = Meaning(sent[i])
    BY Zenon DEF WholeIsUnderstood, Fair
  <2>1. served \in Seq({served[i] : i \in DOMAIN served})
    BY Zenon DEF IInv, Typed
  <2>2. DOMAIN served = 1..Len(served)
    BY <2>1
  <2> QED
    BY <2>2, Zenon DEF WholeInv
<1> QED
  BY <1>1, Invariance, WholeInvariance, PTL
=====
