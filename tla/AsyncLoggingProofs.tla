------------------------- MODULE AsyncLoggingProofs -------------------------
(***************************************************************************)
(* The buffer exchange of AsyncLogging is sound for every buffer size,     *)
(* every pile-up threshold of at least two and any number of messages,     *)
(* however fwrite and fflush fail: no assert of ThreadFunc fails, and the  *)
(* exchange with the stream behind it implements LogChannel.               *)
(***************************************************************************)
EXTENDS AsyncLogging, SequenceTheorems, WellFoundedInduction, TLAPS

-----------------------------------------------------------------------------
\* Sequences that are cut.

\* A sequence cut in two is its two parts.
LEMMA Pieces ==
  ASSUME NEW S, NEW s \in Seq(S), NEW m \in Nat, m <= Len(s)
  PROVE  /\ SubSeq(s, 1, m) \in Seq(S) /\ Len(SubSeq(s, 1, m)) = m
         /\ SubSeq(s, m + 1, Len(s)) \in Seq(S)
         /\ Len(SubSeq(s, m + 1, Len(s))) = Len(s) - m
         /\ SubSeq(s, 1, m) \o SubSeq(s, m + 1, Len(s)) = s
<1>1. Len(s) \in Nat /\ \A k \in 1..Len(s) : s[k] \in S
  BY LenProperties, ElementOfSeq
<1>2. SubSeq(s, 1, m) \in Seq(S) /\ Len(SubSeq(s, 1, m)) = m
  <2>1. \A k \in 1..m : s[k] \in S
    BY <1>1
  <2> QED
    BY <2>1, SubSeqProperties
<1>3. /\ SubSeq(s, m + 1, Len(s)) \in Seq(S)
      /\ Len(SubSeq(s, m + 1, Len(s))) = Len(s) - m
  <2>1. \A k \in (m + 1)..Len(s) : s[k] \in S
    BY <1>1
  <2> QED
    BY <1>1, <2>1, SubSeqProperties
<1>4. SubSeq(s, 1, m) \o SubSeq(s, m + 1, Len(s)) = SubSeq(s, 1, Len(s))
  <2>1. 1 \in 1..Len(s) + 1 /\ m \in (1 - 1)..Len(s) /\ Len(s) \in m..Len(s)
    BY <1>1
  <2> QED
    BY <2>1, ConcatAdjacentSubSeq, Zenon
<1> QED
  BY <1>2, <1>3, <1>4, SubSeqFull

\* The beginning and the end of two sequences, cut in the first one.
LEMMA PiecesOfConcat ==
  ASSUME NEW S, NEW s \in Seq(S), NEW t \in Seq(S), NEW m \in Nat, m <= Len(s)
  PROVE  /\ SubSeq(s \o t, 1, m) = SubSeq(s, 1, m)
         /\ SubSeq(s \o t, m + 1, Len(s \o t)) = SubSeq(s, m + 1, Len(s)) \o t
<1> DEFINE b == SubSeq(s, m + 1, Len(s))
           y == SubSeq(s \o t, m + 1, Len(s \o t))
<1>1. Len(s) \in Nat /\ Len(t) \in Nat
  BY LenProperties
<1>2. /\ s \o t \in Seq(S) /\ Len(s \o t) = Len(s) + Len(t)
      /\ \A k \in 1..(Len(s) + Len(t)) :
           (s \o t)[k] = IF k <= Len(s) THEN s[k] ELSE t[k - Len(s)]
  BY ConcatProperties
<1>3. SubSeq(s \o t, 1, m) = SubSeq(s, 1, m)
  <2>1. CASE m = 0
    BY <2>1, SubSeqEmpty
  <2>2. CASE m # 0
    <3>1. 1 \in 1..Len(s) /\ m \in 1..Len(s)
      BY <1>1, <2>2
    <3> QED
      BY <3>1, SubSeqOfConcat1, Zenon
  <2> QED
    BY <2>1, <2>2
<1>4. /\ b \in Seq(S) /\ Len(b) = Len(s) - m
      /\ y \in Seq(S) /\ Len(y) = Len(s) + Len(t) - m
  <2>1. m <= Len(s \o t)
    BY <1>1, <1>2
  <2>2. y \in Seq(S) /\ Len(y) = Len(s \o t) - m
    BY <1>2, <2>1, Pieces
  <2> QED
    BY <1>2, <2>2, Pieces
<1>5. /\ \A k \in 1..(Len(s) - m) : b[k] = s[m + k]
      /\ \A k \in 1..(Len(s) + Len(t) - m) : y[k] = (s \o t)[m + k]
  BY <1>1, <1>2
<1> HIDE DEF b, y
<1>6. /\ b \o t \in Seq(S) /\ Len(b \o t) = Len(s) - m + Len(t)
      /\ \A k \in 1..(Len(s) - m + Len(t)) :
           (b \o t)[k] = IF k <= Len(s) - m THEN b[k] ELSE t[k - (Len(s) - m)]
  BY <1>4, ConcatProperties
<1>7. ASSUME NEW k \in 1..Len(y)
      PROVE  y[k] = (b \o t)[k]
  <2>1. m + k \in 1..(Len(s) + Len(t)) /\ k \in 1..(Len(s) + Len(t) - m)
    BY <1>1, <1>4
  <2>2. y[k] = IF m + k <= Len(s) THEN s[m + k] ELSE t[m + k - Len(s)]
    BY <1>2, <1>5, <2>1
  <2>3. (b \o t)[k] = IF k <= Len(s) - m THEN b[k] ELSE t[k - (Len(s) - m)]
    BY <1>1, <1>6, <2>1
  <2>4. CASE k <= Len(s) - m
    BY <1>1, <1>5, <2>1, <2>2, <2>3, <2>4
  <2>5. CASE ~(k <= Len(s) - m)
    BY <1>1, <2>1, <2>2, <2>3, <2>5
  <2> QED
    BY <2>4, <2>5
<1>8. y = b \o t
  <2>1. Len(y) = Len(b \o t)
    BY <1>1, <1>4, <1>6
  <2> QED
    BY <1>4, <1>6, <1>7, <2>1, SeqEqual
<1> QED
  BY <1>3, <1>8 DEF b, y

-----------------------------------------------------------------------------
\* Induction over the natural numbers, through sets of them: the induction
\* theorems of the library take a predicate.

\* A set of numbers has a least one.
LEMMA Least ==
  ASSUME NEW T \in SUBSET Nat, T # {}
  PROVE  \E m \in T : \A n \in T : m <= n
<1>1. PICK m \in T : \A n \in T : ~(<<n, m>> \in OpToRel(<, Nat))
  BY NatLessThanWellFounded, WFMin, Zenon
<1>2. \A n \in T : ~(n < m)
  BY <1>1 DEF OpToRel
<1> QED
  BY <1>2

\* Induction, over the numbers of which a formula holds.
LEMMA Induction ==
  ASSUME NEW G \in SUBSET Nat, 0 \in G, \A n \in G : n + 1 \in G
  PROVE  \A n \in Nat : n \in G
<1> SUFFICES ASSUME Nat \ G # {} PROVE FALSE
  OBVIOUS
<1>1. PICK m \in Nat \ G : \A n \in Nat \ G : m <= n
  BY Least
<1>2. m - 1 \in Nat /\ m - 1 \in G
  BY <1>1
<1> QED
  BY <1>1, <1>2

-----------------------------------------------------------------------------
\* FlattenSeq, which the channel's contents are made with.

\* A function that is defined by FlattenSeq's recursion.
Flattens(f, s, n) ==
  f = [k \in 1..n |-> IF k = 1 THEN s[k] ELSE f[k - 1] \o s[k]]

\* The recursion defines a function.
LEMMA FlattensExists ==
  ASSUME NEW s, NEW n \in Nat
  PROVE  \E f : Flattens(f, s, n)
<1> DEFINE G == {m \in Nat : \E f : Flattens(f, s, m)}
<1>1. 0 \in G
  <2>1. Flattens([k \in 1..0 |-> s], s, 0)
    BY DEF Flattens
  <2> QED
    BY <2>1
<1>2. ASSUME NEW m \in G PROVE m + 1 \in G
  <2>1. PICK f : Flattens(f, s, m)
    OBVIOUS
  <2> DEFINE g == [k \in 1..(m + 1) |-> IF k = 1 THEN s[k] ELSE f[k - 1] \o s[k]]
  <2>2. \A k \in 1..m : g[k] = f[k]
    <3>1. TAKE k \in 1..m
    <3>2. f[k] = IF k = 1 THEN s[k] ELSE f[k - 1] \o s[k]
      BY <2>1, Zenon DEF Flattens
    <3>3. k \in 1..(m + 1)
      OBVIOUS
    <3> QED
      BY <3>2, <3>3
  <2>3. \A k \in 1..(m + 1) : k # 1 => g[k - 1] = f[k - 1]
    <3>1. TAKE k \in 1..(m + 1)
    <3>2. k # 1 => k - 1 \in 1..m
      OBVIOUS
    <3> QED
      BY <2>2, <3>2, Zenon
  <2>4. g = [k \in 1..(m + 1) |-> IF k = 1 THEN s[k] ELSE g[k - 1] \o s[k]]
    BY <2>3
  <2>5. Flattens(g, s, m + 1)
    BY <2>4 DEF Flattens
  <2> QED
    BY <2>5
<1> HIDE DEF G
<1>3. \A m \in Nat : m \in G
  BY <1>1, <1>2, Induction DEF G
<1> QED
  BY <1>3 DEF G

Partial(s) == CHOOSE f : Flattens(f, s, Len(s))

\* FlattenSeq by the function it is defined with, place by place.
LEMMA FlattenIs ==
  ASSUME NEW S, NEW s \in Seq(Seq(S))
  PROVE  /\ Len(s) # 0 => /\ FlattenSeq(s) = Partial(s)[Len(s)]
                          /\ Partial(s)[1] = s[1]
         /\ \A k \in 1..Len(s) :
              k + 1 <= Len(s) => Partial(s)[k + 1] = Partial(s)[k] \o s[k + 1]
         /\ \A k \in 1..Len(s) : Partial(s)[k] \in Seq(S)
<1> DEFINE n == Len(s)
           f == Partial(s)
<1>0. n \in Nat /\ \A k \in 1..n : s[k] \in Seq(S)
  BY LenProperties, ElementOfSeq
<1>1. Flattens(f, s, n)
  <2>1. \E g : Flattens(g, s, n)
    BY <1>0, FlattensExists
  <2> QED
    BY <2>1, Zenon DEF Partial
<1>2. n # 0 => FlattenSeq(s) = f[n]
  BY Zenon DEF FlattenSeq, Partial, Flattens
<1> HIDE DEF n, f
<1>3. \A k \in 1..n : f[k] = IF k = 1 THEN s[k] ELSE f[k - 1] \o s[k]
  BY <1>1, Zenon DEF Flattens
<1>4. n # 0 => f[1] = s[1]
  BY <1>0, <1>3
<1>5. ASSUME NEW k \in 1..n, k + 1 <= n
      PROVE  f[k + 1] = f[k] \o s[k + 1]
  <2>1. k + 1 \in 1..n /\ k + 1 # 1 /\ (k + 1) - 1 = k
    BY <1>0, <1>5
  <2>2. f[k + 1] = f[(k + 1) - 1] \o s[k + 1]
    BY <1>3, <2>1, Zenon
  <2> QED
    BY <2>1, <2>2, Zenon
<1>6. \A k \in 1..n : f[k] \in Seq(S)
  <2> DEFINE G == {m \in Nat : 1 <= m /\ m <= n => f[m] \in Seq(S)}
  <2>1. 0 \in G
    OBVIOUS
  <2>2. ASSUME NEW m \in G PROVE m + 1 \in G
    <3>1. CASE m = 0
      BY <1>0, <1>4, <3>1
    <3>2. CASE m # 0 /\ m + 1 <= n
      <4>1. m \in 1..n /\ f[m] \in Seq(S) /\ s[m + 1] \in Seq(S)
        BY <1>0, <3>2
      <4>2. f[m] \o s[m + 1] \in Seq(S)
        BY <4>1, ConcatProperties
      <4>3. f[m + 1] = f[m] \o s[m + 1]
        BY <1>5, <3>2, <4>1
      <4>4. f[m + 1] \in Seq(S)
        BY <4>2, <4>3, Zenon
      <4> QED
        BY <4>4
    <3>3. CASE ~(m + 1 <= n)
      BY <3>3
    <3> QED
      BY <3>1, <3>2, <3>3
  <2> HIDE DEF G
  <2>3. \A m \in Nat : m \in G
    BY <2>1, <2>2, Induction DEF G
  <2> QED
    BY <1>0, <2>3 DEF G
<1> QED
  BY <1>2, <1>4, <1>5, <1>6, Zenon DEF n, f

\* FlattenSeq of no sequences, and its type.
LEMMA FlattenTypes ==
  ASSUME NEW S, NEW s \in Seq(Seq(S))
  PROVE  /\ FlattenSeq(s) \in Seq(S)
         /\ s = <<>> => FlattenSeq(s) = <<>>
<1>1. Len(s) \in Nat /\ (s = <<>> <=> Len(s) = 0)
  BY LenProperties, EmptySeq
<1>2. Len(s) = 0 => FlattenSeq(s) = <<>>
  BY <1>1 DEF FlattenSeq
<1>3. CASE Len(s) # 0
  <2>1. Len(s) \in 1..Len(s)
    BY <1>1, <1>3
  <2> QED
    BY <1>1, <1>3, <2>1, FlattenIs, Zenon
<1> QED
  BY <1>1, <1>2, <1>3, EmptySeq

\* Sequences that begin alike flatten alike.
LEMMA FlattenBegins ==
  ASSUME NEW S, NEW s \in Seq(Seq(S)), NEW t \in Seq(Seq(S)),
         Len(s) <= Len(t), \A k \in 1..Len(s) : s[k] = t[k]
  PROVE  \A k \in 1..Len(s) : Partial(s)[k] = Partial(t)[k]
<1>0. Len(s) \in Nat /\ Len(t) \in Nat
  BY LenProperties
<1>1. /\ Len(s) # 0 => Partial(s)[1] = s[1]
      /\ \A k \in 1..Len(s) :
           k + 1 <= Len(s) => Partial(s)[k + 1] = Partial(s)[k] \o s[k + 1]
  BY FlattenIs, Zenon
<1>2. /\ Len(t) # 0 => Partial(t)[1] = t[1]
      /\ \A k \in 1..Len(t) :
           k + 1 <= Len(t) => Partial(t)[k + 1] = Partial(t)[k] \o t[k + 1]
  BY FlattenIs, Zenon
<1> DEFINE G == {k \in Nat : 1 <= k /\ k <= Len(s) => Partial(s)[k] = Partial(t)[k]}
<1>3. 0 \in G
  OBVIOUS
<1>4. ASSUME NEW k \in G PROVE k + 1 \in G
  <2>1. CASE k = 0
    BY <1>0, <1>1, <1>2, <2>1
  <2>2. CASE k # 0 /\ k + 1 <= Len(s)
    <3>1. /\ k \in 1..Len(s) /\ k \in 1..Len(t) /\ k + 1 <= Len(t)
          /\ k + 1 \in 1..Len(s) /\ Partial(s)[k] = Partial(t)[k] /\ k + 1 <= Len(s)
      BY <1>0, <2>2
    <3>2. /\ Partial(s)[k + 1] = Partial(s)[k] \o s[k + 1]
          /\ Partial(t)[k + 1] = Partial(t)[k] \o t[k + 1]
      BY <1>1, <1>2, <3>1, Zenon
    <3>3. Partial(s)[k + 1] = Partial(t)[k + 1]
      BY <3>1, <3>2, Zenon
    <3> QED
      BY <3>3
  <2>3. CASE ~(k + 1 <= Len(s))
    BY <2>3
  <2> QED
    BY <2>1, <2>2, <2>3
<1> HIDE DEF G
<1>5. \A k \in Nat : k \in G
  BY <1>3, <1>4, Induction DEF G
<1> QED
  BY <1>0, <1>5 DEF G

\* One more sequence at the end.
LEMMA FlattenAppend ==
  ASSUME NEW S, NEW s \in Seq(Seq(S)), NEW e \in Seq(S)
  PROVE  FlattenSeq(Append(s, e)) = FlattenSeq(s) \o e
<1> DEFINE t == Append(s, e)
<1>1. /\ t \in Seq(Seq(S)) /\ Len(t) = Len(s) + 1 /\ Len(s) \in Nat
      /\ t[Len(s) + 1] = e
      /\ \A k \in 1..Len(s) : s[k] = t[k]
  BY AppendProperties, LenProperties
<1> HIDE DEF t
<1>2. Len(t) # 0
  BY <1>1
<1>3. /\ Len(s) # 0 => FlattenSeq(s) = Partial(s)[Len(s)]
      /\ FlattenSeq(t) = Partial(t)[Len(t)] /\ Partial(t)[1] = t[1]
      /\ \A k \in 1..Len(t) :
           k + 1 <= Len(t) => Partial(t)[k + 1] = Partial(t)[k] \o t[k + 1]
  BY <1>1, <1>2, FlattenIs, Zenon
<1>4. CASE Len(s) = 0
  <2>1. FlattenSeq(s) = <<>> /\ <<>> \o e = e
    BY <1>4, FlattenTypes, EmptySeq, ConcatEmptySeq
  <2>2. FlattenSeq(t) = e
    BY <1>1, <1>3, <1>4
  <2> QED
    BY <2>1, <2>2 DEF t
<1>5. CASE Len(s) # 0
  <2>1. /\ Len(s) \in 1..Len(s) /\ Len(s) \in 1..Len(t) /\ Len(s) + 1 <= Len(t)
        /\ Len(s) <= Len(t)
    BY <1>1, <1>5
  <2>2. Partial(t)[Len(s) + 1] = Partial(t)[Len(s)] \o t[Len(s) + 1]
    BY <1>3, <2>1, Zenon
  <2>3. Partial(s)[Len(s)] = Partial(t)[Len(s)]
    <3>1. \A k \in 1..Len(s) : Partial(s)[k] = Partial(t)[k]
      BY <1>1, <2>1, FlattenBegins
    <3> QED
      BY <2>1, <3>1, Zenon
  <2> QED
    BY <1>1, <1>3, <1>5, <2>2, <2>3, Zenon DEF t
<1> QED
  BY <1>4, <1>5

\* A sequence that is not empty is one with an element put behind it.
LEMMA LastApart ==
  ASSUME NEW S, NEW s \in Seq(S), NEW m \in Nat, Len(s) = m + 1
  PROVE  /\ SubSeq(s, 1, m) \in Seq(S) /\ Len(SubSeq(s, 1, m)) = m
         /\ \A k \in 1..m : SubSeq(s, 1, m)[k] = s[k]
         /\ s[m + 1] \in S
         /\ s = Append(SubSeq(s, 1, m), s[m + 1])
<1>1. /\ s[m + 1] \in S /\ \A k \in 1..m : s[k] \in S
  BY ElementOfSeq
<1>2. /\ SubSeq(s, 1, m) \in Seq(S) /\ Len(SubSeq(s, 1, m)) = m
      /\ \A k \in 1..m : SubSeq(s, 1, m)[k] = s[k]
  BY <1>1, SubSeqProperties
<1>3. s = SubSeq(s, 1, m) \o <<s[m + 1]>>
  <2>1. 1 \in 1..Len(s) /\ m + 1 \in 1..Len(s) /\ (m + 1) - 1 = m
    OBVIOUS
  <2>2. SubSeq(s, 1, m + 1) = SubSeq(s, 1, (m + 1) - 1) \o <<s[m + 1]>>
    BY <2>1, SubSeqRecursiveSecond, Zenon
  <2> QED
    BY <2>1, <2>2, SubSeqFull, Zenon
<1>4. Append(SubSeq(s, 1, m), s[m + 1]) = SubSeq(s, 1, m) \o <<s[m + 1]>>
  BY <1>1, <1>2, AppendIsConcat
<1> QED
  BY <1>1, <1>2, <1>3, <1>4, Zenon

\* Two vectors, one behind the other.
LEMMA FlattenConcat ==
  ASSUME NEW S, NEW s \in Seq(Seq(S)), NEW t \in Seq(Seq(S))
  PROVE  FlattenSeq(s \o t) = FlattenSeq(s) \o FlattenSeq(t)
<1> DEFINE Q == Seq(Seq(S))
           G == {m \in Nat : \A u \in Q : Len(u) = m =>
                   FlattenSeq(s \o u) = FlattenSeq(s) \o FlattenSeq(u)}
<1>0. /\ FlattenSeq(s) \in Seq(S) /\ s \in Q
      /\ \A x, y, z \in Seq(S) : (x \o y) \o z = x \o (y \o z)
  BY FlattenTypes
<1>1. 0 \in G
  <2>1. ASSUME NEW u \in Q, Len(u) = 0
        PROVE  FlattenSeq(s \o u) = FlattenSeq(s) \o FlattenSeq(u)
    <3>1. u = <<>> /\ FlattenSeq(u) = <<>>
      BY <2>1, EmptySeq, FlattenTypes
    <3>2. s \o u = s /\ FlattenSeq(s) \o FlattenSeq(u) = FlattenSeq(s)
      BY <1>0, <3>1, ConcatEmptySeq
    <3> QED
      BY <3>2
  <2> QED
    BY <2>1
<1>2. ASSUME NEW m \in G PROVE m + 1 \in G
  <2>1. ASSUME NEW u \in Q, Len(u) = m + 1
        PROVE  FlattenSeq(s \o u) = FlattenSeq(s) \o FlattenSeq(u)
    <3> DEFINE v == SubSeq(u, 1, m)
               e == u[m + 1]
    <3>1. v \in Q /\ Len(v) = m /\ e \in Seq(S) /\ u = Append(v, e)
      BY <2>1, LastApart
    <3> HIDE DEF v, e
    <3>2. FlattenSeq(s \o v) = FlattenSeq(s) \o FlattenSeq(v)
      BY <3>1
    <3>3. /\ FlattenSeq(u) = FlattenSeq(v) \o e
          /\ FlattenSeq(v) \in Seq(S)
      BY <3>1, FlattenAppend, FlattenTypes
    <3>4. s \o u = Append(s \o v, e) /\ s \o v \in Q
      <4>1. /\ Append(v, e) = v \o <<e>> /\ <<e>> \in Q /\ s \o v \in Q
        BY <1>0, <3>1, AppendIsConcat, ConcatProperties
      <4>2. Append(s \o v, e) = (s \o v) \o <<e>>
        BY <3>1, <4>1, AppendIsConcat
      <4>3. (s \o v) \o <<e>> = s \o (v \o <<e>>)
        BY <3>1, <4>1, ConcatAssociative
      <4> QED
        BY <3>1, <4>1, <4>2, <4>3, Zenon
    <3>5. FlattenSeq(Append(s \o v, e)) = FlattenSeq(s \o v) \o e
      BY <3>1, <3>4, FlattenAppend
    <3>6. (FlattenSeq(s) \o FlattenSeq(v)) \o e = FlattenSeq(s) \o (FlattenSeq(v) \o e)
      BY <1>0, <3>1, <3>3
    <3> QED
      BY <3>2, <3>3, <3>4, <3>5, <3>6, Zenon
  <2> QED
    BY <2>1
<1> HIDE DEF G
<1>3. \A m \in Nat : m \in G
  BY <1>1, <1>2, Induction DEF G
<1>4. t \in Q /\ Len(t) \in Nat
  BY LenProperties
<1> QED
  BY <1>3, <1>4 DEF G

\* One vector, one buffer.
LEMMA FlattenOne ==
  ASSUME NEW S, NEW e \in Seq(S)
  PROVE  FlattenSeq(<<e>>) = e
<1>1. <<>> \in Seq(Seq(S)) /\ Append(<<>>, e) = <<e>> /\ <<>> \o e = e
  BY ConcatEmptySeq
<1>2. FlattenSeq(<<>>) = <<>>
  BY <1>1, FlattenTypes
<1>3. FlattenSeq(Append(<<>>, e)) = FlattenSeq(<<>>) \o e
  BY <1>1, FlattenAppend
<1> QED
  BY <1>1, <1>2, <1>3, Zenon

\* Vectors of buffers of one length.
LEMMA FlattenLength ==
  ASSUME NEW S, NEW b \in Nat, NEW t \in Seq(Seq(S)),
         \A k \in 1..Len(t) : Len(t[k]) = b
  PROVE  Len(FlattenSeq(t)) = Len(t) * b
<1> DEFINE Q == {u \in Seq(Seq(S)) : \A k \in 1..Len(u) : Len(u[k]) = b}
           G == {m \in Nat : \A u \in Q : Len(u) = m => Len(FlattenSeq(u)) = m * b}
<1>1. 0 \in G
  <2>1. ASSUME NEW u \in Q, Len(u) = 0
        PROVE  Len(FlattenSeq(u)) = 0 * b
    <3>1. FlattenSeq(u) = <<>>
      BY <2>1, EmptySeq, FlattenTypes
    <3> QED
      BY <3>1, EmptySeq
  <2> QED
    BY <2>1
<1>2. ASSUME NEW m \in G PROVE m + 1 \in G
  <2>1. ASSUME NEW u \in Q, Len(u) = m + 1
        PROVE  Len(FlattenSeq(u)) = (m + 1) * b
    <3> DEFINE v == SubSeq(u, 1, m)
               e == u[m + 1]
    <3>1. /\ v \in Seq(Seq(S)) /\ Len(v) = m /\ e \in Seq(S) /\ u = Append(v, e)
          /\ \A k \in 1..m : v[k] = u[k]
      <4>1. u \in Seq(Seq(S))
        OBVIOUS
      <4> QED
        BY <2>1, <4>1, LastApart
    <3>2. Len(e) = b
      BY <2>1
    <3>3. \A k \in 1..Len(v) : Len(v[k]) = b
      BY <2>1, <3>1
    <3> HIDE DEF v, e
    <3>4. Len(FlattenSeq(v)) = m * b
      BY <3>1, <3>3
    <3>5. /\ FlattenSeq(u) = FlattenSeq(v) \o e
          /\ FlattenSeq(v) \in Seq(S)
      BY <3>1, FlattenAppend, FlattenTypes
    <3>6. Len(FlattenSeq(u)) = Len(FlattenSeq(v)) + Len(e)
      BY <3>1, <3>5, ConcatProperties
    <3>7. (m + 1) * b = m * b + b
      OBVIOUS
    <3> QED
      BY <3>2, <3>4, <3>6, <3>7
  <2> QED
    BY <2>1
<1> HIDE DEF G
<1>3. \A m \in Nat : m \in G
  BY <1>1, <1>2, Induction DEF G
<1>4. t \in Q /\ Len(t) \in Nat
  BY LenProperties
<1> QED
  BY <1>3, <1>4 DEF G

-----------------------------------------------------------------------------
\* The invariant of the exchange of buffers.

\* The part of the type invariant that the exchange rests on.
PointerTypes ==
  /\ pc \in {"off", "test", "lock", "waiting", "swapped", "write", "rewrite",
             "count", "done", "aborted"}
  /\ appended \in 0..MaxMessages
  /\ current_buffer_ \in Buffers
  /\ next_buffer_ \in Pointers
  /\ new_buffer_1 \in Pointers /\ new_buffer_2 \in Pointers
  /\ buffers_ \in Seq(Buffers)
  /\ buffers_to_write \in Seq(Buffers)

\* Where the five buffers are.  The front end gave up its spare only by
\* filling a buffer; and between the swap and the recycling the backend has
\* as many buffers to empty as it lent.
Exchange ==
  /\ next_buffer_ = Null => buffers_ # <<>>
  /\ pc \in {"off", "test", "lock", "waiting"} =>
       new_buffer_1 = <<>> /\ new_buffer_2 = <<>> /\ buffers_to_write = <<>>
  /\ pc \in {"swapped", "write", "rewrite", "count"} =>
       /\ buffers_to_write # <<>>
       /\ new_buffer_2 = Null => Len(buffers_to_write) >= 2

IInv == PointerTypes /\ Exchange /\ NoAssertFails

-----------------------------------------------------------------------------
\* An empty buffer is not a null pointer.
LEMMA EmptyIsABuffer == <<>> \in Buffers /\ <<>> # Null
<1>1. <<>> \in Seq(Nat) /\ <<>> \in Seq(1..MaxMessages)
  OBVIOUS
<1> QED
  BY <1>1, NullAssumption DEF Buffers

\* What the pile-up leaves of a longer vector.
LEMMA FirstTwo ==
  ASSUME NEW S, NEW s \in Seq(S), Len(s) >= 2
  PROVE  /\ SubSeq(s, 1, 2) \in Seq(S)
         /\ Len(SubSeq(s, 1, 2)) = 2 /\ SubSeq(s, 1, 2) # <<>>
<1>1. 1 \in 1..(Len(s) + 1) /\ 2 \in 0..Len(s)
  BY LenProperties
<1>2. SubSeq(s, 1, 2) \in Seq(S) /\ Len(SubSeq(s, 1, 2)) = 2
  BY <1>1, SubSeqProperties
<1> QED
  BY <1>2, EmptySeq

\* Pushing a buffer.
LEMMA PushGrows ==
  ASSUME NEW S, NEW s \in Seq(S), NEW e \in S
  PROVE  /\ Append(s, e) \in Seq(S) /\ Append(s, e) # <<>>
         /\ s # <<>> => Len(Append(s, e)) >= 2
<1>1. /\ Append(s, e) \in Seq(S) /\ Append(s, e) # <<>>
      /\ Len(Append(s, e)) = Len(s) + 1
  BY AppendProperties
<1>2. Len(s) \in Nat /\ (s # <<>> => Len(s) # 0)
  BY LenProperties, EmptySeq
<1> QED
  BY <1>1, <1>2

LEMMA ExchangeInit == Init => IInv
  BY EmptyIsABuffer, MessagesAssumption
  DEF Init, IInv, PointerTypes, Exchange, NoAssertFails, Pointers

\* Every step of the front end and of the backend keeps the exchange.
LEMMA ExchangeStep == IInv /\ [Next]_vars => IInv'
<1> SUFFICES ASSUME IInv, [Next]_vars
             PROVE  IInv'
  OBVIOUS
<1> USE DEF IInv, PointerTypes, Exchange, NoAssertFails, frontVars, backVars,
            histVars
<1>1. CASE AppendMessage
  <2>1. CASE HasRoom(current_buffer_)
    <3>1. Append(current_buffer_, appended + 1) \in Buffers
      BY <1>1, MessagesAssumption DEF AppendMessage, Buffers
    <3>2. /\ appended' = appended + 1 /\ appended < MaxMessages
          /\ current_buffer_' = Append(current_buffer_, appended + 1)
          /\ UNCHANGED <<next_buffer_, buffers_, pc, backVars>>
      BY <1>1, <2>1 DEF AppendMessage
    <3> QED
      BY <3>1, <3>2, MessagesAssumption
  <2>2. CASE ~HasRoom(current_buffer_)
    <3>1. <<appended + 1>> \in Buffers
      BY <1>1, MessagesAssumption DEF AppendMessage, Buffers
    <3>2. /\ Append(buffers_, current_buffer_) \in Seq(Buffers)
          /\ Append(buffers_, current_buffer_) # <<>>
      BY PushGrows
    <3>3. /\ appended' = appended + 1 /\ appended < MaxMessages
          /\ buffers_' = Append(buffers_, current_buffer_)
          /\ current_buffer_' = <<appended + 1>> /\ next_buffer_' = Null
          /\ UNCHANGED <<pc, backVars>>
      BY <1>1, <2>2 DEF AppendMessage
    <3> QED
      BY <3>1, <3>2, <3>3, MessagesAssumption DEF Pointers
  <2> QED
    BY <2>1, <2>2
<1>2. CASE Start \/ Stop
  BY <1>2 DEF Start, Stop
<1>3. CASE TestRunning
  BY <1>3 DEF TestRunning
<1>4. CASE WaitForBuffers
  BY <1>4 DEF WaitForBuffers
<1>5. CASE SwapBuffers
  <2>1. /\ Append(buffers_, current_buffer_) \in Seq(Buffers)
        /\ Append(buffers_, current_buffer_) # <<>>
        /\ buffers_ # <<>> => Len(Append(buffers_, current_buffer_)) >= 2
    BY PushGrows
  <2>2. new_buffer_1 = <<>> /\ new_buffer_2 = <<>>
    BY <1>5 DEF SwapBuffers
  <2>3. CASE next_buffer_ = Null
    BY <1>5, <2>1, <2>2, <2>3, EmptyIsABuffer DEF SwapBuffers, Pointers
  <2>4. CASE next_buffer_ # Null
    BY <1>5, <2>1, <2>2, <2>4, EmptyIsABuffer DEF SwapBuffers, Pointers
  <2> QED
    BY <2>3, <2>4
<1>6. CASE TrimBuffers
  <2>1. CASE Len(buffers_to_write) > kMaxBuffers
    <3>1. Len(buffers_to_write) >= 2
      BY <2>1, PileUpAssumption, LenProperties
    <3>2. /\ SubSeq(buffers_to_write, 1, 2) \in Seq(Buffers)
          /\ Len(SubSeq(buffers_to_write, 1, 2)) = 2
          /\ SubSeq(buffers_to_write, 1, 2) # <<>>
      BY <3>1, FirstTwo
    <3>3. /\ buffers_to_write' = SubSeq(buffers_to_write, 1, 2)
          /\ pc' = "write"
          /\ UNCHANGED <<frontVars, new_buffer_1, new_buffer_2, appended>>
      BY <1>6, <2>1 DEF TrimBuffers
    <3> QED
      BY <3>2, <3>3
  <2>2. CASE ~(Len(buffers_to_write) > kMaxBuffers)
    BY <1>6, <2>2 DEF TrimBuffers
  <2> QED
    BY <2>1, <2>2
<1>7. CASE WriteBuffer \/ WriteStops \/ GiveUp \/ CountBuffer
  BY <1>7 DEF WriteBuffer, WriteStops, GiveUp, CountBuffer
<1>8. CASE RecycleBuffers
  <2>1. ~(Len(buffers_to_write) < Wanted)
    BY <1>8, LenProperties DEF RecycleBuffers, Wanted
  <2> QED
    BY <1>8, <2>1, EmptyIsABuffer DEF RecycleBuffers, Pointers
<1>9. CASE UNCHANGED vars
  BY <1>9 DEF vars
<1> QED
  BY <1>1, <1>2, <1>3, <1>4, <1>5, <1>6, <1>7, <1>8, <1>9 DEF Next, Backend

-----------------------------------------------------------------------------
\* The exchange holds in every reachable state.
LEMMA Invariance == Spec => []IInv
  BY ExchangeInit, ExchangeStep, PTL DEF Spec

\* The rest of the type invariant: the position in the vector and in its
\* buffer, which the swap puts to their start, what LogFile counts, and what
\* the file and the stream have; between two passes the stream is empty.
FileTypes ==
  /\ running_ \in BOOLEAN
  /\ i \in 1..(Len(buffers_to_write) + 1)
  /\ pc = "swapped" => i = 1
  /\ taken \in Nat
  /\ pc \in {"rewrite", "count"} =>
       ~AllWritten /\ taken <= Len(buffers_to_write[i])
  /\ pc = "count" => taken = Len(buffers_to_write[i])
  /\ pc \notin {"rewrite", "count"} => taken = 0
  /\ count_ \in 0..(kFlushEveryN - 1)
  /\ file \in Buffers
  /\ stdio \in Buffers /\ Len(stdio) <= kStdioBuffer
  /\ pc \notin {"write", "rewrite", "count"} => stdio = <<>>
  /\ dropped \subseteq 1..MaxMessages
  /\ failures \in 0..MaxFailures

\* What is in a buffer.
LEMMA ContentsAreMessages ==
  ASSUME NEW b \in Buffers
  PROVE  ToSet(b) \subseteq 1..MaxMessages
<1>1. b \in Seq(1..MaxMessages) /\ DOMAIN b = 1..Len(b)
  BY LenProperties DEF Buffers
<1> QED
  BY <1>1, ElementOfSeq DEF ToSet

\* The types of the file and the stream after a call that went well.
LEMMA PassedOn ==
  ASSUME NEW s \in Buffers, NEW room \in Nat, file \in Buffers, PassOn(s, room)
  PROVE  /\ file' \in Buffers /\ stdio' \in Buffers /\ Len(stdio') <= room
         /\ UNCHANGED <<dropped, failures>>
<1>1. PICK k \in 0..Len(s) : /\ Len(s) - k <= room
                             /\ file' = file \o SubSeq(s, 1, k)
                             /\ stdio' = SubSeq(s, k + 1, Len(s))
  BY DEF PassOn
<1>2. /\ s \in Seq(1..MaxMessages) /\ file \in Seq(1..MaxMessages)
      /\ Len(s) \in Nat /\ k \in Nat /\ k <= Len(s)
  BY LenProperties DEF Buffers
<1>3. /\ SubSeq(s, 1, k) \in Seq(1..MaxMessages)
      /\ SubSeq(s, k + 1, Len(s)) \in Seq(1..MaxMessages)
      /\ Len(SubSeq(s, k + 1, Len(s))) = Len(s) - k
  BY <1>2, Pieces
<1>4. file \o SubSeq(s, 1, k) \in Seq(1..MaxMessages)
  BY <1>2, <1>3, ConcatProperties
<1> QED
  BY <1>1, <1>3, <1>4 DEF PassOn, Buffers

\* The types after a call that failed.
LEMMA BrokenOff ==
  ASSUME NEW s \in Buffers, NEW r \in Buffers, file \in Buffers,
         dropped \subseteq 1..MaxMessages, failures \in 0..MaxFailures,
         BreakOff(s, r)
  PROVE  /\ file' \in Buffers /\ stdio' = <<>>
         /\ dropped' \subseteq 1..MaxMessages /\ failures' \in 0..MaxFailures
<1>1. PICK k \in 0..Len(s) :
        /\ file' = file \o SubSeq(s, 1, k)
        /\ dropped' = dropped \union ToSet(SubSeq(s, k + 1, Len(s)) \o r)
  BY DEF BreakOff
<1>2. /\ s \in Seq(1..MaxMessages) /\ file \in Seq(1..MaxMessages)
      /\ r \in Seq(1..MaxMessages)
      /\ Len(s) \in Nat /\ k \in Nat /\ k <= Len(s)
  BY LenProperties DEF Buffers
<1>3. /\ SubSeq(s, 1, k) \in Seq(1..MaxMessages)
      /\ SubSeq(s, k + 1, Len(s)) \in Seq(1..MaxMessages)
  BY <1>2, Pieces
<1>4. /\ file \o SubSeq(s, 1, k) \in Seq(1..MaxMessages)
      /\ SubSeq(s, k + 1, Len(s)) \o r \in Seq(1..MaxMessages)
  BY <1>2, <1>3, ConcatProperties
<1>5. ToSet(SubSeq(s, k + 1, Len(s)) \o r) \subseteq 1..MaxMessages
  BY <1>4, ContentsAreMessages DEF Buffers
<1>6. stdio' = <<>> /\ failures' \in 0..MaxFailures
  BY FailuresAssumption DEF BreakOff
<1> QED
  BY <1>1, <1>4, <1>5, <1>6 DEF Buffers

\* After a flush, whether or not it went well, the stream is empty.
LEMMA Flushed ==
  ASSUME FileTypes, Flush
  PROVE  /\ file' \in Buffers /\ stdio' = <<>>
         /\ dropped' \subseteq 1..MaxMessages /\ failures' \in 0..MaxFailures
<1>1. /\ stdio \in Buffers /\ file \in Buffers /\ <<>> \in Buffers /\ 0 \in Nat
      /\ dropped \subseteq 1..MaxMessages /\ failures \in 0..MaxFailures
  BY EmptyIsABuffer DEF FileTypes
<1>2. CASE PassOn(stdio, 0)
  <2>1. /\ file' \in Buffers /\ stdio' \in Buffers /\ Len(stdio') <= 0
        /\ UNCHANGED <<dropped, failures>>
    BY <1>1, <1>2, PassedOn
  <2>2. stdio' \in Seq(1..MaxMessages) /\ Len(stdio') \in Nat
    BY <2>1, LenProperties DEF Buffers
  <2>3. stdio' = <<>>
    BY <2>1, <2>2, EmptySeq
  <2> QED
    BY <1>1, <2>1, <2>3
<1>3. CASE BreakOff(stdio, <<>>)
  BY <1>1, <1>3, BrokenOff, Zenon
<1> QED
  BY <1>2, <1>3 DEF Flush

\* The buffer that is being written, cut where fwrite stopped.
LEMMA RestIs ==
  ASSUME IInv, FileTypes, ~AllWritten
  PROVE  /\ i \in 1..Len(buffers_to_write)
         /\ buffers_to_write[i] \in Buffers
         /\ Len(buffers_to_write[i]) \in Nat
         /\ pc \in {"write", "rewrite", "count"} =>
              /\ taken \in 0..Len(buffers_to_write[i])
              /\ Rest \in Buffers
              /\ Len(Rest) = Len(buffers_to_write[i]) - taken
<1>1. buffers_to_write \in Seq(Buffers) /\ Len(buffers_to_write) \in Nat
  BY LenProperties DEF IInv, PointerTypes
<1>2. i \in 1..Len(buffers_to_write)
  BY <1>1 DEF AllWritten, FileTypes
<1>3. buffers_to_write[i] \in Buffers
  BY <1>1, <1>2, ElementOfSeq
<1>4. Len(buffers_to_write[i]) \in Nat /\ buffers_to_write[i] \in Seq(1..MaxMessages)
  BY <1>3, LenProperties DEF Buffers
<1>5. ASSUME pc \in {"write", "rewrite", "count"}
      PROVE  /\ taken \in 0..Len(buffers_to_write[i])
             /\ Rest \in Buffers
             /\ Len(Rest) = Len(buffers_to_write[i]) - taken
  <2>1. taken \in Nat /\ taken <= Len(buffers_to_write[i])
    BY <1>4, <1>5 DEF FileTypes
  <2>2. /\ Rest \in Seq(1..MaxMessages)
        /\ Len(Rest) = Len(buffers_to_write[i]) - taken
    BY <1>4, <2>1, Pieces DEF Rest
  <2> QED
    BY <1>4, <2>1, <2>2 DEF Buffers
<1> QED
  BY <1>2, <1>3, <1>4, <1>5

LEMMA ErasedAreMessages ==
  ASSUME buffers_to_write \in Seq(Buffers), NEW k \in Nat \ {0}
  PROVE  MessagesFrom(k) \subseteq 1..MaxMessages
<1>1. Len(buffers_to_write) \in Nat
  BY LenProperties
<1>2. \A j \in k..Len(buffers_to_write) : buffers_to_write[j] \in Buffers
  BY <1>1, ElementOfSeq
<1> QED
  BY <1>2, ContentsAreMessages DEF MessagesFrom

LEMMA FileStep == IInv /\ FileTypes /\ [Next]_vars => FileTypes'
<1> SUFFICES ASSUME IInv, FileTypes, [Next]_vars
             PROVE  FileTypes'
  OBVIOUS
<1>0. /\ Len(buffers_to_write) \in Nat /\ kStdioBuffer \in Nat
      /\ Len(<<>>) = 0 /\ <<>> \in Buffers
  BY EmptyIsABuffer, StdioAssumption, LenProperties DEF IInv, PointerTypes
<1>1. CASE AppendMessage \/ Start \/ Stop \/ WaitForBuffers
  BY <1>1 DEF AppendMessage, Start, Stop, WaitForBuffers, FileTypes, AllWritten,
              backVars, fileVars, histVars
<1>2. CASE TestRunning
  <2>1. /\ pc' \in {"lock", "aborted", "done"} /\ pc = "test"
        /\ UNCHANGED <<running_, i, buffers_to_write, count_, taken>>
    BY <1>2 DEF TestRunning, backVars
  <2>2. /\ file' \in Buffers /\ stdio' = <<>>
        /\ dropped' \subseteq 1..MaxMessages /\ failures' \in 0..MaxFailures
    <3>1. CASE running_
      BY <1>2, <3>1 DEF TestRunning, FileTypes
    <3>2. CASE ~running_
      BY <1>2, <3>2, Flushed DEF TestRunning
    <3> QED
      BY <3>1, <3>2
  <2> QED
    BY <1>0, <2>1, <2>2 DEF FileTypes
<1>3. CASE SwapBuffers
  <2>1. Len(Append(buffers_, current_buffer_)) \in Nat
    BY PushGrows, LenProperties DEF IInv, PointerTypes
  <2>2. /\ i' = 1 /\ buffers_to_write' = Append(buffers_, current_buffer_)
        /\ pc' = "swapped" /\ pc \in {"lock", "waiting"}
        /\ UNCHANGED <<running_, count_, taken, file, stdio, dropped, failures>>
    BY <1>3 DEF SwapBuffers, fileVars, histVars
  <2> QED
    BY <2>1, <2>2 DEF FileTypes
<1>4. CASE TrimBuffers
  <2>1. MessagesFrom(3) \subseteq 1..MaxMessages
    BY ErasedAreMessages DEF IInv, PointerTypes
  <2>2. Len(buffers_to_write) > kMaxBuffers =>
          Len(SubSeq(buffers_to_write, 1, 2)) = 2
    BY <1>0, FirstTwo, PileUpAssumption DEF IInv, PointerTypes
  <2>3. /\ i = 1 /\ i' = i /\ pc = "swapped" /\ pc' \in {"write", "aborted"}
        /\ UNCHANGED <<running_, count_, taken, file, stdio, failures>>
    BY <1>4 DEF TrimBuffers, FileTypes, fileVars
  <2>4. dropped' \subseteq 1..MaxMessages
    BY <1>4, <2>1 DEF TrimBuffers, FileTypes
  <2>5. i' \in 1..(Len(buffers_to_write') + 1)
    BY <1>0, <1>4, <2>2, <2>3 DEF TrimBuffers
  <2> QED
    BY <2>3, <2>4, <2>5 DEF FileTypes
<1>5. CASE WriteBuffer \/ WriteStops \/ GiveUp
  <2>1. /\ pc \in {"write", "rewrite"} /\ ~AllWritten
        /\ UNCHANGED <<running_, buffers_to_write, i, count_>>
    BY <1>5 DEF WriteBuffer, WriteStops, GiveUp, backVars, FileTypes
  <2>2. /\ i \in 1..Len(buffers_to_write)
        /\ Len(buffers_to_write[i]) \in Nat
        /\ taken \in 0..Len(buffers_to_write[i])
        /\ Rest \in Buffers /\ Len(Rest) = Len(buffers_to_write[i]) - taken
    BY <2>1, RestIs
  <2>3. ASSUME NEW s \in Buffers
        PROVE  stdio \o s \in Buffers
    BY ConcatProperties DEF FileTypes, Buffers
  <2>4. /\ file \in Buffers /\ stdio \in Buffers /\ failures \in 0..MaxFailures
        /\ dropped \subseteq 1..MaxMessages
    BY DEF FileTypes
  <2>5. /\ file' \in Buffers /\ stdio' \in Buffers /\ Len(stdio') <= kStdioBuffer
        /\ dropped' \subseteq 1..MaxMessages /\ failures' \in 0..MaxFailures
        /\ taken' \in 0..Len(buffers_to_write[i])
        /\ \/ pc' = "count" /\ taken' = Len(buffers_to_write[i])
           \/ pc' = "rewrite"
    <3>1. CASE WriteBuffer
      <4>1. PassOn(stdio \o Rest, kStdioBuffer)
        BY <3>1 DEF WriteBuffer
      <4>2. /\ file' \in Buffers /\ stdio' \in Buffers /\ Len(stdio') <= kStdioBuffer
            /\ UNCHANGED <<dropped, failures>>
        BY <1>0, <2>2, <2>3, <2>4, <4>1, PassedOn
      <4>3. pc' = "count" /\ taken' = Len(buffers_to_write[i])
        BY <3>1 DEF WriteBuffer
      <4> QED
        BY <2>2, <2>4, <4>2, <4>3
    <3>2. CASE WriteStops
      <4>1. PICK n \in 0..(Len(Rest) - 1) :
              BreakOff(stdio \o SubSeq(Rest, 1, n), <<>>) /\ taken' = taken + n
        BY <3>2 DEF WriteStops
      <4>2. SubSeq(Rest, 1, n) \in Buffers
        <5>1. n \in Nat /\ n <= Len(Rest) /\ Rest \in Seq(1..MaxMessages)
          BY <2>2 DEF Buffers
        <5> QED
          BY <5>1, Pieces DEF Buffers
      <4>3. /\ file' \in Buffers /\ stdio' = <<>>
            /\ dropped' \subseteq 1..MaxMessages /\ failures' \in 0..MaxFailures
        BY <1>0, <2>3, <2>4, <4>1, <4>2, BrokenOff
      <4>4. pc' = "rewrite"
        BY <3>2 DEF WriteStops
      <4> QED
        BY <1>0, <2>2, <4>1, <4>3, <4>4
    <3>3. CASE GiveUp
      <4>1. BreakOff(stdio, Rest)
        BY <3>3 DEF GiveUp
      <4>2. /\ file' \in Buffers /\ stdio' = <<>>
            /\ dropped' \subseteq 1..MaxMessages /\ failures' \in 0..MaxFailures
        BY <2>2, <2>4, <4>1, BrokenOff
      <4>3. pc' = "count" /\ taken' = Len(buffers_to_write[i])
        BY <3>3 DEF GiveUp
      <4> QED
        BY <1>0, <2>2, <4>2, <4>3
    <3> QED
      BY <1>5, <3>1, <3>2, <3>3
  <2> QED
    BY <2>1, <2>2, <2>5 DEF FileTypes, AllWritten
<1>6. CASE CountBuffer
  <2>1. /\ pc = "count" /\ pc' = "write" /\ i' = i + 1 /\ taken' = 0
        /\ count_' = (count_ + 1) % kFlushEveryN
        /\ UNCHANGED <<running_, buffers_to_write>>
    BY <1>6 DEF CountBuffer
  <2>2. i \in 1..Len(buffers_to_write)
    BY <1>0, <2>1 DEF FileTypes, AllWritten
  <2>3. /\ file' \in Buffers /\ stdio' \in Buffers /\ Len(stdio') <= kStdioBuffer
        /\ dropped' \subseteq 1..MaxMessages /\ failures' \in 0..MaxFailures
    <3>1. CASE count_' = 0
      BY <1>0, <1>6, <3>1, Flushed DEF CountBuffer
    <3>2. CASE count_' # 0
      BY <1>6, <3>2 DEF CountBuffer, FileTypes
    <3> QED
      BY <3>1, <3>2
  <2>4. count_' \in 0..(kFlushEveryN - 1)
    BY <2>1, FlushAssumption DEF FileTypes
  <2> QED
    BY <1>0, <2>1, <2>2, <2>3, <2>4 DEF FileTypes
<1>7. CASE RecycleBuffers
  <2>1. /\ pc = "write" /\ pc' \in {"aborted", "test"} /\ buffers_to_write' = <<>>
        /\ i' = 1 /\ UNCHANGED <<running_, count_, taken>>
    BY <1>7 DEF RecycleBuffers
  <2>2. /\ file' \in Buffers /\ stdio' = <<>>
        /\ dropped' \subseteq 1..MaxMessages /\ failures' \in 0..MaxFailures
    BY <1>7, Flushed DEF RecycleBuffers
  <2> QED
    BY <1>0, <2>1, <2>2 DEF FileTypes
<1>8. CASE UNCHANGED vars
  BY <1>8 DEF vars, backVars, fileVars, histVars, FileTypes, AllWritten
<1> QED
  BY <1>1, <1>2, <1>3, <1>4, <1>5, <1>6, <1>7, <1>8 DEF Next, Backend

LEMMA FileInit == Init => FileTypes
<1>1. <<>> \in Buffers /\ Len(<<>>) = 0
  BY EmptyIsABuffer
<1>2. 0 \in 0..0 /\ 1 \in 1..(0 + 1) /\ 0 \in 0..(kFlushEveryN - 1)
        /\ 0 \in 0..MaxFailures /\ 0 <= kStdioBuffer /\ 0 \in Nat
  BY FlushAssumption, FailuresAssumption, StdioAssumption
<1>3. Init => /\ running_ = FALSE /\ i = 1 /\ buffers_to_write = <<>>
              /\ pc = "off" /\ count_ = 0 /\ taken = 0
              /\ file = <<>> /\ stdio = <<>> /\ dropped = {} /\ failures = 0
  BY DEF Init
<1> QED
  BY <1>1, <1>2, <1>3 DEF FileTypes

\* Every variable has its type, for all sizes, and however writes fail; the
\* position in the vector stays inside it.
THEOREM TypeCorrect == Spec => []TypeOK
<1>1. ASSUME IInv, FileTypes
      PROVE  TypeOK
  <2>1. pc \in {"write", "rewrite", "count"} /\ ~AllWritten =>
          taken <= Len(buffers_to_write[i])
    BY <1>1, RestIs
  <2> QED
    BY <1>1, <2>1 DEF IInv, PointerTypes, FileTypes, TypeOK
<1> QED
  BY <1>1, FileInit, FileStep, Invariance, PTL DEF Spec

\* No assert of ThreadFunc ever fails, however fast the front end is.
THEOREM AssertsHold == Spec => []NoAssertFails
<1>1. IInv => NoAssertFails
  BY DEF IInv
<1> QED
  BY <1>1, Invariance, PTL

\* Append() never meets a null current_buffer_.
THEOREM CurrentIsABuffer == Spec => [](current_buffer_ \in Buffers)
<1>1. IInv => current_buffer_ \in Buffers
  BY DEF IInv, PointerTypes
<1> QED
  BY <1>1, Invariance, PTL

-----------------------------------------------------------------------------
\* How full the buffers are.

\* What a full buffer holds: a message needs one place, and one stays free.
Capacity == kLargeBuffer - 1

\* A buffer is pushed when it is full, with the message that did not fit in
\* current_buffer_; so only the last one of a swapped vector has room, and it
\* is not empty when there are others.
Filled ==
  /\ \A k \in 1..Len(buffers_) : Len(buffers_[k]) = Capacity
  /\ Len(current_buffer_) <= Capacity
  /\ buffers_ # <<>> => current_buffer_ # <<>>
  /\ pc \in {"swapped", "write", "rewrite", "count"} =>
       \A k \in 1..Len(buffers_to_write) : Len(buffers_to_write[k]) <= Capacity
  /\ pc = "swapped" =>
       /\ \A k \in 1..(Len(buffers_to_write) - 1) :
            Len(buffers_to_write[k]) = Capacity
       /\ Len(buffers_to_write) > 1 =>
            buffers_to_write[Len(buffers_to_write)] # <<>>

LEMMA FilledStep ==
  ASSUME IInv, FileTypes, Filled, [Next]_vars
  PROVE  Filled'
<1> USE DEF Filled, Capacity, frontVars, backVars, fileVars, histVars
<1>0. /\ buffers_ \in Seq(Buffers) /\ current_buffer_ \in Seq(1..MaxMessages)
      /\ buffers_to_write \in Seq(Buffers) /\ Capacity \in Nat /\ Capacity >= 1
      /\ Len(buffers_) \in Nat /\ Len(current_buffer_) \in Nat
      /\ Len(buffers_to_write) \in Nat
  BY BufferAssumption, LenProperties DEF IInv, PointerTypes, Buffers
<1>1. CASE AppendMessage
  <2>1. CASE HasRoom(current_buffer_)
    <3>1. /\ Len(Append(current_buffer_, appended + 1)) = Len(current_buffer_) + 1
          /\ Append(current_buffer_, appended + 1) # <<>>
      <4>1. appended + 1 \in 1..MaxMessages
        BY <1>1, MessagesAssumption DEF AppendMessage, IInv, PointerTypes
      <4>2. \A s \in Seq(1..MaxMessages), e \in 1..MaxMessages :
              Len(Append(s, e)) = Len(s) + 1 /\ Append(s, e) # <<>>
        BY AppendProperties
      <4> QED
        BY <1>0, <4>1, <4>2, Zenon
    <3>2. /\ current_buffer_' = Append(current_buffer_, appended + 1)
          /\ UNCHANGED <<buffers_, pc, backVars>>
      BY <1>1, <2>1 DEF AppendMessage
    <3>3. Len(current_buffer_) + 1 <= Capacity
      BY <1>0, <2>1, BufferAssumption DEF HasRoom
    <3> QED
      BY <3>1, <3>2, <3>3
  <2>2. CASE ~HasRoom(current_buffer_)
    <3>1. Len(current_buffer_) = Capacity
      BY <1>0, <2>2, BufferAssumption DEF HasRoom
    <3>2. /\ Len(Append(buffers_, current_buffer_)) = Len(buffers_) + 1
          /\ \A k \in 1..(Len(buffers_) + 1) :
               Append(buffers_, current_buffer_)[k]
                 = IF k <= Len(buffers_) THEN buffers_[k] ELSE current_buffer_
      BY AppendProperties DEF IInv, PointerTypes
    <3>3. /\ current_buffer_' = <<appended + 1>>
          /\ buffers_' = Append(buffers_, current_buffer_)
          /\ UNCHANGED <<pc, backVars>>
      BY <1>1, <2>2 DEF AppendMessage
    <3>4. Len(<<appended + 1>>) = 1 /\ <<appended + 1>> # <<>>
      OBVIOUS
    <3>5. \A k \in 1..Len(buffers_') : Len(buffers_'[k]) = Capacity
      BY <1>0, <3>1, <3>2, <3>3
    <3>6. Len(current_buffer_') <= Capacity /\ current_buffer_' # <<>>
      BY <1>0, <3>3, <3>4
    <3> QED
      BY <3>3, <3>5, <3>6
  <2> QED
    BY <2>1, <2>2
<1>2. CASE Start \/ Stop \/ TestRunning \/ WaitForBuffers
  BY <1>2 DEF Start, Stop, TestRunning, WaitForBuffers
<1>3. CASE SwapBuffers
  <2>1. /\ Len(Append(buffers_, current_buffer_)) = Len(buffers_) + 1
        /\ \A k \in 1..(Len(buffers_) + 1) :
             Append(buffers_, current_buffer_)[k]
               = IF k <= Len(buffers_) THEN buffers_[k] ELSE current_buffer_
    BY AppendProperties DEF IInv, PointerTypes
  <2>2. /\ buffers_to_write' = Append(buffers_, current_buffer_)
        /\ buffers_' = <<>> /\ current_buffer_' = <<>> /\ pc' = "swapped"
    BY <1>3 DEF SwapBuffers, IInv, Exchange
  <2>3. Len(<<>>) = 0
    OBVIOUS
  <2>4. /\ \A k \in 1..Len(buffers_') : Len(buffers_'[k]) = Capacity
        /\ Len(current_buffer_') <= Capacity /\ buffers_' = <<>>
    BY <1>0, <2>2, <2>3
  <2>5. \A k \in 1..(Len(buffers_to_write') - 1) :
          Len(buffers_to_write'[k]) = Capacity
    BY <1>0, <2>1, <2>2
  <2>6. /\ \A k \in 1..Len(buffers_to_write') : Len(buffers_to_write'[k]) <= Capacity
        /\ Len(buffers_to_write') > 1 =>
             buffers_to_write'[Len(buffers_to_write')] # <<>>
    <3>1. Len(buffers_to_write') > 1 => current_buffer_ # <<>>
      BY <1>0, <2>1, <2>2, EmptySeq
    <3>2. buffers_to_write'[Len(buffers_to_write')] = current_buffer_
      BY <1>0, <2>1, <2>2
    <3>3. ASSUME NEW k \in 1..Len(buffers_to_write')
          PROVE  Len(buffers_to_write'[k]) <= Capacity
      <4>1. Len(buffers_[k]) = Capacity \/ buffers_to_write'[k] = current_buffer_
        BY <1>0, <2>1, <2>2
      <4> QED
        BY <1>0, <2>1, <2>2, <4>1
    <3> QED
      BY <3>1, <3>2, <3>3
  <2> QED
    BY <2>4, <2>5, <2>6
<1>4. CASE TrimBuffers
  <2>1. CASE Len(buffers_to_write) > kMaxBuffers
    <3>1. 2 <= Len(buffers_to_write)
      BY <1>0, <2>1, PileUpAssumption
    <3>2. /\ Len(SubSeq(buffers_to_write, 1, 2)) = 2
          /\ \A k \in 1..2 :
               SubSeq(buffers_to_write, 1, 2)[k] = buffers_to_write[k]
      BY <1>0, <3>1, SubSeqProperties
    <3>3. /\ buffers_to_write' = SubSeq(buffers_to_write, 1, 2)
          /\ pc' # "swapped" /\ pc = "swapped"
          /\ UNCHANGED <<buffers_, current_buffer_>>
      BY <1>4, <2>1 DEF TrimBuffers
    <3>4. \A k \in 1..Len(buffers_to_write') : Len(buffers_to_write'[k]) <= Capacity
      BY <1>0, <3>1, <3>2, <3>3
    <3> QED
      BY <3>3, <3>4
  <2>2. CASE ~(Len(buffers_to_write) > kMaxBuffers)
    BY <1>4, <2>2 DEF TrimBuffers
  <2> QED
    BY <2>1, <2>2
<1>5. CASE WriteBuffer \/ WriteStops \/ GiveUp \/ CountBuffer
  BY <1>5 DEF WriteBuffer, WriteStops, GiveUp, CountBuffer
<1>6. CASE RecycleBuffers
  BY <1>6 DEF RecycleBuffers
<1>7. CASE UNCHANGED vars
  BY <1>7 DEF vars
<1> QED
  BY <1>1, <1>2, <1>3, <1>4, <1>5, <1>6, <1>7 DEF Next, Backend

-----------------------------------------------------------------------------
\* AsyncLogging implements LogChannel.

\* What is still to write of the vector v, from the t-th message of its j-th
\* buffer on.
PendingOf(v, j, t) ==
  LET left == Messages(SubSeq(v, j, Len(v)))
  IN SubSeq(left, t + 1, Len(left))

\* The contents of the channel: what the stream holds, what is to write, and
\* what the front end has.
Pending == PendingOf(buffers_to_write, i, taken)
FrontEnd == Messages(buffers_) \o current_buffer_
Waiting == stdio \o Pending \o Messages(buffers_) \o current_buffer_

\* ConcatAssociative, where the provers see what it is applied to.
LEMMA BuffersAssociate ==
  \A s, t, u \in Seq(1..MaxMessages) : (s \o t) \o u = s \o (t \o u)
BY ConcatAssociative

LEMMA FourAssociate ==
  ASSUME NEW s \in Seq(1..MaxMessages), NEW t \in Seq(1..MaxMessages),
         NEW u \in Seq(1..MaxMessages), NEW v \in Seq(1..MaxMessages)
  PROVE  /\ s \o t \o u \o v = s \o (t \o (u \o v))
         /\ t \o (u \o v) \in Seq(1..MaxMessages)
         /\ s \o (t \o (u \o v)) \in Seq(1..MaxMessages)
<1>1. /\ u \o v \in Seq(1..MaxMessages) /\ s \o t \in Seq(1..MaxMessages)
  BY ConcatProperties
<1>2. t \o (u \o v) \in Seq(1..MaxMessages)
  BY <1>1, ConcatProperties
<1>3. s \o (t \o (u \o v)) \in Seq(1..MaxMessages)
  BY <1>2, ConcatProperties
<1>4. ((s \o t) \o u) \o v = (s \o t) \o (u \o v)
  <2> DEFINE w == s \o t
  <2>1. w \in Seq(1..MaxMessages)
    BY <1>1
  <2> HIDE DEF w
  <2>2. (w \o u) \o v = w \o (u \o v)
    BY <2>1, BuffersAssociate, ZenonT(60)
  <2> QED
    BY <2>2 DEF w
<1>5. (s \o t) \o (u \o v) = s \o (t \o (u \o v))
  <2> DEFINE w == u \o v
  <2>1. w \in Seq(1..MaxMessages)
    BY <1>1
  <2> HIDE DEF w
  <2>2. (s \o t) \o w = s \o (t \o w)
    BY <2>1, BuffersAssociate, ZenonT(60)
  <2> QED
    BY <2>2 DEF w
<1> QED
  BY <1>2, <1>3, <1>4, <1>5, Zenon

LEMMA PendingTypes ==
  ASSUME NEW S, NEW v \in Seq(Seq(S)), NEW j \in 1..(Len(v) + 1), NEW t \in Nat
  PROVE  /\ Messages(SubSeq(v, j, Len(v))) \in Seq(S)
         /\ PendingOf(v, j, t) \in Seq(S)
<1> DEFINE q == Messages(SubSeq(v, j, Len(v)))
<1>1. Len(v) \in Nat
  BY LenProperties
<1>2. SubSeq(v, j, Len(v)) \in Seq(Seq(S))
  <2>1. j \in Int /\ Len(v) \in Int /\ \A k \in j..Len(v) : v[k] \in Seq(S)
    BY <1>1, ElementOfSeq
  <2> QED
    BY <2>1, SubSeqProperties
<1>3. q \in Seq(S)
  BY <1>2, FlattenTypes DEF Messages
<1>4. PendingOf(v, j, t) = SubSeq(q, t + 1, Len(q))
  BY DEF PendingOf
<1> HIDE DEF q
<1>5. Len(q) \in Nat
  BY <1>3, LenProperties
<1>6. SubSeq(q, t + 1, Len(q)) \in Seq(S)
  <2>1. CASE t <= Len(q)
    BY <1>3, <2>1, Pieces
  <2>2. CASE ~(t <= Len(q))
    <3>1. t + 1 \in Int /\ Len(q) \in Int /\ Len(q) < t + 1
      BY <1>5, <2>2
    <3> QED
      BY <3>1, SubSeqEmpty, EmptySeq
  <2> QED
    BY <2>1, <2>2
<1> QED
  BY <1>3, <1>4, <1>6 DEF q

\* Nothing of the vector is written yet.
LEMMA PendingWhole ==
  ASSUME NEW S, NEW v \in Seq(Seq(S))
  PROVE  PendingOf(v, 1, 0) = Messages(v)
<1>1. SubSeq(v, 1, Len(v)) = v /\ Messages(v) \in Seq(S)
  BY SubSeqFull, FlattenTypes DEF Messages
<1>2. SubSeq(Messages(v), 0 + 1, Len(Messages(v))) = Messages(v)
  BY <1>1, SubSeqFull
<1> QED
  BY <1>1, <1>2 DEF PendingOf

\* All of it is written.
LEMMA PendingNone ==
  ASSUME NEW S, NEW v \in Seq(Seq(S)), NEW j \in Nat, j > Len(v), NEW t \in Nat
  PROVE  PendingOf(v, j, t) = <<>>
<1>1. j \in Int /\ Len(v) \in Int /\ Len(v) < j
  BY LenProperties
<1>2. SubSeq(v, j, Len(v)) = <<>>
  BY <1>1, SubSeqEmpty
<1>3. Messages(<<>>) = <<>>
  <2>1. <<>> \in Seq(Seq(S))
    BY EmptySeq
  <2> QED
    BY <2>1, FlattenTypes DEF Messages
<1>4. SubSeq(<<>>, t + 1, 0) = <<>> /\ Len(<<>>) = 0
  BY SubSeqEmpty
<1> QED
  BY <1>2, <1>3, <1>4 DEF PendingOf

\* It is cut inside its j-th buffer.
LEMMA PendingCut ==
  ASSUME NEW S, NEW v \in Seq(Seq(S)), NEW j \in 1..Len(v),
         NEW t \in 0..Len(v[j])
  PROVE  /\ Messages(SubSeq(v, j + 1, Len(v))) \in Seq(S)
         /\ v[j] \in Seq(S) /\ SubSeq(v[j], t + 1, Len(v[j])) \in Seq(S)
         /\ PendingOf(v, j, t) = SubSeq(v[j], t + 1, Len(v[j]))
                                   \o Messages(SubSeq(v, j + 1, Len(v)))
<1> DEFINE x == v[j]
           tail == SubSeq(v, j + 1, Len(v))
<1>1. Len(v) \in Nat /\ x \in Seq(S) /\ Len(x) \in Nat /\ t \in Nat /\ t <= Len(x)
  BY LenProperties, ElementOfSeq
<1>2. tail \in Seq(Seq(S)) /\ Messages(tail) \in Seq(S)
  <2>1. /\ j + 1 \in Int /\ Len(v) \in Int
        /\ \A m \in (j + 1)..Len(v) : v[m] \in Seq(S)
    BY <1>1, ElementOfSeq
  <2>2. tail \in Seq(Seq(S))
    BY <2>1, SubSeqProperties
  <2> QED
    BY <2>2, FlattenTypes DEF Messages
<1>3. SubSeq(v, j, Len(v)) = <<x>> \o tail
  <2>1. j \in 1..Len(v) /\ Len(v) \in j..Len(v)
    BY <1>1
  <2> QED
    BY <2>1, SubSeqRecursiveFirst, Zenon
<1>4. Messages(SubSeq(v, j, Len(v))) = x \o Messages(tail)
  <2>1. <<x>> \in Seq(Seq(S))
    BY <1>1
  <2>2. Messages(<<x>> \o tail) = Messages(<<x>>) \o Messages(tail)
    BY <1>2, <2>1, FlattenConcat DEF Messages
  <2>3. Messages(<<x>>) = x
    BY <1>1, FlattenOne DEF Messages
  <2> QED
    BY <1>3, <2>2, <2>3, Zenon
<1>5. SubSeq(x, t + 1, Len(x)) \in Seq(S)
  BY <1>1, Pieces
<1> HIDE DEF x, tail
<1>6. SubSeq(x \o Messages(tail), t + 1, Len(x \o Messages(tail)))
        = SubSeq(x, t + 1, Len(x)) \o Messages(tail)
  BY <1>1, <1>2, PiecesOfConcat
<1> QED
  BY <1>1, <1>2, <1>4, <1>5, <1>6 DEF PendingOf, x, tail

\* A buffer is done with: what is to write begins with the next one.
LEMMA PendingNext ==
  ASSUME NEW S, NEW v \in Seq(Seq(S)), NEW j \in 1..Len(v)
  PROVE  PendingOf(v, j, Len(v[j])) = PendingOf(v, j + 1, 0)
<1> DEFINE m == Messages(SubSeq(v, j + 1, Len(v)))
<1>1. v[j] \in Seq(S) /\ Len(v[j]) \in Nat
  BY LenProperties, ElementOfSeq
<1>2. /\ PendingOf(v, j, Len(v[j])) = SubSeq(v[j], Len(v[j]) + 1, Len(v[j])) \o m
      /\ m \in Seq(S)
  <2>1. Len(v[j]) \in 0..Len(v[j])
    BY <1>1
  <2> QED
    BY <2>1, PendingCut
<1>3. SubSeq(v[j], Len(v[j]) + 1, Len(v[j])) = <<>>
  BY <1>1, SubSeqEmpty
<1>4. PendingOf(v, j + 1, 0) = SubSeq(m, 0 + 1, Len(m))
  BY DEF PendingOf
<1> HIDE DEF m
<1>5. SubSeq(m, 0 + 1, Len(m)) = m /\ <<>> \o m = m
  BY <1>2, SubSeqFull, ConcatEmptySeq
<1> QED
  BY <1>2, <1>3, <1>4, <1>5, Zenon

LEMMA ChannelTypes ==
  ASSUME IInv, FileTypes
  PROVE  /\ buffers_ \in Seq(Seq(1..MaxMessages))
         /\ buffers_to_write \in Seq(Seq(1..MaxMessages))
         /\ Len(buffers_to_write) \in Nat
         /\ Messages(buffers_) \in Seq(1..MaxMessages)
         /\ current_buffer_ \in Seq(1..MaxMessages)
         /\ FrontEnd \in Seq(1..MaxMessages)
         /\ Pending \in Seq(1..MaxMessages)
         /\ stdio \in Seq(1..MaxMessages)
         /\ file \in Seq(1..MaxMessages)
         /\ Pending \o FrontEnd \in Seq(1..MaxMessages)
         /\ Waiting = stdio \o (Pending \o FrontEnd)
         /\ Waiting \in Seq(1..MaxMessages)
<1>1. /\ buffers_ \in Seq(Seq(1..MaxMessages))
      /\ buffers_to_write \in Seq(Seq(1..MaxMessages))
      /\ current_buffer_ \in Seq(1..MaxMessages)
      /\ file \in Seq(1..MaxMessages) /\ stdio \in Seq(1..MaxMessages)
      /\ i \in 1..(Len(buffers_to_write) + 1) /\ taken \in Nat
  BY DEF IInv, PointerTypes, FileTypes, Buffers
<1>2. Len(buffers_to_write) \in Nat
  BY <1>1, LenProperties
<1>3. Pending \in Seq(1..MaxMessages)
  BY <1>1, PendingTypes DEF Pending
<1>4. Messages(buffers_) \in Seq(1..MaxMessages)
  BY <1>1, FlattenTypes DEF Messages
<1>5. FrontEnd \in Seq(1..MaxMessages)
  BY <1>1, <1>4, ConcatProperties DEF FrontEnd
<1>6. /\ Waiting = stdio \o (Pending \o FrontEnd)
      /\ Pending \o FrontEnd \in Seq(1..MaxMessages)
      /\ stdio \o (Pending \o FrontEnd) \in Seq(1..MaxMessages)
  BY <1>1, <1>3, <1>4, FourAssociate DEF Waiting, FrontEnd
<1> QED
  BY <1>1, <1>2, <1>3, <1>4, <1>5, <1>6

\* A step that the channel does not see.
LEMMA ChannelStays ==
  ASSUME appended' = appended, Waiting' = Waiting, file' = file,
         failures' = failures
  PROVE  UNCHANGED LC!vars
BY DEF LC!vars, Waiting, Pending, PendingOf, Swapped

\* A message goes behind all the others, whichever buffer it goes into.
LEMMA MessageAppended ==
  ASSUME IInv, FileTypes, AppendMessage
  PROVE  LC!Append1
<1> DEFINE S == 1..MaxMessages
           x == appended + 1
           w == stdio \o Pending
           m == Messages(buffers_)
           c == current_buffer_
<1>1. /\ w \in Seq(S) /\ m \in Seq(S) /\ c \in Seq(S) /\ x \in S
      /\ w \o m \in Seq(S) /\ <<x>> \in Seq(S) /\ Waiting \in Seq(S)
      /\ Waiting = (w \o m) \o c /\ Waiting = w \o (m \o c)
      /\ buffers_ \in Seq(Seq(S)) /\ m \o c \in Seq(S)
  <2>1. x \in S
    BY MessagesAssumption DEF AppendMessage, IInv, PointerTypes
  <2>2. <<x>> \in Seq(S) /\ Waiting = (w \o m) \o c
    BY <2>1 DEF Waiting
  <2>3. /\ m \in Seq(S) /\ c \in Seq(S) /\ Waiting \in Seq(S)
        /\ buffers_ \in Seq(Seq(S)) /\ m \o c \in Seq(S)
        /\ stdio \in Seq(S) /\ Pending \in Seq(S)
    BY ChannelTypes, Zenon DEF FrontEnd
  <2>4. w \in Seq(S)
    BY <2>3, ConcatProperties
  <2>5. w \o m \in Seq(S) /\ (w \o m) \o c = w \o (m \o c)
    <3> HIDE DEF w, m, c
    <3>1. w \o m \in Seq(S)
      BY <2>3, <2>4, ConcatProperties
    <3> QED
      BY <2>3, <2>4, <3>1, BuffersAssociate, ZenonT(60) DEF S
  <2> QED
    BY <2>1, <2>2, <2>3, <2>4, <2>5, Zenon
<1>2. /\ appended' = x /\ UNCHANGED <<file, failures>>
      /\ Waiting' = (w \o Messages(buffers_')) \o current_buffer_'
  BY DEF AppendMessage, fileVars, backVars, Waiting, Pending
<1>3. Append(Waiting, x) = Waiting \o <<x>> /\ Append(c, x) = c \o <<x>>
  BY <1>1, AppendIsConcat
<1>4. Waiting' = Append(Waiting, x)
  <2>1. CASE HasRoom(current_buffer_)
    <3>1. current_buffer_' = Append(c, x) /\ buffers_' = buffers_
      BY <2>1 DEF AppendMessage
    <3> HIDE DEF S, w, m, c, x
    <3>2. ((w \o m) \o c) \o <<x>> = (w \o m) \o (c \o <<x>>)
      BY <1>1, BuffersAssociate, ZenonT(60) DEF S
    <3> QED
      BY <1>1, <1>2, <1>3, <3>1, <3>2, Zenon DEF m
  <2>2. CASE ~HasRoom(current_buffer_)
    <3>1. current_buffer_' = <<x>> /\ buffers_' = Append(buffers_, c)
      BY <2>2 DEF AppendMessage
    <3>2. Messages(Append(buffers_, c)) = m \o c
      BY <1>1, FlattenAppend DEF Messages
    <3> HIDE DEF S, w, m, c, x
    <3> QED
      BY <1>1, <1>2, <1>3, <3>1, <3>2, Zenon
  <2> QED
    BY <2>1, <2>2
<1> QED
  BY <1>2, <1>4 DEF LC!Append1, Waiting, Pending, PendingOf, Swapped

\* The swap moves messages from one buffer to another.
LEMMA SwapIsInternal ==
  ASSUME IInv, FileTypes, SwapBuffers
  PROVE  UNCHANGED LC!vars
<1> DEFINE S == 1..MaxMessages
           v == Append(buffers_, current_buffer_)
<1>1. /\ buffers_to_write = <<>> /\ new_buffer_1 = <<>> /\ pc \in {"lock", "waiting"}
      /\ buffers_to_write' = v /\ i' = 1
      /\ buffers_' = <<>> /\ current_buffer_' = <<>>
      /\ UNCHANGED <<appended, taken, file, stdio, failures>>
  BY DEF SwapBuffers, IInv, Exchange, fileVars, histVars
<1>2. taken = 0 /\ stdio = <<>> /\ i \in Nat /\ i > Len(buffers_to_write)
  <2>1. Len(buffers_to_write) = 0
    BY <1>1, EmptySeq
  <2> QED
    BY <1>1, <2>1 DEF FileTypes
<1>3. Pending = <<>>
  <2>1. 0 \in Nat /\ buffers_to_write \in Seq(Seq(S))
    BY ChannelTypes
  <2> QED
    BY <1>2, <2>1, PendingNone DEF Pending
<1>4. /\ buffers_ \in Seq(Seq(S)) /\ current_buffer_ \in Seq(S)
      /\ FrontEnd \in Seq(S) /\ Waiting = stdio \o (Pending \o FrontEnd)
  BY ChannelTypes, Zenon
<1>5. Messages(v) = FrontEnd
  BY <1>4, FlattenAppend DEF Messages, FrontEnd
<1>6. Pending' = FrontEnd
  <2>1. v \in Seq(Seq(S))
    BY <1>4, AppendProperties
  <2>2. PendingOf(v, 1, 0) = Messages(v)
    BY <2>1, PendingWhole
  <2> QED
    BY <1>1, <1>2, <1>5, <2>2 DEF Pending
<1>7. Messages(<<>>) = <<>>
  <2>1. <<>> \in Seq(Seq(S))
    BY EmptySeq
  <2> QED
    BY <2>1, FlattenTypes DEF Messages
<1>8. Waiting = FrontEnd
  BY <1>2, <1>3, <1>4, ConcatEmptySeq
<1>9. Waiting' = ((<<>> \o FrontEnd) \o <<>>) \o <<>>
  BY <1>1, <1>2, <1>6, <1>7 DEF Waiting
<1> HIDE DEF S
<1>10. Waiting' = Waiting
  BY <1>4, <1>8, <1>9, ConcatEmptySeq
<1> QED
  BY <1>1, <1>10, ChannelStays

\* Two sequences, taken apart.
LEMMA TakenApart ==
  ASSUME NEW S, NEW s \in Seq(S), NEW t \in Seq(S)
  PROVE  /\ SubSeq(s \o t, 1, Len(s)) = s
         /\ SubSeq(s \o t, Len(s) + 1, Len(s \o t)) = t
         /\ Len(s \o t) = Len(s) + Len(t) /\ Len(s) \in Nat /\ Len(t) \in Nat
<1>1. Len(s) \in Nat /\ Len(t) \in Nat /\ Len(s \o t) = Len(s) + Len(t)
  BY LenProperties, ConcatProperties
<1>2. /\ SubSeq(s \o t, 1, Len(s)) = SubSeq(s, 1, Len(s))
      /\ SubSeq(s \o t, Len(s) + 1, Len(s \o t)) = SubSeq(s, Len(s) + 1, Len(s)) \o t
  BY <1>1, PiecesOfConcat
<1>3. SubSeq(s, 1, Len(s)) = s /\ SubSeq(s, Len(s) + 1, Len(s)) = <<>>
  BY <1>1, SubSeqFull, SubSeqEmpty
<1>4. <<>> \o t = t
  BY ConcatEmptySeq
<1> QED
  BY <1>1, <1>2, <1>3, <1>4, Zenon

\* The pile-up erases a stretch behind the two oldest buffers, which are full.
LEMMA PileUpIsADiscard ==
  ASSUME IInv, FileTypes, Filled, TrimBuffers
  PROVE  [LC!Next]_(LC!vars)
<1> DEFINE S == 1..MaxMessages
           v == buffers_to_write
           n == Len(v)
           a == Messages(SubSeq(v, 1, 2))
           b == Messages(SubSeq(v, 3, n))
           r == FrontEnd
<1>0. /\ v \in Seq(Seq(S)) /\ n \in Nat /\ i = 1 /\ i' = 1
      /\ taken = 0 /\ stdio = <<>>
      /\ r \in Seq(S) /\ Messages(buffers_) \in Seq(S) /\ current_buffer_ \in Seq(S)
      /\ Waiting \in Seq(S) /\ Waiting = stdio \o (Pending \o r)
      /\ Pending \o r \in Seq(S)
      /\ UNCHANGED <<buffers_, current_buffer_, appended, taken, stdio, file, failures>>
  <2>1. i = 1 /\ i' = i /\ taken = 0 /\ stdio = <<>>
    BY DEF TrimBuffers, FileTypes
  <2>2. UNCHANGED <<buffers_, current_buffer_, appended, taken, stdio, file, failures>>
    BY DEF TrimBuffers, frontVars, fileVars
  <2> QED
    BY <2>1, <2>2, ChannelTypes, Zenon
<1>1. Pending = Messages(v)
  BY <1>0, PendingWhole DEF Pending
<1>2. CASE ~(n > kMaxBuffers)
  <2>1. buffers_to_write' = buffers_to_write
    BY <1>2 DEF TrimBuffers
  <2>2. Waiting' = Waiting
    BY <1>0, <2>1 DEF Waiting, Pending
  <2> QED
    BY <1>0, <2>2, ChannelStays
<1>3. CASE n > kMaxBuffers
  <2>0. n >= 3 /\ 2 <= n /\ kMaxBuffers \in Nat /\ kMaxBuffers >= 2
    BY <1>0, <1>3, PileUpAssumption
  <2>1. Capacity \in Nat /\ Capacity >= 1
    BY BufferAssumption DEF Capacity
  <2>2. /\ SubSeq(v, 1, 2) \in Seq(Seq(S)) /\ Len(SubSeq(v, 1, 2)) = 2
        /\ SubSeq(v, 3, n) \in Seq(Seq(S))
        /\ SubSeq(v, 1, 2) \o SubSeq(v, 3, n) = v
    <3>1. 2 \in Nat /\ 2 + 1 = 3
      OBVIOUS
    <3> HIDE DEF v
    <3> QED
      BY <1>0, <2>0, <3>1, Pieces
  <2>3. a \in Seq(S) /\ b \in Seq(S) /\ Messages(v) = a \o b
    BY <2>2, FlattenTypes, FlattenConcat DEF Messages
  <2>4. Len(a) = 2 * Capacity
    <3>1. pc = "swapped"
      BY DEF TrimBuffers
    <3>2. \A k \in 1..2 : SubSeq(v, 1, 2)[k] = v[k]
      BY <1>0, <2>0
    <3>3. \A k \in 1..2 : Len(v[k]) = Capacity
      BY <1>0, <2>0, <3>1 DEF Filled
    <3>4. \A k \in 1..Len(SubSeq(v, 1, 2)) : Len(SubSeq(v, 1, 2)[k]) = Capacity
      BY <2>2, <3>2, <3>3
    <3> HIDE DEF v
    <3> QED
      BY <2>1, <2>2, <3>4, FlattenLength DEF Messages
  <2>5. Len(a \o b) >= kMaxBuffers * Capacity + 1 /\ Len(a \o b) \in Nat
    <3> DEFINE m == n - 1
               front == SubSeq(v, 1, m)
               last == v[n]
    <3>1. m \in Nat /\ n = m + 1 /\ m >= kMaxBuffers
      BY <1>0, <1>3, <2>0
    <3>2. /\ front \in Seq(Seq(S)) /\ Len(front) = m
          /\ \A k \in 1..m : front[k] = v[k]
          /\ last \in Seq(S) /\ v = Append(front, last)
      <4>1. Len(v) = m + 1
        BY <3>1
      <4> HIDE DEF v, m
      <4> QED
        BY <1>0, <3>1, <4>1, LastApart DEF n
    <3>3. last # <<>> /\ \A k \in 1..m : Len(v[k]) = Capacity
      <4>1. pc = "swapped"
        BY DEF TrimBuffers
      <4> QED
        BY <2>0, <4>1 DEF Filled
    <3>4. \A k \in 1..Len(front) : Len(front[k]) = Capacity
      BY <3>2, <3>3
    <3> HIDE DEF m, front, last, v, n
    <3>5. Len(Messages(front)) = m * Capacity /\ Messages(front) \in Seq(S)
      BY <2>1, <3>2, <3>4, FlattenLength, FlattenTypes DEF Messages
    <3>6. Messages(v) = Messages(front) \o last
      BY <3>2, FlattenAppend DEF Messages
    <3>7. Len(Messages(v)) = m * Capacity + Len(last)
      BY <3>2, <3>5, <3>6, ConcatProperties
    <3>8. Len(last) \in Nat /\ Len(last) >= 1
      BY <3>2, <3>3, EmptySeq, LenProperties
    <3>9. m * Capacity >= kMaxBuffers * Capacity /\ m * Capacity \in Nat
      BY <2>0, <2>1, <3>1
    <3> HIDE DEF Capacity
    <3>10. m * Capacity + Len(last) >= kMaxBuffers * Capacity + 1
      <4>1. kMaxBuffers * Capacity \in Nat
        BY <2>0, <2>1
      <4> QED
        BY <3>8, <3>9, <4>1
    <3>11. Len(Messages(v)) \in Nat
      BY <3>7, <3>8, <3>9
    <3> QED
      BY <2>3, <3>7, <3>10, <3>11
  <2>6. kMaxBuffers * Capacity >= 2 * Capacity
    BY <2>0, <2>1
  <2>7. Waiting = (a \o b) \o r
    BY <1>0, <1>1, <2>3, ConcatEmptySeq
  <2>8. Waiting' = a \o r
    <3>1. buffers_to_write' = SubSeq(v, 1, 2)
      BY <1>3 DEF TrimBuffers
    <3>2. Pending' = a
      <4>1. PendingOf(SubSeq(v, 1, 2), 1, 0) = a
        BY <2>2, PendingWhole
      <4> QED
        BY <1>0, <3>1, <4>1 DEF Pending
    <3>3. Waiting' = ((<<>> \o a) \o Messages(buffers_)) \o current_buffer_
      BY <1>0, <3>2 DEF Waiting
    <3>4. /\ a \in Seq(1..MaxMessages) /\ current_buffer_ \in Seq(1..MaxMessages)
          /\ Messages(buffers_) \in Seq(1..MaxMessages)
      BY <1>0, <2>3, Zenon
    <3> HIDE DEF a
    <3>5. (a \o Messages(buffers_)) \o current_buffer_
            = a \o (Messages(buffers_) \o current_buffer_)
      BY <3>4, BuffersAssociate, ZenonT(60)
    <3>6. <<>> \o a = a
      BY <3>4, ConcatEmptySeq
    <3> QED
      BY <3>3, <3>5, <3>6 DEF r, FrontEnd
  <2> DEFINE d == Len(a \o b)
  <2> HIDE DEF a, b, r, S
  <2>9. /\ SubSeq(Waiting, 1, 2 * Capacity) = a
        /\ SubSeq(Waiting, d + 1, Len(Waiting)) = r
        /\ Len(Waiting) \in Nat /\ d <= Len(Waiting)
    <3>1. a \o b \in Seq(S)
      BY <2>3, ConcatProperties
    <3>2. /\ SubSeq(Waiting, d + 1, Len(Waiting)) = r
          /\ Len(Waiting) = d + Len(r) /\ Len(r) \in Nat /\ d \in Nat
      <4>1. r \in Seq(S)
        BY <1>0
      <4> DEFINE ab == a \o b
      <4>2. ab \in Seq(S) /\ Waiting = ab \o r /\ d = Len(ab)
        BY <2>7, <3>1
      <4> HIDE DEF ab, d
      <4>3. /\ SubSeq(ab \o r, Len(ab) + 1, Len(ab \o r)) = r
            /\ Len(ab \o r) = Len(ab) + Len(r) /\ Len(ab) \in Nat /\ Len(r) \in Nat
        BY <4>1, <4>2, TakenApart
      <4> QED
        BY <4>2, <4>3
    <3>3. SubSeq(a \o b, 1, Len(a)) = a /\ Len(a) \in Nat /\ Len(a) <= d
      BY <2>3, TakenApart
    <3>4. SubSeq(Waiting, 1, Len(a)) = SubSeq(a \o b, 1, Len(a))
      BY <1>0, <2>7, <3>1, <3>3, PiecesOfConcat
    <3> QED
      BY <2>4, <3>2, <3>3, <3>4
  <2> HIDE DEF d
  <2>10. /\ Len(Waiting) >= kMaxBuffers * Capacity + 1
         /\ d \in (2 * Capacity + 1)..Len(Waiting)
         /\ Waiting' = SubSeq(Waiting, 1, 2 * Capacity)
                         \o SubSeq(Waiting, d + 1, Len(Waiting))
    <3>1. d >= kMaxBuffers * Capacity + 1 /\ d \in Nat
      BY <2>5 DEF d
    <3>2. 2 * Capacity \in Nat /\ kMaxBuffers * Capacity \in Nat
      BY <2>0, <2>1
    <3>3. Waiting' = SubSeq(Waiting, 1, 2 * Capacity)
                       \o SubSeq(Waiting, d + 1, Len(Waiting))
      BY <2>8, <2>9, Zenon
    <3> HIDE DEF Capacity
    <3> QED
      BY <2>6, <2>9, <3>1, <3>2, <3>3
  <2>11. LC!Discard
    BY <1>0, <2>10 DEF LC!Discard, Waiting, Pending, PendingOf, Swapped, Capacity
  <2> QED
    BY <2>11 DEF LC!Next
<1> QED
  BY <1>2, <1>3

\* A call that goes well writes some of the oldest messages.
LEMMA PassOnIsAWrite ==
  ASSUME NEW s \in Seq(1..MaxMessages), NEW rest \in Seq(1..MaxMessages),
         NEW room, PassOn(s, room), file \in Seq(1..MaxMessages),
         Waiting = s \o rest, Waiting' = stdio' \o rest, appended' = appended
  PROVE  [LC!Next]_(LC!vars)
<1>1. PICK k \in 0..Len(s) : /\ file' = file \o SubSeq(s, 1, k)
                             /\ stdio' = SubSeq(s, k + 1, Len(s))
  BY DEF PassOn
<1>2. failures' = failures
  BY DEF PassOn
<1>3. Len(s) \in Nat /\ k \in Nat /\ k <= Len(s)
  BY LenProperties
<1>4. /\ SubSeq(s \o rest, 1, k) = SubSeq(s, 1, k)
      /\ SubSeq(s \o rest, k + 1, Len(s \o rest)) = SubSeq(s, k + 1, Len(s)) \o rest
  BY <1>3, PiecesOfConcat
<1>5. Len(s \o rest) = Len(s) + Len(rest) /\ Len(rest) \in Nat
  BY ConcatProperties, LenProperties
<1>6. /\ file' = file \o SubSeq(Waiting, 1, k)
      /\ Waiting' = SubSeq(Waiting, k + 1, Len(Waiting))
      /\ k \in 0..Len(Waiting)
  <2>1. /\ file' = file \o SubSeq(Waiting, 1, k)
        /\ Waiting' = SubSeq(Waiting, k + 1, Len(Waiting))
    BY <1>1, <1>4, Zenon
  <2>2. Len(Waiting) = Len(s) + Len(rest)
    BY <1>5, Zenon
  <2> QED
    BY <1>3, <1>5, <2>1, <2>2
<1>7. CASE k = 0
  <2>1. SubSeq(s, 1, k) = <<>> /\ SubSeq(s, k + 1, Len(s)) = s
    BY <1>7, SubSeqEmpty, SubSeqFull
  <2>2. file' = file /\ Waiting' = Waiting
    BY <1>1, <2>1, ConcatEmptySeq
  <2> QED
    BY <1>2, <2>2, ChannelStays
<1>8. CASE k # 0
  <2>1. k \in 1..Len(Waiting)
    BY <1>3, <1>5, <1>6, <1>8
  <2>2. LC!Write
    BY <1>2, <1>6, <2>1 DEF LC!Write, Waiting, Pending, PendingOf, Swapped
  <2> QED
    BY <2>2 DEF LC!Next
<1> QED
  BY <1>7, <1>8

\* A call that fails writes some of the oldest messages and loses the next.
LEMMA BreakOffIsAFailure ==
  ASSUME NEW s \in Seq(1..MaxMessages), NEW r \in Seq(1..MaxMessages),
         NEW rest \in Seq(1..MaxMessages), BreakOff(s, r),
         Len(s) + Len(r) <= kStdioBuffer + Capacity,
         Waiting = s \o (r \o rest), Waiting' = rest, appended' = appended
  PROVE  [LC!Next]_(LC!vars)
<1>1. PICK k \in 0..Len(s) : file' = file \o SubSeq(s, 1, k)
  BY DEF BreakOff
<1>2. failures' = failures + 1
  BY DEF BreakOff
<1>3. /\ Len(s) \in Nat /\ Len(r) \in Nat /\ Len(rest) \in Nat
      /\ k \in Nat /\ k <= Len(s)
      /\ s \o r \in Seq(1..MaxMessages) /\ r \o rest \in Seq(1..MaxMessages)
      /\ Len(s \o r) = Len(s) + Len(r)
  BY LenProperties, ConcatProperties
<1> DEFINE n == Len(s) + Len(r)
<1>4. /\ SubSeq(Waiting, 1, k) = SubSeq(s, 1, k)
  BY <1>3, PiecesOfConcat
<1>5. /\ SubSeq(Waiting, n + 1, Len(Waiting)) = rest
      /\ Len(Waiting) = n + Len(rest)
  <2>1. Waiting = (s \o r) \o rest
    BY BuffersAssociate, ZenonT(60)
  <2>2. /\ SubSeq((s \o r) \o rest, Len(s \o r) + 1, Len((s \o r) \o rest)) = rest
        /\ Len((s \o r) \o rest) = Len(s \o r) + Len(rest)
    BY <1>3, TakenApart
  <2> QED
    BY <1>3, <2>1, <2>2
<1>6. n \in 0..Len(Waiting) /\ k \in 0..n
  BY <1>3, <1>5
<1>7. LC!Fail
  <2>1. /\ file' = file \o SubSeq(Waiting, 1, k)
        /\ Waiting' = SubSeq(Waiting, n + 1, Len(Waiting))
        /\ n <= kStdioBuffer + kLargeBuffer - 1
    BY <1>1, <1>4, <1>5, StdioAssumption, BufferAssumption DEF Capacity
  <2> HIDE DEF n
  <2> QED
    BY <1>2, <1>6, <2>1 DEF LC!Fail, Waiting, Pending, PendingOf, Swapped
<1> QED
  BY <1>7 DEF LC!Next

\* A flush empties the stream, into the file or nowhere.
LEMMA FlushIsAWriteOrAFailure ==
  ASSUME IInv, FileTypes, Flush, NEW rest \in Seq(1..MaxMessages),
         Waiting = stdio \o rest, Waiting' = rest, appended' = appended
  PROVE  [LC!Next]_(LC!vars)
<1>1. /\ stdio \in Seq(1..MaxMessages) /\ <<>> \in Seq(1..MaxMessages)
      /\ Len(stdio) \in Nat /\ Len(stdio) <= kStdioBuffer /\ Len(<<>>) = 0
      /\ <<>> \o rest = rest /\ file \in Seq(1..MaxMessages)
  BY ChannelTypes, LenProperties, EmptySeq, ConcatEmptySeq DEF FileTypes
<1>2. CASE PassOn(stdio, 0)
  <2>1. stdio' = <<>>
    BY Flushed
  <2> QED
    BY <1>1, <1>2, <2>1, PassOnIsAWrite
<1>3. CASE BreakOff(stdio, <<>>)
  <2>1. Len(stdio) + Len(<<>>) <= kStdioBuffer + Capacity
    BY <1>1, StdioAssumption, BufferAssumption DEF Capacity
  <2> QED
    BY <1>1, <1>3, <2>1, BreakOffIsAFailure
<1> QED
  BY <1>2, <1>3 DEF Flush

\* A sequence cut twice.
LEMMA CutTwice ==
  ASSUME NEW S, NEW x \in Seq(S), NEW u \in Nat, u <= Len(x), NEW y \in Seq(S),
         y = SubSeq(x, u + 1, Len(x)), NEW n \in Nat, n <= Len(y)
  PROVE  SubSeq(x, (u + n) + 1, Len(x)) = SubSeq(y, n + 1, Len(y))
<1> DEFINE b == SubSeq(y, n + 1, Len(y))
           c == SubSeq(x, (u + n) + 1, Len(x))
<1>1. /\ Len(x) \in Nat /\ Len(y) = Len(x) - u /\ u + n \in Nat
      /\ u + n <= Len(x) /\ Len(y) \in Nat
  BY LenProperties, Pieces
<1>2. b \in Seq(S) /\ Len(b) = Len(y) - n
  BY Pieces
<1>3. c \in Seq(S) /\ Len(c) = Len(x) - (u + n)
  BY <1>1, Pieces
<1>4. ASSUME NEW m \in 1..Len(c)
      PROVE  c[m] = b[m]
  <2>1. m \in 1..(Len(x) - (u + n)) /\ n + m \in 1..Len(y) /\ m \in 1..(Len(y) - n)
    BY <1>1, <1>3
  <2>2. c[m] = x[(u + n) + m]
    BY <1>1, <2>1
  <2>3. b[m] = y[n + m]
    BY <1>1, <2>1
  <2>4. y[n + m] = x[u + (n + m)]
    BY <1>1, <2>1
  <2>5. u + (n + m) = (u + n) + m
    BY <2>1
  <2> QED
    BY <2>2, <2>3, <2>4, <2>5
<1> HIDE DEF b, c
<1>5. Len(c) = Len(b)
  BY <1>1, <1>2, <1>3
<1> QED
  BY <1>2, <1>3, <1>4, <1>5, SeqEqual DEF b, c

\* fwrite is called with what is left of a buffer: all of it goes to the
\* stream and through it, or a failure loses what the stream has.
LEMMA WriteIsAWriteOrAFailure ==
  ASSUME IInv, FileTypes, Filled, WriteBuffer \/ WriteStops \/ GiveUp
  PROVE  [LC!Next]_(LC!vars)
<1> DEFINE S == 1..MaxMessages
           v == buffers_to_write
           x == v[i]
           M == Messages(SubSeq(v, i + 1, Len(v)))
           r == M \o FrontEnd
<1>1. /\ pc \in {"write", "rewrite"} /\ ~AllWritten
      /\ UNCHANGED <<buffers_, current_buffer_, buffers_to_write, i, appended>>
  BY DEF WriteBuffer, WriteStops, GiveUp, backVars, frontVars, FileTypes
<1>2. /\ v \in Seq(Seq(S)) /\ i \in 1..Len(v)
      /\ x \in Seq(S) /\ Len(x) \in Nat
      /\ taken \in 0..Len(x) /\ Rest \in Seq(S) /\ Len(Rest) = Len(x) - taken
      /\ stdio \in Seq(S) /\ FrontEnd \in Seq(S) /\ file \in Seq(S)
      /\ Waiting = stdio \o (Pending \o FrontEnd)
  BY <1>1, RestIs, ChannelTypes DEF Buffers
<1>3. Len(x) <= Capacity /\ Len(stdio) <= kStdioBuffer /\ Len(stdio) \in Nat
  <2>1. Len(x) <= Capacity
    BY <1>1, <1>2 DEF Filled
  <2>2. Len(stdio) <= kStdioBuffer
    BY DEF FileTypes
  <2> QED
    BY <1>2, <2>1, <2>2, LenProperties
<1>4. M \in Seq(S) /\ Pending = Rest \o M
  BY <1>2, PendingCut DEF Pending, Rest
<1>5. r \in Seq(S)
  BY <1>2, <1>4, ConcatProperties
\* What is waiting after the call, for what fwrite has taken by then.
<1>6. ASSUME NEW t \in 0..Len(x), taken' = t
      PROVE  /\ SubSeq(x, t + 1, Len(x)) \in Seq(S)
             /\ Pending' = SubSeq(x, t + 1, Len(x)) \o M
  <2>1. Pending' = PendingOf(v, i, t)
    BY <1>1, <1>6 DEF Pending
  <2> QED
    BY <1>2, <2>1, PendingCut
<1>7. Waiting' = stdio' \o Pending' \o Messages(buffers_) \o current_buffer_
  BY <1>1 DEF Waiting
<1>8. /\ Messages(buffers_) \in Seq(S) /\ current_buffer_ \in Seq(S)
      /\ FrontEnd = Messages(buffers_) \o current_buffer_
  BY ChannelTypes DEF FrontEnd
<1>9. FileTypes'
  <2>1. [Next]_vars
    BY DEF Next, Backend
  <2> QED
    BY <2>1, FileStep
<1>10. stdio' \in Seq(S)
  BY <1>9 DEF FileTypes, Buffers
<1>11. ASSUME NEW q \in Seq(S), Pending' = q \o M
       PROVE  Waiting' = stdio' \o (q \o r)
  <2>1. Pending' \in Seq(S)
    BY <1>4, <1>11, ConcatProperties
  <2>2. Waiting' = stdio' \o (Pending' \o FrontEnd)
    <3> DEFINE s == stdio'
               p == Pending'
               u == Messages(buffers_)
    <3>1. /\ s \in Seq(1..MaxMessages) /\ p \in Seq(1..MaxMessages)
          /\ u \in Seq(1..MaxMessages) /\ current_buffer_ \in Seq(1..MaxMessages)
      BY <1>8, <1>10, <2>1
    <3>2. Waiting' = s \o p \o u \o current_buffer_
      BY <1>7
    <3>3. FrontEnd = u \o current_buffer_
      BY <1>8
    <3> HIDE DEF s, p, u
    <3>4. s \o p \o u \o current_buffer_ = s \o (p \o (u \o current_buffer_))
      <4> DEFINE c == current_buffer_
      <4>1. /\ s \in Seq(1..MaxMessages) /\ p \in Seq(1..MaxMessages)
            /\ u \in Seq(1..MaxMessages) /\ c \in Seq(1..MaxMessages)
        BY <3>1
      <4> HIDE DEF c
      <4>2. ((s \o p) \o u) \o c = (s \o p) \o (u \o c)
        <5> DEFINE sp == s \o p
        <5>1. /\ sp \in Seq(1..MaxMessages) /\ u \in Seq(1..MaxMessages)
              /\ c \in Seq(1..MaxMessages)
          BY <4>1, ConcatProperties
        <5> HIDE DEF sp
        <5>2. (sp \o u) \o c = sp \o (u \o c)
          BY <5>1, BuffersAssociate, ZenonT(60)
        <5> QED
          BY <5>2 DEF sp
      <4>3. (s \o p) \o (u \o c) = s \o (p \o (u \o c))
        <5> DEFINE uc == u \o c
        <5>1. /\ uc \in Seq(1..MaxMessages) /\ s \in Seq(1..MaxMessages)
              /\ p \in Seq(1..MaxMessages)
          BY <4>1, ConcatProperties
        <5> HIDE DEF uc
        <5>2. (s \o p) \o uc = s \o (p \o uc)
          BY <5>1, BuffersAssociate, ZenonT(60)
        <5> QED
          BY <5>2 DEF uc
      <4> QED
        BY <4>2, <4>3 DEF c
    <3>5. Waiting' = s \o (p \o FrontEnd)
      BY <3>2, <3>3, <3>4
    <3> QED
      BY <3>5 DEF s, p
  <2>3. M \in Seq(1..MaxMessages) /\ FrontEnd \in Seq(1..MaxMessages)
        /\ q \in Seq(1..MaxMessages)
    BY <1>2, <1>4
  <2> HIDE DEF M
  <2>4. (q \o M) \o FrontEnd = q \o (M \o FrontEnd)
    BY <2>3, BuffersAssociate, ZenonT(60)
  <2> QED
    BY <1>11, <2>2, <2>4 DEF r
<1>12. Waiting = stdio \o (Rest \o r) /\ Waiting = (stdio \o Rest) \o r
  <2>1. /\ M \in Seq(1..MaxMessages) /\ FrontEnd \in Seq(1..MaxMessages)
        /\ Rest \in Seq(1..MaxMessages) /\ stdio \in Seq(1..MaxMessages)
        /\ r \in Seq(1..MaxMessages)
    BY <1>2, <1>4, <1>5
  <2>2. (Rest \o M) \o FrontEnd = Rest \o r
    <3> HIDE DEF M
    <3> QED
      BY <2>1, BuffersAssociate, ZenonT(60) DEF r
  <2> HIDE DEF r
  <2>3. (stdio \o Rest) \o r = stdio \o (Rest \o r)
    BY <2>1, BuffersAssociate, ZenonT(60)
  <2> QED
    BY <1>2, <1>4, <2>2, <2>3
<1>13. Capacity \in Nat /\ kStdioBuffer \in Nat
  BY BufferAssumption, StdioAssumption DEF Capacity
<1>14. <<>> \in Seq(S) /\ Len(<<>>) = 0
  OBVIOUS
<1>18. /\ Len(x) \in Nat /\ taken \in Nat /\ taken <= Len(x)
       /\ Len(Rest) \in Nat /\ Len(Rest) = Len(x) - taken /\ Len(Rest) <= Capacity
  <2>1. taken \in 0..Len(x) /\ Len(x) \in Nat /\ Len(Rest) = Len(x) - taken
    BY <1>2
  <2> DEFINE l == Len(x)
             q == Len(Rest)
  <2>2. taken \in 0..l /\ l \in Nat /\ q = l - taken /\ l <= Capacity
    BY <1>3, <2>1
  <2> HIDE DEF l, q
  <2>3. /\ taken \in Nat /\ taken <= l /\ q \in Nat /\ q <= Capacity
    BY <1>13, <2>2
  <2> QED
    BY <2>1, <2>3 DEF l, q
<1>19. Rest = SubSeq(x, taken + 1, Len(x))
  BY DEF Rest
<1> HIDE DEF M, r, x, v
<1>15. CASE WriteBuffer
  <2>1. PassOn(stdio \o Rest, kStdioBuffer) /\ taken' = Len(x)
    BY <1>15 DEF WriteBuffer, x, v
  <2>2. SubSeq(x, Len(x) + 1, Len(x)) = <<>> /\ Len(x) \in 0..Len(x)
    BY <1>2, SubSeqEmpty
  <2>3. Pending' = <<>> \o M
    BY <1>6, <2>1, <2>2
  <2>4. Waiting' = stdio' \o (<<>> \o r)
    BY <1>11, <1>14, <2>3
  <2>5. Waiting' = stdio' \o r
    BY <1>5, <2>4, ConcatEmptySeq
  <2>6. stdio \o Rest \in Seq(S)
    BY <1>2, ConcatProperties
  <2> QED
    BY <1>1, <1>2, <1>5, <1>12, <2>1, <2>5, <2>6, PassOnIsAWrite
<1>16. CASE WriteStops
  <2>1. PICK n \in 0..(Len(Rest) - 1) :
          BreakOff(stdio \o SubSeq(Rest, 1, n), <<>>) /\ taken' = taken + n
    BY <1>16 DEF WriteStops
  <2> DEFINE a == SubSeq(Rest, 1, n)
             b == SubSeq(Rest, n + 1, Len(Rest))
             t == taken + n
  <2>2. n \in Nat /\ n <= Len(Rest) /\ t \in 0..Len(x) /\ t \in Nat
    <3> DEFINE l == Len(x)
               q == Len(Rest)
    <3>1. l \in Nat /\ taken \in Nat /\ q \in Nat /\ q = l - taken /\ n \in 0..(q - 1)
      BY <1>18
    <3> HIDE DEF l, q
    <3>2. n \in Nat /\ n <= q /\ taken + n \in 0..l /\ taken + n \in Nat
      BY <3>1
    <3> QED
      BY <3>2 DEF l, q
  <2>3. /\ a \in Seq(S) /\ b \in Seq(S) /\ Rest = a \o b /\ Len(a) = n
    <3> DEFINE w == Rest
    <3>1. w \in Seq(S) /\ n \in Nat /\ n <= Len(w)
      BY <1>2, <2>2
    <3> HIDE DEF w
    <3>2. /\ SubSeq(w, 1, n) \in Seq(S) /\ Len(SubSeq(w, 1, n)) = n
          /\ SubSeq(w, n + 1, Len(w)) \in Seq(S)
          /\ SubSeq(w, 1, n) \o SubSeq(w, n + 1, Len(w)) = w
      BY <3>1, Pieces
    <3> QED
      BY <3>2 DEF w
  <2>4. SubSeq(x, t + 1, Len(x)) = b
    <3>1. /\ x \in Seq(S) /\ taken \in Nat /\ taken <= Len(x) /\ Rest \in Seq(S)
          /\ n \in Nat /\ n <= Len(Rest) /\ Rest = SubSeq(x, taken + 1, Len(x))
      BY <1>2, <1>18, <1>19, <2>2
    <3> DEFINE u == taken
               y == Rest
    <3>2. /\ x \in Seq(S) /\ u \in Nat /\ u <= Len(x) /\ y \in Seq(S)
          /\ n \in Nat /\ n <= Len(y) /\ y = SubSeq(x, u + 1, Len(x))
      BY <3>1
    <3> HIDE DEF u, y
    <3>3. SubSeq(x, (u + n) + 1, Len(x)) = SubSeq(y, n + 1, Len(y))
      BY <3>2, CutTwice
    <3> QED
      BY <3>3 DEF u, y
  <2> HIDE DEF a, b
  <2>5. Pending' = b \o M
    BY <1>6, <2>1, <2>2, <2>4
  <2>6. stdio' = <<>>
    BY <2>1 DEF BreakOff
  <2>7. b \o r \in Seq(S)
    BY <1>5, <2>3, ConcatProperties
  <2>8. Waiting' = b \o r
    BY <1>11, <2>3, <2>5, <2>6, <2>7, ConcatEmptySeq
  <2>9. Waiting = (stdio \o a) \o (<<>> \o (b \o r))
    <3>1. /\ stdio \in Seq(1..MaxMessages) /\ a \in Seq(1..MaxMessages)
          /\ b \in Seq(1..MaxMessages) /\ r \in Seq(1..MaxMessages)
          /\ b \o r \in Seq(1..MaxMessages)
      BY <1>2, <1>5, <2>3, <2>7
    <3>2. (a \o b) \o r = a \o (b \o r)
      BY <3>1, BuffersAssociate, ZenonT(60)
    <3>3. (stdio \o a) \o (b \o r) = stdio \o (a \o (b \o r))
      <4> DEFINE c == stdio
                 br == b \o r
      <4>1. /\ c \in Seq(1..MaxMessages) /\ a \in Seq(1..MaxMessages)
            /\ br \in Seq(1..MaxMessages)
        BY <3>1
      <4> HIDE DEF c, br
      <4>2. (c \o a) \o br = c \o (a \o br)
        BY <4>1, BuffersAssociate, ZenonT(60)
      <4> QED
        BY <4>2 DEF c, br
    <3>4. <<>> \o (b \o r) = b \o r
      BY <2>7, ConcatEmptySeq
    <3> QED
      BY <1>12, <2>3, <3>2, <3>3, <3>4
  <2>10. stdio \o a \in Seq(S) /\ Len(stdio \o a) = Len(stdio) + n
    BY <1>2, <2>3, ConcatProperties
  <2>11. Len(stdio \o a) + Len(<<>>) <= kStdioBuffer + Capacity
    <3>1. Len(stdio) + n <= kStdioBuffer + Capacity
      BY <1>3, <1>13, <1>18, <2>2
    <3> QED
      BY <1>3, <1>14, <2>2, <2>10, <3>1
  <2>12. BreakOff(stdio \o a, <<>>)
    BY <2>1 DEF a
  <2> QED
    BY <1>1, <1>14, <2>7, <2>8, <2>9, <2>10, <2>11, <2>12, BreakOffIsAFailure
<1>17. CASE GiveUp
  <2>1. BreakOff(stdio, Rest) /\ taken' = Len(x)
    BY <1>17 DEF GiveUp, x, v
  <2>2. SubSeq(x, Len(x) + 1, Len(x)) = <<>> /\ Len(x) \in 0..Len(x)
    BY <1>2, SubSeqEmpty
  <2>3. Pending' = <<>> \o M /\ stdio' = <<>>
    BY <1>6, <2>1, <2>2 DEF BreakOff
  <2>4. Waiting' = <<>> \o (<<>> \o r)
    BY <1>11, <1>14, <2>3
  <2>5. Waiting' = r
    BY <1>5, <2>4, ConcatEmptySeq
  <2>6. Len(stdio) + Len(Rest) <= kStdioBuffer + Capacity
    BY <1>3, <1>13, <1>18
  <2> QED
    BY <1>1, <1>2, <1>5, <1>12, <2>1, <2>5, <2>6, BreakOffIsAFailure
<1> QED
  BY <1>15, <1>16, <1>17

\* A step that leaves the vector, the front end and what is to write as they
\* are, and flushes or leaves the stream alone.
LEMMA FlushingStep ==
  ASSUME IInv, FileTypes, Flush \/ UNCHANGED <<file, stdio, dropped, failures>>,
         Pending' = Pending, UNCHANGED <<buffers_, current_buffer_, appended>>
  PROVE  [LC!Next]_(LC!vars)
<1>1. CASE UNCHANGED <<file, stdio, dropped, failures>>
  <2>1. Waiting' = Waiting
    BY <1>1 DEF Waiting
  <2> QED
    BY <1>1, <2>1, ChannelStays
<1>2. CASE Flush
  <2> DEFINE r == Pending \o FrontEnd
  <2>1. /\ r \in Seq(1..MaxMessages) /\ Waiting = stdio \o r
        /\ Pending \in Seq(1..MaxMessages) /\ Messages(buffers_) \in Seq(1..MaxMessages)
        /\ current_buffer_ \in Seq(1..MaxMessages)
    BY ChannelTypes
  <2>2. stdio' = <<>> /\ <<>> \in Seq(1..MaxMessages)
    BY <1>2, Flushed
  <2>3. Waiting' = <<>> \o Pending \o Messages(buffers_) \o current_buffer_
    BY <2>2 DEF Waiting
  <2>4. Waiting' = <<>> \o r
    <3> DEFINE u == Messages(buffers_)
               p == Pending
    <3>1. /\ p \in Seq(1..MaxMessages) /\ u \in Seq(1..MaxMessages)
          /\ current_buffer_ \in Seq(1..MaxMessages) /\ <<>> \in Seq(1..MaxMessages)
      BY <2>1, <2>2
    <3>2. Waiting' = <<>> \o p \o u \o current_buffer_
      BY <2>3
    <3>3. r = p \o (u \o current_buffer_)
      BY DEF FrontEnd
    <3> HIDE DEF p, u, r
    <3>4. <<>> \o p \o u \o current_buffer_ = <<>> \o (p \o (u \o current_buffer_))
      BY <3>1, FourAssociate
    <3> QED
      BY <3>2, <3>3, <3>4
  <2> HIDE DEF r
  <2>5. Waiting' = r
    BY <2>1, <2>4, ConcatEmptySeq
  <2> QED
    BY <1>2, <2>1, <2>5, FlushIsAWriteOrAFailure
<1> QED
  BY <1>1, <1>2

\* The next buffer: the one that is done with left nothing to write.
LEMMA CountingIsAFlush ==
  ASSUME IInv, FileTypes, CountBuffer
  PROVE  [LC!Next]_(LC!vars)
<1>1. /\ pc = "count" /\ i' = i + 1 /\ taken' = 0
      /\ UNCHANGED <<buffers_to_write, buffers_, current_buffer_, appended>>
      /\ Flush \/ UNCHANGED <<file, stdio, dropped, failures>>
  BY DEF CountBuffer, frontVars
<1>2. ~AllWritten /\ taken = Len(buffers_to_write[i])
  BY <1>1 DEF FileTypes
<1>3. i \in 1..Len(buffers_to_write) /\ buffers_to_write \in Seq(Seq(1..MaxMessages))
  BY <1>2, RestIs, ChannelTypes
<1>4. Pending' = Pending
  BY <1>1, <1>2, <1>3, PendingNext DEF Pending
<1> QED
  BY <1>1, <1>4, FlushingStep

\* The buffers that are taken back have been written: they are not in the
\* channel any more.
LEMMA RecyclingIsAFlush ==
  ASSUME IInv, FileTypes, RecycleBuffers
  PROVE  [LC!Next]_(LC!vars)
<1>1. /\ AllWritten /\ buffers_to_write' = <<>> /\ i' = 1 /\ taken' = taken
      /\ UNCHANGED <<buffers_, current_buffer_, appended>> /\ Flush
  BY DEF RecycleBuffers, frontVars
<1>2. /\ i \in Nat /\ i > Len(buffers_to_write) /\ taken \in Nat
      /\ buffers_to_write \in Seq(Seq(1..MaxMessages))
  BY <1>1, ChannelTypes DEF FileTypes, AllWritten
<1>3. Pending = <<>>
  BY <1>2, PendingNone DEF Pending
<1>4. Pending' = <<>>
  <2>1. <<>> \in Seq(Seq(1..MaxMessages)) /\ 1 \in Nat /\ 1 > Len(<<>>)
    BY EmptySeq
  <2>2. PendingOf(<<>>, 1, taken) = <<>>
    BY <1>2, <2>1, PendingNone
  <2> QED
    BY <1>1, <2>2 DEF Pending
<1> QED
  BY <1>1, <1>3, <1>4, FlushingStep

LEMMA ChannelStep ==
  ASSUME IInv, FileTypes, Filled, [Next]_vars
  PROVE  [LC!Next]_(LC!vars)
<1>1. CASE AppendMessage
  BY <1>1, MessageAppended DEF LC!Next
<1>2. CASE Start \/ Stop \/ TestRunning \/ WaitForBuffers \/ UNCHANGED vars
  <2>1. /\ UNCHANGED <<buffers_, current_buffer_, appended, buffers_to_write, i, taken>>
        /\ Flush \/ UNCHANGED <<file, stdio, dropped, failures>>
    BY <1>2 DEF Start, Stop, TestRunning, WaitForBuffers, vars, frontVars,
                backVars, fileVars, histVars
  <2>2. Pending' = Pending
    BY <2>1 DEF Pending
  <2> QED
    BY <2>1, <2>2, FlushingStep
<1>3. CASE SwapBuffers
  BY <1>3, SwapIsInternal
<1>4. CASE TrimBuffers
  BY <1>4, PileUpIsADiscard
<1>5. CASE WriteBuffer \/ WriteStops \/ GiveUp
  BY <1>5, WriteIsAWriteOrAFailure
<1>6. CASE CountBuffer
  BY <1>6, CountingIsAFlush
<1>7. CASE RecycleBuffers
  BY <1>7, RecyclingIsAFlush
<1> QED
  BY <1>1, <1>2, <1>3, <1>4, <1>5, <1>6, <1>7 DEF Next, Backend

LEMMA ChannelInit ==
  ASSUME Init
  PROVE  LC!Init /\ Filled
<1>1. /\ buffers_to_write = <<>> /\ buffers_ = <<>> /\ current_buffer_ = <<>>
      /\ appended = 0 /\ file = <<>> /\ stdio = <<>> /\ failures = 0
      /\ i = 1 /\ taken = 0 /\ pc = "off"
  BY DEF Init
<1>2. <<>> \in Seq(Seq(Nat)) /\ 1 \in Nat /\ 0 \in Nat /\ 1 > Len(<<>>)
  BY EmptySeq
<1>3. PendingOf(<<>>, 1, 0) = <<>>
  BY <1>2, PendingNone
<1>4. Messages(<<>>) = <<>>
  BY <1>2, FlattenTypes DEF Messages
<1>5. Waiting = <<>>
  BY <1>1, <1>3, <1>4, EmptySeq, ConcatEmptySeq DEF Waiting, Pending
<1>6. LC!Init
  BY <1>1, <1>5 DEF LC!Init, Waiting, Pending, PendingOf, Swapped
<1>7. Filled
  BY <1>1, BufferAssumption DEF Filled, Capacity
<1> QED
  BY <1>6, <1>7

\* AsyncLogging is a FIFO channel from Append() to the file, for every size of
\* the buffers and of the stream and every number of messages: no buffer is
\* written twice, out of turn or half, none is left behind in the swap, and
\* what is lost is lost in a pile-up behind the two oldest buffers or in a
\* failing call of fwrite or fflush, at most what the stream holds and one
\* buffer at a time.
THEOREM LogIsAChannel == Spec => ImplementsChannel
<1>1. Init => IInv /\ FileTypes /\ Filled /\ LC!Init
  BY ExchangeInit, FileInit, ChannelInit
<1>2. IInv /\ FileTypes /\ Filled /\ [Next]_vars => Filled'
  BY FilledStep
<1>3. IInv /\ FileTypes /\ Filled /\ [Next]_vars => [LC!Next]_(LC!vars)
  BY ChannelStep
<1> QED
  BY <1>1, <1>2, <1>3, ExchangeStep, FileStep, PTL
  DEF Spec, ImplementsChannel, LC!Spec
=============================================================================
