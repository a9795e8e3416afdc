--------------------------- MODULE SseClientProofs ---------------------------
(***************************************************************************)
(* Theorems about the readers of an event stream, for all responses of any *)
(* number of frames, in any pieces, and all sizes of the Go channel.       *)
(***************************************************************************)
EXTENDS SseClient, FiniteSetTheorems, SequenceTheorems, TLAPS

-----------------------------------------------------------------------------
(* Flattened sequences.  The function that FlattenSeq is defined with is   *)
(* recursive, so that it takes an induction to know that it exists.        *)

LEMMA LeastElement ==
  ASSUME NEW B \in SUBSET Nat, B # {}
  PROVE  \E m \in B : \A j \in B : m <= j
<1>1. PICK n \in B : TRUE
  OBVIOUS
<1> DEFINE T == {0 .. k : k \in B}
<1>2. T \subseteq FiniteSubsetsOf(Nat) /\ T # {}
  <2>1. ASSUME NEW k \in B
        PROVE  0 .. k \in SUBSET Nat /\ IsFiniteSet(0 .. k)
    BY FS_Interval
  <2>2. QED
    BY <2>1, <1>1 DEF FiniteSubsetsOf
<1>3. IsWellFoundedOn(StrictSubsetOrdering(Nat), FiniteSubsetsOf(Nat))
  BY FS_StrictSubsetOrderingWellFounded
<1>4. PICK x \in T : \A y \in T : ~ (<<y, x>> \in StrictSubsetOrdering(Nat))
  <2> HIDE DEF T
  <2> QED
    BY <1>2, <1>3, WFMin
<1>5. PICK m \in B : x = 0 .. m
  OBVIOUS
<1>6. ASSUME NEW j \in B, j < m
      PROVE  FALSE
  <2>1. 0 .. j \in T /\ 0 .. j \in SUBSET Nat /\ 0 .. m \in SUBSET Nat /\ 0 .. j \subseteq 0 .. m
    BY <1>6
  <2>2. m \in 0 .. m /\ m \notin 0 .. j
    BY <1>6
  <2>3. <<0 .. j, 0 .. m>> \in StrictSubsetOrdering(Nat)
    BY <2>1, <2>2 DEF StrictSubsetOrdering
  <2>4. QED
    BY <2>1, <2>3, <1>4, <1>5
<1>7. QED
  BY <1>6

LEMMA Induction ==
  ASSUME NEW S, 0 \in S, \A n \in Nat : n \in S => n + 1 \in S
  PROVE  \A n \in Nat : n \in S
<1> DEFINE B == {n \in Nat : n \notin S}
<1>1. CASE B = {}
  BY <1>1
<1>2. CASE B # {}
  <2>1. PICK m \in B : \A j \in B : m <= j
    BY <1>2, LeastElement
  <2>2. m # 0 /\ m - 1 \in Nat
    OBVIOUS
  <2>3. m - 1 \in S
    BY <2>1, <2>2
  <2>4. QED
    BY <2>1, <2>2, <2>3
<1>3. QED
  BY <1>1, <1>2

-----------------------------------------------------------------------------

\* What FlattenSeq's function is, on the first n sequences of s.
Flattens(f, s, n) ==
  f = [i \in 1 .. n |-> IF i = 1 THEN s[i] ELSE f[i - 1] \o s[i]]

LEMMA FlattensAt ==
  ASSUME NEW s, NEW n \in Nat, NEW f, Flattens(f, s, n), NEW i \in 1 .. n
  PROVE  f[i] = IF i = 1 THEN s[i] ELSE f[i - 1] \o s[i]
<1> DEFINE At(j) == IF j = 1 THEN s[j] ELSE f[j - 1] \o s[j]
<1>1. f = [j \in 1 .. n |-> At(j)]
  BY Zenon DEF Flattens
<1>2. f[i] = At(i)
  <2> HIDE DEF At
  <2> QED
    BY <1>1
<1>3. QED
  BY <1>2

LEMMA FlattensExists ==
  ASSUME NEW s
  PROVE  \A n \in Nat : \E f : Flattens(f, s, n)
<1> DEFINE S == {n \in Nat : \E f : Flattens(f, s, n)}
<1>1. 0 \in S
  <2>1. Flattens([i \in 1 .. 0 |-> 0], s, 0)
    BY DEF Flattens
  <2>2. QED
    BY <2>1
<1>2. ASSUME NEW n \in Nat, n \in S
      PROVE  n + 1 \in S
  <2>1. PICK f : Flattens(f, s, n)
    BY <1>2
  <2> DEFINE g == [i \in 1 .. n + 1 |->
                     IF i = 1 THEN s[i] ELSE IF i = n + 1 THEN f[n] \o s[i] ELSE f[i]]
  <2>2. ASSUME NEW i \in 1 .. n + 1
        PROVE  g[i] = IF i = 1 THEN s[i] ELSE g[i - 1] \o s[i]
    <3>1. CASE i = 1
      BY <3>1
    <3>2. CASE i # 1 /\ i # n + 1
      <4>1. i \in 1 .. n /\ i - 1 \in 1 .. n /\ i - 1 # n + 1
        BY <3>2
      <4>2. f[i] = f[i - 1] \o s[i]
        BY <2>1, <3>2, <4>1 DEF Flattens
      <4>3. g[i - 1] = f[i - 1]
        <5>1. CASE i - 1 = 1
          BY <2>1, <4>1, <5>1 DEF Flattens
        <5>2. QED
          BY <4>1, <5>1
      <4>4. QED
        BY <3>2, <4>2, <4>3
    <3>3. CASE i # 1 /\ i = n + 1
      <4>1. n \in 1 .. n /\ n # n + 1
        BY <3>3
      <4>2. g[n] = f[n]
        <5>1. CASE n = 1
          BY <2>1, <4>1, <5>1 DEF Flattens
        <5>2. QED
          BY <4>1, <5>1
      <4>3. g[i] = f[n] \o s[i]
        BY <3>3, Zenon
      <4> i - 1 = n
        BY <3>3
      <4>4. QED
        <5> HIDE DEF g
        <5> QED
          BY <3>3, <4>2, <4>3
    <3>4. QED
      BY <3>1, <3>2, <3>3
  <2>3. g = [i \in 1 .. n + 1 |-> g[i]]
    OBVIOUS
  <2>4. Flattens(g, s, n + 1)
    <3> HIDE DEF g
    <3> QED
      BY <2>2, <2>3 DEF Flattens
  <2>5. QED
    BY <2>4
<1>3. QED
  <2> HIDE DEF S
  <2>1. \A n \in Nat : n \in S
    BY <1>1, <1>2, Induction
  <2>2. QED
    BY <2>1 DEF S

LEMMA FlattensUnique ==
  ASSUME NEW s, NEW t, NEW m \in Nat, NEW n \in Nat, m <= n, NEW f, NEW g,
         Flattens(f, s, m), Flattens(g, t, n), \A i \in 1 .. m : s[i] = t[i]
  PROVE  \A i \in 1 .. m : f[i] = g[i]
<1> DEFINE S == {i \in Nat : i \in 1 .. m => f[i] = g[i]}
<1>1. 0 \in S
  OBVIOUS
<1>2. ASSUME NEW i \in Nat, i \in S
      PROVE  i + 1 \in S
  <2>1. CASE i + 1 \notin 1 .. m
    BY <2>1
  <2>2. CASE i + 1 \in 1 .. m
    <3>1. i + 1 \in 1 .. n /\ (i + 1 # 1 => i \in 1 .. m) /\ (i + 1) - 1 = i
      BY <2>2
    <3>2. f[i + 1] = IF i + 1 = 1 THEN s[i + 1] ELSE f[i] \o s[i + 1]
      BY <2>2, <3>1, FlattensAt
    <3>3. g[i + 1] = IF i + 1 = 1 THEN t[i + 1] ELSE g[i] \o t[i + 1]
      BY <3>1, FlattensAt
    <3>4. s[i + 1] = t[i + 1]
      BY <2>2
    <3>5. QED
      BY <1>2, <3>1, <3>2, <3>3, <3>4
  <2>3. QED
    BY <2>1, <2>2
<1>3. QED
  <2> HIDE DEF S
  <2>1. \A n_1 \in Nat : n_1 \in S
    BY <1>1, <1>2, Induction
  <2>2. QED
    BY <2>1 DEF S

LEMMA FlattenIs ==
  ASSUME NEW s, Len(s) \in Nat \ {0}
  PROVE  \E f : Flattens(f, s, Len(s)) /\ FlattenSeq(s) = f[Len(s)]
<1> DEFINE flat == CHOOSE f : Flattens(f, s, Len(s))
<1>1. Flattens(flat, s, Len(s))
  BY FlattensExists
<1>2. FlattenSeq(s) = flat[Len(s)]
  BY DEF FlattenSeq, Flattens
<1>3. QED
  BY <1>1, <1>2

\* The flattening of the first n sequences of s.
Flat(s, n) == FlattenSeq([i \in 1 .. n |-> s[i]])

LEMMA FlatZero ==
  ASSUME NEW s
  PROVE  Flat(s, 0) = <<>>
<1>1. [i \in 1 .. 0 |-> s[i]] = <<>>
  OBVIOUS
<1>2. QED
  BY <1>1 DEF Flat, FlattenSeq

LEMMA FlatStep ==
  ASSUME NEW s, NEW n \in Nat, NEW A, \A i \in 1 .. n + 1 : s[i] \in Seq(A)
  PROVE  Flat(s, n + 1) = Flat(s, n) \o s[n + 1]
<1> DEFINE t == [i \in 1 .. n + 1 |-> s[i]]
           u == [i \in 1 .. n |-> s[i]]
<1>1. /\ t \in Seq(Seq(A)) /\ Len(t) = n + 1 /\ \A i \in 1 .. n + 1 : t[i] = s[i]
      /\ u \in Seq(Seq(A)) /\ Len(u) = n /\ \A i \in 1 .. n : u[i] = s[i]
  OBVIOUS
<1>2. Flat(s, n + 1) = FlattenSeq(t) /\ Flat(s, n) = FlattenSeq(u)
  BY DEF Flat
<1> HIDE DEF t, u
<1>3. PICK f : Flattens(f, t, n + 1) /\ FlattenSeq(t) = f[n + 1]
  BY <1>1, FlattenIs
<1>4. CASE n = 0
  <2>1. f[1] = s[1]
    BY <1>1, <1>3, <1>4, FlattensAt
  <2>2. Flat(s, 0) = <<>>
    BY FlatZero
  <2>3. s[1] \in Seq(A)
    BY <1>4
  <2>4. <<>> \o s[1] = s[1]
    BY <2>3, ConcatEmptySeq
  <2>5. QED
    BY <1>2, <1>3, <1>4, <2>1, <2>2, <2>4
<1>5. CASE n # 0
  <2>1. PICK g : Flattens(g, u, n) /\ FlattenSeq(u) = g[n]
    BY <1>1, <1>5, FlattenIs
  <2>2. g[n] = f[n]
    <3>1. \A i \in 1 .. n : u[i] = t[i]
      <4>1. \A i \in 1 .. n : i \in 1 .. n + 1
        OBVIOUS
      <4>2. QED
        BY <1>1, <4>1, Zenon
    <3>2. \A i \in 1 .. n : g[i] = f[i]
      <4> n <= n + 1 /\ n + 1 \in Nat
        OBVIOUS
      <4> QED
        BY <1>3, <2>1, <3>1, FlattensUnique
    <3>3. QED
      BY <1>5, <3>2
  <2>3. f[n + 1] = f[(n + 1) - 1] \o t[n + 1]
    <3> DEFINE m == n + 1
    <3>1. m # 1 /\ m \in Nat /\ m \in 1 .. m /\ Flattens(f, t, m)
      BY <1>3, <1>5
    <3> HIDE DEF m
    <3>2. ASSUME NEW i \in 1 .. m
          PROVE  f[i] = IF i = 1 THEN t[i] ELSE f[i - 1] \o t[i]
      BY <3>1, FlattensAt
    <3>3. f[m] = f[m - 1] \o t[m]
      BY <3>1, <3>2, Zenon
    <3>4. QED
      BY <3>3 DEF m
  <2>4. (n + 1) - 1 = n /\ t[n + 1] = s[n + 1]
    BY <1>1
  <2>5. QED
    BY <1>2, <1>3, <2>1, <2>2, <2>3, <2>4, Zenon
<1>6. QED
  BY <1>4, <1>5

LEMMA FlatType ==
  ASSUME NEW s, NEW n \in Nat, NEW A, \A i \in 1 .. n : s[i] \in Seq(A)
  PROVE  Flat(s, n) \in Seq(A)
<1> DEFINE S == {k \in Nat : k <= n => Flat(s, k) \in Seq(A)}
<1>1. 0 \in S
  <2>1. Flat(s, 0) \in Seq(A)
    BY FlatZero, EmptySeq
  <2>2. QED
    BY <2>1
<1>2. ASSUME NEW k \in Nat, k \in S
      PROVE  k + 1 \in S
  <2>1. CASE k + 1 <= n
    <3>1. \A i \in 1 .. k + 1 : s[i] \in Seq(A)
      BY <2>1
    <3>2. Flat(s, k + 1) = Flat(s, k) \o s[k + 1]
      BY <3>1, FlatStep
    <3>3. Flat(s, k) \in Seq(A) /\ s[k + 1] \in Seq(A)
      BY <1>2, <2>1, <3>1
    <3>4. Flat(s, k) \o s[k + 1] \in Seq(A)
      BY <3>3, ConcatProperties
    <3>5. Flat(s, k + 1) \in Seq(A)
      BY <3>2, <3>4, Zenon
    <3>6. QED
      BY <3>5
  <2>2. QED
    BY <2>1
<1>3. QED
  <2> HIDE DEF S
  <2>1. \A k \in Nat : k \in S
    BY <1>1, <1>2, Induction
  <2>2. QED
    BY <2>1 DEF S

LEMMA FlattenIsFlat ==
  ASSUME NEW A, NEW s \in Seq(A)
  PROVE  FlattenSeq(s) = Flat(s, Len(s))
<1>1. s = [i \in 1 .. Len(s) |-> s[i]]
  OBVIOUS
<1>2. QED
  BY <1>1 DEF Flat

LEMMA FlatSame ==
  ASSUME NEW s, NEW t, NEW n \in Nat, \A i \in 1 .. n : s[i] = t[i]
  PROVE  Flat(s, n) = Flat(t, n)
<1>1. [i \in 1 .. n |-> s[i]] = [i \in 1 .. n |-> t[i]]
  OBVIOUS
<1>2. QED
  BY <1>1 DEF Flat

\* IsPrefix, element by element.
Begins(a, b) == Len(a) <= Len(b) /\ \A i \in 1 .. Len(a) : b[i] = a[i]

LEMMA BeginsIsPrefix ==
  ASSUME NEW A, NEW a \in Seq(A), NEW b \in Seq(A), Begins(a, b)
  PROVE  IsPrefix(a, b)
<1>1. Len(a) \in Nat /\ Len(b) \in Nat /\ Len(a) <= Len(b)
  BY DEF Begins
<1>2. \A i \in 1 .. Len(a) : a[i] \in A /\ b[i] \in A
  BY <1>1, ElementOfSeq
<1>3. /\ SubSeq(a, 1, Len(a)) \in Seq(A) /\ SubSeq(b, 1, Len(a)) \in Seq(A)
      /\ Len(SubSeq(a, 1, Len(a))) = Len(a) /\ Len(SubSeq(b, 1, Len(a))) = Len(a)
      /\ \A i \in 1 .. Len(a) : SubSeq(a, 1, Len(a))[i] = a[i] /\ SubSeq(b, 1, Len(a))[i] = b[i]
  BY <1>1, <1>2
<1>4. SubSeq(a, 1, Len(a)) = SubSeq(b, 1, Len(a))
  <2>1. \A i \in 1 .. Len(a) : SubSeq(a, 1, Len(a))[i] = SubSeq(b, 1, Len(a))[i]
    BY <1>3 DEF Begins
  <2> DEFINE x == SubSeq(a, 1, Len(a))
             y == SubSeq(b, 1, Len(a))
  <2>2. x \in Seq(A) /\ y \in Seq(A) /\ Len(x) = Len(y) /\ \A i \in 1 .. Len(x) : x[i] = y[i]
    BY <1>3, <2>1
  <2> HIDE DEF x, y
  <2>3. x = y
    BY <2>2, SeqEqual
  <2>4. QED
    BY <2>3 DEF x, y
<1>5. QED
  BY <1>1, <1>4 DEF IsPrefix

LEMMA BeginsConcat ==
  ASSUME NEW A, NEW a \in Seq(A), NEW b \in Seq(A), NEW c \in Seq(A), Begins(a, b)
  PROVE  Begins(a, b \o c)
<1>1. /\ Len(b \o c) = Len(b) + Len(c) /\ Len(a) \in Nat /\ Len(b) \in Nat /\ Len(c) \in Nat
      /\ \A i \in 1 .. Len(b) : (b \o c)[i] = b[i]
  BY ConcatProperties
<1>2. QED
  BY <1>1 DEF Begins

LEMMA FlatPrefix ==
  ASSUME NEW s, NEW n \in Nat, NEW A, \A i \in 1 .. n : s[i] \in Seq(A), NEW m \in 0 .. n
  PROVE  Begins(Flat(s, m), Flat(s, n))
<1> DEFINE S == {k \in Nat : m <= k /\ k <= n => Begins(Flat(s, m), Flat(s, k))}
<1>0. \A k \in 0 .. n : Flat(s, k) \in Seq(A)
  BY FlatType
<1>1. \A k \in Nat : k <= m => k \in S
  <2>1. Begins(Flat(s, m), Flat(s, m))
    BY <1>0 DEF Begins
  <2>2. QED
    BY <2>1
<1>2. ASSUME NEW k \in Nat, k \in S
      PROVE  k + 1 \in S
  <2>1. CASE m <= k /\ k + 1 <= n
    <3>1. /\ \A i \in 1 .. k + 1 : s[i] \in Seq(A)
          /\ s[k + 1] \in Seq(A)
      BY <2>1
    <3>2. Flat(s, k + 1) = Flat(s, k) \o s[k + 1]
      BY <3>1, FlatStep
    <3>3. Begins(Flat(s, m), Flat(s, k)) /\ Flat(s, m) \in Seq(A) /\ Flat(s, k) \in Seq(A)
      BY <1>0, <1>2, <2>1
    <3>4. Begins(Flat(s, m), Flat(s, k) \o s[k + 1])
      BY <3>1, <3>3, BeginsConcat
    <3>5. Begins(Flat(s, m), Flat(s, k + 1))
      BY <3>2, <3>4, Zenon
    <3>6. QED
      BY <3>5
  <2>2. CASE ~ (m <= k /\ k + 1 <= n)
    <3>1. k + 1 <= m \/ k + 1 > n
      BY <2>2
    <3>2. QED
      BY <1>1, <3>1
  <2>3. QED
    BY <2>1, <2>2
<1>3. 0 \in S
  BY <1>1
<1>4. QED
  <2> HIDE DEF S
  <2>1. \A k \in Nat : k \in S
    BY <1>2, <1>3, Induction
  <2>2. QED
    BY <2>1 DEF S

\* Flattening what follows.
LEMMA FlattenConcat ==
  ASSUME NEW A, NEW a \in Seq(Seq(A)), NEW b \in Seq(Seq(A))
  PROVE  FlattenSeq(a \o b) = FlattenSeq(a) \o FlattenSeq(b)
<1> DEFINE c == a \o b
           m == Len(a)
           S == {k \in Nat : k <= Len(b) => Flat(c, m + k) = Flat(a, m) \o Flat(b, k)}
<1>0. /\ m \in Nat /\ Len(b) \in Nat /\ Len(c) = m + Len(b)
      /\ c \in Seq(Seq(A))
      /\ \A i \in 1 .. m : c[i] = a[i]
      /\ \A i \in 1 .. Len(b) : m + i \in 1 .. Len(c) /\ c[m + i] = b[i]
      /\ \A i \in 1 .. m : a[i] \in Seq(A)
      /\ \A i \in 1 .. Len(b) : b[i] \in Seq(A)
      /\ \A i \in 1 .. Len(c) : c[i] \in Seq(A)
  <2>1. /\ c \in Seq(Seq(A)) /\ Len(c) = m + Len(b) /\ m \in Nat /\ Len(b) \in Nat
        /\ \A i \in 1 .. m + Len(b) : c[i] = IF i <= m THEN a[i] ELSE b[i - m]
    BY ConcatProperties
  <2> HIDE DEF c
  <2>2. \A i \in 1 .. m : c[i] = a[i]
    BY <2>1
  <2>3. ASSUME NEW i \in 1 .. Len(b)
        PROVE  m + i \in 1 .. Len(c) /\ c[m + i] = b[i]
    <3>1. m + i \in 1 .. m + Len(b) /\ ~ (m + i <= m) /\ (m + i) - m = i
      BY <2>1
    <3>2. QED
      BY <2>1, <3>1
  <2>4. QED
    BY <2>1, <2>2, <2>3, ElementOfSeq
<1> HIDE DEF c, m
<1>1. 0 \in S
  <2>1. Flat(c, m) = Flat(a, m) /\ m + 0 = m
    BY <1>0, FlatSame
  <2>2. Flat(a, m) \in Seq(A)
    BY <1>0, FlatType
  <2>3. Flat(a, m) \o <<>> = Flat(a, m)
    BY <2>2, ConcatEmptySeq
  <2>4. Flat(c, m + 0) = Flat(a, m) \o Flat(b, 0)
    BY <2>1, <2>3, FlatZero
  <2>5. QED
    BY <2>4
<1>2. ASSUME NEW k \in Nat, k \in S
      PROVE  k + 1 \in S
  <2>1. CASE k + 1 <= Len(b)
    <3>1. /\ k + 1 \in 1 .. Len(b) /\ m + k \in Nat /\ m + (k + 1) = (m + k) + 1
          /\ \A i \in 1 .. k + 1 : b[i] \in Seq(A)
          /\ \A i \in 1 .. (m + k) + 1 : c[i] \in Seq(A)
      <4> DEFINE x == Len(b)
                 y == Len(c)
      <4>1. m \in Nat /\ x \in Nat /\ y = m + x /\ k + 1 <= x
        BY <1>0, <2>1
      <4> HIDE DEF x, y
      <4>2. /\ k + 1 \in 1 .. x /\ m + k \in Nat /\ m + (k + 1) = (m + k) + 1
            /\ \A i \in 1 .. k + 1 : i \in 1 .. x
            /\ \A i \in 1 .. (m + k) + 1 : i \in 1 .. y
        BY <4>1
      <4>3. QED
        BY <1>0, <4>2, Zenon DEF x, y
    <3>2. Flat(c, (m + k) + 1) = Flat(c, m + k) \o c[(m + k) + 1]
      BY <3>1, FlatStep
    <3>3. Flat(b, k + 1) = Flat(b, k) \o b[k + 1]
      BY <3>1, FlatStep
    <3>4. Flat(c, m + k) = Flat(a, m) \o Flat(b, k)
      BY <1>2, <2>1
    <3>5. c[m + (k + 1)] = b[k + 1]
      BY <1>0, <3>1
    <3>6. Flat(a, m) \in Seq(A) /\ Flat(b, k) \in Seq(A) /\ b[k + 1] \in Seq(A)
      <4>1. Flat(a, m) \in Seq(A)
        BY <1>0, FlatType
      <4>2. \A i \in 1 .. k : b[i] \in Seq(A)
        BY <3>1
      <4>3. Flat(b, k) \in Seq(A)
        BY <4>2, FlatType
      <4>4. QED
        BY <3>1, <4>1, <4>3
    <3>7. (Flat(a, m) \o Flat(b, k)) \o b[k + 1] = Flat(a, m) \o (Flat(b, k) \o b[k + 1])
      <4>1. \A x, y, z \in Seq(A) : (x \o y) \o z = x \o (y \o z)
        BY ConcatAssociative, SMTT(30)
      <4>2. QED
        BY <3>6, <4>1, Zenon
    <3>8. Flat(c, m + (k + 1)) = Flat(a, m) \o Flat(b, k + 1)
      BY <3>1, <3>2, <3>3, <3>4, <3>5, <3>7, Zenon
    <3>9. QED
      BY <3>8
  <2>2. QED
    BY <2>1
<1>3. Len(b) \in S
  <2> HIDE DEF S
  <2>1. \A k \in Nat : k \in S
    BY <1>1, <1>2, Induction
  <2>2. QED
    BY <1>0, <2>1
<1>4. FlattenSeq(a) = Flat(a, m) /\ FlattenSeq(b) = Flat(b, Len(b))
  BY FlattenIsFlat DEF m
<1>5. FlattenSeq(c) = Flat(c, m + Len(b))
  BY <1>0, FlattenIsFlat
<1>6. QED
  <2>1. Flat(c, m + Len(b)) = Flat(a, m) \o Flat(b, Len(b))
    BY <1>0, <1>3
  <2>2. QED
    BY <1>4, <1>5, <2>1 DEF c

LEMMA FlattenSingles ==
  ASSUME NEW A, NEW d \in Seq(A)
  PROVE  FlattenSeq([i \in DOMAIN d |-> <<d[i]>>]) = d
<1> DEFINE s == [i \in DOMAIN d |-> <<d[i]>>]
           S == {k \in Nat : k <= Len(d) => Flat(s, k) = SubSeq(d, 1, k)}
<1>0. /\ DOMAIN d = 1 .. Len(d) /\ Len(d) \in Nat
      /\ \A i \in 1 .. Len(d) : d[i] \in A /\ s[i] = <<d[i]>> /\ s[i] \in Seq(A)
      /\ s \in Seq(Seq(A)) /\ Len(s) = Len(d)
  <2>1. DOMAIN d = 1 .. Len(d) /\ Len(d) \in Nat /\ \A i \in 1 .. Len(d) : d[i] \in A
    OBVIOUS
  <2>2. \A x \in A : <<x>> \in Seq(A)
    OBVIOUS
  <2>3. s = [i \in 1 .. Len(d) |-> <<d[i]>>]
    BY <2>1
  <2>4. \A i \in 1 .. Len(d) : s[i] = <<d[i]>> /\ s[i] \in Seq(A)
    BY <2>1, <2>2, <2>3
  <2>5. s \in [1 .. Len(d) -> Seq(A)]
    BY <2>3, <2>4
  <2> HIDE DEF s
  <2>6. s \in Seq(Seq(A)) /\ Len(s) = Len(d)
    BY <2>1, <2>5
  <2>7. QED
    BY <2>1, <2>4, <2>6
<1> HIDE DEF s
<1>1. 0 \in S
  <2>1. SubSeq(d, 1, 0) = <<>>
    BY SubSeqEmpty
  <2>2. QED
    BY <2>1, FlatZero
<1>2. ASSUME NEW k \in Nat, k \in S
      PROVE  k + 1 \in S
  <2>1. CASE k + 1 <= Len(d)
    <3>1. Flat(s, k + 1) = Flat(s, k) \o s[k + 1]
      <4>1. \A i \in 1 .. k + 1 : s[i] \in Seq(A)
        BY <1>0, <2>1
      <4>2. QED
        BY <4>1, FlatStep
    <3>2. Flat(s, k) = SubSeq(d, 1, k) /\ s[k + 1] = <<d[k + 1]>>
      BY <1>0, <1>2, <2>1
    <3>3. SubSeq(d, 1, k + 1) = SubSeq(d, 1, k) \o <<d[k + 1]>>
      <4>1. 1 \in 1 .. Len(d) /\ k + 1 \in 1 .. Len(d) /\ (k + 1) - 1 = k
        BY <1>0, <2>1
      <4>2. SubSeq(d, 1, k + 1) = SubSeq(d, 1, (k + 1) - 1) \o <<d[k + 1]>>
        BY <4>1, SubSeqRecursiveSecond
      <4>3. QED
        BY <4>1, <4>2
    <3>4. Flat(s, k + 1) = SubSeq(d, 1, k + 1)
      BY <3>1, <3>2, <3>3, Zenon
    <3>5. QED
      BY <3>4
  <2>2. QED
    BY <2>1
<1>3. Len(d) \in S
  <2> HIDE DEF S
  <2>1. \A k \in Nat : k \in S
    BY <1>1, <1>2, Induction
  <2>2. QED
    BY <1>0, <2>1
<1>4. FlattenSeq(s) = Flat(s, Len(d))
  BY <1>0, FlattenIsFlat
<1>5. SubSeq(d, 1, Len(d)) = d
  BY SubSeqFull
<1>6. QED
  BY <1>0, <1>3, <1>4, <1>5 DEF s

-----------------------------------------------------------------------------
(* Where a reader is. *)

\* The lines, and what is to be handed over, of the first n frames.
Upto(n) == Flat(Frames(conn.kinds), n)
FrameDocs(n) == Decoded(Docs(conn.kinds[n], n))
Sent(n) == Flat([i \in DOMAIN conn.kinds |-> FrameDocs(i)], n)

\* The data lines of a frame, in the order of its lines.
DataLines(kind, i) ==
  CASE kind = "split"   -> <<Data(kind, i, "first").value, Data(kind, i, "last").value>>
    [] kind = "comment" -> <<>>
    [] kind = "vendor"  -> <<Data(kind, i, "text").value>>
    [] OTHER            -> <<Data(kind, i, "whole").value>>

\* The lines of a frame that come before its data.
Before(kind) == IF kind \in {"event", "split", "batch", "comment"} THEN 1 ELSE 0

\* What is pending after the first j > 0 lines of a frame.
EventOf(kind) == CASE kind \in {"event", "split"} -> "type"
                   [] kind = "batch" -> "batch"
                   [] OTHER -> "message"
Held(kind, i, j) == SubSeq(DataLines(kind, i), 1, j - Before(kind))

\* The reader has consumed n frames, and j lines of the next.
At(n, j) ==
  /\ parsed = Len(Upto(n)) + j
  /\ j = 0 => pendingEvent = "message" /\ pendingData = <<>>
  /\ j > 0 =>
       LET kind == conn.kinds[n + 1] IN
         /\ n < MaxFrames
         /\ j < Len(Lines(kind, n + 1))
         /\ pendingEvent = EventOf(kind)
         /\ pendingData = Held(kind, n + 1, j)

\* A reader that never sees the end of a frame.
Mute == conn.parser = "example" /\ conn.crlf

ItemType == [docs : Seq(Nat), whole : BOOLEAN]
AllWhole(items) == \A i \in 1 .. Len(items) : items[i].whole

\* What the reader has handed over, or is about to.
Shown == DocsOf(Handed \o outbox)

\* Some frames are handed over and the next one is being read.
Reading ==
  \E n \in 0 .. MaxFrames, j \in 0 .. 3 :
    /\ At(n, j)
    /\ stopped # "cancel" => Shown = Sent(n)

\* Only the conformance reader has an item that is not whole, from its last flush.
Wholeness ==
  /\ phase = "open" \/ conn.parser # "conf" =>
       AllWhole(got) /\ AllWhole(chan) /\ AllWhole(outbox)
  /\ conn.parser = "conf" =>
       /\ Len(outbox) <= 1
       /\ outbox # <<>> => AllWhole(got)
       /\ \A i \in 1 .. Len(got) : got[i].whole \/ i = Len(got)

\* The response and its reader are such that nothing may be missing.
Complete ==
  /\ conn.how = "close" /\ stopped = "no"
  /\ conn.parser \in {"ts", "conf"} => LastLineEnded
  /\ conn.parser = "example" => conn.last = Size(conn.kinds) /\ ~conn.crlf
  /\ conn.parser = "go" =>
       \A i \in DOMAIN conn.kinds : \A d \in Range(Docs(conn.kinds[i], i)) : d \notin Big

ReaderInv ==
  /\ TypeOK
  /\ outbox \in Seq(ItemType) /\ chan \in Seq(ItemType) /\ got \in Seq(ItemType)
  /\ phase \in {"ended", "left", "failed"} => outbox = <<>>
  /\ stopped = "cancel" => conn.parser = "go"
  /\ Mute => outbox = <<>> /\ got = <<>>
  /\ phase = "open" /\ ~Mute => Reading
  /\ Wholeness
  /\ stopped # "cancel" => Begins(Shown, Expected)
  /\ phase \in {"closing", "ended"} /\ Complete => Shown = Expected

-----------------------------------------------------------------------------
(* Types. *)

DatumType == [docs : Seq(Nat), array : BOOLEAN, part : {"whole", "first", "last", "text", "cut"}]

LineType ==
  [field : {"event", "data", "comment", "blank"}, value : {"none", "type", "batch"} \cup DatumType]

\* What is known of a connection.
LEMMA ConnIs ==
  ASSUME conn \in Conns
  PROVE  /\ conn.parser \in {"ts", "py", "go", "conf", "example"}
         /\ conn.crlf \in BOOLEAN
         /\ conn.kinds \in [1 .. MaxFrames -> Kinds]
         /\ DOMAIN conn.kinds = 1 .. MaxFrames
         /\ conn.last \in Nat
         /\ conn.last <= Size(conn.kinds)
         /\ conn.how = "close" =>
              conn.last \in {Size(conn.kinds), Size(conn.kinds) - 3, Size(conn.kinds) - 4}
         /\ conn.crlf => conn.parser = "example"
<1>1. /\ conn \in [parser : Parsers, crlf : BOOLEAN, kinds : [1 .. MaxFrames -> Kinds],
                   last : 0 .. MaxFrames * 12, how : {"close", "cut"}]
      /\ conn.last <= Size(conn.kinds)
      /\ conn.how = "close" =>
           conn.last \in {Size(conn.kinds), Size(conn.kinds) - 3, Size(conn.kinds) - 4}
      /\ conn.crlf => conn.parser = "example"
  BY Zenon DEF Conns
<1>2. conn.last \in 0 .. MaxFrames * 12 /\ MaxFrames * 12 \in Nat
  BY <1>1, ReaderAssumption
<1>3. /\ conn.parser \in Parsers /\ conn.crlf \in BOOLEAN
      /\ conn.kinds \in [1 .. MaxFrames -> Kinds]
  BY <1>1
<1>4. conn.last \in Nat
  BY <1>2
<1>5. conn.parser \in {"ts", "py", "go", "conf", "example"}
  BY <1>3, ReaderAssumption
<1>6. QED
  BY <1>1, <1>3, <1>4, <1>5, Zenon

LEMMA DocsType ==
  ASSUME NEW kind, NEW i \in Nat
  PROVE  Docs(kind, i) \in Seq(Nat)
<1>1. 4 * i \in Nat /\ 4 * i + 1 \in Nat /\ 4 * i + 2 \in Nat /\ 4 * i + 3 \in Nat
  OBVIOUS
<1> HIDE DEF Docs
<1>2. \A a, b \in Nat : <<a>> \in Seq(Nat) /\ <<a, b>> \in Seq(Nat) /\ <<>> \in Seq(Nat)
  OBVIOUS
<1>3. QED
  BY <1>1, <1>2 DEF Docs

LEMMA DataLinesType ==
  ASSUME NEW kind \in Kinds, NEW i \in Nat
  PROVE  /\ DataLines(kind, i) \in Seq(DatumType)
         /\ \A m \in 1 .. Len(DataLines(kind, i)) : DataLines(kind, i)[m].docs = Docs(kind, i)
<1>1. kind \in {"event", "message", "split", "batch", "comment", "vendor"}
  BY ReaderAssumption
<1>2. Docs(kind, i) \in Seq(Nat)
  BY DocsType
<1>3. ASSUME NEW part \in {"whole", "first", "last", "text", "cut"}
      PROVE  Data(kind, i, part).value \in DatumType /\ Data(kind, i, part).value.docs = Docs(kind, i)
  BY <1>2 DEF Data, Text, DatumType
<1>4. \A a, b \in DatumType : <<a>> \in Seq(DatumType) /\ <<a, b>> \in Seq(DatumType)
  OBVIOUS
<1> HIDE DEF DatumType, Data
<1>5. QED
  BY <1>1, <1>3, <1>4 DEF DataLines

\* The lines of a frame: what comes before its data, its data, and a blank line.
LEMMA LinesAre ==
  ASSUME NEW kind \in Kinds, NEW i \in Nat
  PROVE  /\ Len(DataLines(kind, i)) \in 0 .. 2 /\ Before(kind) \in 0 .. 1
         /\ Len(Lines(kind, i)) = Before(kind) + Len(DataLines(kind, i)) + 1
         /\ Len(Lines(kind, i)) \in 2 .. 4
         /\ Lines(kind, i) \in Seq(LineType)
         /\ Lines(kind, i)[Len(Lines(kind, i))].field = "blank"
         /\ Before(kind) = 0 => EventOf(kind) = "message"
         /\ Before(kind) = 1 =>
              \/ Lines(kind, i)[1].field = "event" /\ Lines(kind, i)[1].value = EventOf(kind)
              \/ Lines(kind, i)[1].field = "comment" /\ EventOf(kind) = "message"
         /\ \A m \in 1 .. Len(DataLines(kind, i)) :
              /\ Lines(kind, i)[Before(kind) + m].field = "data"
              /\ Lines(kind, i)[Before(kind) + m].value = DataLines(kind, i)[m]
<1>1. kind \in {"event", "message", "split", "batch", "comment", "vendor"}
  BY ReaderAssumption
<1>2. ASSUME NEW part \in {"whole", "first", "last", "text", "cut"}
      PROVE  /\ Data(kind, i, part) \in LineType
             /\ Data(kind, i, part).field = "data"
  <2>1. Data(kind, i, part).value \in DatumType
    BY DocsType DEF Data, Text, DatumType
  <2>2. QED
    BY <2>1 DEF Data, Text, LineType
<1>3. /\ Blank \in LineType /\ Blank.field = "blank"
      /\ Text("comment", "none") \in LineType /\ Text("comment", "none").field = "comment"
      /\ \A e \in {"type", "batch"} :
           Text("event", e) \in LineType /\ Text("event", e).field = "event" /\ Text("event", e).value = e
  BY DEF Blank, Text, LineType
<1> HIDE DEF Data, Text, Blank, LineType
<1>4. CASE kind = "event"
  <2>1. /\ Lines(kind, i) = <<Text("event", "type"), Data(kind, i, "whole"), Blank>>
        /\ DataLines(kind, i) = <<Data(kind, i, "whole").value>>
        /\ Before(kind) = 1 /\ EventOf(kind) = "type"
    BY <1>4 DEF Lines, DataLines, Before, EventOf
  <2>2. /\ Len(Lines(kind, i)) = 3 /\ Len(DataLines(kind, i)) = 1
        /\ Lines(kind, i) \in Seq(LineType)
    BY <1>2, <1>3, <2>1
  <2>3. /\ Lines(kind, i)[1].field = "event" /\ Lines(kind, i)[1].value = EventOf(kind)
        /\ Lines(kind, i)[2].field = "data" /\ Lines(kind, i)[2].value = DataLines(kind, i)[1]
        /\ Lines(kind, i)[3].field = "blank"
    BY <1>2, <1>3, <2>1
  <2>4. \A m \in 1 .. Len(DataLines(kind, i)) : m = 1
    BY <2>2
  <2>5. QED
    BY <2>1, <2>2, <2>3, <2>4
<1>5. CASE kind = "message"
  <2>1. /\ Lines(kind, i) = <<Data(kind, i, "whole"), Blank>>
        /\ DataLines(kind, i) = <<Data(kind, i, "whole").value>>
        /\ Before(kind) = 0 /\ EventOf(kind) = "message"
    BY <1>5 DEF Lines, DataLines, Before, EventOf
  <2>2. /\ Len(Lines(kind, i)) = 2 /\ Len(DataLines(kind, i)) = 1
        /\ Lines(kind, i) \in Seq(LineType)
    BY <1>2, <1>3, <2>1
  <2>3. /\ Lines(kind, i)[1].field = "data" /\ Lines(kind, i)[1].value = DataLines(kind, i)[1]
        /\ Lines(kind, i)[2].field = "blank"
    BY <1>2, <1>3, <2>1
  <2>4. \A m \in 1 .. Len(DataLines(kind, i)) : m = 1
    BY <2>2
  <2>5. QED
    BY <2>1, <2>2, <2>3, <2>4
<1>6. CASE kind = "split"
  <2>1. /\ Lines(kind, i) = <<Text("event", "type"), Data(kind, i, "first"), Data(kind, i, "last"), Blank>>
        /\ DataLines(kind, i) = <<Data(kind, i, "first").value, Data(kind, i, "last").value>>
        /\ Before(kind) = 1 /\ EventOf(kind) = "type"
    BY <1>6 DEF Lines, DataLines, Before, EventOf
  <2>2. /\ Len(Lines(kind, i)) = 4 /\ Len(DataLines(kind, i)) = 2
        /\ Lines(kind, i) \in Seq(LineType)
    BY <1>2, <1>3, <2>1
  <2>3. /\ Lines(kind, i)[1].field = "event" /\ Lines(kind, i)[1].value = EventOf(kind)
        /\ Lines(kind, i)[2].field = "data" /\ Lines(kind, i)[2].value = DataLines(kind, i)[1]
        /\ Lines(kind, i)[3].field = "data" /\ Lines(kind, i)[3].value = DataLines(kind, i)[2]
        /\ Lines(kind, i)[4].field = "blank"
    BY <1>2, <1>3, <2>1
  <2>4. \A m \in 1 .. Len(DataLines(kind, i)) : m = 1 \/ m = 2
    BY <2>2
  <2>5. QED
    BY <2>1, <2>2, <2>3, <2>4
<1>7. CASE kind = "batch"
  <2>1. /\ Lines(kind, i) = <<Text("event", "batch"), Data(kind, i, "whole"), Blank>>
        /\ DataLines(kind, i) = <<Data(kind, i, "whole").value>>
        /\ Before(kind) = 1 /\ EventOf(kind) = "batch"
    BY <1>7 DEF Lines, DataLines, Before, EventOf
  <2>2. /\ Len(Lines(kind, i)) = 3 /\ Len(DataLines(kind, i)) = 1
        /\ Lines(kind, i) \in Seq(LineType)
    BY <1>2, <1>3, <2>1
  <2>3. /\ Lines(kind, i)[1].field = "event" /\ Lines(kind, i)[1].value = EventOf(kind)
        /\ Lines(kind, i)[2].field = "data" /\ Lines(kind, i)[2].value = DataLines(kind, i)[1]
        /\ Lines(kind, i)[3].field = "blank"
    BY <1>2, <1>3, <2>1
  <2>4. \A m \in 1 .. Len(DataLines(kind, i)) : m = 1
    BY <2>2
  <2>5. QED
    BY <2>1, <2>2, <2>3, <2>4
<1>8. CASE kind = "comment"
  <2>1. /\ Lines(kind, i) = <<Text("comment", "none"), Blank>>
        /\ DataLines(kind, i) = <<>>
        /\ Before(kind) = 1 /\ EventOf(kind) = "message"
    BY <1>8 DEF Lines, DataLines, Before, EventOf
  <2>2. /\ Len(Lines(kind, i)) = 2 /\ Len(DataLines(kind, i)) = 0
        /\ Lines(kind, i) \in Seq(LineType)
    BY <1>2, <1>3, <2>1
  <2>3. /\ Lines(kind, i)[1].field = "comment"
        /\ Lines(kind, i)[2].field = "blank"
    BY <1>2, <1>3, <2>1
  <2>4. \A m \in 1 .. Len(DataLines(kind, i)) : FALSE
    BY <2>2
  <2>5. QED
    BY <2>1, <2>2, <2>3, <2>4
<1>9. CASE kind = "vendor"
  <2>1. /\ Lines(kind, i) = <<Data(kind, i, "text"), Blank>>
        /\ DataLines(kind, i) = <<Data(kind, i, "text").value>>
        /\ Before(kind) = 0 /\ EventOf(kind) = "message"
    BY <1>9 DEF Lines, DataLines, Before, EventOf
  <2>2. /\ Len(Lines(kind, i)) = 2 /\ Len(DataLines(kind, i)) = 1
        /\ Lines(kind, i) \in Seq(LineType)
    BY <1>2, <1>3, <2>1
  <2>3. /\ Lines(kind, i)[1].field = "data" /\ Lines(kind, i)[1].value = DataLines(kind, i)[1]
        /\ Lines(kind, i)[2].field = "blank"
    BY <1>2, <1>3, <2>1
  <2>4. \A m \in 1 .. Len(DataLines(kind, i)) : m = 1
    BY <2>2
  <2>5. QED
    BY <2>1, <2>2, <2>3, <2>4
<1>10. QED
  BY <1>1, <1>4, <1>5, <1>6, <1>7, <1>8, <1>9

-----------------------------------------------------------------------------
(* The wire, frame by frame. *)

LEMMA FramesAre ==
  ASSUME conn \in Conns
  PROVE  /\ MaxFrames \in Nat
         /\ \A i \in 1 .. MaxFrames :
              /\ conn.kinds[i] \in Kinds
              /\ Frames(conn.kinds)[i] = Lines(conn.kinds[i], i)
              /\ Frames(conn.kinds)[i] \in Seq(LineType)
<1>1. MaxFrames \in Nat
  BY ReaderAssumption
<1>2. ASSUME NEW i \in 1 .. MaxFrames
      PROVE  /\ conn.kinds[i] \in Kinds
             /\ Frames(conn.kinds)[i] = Lines(conn.kinds[i], i)
             /\ i \in Nat
  BY <1>1, ConnIs DEF Frames
<1>3. QED
  BY <1>1, <1>2, LinesAre

LEMMA UptoIs ==
  ASSUME conn \in Conns
  PROVE  /\ Len(Upto(0)) = 0
         /\ \A n \in 0 .. MaxFrames : Upto(n) \in Seq(LineType) /\ Len(Upto(n)) \in Nat
         /\ \A n \in 0 .. MaxFrames - 1 :
              Upto(n + 1) = Upto(n) \o Lines(conn.kinds[n + 1], n + 1)
         /\ wire = Upto(MaxFrames)
         /\ \A n \in 0 .. MaxFrames : Begins(Upto(n), wire)
<1> DEFINE s == Frames(conn.kinds)
<1>1. MaxFrames \in Nat /\ \A i \in 1 .. MaxFrames : s[i] \in Seq(LineType)
  BY FramesAre
<1>2. s = [i \in 1 .. MaxFrames |-> s[i]]
  BY ConnIs DEF Frames
<1>3. \A n : Upto(n) = Flat(s, n)
  BY DEF Upto
<1>4. wire = Flat(s, MaxFrames)
  BY <1>2 DEF wire, Wire, Flat
<1>5. \A n \in 1 .. MaxFrames : s[n] = Lines(conn.kinds[n], n)
  BY FramesAre
<1> HIDE DEF s
<1>6. \A n \in 0 .. MaxFrames : Flat(s, n) \in Seq(LineType)
  BY <1>1, FlatType
<1>7. ASSUME NEW n \in 0 .. MaxFrames - 1
      PROVE  Flat(s, n + 1) = Flat(s, n) \o Lines(conn.kinds[n + 1], n + 1)
  <2>1. n \in Nat /\ n + 1 \in 1 .. MaxFrames /\ \A i \in 1 .. n + 1 : s[i] \in Seq(LineType)
    BY <1>1
  <2>2. Flat(s, n + 1) = Flat(s, n) \o s[n + 1]
    BY <2>1, FlatStep
  <2>3. QED
    BY <1>5, <2>1, <2>2, Zenon
<1>8. \A n \in 0 .. MaxFrames : Begins(Flat(s, n), Flat(s, MaxFrames))
  BY <1>1, FlatPrefix
<1>9. Len(Flat(s, 0)) = 0
  BY FlatZero
<1>10. \A n \in 0 .. MaxFrames : Len(Flat(s, n)) \in Nat
  BY <1>6
<1>11. QED
  BY <1>3, <1>4, <1>6, <1>7, <1>8, <1>9, <1>10, Zenon

\* The lines of the frame that follows the first n.
LEMMA NextFrame ==
  ASSUME conn \in Conns, NEW n \in 0 .. MaxFrames - 1
  PROVE  LET L == Lines(conn.kinds[n + 1], n + 1) IN
           /\ conn.kinds[n + 1] \in Kinds /\ n + 1 \in 0 .. MaxFrames /\ n + 1 \in DOMAIN conn.kinds
           /\ Len(Upto(n)) \in Nat /\ Len(L) \in 2 .. 4
           /\ Len(Upto(n + 1)) = Len(Upto(n)) + Len(L)
           /\ Len(Upto(n + 1)) <= Len(wire)
           /\ \A j \in 1 .. Len(L) : wire[Len(Upto(n)) + j] = L[j]
<1> DEFINE L == Lines(conn.kinds[n + 1], n + 1)
           u == Upto(n)
           v == Upto(n + 1)
<1>1. n \in 0 .. MaxFrames /\ n + 1 \in 1 .. MaxFrames /\ n + 1 \in 0 .. MaxFrames /\ n + 1 \in Nat
  BY ReaderAssumption
<1>2. conn.kinds[n + 1] \in Kinds
  BY <1>1, FramesAre
<1>3. L \in Seq(LineType) /\ Len(L) \in 2 .. 4
  BY <1>1, <1>2, LinesAre
<1>4. v = u \o L /\ Begins(v, wire) /\ u \in Seq(LineType) /\ Len(u) \in Nat
  BY <1>1, UptoIs
<1>5. n + 1 \in DOMAIN conn.kinds
  BY <1>1, ConnIs
<1> HIDE DEF L, u, v
<1>6. /\ Len(v) = Len(u) + Len(L)
      /\ \A i \in 1 .. Len(u) + Len(L) : v[i] = IF i <= Len(u) THEN u[i] ELSE L[i - Len(u)]
  BY <1>3, <1>4, ConcatProperties
<1>7. Len(v) <= Len(wire)
  BY <1>4 DEF Begins
<1>8. ASSUME NEW j \in 1 .. Len(L)
      PROVE  wire[Len(u) + j] = L[j]
  <2>1. Len(u) + j \in 1 .. Len(v) /\ ~ (Len(u) + j <= Len(u)) /\ (Len(u) + j) - Len(u) = j
    BY <1>3, <1>4, <1>6
  <2>2. v[Len(u) + j] = L[j]
    BY <1>6, <2>1
  <2>3. wire[Len(u) + j] = v[Len(u) + j]
    BY <1>4, <2>1 DEF Begins
  <2>4. QED
    BY <2>2, <2>3
<1>9. QED
  BY <1>1, <1>2, <1>3, <1>4, <1>5, <1>6, <1>7, <1>8 DEF L, u, v

LEMMA WireLength ==
  ASSUME conn \in Conns
  PROVE  /\ wire \in Seq(LineType) /\ Len(wire) \in Nat /\ Len(wire) = Len(Upto(MaxFrames))
         /\ conn.last \in Nat /\ conn.last <= 3 * Len(wire)
         /\ conn.how = "close" =>
              conn.last \in {3 * Len(wire), 3 * Len(wire) - 3, 3 * Len(wire) - 4}
<1>1. MaxFrames \in 0 .. MaxFrames
  BY ReaderAssumption
<1>2. QED
  BY <1>1, UptoIs, ConnIs DEF Size, wire

-----------------------------------------------------------------------------
(* Documents. *)

LEMMA DecodedIs ==
  ASSUME NEW docs \in Seq(Nat)
  PROVE  /\ Decoded(docs) \in Seq(Nat)
         /\ Decoded(<<>>) = <<>>
         /\ conn.parser \notin {"py", "go"} => Decoded(docs) = docs
<1> DEFINE Keep(s) == [i \in DOMAIN s |-> IF s[i] \in Bare THEN <<>> ELSE <<s[i]>>]
<1>1. ASSUME NEW s \in Seq(Nat)
      PROVE  FlattenSeq(Keep(s)) \in Seq(Nat)
  <2>1. DOMAIN s = 1 .. Len(s) /\ Len(s) \in Nat /\ \A i \in 1 .. Len(s) : s[i] \in Nat
    OBVIOUS
  <2>2. \A x \in Nat : <<x>> \in Seq(Nat) /\ <<>> \in Seq(Nat)
    OBVIOUS
  <2>3. Keep(s) \in [1 .. Len(s) -> Seq(Nat)]
    BY <2>1, <2>2
  <2> HIDE DEF Keep
  <2>4. Keep(s) \in Seq(Seq(Nat)) /\ Len(Keep(s)) \in Nat
    BY <2>1, <2>3
  <2>5. FlattenSeq(Keep(s)) = Flat(Keep(s), Len(Keep(s)))
    BY <2>4, FlattenIsFlat
  <2>6. \A i \in 1 .. Len(Keep(s)) : Keep(s)[i] \in Seq(Nat)
    BY <2>4, ElementOfSeq
  <2>7. Flat(Keep(s), Len(Keep(s))) \in Seq(Nat)
    BY <2>4, <2>6, FlatType
  <2>8. QED
    BY <2>5, <2>7, Zenon
<1>2. FlattenSeq(Keep(<<>>)) = <<>>
  <2>1. Keep(<<>>) = <<>>
    OBVIOUS
  <2> HIDE DEF Keep
  <2>2. QED
    BY <2>1 DEF FlattenSeq
<1>3. <<>> \in Seq(Nat)
  OBVIOUS
<1>4. \A s : Decoded(s) = IF conn.parser \in {"py", "go"} THEN FlattenSeq(Keep(s)) ELSE s
  BY DEF Decoded
<1> HIDE DEF Keep
<1>5. QED
  BY <1>1, <1>2, <1>3, <1>4

LEMMA FrameDocsType ==
  ASSUME NEW n \in Nat
  PROVE  FrameDocs(n) \in Seq(Nat)
BY DocsType, DecodedIs DEF FrameDocs

LEMMA SentIs ==
  ASSUME conn \in Conns
  PROVE  /\ Sent(0) = <<>>
         /\ \A n \in 0 .. MaxFrames : Sent(n) \in Seq(Nat) /\ Begins(Sent(n), Expected)
         /\ \A n \in 0 .. MaxFrames - 1 : Sent(n + 1) = Sent(n) \o FrameDocs(n + 1)
         /\ Expected = Sent(MaxFrames) /\ Expected \in Seq(Nat)
<1> DEFINE s == [i \in DOMAIN conn.kinds |-> FrameDocs(i)]
<1>1. MaxFrames \in Nat /\ DOMAIN conn.kinds = 1 .. MaxFrames
  BY ReaderAssumption, ConnIs
<1>2. \A i \in 1 .. MaxFrames : i \in Nat /\ FrameDocs(i) \in Seq(Nat)
  BY <1>1, FrameDocsType
<1>3. \A i \in 1 .. MaxFrames : s[i] = FrameDocs(i) /\ s[i] \in Seq(Nat)
  BY <1>1, <1>2
<1>4. s = [i \in 1 .. MaxFrames |-> s[i]]
  BY <1>1
<1>5. \A n : Sent(n) = Flat(s, n)
  BY DEF Sent
<1>6. Expected = FlattenSeq(s)
  BY DEF Expected, FrameDocs
<1> HIDE DEF s
<1>7. Expected = Flat(s, MaxFrames)
  BY <1>4, <1>6 DEF Flat
<1>8. \A n \in 0 .. MaxFrames : Flat(s, n) \in Seq(Nat)
  BY <1>1, <1>3, FlatType
<1>9. ASSUME NEW n \in 0 .. MaxFrames - 1
      PROVE  Flat(s, n + 1) = Flat(s, n) \o FrameDocs(n + 1)
  <2>1. n \in Nat /\ n + 1 \in 1 .. MaxFrames /\ \A i \in 1 .. n + 1 : s[i] \in Seq(Nat)
    BY <1>1, <1>3
  <2>2. Flat(s, n + 1) = Flat(s, n) \o s[n + 1]
    BY <2>1, FlatStep
  <2>3. QED
    BY <1>3, <2>1, <2>2, Zenon
<1>10. \A n \in 0 .. MaxFrames : Begins(Flat(s, n), Flat(s, MaxFrames))
  BY <1>1, <1>3, FlatPrefix
<1>11. Flat(s, 0) = <<>>
  BY FlatZero
<1>12. MaxFrames \in 0 .. MaxFrames
  BY <1>1
<1>13. QED
  BY <1>5, <1>7, <1>8, <1>9, <1>10, <1>11, <1>12, Zenon

\* The documents of items, one item after the other.
LEMMA DocsOfIs ==
  /\ DocsOf(<<>>) = <<>>
  /\ \A items \in Seq(ItemType) : DocsOf(items) \in Seq(Nat)
  /\ \A a, b \in Seq(ItemType) : DocsOf(a \o b) = DocsOf(a) \o DocsOf(b)
  /\ \A x \in ItemType : DocsOf(<<x>>) = IF x.whole THEN x.docs ELSE <<>>
<1> DEFINE Part(x) == IF x.whole THEN x.docs ELSE <<>>
           Parts(items) == [i \in DOMAIN items |-> Part(items[i])]
<1>1. \A items : DocsOf(items) = FlattenSeq(Parts(items))
  BY DEF DocsOf
<1>2. \A x \in ItemType : Part(x) \in Seq(Nat)
  BY DEF ItemType
<1> HIDE DEF Part
<1>3. ASSUME NEW items \in Seq(ItemType)
      PROVE  /\ Parts(items) \in Seq(Seq(Nat)) /\ Len(Parts(items)) = Len(items)
             /\ \A i \in 1 .. Len(items) : Parts(items)[i] = Part(items[i])
  <2>1. DOMAIN items = 1 .. Len(items) /\ Len(items) \in Nat
        /\ \A i \in 1 .. Len(items) : items[i] \in ItemType
    OBVIOUS
  <2>2. Parts(items) \in [1 .. Len(items) -> Seq(Nat)]
    BY <1>2, <2>1
  <2>3. \A i \in 1 .. Len(items) : Parts(items)[i] = Part(items[i])
    BY <2>1
  <2> HIDE DEF Parts
  <2>4. QED
    BY <2>1, <2>2, <2>3
<1>4. Parts(<<>>) = <<>>
  OBVIOUS
<1>5. \A x : Parts(<<x>>) = <<Part(x)>>
  OBVIOUS
<1> HIDE DEF Parts
<1>6. ASSUME NEW items \in Seq(ItemType)
      PROVE  FlattenSeq(Parts(items)) \in Seq(Nat)
  <2>1. FlattenSeq(Parts(items)) = Flat(Parts(items), Len(items))
    BY <1>3, FlattenIsFlat
  <2>2. Len(items) \in Nat /\ \A i \in 1 .. Len(items) : Parts(items)[i] \in Seq(Nat)
    BY <1>3
  <2>3. Flat(Parts(items), Len(items)) \in Seq(Nat)
    BY <2>2, FlatType
  <2>4. QED
    BY <2>1, <2>3, Zenon
<1>7. ASSUME NEW a \in Seq(ItemType), NEW b \in Seq(ItemType)
      PROVE  FlattenSeq(Parts(a \o b)) = FlattenSeq(Parts(a)) \o FlattenSeq(Parts(b))
  <2>1. Parts(a \o b) = Parts(a) \o Parts(b)
    <3> DEFINE c == a \o b
               p == Parts(a) \o Parts(b)
    <3>1. /\ c \in Seq(ItemType) /\ Len(c) = Len(a) + Len(b)
          /\ \A i \in 1 .. Len(a) + Len(b) : c[i] = IF i <= Len(a) THEN a[i] ELSE b[i - Len(a)]
      BY ConcatProperties
    <3>2. /\ p \in Seq(Seq(Nat)) /\ Len(p) = Len(a) + Len(b)
          /\ \A i \in 1 .. Len(a) + Len(b) :
               p[i] = IF i <= Len(a) THEN Parts(a)[i] ELSE Parts(b)[i - Len(a)]
      <4> DEFINE pa == Parts(a)
                 pb == Parts(b)
      <4>1. pa \in Seq(Seq(Nat)) /\ pb \in Seq(Seq(Nat)) /\ Len(pa) = Len(a) /\ Len(pb) = Len(b)
        BY <1>3
      <4> HIDE DEF pa, pb
      <4>2. /\ pa \o pb \in Seq(Seq(Nat)) /\ Len(pa \o pb) = Len(pa) + Len(pb)
            /\ \A i \in 1 .. Len(pa) + Len(pb) :
                 (pa \o pb)[i] = IF i <= Len(pa) THEN pa[i] ELSE pb[i - Len(pa)]
        BY <4>1, ConcatProperties
      <4>3. QED
        BY <4>1, <4>2, Zenon DEF pa, pb
    <3>3. Len(a) \in Nat /\ Len(b) \in Nat
      OBVIOUS
    <3> HIDE DEF c, p
    <3>4. /\ Parts(c) \in Seq(Seq(Nat)) /\ Len(Parts(c)) = Len(c)
          /\ \A i \in 1 .. Len(c) : Parts(c)[i] = Part(c[i])
      BY <1>3, <3>1
    <3>5. ASSUME NEW i \in 1 .. Len(c)
          PROVE  Parts(c)[i] = p[i]
      <4>1. CASE i <= Len(a)
        <5>1. i \in 1 .. Len(a) /\ i \in 1 .. Len(a) + Len(b)
          BY <3>1, <3>3, <4>1
        <5>2. QED
          BY <1>3, <3>1, <3>2, <3>4, <4>1, <5>1
      <4>2. CASE ~ (i <= Len(a))
        <5>1. i - Len(a) \in 1 .. Len(b) /\ i \in 1 .. Len(a) + Len(b)
          BY <3>1, <3>3, <4>2
        <5>2. QED
          BY <1>3, <3>1, <3>2, <3>4, <4>2, <5>1
      <4>3. QED
        BY <4>1, <4>2
    <3>6. Parts(c) = p
      BY <3>1, <3>2, <3>4, <3>5, SeqEqual
    <3>7. QED
      BY <3>6 DEF c, p
  <2>2. FlattenSeq(Parts(a) \o Parts(b)) = FlattenSeq(Parts(a)) \o FlattenSeq(Parts(b))
    BY <1>3, FlattenConcat
  <2>3. QED
    BY <2>1, <2>2
<1>8. ASSUME NEW x \in ItemType
      PROVE  FlattenSeq(Parts(<<x>>)) = Part(x)
  <2> DEFINE s == <<Part(x)>>
  <2>1. Part(x) \in Seq(Nat)
    BY <1>2
  <2>2. s \in Seq(Seq(Nat)) /\ Len(s) = 1 /\ s[1] = Part(x)
    BY <2>1
  <2> HIDE DEF s
  <2>3. FlattenSeq(s) = Flat(s, 1)
    BY <2>2, FlattenIsFlat
  <2>4. \A i \in 1 .. 0 + 1 : s[i] \in Seq(Nat)
    BY <2>1, <2>2
  <2>5. 0 \in Nat /\ 0 + 1 = 1
    OBVIOUS
  <2>6. Flat(s, 0 + 1) = Flat(s, 0) \o s[0 + 1]
    BY <2>4, <2>5, FlatStep
  <2>7. Flat(s, 1) = <<>> \o Part(x)
    BY <2>2, <2>5, <2>6, FlatZero
  <2>8. <<>> \o Part(x) = Part(x)
    BY <2>1, ConcatEmptySeq
  <2>9. QED
    BY <1>5, <2>3, <2>7, <2>8 DEF s
<1>9. FlattenSeq(<<>>) = <<>>
  BY DEF FlattenSeq
<1>10. QED
  BY <1>1, <1>4, <1>6, <1>7, <1>8, <1>9, Zenon DEF Part

-----------------------------------------------------------------------------
(* What a flush hands over. *)

LEMMA EachIs ==
  ASSUME NEW docs \in Seq(Nat)
  PROVE  Each(docs) \in Seq(ItemType) /\ AllWhole(Each(docs)) /\ DocsOf(Each(docs)) = docs
<1>1. DOMAIN docs = 1 .. Len(docs) /\ Len(docs) \in Nat /\ \A i \in 1 .. Len(docs) : docs[i] \in Nat
  OBVIOUS
<1>2. \A x \in Nat : Item(<<x>>, TRUE) \in ItemType /\ Item(<<x>>, TRUE).whole /\ Item(<<x>>, TRUE).docs = <<x>>
  BY DEF Item, ItemType
<1> DEFINE e == Each(docs)
<1>3. /\ e \in [1 .. Len(docs) -> ItemType]
      /\ \A i \in 1 .. Len(docs) : e[i] = Item(<<docs[i]>>, TRUE)
      /\ DOMAIN e = 1 .. Len(docs)
  BY <1>1, <1>2 DEF Each
<1> HIDE DEF e
<1>4. e \in Seq(ItemType) /\ Len(e) = Len(docs)
  BY <1>1, <1>3
<1>5. \A i \in 1 .. Len(e) : e[i].whole /\ e[i].docs = <<docs[i]>>
  <2>1. ASSUME NEW i \in 1 .. Len(e)
        PROVE  e[i].whole /\ e[i].docs = <<docs[i]>>
    <3>1. i \in 1 .. Len(docs)
      BY <1>4
    <3>2. docs[i] \in Nat
      BY <1>1, <3>1, Zenon
    <3>3. e[i] = Item(<<docs[i]>>, TRUE)
      BY <1>3, <3>1, Zenon
    <3>4. QED
      BY <1>2, <3>2, <3>3, Zenon
  <2>2. QED
    BY <2>1, Zenon
<1>6. [i \in DOMAIN e |-> IF e[i].whole THEN e[i].docs ELSE <<>>] = [i \in DOMAIN docs |-> <<docs[i]>>]
  BY <1>1, <1>3, <1>4, <1>5
<1>7. DocsOf(e) = FlattenSeq([i \in DOMAIN docs |-> <<docs[i]>>])
  BY <1>6 DEF DocsOf
<1>8. DocsOf(e) = docs
  BY <1>7, FlattenSingles
<1>9. QED
  BY <1>4, <1>5, <1>8 DEF e, AllWhole

\* A complete frame.
LEMMA FlushWhole ==
  ASSUME conn \in Conns, NEW n \in 1 .. MaxFrames
  PROVE  LET kind == conn.kinds[n]
             F == Flushed(EventOf(kind), DataLines(kind, n))
         IN  /\ F \in Seq(ItemType) /\ AllWhole(F) /\ DocsOf(F) = FrameDocs(n)
             /\ conn.parser = "conf" => Len(F) <= 1
<1> DEFINE kind == conn.kinds[n]
           data == DataLines(kind, n)
           docs == Docs(kind, n)
           F == Flushed(EventOf(kind), data)
<1>1. n \in Nat /\ kind \in Kinds /\ kind \in {"event", "message", "split", "batch", "comment", "vendor"}
  <2>1. MaxFrames \in Nat /\ kind \in Kinds
    BY FramesAre
  <2>2. n \in Nat
    BY <2>1
  <2> HIDE DEF kind
  <2>3. kind \in {"event", "message", "split", "batch", "comment", "vendor"}
    BY <2>1, ReaderAssumption
  <2>4. QED
    BY <2>1, <2>2, <2>3
<1>2. docs \in Seq(Nat) /\ FrameDocs(n) = Decoded(docs)
  BY <1>1, DocsType DEF FrameDocs
<1>3. /\ Decoded(docs) \in Seq(Nat) /\ Decoded(<<>>) = <<>>
      /\ conn.parser \notin {"py", "go"} => Decoded(docs) = docs
  BY <1>2, DecodedIs
<1>4. Item(docs, TRUE) \in ItemType /\ Item(docs, TRUE).whole /\ Item(docs, TRUE).docs = docs
  BY <1>2 DEF Item, ItemType
<1>5. /\ <<Item(docs, TRUE)>> \in Seq(ItemType) /\ AllWhole(<<Item(docs, TRUE)>>)
      /\ DocsOf(<<Item(docs, TRUE)>>) = docs /\ Len(<<Item(docs, TRUE)>>) = 1
  <2> DEFINE x == Item(docs, TRUE)
  <2> HIDE DEF x
  <2>1. x \in ItemType /\ x.whole /\ x.docs = docs
    BY <1>4 DEF x
  <2>2. <<x>> \in Seq(ItemType) /\ Len(<<x>>) = 1 /\ <<x>>[1] = x
    BY <2>1
  <2>3. DocsOf(<<x>>) = docs
    BY <2>1, DocsOfIs
  <2>4. AllWhole(<<x>>)
    BY <2>1, <2>2 DEF AllWhole
  <2>5. QED
    BY <2>2, <2>3, <2>4, Zenon DEF x
<1>6. /\ <<>> \in Seq(ItemType) /\ AllWhole(<<>>) /\ DocsOf(<<>>) = <<>> /\ Len(<<>>) = 0
  BY DocsOfIs DEF AllWhole
<1>7. ASSUME data = <<>>, docs = <<>>
      PROVE  F \in Seq(ItemType) /\ AllWhole(F) /\ DocsOf(F) = FrameDocs(n) /\ Len(F) <= 1
  <2>1. F = <<>>
    BY <1>7, Zenon DEF Flushed
  <2>2. QED
    BY <1>2, <1>3, <1>6, <1>7, <2>1
<1>8. ASSUME data # <<>>, data[1].docs = docs, IsWhole(data),
             ~ IsJson(data) => docs = <<>>,
             data[1].array => EventOf(kind) = "batch"
      PROVE  /\ F \in Seq(ItemType) /\ AllWhole(F) /\ DocsOf(F) = FrameDocs(n)
             /\ conn.parser = "conf" => Len(F) <= 1
  <2>1. CASE conn.parser \in {"conf", "example"}
    <3>1. F = <<Item(docs, TRUE)>>
      BY <1>8, <2>1 DEF Flushed
    <3>2. Decoded(docs) = docs
      BY <1>3, <2>1
    <3>3. QED
      <4> DEFINE z == <<Item(docs, TRUE)>>
      <4>1. z \in Seq(ItemType) /\ AllWhole(z) /\ DocsOf(z) = docs /\ Len(z) = 1
        BY <1>5
      <4>2. F = z
        BY <3>1
      <4> HIDE DEF F, z
      <4>3. F \in Seq(ItemType) /\ AllWhole(F) /\ DocsOf(F) = FrameDocs(n)
        BY <1>2, <3>2, <4>1, <4>2, Zenon
      <4>4. Len(F) <= 1
        <5>1. Len(F) = 1
          BY <4>1, <4>2, Zenon
        <5>2. QED
          BY <5>1
      <4>5. QED
        BY <4>3, <4>4, Zenon
  <2>2. CASE conn.parser \notin {"conf", "example"} /\ (~ IsJson(data) \/ docs = <<>>)
    <3>1. F = <<>> /\ docs = <<>>
      BY <1>8, <2>2 DEF Flushed
    <3>2. QED
      BY <1>2, <1>3, <1>6, <2>2, <3>1
  <2>3. CASE conn.parser \notin {"conf", "example"} /\ IsJson(data) /\ docs # <<>>
    <3>1. F = Each(Decoded(docs))
      BY <1>8, <2>3 DEF Flushed
    <3>2. QED
      BY <1>2, <1>3, <2>3, <3>1, EachIs
  <2>4. QED
    BY <2>1, <2>2, <2>3
<1>9. CASE kind = "comment"
  BY <1>7, <1>9 DEF DataLines, Docs
<1>10. CASE kind # "comment"
  <2>1. /\ data # <<>> /\ data[1].docs = docs /\ IsWhole(data)
        /\ ~ IsJson(data) => docs = <<>>
        /\ data[1].array => EventOf(kind) = "batch"
    <3>1. CASE kind = "vendor"
      BY <3>1 DEF DataLines, Docs, Data, Text, IsWhole, IsJson, EventOf
    <3>2. CASE kind = "split"
      BY <3>2 DEF DataLines, Docs, Data, Text, IsWhole, IsJson, EventOf
    <3>3. CASE kind \in {"event", "message", "batch"}
      BY <3>3 DEF DataLines, Data, Text, IsWhole, IsJson, EventOf
    <3>4. QED
      BY <1>1, <1>10, <3>1, <3>2, <3>3
  <2>2. QED
    BY <1>8, <2>1
<1>11. QED
  BY <1>9, <1>10, <1>7, <1>8

\* The beginning of a frame.
LEMMA FlushPart ==
  ASSUME conn \in Conns, NEW data \in Seq(DatumType), NEW event,
         data # <<>> => ~ IsWhole(data)
  PROVE  LET F == Flushed(event, data) IN
           /\ F \in Seq(ItemType) /\ DocsOf(F) = <<>> /\ Len(F) <= 1
           /\ conn.parser \notin {"conf", "example"} => F = <<>>
<1> DEFINE F == Flushed(event, data)
<1>1. /\ <<>> \in Seq(ItemType) /\ DocsOf(<<>>) = <<>> /\ Len(<<>>) = 0
  BY DocsOfIs
<1>2. CASE data = <<>>
  <2>1. F = <<>>
    BY <1>2, Zenon DEF Flushed
  <2>2. QED
    BY <1>1, <2>1
<1>3. CASE data # <<>> /\ conn.parser \in {"conf", "example"}
  <2> DEFINE x == Item(data[1].docs, FALSE)
  <2>1. F = <<x>>
    <3>1. IsWhole(data) = FALSE
      BY <1>3 DEF IsWhole
    <3>2. F = <<Item(data[1].docs, IsWhole(data))>>
      BY <1>3, Zenon DEF Flushed
    <3>3. QED
      BY <3>1, <3>2, Zenon
  <2>2. data[1] \in DatumType
    BY <1>3
  <2>3. x \in ItemType /\ ~ x.whole
    BY <2>2 DEF Item, ItemType, DatumType
  <2> HIDE DEF x, F
  <2>4. <<x>> \in Seq(ItemType) /\ DocsOf(<<x>>) = <<>> /\ Len(<<x>>) = 1
    BY <2>3, DocsOfIs
  <2>5. QED
    BY <1>3, <2>1, <2>4 DEF F
<1>4. CASE data # <<>> /\ conn.parser \notin {"conf", "example"}
  <2>1. F = <<>>
    BY <1>4, Zenon DEF Flushed, IsWhole
  <2>2. QED
    BY <1>1, <2>1
<1>5. QED
  BY <1>2, <1>3, <1>4

-----------------------------------------------------------------------------
(* What is pending in the middle of a frame. *)

LEMMA HeldIs ==
  ASSUME NEW kind \in Kinds, NEW i \in Nat, NEW j \in Nat, j < Len(Lines(kind, i))
  PROVE  LET L == Lines(kind, i)
             d == DataLines(kind, i)
             b == Before(kind)
         IN  /\ Held(kind, i, j) = SubSeq(d, 1, j - b)
             /\ j <= b => Held(kind, i, j) = <<>>
             /\ j = Len(L) - 1 => Held(kind, i, j) = d
             /\ j >= b /\ j < Len(L) - 1 =>
                  /\ j + 1 - b \in 1 .. Len(d)
                  /\ L[j + 1].field = "data" /\ L[j + 1].value = d[j + 1 - b]
                  /\ Held(kind, i, j + 1) = Held(kind, i, j) \o <<d[j + 1 - b]>>
                  /\ Held(kind, i, j + 1) = Append(Held(kind, i, j), L[j + 1].value)
<1> DEFINE L == Lines(kind, i)
           d == DataLines(kind, i)
           b == Before(kind)
<1>1. /\ Len(d) \in 0 .. 2 /\ b \in 0 .. 1 /\ Len(L) = b + Len(d) + 1
      /\ \A m \in 1 .. Len(d) : L[b + m].field = "data" /\ L[b + m].value = d[m]
  BY LinesAre, Zenon
<1>2. d \in Seq(DatumType)
  BY DataLinesType
<1>3. \A k : Held(kind, i, k) = SubSeq(d, 1, k - b)
  BY DEF Held
<1> HIDE DEF L, d, b
<1>4. ASSUME j <= b
      PROVE  SubSeq(d, 1, j - b) = <<>>
  <2>1. 1 \in Int /\ j - b \in Int /\ j - b < 1
    BY <1>1, <1>4
  <2>2. QED
    BY <2>1, SubSeqEmpty
<1>5. ASSUME j = Len(L) - 1
      PROVE  SubSeq(d, 1, j - b) = d
  <2>1. j - b = Len(d)
    BY <1>1, <1>5
  <2>2. SubSeq(d, 1, Len(d)) = d
    BY <1>2, SubSeqFull
  <2>3. QED
    BY <2>1, <2>2
<1>6. ASSUME j >= b, j < Len(L) - 1
      PROVE  /\ j + 1 - b \in 1 .. Len(d)
             /\ L[j + 1].field = "data" /\ L[j + 1].value = d[j + 1 - b]
             /\ SubSeq(d, 1, (j + 1) - b) = SubSeq(d, 1, j - b) \o <<d[j + 1 - b]>>
             /\ SubSeq(d, 1, (j + 1) - b) = Append(SubSeq(d, 1, j - b), L[j + 1].value)
  <2> DEFINE m == j + 1 - b
  <2>1. m \in 1 .. Len(d) /\ b + m = j + 1 /\ m - 1 = j - b /\ 1 \in 1 .. Len(d)
        /\ (j + 1) - b = m /\ j - b \in Nat
    BY <1>1, <1>6
  <2> HIDE DEF m
  <2>2. L[j + 1].field = "data" /\ L[j + 1].value = d[m]
    BY <1>1, <2>1
  <2>3. SubSeq(d, 1, m) = SubSeq(d, 1, m - 1) \o <<d[m]>>
    BY <1>2, <2>1, SubSeqRecursiveSecond
  <2>4. d[m] \in DatumType /\ \A k \in 1 .. j - b : d[k] \in DatumType
    BY <1>2, <2>1
  <2>5. SubSeq(d, 1, j - b) \in Seq(DatumType)
    BY <2>1, <2>4, SubSeqProperties
  <2>6. Append(SubSeq(d, 1, j - b), d[m]) = SubSeq(d, 1, j - b) \o <<d[m]>>
    BY <2>4, <2>5, AppendIsConcat
  <2>7. QED
    BY <2>1, <2>2, <2>3, <2>6, Zenon DEF m
<1>7. QED
  BY <1>3, <1>4, <1>5, <1>6 DEF L, d, b

\* Some of the data lines of a frame, or some of them and a part of the next one.
LEMMA PartIs ==
  ASSUME NEW kind \in Kinds, NEW i \in Nat, NEW k \in Nat, k < Len(DataLines(kind, i))
  PROVE  LET d == DataLines(kind, i)
             x == SubSeq(d, 1, k)
             y == x \o <<[d[k + 1] EXCEPT !.part = "cut"]>>
         IN  /\ x \in Seq(DatumType) /\ (x # <<>> => ~ IsWhole(x))
             /\ y \in Seq(DatumType) /\ ~ IsWhole(y)
<1> DEFINE d == DataLines(kind, i)
           x == SubSeq(d, 1, k)
           c == [d[k + 1] EXCEPT !.part = "cut"]
           y == x \o <<c>>
<1>1. d \in Seq(DatumType) /\ Len(d) \in 0 .. 2
  BY DataLinesType, LinesAre
<1>2. k = 0 \/ (k = 1 /\ Len(d) = 2)
  <2> DEFINE m == Len(d)
  <2>1. k < m /\ m \in 0 .. 2
    BY <1>1
  <2> HIDE DEF m
  <2>2. k = 0 \/ (k = 1 /\ m = 2)
    BY <2>1
  <2>3. QED
    BY <2>2 DEF m
<1>3. Len(d) = 2 => d[1].part = "first"
  BY DEF DataLines, Data, Text
<1>4. c \in DatumType /\ c.part = "cut"
  <2>1. d[k + 1] \in DatumType
    BY <1>1, <1>2
  <2>2. QED
    BY <2>1 DEF DatumType
<1> HIDE DEF d, c
<1>5. CASE k = 0
  <2>1. x = <<>>
    BY <1>5, SubSeqEmpty
  <2>2. <<c>> \in Seq(DatumType)
    BY <1>4
  <2>5. <<>> \o <<c>> = <<c>>
    BY <2>2, ConcatEmptySeq
  <2>6. y = <<c>>
    BY <2>1, <2>5, Zenon
  <2>7. <<>> \in Seq(DatumType)
    OBVIOUS
  <2>3. ~ IsWhole(<<c>>)
    BY <1>4 DEF IsWhole, IsJson
  <2>4. x = <<>> /\ x \in Seq(DatumType) /\ y \in Seq(DatumType) /\ ~ IsWhole(y)
    BY <2>1, <2>2, <2>3, <2>6, <2>7, Zenon
  <2>8. QED
    BY <2>4, Zenon DEF d, c
<1>6. CASE k = 1 /\ Len(d) = 2
  <2> DEFINE a == d[1]
  <2>1. a \in DatumType /\ a.part = "first"
    BY <1>1, <1>3, <1>6
  <2>2. x = <<a>>
    <3>1. 1 \in 1 .. Len(d) /\ 1 - 1 = 0
      BY <1>6
    <3>2. SubSeq(d, 1, 1) = SubSeq(d, 1, 1 - 1) \o <<d[1]>>
      BY <1>1, <3>1, SubSeqRecursiveSecond
    <3>3. SubSeq(d, 1, 0) = <<>>
      BY SubSeqEmpty
    <3>4. <<a>> \in Seq(DatumType)
      BY <2>1
    <3>5. <<>> \o <<a>> = <<a>>
      BY <3>4, ConcatEmptySeq
    <3>6. QED
      BY <1>6, <3>1, <3>2, <3>3, <3>5
  <2> HIDE DEF a
  <2>4. <<a>> \in Seq(DatumType) /\ <<a, c>> \in Seq(DatumType)
    BY <1>4, <2>1
  <2>3. y = <<a, c>>
    <3>1. <<a>> \o <<c>> = <<a, c>>
      <4> DEFINE p == <<a>>
                 q == <<c>>
                 r == <<a, c>>
      <4>1. /\ p \in Seq(DatumType) /\ Len(p) = 1 /\ p[1] = a
            /\ q \in Seq(DatumType) /\ Len(q) = 1 /\ q[1] = c
            /\ r \in Seq(DatumType) /\ Len(r) = 2 /\ r[1] = a /\ r[2] = c
        BY <1>4, <2>4
      <4> HIDE DEF p, q, r
      <4>2. p \o q \in Seq(DatumType) /\ Len(p \o q) = 2 /\ (p \o q)[1] = a /\ (p \o q)[2] = c
        <5>1. /\ p \o q \in Seq(DatumType) /\ Len(p \o q) = Len(p) + Len(q)
              /\ \A m \in 1 .. Len(p) + Len(q) :
                   (p \o q)[m] = IF m <= Len(p) THEN p[m] ELSE q[m - Len(p)]
          BY <4>1, ConcatProperties
        <5>2. 1 \in 1 .. Len(p) + Len(q) /\ 2 \in 1 .. Len(p) + Len(q) /\ 2 - Len(p) = 1
          BY <4>1
        <5>3. QED
          BY <4>1, <5>1, <5>2
      <4>3. \A m \in 1 .. 2 : (p \o q)[m] = r[m]
        BY <4>1, <4>2
      <4>4. p \o q = r
        BY <4>1, <4>2, <4>3, SeqEqual
      <4>5. QED
        BY <4>4 DEF p, q, r
    <3>2. QED
      BY <2>2, <3>1, Zenon
  <2>5. ~ IsWhole(<<a>>) /\ ~ IsWhole(<<a, c>>)
    BY <1>4, <2>1 DEF IsWhole, IsJson
  <2>6. x \in Seq(DatumType) /\ ~ IsWhole(x) /\ y \in Seq(DatumType) /\ ~ IsWhole(y)
    BY <2>2, <2>3, <2>4, <2>5, Zenon
  <2>7. QED
    BY <2>6 DEF d, c
<1>7. QED
  BY <1>2, <1>5, <1>6

-----------------------------------------------------------------------------
(* The flush after the loop. *)

\* The data that such a flush may find after j lines of frame n.
\* It takes the line that the response broke off in, or leaves it.
LastData(n, j) ==
  IF j < Before(conn.kinds[n]) THEN {<<>>}
  ELSE LET kind == conn.kinds[n]
           d == DataLines(kind, n)
           k == j - Before(kind)
       IN  {SubSeq(d, 1, k)} \cup
           (IF k = Len(d) THEN {}
            ELSE {SubSeq(d, 1, k + 1), SubSeq(d, 1, k) \o <<[d[k + 1] EXCEPT !.part = "cut"]>>})

LEMMA AtIs ==
  ASSUME conn \in Conns, NEW n \in 0 .. MaxFrames, NEW j \in 0 .. 3, At(n, j)
  PROVE  /\ n < MaxFrames => /\ conn.kinds[n + 1] \in Kinds /\ n \in 0 .. MaxFrames - 1
                             /\ n + 1 \in 1 .. MaxFrames /\ n + 1 \in Nat
                             /\ j < Len(Lines(conn.kinds[n + 1], n + 1))
                             /\ pendingData = Held(conn.kinds[n + 1], n + 1, j)
                             /\ j >= Before(conn.kinds[n + 1]) =>
                                  pendingEvent = EventOf(conn.kinds[n + 1])
                             /\ parsed < Len(wire)
                             /\ wire[parsed + 1] = Lines(conn.kinds[n + 1], n + 1)[j + 1]
         /\ n = MaxFrames => j = 0 /\ parsed = Len(wire)
         /\ j = 0 => pendingEvent = "message" /\ pendingData = <<>>
<1>1. MaxFrames \in Nat
  BY ReaderAssumption
<1>2. ASSUME n = MaxFrames
      PROVE  j = 0 /\ parsed = Len(wire)
  <2>1. ~ (j > 0)
    BY <1>1, <1>2 DEF At
  <2>2. j = 0
    BY <2>1
  <2>3. parsed = Len(Upto(MaxFrames)) + 0
    BY <1>2, <2>2 DEF At
  <2>4. Len(Upto(MaxFrames)) = Len(wire) /\ Len(wire) \in Nat
    BY WireLength
  <2>5. QED
    BY <2>2, <2>3, <2>4
<1>3. ASSUME n < MaxFrames
      PROVE  /\ conn.kinds[n + 1] \in Kinds /\ n \in 0 .. MaxFrames - 1
             /\ n + 1 \in 1 .. MaxFrames /\ n + 1 \in Nat
             /\ j < Len(Lines(conn.kinds[n + 1], n + 1))
             /\ pendingData = Held(conn.kinds[n + 1], n + 1, j)
             /\ j >= Before(conn.kinds[n + 1]) => pendingEvent = EventOf(conn.kinds[n + 1])
             /\ parsed < Len(wire)
             /\ wire[parsed + 1] = Lines(conn.kinds[n + 1], n + 1)[j + 1]
  <2> DEFINE kind == conn.kinds[n + 1]
             L == Lines(kind, n + 1)
  <2>1. n \in 0 .. MaxFrames - 1 /\ n + 1 \in 1 .. MaxFrames /\ n + 1 \in Nat /\ n \in Nat
    BY <1>1, <1>3
  <2>2. /\ kind \in Kinds /\ Len(Upto(n)) \in Nat /\ Len(L) \in 2 .. 4
        /\ Len(Upto(n + 1)) = Len(Upto(n)) + Len(L) /\ Len(Upto(n + 1)) <= Len(wire)
        /\ \A m \in 1 .. Len(L) : wire[Len(Upto(n)) + m] = L[m]
    BY <2>1, NextFrame
  <2>3. /\ parsed = Len(Upto(n)) + j
        /\ j = 0 => pendingEvent = "message" /\ pendingData = <<>>
        /\ j > 0 => j < Len(L) /\ pendingEvent = EventOf(kind) /\ pendingData = Held(kind, n + 1, j)
    BY DEF At
  <2>4. Before(kind) \in 0 .. 1 /\ (Before(kind) = 0 => EventOf(kind) = "message")
    BY <2>1, <2>2, LinesAre
  <2> HIDE DEF kind, L
  <2>5. j < Len(L)
    <3>1. j = 0 \/ j > 0
      OBVIOUS
    <3>2. Len(L) > 0
      <4> DEFINE x == Len(L)
      <4>1. x \in 2 .. 4
        BY <2>2, Zenon
      <4> HIDE DEF x
      <4>2. x > 0
        BY <4>1
      <4>3. QED
        BY <4>2 DEF x
    <3>3. j > 0 => j < Len(L)
      BY <2>3, Zenon
    <3>4. QED
      BY <3>1, <3>2, <3>3
  <2>6. pendingData = Held(kind, n + 1, j)
    <3>1. CASE j = 0
      <4>1. j \in Nat /\ j <= Before(kind)
        BY <2>4, <3>1
      <4>2. Held(kind, n + 1, j) = <<>>
        BY <2>1, <2>2, <2>5, <4>1, HeldIs DEF L
      <4>3. QED
        BY <2>3, <3>1, <4>2
    <3>2. QED
      BY <2>3, <3>1
  <2>7. j >= Before(kind) => pendingEvent = EventOf(kind)
    BY <2>3, <2>4
  <2>8. Len(wire) \in Nat
    BY WireLength
  <2>9. parsed < Len(wire) /\ parsed + 1 = Len(Upto(n)) + (j + 1) /\ j + 1 \in 1 .. Len(L)
    <3> DEFINE u == Len(Upto(n))
               x == Len(L)
               W == Len(wire)
    <3>1. u \in Nat /\ x \in Nat /\ W \in Nat /\ u + x <= W /\ parsed = u + j /\ j < x
      BY <2>2, <2>3, <2>5, <2>8
    <3> HIDE DEF u, x, W
    <3>2. parsed < W /\ parsed + 1 = u + (j + 1) /\ j + 1 \in 1 .. x
      BY <3>1
    <3>3. QED
      BY <3>2 DEF u, x, W
  <2>10. wire[parsed + 1] = L[j + 1]
    BY <2>2, <2>9
  <2>11. QED
    BY <2>1, <2>2, <2>5, <2>6, <2>7, <2>9, <2>10, Zenon DEF kind, L
<1>4. QED
  BY <1>2, <1>3 DEF At

LEMMA LastDataIs ==
  ASSUME conn \in Conns, NEW n \in 0 .. MaxFrames, NEW j \in 0 .. 3, At(n, j),
         NEW R \in {<<>>, Rest}
  PROVE  IF n = MaxFrames THEN pendingData \o R = <<>>
                          ELSE pendingData \o R \in LastData(n + 1, j)
<1>1. CASE n = MaxFrames
  <2>1. parsed = Len(wire) /\ pendingData = <<>>
    BY <1>1, AtIs
  <2>2. R = <<>>
    BY <2>1 DEF Rest
  <2>3. <<>> \o <<>> = <<>>
    OBVIOUS
  <2>4. QED
    BY <1>1, <2>1, <2>2, <2>3
<1>2. CASE n # MaxFrames
  <2> DEFINE kind == conn.kinds[n + 1]
             L == Lines(kind, n + 1)
             d == DataLines(kind, n + 1)
             b == Before(kind)
             k == j - b
             f == wire[parsed + 1]
  <2>1. n < MaxFrames
    BY <1>2, ReaderAssumption
  <2>2. /\ kind \in Kinds /\ n + 1 \in Nat /\ j < Len(L) /\ j \in Nat
        /\ pendingData = Held(kind, n + 1, j)
        /\ f = L[j + 1]
    BY <2>1, AtIs
  <2>3. /\ pendingData = SubSeq(d, 1, k)
        /\ j <= b => pendingData = <<>>
        /\ j = Len(L) - 1 => pendingData = d
        /\ j >= b /\ j < Len(L) - 1 =>
             /\ j + 1 - b \in 1 .. Len(d)
             /\ f.field = "data" /\ f.value = d[j + 1 - b]
             /\ Held(kind, n + 1, j + 1) = SubSeq(d, 1, k) \o <<d[j + 1 - b]>>
    <3> DEFINE h(m) == Held(kind, n + 1, m)
    <3>1. /\ h(j) = SubSeq(d, 1, j - b)
          /\ j <= b => h(j) = <<>>
          /\ j = Len(L) - 1 => h(j) = d
          /\ j >= b /\ j < Len(L) - 1 =>
               /\ j + 1 - b \in 1 .. Len(d)
               /\ L[j + 1].field = "data" /\ L[j + 1].value = d[j + 1 - b]
               /\ h(j + 1) = h(j) \o <<d[j + 1 - b]>>
      BY <2>2, HeldIs, Zenon
    <3>2. pendingData = h(j) /\ f = L[j + 1]
      BY <2>2
    <3> HIDE DEF L, d, b, f, h
    <3>3. QED
      BY <3>1, <3>2, Zenon DEF h
  <2>4. /\ Len(d) \in 0 .. 2 /\ b \in 0 .. 1 /\ Len(L) = b + Len(d) + 1 /\ Len(L) \in 2 .. 4
        /\ L[Len(L)].field = "blank"
        /\ b = 1 => L[1].field \in {"event", "comment"}
    BY <2>2, LinesAre
  <2>5. d \in Seq(DatumType)
    BY <2>2, DataLinesType
  <2>6. j + 1 <= Len(L) => Held(kind, n + 1, j + 1) = SubSeq(d, 1, (j + 1) - b)
    BY DEF Held
  <2>7. R = <<>> \/ (f.field = "data" /\ (R = <<f.value>> \/ R = <<[f.value EXCEPT !.part = "cut"]>>))
    BY DEF Rest
  <2>8. LastData(n + 1, j) = IF j < b THEN {<<>>} ELSE
          {SubSeq(d, 1, k)} \cup
           (IF k = Len(d) THEN {}
            ELSE {SubSeq(d, 1, k + 1), SubSeq(d, 1, k) \o <<[d[k + 1] EXCEPT !.part = "cut"]>>})
    BY Zenon DEF LastData
  <2> HIDE DEF kind, L, d, b, f
  <2>9. pendingData \in Seq(DatumType)
    <3>1. ASSUME NEW m \in 1 .. k
          PROVE  d[m] \in DatumType
      <4>1. m \in 1 .. Len(d)
        BY <2>2, <2>4
      <4>2. QED
        BY <2>5, <4>1
    <3>2. 1 \in Int /\ k \in Int
      BY <2>2, <2>4
    <3>3. QED
      BY <2>3, <3>1, <3>2, SubSeqProperties
  <2>10. pendingData \o <<>> = pendingData
    BY <2>9, ConcatEmptySeq
  <2>11. CASE j < b
    <3>1. j = 0 /\ b = 1 /\ f.field \in {"event", "comment"}
      BY <2>2, <2>4, <2>11
    <3>2. R = <<>> /\ pendingData = <<>>
      BY <2>3, <2>7, <2>11, <3>1
    <3>3. QED
      BY <2>8, <2>10, <2>11, <3>2, <1>2
  <2>12. CASE j >= b /\ R = <<>>
    <3>1. ~ (j < b)
      BY <2>2, <2>4, <2>12
    <3>2. QED
      BY <2>3, <2>8, <2>10, <2>12, <3>1, <1>2, Zenon
  <2>13. CASE j >= b /\ R # <<>>
    <3>1. ~ (j < b) /\ j + 1 - b = k + 1 /\ (j + 1) - b = k + 1 /\ k \in Nat
      BY <2>2, <2>4, <2>13
    <3>2. j # Len(L) - 1
      <4>1. f.field = "data"
        BY <2>7, <2>13
      <4>2. ASSUME j = Len(L) - 1
            PROVE  FALSE
        <5>1. j + 1 = Len(L)
          BY <2>2, <2>4, <4>2
        <5>2. QED
          BY <2>2, <2>4, <4>1, <5>1
      <4>3. QED
        BY <4>2
    <3>3. j < Len(L) - 1 /\ j + 1 <= Len(L) /\ k # Len(d)
      BY <2>2, <2>4, <3>1, <3>2
    <3>4. /\ f.value = d[k + 1]
          /\ SubSeq(d, 1, k + 1) = SubSeq(d, 1, k) \o <<d[k + 1]>>
      BY <2>3, <2>6, <2>13, <3>1, <3>3
    <3>5. R = <<d[k + 1]>> \/ R = <<[d[k + 1] EXCEPT !.part = "cut"]>>
      BY <2>7, <2>13, <3>4, Zenon
    <3>6. QED
      <4> HIDE DEF k
      <4> QED
        BY <1>2, <2>3, <2>8, <3>1, <3>3, <3>4, <3>5, Zenon
  <2>14. QED
    BY <2>2, <2>4, <2>11, <2>12, <2>13
<1>3. QED
  BY <1>1, <1>2

LEMMA EndFlush ==
  ASSUME conn \in Conns, NEW n \in 0 .. MaxFrames, NEW j \in 0 .. 3, At(n, j),
         NEW R \in {<<>>, Rest}
  PROVE  LET F == Flushed(pendingEvent, pendingData \o R) IN
           /\ F \in Seq(ItemType)
           /\ conn.parser = "conf" => Len(F) <= 1
           /\ conn.parser \notin {"conf", "example"} => AllWhole(F)
           /\ n = MaxFrames => DocsOf(F) = <<>>
           /\ n < MaxFrames => DocsOf(F) \in {<<>>, FrameDocs(n + 1)}
           /\ n < MaxFrames /\ pendingData \o R = DataLines(conn.kinds[n + 1], n + 1) =>
                DocsOf(F) = FrameDocs(n + 1)
<1> DEFINE data == pendingData \o R
           F == Flushed(pendingEvent, data)
<1>0. MaxFrames \in Nat /\ AllWhole(<<>>)
  BY ReaderAssumption DEF AllWhole
<1>1. ASSUME data \in Seq(DatumType), data # <<>> => ~ IsWhole(data)
      PROVE  /\ F \in Seq(ItemType) /\ DocsOf(F) = <<>> /\ Len(F) <= 1
             /\ conn.parser \notin {"conf", "example"} => AllWhole(F)
  <2> HIDE DEF data
  <2>1. /\ F \in Seq(ItemType) /\ DocsOf(F) = <<>> /\ Len(F) <= 1
        /\ conn.parser \notin {"conf", "example"} => F = <<>>
    BY <1>1, FlushPart
  <2> HIDE DEF F
  <2>2. QED
    BY <1>0, <2>1, Zenon
<1>2. CASE n = MaxFrames
  <2>1. data = <<>> /\ <<>> \in Seq(DatumType)
    BY <1>2, LastDataIs
  <2>2. /\ F \in Seq(ItemType) /\ DocsOf(F) = <<>> /\ Len(F) <= 1
        /\ conn.parser \notin {"conf", "example"} => AllWhole(F)
    <3> HIDE DEF data, F
    <3> QED
      BY <1>1, <2>1
  <2>3. ~ (n < MaxFrames)
    BY <1>0, <1>2
  <2> HIDE DEF F
  <2>4. QED
    BY <2>2, <2>3, Zenon DEF F
<1>3. CASE n # MaxFrames
  <2> DEFINE kind == conn.kinds[n + 1]
             d == DataLines(kind, n + 1)
             b == Before(kind)
             k == j - b
             cut(m) == [d[m] EXCEPT !.part = "cut"]
  <2>1. n < MaxFrames
    BY <1>0, <1>3
  <2>2. /\ kind \in Kinds /\ n + 1 \in Nat /\ n + 1 \in 1 .. MaxFrames
        /\ j \in Nat /\ j < Len(Lines(kind, n + 1))
        /\ j >= b => pendingEvent = EventOf(kind)
    BY <2>1, AtIs
  <2>3. data \in LastData(n + 1, j)
    BY <1>3, LastDataIs
  <2>4. /\ Len(d) \in 0 .. 2 /\ b \in 0 .. 1 /\ Len(Lines(kind, n + 1)) = b + Len(d) + 1
    BY <2>2, LinesAre
  <2>5. \/ j < b /\ data = <<>>
        \/ ~ (j < b) /\ data = SubSeq(d, 1, k)
        \/ ~ (j < b) /\ k # Len(d) /\ data = SubSeq(d, 1, k + 1)
        \/ ~ (j < b) /\ k # Len(d) /\ data = SubSeq(d, 1, k) \o <<cut(k + 1)>>
    <3> HIDE DEF data
    <3> QED
      BY <2>3, Zenon DEF LastData
  <2>6. d \in Seq(DatumType)
    BY <2>2, DataLinesType
  <2>7. ASSUME NEW m \in Nat, m < Len(d)
        PROVE  /\ SubSeq(d, 1, m) \in Seq(DatumType)
               /\ SubSeq(d, 1, m) # <<>> => ~ IsWhole(SubSeq(d, 1, m))
               /\ SubSeq(d, 1, m) \o <<cut(m + 1)>> \in Seq(DatumType)
               /\ ~ IsWhole(SubSeq(d, 1, m) \o <<cut(m + 1)>>)
    BY <2>2, <2>7, PartIs, Zenon
  <2>8. SubSeq(d, 1, Len(d)) = d
    BY <2>6, SubSeqFull
  <2>9. ASSUME data = d
        PROVE  /\ F \in Seq(ItemType) /\ AllWhole(F) /\ DocsOf(F) = FrameDocs(n + 1)
               /\ conn.parser = "conf" => Len(F) <= 1
    <3>1. F = Flushed(EventOf(kind), d)
      <4>1. CASE d = <<>>
        <5> HIDE DEF data, d
        <5>1. F = <<>> /\ Flushed(EventOf(kind), d) = <<>>
          BY <2>9, <4>1, Zenon DEF Flushed
        <5>2. QED
          BY <5>1
      <4>2. CASE d # <<>>
        <5>1. j >= b
          <6>1. ~ (j < b)
            <7> HIDE DEF data, d, b, k, cut
            <7>1. ASSUME j < b
                  PROVE  FALSE
              BY <2>5, <2>9, <4>2, <7>1
            <7>2. QED
              BY <7>1
          <6>2. QED
            BY <2>2, <2>4, <6>1
        <5>2. QED
          BY <2>2, <2>9, <5>1, Zenon
      <4>3. QED
        BY <4>1, <4>2
    <3>2. LET G == Flushed(EventOf(kind), d) IN
            /\ G \in Seq(ItemType) /\ AllWhole(G) /\ DocsOf(G) = FrameDocs(n + 1)
            /\ conn.parser = "conf" => Len(G) <= 1
      BY <2>2, FlushWhole, Zenon
    <3>3. QED
      BY <3>1, <3>2, Zenon
  <2>10. ASSUME data # d
         PROVE  data \in Seq(DatumType) /\ (data # <<>> => ~ IsWhole(data))
    <3>0. <<>> \in Seq(DatumType)
      OBVIOUS
    <3> HIDE DEF data, d, b, cut
    <3>1. CASE j < b
      BY <2>5, <3>0, <3>1
    <3>2. CASE ~ (j < b) /\ data = SubSeq(d, 1, k)
      <4>1. k \in Nat /\ k <= Len(d)
        BY <2>2, <2>4, <3>2
      <4>2. k # Len(d)
        BY <2>8, <2>10, <3>2
      <4>3. k < Len(d)
        BY <2>4, <4>1, <4>2
      <4>4. QED
        <5> HIDE DEF k
        <5> QED
          BY <2>7, <3>2, <4>1, <4>3, Zenon
    <3>3. CASE ~ (j < b) /\ k # Len(d) /\ data = SubSeq(d, 1, k + 1)
      <4>1. k + 1 \in Nat /\ k + 1 <= Len(d)
        BY <2>2, <2>4, <3>3
      <4>2. k + 1 # Len(d)
        BY <2>8, <2>10, <3>3
      <4>3. k + 1 < Len(d)
        BY <2>4, <4>1, <4>2
      <4>4. QED
        <5> HIDE DEF k
        <5> QED
          BY <2>7, <3>3, <4>1, <4>3, Zenon
    <3>4. CASE ~ (j < b) /\ k # Len(d) /\ data = SubSeq(d, 1, k) \o <<cut(k + 1)>>
      <4>1. k \in Nat /\ k < Len(d)
        BY <2>2, <2>4, <3>4
      <4>2. QED
        <5> HIDE DEF k
        <5> QED
          BY <2>7, <3>4, <4>1, Zenon
    <3>5. QED
      BY <2>5, <3>1, <3>2, <3>3, <3>4, Zenon
  <2>11. /\ F \in Seq(ItemType)
         /\ conn.parser = "conf" => Len(F) <= 1
         /\ conn.parser \notin {"conf", "example"} => AllWhole(F)
         /\ DocsOf(F) \in {<<>>, FrameDocs(n + 1)}
         /\ data = d => DocsOf(F) = FrameDocs(n + 1)
    <3> HIDE DEF data, F, d
    <3> QED
      BY <1>1, <2>9, <2>10, Zenon
  <2>12. QED
    <3> HIDE DEF F
    <3> QED
      BY <1>3, <2>11, Zenon DEF F
<1>4. QED
  BY <1>2, <1>3

-----------------------------------------------------------------------------
(* The steps. *)

LEMMA MoveHead ==
  ASSUME NEW A, NEW a \in Seq(A), NEW b \in Seq(A), b # <<>>
  PROVE  /\ Head(b) \in A /\ Tail(b) \in Seq(A) /\ Append(a, Head(b)) \in Seq(A)
         /\ Append(a, Head(b)) = a \o <<Head(b)>>
         /\ Append(a, Head(b)) \o Tail(b) = a \o b
         /\ b = <<Head(b)>> \o Tail(b)
         /\ Len(Append(a, Head(b))) = Len(a) + 1 /\ Len(Tail(b)) = Len(b) - 1
         /\ Len(b) \in Nat \ {0} /\ b[1] = Head(b)
         /\ \A i \in 1 .. Len(Tail(b)) : Tail(b)[i] = b[i + 1]
<1> DEFINE h == Head(b)
           t == Tail(b)
<1>1. h \in A /\ t \in Seq(A) /\ Len(t) = Len(b) - 1 /\ Len(b) \in Nat \ {0} /\ h = b[1]
      /\ \A i \in 1 .. Len(t) : t[i] = b[i + 1]
  <2>1. h \in A /\ t \in Seq(A) /\ Len(t) = Len(b) - 1
    BY HeadTailProperties
  <2>2. Len(b) \in Nat \ {0} /\ h = b[1]
    OBVIOUS
  <2>3. \A i \in 1 .. Len(t) : t[i] = b[i + 1]
    BY HeadTailProperties
  <2>4. QED
    BY <2>1, <2>2, <2>3
<1>2. <<h>> \o t \in Seq(A) /\ Len(<<h>> \o t) = Len(b)
      /\ \A i \in 1 .. Len(b) : (<<h>> \o t)[i] = b[i]
  <2>1. <<h>> \in Seq(A) /\ Len(<<h>>) = 1 /\ <<h>>[1] = h
    BY <1>1
  <2> HIDE DEF h, t
  <2>2. /\ <<h>> \o t \in Seq(A) /\ Len(<<h>> \o t) = Len(<<h>>) + Len(t)
        /\ \A i \in 1 .. Len(<<h>>) + Len(t) :
             (<<h>> \o t)[i] = IF i <= Len(<<h>>) THEN <<h>>[i] ELSE t[i - Len(<<h>>)]
    BY <1>1, <2>1, ConcatProperties
  <2>3. /\ <<h>> \o t \in Seq(A) /\ Len(<<h>> \o t) = Len(b)
        /\ \A i \in 1 .. Len(b) : (<<h>> \o t)[i] = IF i <= 1 THEN h ELSE t[i - 1]
    BY <1>1, <2>1, <2>2
  <2>4. \A i \in 1 .. Len(b) : ~ (i <= 1) => i - 1 \in 1 .. Len(t) /\ t[i - 1] = b[i]
    BY <1>1
  <2>5. \A i \in 1 .. Len(b) : i <= 1 => i = 1
    OBVIOUS
  <2>6. QED
    BY <1>1, <2>3, <2>4, <2>5
<1>3. b = <<h>> \o t
  <2> HIDE DEF h, t
  <2>1. QED
    BY <1>2, SeqEqual
<1>4. Append(a, h) = a \o <<h>> /\ Append(a, h) \in Seq(A) /\ Len(Append(a, h)) = Len(a) + 1
  <2> HIDE DEF h, t
  <2>1. Append(a, h) = a \o <<h>>
    BY <1>1, AppendIsConcat
  <2>2. QED
    BY <1>1, <2>1, AppendProperties
<1>5. Append(a, h) \o t = a \o b
  <2>1. <<h>> \in Seq(A)
    BY <1>1
  <2> HIDE DEF h, t
  <2>2. (a \o <<h>>) \o t = a \o (<<h>> \o t)
    BY <1>1, <2>1, ConcatAssociative, SMTT(30)
  <2>3. QED
    BY <1>3, <1>4, <2>2, Zenon
<1>6. QED
  BY <1>1, <1>3, <1>4, <1>5, Zenon

\* What is shown, by where it is.
LEMMA ShownIs ==
  ASSUME got \in Seq(ItemType), chan \in Seq(ItemType), outbox \in Seq(ItemType)
  PROVE  /\ Handed \in Seq(ItemType)
         /\ DocsOf(Handed) \in Seq(Nat) /\ DocsOf(outbox) \in Seq(Nat)
         /\ Shown = DocsOf(Handed) \o DocsOf(outbox) /\ Shown \in Seq(Nat)
         /\ outbox = <<>> => Shown = DocsOf(Handed)
         /\ Begins(DocsOf(Handed), Shown)
<1>1. Handed \in Seq(ItemType)
  BY ConcatProperties DEF Handed
<1>2. DocsOf(Handed) \in Seq(Nat) /\ DocsOf(outbox) \in Seq(Nat)
  BY <1>1, DocsOfIs
<1>3. Shown = DocsOf(Handed) \o DocsOf(outbox)
  BY <1>1, DocsOfIs DEF Shown
<1>4. Shown \in Seq(Nat) /\ Begins(DocsOf(Handed), Shown)
  <2> DEFINE a == DocsOf(Handed)
             b == DocsOf(outbox)
  <2> HIDE DEF a, b
  <2>1. a \in Seq(Nat) /\ b \in Seq(Nat)
    BY <1>2 DEF a, b
  <2>2. Begins(a, a)
    BY <2>1 DEF Begins
  <2>3. a \o b \in Seq(Nat) /\ Begins(a, a \o b)
    BY <2>1, <2>2, BeginsConcat, ConcatProperties
  <2>4. QED
    BY <1>3, <2>3 DEF a, b
<1>5. outbox = <<>> => Shown = DocsOf(Handed)
  <2>1. Handed \o <<>> = Handed
    BY <1>1, ConcatEmptySeq
  <2>2. QED
    BY <2>1, Zenon DEF Shown
<1>6. QED
  BY <1>1, <1>2, <1>3, <1>4, <1>5, Zenon

LEMMA BeginsTransitive ==
  ASSUME NEW A, NEW a \in Seq(A), NEW b \in Seq(A), NEW c \in Seq(A), Begins(a, b), Begins(b, c)
  PROVE  Begins(a, c)
BY DEF Begins

\* A step keeps its connection, and with it all that depends on nothing else.
LEMMA SameConn ==
  ASSUME conn' = conn
  PROVE  /\ wire' = wire /\ Expected' = Expected
         /\ Mute' <=> Mute
         /\ LastLineEnded' <=> LastLineEnded
         /\ stopped' = stopped => (Complete' <=> Complete)
         /\ stopped = "no" => (Complete' => Complete)
         /\ \A n : Upto(n)' = Upto(n) /\ FrameDocs(n)' = FrameDocs(n) /\ Sent(n)' = Sent(n)
<1>1. wire' = wire /\ Expected' = Expected
  BY DEF wire, Expected, Decoded
<1>2. (Mute' <=> Mute) /\ (LastLineEnded' <=> LastLineEnded)
  BY DEF Mute, LastLineEnded
<1>3. \A n : Upto(n)' = Upto(n)
  BY DEF Upto
<1>4. \A n : FrameDocs(n)' = FrameDocs(n)
  BY DEF FrameDocs, Decoded
<1>5. \A n : Sent(n)' = Sent(n)
  BY DEF Sent, FrameDocs, Decoded
<1>6. stopped' = stopped => (Complete' <=> Complete)
  BY Zenon DEF Complete, LastLineEnded
<1>7. stopped = "no" => (Complete' => Complete)
  BY Zenon DEF Complete, LastLineEnded
<1>8. QED
  BY <1>1, <1>2, <1>3, <1>4, <1>5, <1>6, <1>7, Zenon

\* A step that only moves items, or reads on, or stops the stream.
LEMMA Moves ==
  ASSUME ReaderInv, conn' = conn, parsed' = parsed,
         pendingEvent' = pendingEvent, pendingData' = pendingData,
         arrived' \in 0 .. conn.last, arrived <= arrived',
         phase' = phase \/ (phase = "closing" /\ phase' = "ended" /\ outbox' = <<>>),
         stopped' \in {"no", "abort", "cancel", "cleanup"},
         stopped' = stopped \/ (stopped' # "no" /\ stopped # "cancel"),
         stopped' = "cancel" => conn.parser = "go",
         outbox' \in Seq(ItemType), chan' \in Seq(ItemType), got' \in Seq(ItemType),
         outbox = <<>> => outbox' = <<>>,
         Mute => outbox' = <<>> /\ got' = <<>>,
         Len(chan') <= ChanCap, conn.parser # "go" => chan' = <<>>,
         stopped' # "cancel" => Shown' = Shown,
         Wholeness'
  PROVE  ReaderInv'
<1>1. /\ wire' = wire /\ Expected' = Expected
      /\ Mute' <=> Mute
      /\ stopped' = stopped => (Complete' <=> Complete)
      /\ \A n : Upto(n)' = Upto(n) /\ Sent(n)' = Sent(n)
  BY SameConn
<1>2. TypeOK'
  <2>1. TypeOK /\ Len(wire) \in Nat
    BY WireLength DEF ReaderInv, TypeOK
  <2>2. 3 * parsed <= arrived'
    <3>1. parsed \in Nat /\ arrived \in Nat /\ arrived' \in Nat /\ 3 * parsed <= arrived
      <4>1. conn.last \in Nat
        BY <2>1, ConnIs DEF TypeOK
      <4>2. QED
        BY <2>1, <4>1 DEF TypeOK
    <3>2. QED
      BY <3>1
  <2>3. phase' \in {"open", "closing", "ended", "left", "failed"}
    BY <2>1 DEF TypeOK
  <2>4. QED
    BY <1>1, <2>1, <2>2, <2>3 DEF TypeOK
<1>3. stopped' # "cancel" => stopped # "cancel"
  OBVIOUS
<1>4. ASSUME Reading
      PROVE  Reading'
  <2>1. PICK n \in 0 .. MaxFrames, j \in 0 .. 3 :
          At(n, j) /\ (stopped # "cancel" => Shown = Sent(n))
    BY <1>4, Zenon DEF Reading
  <2>2. At(n, j)'
    BY <1>1, <2>1, Zenon DEF At
  <2>3. stopped' # "cancel" => Shown' = Sent(n)'
    BY <1>1, <1>3, <2>1, Zenon
  <2>4. QED
    BY <2>2, <2>3, Zenon DEF Reading
<1>5. phase' \in {"ended", "left", "failed"} => outbox' = <<>>
  BY DEF ReaderInv
<1>6. Mute' => outbox' = <<>> /\ got' = <<>>
  BY <1>1
<1>7. phase' = "open" /\ ~ Mute' => Reading'
  <2>1. phase' = "open" => phase = "open"
    OBVIOUS
  <2>2. QED
    BY <1>1, <1>4, <2>1, Zenon DEF ReaderInv
<1>8. stopped' # "cancel" => Begins(Shown', Expected')
  BY <1>1, <1>3, Zenon DEF ReaderInv
<1>9. phase' \in {"closing", "ended"} /\ Complete' => Shown' = Expected'
  <2>1. ASSUME phase' \in {"closing", "ended"}, Complete'
        PROVE  Shown' = Expected'
    <3>1. phase \in {"closing", "ended"}
      BY <2>1
    <3>2. stopped' = "no"
      BY <2>1, Zenon DEF Complete
    <3>3. stopped' = stopped /\ stopped' # "cancel"
      BY <3>2
    <3>4. Complete
      BY <1>1, <2>1, <3>3, Zenon
    <3>5. Shown = Expected
      BY <3>1, <3>4, Zenon DEF ReaderInv
    <3>6. QED
      BY <1>1, <3>3, <3>5, Zenon
  <2>2. QED
    BY <2>1
<1>10. stopped' = "cancel" => conn'.parser = "go"
  OBVIOUS
<1>11. QED
  BY <1>2, <1>5, <1>6, <1>7, <1>8, <1>9, <1>10, Zenon DEF ReaderInv

\* Wholeness survives, if a reader other than the conformance suite's moves a
\* whole item, and that one moves its only item.
LEMMA WholenessSame ==
  ASSUME Wholeness, conn' = conn, phase' = "open" => phase = "open",
         got' = got, chan' = chan, outbox' = outbox
  PROVE  Wholeness'
BY Zenon DEF Wholeness, AllWhole

LEMMA ReceiveStep ==
  ASSUME ReaderInv, Receive
  PROVE  ReaderInv'
<1>1. arrived' \in 0 .. conn.last /\ arrived <= arrived'
  <2>1. conn.last \in Nat /\ arrived \in 0 .. conn.last
    BY ConnIs DEF ReaderInv, TypeOK
  <2>2. PICK n \in arrived + 1 .. conn.last : arrived' = n
    BY DEF Receive
  <2>3. QED
    BY <2>1, <2>2
<1>2. Shown' = Shown
  BY DEF Receive, Shown, Handed
<1>3. Wholeness'
  BY WholenessSame DEF Receive, ReaderInv
<1>4. QED
  BY <1>1, <1>2, <1>3, Moves DEF Receive, ReaderInv, TypeOK

LEMMA StopStep ==
  ASSUME ReaderInv, NEW how \in {"cancel", "cleanup"}, Stop(how)
  PROVE  ReaderInv'
<1>1. arrived' \in 0 .. conn.last /\ arrived <= arrived'
  BY ConnIs DEF ReaderInv, TypeOK, Stop
<1>2. Shown' = Shown
  BY DEF Stop, Shown, Handed
<1>3. Wholeness'
  BY WholenessSame DEF Stop, ReaderInv
<1>4. QED
  BY <1>1, <1>2, <1>3, Moves DEF Stop, ReaderInv, TypeOK

LEMMA FinishStep ==
  ASSUME ReaderInv, Finish
  PROVE  ReaderInv'
<1>1. arrived' \in 0 .. conn.last /\ arrived <= arrived'
  BY ConnIs DEF ReaderInv, TypeOK, Finish
<1>2. Shown' = Shown
  BY DEF Finish, Shown, Handed
<1>3. Wholeness'
  BY WholenessSame DEF Finish, ReaderInv
<1>4. QED
  BY <1>1, <1>2, <1>3, Moves DEF Finish, ReaderInv, TypeOK

LEMMA StutterStep ==
  ASSUME ReaderInv, UNCHANGED vars
  PROVE  ReaderInv'
<1>1. arrived' \in 0 .. conn.last /\ arrived <= arrived'
  BY ConnIs DEF ReaderInv, TypeOK, vars
<1>2. Shown' = Shown
  BY DEF vars, Shown, Handed
<1>3. Wholeness'
  BY WholenessSame DEF vars, ReaderInv
<1>4. QED
  BY <1>1, <1>2, <1>3, Moves DEF vars, ReaderInv, TypeOK

LEMMA WholeMoves ==
  ASSUME NEW a \in Seq(ItemType), NEW b \in Seq(ItemType), b # <<>>, AllWhole(b)
  PROVE  /\ AllWhole(Tail(b)) /\ Head(b).whole
         /\ AllWhole(a) => AllWhole(Append(a, Head(b)))
<1>1. /\ Len(b) \in Nat \ {0} /\ b[1] = Head(b) /\ Len(Tail(b)) = Len(b) - 1
      /\ \A i \in 1 .. Len(Tail(b)) : Tail(b)[i] = b[i + 1]
  BY MoveHead
<1>2. \A i \in 1 .. Len(b) : b[i].whole
  BY Zenon DEF AllWhole
<1>3. Head(b).whole
  BY <1>1, <1>2
<1>4. AllWhole(Tail(b))
  <2>1. ASSUME NEW i \in 1 .. Len(Tail(b))
        PROVE  Tail(b)[i].whole
    <3>1. i + 1 \in 1 .. Len(b) /\ Tail(b)[i] = b[i + 1]
      BY <1>1
    <3>2. QED
      BY <1>2, <3>1
  <2>2. QED
    BY <2>1 DEF AllWhole
<1>5. ASSUME AllWhole(a)
      PROVE  AllWhole(Append(a, Head(b)))
  <2>1. \A i \in 1 .. Len(a) : a[i].whole
    BY <1>5, Zenon DEF AllWhole
  <2>2. ASSUME NEW i \in 1 .. Len(Append(a, Head(b)))
        PROVE  Append(a, Head(b))[i].whole
    <3>1. Append(a, Head(b))[i] = IF i <= Len(a) THEN a[i] ELSE Head(b)
      <4> DEFINE h == Head(b)
      <4> HIDE DEF h
      <4>1. h \in ItemType
        BY MoveHead DEF h
      <4>2. Append(a, h)[i] = IF i <= Len(a) THEN a[i] ELSE h
        BY <2>2, <4>1 DEF h
      <4>3. QED
        BY <4>2 DEF h
    <3>2. i \in 1 .. Len(a) \/ ~ (i <= Len(a))
      <4>1. Len(a) \in Nat /\ Len(Append(a, Head(b))) = Len(a) + 1
        BY MoveHead, LenProperties
      <4>2. QED
        BY <2>2, <4>1
    <3>3. CASE i \in 1 .. Len(a)
      <4>1. i <= Len(a)
        BY <3>3
      <4>2. Append(a, Head(b))[i] = a[i]
        BY <3>1, <4>1, Zenon
      <4>3. QED
        BY <2>1, <3>3, <4>2, Zenon
    <3>4. CASE ~ (i <= Len(a))
      BY <1>3, <3>1, <3>4, Zenon
    <3>5. QED
      BY <3>2, <3>3, <3>4, Zenon
  <2>3. QED
    BY <2>2, Zenon DEF AllWhole
<1>6. QED
  BY <1>3, <1>4, <1>5, Zenon

LEMMA HandOverStep ==
  ASSUME ReaderInv, HandOver
  PROVE  ReaderInv'
<1> DEFINE h == Head(outbox)
<1>1. /\ conn.parser # "go" /\ outbox # <<>> /\ chan = <<>> /\ chan' = chan
      /\ got' = Append(got, h) /\ outbox' = Tail(outbox)
      /\ got \in Seq(ItemType) /\ outbox \in Seq(ItemType) /\ chan \in Seq(ItemType)
      /\ conn' = conn /\ phase' = phase /\ stopped' = stopped
      /\ ~ Mute /\ Wholeness
  BY DEF HandOver, ReaderInv, TypeOK
<1>2. /\ got' \in Seq(ItemType) /\ outbox' \in Seq(ItemType)
      /\ got' \o outbox' = got \o outbox
      /\ Len(got') = Len(got) + 1 /\ Len(outbox') = Len(outbox) - 1
  BY <1>1, MoveHead
<1>3. Shown' = Shown
  <2>1. got \o <<>> = got /\ got' \o <<>> = got'
    BY <1>1, <1>2, ConcatEmptySeq
  <2>2. QED
    BY <1>1, <1>2, <2>1, Zenon DEF Shown, Handed
<1>4. arrived' \in 0 .. conn.last /\ arrived <= arrived'
  BY ConnIs DEF ReaderInv, TypeOK, HandOver
<1>5. Wholeness'
  <2>1. ASSUME phase = "open" \/ conn.parser # "conf"
        PROVE  AllWhole(got') /\ AllWhole(chan') /\ AllWhole(outbox')
    <3>1. AllWhole(got) /\ AllWhole(chan) /\ AllWhole(outbox)
      BY <1>1, <2>1, Zenon DEF Wholeness
    <3>2. QED
      BY <1>1, <3>1, WholeMoves, Zenon
  <2>2. ASSUME conn.parser = "conf"
        PROVE  /\ Len(outbox') <= 1
               /\ outbox' # <<>> => AllWhole(got')
               /\ \A i \in 1 .. Len(got') : got'[i].whole \/ i = Len(got')
    <3>1. Len(outbox) <= 1 /\ AllWhole(got)
      BY <1>1, <2>2, Zenon DEF Wholeness
    <3>2. Len(outbox) \in Nat /\ Len(outbox') \in Nat /\ Len(got) \in Nat /\ Len(outbox) # 0
      BY <1>1, <1>2
    <3>3. Len(outbox') = 0
      BY <1>2, <3>1, <3>2
    <3>4. outbox' = <<>>
      BY <1>2, <3>3, EmptySeq
    <3>5. \A i \in 1 .. Len(got) : got[i].whole
      BY <3>1, Zenon DEF AllWhole
    <3>6. \A i \in 1 .. Len(got') : i = Len(got') \/ (i \in 1 .. Len(got) /\ got'[i] = got[i])
      <4> HIDE DEF h
      <4>1. h \in ItemType
        BY <1>1, MoveHead DEF h
      <4>2. QED
        BY <1>1, <1>2, <3>2, <4>1
    <3>7. \A i \in 1 .. Len(got') : got'[i].whole \/ i = Len(got')
      BY <3>5, <3>6, Zenon
    <3>8. Len(outbox') <= 1
      BY <3>3
    <3>9. QED
      BY <3>4, <3>7, <3>8, Zenon
  <2>3. QED
    BY <1>1, <2>1, <2>2, Zenon DEF Wholeness
<1>6. QED
  BY <1>1, <1>2, <1>3, <1>4, <1>5, Moves DEF HandOver, ReaderInv, TypeOK

LEMMA SendStep ==
  ASSUME ReaderInv, Send
  PROVE  ReaderInv'
<1> DEFINE h == Head(outbox)
<1>1. /\ conn.parser = "go" /\ outbox # <<>> /\ Len(chan) < ChanCap
      /\ chan' = Append(chan, h) /\ outbox' = Tail(outbox) /\ got' = got
      /\ got \in Seq(ItemType) /\ outbox \in Seq(ItemType) /\ chan \in Seq(ItemType)
      /\ conn' = conn /\ phase' = phase /\ stopped' = stopped
      /\ ~ Mute /\ Wholeness
  BY DEF Send, ReaderInv, TypeOK
<1>2. /\ chan' \in Seq(ItemType) /\ outbox' \in Seq(ItemType) /\ h \in ItemType
      /\ chan' = chan \o <<h>> /\ outbox = <<h>> \o outbox'
      /\ Len(chan') = Len(chan) + 1
  BY <1>1, MoveHead
<1>3. Len(chan') <= ChanCap
  <2>1. Len(chan) \in Nat
    BY <1>1
  <2>2. QED
    BY <1>1, <1>2, <2>1, ReaderAssumption
<1>4. Shown' = Shown
  <2>1. <<h>> \in Seq(ItemType)
    BY <1>2
  <2> HIDE DEF h
  <2>2. got \o chan \in Seq(ItemType)
    BY <1>1, ConcatProperties
  <2>3. got \o (chan \o <<h>>) = (got \o chan) \o <<h>>
    BY <1>1, <2>1, ConcatAssociative
  <2>4. ((got \o chan) \o <<h>>) \o outbox' = (got \o chan) \o (<<h>> \o outbox')
    BY <1>2, <2>1, <2>2, ConcatAssociative
  <2>5. QED
    BY <1>1, <1>2, <2>3, <2>4, Zenon DEF Shown, Handed
<1>5. arrived' \in 0 .. conn.last /\ arrived <= arrived'
  BY ConnIs DEF ReaderInv, TypeOK, Send
<1>6. Wholeness'
  <2>0. conn.parser # "conf"
    BY <1>1
  <2>1. AllWhole(got) /\ AllWhole(chan) /\ AllWhole(outbox)
    BY <1>1, <2>0, Zenon DEF Wholeness
  <2>2. AllWhole(chan') /\ AllWhole(outbox') /\ AllWhole(got')
    BY <1>1, <2>1, WholeMoves, Zenon
  <2>3. QED
    BY <1>1, <2>0, <2>2, Zenon DEF Wholeness
<1>7. QED
  BY <1>1, <1>2, <1>3, <1>4, <1>5, <1>6, Moves DEF Send, ReaderInv, TypeOK

LEMMA TakeStep ==
  ASSUME ReaderInv, Take
  PROVE  ReaderInv'
<1>1. /\ conn.parser = "go" /\ chan # <<>> /\ Len(chan) <= ChanCap
      /\ got' = Append(got, Head(chan)) /\ chan' = Tail(chan) /\ outbox' = outbox
      /\ got \in Seq(ItemType) /\ outbox \in Seq(ItemType) /\ chan \in Seq(ItemType)
      /\ conn' = conn /\ phase' = phase /\ stopped' = stopped
      /\ ~ Mute /\ Wholeness
  BY DEF Take, ReaderInv, TypeOK, Mute
<1>2. /\ got' \in Seq(ItemType) /\ chan' \in Seq(ItemType)
      /\ got' \o chan' = got \o chan
      /\ Len(chan') = Len(chan) - 1
  BY <1>1, MoveHead
<1>3. Len(chan') <= ChanCap
  <2>1. Len(chan) \in Nat
    BY <1>1
  <2>2. QED
    BY <1>1, <1>2, <2>1, ReaderAssumption
<1>4. Shown' = Shown
  BY <1>1, <1>2, Zenon DEF Shown, Handed
<1>5. arrived' \in 0 .. conn.last /\ arrived <= arrived'
  BY ConnIs DEF ReaderInv, TypeOK, Take
<1>6. Wholeness'
  <2>0. conn.parser # "conf"
    BY <1>1
  <2>1. AllWhole(got) /\ AllWhole(chan) /\ AllWhole(outbox)
    BY <1>1, <2>0, Zenon DEF Wholeness
  <2>2. AllWhole(chan') /\ AllWhole(outbox') /\ AllWhole(got')
    BY <1>1, <2>1, WholeMoves, Zenon
  <2>3. QED
    BY <1>1, <2>0, <2>2, Zenon DEF Wholeness
<1>7. QED
  BY <1>1, <1>2, <1>3, <1>4, <1>5, <1>6, Moves DEF Take, ReaderInv, TypeOK

LEMMA SkipStep ==
  ASSUME ReaderInv, Skip
  PROVE  ReaderInv'
<1>1. /\ conn.parser = "go" /\ outbox # <<>> /\ stopped = "cancel"
      /\ outbox' = Tail(outbox) /\ got' = got /\ chan' = chan
      /\ got \in Seq(ItemType) /\ outbox \in Seq(ItemType) /\ chan \in Seq(ItemType)
      /\ conn' = conn /\ phase' = phase /\ stopped' = stopped
      /\ ~ Mute /\ Wholeness
  BY DEF Skip, ReaderInv, TypeOK
<1>2. outbox' \in Seq(ItemType)
  BY <1>1, MoveHead
<1>3. arrived' \in 0 .. conn.last /\ arrived <= arrived'
  BY ConnIs DEF ReaderInv, TypeOK, Skip
<1>4. Wholeness'
  <2>0. conn.parser # "conf"
    BY <1>1
  <2>1. AllWhole(got) /\ AllWhole(chan) /\ AllWhole(outbox)
    BY <1>1, <2>0, Zenon DEF Wholeness
  <2>2. AllWhole(outbox')
    BY <1>1, <2>1, WholeMoves, Zenon
  <2>3. QED
    BY <1>1, <2>0, <2>1, <2>2, Zenon DEF Wholeness
<1>5. QED
  BY <1>1, <1>2, <1>3, <1>4, Moves DEF Skip, ReaderInv, TypeOK

LEMMA LeaveStep ==
  ASSUME ReaderInv, Leave
  PROVE  ReaderInv'
<1>1. /\ conn' = conn /\ phase' = "left" /\ outbox' = <<>> /\ got' = got /\ chan' = chan
      /\ conn.parser # "go" /\ conn.parser # "conf" /\ stopped' = stopped
      /\ got \in Seq(ItemType) /\ outbox \in Seq(ItemType) /\ chan \in Seq(ItemType)
  BY DEF Leave, ReaderInv
<1>2. TypeOK' /\ (stopped' = "cancel" => conn'.parser = "go")
  BY SameConn DEF ReaderInv, TypeOK, Leave
<1>3. outbox' \in Seq(ItemType)
  BY <1>1
<1>4. Wholeness'
  <2>1. AllWhole(got) /\ AllWhole(chan)
    BY <1>1, Zenon DEF ReaderInv, Wholeness
  <2>2. AllWhole(<<>>)
    BY DEF AllWhole
  <2>3. QED
    BY <1>1, <2>1, <2>2, Zenon DEF Wholeness
<1>5. stopped' # "cancel" => Begins(Shown', Expected')
  <2>1. ASSUME stopped # "cancel"
        PROVE  Begins(Shown', Expected)
    <3>1. /\ DocsOf(Handed) \in Seq(Nat) /\ Shown \in Seq(Nat) /\ Begins(DocsOf(Handed), Shown)
          /\ Handed \in Seq(ItemType)
      BY <1>1, ShownIs
    <3>2. Handed' \o outbox' = Handed
      <4>1. Handed \o <<>> = Handed
        BY <3>1, ConcatEmptySeq
      <4>2. QED
        BY <1>1, <4>1, Zenon DEF Handed
    <3>3. Shown' = DocsOf(Handed)
      BY <3>2, Zenon DEF Shown
    <3>4. Begins(Shown, Expected) /\ Expected \in Seq(Nat)
      BY <2>1, SentIs DEF ReaderInv, TypeOK
    <3> DEFINE a == DocsOf(Handed)
               b == Shown
               c == Expected
    <3>5. a \in Seq(Nat) /\ b \in Seq(Nat) /\ c \in Seq(Nat) /\ Begins(a, b) /\ Begins(b, c)
      BY <3>1, <3>4
    <3> HIDE DEF a, b, c
    <3>6. Begins(a, c)
      BY <3>5, BeginsTransitive
    <3>7. QED
      BY <3>3, <3>6 DEF a, c
  <2>2. QED
    BY <1>1, <2>1, SameConn, Zenon
<1>6. Mute' => outbox' = <<>> /\ got' = <<>>
  BY <1>1, SameConn DEF ReaderInv
<1>7. phase' # "open" /\ phase' # "closing" /\ phase' # "ended"
  BY <1>1
<1>8. QED
  BY <1>1, <1>2, <1>3, <1>4, <1>5, <1>6, <1>7 DEF ReaderInv

LEMMA FailStep ==
  ASSUME ReaderInv, Idle, conn.parser # "go", Fail, stopped' \in {stopped, "abort"}
  PROVE  ReaderInv'
<1>1. /\ conn' = conn /\ phase' = "failed" /\ outbox' = <<>> /\ outbox = <<>>
      /\ chan' = <<>> /\ chan = <<>> /\ phase = "open"
      /\ got' = IF conn.parser = "conf" THEN <<>> ELSE got
      /\ got \in Seq(ItemType) /\ stopped # "cancel" /\ stopped' # "cancel"
  BY DEF Fail, ReaderInv, TypeOK, Idle
<1>2. TypeOK'
  BY <1>1, SameConn DEF ReaderInv, TypeOK, Fail
<1>3. outbox' \in Seq(ItemType) /\ chan' \in Seq(ItemType) /\ got' \in Seq(ItemType)
  BY <1>1
<1>4. Wholeness'
  <2>1. AllWhole(got)
    BY <1>1, Zenon DEF ReaderInv, Wholeness
  <2>2. AllWhole(<<>>) /\ Len(<<>>) <= 1 /\ \A i \in 1 .. Len(<<>>) : FALSE
    BY DEF AllWhole
  <2>3. QED
    BY <1>1, <2>1, <2>2, Zenon DEF Wholeness
<1>5. Begins(Shown', Expected')
  <2>1. got' = <<>> \/ got' = got
    BY <1>1
  <2>2. CASE got' = got
    <3>1. Shown' = Shown
      BY <1>1, <2>2, Zenon DEF Shown, Handed
    <3>2. QED
      BY <1>1, <3>1, SameConn, Zenon DEF ReaderInv
  <2>3. CASE got' = <<>>
    <3>1. (<<>> \o <<>>) \o <<>> = <<>>
      OBVIOUS
    <3>2. Shown' = <<>>
      BY <1>1, <2>3, <3>1, DocsOfIs, Zenon DEF Shown, Handed
    <3>3. Expected \in Seq(Nat)
      BY SentIs DEF ReaderInv, TypeOK
    <3>4. Begins(<<>>, Expected)
      BY <3>3 DEF Begins
    <3>5. QED
      BY <1>1, <3>2, <3>4, SameConn, Zenon
  <2>4. QED
    BY <2>1, <2>2, <2>3
<1>6. Mute' => outbox' = <<>> /\ got' = <<>>
  BY <1>1, SameConn DEF ReaderInv
<1>7. phase' # "open" /\ phase' # "closing" /\ phase' # "ended"
  BY <1>1
<1>8. QED
  BY <1>1, <1>2, <1>3, <1>4, <1>5, <1>6, <1>7 DEF ReaderInv

\* The flush after the loop adds the next frame to what is shown, or nothing.
LEMMA EndOfLoop ==
  ASSUME ReaderInv, phase = "open", outbox = <<>>, NEW R \in {<<>>, Rest},
         FinalFlush(pendingData \o R),
         stopped' = stopped \/ (stopped # "cancel" /\ stopped' = "abort"),
         Complete' /\ ~ Mute =>
           \A n \in 0 .. MaxFrames, j \in 0 .. 3 : At(n, j) =>
             \/ n = MaxFrames
             \/ /\ n = MaxFrames - 1 /\ conn.parser # "example"
                /\ pendingData \o R = DataLines(conn.kinds[n + 1], n + 1)
  PROVE  ReaderInv'
<1> DEFINE F == Flushed(pendingEvent, pendingData \o R)
<1>1. /\ conn \in Conns /\ conn' = conn /\ phase' = "closing" /\ got' = got /\ chan' = chan
      /\ outbox' = IF conn.parser = "example" THEN <<>> ELSE F
      /\ got \in Seq(ItemType) /\ chan \in Seq(ItemType)
      /\ stopped' # "cancel" => stopped # "cancel"
      /\ stopped' = "cancel" => conn.parser = "go"
      /\ MaxFrames \in Nat
  BY ReaderAssumption DEF FinalFlush, ReaderInv, TypeOK
<1>2. TypeOK'
  BY <1>1, SameConn DEF ReaderInv, TypeOK, FinalFlush
<1>3. AllWhole(<<>>) /\ Len(<<>>) <= 1 /\ <<>> \in Seq(ItemType) /\ DocsOf(<<>>) = <<>>
  BY DocsOfIs DEF AllWhole
<1>4. CASE Mute
  <2>1. outbox' = <<>> /\ got' = <<>> /\ conn.parser = "example"
    BY <1>1, <1>4 DEF Mute, ReaderInv
  <2>2. Wholeness'
    <3>1. AllWhole(got) /\ AllWhole(chan)
      BY <1>1, <2>1, Zenon DEF ReaderInv, Wholeness
    <3>2. conn.parser # "conf"
      BY <2>1
    <3>3. QED
      BY <1>1, <1>3, <2>1, <3>1, <3>2, Zenon DEF Wholeness
  <2>3. stopped' # "cancel" => Begins(Shown', Expected')
    <3>1. Shown' = Shown
      BY <1>1, <2>1, Zenon DEF Shown, Handed
    <3>2. QED
      BY <1>1, <3>1, SameConn, Zenon DEF ReaderInv
  <2>4. ~ Complete'
    BY <1>1, <1>4, <2>1 DEF Complete, Mute
  <2>5. Mute' /\ phase' # "ended" /\ phase' # "left" /\ phase' # "failed"
    BY <1>1, <1>4, SameConn
  <2>6. QED
    BY <1>1, <1>2, <1>3, <2>1, <2>2, <2>3, <2>4, <2>5 DEF ReaderInv
<1>5. CASE ~ Mute
  <2>1. PICK n \in 0 .. MaxFrames, j \in 0 .. 3 :
          At(n, j) /\ (stopped # "cancel" => Shown = Sent(n))
    BY <1>5, Zenon DEF ReaderInv, Reading
  <2>2. /\ F \in Seq(ItemType)
        /\ conn.parser = "conf" => Len(F) <= 1
        /\ conn.parser \notin {"conf", "example"} => AllWhole(F)
        /\ n = MaxFrames => DocsOf(F) = <<>>
        /\ n < MaxFrames => DocsOf(F) \in {<<>>, FrameDocs(n + 1)}
        /\ n < MaxFrames /\ pendingData \o R = DataLines(conn.kinds[n + 1], n + 1) =>
             DocsOf(F) = FrameDocs(n + 1)
    BY <1>1, <2>1, EndFlush, Zenon
  <2> HIDE DEF F
  <2>3. outbox' \in Seq(ItemType)
    BY <1>1, <1>3, <2>2
  <2>4. Wholeness'
    <3>1. AllWhole(got) /\ AllWhole(chan)
      BY Zenon DEF ReaderInv, Wholeness
    <3>2. ASSUME conn.parser # "conf"
          PROVE  AllWhole(outbox')
      <4>1. CASE conn.parser = "example"
        BY <1>1, <1>3, <4>1, Zenon
      <4>2. CASE conn.parser # "example"
        <5>1. conn.parser \notin {"conf", "example"}
          BY <3>2, <4>2
        <5>2. QED
          BY <1>1, <2>2, <4>2, <5>1, Zenon
      <4>3. QED
        BY <4>1, <4>2
    <3>3. ASSUME conn.parser = "conf"
          PROVE  Len(outbox') <= 1
      BY <1>1, <2>2, <3>3
    <3>4. \A i \in 1 .. Len(got) : got[i].whole
      BY <3>1, Zenon DEF AllWhole
    <3>5. phase' # "open"
      BY <1>1
    <3>6. QED
      BY <1>1, <3>1, <3>2, <3>3, <3>4, <3>5, Zenon DEF Wholeness
  <2>5. ASSUME stopped' # "cancel"
        PROVE  Shown' = Sent(n) \o DocsOf(outbox')
    <3>1. Shown = DocsOf(Handed) /\ Shown = Sent(n) /\ Handed \in Seq(ItemType)
      BY <1>1, <1>3, <2>1, <2>5, ShownIs
    <3>2. Handed' = Handed
      BY <1>1 DEF Handed
    <3>3. DocsOf(Handed \o outbox') = DocsOf(Handed) \o DocsOf(outbox')
      BY <2>3, <3>1, DocsOfIs
    <3>4. QED
      BY <3>1, <3>2, <3>3, Zenon DEF Shown
  <2>6. Sent(n) \in Seq(Nat) /\ Begins(Sent(n), Expected) /\ Sent(n) \o <<>> = Sent(n)
    <3> DEFINE a == Sent(n)
    <3>1. a \in Seq(Nat) /\ Begins(a, Expected)
      BY <1>1, SentIs
    <3> HIDE DEF a
    <3>2. a \o <<>> = a
      BY <3>1, ConcatEmptySeq
    <3>3. QED
      BY <3>1, <3>2 DEF a
  <2>7. ASSUME n < MaxFrames
        PROVE  Sent(n) \o FrameDocs(n + 1) = Sent(n + 1) /\ Begins(Sent(n + 1), Expected)
    <3>1. n \in 0 .. MaxFrames - 1 /\ n + 1 \in 0 .. MaxFrames
      BY <1>1, <2>7
    <3>2. QED
      BY <1>1, <3>1, SentIs
  <2>8. DocsOf(outbox') = <<>> \/ (n < MaxFrames /\ DocsOf(outbox') = FrameDocs(n + 1))
    <3>1. outbox' = <<>> \/ outbox' = F
      BY <1>1
    <3>2. n = MaxFrames \/ n < MaxFrames
      BY <1>1
    <3>3. DocsOf(F) = <<>> \/ (n < MaxFrames /\ DocsOf(F) = FrameDocs(n + 1))
      BY <2>2, <3>2
    <3>4. QED
      BY <1>3, <3>1, <3>3, Zenon
  <2>9. stopped' # "cancel" => Begins(Shown', Expected')
    BY <1>1, <2>5, <2>6, <2>7, <2>8, SameConn, Zenon
  <2>10. ASSUME Complete'
         PROVE  Shown' = Expected'
    <3>1. stopped' # "cancel"
      BY <2>10, Zenon DEF Complete
    <3>2. Shown' = Sent(n) \o DocsOf(outbox')
      BY <2>5, <3>1
    <3>3. \/ n = MaxFrames
          \/ /\ n = MaxFrames - 1 /\ conn.parser # "example"
             /\ pendingData \o R = DataLines(conn.kinds[n + 1], n + 1)
      BY <1>5, <2>1, <2>10, Zenon
    <3>4. Expected' = Sent(MaxFrames)
      BY <1>1, SameConn, SentIs, Zenon
    <3>5. CASE n = MaxFrames
      <4>1. ~ (n < MaxFrames)
        BY <1>1, <3>5
      <4>2. DocsOf(outbox') = <<>>
        BY <2>8, <4>1
      <4>3. QED
        BY <2>6, <3>2, <3>4, <3>5, <4>2, Zenon
    <3>6. CASE n = MaxFrames - 1 /\ conn.parser # "example"
               /\ pendingData \o R = DataLines(conn.kinds[n + 1], n + 1)
      <4>1. n < MaxFrames /\ n + 1 = MaxFrames
        BY <1>1, <3>6
      <4>2. DocsOf(F) = FrameDocs(n + 1) /\ outbox' = F
        BY <1>1, <2>2, <3>6, <4>1, Zenon
      <4>3. Shown' = Sent(n + 1)
        BY <2>7, <3>2, <4>1, <4>2, Zenon
      <4>4. QED
        BY <3>4, <4>1, <4>3
    <3>7. QED
      BY <3>3, <3>5, <3>6, Zenon
  <2>11. ~ Mute' /\ phase' # "ended" /\ phase' # "left" /\ phase' # "failed" /\ phase' # "open"
    BY <1>1, <1>5, SameConn
  <2>12. got' \in Seq(ItemType) /\ chan' \in Seq(ItemType) /\ (stopped' = "cancel" => conn'.parser = "go")
    BY <1>1
  <2>13. QED
    BY <1>2, <2>3, <2>4, <2>9, <2>10, <2>11, <2>12 DEF ReaderInv
<1>6. QED
  BY <1>4, <1>5

LEMMA ParseLineStep ==
  ASSUME ReaderInv, ParseLine
  PROVE  ReaderInv'
<1> DEFINE line == wire[parsed + 1]
<1>1. /\ conn \in Conns /\ conn' = conn /\ phase = "open" /\ phase' = "open" /\ outbox = <<>>
      /\ got' = got /\ chan' = chan /\ stopped' = stopped /\ parsed' = parsed + 1
      /\ got \in Seq(ItemType) /\ chan \in Seq(ItemType) /\ arrived' = arrived
      /\ MaxFrames \in Nat
  BY ReaderAssumption DEF ParseLine, ReaderInv, TypeOK
<1>2. /\ Len(wire) \in Nat /\ parsed \in Nat /\ parsed + 1 \in 0 .. Len(wire)
      /\ 3 * (parsed + 1) <= arrived /\ parsed < Len(wire)
  <2>1. /\ Len(wire) \in Nat /\ conn.last \in Nat /\ conn.last <= 3 * Len(wire)
        /\ arrived \in 0 .. conn.last /\ parsed \in 0 .. Len(wire)
        /\ 3 * (parsed + 1) <= arrived
    BY <1>1, WireLength DEF ReaderInv, TypeOK, ParseLine, LineComplete
  <2>2. QED
    BY <2>1
<1>3. TypeOK'
  BY <1>1, <1>2, SameConn DEF ReaderInv, TypeOK
<1>4. \/ /\ line.field = "event"
         /\ pendingEvent' = line.value
         /\ pendingData' = pendingData /\ outbox' = outbox
      \/ /\ line.field = "data"
         /\ pendingData' = Append(pendingData, line.value)
         /\ pendingEvent' = pendingEvent /\ outbox' = outbox
      \/ /\ EndsFrame(line)
         /\ outbox' = Flushed(pendingEvent, pendingData)
         /\ pendingEvent' = "message" /\ pendingData' = <<>>
      \/ /\ line.field \in {"comment", "blank"} /\ ~ EndsFrame(line)
         /\ pendingEvent' = pendingEvent /\ pendingData' = pendingData /\ outbox' = outbox
  BY Zenon DEF ParseLine, Reset
<1>5. EndsFrame(line) <=> line.field = "blank" /\ ~ Mute
  BY Zenon DEF EndsFrame, Mute
<1>6. AllWhole(got) /\ AllWhole(chan) /\ AllWhole(<<>>) /\ <<>> \in Seq(ItemType) /\ Len(<<>>) <= 1
  <2>1. AllWhole(got) /\ AllWhole(chan)
    BY <1>1, Zenon DEF ReaderInv, Wholeness
  <2>2. QED
    BY <2>1 DEF AllWhole
<1> HIDE DEF line
\* It is enough to know the items, and where the reader is.
<1>7. ASSUME outbox' \in Seq(ItemType), AllWhole(outbox'),
             conn.parser = "conf" => Len(outbox') <= 1,
             Mute => outbox' = <<>>,
             ~ Mute => Reading',
             stopped # "cancel" => Begins(Shown', Expected)
      PROVE  ReaderInv'
  <2>1. \A i \in 1 .. Len(got) : got[i].whole
    BY <1>6, Zenon DEF AllWhole
  <2>2. Wholeness'
    BY <1>1, <1>6, <1>7, <2>1, Zenon DEF Wholeness
  <2>3. (Mute' => outbox' = <<>> /\ got' = <<>>) /\ (~ Mute' => Reading')
        /\ (stopped' # "cancel" => Begins(Shown', Expected'))
        /\ (stopped' = "cancel" => conn'.parser = "go")
    BY <1>1, <1>7, SameConn, Zenon DEF ReaderInv
  <2>4. /\ got' \in Seq(ItemType) /\ chan' \in Seq(ItemType)
        /\ phase' # "ended" /\ phase' # "left" /\ phase' # "failed" /\ phase' # "closing"
    BY <1>1
  <2>5. QED
    BY <1>3, <1>7, <2>2, <2>3, <2>4 DEF ReaderInv
<1>8. outbox' = <<>> => Shown' = Shown
  BY <1>1, Zenon DEF Shown, Handed
<1>9. stopped # "cancel" => Begins(Shown, Expected)
  BY Zenon DEF ReaderInv
<1>10. CASE Mute
  <2>1. outbox' = <<>>
    BY <1>1, <1>4, <1>5, <1>10, Zenon
  <2>2. QED
    BY <1>6, <1>7, <1>8, <1>9, <1>10, <2>1, Zenon
<1>11. CASE ~ Mute
  <2>1. PICK n \in 0 .. MaxFrames, j \in 0 .. 3 :
          At(n, j) /\ (stopped # "cancel" => Shown = Sent(n))
    BY <1>1, <1>11, Zenon DEF ReaderInv, Reading
  <2>2. n < MaxFrames
    <3>1. n = MaxFrames => parsed = Len(wire)
      BY <1>1, <2>1, AtIs
    <3>2. QED
      BY <1>1, <1>2, <3>1
  <2> DEFINE kind == conn.kinds[n + 1]
             L == Lines(kind, n + 1)
             d == DataLines(kind, n + 1)
             b == Before(kind)
  <2>3. /\ kind \in Kinds /\ n \in 0 .. MaxFrames - 1 /\ n + 1 \in 1 .. MaxFrames /\ n + 1 \in Nat
        /\ j < Len(L) /\ pendingData = Held(kind, n + 1, j)
        /\ j >= b => pendingEvent = EventOf(kind)
        /\ line = L[j + 1]
        /\ j = 0 => pendingEvent = "message" /\ pendingData = <<>>
    BY <1>1, <2>1, <2>2, AtIs DEF line
  <2>4. /\ Len(d) \in 0 .. 2 /\ b \in 0 .. 1
        /\ Len(L) = b + Len(d) + 1
        /\ Len(L) \in 2 .. 4
        /\ L[Len(L)].field = "blank"
        /\ b = 0 => EventOf(kind) = "message"
        /\ b = 1 => \/ L[1].field = "event" /\ L[1].value = EventOf(kind)
                    \/ L[1].field = "comment" /\ EventOf(kind) = "message"
    BY <2>3, LinesAre, Zenon
  <2>5. parsed = Len(Upto(n)) + j /\ Len(Upto(n)) \in Nat /\ Len(Upto(n + 1)) = Len(Upto(n)) + Len(L)
    BY <1>1, <2>1, <2>3, NextFrame DEF At
  <2>6. j \in Nat
    OBVIOUS
  <2>7. /\ j <= b => Held(kind, n + 1, j) = <<>>
        /\ j = Len(L) - 1 => Held(kind, n + 1, j) = d
        /\ j >= b /\ j < Len(L) - 1 =>
             /\ L[j + 1].field = "data"
             /\ Held(kind, n + 1, j + 1) = Append(Held(kind, n + 1, j), L[j + 1].value)
    BY <2>3, <2>6, HeldIs, Zenon
  <2>8. /\ wire' = wire /\ Expected' = Expected
        /\ Upto(n)' = Upto(n) /\ Upto(n + 1)' = Upto(n + 1)
        /\ Sent(n)' = Sent(n) /\ Sent(n + 1)' = Sent(n + 1)
    BY <1>1, SameConn, Zenon
  <2>9. CASE j + 1 = Len(L)
    <3>1. line.field = "blank"
      BY <2>3, <2>4, <2>9, Zenon
    <3>2. /\ outbox' = Flushed(pendingEvent, pendingData)
          /\ pendingEvent' = "message" /\ pendingData' = <<>>
      <4>1. line.field # "event" /\ line.field # "data"
        BY <3>1
      <4>2. QED
        BY <1>4, <1>5, <1>11, <3>1, <4>1, Zenon
    <3>3. pendingData = d /\ pendingEvent = EventOf(kind)
      <4>1. j = Len(L) - 1 /\ j >= b
        BY <2>4, <2>9
      <4>2. QED
        BY <2>3, <2>7, <4>1, Zenon
    <3>4. /\ outbox' \in Seq(ItemType) /\ AllWhole(outbox') /\ DocsOf(outbox') = FrameDocs(n + 1)
          /\ conn.parser = "conf" => Len(outbox') <= 1
      BY <1>1, <2>3, <3>2, <3>3, FlushWhole, Zenon
    <3>5. ASSUME stopped # "cancel"
          PROVE  Shown' = Sent(n + 1)
      <4>1. Shown = DocsOf(Handed) /\ Shown = Sent(n) /\ Handed \in Seq(ItemType)
        BY <1>1, <1>6, <2>1, <3>5, ShownIs
      <4>2. Handed' = Handed
        BY <1>1 DEF Handed
      <4>3. DocsOf(Handed \o outbox') = DocsOf(Handed) \o DocsOf(outbox')
        BY <3>4, <4>1, DocsOfIs
      <4>4. Sent(n + 1) = Sent(n) \o FrameDocs(n + 1)
        BY <1>1, <2>3, SentIs
      <4>5. QED
        BY <3>4, <4>1, <4>2, <4>3, <4>4, Zenon DEF Shown
    <3>6. n + 1 \in 0 .. MaxFrames
      BY <2>3
    <3>7. stopped # "cancel" => Begins(Shown', Expected)
      <4>1. Begins(Sent(n + 1), Expected)
        BY <1>1, <3>6, SentIs
      <4>2. QED
        BY <3>5, <4>1, Zenon
    <3>8. Reading'
      <4>1. parsed' = Len(Upto(n + 1)) + 0 /\ ~ (0 > 0) /\ 0 \in 0 .. 3
        BY <1>1, <2>4, <2>5, <2>9
      <4>2. At(n + 1, 0)'
        BY <2>8, <3>2, <4>1, Zenon DEF At
      <4>3. stopped' # "cancel" => Shown' = Sent(n + 1)'
        BY <1>1, <2>8, <3>5, Zenon
      <4>4. QED
        BY <3>6, <4>1, <4>2, <4>3, Zenon DEF Reading
    <3>9. QED
      BY <1>7, <1>11, <3>4, <3>7, <3>8, Zenon
  <2>10. CASE j + 1 < Len(L)
    <3>1. /\ outbox' = <<>>
          /\ pendingEvent' = EventOf(kind)
          /\ pendingData' = Held(kind, n + 1, j + 1)
      <4>1. CASE j < b
        <5>1. j = 0 /\ b = 1 /\ j + 1 = 1 /\ j + 1 <= b /\ j + 1 \in Nat
          BY <2>4, <4>1
        <5>2. Held(kind, n + 1, j + 1) = <<>>
          BY <2>3, <2>10, <5>1, HeldIs, Zenon
        <5>3. pendingEvent = "message" /\ pendingData = <<>>
          BY <2>3, <5>1
        <5>4. \/ line.field = "event" /\ line.value = EventOf(kind)
              \/ line.field = "comment" /\ EventOf(kind) = "message"
          BY <2>3, <2>4, <5>1, Zenon
        <5>5. CASE line.field = "event" /\ line.value = EventOf(kind)
          <6>1. line.field \notin {"data", "comment", "blank"}
            BY <5>5
          <6>2. outbox' = outbox /\ pendingEvent' = line.value /\ pendingData' = pendingData
            <7>1. line.field # "data" /\ line.field # "blank"
              BY <6>1
            <7>2. QED
              BY <1>4, <1>5, <6>1, <7>1, Zenon
          <6>3. QED
            BY <1>1, <5>2, <5>3, <5>5, <6>2, Zenon
        <5>6. CASE line.field = "comment" /\ EventOf(kind) = "message"
          <6>1. line.field # "event" /\ line.field # "data" /\ line.field # "blank"
            BY <5>6
          <6>2. outbox' = outbox /\ pendingEvent' = pendingEvent /\ pendingData' = pendingData
            BY <1>4, <1>5, <6>1, Zenon
          <6>3. QED
            BY <1>1, <5>2, <5>3, <5>6, <6>2, Zenon
        <5>7. QED
          BY <5>4, <5>5, <5>6, Zenon
      <4>2. CASE ~ (j < b)
        <5>1. j >= b /\ j < Len(L) - 1
          BY <2>4, <2>10, <4>2
        <5>2. line.field = "data" /\ Held(kind, n + 1, j + 1) = Append(pendingData, line.value)
              /\ pendingEvent = EventOf(kind)
          BY <2>3, <2>7, <5>1, Zenon
        <5>3. line.field \notin {"event", "comment", "blank"} /\ line.field # "event"
              /\ line.field # "comment" /\ line.field # "blank"
          BY <5>2
        <5>4. pendingData' = Append(pendingData, line.value) /\ pendingEvent' = pendingEvent
              /\ outbox' = outbox
          BY <1>4, <1>5, <5>3, Zenon
        <5>5. QED
          BY <1>1, <5>2, <5>4, Zenon
      <4>3. QED
        BY <4>1, <4>2
    <3>2. Reading'
      <4>1. parsed' = Len(Upto(n)) + (j + 1) /\ j + 1 \in 0 .. 3 /\ j + 1 > 0 /\ j + 1 # 0
        <5> DEFINE x == Len(L)
        <5>1. x \in 2 .. 4 /\ j + 1 < x
          BY <2>4, <2>10
        <5>2. j + 1 \in 0 .. 3 /\ j + 1 > 0 /\ j + 1 # 0
          <6> HIDE DEF x
          <6>1. QED
            BY <5>1
        <5>3. parsed' = Len(Upto(n)) + (j + 1)
          BY <1>1, <2>5
        <5>4. QED
          BY <5>2, <5>3
      <4>2. At(n, j + 1)'
        <5> HIDE DEF b, d
        <5>1. conn'.kinds[n + 1] = kind
          BY <1>1
        <5>2. QED
          BY <2>2, <2>8, <2>10, <3>1, <4>1, <5>1, Zenon DEF At
      <4>3. stopped' # "cancel" => Shown' = Sent(n)'
        BY <1>1, <1>8, <2>1, <2>8, <3>1, Zenon
      <4>4. QED
        BY <4>1, <4>2, <4>3, Zenon DEF Reading
    <3>3. QED
      BY <1>6, <1>7, <1>8, <1>9, <1>11, <3>1, <3>2, Zenon
  <2>11. j + 1 = Len(L) \/ j + 1 < Len(L)
    BY <2>3, <2>4
  <2>12. QED
    BY <2>9, <2>10, <2>11
<1>12. QED
  BY <1>10, <1>11

\* A data line has the documents of its frame.
LEMMA DataLineDocs ==
  ASSUME conn \in Conns, NEW n \in 0 .. MaxFrames, NEW j \in 0 .. 3, At(n, j), n < MaxFrames,
         wire[parsed + 1].field = "data"
  PROVE  wire[parsed + 1].value.docs = Docs(conn.kinds[n + 1], n + 1)
<1> DEFINE kind == conn.kinds[n + 1]
           L == Lines(kind, n + 1)
           d == DataLines(kind, n + 1)
           b == Before(kind)
<1>1. kind \in Kinds /\ n + 1 \in Nat /\ j < Len(L) /\ wire[parsed + 1] = L[j + 1]
  BY AtIs
<1>2. /\ Len(d) \in 0 .. 2 /\ b \in 0 .. 1
      /\ Len(L) = b + Len(d) + 1
      /\ L[Len(L)].field = "blank"
      /\ b = 1 => L[1].field = "event" \/ L[1].field = "comment"
  BY <1>1, LinesAre, Zenon
<1>3. \A m \in 1 .. Len(d) : d[m].docs = Docs(kind, n + 1)
  BY <1>1, DataLinesType, Zenon
<1>4. j >= b /\ j < Len(L) - 1 => j + 1 - b \in 1 .. Len(d) /\ L[j + 1].value = d[j + 1 - b]
  <2>1. j \in Nat
    OBVIOUS
  <2>2. QED
    BY <1>1, <2>1, HeldIs, Zenon
<1> HIDE DEF kind, L, d, b
<1>5. ~ (j < b)
  <2>1. ASSUME j < b
        PROVE  FALSE
    <3>1. j + 1 = 1 /\ b = 1
      BY <1>2, <2>1
    <3>2. L[1].field = "data"
      BY <1>1, <3>1
    <3>3. QED
      BY <1>2, <3>1, <3>2
  <2>2. QED
    BY <2>1
<1>6. j + 1 # Len(L)
  <2>1. L[j + 1].field # "blank"
    BY <1>1
  <2>2. QED
    BY <1>2, <2>1
<1>7. j >= b /\ j < Len(L) - 1
  <2>1. Len(L) \in Nat
    BY <1>2
  <2>2. QED
    BY <1>1, <1>2, <1>5, <1>6, <2>1
<1>8. QED
  BY <1>1, <1>3, <1>4, <1>7, Zenon DEF kind

\* Where a reader is that has consumed all but the last line, or the last two.
LEMMA NearTheEnd ==
  ASSUME conn \in Conns, NEW n \in 0 .. MaxFrames, NEW j \in 0 .. 3, At(n, j),
         NEW m \in 1 .. 2, parsed = Len(wire) - m
  PROVE  /\ n = MaxFrames - 1 /\ n < MaxFrames
         /\ j + m = Len(Lines(conn.kinds[n + 1], n + 1))
<1> DEFINE L == Lines(conn.kinds[n + 1], n + 1)
           u == Len(Upto(n))
           v == Len(Upto(n + 1))
<1>1. MaxFrames \in Nat /\ Len(wire) \in Nat /\ Len(wire) = Len(Upto(MaxFrames))
  BY ReaderAssumption, WireLength
<1>2. n < MaxFrames
  <2>1. n = MaxFrames => parsed = Len(wire)
    BY AtIs
  <2>2. QED
    BY <1>1, <2>1
<1>3. n \in 0 .. MaxFrames - 1 /\ n + 1 \in 0 .. MaxFrames
  BY <1>1, <1>2
<1>4. u \in Nat /\ Len(L) \in 2 .. 4 /\ v = u + Len(L) /\ v <= Len(wire) /\ parsed = u + j /\ j < Len(L)
  BY <1>2, <1>3, NextFrame, AtIs DEF At
<1>5. n = MaxFrames - 1
  <2>1. ASSUME n # MaxFrames - 1
        PROVE  FALSE
    <3> DEFINE M == Lines(conn.kinds[(n + 1) + 1], (n + 1) + 1)
    <3>1. n + 1 \in 0 .. MaxFrames - 1
      BY <1>1, <1>3, <2>1
    <3>2. Len(M) \in 2 .. 4 /\ Len(Upto((n + 1) + 1)) = v + Len(M) /\ Len(Upto((n + 1) + 1)) <= Len(wire)
      BY <3>1, NextFrame
    <3> DEFINE x == Len(L)
               y == Len(M)
               W == Len(wire)
    <3>3. /\ W \in Nat /\ u \in Nat /\ x \in Nat /\ v = u + x /\ u + j = W - m /\ j < x
          /\ y \in 2 .. 4 /\ v + y <= W
      BY <1>1, <1>4, <3>2, SMTT(30)
    <3> HIDE DEF u, v, x, y, W
    <3>4. QED
      BY <3>3
  <2>2. QED
    BY <2>1
<1>6. v = Len(wire)
  <2>1. n + 1 = MaxFrames
    BY <1>1, <1>5
  <2>2. QED
    BY <1>1, <2>1
<1>7. j + m = Len(L)
  <2> HIDE DEF L, u, v
  <2>1. QED
    BY <1>1, <1>4, <1>6
<1>8. QED
  BY <1>2, <1>5, <1>7

\* A response that its server ended leaves no frame unread, or the last one
\* but for its blank line, and perhaps the newline before.
LEMMA ClosedIsRead ==
  ASSUME ReaderInv, ServerCloses, Complete, NEW n \in 0 .. MaxFrames, NEW j \in 0 .. 3, At(n, j)
  PROVE  \/ n = MaxFrames
         \/ /\ n = MaxFrames - 1 /\ conn.parser # "example"
            /\ pendingData \o Rest = DataLines(conn.kinds[n + 1], n + 1)
<1> DEFINE W == Len(wire)
           kind == conn.kinds[n + 1]
           L == Lines(kind, n + 1)
           d == DataLines(kind, n + 1)
           b == Before(kind)
<1>1. /\ conn \in Conns /\ MaxFrames \in Nat /\ W \in Nat /\ parsed \in Nat /\ arrived \in Nat
      /\ arrived = conn.last /\ 3 * parsed <= arrived /\ ~ (3 * (parsed + 1) <= arrived)
      /\ Size(conn.kinds) = 3 * W
      /\ conn.last = 3 * W \/ conn.last = 3 * W - 3 \/ conn.last = 3 * W - 4
  <2>1. conn \in Conns
    BY DEF ReaderInv, TypeOK
  <2>2. /\ W \in Nat /\ conn.last \in Nat
        /\ conn.how = "close" => conn.last \in {3 * W, 3 * W - 3, 3 * W - 4}
    BY <2>1, WireLength
  <2>3. Size(conn.kinds) = 3 * W
    BY DEF Size, wire
  <2>4. /\ parsed \in 0 .. W /\ 3 * parsed <= arrived /\ arrived \in 0 .. conn.last
        /\ arrived = conn.last /\ conn.how = "close" /\ ~ (3 * (parsed + 1) <= arrived)
    BY DEF ReaderInv, TypeOK, ServerCloses, Idle, LineComplete
  <2>5. parsed \in Nat /\ arrived \in Nat
    BY <2>2, <2>4
  <2>6. QED
    BY <2>1, <2>2, <2>3, <2>4, <2>5, ReaderAssumption
<1>2. /\ conn.parser \in {"ts", "conf"} => conn.last >= Size(conn.kinds) - 3
      /\ conn.parser = "example" => conn.last = Size(conn.kinds)
      /\ conn.parser \in {"ts", "py", "go", "conf", "example"}
  BY <1>1, ConnIs DEF Complete, LastLineEnded
<1> HIDE DEF W
<1>3. CASE conn.last = 3 * W
  <2>1. parsed = W
    BY <1>1, <1>3
  <2>2. n < MaxFrames => parsed < W
    BY <1>1, AtIs DEF W
  <2>3. QED
    BY <1>1, <2>1, <2>2
<1>4. CASE conn.last = 3 * W - 3
  <2>1. parsed = W - 1 /\ arrived = 3 * parsed
    BY <1>1, <1>4
  <2>2. 1 \in 1 .. 2
    OBVIOUS
  <2>3. n = MaxFrames - 1 /\ n < MaxFrames /\ j + 1 = Len(L)
    BY <1>1, <2>1, <2>2, NearTheEnd DEF W
  <2>4. conn.parser # "example"
    BY <1>1, <1>2, <1>4
  <2>5. /\ kind \in Kinds /\ n + 1 \in Nat /\ j < Len(L) /\ pendingData = Held(kind, n + 1, j)
    BY <1>1, <2>3, AtIs
  <2>6. Held(kind, n + 1, j) = d
    <3>1. j \in Nat /\ j = Len(L) - 1
      BY <2>3
    <3>2. QED
      BY <2>5, <3>1, HeldIs, Zenon
  <2>7. Rest = <<>>
    BY <2>1, Zenon DEF Rest
  <2>8. d \o <<>> = d
    <3>1. d \in Seq(DatumType)
      BY <2>5, DataLinesType
    <3> HIDE DEF d
    <3>2. QED
      BY <3>1, ConcatEmptySeq
  <2>9. QED
    BY <2>3, <2>4, <2>5, <2>6, <2>7, <2>8, Zenon
<1>5. CASE conn.last = 3 * W - 4
  <2>1. parsed = W - 2 /\ arrived = 3 * parsed + 2 /\ arrived # 3 * parsed /\ arrived # 3 * parsed + 1
        /\ parsed # W
    BY <1>1, <1>5
  <2>2. 2 \in 1 .. 2
    OBVIOUS
  <2>3. n = MaxFrames - 1 /\ n < MaxFrames /\ j + 2 = Len(L)
    BY <1>1, <2>1, <2>2, NearTheEnd DEF W
  <2>4. conn.parser \in {"py", "go"} /\ conn.parser # "example"
    <3>1. conn.parser # "example"
      BY <1>1, <1>2, <1>5
    <3>2. conn.parser \notin {"ts", "conf"}
      BY <1>1, <1>2, <1>5
    <3>3. QED
      BY <1>2, <3>1, <3>2
  <2>5. /\ kind \in Kinds /\ n + 1 \in Nat /\ j < Len(L) /\ pendingData = Held(kind, n + 1, j)
        /\ wire[parsed + 1] = L[j + 1]
    BY <1>1, <2>3, AtIs
  <2>6. /\ Len(d) \in 0 .. 2 /\ b \in 0 .. 1
        /\ Len(L) = b + Len(d) + 1
        /\ b = 1 => L[1].field = "event" \/ L[1].field = "comment"
    BY <2>5, LinesAre, Zenon
  <2>7. j \in Nat
    OBVIOUS
  <2>8. d \in Seq(DatumType)
    BY <2>5, DataLinesType
  <2>9. /\ j <= b => Held(kind, n + 1, j) = <<>>
        /\ j + 1 < Len(L) /\ j + 1 = Len(L) - 1 => Held(kind, n + 1, j + 1) = d
        /\ j >= b /\ j < Len(L) - 1 =>
             /\ L[j + 1].field = "data" /\ L[j + 1].value = d[j + 1 - b]
             /\ Held(kind, n + 1, j + 1) = Held(kind, n + 1, j) \o <<d[j + 1 - b]>>
    <3>1. /\ j <= b => Held(kind, n + 1, j) = <<>>
          /\ j >= b /\ j < Len(L) - 1 =>
               /\ L[j + 1].field = "data" /\ L[j + 1].value = d[j + 1 - b]
               /\ Held(kind, n + 1, j + 1) = Held(kind, n + 1, j) \o <<d[j + 1 - b]>>
      BY <2>5, <2>7, HeldIs, Zenon
    <3>2. j + 1 \in Nat
      BY <2>7
    <3>3. j + 1 < Len(L) /\ j + 1 = Len(L) - 1 => Held(kind, n + 1, j + 1) = d
      BY <2>5, <3>2, HeldIs, Zenon
    <3>4. QED
      BY <3>1, <3>3, Zenon
  <2>10. CASE j < b
    <3>1. Len(d) = 0 /\ j = 0 /\ j + 1 = 1 /\ b = 1 /\ j <= b
      <4> HIDE DEF d, b, L
      <4>1. QED
        BY <2>3, <2>6, <2>10
    <3>2. d = <<>>
      <4> HIDE DEF d, b, L
      <4>1. QED
        BY <2>8, <3>1, EmptySeq
    <3>3. wire[parsed + 1].field # "data"
      <4>1. L[1].field # "data"
        BY <2>6, <3>1
      <4>2. QED
        BY <2>5, <3>1, <4>1, Zenon
    <3>4. Rest = <<>>
      BY <3>3, Zenon DEF Rest
    <3>5. <<>> \o <<>> = <<>>
      OBVIOUS
    <3>6. QED
      BY <2>3, <2>4, <2>5, <2>9, <3>1, <3>2, <3>4, <3>5, Zenon
  <2>11. CASE ~ (j < b)
    <3>1. j >= b /\ j < Len(L) - 1 /\ j + 1 < Len(L) /\ j + 1 = Len(L) - 1
      <4> HIDE DEF d, b, L
      <4>1. QED
        BY <2>3, <2>6, <2>11
    <3>2. wire[parsed + 1].field = "data" /\ wire[parsed + 1].value = d[j + 1 - b]
      BY <2>5, <2>9, <3>1, Zenon
    <3>3. Rest = <<wire[parsed + 1].value>>
      BY <2>1, <2>4, <3>2, Zenon DEF Rest, W
    <3>4. QED
      BY <2>3, <2>4, <2>5, <2>9, <3>1, <3>2, <3>3, Zenon
  <2>12. QED
    BY <2>10, <2>11
<1>6. QED
  BY <1>1, <1>3, <1>4, <1>5

LEMMA ServerClosesStep ==
  ASSUME ReaderInv, ServerCloses
  PROVE  ReaderInv'
<1>1. /\ phase = "open" /\ outbox = <<>> /\ stopped' = stopped
      /\ FinalFlush(pendingData \o Rest)
  BY DEF ServerCloses, Idle
<1>2. Complete' => Complete
  BY <1>1, SameConn DEF FinalFlush
<1>3. ASSUME Complete', NEW n \in 0 .. MaxFrames, NEW j \in 0 .. 3, At(n, j)
      PROVE  \/ n = MaxFrames
             \/ /\ n = MaxFrames - 1 /\ conn.parser # "example"
                /\ pendingData \o Rest = DataLines(conn.kinds[n + 1], n + 1)
  BY <1>2, <1>3, ClosedIsRead, Zenon
<1>4. QED
  BY <1>1, <1>3, EndOfLoop

LEMMA ReadClosedBodyStep ==
  ASSUME ReaderInv, ReadClosedBody
  PROVE  ReaderInv'
<1>1. /\ phase = "open" /\ outbox = <<>> /\ stopped' = stopped /\ stopped' # "no"
      /\ FinalFlush(pendingData \o Rest)
  BY DEF ReadClosedBody, Idle
<1>2. ~ Complete'
  BY <1>1, Zenon DEF Complete
<1>3. QED
  BY <1>1, <1>2, EndOfLoop

LEMMA ConnectionLostStep ==
  ASSUME ReaderInv, ConnectionLost
  PROVE  ReaderInv'
<1>1. /\ Idle /\ phase = "open" /\ outbox = <<>> /\ stopped' = stopped /\ conn.how = "cut"
      /\ \/ conn.parser \in {"go", "py"} /\ FinalFlush(pendingData \o Rest)
         \/ conn.parser # "go" /\ Fail
  BY DEF ConnectionLost, Idle
<1>2. CASE FinalFlush(pendingData \o Rest)
  <2>1. FinalFlush(pendingData \o Rest) /\ conn' = conn
    BY <1>1, <1>2 DEF FinalFlush
  <2>2. ~ Complete'
    BY <1>1, <2>1 DEF Complete
  <2>3. QED
    BY <1>1, <2>1, <2>2, EndOfLoop
<1>3. CASE conn.parser # "go" /\ Fail
  BY <1>1, <1>3, FailStep
<1>4. QED
  BY <1>1, <1>2, <1>3

\* What is pending, without the rest of a line.
LEMMA PendingOnly ==
  ASSUME ReaderInv, phase = "open", ~ Mute
  PROVE  pendingData \o <<>> = pendingData
<1>1. PICK n \in 0 .. MaxFrames, j \in 0 .. 3 : At(n, j)
  BY Zenon DEF ReaderInv, Reading
<1>2. conn \in Conns /\ MaxFrames \in Nat
  BY ReaderAssumption DEF ReaderInv, TypeOK
<1>3. CASE n = MaxFrames
  <2>1. pendingData = <<>>
    BY <1>1, <1>2, <1>3, AtIs
  <2>2. QED
    BY <2>1
<1>4. CASE n < MaxFrames
  <2> DEFINE kind == conn.kinds[n + 1]
             d == DataLines(kind, n + 1)
  <2>1. pendingData = SubSeq(d, 1, j - Before(kind)) /\ kind \in Kinds /\ n + 1 \in Nat
        /\ j < Len(Lines(kind, n + 1))
    BY <1>1, <1>2, <1>4, AtIs DEF Held
  <2>2. d \in Seq(DatumType)
    BY <2>1, DataLinesType
  <2>3. Len(d) \in 0 .. 2 /\ Before(kind) \in 0 .. 1
        /\ Len(Lines(kind, n + 1)) = Before(kind) + Len(d) + 1
    BY <2>1, LinesAre, Zenon
  <2>4. pendingData \in Seq(DatumType)
    <3> DEFINE k == j - Before(kind)
    <3>1. k <= 0 \/ k \in 1 .. Len(d)
      BY <2>1, <2>3
    <3>2. k \in Int
      BY <2>3
    <3> HIDE DEF d, k
    <3>3. SubSeq(d, 1, k) \in Seq(DatumType)
      <4>1. CASE k <= 0
        <5>1. SubSeq(d, 1, k) = <<>>
          BY <2>2, <3>2, <4>1
        <5>2. <<>> \in Seq(DatumType)
          OBVIOUS
        <5>3. QED
          BY <5>1, <5>2, Zenon
      <4>2. CASE k \in 1 .. Len(d)
        BY <2>2, <4>2
      <4>3. QED
        BY <3>1, <4>1, <4>2
    <3>4. QED
      BY <2>1, <3>3 DEF k, d
  <2>5. QED
    BY <2>4, ConcatEmptySeq
<1>5. QED
  BY <1>2, <1>3, <1>4

LEMMA LineTooLongStep ==
  ASSUME ReaderInv, LineTooLong
  PROVE  ReaderInv'
<1>1. /\ phase = "open" /\ outbox = <<>> /\ stopped' = stopped /\ conn.parser = "go" /\ conn' = conn
      /\ FinalFlush(pendingData) /\ conn \in Conns
      /\ parsed < Len(wire) /\ wire[parsed + 1].field = "data"
      /\ \E x \in Range(wire[parsed + 1].value.docs) : x \in Big
  BY DEF LineTooLong, FinalFlush, TooLong, ReaderInv, TypeOK
<1>2. ~ Mute
  BY <1>1 DEF Mute
<1>3. FinalFlush(pendingData \o <<>>)
  <2>1. pendingData \o <<>> = pendingData
    BY <1>1, <1>2, PendingOnly
  <2>2. QED
    BY <1>1, <2>1
<1>4. ASSUME Complete', NEW n \in 0 .. MaxFrames, NEW j \in 0 .. 3, At(n, j)
      PROVE  n = MaxFrames
  <2>1. ASSUME n # MaxFrames
        PROVE  FALSE
    <3>1. n < MaxFrames /\ n + 1 \in DOMAIN conn.kinds
      <4>1. MaxFrames \in Nat
        BY ReaderAssumption
      <4>2. QED
        BY <1>1, <2>1, <4>1, ConnIs
    <3>2. wire[parsed + 1].value.docs = Docs(conn.kinds[n + 1], n + 1)
      BY <1>1, <1>4, <3>1, DataLineDocs
    <3>3. \A i \in DOMAIN conn.kinds : \A x \in Range(Docs(conn.kinds[i], i)) : x \notin Big
      BY <1>1, <1>4, Zenon DEF Complete
    <3>4. QED
      BY <1>1, <3>1, <3>2, <3>3, Zenon
  <2>2. QED
    BY <2>1
<1>5. QED
  BY <1>1, <1>3, <1>4, EndOfLoop

LEMMA AbortStep ==
  ASSUME ReaderInv, Abort
  PROVE  ReaderInv'
<1>1. /\ Idle /\ phase = "open" /\ outbox = <<>> /\ conn.parser \in {"conf", "ts", "py"}
      /\ stopped' = "abort" /\ stopped # "cancel"
      /\ IF conn.parser = "conf" THEN FinalFlush(pendingData) ELSE Fail
  BY DEF Abort, Idle, ReaderInv
<1>2. CASE conn.parser = "conf"
  <2>1. ~ Mute
    BY <1>2 DEF Mute
  <2>2. FinalFlush(pendingData \o <<>>)
    <3>1. pendingData \o <<>> = pendingData
      BY <1>1, <2>1, PendingOnly
    <3>2. QED
      BY <1>1, <1>2, <3>1
  <2>3. ~ Complete'
    BY <1>1 DEF Complete
  <2>4. QED
    BY <1>1, <2>2, <2>3, EndOfLoop
<1>3. CASE conn.parser # "conf"
  BY <1>1, <1>3, FailStep
<1>4. QED
  BY <1>2, <1>3

LEMMA InitHolds ==
  ASSUME Init
  PROVE  ReaderInv
<1>1. /\ conn \in Conns /\ arrived = 0 /\ parsed = 0 /\ pendingEvent = "message"
      /\ pendingData = <<>> /\ outbox = <<>> /\ chan = <<>> /\ got = <<>>
      /\ phase = "open" /\ stopped = "no"
  BY DEF Init
<1>2. conn.last \in Nat /\ Len(wire) \in Nat /\ ChanCap \in Nat /\ MaxFrames \in Nat
  BY <1>1, WireLength, ReaderAssumption
<1>3. TypeOK
  BY <1>1, <1>2 DEF TypeOK
<1>4. <<>> \in Seq(ItemType) /\ AllWhole(<<>>) /\ Len(<<>>) <= 1
      /\ \A i \in 1 .. Len(<<>>) : <<>>[i].whole
  BY DEF AllWhole
<1>5. Wholeness
  BY <1>1, <1>4, Zenon DEF Wholeness
<1>6. Shown = <<>>
  <2>1. (<<>> \o <<>>) \o <<>> = <<>>
    OBVIOUS
  <2>2. QED
    BY <1>1, <2>1, DocsOfIs, Zenon DEF Shown, Handed
<1>7. Sent(0) = <<>> /\ Expected \in Seq(Nat)
  BY <1>1, SentIs
<1>8. Reading
  <2>1. 0 \in 0 .. MaxFrames /\ 0 \in 0 .. 3 /\ ~ (0 > 0)
    BY <1>2
  <2>2. parsed = Len(Upto(0)) + 0
    BY <1>1, UptoIs
  <2>3. At(0, 0)
    BY <1>1, <2>1, <2>2, Zenon DEF At
  <2>4. QED
    BY <1>6, <1>7, <2>1, <2>3, Zenon DEF Reading
<1>9. Begins(Shown, Expected)
  BY <1>6, <1>7 DEF Begins
<1>10. QED
  BY <1>1, <1>3, <1>4, <1>5, <1>8, <1>9 DEF ReaderInv

LEMMA StepHolds ==
  ASSUME ReaderInv, [Next]_vars
  PROVE  ReaderInv'
<1>1. CASE Receive
  BY <1>1, ReceiveStep
<1>2. CASE ParseLine
  BY <1>2, ParseLineStep
<1>3. CASE ServerCloses
  BY <1>3, ServerClosesStep
<1>4. CASE ConnectionLost
  BY <1>4, ConnectionLostStep
<1>5. CASE LineTooLong
  BY <1>5, LineTooLongStep
<1>6. CASE ReadClosedBody
  BY <1>6, ReadClosedBodyStep
<1>7. CASE HandOver
  BY <1>7, HandOverStep
<1>8. CASE Send
  BY <1>8, SendStep
<1>9. CASE Skip
  BY <1>9, SkipStep
<1>10. CASE Finish
  BY <1>10, FinishStep
<1>11. CASE Abort
  BY <1>11, AbortStep
<1>12. CASE Stop("cancel") \/ Stop("cleanup")
  <2>1. \A how \in {"cancel", "cleanup"} : Stop(how) => ReaderInv'
    BY StopStep
  <2>2. QED
    BY <1>12, <2>1
<1>13. CASE Leave
  BY <1>13, LeaveStep
<1>14. CASE Take
  BY <1>14, TakeStep
<1>15. CASE UNCHANGED vars
  BY <1>15, StutterStep
<1>16. QED
  BY <1>1, <1>2, <1>3, <1>4, <1>5, <1>6, <1>7, <1>8, <1>9, <1>10, <1>11, <1>12, <1>13, <1>14,
     <1>15, Zenon DEF Next, Reader

\* At any time the reader has consumed some frames and some lines of the next,
\* and holds exactly the data lines among these; what it has handed over, and is
\* about to, is what the frames that it has consumed decode to.
THEOREM ReaderInvariant == Spec => []ReaderInv
<1>1. Init => ReaderInv
  BY InitHolds
<1>2. ReaderInv /\ [Next]_vars => ReaderInv'
  BY StepHolds
<1>3. QED
  BY <1>1, <1>2, PTL DEF Spec

-----------------------------------------------------------------------------
(* The properties. *)

\* The reader never consumes more than has arrived or the response has, the
\* channel of the Go SDK never holds more than its capacity, and the others
\* have no channel.
THEOREM ReaderTypeCorrect == Spec => []TypeOK
<1>1. ReaderInv => TypeOK
  BY DEF ReaderInv
<1>2. QED
  BY <1>1, ReaderInvariant, PTL

LEMMA InOrderHolds ==
  ASSUME ReaderInv
  PROVE  InOrder
<1>1. got \in Seq(ItemType) /\ chan \in Seq(ItemType) /\ outbox \in Seq(ItemType)
      /\ conn \in Conns /\ (conn.parser # "go" => chan = <<>>)
  BY DEF ReaderInv, TypeOK
<1>2. ASSUME stopped # "cancel"
      PROVE  IsPrefix(DocsOf(Handed \o outbox), Expected)
  <2>1. Begins(Shown, Expected)
    BY <1>2, Zenon DEF ReaderInv
  <2>2. Shown \in Seq(Nat) /\ Expected \in Seq(Nat)
    BY <1>1, ShownIs, SentIs
  <2>3. IsPrefix(Shown, Expected)
    BY <2>1, <2>2, BeginsIsPrefix
  <2>4. QED
    BY <2>3 DEF Shown
<1>3. ASSUME NEW i \in DOMAIN Handed
      PROVE  Handed[i].whole \/ (conn.parser = "conf" /\ i = Len(Handed))
  <2>1. CASE conn.parser = "conf"
    <3>1. Handed = got
      <4>1. got \o <<>> = got
        BY <1>1, ConcatEmptySeq
      <4>2. chan = <<>>
        BY <1>1, <2>1
      <4>3. QED
        BY <4>1, <4>2, Zenon DEF Handed
    <3>2. DOMAIN got = 1 .. Len(got)
      BY <1>1
    <3>3. i \in 1 .. Len(got)
      BY <3>1, <3>2
    <3>4. QED
      BY <2>1, <3>1, <3>3, Zenon DEF ReaderInv, Wholeness
  <2>2. CASE conn.parser # "conf"
    <3>1. (\A k \in 1 .. Len(got) : got[k].whole) /\ (\A k \in 1 .. Len(chan) : chan[k].whole)
      BY <2>2, Zenon DEF ReaderInv, Wholeness, AllWhole
    <3>2. /\ Len(Handed) = Len(got) + Len(chan) /\ Handed \in Seq(ItemType)
          /\ \A k \in 1 .. Len(got) + Len(chan) :
               Handed[k] = IF k <= Len(got) THEN got[k] ELSE chan[k - Len(got)]
      BY <1>1, ConcatProperties DEF Handed
    <3>3. DOMAIN Handed = 1 .. Len(Handed) /\ Len(got) \in Nat /\ Len(chan) \in Nat
      BY <1>1, <3>2
    <3>4. i \in 1 .. Len(got) + Len(chan)
      BY <3>2, <3>3
    <3>5. i \in 1 .. Len(got) \/ (~ (i <= Len(got)) /\ i - Len(got) \in 1 .. Len(chan))
      BY <3>3, <3>4
    <3>6. CASE i \in 1 .. Len(got)
      <4>1. i <= Len(got)
        BY <3>6
      <4>2. Handed[i] = got[i]
        BY <3>2, <3>4, <4>1, Zenon
      <4>3. QED
        BY <3>1, <3>6, <4>2, Zenon
    <3>7. CASE ~ (i <= Len(got)) /\ i - Len(got) \in 1 .. Len(chan)
      <4>1. Handed[i] = chan[i - Len(got)]
        BY <3>2, <3>4, <3>7, Zenon
      <4>2. QED
        BY <3>1, <3>7, <4>1, Zenon
    <3>8. QED
      BY <3>5, <3>6, <3>7, Zenon
  <2>3. QED
    BY <2>1, <2>2
<1>4. QED
  BY <1>2, <1>3, Zenon DEF InOrder

\* Whatever the reads return and the frames hold, the documents that a reader
\* has handed over, or is about to, are in the order of the wire, each once,
\* from the first on, unless a Go consumer cancelled; only subscribe of the
\* conformance suite returns the beginning of an event, as its last one.
THEOREM EventsInOrder == Spec => []InOrder
<1>1. ReaderInv => InOrder
  BY InOrderHolds
<1>2. QED
  BY <1>1, ReaderInvariant, PTL

LEMMA NothingMissingHolds ==
  ASSUME ReaderInv
  PROVE  NothingMissing
<1>1. SUFFICES
        ASSUME phase = "ended", conn.how = "close", stopped = "no",
               conn.parser \in {"ts", "conf"} => LastLineEnded,
               conn.parser = "example" => conn.last = Size(conn.kinds) /\ ~conn.crlf,
               conn.parser = "go" =>
                 \A i \in DOMAIN conn.kinds : \A d \in Range(Docs(conn.kinds[i], i)) : d \notin Big
        PROVE  DocsOf(Handed) = Expected
  BY Zenon DEF NothingMissing
<1>2. Complete
  BY <1>1, Zenon DEF Complete
<1>3. phase \in {"closing", "ended"} /\ phase \in {"ended", "left", "failed"}
  BY <1>1
<1>4. Shown = Expected /\ outbox = <<>>
  BY <1>2, <1>3, Zenon DEF ReaderInv
<1>5. Shown = DocsOf(Handed)
  BY <1>4, ShownIs DEF ReaderInv
<1>6. QED
  BY <1>4, <1>5

\* A stream that its server closed, and that its consumer read to the end, has
\* handed over every document of the response, if only its last blank line is
\* missing; in Python and Go also without the newline of its last data line.
THEOREM NothingIsMissing == Spec => []NothingMissing
<1>1. ReaderInv => NothingMissing
  BY NothingMissingHolds
<1>2. QED
  BY <1>1, ReaderInvariant, PTL

\* Only the end of the response, or an error that the Go reader does not look at
\* and http.client may swallow, takes a reader that nobody stopped out of its loop.
Told ==
  phase \in {"closing", "ended"} /\ stopped = "no" /\ conn.parser \notin {"go", "py"} =>
    conn.how = "close"

LEMMA ToldStep ==
  ASSUME Told, [Next]_vars
  PROVE  Told'
<1>1. CASE Receive \/ ParseLine \/ HandOver \/ Send \/ Skip \/ Take
           \/ Stop("cancel") \/ Stop("cleanup")
  <2>1. conn' = conn /\ phase' = phase /\ (stopped' = "no" => stopped = "no")
    BY <1>1 DEF Receive, ParseLine, HandOver, Send, Skip, Take, Stop
  <2>2. QED
    BY <2>1 DEF Told
<1>2. CASE ServerCloses
  BY <1>2 DEF ServerCloses, FinalFlush, Told
<1>3. CASE ConnectionLost
  BY <1>3 DEF ConnectionLost, FinalFlush, Fail, Told
<1>4. CASE LineTooLong
  BY <1>4 DEF LineTooLong, TooLong, FinalFlush, Told
<1>5. CASE ReadClosedBody
  BY <1>5 DEF ReadClosedBody, FinalFlush, Told
<1>6. CASE Finish
  BY <1>6 DEF Finish, Told
<1>7. CASE Abort
  BY <1>7 DEF Abort, Told
<1>8. CASE Leave
  BY <1>8 DEF Leave, Told
<1>9. CASE UNCHANGED vars
  BY <1>9 DEF vars, Told
<1>10. QED
  BY <1>1, <1>2, <1>3, <1>4, <1>5, <1>6, <1>7, <1>8, <1>9, Zenon DEF Next, Reader

\* A consumer of the TypeScript SDK, the suite or the example that did not stop its
\* stream and sees it end has not lost its connection: the error of a read reaches
\* it instead.
THEOREM ACutIsTold == Spec => []CutIsTold
<1>1. Init => Told
  BY DEF Init, Told
<1>2. Told /\ [Next]_vars => Told'
  BY ToldStep
<1>3. Told => CutIsTold
  BY DEF Told, CutIsTold
<1>4. QED
  BY <1>1, <1>2, <1>3, PTL DEF Spec

=============================================================================
