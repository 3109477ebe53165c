------------------------------- MODULE Lemmas -------------------------------
(***************************************************************************)
(* What the proofs about several components need of numbers, recursion and *)
(* sequences.                                                              *)
(***************************************************************************)
EXTENDS Integers, SequencesExt, FiniteSetTheorems, SequenceTheorems, WellFoundedInduction, TLAPS

-----------------------------------------------------------------------------
(* Numbers *)

\* The quotient and the remainder of a number written with them.
LEMMA ModUnique ==
  ASSUME NEW w \in Nat \ {0}, NEW q \in Int, NEW r \in 0 .. w - 1
  PROVE  (w * q + r) % w = r /\ (w * q + r) \div w = q
<1> DEFINE n  == w * q + r
           q2 == n \div w
           r2 == n % w
<1>1. n \in Int
  OBVIOUS
<1>2. q2 \in Int /\ r2 \in 0 .. w - 1 /\ n = w * q2 + r2
  <2> HIDE DEF n
  <2> QED
    BY <1>1, SMT
<1> HIDE DEF q2, r2
<1>3. w * (q - q2) = r2 - r
  <2>1. w * (q - q2) = w * q - w * q2
    BY <1>2, SMT
  <2> QED
    BY <1>2, <2>1, SMT
<1>4. q = q2
  <2>1. CASE q >= q2 + 1
    <3>1. w * (q - q2) >= w
      BY <1>2, <2>1, SMT
    <3> QED
      BY <1>2, <1>3, <3>1, SMT
  <2>2. CASE q2 >= q + 1
    <3>1. w * (q - q2) <= -w
      BY <1>2, <2>2, SMT
    <3> QED
      BY <1>2, <1>3, <3>1, SMT
  <2> QED
    BY <1>2, <2>1, <2>2, SMT
<1> QED
  BY <1>2, <1>3, <1>4, SMT DEF q2, r2

\* Quotient and remainder of a natural number.
LEMMA DivMod ==
  ASSUME NEW w \in Nat \ {0}, NEW n \in Nat
  PROVE  /\ n \div w \in Nat
         /\ n % w \in 0 .. w - 1
         /\ n = w * (n \div w) + (n % w)
<1>1. n \div w \in Int /\ n % w \in 0 .. w - 1 /\ n = w * (n \div w) + (n % w)
  BY SMT
<1> DEFINE q == n \div w
<1> HIDE DEF q
<1>2. q >= 0
  <2>1. q \in Int /\ n < w * q + w
    BY <1>1, SMT DEF q
  <2>2. CASE q <= -1
    <3>1. w * q <= -w
      BY <2>1, <2>2, SMT
    <3> QED
      BY <2>1, <3>1, SMT
  <2> QED
    BY <2>1, <2>2, SMT
<1> QED
  BY <1>1, <1>2, SMT DEF q

\* A nonempty set of natural numbers has a least element.
LEMMA LeastElement ==
  ASSUME NEW S \in SUBSET Nat, S # {}
  PROVE  \E x \in S : \A y \in S : x <= y
<1> DEFINE Less == OpToRel(<, Nat)
<1>1. \A x, y \in Nat : <<y, x>> \in Less <=> y < x
  BY DEF OpToRel
<1>2. PICK x \in S : \A y \in S : ~(<<y, x>> \in Less)
  BY NatLessThanWellFounded, WFMin
<1>3. \A y \in S : ~(y < x)
  BY <1>1, <1>2
<1> QED
  BY <1>3

\* It is the set's Min.
LEMMA MinIsLeast ==
  ASSUME NEW S \in SUBSET Nat, S # {}
  PROVE  Min(S) \in S /\ \A y \in S : Min(S) <= y
<1>1. \E x \in S : \A y \in S : x <= y
  BY LeastElement
<1> QED
  BY <1>1 DEF Min

\* A nonempty bounded set of natural numbers has a greatest element, which is its Max.
LEMMA MaxIsGreatest ==
  ASSUME NEW n \in Nat, NEW S \in SUBSET (0 .. n), S # {}
  PROVE  Max(S) \in S /\ \A y \in S : y <= Max(S)
<1> DEFINE T == {n - x : x \in S}
<1>1. T \in SUBSET Nat /\ T # {}
  <2>1. \A x \in S : n - x \in Nat
    OBVIOUS
  <2> QED
    BY <2>1
<1>2. Min(T) \in T /\ \A y \in T : Min(T) <= y
  BY <1>1, MinIsLeast
<1>3. PICK x \in S : Min(T) = n - x
  BY <1>2
<1>4. \A y \in S : y <= x
  BY <1>2, <1>3
<1> QED
  BY <1>4 DEF Max

-----------------------------------------------------------------------------
(* Recursion *)

\* A number below which all numbers of a set lie in it too.  What a recursive definition
\* computes is shown by the least number for which it would not.
LEMMA AllUpTo ==
  ASSUME NEW N \in Nat, NEW S \in SUBSET (0 .. N),
         0 \in S, \A n \in 0 .. N - 1 : n \in S => n + 1 \in S
  PROVE  S = 0 .. N
<1> DEFINE T == (0 .. N) \ S
<1>1. CASE T = {}
  BY <1>1
<1>2. CASE T # {}
  <2>1. T \in SUBSET Nat
    OBVIOUS
  <2>2. Min(T) \in T /\ \A y \in T : Min(T) <= y
    BY <1>2, <2>1, MinIsLeast
  <2> DEFINE m == Min(T)
  <2> HIDE DEF m
  <2>3. m \in 0 .. N /\ m \notin S /\ \A y \in T : m <= y
    BY <2>2 DEF m
  <2>4. m - 1 \in 0 .. N - 1 /\ m - 1 \in S
    BY <2>3
  <2>5. (m - 1) + 1 = m
    BY <2>3
  <2> QED
    BY <2>3, <2>4, <2>5
<1> QED
  BY <1>1, <1>2

\* The values of f from x on, each made by F from its place and the one before.
StepMaps(N, D)       == [(0 .. N) \X D -> D]
Iterates(f, N, x, F) == f[0] = x /\ \A n \in 0 .. N - 1 : f[n + 1] = F[<<n, f[n]>>]

\* A definition by recursion on the numbers up to N defines a function.
LEMMA Iterated ==
  ASSUME NEW N \in Nat, NEW D, NEW x \in D, NEW F \in StepMaps(N, D)
  PROVE  \E f \in [0 .. N -> D] : Iterates(f, N, x, F)
<1> USE DEF StepMaps, Iterates
<1> DEFINE Upto(m, f) == f[0] = x /\ \A n \in 0 .. m - 1 : f[n + 1] = F[<<n, f[n]>>]
           S == {m \in 0 .. N : \E f \in [0 .. m -> D] : Upto(m, f)}
<1>1. 0 \in S
  <2> DEFINE f == [k \in 0 .. 0 |-> x]
  <2>1. f \in [0 .. 0 -> D] /\ f[0] = x
    OBVIOUS
  <2>2. Upto(0, f)
    BY <2>1
  <2> HIDE DEF f, Upto
  <2> QED
    BY <2>1, <2>2
<1>2. ASSUME NEW m \in 0 .. N - 1, m \in S PROVE m + 1 \in S
  <2>1. PICK f \in [0 .. m -> D] : Upto(m, f)
    BY <1>2
  <2>2. m \in Nat /\ F[<<m, f[m]>>] \in D
    BY <2>1
  <2> DEFINE v == F[<<m, f[m]>>]
  <2> DEFINE g == [k \in 0 .. m + 1 |-> IF k = m + 1 THEN v ELSE f[k]]
  <2>3. g \in [0 .. m + 1 -> D] /\ g[m + 1] = v /\ \A k \in 0 .. m : g[k] = f[k]
    <3>1. m \in Nat /\ v \in D /\ f \in [0 .. m -> D]
      BY <2>1, <2>2
    <3>2. m + 1 \in 0 .. m + 1 /\ \A k \in 0 .. m : k \in 0 .. m + 1 /\ k # m + 1
      BY <3>1
    <3> HIDE DEF v, Upto, S
    <3>3. g \in [0 .. m + 1 -> D]
      <4>1. ASSUME NEW k \in 0 .. m + 1 PROVE (IF k = m + 1 THEN v ELSE f[k]) \in D
        BY <3>1
      <4> QED
        BY <4>1
    <3> QED
      BY <3>2, <3>3
  <2> HIDE DEF g
  <2>4. ASSUME NEW n \in 0 .. (m + 1) - 1 PROVE g[n + 1] = F[<<n, g[n]>>]
    <3>1. CASE n = m
      BY <2>3, <3>1
    <3>2. CASE n # m
      <4>1. n \in 0 .. m - 1 /\ n + 1 \in 0 .. m /\ n \in 0 .. m
        BY <3>2
      <4> QED
        BY <2>1, <2>3, <4>1
    <3> QED
      BY <3>1, <3>2
  <2>5. Upto(m + 1, g)
    BY <2>1, <2>3, <2>4
  <2>6. m + 1 \in 0 .. N
    OBVIOUS
  <2>7. \E h \in [0 .. m + 1 -> D] : Upto(m + 1, h)
    BY <2>3, <2>5
  <2> HIDE DEF Upto
  <2> QED
    BY <2>6, <2>7
<1>3. N \in S
  <2>1. S \in SUBSET (0 .. N)
    OBVIOUS
  <2> HIDE DEF S
  <2>2. S = 0 .. N
    BY <1>1, <1>2, <2>1, AllUpTo
  <2>3. N \in S
    BY <2>2
  <2> QED
    BY <2>3
<1> QED
  BY <1>3

\* What is next has a smaller rank, and G makes values of values.
Descends(A, D, rank, stop, v, next, G) ==
  /\ rank \in [A -> Nat] /\ stop \in SUBSET A /\ v \in [A -> D] /\ next \in [A -> A]
  /\ G \in [A \X D -> D]
  /\ \A a \in A \ stop : rank[next[a]] < rank[a]

\* A value for each a, made by G from the value of the one that is next, until one stops.
Follows(w, A, stop, v, next, G) ==
  \A a \in A : w[a] = IF a \in stop THEN v[a] ELSE G[<<a, w[next[a]]>>]

\* Up to a rank.
FollowsTo(n, w, A, rank, stop, v, next, G) ==
  \A a \in A : rank[a] < n => w[a] = IF a \in stop THEN v[a] ELSE G[<<a, w[next[a]]>>]

\* If what is next has a smaller rank, there is only one up to each.
LEMMA FollowsOnce ==
  ASSUME NEW A, NEW D, NEW rank, NEW stop, NEW v, NEW next, NEW G,
         Descends(A, D, rank, stop, v, next, G),
         NEW n \in Nat, NEW w1 \in [A -> D], FollowsTo(n, w1, A, rank, stop, v, next, G),
         NEW w2 \in [A -> D], FollowsTo(n, w2, A, rank, stop, v, next, G)
  PROVE  \A a \in A : rank[a] < n => w1[a] = w2[a]
<1> USE DEF Descends
<1> DEFINE T == {r \in 0 .. n : \E a \in A : rank[a] = r /\ r < n /\ w1[a] # w2[a]}
<1>1. CASE T = {}
  <2>1. ASSUME NEW a \in A, rank[a] < n PROVE w1[a] = w2[a]
    <3>1. rank[a] \in 0 .. n
      BY <2>1
    <3> QED
      BY <1>1, <2>1, <3>1
  <2> QED
    BY <2>1
<1>2. CASE T # {}
  <2>1. T \in SUBSET Nat
    OBVIOUS
  <2>2. Min(T) \in T /\ \A y \in T : Min(T) <= y
    BY <1>2, <2>1, MinIsLeast
  <2> DEFINE m == Min(T)
  <2>3. PICK a \in A : rank[a] = m /\ m < n /\ w1[a] # w2[a]
    BY <2>2
  <2>4. a \notin stop
    BY <2>3 DEF FollowsTo
  <2>5. next[a] \in A /\ rank[next[a]] \in Nat /\ rank[next[a]] < m /\ m \in Nat
    BY <2>1, <2>2, <2>3, <2>4
  <2> HIDE DEF m
  <2>6. w1[next[a]] = w2[next[a]]
    <3>1. rank[next[a]] \in 0 .. n /\ rank[next[a]] < n /\ ~(m <= rank[next[a]])
      BY <2>3, <2>5
    <3>2. rank[next[a]] \notin T
      BY <2>2, <3>1 DEF m
    <3> QED
      BY <2>5, <3>1, <3>2
  <2>7. w1[a] = G[<<a, w1[next[a]]>>] /\ w2[a] = G[<<a, w2[next[a]]>>]
    BY <2>3, <2>4 DEF FollowsTo
  <2> QED
    BY <2>3, <2>6, <2>7
<1> QED
  BY <1>1, <1>2

\* And there is one.
LEMMA Descending ==
  ASSUME NEW A, NEW D, NEW rank, NEW stop, NEW v, NEW next, NEW G,
         Descends(A, D, rank, stop, v, next, G)
  PROVE  \E w \in [A -> D] : Follows(w, A, stop, v, next, G)
<1> USE DEF Descends
<1> DEFINE To(n, w) == FollowsTo(n, w, A, rank, stop, v, next, G)
           Value(w, a) == IF a \in stop THEN v[a] ELSE G[<<a, w[next[a]]>>]
<1>1. ASSUME NEW w \in [A -> D], NEW a \in A PROVE Value(w, a) \in D
  <2>1. next[a] \in A /\ w[next[a]] \in D /\ v[a] \in D
    OBVIOUS
  <2> QED
    BY <2>1
<1>2. ASSUME NEW N \in Nat PROVE \E w \in [A -> D] : To(N, w)
  <2> DEFINE S == {n \in 0 .. N : \E w \in [A -> D] : To(n, w)}
  <2>1. 0 \in S
    <3>1. To(0, v)
      BY DEF FollowsTo
    <3> QED
      BY <3>1
  <2>2. ASSUME NEW n \in 0 .. N - 1, n \in S PROVE n + 1 \in S
    <3>1. PICK w \in [A -> D] : To(n, w)
      BY <2>2
    <3> DEFINE u == [a \in A |-> IF rank[a] < n THEN w[a] ELSE Value(w, a)]
    <3>2. u \in [A -> D]
      BY <1>1
    <3>3. ASSUME NEW a \in A, rank[a] < n + 1
          PROVE  u[a] = Value(w, a) /\ (a \notin stop => u[next[a]] = w[next[a]])
      <4>1. u[a] = Value(w, a)
        <5>1. CASE rank[a] < n
          BY <3>1, <5>1 DEF FollowsTo
        <5>2. CASE ~(rank[a] < n)
          BY <5>2
        <5> QED
          BY <5>1, <5>2
      <4>2. ASSUME a \notin stop PROVE u[next[a]] = w[next[a]]
        <5>1. next[a] \in A /\ rank[next[a]] \in Nat /\ rank[a] \in Nat /\ rank[next[a]] < rank[a]
          BY <4>2
        <5>2. rank[next[a]] < n
          BY <3>3, <5>1
        <5> QED
          BY <5>1, <5>2
      <4> QED
        BY <4>1, <4>2
    <3> HIDE DEF u
    <3>4. To(n + 1, u)
      BY <3>3 DEF FollowsTo
    <3>5. n + 1 \in 0 .. N
      OBVIOUS
    <3> QED
      BY <3>2, <3>4, <3>5
  <2>3. S \in SUBSET (0 .. N)
    OBVIOUS
  <2> HIDE DEF S
  <2>4. S = 0 .. N
    BY <2>1, <2>2, <2>3, AllUpTo
  <2> QED
    BY <2>4 DEF S
<1> DEFINE sol(n) == CHOOSE w \in [A -> D] : To(n, w)
           W == [a \in A |-> sol(rank[a] + 1)[a]]
<1>3. \A n \in Nat : sol(n) \in [A -> D] /\ To(n, sol(n))
  BY <1>2
<1> HIDE DEF sol
<1>4. W \in [A -> D]
  <2>1. \A a \in A : rank[a] + 1 \in Nat
    OBVIOUS
  <2> QED
    BY <1>3, <2>1
<1>5. ASSUME NEW a \in A PROVE W[a] = Value(W, a)
  <2> DEFINE n == rank[a] + 1
             b == next[a]
             k == rank[b] + 1
  <2>1. n \in Nat /\ rank[a] < n /\ b \in A /\ k \in Nat /\ rank[b] < k
    OBVIOUS
  <2>2. sol(n)[a] = Value(sol(n), a)
    BY <1>3, <2>1 DEF FollowsTo
  <2>3. ASSUME a \notin stop PROVE W[b] = sol(n)[b]
    <3>1. k <= n
      BY <2>1, <2>3
    <3>2. To(k, sol(n))
      <4>1. To(n, sol(n))
        BY <1>3, <2>1
      <4>2. \A c \in A : rank[c] < k => rank[c] < n
        BY <2>1, <3>1
      <4> QED
        BY <4>1, <4>2 DEF FollowsTo
    <3>3. To(k, sol(k)) /\ sol(k) \in [A -> D] /\ sol(n) \in [A -> D]
      BY <1>3, <2>1
    <3>4. \A c \in A : rank[c] < k => sol(k)[c] = sol(n)[c]
      <4> DEFINE w1 == sol(k)
                 w2 == sol(n)
      <4>1. /\ w1 \in [A -> D] /\ FollowsTo(k, w1, A, rank, stop, v, next, G)
            /\ w2 \in [A -> D] /\ FollowsTo(k, w2, A, rank, stop, v, next, G)
        BY <3>2, <3>3
      <4> HIDE DEF k, b, n, w1, w2, Descends
      <4>2. \A c \in A : rank[c] < k => w1[c] = w2[c]
        BY <2>1, <4>1, FollowsOnce
      <4> QED
        BY <4>2 DEF w1, w2
    <3> QED
      BY <2>1, <3>4
  <2> QED
    BY <2>1, <2>2, <2>3
<1> HIDE DEF W
<1> QED
  BY <1>4, <1>5 DEF Follows

-----------------------------------------------------------------------------
(* Sequences *)

\* A sequence with one more element in front.
LEMMA InFront ==
  ASSUME NEW D, NEW x \in D, NEW s \in Seq(D)
  PROVE  /\ <<x>> \o s \in Seq(D) /\ Len(<<x>> \o s) = Len(s) + 1 /\ (<<x>> \o s)[1] = x
         /\ \A i \in 1 .. Len(s) : (<<x>> \o s)[i + 1] = s[i]
<1> DEFINE n == Len(s)
           h == <<x>> \o s
<1>1. <<x>> \in Seq(D) /\ Len(<<x>>) = 1 /\ <<x>>[1] = x /\ n \in Nat
  OBVIOUS
<1>2. h \in Seq(D) /\ Len(h) = 1 + n /\ \A i \in 1 .. 1 + n : h[i] = IF i <= 1 THEN <<x>>[i] ELSE s[i - 1]
  BY <1>1, ConcatProperties
<1>3. 1 \in 1 .. 1 + n /\ \A i \in 1 .. n : i + 1 \in 1 .. 1 + n /\ ~(i + 1 <= 1) /\ (i + 1) - 1 = i
  BY <1>1
<1> HIDE DEF h
<1>4. h[1] = x /\ \A i \in 1 .. n : h[i + 1] = s[i]
  BY <1>1, <1>2, <1>3
<1>5. Len(h) = n + 1
  BY <1>1, <1>2
<1> QED
  BY <1>2, <1>4, <1>5 DEF h, n

\* Its front and its last are those of the rest, if there is one.
LEMMA FrontAndLast ==
  ASSUME NEW D, NEW x \in D
  PROVE  /\ Front(<<x>>) = <<>> /\ Last(<<x>>) = x
         /\ \A s \in Seq(D) : s # <<>> => /\ Front(<<x>> \o s) = <<x>> \o Front(s)
                                         /\ Last(<<x>> \o s) = Last(s)
<1>1. Front(<<x>>) = <<>> /\ Last(<<x>>) = x
  <2>1. Len(<<x>>) = 1 /\ Len(<<x>>) - 1 = 0 /\ 0 < 1
    OBVIOUS
  <2>2. SubSeq(<<x>>, 1, 0) = <<>>
    BY SubSeqEmpty
  <2> QED
    BY <2>1, <2>2 DEF Front, Last
<1>2. ASSUME NEW s \in Seq(D), s # <<>>
      PROVE  Front(<<x>> \o s) = <<x>> \o Front(s) /\ Last(<<x>> \o s) = Last(s)
  <2> DEFINE n == Len(s)
             h == <<x>> \o s
             f == SubSeq(s, 1, n - 1)
             u == SubSeq(h, 1, n)
             e == <<x>> \o f
  <2>1. n \in Nat /\ n >= 1
    BY <1>2
  <2>2. h \in Seq(D) /\ Len(h) = n + 1 /\ h[1] = x /\ \A i \in 1 .. n : h[i + 1] = s[i]
    BY InFront
  <2> HIDE DEF h
  <2>3. \A i \in 1 .. n : s[i] \in D /\ h[i] \in D
    BY <2>1, <2>2
  <2> HIDE DEF n
  <2>4. f \in Seq(D) /\ Len(f) = n - 1 /\ \A i \in 1 .. n - 1 : f[i] = s[i]
    <3>1. 1 \in Int /\ n - 1 \in Int /\ (n - 1) - 1 + 1 = n - 1 /\ (1 <= n - 1 \/ n - 1 = 0)
      BY <2>1
    <3>2. \A i \in 1 .. n - 1 : s[i] \in D /\ 1 + i - 1 = i
      BY <2>1, <2>3
    <3> QED
      BY <3>1, <3>2, SubSeqProperties
  <2>5. u \in Seq(D) /\ Len(u) = n /\ \A i \in 1 .. n : u[i] = h[i]
    <3>1. 1 \in Int /\ n \in Int /\ n - 1 + 1 = n /\ 1 <= n
      BY <2>1
    <3>2. \A i \in 1 .. n : h[i] \in D /\ 1 + i - 1 = i
      BY <2>1, <2>3
    <3> QED
      BY <3>1, <3>2, SubSeqProperties
  <2> HIDE DEF f, u
  <2>6. e \in Seq(D) /\ Len(e) = (n - 1) + 1 /\ e[1] = x /\ \A i \in 1 .. n - 1 : e[i + 1] = f[i]
    BY <2>4, InFront
  <2> HIDE DEF e
  <2>7. ASSUME NEW i \in 1 .. Len(u) PROVE u[i] = e[i]
    <3>1. CASE i = 1
      BY <2>1, <2>2, <2>5, <2>6, <3>1
    <3>2. CASE i # 1
      <4>1. i - 1 \in 1 .. n - 1 /\ i - 1 \in 1 .. n /\ (i - 1) + 1 = i /\ i \in 1 .. n
        BY <2>1, <2>5, <3>2
      <4> QED
        BY <2>2, <2>4, <2>5, <2>6, <4>1
    <3> QED
      BY <3>1, <3>2
  <2>8. u = e
    <3>1. Len(u) = Len(e)
      BY <2>1, <2>5, <2>6
    <3> QED
      BY <2>5, <2>6, <2>7, <3>1, SeqEqual
  <2>9. Front(h) = u
    <3>1. Len(h) - 1 = n
      BY <2>1, <2>2
    <3> QED
      BY <3>1 DEF Front, u
  <2>10. Front(s) = f
    BY DEF Front, f, n
  <2>11. Last(h) = Last(s)
    <3>1. h[n + 1] = s[n]
      BY <2>1, <2>2
    <3> QED
      BY <2>2, <3>1 DEF Last, n
  <2> QED
    BY <2>8, <2>9, <2>10, <2>11 DEF h, e
<1> QED
  BY <1>1, <1>2

\* A sequence turned round.
LEMMA ReverseIs ==
  ASSUME NEW D, NEW s \in Seq(D)
  PROVE  /\ Reverse(s) \in Seq(D) /\ Len(Reverse(s)) = Len(s)
         /\ \A i \in 1 .. Len(s) : Reverse(s)[i] = s[(Len(s) - i) + 1]
<1> DEFINE n == Len(s)
           t == [i \in 1 .. n |-> s[(n - i) + 1]]
<1>1. n \in Nat /\ \A i \in 1 .. n : s[i] \in D
  OBVIOUS
<1>2. Reverse(s) = t
  BY DEF Reverse
<1> HIDE DEF n
<1>3. \A i \in 1 .. n : s[(n - i) + 1] \in D
  <2>1. \A i \in 1 .. n : (n - i) + 1 \in 1 .. n
    BY <1>1
  <2> QED
    BY <1>1, <2>1
<1>4. t \in Seq(D) /\ Len(t) = n /\ \A i \in 1 .. n : t[i] = s[(n - i) + 1]
  BY <1>1, <1>3
<1> QED
  BY <1>2, <1>4 DEF n

\* What is in front of a sequence is behind its reverse.
LEMMA ReverseInFront ==
  ASSUME NEW D, NEW x \in D, NEW s \in Seq(D)
  PROVE  Reverse(<<x>> \o s) = Append(Reverse(s), x)
<1> DEFINE n == Len(s)
           h == <<x>> \o s
           r == Reverse(h)
           u == Reverse(s)
           a == Append(u, x)
<1>1. n \in Nat /\ h \in Seq(D) /\ Len(h) = n + 1 /\ h[1] = x /\ \A i \in 1 .. n : h[i + 1] = s[i]
  BY InFront
<1> HIDE DEF h
<1>2. r \in Seq(D) /\ Len(r) = n + 1 /\ \A i \in 1 .. n + 1 : r[i] = h[((n + 1) - i) + 1]
  BY <1>1, ReverseIs
<1>3. u \in Seq(D) /\ Len(u) = n /\ \A i \in 1 .. n : u[i] = s[(n - i) + 1]
  BY ReverseIs
<1> HIDE DEF r, u, n
<1>4. a \in Seq(D) /\ Len(a) = n + 1 /\ a[n + 1] = x /\ \A i \in 1 .. n : a[i] = u[i]
  BY <1>3, AppendProperties
<1> HIDE DEF a
<1>5. ASSUME NEW i \in 1 .. n + 1 PROVE r[i] = a[i]
  <2>1. CASE i = n + 1
    <3>1. ((n + 1) - i) + 1 = 1
      BY <1>1, <2>1
    <3> QED
      BY <1>1, <1>2, <1>4, <2>1, <3>1
  <2>2. CASE i # n + 1
    <3>1. i \in 1 .. n /\ (n - i) + 1 \in 1 .. n /\ ((n + 1) - i) + 1 = ((n - i) + 1) + 1
      BY <1>1, <2>2
    <3>2. h[((n - i) + 1) + 1] = s[(n - i) + 1]
      BY <1>1, <3>1
    <3> QED
      BY <1>2, <1>3, <1>4, <3>1, <3>2
  <2> QED
    BY <2>1, <2>2
<1>6. r = a
  <2>1. Len(r) = Len(a) /\ \A i \in 1 .. Len(r) : r[i] = a[i]
    BY <1>2, <1>4, <1>5
  <2> QED
    BY <1>2, <1>4, <2>1, SeqEqual
<1> QED
  BY <1>6 DEF r, a, u, h

\* Sequences strung together are a sequence of their elements.
LEMMA FlattenIn ==
  ASSUME NEW S, NEW seqs \in Seq(Seq(S))
  PROVE  FlattenSeq(seqs) \in Seq(S)
<1> DEFINE n == Len(seqs)
<1>1. n \in Nat /\ \A i \in 1 .. n : seqs[i] \in Seq(S)
  OBVIOUS
<1>2. CASE n = 0
  BY <1>2 DEF FlattenSeq
<1>3. CASE n # 0
  <2> DEFINE N == n - 1
             F == [p \in (0 .. N) \X Seq(S) |-> IF p[1] = N THEN p[2] ELSE p[2] \o seqs[p[1] + 2]]
  <2>1. N \in Nat /\ n = N + 1
    BY <1>1, <1>3
  <2>2. ASSUME NEW i \in 0 .. N, NEW x \in Seq(S)
        PROVE  (IF i = N THEN x ELSE x \o seqs[i + 2]) \in Seq(S)
    <3>1. CASE i = N
      BY <3>1
    <3>2. CASE i # N
      <4>1. i + 2 \in 1 .. n
        <5> HIDE DEF n, N
        <5>1. i \in Nat /\ i < N
          BY <2>1, <3>2
        <5> QED
          BY <2>1, <5>1
      <4> QED
        BY <1>1, <4>1
    <3> QED
      BY <3>1, <3>2
  <2>3. F \in [(0 .. N) \X Seq(S) -> Seq(S)]
    BY <2>2
  <2>4. seqs[1] \in Seq(S)
    BY <1>1, <2>1
  <2> HIDE DEF F, n, N
  <2>5. PICK f \in [0 .. N -> Seq(S)] :
          f[0] = seqs[1] /\ \A i \in 0 .. N - 1 : f[i + 1] = F[<<i, f[i]>>]
    <3> DEFINE D == Seq(S)
               x == seqs[1]
    <3>1. N \in Nat /\ x \in D /\ F \in StepMaps(N, D)
      BY <2>1, <2>3, <2>4 DEF StepMaps
    <3> HIDE DEF D, x
    <3>2. \E f \in [0 .. N -> D] : Iterates(f, N, x, F)
      BY <3>1, Iterated
    <3> QED
      BY <3>2 DEF D, x, Iterates
  <2> DEFINE g == [i \in 1 .. n |-> f[i - 1]]
             Rec(h) == h = [i \in 1 .. n |-> IF i = 1 THEN seqs[i] ELSE h[i - 1] \o seqs[i]]
  <2>6. Rec(g)
    <3>1. ASSUME NEW i \in 1 .. n
          PROVE  g[i] = IF i = 1 THEN seqs[i] ELSE g[i - 1] \o seqs[i]
      <4>1. CASE i = 1
        BY <2>5, <4>1
      <4>2. CASE i # 1
        <5>1. i - 2 \in 0 .. N - 1 /\ (i - 2) + 1 = i - 1 /\ i - 2 # N /\ (i - 2) + 2 = i
              /\ i - 1 \in 1 .. n /\ i - 2 \in 0 .. N /\ (i - 1) - 1 = i - 2
          BY <2>1, <4>2
        <5>2. f[i - 1] = F[<<i - 2, f[i - 2]>>]
          BY <2>5, <5>1
        <5>3. f[i - 2] \in Seq(S)
          BY <2>5, <5>1
        <5>4. F[<<i - 2, f[i - 2]>>] = f[i - 2] \o seqs[i]
          BY <5>1, <5>3 DEF F
        <5> QED
          BY <4>2, <5>1, <5>2, <5>4
      <4> QED
        BY <4>1, <4>2
    <3> QED
      BY <3>1
  <2>7. Rec(CHOOSE h : Rec(h))
    BY <2>6
  <2>8. \A i \in 1 .. n : (CHOOSE h : Rec(h))[i] = g[i]
    <3> DEFINE h == CHOOSE h : Rec(h)
               E == {i \in 0 .. n : i = 0 \/ h[i] = g[i]}
    <3>1. Rec(h)
      BY <2>7
    <3> HIDE DEF h
    <3>2. ASSUME NEW i \in 0 .. n - 1, i \in E PROVE i + 1 \in E
      <4>1. i + 1 \in 1 .. n /\ (i + 1 = 1 <=> i = 0) /\ (i + 1) - 1 = i
        BY <1>1 DEF n
      <4>2. h[i + 1] = IF i + 1 = 1 THEN seqs[i + 1] ELSE h[(i + 1) - 1] \o seqs[i + 1]
        BY <3>1, <4>1
      <4>3. g[i + 1] = IF i + 1 = 1 THEN seqs[i + 1] ELSE g[(i + 1) - 1] \o seqs[i + 1]
        <5> HIDE DEF g
        <5> QED
          BY <2>6, <4>1
      <4>4. h[i + 1] = g[i + 1]
        BY <3>2, <4>1, <4>2, <4>3
      <4>5. i + 1 \in 0 .. n
        BY <4>1
      <4> HIDE DEF g
      <4> QED
        BY <4>4, <4>5
    <3>3. E \in SUBSET (0 .. n) /\ 0 \in E /\ n \in Nat
      BY <1>1 DEF n
    <3> HIDE DEF E
    <3>4. E = 0 .. n
      BY <3>2, <3>3, AllUpTo
    <3>5. \A i \in 1 .. n : i # 0 /\ i \in 0 .. n
      BY <3>3
    <3> QED
      BY <3>4, <3>5 DEF E, h
  <2>9. FlattenSeq(seqs) = (CHOOSE h : Rec(h))[n]
    BY <1>3 DEF FlattenSeq, n
  <2>10. g[n] \in Seq(S)
    <3>1. n \in 1 .. n /\ n - 1 \in 0 .. N
      BY <2>1
    <3> QED
      BY <2>5, <3>1
  <2> HIDE DEF Rec, g
  <2> QED
    BY <2>1, <2>8, <2>9, <2>10
<1> QED
  BY <1>2, <1>3

\* A finite set in some order.
LEMMA SetInOrder ==
  ASSUME NEW S, IsFiniteSet(S)
  PROVE  SetToSeq(S) \in Seq(S)
<1>1. Cardinality(S) \in Nat /\ ExistsBijection(1 .. Cardinality(S), S)
  BY FS_CardinalityType
<1>2. PICK f : f \in Bijection(1 .. Cardinality(S), S)
  BY <1>1 DEF ExistsBijection
<1>3. f \in [1 .. Cardinality(S) -> S] /\ IsInjective(f)
  BY <1>2 DEF Bijection, Injection, IsInjective
<1>4. SetToSeq(S) \in [1 .. Cardinality(S) -> S]
  BY <1>3 DEF SetToSeq
<1> QED
  BY <1>1, <1>4
=============================================================================
