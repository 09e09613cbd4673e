---------------------------- MODULE CommonLemmas ----------------------------
(***************************************************************************)
(* Facts about numbers and sequences that the proofs of several components *)
(* rest on.                                                                *)
(***************************************************************************)
EXTENDS Integers, SequencesExt, WellFoundedInduction, TLAPS

\* Every set of natural numbers that is not empty has a least element.
LEMMA SmallestNat ==
  ASSUME NEW T, T \subseteq Nat, T # {}
  PROVE  \E x \in T : \A y \in T : x <= y
  <1> DEFINE R == {ss \in Nat \X Nat : ss[1] < ss[2]}
  <1>1. IsWellFoundedOn(R, Nat)
    BY NatLessThanWellFounded, Zenon DEF OpToRel
  <1>2. PICK x \in T : \A y \in T : ~ (<<y, x>> \in R)
    <2> HIDE DEF R
    <2> QED
      BY <1>1, WFMin, Zenon
  <1>3. ASSUME NEW y \in T PROVE x <= y
    <2>1. x \in Nat /\ y \in Nat
      OBVIOUS
    <2>2. ~ (<<y, x>> \in R)
      BY <1>2
    <2> QED
      BY <2>1, <2>2
  <1> QED
    BY <1>3

\* Induction over the natural numbers, for a set instead of a predicate.
LEMMA SetInduction ==
  ASSUME NEW P, 0 \in P, \A n \in Nat : n \in P => n + 1 \in P
  PROVE  Nat \subseteq P
  <1> DEFINE T == {n \in Nat : n \notin P}
  <1> SUFFICES ASSUME T # {} PROVE FALSE
    OBVIOUS
  <1>1. PICK x \in T : \A y \in T : x <= y
    BY SmallestNat
  <1>2. x \in Nat /\ x # 0
    OBVIOUS
  <1>3. x - 1 \in Nat /\ x - 1 \notin T
    BY <1>1, <1>2
  <1> QED
    BY <1>2, <1>3

\* Two sequences with the same elements are the same.
LEMMA SeqExtensionality ==
  ASSUME NEW S, NEW s \in Seq(S), NEW t \in Seq(S),
         Len(s) = Len(t), \A i \in 1 .. Len(s) : s[i] = t[i]
  PROVE  s = t
  OBVIOUS

\* A function on 1 .. n is a sequence of length n.
LEMMA FunctionIsSeq ==
  ASSUME NEW S, NEW n \in Nat, NEW f \in [1 .. n -> S]
  PROVE  f \in Seq(S) /\ Len(f) = n
  OBVIOUS

\* A sequence whose elements are in T.
LEMMA SeqWithin ==
  ASSUME NEW S, NEW T, NEW s \in Seq(S), \A k \in 1 .. Len(s) : s[k] \in T
  PROVE  s \in Seq(T)
  OBVIOUS

\* A sequence without its element number n.
LEMMA RemoveAtFacts ==
  ASSUME NEW S, NEW s \in Seq(S), NEW n \in 1 .. Len(s)
  PROVE  /\ RemoveAt(s, n) \in Seq(S) /\ Len(RemoveAt(s, n)) = Len(s) - 1
         /\ \A k \in 1 .. Len(s) - 1 : RemoveAt(s, n)[k] = IF k < n THEN s[k] ELSE s[k + 1]
  <1> DEFINE a == SubSeq(s, 1, n - 1)
             b == SubSeq(s, n + 1, Len(s))
  <1>0. Len(s) \in Nat /\ n \in Nat
    OBVIOUS
  <1>1. a \in Seq(S) /\ Len(a) = n - 1 /\ b \in Seq(S) /\ Len(b) = Len(s) - n
    OBVIOUS
  <1>2. \A k \in 1 .. n - 1 : a[k] = s[k]
    OBVIOUS
  <1>3. \A k \in 1 .. Len(s) - n : b[k] = s[n + k]
    OBVIOUS
  <1>4. RemoveAt(s, n) = a \o b
    BY DEF RemoveAt
  <1> HIDE DEF a, b
  <1>5. a \o b \in Seq(S) /\ Len(a \o b) = Len(s) - 1
    BY <1>0, <1>1
  <1>6. ASSUME NEW k \in 1 .. Len(s) - 1
        PROVE  (a \o b)[k] = IF k < n THEN s[k] ELSE s[k + 1]
    <2>0. k \in Nat /\ (k < n \/ k >= n)
      BY <1>0
    <2>1. CASE k < n
      BY <1>0, <1>1, <1>2, <2>1
    <2>2. CASE k >= n
      <3>1. (a \o b)[k] = b[k - (n - 1)]
        <4>1. k \in Len(a) + 1 .. Len(a) + Len(b)
          BY <1>0, <1>1, <2>2
        <4>2. (a \o b)[k] = b[k - Len(a)]
          BY <1>1, <4>1
        <4> QED
          BY <1>1, <4>2
      <3>2. k - (n - 1) \in 1 .. Len(s) - n /\ n + (k - (n - 1)) = k + 1
        BY <1>0, <2>2
      <3>3. b[k - (n - 1)] = s[n + (k - (n - 1))]
        BY <1>3, <3>2
      <3> QED
        BY <1>0, <2>2, <3>1, <3>2, <3>3
    <2> QED
      BY <2>0, <2>1, <2>2
  <1> QED
    BY <1>4, <1>5, <1>6

\* A sequence with e before its element number n.
LEMMA InsertAtFacts ==
  ASSUME NEW S, NEW s \in Seq(S), NEW n \in 1 .. Len(s) + 1, NEW e \in S
  PROVE  /\ InsertAt(s, n, e) \in Seq(S) /\ Len(InsertAt(s, n, e)) = Len(s) + 1
         /\ \A k \in 1 .. Len(s) + 1 :
              InsertAt(s, n, e)[k] = IF k < n THEN s[k] ELSE IF k = n THEN e ELSE s[k - 1]
  <1> DEFINE a == SubSeq(s, 1, n - 1)
             b == SubSeq(s, n, Len(s))
             c == a \o <<e>>
  <1>0. Len(s) \in Nat /\ n \in Nat
    OBVIOUS
  <1>1. a \in Seq(S) /\ Len(a) = n - 1 /\ b \in Seq(S) /\ Len(b) = Len(s) - n + 1
    OBVIOUS
  <1>2. \A k \in 1 .. n - 1 : a[k] = s[k]
    OBVIOUS
  <1>3. \A k \in 1 .. Len(s) - n + 1 : b[k] = s[n + k - 1]
    OBVIOUS
  <1>4. InsertAt(s, n, e) = c \o b
    BY DEF InsertAt
  <1> HIDE DEF a, b
  <1>5. /\ c \in Seq(S) /\ Len(c) = n /\ c[n] = e
        /\ \A k \in 1 .. n - 1 : c[k] = s[k]
    BY <1>0, <1>1, <1>2
  <1> HIDE DEF c
  <1>6. c \o b \in Seq(S) /\ Len(c \o b) = Len(s) + 1
    BY <1>0, <1>1, <1>5
  <1>7. ASSUME NEW k \in 1 .. Len(s) + 1
        PROVE  (c \o b)[k] = IF k < n THEN s[k] ELSE IF k = n THEN e ELSE s[k - 1]
    <2>0. k \in Nat /\ (k <= n \/ k > n)
      BY <1>0
    <2>1. CASE k <= n
      <3>1. (c \o b)[k] = c[k]
        BY <1>0, <1>1, <1>5, <2>1
      <3> QED
        BY <1>0, <1>5, <2>0, <2>1, <3>1
    <2>2. CASE k > n
      <3>1. k \in Len(c) + 1 .. Len(c) + Len(b)
        BY <1>0, <1>1, <1>5, <2>2
      <3>2. (c \o b)[k] = b[k - Len(c)]
        BY <1>1, <1>5, <3>1
      <3>3. k - n \in 1 .. Len(s) - n + 1 /\ n + (k - n) - 1 = k - 1
        BY <1>0, <2>2
      <3>4. b[k - n] = s[n + (k - n) - 1]
        BY <1>3, <3>3
      <3> QED
        BY <1>0, <1>5, <2>2, <3>2, <3>3, <3>4
    <2> QED
      BY <2>0, <2>1, <2>2
  <1> QED
    BY <1>4, <1>6, <1>7

\* The same fact as a predicate of the new sequence t.
IsInserted(t, S, s, n, e) ==
  /\ t \in Seq(S) /\ Len(t) = Len(s) + 1
  /\ \A k \in 1 .. Len(s) + 1 :
       t[k] = IF k < n THEN s[k] ELSE IF k = n THEN e ELSE s[k - 1]

LEMMA InsertAtIs ==
  ASSUME NEW S, NEW s \in Seq(S), NEW n \in 1 .. Len(s) + 1, NEW e \in S
  PROVE  IsInserted(InsertAt(s, n, e), S, s, n, e)
  BY InsertAtFacts DEF IsInserted

\* The least element of a set of natural numbers, as FiniteSetsExt chooses it.
LEMMA MinFacts ==
  ASSUME NEW I, I \subseteq Nat, I # {}
  PROVE  Min(I) \in I /\ \A i \in I : Min(I) <= i
  <1>1. \E x \in I : \A y \in I : x <= y
    BY SmallestNat
  <1> QED
    BY <1>1, Zenon DEF Min

\* An element that is inserted and removed again leaves the sequence as it was.
LEMMA RemoveInserted ==
  ASSUME NEW S, NEW s \in Seq(S), NEW n \in 1 .. Len(s) + 1, NEW e \in S
  PROVE  RemoveAt(InsertAt(s, n, e), n) = s
  <1> DEFINE t == InsertAt(s, n, e)
             u == RemoveAt(t, n)
  <1>0. Len(s) \in Nat /\ n \in Nat
    OBVIOUS
  <1>1. /\ t \in Seq(S) /\ Len(t) = Len(s) + 1
        /\ \A k \in 1 .. Len(s) + 1 :
             t[k] = IF k < n THEN s[k] ELSE IF k = n THEN e ELSE s[k - 1]
    BY InsertAtFacts
  <1>2. n \in 1 .. Len(t)
    BY <1>1
  <1> HIDE DEF t
  <1>3. /\ u \in Seq(S) /\ Len(u) = Len(t) - 1
        /\ \A k \in 1 .. Len(t) - 1 : u[k] = IF k < n THEN t[k] ELSE t[k + 1]
    BY <1>1, <1>2, RemoveAtFacts
  <1> HIDE DEF u
  <1>4. ASSUME NEW k \in 1 .. Len(u) PROVE u[k] = s[k]
    <2>1. /\ k \in Nat /\ k \in 1 .. Len(t) - 1 /\ k \in 1 .. Len(s) + 1
          /\ k + 1 \in 1 .. Len(s) + 1 /\ (k + 1) - 1 = k
      BY <1>0, <1>1, <1>3
    <2>2. CASE k < n
      BY <1>1, <1>3, <2>1, <2>2
    <2>3. CASE k >= n
      <3>1. u[k] = t[k + 1]
        BY <1>0, <1>3, <2>1, <2>3
      <3>2. ~ (k + 1 < n) /\ k + 1 # n
        BY <1>0, <2>1, <2>3
      <3> QED
        BY <1>1, <2>1, <3>1, <3>2
    <2> QED
      BY <1>0, <2>1, <2>2, <2>3
  <1>5. Len(u) = Len(s)
    BY <1>0, <1>1, <1>3
  <1>6. u = s
    BY <1>3, <1>4, <1>5, SeqExtensionality
  <1> QED
    BY <1>6 DEF t, u

\* f is defined by recursion over 0 .. m: f[0] is a, and G gives f[k] from
\* f[k - 1] and k.
Recursion(f, S, a, G, m) ==
  f \in [0 .. m -> S] /\ f[0] = a /\ \A k \in 1 .. m : f[k] = G[<<f[k - 1], k>>]

\* Such a function exists.
LEMMA RecursionExists ==
  ASSUME NEW S, NEW a \in S, NEW G \in [S \X Nat -> S], NEW m \in Nat
  PROVE  \E f : Recursion(f, S, a, G, m)
  <1> DEFINE Steps(f, n) == f[0] = a /\ \A k \in 1 .. n : f[k] = G[<<f[k - 1], k>>]
             P == {n \in Nat : \E f \in [0 .. n -> S] : Steps(f, n)}
  <1>1. 0 \in P
    <2>1. [k \in 0 .. 0 |-> a] \in [0 .. 0 -> S] /\ Steps([k \in 0 .. 0 |-> a], 0)
      OBVIOUS
    <2> QED
      BY <2>1
  <1>2. ASSUME NEW n \in Nat, n \in P PROVE n + 1 \in P
    <2>1. PICK f \in [0 .. n -> S] : Steps(f, n)
      BY <1>2
    <2> DEFINE g == [k \in 0 .. n + 1 |-> IF k <= n THEN f[k] ELSE G[<<f[n], n + 1>>]]
    <2>2. n \in 0 .. n /\ <<f[n], n + 1>> \in S \X Nat
      OBVIOUS
    <2>3. g \in [0 .. n + 1 -> S]
      <3>1. \A k \in 0 .. n + 1 : k <= n => k \in 0 .. n
        OBVIOUS
      <3> QED
        BY <2>2, <3>1
    <2>4. g[0] = a /\ g[n + 1] = G[<<f[n], n + 1>>] /\ \A k \in 0 .. n : g[k] = f[k]
      BY <2>1
    <2> HIDE DEF g
    <2>5. ASSUME NEW k \in 1 .. n + 1 PROVE g[k] = G[<<g[k - 1], k>>]
      <3>1. CASE k = n + 1
        <4>1. k - 1 = n /\ g[n] = f[n]
          BY <2>4, <3>1
        <4> QED
          BY <2>4, <3>1, <4>1
      <3>2. CASE k # n + 1
        <4>1. k \in 1 .. n /\ k \in 0 .. n /\ k - 1 \in 0 .. n
          BY <3>2
        <4>2. g[k] = f[k] /\ g[k - 1] = f[k - 1] /\ f[k] = G[<<f[k - 1], k>>]
          BY <2>1, <2>4, <4>1
        <4> QED
          BY <4>2
      <3> QED
        BY <3>1, <3>2
    <2> QED
      BY <2>3, <2>4, <2>5
  <1>3. Nat \subseteq P
    <2> HIDE DEF P
    <2> QED
      BY <1>1, <1>2, SetInduction
  <1> QED
    BY <1>3 DEF Recursion
=============================================================================
