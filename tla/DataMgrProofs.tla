---------------------------- MODULE DataMgrProofs ---------------------------
(***************************************************************************)
(* Theorems about DataMgr, for every RUN_AVG_LENGTH, every map file and    *)
(* every sequence of readings.                                             *)
(*                                                                         *)
(* RunningAverage says what is stored as the average; it is kept because   *)
(* of what the ring holds: each of the last RUN_AVG_LENGTH readings is at  *)
(* the position of its number (Ring).  Two numbers that are less than a    *)
(* ring apart have different positions, so a new reading overwrites the    *)
(* oldest one only (PositionsDiffer), and the sum of the ring moves along  *)
(* with the sum of the window (SumUpdate, SumShift).                       *)
(***************************************************************************)
EXTENDS DataMgr, CommonLemmas

LEMMA LengthFacts == RUN_AVG_LENGTH \in Nat /\ RUN_AVG_LENGTH >= 1
  BY LengthAssumption
-----------------------------------------------------------------------------
(* array_position.                                                         *)

\* Every number is a multiple of RUN_AVG_LENGTH and a rest.
Rest(n, r) == r \in 0 .. RUN_AVG_LENGTH - 1 /\ \E q \in Nat : n = RUN_AVG_LENGTH * q + r

LEMMA RestExists ==
  ASSUME NEW n \in Nat
  PROVE  \E r : Rest(n, r)
  <1> DEFINE L == RUN_AVG_LENGTH
             P == {k \in Nat : \E r : Rest(k, r)}
  <1>0. L \in Nat /\ L >= 1
    BY LengthFacts
  <1>1. 0 \in P
    <2>1. 0 \in 0 .. L - 1 /\ 0 = L * 0 + 0
      BY <1>0
    <2> QED
      BY <2>1 DEF Rest
  <1>2. ASSUME NEW k \in Nat, k \in P PROVE k + 1 \in P
    <2>1. PICK r \in 0 .. L - 1, q \in Nat : k = L * q + r
      BY <1>2 DEF Rest
    <2>2. CASE r + 1 < L
      <3>1. r + 1 \in 0 .. L - 1 /\ k + 1 = L * q + (r + 1)
        BY <1>0, <2>1, <2>2
      <3> QED
        BY <3>1 DEF Rest
    <2>3. CASE ~ (r + 1 < L)
      <3>1. r + 1 = L /\ 0 \in 0 .. L - 1
        BY <1>0, <2>3
      <3>2. L * (q + 1) = L * q + L
        BY <1>0
      <3>3. k + 1 = L * (q + 1) + 0
        BY <1>0, <2>1, <3>1, <3>2
      <3> QED
        BY <3>1, <3>3 DEF Rest
    <2> QED
      BY <2>2, <2>3
  <1>3. Nat \subseteq P
    <2> HIDE DEF P
    <2> QED
      BY <1>1, <1>2, SetInduction
  <1> QED
    BY <1>3

LEMMA RestSmall ==
  ASSUME NEW n \in Nat, n < RUN_AVG_LENGTH, NEW r, Rest(n, r)
  PROVE  r = n
  <1> DEFINE L == RUN_AVG_LENGTH
  <1>0. L \in Nat /\ L >= 1
    BY LengthFacts
  <1>1. PICK q \in Nat : n = L * q + r
    BY DEF Rest
  <1>2. r \in 0 .. L - 1
    BY DEF Rest
  <1>3. CASE q = 0
    BY <1>0, <1>1, <1>2, <1>3
  <1>4. CASE q # 0
    <2>1. q - 1 \in Nat
      BY <1>4
    <2>2. L * (q - 1) \in Nat
      BY <1>0, <2>1
    <2>3. L * q = L * (q - 1) + L
      BY <1>0, <2>1
    <2> QED
      BY <1>0, <1>1, <1>2, <2>2, <2>3
  <1> QED
    BY <1>3, <1>4

LEMMA RestAgain ==
  ASSUME NEW n \in Nat, n >= RUN_AVG_LENGTH, NEW r
  PROVE  Rest(n, r) <=> Rest(n - RUN_AVG_LENGTH, r)
  <1> DEFINE L == RUN_AVG_LENGTH
  <1>0. L \in Nat /\ L >= 1
    BY LengthFacts
  <1>1. ASSUME Rest(n, r) PROVE Rest(n - L, r)
    <2>1. PICK q \in Nat : n = L * q + r
      BY <1>1 DEF Rest
    <2>2. r \in 0 .. L - 1
      BY <1>1 DEF Rest
    <2>3. q # 0
      BY <1>0, <2>1, <2>2
    <2>4. q - 1 \in Nat /\ L * q = L * (q - 1) + L
      BY <1>0, <2>3
    <2>5. n - L = L * (q - 1) + r
      BY <1>0, <2>1, <2>2, <2>4
    <2> QED
      BY <2>2, <2>4, <2>5 DEF Rest
  <1>2. ASSUME Rest(n - L, r) PROVE Rest(n, r)
    <2>1. PICK q \in Nat : n - L = L * q + r
      BY <1>2 DEF Rest
    <2>2. r \in 0 .. L - 1
      BY <1>2 DEF Rest
    <2>3. q + 1 \in Nat /\ L * (q + 1) = L * q + L
      BY <1>0
    <2>4. n = L * (q + 1) + r
      BY <1>0, <2>1, <2>2, <2>3
    <2> QED
      BY <2>2, <2>3, <2>4 DEF Rest
  <1> QED
    BY <1>1, <1>2

\* The loop that subtracts RUN_AVG_LENGTH ends with a position in the ring.
LEMMA PositionFacts ==
  ASSUME NEW n \in Nat
  PROVE  /\ array_position(n) \in 0 .. RUN_AVG_LENGTH - 1
         /\ n < RUN_AVG_LENGTH => array_position(n) = n
         /\ n >= RUN_AVG_LENGTH => array_position(n) = array_position(n - RUN_AVG_LENGTH)
  <1> DEFINE L == RUN_AVG_LENGTH
             W(f) == [k \in Nat |-> IF k < L THEN k ELSE f[k - L]]
             position == CHOOSE f : f = W(f)
             g == [k \in Nat |-> CHOOSE r : Rest(k, r)]
  <1>0. L \in Nat /\ L >= 1
    BY LengthFacts
  <1>1. \A k \in Nat : Rest(k, g[k])
    BY RestExists
  <1>2. \A k \in Nat : k < L => g[k] = k
    <2> HIDE DEF g
    <2> QED
      BY <1>1, RestSmall
  <1>3. ASSUME NEW k \in Nat, k >= L PROVE g[k] = g[k - L]
    <2>1. k - L \in Nat
      BY <1>0, <1>3
    <2>2. \A r : Rest(k, r) <=> Rest(k - L, r)
      BY <1>3, RestAgain
    <2>3. (CHOOSE r : Rest(k, r)) = (CHOOSE r : Rest(k - L, r))
      BY <2>2, Zenon
    <2> QED
      BY <2>1, <2>3
  <1>4. g = W(g)
    <2>1. g = [k \in Nat |-> g[k]]
      OBVIOUS
    <2> HIDE DEF g
    <2>2. \A k \in Nat : g[k] = IF k < L THEN k ELSE g[k - L]
      BY <1>0, <1>2, <1>3
    <2>3. [k \in Nat |-> g[k]] = W(g)
      BY <2>2, Zenon
    <2> QED
      BY <2>1, <2>3
  <1>5. position = W(position)
    <2> HIDE DEF g
    <2> QED
      BY <1>4, Zenon
  <1>6. \A k : array_position(k) = position[k]
    BY Zenon DEF array_position
  <1> HIDE DEF position, g
  <1>7. \A k \in Nat : position[k] = IF k < L THEN k ELSE position[k - L]
    BY <1>5
  <1> DEFINE P == {m \in Nat : \A k \in Nat : k <= m => position[k] \in 0 .. L - 1}
  <1>8. 0 \in P
    BY <1>0, <1>7
  <1>9. ASSUME NEW m \in Nat, m \in P PROVE m + 1 \in P
    <2>1. CASE m + 1 < L
      BY <1>0, <1>7, <1>9, <2>1
    <2>2. CASE m + 1 >= L
      <3>1. (m + 1) - L \in Nat /\ (m + 1) - L <= m /\ ~ (m + 1 < L)
        BY <1>0, <2>2
      <3>2. position[m + 1] = position[(m + 1) - L]
        BY <1>7, <3>1
      <3> QED
        BY <1>9, <3>1, <3>2
    <2> QED
      BY <1>0, <2>1, <2>2
  <1>10. Nat \subseteq P
    <2> HIDE DEF P
    <2> QED
      BY <1>8, <1>9, SetInduction
  <1> QED
    BY <1>0, <1>6, <1>7, <1>10

\* Numbers less than a ring apart have different positions.
LEMMA PositionsDiffer ==
  ASSUME NEW i \in Nat, NEW j \in Nat, i < j, j < i + RUN_AVG_LENGTH
  PROVE  array_position(i) # array_position(j)
  <1> DEFINE L == RUN_AVG_LENGTH
             p(n) == array_position(n)
             Apart(n) == \A k \in Nat : k < n /\ n < k + L => p(k) # p(n)
             P == {m \in Nat : \A n \in Nat : n <= m => Apart(n)}
  <1>0. L \in Nat /\ L >= 1
    BY LengthFacts
  <1>1. \A n \in Nat : (n < L => p(n) = n) /\ (n >= L => p(n) = p(n - L))
    BY PositionFacts
  <1> HIDE DEF p
  <1>2. 0 \in P
    OBVIOUS
  <1>3. ASSUME NEW m \in Nat, m \in P PROVE m + 1 \in P
    <2>1. ASSUME NEW k \in Nat, k < m + 1, m + 1 < k + L PROVE p(k) # p(m + 1)
      <3>1. CASE m + 1 < L
        BY <1>0, <1>1, <2>1, <3>1
      <3>2. CASE m + 1 >= L
        <4>1. (m + 1) - L \in Nat /\ (m + 1) - L <= m /\ p(m + 1) = p((m + 1) - L)
          BY <1>0, <1>1, <3>2
        <4>2. CASE k < L
          <5>1. p(k) = k /\ (m + 1) - L < k /\ (m + 1) - L < L
            BY <1>0, <1>1, <2>1, <4>2
          <5>2. p((m + 1) - L) = (m + 1) - L
            BY <1>1, <4>1, <5>1
          <5> QED
            BY <4>1, <5>1, <5>2
        <4>3. CASE k >= L
          <5>1. k - L \in Nat /\ p(k) = p(k - L) /\ k - L < (m + 1) - L
                /\ (m + 1) - L < (k - L) + L
            BY <1>0, <1>1, <2>1, <4>3
          <5>2. Apart((m + 1) - L)
            BY <1>3, <4>1
          <5> QED
            BY <4>1, <5>1, <5>2
        <4> QED
          BY <1>0, <4>2, <4>3
      <3> QED
        BY <1>0, <3>1, <3>2
    <2>2. Apart(m + 1)
      BY <2>1
    <2> HIDE DEF Apart
    <2>3. \A n \in Nat : n <= m + 1 => n <= m \/ n = m + 1
      OBVIOUS
    <2> QED
      BY <1>3, <2>2, <2>3
  <1>4. Nat \subseteq P
    <2> HIDE DEF P
    <2> QED
      BY <1>2, <1>3, SetInduction
  <1>5. Apart(j)
    BY <1>4
  <1> QED
    BY <1>5 DEF p
-----------------------------------------------------------------------------
(* total.                                                                  *)

Rings == [0 .. RUN_AVG_LENGTH - 1 -> Int]

LEMMA RingsEqual ==
  ASSUME NEW t \in Rings, NEW u \in Rings,
         \A k \in 0 .. RUN_AVG_LENGTH - 1 : t[k] = u[k]
  PROVE  t = u
  <1> DEFINE D == 0 .. RUN_AVG_LENGTH - 1
  <1>1. t = [k \in D |-> t[k]] /\ u = [k \in D |-> u[k]]
    BY Zenon DEF Rings
  <1>2. [k \in D |-> t[k]] = [k \in D |-> u[k]]
    BY Zenon
  <1> QED
    BY <1>1, <1>2, Zenon

\* s holds the sums of the first temperatures of t.
Sums(s, t) ==
  /\ s \in [0 .. RUN_AVG_LENGTH -> Int] /\ s[0] = 0
  /\ \A k \in 1 .. RUN_AVG_LENGTH : s[k] = s[k - 1] + t[k - 1]
  /\ total(t) = s[RUN_AVG_LENGTH]

\* The loop of datamgr_get_avg has such partial sums.
LEMMA SumsExist ==
  ASSUME NEW t \in Rings
  PROVE  \E s : Sums(s, t)
  <1> DEFINE L == RUN_AVG_LENGTH
             W(f) == [i \in 0 .. L |-> IF i = 0 THEN 0 ELSE f[i - 1] + t[i - 1]]
             sum == CHOOSE f : f = W(f)
             G == [x \in Int \X Nat |->
                     IF x[2] \in 1 .. L THEN x[1] + t[x[2] - 1] ELSE 0]
  <1>0. L \in Nat /\ L >= 1 /\ \A k \in 1 .. L : t[k - 1] \in Int
    BY LengthFacts DEF Rings
  <1>1. G \in [Int \X Nat -> Int]
    BY <1>0
  <1>2. \A x \in Int : \A k \in 1 .. L : G[<<x, k>>] = x + t[k - 1]
    BY <1>0
  <1> HIDE DEF G
  <1>3. PICK f : Recursion(f, Int, 0, G, L)
    <2>1. 0 \in Int
      OBVIOUS
    <2> QED
      BY <1>0, <1>1, <2>1, RecursionExists, Zenon
  <1>4. /\ f \in [0 .. L -> Int] /\ f[0] = 0
        /\ \A k \in 1 .. L : f[k] = f[k - 1] + t[k - 1]
    <2>1. f \in [0 .. L -> Int] /\ f[0] = 0
      BY <1>3 DEF Recursion
    <2>2. ASSUME NEW k \in 1 .. L PROVE f[k] = f[k - 1] + t[k - 1]
      <3>1. f[k] = G[<<f[k - 1], k>>]
        BY <1>3 DEF Recursion
      <3>2. k - 1 \in 0 .. L
        BY <1>0
      <3>3. f[k - 1] \in Int
        BY <2>1, <3>2
      <3> QED
        BY <1>2, <3>1, <3>3
    <2> QED
      BY <2>1, <2>2
  <1>5. f = W(f)
    <2>1. f = [i \in 0 .. L |-> f[i]]
      BY <1>4
    <2>2. \A i \in 0 .. L : f[i] = IF i = 0 THEN 0 ELSE f[i - 1] + t[i - 1]
      BY <1>0, <1>4
    <2>3. [i \in 0 .. L |-> f[i]] = W(f)
      BY <2>2, Zenon
    <2> QED
      BY <2>1, <2>3
  <1>6. sum = W(sum)
    BY <1>5, Zenon
  <1>7. total(t) = sum[L]
    BY Zenon DEF total
  <1> HIDE DEF sum
  <1>8. sum[0] = 0 /\ \A k \in 1 .. L : sum[k] = sum[k - 1] + t[k - 1]
    BY <1>0, <1>6
  <1>9. DOMAIN sum = 0 .. L /\ sum = [i \in 0 .. L |-> sum[i]]
    BY <1>6
  <1> DEFINE P == {k \in Nat : k <= L => sum[k] \in Int}
  <1>10. 0 \in P
    BY <1>8
  <1>11. ASSUME NEW k \in Nat, k \in P PROVE k + 1 \in P
    <2> SUFFICES ASSUME k + 1 <= L PROVE sum[k + 1] \in Int
      OBVIOUS
    <2>1. k + 1 \in 1 .. L /\ (k + 1) - 1 = k /\ k <= L
      BY <1>0
    <2>2. sum[k + 1] = sum[k] + t[k] /\ t[k] \in Int
      BY <1>0, <1>8, <2>1
    <2>3. sum[k] \in Int
      BY <1>11, <2>1
    <2> QED
      BY <2>2, <2>3
  <1>12. Nat \subseteq P
    <2> HIDE DEF P
    <2> QED
      BY <1>10, <1>11, SetInduction
  <1>13. \A i \in 0 .. L : sum[i] \in Int
    BY <1>0, <1>12
  <1>14. sum \in [0 .. L -> Int]
    BY <1>9, <1>13
  <1> QED
    BY <1>7, <1>8, <1>14 DEF Sums

LEMMA TotalType ==
  ASSUME NEW t \in Rings
  PROVE  total(t) \in Int
  <1>1. PICK s : Sums(s, t)
    BY SumsExist
  <1>2. RUN_AVG_LENGTH \in 0 .. RUN_AVG_LENGTH
    BY LengthFacts
  <1> QED
    BY <1>1, <1>2 DEF Sums

\* One temperature is replaced.
LEMMA SumUpdate ==
  ASSUME NEW t \in Rings, NEW p \in 0 .. RUN_AVG_LENGTH - 1, NEW v \in Int
  PROVE  total([t EXCEPT ![p] = v]) = total(t) - t[p] + v
  <1> DEFINE L == RUN_AVG_LENGTH
             u == [t EXCEPT ![p] = v]
  <1>0. L \in Nat /\ L >= 1 /\ t[p] \in Int
    BY LengthFacts DEF Rings
  <1>1. u \in Rings /\ \A k \in 0 .. L - 1 : u[k] = IF k = p THEN v ELSE t[k]
    BY DEF Rings
  <1> HIDE DEF u
  <1>2. PICK a : Sums(a, t)
    BY SumsExist
  <1>3. PICK b : Sums(b, u)
    BY <1>1, SumsExist
  <1>4. /\ \A k \in 0 .. L : a[k] \in Int /\ b[k] \in Int
        /\ \A k \in 0 .. L - 1 : t[k] \in Int
        /\ a[0] = 0 /\ b[0] = 0
    BY <1>2, <1>3 DEF Sums, Rings
  <1>5. \A k \in 1 .. L : a[k] = a[k - 1] + t[k - 1] /\ b[k] = b[k - 1] + u[k - 1]
    BY <1>2, <1>3 DEF Sums
  <1> DEFINE P == {k \in Nat : k <= L => b[k] = IF k <= p THEN a[k] ELSE a[k] - t[p] + v}
  <1>6. 0 \in P
    BY <1>4
  <1>7. ASSUME NEW k \in Nat, k \in P PROVE k + 1 \in P
    <2> SUFFICES ASSUME k + 1 <= L
                 PROVE  b[k + 1] = IF k + 1 <= p THEN a[k + 1] ELSE a[k + 1] - t[p] + v
      OBVIOUS
    <2>1. k + 1 \in 1 .. L /\ (k + 1) - 1 = k /\ k <= L /\ k \in 0 .. L - 1 /\ k \in 0 .. L
      BY <1>0
    <2>2. a[k + 1] = a[k] + t[k] /\ b[k + 1] = b[k] + u[k]
      BY <1>5, <2>1
    <2>3. a[k] \in Int /\ b[k] \in Int /\ t[k] \in Int /\ u[k] = IF k = p THEN v ELSE t[k]
      BY <1>1, <1>4, <2>1
    <2>4. b[k] = IF k <= p THEN a[k] ELSE a[k] - t[p] + v
      BY <1>7, <2>1
    <2> QED
      BY <1>0, <2>2, <2>3, <2>4
  <1>8. Nat \subseteq P
    <2> HIDE DEF P
    <2> QED
      BY <1>6, <1>7, SetInduction
  <1>9. b[L] = a[L] - t[p] + v
    BY <1>0, <1>8
  <1> QED
    BY <1>2, <1>3, <1>9 DEF Sums, u

\* The window moves on by one.
LEMMA SumShift ==
  ASSUME NEW t \in Rings, NEW u \in Rings,
         \A k \in 0 .. RUN_AVG_LENGTH - 2 : u[k] = t[k + 1]
  PROVE  total(u) = total(t) - t[0] + u[RUN_AVG_LENGTH - 1]
  <1> DEFINE L == RUN_AVG_LENGTH
  <1>0. L \in Nat /\ L >= 1
    BY LengthFacts
  <1>2. PICK a : Sums(a, t)
    BY SumsExist
  <1>3. PICK b : Sums(b, u)
    BY SumsExist
  <1>4. /\ \A k \in 0 .. L : a[k] \in Int /\ b[k] \in Int
        /\ \A k \in 0 .. L - 1 : t[k] \in Int /\ u[k] \in Int
        /\ a[0] = 0 /\ b[0] = 0
    BY <1>2, <1>3 DEF Sums, Rings
  <1>5. \A k \in 1 .. L : a[k] = a[k - 1] + t[k - 1] /\ b[k] = b[k - 1] + u[k - 1]
    BY <1>2, <1>3 DEF Sums
  <1> DEFINE P == {k \in Nat : k + 1 <= L => b[k] = a[k + 1] - t[0]}
  <1>6. 0 \in P
    <2>1. 1 \in 1 .. L /\ 1 - 1 = 0 /\ 0 \in 0 .. L - 1
      BY <1>0
    <2>2. a[1] = a[0] + t[0] /\ t[0] \in Int
      BY <1>4, <1>5, <2>1
    <2> QED
      BY <1>4, <2>2
  <1>7. ASSUME NEW k \in Nat, k \in P PROVE k + 1 \in P
    <2> SUFFICES ASSUME (k + 1) + 1 <= L PROVE b[k + 1] = a[(k + 1) + 1] - t[0]
      OBVIOUS
    <2>1. /\ k + 1 \in 1 .. L /\ (k + 1) - 1 = k /\ k + 1 <= L /\ k \in 0 .. L - 2
          /\ (k + 1) + 1 \in 1 .. L /\ ((k + 1) + 1) - 1 = k + 1 /\ k + 1 \in 0 .. L
          /\ 0 \in 0 .. L - 1 /\ k \in 0 .. L - 1
      BY <1>0
    <2>2. a[(k + 1) + 1] = a[k + 1] + t[k + 1] /\ b[k + 1] = b[k] + u[k] /\ u[k] = t[k + 1]
      BY <1>5, <2>1
    <2>3. a[k + 1] \in Int /\ u[k] \in Int /\ t[0] \in Int
      BY <1>4, <2>1
    <2>4. b[k] = a[k + 1] - t[0]
      BY <1>7, <2>1
    <2> QED
      BY <2>2, <2>3, <2>4
  <1>8. Nat \subseteq P
    <2> HIDE DEF P
    <2> QED
      BY <1>6, <1>7, SetInduction
  <1>9. L - 1 \in Nat /\ (L - 1) + 1 = L /\ L \in 1 .. L /\ L \in 0 .. L
        /\ 0 \in 0 .. L - 1 /\ L - 1 \in 0 .. L - 1
    BY <1>0
  <1>10. b[L - 1] = a[L] - t[0] /\ b[L] = b[L - 1] + u[L - 1]
    BY <1>5, <1>8, <1>9
  <1>11. a[L] \in Int /\ t[0] \in Int /\ u[L - 1] \in Int
    BY <1>4, <1>9
  <1>12. b[L] = a[L] - t[0] + u[L - 1]
    BY <1>10, <1>11
  <1> QED
    BY <1>2, <1>3, <1>12 DEF Sums
-----------------------------------------------------------------------------
(* A reading in the ring of a sensor.                                      *)

\* The last readings of h are in the ring t, each at its position.
Ring(t, h) ==
  \A i \in 1 .. Len(h) :
    Len(h) - i < RUN_AVG_LENGTH => t[array_position(i - 1)] = h[i].value

Window(h) ==
  [i \in 0 .. RUN_AVG_LENGTH - 1 |-> h[Len(h) - RUN_AVG_LENGTH + 1 + i].value]

Stored(t, h, v) == [t EXCEPT ![array_position(Len(h))] = v]

LEMMA WindowFacts ==
  ASSUME NEW h \in Seq(Reading), Len(h) >= RUN_AVG_LENGTH
  PROVE  Window(h) \in Rings /\ WindowSum(h) = total(Window(h))
  <1>1. Len(h) \in Nat /\ RUN_AVG_LENGTH \in Nat /\ RUN_AVG_LENGTH >= 1
    BY LengthFacts
  <1>2. ASSUME NEW i \in 0 .. RUN_AVG_LENGTH - 1
        PROVE  h[Len(h) - RUN_AVG_LENGTH + 1 + i].value \in Int
    <2>1. Len(h) - RUN_AVG_LENGTH + 1 + i \in 1 .. Len(h)
      BY <1>1
    <2>2. h[Len(h) - RUN_AVG_LENGTH + 1 + i] \in Reading
      BY <2>1
    <2> QED
      BY <2>2, TempAssumption DEF Reading
  <1>3. Window(h) \in Rings
    BY <1>2 DEF Window, Rings
  <1>4. WindowSum(h) = total(Window(h))
    BY Zenon DEF WindowSum, Window
  <1> QED
    BY <1>3, <1>4

\* The new reading takes the position of the oldest one.
LEMMA RingUpdate ==
  ASSUME NEW h \in Seq(Reading), NEW t \in Rings, NEW d \in Reading, Ring(t, h)
  PROVE  Ring(Stored(t, h, d.value), Append(h, d))
  <1> DEFINE L == RUN_AVG_LENGTH
             n == Len(h)
             p == array_position(n)
             u == Stored(t, h, d.value)
             g == Append(h, d)
  <1>0. L \in Nat /\ L >= 1 /\ n \in Nat /\ p \in 0 .. L - 1
    BY LengthFacts, PositionFacts
  <1>1. u[p] = d.value /\ \A k \in 0 .. L - 1 : k # p => u[k] = t[k]
    BY <1>0 DEF Stored, Rings
  <1>2. Len(g) = n + 1 /\ g[n + 1] = d /\ \A i \in 1 .. n : g[i] = h[i]
    OBVIOUS
  <1> HIDE DEF u, g
  <1>3. ASSUME NEW i \in 1 .. n + 1, (n + 1) - i < L
        PROVE  u[array_position(i - 1)] = g[i].value
    <2>1. CASE i = n + 1
      <3>1. i - 1 = n
        BY <1>0, <2>1
      <3> QED
        BY <1>1, <1>2, <2>1, <3>1
    <2>2. CASE i # n + 1
      <3>1. /\ i \in 1 .. n /\ n - i < L
            /\ i - 1 \in Nat /\ i - 1 < n /\ n < (i - 1) + L
        BY <1>0, <1>3, <2>2
      <3>2. array_position(i - 1) # p
        BY <1>0, <3>1, PositionsDiffer
      <3>3. array_position(i - 1) \in 0 .. L - 1
        BY <3>1, PositionFacts
      <3>4. t[array_position(i - 1)] = h[i].value
        BY <3>1 DEF Ring
      <3> QED
        BY <1>1, <1>2, <3>1, <3>2, <3>3, <3>4
    <2> QED
      BY <2>1, <2>2
  <1>4. Ring(u, g)
    BY <1>2, <1>3 DEF Ring
  <1> QED
    BY <1>4 DEF u, g

\* A full ring has the sum of the window.
LEMMA RingSum ==
  ASSUME NEW h \in Seq(Reading), NEW t \in Rings, NEW d \in Reading, Ring(t, h),
         Len(h) >= RUN_AVG_LENGTH => total(t) = WindowSum(h),
         Len(h) + 1 >= RUN_AVG_LENGTH
  PROVE  total(Stored(t, h, d.value)) = WindowSum(Append(h, d))
  <1> DEFINE L == RUN_AVG_LENGTH
             n == Len(h)
             p == array_position(n)
             u == Stored(t, h, d.value)
             g == Append(h, d)
  <1>0. L \in Nat /\ L >= 1 /\ n \in Nat /\ p \in 0 .. L - 1 /\ d.value \in Int
    <2>1. d.value \in Int
      BY TempAssumption DEF Reading
    <2> QED
      BY <2>1, LengthFacts, PositionFacts
  <1>1. u \in Rings
    BY <1>0 DEF Stored, Rings
  <1>2. /\ g \in Seq(Reading) /\ Len(g) = n + 1 /\ g[n + 1] = d
        /\ \A i \in 1 .. n : g[i] = h[i]
    OBVIOUS
  <1>3. Ring(u, g)
    BY RingUpdate
  <1>4. Window(g) \in Rings /\ WindowSum(g) = total(Window(g))
    BY <1>2, WindowFacts
  <1>5. CASE n + 1 = L
    <2>1. ASSUME NEW i \in 0 .. L - 1 PROVE u[i] = Window(g)[i]
      <3>1. /\ i + 1 \in 1 .. Len(g) /\ Len(g) - (i + 1) < L /\ (i + 1) - 1 = i
            /\ i \in Nat /\ i < L /\ Len(g) - L + 1 + i = i + 1
        BY <1>0, <1>2, <1>5
      <3>2. array_position(i) = i
        BY <3>1, PositionFacts
      <3>3. u[array_position((i + 1) - 1)] = g[i + 1].value
        BY <1>3, <3>1 DEF Ring
      <3>4. Window(g)[i] = g[i + 1].value
        BY <3>1 DEF Window
      <3> QED
        BY <3>1, <3>2, <3>3, <3>4
    <2>2. u = Window(g)
      <3> HIDE DEF u, g
      <3> QED
        BY <1>1, <1>4, <2>1, RingsEqual
    <2> QED
      BY <1>4, <2>2
  <1>6. CASE n + 1 # L
    <2>1. n >= L
      BY <1>0, <1>6
    <2>2. Window(h) \in Rings /\ total(t) = total(Window(h))
      BY <2>1, WindowFacts
    <2>3. total(u) = total(t) - t[p] + d.value
      BY <1>0, SumUpdate DEF Stored
    <2>4. t[p] = Window(h)[0]
      <3>1. /\ n - L \in Nat /\ (n - L + 1) - 1 = n - L /\ n - L + 1 \in 1 .. n
            /\ n - (n - L + 1) < L /\ 0 \in 0 .. L - 1 /\ n - L + 1 + 0 = n - L + 1
        BY <1>0, <2>1
      <3>2. p = array_position(n - L)
        BY <1>0, <2>1, PositionFacts
      <3>3. t[array_position((n - L + 1) - 1)] = h[n - L + 1].value
        BY <3>1 DEF Ring
      <3>4. Window(h)[0] = h[n - L + 1].value
        BY <3>1 DEF Window
      <3> QED
        BY <3>1, <3>2, <3>3, <3>4
    <2>5. Window(g)[L - 1] = d.value
      <3>1. L - 1 \in 0 .. L - 1 /\ Len(g) - L + 1 + (L - 1) = n + 1
        BY <1>0, <1>2
      <3> QED
        BY <1>2, <3>1 DEF Window
    <2>6. ASSUME NEW k \in 0 .. L - 2 PROVE Window(g)[k] = Window(h)[k + 1]
      <3>1. /\ k \in 0 .. L - 1 /\ k + 1 \in 0 .. L - 1
            /\ Len(g) - L + 1 + k = n - L + 1 + (k + 1)
            /\ n - L + 1 + (k + 1) \in 1 .. n
        BY <1>0, <1>2, <2>1
      <3>2. Window(g)[k] = g[n - L + 1 + (k + 1)].value
        BY <3>1 DEF Window
      <3>3. Window(h)[k + 1] = h[n - L + 1 + (k + 1)].value
        BY <3>1 DEF Window
      <3> QED
        BY <1>2, <3>1, <3>2, <3>3
    <2>7. total(Window(g)) = total(Window(h)) - Window(h)[0] + Window(g)[L - 1]
      <3> HIDE DEF g
      <3> QED
        BY <1>4, <2>2, <2>6, SumShift
    <2> QED
      BY <1>4, <2>2, <2>3, <2>4, <2>5, <2>7
  <1> QED
    BY <1>5, <1>6
-----------------------------------------------------------------------------
(* The inductive invariant.                                                *)

\* What a node holds of the readings h of its sensor.
Holds(node, h) ==
  /\ node.nr_of_meass = Len(h)
  /\ Ring(node.temperatures, h)
  /\ Len(h) >= RUN_AVG_LENGTH => total(node.temperatures) = WindowSum(h)
  /\ node.running_avg = IF Len(h) < RUN_AVG_LENGTH THEN 0 ELSE WindowSum(h)

\* The first node of the list with its id: the one that readings reach.
First(list, n) == \A m \in 1 .. n - 1 : list[m].sensor_id # list[n].sensor_id

RingsHold ==
  \A n \in 1 .. Len(sensor_list), id \in Ids :
    First(sensor_list, n) /\ sensor_list[n].sensor_id = id
      => Holds(sensor_list[n], Handled(id))

IInv ==
  /\ TypeOK
  /\ phase = "map" => \A id \in Ids : seen[id] = <<>>
  /\ \A id \in Ids : Len(seen[id]) <= count
  /\ RingsHold

\* get_sensor_node_with_id finds the first node with this id.
Found(list, id, n) ==
  /\ n = 0 => \A m \in 1 .. Len(list) : list[m].sensor_id # id
  /\ n # 0 => n \in 1 .. Len(list) /\ list[n].sensor_id = id /\ First(list, n)

LEMMA LookupFacts ==
  ASSUME TypeOK, NEW id
  PROVE  Found(sensor_list, id, get_sensor_node_with_id(id))
  <1> DEFINE I == {m \in 1 .. Len(sensor_list) : sensor_list[m].sensor_id = id}
             n == get_sensor_node_with_id(id)
  <1>1. n = IF I = {} THEN 0 ELSE Min(I)
    BY Zenon DEF get_sensor_node_with_id, SelectInSeq
  <1>2. I \subseteq Nat
    OBVIOUS
  <1> HIDE DEF n
  <1>3. CASE I = {}
    <2>1. n = 0
      BY <1>1, <1>3
    <2> QED
      BY <1>3, <2>1 DEF Found, n
  <1>4. CASE I # {}
    <2>1. n = Min(I)
      BY <1>1, <1>4
    <2>2. n \in I /\ \A m \in I : n <= m
      <3> HIDE DEF I
      <3> QED
        BY <1>2, <1>4, <2>1, MinFacts
    <2>3. n \in 1 .. Len(sensor_list) /\ sensor_list[n].sensor_id = id
      BY <2>2
    <2>4. Len(sensor_list) \in Nat
      BY DEF TypeOK
    <2>5. First(sensor_list, n)
      <3> SUFFICES ASSUME NEW m \in 1 .. n - 1, sensor_list[m].sensor_id = id PROVE FALSE
        BY <2>3 DEF First
      <3>1. m \in 1 .. Len(sensor_list) /\ m < n
        BY <2>3, <2>4
      <3> QED
        BY <2>2, <2>3, <3>1
    <2>6. n # 0
      BY <2>3
    <2> QED
      BY <2>3, <2>5, <2>6 DEF n, Found
  <1> QED
    BY <1>3, <1>4

LEMMA KnownFacts ==
  ASSUME TypeOK, NEW id
  PROVE  id \in Known <=> get_sensor_node_with_id(id) # 0
  <1>1. DOMAIN sensor_list = 1 .. Len(sensor_list)
    BY DEF TypeOK
  <1>2. id \in Known <=> \E m \in 1 .. Len(sensor_list) : sensor_list[m].sensor_id = id
    BY <1>1, Zenon DEF Known
  <1> QED
    BY <1>2, LookupFacts DEF Found

\* The average follows from what the nodes hold.
LEMMA HoldsAverage ==
  ASSUME IInv
  PROVE  RunningAverage
  <1> SUFFICES ASSUME NEW id \in Known \cap Ids
               PROVE  LET node == sensor_list[get_sensor_node_with_id(id)]
                          h == Handled(id)
                      IN  /\ node.nr_of_meass = Len(h)
                          /\ node.running_avg = IF Len(h) < RUN_AVG_LENGTH THEN 0
                                                ELSE WindowSum(h)
    BY Zenon DEF RunningAverage
  <1> DEFINE n == get_sensor_node_with_id(id)
  <1>1. n # 0
    BY KnownFacts DEF IInv
  <1>2. n \in 1 .. Len(sensor_list) /\ sensor_list[n].sensor_id = id /\ First(sensor_list, n)
    BY <1>1, LookupFacts DEF IInv, Found
  <1>3. Holds(sensor_list[n], Handled(id))
    <2> HIDE DEF n
    <2> QED
      BY <1>2 DEF IInv, RingsHold
  <1> QED
    BY <1>3, Zenon DEF Holds
-----------------------------------------------------------------------------
(* One reading.                                                            *)

\* A node with these entries.
Entries(id, room, avg, time, nr, ring) ==
  [sensor_id |-> id, room_id |-> room, running_avg |-> avg, timestamp |-> time,
   nr_of_meass |-> nr, temperatures |-> ring]

\* The node after the reading.
Updated(old, d) ==
  LET ring == [old.temperatures EXCEPT ![array_position(old.nr_of_meass)] = d.value]
  IN  Entries(old.sensor_id, old.room_id,
              IF old.nr_of_meass + 1 >= RUN_AVG_LENGTH THEN total(ring) ELSE 0,
              IF source = "buffer" THEN d.id ELSE d.ts, old.nr_of_meass + 1, ring)

Reported(old, d) ==
  LET ring == [old.temperatures EXCEPT ![array_position(old.nr_of_meass)] = d.value]
  IN  IF old.nr_of_meass + 1 >= RUN_AVG_LENGTH THEN alarms(old.sensor_id, total(ring))
      ELSE <<>>

LEMMA SetAverage ==
  ASSUME NEW id, NEW room, NEW avg, NEW time, NEW nr, NEW ring, NEW x
  PROVE  [Entries(id, room, avg, time, nr, ring) EXCEPT !.running_avg = x] =
           Entries(id, room, x, time, nr, ring)
  BY DEF Entries

LEMMA SetTime ==
  ASSUME NEW id, NEW room, NEW avg, NEW time, NEW nr, NEW ring, NEW x
  PROVE  [Entries(id, room, avg, time, nr, ring) EXCEPT !.timestamp = x] =
           Entries(id, room, avg, x, nr, ring)
  BY DEF Entries

LEMMA SetNumber ==
  ASSUME NEW id, NEW room, NEW avg, NEW time, NEW nr, NEW ring, NEW x
  PROVE  [Entries(id, room, avg, time, nr, ring) EXCEPT !.nr_of_meass = x] =
           Entries(id, room, avg, time, x, ring)
  BY DEF Entries

LEMMA SetRing ==
  ASSUME NEW id, NEW room, NEW avg, NEW time, NEW nr, NEW ring, NEW x
  PROVE  [Entries(id, room, avg, time, nr, ring) EXCEPT !.temperatures = x] =
           Entries(id, room, avg, time, nr, x)
  BY DEF Entries

LEMMA EntriesOf ==
  ASSUME NEW old \in sensor_node, NEW time, NEW ring, NEW nr
  PROVE  [old EXCEPT !.timestamp = time, !.temperatures = ring, !.nr_of_meass = nr] =
           Entries(old.sensor_id, old.room_id, old.running_avg, time, nr, ring)
  <1> DEFINE r == Entries(old.sensor_id, old.room_id, old.running_avg, old.timestamp,
                          old.nr_of_meass, old.temperatures)
             r1 == Entries(old.sensor_id, old.room_id, old.running_avg, time,
                           old.nr_of_meass, old.temperatures)
             r2 == Entries(old.sensor_id, old.room_id, old.running_avg, time,
                           old.nr_of_meass, ring)
             r3 == Entries(old.sensor_id, old.room_id, old.running_avg, time, nr, ring)
  <1>1. old = r
    BY DEF sensor_node, Entries
  <1>2. [r EXCEPT !.timestamp = time] = r1
    BY SetTime
  <1>3. [r1 EXCEPT !.temperatures = ring] = r2
    BY SetRing
  <1>4. [r2 EXCEPT !.nr_of_meass = nr] = r3
    BY SetNumber
  <1> HIDE DEF r, r1, r2, r3
  <1>5. [r EXCEPT !.timestamp = time, !.temperatures = ring, !.nr_of_meass = nr] =
          [[[r EXCEPT !.timestamp = time] EXCEPT !.temperatures = ring]
             EXCEPT !.nr_of_meass = nr]
    OBVIOUS
  <1>6. [r EXCEPT !.timestamp = time, !.temperatures = ring, !.nr_of_meass = nr] = r3
    BY <1>2, <1>3, <1>4, <1>5, Zenon
  <1>7. [old EXCEPT !.timestamp = time, !.temperatures = ring, !.nr_of_meass = nr] = r3
    BY <1>1, <1>6, Zenon
  <1> QED
    BY <1>7, Zenon DEF r3

LEMMA UpdateIs ==
  ASSUME TypeOK, NEW n \in 1 .. Len(sensor_list), NEW d, update(n, d)
  PROVE  /\ sensor_list' = [sensor_list EXCEPT ![n] = Updated(sensor_list[n], d)]
         /\ events' = events \o Reported(sensor_list[n], d)
  <1> DEFINE old  == sensor_list[n]
             time == IF source = "buffer" THEN d.id ELSE d.ts
             ring == [old.temperatures EXCEPT ![array_position(old.nr_of_meass)] = d.value]
             node == [old EXCEPT !.timestamp = time, !.temperatures = ring,
                                 !.nr_of_meass = @ + 1]
             result == datamgr_get_avg(node)
             new == [node EXCEPT !.running_avg = result.avg]
  <1>1. old \in sensor_node
    BY DEF TypeOK
  <1>2. sensor_list' = [sensor_list EXCEPT ![n] = new] /\ events' = events \o result.log
    BY Zenon DEF update
  <1> HIDE DEF old, time, ring, result
  <1>3. /\ node.sensor_id = old.sensor_id /\ node.nr_of_meass = old.nr_of_meass + 1
        /\ node.temperatures = ring
        /\ new = Entries(old.sensor_id, old.room_id, result.avg, time,
                         old.nr_of_meass + 1, ring)
    <2>1. node = Entries(old.sensor_id, old.room_id, old.running_avg, time,
                         old.nr_of_meass + 1, ring)
      BY <1>1, EntriesOf, Zenon
    <2> HIDE DEF node
    <2>2. /\ node.sensor_id = old.sensor_id /\ node.nr_of_meass = old.nr_of_meass + 1
          /\ node.temperatures = ring
      BY <2>1 DEF Entries
    <2>3. new = Entries(old.sensor_id, old.room_id, result.avg, time,
                        old.nr_of_meass + 1, ring)
      BY <2>1, SetAverage
    <2> QED
      BY <2>2, <2>3, Zenon
  <1>4. result = IF old.nr_of_meass + 1 >= RUN_AVG_LENGTH
                 THEN [avg |-> total(ring), log |-> alarms(old.sensor_id, total(ring))]
                 ELSE [avg |-> 0, log |-> <<>>]
    <2> HIDE DEF node
    <2> QED
      BY <1>3, Zenon DEF datamgr_get_avg, result
  <1>5. /\ result.avg = IF old.nr_of_meass + 1 >= RUN_AVG_LENGTH THEN total(ring) ELSE 0
        /\ result.log = IF old.nr_of_meass + 1 >= RUN_AVG_LENGTH
                        THEN alarms(old.sensor_id, total(ring)) ELSE <<>>
    BY <1>4
  <1> HIDE DEF new
  <1>6. new = Updated(old, d)
    BY <1>3, <1>5, Zenon DEF Updated, ring, time
  <1>7. result.log = Reported(old, d)
    BY <1>5, Zenon DEF Reported, ring
  <1> QED
    BY <1>2, <1>6, <1>7, Zenon DEF old

LEMMA UpdatedHolds ==
  ASSUME NEW old \in sensor_node, NEW h \in Seq(Reading), NEW d \in Reading, Holds(old, h)
  PROVE  /\ Holds(Updated(old, d), Append(h, d))
         /\ Len(h) + 1 >= RUN_AVG_LENGTH =>
              Reported(old, d) = alarms(old.sensor_id, WindowSum(Append(h, d)))
         /\ ~ (Len(h) + 1 >= RUN_AVG_LENGTH) => Reported(old, d) = <<>>
  <1> DEFINE t == old.temperatures
             ring == [t EXCEPT ![array_position(old.nr_of_meass)] = d.value]
             g == Append(h, d)
  <1>0. Len(h) \in Nat /\ RUN_AVG_LENGTH \in Nat /\ RUN_AVG_LENGTH >= 1
    BY LengthFacts
  <1>1. old.nr_of_meass = Len(h) /\ Ring(t, h)
        /\ (Len(h) >= RUN_AVG_LENGTH => total(t) = WindowSum(h))
    BY DEF Holds
  <1>2. t \in Rings
    <2>1. t \in [0 .. RUN_AVG_LENGTH - 1 -> Values \cup {Garbage}]
      BY DEF sensor_node
    <2> QED
      BY <2>1, TempAssumption DEF Rings
  <1>3. ring = Stored(t, h, d.value)
    BY <1>1 DEF Stored
  <1> HIDE DEF t, ring
  <1>4. Ring(ring, g)
    BY <1>1, <1>2, <1>3, RingUpdate
  <1>5. Len(h) + 1 >= RUN_AVG_LENGTH => total(ring) = WindowSum(g)
    BY <1>1, <1>2, <1>3, RingSum
  <1>6. Len(g) = Len(h) + 1
    OBVIOUS
  <1> HIDE DEF g
  <1>7. /\ Updated(old, d).nr_of_meass = Len(g)
        /\ Updated(old, d).temperatures = ring
        /\ Updated(old, d).running_avg = IF Len(h) + 1 >= RUN_AVG_LENGTH THEN total(ring) ELSE 0
    BY <1>1, <1>6 DEF Updated, Entries, ring, t
  <1>8. Holds(Updated(old, d), g)
    <2>1. Len(h) + 1 < RUN_AVG_LENGTH <=> ~ (Len(h) + 1 >= RUN_AVG_LENGTH)
      BY <1>0
    <2> QED
      BY <1>4, <1>5, <1>6, <1>7, <2>1 DEF Holds
  <1>9. Reported(old, d) = IF Len(h) + 1 >= RUN_AVG_LENGTH
                           THEN alarms(old.sensor_id, total(ring)) ELSE <<>>
    BY <1>1, Zenon DEF Reported, ring, t
  <1> QED
    BY <1>5, <1>8, <1>9 DEF g

LEMMA IdsAreNumbers ==
  ASSUME NEW id \in Ids
  PROVE  id \in 0 .. NO_ID /\ id \in Int
  <1>1. id \in 0 .. NO_ID
    BY IdAssumption, Zenon
  <1> QED
    BY <1>1 DEF NO_ID

LEMMA UpdatedType ==
  ASSUME TypeOK, NEW old \in sensor_node, NEW d \in Reading, old.nr_of_meass < MaxReadings
  PROVE  Updated(old, d) \in sensor_node
  <1> DEFINE ring == [old.temperatures EXCEPT ![array_position(old.nr_of_meass)] = d.value]
             V == Values \cup {Garbage}
  <1>1. /\ old.temperatures \in [0 .. RUN_AVG_LENGTH - 1 -> V]
        /\ old.nr_of_meass \in 0 .. MaxReadings
        /\ old.sensor_id \in 0 .. NO_ID /\ old.room_id \in 0 .. NO_ID
    BY DEF sensor_node
  <1>2. d.value \in V /\ d.value \in Int /\ d.id \in Int /\ d.ts \in Int
    <2>1. d.id \in Ids /\ d.value \in Values /\ d.ts \in Times
      BY DEF Reading
    <2>2. d.value \in Int /\ d.ts \in Int
      BY <2>1, TempAssumption, TimeAssumption
    <2> QED
      BY <2>1, <2>2, IdsAreNumbers
  <1>3. ring \in [0 .. RUN_AVG_LENGTH - 1 -> V]
    BY <1>1, <1>2
  <1>4. ring \in Rings
    BY <1>3, TempAssumption DEF Rings
  <1>5. total(ring) \in Int
    BY <1>4, TotalType
  <1>6. old.nr_of_meass + 1 \in 0 .. MaxReadings
    BY <1>1, BoundAssumption
  <1> HIDE DEF ring, V
  <1>7. Updated(old, d) =
          [sensor_id |-> old.sensor_id, room_id |-> old.room_id,
           running_avg |-> IF old.nr_of_meass + 1 >= RUN_AVG_LENGTH THEN total(ring) ELSE 0,
           timestamp |-> IF source = "buffer" THEN d.id ELSE d.ts,
           nr_of_meass |-> old.nr_of_meass + 1, temperatures |-> ring]
    BY Zenon DEF Updated, Entries, ring
  <1>8. sensor_node = [sensor_id : 0 .. NO_ID, room_id : 0 .. NO_ID, running_avg : Int,
                       timestamp : Int, nr_of_meass : 0 .. MaxReadings,
                       temperatures : [0 .. RUN_AVG_LENGTH - 1 -> V]]
    BY Zenon DEF sensor_node, V
  <1> QED
    BY <1>1, <1>2, <1>3, <1>5, <1>6, <1>7, <1>8
-----------------------------------------------------------------------------
(* The invariant is kept.                                                  *)

LEMMA HandledAfter ==
  ASSUME TypeOK, NEW d \in Reading, source' = source,
         seen' = [seen EXCEPT ![d.id] = Append(@, d)],
         NEW id \in Ids
  PROVE  Handled(id)' = IF id = d.id /\ ~ Ignored(id) THEN Append(Handled(id), d)
                        ELSE Handled(id)
  <1>1. Ignored(id)' = Ignored(id)
    BY DEF Ignored
  <1>2. seen'[id] = IF id = d.id THEN Append(seen[id], d) ELSE seen[id]
    BY DEF TypeOK
  <1>3. Handled(id) = IF Ignored(id) THEN <<>> ELSE seen[id]
    BY Zenon DEF Handled
  <1>4. Handled(id)' = IF Ignored(id)' THEN <<>> ELSE seen'[id]
    BY Zenon DEF Handled
  <1> QED
    BY <1>1, <1>2, <1>3, <1>4

LEMMA SeenAfter ==
  ASSUME TypeOK, NEW d \in Reading, \A id \in Ids : Len(seen[id]) <= count,
         count < MaxReadings, count' = count + 1,
         seen' = [seen EXCEPT ![d.id] = Append(@, d)]
  PROVE  /\ seen' \in [Ids -> Seq(Reading)] /\ count' \in 0 .. MaxReadings
         /\ \A id \in Ids : Len(seen'[id]) <= count'
         /\ seen'[d.id] = Append(seen[d.id], d) /\ seen'[d.id] # seen[d.id]
         /\ d.id \in Ids
  <1>1. d.id \in Ids
    BY DEF Reading
  <1>2. seen \in [Ids -> Seq(Reading)] /\ count \in 0 .. MaxReadings /\ count \in Nat
    BY BoundAssumption DEF TypeOK
  <1>3. count' \in 0 .. MaxReadings
    BY <1>2, BoundAssumption
  <1>4. seen[d.id] \in Seq(Reading)
    BY <1>1, <1>2
  <1>5. /\ Append(seen[d.id], d) \in Seq(Reading)
        /\ Len(Append(seen[d.id], d)) = Len(seen[d.id]) + 1
    BY <1>4
  <1>6. seen' \in [Ids -> Seq(Reading)] /\ seen'[d.id] = Append(seen[d.id], d)
    BY <1>1, <1>2, <1>5
  <1>7. seen'[d.id] # seen[d.id]
    <2>1. Len(seen[d.id]) \in Nat
      BY <1>4
    <2>2. Len(seen[d.id]) # Len(Append(seen[d.id], d))
      BY <1>5, <2>1
    <2> QED
      BY <1>6, <2>2, Zenon
  <1>8. ASSUME NEW id \in Ids PROVE Len(seen'[id]) <= count'
    <2>1. Len(seen[id]) \in Nat /\ Len(seen[id]) <= count
      BY <1>2
    <2>2. CASE id = d.id
      BY <1>2, <1>5, <1>6, <2>1, <2>2
    <2>3. CASE id # d.id
      <3>1. seen'[id] = seen[id]
        BY <1>2, <2>3
      <3> QED
        BY <1>2, <2>1, <3>1
    <2> QED
      BY <2>2, <2>3
  <1> QED
    BY <1>1, <1>3, <1>6, <1>7, <1>8

LEMMA AlarmsType ==
  ASSUME NEW id \in Ids, NEW sum
  PROVE  alarms(id, sum) \in Seq([kind : {"cold", "hot", "invalid"}, id : Ids])
  <1> DEFINE E == [kind : {"cold", "hot", "invalid"}, id : Ids]
             a == IF sum < SET_MIN_TEMP * RUN_AVG_LENGTH
                  THEN <<[kind |-> "cold", id |-> id]>> ELSE <<>>
             b == IF sum > SET_MAX_TEMP * RUN_AVG_LENGTH
                  THEN <<[kind |-> "hot", id |-> id]>> ELSE <<>>
  <1>1. [kind |-> "cold", id |-> id] \in E /\ [kind |-> "hot", id |-> id] \in E
    OBVIOUS
  <1> HIDE DEF E
  <1>2. a \in Seq(E)
    BY <1>1
  <1>3. b \in Seq(E)
    BY <1>1
  <1>4. alarms(id, sum) = a \o b
    BY Zenon DEF alarms
  <1> HIDE DEF a, b
  <1>5. alarms(id, sum) \in Seq(E)
    BY <1>2, <1>3, <1>4
  <1> QED
    BY <1>5 DEF E

\* A reading that reaches node n.
LEMMA UpdateKeeps ==
  ASSUME IInv, NEW d \in Reading, NEW n \in 1 .. Len(sensor_list),
         sensor_list[n].sensor_id = d.id, First(sensor_list, n),
         ~ Ignored(d.id), update(n, d),
         count < MaxReadings, count' = count + 1, source' = source,
         seen' = [seen EXCEPT ![d.id] = Append(@, d)]
  PROVE  /\ sensor_list' \in Seq(sensor_node) /\ RingsHold'
         /\ events' \in Seq([kind : {"cold", "hot", "invalid"}, id : Ids])
         /\ events' = events \o (IF Len(seen'[d.id]) < RUN_AVG_LENGTH THEN <<>>
                                 ELSE alarms(d.id, WindowSum(seen'[d.id])))
         /\ Len(sensor_list') = Len(sensor_list)
         /\ \A m \in 1 .. Len(sensor_list) :
              sensor_list'[m].sensor_id = sensor_list[m].sensor_id
  <1> DEFINE old == sensor_list[n]
             new == Updated(old, d)
             h == seen[d.id]
             g == Append(h, d)
  <1>0. TypeOK /\ Len(sensor_list) \in Nat
    BY DEF IInv, TypeOK
  <1>1. d.id \in Ids /\ seen'[d.id] = g /\ h \in Seq(Reading)
    <2>1. d.id \in Ids /\ seen'[d.id] = g
      BY <1>0, SeenAfter DEF IInv
    <2> QED
      BY <1>0, <2>1 DEF TypeOK
  <1>2. old \in sensor_node
    BY <1>0 DEF TypeOK
  <1>3. Handled(d.id) = h
    BY Zenon DEF Handled
  <1>4. Holds(old, h)
    BY <1>1, <1>3 DEF IInv, RingsHold
  <1>5. old.nr_of_meass = Len(h) /\ Len(h) <= count
    BY <1>1, <1>4 DEF Holds, IInv
  <1>6. /\ sensor_list' = [sensor_list EXCEPT ![n] = new]
        /\ events' = events \o Reported(old, d)
    BY <1>0, UpdateIs
  <1>7. new \in sensor_node
    <2>1. old.nr_of_meass < MaxReadings
      <3>1. Len(h) \in Nat /\ count \in Nat /\ MaxReadings \in Nat
        BY <1>0, <1>1, BoundAssumption DEF TypeOK
      <3> QED
        BY <1>5, <3>1
    <2> QED
      BY <1>0, <1>2, <2>1, UpdatedType
  <1>8. /\ Holds(new, g)
        /\ Reported(old, d) = IF Len(g) < RUN_AVG_LENGTH THEN <<>>
                              ELSE alarms(d.id, WindowSum(g))
    <2>1. /\ Holds(new, g)
          /\ Len(h) + 1 >= RUN_AVG_LENGTH =>
               Reported(old, d) = alarms(old.sensor_id, WindowSum(g))
          /\ ~ (Len(h) + 1 >= RUN_AVG_LENGTH) => Reported(old, d) = <<>>
      BY <1>1, <1>2, <1>4, UpdatedHolds
    <2>2. Len(g) = Len(h) + 1 /\ Len(h) \in Nat /\ RUN_AVG_LENGTH \in Nat
      BY <1>1, LengthFacts
    <2>3. Len(g) < RUN_AVG_LENGTH <=> ~ (Len(h) + 1 >= RUN_AVG_LENGTH)
      BY <2>2
    <2> HIDE DEF new, old, h, g
    <2> QED
      BY <2>1, <2>3 DEF old
  <1>9. new.sensor_id = old.sensor_id
    BY DEF Updated, Entries
  <1> HIDE DEF new
  <1>10. /\ sensor_list' \in Seq(sensor_node) /\ Len(sensor_list') = Len(sensor_list)
         /\ sensor_list'[n] = new
         /\ \A m \in 1 .. Len(sensor_list) : m # n => sensor_list'[m] = sensor_list[m]
    BY <1>0, <1>6, <1>7 DEF TypeOK
  <1>11. \A m \in 1 .. Len(sensor_list) :
           sensor_list'[m].sensor_id = sensor_list[m].sensor_id
    BY <1>9, <1>10
  <1>12. RingsHold'
    <2> SUFFICES ASSUME NEW m \in 1 .. Len(sensor_list'), NEW id \in Ids,
                        First(sensor_list', m), sensor_list'[m].sensor_id = id
                 PROVE  Holds(sensor_list'[m], Handled(id)')
      BY Zenon DEF RingsHold
    <2>1. m \in 1 .. Len(sensor_list) /\ sensor_list[m].sensor_id = id
      BY <1>10, <1>11
    <2>2. First(sensor_list, m)
      <3> SUFFICES ASSUME NEW k \in 1 .. m - 1
                   PROVE  sensor_list[k].sensor_id # sensor_list[m].sensor_id
        BY DEF First
      <3>1. k \in 1 .. Len(sensor_list)
        BY <1>0, <2>1
      <3>2. sensor_list'[k].sensor_id # sensor_list'[m].sensor_id
        BY DEF First
      <3> QED
        BY <1>11, <2>1, <3>1, <3>2
    <2>3. CASE m = n
      <3>1. Handled(d.id)' = g
        BY <1>0, <1>1, <1>3, HandledAfter
      <3> QED
        BY <1>8, <1>10, <1>11, <2>1, <2>3, <3>1
    <2>4. CASE m # n
      <3>1. id # d.id
        <4>1. CASE m < n
          <5>1. m \in 1 .. n - 1
            BY <1>0, <2>1, <4>1
          <5> QED
            BY <2>1, <5>1 DEF First
        <4>2. CASE n < m
          <5>1. n \in 1 .. m - 1
            BY <1>0, <2>1, <4>2
          <5> QED
            BY <2>1, <2>2, <5>1 DEF First
        <4> QED
          BY <1>0, <2>1, <2>4, <4>1, <4>2
      <3>2. Handled(id)' = Handled(id)
        BY <1>0, <2>1, <3>1, HandledAfter
      <3>3. Holds(sensor_list[m], Handled(id))
        BY <2>1, <2>2 DEF IInv, RingsHold
      <3>4. sensor_list'[m] = sensor_list[m]
        BY <1>10, <2>1, <2>4
      <3> QED
        BY <2>1, <3>2, <3>3, <3>4
    <2> QED
      BY <2>3, <2>4
  <1>13. events' \in Seq([kind : {"cold", "hot", "invalid"}, id : Ids])
    <2> DEFINE E == [kind : {"cold", "hot", "invalid"}, id : Ids]
    <2>1. events \in Seq(E)
      BY <1>0 DEF TypeOK
    <2>2. alarms(d.id, WindowSum(g)) \in Seq(E)
      BY <1>1, AlarmsType
    <2> HIDE DEF E
    <2>3. Reported(old, d) \in Seq(E)
      BY <1>8, <2>2
    <2>4. events' \in Seq(E)
      BY <1>6, <2>1, <2>3
    <2> QED
      BY <2>4 DEF E
  <1>14. events' = events \o (IF Len(seen'[d.id]) < RUN_AVG_LENGTH THEN <<>>
                              ELSE alarms(d.id, WindowSum(seen'[d.id])))
    <2> HIDE DEF g
    <2> QED
      BY <1>1, <1>6, <1>8
  <1> QED
    BY <1>10, <1>11, <1>12, <1>13, <1>14

\* A reading that no node gets: it is ignored, or its sensor is not listed.
LEMMA NoUpdateKeeps ==
  ASSUME IInv, NEW d \in Reading, source' = source, sensor_list' = sensor_list,
         Ignored(d.id) \/ get_sensor_node_with_id(d.id) = 0,
         seen' = [seen EXCEPT ![d.id] = Append(@, d)]
  PROVE  RingsHold'
  <1>0. TypeOK
    BY DEF IInv
  <1> SUFFICES ASSUME NEW n \in 1 .. Len(sensor_list), NEW id \in Ids,
                      First(sensor_list, n), sensor_list[n].sensor_id = id
               PROVE  Holds(sensor_list[n], Handled(id)')
    BY Zenon DEF RingsHold
  <1>1. id = d.id => Ignored(id)
    BY <1>0, LookupFacts DEF Found
  <1>2. Handled(id)' = Handled(id)
    BY <1>0, <1>1, HandledAfter
  <1> QED
    BY <1>2 DEF IInv, RingsHold

LEMMA InitIInv == Init => IInv
  <1> SUFFICES ASSUME Init PROVE IInv
    OBVIOUS
  <1> USE DEF Init
  <1>1. map \in Seq(Seq(0 .. NO_ID))
    BY IdAssumption
  <1>2. seen \in [Ids -> Seq(Reading)] /\ \A id \in Ids : seen[id] = <<>>
    OBVIOUS
  <1>3. NO_ID \in 0 .. NO_ID
    BY DEF NO_ID
  <1>4. TypeOK
    BY <1>1, <1>2, <1>3, BoundAssumption DEF TypeOK
  <1>5. \A id \in Ids : Len(seen[id]) <= count
    BY <1>2
  <1>6. RingsHold
    BY DEF RingsHold
  <1> QED
    BY <1>2, <1>4, <1>5, <1>6 DEF IInv

\* A line of the map adds a node that holds no reading.
LEMMA MapLineKeeps ==
  ASSUME IInv, map_line
  PROVE  IInv'
  <1> DEFINE new == new_node(id_room', id_sensor')
             N == Len(sensor_list)
  <1>0. TypeOK /\ N \in Nat
    BY DEF IInv, TypeOK
  <1>1. /\ phase = "map" /\ map # <<>> /\ sscanf(Head(map)) /\ map' = Tail(map)
        /\ sensor_list' = Append(sensor_list, new)
        /\ UNCHANGED <<source, phase, events, seen, count>>
    BY DEF map_line
  <1>2. Head(map) \in Seq(0 .. NO_ID) /\ map' \in Seq(Seq(0 .. NO_ID))
    BY <1>0, <1>1 DEF TypeOK
  <1>3. id_room' \in 0 .. NO_ID /\ id_sensor' \in 0 .. NO_ID
    <2> DEFINE line == Head(map)
    <2>1. /\ id_room' = IF Len(line) >= 1 THEN line[1] ELSE id_room
          /\ id_sensor' = IF Len(line) >= 2 THEN line[2] ELSE id_sensor
      BY <1>1 DEF sscanf
    <2>2. id_room \in 0 .. NO_ID /\ id_sensor \in 0 .. NO_ID
      BY <1>0 DEF TypeOK
    <2> HIDE DEF line
    <2>3. /\ Len(line) >= 1 => line[1] \in 0 .. NO_ID
          /\ Len(line) >= 2 => line[2] \in 0 .. NO_ID
      <3> DEFINE S == 0 .. NO_ID
      <3>1. line \in Seq(S)
        BY <1>2 DEF line
      <3> HIDE DEF S
      <3>2. /\ Len(line) >= 1 => line[1] \in S
            /\ Len(line) >= 2 => line[2] \in S
        BY <3>1
      <3> QED
        BY <3>2 DEF S
    <2> QED
      BY <2>1, <2>2, <2>3
  <1>4. new \in sensor_node
    <2>1. [i \in 0 .. RUN_AVG_LENGTH - 1 |-> Garbage] \in
            [0 .. RUN_AVG_LENGTH - 1 -> Values \cup {Garbage}]
      OBVIOUS
    <2>2. 0 \in 0 .. MaxReadings /\ START \in Int
      BY BoundAssumption, TimeAssumption
    <2> QED
      BY <1>3, <2>1, <2>2 DEF new_node, sensor_node
  <1>5. Holds(new, <<>>)
    <2>1. new.nr_of_meass = 0 /\ new.running_avg = 0
      BY DEF new_node
    <2> HIDE DEF new
    <2>2. Ring(new.temperatures, <<>>)
      BY DEF Ring
    <2>3. ~ (Len(<<>>) >= RUN_AVG_LENGTH) /\ Len(<<>>) < RUN_AVG_LENGTH /\ Len(<<>>) = 0
      BY LengthFacts
    <2> QED
      BY <2>1, <2>2, <2>3 DEF Holds
  <1> HIDE DEF new
  <1>6. /\ sensor_list' \in Seq(sensor_node) /\ Len(sensor_list') = N + 1
        /\ sensor_list'[N + 1] = new
        /\ \A n \in 1 .. N : sensor_list'[n] = sensor_list[n]
    BY <1>0, <1>1, <1>4 DEF TypeOK
  <1>7. TypeOK'
    BY <1>0, <1>1, <1>2, <1>3, <1>6 DEF TypeOK
  <1>8. \A id \in Ids : Handled(id)' = Handled(id) /\ Handled(id) = <<>>
    <2>1. \A id \in Ids : seen[id] = <<>>
      BY <1>1 DEF IInv
    <2> QED
      BY <1>1, <2>1 DEF Handled, Ignored
  <1>9. RingsHold'
    <2> SUFFICES ASSUME NEW n \in 1 .. Len(sensor_list'), NEW id \in Ids,
                        First(sensor_list', n), sensor_list'[n].sensor_id = id
                 PROVE  Holds(sensor_list'[n], Handled(id)')
      BY Zenon DEF RingsHold
    <2>1. CASE n = N + 1
      BY <1>5, <1>6, <1>8, <2>1
    <2>2. CASE n # N + 1
      <3>1. n \in 1 .. N
        BY <1>0, <1>6, <2>2
      <3>2. \A m \in 1 .. n - 1 : m \in 1 .. N
        BY <1>0, <3>1
      <3>3. First(sensor_list, n) /\ sensor_list[n].sensor_id = id
        BY <1>6, <3>1, <3>2 DEF First
      <3>4. Holds(sensor_list[n], Handled(id))
        BY <3>1, <3>3 DEF IInv, RingsHold
      <3> QED
        BY <1>6, <1>8, <3>1, <3>4
    <2> QED
      BY <2>1, <2>2
  <1> QED
    BY <1>1, <1>7, <1>9 DEF IInv

\* What a reading does, for the invariant and for the log-events.
LEMMA MeasurementKeeps ==
  ASSUME IInv, NEW d \in Reading, measurement(d)
  PROVE  /\ IInv'
         /\ d.id \in Ids /\ seen'[d.id] # seen[d.id]
         /\ Ignored(d.id) \/ events' = events \o Expected(d.id)'
  <1> DEFINE n == get_sensor_node_with_id(d.id)
             E == [kind : {"cold", "hot", "invalid"}, id : Ids]
  <1>0. TypeOK /\ phase = "loop" /\ phase' = "loop"
    BY DEF IInv, measurement
  <1>1. /\ count < MaxReadings /\ count' = count + 1
        /\ seen' = [seen EXCEPT ![d.id] = Append(@, d)]
        /\ UNCHANGED <<source, phase, map, id_room, id_sensor>>
    BY DEF measurement
  <1>2. /\ seen' \in [Ids -> Seq(Reading)] /\ count' \in 0 .. MaxReadings
        /\ \A id \in Ids : Len(seen'[id]) <= count'
        /\ seen'[d.id] # seen[d.id] /\ d.id \in Ids
    BY <1>0, <1>1, SeenAfter DEF IInv
  <1>4. \/ Ignored(d.id) /\ UNCHANGED <<sensor_list, events>>
        \/ /\ ~ Ignored(d.id) /\ n = 0 /\ UNCHANGED sensor_list
           /\ events' = IF source = "buffer"
                        THEN Append(events, [kind |-> "invalid", id |-> d.id]) ELSE events
        \/ ~ Ignored(d.id) /\ n # 0 /\ update(n, d)
    BY Zenon DEF measurement, Ignored
  <1>5. events \in Seq(E) /\ [kind |-> "invalid", id |-> d.id] \in E
    BY <1>0, <1>2 DEF TypeOK
  <1>6. /\ sensor_list' \in Seq(sensor_node) /\ events' \in Seq(E)
        /\ RingsHold' /\ (Ignored(d.id) \/ events' = events \o Expected(d.id)')
    <2>1. CASE Ignored(d.id) /\ UNCHANGED <<sensor_list, events>>
      <3>1. RingsHold'
        BY <1>1, <2>1, NoUpdateKeeps
      <3>2. sensor_list' \in Seq(sensor_node)
        BY <1>0, <2>1 DEF TypeOK
      <3> HIDE DEF E
      <3> QED
        BY <1>5, <2>1, <3>1, <3>2
    <2>2. CASE /\ ~ Ignored(d.id) /\ n = 0 /\ UNCHANGED sensor_list
               /\ events' = IF source = "buffer"
                            THEN Append(events, [kind |-> "invalid", id |-> d.id]) ELSE events
      <3>1. RingsHold'
        BY <1>1, <2>2, NoUpdateKeeps
      <3>2. d.id \notin Known
        BY <1>0, <2>2, KnownFacts
      <3>3. Known' = Known
        BY <2>2 DEF Known
      <3>4. Expected(d.id)' = IF source = "files" THEN <<>>
                              ELSE <<[kind |-> "invalid", id |-> d.id]>>
        BY <1>1, <2>2, <3>2, <3>3 DEF Expected
      <3>5. sensor_list' \in Seq(sensor_node)
        BY <1>0, <2>2 DEF TypeOK
      <3>6. source = "buffer" <=> source # "files"
        BY <1>0 DEF TypeOK
      <3> DEFINE x == [kind |-> "invalid", id |-> d.id]
      <3> HIDE DEF E, x
      <3>7. x \in E
        BY <1>5 DEF x
      <3>8. events' = IF source = "buffer" THEN Append(events, x) ELSE events
        BY <2>2 DEF x
      <3>9. Expected(d.id)' = IF source = "files" THEN <<>> ELSE <<x>>
        BY <3>4 DEF x
      <3>10. Append(events, x) = events \o <<x>> /\ events = events \o <<>>
             /\ Append(events, x) \in Seq(E)
        BY <1>5, <3>7
      <3> QED
        BY <1>5, <3>1, <3>5, <3>6, <3>8, <3>9, <3>10
    <2>3. CASE ~ Ignored(d.id) /\ n # 0 /\ update(n, d)
      <3>1. n \in 1 .. Len(sensor_list) /\ sensor_list[n].sensor_id = d.id
            /\ First(sensor_list, n)
        BY <1>0, <2>3, LookupFacts DEF Found
      <3> HIDE DEF n, E
      <3>2. /\ sensor_list' \in Seq(sensor_node) /\ RingsHold' /\ events' \in Seq(E)
            /\ events' = events \o (IF Len(seen'[d.id]) < RUN_AVG_LENGTH THEN <<>>
                                    ELSE alarms(d.id, WindowSum(seen'[d.id])))
            /\ Len(sensor_list') = Len(sensor_list)
            /\ sensor_list'[n].sensor_id = sensor_list[n].sensor_id
        BY <1>1, <2>3, <3>1, UpdateKeeps DEF E
      <3>3. d.id \in Known'
        <4>1. n \in DOMAIN sensor_list' /\ sensor_list'[n].sensor_id = d.id
          BY <3>1, <3>2
        <4> QED
          BY <4>1, Zenon DEF Known
      <3>4. Expected(d.id)' = IF Len(seen'[d.id]) < RUN_AVG_LENGTH THEN <<>>
                              ELSE alarms(d.id, WindowSum(seen'[d.id]))
        <4>1. Expected(d.id)' =
                IF Len(seen'[d.id]) < RUN_AVG_LENGTH THEN <<>>
                ELSE (IF WindowSum(seen'[d.id]) < SET_MIN_TEMP * RUN_AVG_LENGTH
                      THEN <<[kind |-> "cold", id |-> d.id]>> ELSE <<>>)
                     \o (IF WindowSum(seen'[d.id]) > SET_MAX_TEMP * RUN_AVG_LENGTH
                         THEN <<[kind |-> "hot", id |-> d.id]>> ELSE <<>>)
          BY <2>3, <3>3, Zenon DEF Expected
        <4> QED
          BY <4>1, Zenon DEF alarms
      <3> QED
        BY <3>2, <3>4, Zenon
    <2> QED
      BY <1>4, <2>1, <2>2, <2>3
  <1>7. TypeOK'
    BY <1>0, <1>1, <1>2, <1>6 DEF TypeOK
  <1> QED
    BY <1>0, <1>2, <1>6, <1>7 DEF IInv

LEMMA NextIInv == IInv /\ [Next]_vars => IInv'
  <1> SUFFICES ASSUME IInv, [Next]_vars PROVE IInv'
    OBVIOUS
  <1>1. CASE map_line
    BY <1>1, MapLineKeeps
  <1>2. CASE map_end
    BY <1>2 DEF map_end, IInv, TypeOK, RingsHold, Handled, Ignored
  <1>3. ASSUME NEW d \in Reading, measurement(d) PROVE IInv'
    BY <1>3, MeasurementKeeps
  <1>4. CASE datamgr_free
    <2>1. TypeOK' /\ Len(sensor_list') = 0
      BY <1>4 DEF datamgr_free, IInv, TypeOK
    <2>2. RingsHold'
      BY <2>1 DEF RingsHold
    <2> QED
      BY <1>4, <2>1, <2>2 DEF datamgr_free, IInv
  <1>5. CASE UNCHANGED vars
    BY <1>5 DEF vars, IInv, TypeOK, RingsHold, Handled, Ignored
  <1> QED
    BY <1>1, <1>2, <1>3, <1>4, <1>5 DEF Next, Done

LEMMA Invariance == Spec => []IInv
  BY InitIInv, NextIInv, PTL DEF Spec
-----------------------------------------------------------------------------
\* TypeOK: the nodes hold temperatures, ids and counts of readings, whatever
\* the lines of the map and the readings are.
THEOREM TypeCorrect == Spec => []TypeOK
  <1>1. IInv => TypeOK
    BY DEF IInv
  <1> QED
    BY <1>1, Invariance, PTL

\* RunningAverage: for every length of the ring and every map file, repeated, partial and
\* empty lines included: the average in a node is that of the sensor's own
\* last RUN_AVG_LENGTH readings (datamgr_parse_sensor_data, datamgr_get_avg).
THEOREM AverageIsOfLastReadings == Spec => []RunningAverage
  BY HoldsAverage, Invariance, PTL

\* ReportsExact: every reading, but one with id 0 from the shared buffer, is
\* reported as too cold, too hot or of an unknown sensor exactly when the
\* readings call for it, and nothing else is reported.
THEOREM ReportsAreExact == Spec => ReportsExact
  <1>1. ASSUME IInv, [Next]_vars
        PROVE  [\/ seen' = seen /\ events' = events
                \/ \E id \in Ids : /\ seen'[id] # seen[id]
                                   /\ Ignored(id) \/ events' = events \o Expected(id)']_vars
    <2>1. \/ seen' = seen /\ events' = events
          \/ \E d \in Reading : measurement(d)
      BY <1>1 DEF Next, map_line, map_end, datamgr_free, Done, vars
    <2>2. CASE seen' = seen /\ events' = events
      BY <2>2
    <2>3. CASE \E d \in Reading : measurement(d)
      <3>1. PICK d \in Reading : measurement(d)
        BY <2>3
      <3>2. /\ d.id \in Ids /\ seen'[d.id] # seen[d.id]
            /\ Ignored(d.id) \/ events' = events \o Expected(d.id)'
        BY <1>1, <3>1, MeasurementKeeps
      <3> QED
        BY <3>2
    <2> QED
      BY <2>1, <2>2, <2>3
  <1> QED
    BY <1>1, Invariance, PTL DEF Spec, ReportsExact
=============================================================================
