---------------------------- MODULE DPListProofs ----------------------------
(***************************************************************************)
(* Theorems about DPList, for every list of every length.                  *)
(*                                                                         *)
(* The inductive invariant says that the pointers are a sequence of        *)
(* addresses, each of them once: Linked(heap, head, s).  With it the walk  *)
(* that every operation makes is s (WalkFacts), and an operation that      *)
(* changes pointers inserts into s or removes from it (LinkedInsert,       *)
(* LinkedRemove).                                                          *)
(*                                                                         *)
(* bubble_sort is a recursive function over the passes, each of them one   *)
(* over the pairs: after p passes the last p elements are in their places  *)
(* (PassStep, SortStep), so dpl_insert_sorted finds a sorted list and      *)
(* leaves one.  Every operation then is that of IndexedList on the         *)
(* sequence of nodes (NextImplements), and every query is a question about *)
(* this sequence.                                                          *)
(***************************************************************************)
EXTENDS DPList, CommonLemmas, FiniteSetTheorems

\* The nodes h, from hd on, are the ones at the addresses s, in this order.
Linked(h, hd, s) ==
  /\ s \in Seq(Addr)
  /\ \A j, k \in 1 .. Len(s) : s[j] = s[k] => j = k
  /\ DOMAIN h = {s[k] : k \in 1 .. Len(s)}
  /\ hd = IF Len(s) = 0 THEN NULL ELSE s[1]
  /\ \A k \in 1 .. Len(s) :
       /\ h[s[k]].prev = IF k = 1 THEN NULL ELSE s[k - 1]
       /\ h[s[k]].next = IF k = Len(s) THEN NULL ELSE s[k + 1]

NodeType == [prev : Addr0, next : Addr0, element : Element]

IInv ==
  /\ TypeOK
  /\ status = "NULL" => head = NULL
  /\ \E s \in Seq(Addr) : Linked(heap, head, s)
-----------------------------------------------------------------------------
(* The walk.                                                               *)

\* The cardinality of an interval.
LEMMA IntervalSize ==
  ASSUME NEW n \in Nat
  PROVE  Cardinality(1 .. n) = n
  <1>1. 1 \in Int /\ n \in Int
    OBVIOUS
  <1>2. Cardinality(1 .. n) = IF 1 > n THEN 0 ELSE n - 1 + 1
    BY <1>1, FS_Interval, Zenon
  <1> QED
    BY <1>2

LEMMA LinkedFinite ==
  ASSUME NEW h, NEW hd, NEW s, Linked(h, hd, s)
  PROVE  /\ s \in Seq(Addr) /\ Len(s) \in Nat /\ \A k \in 1 .. Len(s) : s[k] \in Addr
         /\ Cardinality(Addr) \in Nat /\ Len(s) <= Cardinality(Addr)
  <1>1. /\ s \in Seq(Addr) /\ Len(s) \in Nat /\ \A k \in 1 .. Len(s) : s[k] \in Addr
        /\ s \in [1 .. Len(s) -> Addr]
    BY DEF Linked
  <1>2. s \in Injection(1 .. Len(s), Addr)
    BY <1>1 DEF Linked, Injection, IsInjective
  <1>3. Cardinality(1 .. Len(s)) <= Cardinality(Addr)
    BY <1>2, FiniteAssumption, FS_Injection
  <1>4. Cardinality(1 .. Len(s)) = Len(s)
    BY <1>1, IntervalSize
  <1>5. Cardinality(Addr) \in Nat
    BY FiniteAssumption, FS_CardinalityType
  <1> QED
    BY <1>1, <1>3, <1>4, <1>5

\* The walk along s, NULL past its end.
Steps(s) == [k \in 1 .. Cardinality(Addr) |-> IF k <= Len(s) THEN s[k] ELSE NULL]

LEMMA VisitedFacts ==
  ASSUME NEW s, Linked(heap, head, s)
  PROVE  visited = Steps(s)
  <1> DEFINE N == Cardinality(Addr)
             Walk(f) == [k \in 1 .. N |-> IF k = 1 THEN head
                                          ELSE IF f[k - 1] = NULL THEN NULL
                                          ELSE heap[f[k - 1]].next]
             t == Steps(s)
  <1>1. /\ s \in Seq(Addr) /\ Len(s) \in Nat /\ \A k \in 1 .. Len(s) : s[k] \in Addr
        /\ N \in Nat /\ Len(s) <= N
    BY LinkedFinite
  <1>2. /\ head = IF Len(s) = 0 THEN NULL ELSE s[1]
        /\ \A k \in 1 .. Len(s) : heap[s[k]].next = IF k = Len(s) THEN NULL ELSE s[k + 1]
    BY DEF Linked
  <1>3. \A k \in 1 .. N : t[k] = IF k <= Len(s) THEN s[k] ELSE NULL
    BY DEF Steps
  <1>4. ASSUME NEW k \in 1 .. N
        PROVE  t[k] = IF k = 1 THEN head
                      ELSE IF t[k - 1] = NULL THEN NULL ELSE heap[t[k - 1]].next
    <2>1. CASE k = 1
      BY <1>1, <1>2, <1>3, <2>1
    <2>2. CASE k # 1
      <3>1. k - 1 \in 1 .. N /\ k \in Nat
        BY <1>1, <2>2
      <3>2. t[k - 1] = IF k - 1 <= Len(s) THEN s[k - 1] ELSE NULL
        BY <1>3, <3>1
      <3>3. t[k] = IF k <= Len(s) THEN s[k] ELSE NULL
        BY <1>3
      <3>4. CASE k - 1 > Len(s)
        BY <1>1, <2>2, <3>1, <3>2, <3>3, <3>4
      <3>5. CASE k - 1 <= Len(s)
        <4>1. /\ k - 1 \in 1 .. Len(s) /\ t[k - 1] = s[k - 1] /\ s[k - 1] # NULL
              /\ (k - 1) + 1 = k
          BY <1>1, <3>1, <3>2, <3>5, NULLAssumption
        <4>2. heap[s[k - 1]].next = IF k - 1 = Len(s) THEN NULL ELSE s[k]
          BY <1>2, <4>1
        <4> QED
          BY <1>1, <2>2, <3>1, <3>3, <3>5, <4>1, <4>2
      <3> QED
        BY <1>1, <3>1, <3>4, <3>5
    <2> QED
      BY <2>1, <2>2
  <1>5. t = Walk(t)
    BY <1>4 DEF Steps
  <1>6. visited = Walk(visited)
    <2>1. \E f : f = Walk(f)
      BY <1>5
    <2> QED
      BY <2>1, Zenon DEF visited
  <1>7. \A k \in 1 .. N : visited[k] = t[k]
    <2> DEFINE P == {n \in Nat : \A k \in 1 .. N : k <= n => visited[k] = t[k]}
    <2>1. \A k \in 1 .. N : visited[k] = IF k = 1 THEN head
                                         ELSE IF visited[k - 1] = NULL THEN NULL
                                         ELSE heap[visited[k - 1]].next
      BY <1>6
    <2> HIDE DEF t
    <2>2. 0 \in P
      BY <1>1
    <2>3. ASSUME NEW n \in Nat, n \in P PROVE n + 1 \in P
      <3> SUFFICES ASSUME NEW k \in 1 .. N, k <= n + 1 PROVE visited[k] = t[k]
        OBVIOUS
      <3>1. k = 1 \/ (k - 1 \in 1 .. N /\ k - 1 <= n)
        BY <1>1
      <3>2. k - 1 \in 1 .. N /\ k - 1 <= n => visited[k - 1] = t[k - 1]
        BY <2>3
      <3> QED
        BY <1>4, <2>1, <3>1, <3>2
    <2>4. Nat \subseteq P
      <3> HIDE DEF P
      <3> QED
        BY <2>2, <2>3, SetInduction
    <2> QED
      BY <1>1, <2>4
  <1> QED
    <2>1. \A k \in 1 .. N : Walk(visited)[k] = t[k]
      BY <1>6, <1>7
    <2>2. Walk(visited) = [k \in 1 .. N |-> t[k]] /\ t = [k \in 1 .. N |-> t[k]]
      BY <2>1 DEF Steps
    <2> QED
      BY <1>6, <2>2

\* The walk visits s.
LEMMA WalkFacts ==
  ASSUME NEW s, Linked(heap, head, s)
  PROVE  dpl_size = Len(s) /\ Chain = s
  <1>1. /\ s \in Seq(Addr) /\ Len(s) \in Nat /\ \A k \in 1 .. Len(s) : s[k] \in Addr
        /\ Cardinality(Addr) \in Nat /\ Len(s) <= Cardinality(Addr)
    BY LinkedFinite
  <1>2. \A k \in 1 .. Cardinality(Addr) : visited[k] = IF k <= Len(s) THEN s[k] ELSE NULL
    BY VisitedFacts DEF Steps
  <1>3. {k \in 1 .. Cardinality(Addr) : visited[k] # NULL} = 1 .. Len(s)
    BY <1>1, <1>2, NULLAssumption
  <1>4. dpl_size = Len(s)
    <2>1. Cardinality(1 .. Len(s)) = Len(s)
      BY <1>1, IntervalSize
    <2> QED
      BY <1>3, <2>1 DEF dpl_size
  <1>5. Chain = s
    <2>1. Chain = [k \in 1 .. Len(s) |-> s[k]]
      BY <1>1, <1>2, <1>4 DEF Chain
    <2> QED
      BY <1>1, <2>1
  <1> QED
    BY <1>4, <1>5

\* Where the walk stops that looks for an index.
LEMMA ReferenceFacts ==
  ASSUME NEW s, Linked(heap, head, s), Len(s) # 0, NEW index \in Int
  PROVE  /\ L!Clamp(index, Len(s)) \in 1 .. Len(s)
         /\ dpl_get_reference_at_index(index) = s[L!Clamp(index, Len(s))]
  <1> DEFINE stops == {k \in DOMAIN s : k - 1 >= index \/ k = Len(s)}
             c == L!Clamp(index, Len(s))
  <1>1. /\ s \in Seq(Addr) /\ Len(s) \in Nat /\ \A k \in 1 .. Len(s) : s[k] \in Addr
        /\ DOMAIN s = 1 .. Len(s)
    BY LinkedFinite
  <1>2. c \in stops /\ \A k \in stops : c <= k
    BY <1>1 DEF L!Clamp
  <1>3. Min(stops) = c
    <2>1. stops \subseteq Int
      BY <1>1
    <2> HIDE DEF stops, c
    <2>2. \A x, y \in Int : x <= y /\ y <= x => x = y
      OBVIOUS
    <2> QED
      BY <1>2, <2>1, <2>2, Zenon DEF Min
  <1>4. head # NULL
    <2>1. head = s[1] /\ s[1] \in Addr
      <3>1. 1 \in 1 .. Len(s)
        BY <1>1
      <3>2. head = IF Len(s) = 0 THEN NULL ELSE s[1]
        BY DEF Linked
      <3> QED
        BY <1>1, <3>1, <3>2
    <2> QED
      BY <2>1, NULLAssumption
  <1>5. Chain = s
    BY WalkFacts
  <1> QED
    BY <1>1, <1>2, <1>3, <1>4, <1>5 DEF dpl_get_reference_at_index
-----------------------------------------------------------------------------
(* The changes of the pointers.                                            *)

\* A node that both neighbours point to, and that points to both, is in s.
NewNode(h, hd, s, pos, new, h2, hd2) ==
  /\ pos \in 1 .. Len(s) + 1 /\ new \in Addr /\ new \notin DOMAIN h
  /\ DOMAIN h2 = DOMAIN h \cup {new}
  /\ hd2 = IF pos = 1 THEN new ELSE hd
  /\ h2[new].prev = IF pos = 1 THEN NULL ELSE s[pos - 1]
  /\ h2[new].next = IF pos = Len(s) + 1 THEN NULL ELSE s[pos]
  /\ \A k \in 1 .. Len(s) :
       /\ h2[s[k]].prev = IF k = pos THEN new ELSE h[s[k]].prev
       /\ h2[s[k]].next = IF k = pos - 1 THEN new ELSE h[s[k]].next

LEMMA LinkedInsert ==
  ASSUME NEW h, NEW hd, NEW s, Linked(h, hd, s), NEW pos, NEW new, NEW h2, NEW hd2,
         NewNode(h, hd, s, pos, new, h2, hd2)
  PROVE  Linked(h2, hd2, InsertAt(s, pos, new))
  <1>0. /\ pos \in 1 .. Len(s) + 1 /\ new \in Addr /\ new \notin DOMAIN h
        /\ DOMAIN h2 = DOMAIN h \cup {new}
        /\ hd2 = IF pos = 1 THEN new ELSE hd
    BY DEF NewNode
  <1>a. /\ h2[new].prev = IF pos = 1 THEN NULL ELSE s[pos - 1]
        /\ h2[new].next = IF pos = Len(s) + 1 THEN NULL ELSE s[pos]
        /\ \A k \in 1 .. Len(s) :
             /\ h2[s[k]].prev = IF k = pos THEN new ELSE h[s[k]].prev
             /\ h2[s[k]].next = IF k = pos - 1 THEN new ELSE h[s[k]].next
    BY DEF NewNode
  <1> DEFINE t == InsertAt(s, pos, new)
  <1>1. /\ s \in Seq(Addr) /\ Len(s) \in Nat /\ \A k \in 1 .. Len(s) : s[k] \in Addr
        /\ pos \in 1 .. Len(s) + 1 /\ pos \in Nat
    BY <1>0, LinkedFinite
  <1>2. /\ t \in Seq(Addr) /\ Len(t) = Len(s) + 1
        /\ \A k \in 1 .. Len(s) + 1 :
             t[k] = IF k < pos THEN s[k] ELSE IF k = pos THEN new ELSE s[k - 1]
    BY <1>0, <1>1, InsertAtFacts
  <1>3. /\ \A j, k \in 1 .. Len(s) : s[j] = s[k] => j = k
        /\ DOMAIN h = {s[k] : k \in 1 .. Len(s)}
        /\ hd = IF Len(s) = 0 THEN NULL ELSE s[1]
        /\ \A k \in 1 .. Len(s) : /\ h[s[k]].prev = IF k = 1 THEN NULL ELSE s[k - 1]
                                  /\ h[s[k]].next = IF k = Len(s) THEN NULL ELSE s[k + 1]
    BY DEF Linked
  <1>4. \A k \in 1 .. Len(s) : s[k] # new
    BY <1>0, <1>3
  <1> HIDE DEF t
  <1>5. \A j, k \in 1 .. Len(t) : t[j] = t[k] => j = k
    <2> SUFFICES ASSUME NEW j \in 1 .. Len(t), NEW k \in 1 .. Len(t), t[j] = t[k]
                 PROVE  j = k
      OBVIOUS
    <2> DEFINE o(m) == IF m < pos THEN m ELSE m - 1
    <2>1. \A m \in 1 .. Len(t) : m # pos => o(m) \in 1 .. Len(s) /\ t[m] = s[o(m)]
      BY <1>1, <1>2
    <2>2. t[pos] = new
      BY <1>1, <1>2
    <2>3. (j = pos) <=> (k = pos)
      BY <1>4, <2>1, <2>2
    <2>4. j # pos => o(j) = o(k)
      <3>1. j # pos => o(j) \in 1 .. Len(s) /\ o(k) \in 1 .. Len(s) /\ s[o(j)] = s[o(k)]
        BY <2>1, <2>3
      <3> HIDE DEF o
      <3> QED
        BY <1>3, <3>1
    <2> QED
      BY <1>1, <1>2, <2>3, <2>4
  <1>6. DOMAIN h2 = {t[k] : k \in 1 .. Len(t)}
    <2>1. \A k \in 1 .. Len(t) : t[k] \in DOMAIN h2
      <3> TAKE k \in 1 .. Len(t)
      <3>1. k # pos => \E j \in 1 .. Len(s) : t[k] = s[j]
        <4>1. k < pos => k \in 1 .. Len(s) /\ t[k] = s[k]
          BY <1>1, <1>2
        <4>2. k > pos => k - 1 \in 1 .. Len(s) /\ t[k] = s[k - 1]
          BY <1>1, <1>2
        <4> QED
          BY <1>1, <1>2, <4>1, <4>2
      <3> QED
        BY <1>0, <1>1, <1>2, <1>3, <3>1
    <2>2. ASSUME NEW j \in 1 .. Len(s) PROVE \E k \in 1 .. Len(t) : t[k] = s[j]
      <3>1. j < pos => j \in 1 .. Len(t) /\ t[j] = s[j]
        BY <1>1, <1>2
      <3>2. j >= pos => j + 1 \in 1 .. Len(t) /\ t[j + 1] = s[j]
        BY <1>1, <1>2
      <3> QED
        BY <1>1, <3>1, <3>2
    <2>3. pos \in 1 .. Len(t) /\ t[pos] = new
      BY <1>1, <1>2
    <2>4. \A a \in DOMAIN h2 : \E k \in 1 .. Len(t) : t[k] = a
      <3> TAKE a \in DOMAIN h2
      <3>1. a = new \/ \E j \in 1 .. Len(s) : a = s[j]
        BY <1>0, <1>3
      <3> QED
        BY <2>2, <2>3, <3>1
    <2> QED
      BY <2>1, <2>4
  <1>7. hd2 = IF Len(t) = 0 THEN NULL ELSE t[1]
    BY <1>0, <1>1, <1>2, <1>3
  <1>8. ASSUME NEW k \in 1 .. Len(t)
        PROVE  /\ h2[t[k]].prev = IF k = 1 THEN NULL ELSE t[k - 1]
               /\ h2[t[k]].next = IF k = Len(t) THEN NULL ELSE t[k + 1]
    <2>0. k \in Nat /\ (k = pos \/ k < pos \/ k > pos)
      BY <1>1
    <2>1. CASE k = pos
      BY <1>1, <1>2, <1>a, <2>1
    <2>2. CASE k < pos
      <3>1. k \in 1 .. Len(s) /\ t[k] = s[k]
        BY <1>1, <1>2, <2>2
      <3>2. h2[t[k]].prev = IF k = 1 THEN NULL ELSE s[k - 1]
        BY <1>1, <1>3, <1>a, <2>2, <3>1
      <3>3. h2[t[k]].next = IF k = pos - 1 THEN new ELSE IF k = Len(s) THEN NULL ELSE s[k + 1]
        BY <1>3, <1>a, <3>1
      <3> QED
        BY <1>1, <1>2, <2>2, <3>2, <3>3
    <2>3. CASE k > pos
      <3>1. k - 1 \in 1 .. Len(s) /\ t[k] = s[k - 1]
        BY <1>1, <1>2, <2>3
      <3>2. h2[t[k]].prev = IF k - 1 = pos THEN new ELSE IF k - 1 = 1 THEN NULL ELSE s[(k - 1) - 1]
        BY <1>3, <1>a, <3>1
      <3>3. h2[t[k]].next = IF k - 1 = pos - 1 THEN new
                            ELSE IF k - 1 = Len(s) THEN NULL ELSE s[(k - 1) + 1]
        BY <1>3, <1>a, <3>1
      <3>4. k # Len(t) => t[k + 1] = s[(k - 1) + 1]
        <4>1. k # Len(t) => k + 1 \in 1 .. Len(s) + 1 /\ k + 1 > pos /\ (k + 1) - 1 = (k - 1) + 1
          BY <1>1, <1>2, <2>3
        <4> QED
          BY <1>1, <1>2, <4>1
      <3>5. k - 1 # pos => t[k - 1] = s[(k - 1) - 1]
        BY <1>1, <1>2, <2>3
      <3> QED
        BY <1>1, <1>2, <2>3, <3>2, <3>3, <3>4, <3>5
    <2> QED
      BY <2>0, <2>1, <2>2, <2>3
  <1> QED
    BY <1>2, <1>5, <1>6, <1>7, <1>8 DEF Linked, t

\* A node that is freed and that nothing points to any more is not in s.
NodeGone(h, hd, s, pos, h2, hd2) ==
  /\ pos \in 1 .. Len(s)
  /\ DOMAIN h2 = DOMAIN h \ {s[pos]}
  /\ hd2 = IF pos = 1 THEN h[s[1]].next ELSE hd
  /\ \A k \in 1 .. Len(s) : k # pos =>
       /\ h2[s[k]].prev = IF k = pos + 1 THEN h[s[pos]].prev ELSE h[s[k]].prev
       /\ h2[s[k]].next = IF k = pos - 1 THEN h[s[pos]].next ELSE h[s[k]].next

LEMMA LinkedRemove ==
  ASSUME NEW h, NEW hd, NEW s, Linked(h, hd, s), NEW pos, NEW h2, NEW hd2,
         NodeGone(h, hd, s, pos, h2, hd2)
  PROVE  Linked(h2, hd2, RemoveAt(s, pos))
  <1>0. /\ pos \in 1 .. Len(s)
        /\ DOMAIN h2 = DOMAIN h \ {s[pos]}
        /\ hd2 = IF pos = 1 THEN h[s[1]].next ELSE hd
    BY DEF NodeGone
  <1>a. \A k \in 1 .. Len(s) : k # pos =>
          /\ h2[s[k]].prev = IF k = pos + 1 THEN h[s[pos]].prev ELSE h[s[k]].prev
          /\ h2[s[k]].next = IF k = pos - 1 THEN h[s[pos]].next ELSE h[s[k]].next
    BY DEF NodeGone
  <1> DEFINE t == RemoveAt(s, pos)
  <1>1. /\ s \in Seq(Addr) /\ Len(s) \in Nat /\ \A k \in 1 .. Len(s) : s[k] \in Addr
        /\ pos \in 1 .. Len(s) /\ pos \in Nat
    BY <1>0, LinkedFinite
  <1>2. /\ t \in Seq(Addr) /\ Len(t) = Len(s) - 1
        /\ \A k \in 1 .. Len(s) - 1 : t[k] = IF k < pos THEN s[k] ELSE s[k + 1]
    BY <1>0, <1>1, RemoveAtFacts
  <1>3. /\ \A j, k \in 1 .. Len(s) : s[j] = s[k] => j = k
        /\ DOMAIN h = {s[k] : k \in 1 .. Len(s)}
        /\ hd = IF Len(s) = 0 THEN NULL ELSE s[1]
        /\ \A k \in 1 .. Len(s) : /\ h[s[k]].prev = IF k = 1 THEN NULL ELSE s[k - 1]
                                  /\ h[s[k]].next = IF k = Len(s) THEN NULL ELSE s[k + 1]
    BY DEF Linked
  <1> HIDE DEF t
  <1>4. \A j, k \in 1 .. Len(t) : t[j] = t[k] => j = k
    <2> SUFFICES ASSUME NEW j \in 1 .. Len(t), NEW k \in 1 .. Len(t), t[j] = t[k]
                 PROVE  j = k
      OBVIOUS
    <2> DEFINE o(m) == IF m < pos THEN m ELSE m + 1
    <2>1. \A m \in 1 .. Len(t) : o(m) \in 1 .. Len(s) /\ t[m] = s[o(m)]
      BY <1>1, <1>2
    <2>2. o(j) = o(k)
      <3>1. o(j) \in 1 .. Len(s) /\ o(k) \in 1 .. Len(s) /\ s[o(j)] = s[o(k)]
        BY <2>1
      <3> HIDE DEF o
      <3> QED
        BY <1>3, <3>1
    <2> QED
      BY <1>1, <1>2, <2>2
  <1>5. DOMAIN h2 = {t[k] : k \in 1 .. Len(t)}
    <2>1. ASSUME NEW k \in 1 .. Len(t)
          PROVE  \E j \in 1 .. Len(s) : j # pos /\ t[k] = s[j]
      <3>1. k < pos => k \in 1 .. Len(s) /\ k # pos /\ t[k] = s[k]
        BY <1>1, <1>2
      <3>2. k >= pos => k + 1 \in 1 .. Len(s) /\ k + 1 # pos /\ t[k] = s[k + 1]
        BY <1>1, <1>2
      <3> QED
        BY <1>1, <1>2, <3>1, <3>2
    <2>2. ASSUME NEW j \in 1 .. Len(s), j # pos PROVE \E k \in 1 .. Len(t) : t[k] = s[j]
      <3>1. j < pos => j \in 1 .. Len(t) /\ t[j] = s[j]
        BY <1>1, <1>2
      <3>2. j > pos => j - 1 \in 1 .. Len(t) /\ t[j - 1] = s[j]
        BY <1>1, <1>2
      <3> QED
        BY <1>1, <2>2, <3>1, <3>2
    <2> QED
      <3>1. \A k \in 1 .. Len(t) : t[k] \in DOMAIN h2
        BY <1>0, <1>1, <1>3, <2>1
      <3>2. \A a \in DOMAIN h2 : \E k \in 1 .. Len(t) : t[k] = a
        BY <1>0, <1>3, <2>2
      <3> QED
        BY <3>1, <3>2
  <1>6. hd2 = IF Len(t) = 0 THEN NULL ELSE t[1]
    BY <1>0, <1>1, <1>2, <1>3
  <1>7. ASSUME NEW k \in 1 .. Len(t)
        PROVE  /\ h2[t[k]].prev = IF k = 1 THEN NULL ELSE t[k - 1]
               /\ h2[t[k]].next = IF k = Len(t) THEN NULL ELSE t[k + 1]
    <2>0. k \in Nat /\ (k < pos \/ k >= pos)
      BY <1>1, <1>2
    <2>1. CASE k < pos
      <3>1. k \in 1 .. Len(s) /\ k # pos /\ t[k] = s[k]
        <4>1. k \in 1 .. Len(s) - 1 /\ k \in 1 .. Len(s) /\ k # pos
          BY <1>1, <1>2, <2>1
        <4> QED
          BY <1>2, <2>1, <4>1
      <3>2. h2[t[k]].prev = IF k = 1 THEN NULL ELSE s[k - 1]
        BY <1>1, <1>3, <1>a, <2>1, <3>1
      <3>3. h2[t[k]].next = IF k = pos - 1 THEN IF pos = Len(s) THEN NULL ELSE s[pos + 1]
                            ELSE IF k = Len(s) THEN NULL ELSE s[k + 1]
        BY <1>1, <1>3, <1>a, <3>1
      <3>4. k = pos - 1 /\ k # Len(t) => t[k + 1] = s[pos + 1]
        BY <1>1, <1>2, <2>1
      <3>5. k # pos - 1 => k # Len(t) /\ k # Len(s) /\ t[k + 1] = s[k + 1]
        BY <1>1, <1>2, <2>1
      <3> QED
        BY <1>1, <1>2, <2>1, <3>2, <3>3, <3>4, <3>5
    <2>2. CASE k >= pos
      <3>1. k + 1 \in 1 .. Len(s) /\ k + 1 # pos /\ t[k] = s[k + 1]
        BY <1>1, <1>2, <2>2
      <3> DEFINE j == k + 1
      <3>0. j \in 1 .. Len(s) /\ j # pos /\ t[k] = s[j] /\ j # 1 /\ j # pos - 1
        BY <1>1, <1>2, <2>2, <3>1
      <3> HIDE DEF j
      <3>a. /\ h2[s[j]].prev = IF j = pos + 1 THEN h[s[pos]].prev ELSE h[s[j]].prev
            /\ h2[s[j]].next = h[s[j]].next
        BY <1>a, <3>0
      <3>b. /\ h[s[j]].prev = s[j - 1] /\ h[s[j]].next = IF j = Len(s) THEN NULL ELSE s[j + 1]
            /\ h[s[pos]].prev = IF pos = 1 THEN NULL ELSE s[pos - 1]
        BY <1>1, <1>3, <3>0
      <3>2. h2[t[k]].prev = IF k + 1 = pos + 1 THEN IF pos = 1 THEN NULL ELSE s[pos - 1]
                            ELSE s[(k + 1) - 1]
        BY <3>0, <3>a, <3>b DEF j
      <3>3. h2[t[k]].next = IF k + 1 = Len(s) THEN NULL ELSE s[(k + 1) + 1]
        BY <3>0, <3>a, <3>b DEF j
      <3>4. k # Len(t) => t[k + 1] = s[(k + 1) + 1]
        BY <1>1, <1>2, <2>2
      <3>5. k # pos => k # 1 /\ t[k - 1] = s[(k + 1) - 1]
        BY <1>1, <1>2, <2>2
      <3>6. k = pos /\ k # 1 => t[k - 1] = s[pos - 1]
        BY <1>1, <1>2, <2>2
      <3> QED
        BY <1>1, <1>2, <2>2, <3>2, <3>3, <3>4, <3>5, <3>6
    <2> QED
      BY <2>0, <2>1, <2>2
  <1> QED
    BY <1>2, <1>4, <1>5, <1>6, <1>7 DEF Linked, t
-----------------------------------------------------------------------------
(* The operations, as changes of s and of the elements.                    *)

\* h and g have the same nodes, and these the same elements.
SameElements(g, h) ==
  /\ g \in [DOMAIN h -> NodeType]
  /\ \A a \in DOMAIN h : g[a].element = h[a].element

LEMMA SetPrev ==
  ASSUME NEW h, h \in [DOMAIN h -> NodeType], NEW a \in DOMAIN h, NEW v \in Addr0
  PROVE  /\ SameElements([h EXCEPT ![a].prev = v], h)
         /\ \A b \in DOMAIN h : /\ [h EXCEPT ![a].prev = v][b].prev = IF b = a THEN v ELSE h[b].prev
                                /\ [h EXCEPT ![a].prev = v][b].next = h[b].next
  BY DEF NodeType, SameElements

LEMMA SetNext ==
  ASSUME NEW h, h \in [DOMAIN h -> NodeType], NEW a \in DOMAIN h, NEW v \in Addr0
  PROVE  /\ SameElements([h EXCEPT ![a].next = v], h)
         /\ \A b \in DOMAIN h : /\ [h EXCEPT ![a].next = v][b].next = IF b = a THEN v ELSE h[b].next
                                /\ [h EXCEPT ![a].next = v][b].prev = h[b].prev
  BY DEF NodeType, SameElements

LEMMA SetNextPrev ==
  ASSUME NEW h, h \in [DOMAIN h -> NodeType], NEW a \in DOMAIN h, NEW c \in DOMAIN h, a # c,
         NEW v \in Addr0, NEW w \in Addr0
  PROVE  LET g == [h EXCEPT ![a].next = v, ![c].prev = w] IN
         /\ SameElements(g, h)
         /\ \A b \in DOMAIN h : /\ g[b].next = IF b = a THEN v ELSE h[b].next
                                /\ g[b].prev = IF b = c THEN w ELSE h[b].prev
  BY DEF NodeType, SameElements

LEMMA SetPrevNext ==
  ASSUME NEW h, h \in [DOMAIN h -> NodeType], NEW a \in DOMAIN h, NEW c \in DOMAIN h, a # c,
         NEW v \in Addr0, NEW w \in Addr0
  PROVE  LET g == [h EXCEPT ![c].prev = w, ![a].next = v] IN
         /\ SameElements(g, h)
         /\ \A b \in DOMAIN h : /\ g[b].next = IF b = a THEN v ELSE h[b].next
                                /\ g[b].prev = IF b = c THEN w ELSE h[b].prev
  BY DEF NodeType, SameElements

\* The heap with a new node of element e at position pos of s.
Inserted(h, s, pos, new, e) ==
  /\ Linked(heap', head', InsertAt(s, pos, new))
  /\ heap' \in [DOMAIN h \cup {new} -> NodeType]
  /\ heap'[new].element = e
  /\ \A a \in DOMAIN h : heap'[a].element = h[a].element

LEMMA WithFacts ==
  ASSUME NEW h, NEW g, SameElements(g, h), NEW new \in Addr, new \notin DOMAIN h,
         NEW p \in Addr0, NEW n \in Addr0, NEW e \in Element, heap' = with(g, new, Node(p, n, e))
  PROVE  /\ heap' \in [DOMAIN h \cup {new} -> NodeType] /\ DOMAIN heap' = DOMAIN h \cup {new}
         /\ heap'[new].element = e /\ heap'[new].prev = p /\ heap'[new].next = n
         /\ \A a \in DOMAIN h : /\ heap'[a].element = h[a].element
                                /\ heap'[a].prev = g[a].prev /\ heap'[a].next = g[a].next
  <1>1. DOMAIN g = DOMAIN h /\ Node(p, n, e) \in NodeType
    BY DEF SameElements, Node, NodeType
  <1>2. heap' \in [DOMAIN h \cup {new} -> NodeType] /\ DOMAIN heap' = DOMAIN h \cup {new}
    BY <1>1 DEF with, SameElements
  <1>3. heap'[new] = Node(p, n, e) /\ \A a \in DOMAIN h : heap'[a] = g[a]
    BY <1>1 DEF with
  <1> QED
    BY <1>2, <1>3 DEF Node, SameElements

LEMMA InsertStep ==
  ASSUME NEW s, Linked(heap, head, s),
         NEW h, h \in [DOMAIN h -> NodeType], Linked(h, head, s),
         NEW e \in Element0, NEW index \in Int, insert_at_index(h, e, index)
  PROVE  \/ /\ may_insert(e) /\ UNCHANGED status
            /\ L!Clamp(index, Len(s) + 1) \in 1 .. Len(s) + 1
            /\ \E new \in Addr \ DOMAIN h : Inserted(h, s, L!Clamp(index, Len(s) + 1), new, e)
         \/ (status = "NULL" \/ e = NULL \/ DOMAIN h = Addr) /\ abort
  <1> DEFINE size == dpl_size
             ref  == dpl_get_reference_at_index(index)
             pos  == L!Clamp(index, Len(s) + 1)
             linked(new, g, p, n) == heap' = with(g, new, Node(p, n, e))
  <1>1. /\ s \in Seq(Addr) /\ Len(s) \in Nat /\ \A k \in 1 .. Len(s) : s[k] \in Addr
    BY LinkedFinite
  <1>2. /\ \A j, k \in 1 .. Len(s) : s[j] = s[k] => j = k
        /\ DOMAIN h = {s[k] : k \in 1 .. Len(s)}
        /\ head = IF Len(s) = 0 THEN NULL ELSE s[1]
        /\ \A k \in 1 .. Len(s) : /\ h[s[k]].prev = IF k = 1 THEN NULL ELSE s[k - 1]
                                  /\ h[s[k]].next = IF k = Len(s) THEN NULL ELSE s[k + 1]
    BY DEF Linked
  <1>3. pos \in 1 .. Len(s) + 1 /\ pos = IF index < 0 THEN 1 ELSE IF index >= Len(s) + 1 THEN Len(s) + 1 ELSE index + 1
    BY <1>1 DEF L!Clamp
  <1>4. size = Len(s)
    BY WalkFacts
  <1>5. head = NULL <=> Len(s) = 0
    <2>1. Len(s) # 0 => 1 \in 1 .. Len(s)
      BY <1>1
    <2> QED
      BY <1>1, <1>2, <2>1, NULLAssumption
  <1>6. Len(s) # 0 => ref = s[L!Clamp(index, Len(s))] /\ L!Clamp(index, Len(s)) \in 1 .. Len(s)
    BY ReferenceFacts
  <1>7. \A k \in 1 .. Len(s) : s[k] \in DOMAIN h
    BY <1>2
  <1>8. CASE (status = "NULL" \/ e = NULL \/ DOMAIN h = Addr) /\ abort
    BY <1>8
  <1>9. ASSUME may_insert(e), UNCHANGED status, NEW new \in Addr \ DOMAIN h,
               \/ /\ head = NULL
                  /\ head' = new /\ linked(new, h, NULL, NULL)
               \/ /\ head # NULL /\ index <= 0
                  /\ head' = new /\ linked(new, [h EXCEPT ![head].prev = new], NULL, head)
               \/ /\ head # NULL /\ index > 0 /\ index < size
                  /\ linked(new, link_before(h, ref, new), h[ref].prev, ref)
                  /\ UNCHANGED head
               \/ /\ head # NULL /\ index > 0 /\ index >= size
                  /\ linked(new, [h EXCEPT ![ref].next = new], ref, NULL)
                  /\ UNCHANGED head
        PROVE  Inserted(h, s, pos, new, e)
    <2>0. e \in Element /\ new \in Addr0 /\ NULL \in Addr0
      BY <1>9 DEF may_insert, Element0, Addr0
    <2> DEFINE Result(g, p, n) ==
                 /\ SameElements(g, h) /\ p \in Addr0 /\ n \in Addr0
                 /\ linked(new, g, p, n)
                 /\ head' = IF pos = 1 THEN new ELSE head
                 /\ p = IF pos = 1 THEN NULL ELSE s[pos - 1]
                 /\ n = IF pos = Len(s) + 1 THEN NULL ELSE s[pos]
                 /\ \A k \in 1 .. Len(s) :
                      /\ g[s[k]].prev = IF k = pos THEN new ELSE h[s[k]].prev
                      /\ g[s[k]].next = IF k = pos - 1 THEN new ELSE h[s[k]].next
    <2>1. ASSUME NEW g, NEW p, NEW n, Result(g, p, n)
          PROVE  Inserted(h, s, pos, new, e)
      <3>1. /\ heap' \in [DOMAIN h \cup {new} -> NodeType] /\ DOMAIN heap' = DOMAIN h \cup {new}
            /\ heap'[new].element = e /\ heap'[new].prev = p /\ heap'[new].next = n
            /\ \A a \in DOMAIN h : /\ heap'[a].element = h[a].element
                                   /\ heap'[a].prev = g[a].prev /\ heap'[a].next = g[a].next
        <4>1. /\ new \in Addr /\ new \notin DOMAIN h /\ SameElements(g, h)
              /\ p \in Addr0 /\ n \in Addr0 /\ heap' = with(g, new, Node(p, n, e))
          BY <2>1
        <4> QED
          BY <2>0, <4>1, WithFacts
      <3> HIDE DEF pos
      <3>2. Linked(heap', head', InsertAt(s, pos, new))
        <4>1. \A k \in 1 .. Len(s) :
                /\ heap'[s[k]].prev = IF k = pos THEN new ELSE h[s[k]].prev
                /\ heap'[s[k]].next = IF k = pos - 1 THEN new ELSE h[s[k]].next
          BY <1>7, <2>1, <3>1
        <4>2. /\ head' = IF pos = 1 THEN new ELSE head
              /\ heap'[new].prev = IF pos = 1 THEN NULL ELSE s[pos - 1]
              /\ heap'[new].next = IF pos = Len(s) + 1 THEN NULL ELSE s[pos]
          BY <2>1, <3>1
        <4>3. new \in Addr /\ new \notin DOMAIN h
          OBVIOUS
        <4>4. NewNode(h, head, s, pos, new, heap', head')
          BY <1>3, <3>1, <4>1, <4>2, <4>3 DEF NewNode
        <4> QED
          BY <4>4, LinkedInsert
      <3> QED
        BY <3>1, <3>2 DEF Inserted
    <2>2. CASE head = NULL /\ head' = new /\ linked(new, h, NULL, NULL)
      <3>1. Len(s) = 0 /\ pos = 1 /\ SameElements(h, h)
        BY <1>1, <1>3, <1>5, <2>2 DEF SameElements
      <3>2. Result(h, NULL, NULL)
        BY <1>1, <2>0, <2>2, <3>1
      <3> QED
        BY <2>1, <3>2
    <2>3. CASE /\ head # NULL /\ index <= 0
               /\ head' = new /\ linked(new, [h EXCEPT ![head].prev = new], NULL, head)
      <3>1. Len(s) # 0 /\ pos = 1 /\ head = s[1] /\ 1 \in 1 .. Len(s)
        BY <1>1, <1>2, <1>3, <1>5, <2>3
      <3>2. head \in DOMAIN h /\ head \in Addr0
        BY <1>1, <1>7, <3>1 DEF Addr0
      <3> DEFINE g == [h EXCEPT ![head].prev = new]
      <3>3. /\ SameElements(g, h)
            /\ \A b \in DOMAIN h : /\ g[b].prev = IF b = head THEN new ELSE h[b].prev
                                   /\ g[b].next = h[b].next
        BY <2>0, <3>2, SetPrev
      <3>4. linked(new, g, NULL, head)
        BY <2>3
      <3> HIDE DEF g, linked
      <3>5. \A k \in 1 .. Len(s) :
              /\ g[s[k]].prev = IF k = pos THEN new ELSE h[s[k]].prev
              /\ g[s[k]].next = IF k = pos - 1 THEN new ELSE h[s[k]].next
        BY <1>2, <1>7, <3>1, <3>3
      <3>6. Result(g, NULL, head)
        BY <1>1, <2>0, <2>3, <3>1, <3>2, <3>3, <3>4, <3>5
      <3> QED
        BY <2>1, <3>6
    <2>4. CASE /\ head # NULL /\ index > 0 /\ index < size
               /\ linked(new, link_before(h, ref, new), h[ref].prev, ref)
               /\ UNCHANGED head
      <3>1. /\ Len(s) # 0 /\ pos \in 2 .. Len(s) /\ ref = s[pos] /\ pos - 1 \in 1 .. Len(s)
            /\ pos \in 1 .. Len(s)
        BY <1>1, <1>3, <1>4, <1>5, <1>6, <2>4 DEF L!Clamp
      <3>2. /\ s[pos] \in DOMAIN h /\ s[pos] \in Addr0 /\ s[pos - 1] \in DOMAIN h
            /\ s[pos - 1] \in Addr0 /\ h[s[pos]].prev = s[pos - 1] /\ s[pos - 1] # s[pos]
        <4> HIDE DEF pos
        <4> QED
          BY <1>1, <1>2, <1>7, <3>1 DEF Addr0
      <3> DEFINE g == [h EXCEPT ![s[pos - 1]].next = new, ![s[pos]].prev = new]
      <3>3. /\ SameElements(g, h)
            /\ \A b \in DOMAIN h : /\ g[b].next = IF b = s[pos - 1] THEN new ELSE h[b].next
                                   /\ g[b].prev = IF b = s[pos] THEN new ELSE h[b].prev
        <4> DEFINE a == s[pos - 1]
                   c == s[pos]
        <4>1. a \in DOMAIN h /\ c \in DOMAIN h /\ a # c
          BY <3>2
        <4> HIDE DEF a, c
        <4>2. LET f == [h EXCEPT ![a].next = new, ![c].prev = new] IN
              /\ SameElements(f, h)
              /\ \A b \in DOMAIN h : /\ f[b].next = IF b = a THEN new ELSE h[b].next
                                     /\ f[b].prev = IF b = c THEN new ELSE h[b].prev
          BY <2>0, <4>1 DEF NodeType, SameElements
        <4> QED
          BY <4>2, Zenon DEF a, c
      <3>4. linked(new, g, s[pos - 1], s[pos])
        <4> HIDE DEF pos, ref
        <4> QED
          BY <2>4, <3>1, <3>2 DEF link_before
      <3> HIDE DEF g, linked, pos
      <3>5. \A k \in 1 .. Len(s) :
              /\ g[s[k]].prev = IF k = pos THEN new ELSE h[s[k]].prev
              /\ g[s[k]].next = IF k = pos - 1 THEN new ELSE h[s[k]].next
        BY <1>2, <1>7, <3>1, <3>3
      <3>6. Result(g, s[pos - 1], s[pos])
        BY <1>1, <2>0, <2>4, <3>1, <3>2, <3>3, <3>4, <3>5
      <3> QED
        BY <2>1, <3>6
    <2>5. CASE /\ head # NULL /\ index > 0 /\ index >= size
               /\ linked(new, [h EXCEPT ![ref].next = new], ref, NULL)
               /\ UNCHANGED head
      <3>1. /\ Len(s) # 0 /\ pos = Len(s) + 1 /\ ref = s[Len(s)] /\ Len(s) \in 1 .. Len(s)
        BY <1>1, <1>3, <1>4, <1>5, <1>6, <2>5 DEF L!Clamp
      <3>2. ref \in DOMAIN h /\ ref \in Addr0
        BY <1>1, <1>7, <3>1 DEF Addr0
      <3> HIDE DEF ref
      <3> DEFINE g == [h EXCEPT ![ref].next = new]
      <3>3. /\ SameElements(g, h)
            /\ \A b \in DOMAIN h : /\ g[b].next = IF b = ref THEN new ELSE h[b].next
                                   /\ g[b].prev = h[b].prev
        BY <2>0, <3>2, SetNext
      <3>4. linked(new, g, ref, NULL)
        BY <2>5
      <3> HIDE DEF g, linked, pos
      <3>5. \A k \in 1 .. Len(s) :
              /\ g[s[k]].prev = IF k = pos THEN new ELSE h[s[k]].prev
              /\ g[s[k]].next = IF k = pos - 1 THEN new ELSE h[s[k]].next
        <4>1. \A k \in 1 .. Len(s) : k # pos /\ (k = pos - 1 <=> s[k] = ref)
          BY <1>1, <1>2, <3>1
        <4> QED
          BY <1>7, <3>3, <4>1
      <3>6. Result(g, ref, NULL)
        BY <1>1, <2>0, <2>5, <3>1, <3>2, <3>3, <3>4, <3>5
      <3> QED
        BY <2>1, <3>6
    <2> QED
      BY <1>9, <2>2, <2>3, <2>4, <2>5
  <1> QED
    BY <1>3, <1>8, <1>9 DEF insert_at_index

\* The heap without the node at position pos of s.
Removed(s, pos) ==
  /\ Linked(heap', head', RemoveAt(s, pos))
  /\ heap' \in [DOMAIN heap \ {s[pos]} -> NodeType]
  /\ \A a \in DOMAIN heap \ {s[pos]} : heap'[a].element = heap[a].element

Freed(f, g, h, d) ==
  /\ f \in [DOMAIN h \ {d} -> NodeType] /\ DOMAIN f = DOMAIN h \ {d}
  /\ \A a \in DOMAIN h \ {d} : /\ f[a].element = h[a].element
                               /\ f[a].prev = g[a].prev /\ f[a].next = g[a].next

LEMMA FreeFacts ==
  ASSUME NEW h, NEW g, SameElements(g, h), NEW d, d \in DOMAIN h
  PROVE  Freed(free(g, d), g, h, d)
  <1>1. DOMAIN g = DOMAIN h
    BY DEF SameElements
  <1>2. free(g, d) \in [DOMAIN h \ {d} -> NodeType] /\ DOMAIN free(g, d) = DOMAIN h \ {d}
    BY <1>1 DEF free, SameElements
  <1>3. \A a \in DOMAIN h \ {d} : free(g, d)[a] = g[a]
    BY <1>1 DEF free
  <1> QED
    BY <1>2, <1>3 DEF SameElements, Freed

LEMMA RemoveStep ==
  ASSUME NEW s, Linked(heap, head, s), heap \in [DOMAIN heap -> NodeType],
         NEW index \in Int, dpl_remove_at_index(index)
  PROVE  \/ /\ status = "live" /\ Len(s) # 0 /\ UNCHANGED status
            /\ L!Clamp(index, Len(s)) \in 1 .. Len(s)
            /\ Removed(s, L!Clamp(index, Len(s)))
         \/ status = "live" /\ Len(s) = 0 /\ UNCHANGED <<status, head, heap>>
         \/ status = "NULL" /\ abort
  <1> DEFINE size  == dpl_size
             dummy == dpl_get_reference_at_index(IF size > 1 THEN index ELSE 0)
             p == heap[dummy].prev
             n == heap[dummy].next
             pos == L!Clamp(index, Len(s))
  <1>1. /\ s \in Seq(Addr) /\ Len(s) \in Nat /\ \A k \in 1 .. Len(s) : s[k] \in Addr
    BY LinkedFinite
  <1>2. /\ \A j, k \in 1 .. Len(s) : s[j] = s[k] => j = k
        /\ DOMAIN heap = {s[k] : k \in 1 .. Len(s)}
        /\ head = IF Len(s) = 0 THEN NULL ELSE s[1]
        /\ \A k \in 1 .. Len(s) : /\ heap[s[k]].prev = IF k = 1 THEN NULL ELSE s[k - 1]
                                  /\ heap[s[k]].next = IF k = Len(s) THEN NULL ELSE s[k + 1]
    BY DEF Linked
  <1>3. size = Len(s)
    BY WalkFacts
  <1>4. head = NULL <=> Len(s) = 0
    <2>1. Len(s) # 0 => 1 \in 1 .. Len(s)
      BY <1>1
    <2> QED
      BY <1>1, <1>2, <2>1, NULLAssumption
  <1>5. \A k \in 1 .. Len(s) : s[k] \in DOMAIN heap
    BY <1>2
  <1>6. CASE status = "live" /\ head = NULL /\ UNCHANGED <<status, head, heap>>
    BY <1>4, <1>6
  <1>7. CASE status = "NULL" /\ abort
    BY <1>7
  <1>8. ASSUME status = "live", head # NULL, UNCHANGED status,
               \/ /\ size > 1 /\ index <= 0
                  /\ head' = n
                  /\ heap' = free([heap EXCEPT ![n].prev = NULL], dummy)
               \/ /\ size > 1 /\ index > 0 /\ n # NULL
                  /\ heap' = free([heap EXCEPT ![n].prev = p, ![p].next = n], dummy)
                  /\ UNCHANGED head
               \/ /\ size > 1 /\ index > 0 /\ n = NULL
                  /\ heap' = free([heap EXCEPT ![p].next = NULL], dummy)
                  /\ UNCHANGED head
               \/ /\ size <= 1
                  /\ head' = NULL
                  /\ heap' = free(heap, dummy)
        PROVE  Len(s) # 0 /\ pos \in 1 .. Len(s) /\ Removed(s, pos)
    <2>1. Len(s) # 0
      BY <1>4, <1>8
    <2>2. pos \in 1 .. Len(s) /\ dummy = s[pos]
      <3>1. \A i \in Int : /\ L!Clamp(i, Len(s)) \in 1 .. Len(s)
                           /\ dpl_get_reference_at_index(i) = s[L!Clamp(i, Len(s))]
        BY <2>1, ReferenceFacts
      <3>2. size > 1 \/ (size = 1 /\ L!Clamp(0, Len(s)) = 1 /\ pos = 1)
        BY <1>1, <1>3, <2>1 DEF L!Clamp
      <3> QED
        BY <3>1, <3>2
    <2>3. /\ dummy \in DOMAIN heap /\ NULL \in Addr0
          /\ p = IF pos = 1 THEN NULL ELSE s[pos - 1]
          /\ n = IF pos = Len(s) THEN NULL ELSE s[pos + 1]
          /\ index <= 0 => pos = 1
          /\ size > 1 /\ index > 0 => pos > 1
      <3>1. index <= 0 => pos = 1
        BY <1>1, <2>1 DEF L!Clamp
      <3>2. size > 1 /\ index > 0 => pos > 1
        BY <1>1, <1>3, <2>1 DEF L!Clamp
      <3> HIDE DEF pos, dummy
      <3> QED
        BY <1>2, <1>5, <2>2, <3>1, <3>2 DEF Addr0
    <2> HIDE DEF pos, dummy, size
    <2> DEFINE Result(g) ==
                 /\ SameElements(g, heap) /\ heap' = free(g, dummy)
                 /\ head' = IF pos = 1 THEN n ELSE head
                 /\ \A k \in 1 .. Len(s) : k # pos =>
                      /\ g[s[k]].prev = IF k = pos + 1 THEN p ELSE heap[s[k]].prev
                      /\ g[s[k]].next = IF k = pos - 1 THEN n ELSE heap[s[k]].next
    <2>4. ASSUME NEW g, Result(g)
          PROVE  Removed(s, pos)
      <3>1. /\ heap' \in [DOMAIN heap \ {dummy} -> NodeType]
            /\ DOMAIN heap' = DOMAIN heap \ {dummy}
            /\ \A a \in DOMAIN heap \ {dummy} :
                 /\ heap'[a].element = heap[a].element
                 /\ heap'[a].prev = g[a].prev /\ heap'[a].next = g[a].next
        <4>1. SameElements(g, heap) /\ dummy \in DOMAIN heap /\ heap' = free(g, dummy)
          BY <2>3, <2>4
        <4>2. Freed(free(g, dummy), g, heap, dummy)
          BY <4>1, FreeFacts
        <4> QED
          BY <4>1, <4>2 DEF Freed
      <3>2. NodeGone(heap, head, s, pos, heap', head')
        <4>1. head' = IF pos = 1 THEN heap[s[1]].next ELSE head
          BY <2>2, <2>4
        <4>2. \A k \in 1 .. Len(s) : k # pos => s[k] \in DOMAIN heap \ {dummy}
          BY <1>2, <1>5, <2>2
        <4>3. \A k \in 1 .. Len(s) : k # pos =>
                /\ heap'[s[k]].prev = IF k = pos + 1 THEN heap[s[pos]].prev ELSE heap[s[k]].prev
                /\ heap'[s[k]].next = IF k = pos - 1 THEN heap[s[pos]].next ELSE heap[s[k]].next
          BY <2>2, <2>4, <3>1, <4>2
        <4> QED
          BY <2>2, <3>1, <4>1, <4>3 DEF NodeGone
      <3>3. Linked(heap', head', RemoveAt(s, pos))
        BY <3>2, LinkedRemove
      <3> QED
        BY <2>2, <3>1, <3>3 DEF Removed
    <2>5. CASE /\ size > 1 /\ index <= 0
               /\ head' = n
               /\ heap' = free([heap EXCEPT ![n].prev = NULL], dummy)
      <3>1. pos = 1 /\ 2 \in 1 .. Len(s) /\ n = s[2] /\ p = NULL
        BY <1>1, <1>3, <2>3, <2>5
      <3>2. n \in DOMAIN heap
        BY <1>5, <3>1
      <3> DEFINE g == [heap EXCEPT ![n].prev = NULL]
      <3> HIDE DEF n, p
      <3>3. /\ SameElements(g, heap)
            /\ \A b \in DOMAIN heap : /\ g[b].prev = IF b = n THEN NULL ELSE heap[b].prev
                                      /\ g[b].next = heap[b].next
        BY <2>3, <3>2, SetPrev
      <3>4. heap' = free(g, dummy)
        BY <2>5
      <3> HIDE DEF g
      <3>5. \A k \in 1 .. Len(s) : k # pos =>
              /\ g[s[k]].prev = IF k = pos + 1 THEN p ELSE heap[s[k]].prev
              /\ g[s[k]].next = IF k = pos - 1 THEN n ELSE heap[s[k]].next
        <4>1. \A k \in 1 .. Len(s) : k # pos - 1 /\ (k = pos + 1 <=> s[k] = n)
          BY <1>1, <1>2, <3>1
        <4> QED
          BY <1>5, <3>1, <3>3, <4>1
      <3>6. Result(g)
        BY <2>5, <3>1, <3>3, <3>4, <3>5
      <3> QED
        BY <2>1, <2>2, <2>4, <3>6
    <2>6. CASE /\ size > 1 /\ index > 0 /\ n # NULL
               /\ heap' = free([heap EXCEPT ![n].prev = p, ![p].next = n], dummy)
               /\ UNCHANGED head
      <3>1. /\ pos - 1 \in 1 .. Len(s) /\ pos + 1 \in 1 .. Len(s) /\ pos \in Nat /\ pos # 1
            /\ n = s[pos + 1] /\ p = s[pos - 1]
        BY <1>1, <2>2, <2>3, <2>6
      <3>2. n \in DOMAIN heap /\ p \in DOMAIN heap /\ n # p /\ n \in Addr0 /\ p \in Addr0
        BY <1>1, <1>2, <1>5, <3>1 DEF Addr0
      <3> DEFINE g == [heap EXCEPT ![n].prev = p, ![p].next = n]
      <3> HIDE DEF n, p
      <3>3. /\ SameElements(g, heap)
            /\ \A b \in DOMAIN heap : /\ g[b].next = IF b = p THEN n ELSE heap[b].next
                                      /\ g[b].prev = IF b = n THEN p ELSE heap[b].prev
        BY <3>2 DEF NodeType, SameElements
      <3>4. heap' = free(g, dummy)
        BY <2>6
      <3> HIDE DEF g
      <3>5. \A k \in 1 .. Len(s) : k # pos =>
              /\ g[s[k]].prev = IF k = pos + 1 THEN p ELSE heap[s[k]].prev
              /\ g[s[k]].next = IF k = pos - 1 THEN n ELSE heap[s[k]].next
        BY <1>2, <1>5, <3>1, <3>3
      <3>6. Result(g)
        BY <2>6, <3>1, <3>3, <3>4, <3>5
      <3> QED
        BY <2>1, <2>2, <2>4, <3>6
    <2>7. CASE /\ size > 1 /\ index > 0 /\ n = NULL
               /\ heap' = free([heap EXCEPT ![p].next = NULL], dummy)
               /\ UNCHANGED head
      <3>0. pos + 1 \in 1 .. Len(s) => n = s[pos + 1] /\ n \in Addr
        BY <1>1, <2>2, <2>3
      <3>1. /\ pos - 1 \in 1 .. Len(s) /\ pos = Len(s) /\ pos # 1 /\ p = s[pos - 1]
        BY <1>1, <2>2, <2>3, <2>7, <3>0, NULLAssumption
      <3>2. p \in DOMAIN heap
        BY <1>5, <3>1
      <3> DEFINE g == [heap EXCEPT ![p].next = NULL]
      <3> HIDE DEF n, p
      <3>3. /\ SameElements(g, heap)
            /\ \A b \in DOMAIN heap : /\ g[b].next = IF b = p THEN NULL ELSE heap[b].next
                                      /\ g[b].prev = heap[b].prev
        BY <2>3, <3>2, SetNext
      <3>4. heap' = free(g, dummy)
        BY <2>7
      <3> HIDE DEF g
      <3>5. \A k \in 1 .. Len(s) : k # pos =>
              /\ g[s[k]].prev = IF k = pos + 1 THEN p ELSE heap[s[k]].prev
              /\ g[s[k]].next = IF k = pos - 1 THEN n ELSE heap[s[k]].next
        <4>1. \A k \in 1 .. Len(s) : k # pos + 1 /\ (k = pos - 1 <=> s[k] = p)
          BY <1>1, <1>2, <3>1
        <4> QED
          BY <1>5, <2>7, <3>3, <4>1
      <3>6. Result(g)
        BY <2>7, <3>1, <3>3, <3>4, <3>5
      <3> QED
        BY <2>1, <2>2, <2>4, <3>6
    <2>8. CASE /\ size <= 1
               /\ head' = NULL
               /\ heap' = free(heap, dummy)
      <3>1. Len(s) = 1 /\ pos = 1 /\ n = NULL
        BY <1>1, <1>3, <2>1, <2>2, <2>3, <2>8
      <3>2. Result(heap)
        BY <2>8, <3>1 DEF SameElements
      <3> QED
        BY <2>1, <2>2, <2>4, <3>2
    <2> QED
      BY <1>8, <2>1, <2>2, <2>5, <2>6, <2>7, <2>8
  <1> QED
    BY <1>6, <1>7, <1>8 DEF dpl_remove_at_index
-----------------------------------------------------------------------------
(* The sort.                                                               *)

Occurrences(es, x) == {j \in 1 .. Len(es) : es[j] = x}

\* fs holds the elements of es, each as often as es does.
Rearranged(es, fs) ==
  /\ fs \in Seq(Element) /\ Len(fs) = Len(es)
  /\ \A x \in Element : Cardinality(Occurrences(fs, x)) = Cardinality(Occurrences(es, x))

\* The order of the keys.
InOrder(es) == \A k \in 1 .. Len(es) - 1 : Key[es[k]] <= Key[es[k + 1]]

LEMMA OccurrencesFinite ==
  ASSUME NEW es \in Seq(Element), NEW x
  PROVE  IsFiniteSet(Occurrences(es, x)) /\ Cardinality(Occurrences(es, x)) \in Nat
  <1>1. 1 \in Int /\ Len(es) \in Int
    OBVIOUS
  <1>2. IsFiniteSet(1 .. Len(es))
    BY <1>1, FS_Interval
  <1>3. Occurrences(es, x) \in SUBSET (1 .. Len(es))
    BY DEF Occurrences
  <1>4. IsFiniteSet(Occurrences(es, x))
    BY <1>2, <1>3, FS_Subset
  <1> QED
    BY <1>4, FS_CardinalityType

\* One exchange: the two elements are in order afterwards, if they were before
\* nothing changes, and no other element does.
LEMMA SwapFacts ==
  ASSUME NEW es \in Seq(Element), NEW k \in 1 .. Len(es) - 1
  PROVE  LET t == swap(es, k) IN
         /\ Rearranged(es, t)
         /\ \A j \in 1 .. Len(es) : j # k /\ j # k + 1 => t[j] = es[j]
         /\ Key[t[k]] <= Key[t[k + 1]]
         /\ \/ t[k] = es[k] /\ t[k + 1] = es[k + 1]
            \/ t[k] = es[k + 1] /\ t[k + 1] = es[k]
         /\ Key[es[k]] <= Key[es[k + 1]] => t = es
  <1> DEFINE t == swap(es, k)
  <1>1. /\ Len(es) \in Nat /\ k \in 1 .. Len(es) /\ k + 1 \in 1 .. Len(es) /\ k # k + 1
        /\ es[k] \in Element /\ es[k + 1] \in Element
        /\ Key[es[k]] \in Int /\ Key[es[k + 1]] \in Int
    BY KeyAssumption
  <1>2. CASE Key[es[k]] <= Key[es[k + 1]]
    <2>1. t = es
      BY <1>1, <1>2 DEF swap, compare
    <2> QED
      BY <1>2, <2>1 DEF Rearranged
  <1>3. CASE Key[es[k]] > Key[es[k + 1]]
    <2>1. t = [es EXCEPT ![k] = es[k + 1], ![k + 1] = es[k]]
      BY <1>1, <1>3 DEF swap, compare
    <2>2. /\ t \in Seq(Element) /\ Len(t) = Len(es)
          /\ t[k] = es[k + 1] /\ t[k + 1] = es[k]
          /\ \A j \in 1 .. Len(es) : j # k /\ j # k + 1 => t[j] = es[j]
      BY <1>1, <2>1
    <2> HIDE DEF t
    <2>3. ASSUME NEW x \in Element
          PROVE  Cardinality(Occurrences(t, x)) = Cardinality(Occurrences(es, x))
      <3> DEFINE A == Occurrences(es, x)
                 B == Occurrences(t, x)
                 o(j) == IF j = k THEN k + 1 ELSE IF j = k + 1 THEN k ELSE j
                 f == [j \in A |-> o(j)]
      <3>1. \A j \in 1 .. Len(es) : o(j) \in 1 .. Len(es) /\ o(o(j)) = j /\ t[o(j)] = es[j] /\ t[j] = es[o(j)]
        BY <1>1, <2>2
      <3>2. f \in [A -> B]
        BY <2>2, <3>1 DEF Occurrences
      <3>3. \A i, j \in A : f[i] = f[j] => i = j
        BY <3>1 DEF Occurrences
      <3>4. \A j \in B : \E i \in A : f[i] = j
        <4> TAKE j \in B
        <4>1. o(j) \in A /\ o(o(j)) = j
          BY <2>2, <3>1 DEF Occurrences
        <4> QED
          BY <4>1
      <3> HIDE DEF f
      <3>5. f \in Bijection(A, B)
        BY <3>2, <3>3, <3>4 DEF Bijection, Injection, Surjection, IsInjective
      <3>6. ExistsBijection(A, B)
        BY <3>5 DEF ExistsBijection
      <3>7. IsFiniteSet(A)
        BY OccurrencesFinite
      <3> HIDE DEF A, B
      <3>8. Cardinality(B) = Cardinality(A)
        BY <3>6, <3>7, FS_Bijection
      <3> QED
        BY <3>8 DEF A, B
    <2>4. Rearranged(es, t)
      BY <2>2, <2>3 DEF Rearranged
    <2> QED
      BY <1>1, <1>3, <2>2, <2>4 DEF t
  <1> QED
    BY <1>1, <1>2, <1>3

\* What the first swaps of a pass have done, up to position m: the greatest of
\* the first m elements is the last of them.
Passed(es, m, t) ==
  /\ Rearranged(es, t)
  /\ \A j \in 1 .. Len(es) : j > m => t[j] = es[j]
  /\ \A j \in 1 .. m : Key[t[j]] <= Key[t[m]]
  /\ \A b \in Int : (\A j \in 1 .. m : Key[es[j]] <= b) => \A j \in 1 .. m : Key[t[j]] <= b
  /\ InOrder(es) => t = es

LEMMA PassStep ==
  ASSUME NEW es \in Seq(Element), NEW k \in 1 .. Len(es) - 1, NEW t, Passed(es, k, t)
  PROVE  Passed(es, k + 1, swap(t, k))
  <1> DEFINE u == swap(t, k)
  <1>1. /\ t \in Seq(Element) /\ Len(t) = Len(es) /\ Len(es) \in Nat
        /\ k \in 1 .. Len(t) - 1 /\ k \in 1 .. Len(es) /\ k + 1 \in 1 .. Len(es)
        /\ \A j \in 1 .. Len(es) : /\ es[j] \in Element /\ t[j] \in Element
                                   /\ Key[es[j]] \in Int /\ Key[t[j]] \in Int
    BY KeyAssumption DEF Passed, Rearranged
  <1>2. /\ Rearranged(t, u)
        /\ \A j \in 1 .. Len(t) : j # k /\ j # k + 1 => u[j] = t[j]
        /\ Key[u[k]] <= Key[u[k + 1]]
        /\ \/ u[k] = t[k] /\ u[k + 1] = t[k + 1]
           \/ u[k] = t[k + 1] /\ u[k + 1] = t[k]
        /\ Key[t[k]] <= Key[t[k + 1]] => u = t
    BY <1>1, SwapFacts
  <1> HIDE DEF u
  <1>3. Rearranged(es, u)
    BY <1>1, <1>2 DEF Passed, Rearranged
  <1>4. \A j \in 1 .. Len(es) : j > k => t[j] = es[j]
    BY DEF Passed
  <1>5. \A j \in 1 .. Len(es) : j > k + 1 => u[j] = es[j]
    BY <1>1, <1>2, <1>4
  <1>6. ASSUME NEW j \in 1 .. k + 1 PROVE Key[u[j]] <= Key[u[k + 1]]
    <2>1. \A i \in 1 .. k : Key[t[i]] <= Key[t[k]]
      BY DEF Passed
    <2>2. CASE j \in 1 .. k - 1
      <3>1. j \in 1 .. k /\ j \in 1 .. Len(es) /\ u[j] = t[j]
        BY <1>1, <1>2, <2>2
      <3>2. Key[t[k]] <= Key[u[k + 1]]
        BY <1>1, <1>2
      <3> QED
        BY <1>1, <1>2, <2>1, <3>1, <3>2
    <2>3. CASE j = k
      BY <1>2, <2>3
    <2>4. CASE j = k + 1
      BY <1>1, <1>2, <2>4
    <2> QED
      BY <2>2, <2>3, <2>4
  <1>7. ASSUME NEW b \in Int, \A j \in 1 .. k + 1 : Key[es[j]] <= b, NEW j \in 1 .. k + 1
        PROVE  Key[u[j]] <= b
    <2>1. \A i \in 1 .. k : Key[t[i]] <= b
      <3>1. \A i \in 1 .. k : Key[es[i]] <= b
        BY <1>1, <1>7
      <3> QED
        BY <3>1 DEF Passed
    <2>2. Key[t[k + 1]] <= b
      BY <1>1, <1>4, <1>7
    <2>3. Key[t[k]] <= b
      BY <1>1, <2>1
    <2>4. CASE j \in 1 .. k - 1
      <3>1. j \in 1 .. k /\ j \in 1 .. Len(t) /\ u[j] = t[j]
        BY <1>1, <1>2, <2>4
      <3> QED
        BY <2>1, <3>1
    <2>5. CASE j = k \/ j = k + 1
      BY <1>2, <2>2, <2>3, <2>5
    <2> QED
      BY <1>1, <2>4, <2>5
  <1>8. InOrder(es) => u = es
    BY <1>1, <1>2 DEF Passed, InOrder
  <1> QED
    BY <1>3, <1>5, <1>6, <1>7, <1>8 DEF Passed, u

\* A recursive function of 0 .. m, as LET defines it, takes the steps it says.
LEMMA PassExists ==
  ASSUME NEW es \in Seq(Element), NEW m \in Nat, m <= Len(es) - 1
  PROVE  \E f : f = [k \in 0 .. m |-> IF k = 0 THEN es ELSE swap(f[k - 1], k)]
  <1> DEFINE S == {t \in Seq(Element) : Len(t) = Len(es)}
             R == 1 .. Len(es) - 1
             G == [p \in S \X Nat |-> IF p[2] \in R THEN swap(p[1], p[2]) ELSE p[1]]
  <1>1. es \in S
    OBVIOUS
  <1>2. \A t \in S, k \in R : swap(t, k) \in S
    <2> TAKE t \in S, k \in R
    <2>1. t \in Seq(Element) /\ k \in 1 .. Len(t) - 1
      OBVIOUS
    <2>2. Rearranged(t, swap(t, k))
      BY <2>1, SwapFacts
    <2> QED
      BY <2>2 DEF Rearranged
  <1> HIDE DEF S, R
  <1>3. G \in [S \X Nat -> S]
    <2>1. ASSUME NEW p \in S \X Nat
          PROVE  (IF p[2] \in R THEN swap(p[1], p[2]) ELSE p[1]) \in S
      BY <1>2
    <2> QED
      BY <2>1
  <1>4. \A t \in S, k \in R : k \in Nat => G[<<t, k>>] = swap(t, k)
    OBVIOUS
  <1> HIDE DEF G
  <1>a. PICK f : Recursion(f, S, es, G, m)
    BY <1>1, <1>3, RecursionExists
  <1>5. /\ f \in [0 .. m -> S] /\ f[0] = es
        /\ \A k \in 1 .. m : f[k] = G[<<f[k - 1], k>>]
    BY <1>a DEF Recursion
  <1>6. ASSUME NEW k \in 0 .. m PROVE f[k] = IF k = 0 THEN es ELSE swap(f[k - 1], k)
    <2>1. CASE k # 0
      <3>1. k \in 1 .. m /\ k - 1 \in 0 .. m /\ k \in Nat /\ k \in R
        BY <2>1 DEF R
      <3>2. f[k - 1] \in S
        BY <1>5, <3>1
      <3> QED
        BY <1>4, <1>5, <2>1, <3>1, <3>2
    <2> QED
      BY <1>5, <2>1
  <1>7. f = [k \in 0 .. m |-> IF k = 0 THEN es ELSE swap(f[k - 1], k)]
    BY <1>5, <1>6
  <1> QED
    BY <1>7

\* One pass.
LEMMA PassFacts ==
  ASSUME NEW es \in Seq(Element), NEW last \in 1 .. Len(es)
  PROVE  Passed(es, last, bubble_pass(es, last))
  <1> DEFINE W(f) == [k \in 0 .. last - 1 |-> IF k = 0 THEN es ELSE swap(f[k - 1], k)]
             pass == CHOOSE f : f = W(f)
  <1>1. Len(es) \in Nat /\ last - 1 \in Nat /\ last - 1 <= Len(es) - 1
    OBVIOUS
  <1>2. \E f : f = W(f)
    BY <1>1, PassExists
  <1>3. pass = W(pass)
    BY <1>2, Zenon
  <1>4. bubble_pass(es, last) = pass[last - 1]
    BY Zenon DEF bubble_pass
  <1> HIDE DEF pass
  <1>5. /\ pass[0] = es
        /\ \A k \in 1 .. last - 1 : pass[k] = swap(pass[k - 1], k)
    BY <1>3
  <1> DEFINE P == {k \in Nat : k <= last - 1 => Passed(es, k + 1, pass[k])}
  <1>6. 0 \in P
    <2>1. Passed(es, 1, es)
      <3>1. Rearranged(es, es)
        BY DEF Rearranged
      <3>2. Key[es[1]] \in Int
        BY <1>1, KeyAssumption
      <3> QED
        BY <3>1, <3>2 DEF Passed
    <2> QED
      BY <1>5, <2>1
  <1>7. ASSUME NEW k \in Nat, k \in P PROVE k + 1 \in P
    <2> SUFFICES ASSUME k + 1 <= last - 1 PROVE Passed(es, (k + 1) + 1, pass[k + 1])
      OBVIOUS
    <2>1. k + 1 \in 1 .. last - 1 /\ k + 1 \in 1 .. Len(es) - 1 /\ k <= last - 1 /\ (k + 1) - 1 = k
      BY <1>1
    <2>2. Passed(es, k + 1, pass[k]) /\ pass[k + 1] = swap(pass[k], k + 1)
      BY <1>5, <1>7, <2>1
    <2> QED
      BY <2>1, <2>2, PassStep
  <1>8. Nat \subseteq P
    <2> HIDE DEF P
    <2> QED
      BY <1>6, <1>7, SetInduction
  <1>9. Passed(es, (last - 1) + 1, pass[last - 1]) /\ (last - 1) + 1 = last
    BY <1>1, <1>8
  <1> QED
    BY <1>4, <1>9

\* What the first p passes have done: the last p elements are in their places.
Sorted(es, p, t) ==
  /\ Rearranged(es, t)
  /\ \A j \in 1 .. Len(es) : j > Len(es) - p => \A i \in 1 .. j : Key[t[i]] <= Key[t[j]]
  /\ InOrder(es) => t = es

LEMMA SortStep ==
  ASSUME NEW es \in Seq(Element), NEW p \in 1 .. Len(es), NEW t, Sorted(es, p - 1, t)
  PROVE  Sorted(es, p, bubble_pass(t, Len(es) - p + 1))
  <1> DEFINE last == Len(es) - p + 1
             u == bubble_pass(t, last)
  <1>1. /\ t \in Seq(Element) /\ Len(t) = Len(es) /\ Len(es) \in Nat
        /\ last \in 1 .. Len(t) /\ last \in 1 .. Len(es)
        /\ \A j \in 1 .. Len(es) : t[j] \in Element /\ Key[t[j]] \in Int
    BY KeyAssumption DEF Sorted, Rearranged
  <1>2. Passed(t, last, u)
    BY <1>1, PassFacts
  <1>3. \A j \in 1 .. Len(es) : j > last => \A i \in 1 .. j : Key[t[i]] <= Key[t[j]]
    BY <1>1 DEF Sorted
  <1>4. \A j \in 1 .. Len(es) : j > Len(es) - p => j = last \/ j > last
    BY <1>1
  <1> HIDE DEF last, u
  <1>5. Rearranged(es, u)
    BY <1>1, <1>2 DEF Passed, Sorted, Rearranged
  <1>6. ASSUME NEW j \in 1 .. Len(es), j > Len(es) - p, NEW i \in 1 .. j
        PROVE  Key[u[i]] <= Key[u[j]]
    <2>1. \A n \in 1 .. Len(t) : n > last => u[n] = t[n]
      BY <1>2 DEF Passed
    <2>2. CASE j = last
      BY <1>2, <2>2 DEF Passed
    <2>3. CASE j > last
      <3>1. u[j] = t[j] /\ Key[t[j]] \in Int /\ \A n \in 1 .. j : Key[t[n]] <= Key[t[j]]
        BY <1>1, <1>3, <2>1, <2>3
      <3>2. CASE i > last
        BY <1>1, <2>1, <3>1, <3>2
      <3>3. CASE i <= last
        <4>1. i \in 1 .. last /\ \A n \in 1 .. last : Key[t[n]] <= Key[t[j]]
          BY <1>1, <2>3, <3>1, <3>3
        <4>2. \A n \in 1 .. last : Key[u[n]] <= Key[t[j]]
          BY <1>2, <3>1, <4>1 DEF Passed
        <4> QED
          BY <3>1, <4>1, <4>2
      <3> QED
        BY <1>1, <3>2, <3>3
    <2> QED
      BY <1>4, <1>6, <2>2, <2>3
  <1>7. InOrder(es) => u = es
    BY <1>2 DEF Passed, Sorted
  <1> QED
    BY <1>5, <1>6, <1>7 DEF Sorted, last, u

LEMMA SortExists ==
  ASSUME NEW es \in Seq(Element)
  PROVE  \E f : f = [p \in 0 .. Len(es) |-> IF p = 0 THEN es
                                            ELSE bubble_pass(f[p - 1], Len(es) - p + 1)]
  <1> DEFINE S == {t \in Seq(Element) : Len(t) = Len(es)}
             R == 1 .. Len(es)
             pass(t, k) == bubble_pass(t, Len(es) - k + 1)
             G == [p \in S \X Nat |-> IF p[2] \in R THEN pass(p[1], p[2]) ELSE p[1]]
  <1>1. es \in S /\ Len(es) \in Nat
    OBVIOUS
  <1>2. \A t \in S, k \in R : pass(t, k) \in S
    <2> TAKE t \in S, k \in R
    <2>1. t \in Seq(Element) /\ Len(es) - k + 1 \in 1 .. Len(t)
      BY <1>1
    <2>2. Passed(t, Len(es) - k + 1, pass(t, k))
      BY <2>1, PassFacts
    <2> QED
      BY <2>2 DEF Passed, Rearranged
  <1> HIDE DEF S, R, pass
  <1>3. G \in [S \X Nat -> S]
    <2>1. ASSUME NEW p \in S \X Nat
          PROVE  (IF p[2] \in R THEN pass(p[1], p[2]) ELSE p[1]) \in S
      BY <1>2
    <2> QED
      BY <2>1
  <1>4. \A t \in S, k \in R : k \in Nat => G[<<t, k>>] = pass(t, k)
    OBVIOUS
  <1> HIDE DEF G
  <1>a. PICK f : Recursion(f, S, es, G, Len(es))
    BY <1>1, <1>3, RecursionExists
  <1>5. /\ f \in [0 .. Len(es) -> S] /\ f[0] = es
        /\ \A k \in 1 .. Len(es) : f[k] = G[<<f[k - 1], k>>]
    BY <1>a DEF Recursion
  <1>6. ASSUME NEW k \in 0 .. Len(es) PROVE f[k] = IF k = 0 THEN es ELSE pass(f[k - 1], k)
    <2>1. CASE k # 0
      <3>1. k \in 1 .. Len(es) /\ k - 1 \in 0 .. Len(es) /\ k \in Nat /\ k \in R
        BY <1>1, <2>1 DEF R
      <3>2. f[k - 1] \in S
        BY <1>5, <3>1
      <3> QED
        BY <1>4, <1>5, <2>1, <3>1, <3>2
    <2> QED
      BY <1>5, <2>1
  <1>7. f = [p \in 0 .. Len(es) |-> IF p = 0 THEN es ELSE pass(f[p - 1], p)]
    BY <1>5, <1>6
  <1> QED
    BY <1>7 DEF pass

\* The sort sorts: all elements are in their places after the last pass.
LEMMA SortFacts ==
  ASSUME NEW es \in Seq(Element)
  PROVE  LET t == bubble_sort(es) IN
         /\ Rearranged(es, t)
         /\ \A j \in 1 .. Len(es) : \A i \in 1 .. j : Key[t[i]] <= Key[t[j]]
         /\ InOrder(es) => t = es
  <1> DEFINE W(f) == [p \in 0 .. Len(es) |-> IF p = 0 THEN es
                                             ELSE bubble_pass(f[p - 1], Len(es) - p + 1)]
             sort == CHOOSE f : f = W(f)
  <1>1. Len(es) \in Nat
    OBVIOUS
  <1>2. \E f : f = W(f)
    BY SortExists
  <1>3. sort = W(sort)
    BY <1>2, Zenon
  <1>4. bubble_sort(es) = sort[Len(es)]
    BY Zenon DEF bubble_sort
  <1> HIDE DEF sort
  <1>5. /\ sort[0] = es
        /\ \A p \in 1 .. Len(es) : sort[p] = bubble_pass(sort[p - 1], Len(es) - p + 1)
    BY <1>1, <1>3
  <1> DEFINE P == {p \in Nat : p <= Len(es) => Sorted(es, p, sort[p])}
  <1>6. 0 \in P
    <2>1. Sorted(es, 0, es)
      BY <1>1 DEF Sorted, Rearranged
    <2> QED
      BY <1>5, <2>1
  <1>7. ASSUME NEW p \in Nat, p \in P PROVE p + 1 \in P
    <2> SUFFICES ASSUME p + 1 <= Len(es) PROVE Sorted(es, p + 1, sort[p + 1])
      OBVIOUS
    <2>1. p + 1 \in 1 .. Len(es) /\ p <= Len(es) /\ (p + 1) - 1 = p
      BY <1>1
    <2>2. /\ Sorted(es, (p + 1) - 1, sort[p])
          /\ sort[p + 1] = bubble_pass(sort[p], Len(es) - (p + 1) + 1)
      BY <1>5, <1>7, <2>1
    <2> HIDE DEF P
    <2> QED
      BY <2>1, <2>2, SortStep
  <1>8. Nat \subseteq P
    <2> HIDE DEF P
    <2> QED
      BY <1>6, <1>7, SetInduction
  <1>9. Sorted(es, Len(es), sort[Len(es)])
    BY <1>1, <1>8
  <1>10. \A j \in 1 .. Len(es) : j > Len(es) - Len(es)
    BY <1>1
  <1> QED
    BY <1>4, <1>9, <1>10 DEF Sorted
-----------------------------------------------------------------------------
(* The indices that the operations look up.                                *)

\* The first of the positions I, 0 when there is none.
First(I) == IF I # {} THEN Min(I) ELSE 0

LEMMA FirstFacts ==
  ASSUME NEW n \in Nat, NEW I, I \subseteq 1 .. n
  PROVE  /\ First(I) \in 0 .. n
         /\ First(I) = 0 <=> I = {}
         /\ I # {} => First(I) \in I
         /\ \A i \in I : First(I) <= i
  <1>1. I \subseteq Nat /\ \A i \in I : i \in 1 .. n
    OBVIOUS
  <1>2. I # {} => Min(I) \in I /\ \A i \in I : Min(I) <= i
    BY <1>1, MinFacts
  <1>3. CASE I = {}
    BY <1>3 DEF First
  <1>4. CASE I # {}
    <2>1. First(I) \in I /\ (\A i \in I : First(I) <= i) /\ First(I) \in 1 .. n
      BY <1>1, <1>2, <1>4 DEF First
    <2> QED
      BY <1>4, <2>1
  <1> QED
    BY <1>3, <1>4

PlacesOfRef(s, r) == {i \in 1 .. Len(s) : s[i] = r}
PlacesOfElement(h, s, e) == {i \in 1 .. Len(s) : compare(h[s[i]].element, e) = 0}

LEMMA IndexFacts ==
  ASSUME NEW s, Linked(heap, head, s)
  PROVE  /\ \A r : dpl_get_index_of_reference(r) =
                     IF r = NULL THEN Len(s) - 1 ELSE First(PlacesOfRef(s, r)) - 1
         /\ \A r : First(PlacesOfRef(s, r)) \in 0 .. Len(s)
         /\ \A e : dpl_get_index_of_element(e) = First(PlacesOfElement(heap, s, e)) - 1
         /\ \A e : First(PlacesOfElement(heap, s, e)) \in 0 .. Len(s)
  <1>1. Chain = s /\ dpl_size = Len(s)
    BY WalkFacts
  <1>2. Len(s) \in Nat
    BY LinkedFinite
  <1>3. \A r : SelectInSeq(s, LAMBDA a : a = r) = First(PlacesOfRef(s, r))
    BY Zenon DEF SelectInSeq, First, PlacesOfRef
  <1>4. \A e : SelectInSeq(s, LAMBDA a : compare(heap[a].element, e) = 0)
                 = First(PlacesOfElement(heap, s, e))
    BY Zenon DEF SelectInSeq, First, PlacesOfElement
  <1>5. \A r : PlacesOfRef(s, r) \subseteq 1 .. Len(s)
    BY DEF PlacesOfRef
  <1>6. \A e : PlacesOfElement(heap, s, e) \subseteq 1 .. Len(s)
    BY DEF PlacesOfElement
  <1>7. \A r : dpl_get_index_of_reference(r) =
                 IF r = NULL THEN Len(s) - 1 ELSE First(PlacesOfRef(s, r)) - 1
    BY <1>1, <1>3, Zenon DEF dpl_get_index_of_reference
  <1>8. \A e : dpl_get_index_of_element(e) = First(PlacesOfElement(heap, s, e)) - 1
    BY <1>1, <1>4, Zenon DEF dpl_get_index_of_element
  <1> QED
    BY <1>2, <1>5, <1>6, <1>7, <1>8, FirstFacts
-----------------------------------------------------------------------------
(* insert_sorted sorts the elements and inserts into the sorted list.      *)

Elements(h, s) == [k \in DOMAIN s |-> h[s[k]].element]

\* The heap h with the elements es along s.
Refilled(h, s, es) ==
  [a \in DOMAIN h |-> Node(h[a].prev, h[a].next, es[CHOOSE k \in DOMAIN s : s[k] = a])]

LEMMA RefilledFacts ==
  ASSUME NEW h, NEW hd, NEW s, Linked(h, hd, s), h \in [DOMAIN h -> NodeType],
         NEW es \in Seq(Element), Len(es) = Len(s)
  PROVE  LET g == Refilled(h, s, es) IN
         /\ Linked(g, hd, s) /\ DOMAIN g = DOMAIN h /\ g \in [DOMAIN g -> NodeType]
         /\ \A k \in 1 .. Len(s) : g[s[k]].element = es[k]
  <1> DEFINE g == Refilled(h, s, es)
  <1>1. /\ s \in Seq(Addr) /\ Len(s) \in Nat /\ DOMAIN s = 1 .. Len(s)
        /\ DOMAIN h = {s[k] : k \in 1 .. Len(s)}
        /\ \A j, k \in 1 .. Len(s) : s[j] = s[k] => j = k
    BY LinkedFinite DEF Linked
  <1>2. ASSUME NEW k \in 1 .. Len(s)
        PROVE  g[s[k]] = Node(h[s[k]].prev, h[s[k]].next, es[k])
    <2>1. (CHOOSE j \in DOMAIN s : s[j] = s[k]) = k
      BY <1>1
    <2>2. s[k] \in DOMAIN h
      BY <1>1
    <2> QED
      BY <2>1, <2>2 DEF Refilled
  <1>3. DOMAIN g = DOMAIN h
    BY DEF Refilled
  <1> HIDE DEF g
  <1>4. \A k \in 1 .. Len(s) : /\ g[s[k]].prev = h[s[k]].prev /\ g[s[k]].next = h[s[k]].next
                               /\ g[s[k]].element = es[k] /\ g[s[k]] \in NodeType
    <2> TAKE k \in 1 .. Len(s)
    <2>1. h[s[k]] \in NodeType /\ es[k] \in Element /\ g[s[k]] = Node(h[s[k]].prev, h[s[k]].next, es[k])
      BY <1>1, <1>2
    <2>2. h[s[k]].prev \in Addr0 /\ h[s[k]].next \in Addr0
      BY <2>1 DEF NodeType
    <2> QED
      BY <2>1, <2>2 DEF Node, NodeType
  <1>5. \A a \in DOMAIN g : g[a] \in NodeType
    BY <1>1, <1>3, <1>4
  <1>6. g \in [DOMAIN g -> NodeType]
    BY <1>3, <1>5 DEF g, Refilled
  <1>7. Linked(g, hd, s)
    BY <1>1, <1>3, <1>4 DEF Linked
  <1> QED
    BY <1>3, <1>4, <1>6, <1>7 DEF g

\* The elements along s are a sequence.
LEMMA ElementsType ==
  ASSUME NEW h, NEW hd, NEW s, Linked(h, hd, s), h \in [DOMAIN h -> NodeType]
  PROVE  Elements(h, s) \in Seq(Element) /\ Len(Elements(h, s)) = Len(s)
  <1>1. /\ Len(s) \in Nat /\ DOMAIN s = 1 .. Len(s)
        /\ \A k \in 1 .. Len(s) : s[k] \in DOMAIN h
    BY LinkedFinite DEF Linked
  <1>2. Elements(h, s) \in [1 .. Len(s) -> Element]
    BY <1>1 DEF Elements, NodeType
  <1> QED
    BY <1>1, <1>2, FunctionIsSeq

\* Where the new element goes: before the first greater one, or to the end.
PlacesAbove(es, e) == {i \in 1 .. Len(es) : compare(es[i], e) = 1}
Above(es, e) ==
  IF First(PlacesAbove(es, e)) = 0 THEN Len(es) ELSE First(PlacesAbove(es, e)) - 1

LEMMA InsertSortedStep ==
  ASSUME NEW s, Linked(heap, head, s), heap \in [DOMAIN heap -> NodeType],
         NEW e, dpl_insert_sorted(e)
  PROVE  LET sorted == bubble_sort(Elements(heap, s)) IN
         \/ insert_at_index(Refilled(heap, s, sorted), e, Above(sorted, e))
         \/ (status = "NULL" \/ e = NULL) /\ abort
  <1> DEFINE sorted == bubble_sort(Elements(heap, s))
             first  == SelectInSeq(sorted, LAMBDA x : compare(x, e) = 1)
  <1>1. Chain = s /\ Len(s) \in Nat /\ DOMAIN s = 1 .. Len(s)
    BY WalkFacts, LinkedFinite
  <1>2. Rearranged(Elements(heap, s), sorted) /\ Len(Elements(heap, s)) = Len(s)
    BY ElementsType, SortFacts
  <1>3. Len(sorted) = Len(s)
    BY <1>2 DEF Rearranged
  <1>4. first = First(PlacesAbove(sorted, e))
    BY Zenon DEF SelectInSeq, First, PlacesAbove
  <1>6. \/ insert_at_index(Refilled(heap, s, sorted), e, IF first = 0 THEN Len(s) ELSE first - 1)
        \/ (status = "NULL" \/ e = NULL) /\ abort
    <2> DEFINE es == bubble_sort(Elements(heap, Chain))
               f  == SelectInSeq(es, LAMBDA x : compare(x, e) = 1)
    <2>1. \/ insert_at_index(Refilled(heap, Chain, es), e, IF f = 0 THEN Len(Chain) ELSE f - 1)
          \/ (status = "NULL" \/ e = NULL) /\ abort
      BY Zenon DEF dpl_insert_sorted, Refilled, Elements
    <2> QED
      BY <1>1, <2>1, Zenon
  <1> QED
    BY <1>3, <1>4, <1>6, Zenon DEF Above
-----------------------------------------------------------------------------
(* The invariant.                                                          *)

LEMMA KeepsIInv ==
  ASSUME NEW t, Linked(heap', head', t), heap' \in [DOMAIN heap' -> NodeType],
         status' \in {"NULL", "live", "aborted"}, status' = "NULL" => head' = NULL
  PROVE  IInv'
  <1>1. /\ t \in Seq(Addr) /\ Len(t) \in Nat /\ \A k \in 1 .. Len(t) : t[k] \in Addr
    BY LinkedFinite
  <1>2. /\ DOMAIN heap' = {t[k] : k \in 1 .. Len(t)}
        /\ head' = IF Len(t) = 0 THEN NULL ELSE t[1]
    BY DEF Linked
  <1>3. head' \in Addr0
    <2>1. Len(t) # 0 => 1 \in 1 .. Len(t)
      BY <1>1
    <2> QED
      BY <1>1, <1>2, <2>1 DEF Addr0
  <1>4. DOMAIN heap' \subseteq Addr
    BY <1>1, <1>2
  <1>5. TypeOK'
    BY <1>3, <1>4 DEF TypeOK, NodeType
  <1>6. \E s \in Seq(Addr) : Linked(heap', head', s)
    BY <1>1
  <1> QED
    BY <1>5, <1>6 DEF IInv

\* What every operation that inserts does, and every operation that removes.
LEMMA InsertedKeeps ==
  ASSUME NEW h, NEW s, NEW pos, NEW new, NEW e, Inserted(h, s, pos, new, e),
         status' = "live"
  PROVE  IInv'
  <1>1. /\ Linked(heap', head', InsertAt(s, pos, new))
        /\ heap' \in [DOMAIN h \cup {new} -> NodeType]
    BY DEF Inserted
  <1>2. heap' \in [DOMAIN heap' -> NodeType]
    BY <1>1
  <1> QED
    BY <1>1, <1>2, KeepsIInv

LEMMA RemovedKeeps ==
  ASSUME NEW s, NEW pos, Removed(s, pos), status' = "live"
  PROVE  IInv'
  <1>1. /\ Linked(heap', head', RemoveAt(s, pos))
        /\ heap' \in [DOMAIN heap \ {s[pos]} -> NodeType]
    BY DEF Removed
  <1>2. heap' \in [DOMAIN heap' -> NodeType]
    BY <1>1
  <1> QED
    BY <1>1, <1>2, KeepsIInv

LEMMA AbortKeeps ==
  ASSUME IInv, abort
  PROVE  IInv'
  BY DEF IInv, TypeOK, abort

LEMMA InsertKeeps ==
  ASSUME NEW s, Linked(heap, head, s), IInv,
         NEW h, h \in [DOMAIN h -> NodeType], Linked(h, head, s),
         NEW e \in Element0, NEW index \in Int, insert_at_index(h, e, index)
  PROVE  IInv'
  <1>1. \/ /\ may_insert(e) /\ UNCHANGED status
           /\ \E new \in Addr \ DOMAIN h : Inserted(h, s, L!Clamp(index, Len(s) + 1), new, e)
        \/ abort
    BY InsertStep
  <1>2. CASE abort
    BY <1>2, AbortKeeps
  <1>3. CASE /\ may_insert(e) /\ UNCHANGED status
             /\ \E new \in Addr \ DOMAIN h : Inserted(h, s, L!Clamp(index, Len(s) + 1), new, e)
    <2>1. status' = "live"
      BY <1>3 DEF may_insert
    <2> QED
      BY <1>3, <2>1, InsertedKeeps
  <1> QED
    BY <1>1, <1>2, <1>3

LEMMA RemoveKeeps ==
  ASSUME NEW s, Linked(heap, head, s), IInv, NEW index \in Int, dpl_remove_at_index(index)
  PROVE  IInv'
  <1>0. heap \in [DOMAIN heap -> NodeType]
    BY DEF IInv, TypeOK, NodeType
  <1>1. \/ status' = "live" /\ Removed(s, L!Clamp(index, Len(s)))
        \/ UNCHANGED <<status, head, heap>>
        \/ abort
    BY <1>0, RemoveStep
  <1>2. CASE status' = "live" /\ Removed(s, L!Clamp(index, Len(s)))
    BY <1>2, RemovedKeeps
  <1>3. CASE UNCHANGED <<status, head, heap>>
    BY <1>3 DEF IInv, TypeOK
  <1>4. CASE abort
    BY <1>4, AbortKeeps
  <1> QED
    BY <1>1, <1>2, <1>3, <1>4

LEMMA InitIInv == Init => IInv
  <1> SUFFICES ASSUME Init PROVE IInv
    OBVIOUS
  <1>1. <<>> \in Seq(Addr) /\ Linked(heap, head, <<>>)
    BY DEF Init, Linked
  <1>2. DOMAIN heap = {} /\ heap \in [DOMAIN heap -> NodeType]
    <2>1. heap = <<>> /\ DOMAIN <<>> = {} /\ <<>> \in [{} -> NodeType]
      BY DEF Init
    <2> QED
      BY <2>1
  <1> QED
    BY <1>1, <1>2 DEF Init, IInv, TypeOK, Addr0, NodeType

LEMMA NextIInv == IInv /\ [Next]_vars => IInv'
  <1> SUFFICES ASSUME IInv, [Next]_vars PROVE IInv'
    OBVIOUS
  <1>1. PICK s \in Seq(Addr) : Linked(heap, head, s)
    BY DEF IInv
  <1>2. heap \in [DOMAIN heap -> NodeType] /\ NULL \in Addr0 /\ Index \subseteq Int
    BY IndexAssumption DEF IInv, TypeOK, NodeType, Addr0
  <1>3. Len(s) \in Nat /\ dpl_size = Len(s) /\ Chain = s
    BY <1>1, LinkedFinite, WalkFacts
  <1>4. /\ \A r : dpl_get_index_of_reference(r) \in Int
        /\ \A e : dpl_get_index_of_element(e) \in Int
    BY <1>1, <1>3, IndexFacts
  <1>5. \A e \in Element0, i \in Int : dpl_insert_at_index(e, i) => IInv'
    BY <1>1, <1>2, InsertKeeps DEF dpl_insert_at_index
  <1>6. \A i \in Int : dpl_remove_at_index(i) => IInv'
    BY <1>1, RemoveKeeps
  <1>7. UNCHANGED <<status, head, heap>> => IInv'
    BY DEF IInv, TypeOK
  <1>8. CASE dpl_create
    <2>1. CASE status' = "live" /\ head' = NULL /\ UNCHANGED heap
      <3>1. head' = head
        BY <1>8, <2>1 DEF dpl_create, IInv
      <3> QED
        BY <1>1, <1>2, <2>1, <3>1, KeepsIInv
    <2> QED
      BY <1>8, <2>1, AbortKeeps DEF dpl_create
  <1>9. CASE dpl_free
    <2>1. CASE /\ heap' = [a \in DOMAIN heap \ ToSet(Chain) |-> heap[a]]
               /\ head' = NULL
               /\ status' = "NULL"
      <3>1. DOMAIN heap \ ToSet(Chain) = {}
        BY <1>1, <1>3 DEF ToSet, Linked
      <3>2. DOMAIN heap' = {} /\ heap' \in [DOMAIN heap' -> NodeType]
        BY <2>1, <3>1
      <3>3. Linked(heap', head', <<>>)
        BY <2>1, <3>2 DEF Linked
      <3> QED
        BY <2>1, <3>2, <3>3, KeepsIInv
    <2> QED
      BY <1>9, <2>1, AbortKeeps DEF dpl_free
  <1>10. ASSUME NEW e \in Element0, NEW r \in Addr0, dpl_insert_at_reference(e, r)
         PROVE  IInv'
    BY <1>3, <1>4, <1>5, <1>7, <1>10, AbortKeeps DEF dpl_insert_at_reference
  <1>11. ASSUME NEW r \in Addr0, dpl_remove_at_reference(r)
         PROVE  IInv'
    BY <1>3, <1>4, <1>6, <1>7, <1>11, AbortKeeps DEF dpl_remove_at_reference
  <1>12. ASSUME NEW e \in Element0, dpl_insert_sorted(e)
         PROVE  IInv'
    <2> DEFINE es == bubble_sort(Elements(heap, s))
               h  == Refilled(heap, s, es)
    <2>1. Rearranged(Elements(heap, s), es) /\ Len(Elements(heap, s)) = Len(s)
      BY <1>1, <1>2, ElementsType, SortFacts
    <2>2. es \in Seq(Element) /\ Len(es) = Len(s)
      BY <2>1 DEF Rearranged
    <2>3. Linked(h, head, s) /\ h \in [DOMAIN h -> NodeType]
      BY <1>1, <1>2, <2>2, RefilledFacts
    <2>4. Above(es, e) \in Int
      <3>1. PlacesAbove(es, e) \subseteq 1 .. Len(es) /\ Len(es) \in Nat
        BY <1>3, <2>2 DEF PlacesAbove
      <3>2. First(PlacesAbove(es, e)) \in 0 .. Len(es)
        BY <3>1, FirstFacts
      <3> QED
        BY <3>1, <3>2 DEF Above
    <2>5. insert_at_index(h, e, Above(es, e)) \/ abort
      BY <1>1, <1>2, <1>12, InsertSortedStep
    <2> HIDE DEF es, h
    <2> QED
      BY <1>1, <2>3, <2>4, <2>5, InsertKeeps, AbortKeeps
  <1>13. ASSUME NEW e \in Element, dpl_remove_element(e)
         PROVE  IInv'
    BY <1>4, <1>6, <1>7, <1>13, AbortKeeps DEF dpl_remove_element
  <1>14. CASE UNCHANGED vars
    BY <1>7, <1>14 DEF vars
  <1> QED
    BY <1>2, <1>5, <1>6, <1>8, <1>9, <1>10, <1>11, <1>12, <1>13, <1>14 DEF Next

LEMMA Invariance == Spec => []IInv
  BY InitIInv, NextIInv, PTL DEF Spec
-----------------------------------------------------------------------------
\* The pointers are those of a doubly linked list.
LEMMA IInvDoublyLinked == IInv => DoublyLinked
  <1> SUFFICES ASSUME IInv PROVE DoublyLinked
    OBVIOUS
  <1>1. PICK s \in Seq(Addr) : Linked(heap, head, s)
    BY DEF IInv
  <1>2. /\ Len(s) \in Nat /\ \A k \in 1 .. Len(s) : s[k] \in Addr /\ s[k] # NULL
    BY <1>1, LinkedFinite, NULLAssumption
  <1>3. /\ DOMAIN heap = {s[k] : k \in 1 .. Len(s)}
        /\ head = IF Len(s) = 0 THEN NULL ELSE s[1]
        /\ \A k \in 1 .. Len(s) : /\ heap[s[k]].prev = IF k = 1 THEN NULL ELSE s[k - 1]
                                  /\ heap[s[k]].next = IF k = Len(s) THEN NULL ELSE s[k + 1]
    BY <1>1 DEF Linked
  <1>4. head # NULL => head \in DOMAIN heap /\ heap[head].prev = NULL
    <2>1. Len(s) # 0 => 1 \in 1 .. Len(s)
      BY <1>2
    <2> QED
      BY <1>3, <2>1
  <1>5. ASSUME NEW a \in DOMAIN heap
        PROVE  /\ heap[a].next # NULL => /\ heap[a].next \in DOMAIN heap
                                         /\ heap[heap[a].next].prev = a
               /\ heap[a].prev # NULL => /\ heap[a].prev \in DOMAIN heap
                                         /\ heap[heap[a].prev].next = a
               /\ heap[a].prev = NULL => head = a
    <2>1. PICK k \in 1 .. Len(s) : a = s[k]
      BY <1>3
    <2>2. k # Len(s) => /\ k + 1 \in 1 .. Len(s) /\ k + 1 # 1 /\ (k + 1) - 1 = k
      BY <1>2
    <2>3. k # 1 => k - 1 \in 1 .. Len(s) /\ k - 1 # Len(s) /\ (k - 1) + 1 = k
      BY <1>2
    <2>4. heap[a].next = IF k = Len(s) THEN NULL ELSE s[k + 1]
      BY <1>3, <2>1
    <2>5. heap[a].prev = IF k = 1 THEN NULL ELSE s[k - 1]
      BY <1>3, <2>1
    <2>6. k # Len(s) => s[k + 1] \in DOMAIN heap /\ heap[s[k + 1]].prev = s[k]
      BY <1>3, <2>2
    <2>7. k # 1 => s[k - 1] \in DOMAIN heap /\ heap[s[k - 1]].next = s[k] /\ s[k - 1] # NULL
      BY <1>2, <1>3, <2>3
    <2> QED
      BY <1>2, <1>3, <2>1, <2>4, <2>5, <2>6, <2>7
  <1> QED
    BY <1>4, <1>5 DEF DoublyLinked

LEMMA IInvNoLeak == IInv => NoLeak
  <1> SUFFICES ASSUME IInv PROVE NoLeak
    OBVIOUS
  <1>1. PICK s \in Seq(Addr) : Linked(heap, head, s)
    BY DEF IInv
  <1>2. Len(s) \in Nat /\ (\A k \in 1 .. Len(s) : s[k] \in Addr) /\ Chain = s /\ DOMAIN s = 1 .. Len(s)
    BY <1>1, LinkedFinite, WalkFacts
  <1>3. DOMAIN heap = ToSet(Chain)
    <2>1. DOMAIN heap = {s[k] : k \in 1 .. Len(s)}
      BY <1>1 DEF Linked
    <2>2. ToSet(s) = {s[k] : k \in 1 .. Len(s)}
      BY <1>2 DEF ToSet
    <2> QED
      BY <1>2, <2>1, <2>2
  <1>4. ASSUME status = "NULL" PROVE heap = <<>>
    <2>1. Len(s) = 0
      <3>1. head = NULL /\ head = IF Len(s) = 0 THEN NULL ELSE s[1]
        BY <1>1, <1>4 DEF IInv, Linked
      <3>2. Len(s) # 0 => 1 \in 1 .. Len(s)
        BY <1>2
      <3> QED
        BY <1>2, <3>1, <3>2, NULLAssumption
    <2>2. DOMAIN heap = {}
      BY <1>1, <1>2, <2>1 DEF Linked
    <2> QED
      BY <2>2 DEF IInv, TypeOK
  <1> QED
    BY <1>3, <1>4 DEF NoLeak

\* TypeOK: the nodes of dplist.c hold elements and pointers to nodes or NULL.
THEOREM TypeCorrect == Spec => []TypeOK
  <1>1. IInv => TypeOK
    BY DEF IInv
  <1> QED
    BY <1>1, Invariance, PTL

\* DoublyLinked: whatever the callers insert and remove, no pointer of the list
\* dangles and prev is the inverse of next (dplist.c, all operations that link
\* and unlink nodes).
THEOREM PointersAreAList == Spec => []DoublyLinked
  BY IInvDoublyLinked, Invariance, PTL

\* NoLeak: every allocated node is on the walk from head, where dpl_free finds
\* it; without a list there is none.
THEOREM NodesAreReachable == Spec => []NoLeak
  BY IInvNoLeak, Invariance, PTL
-----------------------------------------------------------------------------
(* The sequence of nodes that the callers see.                             *)

NodesOf(h, s) == [k \in 1 .. Len(s) |-> [ref |-> s[k], element |-> h[s[k]].element]]

ListNode == [ref : Addr, element : Element]

LEMMA NodesAre == \A s : Linked(heap, head, s) => Nodes = NodesOf(heap, s)
  <1> TAKE s
  <1> HAVE Linked(heap, head, s)
  <1>1. Chain = s /\ DOMAIN s = 1 .. Len(s)
    BY WalkFacts, LinkedFinite
  <1> QED
    BY <1>1 DEF Nodes, NodesOf

LEMMA NodesAreNext == (\A s : Linked(heap, head, s) => Nodes = NodesOf(heap, s))'
  BY NodesAre, PTL

LEMMA NodesBecome == \A s : Linked(heap', head', s) => Nodes' = NodesOf(heap', s)
  BY NodesAreNext

ListsNodes(l, h, s) ==
  /\ l \in Seq(ListNode) /\ Len(l) = Len(s) /\ DOMAIN l = 1 .. Len(s)
  /\ \A k \in 1 .. Len(s) : /\ l[k] = [ref |-> s[k], element |-> h[s[k]].element]
                            /\ l[k].ref = s[k] /\ l[k].element = h[s[k]].element
                            /\ s[k] \in Addr /\ h[s[k]].element \in Element
  /\ L!RefsIn(l) = DOMAIN h

LEMMA NodesOfFacts ==
  ASSUME NEW h, NEW hd, NEW s, Linked(h, hd, s), h \in [DOMAIN h -> NodeType]
  PROVE  ListsNodes(NodesOf(h, s), h, s)
  <1> DEFINE l == NodesOf(h, s)
  <1>1. /\ Len(s) \in Nat /\ \A k \in 1 .. Len(s) : s[k] \in Addr /\ s[k] \in DOMAIN h
        /\ DOMAIN h = {s[k] : k \in 1 .. Len(s)}
    BY LinkedFinite DEF Linked
  <1>2. \A k \in 1 .. Len(s) : h[s[k]].element \in Element
    BY <1>1 DEF NodeType
  <1>3. /\ DOMAIN l = 1 .. Len(s)
        /\ \A k \in 1 .. Len(s) : l[k] = [ref |-> s[k], element |-> h[s[k]].element]
    BY DEF NodesOf
  <1>4. l \in [1 .. Len(s) -> ListNode]
    BY <1>1, <1>2 DEF NodesOf, ListNode
  <1>5. l \in Seq(ListNode) /\ Len(l) = Len(s)
    BY <1>1, <1>4, FunctionIsSeq
  <1> HIDE DEF l
  <1>6. \A k \in 1 .. Len(s) : l[k].ref = s[k] /\ l[k].element = h[s[k]].element
    BY <1>3
  <1>7. L!RefsIn(l) = DOMAIN h
    <2>1. L!RefsIn(l) = {l[k].ref : k \in 1 .. Len(s)}
      BY <1>3 DEF L!RefsIn
    <2> QED
      BY <1>1, <1>6, <2>1
  <1> QED
    BY <1>1, <1>2, <1>3, <1>5, <1>6, <1>7 DEF l, ListsNodes

\* A node that is inserted into the pointers is inserted into the sequence.
LEMMA NodesInserted ==
  ASSUME NEW h, NEW hd, NEW s, Linked(h, hd, s), h \in [DOMAIN h -> NodeType],
         NEW pos \in 1 .. Len(s) + 1, NEW new \in Addr, NEW e \in Element,
         Inserted(h, s, pos, new, e)
  PROVE  Nodes' = InsertAt(NodesOf(h, s), pos, [ref |-> new, element |-> e])
  <1> DEFINE t == InsertAt(s, pos, new)
             l == NodesOf(h, s)
             node == [ref |-> new, element |-> e]
             m == InsertAt(l, pos, node)
             l2 == NodesOf(heap', t)
  <1>1. /\ s \in Seq(Addr) /\ Len(s) \in Nat /\ \A k \in 1 .. Len(s) : s[k] \in Addr /\ s[k] \in DOMAIN h
    BY LinkedFinite DEF Linked
  <1>2. /\ t \in Seq(Addr) /\ Len(t) = Len(s) + 1
        /\ \A k \in 1 .. Len(s) + 1 :
             t[k] = IF k < pos THEN s[k] ELSE IF k = pos THEN new ELSE s[k - 1]
    <2>1. s \in Seq(Addr) /\ pos \in 1 .. Len(s) + 1 /\ new \in Addr
      BY <1>1
    <2>2. IsInserted(t, Addr, s, pos, new)
      BY <2>1, InsertAtIs
    <2> QED
      BY <2>2 DEF IsInserted
  <1>3. /\ l \in Seq(ListNode) /\ Len(l) = Len(s)
        /\ \A k \in 1 .. Len(s) : l[k] = [ref |-> s[k], element |-> h[s[k]].element]
    BY NodesOfFacts DEF ListsNodes
  <1>4. /\ Linked(heap', head', t) /\ heap' \in [DOMAIN h \cup {new} -> NodeType]
        /\ heap'[new].element = e
        /\ \A a \in DOMAIN h : heap'[a].element = h[a].element
    BY DEF Inserted
  <1>5. node \in ListNode
    BY DEF ListNode
  <1> HIDE DEF l, t
  <1>6. /\ m \in Seq(ListNode) /\ Len(m) = Len(s) + 1
        /\ \A k \in 1 .. Len(s) + 1 :
             m[k] = IF k < pos THEN l[k] ELSE IF k = pos THEN node ELSE l[k - 1]
    BY <1>3, <1>5, InsertAtFacts
  <1>7. Nodes' = l2
    BY <1>4, NodesBecome
  <1>8. /\ l2 \in Seq(ListNode) /\ Len(l2) = Len(t)
        /\ \A k \in 1 .. Len(t) : l2[k] = [ref |-> t[k], element |-> heap'[t[k]].element]
    <2>1. heap' \in [DOMAIN heap' -> NodeType]
      BY <1>4
    <2> QED
      BY <1>4, <2>1, NodesOfFacts DEF ListsNodes
  <1> HIDE DEF m, l2, node
  <1>9. ASSUME NEW k \in 1 .. Len(l2) PROVE l2[k] = m[k]
    <2>0. k \in 1 .. Len(s) + 1 /\ k \in 1 .. Len(t) /\ pos \in Nat /\ k \in Nat
      BY <1>1, <1>2, <1>8
    <2>1. CASE k < pos
      <3>1. k \in 1 .. Len(s) /\ t[k] = s[k] /\ m[k] = l[k]
        BY <1>1, <1>2, <1>6, <2>0, <2>1
      <3> QED
        <4>1. l2[k] = [ref |-> t[k], element |-> heap'[t[k]].element]
          BY <1>8, <2>0
        <4>2. heap'[s[k]].element = h[s[k]].element
          BY <1>1, <1>4, <3>1
        <4> QED
          BY <1>3, <3>1, <4>1, <4>2
    <2>2. CASE k = pos
      <3>1. t[k] = new /\ m[k] = node
        BY <1>1, <1>2, <1>6, <2>0, <2>2
      <3> QED
        BY <1>4, <1>8, <2>0, <3>1 DEF node
    <2>3. CASE k > pos
      <3>1. k - 1 \in 1 .. Len(s) /\ t[k] = s[k - 1] /\ m[k] = l[k - 1]
        BY <1>1, <1>2, <1>6, <2>0, <2>3
      <3> QED
        <4>1. l2[k] = [ref |-> t[k], element |-> heap'[t[k]].element]
          BY <1>8, <2>0
        <4>2. heap'[s[k - 1]].element = h[s[k - 1]].element
          BY <1>1, <1>4, <3>1
        <4> QED
          BY <1>3, <3>1, <4>1, <4>2
    <2> QED
      BY <2>0, <2>1, <2>2, <2>3
  <1>10. l2 = m
    BY <1>2, <1>6, <1>8, <1>9, SeqExtensionality
  <1> QED
    BY <1>7, <1>10 DEF l, m, node

\* A node that is removed from the pointers is removed from the sequence.
LEMMA NodesRemoved ==
  ASSUME NEW s, Linked(heap, head, s), heap \in [DOMAIN heap -> NodeType],
         NEW pos \in 1 .. Len(s), Removed(s, pos)
  PROVE  Nodes' = RemoveAt(Nodes, pos)
  <1> DEFINE t == RemoveAt(s, pos)
             l == NodesOf(heap, s)
             m == RemoveAt(l, pos)
             l2 == NodesOf(heap', t)
  <1>1. /\ s \in Seq(Addr) /\ Len(s) \in Nat /\ \A k \in 1 .. Len(s) : s[k] \in Addr /\ s[k] \in DOMAIN heap
        /\ \A j, k \in 1 .. Len(s) : s[j] = s[k] => j = k
    BY LinkedFinite DEF Linked
  <1>2. /\ t \in Seq(Addr) /\ Len(t) = Len(s) - 1
        /\ \A k \in 1 .. Len(s) - 1 : t[k] = IF k < pos THEN s[k] ELSE s[k + 1]
    BY <1>1, RemoveAtFacts
  <1>3. /\ l \in Seq(ListNode) /\ Len(l) = Len(s)
        /\ \A k \in 1 .. Len(s) : l[k] = [ref |-> s[k], element |-> heap[s[k]].element]
    BY NodesOfFacts DEF ListsNodes
  <1>4. /\ Linked(heap', head', t) /\ heap' \in [DOMAIN heap \ {s[pos]} -> NodeType]
        /\ \A a \in DOMAIN heap \ {s[pos]} : heap'[a].element = heap[a].element
    BY DEF Removed
  <1>5. Nodes = l
    BY NodesAre
  <1> HIDE DEF l, t
  <1>6. /\ m \in Seq(ListNode) /\ Len(m) = Len(s) - 1
        /\ \A k \in 1 .. Len(s) - 1 : m[k] = IF k < pos THEN l[k] ELSE l[k + 1]
    BY <1>3, RemoveAtFacts
  <1>7. Nodes' = l2
    BY <1>4, NodesBecome
  <1>8. /\ l2 \in Seq(ListNode) /\ Len(l2) = Len(t)
        /\ \A k \in 1 .. Len(t) : l2[k] = [ref |-> t[k], element |-> heap'[t[k]].element]
    <2>1. heap' \in [DOMAIN heap' -> NodeType]
      BY <1>4
    <2> QED
      BY <1>4, <2>1, NodesOfFacts DEF ListsNodes
  <1> HIDE DEF m, l2
  <1>9. ASSUME NEW k \in 1 .. Len(l2) PROVE l2[k] = m[k]
    <2>0. k \in 1 .. Len(s) - 1 /\ k \in 1 .. Len(t) /\ pos \in Nat /\ k \in Nat
      BY <1>1, <1>2, <1>8
    <2> DEFINE j == IF k < pos THEN k ELSE k + 1
    <2>1. j \in 1 .. Len(s) /\ j # pos
      BY <1>1, <2>0
    <2>2. t[k] = s[j] /\ m[k] = l[j]
      BY <1>2, <1>6, <2>0
    <2> HIDE DEF j
    <2>3. s[j] \in DOMAIN heap \ {s[pos]}
      BY <1>1, <2>1
    <2> QED
      <3>1. l2[k] = [ref |-> t[k], element |-> heap'[t[k]].element]
        BY <1>8, <2>0
      <3>2. heap'[s[j]].element = heap[s[j]].element
        BY <1>4, <2>3
      <3> QED
        BY <1>3, <2>1, <2>2, <3>1, <3>2
  <1>10. l2 = m
    BY <1>2, <1>6, <1>8, <1>9, SeqExtensionality
  <1> QED
    BY <1>5, <1>7, <1>10 DEF m

\* The positions of a reference and of an element in the sequence.
LEMMA PlacesAgree ==
  ASSUME NEW s, Linked(heap, head, s), heap \in [DOMAIN heap -> NodeType]
  PROVE  /\ \A r : L!IndexOfRef(r) = First(PlacesOfRef(s, r)) - 1
         /\ \A e \in Element : L!IndexOfElement(e) = First(PlacesOfElement(heap, s, e)) - 1
         /\ \A r : First(PlacesOfRef(s, r)) # 0 <=> r \in L!RefsIn(Nodes)
  <1> DEFINE l == NodesOf(heap, s)
  <1>1. /\ l \in Seq(ListNode) /\ Len(l) = Len(s) /\ L!RefsIn(l) = DOMAIN heap
        /\ \A k \in 1 .. Len(s) : /\ l[k].ref = s[k] /\ l[k].element = heap[s[k]].element
                                  /\ heap[s[k]].element \in Element
    <2>1. ListsNodes(l, heap, s)
      BY NodesOfFacts
    <2> HIDE DEF l
    <2> QED
      BY <2>1 DEF ListsNodes
  <1>2. Nodes = l
    BY NodesAre
  <1>3. Len(s) \in Nat /\ DOMAIN heap = {s[k] : k \in 1 .. Len(s)}
    BY LinkedFinite DEF Linked
  <1> HIDE DEF l
  <1>4. ASSUME NEW r PROVE L!IndexOfRef(r) = First(PlacesOfRef(s, r)) - 1
    <2> DEFINE I == {i \in 1 .. Len(Nodes) : Nodes[i].ref = r}
    <2>1. L!IndexOfRef(r) = First(I) - 1
      BY Zenon DEF L!SelectInSeq, L!Min, First, Min, L!IndexOfRef
    <2>2. I = PlacesOfRef(s, r)
      BY <1>1, <1>2 DEF PlacesOfRef
    <2> QED
      BY <2>1, <2>2, Zenon
  <1>5. ASSUME NEW e \in Element
        PROVE  L!IndexOfElement(e) = First(PlacesOfElement(heap, s, e)) - 1
    <2> DEFINE I == {i \in 1 .. Len(Nodes) : Key[Nodes[i].element] = Key[e]}
    <2>1. L!IndexOfElement(e) = First(I) - 1
      BY Zenon DEF L!SelectInSeq, L!Min, First, Min, L!IndexOfElement
    <2>2. ASSUME NEW k \in 1 .. Len(s)
          PROVE  Key[l[k].element] = Key[e] <=> compare(heap[s[k]].element, e) = 0
      <3>1. Key[heap[s[k]].element] \in Int /\ Key[e] \in Int /\ l[k].element = heap[s[k]].element
        BY <1>1, KeyAssumption
      <3> QED
        BY <3>1 DEF compare
    <2>3. I = PlacesOfElement(heap, s, e)
      BY <1>1, <1>2, <2>2 DEF PlacesOfElement
    <2> QED
      BY <2>1, <2>3, Zenon
  <1>6. ASSUME NEW r PROVE First(PlacesOfRef(s, r)) # 0 <=> r \in L!RefsIn(Nodes)
    <2>1. PlacesOfRef(s, r) \subseteq 1 .. Len(s)
      BY DEF PlacesOfRef
    <2>2. First(PlacesOfRef(s, r)) = 0 <=> PlacesOfRef(s, r) = {}
      BY <1>3, <2>1, FirstFacts
    <2>3. PlacesOfRef(s, r) # {} <=> r \in DOMAIN heap
      BY <1>3 DEF PlacesOfRef
    <2> QED
      BY <1>1, <1>2, <2>2, <2>3
  <1> QED
    BY <1>4, <1>5, <1>6

\* An inserted element occurs once more.
LEMMA InsertedOccurs ==
  ASSUME NEW es \in Seq(Element), NEW pos \in 1 .. Len(es) + 1, NEW e \in Element,
         NEW fs, IsInserted(fs, Element, es, pos, e), NEW x \in Element
  PROVE  Cardinality(Occurrences(fs, x)) =
           Cardinality(Occurrences(es, x)) + (IF x = e THEN 1 ELSE 0)
  <1> DEFINE A == Occurrences(es, x)
             B == Occurrences(fs, x) \ {pos}
             o(j) == IF j < pos THEN j ELSE j + 1
             f == [j \in A |-> o(j)]
  <1>1. /\ Len(es) \in Nat /\ pos \in Nat /\ fs \in Seq(Element) /\ Len(fs) = Len(es) + 1
        /\ \A k \in 1 .. Len(es) + 1 :
             fs[k] = IF k < pos THEN es[k] ELSE IF k = pos THEN e ELSE es[k - 1]
    BY DEF IsInserted
  <1>2. \A j \in 1 .. Len(es) : o(j) \in 1 .. Len(fs) /\ o(j) # pos /\ fs[o(j)] = es[j]
    BY <1>1
  <1>3. f \in [A -> B]
    BY <1>2 DEF Occurrences
  <1>4. \A i, j \in A : f[i] = f[j] => i = j
    BY <1>1 DEF Occurrences
  <1>5. \A j \in B : \E i \in A : f[i] = j
    <2> TAKE j \in B
    <2>1. j \in 1 .. Len(es) + 1 /\ j # pos /\ fs[j] = x /\ j \in Nat
      BY <1>1 DEF Occurrences
    <2>2. CASE j < pos
      <3>1. j \in A /\ f[j] = j
        BY <1>1, <2>1, <2>2 DEF Occurrences
      <3> QED
        BY <3>1
    <2>3. CASE j > pos
      <3>1. j - 1 \in A /\ o(j - 1) = j
        BY <1>1, <2>1, <2>3 DEF Occurrences
      <3> QED
        BY <3>1
    <2> QED
      BY <1>1, <2>1, <2>2, <2>3
  <1> HIDE DEF f
  <1>6. ExistsBijection(A, B)
    <2>1. f \in Bijection(A, B)
      BY <1>3, <1>4, <1>5 DEF Bijection, Injection, Surjection, IsInjective
    <2> QED
      BY <2>1 DEF ExistsBijection
  <1>7. IsFiniteSet(A) /\ Cardinality(A) \in Nat
    BY OccurrencesFinite
  <1>8. pos \notin B
    OBVIOUS
  <1>9. Occurrences(fs, x) = IF x = e THEN B \cup {pos} ELSE B
    <2>1. pos \in 1 .. Len(fs) /\ fs[pos] = e
      BY <1>1
    <2> QED
      BY <2>1 DEF Occurrences
  <1> HIDE DEF A, B
  <1>10. IsFiniteSet(B) /\ Cardinality(B) = Cardinality(A)
    BY <1>6, <1>7, FS_Bijection
  <1>11. Cardinality(B \cup {pos}) = Cardinality(B) + 1
    BY <1>8, <1>10, FS_AddElement
  <1>12. Cardinality(Occurrences(fs, x)) = Cardinality(A) + (IF x = e THEN 1 ELSE 0)
    <2>1. CASE x = e
      BY <1>9, <1>10, <1>11, <2>1
    <2>2. CASE x # e
      BY <1>7, <1>9, <1>10, <2>2
    <2> QED
      BY <2>1, <2>2
  <1> QED
    BY <1>12 DEF A

\* The elements of a list of nodes.
LEMMA ListElements ==
  ASSUME NEW l \in Seq(ListNode)
  PROVE  LET es == [k \in DOMAIN l |-> l[k].element] IN
         /\ es \in Seq(Element) /\ Len(es) = Len(l)
         /\ \A x : L!Count(l, x) = Cardinality(Occurrences(es, x))
         /\ L!Ascending(l) <=> InOrder(es)
  <1> DEFINE es == [k \in DOMAIN l |-> l[k].element]
  <1>1. Len(l) \in Nat /\ DOMAIN l = 1 .. Len(l) /\ \A k \in 1 .. Len(l) : l[k].element \in Element
    <2>1. Len(l) \in Nat /\ DOMAIN l = 1 .. Len(l) /\ \A k \in 1 .. Len(l) : l[k] \in ListNode
      OBVIOUS
    <2> QED
      BY <2>1 DEF ListNode
  <1>2. es \in [1 .. Len(l) -> Element] /\ \A k \in 1 .. Len(l) : es[k] = l[k].element
    BY <1>1
  <1> HIDE DEF es
  <1>3. es \in Seq(Element) /\ Len(es) = Len(l)
    BY <1>1, <1>2, FunctionIsSeq
  <1>4. \A x : L!Count(l, x) = Cardinality(Occurrences(es, x))
    <2> TAKE x
    <2>1. {k \in DOMAIN l : l[k].element = x} = Occurrences(es, x)
      BY <1>1, <1>2, <1>3 DEF Occurrences
    <2> QED
      BY <2>1, Zenon DEF L!Count, L!Cardinality, Cardinality
  <1>5. \A k \in 1 .. Len(l) - 1 : k \in 1 .. Len(l) /\ k + 1 \in 1 .. Len(l)
    BY <1>1
  <1>6. L!Ascending(l) <=> InOrder(es)
    BY <1>2, <1>3, <1>5 DEF L!Ascending, InOrder
  <1> QED
    BY <1>3, <1>4, <1>6 DEF es

\* An element that goes before the first greater one keeps the order.
LEMMA AboveKeepsOrder ==
  ASSUME NEW es \in Seq(Element), NEW e \in Element,
         \A j \in 1 .. Len(es) : \A i \in 1 .. j : Key[es[i]] <= Key[es[j]],
         NEW fs, IsInserted(fs, Element, es, Above(es, e) + 1, e)
  PROVE  InOrder(fs)
  <1> DEFINE F == First(PlacesAbove(es, e))
             pos == Above(es, e) + 1
  <1>1. Len(es) \in Nat /\ PlacesAbove(es, e) \subseteq 1 .. Len(es)
    BY DEF PlacesAbove
  <1>2. /\ F \in 0 .. Len(es) /\ (F = 0 <=> PlacesAbove(es, e) = {})
        /\ PlacesAbove(es, e) # {} => F \in PlacesAbove(es, e)
        /\ \A i \in PlacesAbove(es, e) : F <= i
    BY <1>1, FirstFacts
  <1>3. \A i \in 1 .. Len(es) : es[i] \in Element /\ Key[es[i]] \in Int /\ Key[e] \in Int
    BY KeyAssumption
  <1>4. \A i \in 1 .. Len(es) : i \in PlacesAbove(es, e) <=> Key[es[i]] > Key[e]
    BY <1>3 DEF PlacesAbove, compare
  <1>5. pos = IF F = 0 THEN Len(es) + 1 ELSE F
    BY <1>1, <1>2 DEF Above
  <1> HIDE DEF F
  <1>6. /\ pos \in 1 .. Len(es) + 1
        /\ \A i \in 1 .. Len(es) : i < pos => Key[es[i]] <= Key[e]
        /\ pos # Len(es) + 1 => Key[es[pos]] > Key[e]
    <2>1. pos \in 1 .. Len(es) + 1
      BY <1>1, <1>2, <1>5
    <2>2. \A i \in 1 .. Len(es) : i < pos => i \notin PlacesAbove(es, e)
      BY <1>1, <1>2, <1>5
    <2>3. \A i \in 1 .. Len(es) : i < pos => Key[es[i]] <= Key[e]
      BY <1>3, <1>4, <2>2
    <2>4. pos # Len(es) + 1 => Key[es[pos]] > Key[e]
      BY <1>1, <1>2, <1>4, <1>5
    <2> QED
      BY <2>1, <2>3, <2>4
  <1> HIDE DEF pos
  <1>7. /\ Len(fs) = Len(es) + 1
        /\ \A k \in 1 .. Len(es) + 1 :
             fs[k] = IF k < pos THEN es[k] ELSE IF k = pos THEN e ELSE es[k - 1]
    BY DEF IsInserted, pos
  <1>8. ASSUME NEW k \in 1 .. Len(fs) - 1 PROVE Key[fs[k]] <= Key[fs[k + 1]]
    <2>0. k \in 1 .. Len(es) + 1 /\ k + 1 \in 1 .. Len(es) + 1 /\ k \in 1 .. Len(es) /\ pos \in Nat
      BY <1>1, <1>6, <1>7
    <2>1. CASE k + 1 < pos
      <3>1. fs[k] = es[k] /\ fs[k + 1] = es[k + 1] /\ k + 1 \in 1 .. Len(es) /\ k \in 1 .. k + 1
        BY <1>1, <1>6, <1>7, <2>0, <2>1
      <3> QED
        BY <3>1
    <2>2. CASE k + 1 = pos
      <3>1. fs[k] = es[k] /\ fs[k + 1] = e
        BY <1>7, <2>0, <2>2
      <3> QED
        BY <1>6, <2>0, <2>2, <3>1
    <2>3. CASE k = pos
      <3>1. fs[k] = e /\ fs[k + 1] = es[k]
        <4>1. ~ (k + 1 < pos) /\ k + 1 # pos /\ (k + 1) - 1 = k
          BY <2>0, <2>3
        <4> QED
          BY <1>7, <2>0, <2>3, <4>1
      <3>2. Key[es[k]] > Key[e]
        BY <1>1, <1>6, <2>0, <2>3
      <3> QED
        BY <1>3, <2>0, <3>1, <3>2
    <2>4. CASE k > pos
      <3>1. /\ fs[k] = es[k - 1] /\ k - 1 \in 1 .. k
        <4>1. ~ (k < pos) /\ k # pos /\ k - 1 \in 1 .. k
          BY <1>6, <2>0, <2>4
        <4> QED
          BY <1>7, <2>0, <4>1
      <3>2. fs[k + 1] = es[k]
        <4>1. ~ (k + 1 < pos) /\ k + 1 # pos /\ (k + 1) - 1 = k
          BY <2>0, <2>4
        <4> QED
          BY <1>7, <2>0, <4>1
      <3> QED
        BY <2>0, <3>1, <3>2
    <2> QED
      BY <2>0, <2>1, <2>2, <2>3, <2>4
  <1> QED
    BY <1>8 DEF InOrder
-----------------------------------------------------------------------------
(* The operations implement those of IndexedList.                          *)

\* The two modules take InsertAt and RemoveAt from the same library.
LEMMA SameLibrary ==
  /\ \A l, n, e : L!InsertAt(l, n, e) = InsertAt(l, n, e)
  /\ \A l, n : L!RemoveAt(l, n) = RemoveAt(l, n)
  BY Zenon DEF L!InsertAt, InsertAt, L!RemoveAt, RemoveAt

LEMMA NodesUnchanged ==
  ASSUME IInv, UNCHANGED <<head, heap>>
  PROVE  UNCHANGED Nodes
  <1>1. PICK s \in Seq(Addr) : Linked(heap, head, s)
    BY DEF IInv
  <1>2. Nodes = NodesOf(heap, s)
    BY <1>1, NodesAre
  <1>3. heap' = heap /\ head' = head
    OBVIOUS
  <1>4. Linked(heap', head', s)
    BY <1>1, <1>3
  <1>5. Nodes' = NodesOf(heap', s)
    BY <1>4, NodesBecome
  <1> QED
    BY <1>2, <1>3, <1>5

LEMMA AbortImplements ==
  ASSUME IInv, abort
  PROVE  L!Abort
  BY NodesUnchanged DEF abort, L!Abort

LEMMA InsertImplements ==
  ASSUME IInv, NEW e \in Element0, NEW index \in Int, dpl_insert_at_index(e, index)
  PROVE  L!InsertAtIndex(e, index)
  <1>1. PICK s \in Seq(Addr) : Linked(heap, head, s)
    BY DEF IInv
  <1>2. heap \in [DOMAIN heap -> NodeType]
    BY DEF IInv, TypeOK, NodeType
  <1> DEFINE pos == L!Clamp(index, Len(s) + 1)
  <1>3. ListsNodes(NodesOf(heap, s), heap, s) /\ Nodes = NodesOf(heap, s)
    BY <1>1, <1>2, NodesOfFacts, NodesAre
  <1>4. L!RefsIn(Nodes) = DOMAIN heap /\ Len(Nodes) = Len(s)
    BY <1>3 DEF ListsNodes
  <1>5. \/ /\ may_insert(e) /\ UNCHANGED status
           /\ pos \in 1 .. Len(s) + 1
           /\ \E new \in Addr \ DOMAIN heap : Inserted(heap, s, pos, new, e)
        \/ (status = "NULL" \/ e = NULL \/ DOMAIN heap = Addr) /\ abort
    BY <1>1, <1>2, InsertStep DEF dpl_insert_at_index
  <1> HIDE DEF pos
  <1>6. CASE (status = "NULL" \/ e = NULL \/ DOMAIN heap = Addr) /\ abort
    <2>1. L!Abort
      BY <1>6, AbortImplements
    <2> QED
      BY <1>4, <1>6, <2>1 DEF L!InsertAtIndex
  <1>7. CASE /\ may_insert(e) /\ UNCHANGED status
             /\ pos \in 1 .. Len(s) + 1
             /\ \E new \in Addr \ DOMAIN heap : Inserted(heap, s, pos, new, e)
    <2>1. PICK new \in Addr \ DOMAIN heap : Inserted(heap, s, pos, new, e)
      BY <1>7
    <2>2. e \in Element /\ e # NULL /\ status = "live" /\ new \in Addr
      BY <1>7 DEF may_insert, Element0
    <2>3. Nodes' = InsertAt(Nodes, pos, [ref |-> new, element |-> e])
      BY <1>1, <1>2, <1>3, <1>7, <2>1, <2>2, NodesInserted
    <2>4. Nodes' = L!InsertAt(Nodes, L!Clamp(index, Len(Nodes) + 1), [ref |-> new, element |-> e])
      BY <1>4, <2>3, SameLibrary DEF pos
    <2>5. new \in Addr \ L!RefsIn(Nodes)
      BY <1>4
    <2> QED
      BY <1>7, <2>2, <2>4, <2>5 DEF L!InsertAtIndex
  <1> QED
    BY <1>5, <1>6, <1>7

LEMMA RemoveImplements ==
  ASSUME IInv, NEW index \in Int, dpl_remove_at_index(index)
  PROVE  L!RemoveAtIndex(index)
  <1>1. PICK s \in Seq(Addr) : Linked(heap, head, s)
    BY DEF IInv
  <1>2. heap \in [DOMAIN heap -> NodeType]
    BY DEF IInv, TypeOK, NodeType
  <1> DEFINE pos == L!Clamp(index, Len(s))
  <1>3. ListsNodes(NodesOf(heap, s), heap, s) /\ Nodes = NodesOf(heap, s)
    BY <1>1, <1>2, NodesOfFacts, NodesAre
  <1>4. Len(Nodes) = Len(s) /\ (Nodes = <<>> <=> Len(s) = 0)
    <2>1. Nodes \in Seq(ListNode) /\ Len(Nodes) = Len(s)
      BY <1>3 DEF ListsNodes
    <2> QED
      BY <2>1
  <1>5. \/ /\ status = "live" /\ Len(s) # 0 /\ UNCHANGED status
           /\ pos \in 1 .. Len(s) /\ Removed(s, pos)
        \/ status = "live" /\ Len(s) = 0 /\ UNCHANGED <<status, head, heap>>
        \/ status = "NULL" /\ abort
    BY <1>1, <1>2, RemoveStep
  <1> HIDE DEF pos
  <1>6. CASE /\ status = "live" /\ Len(s) # 0 /\ UNCHANGED status
             /\ pos \in 1 .. Len(s) /\ Removed(s, pos)
    <2>1. Nodes' = RemoveAt(Nodes, pos)
      BY <1>1, <1>2, <1>6, NodesRemoved
    <2>2. Nodes' = L!RemoveAt(Nodes, L!Clamp(index, Len(Nodes)))
      BY <1>4, <2>1, SameLibrary DEF pos
    <2> QED
      BY <1>4, <1>6, <2>2 DEF L!RemoveAtIndex
  <1>7. CASE status = "live" /\ Len(s) = 0 /\ UNCHANGED <<status, head, heap>>
    <2>1. UNCHANGED Nodes
      BY <1>7, NodesUnchanged
    <2> QED
      BY <1>4, <1>7, <2>1 DEF L!RemoveAtIndex
  <1>8. CASE status = "NULL" /\ abort
    BY <1>8, AbortImplements DEF L!RemoveAtIndex
  <1> QED
    BY <1>5, <1>6, <1>7, <1>8

LEMMA InsertSortedImplements ==
  ASSUME IInv, NEW e \in Element0, dpl_insert_sorted(e)
  PROVE  L!InsertSorted(e)
  <1>1. PICK s \in Seq(Addr) : Linked(heap, head, s)
    BY DEF IInv
  <1>2. heap \in [DOMAIN heap -> NodeType]
    BY DEF IInv, TypeOK, NodeType
  <1> DEFINE old == Elements(heap, s)
             es  == bubble_sort(old)
             h   == Refilled(heap, s, es)
             l   == NodesOf(h, s)
             pos == Above(es, e) + 1
  <1>3. ListsNodes(NodesOf(heap, s), heap, s) /\ Nodes = NodesOf(heap, s)
    BY <1>1, <1>2, NodesOfFacts, NodesAre
  <1>4. /\ Nodes \in Seq(ListNode) /\ Len(Nodes) = Len(s) /\ DOMAIN Nodes = 1 .. Len(s)
        /\ L!RefsIn(Nodes) = DOMAIN heap
        /\ \A k \in 1 .. Len(s) : /\ Nodes[k] = [ref |-> s[k], element |-> heap[s[k]].element]
                                  /\ Nodes[k].ref = s[k] /\ Nodes[k].element = heap[s[k]].element
    BY <1>3 DEF ListsNodes
  <1>5. Len(s) \in Nat /\ DOMAIN s = 1 .. Len(s) /\ old \in Seq(Element) /\ Len(old) = Len(s)
    BY <1>1, <1>2, LinkedFinite, ElementsType
  <1>6. /\ Rearranged(old, es)
        /\ \A j \in 1 .. Len(old) : \A i \in 1 .. j : Key[es[i]] <= Key[es[j]]
        /\ InOrder(old) => es = old
    BY <1>5, SortFacts
  <1>7. es \in Seq(Element) /\ Len(es) = Len(s)
    BY <1>5, <1>6 DEF Rearranged
  <1>8. /\ Linked(h, head, s) /\ DOMAIN h = DOMAIN heap /\ h \in [DOMAIN h -> NodeType]
        /\ \A k \in 1 .. Len(s) : h[s[k]].element = es[k]
    BY <1>1, <1>2, <1>7, RefilledFacts
  <1>9. Above(es, e) \in 0 .. Len(s) /\ L!Clamp(Above(es, e), Len(s) + 1) = pos /\ pos \in 1 .. Len(s) + 1
    <2>1. PlacesAbove(es, e) \subseteq 1 .. Len(es) /\ Len(es) \in Nat
      BY <1>5, <1>7 DEF PlacesAbove
    <2>2. First(PlacesAbove(es, e)) \in 0 .. Len(es)
      BY <2>1, FirstFacts
    <2>3. Above(es, e) \in 0 .. Len(s)
      BY <1>7, <2>1, <2>2 DEF Above
    <2> QED
      BY <1>5, <2>3 DEF L!Clamp
  <1>10. \/ insert_at_index(h, e, Above(es, e))
         \/ (status = "NULL" \/ e = NULL) /\ abort
    BY <1>1, <1>2, InsertSortedStep
  <1>11. old = [k \in DOMAIN Nodes |-> Nodes[k].element]
    BY <1>4, <1>5 DEF Elements
  <1>12. (\A x : L!Count(Nodes, x) = Cardinality(Occurrences(old, x))) /\ (L!Ascending(Nodes) <=> InOrder(old))
    BY <1>4, <1>11, ListElements
  <1> HIDE DEF old, es, h, pos
  <1>13. \/ /\ may_insert(e) /\ UNCHANGED status
            /\ \E new \in Addr \ DOMAIN h : Inserted(h, s, pos, new, e)
         \/ (status = "NULL" \/ e = NULL \/ DOMAIN h = Addr) /\ abort
    <2>1. Above(es, e) \in Int
      BY <1>9
    <2> QED
      BY <1>1, <1>8, <1>9, <1>10, <2>1, InsertStep
  <1>14. CASE (status = "NULL" \/ e = NULL \/ DOMAIN h = Addr) /\ abort
    <2>1. L!Abort
      BY <1>14, AbortImplements
    <2> QED
      BY <1>4, <1>8, <1>14, <2>1 DEF L!InsertSorted
  <1>15. CASE /\ may_insert(e) /\ UNCHANGED status
              /\ \E new \in Addr \ DOMAIN h : Inserted(h, s, pos, new, e)
    <2>1. PICK new \in Addr \ DOMAIN h : Inserted(h, s, pos, new, e)
      BY <1>15
    <2>2. e \in Element /\ e # NULL /\ status = "live" /\ new \in Addr
      BY <1>15 DEF may_insert, Element0
    <2> DEFINE node == [ref |-> new, element |-> e]
               m == InsertAt(l, pos, node)
               fs == [k \in DOMAIN m |-> m[k].element]
    <2>3. Nodes' = m
      BY <1>8, <1>9, <2>1, <2>2, NodesInserted
    <2>4. /\ l \in Seq(ListNode) /\ Len(l) = Len(s) /\ DOMAIN l = 1 .. Len(s)
          /\ \A k \in 1 .. Len(s) : /\ l[k] = [ref |-> s[k], element |-> h[s[k]].element]
                                    /\ l[k].ref = s[k] /\ l[k].element = es[k]
      <3>1. ListsNodes(l, h, s)
        BY <1>8, NodesOfFacts
      <3> HIDE DEF l
      <3> QED
        BY <1>8, <3>1 DEF ListsNodes
    <2>5. node \in ListNode /\ node.element = e /\ node.ref = new
      BY <2>2 DEF ListNode
    <2> HIDE DEF node, l
    <2>6. IsInserted(m, ListNode, l, pos, node) /\ RemoveAt(m, pos) = l
      <3>1. pos \in 1 .. Len(l) + 1
        BY <1>9, <2>4
      <3> QED
        BY <2>4, <2>5, <3>1, InsertAtIs, RemoveInserted
    <2> HIDE DEF m
    <2>7. /\ m \in Seq(ListNode) /\ Len(m) = Len(s) + 1 /\ DOMAIN m = 1 .. Len(s) + 1
          /\ \A k \in 1 .. Len(s) + 1 :
               m[k] = IF k < pos THEN l[k] ELSE IF k = pos THEN node ELSE l[k - 1]
      BY <2>4, <2>6 DEF IsInserted
    <2>8. /\ fs \in Seq(Element) /\ Len(fs) = Len(m)
          /\ \A x : L!Count(m, x) = Cardinality(Occurrences(fs, x))
          /\ L!Ascending(m) <=> InOrder(fs)
      BY <2>7, ListElements
    <2>9. \A k \in 1 .. Len(s) + 1 : fs[k] = m[k].element
      BY <2>7
    <2> HIDE DEF fs
    <2>10. IsInserted(fs, Element, es, pos, e)
      <3>1. ASSUME NEW k \in 1 .. Len(s) + 1
            PROVE  fs[k] = IF k < pos THEN es[k] ELSE IF k = pos THEN e ELSE es[k - 1]
        <4>0. k \in Nat /\ pos \in Nat
          BY <1>9
        <4>1. CASE k < pos
          <5>1. k \in 1 .. Len(s)
            BY <1>5, <1>9, <4>0, <4>1
          <5> QED
            BY <2>4, <2>7, <2>9, <4>1, <5>1
        <4>2. CASE k = pos
          BY <2>5, <2>7, <2>9, <4>0, <4>2
        <4>3. CASE k > pos
          <5>1. k - 1 \in 1 .. Len(s) /\ ~ (k < pos) /\ k # pos
            BY <1>5, <1>9, <4>0, <4>3
          <5> QED
            BY <2>4, <2>7, <2>9, <5>1
        <4> QED
          BY <4>0, <4>1, <4>2, <4>3
      <3> QED
        BY <1>7, <2>7, <2>8, <3>1 DEF IsInserted
    <2>11. L!Ascending(Nodes')
      <3>1. InOrder(fs)
        BY <1>5, <1>6, <1>7, <2>2, <2>10, AboveKeepsOrder DEF pos
      <3> QED
        BY <2>3, <2>8, <3>1
    <2>12. \A x \in Element : L!Count(Nodes', x) = L!Count(Nodes, x) + (IF x = e THEN 1 ELSE 0)
      <3> TAKE x \in Element
      <3>1. pos \in 1 .. Len(es) + 1
        BY <1>7, <1>9
      <3>2. Cardinality(Occurrences(fs, x)) = Cardinality(Occurrences(es, x)) + (IF x = e THEN 1 ELSE 0)
        BY <1>7, <2>2, <2>10, <3>1, InsertedOccurs
      <3>3. Cardinality(Occurrences(es, x)) = Cardinality(Occurrences(old, x))
        BY <1>6 DEF Rearranged
      <3> QED
        BY <1>12, <2>3, <2>8, <3>2, <3>3
    <2>13. pos \in DOMAIN Nodes' /\ Nodes'[pos].ref \in Addr \ L!RefsIn(Nodes)
      <3>1. pos \in 1 .. Len(s) + 1 /\ ~ (pos < pos)
        BY <1>9
      <3> QED
        BY <1>4, <1>8, <2>3, <2>5, <2>7, <3>1
    <2>14. L!RemoveAt(Nodes', pos) = l
      BY <2>3, <2>6, SameLibrary
    <2>15. [j \in DOMAIN l |-> l[j].ref] = [j \in DOMAIN Nodes |-> Nodes[j].ref]
      BY <1>4, <2>4
    <2>16. L!Ascending(Nodes) => l = Nodes
      <3> SUFFICES ASSUME L!Ascending(Nodes) PROVE l = Nodes
        OBVIOUS
      <3>1. es = old
        BY <1>6, <1>12
      <3>2. \A k \in 1 .. Len(s) : old[k] = Nodes[k].element
        BY <1>4, <1>11
      <3>3. \A k \in 1 .. Len(s) : l[k] = Nodes[k]
        BY <1>4, <1>8, <2>4, <3>1, <3>2
      <3> QED
        BY <1>4, <2>4, <3>3, SeqExtensionality
    <2> QED
      BY <1>15, <2>2, <2>11, <2>12, <2>13, <2>14, <2>15, <2>16 DEF L!InsertSorted
  <1> QED
    BY <1>13, <1>14, <1>15

\* Every step of the pointer list is a step of the indexed list.
LEMMA NextImplements == IInv /\ [Next]_vars => [L!Next]_(L!lvars)
  <1> SUFFICES ASSUME IInv, [Next]_vars PROVE [L!Next]_(L!lvars)
    OBVIOUS
  <1>1. PICK s \in Seq(Addr) : Linked(heap, head, s)
    BY DEF IInv
  <1>2. heap \in [DOMAIN heap -> NodeType] /\ Index \subseteq Int
    BY IndexAssumption DEF IInv, TypeOK, NodeType
  <1>3. Len(s) \in Nat /\ dpl_size = Len(s) /\ Chain = s
    BY <1>1, LinkedFinite, WalkFacts
  <1>4. Nodes = NodesOf(heap, s) /\ Nodes \in Seq(ListNode) /\ Len(Nodes) = Len(s) /\ L!RefsIn(Nodes) = DOMAIN heap
    <2>1. ListsNodes(NodesOf(heap, s), heap, s) /\ Nodes = NodesOf(heap, s)
      BY <1>1, <1>2, NodesOfFacts, NodesAre
    <2> QED
      BY <2>1 DEF ListsNodes
  <1>5. /\ \A r : dpl_get_index_of_reference(r) = IF r = NULL THEN Len(s) - 1 ELSE First(PlacesOfRef(s, r)) - 1
        /\ \A r : First(PlacesOfRef(s, r)) \in 0 .. Len(s)
        /\ \A e : dpl_get_index_of_element(e) = First(PlacesOfElement(heap, s, e)) - 1
        /\ \A e : First(PlacesOfElement(heap, s, e)) \in 0 .. Len(s)
    BY <1>1, IndexFacts
  <1>6. /\ \A r : L!IndexOfRef(r) = First(PlacesOfRef(s, r)) - 1
        /\ \A e \in Element : L!IndexOfElement(e) = First(PlacesOfElement(heap, s, e)) - 1
        /\ \A r : First(PlacesOfRef(s, r)) # 0 <=> r \in L!RefsIn(Nodes)
    BY <1>1, <1>2, PlacesAgree
  <1>7. \A c : Called(c) <=> L!Called(c)
    BY DEF Called, L!Called
  <1>8. \A r : /\ dpl_get_index_of_reference(r) \in Int
               /\ r # NULL => /\ dpl_get_index_of_reference(r) = L!IndexOfRef(r)
                              /\ dpl_get_index_of_reference(r) # -1 <=> r \in L!RefsIn(Nodes)
    <2> TAKE r
    <2>1. First(PlacesOfRef(s, r)) \in Int /\ Len(s) \in Int
      BY <1>3, <1>5
    <2> QED
      BY <1>5, <1>6, <2>1
  <1>9. \A e \in Element : /\ dpl_get_index_of_element(e) \in Int
                           /\ dpl_get_index_of_element(e) = L!IndexOfElement(e)
    BY <1>3, <1>5, <1>6
  <1>10. dpl_create => L!Create
    <2> SUFFICES ASSUME dpl_create PROVE L!Create
      OBVIOUS
    <2>1. CASE status' = "live" /\ head' = NULL /\ UNCHANGED heap
      <3>1. UNCHANGED <<head, heap>> /\ status = "NULL"
        BY <2>1 DEF dpl_create, IInv
      <3> QED
        BY <2>1, <3>1, NodesUnchanged DEF L!Create
    <2>2. CASE abort
      BY <2>2, AbortImplements DEF dpl_create, L!Create
    <2> QED
      BY <2>1, <2>2 DEF dpl_create
  <1>11. dpl_free => L!Free
    <2> SUFFICES ASSUME dpl_free PROVE L!Free
      OBVIOUS
    <2>1. CASE /\ status = "live"
               /\ heap' = [a \in DOMAIN heap \ ToSet(Chain) |-> heap[a]]
               /\ head' = NULL
               /\ status' = "NULL"
      <3>1. DOMAIN heap \ ToSet(Chain) = {}
        BY <1>1, <1>3 DEF ToSet, Linked
      <3>2. DOMAIN heap' = {}
        BY <2>1, <3>1
      <3>3. Linked(heap', head', <<>>)
        BY <2>1, <3>2 DEF Linked
      <3>4. Nodes' = NodesOf(heap', <<>>)
        BY <3>3, NodesBecome
      <3>5. Nodes' = <<>>
        BY <3>4 DEF NodesOf
      <3> QED
        BY <2>1, <3>5 DEF L!Free
    <2>2. CASE status = "NULL" /\ abort
      BY <2>2, AbortImplements DEF L!Free
    <2> QED
      BY <2>1, <2>2 DEF dpl_free
  <1>12. \A e \in Element0, i \in Int : dpl_insert_at_index(e, i) => L!InsertAtIndex(e, i)
    BY InsertImplements
  <1>13. \A i \in Int : dpl_remove_at_index(i) => L!RemoveAtIndex(i)
    BY RemoveImplements
  <1>14. UNCHANGED <<status, head, heap>> => UNCHANGED <<status, Nodes>>
    BY NodesUnchanged
  <1>15. ASSUME NEW e \in Element0, NEW r \in Addr0, dpl_insert_at_reference(e, r)
         PROVE  L!InsertAtReference(e, r)
    <2>1. CASE status = "live" /\ r = NULL /\ dpl_insert_at_index(e, dpl_size)
      <3>1. dpl_size \in Int /\ dpl_size = Len(Nodes)
        BY <1>3, <1>4
      <3>2. L!InsertAtIndex(e, Len(Nodes))
        BY <1>12, <2>1, <3>1
      <3> QED
        BY <2>1, <3>2 DEF L!InsertAtReference
    <2>2. CASE /\ status = "live" /\ r # NULL /\ dpl_get_index_of_reference(r) # -1
               /\ dpl_insert_at_index(e, dpl_get_index_of_reference(r))
      <3>1. L!InsertAtIndex(e, L!IndexOfRef(r)) /\ r \in L!RefsIn(Nodes)
        BY <1>8, <1>12, <2>2
      <3> QED
        BY <3>1 DEF L!InsertAtReference
    <2>3. CASE /\ status = "live" /\ r # NULL /\ dpl_get_index_of_reference(r) = -1
               /\ UNCHANGED <<status, head, heap>>
      <3>1. r \notin L!RefsIn(Nodes)
        BY <1>8, <2>3
      <3> QED
        BY <1>14, <2>3, <3>1 DEF L!InsertAtReference
    <2>4. CASE status = "NULL" /\ abort
      BY <2>4, AbortImplements DEF L!InsertAtReference
    <2> QED
      BY <1>15, <2>1, <2>2, <2>3, <2>4 DEF dpl_insert_at_reference
  <1>16. ASSUME NEW r \in Addr0, dpl_remove_at_reference(r)
         PROVE  L!RemoveAtReference(r)
    <2>1. CASE status = "live" /\ r = NULL /\ dpl_remove_at_index(dpl_size - 1)
      <3>1. dpl_size - 1 \in Int /\ dpl_size - 1 = Len(Nodes) - 1
        BY <1>3, <1>4
      <3>2. L!RemoveAtIndex(Len(Nodes) - 1)
        BY <1>13, <2>1, <3>1
      <3> QED
        BY <2>1, <3>2 DEF L!RemoveAtReference
    <2>2. CASE /\ status = "live" /\ r # NULL /\ dpl_get_index_of_reference(r) # -1
               /\ dpl_remove_at_index(dpl_get_index_of_reference(r))
      <3>1. L!RemoveAtIndex(L!IndexOfRef(r)) /\ r \in L!RefsIn(Nodes)
        BY <1>8, <1>13, <2>2
      <3> QED
        BY <3>1 DEF L!RemoveAtReference
    <2>3. CASE /\ status = "live" /\ r # NULL /\ dpl_get_index_of_reference(r) = -1
               /\ UNCHANGED <<status, head, heap>>
      <3>1. r \notin L!RefsIn(Nodes)
        BY <1>8, <2>3
      <3> QED
        BY <1>14, <2>3, <3>1 DEF L!RemoveAtReference
    <2>4. CASE status = "NULL" /\ abort
      BY <2>4, AbortImplements DEF L!RemoveAtReference
    <2> QED
      BY <1>16, <2>1, <2>2, <2>3, <2>4 DEF dpl_remove_at_reference
  <1>17. ASSUME NEW e \in Element, dpl_remove_element(e)
         PROVE  L!RemoveElement(e)
    <2>1. CASE /\ status = "live" /\ dpl_get_index_of_element(e) # -1
               /\ dpl_remove_at_index(dpl_get_index_of_element(e))
      <3>1. L!RemoveAtIndex(L!IndexOfElement(e)) /\ L!IndexOfElement(e) # -1
        BY <1>9, <1>13, <2>1
      <3> QED
        BY <2>1, <3>1 DEF L!RemoveElement
    <2>2. CASE /\ status = "live" /\ dpl_get_index_of_element(e) = -1
               /\ UNCHANGED <<status, head, heap>>
      <3>1. L!IndexOfElement(e) = -1
        BY <1>9, <2>2
      <3> QED
        BY <1>14, <2>2, <3>1 DEF L!RemoveElement
    <2>3. CASE status = "NULL" /\ abort
      BY <2>3, AbortImplements DEF L!RemoveElement
    <2> QED
      BY <1>17, <2>1, <2>2, <2>3 DEF dpl_remove_element
  <1>18. CASE UNCHANGED vars
    <2>1. UNCHANGED <<status, head, heap>> /\ UNCHANGED call
      BY <1>18 DEF vars
    <2> QED
      BY <1>14, <2>1 DEF L!lvars
  <1>19. CASE Next
    <2>1. CASE Called(<<"create">>) /\ dpl_create
      BY <1>7, <1>10, <2>1 DEF L!Next
    <2>2. CASE Called(<<"free">>) /\ dpl_free
      BY <1>7, <1>11, <2>2 DEF L!Next
    <2>3. ASSUME NEW e \in Element0, NEW i \in Index,
                 Called(<<"insert_at_index", e, i>>), dpl_insert_at_index(e, i)
          PROVE  L!Next
      <3>1. e \in L!Element0 /\ i \in Int
        BY <1>2 DEF Element0, L!Element0
      <3> QED
        BY <1>7, <1>12, <2>3, <3>1 DEF L!Next
    <2>4. ASSUME NEW i \in Index, Called(<<"remove_at_index", i>>), dpl_remove_at_index(i)
          PROVE  L!Next
      BY <1>2, <1>7, <1>13, <2>4 DEF L!Next
    <2>5. ASSUME NEW e \in Element0, NEW r \in Addr0,
                 Called(<<"insert_at_reference", e, r>>), dpl_insert_at_reference(e, r)
          PROVE  L!Next
      <3>1. e \in L!Element0 /\ r \in L!Ref0
        BY DEF Element0, L!Element0, Addr0, L!Ref0
      <3> QED
        BY <1>7, <1>15, <2>5, <3>1 DEF L!Next
    <2>6. ASSUME NEW r \in Addr0, Called(<<"remove_at_reference", r>>), dpl_remove_at_reference(r)
          PROVE  L!Next
      <3>1. r \in L!Ref0
        BY DEF Addr0, L!Ref0
      <3> QED
        BY <1>7, <1>16, <2>6, <3>1 DEF L!Next
    <2>7. ASSUME NEW e \in Element0, Called(<<"insert_sorted", e>>), dpl_insert_sorted(e)
          PROVE  L!Next
      <3>1. e \in L!Element0 /\ L!InsertSorted(e)
        BY <2>7, InsertSortedImplements DEF Element0, L!Element0
      <3> QED
        BY <1>7, <2>7, <3>1 DEF L!Next
    <2>8. ASSUME NEW e \in Element, Called(<<"remove_element", e>>), dpl_remove_element(e)
          PROVE  L!Next
      BY <1>7, <1>17, <2>8 DEF L!Next
    <2> QED
      BY <1>19, <2>1, <2>2, <2>3, <2>4, <2>5, <2>6, <2>7, <2>8 DEF Next
  <1> QED
    BY <1>18, <1>19

\* The pointer operations implement the indexed list that dplist.h promises,
\* the sort of dpl_insert_sorted included, and abort only without a list, an
\* element or memory.
THEOREM ListIsImplemented == Spec => Implements
  <1>1. Init => L!Init
    <2> SUFFICES ASSUME Init PROVE L!Init
      OBVIOUS
    <2>1. Linked(heap, head, <<>>)
      BY DEF Init, Linked
    <2>2. Nodes = NodesOf(heap, <<>>)
      BY <2>1, NodesAre
    <2>3. Nodes = <<>>
      BY <2>2 DEF NodesOf
    <2> QED
      BY <2>3 DEF Init, L!Init
  <1> QED
    BY <1>1, NextImplements, Invariance, PTL DEF Spec, Implements, L!Spec
-----------------------------------------------------------------------------
(* The queries.                                                            *)

LEMMA IInvQueriesAgree == IInv => QueriesAgree
  <1> SUFFICES ASSUME IInv PROVE QueriesAgree
    OBVIOUS
  <1>1. PICK s \in Seq(Addr) : Linked(heap, head, s)
    BY DEF IInv
  <1>2. heap \in [DOMAIN heap -> NodeType] /\ Index \subseteq Int
    BY IndexAssumption DEF IInv, TypeOK, NodeType
  <1>3. /\ Len(s) \in Nat /\ dpl_size = Len(s) /\ Chain = s /\ DOMAIN s = 1 .. Len(s)
        /\ \A k \in 1 .. Len(s) : s[k] \in Addr /\ s[k] # NULL
    BY <1>1, LinkedFinite, WalkFacts, NULLAssumption
  <1>4. /\ Len(Nodes) = Len(s) /\ DOMAIN Nodes = 1 .. Len(s) /\ L!RefsIn(Nodes) = DOMAIN heap
        /\ \A k \in 1 .. Len(s) : Nodes[k].ref = s[k] /\ Nodes[k].element = heap[s[k]].element
    <2>1. ListsNodes(NodesOf(heap, s), heap, s) /\ Nodes = NodesOf(heap, s)
      BY <1>1, <1>2, NodesOfFacts, NodesAre
    <2> QED
      BY <2>1 DEF ListsNodes
  <1>5. /\ \A j, k \in 1 .. Len(s) : s[j] = s[k] => j = k
        /\ DOMAIN heap = {s[k] : k \in 1 .. Len(s)}
        /\ head = IF Len(s) = 0 THEN NULL ELSE s[1]
        /\ \A k \in 1 .. Len(s) : /\ heap[s[k]].prev = IF k = 1 THEN NULL ELSE s[k - 1]
                                  /\ heap[s[k]].next = IF k = Len(s) THEN NULL ELSE s[k + 1]
    BY <1>1 DEF Linked
  <1>6. head = NULL <=> Len(s) = 0
    <2>1. Len(s) # 0 => 1 \in 1 .. Len(s)
      BY <1>3
    <2> QED
      BY <1>3, <1>5, <2>1
  <1>7. \A j \in Int : /\ L!RefAt(j) = IF j + 1 \in 1 .. Len(s) THEN s[j + 1] ELSE NULL
                       /\ L!ElementAt(j) = IF j + 1 \in 1 .. Len(s) THEN heap[s[j + 1]].element ELSE NULL
    BY <1>4 DEF L!RefAt, L!ElementAt
  <1>8. Len(s) # 0 => \A j \in Int : /\ L!Clamp(j, Len(s)) \in 1 .. Len(s)
                                     /\ dpl_get_reference_at_index(j) = s[L!Clamp(j, Len(s))]
    BY <1>1, ReferenceFacts
  <1>9. Len(s) = 0 => \A j \in Int : /\ dpl_get_reference_at_index(j) = NULL
                                     /\ dpl_get_element_at_index(j) = NULL
    BY <1>6 DEF dpl_get_reference_at_index, dpl_get_element_at_index
  <1>10. /\ \A r : dpl_get_index_of_reference(r) = IF r = NULL THEN Len(s) - 1 ELSE First(PlacesOfRef(s, r)) - 1
         /\ \A r : First(PlacesOfRef(s, r)) \in 0 .. Len(s)
         /\ \A e : dpl_get_index_of_element(e) = First(PlacesOfElement(heap, s, e)) - 1
         /\ \A e : First(PlacesOfElement(heap, s, e)) \in 0 .. Len(s)
    BY <1>1, IndexFacts
  <1>11. /\ \A r : L!IndexOfRef(r) = First(PlacesOfRef(s, r)) - 1
         /\ \A e \in Element : L!IndexOfElement(e) = First(PlacesOfElement(heap, s, e)) - 1
    BY <1>1, <1>2, PlacesAgree
  <1>12. dpl_get_first_reference = L!RefAt(0)
    <2>1. L!RefAt(0) = IF 0 + 1 \in 1 .. Len(s) THEN s[0 + 1] ELSE NULL
      BY <1>7
    <2> QED
      BY <1>3, <1>5, <2>1 DEF dpl_get_first_reference
  <1>13. ASSUME NEW i \in Int
         PROVE  LET at == L!Clamp(i, Len(s)) - 1 IN
                /\ dpl_get_reference_at_index(i) = L!RefAt(at)
                /\ dpl_get_element_at_index(i) = L!ElementAt(at)
    <2> DEFINE c == L!Clamp(i, Len(s))
    <2>1. c \in Int /\ c - 1 \in Int /\ (c - 1) + 1 = c
      BY <1>3 DEF L!Clamp
    <2>2. /\ L!RefAt(c - 1) = IF c \in 1 .. Len(s) THEN s[c] ELSE NULL
          /\ L!ElementAt(c - 1) = IF c \in 1 .. Len(s) THEN heap[s[c]].element ELSE NULL
      <3> HIDE DEF c
      <3>1. /\ L!RefAt(c - 1) = IF (c - 1) + 1 \in 1 .. Len(s) THEN s[(c - 1) + 1] ELSE NULL
            /\ L!ElementAt(c - 1) = IF (c - 1) + 1 \in 1 .. Len(s) THEN heap[s[(c - 1) + 1]].element ELSE NULL
        BY <1>7, <2>1
      <3> QED
        BY <2>1, <3>1
    <2>3. CASE Len(s) = 0
      BY <1>9, <2>2, <2>3
    <2>4. CASE Len(s) # 0
      <3>1. c \in 1 .. Len(s) /\ dpl_get_reference_at_index(i) = s[c]
        BY <1>8, <2>4
      <3>2. dpl_get_element_at_index(i) = heap[s[c]].element
        BY <1>6, <2>4, <3>1 DEF dpl_get_element_at_index
      <3> HIDE DEF c
      <3> QED
        BY <2>2, <3>1, <3>2 DEF c
    <2> QED
      BY <2>3, <2>4
  <1>14. /\ dpl_get_last_reference = L!RefAt(Len(s) - 1)
         /\ dpl_get_element_at_index(Len(s) - 1) = L!ElementAt(Len(s) - 1)
    <2> DEFINE c == L!Clamp(Len(s) - 1, Len(s))
    <2>1. /\ dpl_get_reference_at_index(Len(s) - 1) = L!RefAt(c - 1)
          /\ dpl_get_element_at_index(Len(s) - 1) = L!ElementAt(c - 1)
      BY <1>3, <1>13
    <2>2. CASE Len(s) = 0
      <3>1. /\ L!RefAt(Len(s) - 1) = NULL /\ L!ElementAt(Len(s) - 1) = NULL
            /\ Len(s) - 1 \in Int
        BY <1>3, <1>7, <2>2
      <3> QED
        BY <1>3, <1>9, <2>2, <3>1 DEF dpl_get_last_reference
    <2>3. CASE Len(s) # 0
      <3>1. c = Len(s)
        BY <1>3, <2>3 DEF L!Clamp
      <3> HIDE DEF c
      <3> QED
        BY <1>3, <2>1, <3>1 DEF dpl_get_last_reference
    <2> QED
      BY <2>2, <2>3
  <1>15. ASSUME NEW e \in Element
         PROVE  LET at == L!IndexOfElement(e) IN
                /\ dpl_get_index_of_element(e) = at
                /\ dpl_get_reference_of_element(e) = L!RefAt(at)
    <2> DEFINE f == First(PlacesOfElement(heap, s, e))
    <2>1. /\ f \in 0 .. Len(s) /\ dpl_get_index_of_element(e) = f - 1 /\ L!IndexOfElement(e) = f - 1
      BY <1>10, <1>11
    <2> HIDE DEF f
    <2>2. L!RefAt(f - 1) = IF f \in 1 .. Len(s) THEN s[f] ELSE NULL
      <3>1. f - 1 \in Int /\ (f - 1) + 1 = f
        BY <1>3, <2>1
      <3>2. L!RefAt(f - 1) = IF (f - 1) + 1 \in 1 .. Len(s) THEN s[(f - 1) + 1] ELSE NULL
        BY <1>7, <3>1
      <3> QED
        BY <3>1, <3>2
    <2>3. CASE f = 0
      BY <1>3, <2>1, <2>2, <2>3 DEF dpl_get_reference_of_element
    <2>4. CASE f # 0
      <3>1. f \in 1 .. Len(s) /\ Len(s) # 0 /\ f - 1 # -1 /\ f - 1 \in Int
        BY <1>3, <2>1, <2>4
      <3>2. L!Clamp(f - 1, Len(s)) = f
        BY <1>3, <3>1 DEF L!Clamp
      <3>3. dpl_get_reference_at_index(f - 1) = s[f]
        BY <1>8, <3>1, <3>2
      <3> QED
        BY <2>1, <2>2, <3>1, <3>3 DEF dpl_get_reference_of_element
    <2> QED
      BY <2>3, <2>4
  <1>16. ASSUME NEW r \in Addr0
         PROVE  LET at == IF r = NULL THEN Len(s) - 1 ELSE L!IndexOfRef(r) IN
                /\ dpl_get_index_of_reference(r) = at
                /\ dpl_get_element_at_reference(r) = L!ElementAt(at)
                /\ dpl_get_previous_reference(r) = IF r = NULL THEN L!RefAt(at) ELSE L!RefAt(at - 1)
                /\ dpl_get_next_reference(r) = IF r = NULL \/ at = -1 THEN NULL ELSE L!RefAt(at + 1)
    <2>1. ToSet(Chain) = {s[k] : k \in 1 .. Len(s)}
      BY <1>3 DEF ToSet
    <2>2. CASE r = NULL
      <3>1. r \notin ToSet(Chain)
        BY <1>3, <2>1, <2>2
      <3> QED
        BY <1>3, <1>10, <1>14, <2>2, <3>1
           DEF dpl_get_element_at_reference, dpl_get_previous_reference, dpl_get_next_reference
    <2>3. CASE r # NULL
      <3> DEFINE f == First(PlacesOfRef(s, r))
      <3>1. /\ f \in 0 .. Len(s) /\ (f = 0 <=> PlacesOfRef(s, r) = {})
            /\ PlacesOfRef(s, r) # {} => f \in PlacesOfRef(s, r)
        <4>1. PlacesOfRef(s, r) \subseteq 1 .. Len(s)
          BY DEF PlacesOfRef
        <4> QED
          BY <1>3, <4>1, FirstFacts
      <3>2. dpl_get_index_of_reference(r) = f - 1 /\ L!IndexOfRef(r) = f - 1
        BY <1>10, <1>11, <2>3
      <3>3. f # 0 => f \in 1 .. Len(s) /\ s[f] = r
        BY <3>1 DEF PlacesOfRef
      <3>4. f # 0 <=> r \in ToSet(Chain)
        BY <2>1, <3>1 DEF PlacesOfRef
      <3> HIDE DEF f
      <3>5. CASE f = 0
        <4>1. L!ElementAt(-1) = NULL /\ L!RefAt(-2) = NULL /\ f - 1 = -1 /\ (f - 1) - 1 = -2
          <5>1. -1 \in Int /\ -2 \in Int /\ -1 + 1 = 0 /\ -2 + 1 = -1
            OBVIOUS
          <5>2. ~ (0 \in 1 .. Len(s)) /\ ~ (-1 \in 1 .. Len(s))
            BY <1>3
          <5> QED
            BY <1>7, <3>5, <5>1, <5>2
        <4> QED
          BY <2>3, <3>2, <3>4, <3>5, <4>1
             DEF dpl_get_element_at_reference, dpl_get_previous_reference, dpl_get_next_reference
      <3>6. CASE f # 0
        <4>0. /\ f - 1 \in Int /\ (f - 1) - 1 \in Int /\ (f - 1) + 1 \in Int /\ f \in 1 .. Len(s)
              /\ (f - 1) + 1 = f /\ ((f - 1) - 1) + 1 = f - 1 /\ ((f - 1) + 1) + 1 = f + 1
              /\ f - 1 # -1
          BY <1>3, <3>1, <3>6
        <4>1. L!ElementAt(f - 1) = heap[s[f]].element
          BY <1>7, <4>0
        <4>2. L!RefAt((f - 1) - 1) = IF f - 1 \in 1 .. Len(s) THEN s[f - 1] ELSE NULL
          BY <1>7, <4>0
        <4>3. L!RefAt((f - 1) + 1) = IF f + 1 \in 1 .. Len(s) THEN s[f + 1] ELSE NULL
          BY <1>7, <4>0
        <4>4. heap[r].prev = L!RefAt((f - 1) - 1) /\ heap[r].next = L!RefAt((f - 1) + 1)
          BY <1>3, <1>5, <3>3, <3>6, <4>0, <4>2, <4>3
        <4> QED
          BY <2>3, <3>2, <3>3, <3>4, <3>6, <4>0, <4>1, <4>4
             DEF dpl_get_element_at_reference, dpl_get_previous_reference, dpl_get_next_reference
      <3> QED
        BY <3>5, <3>6
    <2> QED
      BY <2>2, <2>3
  <1> QED
    BY <1>2, <1>3, <1>4, <1>12, <1>13, <1>14, <1>15, <1>16 DEF QueriesAgree

\* Every query of dplist.c answers what dplist.h says of the sequence, for every
\* index, element and reference, dangling ones included.
THEOREM QueriesAnswer == Spec => []QueriesAgree
  BY IInvQueriesAgree, Invariance, PTL
=============================================================================
