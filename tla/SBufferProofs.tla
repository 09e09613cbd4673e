--------------------------- MODULE SBufferProofs ----------------------------
(***************************************************************************)
(* Theorems about SBuffer, for every set of measurements and any number of *)
(* insertions: the inductive invariant, the safety invariants that follow  *)
(* from it, and the refinement of BroadcastQueue.                          *)
(***************************************************************************)
EXTENDS SBuffer, TLAPS

\* Appending keeps the elements and adds one at the end: the fact about
\* sequences behind every insertion and every delivery.
LEMMA AppendFacts ==
  ASSUME NEW S, NEW s \in Seq(S), NEW e \in S
  PROVE  /\ Append(s, e) \in Seq(S)
         /\ Len(Append(s, e)) = Len(s) + 1
         /\ Len(s) \in Nat
         /\ Append(s, e)[Len(s) + 1] = e
         /\ \A k \in 1 .. Len(s) : Append(s, e)[k] = s[k]
  OBVIOUS

\* The lower of the readers' positions is a natural number at most each.
LEMMA LowFacts ==
  ASSUME TypeOK
  PROVE  /\ Low \in Nat
         /\ \A r \in Readers : Given(r) \in Nat /\ Low <= Given(r)
         /\ \E r \in Readers : Low = Given(r)
  BY DEF TypeOK, Low, Given, Readers

LEMMA InitIInv == Init => IInv
  <1> SUFFICES ASSUME Init PROVE IInv
    OBVIOUS
  <1> USE DEF Init, sbuffer_init
  <1>1. /\ DOMAIN heap = {} /\ Len(inserted) = 0
        /\ \A r \in Readers : Given(r) = 0
    BY DEF Given
  <1>2. Low = 0
    BY <1>1 DEF Low, Readers
  <1>3. TypeOK
    BY <1>1 DEF TypeOK, Threads, Readers, Node, Address
  <1>4. Interval /\ Nodes /\ Prefixes /\ TailInv
    BY <1>1, <1>2 DEF Interval, Nodes, Prefixes, TailInv
  <1>5. Locking
    BY DEF Locking, Threads, Readers
  <1> QED
    BY <1>3, <1>4, <1>5 DEF IInv

LEMMA InsertIInv ==
  ASSUME IInv, NEW d \in Data, sbuffer_insert(d)
  PROVE  IInv'
  <1> DEFINE N == Len(inserted)
             new == N + 1
  <1>1. /\ N \in Nat
        /\ inserted' = Append(inserted, d)
        /\ inserted' \in Seq(Data)
        /\ Len(inserted') = N + 1
        /\ inserted'[N + 1] = d
        /\ \A k \in 1 .. N : inserted'[k] = inserted[k]
    BY AppendFacts DEF IInv, TypeOK, sbuffer_insert
  <1>2. got' = got /\ buffer' = buffer /\ dummy' = dummy
        /\ pc["connmgr"] = "select" /\ mutex_buf = NULL
    BY DEF sbuffer_insert
  <1>3. buffer = "live"
    BY <1>2 DEF IInv, Locking, TypeOK, Threads
  <1>4. Low' = Low /\ \A r \in Readers : Given(r)' = Given(r)
    BY <1>2 DEF Low, Given
  <1>5. \A r \in Readers : pc[r] # "walk"
    BY <1>2, NULLAssumption DEF IInv, Locking, Threads
  <1>6. CASE tail = NULL
    <2>1. /\ head' = new /\ tail' = new /\ mutex_buf' = mutex_buf /\ pc' = pc
          /\ DOMAIN heap' = DOMAIN heap \cup {new}
          /\ heap'[new] = [next |-> NULL, data |-> d, read |-> {}]
      BY <1>6 DEF sbuffer_insert, FreshAddress
    <2>2. head = NULL /\ DOMAIN heap = {} /\ Low = N
      BY <1>1, <1>2, <1>3, <1>6, LowFacts, NULLAssumption
      DEF IInv, TailInv, Interval, TypeOK, Address
    <2>3. TypeOK'
      <3>1. DOMAIN heap' = {new} /\ heap' \in [{new} -> Node']
        BY <1>1, <1>6, <2>1, <2>2 DEF sbuffer_insert, FreshAddress, Node, Address
      <3> QED
        BY <1>1, <1>2, <2>1, <2>2, <3>1 DEF IInv, TypeOK, Address
    <2>4. Interval' /\ TailInv'
      BY <1>1, <1>2, <1>3, <1>4, <2>1, <2>2, NULLAssumption
      DEF Interval, TailInv
    <2>5. Nodes'
      BY <1>1, <1>2, <1>3, <1>4, <2>1, <2>2, LowFacts
      DEF IInv, Nodes, Prefixes, Readers, Given
    <2>6. Prefixes'
      BY <1>1, <1>2, <1>4 DEF IInv, Prefixes, TypeOK, Given
    <2>7. Locking'
      BY <1>2, <1>3, <1>5, <2>1 DEF IInv, Locking
    <2> QED
      BY <2>3, <2>4, <2>5, <2>6, <2>7 DEF IInv
  <1>7. CASE tail # NULL
    <2>1. /\ head' = head /\ tail' = tail /\ mutex_buf' = "connmgr"
          /\ pc' = [pc EXCEPT !["connmgr"] = "advance_tail"]
      BY <1>7 DEF sbuffer_insert, Goto
    <2>2. head # NULL /\ tail = N /\ DOMAIN heap = head .. N
          /\ head \in 1 .. N /\ head = Low + 1
      BY <1>1, <1>2, <1>3, <1>7, LowFacts
      DEF IInv, TailInv, Interval, TypeOK, Address
    <2>3. /\ DOMAIN heap' = head .. new
          /\ heap'[new] = [next |-> NULL, data |-> d, read |-> {}]
          /\ heap'[N] = [heap[N] EXCEPT !.next = new]
          /\ \A n \in head .. N : n # N => heap'[n] = heap[n]
      <3> DEFINE node == [next |-> NULL, data |-> d, read |-> {}]
                 h == [heap EXCEPT ![N].next = new]
      <3>1. heap' = [n \in DOMAIN h \cup {new} |-> IF n = new THEN node ELSE h[n]]
        BY <1>7, <2>2 DEF sbuffer_insert, FreshAddress
      <3>2. /\ DOMAIN h = head .. N
            /\ h[N] = [heap[N] EXCEPT !.next = new]
            /\ \A n \in head .. N : n # N => h[n] = heap[n]
        BY <1>1, <2>2
      <3> HIDE DEF h, node
      <3>3. DOMAIN h \cup {new} = head .. new
        BY <1>1, <2>2, <3>2
      <3>4. /\ heap'[new] = node
            /\ \A n \in head .. N : heap'[n] = h[n]
        BY <1>1, <2>2, <3>1, <3>3
      <3>5. DOMAIN heap' = head .. new
        BY <3>1, <3>3
      <3>6. N \in head .. N
        BY <1>1, <2>2
      <3> QED
        BY <3>2, <3>4, <3>5, <3>6 DEF node
    <2>4. TypeOK'
      <3>1. \A n \in head .. N : heap[n] \in Node
        BY <2>2 DEF IInv, TypeOK
      <3>2. \A n \in DOMAIN heap' : heap'[n] \in Node'
        <4>1. heap'[new] \in Node'
          BY <1>1, <2>3 DEF Node, Address
        <4>2. heap'[N] \in Node'
          BY <1>1, <2>2, <2>3, <3>1 DEF Node, Address
        <4>3. ASSUME NEW n \in head .. N, n # N PROVE heap'[n] \in Node'
          BY <1>1, <2>2, <2>3, <3>1, <4>3 DEF Node, Address
        <4> QED
          BY <1>1, <2>2, <2>3, <4>1, <4>2, <4>3
      <3>3. heap' \in [DOMAIN heap' -> Node']
        BY <1>7, <3>2 DEF sbuffer_insert
      <3> QED
        BY <1>1, <1>2, <2>1, <2>2, <2>3, <3>3
        DEF IInv, TypeOK, Address, Threads
    <2>5. Interval' /\ TailInv'
      BY <1>1, <1>2, <1>3, <1>4, <2>1, <2>2, <2>3, LowFacts
      DEF IInv, TypeOK, Threads, Interval, TailInv
    <2>6. Nodes'
      <3>1. \A n \in head .. N : heap[n] \in Node
        BY <2>2 DEF IInv, TypeOK
      <3>2. ASSUME NEW n \in head .. N
            PROVE  /\ heap'[n].next = n + 1
                   /\ heap'[n].data = inserted[n]
                   /\ heap'[n].read = heap[n].read
        BY <1>1, <2>2, <2>3, <3>1 DEF IInv, Nodes, Node
      <3> QED
        BY <1>1, <1>2, <1>3, <1>4, <2>2, <2>3, <3>2
        DEF IInv, Nodes, Prefixes, TypeOK, Given
    <2>7. Prefixes'
      BY <1>1, <1>2, <1>4 DEF IInv, Prefixes, TypeOK, Given
    <2>8. Locking'
      BY <1>1, <1>2, <1>3, <1>5, <2>1, <2>2
      DEF IInv, Locking, TypeOK, Readers, Threads
    <2> QED
      BY <2>4, <2>5, <2>6, <2>7, <2>8 DEF IInv
  <1> QED
    BY <1>6, <1>7

LEMMA AdvanceTailIInv ==
  ASSUME IInv, sbuffer_insert_advance_tail
  PROVE  IInv'
  <1> DEFINE N == Len(inserted)
  <1>1. /\ pc["connmgr"] = "advance_tail" /\ mutex_buf' = NULL
        /\ tail' = heap[tail].next
        /\ pc' = [pc EXCEPT !["connmgr"] = "select"]
        /\ UNCHANGED <<buffer, head, heap, dummy, inserted, got>>
    BY DEF sbuffer_insert_advance_tail, Goto
  <1>2. /\ buffer = "live" /\ mutex_buf = "connmgr"
        /\ head # NULL /\ head < N /\ N \in Nat
    BY <1>1 DEF IInv, Locking, TypeOK, Threads
  <1>3. tail = N - 1 /\ tail \in DOMAIN heap /\ N - 1 # N
    BY <1>1, <1>2 DEF IInv, TailInv, Interval, TypeOK, Address
  <1>4. tail' = N
    BY <1>1, <1>2, <1>3 DEF IInv, Nodes
  <1>5. TypeOK'
    BY <1>1, <1>2, <1>4 DEF IInv, TypeOK, Threads, Node, Address
  <1>6. Interval' /\ Nodes' /\ Prefixes'
    BY <1>1 DEF IInv, Interval, Nodes, Prefixes, Low, Given
  <1>7. TailInv'
    BY <1>1, <1>2, <1>4 DEF IInv, TypeOK, Threads, TailInv
  <1>8. Locking'
    BY <1>1, <1>2 DEF IInv, TypeOK, Threads, Readers, Locking
  <1> QED
    BY <1>5, <1>6, <1>7, <1>8 DEF IInv

\* The steps that only move a thread from one place to another.
LEMMA MoveIInv ==
  ASSUME IInv, NEW r \in Readers,
         \/ connmgr_exit
         \/ reader_start(r)
         \/ sbuffer_get_first_node(r)
         \/ reader_while(r)
         \/ sbuffer_remove(r) /\ head = NULL
  PROVE  IInv'
  <1>1. /\ UNCHANGED <<buffer, head, tail, heap, mutex_buf, dummy, inserted, got>>
        /\ \E t \in Threads, l \in {"joined", "while", "sbuffer_remove",
                                    "sbuffer_get_first_node"} :
              /\ pc' = [pc EXCEPT ![t] = l]
              /\ pc[t] \notin {"joined", "walk", "advance_tail"}
              /\ t = "connmgr" => l = "joined"
    BY DEF connmgr_exit, reader_start, sbuffer_get_first_node, reader_while, sbuffer_remove,
           Goto, ptrs, Threads, Readers
  <1>2. TypeOK'
    BY <1>1 DEF IInv, TypeOK, Threads, Node, Address
  <1>3. Interval' /\ Nodes' /\ Prefixes'
    BY <1>1 DEF IInv, Interval, Nodes, Prefixes, Low, Given
  <1>4. TailInv'
    BY <1>1 DEF IInv, TypeOK, Threads, TailInv
  <1>5. Locking'
    <2>1. PICK t \in Threads, l \in {"joined", "while", "sbuffer_remove",
                                     "sbuffer_get_first_node"} :
              /\ pc' = [pc EXCEPT ![t] = l]
              /\ pc[t] \notin {"joined", "walk", "advance_tail"}
              /\ t = "connmgr" => l = "joined"
      BY <1>1
    <2>2. buffer = "live"
      BY <2>1 DEF IInv, Locking
    <2>3. \A u \in Threads :
             (pc'[u] = "walk" <=> pc[u] = "walk")
             /\ (pc'[u] = "advance_tail" <=> pc[u] = "advance_tail")
      BY <2>1 DEF IInv, TypeOK
    <2>4. /\ pc'["connmgr"] \in {pc["connmgr"], "joined"}
          /\ \A u \in Readers : pc'[u] \in {pc[u], l}
      BY <2>1 DEF IInv, TypeOK, Threads
    <2> QED
      BY <1>1, <2>1, <2>2, <2>3, <2>4 DEF IInv, Locking, Threads, Given
  <1> QED
    BY <1>2, <1>3, <1>4, <1>5 DEF IInv

\* The steps of a reader inside sbuffer_remove before it finds its node.
LEMMA WalkIInv ==
  ASSUME IInv, NEW r \in Readers,
         \/ sbuffer_remove(r) /\ head # NULL
         \/ sbuffer_remove_walk(r)
  PROVE  IInv'
  <1>1. UNCHANGED <<buffer, head, tail, heap, inserted, got>>
    BY DEF sbuffer_remove, sbuffer_remove_walk, ptrs
  <1>2. Interval' /\ Nodes' /\ Prefixes'
    BY <1>1 DEF IInv, Interval, Nodes, Prefixes, Low, Given
  <1>3. CASE sbuffer_remove(r) /\ head # NULL
    <2>1. /\ mutex_buf = NULL /\ mutex_buf' = r /\ pc[r] = "sbuffer_remove"
          /\ dummy' = [dummy EXCEPT ![r] = head]
          /\ pc' = [pc EXCEPT ![r] = "walk"]
      BY <1>3 DEF sbuffer_remove, Goto
    <2>2. buffer = "live" /\ head = Low + 1 /\ head \in DOMAIN heap
      BY <1>3, <2>1, LowFacts
      DEF IInv, Interval, Locking, TypeOK, Threads, Address
    <2>3. TypeOK' /\ TailInv'
      BY <1>1, <2>1
      DEF IInv, TypeOK, TailInv, Threads, Readers, Node, Address
    <2>4. Locking'
      <3>1. \A t \in Readers : pc[t] # "walk"
        BY <2>1, NULLAssumption DEF IInv, Locking, Threads
      <3>2. pc["connmgr"] # "advance_tail"
        BY <2>1, NULLAssumption DEF IInv, Locking, Threads
      <3> QED
        BY <1>1, <2>1, <2>2, <3>1, <3>2, LowFacts
        DEF IInv, TypeOK, Threads, Readers, Locking, Given
    <2> QED
      BY <1>2, <2>3, <2>4 DEF IInv
  <1>4. CASE sbuffer_remove_walk(r)
    <2>1. /\ pc[r] = "walk" /\ mutex_buf = r /\ dummy[r] \in DOMAIN heap
          /\ r \in heap[dummy[r]].read /\ buffer = "live"
      BY <1>4 DEF sbuffer_remove_walk, IInv, Locking, Threads
    <2>2. \A t \in Threads : t # r => pc[t] \notin {"walk", "advance_tail"}
      BY <2>1 DEF IInv, Locking, Threads, Readers
    <2>3. CASE heap[dummy[r]].next = NULL
      <3>1. /\ mutex_buf' = NULL /\ dummy' = [dummy EXCEPT ![r] = NULL]
            /\ pc' = [pc EXCEPT ![r] = "while"]
        BY <1>4, <2>3 DEF sbuffer_remove_walk, Goto
      <3>2. TypeOK' /\ TailInv'
        BY <1>1, <3>1
        DEF IInv, TypeOK, TailInv, Threads, Readers, Node, Address
      <3>3. Locking'
        BY <1>1, <2>1, <2>2, <3>1 DEF IInv, TypeOK, Threads, Readers, Locking
      <3> QED
        BY <1>2, <3>2, <3>3 DEF IInv
    <2>4. CASE heap[dummy[r]].next # NULL
      <3>1. /\ mutex_buf' = mutex_buf /\ pc' = pc
            /\ dummy' = [dummy EXCEPT ![r] = heap[dummy[r]].next]
        BY <1>4, <2>4 DEF sbuffer_remove_walk
      <3>2. /\ heap[dummy[r]].next = dummy[r] + 1
            /\ dummy[r] + 1 \in DOMAIN heap
            /\ dummy[r] <= Given(r)
        BY <2>1, <2>4, NULLAssumption
        DEF IInv, Nodes, Interval, TypeOK, Address
      <3>3. TypeOK' /\ TailInv'
        BY <1>1, <3>1, <3>2
        DEF IInv, TypeOK, TailInv, Threads, Readers, Node, Address
      <3>4. Locking'
        BY <1>1, <2>1, <3>1, <3>2
        DEF IInv, TypeOK, Threads, Readers, Locking, Given, Address
      <3> QED
        BY <1>2, <3>3, <3>4 DEF IInv
    <2> QED
      BY <2>3, <2>4
  <1> QED
    BY <1>3, <1>4

\* What a reader finds when it stops walking: the node with the number of its
\* next measurement; the last flag is only ever raised on the head.
LEMMA TakeFacts ==
  ASSUME IInv, NEW r \in Readers, sbuffer_remove_take(r)
  PROVE  /\ buffer = "live" /\ mutex_buf = r
         /\ \A t \in Threads : t # r => pc[t] \notin {"walk", "advance_tail"}
         /\ dummy[r] = Given(r) + 1 /\ dummy[r] \in DOMAIN heap
         /\ head \in Nat /\ head = Low + 1 /\ DOMAIN heap = head .. Len(inserted)
         /\ tail = Len(inserted)
         /\ heap[dummy[r]].data = inserted[Given(r) + 1]
         /\ heap[dummy[r]].read \cup {r} = Readers => dummy[r] = head
         /\ heap[dummy[r]].read \cup {r} # Readers => Low < Given(r) + 1
              /\ \E o \in Readers : o # r /\ Given(o) = Low
  <1>1. /\ pc[r] = "walk" /\ mutex_buf = r /\ dummy[r] \in DOMAIN heap
        /\ r \notin heap[dummy[r]].read /\ buffer = "live"
        /\ dummy[r] <= Given(r) + 1
    BY DEF sbuffer_remove_take, Take, IInv, Locking, Threads
  <1>2. \A t \in Threads : t # r => pc[t] \notin {"walk", "advance_tail"}
    BY <1>1 DEF IInv, Locking, Threads, Readers
  <1>3. dummy[r] = Given(r) + 1
    BY <1>1, LowFacts DEF IInv, Nodes, TypeOK, Address
  <1>4. head \in Nat /\ head = Low + 1 /\ DOMAIN heap = head .. Len(inserted)
    BY <1>1, NULLAssumption, LowFacts DEF IInv, Interval, TypeOK, Address
  <1>5. tail = Len(inserted)
    BY <1>1, <1>2, <1>4, NULLAssumption DEF IInv, TailInv, Threads, Readers
  <1>6. heap[dummy[r]].data = inserted[Given(r) + 1]
    BY <1>1, <1>3 DEF IInv, Nodes
  <1>7. \A o \in Readers : o \in heap[dummy[r]].read <=> dummy[r] <= Given(o)
    BY <1>1 DEF IInv, Nodes
  <1>8. heap[dummy[r]].read \subseteq Readers
    BY <1>1 DEF IInv, TypeOK, Node
  <1>9. PICK o \in Readers : o # r /\ Readers = {o, r}
    BY DEF Readers
  <1>10. Low = IF Given(o) <= Given(r) THEN Given(o) ELSE Given(r)
    BY <1>9, LowFacts DEF IInv, Low, Readers
  <1> QED
    BY <1>1, <1>2, <1>3, <1>4, <1>5, <1>6, <1>7, <1>8, <1>9, <1>10, LowFacts
    DEF IInv

LEMMA TakeIInv ==
  ASSUME IInv, NEW r \in Readers, sbuffer_remove_take(r)
  PROVE  IInv'
  <1> DEFINE N == Len(inserted)
             n == dummy[r]
  <1>1. /\ buffer = "live" /\ mutex_buf = r
        /\ \A t \in Threads : t # r => pc[t] \notin {"walk", "advance_tail"}
        /\ n = Given(r) + 1 /\ n \in DOMAIN heap
        /\ head \in Nat /\ head = Low + 1 /\ DOMAIN heap = head .. N
        /\ tail = N /\ heap[n].data = inserted[n]
        /\ heap[n].read \cup {r} = Readers => n = head
        /\ heap[n].read \cup {r} # Readers =>
              Low < n /\ \E o \in Readers : o # r /\ Given(o) = Low
    BY TakeFacts
  <1>2. /\ got' = [got EXCEPT ![r] = Append(got[r], heap[n].data)]
        /\ mutex_buf' = NULL /\ dummy' = [dummy EXCEPT ![r] = NULL]
        /\ pc' = [pc EXCEPT ![r] = "while"] /\ pc[r] = "walk"
        /\ buffer' = buffer /\ inserted' = inserted
    BY DEF sbuffer_remove_take, Take, Goto
  <1>3. N \in Nat /\ n \in 1 .. N /\ heap[n].data \in Data /\ heap[n] \in Node
    BY <1>1 DEF IInv, TypeOK, Address, Node
  <1>4. got[r] \in Seq(Data)
    BY DEF IInv, TypeOK
  <1>5. /\ got'[r] = Append(got[r], inserted[n])
        /\ got'[r] \in Seq(Data) /\ Given(r)' = n
        /\ got'[r][n] = inserted[n]
        /\ \A k \in 1 .. Given(r) : got'[r][k] = got[r][k]
        /\ \A o \in Readers : o # r => got'[o] = got[o] /\ Given(o)' = Given(o)
        /\ got' \in [Readers -> Seq(Data)]
    BY <1>1, <1>2, <1>3, <1>4, AppendFacts DEF IInv, TypeOK, Given
  <1>6. Prefixes'
    <2>1. ASSUME NEW o \in Readers, o # r
          PROVE  /\ Given(o)' <= N
                 /\ \A k \in 1 .. Given(o)' : got'[o][k] = inserted[k]
      BY <1>5, <2>1 DEF IInv, Prefixes
    <2>2. ASSUME NEW k \in 1 .. n PROVE got'[r][k] = inserted[k]
      <3>1. k = n \/ k \in 1 .. Given(r)
        BY <1>1, <1>3, LowFacts DEF IInv
      <3>2. \A j \in 1 .. Given(r) : got[r][j] = inserted[j]
        BY DEF IInv, Prefixes
      <3> QED
        BY <1>5, <3>1, <3>2
    <2>3. ASSUME NEW o \in Readers
          PROVE  /\ Given(o)' <= N
                 /\ \A k \in 1 .. Given(o)' : got'[o][k] = inserted[k]
      <3>1. CASE o = r
        BY <1>3, <1>5, <2>2, <3>1 DEF Given
      <3> QED
        BY <2>1, <3>1
    <2> QED
      BY <1>2, <2>3 DEF Prefixes
  <1>7. Locking'
    BY <1>1, <1>2 DEF IInv, TypeOK, Threads, Readers, Locking
  <1>8. dummy' \in [Readers -> Address' \cup {NULL}]
        /\ pc' \in [Threads -> {"select", "advance_tail", "start",
                         "sbuffer_get_first_node", "sbuffer_remove", "walk",
                         "while", "joined"}]
    BY <1>2 DEF IInv, TypeOK, Address, Threads
  <1>9. pc'["connmgr"] # "advance_tail"
    BY <1>1, <1>2 DEF IInv, TypeOK, Threads, Readers
  <1>10. CASE heap[n].read \cup {r} # Readers
    <2>1. /\ heap' = [heap EXCEPT ![n].read = heap[n].read \cup {r}]
          /\ head' = head /\ tail' = tail
      BY <1>10 DEF sbuffer_remove_take, Take
    <2>2. /\ DOMAIN heap' = DOMAIN heap
          /\ heap'[n] = [heap[n] EXCEPT !.read = heap[n].read \cup {r}]
          /\ \A m \in DOMAIN heap : m # n => heap'[m] = heap[m]
      BY <1>1, <2>1
    <2>3. /\ heap'[n] \in Node /\ heap'[n].next = heap[n].next
          /\ heap'[n].data = heap[n].data
          /\ heap'[n].read = heap[n].read \cup {r}
      BY <1>3, <2>2 DEF Node
    <2>4. Low' = Low
      BY <1>1, <1>5, <1>10, LowFacts DEF IInv, Low, Readers
    <2>5. heap' \in [DOMAIN heap' -> Node']
      BY <1>2, <2>1, <2>2, <2>3 DEF IInv, TypeOK, Node, Address
    <2>6. TypeOK'
      BY <1>2, <1>5, <1>8, <2>1, <2>2, <2>5 DEF IInv, TypeOK, Address
    <2>7. Interval' /\ TailInv'
      BY <1>1, <1>2, <1>9, <2>1, <2>2, <2>4, NULLAssumption
      DEF IInv, Interval, TailInv
    <2>8. Nodes'
      <3> SUFFICES ASSUME NEW m \in DOMAIN heap
                   PROVE  /\ heap'[m].next = IF m = N THEN NULL ELSE m + 1
                          /\ heap'[m].data = inserted[m]
                          /\ \A o \in Readers : o \in heap'[m].read
                                                  <=> m <= Given(o)'
        BY <1>2, <2>2 DEF Nodes
      <3>1. m \in Nat
        BY <1>1, <1>3
      <3>2. CASE m = n
        BY <1>1, <1>5, <2>3, <3>2 DEF IInv, Nodes
      <3>3. CASE m # n
        <4>1. /\ heap'[m] = heap[m]
              /\ \A o \in Readers : o \in heap[m].read <=> m <= Given(o)
          BY <1>1, <2>2, <3>3 DEF IInv, Nodes
        <4>2. \A o \in Readers : m <= Given(o) <=> m <= Given(o)'
          BY <1>1, <1>5, <3>1, <3>3, LowFacts DEF IInv, Given
        <4> QED
          BY <4>1, <4>2 DEF IInv, Nodes
      <3> QED
        BY <3>2, <3>3
    <2> QED
      BY <1>6, <1>7, <2>6, <2>7, <2>8 DEF IInv
  <1>11. CASE heap[n].read \cup {r} = Readers
    <2>1. /\ heap' = [m \in DOMAIN heap \ {n} |-> heap[m]]
          /\ head' = IF head = tail THEN NULL ELSE heap[head].next
          /\ tail' = IF head = tail THEN NULL ELSE tail
      BY <1>11 DEF sbuffer_remove_take, Take, Free
    <2>2. n = head /\ DOMAIN heap' = n + 1 .. N
          /\ \A m \in DOMAIN heap' : m \in DOMAIN heap /\ heap'[m] = heap[m]
      BY <1>1, <1>3, <1>11, <2>1
    <2>3. Low' = n
      <3>1. \A o \in Readers : n <= Given(o)'
        BY <1>1, <1>5, <1>11 DEF IInv, Nodes
      <3> QED
        BY <1>1, <1>5, <3>1, LowFacts DEF IInv, Low, Readers
    <2>4. head' = IF n = N THEN NULL ELSE n + 1
      BY <1>1, <2>1, <2>2 DEF IInv, Nodes
    <2>5. heap' \in [DOMAIN heap' -> Node']
      BY <1>2, <2>1, <2>2 DEF IInv, TypeOK, Node, Address
    <2>6. TypeOK'
      BY <1>2, <1>3, <1>5, <1>8, <2>1, <2>2, <2>4, <2>5
      DEF IInv, TypeOK, Address
    <2>7. Interval' /\ TailInv'
      BY <1>1, <1>2, <1>3, <1>9, <2>1, <2>2, <2>3, <2>4, NULLAssumption
      DEF IInv, Interval, TailInv
    <2>8. Nodes'
      <3> SUFFICES ASSUME NEW m \in n + 1 .. N
                   PROVE  \A o \in Readers : o \in heap[m].read
                                                <=> m <= Given(o)'
        BY <1>2, <2>2 DEF IInv, Nodes
      <3>1. m \in DOMAIN heap /\ m \in Nat /\ m > n
        BY <1>3, <2>2
      <3>2. \A o \in Readers : o \in heap[m].read <=> m <= Given(o)
        BY <1>1, <3>1 DEF IInv, Nodes
      <3>3. ASSUME NEW o \in Readers
            PROVE  m <= Given(o) <=> m <= Given(o)'
        <4>1. CASE o = r
          BY <1>1, <1>5, <3>1, <4>1, LowFacts DEF IInv, Given
        <4>2. CASE o # r
          BY <1>1, <1>5, <3>1, <4>2, LowFacts DEF IInv, Given
        <4> QED
          BY <4>1, <4>2
      <3> QED
        BY <3>2, <3>3
    <2> QED
      BY <1>6, <1>7, <2>6, <2>7, <2>8 DEF IInv
  <1> QED
    BY <1>10, <1>11

LEMMA FreeIInv ==
  ASSUME IInv, sbuffer_free
  PROVE  IInv'
  <1> DEFINE N == Len(inserted)
  <1>1. /\ \A t \in Threads : pc[t] = "joined"
        /\ UNCHANGED <<tail, mutex_buf, pc, dummy, inserted, got>>
        /\ buffer' \in {"freeing", "NULL"}
    BY DEF sbuffer_free
  <1>2. N \in Nat
    BY DEF IInv, TypeOK
  <1>3. Prefixes' /\ TailInv'
    BY <1>1 DEF IInv, Prefixes, TailInv, Given
  <1>4. Locking'
    BY <1>1 DEF IInv, Locking, Threads, Readers
  <1>5. CASE head # NULL
    <2>1. /\ buffer' = "freeing" /\ head' = heap[head].next
          /\ heap' = [m \in DOMAIN heap \ {head} |-> heap[m]]
      BY <1>5 DEF sbuffer_free, Free
    <2>2. head \in 1 .. N /\ DOMAIN heap = head .. N
      BY <1>5 DEF IInv, TypeOK, Interval, Address
    <2>3. head' = IF head = N THEN NULL ELSE head + 1
      BY <1>2, <2>1, <2>2 DEF IInv, Nodes
    <2>4. DOMAIN heap' = head + 1 .. N
          /\ \A m \in DOMAIN heap' : m \in DOMAIN heap /\ heap'[m] = heap[m]
      BY <1>2, <2>1, <2>2
    <2>5. heap' \in [DOMAIN heap' -> Node']
      BY <1>1, <2>1, <2>4 DEF IInv, TypeOK, Node, Address
    <2>6. TypeOK'
      BY <1>1, <1>2, <2>1, <2>2, <2>3, <2>4, <2>5 DEF IInv, TypeOK, Address
    <2>7. Interval'
      BY <1>1, <1>2, <2>1, <2>2, <2>3, <2>4, NULLAssumption DEF Interval
    <2>8. Nodes'
      BY <1>1, <2>1, <2>4 DEF IInv, Nodes
    <2> QED
      BY <1>3, <1>4, <2>6, <2>7, <2>8 DEF IInv
  <1>6. CASE head = NULL
    <2>1. buffer' = "NULL" /\ head' = head /\ heap' = heap
      BY <1>6 DEF sbuffer_free
    <2>2. TypeOK'
      BY <1>1, <2>1 DEF IInv, TypeOK, Node, Address
    <2>3. Interval' /\ Nodes'
      BY <1>1, <1>6, <2>1 DEF IInv, Interval, Nodes
    <2> QED
      BY <1>3, <1>4, <2>2, <2>3 DEF IInv
  <1> QED
    BY <1>5, <1>6

LEMMA NextIInv == IInv /\ [Next]_vars => IInv'
  <1> SUFFICES ASSUME IInv, [Next]_vars PROVE IInv'
    OBVIOUS
  <1>1. ASSUME NEW d \in Data, sbuffer_insert(d) PROVE IInv'
    BY <1>1, InsertIInv
  <1>2. CASE sbuffer_insert_advance_tail
    BY <1>2, AdvanceTailIInv
  <1>3. CASE connmgr_exit
    BY <1>3, MoveIInv DEF Readers
  <1>4. ASSUME NEW r \in Readers, ReaderStep(r) PROVE IInv'
    BY <1>4, MoveIInv, WalkIInv, TakeIInv DEF ReaderStep
  <1>5. CASE sbuffer_free
    BY <1>5, FreeIInv
  <1>6. CASE UNCHANGED vars
    <2>1. TypeOK' /\ Interval' /\ Nodes'
      BY <1>6 DEF vars, IInv, TypeOK, Interval, Nodes, Node, Address, Low, Given
    <2>2. Prefixes' /\ TailInv' /\ Locking'
      BY <1>6 DEF vars, IInv, Prefixes, TailInv, Locking, Given
    <2> QED
      BY <2>1, <2>2 DEF IInv
  <1> QED
    BY <1>1, <1>2, <1>3, <1>4, <1>5, <1>6 DEF Next, Exited

\* The list is at all times the numbered interval of the measurements that
\* one of the readers still needs, linked in order, with both readers'
\* flags raised on exactly the nodes they were given (sbuffer_insert,
\* sbuffer_remove and sbuffer_free under mutex_buf).
THEOREM Invariance == Spec => []IInv
  <1>1. Init => IInv
    BY InitIInv
  <1>2. IInv /\ [Next]_vars => IInv'
    BY NextIInv
  <1> QED
    BY <1>1, <1>2, PTL DEF Spec

\* The variables of sbuffer.c and of the threads keep their types.
THEOREM TypeCorrect == Spec => []TypeOK
  <1>1. IInv => TypeOK
    BY DEF IInv
  <1> QED
    BY <1>1, Invariance, PTL

\* No thread ever follows a pointer to a freed node, however the reads of
\* the two managers interleave with the insertions.
THEOREM MemorySafety == Spec => []MemorySafe
  <1>1. IInv => MemorySafe
    <2> SUFFICES ASSUME IInv PROVE MemorySafe
      OBVIOUS
    <2>1. head \in Pointer
      BY DEF IInv, Interval, TypeOK, Address, Pointer
    <2>2. buffer = "live" => tail \in Pointer
      <3> SUFFICES ASSUME buffer = "live", head # NULL PROVE tail \in DOMAIN heap
        BY DEF IInv, TailInv, Pointer
      <3> QED
        BY DEF IInv, TailInv, Interval, Locking, TypeOK, Address
    <2>3. \A n \in DOMAIN heap : heap[n].next \in Pointer
      BY DEF IInv, Nodes, Interval, TypeOK, Address, Pointer
    <2>4. \A r \in Readers : pc[r] = "walk" => dummy[r] \in DOMAIN heap
      BY DEF IInv, Locking
    <2> QED
      BY <2>1, <2>2, <2>3, <2>4 DEF MemorySafe
  <1> QED
    BY <1>1, Invariance, PTL

\* While the buffer lives, exactly the nodes that some reader still needs are
\* allocated, and sbuffer_free leaves none behind.
THEOREM Reclamation == Spec => []Reclaimed
  <1>1. IInv => Reclaimed
    <2> SUFFICES ASSUME IInv PROVE Reclaimed
      OBVIOUS
    <2>1. buffer = "NULL" => DOMAIN heap = {}
      BY DEF IInv, Interval
    <2>2. ASSUME buffer = "live"
          PROVE  DOMAIN heap = {n \in Address : \E r \in Readers : Given(r) < n}
      <3>1. Len(inserted) \in Nat /\ Low <= Len(inserted)
        BY LowFacts DEF IInv, TypeOK, Prefixes
      <3>2. DOMAIN heap = Low + 1 .. Len(inserted)
        BY <2>2, <3>1, LowFacts, NULLAssumption DEF IInv, Interval
      <3>3. \A n \in Address : Low < n <=> \E r \in Readers : Given(r) < n
        BY <3>1, LowFacts DEF IInv, Address
      <3> QED
        BY <3>1, <3>2, <3>3, LowFacts DEF IInv, Address
    <2> QED
      BY <2>1, <2>2 DEF Reclaimed, Given
  <1> QED
    BY <1>1, Invariance, PTL

\* Between critical sections tail is the last node of the list, or NULL
\* together with head.
THEOREM TailCorrect == Spec => []TailIsLast
  <1>1. IInv => TailIsLast
    <2> SUFFICES ASSUME IInv, buffer = "live", mutex_buf = NULL
                 PROVE  /\ head = NULL <=> tail = NULL
                        /\ tail # NULL => heap[tail].next = NULL
      BY DEF TailIsLast
    <2>1. pc["connmgr"] # "advance_tail"
      BY NULLAssumption DEF IInv, Locking, Threads
    <2>2. tail = IF head = NULL THEN NULL ELSE Len(inserted)
      BY <2>1 DEF IInv, TailInv
    <2>3. Len(inserted) \in Nat
      BY DEF IInv, TypeOK
    <2>4. ASSUME head # NULL PROVE Len(inserted) \in DOMAIN heap
      BY <2>3, <2>4 DEF IInv, Interval, TypeOK, Address
    <2> QED
      BY <2>2, <2>3, <2>4, NULLAssumption DEF IInv, Nodes
  <1> QED
    BY <1>1, Invariance, PTL

\* The linked list with its two flags per node implements the broadcast
\* queue: every step of the threads is an insertion into the stream, the
\* delivery of the next measurement of the stream to one reader, or
\* invisible.
THEOREM Refinement == Spec => Implements
  <1>1. Init => Queue!Init
    BY DEF Init, Queue!Init
  <1>2. IInv /\ [Next]_vars => [Queue!Next]_(Queue!qvars)
    <2> SUFFICES ASSUME IInv, [Next]_vars
                 PROVE  [Queue!Next]_(Queue!qvars)
      OBVIOUS
    <2>1. ASSUME NEW d \in Data, sbuffer_insert(d) PROVE Queue!Next
      BY <2>1 DEF sbuffer_insert, Queue!Next, Queue!Insert
    <2>2. ASSUME NEW r \in Readers, sbuffer_remove_take(r) PROVE Queue!Deliver(r)
      <3>1. /\ heap[dummy[r]].data = inserted[Given(r) + 1]
            /\ Given(r) + 1 \in head .. Len(inserted) /\ head \in Nat
        BY <2>2, TakeFacts
      <3>2. Len(got[r]) < Len(inserted)
        BY <3>1, LowFacts DEF IInv, TypeOK, Given
      <3> QED
        BY <2>2, <3>1, <3>2
        DEF sbuffer_remove_take, Take, Queue!Deliver, Queue!NextFor, Given
    <2>3. ASSUME NEW r \in Readers, ReaderStep(r), ~ sbuffer_remove_take(r)
          PROVE  UNCHANGED Queue!qvars
      BY <2>3 DEF ReaderStep, reader_start, sbuffer_get_first_node, sbuffer_remove,
                  sbuffer_remove_walk, reader_while, Queue!qvars
    <2>4. ASSUME sbuffer_insert_advance_tail \/ connmgr_exit \/ sbuffer_free
                 \/ UNCHANGED vars
          PROVE  UNCHANGED Queue!qvars
      BY <2>4 DEF sbuffer_insert_advance_tail, connmgr_exit, sbuffer_free,
                  vars, Queue!qvars
    <2> QED
      BY <2>1, <2>2, <2>3, <2>4 DEF Next, Exited, Queue!Next
  <1> QED
    BY <1>1, <1>2, Invariance, PTL DEF Spec, Implements, Queue!Spec
=============================================================================
