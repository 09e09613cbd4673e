------------------------------- MODULE DPList -------------------------------
(***************************************************************************)
(* The pointer list (lib/dplist.c) that holds the sensor nodes and the     *)
(* client connections, down to its pointers: head, and for every node that *)
(* is allocated its prev, next and element.                                *)
(*                                                                         *)
(* A list belongs to one thread, so an operation is one step; an operation *)
(* that calls others is composed of their operators.  malloc hands out any *)
(* free address, addresses of freed nodes again, and NULL when there is    *)
(* none: the references a caller passes may be live, dangling or reused.   *)
(* A failed assertion and a NULL dereference end the process ("aborted").  *)
(* The memory of the elements (insert_copy, free_element) is left out.     *)
(***************************************************************************)
EXTENDS Integers, FiniteSets, SequencesExt

CONSTANTS
  NULL,
  Addr,     \* the addresses malloc has for nodes
  Index,    \* bound: the indices the callers pass
  Element,  \* the elements the callers insert
  Key       \* what the callback element_compare compares

ASSUME NULLAssumption == NULL \notin Addr /\ NULL \notin Element
ASSUME FiniteAssumption == IsFiniteSet(Addr)
ASSUME IndexAssumption == Index \subseteq Int
ASSUME KeyAssumption == Key \in [Element -> Int]

VARIABLES
  status,   \* the caller's variable: "NULL" or "live"; "aborted" at the end
  head,     \* list->head
  heap,     \* the allocated nodes
  call      \* the operation called last, with its arguments

vars == <<status, head, heap, call>>

Element0 == Element \cup {NULL}
Addr0    == Addr \cup {NULL}

Node(p, n, e) == [prev |-> p, next |-> n, element |-> e]

\* The walk "dummy = list->head; while (dummy->next != NULL) dummy =
\* dummy->next" that every operation makes: the k-th node it visits, NULL
\* past the last one; how many it counts, and which.
visited[k \in 1 .. Cardinality(Addr)] ==
  IF k = 1 THEN head
  ELSE IF visited[k - 1] = NULL THEN NULL ELSE heap[visited[k - 1]].next

dpl_size == Cardinality({k \in 1 .. Cardinality(Addr) : visited[k] # NULL})

Chain == [k \in 1 .. dpl_size |-> visited[k]]

compare(x, y) == IF Key[x] > Key[y] THEN 1 ELSE IF Key[x] = Key[y] THEN 0 ELSE -1
-----------------------------------------------------------------------------
(* The operations that only look.                                          *)

\* The loops stop at the first node whose count reaches index, and at the
\* last node.
dpl_get_reference_at_index(index) ==
  IF head = NULL THEN NULL
  ELSE LET chain == Chain
           stops == {k \in DOMAIN chain : k - 1 >= index \/ k = Len(chain)}
       IN chain[Min(stops)]

dpl_get_element_at_index(index) ==
  IF head = NULL THEN NULL ELSE heap[dpl_get_reference_at_index(index)].element

\* Mutant: the loop ends before it has looked at the last node.
dpl_get_previous_reference_stops(r) ==
  IF r = NULL THEN dpl_get_reference_at_index(dpl_size - 1)
  ELSE IF r \in ToSet(Front(Chain)) THEN heap[r].prev ELSE NULL

dpl_get_index_of_element(e) ==
  SelectInSeq(Chain, LAMBDA a : compare(heap[a].element, e) = 0) - 1

dpl_get_first_reference == head

dpl_get_last_reference == dpl_get_reference_at_index(dpl_size - 1)

dpl_get_next_reference(r) == IF r \in ToSet(Chain) THEN heap[r].next ELSE NULL

dpl_get_previous_reference(r) ==
  IF r = NULL THEN dpl_get_last_reference
  ELSE IF r \in ToSet(Chain) THEN heap[r].prev ELSE NULL

dpl_get_element_at_reference(r) ==
  IF r = NULL THEN dpl_get_element_at_index(dpl_size - 1)
  ELSE IF r \in ToSet(Chain) THEN heap[r].element ELSE NULL

dpl_get_reference_of_element(e) ==
  LET index == dpl_get_index_of_element(e) IN
  IF index = -1 THEN NULL ELSE dpl_get_reference_at_index(index)

dpl_get_index_of_reference(r) ==
  IF r = NULL THEN dpl_size - 1 ELSE SelectInSeq(Chain, LAMBDA a : a = r) - 1
-----------------------------------------------------------------------------
(* The operations that change the list.                                    *)

abort == status' = "aborted" /\ UNCHANGED <<head, heap>>

dpl_create ==
  /\ status = "NULL"
  /\ \/ status' = "live" /\ head' = NULL /\ UNCHANGED heap
     \/ abort

\* Every node on the walk is freed, then the list; *list is set to NULL.
dpl_free ==
  \/ /\ status = "live"
     /\ heap' = [a \in DOMAIN heap \ ToSet(Chain) |-> heap[a]]
     /\ head' = NULL
     /\ status' = "NULL"
  \/ status = "NULL" /\ abort

\* Mutant: the element is not checked.
may_insert_anything(e) == status = "live"

\* The assertions on list and element.
may_insert(e) == status = "live" /\ e # NULL

\* Mutant: the node behind the new one still points back past it.
link_before_half(h, ref, new) == [h EXCEPT ![h[ref].prev].next = new]

\* Case 4: the neighbours of a node that goes in before ref.
link_before(h, ref, new) == [h EXCEPT ![h[ref].prev].next = new, ![ref].prev = new]

\* h with a new node.
with(h, new, node) == [a \in DOMAIN h \cup {new} |-> IF a = new THEN node ELSE h[a]]

\* h: the nodes at the time of the call, linked as in heap.  The assertions in
\* cases 3 and 4 hold: the reference is the last node for an index past it.
insert_at_index(h, e, index) ==
  \/ /\ may_insert(e)
     /\ LET size == dpl_size
            ref  == dpl_get_reference_at_index(index)
        IN \E new \in Addr \ DOMAIN h :
          LET linked(g, p, n) == heap' = with(g, new, Node(p, n, e)) IN
          \/ /\ head = NULL                                      \* case 1
             /\ head' = new /\ linked(h, NULL, NULL)
          \/ /\ head # NULL /\ index <= 0                        \* case 2
             /\ head' = new /\ linked([h EXCEPT ![head].prev = new], NULL, head)
          \/ /\ head # NULL /\ index > 0 /\ index < size         \* case 4
             /\ linked(link_before(h, ref, new), h[ref].prev, ref)
             /\ UNCHANGED head
          \/ /\ head # NULL /\ index > 0 /\ index >= size        \* case 3
             /\ linked([h EXCEPT ![ref].next = new], ref, NULL)
             /\ UNCHANGED head
     /\ UNCHANGED status
  \/ (status = "NULL" \/ e = NULL \/ DOMAIN h = Addr) /\ abort

dpl_insert_at_index(e, index) == insert_at_index(heap, e, index)

\* Mutant: the node is unlinked and not freed.
free_missing(h, a) == h

free(h, a) == [b \in DOMAIN h \ {a} |-> h[b]]

\* The first, a middle, the last or the only node; the code's other branch for
\* an only node, where dpl_size(list) > 1, is never reached.
dpl_remove_at_index(index) ==
  \/ /\ status = "live" /\ head # NULL
     /\ LET size  == dpl_size
            dummy == dpl_get_reference_at_index(IF size > 1 THEN index ELSE 0)
            p == heap[dummy].prev
            n == heap[dummy].next
        IN
        \/ /\ size > 1 /\ index <= 0                             \* first
           /\ head' = n
           /\ heap' = free([heap EXCEPT ![n].prev = NULL], dummy)
        \/ /\ size > 1 /\ index > 0 /\ n # NULL                  \* middle
           /\ heap' = free([heap EXCEPT ![n].prev = p, ![p].next = n], dummy)
           /\ UNCHANGED head
        \/ /\ size > 1 /\ index > 0 /\ n = NULL                  \* last
           /\ heap' = free([heap EXCEPT ![p].next = NULL], dummy)
           /\ UNCHANGED head
        \/ /\ size <= 1                                          \* only
           /\ head' = NULL
           /\ heap' = free(heap, dummy)
     /\ UNCHANGED status
  \/ status = "live" /\ head = NULL /\ UNCHANGED <<status, head, heap>>
  \/ status = "NULL" /\ abort

dpl_insert_at_reference(e, r) ==
  LET index == dpl_get_index_of_reference(r) IN
  \/ status = "live" /\ r = NULL /\ dpl_insert_at_index(e, dpl_size)
  \/ status = "live" /\ r # NULL /\ index # -1 /\ dpl_insert_at_index(e, index)
  \/ status = "live" /\ r # NULL /\ index = -1 /\ UNCHANGED <<status, head, heap>>
  \/ status = "NULL" /\ abort

dpl_remove_at_reference(r) ==
  LET index == dpl_get_index_of_reference(r) IN
  \/ status = "live" /\ r = NULL /\ dpl_remove_at_index(dpl_size - 1)
  \/ status = "live" /\ r # NULL /\ index # -1 /\ dpl_remove_at_index(index)
  \/ status = "live" /\ r # NULL /\ index = -1 /\ UNCHANGED <<status, head, heap>>
  \/ status = "NULL" /\ abort

dpl_remove_element(e) ==
  LET index == dpl_get_index_of_element(e) IN
  \/ status = "live" /\ index # -1 /\ dpl_remove_at_index(index)
  \/ status = "live" /\ index = -1 /\ UNCHANGED <<status, head, heap>>
  \/ status = "NULL" /\ abort

\* Neighbours in the wrong order swap their elements.
swap(es, k) ==
  IF compare(es[k], es[k + 1]) = 1 THEN [es EXCEPT ![k] = es[k + 1], ![k + 1] = es[k]] ELSE es

\* Mutant: the pass ends one pair too early.
bubble_pass_short(es, last) ==
  LET pass[k \in 0 .. last - 1] == IF k = 0 THEN es ELSE swap(pass[k - 1], k)
  IN  pass[IF last > 1 THEN last - 2 ELSE 0]

\* One pass of the bubble sort over the elements es, up to (not including)
\* the node ldummy at position last + 1.
bubble_pass(es, last) ==
  LET pass[k \in 0 .. last - 1] == IF k = 0 THEN es ELSE swap(pass[k - 1], k)
  IN  pass[last - 1]

\* do ... while (swapped): every pass is one node shorter than the one before.
\* A pass that swaps nothing is the last; the ones after it would not swap
\* anything either.
bubble_sort(es) ==
  LET sort[p \in 0 .. Len(es)] ==
        IF p = 0 THEN es ELSE bubble_pass(sort[p - 1], Len(es) - p + 1)
  IN  sort[Len(es)]

\* The nodes keep their places, their elements are sorted; then e goes before
\* the first greater element, or to the end.
dpl_insert_sorted(e) ==
  LET chain  == Chain
      sorted == bubble_sort([k \in DOMAIN chain |-> heap[chain[k]].element])
      place(a) == CHOOSE k \in DOMAIN chain : chain[k] = a
      h      == [a \in DOMAIN heap |-> Node(heap[a].prev, heap[a].next, sorted[place(a)])]
      first  == SelectInSeq(sorted, LAMBDA x : compare(x, e) = 1)
  IN
  \/ /\ may_insert(e)
     /\ insert_at_index(h, e, IF first = 0 THEN Len(chain) ELSE first - 1)
  \/ (status = "NULL" \/ e = NULL) /\ abort
-----------------------------------------------------------------------------
Init ==
  /\ status = "NULL"
  /\ head = NULL
  /\ heap = <<>>
  /\ call = <<>>

Called(operation) == status # "aborted" /\ call' = operation

Next ==
  \/ Called(<<"create">>) /\ dpl_create
  \/ Called(<<"free">>) /\ dpl_free
  \/ \E e \in Element0, i \in Index :
       Called(<<"insert_at_index", e, i>>) /\ dpl_insert_at_index(e, i)
  \/ \E i \in Index : Called(<<"remove_at_index", i>>) /\ dpl_remove_at_index(i)
  \/ \E e \in Element0, r \in Addr0 :
       Called(<<"insert_at_reference", e, r>>) /\ dpl_insert_at_reference(e, r)
  \/ \E r \in Addr0 : Called(<<"remove_at_reference", r>>) /\ dpl_remove_at_reference(r)
  \/ \E e \in Element0 : Called(<<"insert_sorted", e>>) /\ dpl_insert_sorted(e)
  \/ \E e \in Element : Called(<<"remove_element", e>>) /\ dpl_remove_element(e)

Spec == Init /\ [][Next]_vars
-----------------------------------------------------------------------------
\* The types of the variables.
TypeOK ==
  /\ status \in {"NULL", "live", "aborted"}
  /\ head \in Addr0
  /\ DOMAIN heap \subseteq Addr
  /\ heap \in [DOMAIN heap -> [prev : Addr0, next : Addr0, element : Element]]

\* No pointer dangles, and prev is the inverse of next: whatever was inserted
\* or removed, head, prev and next lead to allocated nodes only and the walk
\* back is the walk forth reversed.
DoublyLinked ==
  /\ head # NULL => head \in DOMAIN heap /\ heap[head].prev = NULL
  /\ \A a \in DOMAIN heap :
       /\ heap[a].next # NULL => /\ heap[a].next \in DOMAIN heap
                                 /\ heap[heap[a].next].prev = a
       /\ heap[a].prev # NULL => /\ heap[a].prev \in DOMAIN heap
                                 /\ heap[heap[a].prev].next = a
       /\ heap[a].prev = NULL => head = a

\* Every allocated node is on the walk from head, so that dpl_free frees it:
\* no removal and no sort loses one, and nothing is left once the list is gone.
NoLeak ==
  /\ DOMAIN heap = ToSet(Chain)
  /\ status = "NULL" => heap = <<>>

\* The sequence of nodes that the pointers represent.
Nodes ==
  LET chain == Chain
  IN [k \in DOMAIN chain |-> [ref |-> chain[k], element |-> heap[chain[k]].element]]

L == INSTANCE IndexedList WITH list <- Nodes, Ref <- Addr

\* Every query answers what dplist.h says of the sequence: clamped indices,
\* NULL and dangling references, the last node for NULL, the first of several
\* equal elements.
QueriesAgree ==
  LET n == Len(Nodes) IN
  status = "live" =>
    /\ dpl_size = n
    /\ dpl_get_first_reference = L!RefAt(0)
    /\ dpl_get_last_reference = L!RefAt(n - 1)
    /\ \A i \in Index : LET at == L!Clamp(i, n) - 1 IN
         /\ dpl_get_reference_at_index(i) = L!RefAt(at)
         /\ dpl_get_element_at_index(i) = L!ElementAt(at)
    /\ \A e \in Element : LET at == L!IndexOfElement(e) IN
         /\ dpl_get_index_of_element(e) = at
         /\ dpl_get_reference_of_element(e) = L!RefAt(at)
    /\ \A r \in Addr0 : LET at == IF r = NULL THEN n - 1 ELSE L!IndexOfRef(r) IN
         /\ dpl_get_index_of_reference(r) = at
         /\ dpl_get_element_at_reference(r) = L!ElementAt(at)
         /\ dpl_get_previous_reference(r) = IF r = NULL THEN L!RefAt(at) ELSE L!RefAt(at - 1)
         /\ dpl_get_next_reference(r) = IF r = NULL \/ at = -1 THEN NULL ELSE L!RefAt(at + 1)

\* The pointer operations implement the indexed list of dplist.h: each changes
\* the sequence as promised and aborts only without a list, an element or memory.
Implements == L!Spec
=============================================================================
