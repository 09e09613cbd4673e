------------------------------ MODULE SBuffer -------------------------------
(***************************************************************************)
(* The shared buffer (sbuffer.c) at the level of its pointers, together    *)
(* with the protocol by which the three threads of the gateway use it.     *)
(*                                                                         *)
(* The buffer is a singly linked list with a head and a tail pointer.      *)
(* Every node carries one measurement and one read flag per reader.        *)
(* The connection manager inserts at the tail; each reader walks from the  *)
(* head to the first node it has not read, copies the measurement out and  *)
(* raises its flag; the reader that raises the second flag unlinks the     *)
(* node and frees it.  Every operation runs under mutex_buf, except        *)
(* sbuffer_free, which main calls after the threads have been joined.      *)
(*                                                                         *)
(* A step that ends a critical section also unlocks the mutex: nothing     *)
(* that another thread can see happens between the two.                    *)
(***************************************************************************)
EXTENDS Naturals, Sequences

CONSTANTS
  Data,        \* the measurements
  NULL,        \* the null pointer (and: the mutex has no owner)
  MaxInserts   \* bound: how many measurements the sensors send

Readers == {"datamgr", "storagemgr"}
Threads == Readers \cup {"connmgr"}

ASSUME NULLAssumption == NULL \notin Nat /\ NULL \notin Threads
ASSUME MaxInsertsAssumption == MaxInserts \in Nat

VARIABLES
  buffer,     \* "live" until main calls sbuffer_free, then "freeing", "NULL"
  head, tail, \* struct sbuffer
  heap,       \* the allocated nodes: address -> sbuffer_node_t
  mutex_buf,  \* the owner of the mutex, or NULL
  pc,         \* where each thread is in its use of the buffer
  dummy,      \* sbuffer_remove's local pointer, one per reader
  inserted,   \* history: the measurements inserted, in order
  got         \* history: for every reader, the measurements it was given

ptrs == <<buffer, head, tail, heap>>
vars == <<buffer, head, tail, heap, mutex_buf, pc, dummy, inserted, got>>

\* The queue this module implements (see Implements below).
Queue == INSTANCE BroadcastQueue

Goto(t, l) == pc' = [pc EXCEPT ![t] = l]

\* malloc returns an address that was never used before, so that a pointer
\* to a freed node can never be taken for a pointer to a live one.
FreshAddress == Len(inserted) + 1

Free(a) == [n \in DOMAIN heap \ {a} |-> heap[n]]

\* Mutant: malloc'ed and not initialised, tail holds garbage.
sbuffer_init_no_tail ==
  /\ buffer = "live"
  /\ head = NULL
  /\ tail = 99
  /\ heap = <<>>

sbuffer_init ==
  /\ buffer = "live"
  /\ head = NULL
  /\ tail = NULL
  /\ heap = <<>>

Init ==
  /\ sbuffer_init
  /\ mutex_buf = NULL
  /\ pc = [t \in Threads |-> IF t = "connmgr" THEN "select" ELSE "start"]
  /\ dummy = [r \in Readers |-> NULL]
  /\ inserted = <<>>
  /\ got = [r \in Readers |-> <<>>]
-----------------------------------------------------------------------------
(* The connection manager: lock, sbuffer_insert, unlock.                   *)

\* A fresh node with both flags lowered, hung after the tail.
sbuffer_insert(d) ==
  LET new  == FreshAddress
      node == [next |-> NULL, data |-> d, read |-> {}]
      Grow(h) == [n \in DOMAIN h \cup {new} |-> IF n = new THEN node ELSE h[n]]
  IN  /\ pc["connmgr"] = "select"
      /\ Len(inserted) < MaxInserts
      /\ mutex_buf = NULL
      /\ inserted' = Append(inserted, d)
      /\ \/ /\ tail = NULL
            /\ head' = new
            /\ tail' = new
            /\ heap' = Grow(heap)
            /\ UNCHANGED <<mutex_buf, pc>>
         \/ /\ tail # NULL
            /\ heap' = Grow([heap EXCEPT ![tail].next = new])
            /\ mutex_buf' = "connmgr"
            /\ Goto("connmgr", "advance_tail")
            /\ UNCHANGED <<head, tail>>
      /\ UNCHANGED <<buffer, dummy, got>>

\* Mutant: the new node is linked but tail is left behind.
sbuffer_insert_keep_tail ==
  /\ pc["connmgr"] = "advance_tail"
  /\ mutex_buf' = NULL
  /\ Goto("connmgr", "select")
  /\ UNCHANGED <<buffer, head, tail, heap, dummy, inserted, got>>

sbuffer_insert_advance_tail ==
  /\ pc["connmgr"] = "advance_tail"
  /\ tail' = heap[tail].next
  /\ mutex_buf' = NULL
  /\ Goto("connmgr", "select")
  /\ UNCHANGED <<buffer, head, heap, dummy, inserted, got>>

\* select() times out: connmgr_listen returns and main joins the thread.
connmgr_exit ==
  /\ pc["connmgr"] = "select"
  /\ Goto("connmgr", "joined")
  /\ UNCHANGED <<ptrs, mutex_buf, dummy, inserted, got>>
-----------------------------------------------------------------------------
(* A reader: its start, and one iteration of the do-while loop of          *)
(* datamgr_parse_sensor_data or storagemgr_parse_sensor_data.              *)

\* A reader sets itself up before its loop.  The storage manager ends at once
\* when its third attempt to open the database has failed: from then on the
\* nodes are flagged by one reader only, and nobody frees them.
reader_start(r) ==
  /\ pc[r] = "start"
  /\ \/ Goto(r, "sbuffer_get_first_node")
     \/ r = "storagemgr" /\ Goto(r, "joined")
  /\ UNCHANGED <<ptrs, mutex_buf, dummy, inserted, got>>

\* Mutant: a reader turns back when it has read the first node already.
sbuffer_get_first_node_head_only(r) ==
  /\ pc[r] = "sbuffer_get_first_node"
  /\ mutex_buf = NULL
  /\ Goto(r, IF head = NULL \/ r \in heap[head].read
             THEN "while" ELSE "sbuffer_remove")
  /\ UNCHANGED <<ptrs, mutex_buf, dummy, inserted, got>>

\* Lock, look at head, unlock.  The pointer is only compared with NULL.
sbuffer_get_first_node(r) ==
  /\ pc[r] = "sbuffer_get_first_node"
  /\ mutex_buf = NULL
  /\ Goto(r, IF head = NULL THEN "while" ELSE "sbuffer_remove")
  /\ UNCHANGED <<ptrs, mutex_buf, dummy, inserted, got>>

\* Mutant: sbuffer_remove is called without locking mutex_buf.
sbuffer_remove_no_lock(r) ==
  /\ pc[r] = "sbuffer_remove"
  /\ \/ /\ head = NULL
        /\ Goto(r, "while")
        /\ UNCHANGED <<mutex_buf, dummy>>
     \/ /\ head # NULL
        /\ dummy' = [dummy EXCEPT ![r] = head]
        /\ Goto(r, "walk")
        /\ UNCHANGED mutex_buf
  /\ UNCHANGED <<ptrs, inserted, got>>

\* Lock and enter sbuffer_remove.  The other reader may have emptied the
\* buffer since sbuffer_get_first_node: the answer is then SBUFFER_NO_DATA.
sbuffer_remove(r) ==
  /\ pc[r] = "sbuffer_remove"
  /\ mutex_buf = NULL
  /\ \/ /\ head = NULL
        /\ Goto(r, "while")
        /\ UNCHANGED <<mutex_buf, dummy>>
     \/ /\ head # NULL
        /\ mutex_buf' = r
        /\ dummy' = [dummy EXCEPT ![r] = head]
        /\ Goto(r, "walk")
  /\ UNCHANGED <<ptrs, inserted, got>>

\* Walk over a node this reader has read already.
sbuffer_remove_walk(r) ==
  LET node == heap[dummy[r]]
  IN  /\ pc[r] = "walk"
      /\ r \in node.read
      /\ \/ /\ node.next = NULL               \* SBUFFER_NO_DATA
            /\ mutex_buf' = NULL
            /\ dummy' = [dummy EXCEPT ![r] = NULL]
            /\ Goto(r, "while")
         \/ /\ node.next # NULL
            /\ dummy' = [dummy EXCEPT ![r] = node.next]
            /\ UNCHANGED <<mutex_buf, pc>>
      /\ UNCHANGED <<ptrs, inserted, got>>

\* Copy the measurement out of node "from", raise this reader's flag on the
\* node it stopped at and, if "free" holds, free that node and let head point
\* to "rest", or to nothing if it was the only node.
Take(r, from, free, rest) ==
  LET n == dummy[r]
  IN  /\ pc[r] = "walk"
      /\ r \notin heap[n].read
      /\ got' = [got EXCEPT ![r] = Append(@, heap[from].data)]
      /\ \/ /\ ~ free
            /\ heap' = [heap EXCEPT ![n].read = @ \cup {r}]
            /\ UNCHANGED <<head, tail>>
         \/ /\ free
            /\ heap' = Free(n)
            /\ IF head = tail
               THEN head' = NULL /\ tail' = NULL
               ELSE head' = rest /\ UNCHANGED tail
      /\ mutex_buf' = NULL
      /\ dummy' = [dummy EXCEPT ![r] = NULL]
      /\ Goto(r, "while")
      /\ UNCHANGED <<buffer, inserted>>

\* Mutant: a node is freed when the storage manager has read it.
sbuffer_remove_take_one_flag(r) ==
  Take(r, dummy[r], "storagemgr" \in heap[dummy[r]].read \cup {r},
       heap[head].next)

\* Mutant: the measurement is copied from the head of the list.
sbuffer_remove_take_head(r) ==
  Take(r, head, heap[dummy[r]].read \cup {r} = Readers, heap[head].next)

\* Mutant: a node that is not the last one is freed and stays linked.
sbuffer_remove_take_still_linked(r) ==
  Take(r, dummy[r], heap[dummy[r]].read \cup {r} = Readers, head)

\* The first node this reader has not read: take its measurement, and free
\* the node if both flags are up.
sbuffer_remove_take(r) ==
  Take(r, dummy[r], heap[dummy[r]].read \cup {r} = Readers, heap[head].next)

\* while (run_... == true): main lowers the flag once connmgr is joined.
reader_while(r) ==
  /\ pc[r] = "while"
  /\ \/ Goto(r, "sbuffer_get_first_node")
     \/ pc["connmgr"] = "joined" /\ Goto(r, "joined")
  /\ UNCHANGED <<ptrs, mutex_buf, dummy, inserted, got>>
-----------------------------------------------------------------------------
(* main, after the three joins.                                            *)

\* One turn of the loop that frees the nodes, or the end of sbuffer_free.
sbuffer_free ==
  /\ \A t \in Threads : pc[t] = "joined"
  /\ buffer # "NULL"
  /\ \/ /\ head # NULL
        /\ buffer' = "freeing"
        /\ head' = heap[head].next
        /\ heap' = Free(head)
     \/ /\ head = NULL
        /\ buffer' = "NULL"
        /\ UNCHANGED <<head, heap>>
  /\ UNCHANGED <<tail, mutex_buf, pc, dummy, inserted, got>>

\* The process has ended: nothing is left to do.
Exited == buffer = "NULL" /\ UNCHANGED vars

ReaderStep(r) ==
  \/ reader_start(r)
  \/ sbuffer_get_first_node(r)
  \/ sbuffer_remove(r)
  \/ sbuffer_remove_walk(r)
  \/ sbuffer_remove_take(r)
  \/ reader_while(r)

Next ==
  \/ \E d \in Data : sbuffer_insert(d)
  \/ sbuffer_insert_advance_tail
  \/ connmgr_exit
  \/ \E r \in Readers : ReaderStep(r)
  \/ sbuffer_free
  \/ Exited

Spec == Init /\ [][Next]_vars

(***************************************************************************)
(* The scheduler runs every thread that can run.  A thread that waits for  *)
(* mutex_buf finds it free again and again, because every critical section *)
(* is a bounded walk; the two actions that take it are strongly fair: no   *)
(* thread is locked out for ever.  Nothing makes sensors send or go away.  *)
(***************************************************************************)
Fairness ==
  /\ WF_vars(sbuffer_insert_advance_tail)
  /\ WF_vars(sbuffer_free)
  /\ \A r \in Readers :
       /\ WF_vars(reader_start(r))
       /\ SF_vars(sbuffer_get_first_node(r))
       /\ SF_vars(sbuffer_remove(r))
       /\ WF_vars(sbuffer_remove_walk(r))
       /\ WF_vars(sbuffer_remove_take(r))
       /\ WF_vars(reader_while(r))

FairSpec == Spec /\ Fairness
-----------------------------------------------------------------------------
(* What the buffer must satisfy.                                           *)

Address == 1 .. Len(inserted)
Pointer == DOMAIN heap \cup {NULL}
Node    == [next : Address \cup {NULL}, data : Data, read : SUBSET Readers]

\* The types of the variables (struct sbuffer, sbuffer_node_t and the locals
\* of the threads).
TypeOK ==
  /\ buffer \in {"live", "freeing", "NULL"}
  /\ inserted \in Seq(Data)
  /\ got \in [Readers -> Seq(Data)]
  /\ DOMAIN heap \subseteq Address
  /\ heap \in [DOMAIN heap -> Node]
  /\ head \in Address \cup {NULL}
  /\ tail \in Address \cup {NULL}
  /\ mutex_buf \in Threads \cup {NULL}
  /\ pc \in [Threads -> {"select", "advance_tail", "start",
                         "sbuffer_get_first_node", "sbuffer_remove", "walk",
                         "while", "joined"}]
  /\ dummy \in [Readers -> Address \cup {NULL}]

\* No thread can follow a pointer to a node that was freed: head, tail, every
\* next field, and the pointer of a reader that is inside sbuffer_remove all
\* lead to an allocated node or are NULL (a walking reader's never is).
MemorySafe ==
  /\ head \in Pointer
  /\ buffer = "live" => tail \in Pointer
  /\ \A n \in DOMAIN heap : heap[n].next \in Pointer
  /\ \A r \in Readers : pc[r] = "walk" => dummy[r] \in DOMAIN heap

\* sbuffer_remove frees a node when, and only when, both readers have been
\* given its measurement; sbuffer_free leaves nothing allocated.
Reclaimed ==
  /\ buffer = "live" =>
       DOMAIN heap = {n \in Address : \E r \in Readers : Len(got[r]) < n}
  /\ buffer = "NULL" => DOMAIN heap = {}

\* Between two critical sections head and tail agree: both are NULL, or the
\* tail is the last node of the list (sbuffer.c:109 relies on it).
TailIsLast ==
  (buffer = "live" /\ mutex_buf = NULL) =>
     /\ head = NULL <=> tail = NULL
     /\ tail # NULL => heap[tail].next = NULL

\* Two readers that walk and flag the same list concurrently give each of
\* them the whole stream of measurements, in order and exactly once.
Implements == Queue!Spec

\* Every measurement inserted is eventually given to each reader, as long as
\* that reader's loop runs.
Delivery ==
  \A r \in Readers, k \in 1 .. MaxInserts :
     Len(inserted) >= k ~> (Len(got[r]) >= k \/ pc[r] = "joined")
-----------------------------------------------------------------------------
(***************************************************************************)
(* The inductive invariant.  Nodes are numbered in the order of insertion, *)
(* so the list is always an interval of numbers that ends with the last    *)
(* insertion, linked in order; a reader has read exactly the nodes up to   *)
(* the number of measurements it was given.                                *)
(***************************************************************************)
Given(r) == Len(got[r])

\* The shorter of the two readers' histories: so many nodes are gone.
Low == IF Given("datamgr") <= Given("storagemgr")
       THEN Given("datamgr") ELSE Given("storagemgr")

\* The allocated nodes are the interval from head to the last insertion.
Interval ==
  /\ head = NULL => DOMAIN heap = {}
  /\ head # NULL => DOMAIN heap = head .. Len(inserted)
  /\ buffer = "live" => head = IF Low = Len(inserted) THEN NULL ELSE Low + 1
  /\ buffer = "NULL" => head = NULL

\* Each node points to its successor, holds the measurement inserted under
\* its number and is flagged by the readers that were given it.
Nodes ==
  \A n \in DOMAIN heap :
     /\ heap[n].next = IF n = Len(inserted) THEN NULL ELSE n + 1
     /\ heap[n].data = inserted[n]
     /\ buffer = "live" =>
          \A r \in Readers : r \in heap[n].read <=> n <= Given(r)

\* A reader was given a prefix of the stream.
Prefixes ==
  \A r \in Readers :
     /\ Given(r) <= Len(inserted)
     /\ \A k \in 1 .. Given(r) : got[r][k] = inserted[k]

\* tail trails the last node only inside sbuffer_insert.
TailInv ==
  buffer = "live" =>
    tail = IF head = NULL THEN NULL
           ELSE IF pc["connmgr"] = "advance_tail" THEN Len(inserted) - 1
           ELSE Len(inserted)

\* Who is inside a critical section owns the mutex, and a walking reader has
\* passed only nodes it had read.
Locking ==
  /\ pc["connmgr"] = "advance_tail" =>
       mutex_buf = "connmgr" /\ head # NULL /\ head < Len(inserted)
  /\ \A r \in Readers : pc[r] = "walk" =>
       /\ mutex_buf = r
       /\ dummy[r] \in DOMAIN heap
       /\ dummy[r] <= Given(r) + 1
  /\ pc["connmgr"] \notin {"start", "sbuffer_get_first_node", "sbuffer_remove",
                           "walk", "while"}
  /\ \A r \in Readers : pc[r] \notin {"select", "advance_tail"}
  /\ (\A t \in Threads : pc[t] # "walk" /\ pc[t] # "advance_tail")
       => mutex_buf = NULL
  /\ buffer # "live" => \A t \in Threads : pc[t] = "joined"

IInv ==
  /\ TypeOK
  /\ Interval
  /\ Nodes
  /\ Prefixes
  /\ TailInv
  /\ Locking
=============================================================================
