---------------------------- MODULE IndexedList -----------------------------
(***************************************************************************)
(* What lib/dplist.h promises the callers of the pointer list: a sequence  *)
(* of nodes, each with an element and a reference that identifies it as    *)
(* long as it is in the list.  Indices count from 0 and are clamped to the *)
(* list; a reference that is not in the list (any more) changes nothing.   *)
(***************************************************************************)
EXTENDS Integers, FiniteSets, SequencesExt

CONSTANTS
  NULL,     \* no element, no reference
  Ref,      \* the references a node can have
  Index,    \* the indices a caller can pass
  Element,  \* the elements a caller can put into the list
  Key       \* what element_compare compares

VARIABLES
  status,   \* "NULL" (no list), "live", or "aborted": an assertion ended it
  list,     \* the nodes: a sequence of records of a reference and an element
  call      \* the last operation, with its arguments

lvars == <<status, list, call>>

Element0 == Element \cup {NULL}
Ref0     == Ref \cup {NULL}

RefsIn(l)   == {l[k].ref : k \in DOMAIN l}
Ascending(l) == \A k \in 1 .. Len(l) - 1 : Key[l[k].element] <= Key[l[k + 1].element]
Count(l, e) == Cardinality({k \in DOMAIN l : l[k].element = e})

\* The position (from 1) that index i stands for when there are n of them.
Clamp(i, n) == IF i < 0 THEN 1 ELSE IF i >= n THEN n ELSE i + 1

\* The index (from 0) of the first node with the given reference, of the
\* first one whose element compares equal to e; -1 if there is none.
IndexOfRef(r)     == SelectInSeq(list, LAMBDA node : node.ref = r) - 1
IndexOfElement(e) == SelectInSeq(list, LAMBDA node : Key[node.element] = Key[e]) - 1

\* What the node at index i holds, and NULL for an index outside the list.
RefAt(i)     == IF i + 1 \in DOMAIN list THEN list[i + 1].ref ELSE NULL
ElementAt(i) == IF i + 1 \in DOMAIN list THEN list[i + 1].element ELSE NULL

Init ==
  /\ status = "NULL"
  /\ list = <<>>
  /\ call = <<>>

Abort == status' = "aborted" /\ UNCHANGED list

Create ==
  /\ status = "NULL"
  /\ \/ status' = "live" /\ UNCHANGED list
     \/ Abort

Free ==
  \/ status = "live" /\ status' = "NULL" /\ list' = <<>>
  \/ status = "NULL" /\ Abort

\* Insert e before the node at index i; an index past the end appends it.
\* Without a list, an element or memory for the node the process aborts.
InsertAtIndex(e, i) ==
  \/ /\ status = "live" /\ e # NULL
     /\ \E r \in Ref \ RefsIn(list) :
          list' = InsertAt(list, Clamp(i, Len(list) + 1), [ref |-> r, element |-> e])
     /\ UNCHANGED status
  \/ (status = "NULL" \/ e = NULL \/ RefsIn(list) = Ref) /\ Abort

RemoveAtIndex(i) ==
  \/ /\ status = "live" /\ list # <<>>
     /\ list' = RemoveAt(list, Clamp(i, Len(list)))
     /\ UNCHANGED status
  \/ status = "live" /\ list = <<>> /\ UNCHANGED <<status, list>>
  \/ status = "NULL" /\ Abort

InsertAtReference(e, r) ==
  \/ r = NULL /\ InsertAtIndex(e, Len(list))
  \/ r \in RefsIn(list) /\ InsertAtIndex(e, IndexOfRef(r))
  \/ status = "live" /\ r # NULL /\ r \notin RefsIn(list) /\ UNCHANGED <<status, list>>
  \/ status = "NULL" /\ Abort

RemoveAtReference(r) ==
  \/ r = NULL /\ RemoveAtIndex(Len(list) - 1)
  \/ r \in RefsIn(list) /\ RemoveAtIndex(IndexOfRef(r))
  \/ status = "live" /\ r # NULL /\ r \notin RefsIn(list) /\ UNCHANGED <<status, list>>
  \/ status = "NULL" /\ Abort

RemoveElement(e) ==
  \/ status = "live" /\ IndexOfElement(e) # -1 /\ RemoveAtIndex(IndexOfElement(e))
  \/ status = "live" /\ IndexOfElement(e) = -1 /\ UNCHANGED <<status, list>>
  \/ status = "NULL" /\ Abort

\* Afterwards the list is in ascending order and holds the old elements and e.
\* The nodes keep their order; if the list was sorted before, as dplist.h
\* asks, they keep their elements too.
InsertSorted(e) ==
  \/ /\ status = "live" /\ e # NULL
     /\ Ascending(list')
     /\ \A x \in Element : Count(list', x) = Count(list, x) + (IF x = e THEN 1 ELSE 0)
     /\ \E k \in DOMAIN list' :
          LET others == RemoveAt(list', k) IN
          /\ list'[k].ref \in Ref \ RefsIn(list)
          /\ [j \in DOMAIN others |-> others[j].ref] = [j \in DOMAIN list |-> list[j].ref]
          /\ Ascending(list) => others = list
     /\ UNCHANGED status
  \/ (status = "NULL" \/ e = NULL \/ RefsIn(list) = Ref) /\ Abort

Called(operation) == status # "aborted" /\ call' = operation

Next ==
  \/ Called(<<"create">>) /\ Create
  \/ Called(<<"free">>) /\ Free
  \/ \E e \in Element0, i \in Index : Called(<<"insert_at_index", e, i>>) /\ InsertAtIndex(e, i)
  \/ \E i \in Index : Called(<<"remove_at_index", i>>) /\ RemoveAtIndex(i)
  \/ \E e \in Element0, r \in Ref0 :
       Called(<<"insert_at_reference", e, r>>) /\ InsertAtReference(e, r)
  \/ \E r \in Ref0 : Called(<<"remove_at_reference", r>>) /\ RemoveAtReference(r)
  \/ \E e \in Element0 : Called(<<"insert_sorted", e>>) /\ InsertSorted(e)
  \/ \E e \in Element : Called(<<"remove_element", e>>) /\ RemoveElement(e)

Spec == Init /\ [][Next]_lvars
=============================================================================
