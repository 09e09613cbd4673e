--------------------------- MODULE BroadcastQueue ---------------------------
(***************************************************************************)
(* What the shared buffer of the sensor gateway promises its clients.      *)
(*                                                                         *)
(* The connection manager appends measurements to one stream; every reader *)
(* (the data manager and the storage manager) is given the whole stream,   *)
(* in order, each measurement exactly once.  A reader may lag behind the   *)
(* other one by any amount, and never sees a measurement twice or out of   *)
(* order.  How a measurement is stored, and when its memory is reclaimed,  *)
(* is not part of the promise: module SBuffer says that.                   *)
(***************************************************************************)
EXTENDS Naturals, Sequences

CONSTANTS
  Data,     \* the measurements (sensor_data_t)
  Readers   \* the threads that read every measurement

VARIABLES
  inserted, \* the stream: every measurement given to Insert, in order
  got       \* for every reader, the measurements it has been given

qvars == <<inserted, got>>

Init ==
  /\ inserted = <<>>
  /\ got = [r \in Readers |-> <<>>]

Insert(d) ==
  /\ inserted' = Append(inserted, d)
  /\ UNCHANGED got

\* The reader's next measurement: the first of the stream it was not given.
NextFor(r) == inserted[Len(got[r]) + 1]

Deliver(r) ==
  /\ Len(got[r]) < Len(inserted)
  /\ got' = [got EXCEPT ![r] = Append(@, NextFor(r))]
  /\ UNCHANGED inserted

Next ==
  \/ \E d \in Data : Insert(d)
  \/ \E r \in Readers : Deliver(r)

Spec == Init /\ [][Next]_qvars
=============================================================================
