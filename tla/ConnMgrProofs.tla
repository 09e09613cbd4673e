---------------------------- MODULE ConnMgrProofs ---------------------------
(***************************************************************************)
(* Theorems about ConnMgr, for any number of connections and measurements, *)
(* every TIMEOUT, whatever time the sensors send and whatever malloc       *)
(* leaves, and sensors that crash or reset at any time.                    *)
(*                                                                         *)
(* The inductive invariant accounts for every field that a sensor sent: it *)
(* is in the stream, and known by its number there (Waiting), or it went   *)
(* into the buffer, three to a measurement, but for those of the           *)
(* measurement that is being received (Counted) - unless that was torn,    *)
(* which happens at the end of a stream only and so once in a connection   *)
(* (Torn, Cut).  The list knows of a client the time in its last           *)
(* measurement (Known), which decides what the log says next (Story).      *)
(***************************************************************************)
EXTENDS ConnMgr, CommonLemmas, FiniteSetTheorems

\* The client whose measurement is being received: Busy(c, {"value", "ts"}).
Busy(c, at) == pc \in at /\ This.c = c

\* How many fields of an unfinished measurement of c have been received.
Part(c) == IF Busy(c, {"value"}) THEN 1 ELSE IF Busy(c, {"ts"}) THEN 2 ELSE 0

Received(c) == sent[c] - Len(stream[c])

\* What the field with number n of connection c can be; ts are the times it sent.
IsField(c, ts, n, x) ==
  /\ n % 3 = 0 => x = c
  /\ n % 3 = 1 => x = n \div 3 + 1
  /\ n % 3 = 2 => n \div 3 + 1 \in 1 .. Len(ts) /\ x = ts[n \div 3 + 1]

Waiting ==
  \A c \in Conns :
    /\ Len(stream[c]) <= sent[c] /\ Len(times[c]) = sent[c] \div 3
    /\ \A k \in 1 .. Len(stream[c]) : IsField(c, times[c], Received(c) + k - 1, stream[c][k])

\* The stream of c ended after the first or the second field of measurement
\* number n.
Ended(c, n) ==
  /\ stream[c] = <<>> /\ fin[c] # "no"
  /\ 3 * n - 3 < sent[c] /\ sent[c] < 3 * n

\* The last measurement of c was torn; the one that is being received has no
\* value.
Torn(c) == Len(buffer[c]) > 0 /\ Ended(c, Len(buffer[c])) /\ Part(c) = 0
Cut(c)  == Ended(c, Len(buffer[c]) + 1) /\ Busy(c, {"ts"})

Whole(c) ==
  /\ Received(c) = 3 * Len(buffer[c]) + Part(c)
  /\ Busy(c, {"ts"}) => measurement.value = Len(buffer[c]) + 1

Counted == \A c \in Conns : Whole(c) \/ Torn(c) \/ Cut(c)

\* A measurement is received from a client, under its id.
Receiving ==
  pc \in {"value", "ts"} => i < Len(client_list) /\ measurement.id = This.c

\* The measurements in the buffer.
Correct ==
  \A c \in Conns : \A k \in 1 .. Len(buffer[c]) :
    /\ buffer[c][k].id = c
    /\ 3 * k <= sent[c] => /\ buffer[c][k].value = k
                           /\ k \in 1 .. Len(times[c]) /\ buffer[c][k].ts = times[c][k]

Opened(c) == [kind |-> "opened", id |-> c]
Closed(c) == [kind |-> "closed", id |-> IF buffer[c] = <<>> THEN 0 ELSE c]

\* The log of a connection, and what its client knows.
Story ==
  \A c \in Conns :
    LET n == Cardinality(Openings(buffer[c]))
    IN  /\ \A k \in 1 .. n : log[c][k] = Opened(c)
        /\ \/ Len(log[c]) = n
           \/ Len(log[c]) = n + 1 /\ log[c][n + 1] = Closed(c) /\ conn[c] = "closed"

\* The time of the last measurement, 0 before there is one.
LastTime(ms) == IF ms = <<>> THEN 0 ELSE ms[Len(ms)].ts

Known ==
  /\ \A c \in Conns : conn[c] \in {"none", "pending"} => buffer[c] = <<>>
  /\ \A k \in 1 .. Len(client_list) :
       LET e == client_list[k]
       IN  /\ e.id = IF buffer[e.c] = <<>> THEN 0 ELSE e.c
           /\ e.ts = LastTime(buffer[e.c])

IInv ==
  /\ TypeOK /\ ListIsOpen /\ Waiting /\ Counted /\ Receiving /\ Correct /\ Story /\ Known
-----------------------------------------------------------------------------
(* Fields, and the list.                                                   *)

LEMMA FieldNumbers ==
  ASSUME NEW b \in Nat
  PROVE  /\ (3 * b) % 3 = 0 /\ (3 * b + 1) % 3 = 1 /\ (3 * b + 2) % 3 = 2
         /\ (3 * b + 1) \div 3 = b /\ (3 * b + 2) \div 3 = b
  OBVIOUS

\* One field more: the third of them completes a measurement.
LEMMA FieldCount ==
  ASSUME NEW n \in Nat
  PROVE  (n + 1) \div 3 = IF n % 3 = 2 THEN n \div 3 + 1 ELSE n \div 3
  OBVIOUS

\* A measurement more: it is logged as an opening if no time is stored.
IsGrown(ms, m) ==
  /\ Cardinality(Openings(ms)) \in Nat
  /\ Cardinality(Openings(Append(ms, m))) =
       Cardinality(Openings(ms)) + IF LastTime(ms) = 0 THEN 1 ELSE 0

LEMMA OpeningsGrow ==
  ASSUME NEW ms \in Seq(sensor_data), NEW m \in sensor_data
  PROVE  IsGrown(ms, m)
  <1> DEFINE N == Len(ms)
             O == Openings(ms)
             s == Append(ms, m)
  <1>1. N \in Nat /\ DOMAIN ms = 1 .. N
    OBVIOUS
  <1>2. O \subseteq 1 .. N
    BY <1>1 DEF Openings
  <1>3. IsFiniteSet(1 .. N)
    BY <1>1, FS_Interval
  <1>4. IsFiniteSet(O) /\ Cardinality(O) \in Nat
    BY <1>2, <1>3, FS_Subset, FS_CardinalityType
  <1>5. N + 1 \notin O
    BY <1>1, <1>2
  <1>6. Cardinality(O \cup {N + 1}) = Cardinality(O) + 1
    BY <1>4, <1>5, FS_AddElement
  <1>7. /\ DOMAIN s = 1 .. N + 1 /\ \A k \in 1 .. N : s[k] = ms[k]
    BY <1>1
  <1>8. LastTime(ms) = IF N = 0 THEN 0 ELSE ms[N].ts
    BY <1>1 DEF LastTime
  <1> HIDE DEF s
  <1>9. Openings(s) = IF LastTime(ms) = 0 THEN O \cup {N + 1} ELSE O
    <2>1. \A k \in 1 .. N : k \in Openings(s) <=> k \in O
      <3> SUFFICES ASSUME NEW k \in 1 .. N PROVE k \in Openings(s) <=> k \in O
        OBVIOUS
      <3>1. k # 1 => k - 1 \in 1 .. N
        BY <1>1
      <3> QED
        BY <1>1, <1>7, <3>1 DEF Openings
    <2>2. N + 1 \in Openings(s) <=> LastTime(ms) = 0
      <3>1. N + 1 \in 1 .. N + 1 /\ (N + 1) - 1 = N /\ (N + 1 = 1 <=> N = 0)
        BY <1>1
      <3>2. N # 0 => s[N] = ms[N]
        BY <1>1, <1>7
      <3> QED
        BY <1>7, <1>8, <3>1, <3>2 DEF Openings
    <2>3. Openings(s) \subseteq 1 .. N + 1
      BY <1>7 DEF Openings
    <2>4. \A k \in 1 .. N + 1 : k \in 1 .. N \/ k = N + 1
      BY <1>1
    <2>5. CASE LastTime(ms) = 0
      <3>1. \A k : k \in Openings(s) <=> k \in O \cup {N + 1}
        BY <1>2, <2>1, <2>2, <2>3, <2>4, <2>5
      <3> QED
        BY <2>5, <3>1
    <2>6. CASE LastTime(ms) # 0
      <3>1. \A k \in O : k \in 1 .. N
        BY <1>2
      <3>2. \A k : k \in Openings(s) <=> k \in O
        BY <2>1, <2>2, <2>3, <2>4, <2>6, <3>1
      <3> QED
        BY <2>6, <3>2
    <2> QED
      BY <2>5, <2>6
  <1> QED
    BY <1>4, <1>6, <1>9 DEF IsGrown, s

LEMMA OpeningsNat ==
  ASSUME NEW ms \in Seq(sensor_data)
  PROVE  Cardinality(Openings(ms)) \in Nat
  <1>1. None \in sensor_data
    BY DEF None, sensor_data, Field
  <1> QED
    BY <1>1, OpeningsGrow DEF IsGrown

LEMMA FieldNumber ==
  ASSUME NEW n \in Nat
  PROVE  n % 3 \in {0, 1, 2} /\ n \div 3 \in Nat
  OBVIOUS

\* What the list says of a client.
LEMMA ClientFacts ==
  ASSUME TypeOK
  PROVE  /\ Len(client_list) \in Nat /\ DOMAIN client_list = 1 .. Len(client_list)
         /\ \A k \in 1 .. Len(client_list) :
              /\ client_list[k].c \in Conns /\ client_list[k].ts \in Int
              /\ client_list[k].id \in Conns \cup {0}
              /\ client_list[k] = [c |-> client_list[k].c, ts |-> client_list[k].ts,
                                   id |-> client_list[k].id]
  <1>1. /\ Len(client_list) \in Nat /\ DOMAIN client_list = 1 .. Len(client_list)
        /\ \A k \in 1 .. Len(client_list) : client_list[k] \in sensor_info
    BY DEF TypeOK
  <1> QED
    BY <1>1 DEF sensor_info
-----------------------------------------------------------------------------
(* The invariant at first, and the steps of the sensors and the clock.     *)

LEMMA InitIInv == Init => IInv
  <1> SUFFICES ASSUME Init PROVE IInv
    OBVIOUS
  <1> USE DEF Init
  <1>1. \A S : <<>> \in Seq(S)
    OBVIOUS
  <1>2. TypeOK
    <2>1. measurement \in sensor_data
      BY DEF None, sensor_data, Field
    <2> QED
      BY <1>1, <2>1, ConstAssumption DEF TypeOK
  <1>3. ListIsOpen
    BY DEF ListIsOpen, Clients
  <1>4. Waiting /\ Counted /\ Receiving /\ Correct
    BY DEF Waiting, Counted, Receiving, Correct, Whole, Received, Part, Busy
  <1>5. Known
    BY DEF Known
  <1>6. Story
    <2>1. Openings(<<>>) = {}
      BY DEF Openings
    <2>2. Cardinality(Openings(<<>>)) = 0
      BY <2>1, FS_EmptySet
    <2> QED
      BY <2>2 DEF Story
  <1> QED
    BY <1>2, <1>3, <1>4, <1>5, <1>6 DEF IInv

LEMMA TickIInv ==
  ASSUME IInv, Tick
  PROVE  IInv'
  <1>1. UNCHANGED <<conn, stream, fin, sent, times, pc, since, read_fds, client_list, i, measurement,
                    buffer, log>>
        /\ now' \in 1 .. MaxTime /\ now' = now + 1 /\ now \in 1 .. MaxTime
    BY ConstAssumption DEF Tick, network, IInv, TypeOK
  <1>2. client_list \in Seq(sensor_info)
    BY DEF IInv, TypeOK
  <1>3. TypeOK'
    <2>1. since' \in 1 .. now'
      BY <1>1, ConstAssumption DEF IInv, TypeOK
    <2> QED
      BY <1>1, <1>2, <2>1 DEF IInv, TypeOK
  <1>4. ListIsOpen' /\ Receiving'
    BY <1>1 DEF IInv, ListIsOpen, Clients, Receiving, This
  <1>5. Waiting'
    BY <1>1, ConstAssumption DEF IInv, Waiting, IsField, Received
  <1>6. Correct'
    BY <1>1, ConstAssumption DEF IInv, Correct
  <1>7. \A c \in Conns : Torn(c)' = Torn(c) /\ Cut(c)' = Cut(c) /\ Whole(c)' = Whole(c)
    BY <1>1 DEF Torn, Cut, Whole, Ended, Part, Busy, This, Received
  <1>8. Counted' /\ Story' /\ Known'
    <2>1. Counted'
      BY <1>7 DEF IInv, Counted
    <2>2. Story'
      BY <1>1 DEF IInv, Story, Opened, Closed
    <2>3. Known'
      BY <1>1 DEF IInv, Known
    <2> QED
      BY <2>1, <2>2, <2>3
  <1> QED
    BY <1>3, <1>4, <1>5, <1>6, <1>8 DEF IInv

LEMMA ConnectIInv ==
  ASSUME IInv, NEW c \in Conns, sensor_connect(c)
  PROVE  IInv'
  <1>1. /\ conn[c] = "none" /\ conn' = [conn EXCEPT ![c] = "pending"] /\ pc # "done"
        /\ UNCHANGED <<now, stream, fin, sent, times, pc, since, read_fds, client_list, i, measurement,
                       buffer, log>>
    BY DEF sensor_connect, Quiet
  <1>2. /\ conn' \in [Conns -> {"none", "pending", "open", "closed"}] /\ conn'[c] = "pending"
        /\ \A o \in Conns \ {c} : conn'[o] = conn[o]
    BY <1>1 DEF IInv, TypeOK
  <1>3. TypeOK'
    BY <1>1, <1>2 DEF IInv, TypeOK, sensor_info
  <1>4. ListIsOpen' /\ Receiving'
    BY <1>1, <1>2 DEF IInv, ListIsOpen, Clients, Receiving, This
  <1>5. Waiting' /\ Correct'
    BY <1>1 DEF IInv, Waiting, IsField, Received, Correct
  <1>6. \A o \in Conns : Torn(o)' = Torn(o) /\ Cut(o)' = Cut(o) /\ Whole(o)' = Whole(o)
    BY <1>1 DEF Torn, Cut, Whole, Ended, Part, Busy, This, Received
  <1>7. Counted'
    BY <1>6 DEF IInv, Counted
  <1>8. Story'
    BY <1>1, <1>2 DEF IInv, Story, Opened, Closed
  <1>9. Known'
    <2>1. \A o \in Conns : conn'[o] \in {"none", "pending"} => buffer[o] = <<>>
      BY <1>1, <1>2 DEF IInv, Known
    <2> QED
      BY <1>1, <2>1 DEF IInv, Known
  <1> QED
    BY <1>3, <1>4, <1>5, <1>7, <1>8, <1>9 DEF IInv

\* The new field is the last in the stream, with the number that it has.
LEMMA SendIInv ==
  ASSUME IInv, NEW c \in Conns, sensor_send(c)
  PROVE  IInv'
  <1>0. PICK x \in NextField(c) :
              /\ stream' = [stream EXCEPT ![c] = Append(stream[c], x)]
              /\ times' = IF sent[c] % 3 = 2 THEN [times EXCEPT ![c] = Append(times[c], x)] ELSE times
    BY DEF sensor_send
  <1>1. /\ fin[c] = "no" /\ stream' = [stream EXCEPT ![c] = Append(stream[c], x)]
        /\ sent' = [sent EXCEPT ![c] = sent[c] + 1]
        /\ UNCHANGED <<now, conn, fin, pc, since, read_fds, client_list, i, measurement,
                       buffer, log>>
    BY <1>0 DEF sensor_send, Quiet
  <1>2. /\ sent[c] \in Nat /\ stream[c] \in Seq(Field) /\ Len(stream[c]) \in Nat
        /\ Len(stream[c]) <= sent[c]
    BY DEF IInv, TypeOK, Waiting
  <1>n. /\ times[c] \in Seq(Int) /\ Len(times[c]) = sent[c] \div 3
        /\ sent[c] % 3 \in {0, 1, 2} /\ sent[c] \div 3 \in Nat
    BY FieldNumber DEF IInv, TypeOK, Waiting
  <1>3. /\ x \in Field
        /\ sent[c] % 3 = 0 => x = c
        /\ sent[c] % 3 = 1 => x = sent[c] \div 3 + 1
        /\ sent[c] % 3 = 2 => x \in Int
    BY <1>0, <1>2, <1>n, ConstAssumption DEF NextField, Field
  <1>4. /\ sent' \in [Conns -> Nat] /\ stream' \in [Conns -> Seq(Field)]
        /\ sent'[c] = sent[c] + 1 /\ stream'[c] = Append(stream[c], x)
        /\ \A o \in Conns \ {c} : sent'[o] = sent[o] /\ stream'[o] = stream[o]
    BY <1>1, <1>2, <1>3 DEF IInv, TypeOK
  <1>5. /\ Len(stream'[c]) = Len(stream[c]) + 1 /\ stream'[c][Len(stream[c]) + 1] = x
        /\ \A k \in 1 .. Len(stream[c]) : stream'[c][k] = stream[c][k]
        /\ stream'[c] # <<>>
    <2>1. x \in Field
      BY <1>3
    <2>2. /\ Len(Append(stream[c], x)) = Len(stream[c]) + 1
          /\ Append(stream[c], x)[Len(stream[c]) + 1] = x
          /\ \A k \in 1 .. Len(stream[c]) : Append(stream[c], x)[k] = stream[c][k]
          /\ Append(stream[c], x) # <<>>
      BY <1>2, <2>1
    <2> QED
      BY <1>4, <2>2
  <1>t. /\ times' \in [Conns -> Seq(Int)] /\ Len(times'[c]) = sent'[c] \div 3
        /\ Len(times[c]) <= Len(times'[c])
        /\ \A k \in 1 .. Len(times[c]) : times'[c][k] = times[c][k]
        /\ sent[c] % 3 = 2 => Len(times'[c]) = sent[c] \div 3 + 1 /\ times'[c][Len(times'[c])] = x
        /\ \A o \in Conns \ {c} : times'[o] = times[o]
    <2>1. times \in [Conns -> Seq(Int)]
      BY DEF IInv, TypeOK
    <2>2. sent'[c] \div 3 = IF sent[c] % 3 = 2 THEN sent[c] \div 3 + 1 ELSE sent[c] \div 3
      BY <1>2, <1>4, FieldCount
    <2>3. CASE sent[c] % 3 = 2
      <3>1. times' = [times EXCEPT ![c] = Append(times[c], x)] /\ x \in Int
        BY <1>0, <1>3, <2>3
      <3>2. /\ Append(times[c], x) \in Seq(Int) /\ Len(Append(times[c], x)) = Len(times[c]) + 1
            /\ Append(times[c], x)[Len(times[c]) + 1] = x
            /\ \A k \in 1 .. Len(times[c]) : Append(times[c], x)[k] = times[c][k]
        BY <1>n, <3>1
      <3>3. /\ times' \in [Conns -> Seq(Int)] /\ times'[c] = Append(times[c], x)
            /\ \A o \in Conns \ {c} : times'[o] = times[o]
        BY <2>1, <3>1, <3>2
      <3> QED
        BY <1>n, <2>2, <2>3, <3>2, <3>3
    <2>4. CASE sent[c] % 3 # 2
      <3>1. times' = times
        BY <1>0, <2>4
      <3> QED
        BY <1>n, <2>1, <2>2, <2>4, <3>1
    <2> QED
      BY <2>3, <2>4
  <1>6. TypeOK'
    BY <1>1, <1>4, <1>t DEF IInv, TypeOK
  <1>7. ListIsOpen' /\ Receiving' /\ Story'
    BY <1>1 DEF IInv, ListIsOpen, Clients, Receiving, This, Story, Opened, Closed
  <1>8. Received(c)' = Received(c) /\ Received(c) \in Nat
    BY <1>2, <1>4, <1>5 DEF Received
  <1>9. Waiting'
    <2>1. IsField(c, times'[c], sent[c], x)
      <3>1. sent[c] % 3 = 2 => sent[c] \div 3 + 1 \in 1 .. Len(times'[c])
        BY <1>n, <1>t
      <3>2. /\ sent[c] % 3 = 0 => x = c
            /\ sent[c] % 3 = 1 => x = sent[c] \div 3 + 1
            /\ sent[c] % 3 = 2 => /\ sent[c] \div 3 + 1 \in 1 .. Len(times'[c])
                                  /\ x = times'[c][sent[c] \div 3 + 1]
        BY <1>3, <1>t, <3>1
      <3> QED
        BY <3>2 DEF IsField
    <2>2. ASSUME NEW n, NEW y, IsField(c, times[c], n, y) PROVE IsField(c, times'[c], n, y)
      BY <1>n, <1>t, <2>2 DEF IsField
    <2>3. \A k \in 1 .. Len(stream'[c]) : IsField(c, times'[c], Received(c)' + k - 1, stream'[c][k])
      <3> SUFFICES ASSUME NEW k \in 1 .. Len(stream'[c])
                   PROVE  IsField(c, times'[c], Received(c)' + k - 1, stream'[c][k])
        OBVIOUS
      <3>1. CASE k \in 1 .. Len(stream[c])
        <4>1. IsField(c, times[c], Received(c) + k - 1, stream[c][k])
          BY <3>1 DEF IInv, Waiting
        <4> QED
          BY <1>5, <1>8, <2>2, <3>1, <4>1
      <3>2. CASE k = Len(stream[c]) + 1
        <4>1. Received(c) + k - 1 = sent[c]
          BY <1>2, <3>2 DEF Received
        <4> QED
          BY <1>5, <1>8, <2>1, <3>2, <4>1
      <3> QED
        BY <1>2, <1>5, <3>1, <3>2
    <2>4. \A o \in Conns \ {c} : Received(o)' = Received(o)
      BY <1>4 DEF Received
    <2>5. ASSUME NEW o \in Conns \ {c}
          PROVE  /\ Len(stream'[o]) <= sent'[o] /\ Len(times'[o]) = sent'[o] \div 3
                 /\ \A k \in 1 .. Len(stream'[o]) : IsField(o, times'[o], Received(o)' + k - 1, stream'[o][k])
      <3>1. sent'[o] = sent[o] /\ stream'[o] = stream[o] /\ times'[o] = times[o]
        BY <1>4, <1>t
      <3> QED
        BY <2>4, <3>1 DEF IInv, Waiting
    <2>6. Len(stream'[c]) <= sent'[c] /\ Len(times'[c]) = sent'[c] \div 3
      BY <1>2, <1>4, <1>5, <1>t
    <2> QED
      BY <2>3, <2>5, <2>6 DEF Waiting
  <1>10. \A o \in Conns : Part(o)' = Part(o) /\ (\A at : Busy(o, at)' = Busy(o, at))
    BY <1>1 DEF Part, Busy, This
  <1>11. Whole(c)
    BY <1>1 DEF IInv, Counted, Torn, Cut, Ended
  <1>12. \A o \in Conns \ {c} : Torn(o)' = Torn(o) /\ Cut(o)' = Cut(o) /\ Whole(o)' = Whole(o)
    BY <1>1, <1>4, <1>10 DEF Torn, Cut, Whole, Ended, Received
  <1>13. Counted'
    <2>1. Whole(c)'
      BY <1>1, <1>8, <1>10, <1>11 DEF Whole
    <2> QED
      BY <1>12, <2>1 DEF IInv, Counted
  <1>14. Correct'
    <2>1. 3 * Len(buffer[c]) <= sent[c] /\ Len(buffer[c]) \in Nat
      <3>1. Len(buffer[c]) \in Nat
        BY DEF IInv, TypeOK
      <3>2. Part(c) \in Nat
        BY DEF Part
      <3> QED
        BY <1>2, <1>11, <3>1, <3>2 DEF Whole, Received
    <2>2. \A k \in 1 .. Len(buffer[c]) : 3 * k <= sent[c]
      BY <1>2, <2>1
    <2>3. \A k \in 1 .. Len(times[c]) : k \in 1 .. Len(times'[c])
      <3>1. Len(times[c]) \in Nat /\ Len(times'[c]) \in Nat
        BY <1>t DEF IInv, TypeOK
      <3> QED
        BY <1>t, <3>1
    <2>4. ASSUME NEW k \in 1 .. Len(buffer[c])
          PROVE  /\ buffer[c][k].id = c /\ buffer[c][k].value = k
                 /\ k \in 1 .. Len(times'[c]) /\ buffer[c][k].ts = times'[c][k]
      <3>1. /\ buffer[c][k].id = c /\ buffer[c][k].value = k
            /\ k \in 1 .. Len(times[c]) /\ buffer[c][k].ts = times[c][k]
        BY <2>2 DEF IInv, Correct
      <3> QED
        BY <1>t, <2>3, <3>1
    <2>5. ASSUME NEW o \in Conns \ {c}
          PROVE  buffer'[o] = buffer[o] /\ sent'[o] = sent[o] /\ times'[o] = times[o]
      BY <1>1, <1>4, <1>t
    <2> QED
      BY <1>1, <2>4, <2>5 DEF IInv, Correct
  <1>15. Known'
    BY <1>1 DEF IInv, Known
  <1> QED
    BY <1>6, <1>7, <1>9, <1>13, <1>14, <1>15 DEF IInv

\* The end of a stream, or the error of a reset that was taken.
LEMMA FinIInv ==
  ASSUME IInv, NEW c \in Conns, NEW f \in {"fin", "rst"}, fin' = [fin EXCEPT ![c] = f],
         UNCHANGED <<now, conn, stream, sent, times, pc, since, read_fds, client_list, i, measurement,
                     buffer, log>>
  PROVE  IInv'
  <1>1. /\ fin' \in [Conns -> {"no", "fin", "rst"}]
        /\ \A o \in Conns : fin'[o] = fin[o] \/ fin'[o] # "no"
    BY DEF IInv, TypeOK
  <1>2. TypeOK'
    BY <1>1 DEF IInv, TypeOK, sensor_info
  <1>3. ListIsOpen' /\ Receiving' /\ Story'
    BY DEF IInv, ListIsOpen, Clients, Receiving, This, Story, Opened, Closed
  <1>4. Waiting' /\ Correct'
    BY DEF IInv, Waiting, IsField, Received, Correct
  <1>5. \A o \in Conns : (Torn(o) => Torn(o)') /\ (Cut(o) => Cut(o)') /\ Whole(o)' = Whole(o)
    BY <1>1 DEF Torn, Cut, Whole, Ended, Part, Busy, This, Received
  <1>6. Counted'
    BY <1>5 DEF IInv, Counted
  <1>7. Known'
    BY DEF IInv, Known
  <1> QED
    BY <1>2, <1>3, <1>4, <1>6, <1>7 DEF IInv

LEMMA EndIInv ==
  ASSUME IInv, NEW c \in Conns, sensor_close(c) \/ sensor_reset(c)
  PROVE  IInv'
  BY FinIInv DEF sensor_close, sensor_reset, Quiet
-----------------------------------------------------------------------------
(* The steps of connmgr_listen.                                            *)

\* This is a client, by ListIsOpen an open connection.
LEMMA ThisFacts ==
  ASSUME IInv, i < Len(client_list), pc # "done"
  PROVE  /\ i + 1 \in 1 .. Len(client_list) /\ i \in Nat /\ This.c \in Conns
         /\ conn[This.c] = "open" /\ This = client_list[i + 1] /\ This.ts \in Int
         /\ This.id \in Conns \cup {0}
         /\ \A k \in 1 .. Len(client_list) : client_list[k].c = This.c => k = i + 1
  <1>1. i \in Nat /\ i + 1 \in 1 .. Len(client_list) /\ DOMAIN client_list = 1 .. Len(client_list)
    BY ClientFacts DEF IInv, TypeOK
  <1>2. This.c \in Clients
    BY <1>1 DEF Clients, This
  <1> QED
    BY <1>1, <1>2, ClientFacts DEF IInv, ListIsOpen, This

\* No measurement is being received and nothing is.
LEMMA IdleStep ==
  ASSUME IInv, pc \in {"select", "for"}, pc' \in {"select", "for", "done"},
         UNCHANGED <<now, stream, sent, times, buffer>>,
         \A c \in Conns : fin'[c] = fin[c] \/ fin'[c] # "no"
  PROVE  Waiting' /\ Counted' /\ Receiving' /\ Correct'
  <1>1. Waiting' /\ Correct' /\ Receiving'
    BY DEF IInv, Waiting, IsField, Received, Correct, Receiving
  <1>2. \A c \in Conns : /\ Part(c) = 0 /\ Part(c)' = 0
                         /\ ~ Busy(c, {"ts"}) /\ ~ Busy(c, {"ts"})'
    BY DEF Part, Busy
  <1>3. \A c \in Conns : Torn(c) => Torn(c)'
    BY <1>2 DEF Torn, Ended
  <1>4. \A c \in Conns : Whole(c) => Whole(c)'
    BY <1>2 DEF Whole, Received
  <1>5. Counted'
    BY <1>2, <1>3, <1>4 DEF IInv, Counted, Cut
  <1> QED
    BY <1>1, <1>5

LEMMA ActivityIInv ==
  ASSUME IInv, select_activity
  PROVE  IInv'
  <1>1. /\ pc = "select" /\ pc' = "for" /\ i' = 0 /\ read_fds' = Readable
        /\ UNCHANGED <<now, stream, fin, sent, times, since, measurement, buffer, log>>
    BY DEF select_activity
  <1>2. Waiting' /\ Counted' /\ Receiving' /\ Correct'
    BY <1>1, IdleStep
  <1>3. read_fds' \subseteq Conns
    BY <1>1, ClientFacts DEF IInv, Readable, Clients
  <1>4. CASE UNCHANGED <<conn, client_list>>
    <2>1. TypeOK'
      BY <1>1, <1>3, <1>4 DEF IInv, TypeOK, sensor_info
    <2>2. ListIsOpen' /\ Story'
      BY <1>1, <1>4 DEF IInv, ListIsOpen, Clients, Story, Opened, Closed
    <2>3. Known'
      BY <1>1, <1>4 DEF IInv, Known
    <2> QED
      BY <1>2, <2>1, <2>2, <2>3 DEF IInv
  <1>5. ASSUME NEW c \in Pending, conn' = [conn EXCEPT ![c] = "open"],
               client_list' = Append(client_list, [c |-> c, ts |-> 0, id |-> 0])
        PROVE  IInv'
    <2> DEFINE N == Len(client_list)
               e == [c |-> c, ts |-> 0, id |-> 0]
    <2>1. /\ c \in Conns /\ conn[c] = "pending" /\ conn'[c] = "open"
          /\ conn' \in [Conns -> {"none", "pending", "open", "closed"}]
          /\ \A o \in Conns \ {c} : conn'[o] = conn[o]
      BY <1>5 DEF Pending, IInv, TypeOK
    <2>2. e \in sensor_info /\ e.c = c /\ e.ts = 0 /\ e.id = 0
      BY <2>1 DEF sensor_info
    <2>3. client_list \in Seq(sensor_info)
      BY DEF IInv, TypeOK
    <2> HIDE DEF e
    <2>4. /\ client_list' \in Seq(sensor_info) /\ N \in Nat /\ Len(client_list') = N + 1
          /\ client_list'[N + 1] = e /\ \A k \in 1 .. N : client_list'[k] = client_list[k]
          /\ DOMAIN client_list' = 1 .. N + 1 /\ DOMAIN client_list = 1 .. N
      BY <1>5, <2>2, <2>3 DEF e
    <2>5. TypeOK'
      BY <1>1, <1>3, <2>1, <2>4 DEF IInv, TypeOK
    <2>6. Clients' = Clients \cup {c} /\ c \notin Clients
      BY <1>1, <2>1, <2>2, <2>4 DEF Clients, IInv, ListIsOpen
    <2>7. ListIsOpen'
      <3>1. Clients' = {o \in Conns : conn'[o] = "open"}
        BY <1>1, <2>1, <2>6 DEF IInv, ListIsOpen
      <3>2. ASSUME NEW k \in 1 .. N + 1, NEW l \in 1 .. N + 1,
                   client_list'[k].c = client_list'[l].c
            PROVE  k = l
        <4>1. \A j \in 1 .. N : client_list'[j].c # c
          BY <2>4, <2>6 DEF Clients
        <4> QED
          BY <1>1, <2>2, <2>4, <3>2, <4>1 DEF IInv, ListIsOpen
      <3> QED
        BY <2>4, <3>1, <3>2 DEF ListIsOpen
    <2>8. Story'
      BY <1>1, <2>1 DEF IInv, Story, Opened, Closed
    <2>9. Known'
      <3>1. \A k \in 1 .. N : client_list[k].c \in Conns
        BY ClientFacts DEF IInv
      <3>2. \A o \in Conns : conn'[o] \in {"none", "pending"} => buffer[o] = <<>>
        BY <2>1 DEF IInv, Known
      <3>3. buffer[c] = <<>> /\ LastTime(buffer[c]) = 0
        BY <2>1 DEF IInv, Known, LastTime
      <3>4. \A k \in 1 .. N + 1 : k \in 1 .. N \/ k = N + 1
        BY <2>4
      <3> QED
        BY <1>1, <2>2, <2>4, <3>1, <3>2, <3>3, <3>4 DEF IInv, Known
    <2> QED
      BY <1>2, <2>5, <2>7, <2>8, <2>9 DEF IInv
  <1> QED
    BY <1>4, <1>5 DEF select_activity

LEMMA TimeoutIInv ==
  ASSUME IInv, select_timeout
  PROVE  IInv'
  <1>1. /\ pc = "select" /\ pc' = "done" /\ client_list' = <<>>
        /\ UNCHANGED <<now, conn, stream, fin, sent, times, since, read_fds, i, measurement, buffer, log>>
    BY DEF select_timeout, network
  <1>2. Waiting' /\ Counted' /\ Receiving' /\ Correct'
    BY <1>1, IdleStep
  <1>3. TypeOK'
    BY <1>1 DEF IInv, TypeOK
  <1>4. ListIsOpen' /\ Story' /\ Known'
    BY <1>1 DEF IInv, ListIsOpen, Story, Opened, Closed, Known
  <1> QED
    BY <1>2, <1>3, <1>4 DEF IInv

\* A pass of the loop that changes no client.
LEMMA PassIInv ==
  ASSUME IInv, pc = "for", pc' \in {"select", "for"}, i' \in Nat, since' \in {since, now},
         read_fds' \subseteq read_fds, measurement' \in {measurement, None},
         fin' \in [Conns -> {"no", "fin", "rst"}],
         \A c \in Conns : fin'[c] = fin[c] \/ fin'[c] # "no",
         UNCHANGED <<now, conn, stream, sent, times, client_list, buffer, log>>
  PROVE  IInv'
  <1>1. Waiting' /\ Counted' /\ Receiving' /\ Correct'
    BY IdleStep
  <1>2. TypeOK'
    <2>1. measurement' \in sensor_data
      BY DEF IInv, TypeOK, None, sensor_data, Field
    <2>2. since' \in 1 .. now /\ now \in Nat
      BY ConstAssumption DEF IInv, TypeOK
    <2> QED
      BY <2>1, <2>2 DEF IInv, TypeOK, sensor_info
  <1>3. ListIsOpen' /\ Story'
    BY DEF IInv, ListIsOpen, Clients, Story, Opened, Closed
  <1>4. Known'
    BY DEF IInv, Known
  <1> QED
    BY <1>1, <1>2, <1>3, <1>4 DEF IInv

LEMMA ForEndIInv ==
  ASSUME IInv, for_end
  PROVE  IInv'
  <1>1. fin' = fin /\ fin \in [Conns -> {"no", "fin", "rst"}]
    BY DEF for_end, network, IInv, TypeOK
  <1> QED
    BY <1>1, PassIInv DEF for_end, network

\* The client leaves the list; the ones behind it move up.
LEMMA DropIInv ==
  ASSUME IInv, pc = "for", pc' = "for", i < Len(client_list), Drop,
         UNCHANGED <<now, stream, fin, sent, times, since, read_fds, measurement, buffer>>,
         log' = log \/ Log("closed", This.id)
  PROVE  IInv'
  <1> DEFINE N == Len(client_list)
             c == This.c
  <1>1. /\ conn' = [conn EXCEPT ![c] = "closed"]
        /\ client_list' = RemoveAt(client_list, i + 1) /\ i' = i + 1
    BY DEF Drop, Next_i
  <1>2. /\ i + 1 \in 1 .. N /\ i \in Nat /\ c \in Conns /\ conn[c] = "open"
        /\ This.id \in Conns \cup {0}
        /\ \A k \in 1 .. N : client_list[k].c = c => k = i + 1
    BY ThisFacts
  <1>3. This = client_list[i + 1]
    BY DEF This
  <1> HIDE DEF c
  <1>4. /\ conn' \in [Conns -> {"none", "pending", "open", "closed"}] /\ conn'[c] = "closed"
        /\ \A o \in Conns \ {c} : conn'[o] = conn[o]
    BY <1>1, <1>2 DEF IInv, TypeOK
  <1>5. /\ client_list' \in Seq(sensor_info) /\ Len(client_list') = N - 1
        /\ \A k \in 1 .. N - 1 :
             client_list'[k] = IF k < i + 1 THEN client_list[k] ELSE client_list[k + 1]
    <2>1. client_list \in Seq(sensor_info)
      BY DEF IInv, TypeOK
    <2> QED
      BY <1>1, <1>2, <2>1, RemoveAtFacts
  <1>6. /\ N \in Nat /\ DOMAIN client_list = 1 .. N /\ DOMAIN client_list' = 1 .. N - 1
        /\ \A k \in 1 .. N : client_list[k].c \in Conns
    <2>1. DOMAIN client_list' = 1 .. Len(client_list')
      BY <1>5
    <2> QED
      BY <1>5, <2>1, ClientFacts DEF IInv
  <1>7. \A k \in 1 .. N - 1 :
          \E l \in 1 .. N : /\ client_list'[k] = client_list[l] /\ l # i + 1
                            /\ l = IF k < i + 1 THEN k ELSE k + 1
    BY <1>2, <1>5, <1>6
  <1>8. Waiting' /\ Counted' /\ Receiving' /\ Correct'
    BY IdleStep
  <1>9. /\ log' \in [Conns -> Seq(Event)]
        /\ \A o \in Conns \ {c} : log'[o] = log[o]
        /\ log'[c] = log[c] \/ log'[c] = Append(log[c], [kind |-> "closed", id |-> This.id])
    <2>1. [kind |-> "closed", id |-> This.id] \in Event
      BY <1>2 DEF Event
    <2> DEFINE e == [kind |-> "closed", id |-> This.id]
    <2>2. log' = log \/ log' = [log EXCEPT ![c] = Append(log[c], e)]
      BY DEF Log, c
    <2>3. e \in Event /\ log \in [Conns -> Seq(Event)]
      BY <2>1 DEF IInv, TypeOK
    <2> HIDE DEF e
    <2>4. /\ log' \in [Conns -> Seq(Event)]
          /\ \A o \in Conns \ {c} : log'[o] = log[o]
          /\ log'[c] = log[c] \/ log'[c] = Append(log[c], e)
      <3>1. CASE log' = log
        BY <2>3, <3>1
      <3>2. CASE log' = [log EXCEPT ![c] = Append(log[c], e)]
        <4>1. Append(log[c], e) \in Seq(Event)
          BY <1>2, <2>3
        <4> QED
          BY <1>2, <2>3, <3>2, <4>1
      <3> QED
        BY <2>2, <3>1, <3>2
    <2> QED
      BY <2>4 DEF e
  <1>10. TypeOK'
    <2>1. i' \in Nat
      BY <1>1, <1>2
    <2> QED
      BY <1>4, <1>5, <1>9, <2>1 DEF IInv, TypeOK
  <1>11. ListIsOpen'
    <2>1. Clients' = Clients \ {c}
      <3>1. ASSUME NEW o \in Clients' PROVE o \in Clients \ {c}
        <4>1. PICK k \in 1 .. N - 1 : o = client_list'[k].c
          BY <1>6, <3>1 DEF Clients
        <4>2. PICK l \in 1 .. N : client_list'[k] = client_list[l] /\ l # i + 1
          BY <1>7
        <4> QED
          BY <1>2, <1>6, <4>1, <4>2 DEF Clients
      <3>2. ASSUME NEW o \in Clients \ {c} PROVE o \in Clients'
        <4>1. PICK l \in 1 .. N : o = client_list[l].c
          BY <1>6 DEF Clients
        <4>2. l # i + 1
          BY <1>3, <4>1 DEF c
        <4>3. CASE l < i + 1
          <5>1. l \in 1 .. N - 1 /\ client_list'[l] = client_list[l]
            BY <1>2, <1>5, <1>6, <4>3
          <5> QED
            BY <1>6, <4>1, <5>1 DEF Clients
        <4>4. CASE l > i + 1
          <5>1. l - 1 \in 1 .. N - 1 /\ client_list'[l - 1] = client_list[l]
            BY <1>2, <1>5, <1>6, <4>4
          <5> QED
            BY <1>6, <4>1, <5>1 DEF Clients
        <4> QED
          BY <1>2, <4>2, <4>3, <4>4
      <3> QED
        BY <3>1, <3>2
    <2>2. Clients' = {o \in Conns : conn'[o] = "open"}
      BY <1>4, <2>1 DEF IInv, ListIsOpen
    <2>3. ASSUME NEW k \in 1 .. N - 1, NEW l \in 1 .. N - 1, client_list'[k].c = client_list'[l].c
          PROVE  k = l
      <3>1. PICK a \in 1 .. N : /\ client_list'[k] = client_list[a]
                                /\ a = IF k < i + 1 THEN k ELSE k + 1
        BY <1>7
      <3>2. PICK b \in 1 .. N : /\ client_list'[l] = client_list[b]
                                /\ b = IF l < i + 1 THEN l ELSE l + 1
        BY <1>7
      <3>3. a = b
        BY <1>6, <2>3, <3>1, <3>2 DEF IInv, ListIsOpen
      <3> QED
        BY <1>2, <1>6, <3>1, <3>2, <3>3
    <2> QED
      BY <1>6, <2>2, <2>3 DEF ListIsOpen
  <1>12. Story'
    <2>1. This.id = IF buffer[c] = <<>> THEN 0 ELSE c
      BY <1>2, <1>3 DEF IInv, Known, c
    <2>2. [kind |-> "closed", id |-> This.id] = Closed(c)
      BY <2>1 DEF Closed
    <2> DEFINE n == Cardinality(Openings(buffer[c]))
    <2>3. n \in Nat
      BY <1>2, OpeningsNat DEF IInv, TypeOK
    <2>4. Len(log[c]) = n /\ \A k \in 1 .. n : log[c][k] = Opened(c)
      BY <1>2 DEF IInv, Story
    <2> HIDE DEF n
    <2>5. /\ \A k \in 1 .. n : log'[c][k] = Opened(c)
          /\ \/ Len(log'[c]) = n
             \/ Len(log'[c]) = n + 1 /\ log'[c][n + 1] = Closed(c)
      <3>1. log[c] \in Seq(Event) /\ Closed(c) \in Event
        BY <1>2 DEF IInv, TypeOK, Closed, Event
      <3>2. /\ Len(Append(log[c], Closed(c))) = n + 1 /\ Append(log[c], Closed(c))[n + 1] = Closed(c)
            /\ \A k \in 1 .. n : Append(log[c], Closed(c))[k] = log[c][k]
        BY <2>3, <2>4, <3>1
      <3> QED
        BY <1>9, <2>2, <2>4, <3>2
    <2>6. ASSUME NEW o \in Conns
          PROVE  LET no == Cardinality(Openings(buffer[o]))
                 IN  /\ \A k \in 1 .. no : log'[o][k] = Opened(o)
                     /\ \/ Len(log'[o]) = no
                        \/ /\ Len(log'[o]) = no + 1 /\ log'[o][no + 1] = Closed(o)
                           /\ conn'[o] = "closed"
      <3>1. CASE o = c
        BY <1>4, <2>5, <3>1 DEF n
      <3>2. CASE o # c
        BY <1>4, <1>9, <3>2 DEF IInv, Story
      <3> QED
        BY <3>1, <3>2
    <2> QED
      BY <2>6 DEF Story, Opened, Closed
  <1>13. Known'
    <2>1. \A o \in Conns : conn'[o] \in {"none", "pending"} => buffer[o] = <<>>
      BY <1>4 DEF IInv, Known
    <2>2. ASSUME NEW k \in 1 .. N - 1, NEW o \in Conns, client_list'[k].c = o
          PROVE  /\ client_list'[k].id = IF buffer[o] = <<>> THEN 0 ELSE o
                 /\ client_list'[k].ts = LastTime(buffer[o])
      <3>1. PICK l \in 1 .. N : client_list'[k] = client_list[l]
        BY <1>7
      <3> QED
        BY <1>6, <2>2, <3>1 DEF IInv, Known
    <2>3. \A k \in 1 .. N - 1 : client_list'[k].c \in Conns
      BY <1>6, <1>7
    <2> QED
      BY <1>5, <2>1, <2>2, <2>3 DEF Known
  <1> QED
    BY <1>8, <1>10, <1>11, <1>12, <1>13 DEF IInv

LEMMA CheckTimeoutIInv ==
  ASSUME IInv, check_timeout
  PROVE  IInv'
  <1>1. /\ pc = "for" /\ pc' = "for" /\ i < Len(client_list)
        /\ UNCHANGED <<now, stream, fin, sent, times, since, read_fds, measurement, buffer, log>>
    BY DEF check_timeout
  <1>2. CASE Drop
    BY <1>1, <1>2, DropIInv
  <1>3. CASE Next_i /\ UNCHANGED <<conn, client_list>>
    <2>1. i' \in Nat /\ fin \in [Conns -> {"no", "fin", "rst"}]
      BY <1>3 DEF Next_i, IInv, TypeOK
    <2> QED
      BY <1>1, <1>3, <2>1, PassIInv
  <1> QED
    BY <1>2, <1>3 DEF check_timeout

\* A field is taken from the stream: it is the one whose turn it is.
LEMMA TakeField ==
  ASSUME IInv, NEW c \in Conns, stream[c] # <<>>, stream' = [stream EXCEPT ![c] = Tail(@)],
         UNCHANGED <<now, sent, times>>
  PROVE  /\ Waiting' /\ stream' \in [Conns -> Seq(Field)]
         /\ Received(c) \in Nat /\ Received(c) < sent[c] /\ Received(c)' = Received(c) + 1
         /\ IsField(c, times[c], Received(c), Head(stream[c])) /\ Head(stream[c]) \in Field
         /\ \A o \in Conns \ {c} : Received(o)' = Received(o) /\ stream'[o] = stream[o]
  <1>1. /\ stream[c] \in Seq(Field) /\ sent[c] \in Nat /\ Len(stream[c]) \in Nat
        /\ Len(stream[c]) <= sent[c]
    BY DEF IInv, TypeOK, Waiting
  <1>2. Len(stream[c]) > 0
    BY <1>1
  <1>3. /\ stream' \in [Conns -> Seq(Field)] /\ stream'[c] = Tail(stream[c])
        /\ \A o \in Conns \ {c} : stream'[o] = stream[o]
    <2>1. Tail(stream[c]) \in Seq(Field)
      BY <1>1, <1>2
    <2> QED
      BY <2>1 DEF IInv, TypeOK
  <1>4. /\ Len(stream'[c]) = Len(stream[c]) - 1
        /\ \A k \in 1 .. Len(stream[c]) - 1 : stream'[c][k] = stream[c][k + 1]
        /\ Head(stream[c]) = stream[c][1] /\ stream[c][1] \in Field
    BY <1>1, <1>2, <1>3
  <1>5. /\ Received(c) \in Nat /\ Received(c) < sent[c] /\ Received(c)' = Received(c) + 1
        /\ \A o \in Conns \ {c} : Received(o)' = Received(o)
    BY <1>1, <1>2, <1>3, <1>4 DEF Received
  <1>6. \A k \in 1 .. Len(stream[c]) : IsField(c, times[c], Received(c) + k - 1, stream[c][k])
    BY DEF IInv, Waiting
  <1>7. IsField(c, times[c], Received(c), Head(stream[c]))
    <2>1. IsField(c, times[c], Received(c) + 1 - 1, stream[c][1]) /\ Received(c) + 1 - 1 = Received(c)
      BY <1>1, <1>2, <1>5, <1>6
    <2> QED
      BY <1>4, <2>1
  <1>8. \A k \in 1 .. Len(stream[c]) - 1 : IsField(c, times[c], Received(c)' + k - 1, stream'[c][k])
    <2> SUFFICES ASSUME NEW k \in 1 .. Len(stream[c]) - 1
                 PROVE  IsField(c, times[c], Received(c)' + k - 1, stream'[c][k])
      OBVIOUS
    <2>1. /\ k + 1 \in 1 .. Len(stream[c])
          /\ Received(c) + (k + 1) - 1 = Received(c)' + k - 1
      BY <1>1, <1>5
    <2> QED
      BY <1>4, <1>6, <2>1
  <1>9. Waiting'
    BY <1>1, <1>3, <1>4, <1>5, <1>8 DEF IInv, Waiting, IsField
  <1> QED
    BY <1>3, <1>4, <1>5, <1>7, <1>9

\* The measurement that is being received belongs to This; the others wait.
LEMMA OthersStep ==
  ASSUME IInv, NEW c \in Conns, pc \in {"for", "value", "ts"}, pc = "for" \/ This.c = c,
         pc' \in {"for", "value", "ts"}, pc' = "for" \/ This'.c = c,
         UNCHANGED <<sent, times>>,
         \A o \in Conns \ {c} :
           UNCHANGED <<fin[o], stream[o], buffer[o]>>
  PROVE  \A o \in Conns \ {c} : (Whole(o) \/ Torn(o) \/ Cut(o))'
  <1> SUFFICES ASSUME NEW o \in Conns \ {c}
               PROVE  (Whole(o) \/ Torn(o) \/ Cut(o))'
    OBVIOUS
  <1>1. /\ ~ Busy(o, {"value"}) /\ ~ Busy(o, {"ts"})
        /\ ~ Busy(o, {"value"})' /\ ~ Busy(o, {"ts"})'
    BY DEF Busy
  <1>2. Part(o) = 0 /\ Part(o)' = 0
    BY <1>1 DEF Part
  <1>3. (Torn(o) => Torn(o)') /\ (Whole(o) => Whole(o)')
    BY <1>1, <1>2 DEF Torn, Ended, Whole, Received
  <1> QED
    BY <1>1, <1>3 DEF IInv, Counted, Cut

\* What a step that leaves the list, the buffer and the log alone keeps.
LEMMA SameList ==
  ASSUME IInv, pc # "done", UNCHANGED <<now, sent, times, conn, client_list, buffer, log>>
  PROVE  ListIsOpen' /\ Correct' /\ Story' /\ Known'
  <1>1. ListIsOpen' /\ Correct' /\ Story'
    BY DEF IInv, ListIsOpen, Clients, Correct, Story, Opened, Closed
  <1>2. Known'
    BY DEF IInv, Known
  <1> QED
    BY <1>1, <1>2

LEMMA RecvIdIInv ==
  ASSUME IInv, recv_id
  PROVE  IInv'
  <1>1. /\ pc = "for" /\ i < Len(client_list)
        /\ UNCHANGED <<now, sent, times, since, read_fds, buffer>>
    BY DEF recv_id
  <1>2. PICK c \in Conns : This.c = c /\ i \in Nat
    BY <1>1, ThisFacts
  <1> DEFINE b == Len(buffer[c])
  <1>3. CASE /\ stream[c] # <<>>
             /\ measurement' = [None EXCEPT !.id = Head(stream[c])]
             /\ stream' = [stream EXCEPT ![c] = Tail(@)]
             /\ pc' = "value"
             /\ UNCHANGED <<conn, fin, client_list, i, log>>
    <2>1. This'.c = c
      BY <1>2, <1>3 DEF This
    <2>2. /\ Waiting' /\ stream' \in [Conns -> Seq(Field)]
          /\ Received(c) \in Nat /\ Received(c)' = Received(c) + 1
          /\ IsField(c, times[c], Received(c), Head(stream[c])) /\ Head(stream[c]) \in Field
          /\ \A o \in Conns \ {c} : Received(o)' = Received(o) /\ stream'[o] = stream[o]
      BY <1>1, <1>2, <1>3, TakeField
    <2>3. b \in Nat /\ Received(c) = 3 * b /\ ~ Torn(c)
      <3>1. b \in Nat
        BY <1>2 DEF IInv, TypeOK
      <3>2. ~ Torn(c) /\ ~ Cut(c)
        BY <1>3 DEF Torn, Cut, Ended
      <3>3. Part(c) = 0
        BY <1>1 DEF Part, Busy
      <3> QED
        BY <1>2, <3>1, <3>2, <3>3 DEF IInv, Counted, Whole
    <2>4. Head(stream[c]) = c
      BY <2>2, <2>3, FieldNumbers DEF IsField
    <2>5. measurement' \in sensor_data /\ measurement'.id = c
      BY <1>2, <1>3, <2>4 DEF None, sensor_data, Field
    <2>6. Whole(c)'
      <3>1. Busy(c, {"value"})' /\ ~ Busy(c, {"ts"})'
        BY <1>2, <1>3, <2>1 DEF Busy
      <3>2. Part(c)' = 1
        BY <3>1 DEF Part
      <3> QED
        BY <1>1, <2>2, <2>3, <3>1, <3>2 DEF Whole
    <2>7. \A o \in Conns \ {c} : (Whole(o) \/ Torn(o) \/ Cut(o))'
      BY <1>1, <1>2, <1>3, <2>1, <2>2, OthersStep
    <2>8. Counted'
      BY <2>3, <2>6, <2>7 DEF Counted
    <2>9. ListIsOpen' /\ Correct' /\ Story' /\ Known'
      BY <1>1, <1>3, <2>8, SameList
    <2>10. Receiving'
      BY <1>1, <1>3, <2>1, <2>5 DEF Receiving
    <2>11. TypeOK'
      BY <1>1, <1>3, <2>2, <2>5 DEF IInv, TypeOK, sensor_info
    <2> QED
      BY <2>2, <2>8, <2>9, <2>10, <2>11 DEF IInv
  <1>4. CASE error_taken /\ Next_i /\ UNCHANGED <<conn, stream, pc, client_list, measurement, log>>
    <2>1. fin' = [fin EXCEPT ![c] = "fin"] /\ i' \in Nat
      BY <1>2, <1>4 DEF error_taken, Next_i
    <2>2. /\ fin' \in [Conns -> {"no", "fin", "rst"}]
          /\ \A o \in Conns : fin'[o] = fin[o] \/ fin'[o] # "no"
      BY <1>2, <2>1 DEF IInv, TypeOK
    <2> QED
      BY <1>1, <1>4, <2>1, <2>2, PassIInv
  <1>5. CASE Log("closed", This.id) /\ Drop /\ UNCHANGED <<stream, fin, pc, measurement>>
    BY <1>1, <1>5, DropIInv
  <1> QED
    BY <1>2, <1>3, <1>4, <1>5 DEF recv_id

\* The value: the one whose turn it is, or the measurement is cut.
LEMMA RecvValueIInv ==
  ASSUME IInv, recv_value
  PROVE  IInv'
  <1>1. /\ pc = "value" /\ pc' = "ts" /\ Receive("value")
        /\ UNCHANGED <<now, conn, sent, times, since, read_fds, client_list, i, buffer, log>>
    BY DEF recv_value
  <1>2. PICK c \in Conns : /\ This.c = c /\ i \in Nat /\ i < Len(client_list)
                           /\ measurement.id = c
    BY <1>1, ThisFacts DEF IInv, Receiving
  <1> DEFINE b == Len(buffer[c])
  <1>3. This'.c = c
    BY <1>1, <1>2 DEF This
  <1>4. b \in Nat /\ Received(c) = 3 * b + 1 /\ ~ Torn(c)
    <2>1. b \in Nat
      BY <1>2 DEF IInv, TypeOK
    <2>2. Part(c) = 1 /\ ~ Busy(c, {"ts"})
      BY <1>1, <1>2 DEF Part, Busy
    <2> QED
      BY <1>2, <2>1, <2>2 DEF IInv, Counted, Torn, Cut, Whole
  <1>5. Busy(c, {"ts"})' /\ Part(c)' = 2
    BY <1>1, <1>3 DEF Busy, Part
  <1>6. measurement \in sensor_data
    BY DEF IInv, TypeOK
  <1>7. CASE /\ stream[c] # <<>>
             /\ measurement' = [measurement EXCEPT !["value"] = Head(stream[c])]
             /\ stream' = [stream EXCEPT ![c] = Tail(@)]
             /\ UNCHANGED fin
    <2>1. /\ Waiting' /\ stream' \in [Conns -> Seq(Field)]
          /\ Received(c)' = Received(c) + 1
          /\ IsField(c, times[c], Received(c), Head(stream[c])) /\ Head(stream[c]) \in Field
          /\ \A o \in Conns \ {c} : Received(o)' = Received(o) /\ stream'[o] = stream[o]
      BY <1>1, <1>2, <1>7, TakeField
    <2>2. Head(stream[c]) = b + 1
      BY <1>4, <2>1, FieldNumbers DEF IsField
    <2>3. measurement' \in sensor_data /\ measurement'.id = c /\ measurement'.value = b + 1
      BY <1>2, <1>6, <1>7, <2>1, <2>2 DEF sensor_data
    <2>4. Whole(c)'
      BY <1>1, <1>4, <1>5, <2>1, <2>3 DEF Whole
    <2>5. \A o \in Conns \ {c} : (Whole(o) \/ Torn(o) \/ Cut(o))'
      BY <1>1, <1>2, <1>3, <1>7, <2>1, OthersStep
    <2>6. Counted'
      BY <1>4, <2>4, <2>5 DEF Counted
    <2>7. ListIsOpen' /\ Correct' /\ Story' /\ Known'
      BY <1>1, <2>6, SameList
    <2>8. Receiving'
      BY <1>1, <1>2, <1>3, <2>3 DEF Receiving
    <2>9. TypeOK'
      BY <1>1, <1>7, <2>1, <2>3 DEF IInv, TypeOK, sensor_info
    <2> QED
      BY <2>1, <2>6, <2>7, <2>8, <2>9 DEF IInv
  <1>8. ASSUME NEW g \in Garbage, End(c), UNCHANGED stream,
               measurement' = [measurement EXCEPT !["value"] = g]
        PROVE  IInv'
    <2>1. fin[c] # "no" /\ (fin' = fin \/ fin' = [fin EXCEPT ![c] = "fin"]) /\ stream[c] = <<>>
      BY <1>2, <1>8 DEF End, error_taken
    <2>2. /\ fin' \in [Conns -> {"no", "fin", "rst"}] /\ fin'[c] # "no"
          /\ \A o \in Conns \ {c} : fin'[o] = fin[o]
      BY <1>2, <2>1 DEF IInv, TypeOK
    <2>3. measurement' \in sensor_data /\ measurement'.id = c
      BY <1>2, <1>6, <1>8, ConstAssumption DEF sensor_data, Field
    <2>4. Cut(c)'
      <3>1. sent[c] = 3 * b + 1
        BY <1>2, <1>4, <2>1 DEF Received, IInv, TypeOK
      <3> QED
        BY <1>1, <1>4, <1>5, <1>8, <2>1, <2>2, <3>1 DEF Cut, Ended
    <2>5. \A o \in Conns \ {c} : (Whole(o) \/ Torn(o) \/ Cut(o))'
      BY <1>1, <1>2, <1>3, <1>8, <2>2, OthersStep
    <2>6. Counted'
      BY <1>4, <2>4, <2>5 DEF Counted
    <2>7. ListIsOpen' /\ Correct' /\ Story' /\ Known'
      BY <1>1, <2>6, SameList
    <2>8. Receiving'
      BY <1>1, <1>2, <1>3, <2>3 DEF Receiving
    <2>9. TypeOK' /\ Waiting'
      BY <1>1, <1>8, <2>2, <2>3 DEF IInv, TypeOK, sensor_info, Waiting, IsField, Received
    <2> QED
      BY <2>6, <2>7, <2>8, <2>9 DEF IInv
  <1> QED
    BY <1>1, <1>2, <1>7, <1>8 DEF Receive

\* The time: the measurement is in the buffer now, whole or torn.
LEMMA RecvTsIInv ==
  ASSUME IInv, recv_ts
  PROVE  IInv'
  <1>1. /\ pc = "ts" /\ pc' = "for" /\ i' = i + 1 /\ Receive("ts")
        /\ UNCHANGED <<now, conn, sent, times, since, read_fds>>
    BY DEF recv_ts, Next_i
  <1>2. PICK c \in Conns : /\ This.c = c /\ i \in Nat /\ i < Len(client_list)
                           /\ i + 1 \in 1 .. Len(client_list)
                           /\ measurement.id = c /\ conn[c] = "open"
                           /\ \A k \in 1 .. Len(client_list) : client_list[k].c = c => k = i + 1
    BY <1>1, ThisFacts DEF IInv, Receiving
  <1> DEFINE N == Len(client_list)
             t == measurement'.ts
             Sent(k, x) == k \in 1 .. Len(times[c]) /\ x = times[c][k]
  <1>3. PICK b \in Nat : /\ b = Len(buffer[c]) /\ buffer[c] \in Seq(sensor_data)
                         /\ measurement \in sensor_data
                         /\ sent[c] \in Nat /\ stream[c] \in Seq(Field) /\ times[c] \in Seq(Int)
    BY DEF IInv, TypeOK
  <1>4. Busy(c, {"ts"}) /\ Part(c) = 2 /\ ~ Torn(c)
    BY <1>1, <1>2 DEF Busy, Part, Torn
  <1>5. Part(c)' = 0 /\ ~ Busy(c, {"ts"})'
    BY <1>1 DEF Part, Busy
  <1>6. /\ Waiting' /\ stream' \in [Conns -> Seq(Field)]
        /\ fin' \in [Conns -> {"no", "fin", "rst"}]
        /\ \A o \in Conns \ {c} : fin'[o] = fin[o] /\ stream'[o] = stream[o]
        /\ measurement' \in sensor_data /\ measurement'.id = c /\ t \in Int
        /\ \/ /\ Received(c)' = 3 * (b + 1) /\ 3 * (b + 1) <= sent[c]
              /\ measurement'.value = b + 1 /\ Sent(b + 1, t)
           \/ Ended(c, b + 1)'
    <2>1. CASE /\ stream[c] # <<>>
               /\ measurement' = [measurement EXCEPT !["ts"] = Head(stream[c])]
               /\ stream' = [stream EXCEPT ![c] = Tail(@)]
               /\ UNCHANGED fin
      <3>1. /\ Waiting' /\ stream' \in [Conns -> Seq(Field)]
            /\ Received(c)' = Received(c) + 1 /\ Received(c) < sent[c]
            /\ IsField(c, times[c], Received(c), Head(stream[c])) /\ Head(stream[c]) \in Field
            /\ \A o \in Conns \ {c} : Received(o)' = Received(o) /\ stream'[o] = stream[o]
        BY <1>1, <1>2, <2>1, TakeField
      <3>2. Received(c) = 3 * b + 2 /\ measurement.value = b + 1
        BY <1>3, <1>4, <2>1 DEF IInv, Counted, Cut, Ended, Whole
      <3>3. Sent(b + 1, Head(stream[c])) /\ Head(stream[c]) \in Int
        <4>1. (3 * b + 2) % 3 = 2 /\ (3 * b + 2) \div 3 = b
          BY <1>3, FieldNumbers
        <4>2. Sent(b + 1, Head(stream[c]))
          BY <3>1, <3>2, <4>1 DEF IsField
        <4> QED
          BY <1>3, <4>2
      <3>4. /\ measurement' \in sensor_data /\ measurement'.id = c
            /\ measurement'.value = b + 1 /\ t \in Int /\ Sent(b + 1, t)
        BY <1>2, <1>3, <2>1, <3>1, <3>2, <3>3 DEF sensor_data
      <3>5. fin' \in [Conns -> {"no", "fin", "rst"}]
        BY <2>1 DEF IInv, TypeOK
      <3> QED
        BY <1>3, <2>1, <3>1, <3>2, <3>4, <3>5
    <2>2. ASSUME NEW g \in Garbage, End(c), UNCHANGED stream,
                 measurement' = [measurement EXCEPT !["ts"] = g]
          PROVE  /\ Waiting' /\ stream' \in [Conns -> Seq(Field)]
                 /\ fin' \in [Conns -> {"no", "fin", "rst"}]
                 /\ \A o \in Conns \ {c} : fin'[o] = fin[o] /\ stream'[o] = stream[o]
                 /\ measurement' \in sensor_data /\ measurement'.id = c /\ t \in Int
                 /\ Ended(c, b + 1)'
      <3>1. fin[c] # "no" /\ (fin' = fin \/ fin' = [fin EXCEPT ![c] = "fin"]) /\ stream[c] = <<>>
        BY <1>2, <2>2 DEF End, error_taken
      <3>2. /\ fin' \in [Conns -> {"no", "fin", "rst"}] /\ fin'[c] # "no"
            /\ \A o \in Conns \ {c} : fin'[o] = fin[o]
        BY <3>1 DEF IInv, TypeOK
      <3>3. measurement' \in sensor_data /\ measurement'.id = c /\ t \in Int
        <4>1. g \in Field /\ g \in Int
          BY ConstAssumption DEF Field
        <4> QED
          BY <1>2, <1>3, <2>2, <4>1 DEF sensor_data
      <3>4. 3 * b < sent[c] /\ sent[c] < 3 * (b + 1)
        <4>1. CASE Whole(c)
          BY <1>3, <1>4, <3>1, <4>1 DEF Whole, Received
        <4>2. CASE Cut(c)
          BY <1>3, <4>2 DEF Cut, Ended
        <4> QED
          BY <1>4, <4>1, <4>2 DEF IInv, Counted
      <3>5. Ended(c, b + 1)'
        BY <1>1, <1>3, <2>2, <3>1, <3>2, <3>4 DEF Ended
      <3>6. Waiting' /\ stream' \in [Conns -> Seq(Field)]
        BY <1>1, <2>2 DEF IInv, TypeOK, Waiting, IsField, Received
      <3> QED
        BY <1>3, <2>2, <3>2, <3>3, <3>5, <3>6
    <2> QED
      BY <1>1, <1>2, <2>1, <2>2 DEF Receive
  <1>7. /\ buffer' \in [Conns -> Seq(sensor_data)]
        /\ \A o \in Conns \ {c} : buffer'[o] = buffer[o]
        /\ Len(buffer'[c]) = b + 1 /\ buffer'[c][b + 1] = measurement' /\ buffer'[c] # <<>>
        /\ \A k \in 1 .. b : buffer'[c][k] = buffer[c][k]
    <2> DEFINE m == measurement'
    <2>1. buffer' = [buffer EXCEPT ![c] = Append(buffer[c], m)] /\ m \in sensor_data
      BY <1>2, <1>6 DEF recv_ts
    <2> HIDE DEF m
    <2>2. /\ buffer' \in [Conns -> Seq(sensor_data)] /\ buffer'[c] = Append(buffer[c], m)
          /\ \A o \in Conns \ {c} : buffer'[o] = buffer[o]
      BY <1>3, <2>1 DEF IInv, TypeOK
    <2>3. /\ Len(Append(buffer[c], m)) = b + 1 /\ Append(buffer[c], m)[b + 1] = m
          /\ \A k \in 1 .. b : Append(buffer[c], m)[k] = buffer[c][k]
      BY <1>3, <2>1
    <2>4. buffer'[c] # <<>>
      <3>1. Append(buffer[c], m) # <<>>
        BY <1>3, <2>1
      <3> QED
        BY <2>2, <3>1
    <2> QED
      BY <2>2, <2>3, <2>4 DEF m
  <1>8. /\ This.ts = LastTime(buffer[c]) /\ (buffer[c] = <<>> => This.ts = 0)
        /\ buffer[c] # <<>> => This.id = c
    BY <1>2 DEF IInv, Known, This, LastTime
  <1>9. /\ client_list' \in Seq(sensor_info) /\ Len(client_list') = N
        /\ client_list'[i + 1] = [c |-> c, ts |-> t, id |-> c]
        /\ \A k \in 1 .. N : k # i + 1 => client_list'[k] = client_list[k]
    <2> DEFINE e == [c |-> c, ts |-> t, id |-> c]
    <2>1. client_list \in Seq(sensor_info) /\ e \in sensor_info
      BY <1>6 DEF IInv, TypeOK, sensor_info
    <2>2. client_list' = [client_list EXCEPT ![i + 1] = e]
      <3>1. client_list' =
              [client_list EXCEPT ![i + 1] =
                 [c |-> This.c, ts |-> t, id |-> IF This.ts = 0 THEN measurement.id ELSE This.id]]
        BY DEF recv_ts
      <3>2. This.c = c /\ (IF This.ts = 0 THEN measurement.id ELSE This.id) = c
        BY <1>2, <1>8
      <3> QED
        BY <3>1, <3>2
    <2> HIDE DEF e
    <2>3. /\ client_list' \in Seq(sensor_info) /\ Len(client_list') = N
          /\ client_list'[i + 1] = e
          /\ \A k \in 1 .. N : k # i + 1 => client_list'[k] = client_list[k]
      BY <1>2, <2>1, <2>2
    <2> QED
      BY <2>3 DEF e
  <1> DEFINE n == Cardinality(Openings(buffer[c]))
             m == Cardinality(Openings(buffer'[c]))
  <1>10. /\ log' \in [Conns -> Seq(Event)]
         /\ m \in Nat /\ Len(log'[c]) = m /\ \A k \in 1 .. m : log'[c][k] = Opened(c)
         /\ \A o \in Conns \ {c} : log'[o] = log[o]
    <2>1. log \in [Conns -> Seq(Event)] /\ Opened(c) \in Event
      BY DEF IInv, TypeOK, Event, Opened
    <2>2. Len(log[c]) = n /\ \A k \in 1 .. n : log[c][k] = Opened(c)
      BY <1>2 DEF IInv, Story
    <2>3. n \in Nat /\ m = n + IF This.ts = 0 THEN 1 ELSE 0
      <3>1. buffer'[c] = Append(buffer[c], measurement')
        BY <1>2 DEF recv_ts, IInv, TypeOK
      <3>2. IsGrown(buffer[c], measurement')
        BY <1>3, <1>6, OpeningsGrow
      <3> QED
        BY <1>8, <3>1, <3>2 DEF IsGrown
    <2> HIDE DEF n, m
    <2>4. CASE This.ts = 0
      <3>1. log' = [log EXCEPT ![c] = Append(log[c], Opened(c))]
        BY <1>2, <2>4 DEF recv_ts, Log, Opened
      <3>2. /\ Append(log[c], Opened(c)) \in Seq(Event) /\ Len(Append(log[c], Opened(c))) = n + 1
            /\ Append(log[c], Opened(c))[n + 1] = Opened(c)
            /\ \A k \in 1 .. n : Append(log[c], Opened(c))[k] = log[c][k]
        BY <2>1, <2>2
      <3>3. \A k \in 1 .. n + 1 : k \in 1 .. n \/ k = n + 1
        BY <2>3
      <3>4. /\ log' \in [Conns -> Seq(Event)] /\ log'[c] = Append(log[c], Opened(c))
            /\ \A o \in Conns \ {c} : log'[o] = log[o]
        BY <2>1, <3>1, <3>2
      <3> QED
        BY <2>2, <2>3, <2>4, <3>2, <3>3, <3>4
    <2>5. CASE This.ts # 0
      <3>1. log' = log
        BY <1>2, <2>5 DEF recv_ts
      <3> QED
        BY <2>1, <2>2, <2>3, <2>5, <3>1
    <2> QED
      BY <2>4, <2>5
  <1> HIDE DEF n
  <1>11. TypeOK'
    BY <1>1, <1>2, <1>6, <1>7, <1>9, <1>10 DEF IInv, TypeOK
  <1>12. Whole(c)' \/ Torn(c)'
    BY <1>3, <1>5, <1>6, <1>7 DEF Whole, Torn
  <1>13. \A o \in Conns \ {c} : (Whole(o) \/ Torn(o) \/ Cut(o))'
    BY <1>1, <1>2, <1>6, <1>7, OthersStep
  <1>14. Counted' /\ Receiving'
    BY <1>1, <1>12, <1>13 DEF Counted, Receiving
  <1>15. Correct'
    <2>1. \A k \in 1 .. b + 1 :
            /\ buffer'[c][k].id = c
            /\ 3 * k <= sent[c] => buffer'[c][k].value = k /\ Sent(k, buffer'[c][k].ts)
      <3>1. 3 * (b + 1) <= sent[c] => measurement'.value = b + 1 /\ Sent(b + 1, t)
        BY <1>1, <1>3, <1>6 DEF Ended
      <3>2. \A k \in 1 .. b :
              /\ buffer[c][k].id = c
              /\ 3 * k <= sent[c] => buffer[c][k].value = k /\ Sent(k, buffer[c][k].ts)
        BY <1>3 DEF IInv, Correct
      <3>3. \A k \in 1 .. b + 1 : k \in 1 .. b \/ k = b + 1
        OBVIOUS
      <3> QED
        BY <1>6, <1>7, <3>1, <3>2, <3>3
    <2> QED
      BY <1>1, <1>7, <2>1 DEF IInv, Correct
  <1>16. ListIsOpen'
    <2>1. DOMAIN client_list' = 1 .. N /\ DOMAIN client_list = 1 .. N
      BY <1>9, ClientFacts DEF IInv
    <2>2. \A k \in 1 .. N : client_list'[k].c = client_list[k].c
      BY <1>2, <1>9 DEF This
    <2>3. Clients' = Clients
      BY <2>1, <2>2 DEF Clients
    <2> QED
      BY <1>1, <2>1, <2>2, <2>3 DEF IInv, ListIsOpen
  <1>17. Story'
    <2>1. ASSUME NEW o \in Conns
          PROVE  LET no == Cardinality(Openings(buffer'[o]))
                 IN  /\ \A k \in 1 .. no : log'[o][k] = Opened(o)
                     /\ \/ Len(log'[o]) = no
                        \/ /\ Len(log'[o]) = no + 1 /\ log'[o][no + 1] = Closed(o)'
                           /\ conn'[o] = "closed"
      <3>1. CASE o = c
        BY <1>10, <3>1
      <3>2. CASE o # c
        <4>1. buffer'[o] = buffer[o] /\ log'[o] = log[o] /\ conn'[o] = conn[o]
          BY <1>1, <1>7, <1>10, <3>2
        <4> QED
          BY <4>1 DEF IInv, Story, Closed
      <3> QED
        BY <3>1, <3>2
    <2> QED
      BY <2>1 DEF Story, Opened
  <1>18. Known'
    <2>1. \A o \in Conns : conn'[o] \in {"none", "pending"} => buffer'[o] = <<>>
      BY <1>1, <1>2, <1>7 DEF IInv, Known
    <2>2. ASSUME NEW k \in 1 .. N, NEW o \in Conns, client_list'[k].c = o
          PROVE  /\ client_list'[k].id = IF buffer'[o] = <<>> THEN 0 ELSE o
                 /\ client_list'[k].ts = LastTime(buffer'[o])
      <3>1. CASE k = i + 1
        <4>1. LastTime(buffer'[c]) = t
          BY <1>7 DEF LastTime
        <4> QED
          BY <1>7, <1>9, <2>2, <3>1, <4>1
      <3>2. CASE k # i + 1
        <4>1. client_list'[k] = client_list[k] /\ o # c
          BY <1>2, <1>9, <2>2, <3>2
        <4> QED
          BY <1>7, <2>2, <4>1 DEF IInv, Known
      <3> QED
        BY <3>1, <3>2
    <2>3. \A k \in 1 .. N : client_list'[k].c \in Conns
      <3>1. \A k \in 1 .. N : client_list[k].c \in Conns
        BY ClientFacts DEF IInv
      <3> QED
        BY <1>9, <3>1
    <2> QED
      BY <1>9, <2>1, <2>2, <2>3 DEF Known
  <1> QED
    BY <1>6, <1>11, <1>14, <1>15, <1>16, <1>17, <1>18 DEF IInv
-----------------------------------------------------------------------------
LEMMA NextIInv == IInv /\ [Next]_vars => IInv'
  <1> SUFFICES ASSUME IInv, [Next]_vars PROVE IInv'
    OBVIOUS
  <1>1. CASE UNCHANGED vars
    <2>1. UNCHANGED <<now, conn, stream, fin, sent, times, pc, since, read_fds, client_list, i,
                      measurement, buffer, log>>
      BY <1>1 DEF vars, network
    <2>2. /\ TypeOK' /\ ListIsOpen' /\ Waiting' /\ Receiving' /\ Correct' /\ Story'
      <3>1. TypeOK'
        BY <2>1 DEF IInv, TypeOK, sensor_info
      <3>2. ListIsOpen' /\ Receiving'
        BY <2>1 DEF IInv, ListIsOpen, Clients, Receiving, This
      <3>3. Waiting' /\ Correct'
        BY <2>1 DEF IInv, Waiting, IsField, Received, Correct
      <3>4. Story'
        BY <2>1 DEF IInv, Story, Opened, Closed
      <3> QED
        BY <3>1, <3>2, <3>3, <3>4
    <2>3. \A c \in Conns : Torn(c)' = Torn(c) /\ Cut(c)' = Cut(c) /\ Whole(c)' = Whole(c)
      BY <2>1 DEF Torn, Cut, Whole, Ended, Part, Busy, This, Received
    <2>4. Counted' /\ Known'
      BY <2>1, <2>3 DEF IInv, Counted, Known
    <2> QED
      BY <2>2, <2>4 DEF IInv
  <1> QED
    BY <1>1, TickIInv, ConnectIInv, SendIInv, EndIInv, ActivityIInv, TimeoutIInv, RecvIdIInv,
       RecvValueIInv, RecvTsIInv, CheckTimeoutIInv, ForEndIInv
    DEF Next, GatewayStep, Done

LEMMA Invariance == Spec => []IInv
  BY InitIInv, NextIInv, PTL DEF Spec

\* TypeOK: the variables of connmgr_listen keep their types: a client that is
\* dropped never takes the loop index below 0.
THEOREM TypeCorrect == Spec => []TypeOK
  <1>1. IInv => TypeOK
    BY DEF IInv
  <1> QED
    BY <1>1, Invariance, PTL

\* ListIsOpen: whatever is accepted, dropped and skipped in the middle of a
\* pass, the list holds the open connections, each of them once.
THEOREM ListHoldsOpen == Spec => []ListIsOpen
  <1>1. IInv => ListIsOpen
    BY DEF IInv
  <1> QED
    BY <1>1, Invariance, PTL

\* Captured: the shared buffer is given the measurements of a sensor in order,
\* whole and under its id, except for a last one that the sensor tore.
THEOREM MeasurementsCaptured == Spec => []Captured
  <1>1. IInv => Captured
    <2> SUFFICES ASSUME IInv, NEW c \in Conns
                 PROVE  /\ \A k \in DOMAIN buffer[c] :
                             /\ buffer[c][k].id = c
                             /\ 3 * k <= sent[c] =>
                                  buffer[c][k].value = k /\ buffer[c][k].ts = times[c][k]
                        /\ 3 * (Len(buffer[c]) - 1) <= sent[c]
                        /\ 3 * Len(buffer[c]) > sent[c] => fin[c] # "no" /\ sent[c] % 3 # 0
      BY DEF Captured
    <2> DEFINE b == Len(buffer[c])
    <2>1. /\ b \in Nat /\ DOMAIN buffer[c] = 1 .. b /\ sent[c] \in Nat
          /\ Len(stream[c]) \in Nat /\ Part(c) \in Nat
      BY DEF IInv, TypeOK, Part
    <2>2. \A k \in DOMAIN buffer[c] :
            /\ buffer[c][k].id = c
            /\ 3 * k <= sent[c] => buffer[c][k].value = k /\ buffer[c][k].ts = times[c][k]
      BY <2>1 DEF IInv, Correct
    <2>3. CASE Whole(c)
      BY <2>1, <2>2, <2>3 DEF Whole, Received
    <2>4. CASE Torn(c)
      <3>1. 3 * b - 3 < sent[c] /\ sent[c] < 3 * b /\ fin[c] # "no"
        BY <2>4 DEF Torn, Ended
      <3> QED
        BY <2>1, <2>2, <3>1
    <2>5. CASE Cut(c)
      <3>1. 3 * (b + 1) - 3 < sent[c]
        BY <2>5 DEF Cut, Ended
      <3> QED
        BY <2>1, <2>2, <3>1
    <2> QED
      BY <2>3, <2>4, <2>5 DEF IInv, Counted
  <1> QED
    BY <1>1, Invariance, PTL

\* LogStory: a connection that gives measurements is logged as opened with the
\* first of them, again after each one with the time 0, and as closed at most
\* once and last, always under the id of its sensor.
THEOREM LogTellsConnections == Spec => []LogStory
  <1>1. IInv => LogStory
    <2> SUFFICES ASSUME IInv, NEW c \in Conns, buffer[c] # <<>>
                 PROVE  LET n == Cardinality(Openings(buffer[c]))
                        IN  /\ Len(log[c]) \in {n, n + 1}
                            /\ \A k \in 1 .. n : log[c][k] = [kind |-> "opened", id |-> c]
                            /\ Len(log[c]) = n + 1 =>
                                 /\ log[c][n + 1] = [kind |-> "closed", id |-> c]
                                 /\ conn[c] = "closed"
      BY DEF LogStory
    <2>1. Cardinality(Openings(buffer[c])) \in Nat
      BY OpeningsNat DEF IInv, TypeOK
    <2> QED
      BY <2>1 DEF IInv, Story, Opened, Closed
  <1> QED
    BY <1>1, Invariance, PTL
=============================================================================
