------------------------------ MODULE ConnMgr -------------------------------
(***************************************************************************)
(* The connection manager (connmgr_listen in connmgr.c): one thread that   *)
(* serves all sensor connections with select.                              *)
(*                                                                         *)
(* A sensor sends each measurement as three fields: id, value, timestamp.  *)
(* The timestamp is the sensor's own: it may be 0, old or ahead of us.     *)
(* One pass of the loop takes a snapshot of the readable connections       *)
(* (select), accepts at most one new connection, and visits the clients by *)
(* index: a readable client gives a measurement or is found closed, and a  *)
(* silent one is dropped after TIMEOUT.  The two receives that follow the  *)
(* id wait for this one sensor.  Sensors, the network and the clock run    *)
(* all the while.  TCP is external: a byte stream per connection, in order,*)
(* ended by the sensor's close; each receive gets one whole field.  After  *)
(* a reset one receive fails (ECONNRESET), the next ones find the end.     *)
(***************************************************************************)
EXTENDS Integers, FiniteSets, Sequences, SequencesExt

CONSTANTS
  Conns,      \* the connections that sensors open
  TIMEOUT,    \* seconds
  MaxMeas,    \* bound: measurements of all sensors together
  MaxTime,    \* bound: seconds
  Times,      \* the timestamps that sensors send
  Garbage,    \* what malloc may leave in the value or the time
  Faults      \* what may happen to sensors: a subset of {"torn", "reset"}

\* torn: a sensor may close in the middle of a measurement;
\* reset: a connection may be reset, by a sensor that crashed and restarted.

ASSUME ConstAssumption ==
  /\ TIMEOUT \in Nat \ {0} /\ MaxMeas \in Nat /\ MaxTime \in Nat \ {0}
  /\ Times \subseteq Int /\ Times # {} /\ Garbage \subseteq Int
  /\ Faults \subseteq {"torn", "reset"}

VARIABLES
  now,          \* time(NULL)
  conn,         \* "none", "pending" in the backlog, "open", "closed" by us
  stream,       \* the fields sent and not yet received
  fin,          \* the end of the stream: "no", "fin" (closed) or "rst" (reset)
  sent,         \* fields sent so far: three for each measurement
  times,        \* history: the timestamps sent, one for each measurement
  pc,           \* "select", "for", "value", "ts" or "done"
  since,        \* when the thread entered select
  read_fds,     \* the readable clients, as select answered
  client_list,  \* dplist of sensor_info: connection, ts and id
  i,            \* index of the for loop, from 0
  measurement,  \* the local being received
  buffer,       \* history: what sbuffer_insert was given, by connection
  log           \* history: the log-events, by connection

network == <<conn, stream, fin, sent, times>>
vars == <<now, network, pc, since, read_fds, client_list, i, measurement, buffer,
          log>>

None == [id |-> 0, value |-> 0, ts |-> 0]

Init ==
  /\ now = 1
  /\ conn = [c \in Conns |-> "none"]
  /\ stream = [c \in Conns |-> <<>>]
  /\ fin = [c \in Conns |-> "no"]
  /\ sent = [c \in Conns |-> 0]
  /\ times = [c \in Conns |-> <<>>]
  /\ pc = "select"
  /\ since = 1
  /\ read_fds = {}
  /\ client_list = <<>>
  /\ i = 0
  /\ measurement = None
  /\ buffer = [c \in Conns |-> <<>>]
  /\ log = [c \in Conns |-> <<>>]
-----------------------------------------------------------------------------
(* The environment.                                                        *)

Tick ==
  /\ now < MaxTime
  /\ pc # "done"
  /\ now' = now + 1
  /\ UNCHANGED <<network, pc, since, read_fds, client_list, i, measurement,
                 buffer, log>>

\* connmgr_listen still runs, and a step of a sensor leaves it alone.
Quiet ==
  /\ pc # "done"
  /\ UNCHANGED <<now, pc, since, read_fds, client_list, i, measurement, buffer,
                 log>>

sensor_connect(c) ==
  /\ conn[c] = "none"
  /\ conn' = [conn EXCEPT ![c] = "pending"]
  /\ Quiet
  /\ UNCHANGED <<stream, fin, sent, times>>

\* What connection c can send next: its id (the connection stands for it),
\* then the value (numbered from 1), then some time.
NextField(c) ==
  CASE sent[c] % 3 = 0 -> {c}
    [] sent[c] % 3 = 1 -> {sent[c] \div 3 + 1}
    [] sent[c] % 3 = 2 -> Times

\* How many measurements have been begun.
Begun == MapThenSumSet(LAMBDA c : (sent[c] + 2) \div 3, Conns)

sensor_send(c) ==
  /\ conn[c] \in {"pending", "open"}
  /\ fin[c] = "no"
  /\ sent[c] % 3 # 0 \/ Begun < MaxMeas
  /\ \E x \in NextField(c) :
       /\ stream' = [stream EXCEPT ![c] = Append(@, x)]
       /\ times' = IF sent[c] % 3 = 2 THEN [times EXCEPT ![c] = Append(@, x)] ELSE times
  /\ sent' = [sent EXCEPT ![c] = @ + 1]
  /\ Quiet
  /\ UNCHANGED <<conn, fin>>

\* A sensor closes between two measurements or, if it crashes, anywhere.
sensor_close(c) ==
  /\ conn[c] \in {"pending", "open"}
  /\ fin[c] = "no"
  /\ sent[c] % 3 = 0 \/ "torn" \in Faults
  /\ fin' = [fin EXCEPT ![c] = "fin"]
  /\ Quiet
  /\ UNCHANGED <<conn, stream, sent, times>>

\* What was received before the reset stays readable.
sensor_reset(c) ==
  /\ "reset" \in Faults
  /\ conn[c] \in {"pending", "open"}
  /\ fin[c] = "no"
  /\ fin' = [fin EXCEPT ![c] = "rst"]
  /\ Quiet
  /\ UNCHANGED <<conn, stream, sent, times>>
-----------------------------------------------------------------------------
(* connmgr_listen.                                                         *)

Clients == {client_list[k].c : k \in DOMAIN client_list}

\* Mutant: the loop that fills the set for select misses the last client.
Readable_but_last ==
  {client_list[k].c : k \in {j \in DOMAIN client_list :
      /\ j < Len(client_list)
      /\ stream[client_list[j].c] # <<>> \/ fin[client_list[j].c] # "no"}}

\* A socket is readable when data or the end of the stream is waiting.
Readable == {c \in Clients : stream[c] # <<>> \/ fin[c] # "no"}
Pending  == {c \in Conns : conn[c] = "pending"}

\* select returns a positive number: the readable clients are remembered and,
\* if the listener is readable, one connection is accepted.
select_activity ==
  /\ pc = "select"
  /\ Readable \cup Pending # {}
  /\ read_fds' = Readable
  /\ \/ /\ Pending = {}
        /\ UNCHANGED <<conn, client_list>>
     \/ \E c \in Pending :
          /\ conn' = [conn EXCEPT ![c] = "open"]
          /\ client_list' = Append(client_list, [c |-> c, ts |-> 0, id |-> 0])
  /\ pc' = "for"
  /\ i' = 0
  /\ UNCHANGED <<now, stream, fin, sent, times, since, measurement, buffer, log>>

\* select returns 0: leave the loop, close the listener, free the list.  The
\* sockets of the clients stay open until the process ends.
select_timeout ==
  /\ pc = "select"
  /\ Readable \cup Pending = {}
  /\ now - since >= TIMEOUT
  /\ pc' = "done"
  /\ client_list' = <<>>
  /\ UNCHANGED <<now, network, since, read_fds, i, measurement, buffer, log>>

This == client_list[i + 1]

Next_i == i' = i + 1

\* Mutant: the first client leaves the list, not the one that was closed.
Drop_front ==
  /\ conn' = [conn EXCEPT ![This.c] = "closed"]
  /\ client_list' = Tail(client_list)
  /\ Next_i

\* Mutant: the index steps back after a removal, once too often.
Drop_step_back ==
  /\ conn' = [conn EXCEPT ![This.c] = "closed"]
  /\ client_list' = RemoveAt(client_list, i + 1)
  /\ i' = i - 1

\* tcp_close and dpl_remove_at_index: the clients behind move up by one, the
\* index moves on, and the next client is not visited in this pass.
Drop ==
  /\ conn' = [conn EXCEPT ![This.c] = "closed"]
  /\ client_list' = RemoveAt(client_list, i + 1)
  /\ Next_i

\* A log-event about this client.
Log(kind, id) == log' = [log EXCEPT ![This.c] = Append(@, [kind |-> kind, id |-> id])]

\* A receive that finds a reset fails once and clears the error.
error_taken == fin' = [fin EXCEPT ![This.c] = "fin"]

\* A readable client: receive the id, or find the connection closed.  When the
\* receive fails otherwise (TCP_SOCKOP_ERROR) the client stays for this pass.
recv_id ==
  /\ pc = "for" /\ i < Len(client_list)
  /\ This.c \in read_fds
  /\ \/ /\ stream[This.c] # <<>>
        /\ measurement' = [None EXCEPT !.id = Head(stream[This.c])]
        /\ stream' = [stream EXCEPT ![This.c] = Tail(@)]
        /\ pc' = "value"
        /\ UNCHANGED <<conn, fin, client_list, i, log>>
     \/ /\ stream[This.c] = <<>> /\ fin[This.c] = "rst"
        /\ error_taken
        /\ Next_i
        /\ UNCHANGED <<conn, stream, pc, client_list, measurement, log>>
     \/ /\ stream[This.c] = <<>> /\ fin[This.c] = "fin"
        /\ Log("closed", This.id)
        /\ Drop
        /\ UNCHANGED <<stream, fin, pc, measurement>>
  /\ UNCHANGED <<now, sent, times, since, read_fds, buffer>>

\* Mutant: a receive that finds nothing does not wait.
End_no_wait(c) == stream[c] = <<>> /\ UNCHANGED fin

\* There is nothing more to receive: the stream has ended or is reset.
End(c) ==
  /\ stream[c] = <<>>
  /\ \/ fin[c] = "fin" /\ UNCHANGED fin
     \/ fin[c] = "rst" /\ error_taken

\* Receive the next field of the measurement, whatever the result: at the end
\* of the stream the field keeps what malloc left in it.
Receive(field) ==
  LET c == This.c
  IN  \/ /\ stream[c] # <<>>
         /\ measurement' = [measurement EXCEPT ![field] = Head(stream[c])]
         /\ stream' = [stream EXCEPT ![c] = Tail(@)]
         /\ UNCHANGED fin
      \/ /\ End(c)
         /\ \E g \in Garbage : measurement' = [measurement EXCEPT ![field] = g]
         /\ UNCHANGED stream

recv_value ==
  /\ pc = "value"
  /\ Receive("value")
  /\ pc' = "ts"
  /\ UNCHANGED <<now, conn, sent, times, since, read_fds, client_list, i, buffer, log>>

\* Mutant: the time of the last measurement is not kept.
recv_ts_forget ==
  /\ pc = "ts"
  /\ Receive("ts")
  /\ IF This.ts = 0 THEN Log("opened", measurement.id) ELSE UNCHANGED log
  /\ client_list' = [client_list EXCEPT ![i + 1].id = measurement.id]
  /\ buffer' = [buffer EXCEPT ![This.c] = Append(@, measurement')]
  /\ Next_i
  /\ pc' = "for"
  /\ UNCHANGED <<now, conn, sent, times, since, read_fds>>

\* The measurement is complete: on the first one, and on any that follows one
\* with the time 0, the client gets its id and "opened" is logged; remember
\* the time; insert into the shared buffer.
recv_ts ==
  /\ pc = "ts"
  /\ Receive("ts")
  /\ LET new == This.ts = 0
     IN  /\ IF new THEN Log("opened", measurement.id) ELSE UNCHANGED log
         /\ client_list' =
              [client_list EXCEPT ![i + 1] = [c  |-> This.c, ts |-> measurement'.ts,
                                              id |-> IF new THEN measurement.id ELSE This.id]]
  /\ buffer' = [buffer EXCEPT ![This.c] = Append(@, measurement')]
  /\ Next_i
  /\ pc' = "for"
  /\ UNCHANGED <<now, conn, sent, times, since, read_fds>>

\* A client that is not in the snapshot: drop it if the time in its last
\* measurement is too old, even if a newer one has arrived since the snapshot.
check_timeout ==
  /\ pc = "for" /\ i < Len(client_list)
  /\ This.c \notin read_fds
  /\ \/ /\ now - This.ts >= TIMEOUT /\ This.ts # 0
        /\ Drop
     \/ /\ now - This.ts < TIMEOUT \/ This.ts = 0
        /\ Next_i
        /\ UNCHANGED <<conn, client_list>>
  /\ UNCHANGED <<now, stream, fin, sent, times, pc, since, read_fds, measurement,
                 buffer, log>>

\* Mutant: the visit of the clients starts over instead of asking select.
for_end_stale ==
  /\ pc = "for" /\ i >= Len(client_list)
  /\ i' = 0
  /\ UNCHANGED <<now, network, pc, since, read_fds, client_list, measurement,
                 buffer, log>>

\* The end of the for loop, and back into select.
for_end ==
  /\ pc = "for" /\ i >= Len(client_list)
  /\ pc' = "select"
  /\ since' = now
  /\ read_fds' = {}
  /\ i' = 0
  /\ measurement' = None
  /\ UNCHANGED <<now, network, client_list, buffer, log>>

GatewayStep ==
  \/ select_activity
  \/ select_timeout
  \/ recv_id
  \/ recv_value
  \/ recv_ts
  \/ check_timeout
  \/ for_end

\* connmgr_listen has returned, or waits in select for a second that lies
\* beyond the bound of the clock.
Done ==
  /\ pc = "done" \/ (pc = "select" /\ now = MaxTime)
  /\ UNCHANGED vars

Next ==
  \/ GatewayStep
  \/ \E c \in Conns :
       sensor_connect(c) \/ sensor_send(c) \/ sensor_close(c) \/ sensor_reset(c)
  \/ Tick
  \/ Done

Spec == Init /\ [][Next]_vars

(***************************************************************************)
(* The thread runs when it can, and a sensor that has begun a measurement  *)
(* goes on to send it (it sends the three fields in a row) or closes.      *)
(* Nothing is assumed about when sensors connect, measure or leave.        *)
(***************************************************************************)
FairSpec ==
  /\ Spec
  /\ WF_vars(GatewayStep)
  /\ \A c \in Conns : WF_vars(sensor_send(c) /\ sent[c] % 3 # 0)
-----------------------------------------------------------------------------
Field == Conns \cup Int

\* The structures, and a log-event.
sensor_info == [c : Conns, ts : Int, id : Conns \cup {0}]
sensor_data == [id : Field, value : Field, ts : Field]
Event       == [kind : {"opened", "closed"}, id : Conns \cup {0}]

\* The types of the variables.
TypeOK ==
  /\ now \in 1 .. MaxTime /\ since \in 1 .. now
  /\ conn \in [Conns -> {"none", "pending", "open", "closed"}]
  /\ fin \in [Conns -> {"no", "fin", "rst"}]
  /\ stream \in [Conns -> Seq(Field)]
  /\ sent \in [Conns -> Nat]
  /\ times \in [Conns -> Seq(Int)]
  /\ pc \in {"select", "for", "value", "ts", "done"}
  /\ read_fds \subseteq Conns
  /\ i \in Nat
  /\ client_list \in Seq(sensor_info)
  /\ measurement \in sensor_data
  /\ buffer \in [Conns -> Seq(sensor_data)]
  /\ log \in [Conns -> Seq(Event)]

\* What is inserted into the shared buffer through a connection are the
\* sensor's measurements 1, 2, 3, ..., each whole, with its own time and id:
\* dropping a client in the middle of the loop, and visiting clients by index after it,
\* never mixes two connections up.  A sensor that leaves in the middle of a
\* measurement adds at most this one, incomplete, under its own id.
Captured ==
  \A c \in Conns :
    /\ \A k \in DOMAIN buffer[c] :
         LET m == buffer[c][k]
         IN  /\ m.id = c
             /\ 3 * k <= sent[c] => m.value = k /\ m.ts = times[c][k]
    /\ 3 * (Len(buffer[c]) - 1) <= sent[c]
    /\ 3 * Len(buffer[c]) > sent[c] => fin[c] # "no" /\ sent[c] % 3 # 0

\* Only whole measurements get into the shared buffer.  Does NOT hold: the
\* results of the receives of the value and the time are not looked at.
OnlyWhole == \A c \in Conns : 3 * Len(buffer[c]) <= sent[c]

\* The list holds exactly the open connections, each of them once.
ListIsOpen ==
  pc # "done" =>
    /\ Clients = {c \in Conns : conn[c] = "open"}
    /\ \A k, l \in DOMAIN client_list : client_list[k].c = client_list[l].c => k = l

\* The log tells the story of a connection that gives measurements: "opened"
\* with the first of them, and again with each that finds the time 0 stored
\* (connmgr.c:191), and then at most one "closed", the last there is, when the
\* connection is closed; all of them under the sensor's id.  With sensors that
\* never send the time 0 this is one "opened", as Req 9.1a has it.  Nothing is
\* said of a connection without a measurement: its end is logged under id 0.
Openings(ms) == {k \in DOMAIN ms : k = 1 \/ ms[k - 1].ts = 0}
LogStory ==
  \A c \in Conns : buffer[c] # <<>> =>
    LET n == Cardinality(Openings(buffer[c]))
    IN  /\ Len(log[c]) \in {n, n + 1}
        /\ \A k \in 1 .. n : log[c][k] = [kind |-> "opened", id |-> c]
        /\ Len(log[c]) = n + 1 => /\ log[c][n + 1] = [kind |-> "closed", id |-> c]
                                  /\ conn[c] = "closed"

\* Every measurement a sensor has sent gets into the shared buffer, unless the
\* gateway drops the sensor or stops: the client that is skipped after a
\* removal is served in the next pass.
EventuallyCaptured ==
  \A c \in Conns, k \in 1 .. MaxMeas :
    sent[c] >= 3 * k ~> (Len(buffer[c]) >= k \/ conn[c] = "closed" \/ pc = "done")

\* A connection that its sensor closed leaves the list.
EventuallyLeft ==
  \A c \in Conns : fin[c] # "no" ~> (conn[c] = "closed" \/ pc = "done")
=============================================================================
