------------------------------ MODULE DataMgr -------------------------------
(***************************************************************************)
(* The data manager (datamgr.c): the list of sensors read from             *)
(* room_sensor.map, the ring of the last temperatures of each sensor, the  *)
(* running average and the log-events it gives rise to.                    *)
(*                                                                         *)
(* The list holds one node per line of the map.  It is modelled as a       *)
(* sequence (dplist.c keeps the order of insertion: every line is inserted *)
(* past the end).  Readings arrive in the order of the shared buffer or,   *)
(* for datamgr_parse_sensor_files, of a file.                              *)
(***************************************************************************)
EXTENDS Integers, Sequences, SequencesExt

CONSTANTS
  RUN_AVG_LENGTH,   \* length of the ring of temperatures
  SET_MIN_TEMP, SET_MAX_TEMP,
  Maps,             \* the map files: sequences of lines, see sscanf
  Ids,              \* the sensor ids that occur in readings
  Values,           \* the temperatures that occur in readings
  Times,            \* the timestamps that occur in readings
  START,            \* time(NULL) when the map is read
  Garbage,          \* what malloc leaves in the ring of a new node
  MaxReadings       \* bound: how many readings arrive

NO_ID == 65535      \* sensor_id_t id = -1

ASSUME LengthAssumption == RUN_AVG_LENGTH \in Nat \ {0}
ASSUME TempAssumption ==
  /\ SET_MIN_TEMP \in Int /\ SET_MAX_TEMP \in Int
  /\ Values \subseteq Int /\ Garbage \in Int
ASSUME IdAssumption ==
  Ids \subseteq 0 .. NO_ID /\ Maps \subseteq Seq(Seq(0 .. NO_ID))
ASSUME TimeAssumption == Times \subseteq Int /\ START \in Int
ASSUME BoundAssumption == MaxReadings \in Nat

VARIABLES
  source,            \* "buffer": datamgr_parse_sensor_data, the gateway's;
                     \* "files": datamgr_parse_sensor_files
  phase,             \* "map" while the map is read, then "loop", "freed"
  map,               \* the lines of room_sensor.map still to be read
  id_room, id_sensor,\* the locals that sscanf assigns
  sensor_list,       \* the nodes, in the order of the map
  events,            \* the log-events written to the FIFO
  seen,              \* history: the readings of each sensor, in order
  count              \* how many readings arrived

vars == <<source, phase, map, id_room, id_sensor, sensor_list, events, seen,
          count>>

Reading == [id : Ids, value : Values, ts : Times]

Init ==
  /\ source \in {"buffer", "files"}
  /\ phase = "map"
  /\ map \in Maps
  /\ id_room = NO_ID
  /\ id_sensor = NO_ID
  /\ sensor_list = <<>>
  /\ events = <<>>
  /\ seen = [id \in Ids |-> <<>>]
  /\ count = 0
-----------------------------------------------------------------------------
\* sscanf(line, "%hu%hu"): a line is the sequence of the numbers it starts
\* with; a variable that has no number keeps its value.
sscanf(line) ==
  /\ id_room' = IF Len(line) >= 1 THEN line[1] ELSE id_room
  /\ id_sensor' = IF Len(line) >= 2 THEN line[2] ELSE id_sensor

\* Mutant: the count starts one too low.
new_node_minus_one(room, sensor) ==
  [sensor_id |-> sensor, room_id |-> room, running_avg |-> 0,
   timestamp |-> START, nr_of_meass |-> -1,
   temperatures |-> [i \in 0 .. RUN_AVG_LENGTH - 1 |-> Garbage]]

\* A node without readings; its ring is not initialised.
new_node(room, sensor) ==
  [sensor_id |-> sensor, room_id |-> room, running_avg |-> 0,
   timestamp |-> START, nr_of_meass |-> 0,
   temperatures |-> [i \in 0 .. RUN_AVG_LENGTH - 1 |-> Garbage]]

\* One line of the map, whatever is on it, adds one node at the end.
map_line ==
  /\ phase = "map"
  /\ map # <<>>
  /\ sscanf(Head(map))
  /\ map' = Tail(map)
  /\ sensor_list' = Append(sensor_list, new_node(id_room', id_sensor'))
  /\ UNCHANGED <<source, phase, events, seen, count>>

map_end ==
  /\ phase = "map"
  /\ map = <<>>
  /\ phase' = "loop"
  /\ UNCHANGED <<source, map, id_room, id_sensor, sensor_list, events, seen,
                 count>>

\* The index of the first node with this id, 0 if there is none.
get_sensor_node_with_id(id) ==
  SelectInSeq(sensor_list, LAMBDA node : node.sensor_id = id)

\* Mutant: the ring is never started over.
array_position_last(n) ==
  IF n < RUN_AVG_LENGTH THEN n ELSE RUN_AVG_LENGTH - 1

\* RUN_AVG_LENGTH is subtracted from the number of measurements until the
\* result is a position in the ring.
array_position(n) ==
  LET position[k \in Nat] ==
        IF k < RUN_AVG_LENGTH THEN k ELSE position[k - RUN_AVG_LENGTH]
  IN  position[n]

\* The sum of a ring, RUN_AVG_LENGTH times the average.
total(temperatures) ==
  LET sum[i \in 0 .. RUN_AVG_LENGTH] ==
        IF i = 0 THEN 0 ELSE sum[i - 1] + temperatures[i - 1]
  IN  sum[RUN_AVG_LENGTH]

\* Mutant: an average at the limit counts as too hot.
alarms_at_limit(id, sum) ==
  (IF sum < SET_MIN_TEMP * RUN_AVG_LENGTH
   THEN <<[kind |-> "cold", id |-> id]>> ELSE <<>>)
  \o (IF sum >= SET_MAX_TEMP * RUN_AVG_LENGTH
      THEN <<[kind |-> "hot", id |-> id]>> ELSE <<>>)

\* The events of datamgr_get_avg for a full ring.
alarms(id, sum) ==
  (IF sum < SET_MIN_TEMP * RUN_AVG_LENGTH
   THEN <<[kind |-> "cold", id |-> id]>> ELSE <<>>)
  \o (IF sum > SET_MAX_TEMP * RUN_AVG_LENGTH
      THEN <<[kind |-> "hot", id |-> id]>> ELSE <<>>)

\* datamgr_get_avg on the updated node: the average (kept as the sum) and the
\* events, or 0 and none while the ring is not full.
datamgr_get_avg(node) ==
  IF node.nr_of_meass >= RUN_AVG_LENGTH
  THEN [avg |-> total(node.temperatures),
        log |-> alarms(node.sensor_id, total(node.temperatures))]
  ELSE [avg |-> 0, log |-> <<>>]

\* Store the reading in the ring of node n, count it, recompute the average.
\* The loop over the shared buffer stores the sensor's id as the time.
update(n, d) ==
  LET old  == sensor_list[n]
      time == IF source = "buffer" THEN d.id ELSE d.ts
      ring == [old.temperatures EXCEPT
                 ![array_position(old.nr_of_meass)] = d.value]
      node == [old EXCEPT !.timestamp = time, !.temperatures = ring,
                          !.nr_of_meass = @ + 1]
      result == datamgr_get_avg(node)
  IN  /\ sensor_list' =
           [sensor_list EXCEPT ![n] = [node EXCEPT !.running_avg = result.avg]]
      /\ events' = events \o result.log

\* One reading.  In the loop over the shared buffer id 0 means "no data" and
\* an unknown id is reported; the loop over a file does neither.  There d is
\* what the locals hold after the freads, whose results are not looked at: a
\* record cut off at the end of the file keeps values of the one before it.
measurement(d) ==
  LET n == get_sensor_node_with_id(d.id)
      ignored == source = "buffer" /\ d.id = 0
  IN  /\ phase = "loop"
      /\ count < MaxReadings
      /\ count' = count + 1
      /\ seen' = [seen EXCEPT ![d.id] = Append(@, d)]
      /\ \/ /\ ignored
            /\ UNCHANGED <<sensor_list, events>>
         \/ /\ ~ ignored /\ n = 0
            /\ events' = IF source = "buffer"
                         THEN Append(events, [kind |-> "invalid", id |-> d.id])
                         ELSE events
            /\ UNCHANGED sensor_list
         \/ ~ ignored /\ n # 0 /\ update(n, d)
      /\ UNCHANGED <<source, phase, map, id_room, id_sensor>>

\* The loop ends (run_datamgr lowered, end of file); datamgr_free.
datamgr_free ==
  /\ phase = "loop"
  /\ phase' = "freed"
  /\ sensor_list' = <<>>
  /\ UNCHANGED <<source, map, id_room, id_sensor, events, seen, count>>

Done == phase = "freed" /\ UNCHANGED vars

Next ==
  \/ map_line
  \/ map_end
  \/ \E d \in Reading : measurement(d)
  \/ datamgr_free
  \/ Done

Spec == Init /\ [][Next]_vars
-----------------------------------------------------------------------------
datamgr_get_last_modified(id) ==
  sensor_list[get_sensor_node_with_id(id)].timestamp

Known == {sensor_list[i].sensor_id : i \in DOMAIN sensor_list}

\* Reference definitions, from the history alone.  The readings of a sensor
\* that count, and the sum of the last RUN_AVG_LENGTH values in h.
Ignored(id) == source = "buffer" /\ id = 0

Handled(id) == IF Ignored(id) THEN <<>> ELSE seen[id]

WindowSum(h) ==
  total([i \in 0 .. RUN_AVG_LENGTH - 1 |->
           h[Len(h) - RUN_AVG_LENGTH + 1 + i].value])

sensor_node ==
  [sensor_id : 0 .. NO_ID, room_id : 0 .. NO_ID, running_avg : Int,
   timestamp : Int, nr_of_meass : 0 .. MaxReadings,
   temperatures : [0 .. RUN_AVG_LENGTH - 1 -> Values \cup {Garbage}]]

\* The types of the variables.
TypeOK ==
  /\ source \in {"buffer", "files"}
  /\ phase \in {"map", "loop", "freed"}
  /\ map \in Seq(Seq(0 .. NO_ID))
  /\ id_room \in 0 .. NO_ID /\ id_sensor \in 0 .. NO_ID
  /\ sensor_list \in Seq(sensor_node)
  /\ events \in Seq([kind : {"cold", "hot", "invalid"}, id : Ids])
  /\ seen \in [Ids -> Seq(Reading)]
  /\ count \in 0 .. MaxReadings

\* The running average of a sensor is the average of its own last
\* RUN_AVG_LENGTH readings, 0 as long as it sent fewer: the ring never mixes
\* in an overwritten, foreign or uninitialised temperature.
RunningAverage ==
  \A id \in Known \cap Ids :
    LET node == sensor_list[get_sensor_node_with_id(id)]
        h == Handled(id)
    IN  /\ node.nr_of_meass = Len(h)
        /\ node.running_avg = IF Len(h) < RUN_AVG_LENGTH THEN 0
                              ELSE WindowSum(h)

\* The events that the last reading of this sensor must give rise to, from
\* the history alone.
Expected(id) ==
  IF id \notin Known
  THEN IF source = "files" THEN <<>>
       ELSE <<[kind |-> "invalid", id |-> id]>>
  ELSE IF Len(seen[id]) < RUN_AVG_LENGTH THEN <<>>
  ELSE (IF WindowSum(seen[id]) < SET_MIN_TEMP * RUN_AVG_LENGTH
        THEN <<[kind |-> "cold", id |-> id]>> ELSE <<>>)
       \o (IF WindowSum(seen[id]) > SET_MAX_TEMP * RUN_AVG_LENGTH
           THEN <<[kind |-> "hot", id |-> id]>> ELSE <<>>)

\* A reading of the shared buffer with an id other than 0 is reported as too
\* cold, too hot or invalid exactly when the readings so far call for it, and
\* once; a step without a reading writes no log-event.  Id 0 is left out: Req
\* 9.2c wants it reported as invalid, datamgr.c:86 takes it for "no data".
ReportsExact ==
  [][\/ seen' = seen /\ events' = events
     \/ \E id \in Ids : /\ seen'[id] # seen[id]
                        /\ Ignored(id) \/ events' = events \o Expected(id)']_vars

\* datamgr_get_last_modified is the time of the sensor's last reading.
\* Does NOT hold in the loop over the shared buffer.
LastModified ==
  phase = "loop" =>
    \A id \in (Known \cap Ids) \ {0} :
      LET s == seen[id]
      IN  s # <<>> => datamgr_get_last_modified(id) = s[Len(s)].ts
=============================================================================
