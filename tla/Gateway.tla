------------------------------ MODULE Gateway -------------------------------
(***************************************************************************)
(* The main process (main.c): main creates the connection manager, the     *)
(* data manager and the storage manager, joins them in that order, and     *)
(* frees what they shared.  The storage manager (main.c, sensor_db.c) is   *)
(* modelled in full: three attempts to open the database and make an empty *)
(* table, then one INSERT for each measurement, and the disconnect.        *)
(*                                                                         *)
(* The shared buffer is the BroadcastQueue that SBuffer is shown to        *)
(* implement: one iteration of a reader's loop gives it the next           *)
(* measurement, if there is one.  A log-event is written in one step as    *)
(* long as the log process is there (LogFifo shows that write_to_fifo then *)
(* returns); once it failed nobody reads the FIFO, and a thread that logs  *)
(* waits in fopen for ever.  SQLite is external: every call of it may      *)
(* fail, as far as Faults says so.                                         *)
(***************************************************************************)
EXTENDS Naturals, Sequences, SequencesExt

CONSTANTS
  Data,        \* the measurements
  NoTable,     \* the table SensorData does not exist
  ZeroId,      \* those of them whose id field is 0
  MaxInserts,  \* bound: measurements received
  Faults       \* what may fail: "open", "drop", "create", "insert" and "close"
               \* of the database; "exit": a call that ends the process; "log":
               \* the log process, which may end and read the FIFO no more

Readers == {"datamgr", "storagemgr"}

ASSUME GatewayAssumption ==
  /\ ZeroId \subseteq Data /\ MaxInserts \in Nat
  /\ Faults \subseteq {"open", "drop", "create", "insert", "close", "exit", "log"}

VARIABLES
  process,     \* "running", or its exit status: "success", "failure"
  logger,      \* the log process: "alive" or "failed"
  main,        \* what main does next
  connmgr,     \* the connection manager: "none", "listen", "exited"
  datamgr,     \* the data manager: "none", "map", "loop", "log", "while",
               \* "exited"
  storagemgr,  \* where the storage manager is, see storagemgr_step; in
               \* write_to_fifo it is the event
  run,         \* the readers whose flag run_datamgr, run_storagemgr is true
  attempt_nr,  \* storagemgr_function's local
  connection,  \* "NULL", "open" or "closed"
  table,       \* the rows of SensorData, or NoTable
  first_data_node, \* storagemgr: the measurement it was given, as <<m>>
  failed,      \* history: which of the measurements given to the storage
               \* manager (by number) were lost with a failing INSERT
  events,      \* history: the log-events of the storage manager
  inserted,    \* the shared buffer: what connmgr inserted,
  got          \* and what each reader was given

dbvars  == <<attempt_nr, connection, table, first_data_node, failed,
             events>>
threads == <<main, connmgr, datamgr, storagemgr>>
qvars   == <<inserted, got>>
vars    == <<process, logger, threads, run, dbvars, qvars>>

Queue == INSTANCE BroadcastQueue

Init ==
  /\ process = "running" /\ logger = "alive"
  /\ main = "create_connmgr"
  /\ connmgr = "none" /\ datamgr = "none" /\ storagemgr = "none"
  /\ run = {}
  /\ attempt_nr = 1
  /\ connection = "NULL"
  /\ table \in {NoTable} \cup {<<d>> : d \in Data}  \* of an earlier run
  /\ first_data_node = <<>>
  /\ failed = {}
  /\ events = <<>>
  /\ Queue!Init
-----------------------------------------------------------------------------
(* main.                                                                   *)

main_create_connmgr ==
  /\ main = "create_connmgr"
  /\ main' = "create_datamgr"
  /\ connmgr' = "listen"
  /\ run' = Readers
  /\ UNCHANGED <<process, datamgr, storagemgr>>

main_create_datamgr ==
  /\ main = "create_datamgr"
  /\ main' = "create_storagemgr"
  /\ datamgr' = "map"
  /\ UNCHANGED <<process, connmgr, storagemgr, run>>

main_create_storagemgr ==
  /\ main = "create_storagemgr"
  /\ main' = "join_connmgr"
  /\ storagemgr' = "open"
  /\ UNCHANGED <<process, connmgr, datamgr, run>>

\* Mutant: only the data manager is told to stop.
main_join_connmgr_one_flag ==
  /\ main = "join_connmgr" /\ connmgr = "exited"
  /\ main' = "join_datamgr"
  /\ run' = run \ {"datamgr"}
  /\ UNCHANGED <<process, connmgr, datamgr, storagemgr>>

main_join_connmgr ==
  /\ main = "join_connmgr" /\ connmgr = "exited"
  /\ main' = "join_datamgr"
  /\ run' = {}
  /\ UNCHANGED <<process, connmgr, datamgr, storagemgr>>

\* Mutant: the storage manager is not joined.
main_join_datamgr_only ==
  /\ main = "join_datamgr" /\ datamgr = "exited"
  /\ main' = "free"
  /\ UNCHANGED <<process, connmgr, datamgr, storagemgr, run>>

main_join_datamgr ==
  /\ main = "join_datamgr" /\ datamgr = "exited"
  /\ main' = "join_storagemgr"
  /\ UNCHANGED <<process, connmgr, datamgr, storagemgr, run>>

main_join_storagemgr ==
  /\ main = "join_storagemgr" /\ storagemgr = "exited"
  /\ main' = "free"
  /\ UNCHANGED <<process, connmgr, datamgr, storagemgr, run>>

\* kill the log process, destroy the mutex, sbuffer_free, exit.
main_free ==
  /\ main = "free"
  /\ main' = "exited"
  /\ process' = "success"
  /\ UNCHANGED <<connmgr, datamgr, storagemgr, run>>

main_step ==
  /\ \/ main_create_connmgr
     \/ main_create_datamgr
     \/ main_create_storagemgr
     \/ main_join_connmgr
     \/ main_join_datamgr
     \/ main_join_storagemgr
     \/ main_free
  /\ UNCHANGED <<dbvars, qvars>>
-----------------------------------------------------------------------------
(* The connection manager inserts what it receives, until select times out *)
(* (ConnMgr).  The data manager reads the map and then the buffer (DataMgr *)
(* says what it does with a measurement, which may have to be logged).     *)

connmgr_insert ==
  /\ connmgr = "listen"
  /\ Len(inserted) < MaxInserts
  /\ \E d \in Data : Queue!Insert(d)
  /\ UNCHANGED <<process, threads, run, dbvars>>

connmgr_exit ==
  /\ connmgr = "listen"
  /\ connmgr' = "exited"
  /\ UNCHANGED <<process, main, datamgr, storagemgr, run, dbvars, qvars>>

\* The next measurement for reader r, if there is one, or nothing.
sbuffer_remove(r) ==
  \/ Queue!Deliver(r)
  \/ Len(got[r]) = Len(inserted) /\ UNCHANGED qvars

datamgr_step ==
  /\ \/ /\ datamgr = "map"                            \* the map is read
        /\ datamgr' = "loop"
        /\ UNCHANGED qvars
     \/ /\ datamgr = "loop"
        /\ sbuffer_remove("datamgr")
        /\ datamgr' = "while" \/ (got' # got /\ datamgr' = "log")
     \/ /\ datamgr = "log" /\ logger = "alive"       \* write_to_fifo
        /\ datamgr' = "while"
        /\ UNCHANGED qvars
     \/ /\ datamgr = "while"
        /\ datamgr' = IF "datamgr" \in run THEN "loop" ELSE "exited"
        /\ UNCHANGED qvars
  /\ UNCHANGED <<process, main, connmgr, storagemgr, run, dbvars>>
-----------------------------------------------------------------------------
(* The storage manager.                                                    *)

SqlEvents == {"unable", "established", "created", "lost"}

\* write_to_fifo, and what follows it: init_connection goes on, or returns
\* NULL or the connection; disconnect returns.  Without a log process fopen
\* waits for ever, with mutex_fifo held.
write_to_fifo ==
  /\ storagemgr \in SqlEvents
  /\ logger = "alive"
  /\ events' = Append(events, storagemgr)
  /\ storagemgr' = [established |-> "drop", unable |-> "failed", created |-> "loop",
                    lost |-> "exited"][storagemgr]
  /\ connection' = IF storagemgr = "created" THEN "open" ELSE connection
  /\ UNCHANGED <<process, attempt_nr, table, first_data_node, failed, qvars>>

\* init_connection: sqlite3_open, then the event that tells how it went.
init_connection_open ==
  /\ storagemgr = "open"
  /\ \/ storagemgr' = "established"
     \/ "open" \in Faults /\ storagemgr' = "unable"
  /\ UNCHANGED <<process, dbvars, qvars>>

\* init_connection: DROP TABLE IF EXISTS.  A failure closes the database.
init_connection_drop ==
  /\ storagemgr = "drop"
  /\ \/ /\ storagemgr' = "create"
        /\ table' = NoTable
     \/ /\ "drop" \in Faults
        /\ storagemgr' = "failed"
        /\ UNCHANGED table
  /\ UNCHANGED <<process, attempt_nr, connection, first_data_node, failed, events,
                 qvars>>

\* init_connection: CREATE TABLE, which fails if there is one, and the event.
init_connection_create ==
  /\ storagemgr = "create"
  /\ \/ /\ table = NoTable
        /\ table' = <<>>
        /\ storagemgr' = "created"
     \/ /\ table # NoTable \/ "create" \in Faults
        /\ storagemgr' = "failed"
        /\ UNCHANGED table
  /\ UNCHANGED <<process, attempt_nr, connection, first_data_node, failed, events,
                 qvars>>

\* Mutant: an attempt is not counted.
init_connection_failed_uncounted ==
  /\ storagemgr = "failed"
  /\ \/ attempt_nr < 3 /\ storagemgr' = "open"
     \/ attempt_nr >= 3 /\ storagemgr' = "exited"
  /\ UNCHANGED <<process, dbvars, qvars>>

\* Mutant: an attempt too many.
init_connection_failed_four ==
  /\ storagemgr = "failed"
  /\ \/ attempt_nr <= 3 /\ storagemgr' = "open" /\ attempt_nr' = attempt_nr + 1
     \/ attempt_nr > 3 /\ storagemgr' = "exited" /\ UNCHANGED attempt_nr
  /\ UNCHANGED <<process, connection, table, first_data_node, failed, events,
                 qvars>>

\* init_connection returned NULL: sleep and try again, or end the thread.
init_connection_failed ==
  /\ storagemgr = "failed"
  /\ \/ attempt_nr < 3 /\ storagemgr' = "open" /\ attempt_nr' = attempt_nr + 1
     \/ attempt_nr >= 3 /\ storagemgr' = "exited" /\ UNCHANGED attempt_nr
  /\ UNCHANGED <<process, connection, table, first_data_node, failed, events,
                 qvars>>

\* The body of the loop up to sbuffer_remove: a measurement with id 0 cannot
\* be told from no measurement, and is passed over.
storagemgr_remove ==
  /\ storagemgr = "loop"
  /\ sbuffer_remove("storagemgr")
  /\ first_data_node' = IF got' # got /\ Last(got'["storagemgr"]) \notin ZeroId
                         THEN <<Last(got'["storagemgr"])>> ELSE <<>>
  /\ storagemgr' = IF first_data_node' = <<>> THEN "while" ELSE "insert"
  /\ UNCHANGED <<process, attempt_nr, connection, table, failed, events>>

\* Mutant: the measurement is not released after the INSERT.
insert_sensor_keep ==
  /\ storagemgr = "insert"
  /\ \/ /\ table' = table \o first_data_node
        /\ UNCHANGED failed
     \/ /\ "insert" \in Faults
        /\ failed' = failed \cup {Len(got["storagemgr"])}
        /\ UNCHANGED table
  /\ storagemgr' = "while"
  /\ UNCHANGED <<process, attempt_nr, connection, first_data_node, events, qvars>>

\* insert_sensor: its result is ignored and the measurement is released.
insert_sensor ==
  /\ storagemgr = "insert"
  /\ \/ /\ table' = table \o first_data_node
        /\ UNCHANGED failed
     \/ /\ "insert" \in Faults
        /\ failed' = failed \cup {Len(got["storagemgr"])}
        /\ UNCHANGED table
  /\ first_data_node' = <<>>
  /\ storagemgr' = "while"
  /\ UNCHANGED <<process, attempt_nr, connection, events, qvars>>

\* Mutant: the loop ends when the buffer has been read to its end.
storagemgr_while_data ==
  /\ storagemgr = "while"
  /\ storagemgr' = IF "storagemgr" \in run /\ Len(got["storagemgr"]) < Len(inserted)
                   THEN "loop" ELSE "close"
  /\ UNCHANGED <<process, dbvars, qvars>>

storagemgr_while ==
  /\ storagemgr = "while"
  /\ storagemgr' = IF "storagemgr" \in run THEN "loop" ELSE "close"
  /\ UNCHANGED <<process, dbvars, qvars>>

\* disconnect: the event, or abort if the database cannot be closed.
disconnect ==
  /\ storagemgr = "close"
  /\ \/ /\ connection' = "closed"
        /\ storagemgr' = "lost"
        /\ UNCHANGED process
     \/ /\ "close" \in Faults
        /\ process' = "failure"
        /\ UNCHANGED <<storagemgr, connection>>
  /\ UNCHANGED <<attempt_nr, table, first_data_node, failed, events, qvars>>

storagemgr_step ==
  /\ \/ init_connection_open
     \/ init_connection_drop
     \/ init_connection_create
     \/ init_connection_failed
     \/ storagemgr_remove
     \/ insert_sensor
     \/ storagemgr_while
     \/ disconnect
     \/ write_to_fifo
  /\ UNCHANGED <<main, connmgr, datamgr, run>>
-----------------------------------------------------------------------------
\* The error macros of config.h: a call that fails in any thread ends the
\* process, and every thread with it.  So does SIGPIPE, when the log process
\* ends under a thread that has opened the FIFO.
exit_failure ==
  /\ "exit" \in Faults
  /\ process' = "failure"
  /\ UNCHANGED <<threads, run, dbvars, qvars>>

\* The log process exits, because it cannot open, write or close its file.
log_process_fails ==
  /\ "log" \in Faults
  /\ process = "running" /\ logger = "alive"
  /\ logger' = "failed"
  /\ UNCHANGED <<process, threads, run, dbvars, qvars>>

Running(A) == process = "running" /\ A /\ UNCHANGED logger

Exited == process # "running" /\ UNCHANGED vars

Next ==
  \/ Running(main_step)
  \/ Running(connmgr_insert)
  \/ Running(connmgr_exit)
  \/ Running(datamgr_step)
  \/ Running(storagemgr_step)
  \/ Running(exit_failure)
  \/ log_process_fails
  \/ Exited

Spec == Init /\ [][Next]_vars

(***************************************************************************)
(* The scheduler runs every thread that can run.  Nothing is assumed of    *)
(* the connection manager: it returns when no sensor sent anything for     *)
(* TIMEOUT seconds, and sensors may keep it busy for ever; without a log   *)
(* process it may also wait for ever in write_to_fifo.                     *)
(***************************************************************************)
FairSpec ==
  /\ Spec
  /\ WF_vars(Running(main_step))
  /\ WF_vars(Running(datamgr_step))
  /\ WF_vars(Running(storagemgr_step))
-----------------------------------------------------------------------------
GaveUp == storagemgr = "exited" /\ connection = "NULL"

Count(e) == Cardinality({i \in DOMAIN events : events[i] = e})

\* The types of the variables.
TypeOK ==
  /\ process \in {"running", "success", "failure"} /\ logger \in {"alive", "failed"}
  /\ main \in {"create_connmgr", "create_datamgr", "create_storagemgr",
               "join_connmgr", "join_datamgr", "join_storagemgr", "free",
               "exited"}
  /\ connmgr \in {"none", "listen", "exited"}
  /\ datamgr \in {"none", "map", "loop", "log", "while", "exited"}
  /\ storagemgr \in {"none", "open", "drop", "create", "failed", "loop",
                     "insert", "while", "close", "exited"} \cup SqlEvents
  /\ run \subseteq Readers
  /\ attempt_nr \in 1 .. 3
  /\ connection \in {"NULL", "open", "closed"}
  /\ table \in Seq(Data) \cup {NoTable}
  /\ first_data_node \in Seq(Data) /\ Len(first_data_node) <= 1
  /\ failed \subseteq DOMAIN got["storagemgr"]
  /\ events \in Seq(SqlEvents)
  /\ inserted \in Seq(Data)
  /\ got \in [Readers -> Seq(Data)]

\* Which of the measurements that the storage manager was given, by number,
\* belong into the table, and how many of them come up to number k.
Kept    == {k \in DOMAIN got["storagemgr"] : got["storagemgr"][k] \notin ZeroId /\ k \notin failed}
Rank(k) == Cardinality({i \in Kept : i <= k})

\* The table holds the measurements that the connection manager inserted, as
\* far as the storage manager was given them, in order and once, and no row
\* of an earlier run; what it has in hand is on its way.  Missing are those
\* with id 0 and those whose INSERT failed: each costs one measurement,
\* none of the others, whatever else fails.  Until it is connected, and if it
\* never is, the storage manager leaves the measurements in the shared buffer
\* (README Req 6).
Stored ==
  IF connection = "NULL"
  THEN got["storagemgr"] = <<>>
  ELSE /\ Len(table \o first_data_node) = Cardinality(Kept)
       /\ \A k \in Kept : (table \o first_data_node)[Rank(k)] = inserted[k]

\* The log tells what became of the database: every attempt is announced,
\* "created" stands for a table that is there, and "lost" comes last; what is
\* not logged yet is the event that the storage manager is writing.
SqlStory ==
  /\ Count("unable") + Count("established") =
       IF storagemgr \in {"none", "open", "unable", "established"}
       THEN attempt_nr - 1 ELSE attempt_nr
  /\ Count("created") = IF connection = "NULL" THEN 0 ELSE 1
  /\ IF connection = "closed" /\ storagemgr # "lost"
     THEN Count("lost") = 1 /\ Last(events) = "lost"
     ELSE Count("lost") = 0

\* main frees the buffer and ends the process only after every thread is
\* done with it, with no measurement in hand and no database left open.
CleanEnd ==
  main \in {"free", "exited"} =>
    /\ connmgr = "exited" /\ datamgr = "exited" /\ storagemgr = "exited"
    /\ first_data_node = <<>>
    /\ connection # "open"

\* A thread that waits in write_to_fifo for a log process that is not there.
Blocked(r) ==
  /\ logger = "failed"
  /\ IF r = "datamgr" THEN datamgr = "log" ELSE storagemgr \in SqlEvents

\* When the connection manager has timed out, the gateway ends, whatever
\* became of the database: unless the log process failed and a thread that
\* main joins waits for it in write_to_fifo, and then for ever.
Ends ==
  connmgr = "exited" ~> (process # "running" \/ \E r \in Readers : Blocked(r))

\* A measurement that is in the shared buffer reaches its INSERT, while the
\* connection manager may keep inserting others for ever: unless the storage
\* manager gave up after its last attempt, was told to stop, or waits for a
\* log process that failed before the table was there.
EventuallyStored ==
  \A k \in 1 .. MaxInserts :
    Len(inserted) >= k ~>
      \/ Len(got["storagemgr"]) >= k /\ (first_data_node = <<>> \/ Len(got["storagemgr"]) > k)
      \/ GaveUp \/ Blocked("storagemgr") \/ "storagemgr" \notin run \/ process # "running"

\* "If the connection did not succeed after 3 attempts, the gateway will
\* close" (README Req 6).  Does NOT hold: only the storage manager ends.
GatewayCloses == GaveUp ~> process # "running"
=============================================================================
