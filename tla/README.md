# TLA+ models of the sensor gateway

A verification project for the sensor monitoring gateway in this repository: a
C program of two processes and three threads that collects temperatures from
sensor nodes over TCP, keeps running averages, stores every measurement in an
SQLite database and writes a log.

## 1. The system

| Component | Source | State | Operations |
|---|---|---|---|
| Shared buffer | `sbuffer.c` | linked list with `head`, `tail`; per node one measurement and a read flag per reader | `sbuffer_init/insert/get_first_node/remove/free` under `mutex_buf` |
| Connection manager (thread) | `connmgr.c` | `client_list` (socket, id, time of the last measurement) | `connmgr_listen`: select, accept, receive, timeout |
| Data manager (thread) | `datamgr.c` | `sensor_list`: one node per line of `room_sensor.map`, each with a ring of temperatures | read the map; per measurement update ring and average, report too hot, too cold, unknown |
| Storage manager (thread) | `main.c`, `sensor_db.c` | database connection, attempt counter | `init_connection` (3 attempts), loop with `insert_sensor`, `disconnect` |
| Log process (child) | `main.c` | sequence number, `run_logprocess` | `fifo_to_log`, `end_log_process` (SIGTERM) |
| Main process | `main.c` | threads, `run_datamgr`, `run_storagemgr`, `mutex_fifo` | create, join, kill, free; `write_to_fifo` for all threads |
| dplist | `lib/dplist.c` | doubly linked list: `head`, and `prev`, `next`, `element` per node | create, free; insert, remove and look up by index, reference or element; sorted insertion |
| tcpsock | `lib/tcpsock.c` | per socket: descriptor, magic cookie, address, port | `tcp_passive_open`, `tcp_active_open`, `tcp_wait_for_connection`, `tcp_send`, `tcp_receive`, `tcp_close`, getters |
| Error macros | `config.h` | - | print and `exit(EXIT_FAILURE)` |

How they interact: the connection manager appends to the shared buffer; the
data manager and the storage manager each read all of it; whoever reads a node
second frees it. All three threads write log-events to one FIFO, under
`mutex_fifo`; the log process numbers them and writes `gateway.log`. When no
sensor has sent anything for `TIMEOUT` seconds the connection manager returns;
main then lowers the readers' flags, joins them, sends SIGTERM to the log
process and frees the buffer. The connection manager's client list and the data
manager's sensor list are dplists; the connection manager's sockets are
tcpsocks.

What is hard here: three threads on one linked list with manual memory
management; a FIFO that is opened and closed for every event, whose end-of-file
the reader meets again and again, and a signal that races with it; a client
list that shrinks while it is walked; measurements that arrive in three parts;
resets; descriptors and addresses that are given out again; a log process that
a failed run leaves behind; failures at every step of opening the database. `PROJECT.json` lists each
hazard at its line with the properties that speak about it.

What makes each component correct:

- shared buffer: no dangling pointer, each node freed exactly once and not too
  early, each reader gets the whole stream in order exactly once, nobody starves;
- log: one writer at a time, numbered without gap in the order of sending,
  nothing lost unless a log process fails, calls return as long as it does not, the log process survives until it is told to stop and then ends;
- data manager: the average is that of the sensor's own last readings, and the
  reports are exactly the ones it calls for (but for id 0, see section 3);
- connection manager: list and open connections agree, measurements are never
  mixed up between sensors, every one is captured, log-events tell the story;
- storage manager and main: the table holds what was taken from the buffer,
  nothing is taken before there is a connection and everything reaches its
  INSERT after that, the buffer is freed last, the gateway ends (both unless a
  thread waits for a log process that has failed);
- dplist: `prev` and `next` agree, no node leaks, and every operation does to
  the sequence of elements what `dplist.h` says, for any index and reference;
- tcpsock: each socket owns its descriptor and loses none in silence.

## 2. Modules

| Module | Models | State and actions |
|---|---|---|
| `BroadcastQueue` | the promise of the shared buffer | `inserted` (the stream) and `got` (what each reader was given); `Insert`, `Deliver` |
| `SBuffer` | `sbuffer.c` and the loops that call it | `heap` maps addresses to nodes, `head`, `tail`, `mutex_buf`, a `pc` per thread, `dummy` per reader; one action per atomic piece of an operation |
| `LogFifo` | `write_to_fifo`, `fifo_to_log`, `end_log_process`, fork, kill | `pc` per thread, `child`, `pipe`, `eof`, `log`, and `orphan` with its own number and stream; one action per library call that can block, fail or be seen |
| `DataMgr` | `datamgr.c` | `sensor_list` as a sequence of nodes, `map` being read, `events` |
| `ConnMgr` | `connmgr_listen` | `client_list`, `read_fds`, loop index `i`, the measurement being received; sensors, network and clock around it |
| `Gateway` | `main`, `storagemgr_function`, `sensor_db.c` | `main` and a state per thread, `run`, `attempt_nr`, `table`, `events`, whether the log process (`logger`) is there; the buffer is `BroadcastQueue` |
| `IndexedList` | the promise of `dplist.h` | `list`, a sequence of references with elements; one action per operation |
| `DPList` | `lib/dplist.c` | `head` and `heap` (address to `prev`, `next`, `element`), `status` of the list, the last `call`; one action per operation that changes the list, one operator per query |
| `TcpSock` | `lib/tcpsock.c` | `sock` (the caller's variables), `fds` (open descriptors), `result`; one action per function, and the peers |
| `SBufferProofs`, `LogFifoProofs`, `DataMgrProofs`, `ConnMgrProofs`, `GatewayProofs`, `DPListProofs`, `TcpSockProofs` | - | inductive invariants, lemmas and theorems about the module of that name |
| `CommonLemmas` | - | facts about sequences, least elements, induction and recursion that the proofs share |
| `MC...` | - | what TLC needs beyond the `.cfg` files (map files, elements and their keys, ports, symmetry) |

Composition. `Gateway` uses `BroadcastQueue` in place of the linked list:
`SBuffer` is shown, by TLC and by proof, to implement it (`Implements`,
theorem `Refinement`); the buffer steps of `Gateway` are the queue's by
definition, and that the two modules fit together is an argument on paper, not a
theorem. One step of `Gateway` writes a whole log-event, and only if the log
process is there; `LogFifo` opens that step up (`LogCallReturns` says that the
call returns unless the log process has failed). `Gateway` treats
`connmgr_listen` and the data manager's handling of a measurement as single
steps; `ConnMgr` and `DataMgr` open these up. `ConnMgr` and `DataMgr` treat
their dplists as sequences: `DPList` is shown, by TLC and by proof, to implement
`IndexedList`, whose `list` is such a sequence (theorem `ListIsImplemented`). `ConnMgr` knows of a connection only whether it
is open; `TcpSock` has the descriptor behind it, and shows what a reset costs.

Every module holds, right before the definition it varies, some operators
commented "Mutant": plausible mistakes in the same lines of code. They are not
part of any specification; each shows that a property notices the mistake.

### Correspondence and abstractions

- **SBuffer.** Addresses are never reused, so a pointer to a freed node cannot
  pass for a live one. The last step of a critical section includes the unlock.
  The walk of `sbuffer_remove` and the two assignments of `sbuffer_insert` are
  steps of their own, so that dropping the mutex would show. The two read flags
  are the set `read`. The failing `malloc` exits the process and is not here.
  The storage manager may give up before its loop (`reader_start`).
- **LogFifo.** An open end is counted when `open` is entered, as Linux does;
  `open` then waits for the other end. A line is the unit: it is far shorter
  than `PIPE_BUF`, hence written in one piece. `pipe` includes what the child's
  stdio has read ahead. `STICKY_EOF` chooses between C libraries: `FALSE` for
  those that read again after an end-of-file (glibc before 2.28, current when
  the program was written), `TRUE` for those that do not. `MaxEvents` bounds the
  events of one run, all threads together. A writer that waits in `open` is let
  through by a reader that came and went since (`reader_seen`), and then meets
  SIGPIPE. The fault "gateway_log" is every failure exit of `fifo_to_log`: the log
  file cannot be opened, a line cannot be made up or written, a stream cannot be
  closed; a process that fails on a line takes with it this line and any that its
  stdio had read ahead (`LinesLost`). `restart` starts the gateway again
  after `exit_failure`: it keeps the FIFO with its lines and the old log
  process, now an `orphan` that takes lines, numbers them with its own counter,
  writes them to its own stream of `gateway.log` (`orphan_log`), and may fail like
  the child. Each process has its own offset and buffer on that one file: how the
  bytes of the two streams overwrite each other in it is not modelled, so what is
  said of the log after a restart is said of each stream. A second restart is not
  modelled, two readers of the FIFO are already the general case.
- **DataMgr.** Temperatures are integers and the average is kept as its sum, so
  comparisons are exact; rounding of doubles is not modelled. A line of the map
  is the sequence of the numbers `sscanf` finds on it. `source` selects between
  `datamgr_parse_sensor_data` and `datamgr_parse_sensor_files`, which are the
  same code but for what the model distinguishes. A reading of the file is what the
  locals hold after the `fread`s, whose results the code ignores (`datamgr.c:183`):
  in a record that is cut off it may be a value of the record before, which is one
  of the readings the model enumerates. The loop that subtracts
  `RUN_AVG_LENGTH` and the loop that adds up a ring are recursive functions
  (`array_position`, `total`). `seen` is the history of each sensor; `count`
  and `MaxReadings` bound the readings.
- **ConnMgr.** A stream holds fields (id, value, time), not bytes. The id of a
  sensor is the number of its connection. The time is the sensor's own: any of
  `Times`, in the run 0 (the value the code takes for "not sent yet"), 1 and 5,
  which is ahead of the gateway's clock. A field that is not received keeps any of
  `Garbage`. `times` is the history of what was sent. One second is one `Tick`. After
  a reset (`sensor_reset`) the fields that arrived can still be received, then
  one receive fails and those after it find the end of the stream, as on Linux.
  `MaxMeas` bounds the measurements of all sensors together. `buffer` and `log`
  are kept per connection: no property relates the order of two connections.
- **Gateway.** SQLite calls succeed or, as far as `Faults` allows, fail. The
  table of an earlier run may be there. `failed` records which of the
  measurements lost their INSERT, by number: `Kept` and `Rank` say which row a
  measurement must have. `exit_failure` stands for every check
  of `config.h`; a failing `disconnect` calls `abort`. `log_process_fails` is the
  failure that `LogFifo` details: from then on `write_to_fifo` (of the storage
  manager, and in `datamgr_step`) cannot be taken, since its `fopen` waits for ever.
- **DPList.** A list belongs to one thread, so an operation is one step.
  `malloc` hands out any free address, one of a freed node too, and fails when
  none is left; callers pass any index and any address. The walk that almost
  every function makes is the recursive function `visited`. The bubble sort of
  `dpl_insert_sorted` is modelled pair by pair and pass by pass, as recursive
  functions; the early exit after a pass
  without a swap is left out, since later passes would not swap either. An
  operation without a list, without an element or without memory ends in the
  state "aborted". The memory of the elements is left out.
- **TcpSock.** One thread uses the library, so a call is one step; each library
  call in it may fail, on a live connection too, and the step then leaves what the
  code leaves: an open descriptor where it only frees the socket. The exception is
  `shutdown`, which fails on reset connections only. The kernel gives out the lowest
  free descriptor. An accepted descriptor has the listener's port, its socket the
  peer's (`PeerPorts`). Data is only present or not; a receive may leave some, and
  one of size 0 is answered like the end of the connection. A NULL `buf_size` is
  dereferenced by `tcp_send` and `tcp_receive` (`tcpsock.c:195`, `218`): `segfault`
  ends the process, and what follows is a new one with nothing open.

## 3. Runs

Bounds were chosen so that the interesting cases occur; each module names them.

| Run | Result | What it shows |
|---|---|---|
| `sbuffer` | pass | type, `MemorySafe`, `Reclaimed`, `TailIsLast`, the inductive invariant `IInv`, `Implements` (refinement of `BroadcastQueue`) and `Delivery`. 3 insertions of 2 values: a reader can be several nodes ahead, the list can empty and fill again |
| `logfifo` | pass | `OneWriter`, `InOrder`, `SafeKill`, `EventuallyLogged`, `LogCallReturns`, `ChildEnds` with an exiting main process, a restart next to the orphaned log process, and log processes that fail on their file, in the middle of a line too; 3 events of 3 threads, a FIFO of 2 lines, so that writers do block. When the log process has failed a writer may wait for ever, so the system may stop |
| `logfifo_sticky_eof` | violation | with a sticky end-of-file logging stops after the first pause |
| `datamgr_average` | pass | `RunningAverage`, `ReportsExact`: ring of 3, 7 readings (the ring wraps twice), known, unknown and zero ids, map files with blank and short lines. Readings with id 0 from the shared buffer are there, and `ReportsExact` says nothing of them |
| `datamgr_last_modified` | violation | the time of the last reading is the id |
| `connmgr` | pass | `ListIsOpen`, `LogStory`, `Captured`, `EventuallyCaptured`, `EventuallyLeft`: 2 sensors, 2 measurements of one of them or one of each (the second finds what the first left in the list), times of 0, past and future, sensors that close or are reset anywhere, a timeout of 1 of 2 seconds |
| `connmgr_torn` | violation | a measurement is inserted of which the sensor sent only a part (`OnlyWhole`) |
| `gateway_storage` | pass | `Stored`, `SqlStory`, `CleanEnd`, `Ends`, `EventuallyStored` with every database call failing at times, exits, and a log process that fails; 2 measurements, one kind of them with id 0. `Ends` and `EventuallyStored` except a thread that waits for the failed log process (`Blocked`) |
| `gateway_three_attempts` | violation | three failed attempts do not close the gateway |
| `dplist` | pass | `DoublyLinked`, `NoLeak`, `QueriesAgree` (every query against the sequence), `Implements` (refinement of `IndexedList`): 4 addresses, 3 elements of which 2 compare as equal, indices -1 to 5. All positions of first, middle, last and only node occur, and every address is used again. An assertion that fails ends the process, so the system may stop |
| `tcpsock` | pass | `OneOwner`, `LeakReported`: 2 sockets, 3 descriptors, ports around both limits; descriptors run out and are reused |
| `tcpsock_leak` | violation | `tcp_close` keeps the descriptor of a reset connection open (`CloseCloses`) |

The violations are disagreements between the code and the requirements in
`src/README.md`, its headers or its comments; `PROJECT.json` quotes both sides.

More disagreements are visible in the models and have no run of their own:

- the readers' loops end with their flags, not with the data, so measurements
  can be left in the buffer at shutdown and are freed unread (`datamgr.c:131`;
  `datamgr.h:42` says that all data is read);
- `exit(EXIT_FAILURE)` in a thread sends no SIGTERM, and the log process never
  ends (`exit_failure` in `LogFifo`; the comment at `main.c:70`). If the gateway
  is started again, the old log process takes events from the new one, and both
  write to `gateway.log`, each with its own numbers: `InOrder` is about each of the
  two, the file itself is in no order. TLC also showed that the new log process may then be
  killed before it has a handler, or told to stop just before an `fopen` in
  which it waits for ever: hence `orphan` in `SafeKill` and `ChildEnds`;
- an event written after the end-of-file that precedes the test of the flag
  (`main.c:249`) stays in the FIFO and is not logged (Req 8), hence
  `run_logprocess = 0` in `EventuallyLogged`;
- `dpl_free` asserts that `list` is not NULL, where `dplist.h:32` wants `*list`
  checked: without a list it dereferences NULL (modelled as "aborted" too);
- when the log process has failed (`main.c:227`, `240`, `244`) its lines are lost,
  and the next thread that logs waits in `fopen` for ever, with `mutex_fifo` held:
  the gateway does not end, and a storage manager that is just connecting never
  stores anything. Hence the exceptions in `InOrder`, `LogCallReturns`, `Ends`
  and `EventuallyStored`;
- when the storage manager has given up no node gets its second flag, and the
  buffer grows until the gateway ends (`main.c:196`);
- a measurement that arrived after `select` is dropped with its client, if that is
  found silent in the same pass (`connmgr.c:211`);
- the time that decides about "opened" and about the timeout is the sensor's
  (`connmgr.c:191`, `211`): a sensor that sends 0 is logged as opened with every
  measurement (Req 9.1a has one for a connection) and never times out, one whose
  clock is ahead times out late; `LogStory` says when "opened" is repeated;
- a connection that ends before its first measurement is logged as closed, with
  id 0, though never as opened, and one that times out is not logged as closed
  (`connmgr.c:170`, `211`; Req 9.1b). `LogStory` does not speak of the former and
  does not require the latter;
- `MAX_PORT` is 65536: that port is accepted, `htons` makes it 0 and the kernel
  binds some other port, while the socket answers 65536 (`tcpsock.c:66`;
  `tcpsock.h:25` says that it is bound to `port`);
- the port of an accepted socket is the peer's (`tcpsock.c:182`), that of the others
  their own; `tcpsock.h` says of both "the port number of the 'socket'";
- every error path of `tcpsock.c` after `socket` or `accept` frees the socket and
  leaves its descriptor open (`LeakReported` says that an error is returned);
- a measurement with id 0 is not reported as invalid (`datamgr.c:86`; Req 9.2c):
  `ReportsExact` leaves it out, as `Stored` does;
- a measurement whose INSERT fails is gone (`sensor_db.c:151`; Req 6 says that
  measurements stay in shared data). `Stored` says that nothing else is lost.

### Fairness

- Every thread and the log process run when they can (weak fairness): they are
  preemptively scheduled.
- Taking a mutex is strongly fair: all critical sections of `mutex_buf` are
  bounded walks, and those of `mutex_fifo` end because `LogCallReturns` holds,
  so a waiting thread finds the mutex free again and again. Linux mutexes do
  not promise an order, but a thread is not locked out for ever in practice;
  without this assumption a reader's busy loop could starve the others.
- In `ConnMgr` a sensor that has sent the id goes on to send value and time, or
  closes: the sensor program sends the three in a row. Without it the blocking
  receive at `connmgr.c:186` would hold up every other sensor; that is the code's
  behaviour, and why the assumption is stated.
- Nothing is assumed of when sensors connect, send or leave, nor that the
  connection manager ever times out, nor that an orphan leaves lines to others.
- In `Gateway` main, the data manager and the storage manager are scheduled when
  they can run; calls of SQLite return, with or without an error; `write_to_fifo`
  returns while the log process is there, which `LogCallReturns` shows. `Ends` and
  `EventuallyStored` need no more than that, and except a failed log process.

## 4. Proofs

Every invariant, every action property and every refinement that a passing run
checks is also a theorem, for every value of the constants. The runs show these
properties on small instances and the liveness properties; the theorems remove
the bounds on sensors, nodes, descriptors, events, ring lengths and inputs.

| Module | Theorems | Property |
|---|---|---|
| `SBufferProofs` | `Invariance`, `TypeCorrect`, `MemorySafety`, `Reclamation`, `TailCorrect`, `Refinement` | `IInv`, `TypeOK`, `MemorySafe`, `Reclaimed`, `TailIsLast`, `Implements` |
| `LogFifoProofs` | `TypeCorrect`, `MutualExclusion`, `LogInOrder`, `KillIsSafe` | `TypeOK`, `OneWriter`, `InOrder`, `SafeKill` |
| `DataMgrProofs` | `TypeCorrect`, `AverageIsOfLastReadings`, `ReportsAreExact` | `TypeOK`, `RunningAverage`, `ReportsExact` |
| `ConnMgrProofs` | `TypeCorrect`, `ListHoldsOpen`, `MeasurementsCaptured`, `LogTellsConnections` | `TypeOK`, `ListIsOpen`, `Captured`, `LogStory` |
| `GatewayProofs` | `TypeCorrect`, `TableHoldsMeasurements`, `LogTellsDatabase`, `MainEndsLast` | `TypeOK`, `Stored`, `SqlStory`, `CleanEnd` |
| `DPListProofs` | `TypeCorrect`, `PointersAreAList`, `NodesAreReachable`, `QueriesAnswer`, `ListIsImplemented` | `TypeOK`, `DoublyLinked`, `NoLeak`, `QueriesAgree`, `Implements` |
| `TcpSockProofs` | `TypeCorrect`, `SocketsOwnDescriptors`, `LeaksAreReported` | `TypeOK`, `OneOwner`, `LeakReported` |

The assumptions are the `ASSUME`s of the modules: `NULL` is none of the values
it stands next to; peers connect from ports between 1 and 65535; bounds are natural numbers (some of them positive, as in
the code, which does not compile without a `TIMEOUT`); ids are
16 bits wide; temperatures, times (any, those of a sensor's clock too), keys and indices are integers; the addresses
`malloc` can return are finitely many. TLC evaluates them in every run of the
module. Nothing is assumed about faults, orders or lengths.

### The arguments

None of the main invariants is inductive as it stands; each module proves one
(`IInv`) that is.

**SBuffer.** From an arbitrary list
nothing says that the node with both flags is the head, which is the node that
`sbuffer_remove` unlinks whichever it has flagged. `IInv` numbers the nodes in
the order of insertion and says that the list is an interval of these numbers
linked in order (`Interval`, `Nodes`), that a reader has flagged exactly the
nodes up to the number of measurements it was given (`Nodes`, `Prefixes`), that
the tail lags behind only inside `sbuffer_insert` (`TailInv`), and that whoever
is inside a critical section owns the mutex and has walked only over nodes it
had read (`Locking`). The node a reader stops at is then the one after its last;
it has both flags only if the other reader is ahead, and then it is the head.
There is a lemma for each action that changes the list or walks it, and one
(`MoveIInv`) for those that only move a thread. The refinement follows: taking a
node is `Deliver`, an insertion is `Insert`, everything else leaves the queue
alone.

**LogFifo.** `OneWriter` follows from who owns the mutex (`Locked`). `InOrder`
speaks of the place of an event among those that were sent, which makes sense
because none is sent twice (`Once`). The FIFO holds the last of them, since the
child and an orphan take lines at the front only (`Suffix`); what each of the two
has written lies before that, in order (`Placed`), they never wrote the same event
(`Apart`), and together they wrote all that was taken as long as neither failed
(`Complete`). `SafeKill` holds because main gets to its SIGTERM only after the
storage manager has logged something, and that call had to wait for the child's
`fopen` (`Met`, `Reported`, `Noticed`).

**DataMgr.** The stored average says nothing about the next one; what the ring
holds does. Each of the last `RUN_AVG_LENGTH` readings is at the position of its
number (`Ring`), and a full ring has the sum of this window. Two numbers less
than a ring apart have different positions (`PositionsDiffer`), so a new reading
takes the place of the oldest; the sum of the ring then changes by the same
difference as that of the window (`SumUpdate`, `SumShift`). Only the first node
of the list with an id is ever updated (`First`, `LookupFacts`), which is how
repeated lines of the map do no harm.

**ConnMgr.** The invariant accounts for every field that a sensor sent: it is
still in the stream, known by its number (`Waiting`), or it went into the buffer,
three to a measurement (`Counted`). The exception is a stream that ended inside a
measurement, which can be so for one measurement of a connection only (`Torn`,
`Cut`). `client_list` holds of a client the time in its last measurement (`Known`),
and that decides whether the next one adds an "opened" to its log (`Story`).

**Gateway.** Where the storage manager is decides whether there is a connection
(`Phase`) and whether there is a measurement in its hand, which then is the last
it was given (`Hand`). With that, each INSERT that succeeds adds the next row:
row `Rank(k)` is measurement `k` (`Rows`). main is past a join only if that
thread has ended (`Joined`). An event is counted when it has been written, so a
storage manager that is stuck in `write_to_fifo` is a case of the invariant.

**DPList.** The pointers are a sequence of addresses without repetitions:
`Linked(heap, head, s)` for some `s`. The walk of every function is then `s`
(`WalkFacts`, by induction), inserting a node inserts into `s`, removing one
removes from it, for each of the code's cases (first, middle, last, only node).
That `bubble_sort` sorts is proved for every list: a pass carries a greatest
element of its part to the end (`PassStep`), `p` passes put the last `p` elements
into their places (`SortStep`), and a sorted list stays as it is. The refinement
has one lemma per operation that links, unlinks or sorts (`InsertImplements`,
`RemoveImplements`, `InsertSortedImplements`), in which the index or reference
the caller passes is translated into a place in `s`.

**TcpSock.** `TypeOK` and `OneOwner` are inductive together: a
step on one socket's descriptor leaves the others alone because they are
different descriptors, and a new one is not open yet (`NewSdIsFree`).

### Recursion

`array_position`, `total`, `visited`, `bubble_pass` and `bubble_sort` are
recursive functions. Such a definition is a `CHOOSE`; that a function with its
equation exists is a lemma (`RecursionExists` in `CommonLemmas`, or an explicit
one, as `Rest` for `array_position`), and what it computes follows by induction
over the natural numbers, put as a statement about a set (`SetInduction`).

### Only model-checked

The liveness properties (`Delivery`, `EventuallyLogged`, `LogCallReturns`,
`ChildEnds`, `EventuallyCaptured`, `EventuallyLeft`, `Ends`,
`EventuallyStored`): the prover knows neither fairness nor `ENABLED`. The five
runs that expect a violation are counterexamples and need no proof.

## 5. Not modelled

- `find_sensor_*` and `insert_sensor_from_file`: the gateway does not call them,
  and no test does.
- Who frees the elements of a dplist (`insert_copy`, `free_element`, the
  callbacks): the nodes are modelled, the memory behind their elements is not.
- Byte-level splitting of TCP segments: `recv` may return part of a field, and
  `connmgr.c:186` would then read the rest as the next field. The unit of the
  models is the field; one of at most 8 bytes sent in one call arrives whole
  unless a segment boundary falls into it.
- What `gateway.log` holds byte by byte when two log processes write to it.
- Floating-point rounding, the texts of messages, debug printing,
  `sbuffer_print_data`.
- The use of `pthread_self` before `pthread_create` has stored the identifier
  (`sbuffer.c:51`): glibc stores it before the thread starts.

## 6. Plan

Done: all modules of section 2 with their runs; proofs of every safety property
and refinement.

Next:

1. A module in which `Gateway` runs on `SBuffer` itself instead of the queue, shown
   to implement `Gateway`.
2. State as theorems what the violations leave true: `LastModified` for
   `datamgr_parse_sensor_files`, `OnlyWhole` without torn streams, `CloseCloses`
   without resets.
3. The safety cores of the liveness properties: for instance that a thread that
   waits for `mutex_fifo` waits for one that can go on.
4. Shorten the longest proofs (`DPListProofs`, `ConnMgrProofs`) where lemmas can
   be shared.
