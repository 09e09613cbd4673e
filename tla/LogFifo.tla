------------------------------ MODULE LogFifo -------------------------------
(***************************************************************************)
(* The log process and the FIFO through which the threads of the main      *)
(* process send it their log-events (main.c).                              *)
(*                                                                         *)
(* A thread that logs locks mutex_fifo, opens the FIFO for writing, writes *)
(* one line, closes the FIFO and unlocks.  The log process, a forked       *)
(* child, installs a SIGTERM handler, opens the FIFO and the log file,     *)
(* copies lines until fgets answers NULL, and then looks at the flag       *)
(* that the handler lowers.  main sends SIGTERM once its threads joined.   *)
(*                                                                         *)
(* The kernel's FIFO (Linux) is external.  open counts the caller at once  *)
(* as a reader or a writer and then waits until the other side is there; a *)
(* read waits as long as the FIFO is empty and has a writer, and answers   *)
(* end-of-file when it is empty and has none; writing without a reader     *)
(* raises SIGPIPE, which nobody handles.  pipe stands for the FIFO with    *)
(* what the log process has read ahead (stdio): both keep the order.  log  *)
(* is what the log process wrote to its stream of gateway.log; when two    *)
(* log processes are at work each has its own stream, offset and buffer,   *)
(* and how their bytes mix in the one file is not modelled.                *)
(***************************************************************************)
EXTENDS Integers, FiniteSets, SequencesExt

CONSTANTS
  NULL,        \* the mutex has no owner
  MaxEvents,   \* bound: how many log-events the threads of one run send
  PIPE_CAP,    \* how many lines fit into the FIFO
  STICKY_EOF,  \* does fgets keep answering NULL after one end-of-file?
  Faults       \* the failures that may happen: a subset of FaultKinds

Threads == {"connmgr", "datamgr", "storagemgr"}

\* exit: some thread of the main process calls exit(EXIT_FAILURE);
\* restart: the gateway is started again after that;
\* gateway_log: a log process cannot open its log file, make up or write a
\* line, or close the file.
FaultKinds == {"exit", "restart", "gateway_log"}

ASSUME NULLAssumption == NULL \notin Threads
ASSUME BoundsAssumption == MaxEvents \in Nat \ {0} /\ PIPE_CAP \in Nat \ {0}
ASSUME ModeAssumption == STICKY_EOF \in BOOLEAN /\ Faults \subseteq FaultKinds

VARIABLES
  mutex_fifo,      \* the owner of the mutex, or NULL
  pc,              \* where each thread of the main process is
  parent,          \* the main process: "running", "exited", "failed", "sigpipe"
  child,           \* where the log process is
  run_logprocess,  \* the flag that end_log_process lowers
  eof,             \* the end-of-file indicator of the child's stream
  writer_seen,     \* a writer has come since the child called fopen
  reader_seen,     \* a reader was there, or came, since the writer's fopen
  orphan,          \* the log process of an earlier run: "none" if there is
                   \* none, "reading" the same FIFO, "failed"
  orphan_number,   \* its sequence_number, less what it was at the restart
  orphan_log,      \* what it has written since the gateway was restarted
  sequence_number,
  pipe,            \* the lines in the FIFO
  log,             \* gateway.log: records of a number and an event
  sent             \* history: the events written into the FIFO, in order

procs == <<parent, pc, mutex_fifo>>
reader == <<child, run_logprocess, eof, sequence_number, log>>
older  == <<orphan, orphan_number, orphan_log>>
kernel == <<writer_seen, reader_seen>>
vars == <<procs, reader, older, kernel, pipe, sent>>

\* How often thread t has logged, and the next event it logs.
Logged(t)    == Cardinality({i \in DOMAIN sent : sent[i].by = t})
NextEvent(t) == [by |-> t, nr |-> Logged(t) + 1]

\* Thread t is about to write its event into the FIFO.
Calling(t) == pc[t] \in {"lock", "mkfifo", "fopen", "fputs"}

\* The child has the FIFO open, or waits in fopen for a writer: the kernel
\* counts it as a reader; an orphan is one as well.
Reading       == {"opening", "log_open", "fgets", "while", "closing"}
ReaderPresent == child \in Reading \/ orphan = "reading"

\* Some thread has the FIFO open for writing, or waits in fopen.
WriterPresent == \E t \in Threads : pc[t] \in {"fopen", "fputs", "fclose"}

Goto(t, l) == pc' = [pc EXCEPT ![t] = l]

\* The main process is gone, and its threads and open files with it.
ParentEnds(how) ==
  /\ parent' = how
  /\ pc' = [t \in Threads |-> "gone"]
  /\ mutex_fifo' = NULL

\* Mutant: the local counter is not initialised.
child_init_garbage ==
  /\ child = "fork"
  /\ run_logprocess = 1
  /\ eof = FALSE
  /\ sequence_number \in {-1, 0}
  /\ log = <<>>

child_init ==
  /\ child = "fork"
  /\ run_logprocess = 1
  /\ eof = FALSE
  /\ sequence_number = 0
  /\ log = <<>>

Init ==
  /\ mutex_fifo = NULL
  /\ pc = [t \in Threads |-> "run"]
  /\ parent = "running"
  /\ child_init
  /\ writer_seen = FALSE /\ reader_seen = FALSE
  /\ orphan = "none" /\ orphan_number = 0 /\ orphan_log = <<>>
  /\ pipe = <<>>
  /\ sent = <<>>
-----------------------------------------------------------------------------
(* A thread of the main process.                                           *)

\* The thread has something to report.
log_event(t) ==
  /\ pc[t] = "run"
  /\ Len(sent) + Cardinality({u \in Threads : Calling(u)}) < MaxEvents
  /\ Goto(t, "lock")
  /\ UNCHANGED <<mutex_fifo, parent, reader, older, kernel, pipe, sent>>

\* Mutant: a caller of write_to_fifo that forgets the mutex.
pthread_mutex_lock_missing(t) ==
  /\ pc[t] = "lock"
  /\ Goto(t, "mkfifo")
  /\ UNCHANGED <<mutex_fifo, parent, reader, older, kernel, pipe, sent>>

\* pthread_mutex_lock(&mutex_fifo)
pthread_mutex_lock(t) ==
  /\ pc[t] = "lock"
  /\ mutex_fifo = NULL
  /\ mutex_fifo' = t
  /\ Goto(t, "mkfifo")
  /\ UNCHANGED <<parent, reader, older, kernel, pipe, sent>>

\* mkfifo (an existing FIFO is as good), then fopen(FIFO_NAME, "w"): count as
\* a writer and wait for the child; a reader that came and went will do.
write_to_fifo_fopen(t) ==
  /\ \/ /\ pc[t] = "mkfifo"
        /\ Goto(t, "fopen")
        /\ writer_seen' = TRUE
        /\ reader_seen' = ReaderPresent
     \/ /\ pc[t] = "fopen" /\ reader_seen
        /\ Goto(t, "fputs")
        /\ UNCHANGED kernel
  /\ UNCHANGED <<mutex_fifo, parent, reader, older, pipe, sent>>

\* fputs and fflush: the line goes into the FIFO as soon as it has room.
write_to_fifo_fputs(t) ==
  /\ pc[t] = "fputs"
  /\ \/ /\ ReaderPresent
        /\ Len(pipe) < PIPE_CAP
        /\ pipe' = Append(pipe, NextEvent(t))
        /\ sent' = Append(sent, NextEvent(t))
        /\ Goto(t, "fclose")
        /\ UNCHANGED <<mutex_fifo, parent>>
     \/ /\ ~ ReaderPresent
        /\ ParentEnds("sigpipe")
        /\ UNCHANGED <<pipe, sent>>
  /\ UNCHANGED <<reader, older, kernel>>

\* Mutant: the mutex is not unlocked.
write_to_fifo_fclose_keep_lock(t) ==
  /\ pc[t] = "fclose"
  /\ Goto(t, "run")
  /\ UNCHANGED <<mutex_fifo, parent, reader, older, kernel, pipe, sent>>

\* fclose and pthread_mutex_unlock(&mutex_fifo).
write_to_fifo_fclose(t) ==
  /\ pc[t] = "fclose"
  /\ mutex_fifo' = NULL
  /\ Goto(t, "run")
  /\ UNCHANGED <<parent, reader, older, kernel, pipe, sent>>

\* Mutant: the storage manager can end without having logged anything.
pthread_exit_silent(t) ==
  /\ pc[t] = "run"
  /\ t = "datamgr" => pc["connmgr"] = "joined"
  /\ Goto(t, "joined")
  /\ UNCHANGED <<mutex_fifo, parent, reader, older, kernel, pipe, sent>>

\* The thread ends and main joins it: the connection manager on its own, the
\* data manager after it, the storage manager after it or before, when the
\* database cannot be opened.  init_connection has by then logged whether it
\* could: the storage manager never ends without having used the FIFO.
pthread_exit(t) ==
  /\ pc[t] = "run"
  /\ t = "datamgr" => pc["connmgr"] = "joined"
  /\ t = "storagemgr" => Logged(t) > 0
  /\ Goto(t, "joined")
  /\ UNCHANGED <<mutex_fifo, parent, reader, older, kernel, pipe, sent>>

\* Any thread may run into one of the checks that call exit(EXIT_FAILURE).
exit_failure ==
  /\ "exit" \in Faults
  /\ parent = "running"
  /\ ParentEnds("failed")
  /\ UNCHANGED <<reader, older, kernel, pipe, sent>>

\* What SIGTERM does to the child: before sigaction it kills it; a child that
\* still waits for the first writer leaves fopen with an error.
AfterSIGTERM ==
  IF child = "fork" THEN "killed"
  ELSE IF child = "opening" /\ ~ writer_seen THEN "interrupted"
  ELSE child

\* Mutant: main ends without sending SIGTERM.
main_forgets_kill ==
  /\ parent = "running"
  /\ \A t \in Threads : pc[t] = "joined"
  /\ ParentEnds("exited")
  /\ UNCHANGED <<reader, older, kernel, pipe, sent>>

\* main: kill(child_pid, SIGTERM) after the joins, clean up and exit.  In a
\* child that survives the signal end_log_process lowers the flag.
main_kill ==
  /\ parent = "running"
  /\ \A t \in Threads : pc[t] = "joined"
  /\ ParentEnds("exited")
  /\ child' = AfterSIGTERM
  /\ run_logprocess' = IF child' \in {"killed", "interrupted", "failed"}
                       THEN run_logprocess ELSE 0
  /\ UNCHANGED <<eof, older, kernel, sequence_number, pipe, log, sent>>
-----------------------------------------------------------------------------
(* The log process.                                                        *)

ChildGoes(from, to) ==
  /\ child = from
  /\ child' = to
  /\ UNCHANGED <<procs, run_logprocess, eof, older, sequence_number, pipe, log, sent>>

child_sigaction == ChildGoes("fork", "fopen") /\ UNCHANGED kernel

\* mkfifo, then fopen(FIFO_NAME, "r"): count as a reader, wait for a writer.
fifo_to_log_fopen ==
  \/ /\ ChildGoes("fopen", "opening")
     /\ writer_seen' = WriterPresent
     /\ reader_seen' = TRUE
  \/ writer_seen /\ ChildGoes("opening", "log_open") /\ UNCHANGED kernel

fifo_to_log_fopen_log ==
  /\ \/ ChildGoes("log_open", "fgets")
     \/ "gateway_log" \in Faults /\ ChildGoes("log_open", "failed")
  /\ UNCHANGED kernel

\* A log process numbers the line that fgets returned and writes it.
Write(stream, number) == Append(stream, [nr |-> number, event |-> Head(pipe)])

\* asprintf or fputs fails: the process exits, and with it goes the line it
\* has taken, and those it has read ahead.
LinesLost == \E n \in 1 .. Len(pipe) : pipe' = SubSeq(pipe, n + 1, Len(pipe))

\* fgets returns the next line.
fifo_to_log_line ==
  /\ child = "fgets"
  /\ pipe # <<>>
  /\ ~ (STICKY_EOF /\ eof)
  /\ sequence_number' = sequence_number + 1
  /\ \/ /\ log' = Write(log, sequence_number')
        /\ pipe' = Tail(pipe)
        /\ UNCHANGED child
     \/ /\ "gateway_log" \in Faults
        /\ child' = "failed"
        /\ LinesLost
        /\ UNCHANGED log
  /\ UNCHANGED <<procs, run_logprocess, eof, older, kernel, sent>>

\* Mutant: the counter runs on when nothing was read.
fifo_to_log_null_counts ==
  /\ child = "fgets"
  /\ (STICKY_EOF /\ eof) \/ (pipe = <<>> /\ ~ WriterPresent)
  /\ child' = "while"
  /\ eof' = TRUE
  /\ sequence_number' = IF sequence_number < 9 THEN sequence_number + 1 ELSE 9
  /\ UNCHANGED <<procs, run_logprocess, older, kernel, pipe, log, sent>>

\* fgets returns NULL: the FIFO is empty and no writer has it open.
fifo_to_log_null ==
  /\ child = "fgets"
  /\ (STICKY_EOF /\ eof) \/ (pipe = <<>> /\ ~ WriterPresent)
  /\ child' = "while"
  /\ eof' = TRUE
  /\ UNCHANGED <<procs, run_logprocess, older, kernel, sequence_number, pipe, log, sent>>

\* Mutant: after an end-of-file the child only waits for the flag.
fifo_to_log_while_spin ==
  /\ \/ run_logprocess = 1 /\ ChildGoes("while", "while")
     \/ run_logprocess = 0 /\ ChildGoes("while", "closing")
  /\ UNCHANGED kernel

\* while (run_logprocess == 1)
fifo_to_log_while ==
  /\ \/ run_logprocess = 1 /\ ChildGoes("while", "fgets")
     \/ run_logprocess = 0 /\ ChildGoes("while", "closing")
  /\ UNCHANGED kernel

\* fclose of both streams, exit(EXIT_SUCCESS).
fifo_to_log_fclose ==
  /\ \/ ChildGoes("closing", "exited")
     \/ "gateway_log" \in Faults /\ ChildGoes("closing", "failed")
  /\ UNCHANGED kernel

(***************************************************************************)
(* A restart.  exit_failure leaves the log process behind: nobody sends it *)
(* SIGTERM, and it goes on asking for lines.  The next run shares the FIFO *)
(* with it and what the FIFO still holds (events "earlier").               *)
(***************************************************************************)
restart ==
  /\ "restart" \in Faults
  /\ parent = "failed"
  /\ child \in Reading
  /\ orphan = "none"
  /\ orphan' = "reading"
  /\ orphan_number' = 0
  /\ orphan_log' = <<>>
  /\ parent' = "running"
  /\ pc' = [t \in Threads |-> "run"]
  /\ child' = "fork"
  /\ run_logprocess' = 1
  /\ eof' = FALSE
  /\ sequence_number' = 0
  /\ log' = <<>>
  /\ pipe' = [k \in DOMAIN pipe |-> [by |-> "earlier", nr |-> k]]
  /\ sent' = pipe'
  /\ UNCHANGED <<mutex_fifo, kernel>>

\* The orphan's fgets takes a line from the FIFO before the child does; it
\* numbers and writes it like the child, or fails.  (An orphan whose
\* end-of-file is sticky met one when the earlier main process ended.)
orphan_line ==
  /\ orphan = "reading"
  /\ ~ STICKY_EOF
  /\ pipe # <<>>
  /\ orphan_number' = orphan_number + 1
  /\ \/ /\ orphan_log' = Write(orphan_log, orphan_number')
        /\ pipe' = Tail(pipe)
        /\ UNCHANGED orphan
     \/ /\ "gateway_log" \in Faults
        /\ orphan' = "failed"
        /\ LinesLost
        /\ UNCHANGED orphan_log
  /\ UNCHANGED <<procs, reader, kernel, sent>>

ThreadStep(t) ==
  \/ log_event(t)
  \/ pthread_mutex_lock(t)
  \/ write_to_fifo_fopen(t)
  \/ write_to_fifo_fputs(t)
  \/ write_to_fifo_fclose(t)
  \/ pthread_exit(t)

ChildStep ==
  \/ child_sigaction
  \/ fifo_to_log_fopen
  \/ fifo_to_log_fopen_log
  \/ fifo_to_log_line
  \/ fifo_to_log_null
  \/ fifo_to_log_while
  \/ fifo_to_log_fclose

\* Both processes have ended.
Terminated ==
  /\ parent # "running"
  /\ child \in {"exited", "failed", "killed", "interrupted"}
  /\ UNCHANGED vars

Next ==
  \/ \E t \in Threads : ThreadStep(t)
  \/ exit_failure
  \/ main_kill
  \/ ChildStep
  \/ restart
  \/ orphan_line
  \/ Terminated

Spec == Init /\ [][Next]_vars

(***************************************************************************)
(* Threads and the child run when they can; a thread waiting for the mutex *)
(* gets it if it is free again and again.  Nothing forces a thread to log  *)
(* or to end: sensors may stay connected for ever.                         *)
(***************************************************************************)
Fairness ==
  /\ \A t \in Threads :
       /\ SF_vars(pthread_mutex_lock(t))
       /\ WF_vars(write_to_fifo_fopen(t))
       /\ WF_vars(write_to_fifo_fputs(t))
       /\ WF_vars(write_to_fifo_fclose(t))
  /\ WF_vars(main_kill)
  /\ WF_vars(ChildStep)

FairSpec == Spec /\ Fairness
-----------------------------------------------------------------------------
Event  == [by : Threads, nr : 1 .. MaxEvents] \cup [by : {"earlier"}, nr : 1 .. PIPE_CAP]
Stream == Seq([nr : Nat, event : Event])

\* The types of the variables.
TypeOK ==
  /\ mutex_fifo \in Threads \cup {NULL}
  /\ pc \in [Threads -> {"run", "lock", "mkfifo", "fopen", "fputs", "fclose",
                         "joined", "gone"}]
  /\ parent \in {"running", "exited", "failed", "sigpipe"}
  /\ child \in {"fork", "fopen", "opening", "log_open", "fgets", "while",
                "closing", "exited", "failed", "killed", "interrupted"}
  /\ run_logprocess \in {0, 1}
  /\ eof \in BOOLEAN /\ writer_seen \in BOOLEAN /\ reader_seen \in BOOLEAN
  /\ orphan \in {"none", "reading", "failed"}
  /\ sequence_number \in Nat /\ orphan_number \in Nat
  /\ pipe \in Seq(Event)
  /\ log \in Stream /\ orphan_log \in Stream
  /\ sent \in Seq(Event)

\* write_to_fifo's callers keep each other out: never two threads between
\* opening and closing the FIFO, whoever blocks in between.
OneWriter ==
  Cardinality({t \in Threads : pc[t] \in {"mkfifo", "fopen", "fputs", "fclose"}}) <= 1

\* Each log process writes its lines in the order in which they were sent and
\* numbers them one by one without a gap, an orphan from where it was; no
\* event is written twice or by both, and none is lost between write_to_fifo
\* and the two streams: what is not written is still to be read, unless a log
\* process has failed (main.c:227, 240, 244, 252, 255).
Sent(e) == SelectInSeq(sent, LAMBDA x : x = e)
Events(stream) == {stream[i].event : i \in DOMAIN stream}
Ordered(stream) ==
  \A j \in DOMAIN stream :
     /\ stream[j].nr = j
     /\ \A i \in 1 .. j - 1 : Sent(stream[i].event) < Sent(stream[j].event)
InOrder ==
  /\ Ordered(log) /\ Ordered(orphan_log)
  /\ Events(log) \cap Events(orphan_log) = {}
  /\ (Events(log) \cup Events(orphan_log)) \cap Range(pipe) = {}
  /\ child # "failed" /\ orphan # "failed" =>
       Range(sent) \subseteq Events(log) \cup Events(orphan_log) \cup Range(pipe)

\* main's SIGTERM finds the log process with its handler installed and past
\* its fopen: the signal always asks it to stop, it never strikes it dead.
\* (Nothing in main waits for the child; the storage manager's first event
\* does, because write_to_fifo waits for the child's fopen.  An orphan ends
\* that wait too early: after a restart the signal may kill the child.)
SafeKill == child \in {"killed", "interrupted"} => orphan # "none"

\* Every event is logged in the end, unless the log process is told to stop
\* or fails on its log file, or an orphan reads along; a main process that
\* fails is no excuse.
EventuallyLogged ==
  \A k \in 1 .. MaxEvents :
     Len(sent) >= k ~> \/ Len(log) >= k
                       \/ run_logprocess = 0 \/ child = "failed" \/ orphan # "none"

\* A thread that wants to log gets its mutex, its reader and room in the
\* FIFO: write_to_fifo returns, unless its process ends or the log process
\* has failed.
LogCallReturns ==
  \A t \in Threads :
    pc[t] = "lock" ~> (pc[t] = "run" \/ parent # "running" \/ child = "failed")

\* The log process ends after the main process did, if main came to its end.
\* (With an orphan the signal may also find it just before its fopen, which
\* then waits for ever: it becomes an orphan itself.)
ChildEnds == parent = "exited" ~> (child \in {"exited", "failed"} \/ orphan # "none")
=============================================================================
