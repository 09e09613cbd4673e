--------------------------- MODULE GatewayProofs ----------------------------
(***************************************************************************)
(* Theorems about Gateway, for every set of measurements, any number of    *)
(* insertions and any faults.                                              *)
(*                                                                         *)
(* The inductive invariant adds to the properties where the storage        *)
(* manager is: before its loop it has no connection, in it it has one      *)
(* (Phase); it has a measurement in hand exactly while it inserts, and     *)
(* that is the last one it was given (Hand); and main waits for what it    *)
(* created (Created, Joined).                                              *)
(***************************************************************************)
EXTENDS Gateway, CommonLemmas, FiniteSetTheorems

given == got["storagemgr"]
rows  == table \o first_data_node

Created ==
  main \in {"create_connmgr", "create_datamgr", "create_storagemgr"} => storagemgr = "none"

Joined ==
  /\ main \in {"join_datamgr", "join_storagemgr", "free", "exited"} => connmgr = "exited"
  /\ main \in {"join_storagemgr", "free", "exited"} => datamgr = "exited"
  /\ main \in {"free", "exited"} => storagemgr = "exited"

Phase ==
  /\ storagemgr \in {"none", "open", "unable", "established", "drop", "create", "created",
                     "failed"} => connection = "NULL"
  /\ storagemgr \in {"loop", "insert", "while", "close"} => connection = "open"
  /\ storagemgr = "lost" => connection = "closed"
  /\ storagemgr = "exited" => connection # "open"
  /\ storagemgr = "created" => table = <<>>
  /\ connection # "NULL" => table \in Seq(Data)

Hand ==
  IF storagemgr = "insert"
  THEN Len(given) \in Kept /\ first_data_node = <<given[Len(given)]>>
  ELSE first_data_node = <<>>

\* The rows in terms of what the storage manager was given.
Rows ==
  IF connection = "NULL"
  THEN given = <<>>
  ELSE /\ Len(rows) = Cardinality(Kept)
       /\ \A k \in Kept : rows[Rank(k)] = given[k]

IInv == TypeOK /\ Created /\ Joined /\ Phase /\ Hand /\ Rows /\ SqlStory
-----------------------------------------------------------------------------
(* The row of a measurement.                                               *)

RankIn(K, k) == Cardinality({i \in K : i <= k})

\* rows holds one element for each number in K, in the order of the numbers.
Fits(r, K, g) ==
  /\ Len(r) = Cardinality(K)
  /\ \A k \in K : r[RankIn(K, k)] = g[k]

LEMMA UpToFinite ==
  ASSUME NEW N \in Nat, NEW K, K \subseteq 1 .. N
  PROVE  IsFiniteSet(K) /\ Cardinality(K) \in Nat
  <1>1. IsFiniteSet(1 .. N)
    BY FS_Interval
  <1>2. IsFiniteSet(K)
    BY <1>1, FS_Subset
  <1> QED
    BY <1>2, FS_CardinalityType

\* A greater number comes last and moves no other.
LEMMA RankFacts ==
  ASSUME NEW N \in Nat, NEW K, K \subseteq 1 .. N
  PROVE  /\ Cardinality(K) \in Nat
         /\ Cardinality(K \cup {N + 1}) = Cardinality(K) + 1
         /\ RankIn(K \cup {N + 1}, N + 1) = Cardinality(K) + 1
         /\ \A k \in K : /\ RankIn(K \cup {N + 1}, k) = RankIn(K, k)
                         /\ RankIn(K, k) \in 1 .. Cardinality(K)
  <1>1. IsFiniteSet(K) /\ Cardinality(K) \in Nat
    BY UpToFinite
  <1>2. N + 1 \notin K
    OBVIOUS
  <1>3. Cardinality(K \cup {N + 1}) = Cardinality(K) + 1
    BY <1>1, <1>2, FS_AddElement
  <1>4. {i \in K \cup {N + 1} : i <= N + 1} = K \cup {N + 1}
    <2>1. \A i \in K \cup {N + 1} : i <= N + 1
      OBVIOUS
    <2> QED
      BY <2>1
  <1>5. ASSUME NEW k \in K
        PROVE  /\ RankIn(K \cup {N + 1}, k) = RankIn(K, k)
               /\ RankIn(K, k) \in 1 .. Cardinality(K)
    <2> DEFINE U == {i \in K : i <= k}
    <2>1. {i \in K \cup {N + 1} : i <= k} = U
      OBVIOUS
    <2>2. U \subseteq K /\ U # {}
      OBVIOUS
    <2> HIDE DEF U
    <2>3. IsFiniteSet(U) /\ Cardinality(U) <= Cardinality(K)
      BY <1>1, <2>2, FS_Subset
    <2>4. Cardinality(U) \in Nat /\ Cardinality(U) # 0
      BY <2>2, <2>3, FS_CardinalityType, FS_EmptySet
    <2> QED
      BY <1>1, <2>1, <2>3, <2>4 DEF RankIn, U
  <1> QED
    BY <1>1, <1>3, <1>4, <1>5 DEF RankIn

\* The row of a new measurement is appended.
LEMMA FitsAdd ==
  ASSUME NEW S, NEW r \in Seq(S), NEW N \in Nat, NEW K, K \subseteq 1 .. N,
         NEW g, NEW h, Fits(r, K, g), \A k \in 1 .. N : h[k] = g[k], h[N + 1] \in S
  PROVE  Fits(Append(r, h[N + 1]), K \cup {N + 1}, h)
  <1>1. /\ Cardinality(K) \in Nat
        /\ Cardinality(K \cup {N + 1}) = Cardinality(K) + 1
        /\ RankIn(K \cup {N + 1}, N + 1) = Cardinality(K) + 1
        /\ \A k \in K : /\ RankIn(K \cup {N + 1}, k) = RankIn(K, k)
                        /\ RankIn(K, k) \in 1 .. Cardinality(K)
    BY RankFacts
  <1>2. /\ Len(Append(r, h[N + 1])) = Len(r) + 1
        /\ Append(r, h[N + 1])[Len(r) + 1] = h[N + 1]
        /\ \A i \in 1 .. Len(r) : Append(r, h[N + 1])[i] = r[i]
    OBVIOUS
  <1> QED
    BY <1>1, <1>2 DEF Fits

\* When the last measurement is lost its row is the only one missing.
LEMMA FitsDrop ==
  ASSUME NEW S, NEW r \in Seq(S), NEW m \in S, NEW N \in Nat, NEW K, K \subseteq 1 .. N,
         NEW g, Fits(r \o <<m>>, K \cup {N + 1}, g)
  PROVE  Fits(r, K, g)
  <1>1. /\ Cardinality(K) \in Nat
        /\ Cardinality(K \cup {N + 1}) = Cardinality(K) + 1
        /\ \A k \in K : /\ RankIn(K \cup {N + 1}, k) = RankIn(K, k)
                        /\ RankIn(K, k) \in 1 .. Cardinality(K)
    BY RankFacts
  <1>2. /\ Len(r) \in Nat /\ Len(r \o <<m>>) = Len(r) + 1
        /\ \A i \in 1 .. Len(r) : (r \o <<m>>)[i] = r[i]
    OBVIOUS
  <1>3. Len(r) = Cardinality(K)
    BY <1>1, <1>2 DEF Fits
  <1> QED
    BY <1>1, <1>2, <1>3 DEF Fits
-----------------------------------------------------------------------------
(* The log-events.                                                         *)

LEMMA CountFacts ==
  ASSUME TypeOK, NEW e
  PROVE  IsFiniteSet({i \in DOMAIN events : events[i] = e}) /\ Count(e) \in Nat
  <1>1. DOMAIN events = 1 .. Len(events) /\ Len(events) \in Nat
    BY DEF TypeOK
  <1>2. {i \in DOMAIN events : events[i] = e} \subseteq 1 .. Len(events)
    BY <1>1
  <1> QED
    BY <1>1, <1>2, UpToFinite DEF Count

\* An event is counted once more when it is logged, the others are not.
LEMMA LogFacts ==
  ASSUME TypeOK, NEW e \in SqlEvents, events' = Append(events, e)
  PROVE  /\ events' \in Seq(SqlEvents) /\ Last(events') = e
         /\ Count(e)' = Count(e) + 1
         /\ \A other \in SqlEvents \ {e} : Count(other)' = Count(other)
  <1> DEFINE N == Len(events)
             At(x) == {i \in DOMAIN events : events[i] = x}
  <1>1. /\ N \in Nat /\ DOMAIN events = 1 .. N /\ DOMAIN events' = 1 .. N + 1
        /\ events' \in Seq(SqlEvents) /\ Len(events') = N + 1 /\ events'[N + 1] = e
        /\ \A i \in 1 .. N : events'[i] = events[i]
    BY DEF TypeOK
  <1>2. At(e)' = At(e) \cup {N + 1} /\ N + 1 \notin At(e)
    BY <1>1
  <1>3. \A other \in SqlEvents \ {e} : At(other)' = At(other)
    BY <1>1
  <1>4. Cardinality(At(e) \cup {N + 1}) = Cardinality(At(e)) + 1
    <2>1. IsFiniteSet(At(e))
      BY CountFacts
    <2> QED
      BY <1>2, <2>1, FS_AddElement
  <1> QED
    BY <1>1, <1>2, <1>3, <1>4 DEF Count, Last
-----------------------------------------------------------------------------
(* The invariant holds at first and every action keeps it.                 *)

LEMMA InitIInv == Init => IInv
  <1> SUFFICES ASSUME Init PROVE IInv
    OBVIOUS
  <1> USE DEF Init, Queue!Init
  <1>1. given = <<>> /\ DOMAIN given = {} /\ Kept = {}
    BY DEF given, Readers, Kept
  <1>2. TypeOK
    <2>1. \A S : <<>> \in Seq(S)
      OBVIOUS
    <2>2. table \in Seq(Data) \cup {NoTable}
      <3>1. \A d \in Data : <<d>> \in Seq(Data)
        OBVIOUS
      <3> QED
        BY <3>1
    <2>3. got \in [Readers -> Seq(Data)]
      BY <2>1
    <2>4. first_data_node \in Seq(Data) /\ Len(first_data_node) <= 1 /\ inserted \in Seq(Data)
      BY <2>1
    <2>5. events \in Seq(SqlEvents)
      BY <2>1
    <2> QED
      BY <2>2, <2>3, <2>4, <2>5 DEF TypeOK
  <1>3. Created /\ Joined /\ Phase /\ Hand
    BY DEF Created, Joined, Phase, Hand
  <1>4. Rows
    BY <1>1 DEF Rows, given
  <1>5. SqlStory
    <2>1. \A e : {i \in DOMAIN events : events[i] = e} = {}
      OBVIOUS
    <2>2. \A e : Count(e) = 0
      BY <2>1, FS_EmptySet DEF Count
    <2> QED
      BY <2>2 DEF SqlStory
  <1> QED
    BY <1>2, <1>3, <1>4, <1>5 DEF IInv

\* main creates and joins threads; nothing else changes.
LEMMA MainIInv ==
  ASSUME IInv, main_step, UNCHANGED logger
  PROVE  IInv'
  <1> USE DEF main_create_connmgr, main_create_datamgr, main_create_storagemgr,
              main_join_connmgr, main_join_datamgr, main_join_storagemgr, main_free
  <1>1. UNCHANGED <<dbvars, qvars>>
    BY DEF main_step
  <1>2. UNCHANGED <<attempt_nr, connection, table, first_data_node, failed, events, inserted, got>>
    BY <1>1 DEF dbvars, qvars
  <1>3. storagemgr' = storagemgr \/ (storagemgr = "none" /\ storagemgr' = "open")
    BY DEF main_step, IInv, Created
  <1>4. Kept' = Kept /\ \A k : Rank(k)' = Rank(k)
    BY <1>2 DEF Kept, Rank
  <1>5. \A e : Count(e)' = Count(e)
    BY <1>2 DEF Count
  <1>6. TypeOK'
    BY <1>2 DEF main_step, IInv, TypeOK
  <1>7. Created' /\ Joined'
    BY DEF main_step, IInv, Created, Joined, TypeOK
  <1>8. Phase' /\ Hand'
    BY <1>2, <1>3, <1>4 DEF IInv, Phase, Hand, given
  <1>9. Rows'
    BY <1>2, <1>4 DEF IInv, Rows, rows, given
  <1>10. SqlStory'
    BY <1>2, <1>3, <1>5 DEF IInv, SqlStory
  <1> QED
    BY <1>6, <1>7, <1>8, <1>9, <1>10 DEF IInv

\* The connection manager and the data manager leave the storage manager
\* alone, and what it was given.
LEMMA OthersIInv ==
  ASSUME IInv, TypeOK', Joined',
         UNCHANGED <<main, storagemgr, attempt_nr, connection, table, first_data_node, failed,
                     events, got["storagemgr"]>>
  PROVE  IInv'
  <1>1. Kept' = Kept /\ \A k : Rank(k)' = Rank(k)
    BY DEF Kept, Rank
  <1>2. \A e : Count(e)' = Count(e)
    BY DEF Count
  <1>3. Created' /\ Phase' /\ Hand'
    BY <1>1 DEF IInv, Created, Phase, Hand, given
  <1>4. Rows' /\ SqlStory'
    BY <1>1, <1>2 DEF IInv, Rows, rows, given, SqlStory
  <1> QED
    BY <1>3, <1>4 DEF IInv

LEMMA ConnmgrIInv ==
  ASSUME IInv, connmgr_insert \/ connmgr_exit, UNCHANGED logger
  PROVE  IInv'
  <1>1. UNCHANGED <<process, main, datamgr, storagemgr, run, attempt_nr, connection, table,
                    first_data_node, failed, events, got>>
    BY DEF connmgr_insert, connmgr_exit, threads, dbvars, qvars, Queue!Insert
  <1>2. connmgr = "listen" /\ connmgr' \in {"listen", "exited"}
    BY DEF connmgr_insert, connmgr_exit, threads
  <1>3. inserted' \in Seq(Data)
    <2>1. CASE connmgr_insert
      <3>1. PICK d \in Data : inserted' = Append(inserted, d)
        BY <2>1 DEF connmgr_insert, Queue!Insert
      <3>2. inserted \in Seq(Data)
        BY DEF IInv, TypeOK
      <3> QED
        BY <3>1, <3>2
    <2>2. CASE connmgr_exit
      BY <2>2 DEF connmgr_exit, qvars, IInv, TypeOK
    <2> QED
      BY <2>1, <2>2
  <1>4. TypeOK'
    BY <1>1, <1>2, <1>3 DEF IInv, TypeOK
  <1>5. Joined'
    BY <1>1, <1>2 DEF IInv, Joined
  <1> QED
    BY <1>1, <1>4, <1>5, OthersIInv

\* What a reader is given is appended to what it was given before.
LEMMA RemoveFacts ==
  ASSUME TypeOK, NEW r \in Readers, sbuffer_remove(r)
  PROVE  /\ inserted' = inserted /\ got' \in [Readers -> Seq(Data)]
         /\ \A other \in Readers \ {r} : got'[other] = got[other]
         /\ \/ got' = got
            \/ \E m \in Data : got'[r] = Append(got[r], m)
  <1>1. CASE Queue!Deliver(r)
    <2> DEFINE m == inserted[Len(got[r]) + 1]
    <2>1. m \in Data /\ got' = [got EXCEPT ![r] = Append(@, m)] /\ inserted' = inserted
      BY <1>1 DEF Queue!Deliver, Queue!NextFor, TypeOK
    <2> HIDE DEF m
    <2> QED
      BY <2>1 DEF TypeOK
  <1>2. CASE UNCHANGED qvars
    BY <1>2 DEF qvars, TypeOK
  <1> QED
    BY <1>1, <1>2 DEF sbuffer_remove

LEMMA DatamgrIInv ==
  ASSUME IInv, datamgr_step, UNCHANGED logger
  PROVE  IInv'
  <1>1. UNCHANGED <<process, main, connmgr, storagemgr, run, attempt_nr, connection, table,
                    first_data_node, failed, events>>
    BY DEF datamgr_step, dbvars
  <1>2. datamgr \in {"map", "loop", "log", "while"} /\ datamgr' \in {"loop", "log", "while", "exited"}
    BY DEF datamgr_step
  <1>3. /\ inserted' = inserted /\ got' \in [Readers -> Seq(Data)]
        /\ got'["storagemgr"] = got["storagemgr"]
    <2>1. CASE sbuffer_remove("datamgr")
      <3>1. "datamgr" \in Readers /\ "storagemgr" \in Readers \ {"datamgr"}
        BY DEF Readers
      <3> QED
        BY <2>1, <3>1, RemoveFacts DEF IInv
    <2>2. CASE UNCHANGED qvars
      BY <2>2 DEF qvars, IInv, TypeOK
    <2> QED
      BY <2>1, <2>2 DEF datamgr_step
  <1>4. TypeOK'
    BY <1>1, <1>2, <1>3 DEF IInv, TypeOK
  <1>5. Joined'
    BY <1>1, <1>2 DEF IInv, Joined
  <1> QED
    BY <1>1, <1>3, <1>4, <1>5, OthersIInv

\* A step of the storage manager: main neither is before its creation nor
\* has joined it.
LEMMA StorageControl ==
  ASSUME IInv, storagemgr \notin {"none", "exited"}, UNCHANGED <<main, connmgr, datamgr, run>>
  PROVE  Created' /\ Joined'
  BY DEF IInv, Created, Joined

\* The steps of the storage manager before its loop: there is no connection
\* and no measurement, and nothing is logged yet.
LEMMA ConnectIInv ==
  ASSUME IInv, UNCHANGED <<main, connmgr, datamgr, run, logger>>,
         \/ init_connection_open \/ init_connection_drop \/ init_connection_failed
         \/ init_connection_create
  PROVE  IInv'
  <1>1. UNCHANGED <<process, connection, first_data_node, failed, events, inserted, got>>
    BY DEF init_connection_open, init_connection_drop, init_connection_failed,
           init_connection_create, dbvars, qvars
  <1>2. storagemgr \in {"open", "drop", "create", "failed"} /\ connection = "NULL"
        /\ first_data_node = <<>> /\ given = <<>>
    BY DEF init_connection_open, init_connection_drop, init_connection_failed,
           init_connection_create, IInv, Phase, Hand, Rows, given
  <1>3. /\ storagemgr' \in {"open", "unable", "established", "drop", "create", "created", "failed",
                            "exited"}
        /\ storagemgr' = "created" => table' = <<>>
        /\ attempt_nr' \in 1 .. 3
        /\ IF storagemgr' = "open" THEN storagemgr = "failed" /\ attempt_nr' = attempt_nr + 1
           ELSE attempt_nr' = attempt_nr
        /\ storagemgr = "open" <=> storagemgr' \in {"unable", "established"}
    BY <1>2 DEF init_connection_open, init_connection_drop, init_connection_failed,
           init_connection_create, IInv, TypeOK, dbvars
  <1>4. table' \in Seq(Data) \cup {NoTable}
    <2>1. table' \in {table, NoTable, <<>>}
      BY DEF init_connection_open, init_connection_drop, init_connection_failed,
             init_connection_create, dbvars
    <2>2. <<>> \in Seq(Data) /\ table \in Seq(Data) \cup {NoTable}
      BY DEF IInv, TypeOK
    <2> QED
      BY <2>1, <2>2
  <1>5. TypeOK'
    BY <1>1, <1>3, <1>4 DEF IInv, TypeOK, SqlEvents
  <1>6. Created' /\ Joined'
    BY <1>2, StorageControl DEF SqlEvents
  <1>7. Phase' /\ Hand' /\ Rows'
    BY <1>1, <1>2, <1>3 DEF Phase, Hand, Rows, given
  <1>8. \A e : Count(e)' = Count(e)
    BY <1>1 DEF Count
  <1>9. SqlStory'
    BY <1>1, <1>2, <1>3, <1>8 DEF IInv, TypeOK, SqlStory
  <1> QED
    BY <1>5, <1>6, <1>7, <1>9 DEF IInv

\* The event becomes part of the story, and the storage manager goes on; with
\* "created" the table is there and empty, and nothing has been given yet.
LEMMA WriteIInv ==
  ASSUME IInv, UNCHANGED <<main, connmgr, datamgr, run, logger>>, write_to_fifo
  PROVE  IInv'
  <1>0. PICK e \in SqlEvents : storagemgr = e
    BY DEF write_to_fifo
  <1>1. /\ events' = Append(events, e)
        /\ UNCHANGED <<process, attempt_nr, table, first_data_node, failed, inserted, got>>
        /\ connection' = IF storagemgr = "created" THEN "open" ELSE connection
    BY <1>0 DEF write_to_fifo, qvars
  <1>2. /\ storagemgr = "established" => storagemgr' = "drop"
        /\ storagemgr = "unable" => storagemgr' = "failed"
        /\ storagemgr = "created" => storagemgr' = "loop"
        /\ storagemgr = "lost" => storagemgr' = "exited"
    BY DEF write_to_fifo
  <1>3. /\ events' \in Seq(SqlEvents) /\ Last(events') = e
        /\ Count(e)' = Count(e) + 1
        /\ \A other \in SqlEvents \ {e} : Count(other)' = Count(other)
    BY <1>1, LogFacts DEF IInv
  <1>4. \A x : Count(x) \in Nat
    BY CountFacts DEF IInv
  <1>5. TypeOK'
    BY <1>0, <1>1, <1>2, <1>3 DEF IInv, TypeOK, SqlEvents
  <1>6. Created' /\ Joined'
    BY <1>0, StorageControl DEF SqlEvents
  <1>7. Phase' /\ Hand'
    <2>1. <<>> \in Seq(Data)
      OBVIOUS
    <2> QED
      BY <1>0, <1>1, <1>2, <2>1 DEF IInv, Phase, Hand, SqlEvents
  <1>8. Kept' = Kept /\ \A k : Rank(k)' = Rank(k)
    BY <1>1 DEF Kept, Rank
  <1>9. Rows'
    <2>1. CASE storagemgr = "created"
      <3>1. table' = <<>> /\ first_data_node' = <<>> /\ given' = <<>> /\ connection' = "open"
        BY <1>1, <2>1 DEF IInv, Phase, Hand, Rows, given
      <3>2. Kept' = {}
        BY <3>1 DEF Kept, given
      <3>3. Cardinality({}) = 0
        BY FS_EmptySet
      <3>4. Len(table' \o first_data_node') = 0
        BY <3>1
      <3> QED
        BY <3>1, <3>2, <3>3, <3>4 DEF Rows, rows, given
    <2>2. CASE storagemgr # "created"
      BY <1>1, <1>8, <2>2 DEF IInv, Rows, rows, given
    <2> QED
      BY <2>1, <2>2
  <1>10. SqlStory'
    <2>1. CASE storagemgr \in {"unable", "established"}
      <3>1. Count("unable")' + Count("established")' = Count("unable") + Count("established") + 1
        BY <1>0, <1>3, <1>4, <2>1 DEF SqlEvents
      <3>2. Count("created")' = Count("created") /\ Count("lost")' = Count("lost")
        BY <1>0, <1>3, <2>1 DEF SqlEvents
      <3>3. connection = "NULL" /\ connection' = "NULL" /\ storagemgr' \in {"drop", "failed"}
        BY <1>1, <1>2, <2>1 DEF IInv, Phase
      <3>4. Count("unable")' + Count("established")' = attempt_nr'
        <4>1. Count("unable") + Count("established") = attempt_nr - 1
          BY <2>1 DEF IInv, SqlStory
        <4>2. attempt_nr' = attempt_nr /\ attempt_nr \in Int
          BY <1>1 DEF IInv, TypeOK
        <4> QED
          BY <3>1, <4>1, <4>2
      <3> QED
        BY <3>2, <3>3, <3>4 DEF IInv, SqlStory
    <2>2. CASE storagemgr = "created"
      <3>1. connection = "NULL" /\ connection' = "open" /\ storagemgr' = "loop"
        BY <1>1, <1>2, <2>2 DEF IInv, Phase
      <3> QED
        BY <1>0, <1>1, <1>3, <2>2, <3>1 DEF IInv, SqlStory, SqlEvents
    <2>3. CASE storagemgr = "lost"
      <3>1. connection = "closed" /\ connection' = "closed" /\ storagemgr' = "exited"
        BY <1>1, <1>2, <2>3 DEF IInv, Phase
      <3> QED
        BY <1>0, <1>1, <1>3, <2>3, <3>1 DEF IInv, SqlStory, SqlEvents
    <2> QED
      BY <1>0, <2>1, <2>2, <2>3 DEF SqlEvents
  <1> QED
    BY <1>5, <1>6, <1>7, <1>9, <1>10 DEF IInv

\* While the storage manager is connected Rows says that the rows fit.
LEMMA RowsFits ==
  ASSUME connection # "NULL"
  PROVE  Rows <=> Fits(rows, Kept, given)
  BY DEF Rows, Fits, rows, RankIn, Rank, given

LEMMA RowsFitsPrime ==
  ASSUME connection' # "NULL"
  PROVE  Rows' <=> Fits(rows', Kept', given')
  BY DEF Rows, Fits, rows, RankIn, Rank, given

\* The steps in the loop log nothing.
LEMMA LoopStory ==
  ASSUME IInv, storagemgr \in {"loop", "insert", "while"},
         storagemgr' \in {"loop", "insert", "while", "close"},
         UNCHANGED <<attempt_nr, connection, events>>
  PROVE  SqlStory'
  <1>1. \A e : Count(e)' = Count(e)
    BY DEF Count
  <1> QED
    BY <1>1 DEF IInv, SqlStory

\* What the storage manager is given next is in hand, unless its id is 0.
LEMMA RemoveIInv ==
  ASSUME IInv, UNCHANGED <<main, connmgr, datamgr, run, logger>>, storagemgr_remove
  PROVE  IInv'
  <1> DEFINE N == Len(given)
  <1>1. /\ storagemgr = "loop" /\ sbuffer_remove("storagemgr")
        /\ UNCHANGED <<process, attempt_nr, connection, table, failed, events>>
    BY DEF storagemgr_remove
  <1>2. /\ connection = "open" /\ table \in Seq(Data) /\ first_data_node = <<>>
        /\ given \in Seq(Data) /\ N \in Nat /\ DOMAIN given = 1 .. N /\ failed \subseteq 1 .. N
    <2>1. given \in Seq(Data)
      BY DEF IInv, TypeOK, given, Readers
    <2> QED
      BY <1>1, <2>1 DEF IInv, Phase, Hand, TypeOK, given
  <1>3. rows = table
    BY <1>2 DEF rows
  <1>4. Fits(table, Kept, given) /\ Kept \subseteq 1 .. N
    <2>1. Fits(rows, Kept, given)
      BY <1>2, RowsFits DEF IInv
    <2> QED
      BY <1>2, <1>3, <2>1 DEF Kept, given
  <1>5. /\ inserted' = inserted /\ got' \in [Readers -> Seq(Data)]
        /\ got' = got \/ \E m \in Data : given' = Append(given, m)
    BY <1>1, RemoveFacts DEF Readers, IInv, given
  <1>6. Created' /\ Joined'
    BY <1>1, StorageControl
  <1>7. storagemgr' \in {"while", "insert"} /\ SqlStory'
    BY <1>1, LoopStory DEF storagemgr_remove
  <1>8. CASE got' = got
    <2>1. first_data_node' = <<>> /\ storagemgr' = "while"
      BY <1>8 DEF storagemgr_remove
    <2>2. TypeOK'
      BY <1>1, <1>2, <1>5, <1>8, <2>1 DEF IInv, TypeOK
    <2>3. Phase' /\ Hand'
      BY <1>1, <1>2, <2>1 DEF Phase, Hand
    <2>4. Kept' = Kept /\ given' = given /\ rows' = rows
      BY <1>1, <1>2, <1>8, <2>1 DEF Kept, given, rows
    <2>5. Rows'
      BY <1>1, <1>2, <1>3, <1>4, <2>4, RowsFitsPrime
    <2> QED
      BY <1>6, <1>7, <2>2, <2>3, <2>5 DEF IInv
  <1>9. ASSUME NEW m \in Data, given' = Append(given, m) PROVE IInv'
    <2>1. /\ given' \in Seq(Data) /\ Len(given') = N + 1 /\ DOMAIN given' = 1 .. N + 1
          /\ given'[N + 1] = m /\ \A k \in 1 .. N : given'[k] = given[k]
      BY <1>2, <1>9
    <2>2. got' # got
      BY <1>2, <2>1 DEF given
    <2>3. first_data_node' = IF m \notin ZeroId THEN <<m>> ELSE <<>>
      BY <2>1, <2>2 DEF storagemgr_remove, Last, given
    <2>4. first_data_node' \in Seq(Data) /\ Len(first_data_node') <= 1
      BY <2>3
    <2>5. TypeOK'
      <3>1. failed' \subseteq DOMAIN given'
        BY <1>1, <1>2, <2>1
      <3> QED
        BY <1>1, <1>5, <1>7, <2>4, <3>1 DEF IInv, TypeOK, given
    <2>6. Kept' = IF m \notin ZeroId THEN Kept \cup {N + 1} ELSE Kept
      <3>1. Kept' = {k \in 1 .. N + 1 : given'[k] \notin ZeroId /\ k \notin failed}
        BY <1>1, <2>1 DEF Kept, given
      <3>2. Kept = {k \in 1 .. N : given[k] \notin ZeroId /\ k \notin failed}
        BY <1>2 DEF Kept, given
      <3>3. N + 1 \notin failed
        BY <1>2
      <3> QED
        BY <1>2, <2>1, <3>1, <3>2, <3>3
    <2>7. CASE m \notin ZeroId
      <3>1. first_data_node' = <<m>> /\ storagemgr' = "insert"
        <4>1. first_data_node' = <<m>> /\ first_data_node' # <<>>
          BY <2>3, <2>7
        <4> QED
          BY <4>1 DEF storagemgr_remove
      <3>2. Phase' /\ Hand'
        BY <1>1, <1>2, <2>1, <2>6, <2>7, <3>1 DEF Phase, Hand
      <3>3. rows' = Append(table, m)
        BY <1>1, <1>2, <3>1 DEF rows
      <3>4. Fits(Append(table, given'[N + 1]), Kept \cup {N + 1}, given')
        BY <1>2, <1>4, <2>1, FitsAdd
      <3>5. Rows'
        BY <1>1, <1>2, <2>1, <2>6, <2>7, <3>3, <3>4, RowsFitsPrime
      <3> QED
        BY <1>6, <1>7, <2>5, <3>2, <3>5 DEF IInv
    <2>8. CASE m \in ZeroId
      <3>1. first_data_node' = <<>> /\ storagemgr' = "while"
        BY <2>3, <2>8 DEF storagemgr_remove
      <3>2. Phase' /\ Hand'
        BY <1>1, <1>2, <3>1 DEF Phase, Hand
      <3>3. rows' = table /\ Kept' = Kept
        BY <1>1, <1>2, <2>6, <2>8, <3>1 DEF rows
      <3>4. Fits(table, Kept, given')
        BY <1>4, <2>1 DEF Fits
      <3>5. Rows'
        BY <1>1, <1>2, <3>3, <3>4, RowsFitsPrime
      <3> QED
        BY <1>6, <1>7, <2>5, <3>2, <3>5 DEF IInv
    <2> QED
      BY <2>7, <2>8
  <1> QED
    BY <1>5, <1>8, <1>9

\* The INSERT makes the measurement in hand a row, or loses it alone.
LEMMA InsertIInv ==
  ASSUME IInv, UNCHANGED <<main, connmgr, datamgr, run, logger>>, insert_sensor
  PROVE  IInv'
  <1> DEFINE N == Len(given)
  <1>1. /\ storagemgr = "insert" /\ storagemgr' = "while" /\ first_data_node' = <<>>
        /\ UNCHANGED <<process, attempt_nr, connection, events, inserted, got>>
    BY DEF insert_sensor, qvars
  <1>2. /\ connection = "open" /\ table \in Seq(Data)
        /\ given \in Seq(Data) /\ N \in Nat /\ DOMAIN given = 1 .. N /\ failed \subseteq 1 .. N
        /\ N \in Kept /\ first_data_node = <<given[N]>>
    <2>1. given \in Seq(Data)
      BY DEF IInv, TypeOK, given, Readers
    <2> QED
      BY <1>1, <2>1 DEF IInv, Phase, Hand, TypeOK, given
  <1>3. N \in 1 .. N /\ given[N] \in Data
    BY <1>2 DEF Kept, given
  <1>4. Fits(rows, Kept, given)
    BY <1>2, RowsFits DEF IInv
  <1>5. Created' /\ Joined' /\ SqlStory'
    BY <1>1, StorageControl, LoopStory
  <1>6. given' = given
    BY <1>1 DEF given
  <1>7. CASE table' = table \o first_data_node /\ UNCHANGED failed
    <2>1. table' \in Seq(Data) /\ table' \o <<>> = table'
      BY <1>2, <1>3, <1>7
    <2>2. rows' = rows /\ Kept' = Kept
      BY <1>1, <1>7, <2>1 DEF rows, Kept
    <2>3. TypeOK'
      BY <1>1, <1>7, <2>1 DEF IInv, TypeOK
    <2>4. Phase' /\ Hand'
      BY <1>1, <1>2, <2>1 DEF Phase, Hand
    <2>5. Rows'
      BY <1>1, <1>2, <1>4, <1>6, <2>2, RowsFitsPrime
    <2> QED
      BY <1>5, <2>3, <2>4, <2>5 DEF IInv
  <1>8. CASE failed' = failed \cup {N} /\ UNCHANGED table
    <2>1. Kept' = Kept \ {N}
      BY <1>1, <1>8 DEF Kept
    <2>2. /\ Kept \ {N} \subseteq 1 .. N - 1 /\ N - 1 \in Nat /\ (N - 1) + 1 = N
          /\ (Kept \ {N}) \cup {N} = Kept
      BY <1>2, <1>3 DEF Kept, given
    <2>3. rows = table \o <<given[N]>>
      BY <1>2 DEF rows
    <2>4. Fits(table, Kept \ {N}, given)
      <3> DEFINE K == Kept \ {N}
                 P == N - 1
                 m == given[N]
      <3>1. P \in Nat /\ K \subseteq 1 .. P /\ Fits(table \o <<m>>, K \cup {P + 1}, given)
        BY <1>4, <2>2, <2>3
      <3>2. m \in Data
        BY <1>3
      <3> HIDE DEF K, P, m
      <3>3. Fits(table, K, given)
        BY <1>2, <3>1, <3>2, FitsDrop
      <3> QED
        BY <3>3 DEF K
    <2>5. rows' = table
      BY <1>1, <1>2, <1>8 DEF rows
    <2>6. TypeOK'
      <3>1. failed' \subseteq DOMAIN got'["storagemgr"]
        BY <1>1, <1>2, <1>3, <1>8 DEF given
      <3> QED
        BY <1>1, <1>8, <3>1 DEF IInv, TypeOK
    <2>7. Phase' /\ Hand'
      BY <1>1, <1>2, <1>8 DEF Phase, Hand
    <2>8. Rows'
      BY <1>1, <1>2, <1>6, <2>1, <2>4, <2>5, RowsFitsPrime
    <2> QED
      BY <1>5, <2>6, <2>7, <2>8 DEF IInv
  <1> QED
    BY <1>7, <1>8 DEF insert_sensor, given

LEMMA WhileIInv ==
  ASSUME IInv, UNCHANGED <<main, connmgr, datamgr, run, logger>>, storagemgr_while
  PROVE  IInv'
  <1>1. /\ storagemgr = "while" /\ storagemgr' \in {"loop", "close"}
        /\ UNCHANGED <<process, attempt_nr, connection, table, first_data_node, failed, events,
                       inserted, got>>
    BY DEF storagemgr_while, dbvars, qvars
  <1>2. Kept' = Kept /\ \A k : Rank(k)' = Rank(k)
    BY <1>1 DEF Kept, Rank
  <1>3. TypeOK'
    BY <1>1 DEF IInv, TypeOK
  <1>4. Created' /\ Joined' /\ SqlStory'
    BY <1>1, StorageControl, LoopStory
  <1>5. Phase' /\ Hand' /\ Rows'
    BY <1>1, <1>2 DEF IInv, Phase, Hand, Rows, rows, given
  <1> QED
    BY <1>3, <1>4, <1>5 DEF IInv

\* The database is closed, which is still to be logged; or the process aborts.
LEMMA DisconnectIInv ==
  ASSUME IInv, UNCHANGED <<main, connmgr, datamgr, run, logger>>, disconnect
  PROVE  IInv'
  <1>1. /\ storagemgr = "close"
        /\ UNCHANGED <<attempt_nr, table, first_data_node, failed, events, inserted, got>>
    BY DEF disconnect, qvars
  <1>2. connection = "open" /\ first_data_node = <<>> /\ table \in Seq(Data)
    BY <1>1 DEF IInv, Phase, Hand
  <1>3. Kept' = Kept /\ \A k : Rank(k)' = Rank(k)
    BY <1>1 DEF Kept, Rank
  <1>4. Created' /\ Joined'
    BY <1>1, StorageControl
  <1>5. CASE connection' = "closed" /\ storagemgr' = "lost" /\ UNCHANGED process
    <2>1. \A e : Count(e)' = Count(e)
      BY <1>1 DEF Count
    <2>2. TypeOK'
      BY <1>1, <1>5 DEF IInv, TypeOK, SqlEvents
    <2>3. Phase' /\ Hand' /\ Rows'
      BY <1>1, <1>2, <1>3, <1>5 DEF IInv, Phase, Hand, Rows, rows, given
    <2>4. SqlStory'
      BY <1>1, <1>2, <1>5, <2>1 DEF IInv, SqlStory
    <2> QED
      BY <1>4, <2>2, <2>3, <2>4 DEF IInv
  <1>6. CASE process' = "failure" /\ UNCHANGED <<storagemgr, connection>>
    <2>1. TypeOK'
      BY <1>1, <1>6 DEF IInv, TypeOK
    <2>2. Phase' /\ Hand' /\ Rows'
      BY <1>1, <1>2, <1>3, <1>6 DEF IInv, Phase, Hand, Rows, rows, given
    <2>3. \A e : Count(e)' = Count(e)
      BY <1>1 DEF Count
    <2>4. SqlStory'
      BY <1>1, <1>6, <2>3 DEF IInv, SqlStory
    <2> QED
      BY <1>4, <2>1, <2>2, <2>4 DEF IInv
  <1> QED
    BY <1>5, <1>6 DEF disconnect

LEMMA StorageIInv ==
  ASSUME IInv, storagemgr_step, UNCHANGED logger
  PROVE  IInv'
  BY ConnectIInv, WriteIInv, RemoveIInv, InsertIInv, WhileIInv, DisconnectIInv
  DEF storagemgr_step

LEMMA NextIInv == IInv /\ [Next]_vars => IInv'
  <1> SUFFICES ASSUME IInv, [Next]_vars PROVE IInv'
    OBVIOUS
  <1>1. ASSUME UNCHANGED <<threads, run, dbvars, qvars>>,
               process' = process \/ process' = "failure", logger' \in {logger, "failed"}
        PROVE  IInv'
    <2> USE <1>1 DEF threads, dbvars, qvars
    <2>1. TypeOK' /\ Joined'
      BY DEF IInv, TypeOK, Joined
    <2> QED
      BY <2>1, OthersIInv
  <1> QED
    BY <1>1, MainIInv, ConnmgrIInv, DatamgrIInv, StorageIInv
    DEF Next, Running, exit_failure, log_process_fails, Exited, vars

LEMMA Invariance == Spec => []IInv
  BY InitIInv, NextIInv, PTL DEF Spec

-----------------------------------------------------------------------------
(* The readers and the stream.                                             *)

\* Every step inserts one measurement, gives one reader its next one, or
\* leaves the stream alone.
LEMMA StreamStep == [Next]_vars => [Queue!Next]_(Queue!qvars)
  <1> SUFFICES ASSUME [Next]_vars PROVE Queue!Next \/ UNCHANGED <<inserted, got>>
    BY DEF Queue!qvars
  <1>1. ASSUME connmgr_insert PROVE Queue!Next
    BY <1>1 DEF connmgr_insert, Queue!Next
  <1>2. ASSUME NEW r \in Readers, sbuffer_remove(r)
        PROVE  Queue!Next \/ UNCHANGED <<inserted, got>>
    BY <1>2 DEF sbuffer_remove, Queue!Next, qvars
  <1>3. ASSUME datamgr_step PROVE Queue!Next \/ UNCHANGED <<inserted, got>>
    BY <1>2, <1>3 DEF datamgr_step, qvars, Readers
  <1>4. ASSUME storagemgr_step PROVE Queue!Next \/ UNCHANGED <<inserted, got>>
    <2>1. CASE storagemgr_remove
      BY <1>2, <2>1 DEF storagemgr_remove, Readers
    <2>2. CASE ~ storagemgr_remove
      BY <1>4, <2>2
      DEF storagemgr_step, write_to_fifo, init_connection_open, init_connection_drop,
          init_connection_create, init_connection_failed, insert_sensor, storagemgr_while, disconnect, qvars
    <2> QED
      BY <2>1, <2>2
  <1>5. ASSUME main_step \/ connmgr_exit \/ exit_failure \/ log_process_fails
               \/ UNCHANGED vars
        PROVE  UNCHANGED <<inserted, got>>
    BY <1>5 DEF main_step, connmgr_exit, exit_failure, log_process_fails, vars, qvars
  <1> QED
    BY <1>1, <1>3, <1>4, <1>5 DEF Next, Running, Exited

\* What a reader was given is what was inserted, up to where it is.
Prefix ==
  \A r \in Readers :
    /\ Len(got[r]) <= Len(inserted)
    /\ \A k \in 1 .. Len(got[r]) : got[r][k] = inserted[k]

LEMMA PrefixInvariance == Spec => []Prefix
  <1>1. Init => Prefix
    BY DEF Init, Queue!Init, Prefix
  <1>2. TypeOK /\ Prefix /\ [Next]_vars => Prefix'
    <2> SUFFICES ASSUME TypeOK, Prefix, Queue!Next \/ UNCHANGED <<inserted, got>> PROVE Prefix'
      BY StreamStep DEF Queue!qvars
    <2>1. inserted \in Seq(Data) /\ Len(inserted) \in Nat
          /\ \A r \in Readers : got[r] \in Seq(Data) /\ Len(got[r]) \in Nat
      BY DEF TypeOK
    <2>2. ASSUME NEW d \in Data, Queue!Insert(d) PROVE Prefix'
      <3>1. /\ got' = got /\ Len(inserted') = Len(inserted) + 1
            /\ \A k \in 1 .. Len(inserted) : inserted'[k] = inserted[k]
        BY <2>1, <2>2 DEF Queue!Insert
      <3> QED
        BY <2>1, <3>1 DEF Prefix
    <2>3. ASSUME NEW r \in Readers, Queue!Deliver(r) PROVE Prefix'
      <3> DEFINE m == inserted[Len(got[r]) + 1]
      <3>1. /\ Len(got[r]) < Len(inserted) /\ m \in Data /\ inserted' = inserted
            /\ got' = [got EXCEPT ![r] = Append(got[r], m)]
        BY <2>1, <2>3 DEF Queue!Deliver, Queue!NextFor
      <3> HIDE DEF m
      <3>2. /\ got'[r] = Append(got[r], m)
            /\ \A other \in Readers \ {r} : got'[other] = got[other]
        BY <3>1 DEF TypeOK
      <3>3. /\ Len(got'[r]) = Len(got[r]) + 1 /\ got'[r][Len(got[r]) + 1] = m
            /\ \A k \in 1 .. Len(got[r]) : got'[r][k] = got[r][k]
        BY <2>1, <3>1, <3>2
      <3> QED
        BY <2>1, <3>1, <3>2, <3>3 DEF Prefix, m
    <2>4. CASE UNCHANGED <<inserted, got>>
      BY <2>4 DEF Prefix
    <2> QED
      BY <2>2, <2>3, <2>4 DEF Queue!Next
  <1>3. IInv => TypeOK
    BY DEF IInv
  <1> QED
    BY <1>1, <1>2, <1>3, Invariance, PTL DEF Spec
-----------------------------------------------------------------------------
\* TypeOK: the flags, the attempts and the states of main and its threads
\* keep their types.
THEOREM TypeCorrect == Spec => []TypeOK
  <1>1. IInv => TypeOK
    BY DEF IInv
  <1> QED
    BY <1>1, Invariance, PTL

\* Stored: the table holds the measurements that the storage
\* manager was given, in order and once, and no row of an earlier run; each
\* failing INSERT costs one measurement and no other.
THEOREM TableHoldsMeasurements == Spec => []Stored
  <1>1. IInv /\ Prefix => Stored
    <2> SUFFICES ASSUME IInv, Prefix PROVE Stored
      OBVIOUS
    <2>1. given \in Seq(Data) /\ Kept \subseteq 1 .. Len(given)
      BY DEF IInv, TypeOK, Readers, given, Kept
    <2>2. \A k \in Kept : given[k] = inserted[k]
      BY <2>1 DEF Prefix, Readers, given
    <2> QED
      BY <2>2 DEF IInv, Rows, Stored, rows, given
  <1> QED
    BY <1>1, Invariance, PrefixInvariance, PTL

\* SqlStory: the log-events of sensor_db.c tell what became of the database.
THEOREM LogTellsDatabase == Spec => []SqlStory
  <1>1. IInv => SqlStory
    BY DEF IInv
  <1> QED
    BY <1>1, Invariance, PTL

\* CleanEnd: main frees the shared buffer after every thread has ended, with
\* no measurement in hand and no database left open.
THEOREM MainEndsLast == Spec => []CleanEnd
  <1>1. IInv => CleanEnd
    BY DEF IInv, Joined, Phase, Hand, CleanEnd
  <1> QED
    BY <1>1, Invariance, PTL
=============================================================================
