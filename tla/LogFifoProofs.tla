--------------------------- MODULE LogFifoProofs ----------------------------
(***************************************************************************)
(* Theorems about LogFifo, for any number of log-events, any capacity of   *)
(* the FIFO, either behaviour of fgets and any faults.                     *)
(*                                                                         *)
(* The FIFO holds the last of the events that were sent: the child and an  *)
(* orphan of an earlier run take lines at the front, and only there        *)
(* (Suffix).  What each of them has written lies before that, in the order *)
(* of sending (Placed); they never write the same event (Apart), and as    *)
(* long as neither has failed the two have written all that was taken      *)
(* (Complete).  No event is sent twice (Once), so it makes sense to speak  *)
(* of its place.                                                           *)
(***************************************************************************)
EXTENDS LogFifo, CommonLemmas, FiniteSetTheorems

Writing == {"mkfifo", "fopen", "fputs", "fclose"}
Callers == {t \in Threads : Calling(t)}
Taken   == Len(sent) - Len(pipe)

\* Only the owner of the mutex is between opening and closing the FIFO.
Locked == \A t \in Threads : pc[t] \in Writing => mutex_fifo = t

\* Every thread that is about to log has its place within the bound.
Bounded == Len(sent) + Cardinality(Callers) <= MaxEvents

Suffix ==
  /\ Len(pipe) <= Len(sent) /\ Len(pipe) <= PIPE_CAP
  /\ \A k \in 1 .. Len(pipe) : pipe[k] = sent[Taken + k]

Injective(s) == \A i, j \in 1 .. Len(s) : s[i] = s[j] => i = j

Once ==
  /\ \A i \in 1 .. Len(sent), t \in Threads : sent[i].by = t => sent[i].nr <= Logged(t)
  /\ Injective(sent)

Numbers(stream) == \A i \in 1 .. Len(stream) : stream[i].nr = i

Numbered ==
  /\ child # "failed" => sequence_number = Len(log)
  /\ orphan # "failed" => orphan_number = Len(orphan_log)
  /\ Numbers(log) /\ Numbers(orphan_log)

\* The events of a stream are among the first n of s, in the order of s.
PlacedIn(stream, s, n) ==
  /\ \A i \in 1 .. Len(stream) : \E p \in 1 .. n : s[p] = stream[i].event
  /\ \A i, j \in 1 .. Len(stream), p, q \in 1 .. Len(s) :
       i < j /\ s[p] = stream[i].event /\ s[q] = stream[j].event => p < q

Placed == PlacedIn(log, sent, Taken) /\ PlacedIn(orphan_log, sent, Taken)

Apart == \A i \in 1 .. Len(log), j \in 1 .. Len(orphan_log) :
           log[i].event # orphan_log[j].event

Written(e) ==
  \/ \E i \in 1 .. Len(log) : log[i].event = e
  \/ \E i \in 1 .. Len(orphan_log) : orphan_log[i].event = e

Complete == child # "failed" /\ orphan # "failed" =>
              \A p \in 1 .. Taken : Written(sent[p])

\* A child in fopen has noticed a thread that has the FIFO open or waits.
Noticed == child = "opening" /\ WriterPresent => writer_seen

\* Without an orphan the first event is sent only when the child is past its
\* fopen, or is bound to get past it.
Met == orphan = "none" /\ sent # <<>> =>
         child \notin {"fork", "fopen"} /\ (child = "opening" => writer_seen)

\* main joins the storage manager after its first event.
Reported == pc["storagemgr"] = "joined" => sent # <<>>

Control == Locked /\ Noticed /\ Met /\ Reported /\ SafeKill
Data    == Suffix /\ Once /\ Numbered /\ Placed /\ Apart /\ Complete
IInv    == TypeOK /\ Control /\ Bounded /\ Data
-----------------------------------------------------------------------------
(* Counting.                                                               *)

LEMMA ThreadsFinite ==
  ASSUME NEW S, S \subseteq Threads
  PROVE  IsFiniteSet(S) /\ Cardinality(S) \in Nat
  <1>1. IsFiniteSet({"connmgr", "datamgr", "storagemgr"})
    <2>1. IsFiniteSet({"connmgr"})
      BY FS_Singleton
    <2>2. IsFiniteSet({"connmgr"} \cup {"datamgr"})
      BY <2>1, FS_AddElement
    <2>3. IsFiniteSet(({"connmgr"} \cup {"datamgr"}) \cup {"storagemgr"})
      BY <2>2, FS_AddElement
    <2>4. ({"connmgr"} \cup {"datamgr"}) \cup {"storagemgr"} = {"connmgr", "datamgr", "storagemgr"}
      OBVIOUS
    <2> QED
      BY <2>3, <2>4
  <1>2. IsFiniteSet(S)
    BY <1>1, FS_Subset DEF Threads
  <1> QED
    BY <1>2, FS_CardinalityType

\* A thread that starts a call, or ends one, changes the number of callers
\* by one.
LEMMA CallersCount ==
  /\ Cardinality(Callers) \in Nat
  /\ \A t \in Threads :
       /\ t \notin Callers => Cardinality(Callers \cup {t}) = Cardinality(Callers) + 1
       /\ t \in Callers => Cardinality(Callers \ {t}) = Cardinality(Callers) - 1
  <1>1. Callers \subseteq Threads
    BY DEF Callers
  <1>2. IsFiniteSet(Callers) /\ Cardinality(Callers) \in Nat
    BY <1>1, ThreadsFinite
  <1> QED
    BY <1>2, FS_AddElement, FS_RemoveElement

\* The events of one thread are among those that were sent.
LEMMA LoggedFacts ==
  ASSUME TypeOK, NEW t \in Threads
  PROVE  /\ IsFiniteSet({i \in DOMAIN sent : sent[i].by = t})
         /\ Logged(t) \in Nat /\ Logged(t) <= Len(sent)
  <1>1. DOMAIN sent = 1 .. Len(sent) /\ Len(sent) \in Nat
    BY DEF TypeOK
  <1>2. IsFiniteSet(1 .. Len(sent)) /\ Cardinality(1 .. Len(sent)) = Len(sent)
    <2>1. /\ IsFiniteSet(1 .. Len(sent))
          /\ Cardinality(1 .. Len(sent)) = IF 1 > Len(sent) THEN 0 ELSE Len(sent) - 1 + 1
      BY <1>1, FS_Interval
    <2> QED
      BY <1>1, <2>1
  <1>3. {i \in DOMAIN sent : sent[i].by = t} \subseteq 1 .. Len(sent)
    BY <1>1
  <1>4. /\ IsFiniteSet({i \in DOMAIN sent : sent[i].by = t})
        /\ Logged(t) <= Len(sent)
    BY <1>2, <1>3, FS_Subset DEF Logged
  <1> QED
    BY <1>4, FS_CardinalityType DEF Logged

\* A thread that logs counts one event more, the others as many as before.
LEMMA LoggedAppend ==
  ASSUME TypeOK, NEW t \in Threads, sent' = Append(sent, NextEvent(t)),
         NextEvent(t) \in Event
  PROVE  /\ Logged(t)' = Logged(t) + 1
         /\ \A u \in Threads : u # t => Logged(u)' = Logged(u)
  <1> DEFINE N == Len(sent)
             L(u) == {i \in DOMAIN sent : sent[i].by = u}
  <1>1. /\ N \in Nat /\ DOMAIN sent = 1 .. N /\ DOMAIN sent' = 1 .. N + 1
        /\ sent'[N + 1] = NextEvent(t)
        /\ \A i \in 1 .. N : sent'[i] = sent[i]
    BY DEF TypeOK
  <1>2. NextEvent(t).by = t
    BY DEF NextEvent
  <1>3. L(t)' = L(t) \cup {N + 1} /\ N + 1 \notin L(t)
    BY <1>1, <1>2
  <1>4. \A u \in Threads : u # t => L(u)' = L(u)
    BY <1>1, <1>2
  <1>5. IsFiniteSet(L(t))
    BY LoggedFacts
  <1>6. Cardinality(L(t) \cup {N + 1}) = Cardinality(L(t)) + 1
    BY <1>3, <1>5, FS_AddElement
  <1> QED
    BY <1>3, <1>4, <1>6 DEF Logged
-----------------------------------------------------------------------------
(* Streams.                                                                *)

\* A line is written: the next of the events, numbered one higher.
LEMMA PlacedWrite ==
  ASSUME NEW s \in Seq(Event), NEW n \in Nat, n + 1 <= Len(s), Injective(s),
         NEW l \in Stream, PlacedIn(l, s, n),
         NEW r \in [nr : Nat, event : Event], r.event = s[n + 1]
  PROVE  PlacedIn(Append(l, r), s, n + 1)
  <1> DEFINE M == Len(l)
             k2 == Append(l, r)
  <1>1. /\ M \in Nat /\ Len(s) \in Nat
        /\ Len(k2) = M + 1 /\ k2[M + 1] = r
        /\ \A k \in 1 .. M : k2[k] = l[k]
    BY DEF Stream
  <1> HIDE DEF k2
  <1>2. ASSUME NEW k \in 1 .. M + 1
        PROVE  \E p \in 1 .. n + 1 : s[p] = k2[k].event /\ (k <= M => p <= n)
    <2>1. CASE k \in 1 .. M
      <3>1. PICK p \in 1 .. n : s[p] = l[k].event
        BY <2>1 DEF PlacedIn
      <3> QED
        BY <1>1, <2>1, <3>1
    <2>2. CASE k = M + 1
      BY <1>1, <2>2
    <2> QED
      BY <1>1, <2>1, <2>2
  <1>3. ASSUME NEW k \in 1 .. M + 1, NEW j \in 1 .. M + 1,
               NEW p \in 1 .. Len(s), NEW q \in 1 .. Len(s), k < j,
               s[p] = k2[k].event, s[q] = k2[j].event
        PROVE  p < q
    <2>1. k \in 1 .. M
      BY <1>1, <1>3
    <2>2. CASE j \in 1 .. M
      BY <1>1, <1>3, <2>1, <2>2 DEF PlacedIn
    <2>3. CASE j = M + 1
      <3>1. q = n + 1
        BY <1>1, <1>3, <2>3 DEF Injective
      <3>2. PICK o \in 1 .. n + 1 : s[o] = k2[k].event /\ o <= n
        BY <1>1, <1>2, <2>1
      <3>3. p = o
        BY <1>1, <1>3, <3>2 DEF Injective
      <3> QED
        BY <3>1, <3>2, <3>3
    <2> QED
      BY <1>1, <2>2, <2>3
  <1>4. PlacedIn(k2, s, n + 1)
    BY <1>1, <1>2, <1>3 DEF PlacedIn
  <1> QED
    BY <1>4 DEF k2

\* Others take lines: the stream keeps its places.
LEMMA PlacedMore ==
  ASSUME NEW s, NEW l, NEW n \in Nat, NEW m \in Nat, n <= m, PlacedIn(l, s, n)
  PROVE  PlacedIn(l, s, m)
  <1>1. 1 .. n \subseteq 1 .. m
    OBVIOUS
  <1> QED
    BY <1>1 DEF PlacedIn

\* An event is sent that was not sent before: the stream keeps its places.
LEMMA PlacedSend ==
  ASSUME NEW s \in Seq(Event), NEW l \in Stream, NEW n \in Nat, n <= Len(s),
         NEW e \in Event, \A k \in 1 .. Len(s) : s[k] # e, PlacedIn(l, s, n)
  PROVE  PlacedIn(l, Append(s, e), n)
  <1> DEFINE N == Len(s)
             z == Append(s, e)
  <1>1. /\ N \in Nat /\ Len(z) = N + 1 /\ z[N + 1] = e
        /\ \A k \in 1 .. N : z[k] = s[k]
    OBVIOUS
  <1> HIDE DEF z
  <1>2. \A k \in 1 .. Len(l) : \E p \in 1 .. n : s[p] = l[k].event
    BY DEF PlacedIn
  <1>3. \A k \in 1 .. Len(l) : \E p \in 1 .. n : z[p] = l[k].event
    BY <1>1, <1>2
  <1>4. \A k \in 1 .. Len(l) : l[k].event # e
    BY <1>1, <1>2
  <1>5. ASSUME NEW k \in 1 .. Len(l), NEW j \in 1 .. Len(l),
               NEW p \in 1 .. Len(z), NEW q \in 1 .. Len(z), k < j,
               z[p] = l[k].event, z[q] = l[j].event
        PROVE  p < q
    <2>1. p \in 1 .. N /\ q \in 1 .. N
      BY <1>1, <1>4, <1>5
    <2>2. s[p] = l[k].event /\ s[q] = l[j].event
      BY <1>1, <1>5, <2>1
    <2> QED
      BY <1>5, <2>1, <2>2 DEF PlacedIn
  <1>6. PlacedIn(l, z, n)
    BY <1>3, <1>5 DEF PlacedIn
  <1> QED
    BY <1>6 DEF z
-----------------------------------------------------------------------------
(* The invariant holds at first and every action keeps it.                 *)

LEMMA InitIInv == Init => IInv
  <1> SUFFICES ASSUME Init PROVE IInv
    OBVIOUS
  <1> USE DEF Init, child_init
  <1>1. TypeOK
    <2>1. pc \in [Threads -> {"run", "lock", "mkfifo", "fopen", "fputs", "fclose", "joined", "gone"}]
      OBVIOUS
    <2>2. \A S : <<>> \in Seq(S)
      OBVIOUS
    <2>3. pipe \in Seq(Event) /\ sent \in Seq(Event) /\ log \in Stream /\ orphan_log \in Stream
      BY <2>2 DEF Stream
    <2> QED
      BY <2>1, <2>3 DEF TypeOK
  <1>2. Control
    BY DEF Control, Locked, Writing, Noticed, Met, Reported, SafeKill, Threads
  <1>3. Bounded
    <2>1. Callers = {}
      BY DEF Callers, Calling
    <2>2. Cardinality({}) = 0
      BY FS_EmptySet
    <2> QED
      BY <2>1, <2>2, BoundsAssumption DEF Bounded
  <1>4. Data
    <2>1. Len(sent) = 0 /\ Len(pipe) = 0 /\ Len(log) = 0 /\ Len(orphan_log) = 0
      OBVIOUS
    <2> QED
      BY <2>1, BoundsAssumption
      DEF Data, Suffix, Once, Injective, Numbered, Numbers, Placed, PlacedIn, Apart, Complete, Taken
  <1> QED
    BY <1>1, <1>2, <1>3, <1>4 DEF IInv

\* Most steps touch neither the events nor their places.
LEMMA DataSame ==
  ASSUME Data, UNCHANGED <<sent, pipe, log, sequence_number, older>>,
         child = "failed" => child' = "failed"
  PROVE  Data'
  <1> USE DEF older
  <1>1. Suffix' /\ Once' /\ Numbered'
    BY DEF Data, Suffix, Once, Injective, Numbered, Numbers, Taken, Logged
  <1>2. Placed' /\ Apart' /\ Complete'
    BY DEF Data, Placed, PlacedIn, Apart, Complete, Written, Taken
  <1> QED
    BY <1>1, <1>2 DEF Data

\* Thread t goes from one place in write_to_fifo to another, or ends.
LEMMA ThreadMoves ==
  ASSUME IInv, NEW t \in Threads, NEW l, Goto(t, l)
  PROVE  /\ pc'[t] = l
         /\ \A u \in Threads : u # t => pc'[u] = pc[u]
         /\ Callers' = IF l \in {"lock", "mkfifo", "fopen", "fputs"}
                       THEN Callers \cup {t} ELSE Callers \ {t}
  BY DEF IInv, TypeOK, Goto, Callers, Calling

LEMMA LogEventIInv ==
  ASSUME IInv, NEW t \in Threads, log_event(t)
  PROVE  IInv'
  <1> USE DEF log_event, kernel, reader, older
  <1>1. /\ pc'[t] = "lock" /\ \A u \in Threads : u # t => pc'[u] = pc[u]
        /\ Callers' = Callers \cup {t} /\ t \notin Callers
    BY ThreadMoves DEF Callers, Calling
  <1>2. TypeOK'
    BY DEF IInv, TypeOK, Goto
  <1>3. Control'
    BY <1>1 DEF IInv, Control, Locked, Writing, Noticed, Met, Reported, SafeKill, WriterPresent, Threads
  <1>4. Bounded'
    <2>1. Cardinality(Callers') = Cardinality(Callers) + 1 /\ Cardinality(Callers) \in Nat
      BY <1>1, CallersCount
    <2>2. Len(sent) + Cardinality(Callers) < MaxEvents
      BY DEF Callers
    <2>3. Len(sent) \in Nat /\ MaxEvents \in Nat /\ sent' = sent
      BY BoundsAssumption DEF IInv, TypeOK
    <2> QED
      BY <2>1, <2>2, <2>3 DEF Bounded
  <1>5. Data'
    BY DataSame DEF IInv
  <1> QED
    BY <1>2, <1>3, <1>4, <1>5 DEF IInv

\* The steps that go on within a call: lock, mkfifo and fopen.
LEMMA CallGoesOn ==
  ASSUME IInv, NEW t \in Threads, NEW l \in {"mkfifo", "fopen", "fputs"},
         t \in Callers, Goto(t, l), UNCHANGED <<sent, pipe, reader, older>>
  PROVE  Bounded' /\ Data'
  <1>1. Callers' = Callers
    BY ThreadMoves
  <1> QED
    BY <1>1, DataSame DEF IInv, Bounded, reader

LEMMA LockIInv ==
  ASSUME IInv, NEW t \in Threads, pthread_mutex_lock(t)
  PROVE  IInv'
  <1> USE DEF pthread_mutex_lock, kernel, reader, older
  <1>1. pc'[t] = "mkfifo" /\ \A u \in Threads : u # t => pc'[u] = pc[u]
    BY ThreadMoves
  <1>2. TypeOK'
    BY DEF IInv, TypeOK, Goto
  <1>3. Control'
    BY <1>1, NULLAssumption
    DEF IInv, Control, Locked, Writing, Noticed, Met, Reported, SafeKill, WriterPresent, Threads
  <1>4. Bounded' /\ Data'
    BY CallGoesOn DEF Callers, Calling
  <1> QED
    BY <1>2, <1>3, <1>4 DEF IInv

LEMMA FopenIInv ==
  ASSUME IInv, NEW t \in Threads, write_to_fifo_fopen(t)
  PROVE  IInv'
  <1> USE DEF write_to_fifo_fopen, reader, older, kernel
  <1>1. PICK l \in {"fopen", "fputs"} : Goto(t, l)
    OBVIOUS
  <1>2. pc'[t] = l /\ \A u \in Threads : u # t => pc'[u] = pc[u]
    BY <1>1, ThreadMoves
  <1>3. TypeOK'
    <2>1. reader_seen' \in BOOLEAN /\ writer_seen' \in BOOLEAN
      BY DEF IInv, TypeOK, ReaderPresent
    <2> QED
      BY <2>1 DEF IInv, TypeOK, Goto
  <1>4. pc[t] \in {"mkfifo", "fopen"}
        /\ (pc[t] = "mkfifo" => writer_seen') /\ (pc[t] = "fopen" => writer_seen' = writer_seen)
    OBVIOUS
  <1>5. Locked'
    BY <1>2, <1>4 DEF IInv, Control, Locked, Writing
  <1>6. Noticed'
    BY <1>2, <1>4 DEF IInv, Control, Noticed, WriterPresent
  <1>7. Met' /\ Reported' /\ SafeKill'
    BY <1>2, <1>4 DEF IInv, TypeOK, Control, Met, Reported, SafeKill, Threads
  <1>8. Bounded' /\ Data'
    BY <1>1, <1>4, CallGoesOn DEF Callers, Calling
  <1> QED
    BY <1>3, <1>5, <1>6, <1>7, <1>8 DEF IInv, Control

\* A caller has its place within the bound on the events.
LEMMA RoomForEvent ==
  ASSUME IInv, NEW t \in Threads, t \in Callers
  PROVE  /\ NextEvent(t) \in Event
         /\ Len(sent) + 1 + Cardinality(Callers \ {t}) <= MaxEvents
  <1>1. Cardinality(Callers \ {t}) = Cardinality(Callers) - 1
    BY CallersCount
  <1>2. Cardinality(Callers \ {t}) \in Nat
    BY ThreadsFinite DEF Callers
  <1>3. Len(sent) \in Nat /\ MaxEvents \in Nat /\ Cardinality(Callers) \in Nat
    BY BoundsAssumption, CallersCount DEF IInv, TypeOK
  <1>4. Len(sent) + 1 + Cardinality(Callers \ {t}) <= MaxEvents
    BY <1>1, <1>3 DEF IInv, Bounded
  <1>5. Logged(t) \in Nat /\ Logged(t) <= Len(sent)
    BY LoggedFacts DEF IInv
  <1>6. Logged(t) + 1 \in 1 .. MaxEvents
    BY <1>2, <1>3, <1>4, <1>5
  <1> QED
    BY <1>4, <1>6 DEF NextEvent, Event

\* The line goes into the FIFO: at the end of what was sent and of what the
\* FIFO holds, and it is no event that was sent before.
LEMMA AppendData ==
  ASSUME IInv, NEW t \in Threads, NextEvent(t) \in Event, Len(pipe) < PIPE_CAP,
         pipe' = Append(pipe, NextEvent(t)), sent' = Append(sent, NextEvent(t)),
         UNCHANGED <<reader, older>>
  PROVE  Data'
  <1> DEFINE N == Len(sent)
             e == NextEvent(t)
  <1>1. /\ N \in Nat /\ Len(pipe) \in Nat
        /\ Len(sent') = N + 1 /\ sent'[N + 1] = e
        /\ \A k \in 1 .. N : sent'[k] = sent[k]
        /\ Len(pipe') = Len(pipe) + 1 /\ pipe'[Len(pipe) + 1] = e
        /\ \A k \in 1 .. Len(pipe) : pipe'[k] = pipe[k]
    BY DEF IInv, TypeOK
  <1>2. e.by = t /\ e.nr = Logged(t) + 1
    BY DEF NextEvent
  <1>3. /\ Logged(t) \in Nat /\ Logged(t)' = Logged(t) + 1
        /\ \A u \in Threads : u # t => Logged(u)' = Logged(u)
    BY LoggedAppend, LoggedFacts DEF IInv
  <1> HIDE DEF e
  <1>4. /\ Taken' = Taken /\ Taken \in Nat /\ Taken <= N /\ Len(pipe) <= N
        /\ Taken + Len(pipe) = N
    BY <1>1 DEF Taken, IInv, Data, Suffix
  <1>5. Suffix'
    <2>1. ASSUME NEW k \in 1 .. Len(pipe) + 1 PROVE pipe'[k] = sent'[Taken + k]
      <3>1. CASE k \in 1 .. Len(pipe)
        BY <1>1, <1>4, <3>1 DEF IInv, Data, Suffix
      <3>2. CASE k = Len(pipe) + 1
        <4>1. Taken + k = N + 1
          BY <1>1, <1>4, <3>2
        <4> QED
          BY <1>1, <3>2, <4>1
      <3>3. k \in 1 .. Len(pipe) \/ k = Len(pipe) + 1
        BY <1>1
      <3> QED
        BY <3>1, <3>2, <3>3
    <2>2. \A k \in 1 .. Len(pipe') : pipe'[k] = sent'[Taken' + k]
      BY <1>1, <1>4, <2>1
    <2>3. Len(pipe') <= Len(sent') /\ Len(pipe') <= PIPE_CAP
      BY <1>1, <1>4, BoundsAssumption
    <2> QED
      BY <2>2, <2>3 DEF Suffix
  <1>6. ASSUME NEW k \in 1 .. N PROVE sent[k] # e
    <2>1. sent[k].by = t => sent[k].nr <= Logged(t)
      BY DEF IInv, Data, Once
    <2>2. ~ (Logged(t) + 1 <= Logged(t))
      BY <1>3
    <2> QED
      BY <1>2, <2>1, <2>2
  <1>7. Once'
    <2>1. ASSUME NEW k \in 1 .. N + 1, NEW u \in Threads, sent'[k].by = u
          PROVE  sent'[k].nr <= Logged(u)'
      <3>1. CASE k = N + 1
        BY <1>1, <1>2, <1>3, <2>1, <3>1
      <3>2. CASE k \in 1 .. N
        <4>1. sent[k].by = u /\ sent[k].nr <= Logged(u) /\ sent'[k] = sent[k]
          BY <1>1, <2>1, <3>2 DEF IInv, Data, Once
        <4>2. sent[k] \in Event
          BY <3>2 DEF IInv, TypeOK
        <4>3. sent[k].nr \in Nat
          BY <4>2 DEF Event
        <4>4. Logged(u) \in Nat
          BY LoggedFacts DEF IInv
        <4> QED
          BY <1>3, <4>1, <4>3, <4>4
      <3> QED
        BY <1>1, <3>1, <3>2
    <2>2. ASSUME NEW k \in 1 .. N + 1, NEW j \in 1 .. N + 1, sent'[k] = sent'[j]
          PROVE  k = j
      BY <1>1, <1>6, <2>2 DEF IInv, Data, Once, Injective
    <2> QED
      BY <1>1, <2>1, <2>2 DEF Once, Injective
  <1> USE DEF reader, older
  <1>8. Numbered' /\ Apart'
    BY DEF IInv, Data, Numbered, Numbers, Apart
  <1>9. Complete'
    <2>1. \A p \in 1 .. Taken : sent'[p] = sent[p]
      BY <1>1, <1>4
    <2> QED
      BY <1>4, <2>1 DEF IInv, Data, Complete, Written
  <1>10. Placed'
    <2>1. /\ sent \in Seq(Event) /\ log \in Stream /\ orphan_log \in Stream
          /\ PlacedIn(log, sent, Taken) /\ PlacedIn(orphan_log, sent, Taken) /\ e \in Event
      BY DEF IInv, TypeOK, Data, Placed, e
    <2>2. PlacedIn(log, Append(sent, e), Taken) /\ PlacedIn(orphan_log, Append(sent, e), Taken)
      BY <1>4, <1>6, <2>1, PlacedSend
    <2>3. sent' = Append(sent, e) /\ log' = log /\ orphan_log' = orphan_log
      BY DEF e
    <2>4. PlacedIn(log, sent', Taken') /\ PlacedIn(orphan_log, sent', Taken')
      BY <1>4, <2>2, <2>3
    <2> QED
      BY <2>3, <2>4 DEF Placed, PlacedIn
  <1> QED
    BY <1>5, <1>7, <1>8, <1>9, <1>10 DEF Data

\* The main process is gone: no thread calls, writes or has been joined.
LEMMA ParentEndsIInv ==
  ASSUME IInv, NEW how \in {"exited", "failed", "sigpipe"}, ParentEnds(how)
  PROVE  /\ parent' \in {"exited", "failed", "sigpipe"}
         /\ mutex_fifo' \in Threads \cup {NULL}
         /\ pc' \in [Threads -> {"gone"}]
         /\ Locked' /\ Reported' /\ ~ WriterPresent'
         /\ sent' = sent => Bounded'
  <1>1. \A t \in Threads : pc'[t] = "gone"
    BY DEF ParentEnds
  <1>2. Callers' = {}
    BY <1>1 DEF Callers, Calling
  <1>3. Cardinality({}) = 0
    BY FS_EmptySet
  <1>4. Len(sent) \in Nat /\ Cardinality(Callers) \in Nat /\ MaxEvents \in Nat
    BY CallersCount, BoundsAssumption DEF IInv, TypeOK
  <1>5. sent' = sent => Bounded'
    BY <1>2, <1>3, <1>4 DEF IInv, Bounded
  <1>6. Locked' /\ Reported' /\ ~ WriterPresent'
    BY <1>1 DEF Locked, Writing, Reported, WriterPresent, Threads
  <1> QED
    BY <1>5, <1>6 DEF ParentEnds

LEMMA FputsIInv ==
  ASSUME IInv, NEW t \in Threads, write_to_fifo_fputs(t)
  PROVE  IInv'
  <1> USE DEF reader, kernel, older
  <1>0. t \in Callers /\ pc[t] = "fputs"
    BY DEF write_to_fifo_fputs, Callers, Calling
  <1>1. CASE /\ ReaderPresent /\ Len(pipe) < PIPE_CAP
             /\ pipe' = Append(pipe, NextEvent(t))
             /\ sent' = Append(sent, NextEvent(t))
             /\ Goto(t, "fclose")
             /\ UNCHANGED <<mutex_fifo, parent, reader, older, kernel>>
    <2>1. /\ pc'[t] = "fclose" /\ \A u \in Threads : u # t => pc'[u] = pc[u]
          /\ Callers' = Callers \ {t}
      BY <1>1, ThreadMoves
    <2>2. /\ NextEvent(t) \in Event
          /\ Len(sent) + 1 + Cardinality(Callers \ {t}) <= MaxEvents
      BY <1>0, RoomForEvent
    <2>3. TypeOK'
      BY <1>1, <2>2 DEF IInv, TypeOK, Goto
    <2>4. Bounded'
      <3>1. Len(sent') = Len(sent) + 1
        BY <1>1, <2>2 DEF IInv, TypeOK
      <3> QED
        BY <2>1, <2>2, <3>1 DEF Bounded
    <2>5. Data'
      BY <1>1, <2>2, AppendData
    <2>6. Locked' /\ Noticed' /\ SafeKill'
      BY <1>0, <1>1, <2>1
      DEF IInv, TypeOK, Control, Locked, Writing, Noticed, WriterPresent, SafeKill
    <2>7. Met'
      BY <1>0, <1>1
      DEF IInv, TypeOK, Control, Met, Noticed, WriterPresent, ReaderPresent, Reading
    <2>8. Reported'
      <3>1. sent' # <<>>
        BY <1>1, <2>2 DEF IInv, TypeOK
      <3> QED
        BY <3>1 DEF Reported
    <2> QED
      BY <2>3, <2>4, <2>5, <2>6, <2>7, <2>8 DEF IInv, Control
  <1>2. CASE /\ ParentEnds("sigpipe")
             /\ UNCHANGED <<pipe, sent, reader, older, kernel>>
    <2>1. /\ parent' \in {"exited", "failed", "sigpipe"}
          /\ mutex_fifo' \in Threads \cup {NULL}
          /\ pc' \in [Threads -> {"gone"}]
          /\ Locked' /\ Reported' /\ ~ WriterPresent' /\ Bounded'
      BY <1>2, ParentEndsIInv
    <2>2. TypeOK'
      BY <1>2, <2>1 DEF IInv, TypeOK
    <2>3. Data'
      BY <1>2, DataSame DEF IInv
    <2>4. Noticed' /\ Met' /\ SafeKill'
      BY <1>2, <2>1 DEF IInv, Control, Noticed, Met, SafeKill
    <2> QED
      BY <2>1, <2>2, <2>3, <2>4 DEF IInv, Control
  <1> QED
    BY <1>1, <1>2 DEF write_to_fifo_fputs

\* The steps of a thread outside the calls: after fputs, and when it ends.
LEMMA NoCallBounded ==
  ASSUME IInv, NEW t \in Threads, t \notin Callers,
         NEW l \in {"run", "joined"}, Goto(t, l), sent' = sent
  PROVE  Bounded'
  <1>1. Callers' = Callers
    BY ThreadMoves
  <1> QED
    BY <1>1 DEF IInv, Bounded

LEMMA FcloseIInv ==
  ASSUME IInv, NEW t \in Threads, write_to_fifo_fclose(t)
  PROVE  IInv'
  <1> USE DEF write_to_fifo_fclose, reader, kernel, older
  <1>1. pc'[t] = "run" /\ \A u \in Threads : u # t => pc'[u] = pc[u]
    BY ThreadMoves
  <1>2. TypeOK'
    BY DEF IInv, TypeOK, Goto
  <1>3. Locked'
    BY <1>1, NULLAssumption DEF IInv, Control, Locked, Writing
  <1>4. Noticed' /\ Met' /\ Reported' /\ SafeKill'
    BY <1>1 DEF IInv, TypeOK, Control, Noticed, WriterPresent, Met, Reported, SafeKill, Threads
  <1>5. Bounded' /\ Data'
    BY NoCallBounded, DataSame DEF IInv, Callers, Calling
  <1> QED
    BY <1>2, <1>3, <1>4, <1>5 DEF IInv, Control

LEMMA ExitIInv ==
  ASSUME IInv, NEW t \in Threads, pthread_exit(t)
  PROVE  IInv'
  <1> USE DEF pthread_exit, reader, kernel, older
  <1>1. pc'[t] = "joined" /\ \A u \in Threads : u # t => pc'[u] = pc[u]
    BY ThreadMoves
  <1>2. TypeOK'
    BY DEF IInv, TypeOK, Goto
  <1>3. Locked' /\ Noticed' /\ Met' /\ SafeKill'
    BY <1>1 DEF IInv, TypeOK, Control, Locked, Writing, Noticed, WriterPresent, Met, SafeKill
  <1>4. Reported'
    <2>1. CASE t = "storagemgr"
      <3>1. Logged(t) > 0 /\ Logged(t) <= Len(sent) /\ Logged(t) \in Nat
        BY <2>1, LoggedFacts DEF IInv
      <3>2. sent # <<>>
        BY <3>1 DEF IInv, TypeOK
      <3> QED
        BY <3>2 DEF Reported
    <2>2. CASE t # "storagemgr"
      BY <1>1, <2>2 DEF IInv, Control, Reported, Threads
    <2> QED
      BY <2>1, <2>2
  <1>5. Bounded' /\ Data'
    BY NoCallBounded, DataSame DEF IInv, Callers, Calling
  <1> QED
    BY <1>2, <1>3, <1>4, <1>5 DEF IInv, Control

LEMMA ExitFailureIInv ==
  ASSUME IInv, exit_failure
  PROVE  IInv'
  <1> USE DEF exit_failure, reader, kernel, older
  <1>1. /\ parent' \in {"exited", "failed", "sigpipe"}
        /\ mutex_fifo' \in Threads \cup {NULL}
        /\ pc' \in [Threads -> {"gone"}]
        /\ Locked' /\ Reported' /\ ~ WriterPresent' /\ Bounded'
    BY ParentEndsIInv
  <1>2. TypeOK'
    BY <1>1 DEF IInv, TypeOK
  <1>3. Data'
    BY DataSame DEF IInv
  <1>4. Noticed' /\ Met' /\ SafeKill'
    BY <1>1 DEF IInv, Control, Noticed, Met, SafeKill
  <1> QED
    BY <1>1, <1>2, <1>3, <1>4 DEF IInv, Control

\* All threads are joined, so the storage manager has sent an event: the
\* signal does not kill a child that has no orphan beside it.
LEMMA MainKillIInv ==
  ASSUME IInv, main_kill
  PROVE  IInv'
  <1> USE DEF main_kill, kernel, older
  <1>1. /\ parent' \in {"exited", "failed", "sigpipe"}
        /\ mutex_fifo' \in Threads \cup {NULL}
        /\ pc' \in [Threads -> {"gone"}]
        /\ Locked' /\ Reported' /\ ~ WriterPresent' /\ Bounded'
    BY ParentEndsIInv
  <1>2. child' = AfterSIGTERM /\ orphan' = orphan /\ sent' = sent /\ writer_seen' = writer_seen
    OBVIOUS
  <1>3. child' \in {child, "killed", "interrupted"}
    BY <1>2 DEF AfterSIGTERM
  <1>4. TypeOK'
    BY <1>1, <1>2, <1>3 DEF IInv, TypeOK
  <1>5. Data'
    BY <1>2, DataSame DEF IInv, AfterSIGTERM
  <1>6. sent # <<>>
    BY DEF IInv, Control, Reported, Threads
  <1>7. orphan = "none" => child' = child
    BY <1>2, <1>6 DEF IInv, Control, Met, AfterSIGTERM
  <1>8. Noticed' /\ Met' /\ SafeKill'
    BY <1>1, <1>2, <1>7 DEF IInv, Control, Noticed, Met, SafeKill
  <1> QED
    BY <1>1, <1>4, <1>5, <1>8 DEF IInv, Control

\* The steps of the child that move no line.
ChildMoves ==
  \/ child_sigaction
  \/ fifo_to_log_fopen
  \/ fifo_to_log_fopen_log
  \/ fifo_to_log_null
  \/ fifo_to_log_while
  \/ fifo_to_log_fclose

LEMMA ChildMovesIInv ==
  ASSUME IInv, ChildMoves
  PROVE  IInv'
  <1>1. UNCHANGED <<procs, run_logprocess, older, sequence_number, pipe, log, sent>>
    BY DEF ChildMoves, child_sigaction, fifo_to_log_fopen, fifo_to_log_fopen_log,
           fifo_to_log_null, fifo_to_log_while, fifo_to_log_fclose, ChildGoes, kernel
  <1>2. /\ child' \in Reading \cup {"fopen", "exited", "failed"}
        /\ eof' \in BOOLEAN /\ writer_seen' \in BOOLEAN /\ reader_seen' \in BOOLEAN
        /\ child # "failed"
        /\ child' = "fopen" => child = "fork"
        /\ child' = "opening" => child = "fopen" /\ writer_seen' = WriterPresent
    BY DEF ChildMoves, child_sigaction, fifo_to_log_fopen, fifo_to_log_fopen_log,
           fifo_to_log_null, fifo_to_log_while, fifo_to_log_fclose, ChildGoes, kernel,
           Reading, IInv, TypeOK, WriterPresent
  <1>3. WriterPresent' = WriterPresent /\ Callers' = Callers
    BY <1>1 DEF procs, WriterPresent, Callers, Calling
  <1>4. TypeOK'
    BY <1>1, <1>2 DEF IInv, TypeOK, procs, older, Reading
  <1>5. Data' /\ Bounded'
    BY <1>1, <1>2, <1>3, DataSame DEF IInv, Bounded
  <1>6. Locked' /\ Reported' /\ SafeKill'
    BY <1>1, <1>2 DEF procs, older, IInv, Control, Locked, Reported, SafeKill, Reading
  <1>7. Noticed' /\ Met'
    BY <1>1, <1>2, <1>3 DEF IInv, Control, Noticed, Met, Reading, older
  <1> QED
    BY <1>4, <1>5, <1>6, <1>7 DEF IInv, Control

\* Taking the first n lines of the FIFO leaves the others at its end.
LEMMA TakeFacts ==
  ASSUME IInv, NEW n \in 1 .. Len(pipe), pipe' = SubSeq(pipe, n + 1, Len(pipe)), sent' = sent
  PROVE  /\ Taken \in Nat /\ Taken' = Taken + n /\ Taken + n <= Len(sent)
         /\ pipe[1] = sent[Taken + 1] /\ pipe[1] \in Event
         /\ pipe' \in Seq(Event) /\ Suffix'
  <1>0. pipe \in Seq(Event) /\ Len(pipe) \in Nat /\ Len(sent) \in Nat
    BY DEF IInv, TypeOK
  <1>1. /\ pipe' \in Seq(Event) /\ Len(pipe') = Len(pipe) - n
        /\ pipe[1] \in Event
        /\ \A k \in 1 .. Len(pipe') : pipe'[k] = pipe[n + k]
    <2> DEFINE m == Len(pipe)
    <2>1. /\ \A k \in n + 1 .. m : pipe[k] \in Event
          /\ pipe[1] \in Event
      BY <1>0
    <2>2. /\ SubSeq(pipe, n + 1, m) \in Seq(Event)
          /\ Len(SubSeq(pipe, n + 1, m)) = m - n
          /\ \A k \in 1 .. m - n : SubSeq(pipe, n + 1, m)[k] = pipe[n + k]
      BY <1>0, <2>1
    <2> QED
      BY <2>1, <2>2
  <1>2. /\ Len(pipe) <= Len(sent) /\ Len(pipe) <= PIPE_CAP
        /\ \A k \in 1 .. Len(pipe) : pipe[k] = sent[Taken + k]
    BY DEF IInv, Data, Suffix
  <1>3. Taken \in Nat /\ Taken' = Taken + n /\ Taken + n <= Len(sent)
    <2>1. n \in Nat /\ n <= Len(pipe)
      BY <1>0
    <2>2. Taken = Len(sent) - Len(pipe)
      BY DEF Taken
    <2>3. Taken' = Len(sent) - Len(pipe')
      BY DEF Taken
    <2>4. Len(pipe') = Len(pipe) - n /\ Len(pipe) <= Len(sent)
      BY <1>1, <1>2
    <2>5. \A a, b, k \in Nat : b <= a /\ k <= b =>
            a - b \in Nat /\ a - (b - k) = (a - b) + k /\ (a - b) + k <= a
      OBVIOUS
    <2>6. /\ Len(sent) - Len(pipe) \in Nat
          /\ Len(sent) - (Len(pipe) - n) = (Len(sent) - Len(pipe)) + n
          /\ (Len(sent) - Len(pipe)) + n <= Len(sent)
      BY <1>0, <2>1, <2>4, <2>5
    <2> QED
      BY <2>2, <2>3, <2>4, <2>6
  <1>4. pipe[1] = sent[Taken + 1]
    BY <1>0, <1>2
  <1>5. ASSUME NEW k \in 1 .. Len(pipe') PROVE pipe'[k] = sent'[Taken' + k]
    <2>1. pipe'[k] = pipe[n + k] /\ n + k \in 1 .. Len(pipe)
      BY <1>0, <1>1
    <2>2. Taken' + k = Taken + (n + k)
      BY <1>0, <1>1, <1>3
    <2> QED
      BY <1>2, <2>1, <2>2
  <1>6. Len(pipe') <= Len(sent') /\ Len(pipe') <= PIPE_CAP
    BY <1>0, <1>1, <1>2, BoundsAssumption
  <1> QED
    BY <1>1, <1>3, <1>4, <1>5, <1>6 DEF Suffix

\* What a log process that takes the first line leaves of the FIFO.
LEMMA TailFacts ==
  ASSUME IInv, pipe # <<>>, pipe' = Tail(pipe)
  PROVE  1 \in 1 .. Len(pipe) /\ pipe' = SubSeq(pipe, 1 + 1, Len(pipe))
  <1>1. pipe \in Seq(Event) /\ Len(pipe) \in Nat /\ Len(pipe) # 0
    BY DEF IInv, TypeOK
  <1>2. Tail(pipe) = SubSeq(pipe, 2, Len(pipe))
    BY <1>1
  <1> QED
    BY <1>1, <1>2

\* A log process adds the next line to its stream: what it holds afterwards.
LEMMA WriteFacts ==
  ASSUME IInv, NEW l \in Stream, PlacedIn(l, sent, Taken), Numbers(l),
         NEW num, num = Len(l) + 1, pipe[1] = sent[Taken + 1], pipe[1] \in Event,
         Taken \in Nat, Taken + 1 <= Len(sent), pipe # <<>>
  PROVE  /\ Write(l, num) \in Stream /\ Len(Write(l, num)) = Len(l) + 1
         /\ Write(l, num)[Len(l) + 1].event = sent[Taken + 1]
         /\ \A k \in 1 .. Len(l) : Write(l, num)[k] = l[k]
         /\ Numbers(Write(l, num)) /\ PlacedIn(Write(l, num), sent, Taken + 1)
  <1> DEFINE r == [nr |-> num, event |-> Head(pipe)]
  <1>1. Len(l) \in Nat /\ Head(pipe) = pipe[1]
    BY DEF Stream, IInv, TypeOK
  <1>2. r \in [nr : Nat, event : Event] /\ r.nr = Len(l) + 1 /\ r.event = sent[Taken + 1]
    BY <1>1
  <1>3. Write(l, num) = Append(l, r)
    BY DEF Write
  <1> HIDE DEF r
  <1>4. /\ Append(l, r) \in Stream /\ Len(Append(l, r)) = Len(l) + 1
        /\ Append(l, r)[Len(l) + 1] = r
        /\ \A k \in 1 .. Len(l) : Append(l, r)[k] = l[k]
    BY <1>2 DEF Stream
  <1>5. Numbers(Append(l, r))
    BY <1>1, <1>2, <1>4 DEF Numbers
  <1>6. PlacedIn(Append(l, r), sent, Taken + 1)
    <2>1. sent \in Seq(Event) /\ Injective(sent)
      BY DEF IInv, TypeOK, Data, Once
    <2> QED
      BY <1>2, <2>1, PlacedWrite
  <1> QED
    BY <1>2, <1>3, <1>4, <1>5, <1>6

\* What a stream holds lies before what is taken next.
LEMMA NextIsNew ==
  ASSUME IInv, NEW l, PlacedIn(l, sent, Taken), Taken \in Nat, Taken + 1 <= Len(sent)
  PROVE  \A k \in 1 .. Len(l) : l[k].event # sent[Taken + 1]
  <1> SUFFICES ASSUME NEW k \in 1 .. Len(l), l[k].event = sent[Taken + 1] PROVE FALSE
    OBVIOUS
  <1>1. PICK p \in 1 .. Taken : sent[p] = l[k].event
    BY DEF PlacedIn
  <1>2. Len(sent) \in Nat
    BY DEF IInv, TypeOK
  <1>3. p \in 1 .. Len(sent) /\ Taken + 1 \in 1 .. Len(sent) /\ p # Taken + 1
    BY <1>2
  <1> QED
    BY <1>1, <1>3 DEF IInv, Data, Once, Injective

\* What a log process takes from the FIFO concerns the events only.
LEMMA TakeControl ==
  ASSUME IInv, UNCHANGED <<procs, run_logprocess, eof, kernel, sent>>,
         child' = child \/ child' = "failed",
         orphan' = orphan \/ (orphan # "none" /\ orphan' = "failed")
  PROVE  Control' /\ Bounded' /\ Once'
  <1> USE DEF procs, kernel
  <1>1. Locked' /\ Reported' /\ SafeKill'
    BY DEF IInv, Control, Locked, Writing, Reported, SafeKill
  <1>2. Noticed' /\ Met'
    BY DEF IInv, Control, Noticed, WriterPresent, Met
  <1>3. Bounded' /\ Once'
    BY DEF IInv, Bounded, Callers, Calling, Data, Once, Injective, Logged
  <1> QED
    BY <1>1, <1>2, <1>3 DEF Control

\* A log process fails on a line: the streams keep what they hold.
LEMMA LostData ==
  ASSUME IInv, LinesLost, UNCHANGED <<sent, log, orphan_log>>, Once',
         \/ child' = "failed" /\ UNCHANGED <<orphan, orphan_number>>
         \/ orphan' = "failed" /\ UNCHANGED <<child, sequence_number>>
  PROVE  pipe' \in Seq(Event) /\ Data'
  <1>1. PICK n \in 1 .. Len(pipe) : pipe' = SubSeq(pipe, n + 1, Len(pipe))
    BY DEF LinesLost
  <1>2. /\ Taken \in Nat /\ Taken' = Taken + n /\ n \in Nat
        /\ pipe' \in Seq(Event) /\ Suffix'
    <2>1. Len(pipe) \in Nat
      BY DEF IInv, TypeOK
    <2>2. n \in Nat
      BY <2>1
    <2> QED
      BY <1>1, <2>2, TakeFacts
  <1>3. Taken' \in Nat /\ Taken <= Taken'
    BY <1>2
  <1>4. Numbered' /\ Apart' /\ Complete'
    BY DEF IInv, Data, Numbered, Numbers, Apart, Complete
  <1>5. Placed'
    <2>1. PlacedIn(log, sent, Taken) /\ PlacedIn(orphan_log, sent, Taken)
      BY DEF IInv, Data, Placed
    <2>2. PlacedIn(log, sent, Taken') /\ PlacedIn(orphan_log, sent, Taken')
      BY <1>2, <1>3, <2>1, PlacedMore
    <2> QED
      BY <2>2 DEF Placed, PlacedIn
  <1> QED
    BY <1>2, <1>4, <1>5 DEF Data

\* The child numbers and writes the first line of the FIFO, or fails.
LEMMA LineIInv ==
  ASSUME IInv, fifo_to_log_line
  PROVE  IInv'
  <1> USE DEF older
  <1>1. /\ UNCHANGED <<procs, run_logprocess, eof, older, kernel, sent>>
        /\ sequence_number' = sequence_number + 1 /\ pipe # <<>>
        /\ child = "fgets" /\ (child' = child \/ child' = "failed")
    BY DEF fifo_to_log_line
  <1>2. Control' /\ Bounded' /\ Once'
    BY <1>1, TakeControl
  <1>3. ASSUME pipe' \in Seq(Event), log' \in Stream PROVE TypeOK'
    BY <1>1, <1>3 DEF IInv, TypeOK, procs, kernel
  <1>4. CASE log' = Write(log, sequence_number') /\ pipe' = Tail(pipe) /\ child' = child
    <2>1. 1 \in 1 .. Len(pipe) /\ pipe' = SubSeq(pipe, 1 + 1, Len(pipe))
      BY <1>1, <1>4, TailFacts
    <2>2. /\ Taken \in Nat /\ Taken' = Taken + 1 /\ Taken + 1 <= Len(sent)
          /\ pipe[1] = sent[Taken + 1] /\ pipe[1] \in Event
          /\ pipe' \in Seq(Event) /\ Suffix'
      BY <1>1, <2>1, TakeFacts
    <2>3. /\ log \in Stream /\ PlacedIn(log, sent, Taken) /\ Numbers(log)
          /\ PlacedIn(orphan_log, sent, Taken)
          /\ sequence_number' = Len(log) + 1 /\ Len(log) \in Nat
      BY <1>1 DEF IInv, TypeOK, Data, Placed, Numbered, Stream
    <2>4. /\ log' \in Stream /\ Len(log') = Len(log) + 1
          /\ log'[Len(log) + 1].event = sent[Taken + 1]
          /\ \A k \in 1 .. Len(log) : log'[k] = log[k]
          /\ Numbers(log') /\ PlacedIn(log', sent, Taken + 1)
      BY <1>1, <1>4, <2>2, <2>3, WriteFacts
    <2>5. \A k \in 1 .. Len(orphan_log) : orphan_log[k].event # sent[Taken + 1]
      BY <2>2, <2>3, NextIsNew
    <2>6. PlacedIn(orphan_log, sent, Taken + 1)
      BY <2>2, <2>3, PlacedMore
    <2>7. Placed'
      BY <1>1, <2>2, <2>4, <2>6 DEF Placed, PlacedIn
    <2>8. Numbered'
      BY <1>1, <1>4, <2>3, <2>4 DEF IInv, Data, Numbered, Numbers
    <2>9. Apart'
      BY <1>1, <2>3, <2>4, <2>5 DEF IInv, Data, Apart
    <2>10. Complete'
      <3>1. SUFFICES ASSUME orphan # "failed", NEW p \in 1 .. Taken + 1
            PROVE  Written(sent[p])'
        BY <1>1, <2>2 DEF Complete, Written
      <3>2. CASE p = Taken + 1
        BY <1>1, <2>3, <2>4, <3>2 DEF Written
      <3>3. CASE p \in 1 .. Taken
        <4>1. Written(sent[p])
          BY <1>1, <3>1, <3>3 DEF IInv, Data, Complete
        <4> QED
          BY <1>1, <2>3, <2>4, <4>1 DEF Written
      <3> QED
        BY <2>2, <3>2, <3>3
    <2> QED
      BY <1>2, <1>3, <2>2, <2>4, <2>7, <2>8, <2>9, <2>10 DEF IInv, Data
  <1>5. CASE child' = "failed" /\ LinesLost /\ log' = log
    <2>1. pipe' \in Seq(Event) /\ Data'
      BY <1>1, <1>2, <1>5, LostData
    <2>2. log' \in Stream
      BY <1>5 DEF IInv, TypeOK
    <2> QED
      BY <1>2, <1>3, <2>1, <2>2 DEF IInv
  <1> QED
    BY <1>4, <1>5 DEF fifo_to_log_line

\* The orphan takes a line away, and writes it to its own stream or fails.
LEMMA OrphanLineIInv ==
  ASSUME IInv, orphan_line
  PROVE  IInv'
  <1> USE DEF reader
  <1>1. /\ UNCHANGED <<procs, reader, kernel, sent>>
        /\ orphan_number' = orphan_number + 1 /\ pipe # <<>>
        /\ orphan = "reading" /\ (orphan' = orphan \/ orphan' = "failed")
    BY DEF orphan_line
  <1>2. Control' /\ Bounded' /\ Once'
    BY <1>1, TakeControl
  <1>3. ASSUME pipe' \in Seq(Event), orphan_log' \in Stream PROVE TypeOK'
    BY <1>1, <1>3 DEF IInv, TypeOK, procs, kernel
  <1>4. CASE orphan_log' = Write(orphan_log, orphan_number') /\ pipe' = Tail(pipe) /\ orphan' = orphan
    <2>1. 1 \in 1 .. Len(pipe) /\ pipe' = SubSeq(pipe, 1 + 1, Len(pipe))
      BY <1>1, <1>4, TailFacts
    <2>2. /\ Taken \in Nat /\ Taken' = Taken + 1 /\ Taken + 1 <= Len(sent)
          /\ pipe[1] = sent[Taken + 1] /\ pipe[1] \in Event
          /\ pipe' \in Seq(Event) /\ Suffix'
      BY <1>1, <2>1, TakeFacts
    <2>3. /\ orphan_log \in Stream /\ PlacedIn(orphan_log, sent, Taken) /\ Numbers(orphan_log)
          /\ PlacedIn(log, sent, Taken)
          /\ orphan_number' = Len(orphan_log) + 1 /\ Len(orphan_log) \in Nat
      BY <1>1 DEF IInv, TypeOK, Data, Placed, Numbered, Stream
    <2>4. /\ orphan_log' \in Stream /\ Len(orphan_log') = Len(orphan_log) + 1
          /\ orphan_log'[Len(orphan_log) + 1].event = sent[Taken + 1]
          /\ \A k \in 1 .. Len(orphan_log) : orphan_log'[k] = orphan_log[k]
          /\ Numbers(orphan_log') /\ PlacedIn(orphan_log', sent, Taken + 1)
      BY <1>1, <1>4, <2>2, <2>3, WriteFacts
    <2>5. \A k \in 1 .. Len(log) : log[k].event # sent[Taken + 1]
      BY <2>2, <2>3, NextIsNew
    <2>6. PlacedIn(log, sent, Taken + 1)
      BY <2>2, <2>3, PlacedMore
    <2>7. Placed'
      BY <1>1, <2>2, <2>4, <2>6 DEF Placed, PlacedIn
    <2>8. Numbered'
      BY <1>1, <1>4, <2>3, <2>4 DEF IInv, Data, Numbered, Numbers
    <2>9. Apart'
      BY <1>1, <2>3, <2>4, <2>5 DEF IInv, Data, Apart
    <2>10. Complete'
      <3>1. SUFFICES ASSUME child # "failed", NEW p \in 1 .. Taken + 1
            PROVE  Written(sent[p])'
        BY <1>1, <2>2 DEF Complete, Written
      <3>2. CASE p = Taken + 1
        BY <1>1, <2>3, <2>4, <3>2 DEF Written
      <3>3. CASE p \in 1 .. Taken
        <4>1. Written(sent[p])
          BY <1>1, <3>1, <3>3 DEF IInv, Data, Complete
        <4> QED
          BY <1>1, <2>3, <2>4, <4>1 DEF Written
      <3> QED
        BY <2>2, <3>2, <3>3
    <2> QED
      BY <1>2, <1>3, <2>2, <2>4, <2>7, <2>8, <2>9, <2>10 DEF IInv, Data
  <1>5. CASE orphan' = "failed" /\ LinesLost /\ orphan_log' = orphan_log
    <2>1. pipe' \in Seq(Event) /\ Data'
      BY <1>1, <1>2, <1>5, LostData
    <2>2. orphan_log' \in Stream
      BY <1>5 DEF IInv, TypeOK
    <2> QED
      BY <1>2, <1>3, <2>1, <2>2 DEF IInv
  <1> QED
    BY <1>4, <1>5 DEF orphan_line

\* The gateway is started again: what the FIFO holds is all that was sent.
LEMMA RestartIInv ==
  ASSUME IInv, restart
  PROVE  IInv'
  <1> DEFINE N == Len(pipe)
             e(k) == [by |-> "earlier", nr |-> k]
  <1>1. /\ orphan' = "reading" /\ orphan_number' = 0 /\ orphan_log' = <<>> /\ parent' = "running" /\ child' = "fork"
        /\ pc' = [t \in Threads |-> "run"]
        /\ run_logprocess' = 1 /\ eof' = FALSE /\ sequence_number' = 0 /\ log' = <<>>
        /\ pipe' = [k \in DOMAIN pipe |-> e(k)] /\ sent' = pipe'
        /\ UNCHANGED <<mutex_fifo, writer_seen, reader_seen>>
    BY DEF restart, kernel
  <1>2. N \in Nat /\ DOMAIN pipe = 1 .. N /\ N <= PIPE_CAP /\ N <= Len(sent) /\ Len(sent) \in Nat
    BY DEF IInv, TypeOK, Data, Suffix
  <1>3. \A k \in 1 .. N : e(k) \in Event
    BY <1>2, BoundsAssumption DEF Event
  <1>4. pipe' \in Seq(Event) /\ Len(pipe') = N /\ \A k \in 1 .. N : pipe'[k] = e(k)
    BY <1>1, <1>2, <1>3
  <1>5. TypeOK'
    <2>1. log' \in Stream /\ orphan_log' \in Stream
      BY <1>1 DEF Stream
    <2> QED
      BY <1>1, <1>4, <2>1 DEF IInv, TypeOK
  <1>6. Control'
    BY <1>1 DEF Control, Locked, Writing, Noticed, Met, Reported, SafeKill, Threads
  <1>7. Bounded'
    <2>1. Callers' = {}
      BY <1>1 DEF Callers, Calling
    <2>2. Cardinality({}) = 0
      BY FS_EmptySet
    <2>3. Cardinality(Callers) \in Nat /\ MaxEvents \in Nat
      BY CallersCount, BoundsAssumption
    <2> QED
      BY <1>1, <1>2, <1>4, <2>1, <2>2, <2>3 DEF IInv, Bounded
  <1>8. Taken' = 0 /\ Len(log') = 0 /\ Len(orphan_log') = 0
    BY <1>1, <1>2, <1>4 DEF Taken
  <1>9. Suffix'
    BY <1>1, <1>2, <1>4, <1>8 DEF Suffix
  <1>10. Once'
    <2>1. \A k \in 1 .. N : sent'[k].by = "earlier" /\ sent'[k].nr = k
      BY <1>1, <1>4
    <2> QED
      BY <1>1, <1>4, <2>1 DEF Once, Injective, Threads
  <1>11. Numbered' /\ Placed' /\ Apart' /\ Complete'
    BY <1>1, <1>8 DEF Numbered, Numbers, Placed, PlacedIn, Apart, Complete
  <1> QED
    BY <1>5, <1>6, <1>7, <1>9, <1>10, <1>11 DEF IInv, Data

LEMMA NextIInv == IInv /\ [Next]_vars => IInv'
  <1> SUFFICES ASSUME IInv, [Next]_vars PROVE IInv'
    OBVIOUS
  <1>1. ASSUME NEW t \in Threads, ThreadStep(t) PROVE IInv'
    BY <1>1, LogEventIInv, LockIInv, FopenIInv, FputsIInv, FcloseIInv, ExitIInv DEF ThreadStep
  <1>2. ASSUME ChildStep PROVE IInv'
    BY <1>2, ChildMovesIInv, LineIInv DEF ChildStep, ChildMoves
  <1>3. ASSUME UNCHANGED vars PROVE IInv'
    <2>1. TypeOK' /\ Control'
      BY <1>3 DEF vars, procs, reader, older, kernel, IInv, TypeOK, Control, Locked, Noticed, WriterPresent, Met, Reported, SafeKill
    <2>2. Bounded' /\ Data'
      BY <1>3, DataSame DEF vars, procs, reader, IInv, Bounded, Callers, Calling
    <2> QED
      BY <2>1, <2>2 DEF IInv
  <1> QED
    BY <1>1, <1>2, <1>3, ExitFailureIInv, MainKillIInv, RestartIInv, OrphanLineIInv
    DEF Next, Terminated

LEMMA Invariance == Spec => []IInv
  BY InitIInv, NextIInv, PTL DEF Spec

\* Mutual exclusion is what the mutex is for: the writers are at most its
\* owner.
LEMMA LockedOneWriter == IInv => OneWriter
  <1> SUFFICES ASSUME IInv PROVE OneWriter
    OBVIOUS
  <1> DEFINE W == {t \in Threads : pc[t] \in {"mkfifo", "fopen", "fputs", "fclose"}}
  <1>1. W \subseteq {mutex_fifo}
    BY DEF IInv, Control, Locked, Writing
  <1>2. IsFiniteSet({mutex_fifo}) /\ Cardinality({mutex_fifo}) = 1
    BY FS_Singleton
  <1>3. Cardinality(W) <= Cardinality({mutex_fifo})
    BY <1>1, <1>2, FS_Subset
  <1> QED
    BY <1>2, <1>3 DEF OneWriter

\* An event's place among those sent is where it stands: it stands there once.
LEMMA SentFacts ==
  ASSUME IInv, NEW k \in 1 .. Len(sent)
  PROVE  Sent(sent[k]) = k
  <1> DEFINE I == {i \in 1 .. Len(sent) : sent[i] = sent[k]}
  <1>1. I = {k}
    BY DEF IInv, Data, Once, Injective
  <1>2. Min(I) = k
    BY <1>1 DEF IInv, TypeOK, Min
  <1> QED
    BY <1>1, <1>2 DEF Sent, SelectInSeq

\* A stream whose events have their places is in the order of sending.
LEMMA PlacedOrdered ==
  ASSUME IInv, NEW l \in Stream, Numbers(l), PlacedIn(l, sent, Taken)
  PROVE  Ordered(l)
  <1>1. DOMAIN l = 1 .. Len(l) /\ Len(l) \in Nat /\ Len(sent) \in Nat /\ Len(pipe) \in Nat
    BY DEF IInv, TypeOK, Stream
  <1>2. ASSUME NEW j \in DOMAIN l, NEW i \in 1 .. j - 1
        PROVE  Sent(l[i].event) < Sent(l[j].event)
    <2>1. Taken <= Len(sent) /\ Taken \in Nat
      BY <1>1 DEF IInv, Data, Suffix, Taken
    <2>2. i \in 1 .. Len(l) /\ j \in 1 .. Len(l) /\ i < j
      BY <1>1
    <2>3. PICK p \in 1 .. Taken : sent[p] = l[i].event
      BY <2>2 DEF PlacedIn
    <2>4. PICK q \in 1 .. Taken : sent[q] = l[j].event
      BY <2>2 DEF PlacedIn
    <2>5. p \in 1 .. Len(sent) /\ q \in 1 .. Len(sent)
      BY <1>1, <2>1
    <2>6. p < q
      BY <2>2, <2>3, <2>4, <2>5 DEF PlacedIn
    <2>7. Sent(sent[p]) = p /\ Sent(sent[q]) = q
      BY <2>5, SentFacts
    <2> QED
      BY <2>3, <2>4, <2>6, <2>7
  <1> QED
    BY <1>1, <1>2 DEF Ordered, Numbers

LEMMA PlacedInOrder == IInv => InOrder
  <1> SUFFICES ASSUME IInv PROVE InOrder
    OBVIOUS
  <1>1. /\ log \in Stream /\ orphan_log \in Stream
        /\ DOMAIN log = 1 .. Len(log) /\ DOMAIN orphan_log = 1 .. Len(orphan_log)
        /\ DOMAIN pipe = 1 .. Len(pipe) /\ DOMAIN sent = 1 .. Len(sent)
        /\ Len(sent) \in Nat /\ Len(pipe) \in Nat
    BY DEF IInv, TypeOK, Stream
  <1>2. /\ PlacedIn(log, sent, Taken) /\ PlacedIn(orphan_log, sent, Taken)
        /\ Numbers(log) /\ Numbers(orphan_log)
    BY DEF IInv, Data, Placed, Numbered
  <1>3. Ordered(log) /\ Ordered(orphan_log)
    BY <1>1, <1>2, PlacedOrdered
  <1>4. Events(log) \cap Events(orphan_log) = {}
    BY <1>1 DEF Events, IInv, Data, Apart
  <1>5. /\ Taken \in Nat /\ Taken <= Len(sent) /\ Taken + Len(pipe) = Len(sent)
        /\ \A k \in 1 .. Len(pipe) : pipe[k] = sent[Taken + k]
    BY <1>1 DEF IInv, Data, Suffix, Taken
  <1>6. ASSUME NEW l \in {log, orphan_log} PROVE Events(l) \cap Range(pipe) = {}
    <2>1. SUFFICES ASSUME NEW i \in 1 .. Len(l), NEW k \in 1 .. Len(pipe), l[i].event = pipe[k]
                   PROVE  FALSE
      BY <1>1 DEF Events, Range
    <2>2. PICK p \in 1 .. Taken : sent[p] = l[i].event
      BY <1>2 DEF PlacedIn
    <2>3. p \in 1 .. Len(sent) /\ Taken + k \in 1 .. Len(sent) /\ p # Taken + k
      BY <1>1, <1>5
    <2>4. sent[p] = sent[Taken + k]
      BY <1>5, <2>1, <2>2
    <2> QED
      BY <2>3, <2>4 DEF IInv, Data, Once, Injective
  <1>7. ASSUME child # "failed", orphan # "failed", NEW k \in 1 .. Len(sent)
        PROVE  sent[k] \in Events(log) \cup Events(orphan_log) \cup Range(pipe)
    <2>1. CASE k \in 1 .. Taken
      BY <1>1, <1>7, <2>1 DEF IInv, Data, Complete, Written, Events
    <2>2. CASE k > Taken
      <3>1. k - Taken \in 1 .. Len(pipe) /\ Taken + (k - Taken) = k
        BY <1>1, <1>5, <2>2
      <3>2. pipe[k - Taken] = sent[k]
        BY <1>5, <3>1
      <3> QED
        BY <1>1, <3>1, <3>2 DEF Range
    <2> QED
      BY <1>1, <1>5, <2>1, <2>2
  <1>8. child # "failed" /\ orphan # "failed" =>
          Range(sent) \subseteq Events(log) \cup Events(orphan_log) \cup Range(pipe)
    BY <1>1, <1>7 DEF Range
  <1>9. (Events(log) \cup Events(orphan_log)) \cap Range(pipe) = {}
    BY <1>6
  <1> QED
    BY <1>3, <1>4, <1>8, <1>9 DEF InOrder

\* TypeOK: threads, processes, mutex, FIFO and log keep their types through
\* every failure, signal and restart.
THEOREM TypeCorrect == Spec => []TypeOK
  <1>1. IInv => TypeOK
    BY DEF IInv
  <1> QED
    BY <1>1, Invariance, PTL

\* OneWriter: at any time at most one thread is between mkfifo and
\* fclose of write_to_fifo, whichever threads log and whatever fails.
THEOREM MutualExclusion == Spec => []OneWriter
  BY Invariance, LockedOneWriter, PTL

\* InOrder: the log process and an orphan beside it write what was sent, each
\* in order and numbered without a gap and none of it twice; unless one of
\* them failed nothing is lost: what neither wrote is still in the FIFO.
THEOREM LogInOrder == Spec => []InOrder
  BY Invariance, PlacedInOrder, PTL

\* SafeKill: unless there is an orphan, main's SIGTERM finds the log process
\* with its handler installed and past its fopen.
THEOREM KillIsSafe == Spec => []SafeKill
  <1>1. IInv => SafeKill
    BY DEF IInv, Control
  <1> QED
    BY <1>1, Invariance, PTL
=============================================================================
