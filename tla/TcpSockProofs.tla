--------------------------- MODULE TcpSockProofs ----------------------------
(***************************************************************************)
(* Theorems about TcpSock, for any number of socket variables, ports and   *)
(* descriptors.  The type invariant and OneOwner are inductive together:   *)
(* OneOwner needs the types to know that every socket is bound.            *)
(***************************************************************************)
EXTENDS TcpSock, CommonLemmas

IInv == TypeOK /\ OneOwner

\* The kernel's next descriptor is free: it exists although it is chosen as
\* the lowest one.
LEMMA NewSdIsFree ==
  ASSUME FreeSds # {}
  PROVE  NewSd \in 0 .. MaxSd - 1 /\ NewSd \notin DOMAIN fds
  <1>1. FreeSds \subseteq Nat
    BY ConstAssumption DEF FreeSds
  <1>2. \E sd \in FreeSds : \A other \in FreeSds : sd <= other
    BY <1>1, SmallestNat
  <1>3. NewSd \in FreeSds
    BY <1>2 DEF NewSd
  <1> QED
    BY <1>3 DEF FreeSds

\* What it is to have a descriptor more.
LEMMA OpenedFacts ==
  ASSUME FreeSds # {}, NEW d, opened(d)
  PROVE  /\ DOMAIN fds' = DOMAIN fds \cup {NewSd}
         /\ fds'[NewSd] = d
         /\ \A sd \in DOMAIN fds : fds'[sd] = fds[sd]
  BY NewSdIsFree DEF opened, added

\* Under the type invariant the cookie check only asks whether there is a
\* socket, and the getters answer its fields.
LEMMA BoundFacts ==
  ASSUME TypeOK, NEW s \in Sock
  PROVE  /\ IsBound(s) <=> sock[s] # NULL
         /\ sock[s] # NULL => /\ sock[s] \in tcpsock
                              /\ sock[s].sd \in 0 .. MaxSd - 1
                              /\ tcp_get_sd(s) = sock[s].sd
         /\ sock[s] = NULL => tcp_get_sd(s) = NULL
  BY DEF TypeOK, tcpsock, IsBound, tcp_get_sd, get

\* The invariant in terms of the sockets themselves.
Holds ==
  \A s \in Sock : sock[s] # NULL =>
    /\ sock[s].sd \in DOMAIN fds
    /\ fds[sock[s].sd].state # "new"
    /\ \A t \in Sock : t # s /\ sock[t] # NULL => sock[t].sd # sock[s].sd

LEMMA HoldsIInv == TypeOK => (OneOwner <=> Holds)
  <1> SUFFICES ASSUME TypeOK PROVE OneOwner <=> Holds
    OBVIOUS
  <1>1. \A s \in Sock : sock[s] # NULL => tcp_get_sd(s) # NULL
    BY BoundFacts, ConstAssumption
  <1>2. ASSUME OneOwner PROVE Holds
    BY <1>2, BoundFacts DEF OneOwner, Holds
  <1>3. ASSUME Holds PROVE OneOwner
    BY <1>1, <1>3, BoundFacts DEF OneOwner, Holds
  <1> QED
    BY <1>2, <1>3

LEMMA InitIInv == Init => IInv
  <1> SUFFICES ASSUME Init PROVE IInv
    OBVIOUS
  <1>1. TypeOK
    BY DEF Init, TypeOK
  <1>2. Holds
    BY DEF Init, Holds
  <1> QED
    BY <1>1, <1>2, HoldsIInv DEF IInv

\* No descriptor is closed, and an open one that has been set up stays so:
\* what every call but tcp_close does.
Grows ==
  /\ DOMAIN fds \subseteq DOMAIN fds'
  /\ DOMAIN fds' \subseteq 0 .. MaxSd - 1
  /\ \A sd \in DOMAIN fds' : fds'[sd] \in Descriptor
  /\ \A sd \in DOMAIN fds : fds[sd].state # "new" => fds'[sd].state # "new"

\* A step that gives the caller no socket keeps the invariant.
LEMMA GrowsIInv ==
  ASSUME IInv, Grows, sock' = sock
  PROVE  IInv'
  <1>1. TypeOK'
    BY DEF IInv, TypeOK, Grows
  <1>2. Holds
    BY HoldsIInv DEF IInv
  <1>3. Holds'
    BY <1>2 DEF Grows, Holds
  <1>4. TypeOK' => (OneOwner' <=> Holds')
    BY HoldsIInv, PTL
  <1> QED
    BY <1>1, <1>3, <1>4 DEF IInv

\* A step that opens a descriptor for a socket of the caller keeps it too.
LEMMA NewSockIInv ==
  ASSUME IInv, Grows,
         NEW s \in Sock, NEW n \in DOMAIN fds' \ DOMAIN fds,
         NEW ip_addr \in BOOLEAN, NEW port \in Ports \cup PeerPorts \cup {Ephemeral},
         fds'[n].state # "new",
         sock' = [sock EXCEPT ![s] = Bound(n, ip_addr, port)]
  PROVE  IInv'
  <1>1. /\ Bound(n, ip_addr, port) \in tcpsock
        /\ Bound(n, ip_addr, port).sd = n
    BY DEF Bound, tcpsock, Grows
  <1>2. /\ sock'[s] = Bound(n, ip_addr, port)
        /\ \A t \in Sock : t # s => sock'[t] = sock[t]
        /\ sock' \in [Sock -> {NULL} \cup tcpsock]
    BY <1>1 DEF IInv, TypeOK
  <1>3. TypeOK'
    BY <1>2 DEF TypeOK, Grows
  <1>4. Holds
    BY HoldsIInv DEF IInv
  <1>5. Holds'
    BY <1>1, <1>2, <1>4 DEF Holds, Grows
  <1>6. TypeOK' => (OneOwner' <=> Holds')
    BY HoldsIInv, PTL
  <1> QED
    BY <1>3, <1>5, <1>6 DEF IInv

\* The descriptors that some socket refers to.
Held == {sd \in 0 .. MaxSd - 1 : \E s \in Sock : sock[s] # NULL /\ sock[s].sd = sd}

LEMMA OwnedFacts == TypeOK => Owned = Held
  BY BoundFacts DEF Owned, Held

LEMMA OwnedBefore ==
  ASSUME IInv, IInv'
  PROVE  Owned = Held /\ Owned' = Held'
  <1>1. Owned = Held
    BY OwnedFacts DEF IInv
  <1>2. TypeOK' => (Owned = Held)'
    BY OwnedFacts, PTL
  <1> QED
    BY <1>1, <1>2 DEF IInv

\* Nothing leaks when neither the sockets nor the open descriptors change;
\* a step that answers an error code has reported what it leaks.
LEMMA QuietNoLeak ==
  ASSUME IInv, IInv',
         (sock' = sock /\ DOMAIN fds' = DOMAIN fds) \/ result' # "TCP_NO_ERROR"
  PROVE  NoSilentLeak
  BY OwnedBefore DEF NoSilentLeak, Held

\* Nothing leaks when the one new descriptor belongs to the one new socket.
LEMMA NewSockNoLeak ==
  ASSUME IInv, IInv', NEW s \in Sock, NEW n,
         DOMAIN fds' = DOMAIN fds \cup {n},
         sock[s] = NULL, sock'[s] # NULL, sock'[s].sd = n,
         \A t \in Sock \ {s} : sock'[t] = sock[t]
  PROVE  NoSilentLeak
  <1>1. Owned \subseteq Owned'
    BY OwnedBefore DEF Held
  <1>2. n \in Owned'
    BY OwnedBefore DEF IInv, TypeOK, tcpsock, Held
  <1> QED
    BY <1>1, <1>2 DEF NoSilentLeak
-----------------------------------------------------------------------------
(* Every action keeps the invariant and leaks nothing in silence.          *)

Good == IInv' /\ NoSilentLeak

\* Early returns.
LEMMA AnswersGood ==
  ASSUME IInv, NEW code, answers(code)
  PROVE  Good
  <1>1. Grows /\ sock' = sock /\ fds' = fds
    BY DEF answers, Grows, IInv, TypeOK
  <1> QED
    BY <1>1, GrowsIInv, QuietNoLeak DEF Good

\* A call that opened a descriptor and then fails.
LEMMA OpenFailsGood ==
  ASSUME IInv, FreeSds # {}, NEW d \in Descriptor, opened(d), sock' = sock,
         result' # "TCP_NO_ERROR"
  PROVE  Good
  <1>1. Grows
    BY NewSdIsFree, OpenedFacts DEF Grows, IInv, TypeOK
  <1> QED
    BY <1>1, GrowsIInv, QuietNoLeak DEF Good

\* A call that opened a descriptor, set it up and gives the caller a socket.
LEMMA NewSockGood ==
  ASSUME IInv, Grows, NEW n, n \notin DOMAIN fds, DOMAIN fds' = DOMAIN fds \cup {n},
         NEW s \in Sock, sock[s] = NULL,
         NEW ip_addr \in BOOLEAN, NEW port \in Ports \cup PeerPorts \cup {Ephemeral},
         fds'[n].state # "new",
         sock' = [sock EXCEPT ![s] = Bound(n, ip_addr, port)]
  PROVE  Good
  <1>1. IInv'
    BY NewSockIInv
  <1>2. /\ sock'[s] = Bound(n, ip_addr, port)
        /\ \A t \in Sock \ {s} : sock'[t] = sock[t]
    BY DEF IInv, TypeOK
  <1>3. sock'[s] # NULL /\ sock'[s].sd = n
    <2>1. Bound(n, ip_addr, port) \in tcpsock
      BY DEF Bound, tcpsock, Grows
    <2>2. Bound(n, ip_addr, port).sd = n
      BY DEF Bound
    <2> QED
      BY <1>2, <2>1, <2>2, ConstAssumption
  <1> QED
    BY <1>1, <1>2, <1>3, NewSockNoLeak DEF Good

LEMMA OpenSucceedsGood ==
  ASSUME IInv, FreeSds # {}, NEW d \in Descriptor, d.state # "new", opened(d),
         NEW s \in Sock, sock[s] = NULL,
         NEW ip_addr \in BOOLEAN, NEW port \in Ports \cup PeerPorts \cup {Ephemeral},
         sock' = [sock EXCEPT ![s] = Bound(NewSd, ip_addr, port)]
  PROVE  Good
  <1>1. /\ Grows /\ fds'[NewSd] = d
        /\ NewSd \notin DOMAIN fds /\ DOMAIN fds' = DOMAIN fds \cup {NewSd}
    BY NewSdIsFree, OpenedFacts DEF Grows, IInv, TypeOK
  <1> QED
    BY <1>1, NewSockGood

LEMMA SocketType ==
  ASSUME NEW state \in {"new", "listen", "connected"}, NEW port \in Nat
  PROVE  /\ socket(state, port) \in Descriptor
         /\ socket(state, port).state = state
  BY DEF socket, Descriptor, MAX_PENDING

\* What reaches the kernel is a port.
LEMMA PortFacts ==
  ASSUME NEW port \in Ports
  PROVE  htons(port) \in Nat
  <1>1. port \in Nat /\ Ephemeral \in Nat
    BY ConstAssumption DEF MIN_PORT
  <1>2. port % 65536 \in Nat
    BY <1>1
  <1> QED
    BY <1>1, <1>2 DEF htons

LEMMA PassiveOpenGood ==
  ASSUME IInv, NEW s \in Sock, NEW port \in Ports, sock[s] = NULL,
         tcp_passive_open(s, port)
  PROVE  Good
  <1>1. ASSUME NEW code, answers(code) PROVE Good
    BY <1>1, AnswersGood
  <1>2. CASE /\ FreeSds # {} /\ opened(socket("new", 0))
             /\ returns("TCP_SOCKOP_ERROR") /\ UNCHANGED sock
    BY <1>2, SocketType, OpenFailsGood DEF returns
  <1>3. CASE /\ ~ bad_port(port) /\ FreeSds # {}
             /\ opened(socket("listen", htons(port)))
             /\ sock' = [sock EXCEPT ![s] = Bound(NewSd, FALSE, port)]
    <2> DEFINE d == socket("listen", htons(port))
    <2>1. d \in Descriptor /\ d.state # "new"
      BY <1>3, PortFacts, SocketType
    <2> HIDE DEF d
    <2> QED
      BY <1>3, <2>1, OpenSucceedsGood DEF d
  <1> QED
    BY <1>1, <1>2, <1>3 DEF tcp_passive_open

LEMMA ActiveOpenGood ==
  ASSUME IInv, NEW s \in Sock, NEW port \in Ports, NEW ip, sock[s] = NULL,
         tcp_active_open(s, port, ip)
  PROVE  Good
  <1> DEFINE d == socket("connected", Ephemeral)
  <1>0. d \in Descriptor /\ d.state # "new"
    <2>1. Ephemeral \in Nat
      BY ConstAssumption DEF MIN_PORT
    <2> QED
      BY <2>1, SocketType
  <1> HIDE DEF d
  <1>1. ASSUME NEW code, answers(code) PROVE Good
    BY <1>1, AnswersGood
  <1>2. CASE /\ FreeSds # {} /\ opened(socket("new", 0))
             /\ returns("TCP_ADDRESS_ERROR") \/ returns("TCP_SOCKOP_ERROR")
             /\ UNCHANGED sock
    BY <1>2, SocketType, OpenFailsGood DEF returns
  <1>3. CASE /\ FreeSds # {} /\ opened(d)
             /\ returns("TCP_SOCKOP_ERROR") \/ returns("TCP_MEMORY_ERROR")
             /\ UNCHANGED sock
    BY <1>0, <1>3, OpenFailsGood DEF returns
  <1>4. CASE /\ FreeSds # {} /\ opened(d)
             /\ sock' = [sock EXCEPT ![s] = Bound(NewSd, TRUE, Ephemeral)]
    BY <1>0, <1>4, OpenSucceedsGood
  <1> QED
    BY <1>1, <1>2, <1>3, <1>4 DEF tcp_active_open, d

\* tcp_close takes a descriptor that nobody else has, and leaves it open only
\* when the connection was reset.
LEMMA CloseGood ==
  ASSUME IInv, NEW s \in Sock, tcp_close(s)
  PROVE  Good
  <1>1. CASE sock[s] = NULL
    BY <1>1, AnswersGood DEF tcp_close
  <1>2. CASE sock[s] # NULL
    <2> DEFINE sd == sock[s].sd
    <2>1. Holds
      BY HoldsIInv DEF IInv
    <2>2. /\ sock'[s] = NULL
          /\ \A t \in Sock \ {s} : sock'[t] = sock[t]
          /\ sock' \in [Sock -> {NULL} \cup tcpsock]
      BY <1>2 DEF tcp_close, IInv, TypeOK, answers
    <2>3. /\ DOMAIN fds \ {sd} \subseteq DOMAIN fds' /\ DOMAIN fds' \subseteq DOMAIN fds
          /\ \A other \in DOMAIN fds' : fds'[other] = fds[other]
          /\ sd \in DOMAIN fds' => fds'[sd].state \in Reset
      BY <1>2 DEF tcp_close, closed, IInv, TypeOK, tcpsock
    <2>4. TypeOK'
      BY <2>2, <2>3 DEF TypeOK, IInv
    <2>5. Holds'
      BY <1>2, <2>1, <2>2, <2>3 DEF Holds
    <2>6. TypeOK' => (OneOwner' <=> Holds')
      BY HoldsIInv, PTL
    <2>7. IInv'
      BY <2>4, <2>5, <2>6 DEF IInv
    <2>8. Owned \ {sd} \subseteq Owned'
      BY <1>2, <2>2, <2>7, OwnedBefore DEF Held
    <2>9. NoSilentLeak
      BY <2>3, <2>8 DEF NoSilentLeak
    <2> QED
      BY <2>7, <2>9 DEF Good
  <1> QED
    BY <1>1, <1>2

\* A step that changes one open descriptor and does not undo its set-up.
LEMMA ChangeGood ==
  ASSUME IInv, NEW sd \in DOMAIN fds, NEW d \in Descriptor,
         d.state # "new",
         fds' = [fds EXCEPT ![sd] = d], sock' = sock
  PROVE  Good
  <1>1. /\ DOMAIN fds' = DOMAIN fds /\ fds'[sd] = d
        /\ \A other \in DOMAIN fds : other # sd => fds'[other] = fds[other]
    OBVIOUS
  <1>2. Grows
    BY <1>1 DEF Grows, IInv, TypeOK
  <1> QED
    BY <1>1, <1>2, GrowsIInv, QuietNoLeak DEF Good

LEMMA AcceptGood ==
  ASSUME IInv, NEW s \in Sock, NEW new \in Sock, sock[new] = NULL,
         tcp_wait_for_connection(s, new)
  PROVE  Good
  <1>1. ASSUME NEW code, answers(code) PROVE Good
    BY <1>1, AnswersGood
  <1>2. CASE /\ IsBound(s) /\ FreeSds # {}
             /\ fds[sock[s].sd].state = "listen" /\ fds[sock[s].sd].pending > 0
             /\ fds' = added([fds EXCEPT ![sock[s].sd].pending = @ - 1],
                             NewSd, socket("connected", fds[sock[s].sd].port))
             /\ \/ returns("TCP_MEMORY_ERROR") /\ UNCHANGED sock
                \/ /\ returns("TCP_NO_ERROR")
                   /\ \E port \in PeerPorts :
                        sock' = [sock EXCEPT ![new] = Bound(NewSd, TRUE, port)]
    <2> DEFINE sd == sock[s].sd
               d == socket("connected", fds[sd].port)
               l == [fds[sd] EXCEPT !.pending = @ - 1]
    <2>1. sd \in DOMAIN fds
      BY <1>2, HoldsIInv DEF IInv, Holds, IsBound
    <2>2. fds[sd] \in Descriptor
      BY <2>1 DEF IInv, TypeOK
    <2>3. fds[sd].port \in Nat
      BY <2>2 DEF Descriptor
    <2>4. d \in Descriptor /\ d.state # "new"
      BY <2>3, SocketType
    <2>5. NewSd \in 0 .. MaxSd - 1 /\ NewSd \notin DOMAIN fds
      BY <1>2, NewSdIsFree
    <2>6. l \in Descriptor /\ l.state = "listen"
      BY <1>2, <2>2 DEF Descriptor, MAX_PENDING
    <2> HIDE DEF d
    <2>7. /\ DOMAIN fds' = DOMAIN fds \cup {NewSd}
          /\ fds'[NewSd] = d /\ fds'[sd] = l
          /\ \A other \in DOMAIN fds : other # sd => fds'[other] = fds[other]
      BY <1>2, <2>1, <2>5 DEF added, d
    <2> HIDE DEF l
    <2>8. Grows
      BY <2>1, <2>4, <2>5, <2>6, <2>7 DEF Grows, IInv, TypeOK
    <2>9. CASE result' # "TCP_NO_ERROR" /\ UNCHANGED sock
      BY <2>8, <2>9, GrowsIInv, QuietNoLeak DEF Good
    <2>10. ASSUME NEW port \in PeerPorts, sock' = [sock EXCEPT ![new] = Bound(NewSd, TRUE, port)]
           PROVE  Good
      BY <2>4, <2>5, <2>7, <2>8, <2>10, NewSockGood
    <2> QED
      BY <1>2, <2>9, <2>10 DEF returns
  <1> QED
    BY <1>1, <1>2 DEF tcp_wait_for_connection, accept_failed

\* The error of a reset connection is reported.
LEMMA ErrorReportedGood ==
  ASSUME IInv, NEW sd \in DOMAIN fds, error_reported(sd)
  PROVE  Good
  <1> DEFINE d == [fds[sd] EXCEPT !.state = "dead"]
  <1>1. fds[sd] \in Descriptor
    BY DEF IInv, TypeOK
  <1>2. d \in Descriptor /\ d.state # "new"
    BY <1>1 DEF Descriptor, Reset
  <1>3. fds' = [fds EXCEPT ![sd] = d] /\ sock' = sock
    BY DEF error_reported
  <1> QED
    BY <1>2, <1>3, ChangeGood

\* The process ends: nothing is open, and nobody holds a socket.
LEMMA SegfaultGood ==
  ASSUME IInv, segfault
  PROVE  Good
  <1>1. DOMAIN fds' = {}
    BY DEF segfault
  <1>2. TypeOK'
    BY <1>1 DEF segfault, TypeOK
  <1>3. Holds'
    BY DEF segfault, Holds
  <1>4. TypeOK' => (OneOwner' <=> Holds')
    BY HoldsIInv, PTL
  <1>5. NoSilentLeak
    BY <1>1 DEF NoSilentLeak
  <1> QED
    BY <1>2, <1>3, <1>4, <1>5 DEF Good, IInv

LEMMA SendGood ==
  ASSUME IInv, NEW s \in Sock, tcp_send(s)
  PROVE  Good
  <1>1. ASSUME NEW code, answers(code) PROVE Good
    BY <1>1, AnswersGood
  <1>2. ASSUME IsBound(s), error_reported(sock[s].sd) PROVE Good
    BY <1>2, HoldsIInv, ErrorReportedGood DEF IInv, Holds, IsBound
  <1> QED
    BY <1>1, <1>2, SegfaultGood DEF tcp_send

LEMMA ReceiveGood ==
  ASSUME IInv, NEW s \in Sock, tcp_receive(s)
  PROVE  Good
  <1>1. ASSUME NEW code, answers(code) PROVE Good
    BY <1>1, AnswersGood
  <1>2. ASSUME IsBound(s), error_reported(sock[s].sd) PROVE Good
    BY <1>2, HoldsIInv, ErrorReportedGood DEF IInv, Holds, IsBound
  <1>3. ASSUME IsBound(s), NEW rest \in BOOLEAN, sock' = sock,
               fds' = [fds EXCEPT ![sock[s].sd].data = rest]
        PROVE  Good
    <2> DEFINE sd == sock[s].sd
               d == [fds[sd] EXCEPT !.data = rest]
    <2>1. sd \in DOMAIN fds /\ fds[sd].state # "new"
      BY <1>3, HoldsIInv DEF IInv, Holds, IsBound
    <2>2. fds[sd] \in Descriptor
      BY <2>1 DEF IInv, TypeOK
    <2>3. d \in Descriptor /\ d.state # "new"
      BY <2>1, <2>2 DEF Descriptor
    <2>4. fds' = [fds EXCEPT ![sd] = d]
      BY <1>3
    <2> QED
      BY <1>3, <2>1, <2>3, <2>4, ChangeGood
  <1> QED
    BY <1>1, <1>2, <1>3, SegfaultGood DEF tcp_receive

LEMMA PeerGood ==
  ASSUME IInv, NEW sd \in DOMAIN fds, peer_connect(sd) \/ peer_step(sd)
  PROVE  Good
  <1>1. fds[sd] \in Descriptor
    BY DEF IInv, TypeOK
  <1>2. PICK d \in Descriptor : /\ fds' = [fds EXCEPT ![sd] = d]
                                /\ d.state # "new"
    <2>1. CASE peer_connect(sd)
      <3> DEFINE d == [fds[sd] EXCEPT !.pending = @ + 1]
      <3>1. d \in Descriptor /\ d.state # "new"
        BY <1>1, <2>1 DEF Descriptor, peer_connect, MAX_PENDING
      <3>2. fds' = [fds EXCEPT ![sd] = d]
        BY <2>1 DEF peer_connect
      <3> QED
        BY <3>1, <3>2
    <2>2. CASE peer_step(sd)
      <3>1. CASE fds[sd].state = "connected" /\ fds' = [fds EXCEPT ![sd].data = TRUE]
        <4> DEFINE d == [fds[sd] EXCEPT !.data = TRUE]
        <4>1. d \in Descriptor /\ d.state # "new"
          BY <1>1, <3>1 DEF Descriptor
        <4> QED
          BY <3>1, <4>1
      <3>2. ASSUME NEW state \in {"shut", "reset"}, fds' = [fds EXCEPT ![sd].state = state]
            PROVE  \E d \in Descriptor : /\ fds' = [fds EXCEPT ![sd] = d]
                                         /\ d.state # "new"
        <4> DEFINE d == [fds[sd] EXCEPT !.state = state]
        <4>1. d \in Descriptor /\ d.state # "new"
          BY <1>1, <3>2 DEF Descriptor, Reset
        <4> QED
          BY <3>2, <4>1
      <3> QED
        BY <2>2, <3>1, <3>2 DEF peer_step
    <2> QED
      BY <2>1, <2>2
  <1>3. sock' = sock
    BY DEF peer_connect, peer_step
  <1> QED
    BY <1>2, <1>3, ChangeGood

LEMMA NextGood == IInv /\ [Next]_vars => IInv' /\ [NoSilentLeak]_vars
  <1> SUFFICES ASSUME IInv, [Next]_vars PROVE IInv' /\ [NoSilentLeak]_vars
    OBVIOUS
  <1>1. ASSUME NEW s \in Sock, NEW port \in Ports, sock[s] = NULL,
               \/ tcp_passive_open(s, port)
               \/ \E ip \in {"valid", "invalid", NULL} : tcp_active_open(s, port, ip)
        PROVE  Good
    BY <1>1, PassiveOpenGood, ActiveOpenGood
  <1>2. ASSUME NEW s \in Sock, tcp_close(s) \/ tcp_send(s) \/ tcp_receive(s)
        PROVE  Good
    BY <1>2, CloseGood, SendGood, ReceiveGood
  <1>3. ASSUME NEW s \in Sock, NEW new \in Sock, sock[new] = NULL,
               tcp_wait_for_connection(s, new)
        PROVE  Good
    BY <1>3, AcceptGood
  <1>4. ASSUME NEW sd \in DOMAIN fds, peer_connect(sd) \/ peer_step(sd)
        PROVE  Good
    BY <1>4, PeerGood
  <1>5. ASSUME UNCHANGED vars PROVE IInv'
    BY <1>5 DEF vars, IInv, TypeOK, OneOwner, IsBound, tcp_get_sd, get
  <1> QED
    BY <1>1, <1>2, <1>3, <1>4, <1>5 DEF Next, Good

LEMMA Invariance == Spec => []IInv
  BY InitIInv, NextGood, PTL DEF Spec

\* TypeOK: every socket variable that is not NULL holds a bound socket,
\* whatever calls of the library fail: the check of the cookie never fails.
THEOREM TypeCorrect == Spec => []TypeOK
  <1>1. IInv => TypeOK
    BY DEF IInv
  <1> QED
    BY <1>1, Invariance, PTL

\* OneOwner: the descriptor of a socket is open, set up, and shared with no
\* other socket, for any number of sockets and descriptors.
THEOREM SocketsOwnDescriptors == Spec => []OneOwner
  <1>1. IInv => OneOwner
    BY DEF IInv
  <1> QED
    BY <1>1, Invariance, PTL

\* LeakReported: a call of tcpsock.c that leaves a descriptor open without a
\* socket answers an error code, or has taken a reset connection.
THEOREM LeaksAreReported == Spec => LeakReported
  BY InitIInv, NextGood, PTL DEF Spec, LeakReported
=============================================================================
