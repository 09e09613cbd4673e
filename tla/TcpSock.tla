------------------------------ MODULE TcpSock -------------------------------
(***************************************************************************)
(* The socket library (lib/tcpsock.c): the sockets a caller holds, and the *)
(* process's descriptors behind them.                                      *)
(*                                                                         *)
(* One thread uses the library, so a call is one step; the peers act       *)
(* between the calls.  Any system call may fail at any time, and malloc    *)
(* may; shutdown in tcp_close fails exactly on a connection that was       *)
(* reset.  The kernel (Linux) is external: it gives the lowest free        *)
(* descriptor; htons keeps 16 bits of a port and port 0 means any free     *)
(* one; the error of a reset is reported to one send or receive.           *)
(***************************************************************************)
EXTENDS Integers

CONSTANTS
  NULL,
  Sock,       \* the caller's socket variables
  Ports,      \* the ports callers pass
  MaxSd,      \* how many descriptors the process may have open
  Ephemeral,  \* the port the kernel chooses itself
  PeerPorts   \* the ports that peers connect from

MIN_PORT    == 1024
MAX_PORT    == 65536
MAX_PENDING == 10

\* A socket that the library has made and bound.
tcpsock == [cookie : {TRUE}, sd : 0 .. MaxSd - 1,
            ip_addr : BOOLEAN, port : Ports \cup PeerPorts \cup {Ephemeral}]

ASSUME ConstAssumption ==
  /\ NULL \notin tcpsock /\ NULL \notin 0 .. MaxSd - 1
  /\ Ports \subseteq Nat /\ MaxSd \in Nat \ {0}
  /\ Ephemeral \in MIN_PORT .. 65535

ASSUME PeerPortsAssumption == PeerPorts \subseteq 1 .. 65535

VARIABLES
  sock,     \* for each variable NULL or a tcpsock: cookie, sd, ip_addr, port
  fds,      \* the open descriptors: state of the socket, the local port it is
            \* bound to, whether data waits, how many connections are pending
  result    \* what the last call returned

vars == <<sock, fds, result>>

Bound(sd, ip_addr, port) == [cookie |-> TRUE, sd |-> sd, ip_addr |-> ip_addr, port |-> port]

\* A connection that was reset: before and after its error has been reported.
Reset == {"reset", "dead"}

(* The kernel. *)
socket(state, port) == [state |-> state, port |-> port, data |-> FALSE, pending |-> 0]
FreeSds   == (0 .. MaxSd - 1) \ DOMAIN fds
NewSd     == CHOOSE sd \in FreeSds : \A other \in FreeSds : sd <= other
added(f, sd, s) == [other \in DOMAIN f \cup {sd} |-> IF other = sd THEN s ELSE f[other]]
opened(s) == fds' = added(fds, NewSd, s)
closed(f, sd) == [other \in DOMAIN f \ {sd} |-> f[other]]
htons(port) == IF port % 65536 = 0 THEN Ephemeral ELSE port % 65536

\* bind finds the port in use; the kernel's own choice is always free.
in_use(port) ==
  /\ htons(port) = port
  /\ \E sd \in DOMAIN fds : fds[sd].port = port /\ fds[sd].state \notin Reset

Init ==
  /\ sock = [s \in Sock |-> NULL]
  /\ fds = <<>>
  /\ result = "TCP_NO_ERROR"

returns(code) == result' = code

\* Early returns: nothing has been changed, or what was allocated is freed.
answers(code) == returns(code) /\ UNCHANGED <<sock, fds>>

\* "socket == NULL", and the cookie: is s a socket that has been bound?
IsBound(s) == sock[s] # NULL /\ sock[s].cookie
-----------------------------------------------------------------------------
bad_port(port) == port < MIN_PORT \/ port > MAX_PORT

tcp_passive_open(s, port) ==
  \/ bad_port(port) /\ answers("TCP_ADDRESS_ERROR")
  \/ ~ bad_port(port) /\ answers("TCP_MEMORY_ERROR")
  \/ ~ bad_port(port) /\ answers("TCP_SOCKOP_ERROR")           \* socket()
  \/ /\ ~ bad_port(port) /\ FreeSds # {}
     /\ opened(socket("new", 0))                             \* bind(), listen()
     /\ returns("TCP_SOCKOP_ERROR")
     /\ UNCHANGED sock
  \/ /\ ~ bad_port(port) /\ FreeSds # {}
     /\ ~ in_use(port)
     /\ opened(socket("listen", htons(port)))
     /\ sock' = [sock EXCEPT ![s] = Bound(NewSd, FALSE, port)]
     /\ returns("TCP_NO_ERROR")

tcp_active_open(s, port, ip) ==
  \/ (bad_port(port) \/ ip = NULL) /\ answers("TCP_ADDRESS_ERROR")
  \/ ~ bad_port(port) /\ ip # NULL /\ answers("TCP_MEMORY_ERROR")
  \/ ~ bad_port(port) /\ ip # NULL /\ answers("TCP_SOCKOP_ERROR")
  \/ /\ ~ bad_port(port) /\ ip # NULL /\ FreeSds # {}
     /\ opened(socket("new", 0))
     /\ \/ ip = "invalid" /\ returns("TCP_ADDRESS_ERROR")    \* inet_aton()
        \/ ip = "valid" /\ returns("TCP_SOCKOP_ERROR")       \* connect()
     /\ UNCHANGED sock
  \/ /\ ~ bad_port(port) /\ ip = "valid" /\ FreeSds # {}
     /\ opened(socket("connected", Ephemeral))
     /\ \/ /\ returns("TCP_SOCKOP_ERROR") \/ returns("TCP_MEMORY_ERROR")
           /\ UNCHANGED sock                                 \* getsockname(), malloc
        \/ /\ returns("TCP_NO_ERROR")
           /\ sock' = [sock EXCEPT ![s] = Bound(NewSd, TRUE, Ephemeral)]

\* Mutant: *socket is not set to NULL.
tcp_close_dangling(s) ==
  \/ sock[s] = NULL /\ answers("TCP_SOCKET_ERROR")
  \/ /\ sock[s] # NULL
     /\ fds' = closed(fds, sock[s].sd)
     /\ UNCHANGED sock
     /\ returns("TCP_NO_ERROR")

\* Mutant: close is not called for a connection that the peer has shut down.
tcp_close_half(s) ==
  \/ sock[s] = NULL /\ answers("TCP_SOCKET_ERROR")
  \/ /\ sock[s] # NULL
     /\ fds' = IF fds[sock[s].sd].state \in Reset \cup {"shut"}
               THEN fds ELSE closed(fds, sock[s].sd)
     /\ sock' = [sock EXCEPT ![s] = NULL]
     /\ returns("TCP_NO_ERROR")

\* shutdown, and close if that succeeded; then the socket is freed.
tcp_close(s) ==
  \/ sock[s] = NULL /\ answers("TCP_SOCKET_ERROR")
  \/ /\ sock[s] # NULL
     /\ fds' = IF sock[s].cookie /\ fds[sock[s].sd].state \notin Reset
               THEN closed(fds, sock[s].sd) ELSE fds
     /\ sock' = [sock EXCEPT ![s] = NULL]
     /\ returns("TCP_NO_ERROR")

\* Mutant: the result of accept is not checked.
accept_failed_ignored(new) ==
  /\ returns("TCP_NO_ERROR")
  /\ sock' = [sock EXCEPT ![new] = Bound(-1, TRUE, Ephemeral)]
  /\ UNCHANGED fds

accept_failed(new) == answers("TCP_SOCKOP_ERROR")

\* new is a variable that holds no socket: it is overwritten.  The descriptor
\* has the listener's port, the socket gets the peer's.
tcp_wait_for_connection(s, new) ==
  \/ ~ IsBound(s) /\ answers("TCP_SOCKET_ERROR")
  \/ IsBound(s) /\ answers("TCP_MEMORY_ERROR")
  \/ IsBound(s) /\ accept_failed(new)
  \/ /\ IsBound(s) /\ FreeSds # {}
     /\ fds[sock[s].sd].state = "listen" /\ fds[sock[s].sd].pending > 0
     /\ fds' = added([fds EXCEPT ![sock[s].sd].pending = @ - 1],
                     NewSd, socket("connected", fds[sock[s].sd].port))
     /\ \/ returns("TCP_MEMORY_ERROR") /\ UNCHANGED sock     \* malloc of ip_addr
        \/ /\ returns("TCP_NO_ERROR")
           /\ \E port \in PeerPorts :
                sock' = [sock EXCEPT ![new] = Bound(NewSd, TRUE, port)]

\* The error of a reset is reported to the caller once.
error_reported(sd) ==
  /\ fds' = [fds EXCEPT ![sd].state = "dead"]
  /\ returns("TCP_SOCKOP_ERROR")
  /\ UNCHANGED sock

\* buf_size is NULL: "*buf_size = 0" ends the process, with all it had open.
segfault ==
  /\ sock' = [s \in Sock |-> NULL]
  /\ fds' = <<>>
  /\ returns("SIGSEGV")

tcp_send(s) ==
  \/ ~ IsBound(s) /\ answers("TCP_SOCKET_ERROR")
  \/ IsBound(s) /\ answers("TCP_NO_ERROR")                   \* buffer is NULL
  \/ IsBound(s) /\ segfault
  \/ IsBound(s) /\ answers("TCP_CONNECTION_CLOSED")          \* *buf_size is 0
  \/ IsBound(s) /\ answers("TCP_SOCKOP_ERROR")               \* another error
  \/ /\ IsBound(s)
     /\ LET sd == sock[s].sd IN
        \/ fds[sd].state \in {"connected", "shut"} /\ answers("TCP_NO_ERROR")
        \/ fds[sd].state = "reset" /\ error_reported(sd)
        \/ fds[sd].state \in {"listen", "dead"} /\ answers("TCP_CONNECTION_CLOSED")

tcp_receive(s) ==
  \/ ~ IsBound(s) /\ answers("TCP_SOCKET_ERROR")
  \/ IsBound(s) /\ answers("TCP_NO_ERROR")                   \* buffer is NULL
  \/ IsBound(s) /\ segfault
  \/ IsBound(s) /\ answers("TCP_CONNECTION_CLOSED")          \* *buf_size is 0
  \/ IsBound(s) /\ answers("TCP_SOCKOP_ERROR")               \* another error
  \/ /\ IsBound(s)
     /\ LET sd == sock[s].sd IN
        \/ /\ fds[sd].data
           /\ \E rest \in BOOLEAN : fds' = [fds EXCEPT ![sd].data = rest]
           /\ returns("TCP_NO_ERROR")
           /\ UNCHANGED sock
        \/ ~ fds[sd].data /\ fds[sd].state = "reset" /\ error_reported(sd)
        \/ /\ ~ fds[sd].data /\ fds[sd].state \in {"shut", "dead", "listen"}
           /\ answers("TCP_CONNECTION_CLOSED")

\* The getters answer NULL for TCP_SOCKET_ERROR.
get(s, field)      == IF IsBound(s) THEN sock[s][field] ELSE NULL
tcp_get_ip_addr(s) == get(s, "ip_addr")
tcp_get_port(s)    == get(s, "port")
tcp_get_sd(s)      == get(s, "sd")
-----------------------------------------------------------------------------
(* The peers. *)

peer_connect(sd) ==
  /\ fds[sd].state = "listen" /\ fds[sd].pending < MAX_PENDING
  /\ fds' = [fds EXCEPT ![sd].pending = @ + 1]
  /\ UNCHANGED <<sock, result>>

peer_step(sd) ==
  /\ \/ fds[sd].state = "connected" /\ fds' = [fds EXCEPT ![sd].data = TRUE]
     \/ fds[sd].state = "connected" /\ fds' = [fds EXCEPT ![sd].state = "shut"]
     \/ fds[sd].state \in {"connected", "shut"} /\ fds' = [fds EXCEPT ![sd].state = "reset"]
  /\ UNCHANGED <<sock, result>>

Next ==
  \/ \E s \in Sock, port \in Ports :
       /\ sock[s] = NULL
       /\ \/ tcp_passive_open(s, port)
          \/ \E ip \in {"valid", "invalid", NULL} : tcp_active_open(s, port, ip)
  \/ \E s \in Sock : tcp_close(s) \/ tcp_send(s) \/ tcp_receive(s)
  \/ \E s, new \in Sock : sock[new] = NULL /\ tcp_wait_for_connection(s, new)
  \/ \E sd \in DOMAIN fds : peer_connect(sd) \/ peer_step(sd)

Spec == Init /\ [][Next]_vars
-----------------------------------------------------------------------------
Descriptor == [state : {"new", "listen", "connected", "shut"} \cup Reset,
               port : Nat, data : BOOLEAN, pending : 0 .. MAX_PENDING]

\* The types of the variables: no call leaves a socket behind that is not
\* bound, the getters' check of the cookie never finds one.
TypeOK ==
  /\ sock \in [Sock -> {NULL} \cup tcpsock]
  /\ DOMAIN fds \subseteq 0 .. MaxSd - 1
  /\ \A sd \in DOMAIN fds : fds[sd] \in Descriptor

Owned == {tcp_get_sd(s) : s \in {t \in Sock : IsBound(t)}}

\* A socket's descriptor is open and nobody else's, although the kernel gives
\* the numbers of closed descriptors out again.
OneOwner ==
  \A s \in Sock : sock[s] # NULL =>
    /\ tcp_get_sd(s) \in DOMAIN fds
    /\ fds[tcp_get_sd(s)].state # "new"
    /\ \A t \in Sock \ {s} : tcp_get_sd(t) # tcp_get_sd(s)

NoSilentLeak ==
  \A sd \in DOMAIN fds' \ Owned' :
    \/ sd \in DOMAIN fds \ Owned
    \/ result' # "TCP_NO_ERROR"
    \/ fds'[sd].state \in Reset

\* No call loses a descriptor in silence: if one is left open without a
\* socket, the call answers an error code, or closed a reset connection.
LeakReported == [][NoSilentLeak]_vars

\* A socket that tcp_close took has its descriptor closed.  Does NOT hold: when
\* shutdown fails close is not called.
CloseCloses ==
  [][\A s \in Sock : sock[s] # NULL /\ sock'[s] = NULL => sock[s].sd \notin DOMAIN fds']_vars
=============================================================================
