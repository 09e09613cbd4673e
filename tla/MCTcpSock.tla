----------------------------- MODULE MCTcpSock ------------------------------
(* The ports at the limits of MIN_PORT and MAX_PORT.                       *)
EXTENDS TcpSock

MCPorts == {1023, 1024, 65536, 65537}
=============================================================================
