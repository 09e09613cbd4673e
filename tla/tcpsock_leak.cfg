SPECIFICATION Spec
CONSTANTS
  NULL = NULL
  Sock = {s1, s2}
  Ports <- MCPorts
  MaxSd = 3
  Ephemeral = 40000
  PeerPorts = {50000}
PROPERTY
  CloseCloses
