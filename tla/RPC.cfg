SPECIFICATION RPCSpec
CONSTANTS
  Peers <- MCPeers
  Messages <- MCMessages
  Client = client
  Servers = {s1, s2}
  Calls = {k1}
  Unknown = {}
  NoMessage = NoMessage
  Stopped = {client, s1}
  Attempts = 1
  MaxLosses = 2
INVARIANTS
  CallTypes
  PanicCauses
PROPERTIES
  KeepsPromise
  WaitingIsWoken
CHECK_DEADLOCK FALSE
