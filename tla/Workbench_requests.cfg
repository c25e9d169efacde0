\* Four requests on three sessions, shells that write two chunks, two views of
\* the ledger and one death of the host.
CONSTANTS
  Sessions = {1, 2, 3}
  Clients = {c1}
  Cap = 1
  MaxOutput = 2
  Readers = {m1, m2}
  Paths <- MCPaths
  Main <- MCMain
  Keep = 1
  MaxRequests = 4
  MaxDeaths = 1
SPECIFICATION FairSpec
INVARIANTS
  ServersAreOwned
  StreamsAreFaithful
  ReadsAreFresh
PROPERTIES
  StreamsEnd
\* The requests may be over.
CHECK_DEADLOCK FALSE
