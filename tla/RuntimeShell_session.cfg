\* One browser that may connect again, two resizes, a shell that opens at the
\* third attempt at the latest.
CONSTANTS
  Clients = {c1}
  Attempts = 3
  MaxFrames = 2
  MaxResizes = 2
SPECIFICATION FairShellSpec
INVARIANTS
  StreamsAreFaithful
  SizeIsHonoured
PROPERTIES
  StreamsEnd
  ConnectionsSettle
\* A session is over for good.
CHECK_DEADLOCK FALSE
