\* Three scripts or requests, two at a time, and one fault, for each agent.
CONSTANTS
  Scripts = {s1, s2}
  Keys = {"key1"}
  Exports <- MCExports
  MaxStarts = 3
  MaxFaults = 1
SPECIFICATION Spec
INVARIANTS
  RecordsWereTrue
  RuntimeIsGranted
PROPERTIES
  CalmDeploysSucceed
\* The scripts may be over.
CHECK_DEADLOCK FALSE
