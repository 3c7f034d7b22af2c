SPECIFICATION FairSpec
CONSTANTS
  Callers = {c1}
  MaxCalls = 1
  MaxWire = 2
  MaxPhases = 2
INVARIANT FlightTracksServer
PROPERTIES
  CallsReturn
  WaitEndsWithIndexing
