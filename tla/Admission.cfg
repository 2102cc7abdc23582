SPECIFICATION FairSpec
CONSTANTS
  Clients = {c1, c2, c3}
  NoClient = NoClient
  MaxInFlight = 2
INVARIANT AdmissionInv
PROPERTIES AppliesProceed EachAnswered
\* The server may have stopped, or every client been served.
CHECK_DEADLOCK FALSE
