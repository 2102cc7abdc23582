SPECIFICATION FairSpec
CONSTANTS
  Clients = {c1, c2}
  NoClient = NoClient
  MaxInFlight = 1
PROPERTY InterruptStops
\* The server may have stopped, or every client been served.
CHECK_DEADLOCK FALSE
