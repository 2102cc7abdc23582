SPECIFICATION Spec
CONSTANTS
  Calls <- MCCalls
  Transcripts <- MCTranscripts
  Printed <- MCPrinted
  MaxUndropped = 1
INVARIANTS
  NothingForgotten
  ExitZeroMeans
  FailsClosed
  AgreementIsSilence
PROPERTIES
  EvidenceIsGenuine
  EndsUnlessLeftWaiting
CHECK_DEADLOCK FALSE
