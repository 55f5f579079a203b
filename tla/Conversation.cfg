SPECIFICATION FairSpec
CONSTANTS
  m1 = m1
  m2 = m2
  Messages = {m1, m2}
  Requests <- MCRequests
  MaxEvents = 2
  MaxProposals = 1
INVARIANTS
  TypeOK
  CandidateStoredOnce
  ApprovedIsRemembered
  RunEndsAsDecided
  DoneMeansTasksDone
PROPERTIES
  RunsEnd
CHECK_DEADLOCK FALSE
