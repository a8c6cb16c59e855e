CONSTANTS
  Initialize = Initialize
  Initialized = Initialized
  Preamble = Preamble
  CodeMode = TRUE
  r1 = r1
  r2 = r2
  n1 = n1
  n2 = n2
  Calls = {r1, r2}
  Notes = {n1, n2}
  Batches <- MCBatches
  MaxPending = 2
  QueueGrace = TRUE
  RapidFailMax = 2
  MaxConnections = 3
SPECIFICATION FairSpec
INVARIANTS
  AnsweredOnce
  NothingVanishes
  InOrderOnce
  NobodyWaitsPastTheGrace
PROPERTIES
  GreetedFirst
  EveryRequestAnswered
