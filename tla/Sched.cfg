SPECIFICATION FairSpec
CONSTANTS
  t1 = t1
  t2 = t2
  t3 = t3
  t4 = t4
  Tasks <- FourTasks
  None = None
  RaxOutcomes <- RaxUnknown
INVARIANTS ListLinked EveryTaskPlaced QuitAssertsHold CurrentNotStale
PROPERTIES ImplementsQueue ReadyRuns QuitIsReclaimed
