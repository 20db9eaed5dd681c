SPECIFICATION Spec
CONSTANTS
  d1 = d1
  u1 = u1
  u2 = u2
  w1 = w1
  w2 = w2
  good = good
  bad = bad
  NoDraft = NoDraft
  NoUser = NoUser
  Documents <- MCDocuments
  Users <- MCUsers
  OrgOf <- MCOrgOf
  Workers <- MCTwoWorkers
  Contents <- MCContents
  Clean <- MCClean
  OcrEnabled = TRUE
  AiEnabled = TRUE
  MaxExtractions = 2
  MaxFaults = 1
INVARIANTS ReviewableHasDraft DecisionIsRecorded DecidedWithinOrganization OneAiSuccess FailureIsExplained RunningJobIsServed RestsSettled
SYMMETRY MCSymmetry
CHECK_DEADLOCK FALSE
