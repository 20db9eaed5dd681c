SPECIFICATION ServedFairSpec
CONSTANTS
  d1 = d1
  u1 = u1
  u2 = u2
  w1 = w1
  w2 = w2
  x1 = x1
  i1 = i1
  good = good
  bad = bad
  NoItem = NoItem
  NoDraft = NoDraft
  NoUser = NoUser
  Documents <- MCDocuments
  Users <- MCUsers
  OrgOf <- MCOrgOf
  Workers <- MCOneWorker
  Contents <- MCContents
  Clean <- MCClean
  Exporters <- MCExporters
  ItemsOf <- MCItemsOf
  OcrEnabled = TRUE
  AiEnabled = TRUE
  MaxExtractions = 3
  MaxFaults = 2
INVARIANTS TypeOK ReviewFollowsValidation OneDecision ApprovedIsClean NoSecondPaidCall ExtractedTextIsStored ExportedWasReviewed
PROPERTIES DecidedDataIsFrozen ImplementsWorkflow SettlesWithoutFaults
