SPECIFICATION ExportSpec
CONSTANTS
  d1 = d1
  d2 = d2
  d3 = d3
  two = two
  none = none
  wrong = wrong
  i1 = i1
  i2 = i2
  NoDraft = NoDraft
  NoItem = NoItem
  Documents <- MCDocuments
  Contents <- MCContents
  Clean = {two, none}
  OrgOf <- MCOrgOf
  ItemsOf <- MCItemsOf
  Exporters = {"x"}
INVARIANTS ExportedIsApproved FileIsWhole NothingApprovedIsMissing
