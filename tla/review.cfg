SPECIFICATION Spec
CONSTANTS
  w1 = w1
  w2 = w2
  NULL = NULL
  Workers <- OneWorker
  Drafts <- MCDrafts
  Patches <- MCPatches
  MaxEdits = 2
  Cent = 2
  One = 4
  QuantityStep = 2
  MaxMoney = 6
  MaxQuantity = 16
INVARIANTS TypeOK ApprovedAddsUp AnswerIsCurrent StoredIsLastWord TotalSurvivesRounding WholePriceSurvivesRounding
PROPERTY NumbersImplementWorkflow
CHECK_DEADLOCK FALSE
