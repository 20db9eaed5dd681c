SPECIFICATION Spec
CONSTANTS
  w1 = w1
  w2 = w2
  r1 = r1
  Workers <- MCWorkers
  Requests <- MCRequests
  Emails <- MCEmails
  LongEmails <- MCLongEmails
  Passwords <- ShortPasswords
  MinLength = 8
  MaxLength = 72
  Lifetime = 1
  MaxTime = 1
  MaxUsers = 2
INVARIANTS CreatedIsTheAccount OrganizationsHaveTheirUser LetInIsEntitled
CHECK_DEADLOCK FALSE
