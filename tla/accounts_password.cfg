SPECIFICATION Spec
CONSTANTS
  w1 = w1
  w2 = w2
  r1 = r1
  Workers <- MCWorkers
  Requests <- MCRequests
  Emails <- MCEmails
  LongEmails <- MCLongEmails
  Passwords <- WidePasswords
  MinLength = 8
  MaxLength = 72
  Lifetime = 1
  MaxTime = 1
  MaxUsers = 2
INVARIANT LoginNeedsThePassword
CHECK_DEADLOCK FALSE
