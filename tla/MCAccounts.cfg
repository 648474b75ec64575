SPECIFICATION AccountsSpec
CONSTANTS
  r1 = r1
  r2 = r2
  e1 = e1
  e2 = e2
  u1 = u1
  u2 = u2
  t1 = t1
  t2 = t2
  m1 = m1
  None = None
  Reqs <- TwoRequests
  Emails <- TwoEmails
  Attempts = 3
  UserIds <- TwoIds
  FirstUser = u1
  Addresses <- TwoEmails
  Tasks <- TwoTasks
  Mails <- OneMail
  AttemptLimits = {2}
  MaxJobs = 1
  MaxRestarts = 2
CHECK_DEADLOCK FALSE
INVARIANTS
  AccountsTypeOK
  EmailsAreUnique
  OnlyAccountsAreWelcomed
  RefusalCostsAnAttempt
  CompletedMailWasSent
  MailIsSentOnce
PROPERTIES
  ImplementsRegistry
  ImplementsDirectory
  EveryRequestIsAnswered
  QueuedMailEnds
