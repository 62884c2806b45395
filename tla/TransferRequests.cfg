CONSTANTS
  Handlers = {h1, h2}
  RequestKeys = {k1}
  Bodies = {b1, b2}
  None = None
  Workers = {w1, w2}
  MaxTxn = 2
  MailIds <- MCMailIds
SPECIFICATION FairSpec
INVARIANTS
  TypeOK
  AnswersAreEffects
  RunsOnce
  MailedAtMostOnce
PROPERTIES
  CommittedMailSettles
