CONSTANTS
  Sessions = {s1, s2}
  NoRate = NoRate
  Rates <- MCRates
  Den = 2
  Fine = 4
  Amounts <- MCAmounts
  Funds = 3
  TTL = 3
  MaxHold = 1
SPECIFICATION FairSpec
INVARIANTS
  TypeOK
  FreshRate
  BoughtIsNearest
  RoundingBounded
  SourceLegsCancel
  RoundingWithinFunds
PROPERTIES
  OldRatesGo
