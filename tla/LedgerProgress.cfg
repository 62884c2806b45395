CONSTANTS
  Calls = {c1, c2, c3}
  NoCall = NoCall
  SystemUser = SystemUser
  NoKey = NoKey
  k1 = k1
  Keys = {k1}
  UserAccounts <- MCUserAccounts
  Currencies <- MCCurrencies
  CurrencyOf <- MCCurrencyOf
  ClearingId <- MCClearingId
  Amounts <- MCAmounts
  Quote <- MCQuote
  InitialBalance <- MCInitialBalance
  InitialRows <- MCAllRows
  Requests <- MCOpposed
  MaxTxn = 1
SPECIFICATION FairSpec
INVARIANTS
  NoWaitCycle
PROPERTIES
  EveryCallEnds
