CONSTANTS
  Calls = {c1, c2}
  NoCall = NoCall
  SystemUser = SystemUser
  NoKey = NoKey
  k1 = k1
  Keys = {k1}
  UserAccounts <- MCUserAccounts
  Currencies <- MCCurrencies
  CurrencyOf <- MCCurrencyOf
  ClearingId <- MCClearingId
  Amounts <- MCAmounts
  Quote <- MCQuote
  InitialBalance <- MCInitialBalance
  InitialRows <- MCAnyRows
  Requests <- MCAllRequests
  MaxTxn = 3
SPECIFICATION Spec
SYMMETRY MCSymmetry
INVARIANTS
  TypeOK
  NoOverdraft
  FundsStayAvailable
  OneTransactionPerKey
  CommittedAnnounced
  ClearingRowsStay
  MoneyConserved
  DeadlockOnlyOnCreation
PROPERTIES
  PostedUnderLock
  ImplementsAtomicLedger
