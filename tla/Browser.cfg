SPECIFICATION BrowserSpec
CONSTANTS
  Wallet = {adm}
  Nobody = Nobody
  Admin = adm
  MaxVersion = 2
  MaxCalls = 2
  MaxBusy = 1
  MaxRefresh = 1
  o1 = o1
  o2 = o2
  Order = {o1, o2}
  BondOf <- MCBondOf
  Price <- MCPrice
  NoOrder = NoOrder
  AnyBond = "any"
  Amount = {1, 2}
  MaxAmount = 1
  ORDERS_RETRY_COUNT = 1
  MaxBalanceCalls = 1
  MaxEvents = 1
INVARIANTS
  
  TransactionsAreFollowed
  ListMatchesFilter
