SPECIFICATION FairSpec
CONSTANTS
  a = a
  b = b
  a1 = a1
  a2 = a2
  b1 = b1
  purchase = purchase
  sale = sale
  transfer = transfer
  c1 = c1
  c2 = c2
  c3 = c3
  NoRow = NoRow
  Calls = {c1, c2, c3}
  Items = {a, b}
  Invoices = {purchase, sale}
  Transfers = {transfer}
  Stocks <- MCStocks
  ItemOf <- MCItemOf
  Opening <- MCOpening
  Moves <- MCMoves
INVARIANTS
  TypeOK
  BalanceIsSumOfMovements
  NeverOversold
PROPERTIES
  CallsEnd
CHECK_DEADLOCK FALSE
