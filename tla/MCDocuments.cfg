SPECIFICATION PartsSpec
CONSTANTS
  c1 = c1
  c2 = c2
  c3 = c3
  c4 = c4
  q1 = q1
  q2 = q2
  deal = deal
  Calls = {c1, c2, c3, c4}
  CreateCalls = {c1, c2, c3, c4}
  Drawn = {"SalesInvoice"}
  Counted = {"PurchaseOrder"}
  LastYear = 1
  OrderCalls = {c1, c2, c3, c4}
  Orders = {1}
  AboveLimit = {1}
  CrmCalls = {c1, c2, c3}
  Quotes = {q1, q2}
  Opportunities = {deal}
  NoOpportunity = NoOpportunity
  About <- MCAbout
  ZatcaCalls = {c1, c2, c3, c4}
  Issued = 2
INVARIANTS
  TypeOK
  DrawnNumbersAccounted
  CountedNumberFree
  OrdersInStep
  QuotesInvoicedOnce
  SubmittedChain
  SubmittedIsFinal
CHECK_DEADLOCK FALSE
