SPECIFICATION MonthEndSpec
CONSTANTS
  c1 = c1
  c2 = c2
  c3 = c3
  c4 = c4
  c5 = c5
  l1 = l1
  l2 = l2
  r1 = r1
  r2 = r2
  march = march
  truck = truck
  desk = desk
  Free = Free
  NoRun = NoRun
  Calls = {c1, c2, c3, c4, c5}
  MatchingCalls = {c1, c2, c3}
  Recons = {r1, r2}
  Lines = {l1, l2}
  Amount <- MCAmount
  Statement <- MCStatement
  Difference <- MCDifference
  Creators = {c1, c2}
  Deciders = {c3, c4}
  Accruals = {c5}
  Periods = {march}
  PeriodOf <- MCPeriodOf
  Chart = {"5110", "2140", "2130", "5120"}
  DepreciationCalls = {c1, c2}
  Assets = {truck, desk}
  Purchased <- MCPurchased
  Price <- MCPrice
  Life <- MCLife
  DaysIn <- MCDaysIn
  AsOf <- MCAsOf
  home = home
  abroad = abroad
  cash = cash
  loan = loan
  capital = capital
  sales = sales
  wages = wages
  invest = invest
  borrow = borrow
  sell = sell
  pay = pay
  sellAbroad = sellAbroad
  borrowAbroad = borrowAbroad
  ReportCalls = {c1}
  Parent = home
  Children = {abroad}
  Foreign = {abroad}
  Codes = {cash, loan, capital, sales, wages}
  TypeOf <- MCTypeOf
  Entries = {invest, borrow, sell, pay, sellAbroad, borrowAbroad}
  Entry <- MCEntry
  EntryLines <- MCEntryLines
  LineOf <- MCLineOf
  Ranges <- MCRanges
  Months <- MCMonths
  Nows = {4, 7}
  Rates = {15}
  RateUnit = 4
  NoRate = NoRate
  Unit = 10000
  InvoiceInputs <- MCInvoiceInputs
  StaffInputs <- MCStaffInputs
  GosiCeiling = 120
  june = june
  leap = leap
  october = october
  MonthlyWage = 515
  Year = 1461
  Day = 4
  Hires = {june, leap, october}
  TimeServed <- MCTimeServed
  Drift = 60
  LastMonth = 126
  MaxIrregular = 1
INVARIANTS
  TypeOK
  ReconciledBalances
  SalariesPostedOnce
  DepreciationPostedOnce
  BookValueAboveSalvage
  StatementsAgree
  ConsolidationBalances
  KeptWithinRounding
  ExactAmountsPost
  AccrualsFollowLiability
PROPERTIES
  CallsEnd
CHECK_DEADLOCK FALSE
