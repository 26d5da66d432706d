SPECIFICATION Spec
CONSTANTS
  r1 = r1
  r2 = r2
  r3 = r3
  Requests = {r1, r2, r3}
  NoEntry = NoEntry
  d1 = d1
  d2 = d2
  y1 = y1
  y2 = y2
  p1 = p1
  p2 = p2
  f1 = f1
  f2 = f2
  Dates <- MCDates
  Years <- MCYears
  YearOf <- MCYearOf
  Periods <- MCPeriods
  Covers <- MCCovers
  FiscalYears <- MCFiscalYears
  FiscalYearOf <- MCFiscalYearOf
PROPERTY
  NothingPostedInClosedYear
