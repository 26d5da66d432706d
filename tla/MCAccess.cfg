SPECIFICATION AccessSpec
CONSTANTS
  c1 = c1
  c2 = c2
  c3 = c3
  b1 = b1
  b2 = b2
  Calls = {c1, c2, c3}
  SessionCalls = {c1, c2, c3}
  Browsers = {b1, b2}
  NoToken = NoToken
  From <- MCFrom
  AccountCalls = {c1, c2, c3}
  Users = {"ann", "bob"}
  Tenants = {"acme"}
  NoUser = NoUser
  NoInvitation = NoInvitation
  MaxAttempts = 2
  ChartCalls = {c1, c2, c3}
  Codes = {"1000", "1100", "1110", "9000"}
  NoCode = NoCode
  TemplateType <- MCTemplateType
  TemplateParent <- MCTemplateParent
  WebCalls = {c1, c2}
  MaxVisits = 2
INVARIANTS
  TypeOK
  SessionKept
  SpentOnce
  LockoutCounts
  InvitationAcceptedOnce
  ChartIsForest
  OwnWorkShown
CHECK_DEADLOCK FALSE
