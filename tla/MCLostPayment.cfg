SPECIFICATION Spec
CONSTANTS
  p1 = p1
  p2 = p2
  i1 = i1
  i2 = i2
  c1 = c1
  d1 = d1
  d2 = d2
  NoCall = NoCall
  NoRow = NoRow
  DirectCalls = {c1}
  DecisionCalls = {d1, d2}
  Payments <- MCPayments
  NeedsApproval <- MCNeedsApproval
  Invoices <- MCInvoices
  Total <- MCTotal
  Allocations <- MCAllocations
INVARIANT
  EveryAllocationCounted
