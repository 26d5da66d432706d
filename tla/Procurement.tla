----------------------------- MODULE Procurement -----------------------------
(***************************************************************************)
(* PurchaseOrdersService after an order was created: it is sent, received  *)
(* and billed, directly or by a decision on its approval request.  Every   *)
(* operation reads the status first and updates the order by id later.     *)
(*                                                                         *)
(* A decision is ApprovalsService's call and the event handler it wakes.   *)
(***************************************************************************)
EXTENDS Naturals, FiniteSets, Requests

CONSTANTS
  OrderCalls,   \* calls of receiveGoods, approvePurchaseOrder, convertToBill
                \* and of approveRequest and rejectRequest
  Orders,
  AboveLimit    \* orders of more than 10000

ASSUME ProcurementAssumption ==
  /\ OrderCalls \subseteq Calls
  /\ AboveLimit \subseteq Orders
  /\ Orders # {}

\* Nothing sets PartiallyReceived or Cancelled.
OrderStatuses == {"Draft", "PendingApproval", "Sent", "Received", "Billed"}

VARIABLES
  order,      \* status of each purchase order
  decision,   \* status of its approval request
  receipts,   \* how often its goods were booked as inventory transactions
  bills,      \* how many invoices BILL-<poNumber> there are
  job,        \* what a call does and to which order
  wronged     \* history: orders written by a stale call, or put back by a
              \* decision when they no longer awaited one

orderTables == <<order, decision, receipts, bills>>
orderVars == <<orderTables, job, wronged>>

Jobs == [do: {"receive", "approve", "bill", "accept", "reject"}, order: Orders]

\* The statuses an operation can start from.
ReadyFor(do) ==
  CASE do = "receive" -> {"Sent", "Draft"}
    [] do = "approve" -> {"Draft", "PendingApproval"}
    [] do = "bill" -> OrderStatuses \ {"Billed"}

ProcurementInit ==
  /\ RequestsInit
  /\ order = [o \in Orders |-> IF o \in AboveLimit THEN "PendingApproval" ELSE "Draft"]
  /\ decision = [o \in Orders |-> IF o \in AboveLimit THEN "Pending" ELSE "Absent"]
  /\ receipts = [o \in Orders |-> 0]
  /\ bills = [o \in Orders |-> 0]
  /\ job = [c \in Calls |-> CHOOSE j \in Jobs : TRUE]
  /\ wronged = {}

RefuseJob(c) ==
  Goto(c, "failed") /\ UNCHANGED <<orderVars, stale>>

\* c sets the status of its order, by id alone.
SetStatus(c, status) ==
  LET o == job[c].order
  IN  /\ order' = [order EXCEPT ![o] = status]
      /\ Outdate(c, {d \in Calls : job[d].order = o})
      /\ wronged' = IF c \in stale THEN wronged \cup {o} ELSE wronged
      /\ Goto(c, "done")
      /\ UNCHANGED job

\* A likely mistake: an order that was sent can be approved once more.
BeginOrderAny(c, j) ==
  /\ pc[c] = "idle"
  /\ j.do \in {"receive", "approve", "bill"}
  /\ order[j.order] \in ReadyFor(j.do) \cup ReadyFor("bill")
  /\ job' = [job EXCEPT ![c] = j]
  /\ Goto(c, "read")
  /\ UNCHANGED <<orderTables, wronged, stale>>

\* receiveGoods, approvePurchaseOrder and convertToBill look at the status.
BeginOrder(c, j) ==
  /\ pc[c] = "idle"
  /\ j.do \in {"receive", "approve", "bill"}
  /\ order[j.order] \in ReadyFor(j.do)
  /\ job' = [job EXCEPT ![c] = j]
  /\ Goto(c, "read")
  /\ UNCHANGED <<orderTables, wronged, stale>>

\* One transaction: inventory transactions, no balance, and the status.
Receive(c) ==
  /\ pc[c] = "read" /\ job[c].do = "receive"
  /\ receipts' = [receipts EXCEPT ![job[c].order] = @ + 1]
  /\ SetStatus(c, "Received")
  /\ UNCHANGED <<decision, bills>>

Send(c) ==
  /\ pc[c] = "read" /\ job[c].do = "approve"
  /\ SetStatus(c, "Sent")
  /\ UNCHANGED <<decision, receipts, bills>>

\* A likely mistake: a number is drawn for the bill, so it is never taken.
BillUnderNewNumber(c) ==
  /\ pc[c] = "read" /\ job[c].do = "bill"
  /\ bills' = [bills EXCEPT ![job[c].order] = @ + 1]
  /\ SetStatus(c, "Billed")
  /\ UNCHANGED <<decision, receipts>>

\* One transaction: the invoice and the status.
Bill(c) ==
  /\ pc[c] = "read" /\ job[c].do = "bill"
  /\ bills[job[c].order] = 0
  /\ bills' = [bills EXCEPT ![job[c].order] = @ + 1]
  /\ SetStatus(c, "Billed")
  /\ UNCHANGED <<decision, receipts>>

\* BILL-<poNumber> exists: tenantId and invoiceNumber are unique.
BillExists(c) ==
  /\ pc[c] = "read" /\ job[c].do = "bill" /\ bills[job[c].order] > 0
  /\ RefuseJob(c)

(***************************************************************************)
(* Decisions.                                                              *)
(***************************************************************************)
ReadDecision(c, j) ==
  /\ pc[c] = "idle"
  /\ j.do \in {"accept", "reject"}
  /\ decision[j.order] = "Pending"
  /\ job' = [job EXCEPT ![c] = j]
  /\ Goto(c, "deciding")
  /\ UNCHANGED <<orderTables, wronged, stale>>

\* By id; then the event is emitted.
SaveDecision(c) ==
  /\ pc[c] = "deciding"
  /\ decision' = [decision EXCEPT ![job[c].order] =
                    IF job[c].do = "accept" THEN "Approved" ELSE "Rejected"]
  /\ Goto(c, "event")
  /\ UNCHANGED <<order, receipts, bills, job, wronged, stale>>

\* handleApprovalApproved and handleApprovalRejected do not look at the order.
HandleDecision(c) ==
  LET o == job[c].order
  IN  /\ pc[c] = "event"
      /\ order' = [order EXCEPT ![o] = IF job[c].do = "accept" THEN "Sent" ELSE "Draft"]
      /\ Outdate(c, {d \in Calls : job[d].order = o})
      /\ wronged' = IF order[o] = "PendingApproval" THEN wronged ELSE wronged \cup {o}
      /\ Goto(c, "done")
      /\ UNCHANGED <<decision, receipts, bills, job>>

\* Accounts are missing, a crash, a lost event.
AbortOrder(c) == InFlight(c) /\ RefuseJob(c)

OrderStep(c) ==
  \/ Receive(c) \/ Send(c) \/ Bill(c) \/ BillExists(c)
  \/ SaveDecision(c) \/ HandleDecision(c)

ProcurementNext ==
  \E c \in OrderCalls :
    \/ \E j \in Jobs : BeginOrder(c, j) \/ ReadDecision(c, j)
    \/ OrderStep(c)
    \/ AbortOrder(c)

ProcurementSpec == ProcurementInit /\ [][ProcurementNext]_<<orderVars, pc, stale>>

-----------------------------------------------------------------------------

\* The columns and the calls hold values of their types.
ProcurementTypeOK ==
  /\ order \in [Orders -> OrderStatuses]
  /\ decision \in [Orders -> {"Absent", "Pending", "Approved", "Rejected"}]
  /\ receipts \in [Orders -> Nat]
  /\ bills \in [Orders -> Nat]
  /\ job \in [Calls -> Jobs]
  /\ wronged \subseteq Orders
  /\ pc \in [Calls -> {"idle", "read", "deciding", "event", "done", "failed"}]
  /\ stale \subseteq Calls

\* An order never has two bills and a Billed one has its bill, whatever
\* overlaps, comes late or puts the order back.  And goods are received at most
\* once, an order that was received or billed says so, and only then, unless a
\* call wrote the order that had changed since it read it, or a decision came
\* when the order no longer waited for one.
OrdersInStep ==
  \A o \in Orders :
    /\ bills[o] <= 1
    /\ order[o] = "Billed" => bills[o] = 1
    /\ o \notin wronged =>
         /\ receipts[o] <= 1
         /\ bills[o] = 1 => order[o] = "Billed"
         /\ order[o] = "Received" => receipts[o] = 1
         /\ receipts[o] = 1 => order[o] \in {"Received", "Billed"}
=============================================================================
