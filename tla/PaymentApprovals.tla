-------------------------- MODULE PaymentApprovals --------------------------
(***************************************************************************)
(* Approving payments: PaymentsService.approve, called directly            *)
(* (PATCH /payments/:id/approve) or by the event that                      *)
(* ApprovalsService.approveRequest emits, and the rejection that puts a    *)
(* payment back to Draft.  Calls interleave statement by statement.        *)
(*                                                                         *)
(* A call is an HTTP request together with the event handler it starts:    *)
(* emit() returns before the handler has run, the handler's errors reach   *)
(* nobody, and a crash loses it.  PostgreSQL at READ COMMITTED: reads see  *)
(* committed rows, an updated row stays locked until the end of its        *)
(* transaction, and a cycle of waiting transactions loses one of them.     *)
(***************************************************************************)
EXTENDS Naturals, Sequences, FiniteSets

CONSTANTS
  Payments,
  NeedsApproval,   \* payments above 10000, created with an approval request
  Invoices,
  Total,           \* [Invoices -> Nat], in halalas; a free invoice has total 0
  Allocations,     \* [Payments -> Seq([invoice, amount])], in array order
  DirectCalls,     \* calls of PATCH /payments/:id/approve
  DecisionCalls,   \* calls of approveRequest and rejectRequest
  NoCall, NoRow

Calls == DirectCalls \cup DecisionCalls

\* The columns of an invoice that payments read and write.
Row == [status: {"Draft", "Approved", "Paid"}, paid: Nat]

ASSUME PaymentAssumption ==
  /\ IsFiniteSet(Calls)
  /\ DirectCalls \cap DecisionCalls = {}
  /\ NoCall \notin Calls
  /\ NoRow \notin Row
  /\ Payments # {}
  /\ NeedsApproval \subseteq Payments
  /\ Total \in [Invoices -> Nat]
  /\ Allocations \in [Payments -> Seq([invoice: Invoices, amount: Nat \ {0}])]

VARIABLES
  payment,     \* each payment's status and journalEntryId
  request,     \* status of its ApprovalRequest, "None" if it has none
  invoice,     \* each invoice's status and amountPaid, as committed
  periodOpen,  \* is the payment date in a period that is not Closed?
  approving,   \* invoices that some call of InvoicesService.approve read as Draft
  reapproved,  \* history: invoices that such a call approved when no longer Draft
  pc,          \* where each call stands
  target,      \* the payment a call is about
  verdict,     \* what a decision call decides
  seen,        \* the invoices as findOne read them for a call
  wrote,       \* the invoice rows a call's open transaction has updated
  next,        \* the next allocation a call's transaction processes
  counted,     \* history: what it has processed so far, per invoice
  allocated    \* history: what the posted payments have allocated, per invoice

tables == <<payment, request, invoice, periodOpen, approving, reapproved>>
callVars == <<pc, target, verdict, seen, wrote, next, counted>>
vars == <<tables, callVars, allocated>>

PaymentStatuses == {"Draft", "PendingApproval", "Approved"}
NoRows == [i \in Invoices |-> NoRow]
Nothing == [i \in Invoices |-> 0]
PCs == {"idle", "deciding", "handling", "updating", "checked", "posted", "done", "failed"}

Ended(c) == pc[c] \in {"done", "failed"}
InFlight(c) == pc[c] # "idle" /\ ~Ended(c)

\* An open transaction that has updated the row keeps it locked.
Locks(c, i) == wrote[c][i] # NoRow

AnyPayment == CHOOSE p \in Payments : TRUE

\* PaymentsService.create: above 10000 the payment awaits approval, and its
\* request is created in the same transaction.
Created(p) == [status |-> IF p \in NeedsApproval THEN "PendingApproval" ELSE "Draft",
               entry |-> NoCall]

Init ==
  /\ payment = [p \in Payments |-> Created(p)]
  /\ request = [p \in Payments |-> IF p \in NeedsApproval THEN "Pending" ELSE "None"]
  /\ invoice = [i \in Invoices |-> [status |-> "Draft", paid |-> 0]]
  /\ periodOpen = TRUE
  /\ approving = {}
  /\ reapproved = {}
  /\ pc = [c \in Calls |-> "idle"]
  /\ target = [c \in Calls |-> AnyPayment]
  /\ verdict = [c \in Calls |-> "Approved"]
  /\ seen = [c \in Calls |-> NoRows]
  /\ wrote = [c \in Calls |-> NoRows]
  /\ next = [c \in Calls |-> 1]
  /\ counted = [c \in Calls |-> Nothing]
  /\ allocated = Nothing

Goto(c, l) == pc' = [pc EXCEPT ![c] = l]

\* The call ends; its transaction, if any, with it.
End(c, l) ==
  /\ Goto(c, l)
  /\ seen' = [seen EXCEPT ![c] = NoRows]
  /\ wrote' = [wrote EXCEPT ![c] = NoRows]
  /\ next' = [next EXCEPT ![c] = 1]
  /\ counted' = [counted EXCEPT ![c] = Nothing]

Fail(c) == End(c, "failed") /\ UNCHANGED <<target, verdict, tables, allocated>>

(***************************************************************************)
(* The rest of the system, as far as payments see it.                      *)
(***************************************************************************)

\* InvoicesService.approve reads the invoice before its transaction; any number
\* of calls may have read it as Draft.
ReadInvoice(i) ==
  /\ invoice[i].status = "Draft"
  /\ approving' = approving \cup {i}
  /\ UNCHANGED <<payment, request, invoice, periodOpen, reapproved, callVars,
                 allocated>>

\* ... and sets the status, by id alone, once nobody has the row locked.
ApproveInvoice(i) ==
  /\ i \in approving
  /\ \A c \in Calls : ~Locks(c, i)
  /\ invoice' = [invoice EXCEPT ![i].status = "Approved"]
  /\ reapproved' = IF invoice[i].status = "Draft" THEN reapproved
                   ELSE reapproved \cup {i}
  /\ UNCHANGED <<payment, request, periodOpen, approving, callVars, allocated>>

\* AccountingPeriodsService.updateStatus.
SwitchPeriod ==
  /\ periodOpen' = ~periodOpen
  /\ UNCHANGED <<payment, request, invoice, approving, reapproved, callVars, allocated>>

(***************************************************************************)
(* ApprovalsService.                                                       *)
(***************************************************************************)

\* approveRequest and rejectRequest up to the guard on the status they read.
Decide(c, p, v) ==
  /\ c \in DecisionCalls
  /\ pc[c] = "idle"
  /\ request[p] = "Pending"
  /\ target' = [target EXCEPT ![c] = p]
  /\ verdict' = [verdict EXCEPT ![c] = v]
  /\ Goto(c, "deciding")
  /\ UNCHANGED <<seen, wrote, next, counted, tables, allocated>>

\* A likely mistake: the request's verdict is written in the payment as well,
\* whose enum has no such status.
UpdateRequestAndPayment(c) ==
  /\ pc[c] = "deciding"
  /\ request' = [request EXCEPT ![target[c]] = verdict[c]]
  /\ payment' = [payment EXCEPT ![target[c]].status = verdict[c]]
  /\ Goto(c, "handling")
  /\ UNCHANGED <<invoice, periodOpen, approving, reapproved, target, verdict,
                 seen, wrote, next, counted, allocated>>

\* The update, by id alone, and the event.
UpdateRequest(c) ==
  /\ pc[c] = "deciding"
  /\ request' = [request EXCEPT ![target[c]] = verdict[c]]
  /\ Goto(c, "handling")
  /\ UNCHANGED <<payment, invoice, periodOpen, approving, reapproved, target,
                 verdict, seen, wrote, next, counted, allocated>>

(***************************************************************************)
(* PaymentsService.                                                        *)
(***************************************************************************)

\* PATCH /payments/:id/approve.
Submit(c, p) ==
  /\ c \in DirectCalls
  /\ pc[c] = "idle"
  /\ target' = [target EXCEPT ![c] = p]
  /\ Goto(c, "handling")
  /\ UNCHANGED <<verdict, seen, wrote, next, counted, tables, allocated>>

\* A likely mistake: a rejected payment also forgets its journal entry.
HandleRejectionForgets(c) ==
  /\ pc[c] = "handling"
  /\ verdict[c] = "Rejected"
  /\ payment' = [payment EXCEPT ![target[c]] = [status |-> "Draft", entry |-> NoCall]]
  /\ End(c, "done")
  /\ UNCHANGED <<request, invoice, periodOpen, approving, reapproved, target,
                 verdict, allocated>>

\* handleApprovalRejected: back to Draft, whatever the payment's status is.
HandleRejection(c) ==
  /\ pc[c] = "handling"
  /\ verdict[c] = "Rejected"
  /\ payment' = [payment EXCEPT ![target[c]].status = "Draft"]
  /\ End(c, "done")
  /\ UNCHANGED <<request, invoice, periodOpen, approving, reapproved, target,
                 verdict, allocated>>

\* approve() before its transaction: findOne reads the payment with the
\* invoices it is allocated to; the status is checked once, here.
ReadPayment(c) ==
  /\ pc[c] = "handling"
  /\ verdict[c] = "Approved"
  /\ payment[target[c]].status \in {"Draft", "PendingApproval"}
  /\ seen' = [seen EXCEPT ![c] = invoice]
  /\ Goto(c, "updating")
  /\ UNCHANGED <<target, verdict, wrote, next, counted, tables, allocated>>

\* "Only Draft or PendingApproval payments can be approved."
RefusePayment(c) ==
  /\ pc[c] = "handling"
  /\ verdict[c] = "Approved"
  /\ payment[target[c]].status \notin {"Draft", "PendingApproval"}
  /\ Fail(c)

Allocated(c) == next[c] > Len(Allocations[target[c]])
Current(c) == Allocations[target[c]][next[c]]

\* What approve() writes in an invoice row, from the row it read earlier.
PaidRow(row, i, amount) ==
  [status |-> IF row.paid + amount >= Total[i] THEN "Paid" ELSE row.status,
   paid |-> row.paid + amount]

\* A likely mistake: the row is updated through this.prisma instead of tx, so
\* a rollback does not undo it.
UpdateInvoiceOutside(c) ==
  /\ pc[c] = "updating"
  /\ ~Allocated(c)
  /\ LET i == Current(c).invoice
     IN  /\ seen[c][i].status # "Draft"
         /\ \A d \in Calls \ {c} : ~Locks(d, i)
         /\ invoice' = [invoice EXCEPT ![i] = PaidRow(seen[c][i], i, Current(c).amount)]
  /\ next' = [next EXCEPT ![c] = @ + 1]
  /\ counted' = [counted EXCEPT ![c][Current(c).invoice] = @ + Current(c).amount]
  /\ UNCHANGED <<pc, target, verdict, seen, wrote, payment, request,
                 periodOpen, approving, reapproved, allocated>>

\* One turn of the loop over the allocations.
UpdateInvoice(c) ==
  /\ pc[c] = "updating"
  /\ ~Allocated(c)
  /\ LET i == Current(c).invoice
     IN  /\ seen[c][i].status # "Draft"
         /\ \A d \in Calls \ {c} : ~Locks(d, i)
         /\ wrote' = [wrote EXCEPT
                        ![c][i] = PaidRow(seen[c][i], i, Current(c).amount)]
  /\ next' = [next EXCEPT ![c] = @ + 1]
  /\ counted' = [counted EXCEPT ![c][Current(c).invoice] = @ + Current(c).amount]
  /\ UNCHANGED <<pc, target, verdict, seen, tables, allocated>>

\* A likely mistake: wait for the approval of the invoice, looking again at
\* the row that findOne returned.
AwaitInvoice(c) ==
  /\ pc[c] = "updating"
  /\ ~Allocated(c)
  /\ seen[c][Current(c).invoice].status = "Draft"
  /\ Goto(c, "updating")
  /\ UNCHANGED <<target, verdict, seen, wrote, next, counted, tables, allocated>>

\* "Cannot allocate payment to invoice ... as it is not Approved."
RefuseInvoice(c) ==
  /\ pc[c] = "updating"
  /\ ~Allocated(c)
  /\ seen[c][Current(c).invoice].status = "Draft"
  /\ Fail(c)

\* JournalEntriesService.create first looks for a period, outside the
\* transaction: a Closed one ends the call.
CheckPeriod(c) ==
  /\ pc[c] = "updating"
  /\ Allocated(c)
  /\ periodOpen
  /\ Goto(c, "checked")
  /\ UNCHANGED <<target, verdict, seen, wrote, next, counted, tables, allocated>>

RefusePeriod(c) ==
  /\ pc[c] = "updating"
  /\ Allocated(c)
  /\ ~periodOpen
  /\ Fail(c)

\* ... and then inserts the entry with the given tx.  Two postings that count
\* the same committed entries want the same number, and the second insert
\* waits for the first one's transaction.  (Numbers differ if an entry is
\* committed between the counts; then the order of the inserts shows nowhere.)
PostEntry(c) ==
  /\ pc[c] = "checked"
  /\ \A d \in Calls : pc[d] # "posted"
  /\ Goto(c, "posted")
  /\ UNCHANGED <<target, verdict, seen, wrote, next, counted, tables, allocated>>

\* A likely mistake: amountPaid becomes a real increment, and the status is
\* still decided on the row read before.
CommitIncrement(c) ==
  /\ pc[c] = "posted"
  /\ invoice' = [i \in Invoices |->
                   IF Locks(c, i)
                   THEN [status |-> wrote[c][i].status,
                         paid |-> invoice[i].paid + counted[c][i]]
                   ELSE invoice[i]]
  /\ payment' = [payment EXCEPT ![target[c]] = [status |-> "Approved", entry |-> c]]
  /\ allocated' = [i \in Invoices |-> allocated[i] + counted[c][i]]
  /\ End(c, "done")
  /\ UNCHANGED <<request, periodOpen, approving, reapproved, target, verdict>>

\* The payment's own update and the commit: the invoice rows become visible.
Commit(c) ==
  /\ pc[c] = "posted"
  /\ invoice' = [i \in Invoices |-> IF Locks(c, i) THEN wrote[c][i] ELSE invoice[i]]
  /\ payment' = [payment EXCEPT ![target[c]] = [status |-> "Approved", entry |-> c]]
  /\ allocated' = [i \in Invoices |-> allocated[i] + counted[c][i]]
  /\ End(c, "done")
  /\ UNCHANGED <<request, periodOpen, approving, reapproved, target, verdict>>

\* Call c waits for a row that call d has locked.
WaitsFor(c, d) ==
  /\ pc[c] = "updating"
  /\ ~Allocated(c)
  /\ d # c
  /\ Locks(d, Current(c).invoice)

\* PostgreSQL finds c on a cycle of waiting transactions and aborts it.
DeadlockVictim(c) ==
  /\ \E S \in SUBSET Calls :
       c \in S /\ \A a \in S : \E b \in S : WaitsFor(a, b)
  /\ Fail(c)

\* A crash, a lost connection, a transaction timeout, an account that refuses
\* the posting, an entry number taken between count and insert: the transaction
\* rolls back.  An event emitted and not yet handled is lost.
Abort(c) == InFlight(c) /\ Fail(c)

\* What the server and the database do for a call that has arrived.
Step(c) ==
  \/ UpdateRequest(c) \/ HandleRejection(c)
  \/ ReadPayment(c) \/ RefusePayment(c)
  \/ UpdateInvoice(c) \/ RefuseInvoice(c)
  \/ CheckPeriod(c) \/ RefusePeriod(c) \/ PostEntry(c) \/ Commit(c)
  \/ DeadlockVictim(c)

Next ==
  \/ \E i \in Invoices : ReadInvoice(i) \/ ApproveInvoice(i)
  \/ SwitchPeriod
  \/ \E c \in Calls, p \in Payments : Submit(c, p)
  \/ \E c \in Calls, p \in Payments, v \in {"Approved", "Rejected"} : Decide(c, p, v)
  \/ \E c \in Calls : Step(c) \/ Abort(c)

Spec == Init /\ [][Next]_vars

\* Nobody has to send a request or to close a period, but the server and the
\* database never both stop while a call can go on.
FairSpec == Spec /\ WF_vars(\E c \in Calls : Step(c))

-----------------------------------------------------------------------------

\* The columns and the calls hold values of their types.
TypeOK ==
  /\ payment \in [Payments -> [status: PaymentStatuses, entry: Calls \cup {NoCall}]]
  /\ request \in [Payments -> {"None", "Pending", "Approved", "Rejected"}]
  /\ invoice \in [Invoices -> Row]
  /\ periodOpen \in BOOLEAN
  /\ approving \subseteq Invoices
  /\ reapproved \subseteq Invoices
  /\ pc \in [Calls -> PCs]
  /\ target \in [Calls -> Payments]
  /\ verdict \in [Calls -> {"Approved", "Rejected"}]
  /\ seen \in [Calls -> [Invoices -> Row \cup {NoRow}]]
  /\ wrote \in [Calls -> [Invoices -> Row \cup {NoRow}]]
  /\ next \in [Calls -> Nat \ {0}]
  /\ counted \in [Calls -> [Invoices -> Nat]]
  /\ allocated \in [Invoices -> Nat]

\* Calls that posted a journal entry for payment p.
Posted(p) == {c \in Calls : pc[c] = "done" /\ verdict[c] = "Approved" /\ target[c] = p}

\* journalEntryId: an Approved payment points at an entry that was posted for
\* it, and a payment for which an entry was posted never loses its pointer,
\* not even when a late rejection puts it back to Draft.
EntryPointers ==
  \A p \in Payments :
    /\ payment[p].status = "Approved" => payment[p].entry \in Posted(p)
    /\ Posted(p) # {} <=> payment[p].entry \in Posted(p)

\* However calls overlap, amountPaid never exceeds what the posted payments
\* allocated to the invoice: an update may be lost, money is never invented.
NeverOverpaid == \A i \in Invoices : invoice[i].paid <= allocated[i]

\* Status and amountPaid are written from one and the same read: whatever was
\* lost, a Paid invoice has amountPaid cover its total, and an invoice that is
\* covered is Paid unless a second approval of the invoice itself put it back
\* to Approved.
PaidWhenCovered ==
  \A i \in Invoices :
    /\ invoice[i].status = "Paid" => invoice[i].paid >= Total[i]
    /\ Total[i] > 0 /\ invoice[i].paid >= Total[i] /\ i \notin reapproved
          => invoice[i].status = "Paid"

\* Transactions lock invoices in the order of their allocations, which may be
\* opposite; still every call that arrived comes to an end.
CallsEnd == \A c \in Calls : InFlight(c) ~> Ended(c)

(***************************************************************************)
(* What comments in the code claim and the interleavings break.            *)
(***************************************************************************)

\* "Guard against double-processing" (approvals lines 90-91): a payment gets
\* one journal entry, however many decisions are taken on its request.
PostedAtMostOnce == \A p \in Payments : Cardinality(Posted(p)) <= 1

\* "increment to update the paid amount on the invoice atomically" (payments
\* line 150): amountPaid is all that the posted payments allocated.
EveryAllocationCounted == \A i \in Invoices : invoice[i].paid = allocated[i]
=============================================================================
