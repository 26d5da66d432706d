--------------------------------- MODULE Crm ---------------------------------
(***************************************************************************)
(* CrmService: opportunities are moved between stages, quotes accepted and *)
(* converted to invoices.  acceptQuote is two statements without a         *)
(* transaction; converting leaves the quote as it is.                      *)
(***************************************************************************)
EXTENDS Naturals, Requests

CONSTANTS
  CrmCalls,       \* calls of this service
  Quotes,
  Opportunities,
  NoOpportunity,
  About           \* [Quotes -> Opportunities \cup {NoOpportunity}]

ASSUME CrmAssumption ==
  /\ CrmCalls \subseteq Calls
  /\ Quotes # {}
  /\ NoOpportunity \notin Opportunities
  /\ About \in [Quotes -> Opportunities \cup {NoOpportunity}]

Stages == {"Prospecting", "Qualification", "Proposal", "Negotiation", "Won", "Lost"}

\* Nothing sets Sent, Rejected or Expired.
QuoteStatuses == {"Draft", "Accepted"}

VARIABLES
  stage,     \* of each opportunity
  quote,     \* status of each quote
  invoiced,  \* how many invoices INV-<quoteNumber> there are
  subject,   \* the quote a call is about
  moved,     \* history: opportunities moved by hand
  acceptance \* history: how far the acceptances of each quote have got

crmTables == <<stage, quote, invoiced>>
crmVars == <<crmTables, subject, moved, acceptance>>

CrmInit ==
  /\ RequestsInit
  /\ stage = [o \in Opportunities |-> "Prospecting"]
  /\ quote = [q \in Quotes |-> "Draft"]
  /\ invoiced = [q \in Quotes |-> 0]
  /\ subject = [c \in Calls |-> CHOOSE q \in Quotes : TRUE]
  /\ moved = {}
  /\ acceptance = [q \in Quotes |-> "none"]

UpdateOpportunityStage(o, s) ==
  /\ stage' = [stage EXCEPT ![o] = s]
  /\ moved' = moved \cup {o}
  /\ UNCHANGED <<quote, invoiced, subject, acceptance, pc, stale>>

\* A likely mistake: the opportunity is left to a later update.
AcceptQuoteAlone(c, q) ==
  /\ pc[c] = "idle"
  /\ quote' = [quote EXCEPT ![q] = "Accepted"]
  /\ subject' = [subject EXCEPT ![c] = q]
  /\ Goto(c, "done")
  /\ UNCHANGED <<stage, invoiced, moved, acceptance, stale>>

\* acceptQuote: whatever the status of the quote.
AcceptQuote(c, q) ==
  /\ pc[c] = "idle"
  /\ quote' = [quote EXCEPT ![q] = "Accepted"]
  /\ subject' = [subject EXCEPT ![c] = q]
  /\ Goto(c, IF About[q] = NoOpportunity THEN "done" ELSE "accepted")
  /\ UNCHANGED <<stage, invoiced, moved, acceptance, stale>>

WinOpportunity(c) ==
  /\ pc[c] = "accepted"
  /\ stage' = [stage EXCEPT ![About[subject[c]]] = "Won"]
  /\ acceptance' = [acceptance EXCEPT ![subject[c]] = "complete"]
  /\ Goto(c, "done")
  /\ UNCHANGED <<quote, invoiced, subject, moved, stale>>

BeginConversion(c, q) ==
  /\ pc[c] = "idle"
  /\ quote[q] = "Accepted"
  /\ subject' = [subject EXCEPT ![c] = q]
  /\ Goto(c, "converting")
  /\ UNCHANGED <<crmTables, moved, acceptance, stale>>

\* A likely mistake: the invoice gets a number from the sequence.
InvoiceQuoteAgain(c) ==
  /\ pc[c] = "converting"
  /\ invoiced' = [invoiced EXCEPT ![subject[c]] = @ + 1]
  /\ Goto(c, "done")
  /\ UNCHANGED <<stage, quote, subject, moved, acceptance, stale>>

InvoiceQuote(c) ==
  /\ pc[c] = "converting"
  /\ invoiced[subject[c]] = 0
  /\ invoiced' = [invoiced EXCEPT ![subject[c]] = @ + 1]
  /\ Goto(c, "done")
  /\ UNCHANGED <<stage, quote, subject, moved, acceptance, stale>>

\* INV-<quoteNumber> exists: tenantId and invoiceNumber are unique.
QuoteInvoiced(c) ==
  /\ pc[c] = "converting"
  /\ invoiced[subject[c]] > 0
  /\ Goto(c, "failed")
  /\ UNCHANGED <<crmVars, stale>>

\* Accounts are missing, a crash, a lost connection.  An acceptance may have
\* made its first statement.
AbortCrm(c) ==
  /\ InFlight(c)
  /\ acceptance' = IF pc[c] = "accepted" /\ acceptance[subject[c]] = "none"
                   THEN [acceptance EXCEPT ![subject[c]] = "halfway"] ELSE acceptance
  /\ Goto(c, "failed")
  /\ UNCHANGED <<crmTables, subject, moved, stale>>

CrmStep(c) == WinOpportunity(c) \/ InvoiceQuote(c) \/ QuoteInvoiced(c)

CrmNext ==
  \/ \E o \in Opportunities, s \in Stages : UpdateOpportunityStage(o, s)
  \/ \E c \in CrmCalls :
       \/ \E q \in Quotes : AcceptQuote(c, q) \/ BeginConversion(c, q)
       \/ CrmStep(c)
       \/ AbortCrm(c)

CrmSpec == CrmInit /\ [][CrmNext]_<<crmVars, pc, stale>>

-----------------------------------------------------------------------------

\* The columns and the calls hold values of their types.
CrmTypeOK ==
  /\ stage \in [Opportunities -> Stages]
  /\ quote \in [Quotes -> QuoteStatuses]
  /\ invoiced \in [Quotes -> Nat]
  /\ subject \in [Calls -> Quotes]
  /\ moved \subseteq Opportunities
  /\ acceptance \in [Quotes -> {"none", "halfway", "complete"}]
  /\ pc \in [Calls -> {"idle", "accepted", "converting", "done", "failed"}]

\* However often and by whoever a quote is accepted and converted, it has at
\* most one invoice, and none unless it was accepted; and once it is accepted
\* its opportunity is won or about to be, unless somebody moved that by hand
\* or every acceptance that ended failed half-way: after one that failed, a
\* second one that is completed makes up for it.
QuotesInvoicedOnce ==
  \A q \in Quotes :
    /\ invoiced[q] <= 1
    /\ invoiced[q] = 1 => quote[q] = "Accepted"
    /\ (/\ quote[q] = "Accepted"
        /\ About[q] \in Opportunities \ moved
        /\ acceptance[q] # "halfway")
       => \/ stage[About[q]] = "Won"
          \/ \E c \in Calls : pc[c] = "accepted" /\ subject[c] = q
=============================================================================
