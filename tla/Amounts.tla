------------------------------- MODULE Amounts -------------------------------
(***************************************************************************)
(* How money is calculated and kept: invoices with their taxes, payroll    *)
(* runs and their payslips, the payroll entry of the employee profiles.    *)
(* Amounts are calculated exactly (decimal.js), rounded to the cent when a *)
(* row is written (numeric(18, 2)), and read back rounded by the approval  *)
(* that posts them.  One document is followed at a time: what happens when *)
(* two requests meet is in the other modules.                              *)
(***************************************************************************)
EXTENDS Integers, Sequences, Sums

CONSTANTS
  Unit,          \* calculated amounts are in Unit-ths of a cent
  InvoiceInputs, \* [type, lines: sequence of [quantity, price, tax], rate]
  StaffInputs,   \* sequences of [basic, housing, transport, contract, bonus, other]
  GosiCeiling    \* the base of the deduction goes no higher (45,000.00)

ASSUME AmountsAssumption ==
  /\ Unit \in Nat \ {0} /\ Unit % 10000 = 0
  /\ GosiCeiling \in Nat
  /\ InvoiceInputs \subseteq
       [type : {"SalesInvoice", "DebitNote", "PurchaseInvoice", "CreditNote"}, rate : Nat \ {0},
        lines : Seq([quantity : Nat, price : Nat, tax : Nat])]
  /\ StaffInputs \subseteq Seq([basic : Nat, housing : Nat, transport : Nat, contract : Nat,
                               bonus : Int, other : Int])

VARIABLES
  input,    \* what the document is made from
  document, \* its rows, in cents
  kept,     \* the lines of its journal entry, in cents; none before it is posted
  status    \* "new", "draft", "approved" or "refused"

amountVars == <<input, document, kept, status>>

NoDocument == [kind |-> "none"]

AmountsInit ==
  /\ \/ \E i \in InvoiceInputs : input = [kind |-> "invoice", of |-> i]
     \/ \E i \in StaffInputs, k \in {"run", "profiles"} : input = [kind |-> k, of |-> i]
  /\ document = NoDocument
  /\ kept = <<>>
  /\ status = "new"

(***************************************************************************)
(* Rounding, and the balance check of JournalEntriesService.create         *)
(***************************************************************************)

Size(x) == IF x < 0 THEN -x ELSE x

\* A cast to numeric(18, 2): half a cent is rounded away from zero.
Cents(x) == LET r == (2 * Size(x) + Unit) \div (2 * Unit) IN IF x < 0 THEN -r ELSE r

Each(s, Op(_)) == [i \in DOMAIN s |-> Op(s[i])]
Added(s, Op(_)) == SumOver(Each(s, Op), DOMAIN s)

Dr(x) == [debit |-> x, credit |-> 0]
Cr(x) == [debit |-> 0, credit |-> x]

Debited(lines) == Added(lines, LAMBDA l : l.debit)
Credited(lines) == Added(lines, LAMBDA l : l.credit)

\* A likely mistake: nothing asks for the balance.
AcceptedUnbalanced(lines) == \A i \in DOMAIN lines : lines[i].debit >= 0 /\ lines[i].credit >= 0

\* The exact amounts are compared, not the ones that will be kept.
Accepted(lines) ==
  /\ Len(lines) >= 2
  /\ \A i \in DOMAIN lines : lines[i].debit >= 0 /\ lines[i].credit >= 0
  /\ Debited(lines) = Credited(lines)

Kept(lines) == Each(lines, LAMBDA l : [debit |-> Cents(l.debit), credit |-> Cents(l.credit)])

Posting(lines) ==
  /\ status' = IF Accepted(lines) THEN "approved" ELSE "refused"
  /\ kept' = IF Accepted(lines) THEN Kept(lines) ELSE <<>>
  /\ UNCHANGED <<input, document>>

(***************************************************************************)
(* Invoices                                                                *)
(***************************************************************************)

BeforeTax(l) == l.quantity * l.price * Unit
TaxOf(l) == l.quantity * l.price * l.tax * (Unit \div 100)
LineTotal(l) == BeforeTax(l) + TaxOf(l)

CreateInvoice ==
  /\ status = "new" /\ input.kind = "invoice"
  /\ LET lines == input.of.lines
     IN  document' = [kind |-> "invoice",
                      taxTotal |-> Cents(Added(lines, TaxOf)),
                      total |-> Cents(Added(lines, LineTotal)),
                      lines |-> Each(lines, LAMBDA l : Cents(LineTotal(l)))]
  /\ status' = "draft"
  /\ UNCHANGED <<input, kept>>

\* An amount of the document in the base currency; rate is in hundredths.
InBase(cents) == cents * input.of.rate * (Unit \div 100)

\* Of the four types, those that stand on the receivable account.
Receivable(type) == type \in {"SalesInvoice", "DebitNote"}

\* The total on the control account, the lines on theirs.
ApproveInvoice ==
  /\ status = "draft" /\ document.kind = "invoice"
  /\ LET total == InBase(document.total)
         lines == Each(document.lines, InBase)
     IN  IF Receivable(input.of.type)
         THEN Posting(<<Dr(total)>> \o Each(lines, Cr))
         ELSE Posting(<<Cr(total)>> \o Each(lines, Dr))

\* What the invoice adds to the VAT return of its period: the tax as the
\* document has it, in the currency of the document.
VatReturn ==
  LET tax == IF status = "approved" THEN document.taxTotal ELSE 0
  IN  IF Receivable(input.of.type) THEN [outputVat |-> tax, inputVat |-> 0]
                                   ELSE [outputVat |-> 0, inputVat |-> tax]

(***************************************************************************)
(* Payroll runs                                                            *)
(***************************************************************************)

Smaller(x, y) == IF x < y THEN x ELSE y

Gross(p) == (p.basic + p.housing + p.transport + p.bonus) * Unit
Gosi(p) == Smaller(p.basic + p.housing, GosiCeiling) * (Unit \div 10)
Other(p) == p.other * Unit

\* A likely mistake: the deduction on the payslip does not reach the net pay.
NetUnreduced(p) == Gross(p) - Gosi(p)

Net(p) == Gross(p) - Gosi(p) - Other(p)

\* The contract registered with Qiwa, unless there is none.
MatchesContract(p) == p.contract = 0 \/ Gross(p) = (p.contract + p.bonus) * Unit

CreatePayrollRun ==
  /\ status = "new" /\ input.kind = "run"
  /\ LET staff == input.of
     IN  IF \A i \in DOMAIN staff : MatchesContract(staff[i])
         THEN /\ document' =
                   [kind |-> "run",
                    gross |-> Cents(Added(staff, Gross)), gosi |-> Cents(Added(staff, Gosi)),
                    other |-> Cents(Added(staff, Other)), net |-> Cents(Added(staff, Net)),
                    slips |-> Each(staff, LAMBDA p :
                                [gross |-> Cents(Gross(p)), gosi |-> Cents(Gosi(p)),
                                 other |-> Cents(Other(p)), net |-> Cents(Net(p))])]
              /\ status' = "draft"
         ELSE /\ status' = "refused"
              /\ UNCHANGED document
  /\ UNCHANGED <<input, kept>>

\* A deduction of zero or less has no line.
LineIf(x) == IF x > 0 THEN <<Cr(x * Unit)>> ELSE <<>>

ApprovePayrollRun ==
  /\ status = "draft" /\ document.kind = "run"
  /\ Posting(<<Dr(document.gross * Unit)>> \o LineIf(document.gosi)
               \o LineIf(document.other) \o <<Cr(document.net * Unit)>>)

\* The wage protection file: what a line pays, and what it says it pays.
SifLine(i) ==
  LET slip == document.slips[i]
      p == input.of[i]
      otherAllowances == slip.gross - p.basic - p.housing
  IN  [paid |-> p.basic + p.housing + otherAllowances - (slip.gosi + slip.other),
       net |-> slip.net]

(***************************************************************************)
(* EmployeeProfilesService.processPayroll                                  *)
(***************************************************************************)

GosiBase(p) == (p.basic + p.housing) * (Unit \div 10000)
EmployeeGosi(p) == GosiBase(p) * 975
EmployerGosi(p) == GosiBase(p) * 1150
Salary(p) == (p.basic + p.housing + p.transport) * Unit

ProcessPayroll ==
  /\ status = "new" /\ input.kind = "profiles" /\ input.of # <<>>
  /\ LET gross == Added(input.of, Salary)
         employee == Added(input.of, EmployeeGosi)
         employer == Added(input.of, EmployerGosi)
     IN  Posting(<<Dr(gross), Cr(gross - employee), Cr(employee + employer), Dr(employer)>>)

NoProfiles ==
  /\ status = "new" /\ input = [kind |-> "profiles", of |-> <<>>]
  /\ status' = "refused"
  /\ UNCHANGED <<input, document, kept>>

AmountsNext ==
  \/ CreateInvoice \/ ApproveInvoice
  \/ CreatePayrollRun \/ ApprovePayrollRun
  \/ ProcessPayroll \/ NoProfiles

AmountsSpec == AmountsInit /\ [][AmountsNext]_amountVars

(***************************************************************************)
(* Properties                                                              *)
(***************************************************************************)

Off(lines) == Size(Debited(lines) - Credited(lines))

\* What is kept is off balance by no more than half a cent for each line, and
\* a payslip, and its line of the wage protection file, pay what they say to
\* the cent (JournalEntriesService.create, createPayrollRun, generateSif).
KeptWithinRounding ==
  /\ 2 * Off(kept) <= Len(kept)
  /\ document.kind = "run" =>
       \A i \in DOMAIN document.slips : Size(SifLine(i).paid - SifLine(i).net) <= 1

Whole(x) == x % Unit = 0

\* Nothing was lost when the document was written.
Exact ==
  CASE input.kind = "invoice" -> \A i \in DOMAIN input.of.lines : Whole(LineTotal(input.of.lines[i]))
    [] input.kind = "run" -> Whole(Added(input.of, Gosi))
    [] OTHER -> \A i \in DOMAIN input.of : Whole(EmployeeGosi(input.of[i])) /\ Whole(EmployerGosi(input.of[i]))

\* What no approval can post whatever the cents: an invoice without lines, a
\* payroll without staff, a run against a contract, one that pays less than
\* nothing or has negative deductions in all.
Payable ==
  CASE input.kind = "invoice" -> input.of.lines # <<>>
    [] input.kind = "profiles" -> input.of # <<>>
    [] OTHER -> document.kind = "run" /\ document.net >= 0 /\ document.other >= 0

\* Only a fraction of a cent stands in the way of a document: one whose
\* amounts are whole cents is posted when it is approved, and in its own
\* currency to the last cent.  Of such an invoice the accounts of the lines
\* then hold the price before tax and what the VAT return declares, on the
\* side the return has it (InvoicesService.approve, approvePayrollRun,
\* processPayroll, calculateVatReturn).
ExactAmountsPost ==
  Exact /\ Payable =>
    /\ status # "refused"
    /\ (input.kind = "invoice" => input.of.rate = 100) => Off(kept) = 0
    /\ input.kind = "invoice" /\ status = "approved" /\ input.of.rate = 100 =>
         LET posted == Tail(kept)
             net == VatReturn.outputVat - VatReturn.inputVat
             price == Added(input.of.lines, LAMBDA l : l.quantity * l.price)
         IN  Credited(posted) - Debited(posted)
               = net + (IF Receivable(input.of.type) THEN price ELSE -price)

\* What the balance check of JournalEntriesService.create is there for: the
\* debits of a posted entry are its credits.
EntriesBalance == Off(kept) = 0
=============================================================================
