----------------------------- MODULE MCMonthEnd ------------------------------
(***************************************************************************)
(* Work at the end of a month.  Bank reconciliation, payroll, fixed assets *)
(* and the reports share no row that one of them writes and another reads, *)
(* and the calculations of a document or a benefit none at all: one of     *)
(* them at a time is at work, and the instance is their union, not their   *)
(* product.                                                                *)
(***************************************************************************)
EXTENDS BankReconciliation, Payroll, FixedAssets, Reports, Amounts, EndOfService, TLC

CONSTANTS c1, c2, c3, c4, c5, l1, l2, r1, r2, march, truck, desk,
  home, abroad, cash, loan, capital, sales, wages, invest, borrow, sell, pay, sellAbroad,
  borrowAbroad, june, leap, october

VARIABLE atWork

parts == <<bankVars, payrollVars, assetVars, reportVars, amountVars, eosbVars, pc, stale, atWork>>

\* Both statements mention both amounts, in opposite orders; the second one
\* balances with both lines, the first with one.
MCAmount == l1 :> 1 @@ l2 :> 1
MCStatement ==
     r1 :> <<[amount |-> 1, near |-> {l1}], [amount |-> 1, near |-> {l2}]>>
  @@ r2 :> <<[amount |-> 1, near |-> {l2}], [amount |-> 1, near |-> {l1}]>>
MCDifference == r1 :> 1 @@ r2 :> 2

MCPeriodOf == c1 :> march @@ c2 :> march

\* A truck bought on 31 January skips February; a desk has half cents to
\* round.  Month 0 is a January of a year that is not a leap year.
MCPurchased == truck :> [month |-> 0, day |-> 31] @@ desk :> [month |-> 10, day |-> 30]
MCPrice == truck :> 1000 @@ desk :> 5
MCLife == truck :> 3 @@ desk :> 2
MCDaysIn == [m \in Nat |-> CASE m % 12 = 1 -> 28
                            [] m % 12 \in {3, 5, 8, 10} -> 30
                            [] OTHER -> 31]
MCAsOf == {[month |-> 2, day |-> 10], [month |-> 20, day |-> 1]}

\* A sheet with every type of account.  An instant is half a day: the last
\* month is the days 4-5 and 6-7, and sell is dated after its last midnight.
\* pay overdraws the bank account when it comes first; it and sellAbroad are
\* kept a cent off balance; two sales of 2 at 3.75 round apart from their sum.
MCTypeOf == cash :> "Asset" @@ loan :> "Liability" @@ capital :> "Equity"
              @@ sales :> "Revenue" @@ wages :> "Expense"
On(k, instant) == [of |-> k, at |-> instant]
MCEntry ==
     invest :> On(home, 2) @@ borrow :> On(home, 6) @@ sell :> On(home, 7) @@ pay :> On(home, 5)
  @@ sellAbroad :> On(abroad, 2) @@ borrowAbroad :> On(abroad, 5)
DebitTo(a, x) == [account |-> a, debit |-> x, credit |-> 0]
CreditTo(a, x) == [account |-> a, debit |-> 0, credit |-> x]
MCLines ==
     invest :> <<DebitTo(cash, 5), CreditTo(capital, 5)>>
  @@ borrow :> <<DebitTo(cash, 3), CreditTo(loan, 3)>>
  @@ sell :> <<DebitTo(cash, 2), CreditTo(sales, 2)>>
  @@ pay :> <<DebitTo(wages, 7), CreditTo(cash, 6), CreditTo(loan, 2)>>
  @@ sellAbroad :> <<DebitTo(cash, 2), DebitTo(wages, 1), CreditTo(sales, 2)>>
  @@ borrowAbroad :> <<DebitTo(cash, 2), CreditTo(loan, 2)>>
MCEntryLines == {l \in Entries \X (1..3) : l[2] \in DOMAIN MCLines[l[1]]}
MCLineOf ==
  [l \in MCEntryLines |->
     LET x == MCLines[l[1]][l[2]]
     IN  [entry |-> l[1], account |-> x.account, debit |-> x.debit, credit |-> x.credit]]
MCRanges == {[from |-> 0, to |-> 7], [from |-> 6, to |-> 7], [from |-> 6, to |-> 2]}
MCMonths == <<[from |-> 0, to |-> 2], [from |-> 4, to |-> 6]>>

\* Rates 1, 3.75 and 0.27; taxes of none and 15 %.
MCLine == [quantity : {1, 3}, price : {1, 3, 7, 50, 110}, tax : {0, 15}]
MCInvoiceInputs ==
  [type : {"SalesInvoice", "DebitNote", "PurchaseInvoice", "CreditNote"}, rate : {100, 375, 27},
   lines : UNION {[1..n -> MCLine] : n \in 0..2} \cup {<<l, l, l>> : l \in MCLine}]

MCPayee == [basic : {3, 25, 100}, housing : {0, 25}, transport : {0, 10},
            contract : {0, 110}, bonus : {0, 5}, other : {0, 7, 200}]
MCRefunded == [basic |-> 75, housing |-> 1, transport |-> 0, contract |-> 0, bonus |-> 0,
               other |-> -10]
MCStaffInputs ==
  {<<>>} \cup {<<p>> : p \in MCPayee} \cup {<<p, MCRefunded>> : p \in MCPayee}

\* Time is in quarters of a day.  Month 0 is January 2019.  Sixty months from
\* June 2019 have two leap days and are more than five years, from March 2020
\* less; the accruals of the third employee are made ten days late.
MCBefore == <<0, 31, 59, 90, 120, 151, 181, 212, 243, 273, 304, 334>>
MCFirst(m) ==
  LET leapDays == (m \div 12 + 2) \div 4 + (IF (m % 48) \in 14..23 THEN 1 ELSE 0)
  IN  4 * (365 * (m \div 12) + leapDays + MCBefore[(m % 12) + 1])
MCTimeServed ==
     june :> [m \in 0..LastMonth |-> MCFirst(5 + m) - MCFirst(5)]
  @@ leap :> [m \in 0..LastMonth |-> MCFirst(14 + m) - MCFirst(14)]
  @@ october :> [m \in 0..LastMonth |-> MCFirst(9 + m) - MCFirst(9) + 40]

\* A part that is not at work keeps one of its initial states.
MonthEndInit ==
  /\ atWork \in {"bank", "payroll", "assets", "reports", "amounts", "eosb"}
  /\ BankInit /\ PayrollInit /\ AssetsInit
  /\ EosbInit /\ (atWork # "eosb" => dated /\ hired = june)
  /\ ReportsInit /\ (atWork # "reports" => opened[home] = Codes /\ opened[abroad] = Codes)
  /\ AmountsInit /\ (atWork # "amounts" => input = [kind |-> "run", of |-> <<>>])

calcVars == <<amountVars, eosbVars>>

MonthEndNext ==
  /\ \/ /\ atWork = "bank" /\ BankNext
        /\ UNCHANGED <<payrollVars, assetVars, reportVars, calcVars>>
     \/ /\ atWork = "payroll" /\ PayrollNext
        /\ UNCHANGED <<bankVars, assetVars, reportVars, calcVars>>
     \/ /\ atWork = "assets" /\ AssetsNext
        /\ UNCHANGED <<bankVars, payrollVars, reportVars, calcVars>>
     \/ /\ atWork = "reports" /\ ReportsNext
        /\ UNCHANGED <<bankVars, payrollVars, assetVars, calcVars>>
     \/ /\ atWork = "amounts" /\ AmountsNext
        /\ UNCHANGED <<bankVars, payrollVars, assetVars, reportVars, eosbVars, pc, stale>>
     \/ /\ atWork = "eosb" /\ EosbNext
        /\ UNCHANGED <<bankVars, payrollVars, assetVars, reportVars, amountVars, pc, stale>>
  /\ UNCHANGED atWork

\* A call in flight goes on.
Proceed ==
  /\ \E c \in Calls :
       \/ /\ atWork = "bank" /\ BankStep(c)
          /\ UNCHANGED <<payrollVars, assetVars, reportVars, calcVars>>
       \/ /\ atWork = "payroll" /\ PayrollStep(c)
          /\ UNCHANGED <<bankVars, assetVars, reportVars, calcVars>>
       \/ /\ atWork = "assets" /\ AssetsStep(c)
          /\ UNCHANGED <<bankVars, payrollVars, reportVars, calcVars>>
       \/ /\ atWork = "reports" /\ c \in ReportCalls /\ ReportStep(c)
          /\ UNCHANGED <<bankVars, payrollVars, assetVars, calcVars>>
  /\ UNCHANGED atWork

MonthEndSpec == MonthEndInit /\ [][MonthEndNext]_parts /\ WF_parts(Proceed)

\* The type invariants of the part at work.
TypeOK ==
  /\ atWork = "bank" => BankTypeOK
  /\ atWork = "payroll" => PayrollTypeOK
  /\ atWork = "assets" => AssetsTypeOK
  /\ atWork = "reports" => ReportsTypeOK
=============================================================================
