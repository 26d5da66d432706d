------------------------------- MODULE Reports -------------------------------
(***************************************************************************)
(* What is read off the general ledger: the trial balance and the balance  *)
(* sheet and income statement made from it, the profits of the dashboard,  *)
(* the estimate of the zakat and the consolidation of a group.  Each takes *)
(* several reads, and entries are posted, accounts opened and rates set    *)
(* between them.                                                           *)
(***************************************************************************)
EXTENDS Integers, FiniteSets, Sequences, SequencesExt, Requests, Sums

CONSTANTS
  ReportCalls,  \* calls of the three services
  Parent,       \* the tenant that asks
  Children,     \* its tenantChildren, in the same chart of codes
  Foreign,      \* those of them that keep another currency
  Codes,        \* codes of accounts
  TypeOf,       \* [Codes -> AccountType]
  Entries,      \* entries that may be posted, in any order
  Entry,        \* [Entries -> [of, at]]: an entryDate is an instant, not a day
  EntryLines,   \* their lines
  LineOf,       \* [EntryLines -> [entry, account, debit, credit]], in cents
  Ranges,       \* [from, to]: instants a report may be asked for
  Months,       \* sequence of [from, to]: the months of the chart, this one last
  Nows,         \* instants at which the dashboard may be opened
  Rates,        \* period exchange rates
  RateUnit,     \* a rate of RateUnit is 1.0
  NoRate        \* no PeriodExchangeRate row

Companies == Children \cup {Parent}

ASSUME ReportsAssumption ==
  /\ ReportCalls \subseteq Calls
  /\ Parent \notin Children /\ Foreign \subseteq Children
  /\ TypeOf \in [Codes -> {"Asset", "Liability", "Equity", "Revenue", "Expense"}]
  /\ Entry \in [Entries -> [of: Companies, at: Nat]]
  /\ LineOf \in [EntryLines -> [entry: Entries, account: Codes, debit: Nat, credit: Nat]]
  /\ IsFiniteSet(Codes) /\ IsFiniteSet(Entries) /\ Entries # {} /\ IsFiniteSet(EntryLines)
  /\ Ranges \subseteq [from: Nat, to: Nat]
  /\ Months \in Seq([from: Nat, to: Nat]) /\ Months # <<>>
  /\ \A now \in Nows : now \in Nat /\ now >= Last(Months).from
  /\ RateUnit \in Nat \ {0} /\ Rates \subseteq Nat /\ NoRate \notin Nat

VARIABLES
  opened,    \* for each tenant, the codes of its accounts
  journal,   \* posted entries
  rate,      \* the parent's rate for the period and each foreign child
  setting,   \* is there a ZakatSetting row?
  found,     \* what a call has read
  report     \* what it has answered

reportVars == <<opened, journal, rate, setting, found, report>>

Nothing == [kind |-> "none"]

ReportsInit ==
  /\ \E A \in {Codes, {a \in Codes : TypeOf[a] # "Liability"}} :
       opened = [k \in Companies |-> IF k = Parent THEN A ELSE Codes]
  /\ journal = {}
  /\ rate = [k \in Foreign |-> NoRate]
  /\ setting = FALSE
  /\ found = [c \in ReportCalls |-> Nothing]
  /\ report = [c \in ReportCalls |-> Nothing]

(***************************************************************************)
(* Sums of posted lines                                                    *)
(***************************************************************************)

\* Posted entries of a tenant with an entryDate in the range.
Within(k, range) ==
  {e \in journal : Entry[e].of = k /\ Entry[e].at \in range.from..range.to}

\* An entry was checked before its lines were rounded to the cent: what is
\* kept of it need not balance.
PostedLines(E) == {l \in EntryLines : LineOf[l].entry \in E}
CodesOfLines(E) == {LineOf[l].account : l \in PostedLines(E)}

DebitOf == [l \in EntryLines |-> LineOf[l].debit]
CreditOf == [l \in EntryLines |-> LineOf[l].credit]

\* What the lines of an entry debit and credit an account with.
LinesOn(e, a) == {l \in EntryLines : LineOf[l].entry = e /\ LineOf[l].account = a}
DebitIn == [e \in Entries |-> [a \in Codes |-> SumOver(DebitOf, LinesOn(e, a))]]
CreditIn == [e \in Entries |-> [a \in Codes |-> SumOver(CreditOf, LinesOn(e, a))]]

Debits(E, a) == SumOver([e \in Entries |-> DebitIn[e][a]], E)
Credits(E, a) == SumOver([e \in Entries |-> CreditIn[e][a]], E)

\* What the debits of entries exceed their credits by.
Imbalance(E) == SumOver(DebitOf, PostedLines(E)) - SumOver(CreditOf, PostedLines(E))

Abs(x) == IF x < 0 THEN -x ELSE x

(***************************************************************************)
(* getTrialBalance and what ReportsService makes of its rows               *)
(***************************************************************************)

\* The balance has no sign of its own: balanceType tells the side it is on.
Row(E, a) ==
  LET byDebit == TypeOf[a] \in {"Asset", "Expense"}
      net == IF byDebit THEN Debits(E, a) - Credits(E, a) ELSE Credits(E, a) - Debits(E, a)
  IN  [balance |-> Abs(net),
       balanceType |-> IF byDebit = (net >= 0) THEN "Debit" ELSE "Credit"]

GrandTotal(rows, side) ==
  SumOver([a \in DOMAIN rows |-> rows[a].balance],
      {a \in DOMAIN rows : rows[a].balanceType = side})

IsBalanced(rows) == GrandTotal(rows, "Debit") = GrandTotal(rows, "Credit")

\* All that ReportsService adds up, without a look at balanceType.
TotalOf(rows, type) ==
  SumOver([a \in DOMAIN rows |-> rows[a].balance], {a \in DOMAIN rows : TypeOf[a] = type})

NetIncome(rows) == TotalOf(rows, "Revenue") - TotalOf(rows, "Expense")

\* A likely mistake: the income of the year is left out of the equity.
TotalEquityBooked(rows) == TotalOf(rows, "Equity")

TotalEquity(rows) == TotalOf(rows, "Equity") + NetIncome(rows)

\* totalAssets less totalLiabilities and totalEquity, as getBalanceSheet has them.
SheetOff(rows) == TotalOf(rows, "Asset") - (TotalOf(rows, "Liability") + TotalEquity(rows))

\* A balance on the side its type does not grow on: an overdrawn bank account,
\* revenue that was reversed in a later period.
Contrary(rows, a) ==
  rows[a].balance # 0 /\ rows[a].balanceType #
    (IF TypeOf[a] \in {"Asset", "Expense"} THEN "Debit" ELSE "Credit")

ReadAccounts(c) ==
  /\ pc[c] = "idle"
  /\ \E range \in Ranges :
       found' = [found EXCEPT ![c] = [kind |-> "ledger", range |-> range,
                                      accounts |-> opened[Parent]]]
  /\ Goto(c, "lines")
  /\ UNCHANGED <<opened, journal, rate, setting, report, stale>>

\* Lines on an account that was not there at the first read are dropped.
\* unseen, which tells which, and off are histories.
SumLines(c) ==
  LET E == Within(Parent, found[c].range)
      seen == found[c].accounts
  IN  /\ pc[c] = "lines"
      /\ report' = [report EXCEPT ![c] = [kind |-> "ledger", rows |-> [a \in seen |-> Row(E, a)],
                                          unseen |-> CodesOfLines(E) \ seen,
                                          off |-> Imbalance(E)]]
      /\ found' = [found EXCEPT ![c] = Nothing]
      /\ Goto(c, "done")
      /\ UNCHANGED <<opened, journal, rate, setting, stale>>

(***************************************************************************)
(* getDashboardKpis: one income statement after another                    *)
(***************************************************************************)

Latest == Max({Entry[e].at : e \in Entries})

\* This month until now, all time, then the months of the chart.  A month of
\* the chart ends with the midnight its last day begins with.
Statements(now) ==
  <<[from |-> Last(Months).from, to |-> now],
    [from |-> 0, to |-> Latest]>> \o Months

ReadDashboard(c) ==
  /\ pc[c] = "idle"
  /\ \E now \in Nows :
       found' = [found EXCEPT ![c] = [kind |-> "kpis", now |-> now, number |-> 1, month |-> 0,
                                      accounts |-> opened[Parent]]]
  /\ Goto(c, "income")
  /\ UNCHANGED <<opened, journal, rate, setting, report, stale>>

ReadAccountsAgain(c) ==
  /\ pc[c] = "accounts"
  /\ found' = [found EXCEPT ![c].accounts = opened[Parent]]
  /\ Goto(c, "income")
  /\ UNCHANGED <<opened, journal, rate, setting, report, stale>>

\* Only the first and the last income are kept.  same is a history: are the
\* entries of this month until now those the chart has in this month?
SumIncome(c) ==
  LET statements == Statements(found[c].now)
      E == Within(Parent, statements[found[c].number])
      income == NetIncome([a \in found[c].accounts |-> Row(E, a)])
      month == IF found[c].number = 1 THEN income ELSE found[c].month
  IN  /\ pc[c] = "income"
      /\ IF found[c].number < Len(statements)
         THEN /\ found' = [found EXCEPT ![c].number = @ + 1, ![c].month = month]
              /\ Goto(c, "accounts")
              /\ UNCHANGED report
         ELSE /\ found' = [found EXCEPT ![c] = Nothing]
              /\ report' = [report EXCEPT ![c] =
                    [kind |-> "kpis", month |-> month, chart |-> income,
                     same |-> Within(Parent, statements[1]) = E]]
              /\ Goto(c, "done")
      /\ UNCHANGED <<opened, journal, rate, setting, stale>>

(***************************************************************************)
(* estimateZakat                                                           *)
(***************************************************************************)

ReadSetting(c) ==
  /\ pc[c] = "idle"
  /\ \E range \in Ranges :
       found' = [found EXCEPT ![c] = [kind |-> "zakat", range |-> range,
                                      sums |-> [type \in {} |-> 0]]]
  /\ Goto(c, IF setting THEN "Revenue" ELSE "setting")
  /\ UNCHANGED <<opened, journal, rate, setting, report, stale>>

\* The row is unique for a tenant: the second of two creators fails.
CreateSetting(c) ==
  /\ pc[c] = "setting"
  /\ setting' = TRUE
  /\ IF setting
     THEN /\ found' = [found EXCEPT ![c] = Nothing]
          /\ Goto(c, "failed")
     ELSE /\ Goto(c, "Revenue")
          /\ UNCHANGED found
  /\ UNCHANGED <<opened, journal, rate, report, stale>>

\* The four aggregates, one after another.
After == [Revenue |-> "Expense", Expense |-> "Equity", Equity |-> "Liability",
          Liability |-> "base"]

\* Income of the period, but equity and liabilities since the beginning.
Since(type, range) ==
  IF type \in {"Revenue", "Expense"} THEN range ELSE [range EXCEPT !.from = 0]

NetCredit(E, type) ==
  LET S == {a \in Codes : TypeOf[a] = type}
  IN  SumOver([a \in S |-> Credits(E, a)], S) - SumOver([a \in S |-> Debits(E, a)], S)

Aggregate(c) ==
  /\ pc[c] \in DOMAIN After
  /\ LET E == Within(Parent, Since(pc[c], found[c].range))
     IN  found' = [found EXCEPT ![c].sums =
                     [type \in DOMAIN @ \cup {pc[c]} |->
                        IF type = pc[c] THEN NetCredit(E, type) ELSE @[type]]]
  /\ Goto(c, After[pc[c]])
  /\ UNCHANGED <<opened, journal, rate, setting, report, stale>>

\* sums are net credits, so an expense is negative.
ZakatBase(sums) ==
  Max({0, sums["Equity"] + sums["Liability"] + sums["Revenue"] + sums["Expense"]})

\* The net assets at the end of a range, what the entries until then are off
\* balance by, and the income from before the range.  No service asks whether
\* a range begins before it ends.
Until(range) == {e \in journal : Entry[e].of = Parent /\ Entry[e].at <= range.to}

NetAssets(range) == -NetCredit(Until(range), "Asset")

EarlierIncome(range) ==
  LET E == {e \in Until(range) : Entry[e].at < range.from}
  IN  NetCredit(E, "Revenue") + NetCredit(E, "Expense")

\* earned is a history: what the base should be if nothing was posted meanwhile.
Estimate(c) ==
  /\ pc[c] = "base"
  /\ report' = [report EXCEPT ![c] = [kind |-> "zakat", base |-> ZakatBase(found[c].sums),
                       earned |-> NetAssets(found[c].range) - EarlierIncome(found[c].range)
                                    - Imbalance(Until(found[c].range))]]
  /\ found' = [found EXCEPT ![c] = Nothing]
  /\ Goto(c, "done")
  /\ UNCHANGED <<opened, journal, rate, setting, stale>>

(***************************************************************************)
(* getConsolidatedTrialBalance                                             *)
(***************************************************************************)

\* getTenantTrialBalance: the sums of a tenant, for the codes with lines.
TenantTb(k, range) ==
  LET E == Within(k, range)
  IN  [a \in CodesOfLines(E) |-> [debit |-> Debits(E, a), credit |-> Credits(E, a)]]

\* A likely mistake: the credits are not translated.
TranslatedDebits(tb, r) ==
  [a \in DOMAIN tb |-> [debit |-> tb[a].debit * r, credit |-> tb[a].credit * RateUnit]]

Translated(tb, r) ==
  [a \in DOMAIN tb |-> [debit |-> tb[a].debit * r, credit |-> tb[a].credit * r]]

Zero == [debit |-> 0, credit |-> 0]
At(tb, a) == IF a \in DOMAIN tb THEN tb[a] ELSE Zero

Plus(tb, tc) ==
  [a \in DOMAIN tb \cup DOMAIN tc |->
     [debit |-> At(tb, a).debit + At(tc, a).debit, credit |-> At(tb, a).credit + At(tc, a).credit]]

\* toDecimalPlaces(2), half up, of an amount in RateUnit-ths of a cent.
ToCents(x) == (2 * x + RateUnit) \div (2 * RateUnit)

\* off and childOff are histories: what the entries read are off balance by,
\* at the rates that were used.
ReadParent(c) ==
  /\ pc[c] = "idle"
  /\ \E range \in Ranges :
       found' = [found EXCEPT ![c] = [kind |-> "group", range |-> range, left |-> Children,
                                      tb |-> Translated(TenantTb(Parent, range), RateUnit),
                                      off |-> RateUnit * Imbalance(Within(Parent, range)),
                                      child |-> Parent, childTb |-> [a \in {} |-> Zero],
                                      childOff |-> 0]]
  /\ Goto(c, "children")
  /\ UNCHANGED <<opened, journal, rate, setting, report, stale>>

ReadChild(c) ==
  /\ pc[c] = "children"
  /\ \E k \in found[c].left :
       found' = [found EXCEPT ![c].left = @ \ {k}, ![c].child = k,
                              ![c].childTb = TenantTb(k, found[c].range),
                              ![c].childOff = Imbalance(Within(k, found[c].range))]
  /\ Goto(c, "rate")
  /\ UNCHANGED <<opened, journal, rate, setting, report, stale>>

\* A foreign child for whose period no rate is set is taken one to one.
AddChild(c) ==
  LET k == found[c].child
      r == IF k \in Foreign /\ rate[k] # NoRate THEN rate[k] ELSE RateUnit
  IN  /\ pc[c] = "rate"
      /\ found' = [found EXCEPT ![c].tb = Plus(@, Translated(found[c].childTb, r)),
                                ![c].off = @ + r * found[c].childOff]
      /\ Goto(c, "children")
      /\ UNCHANGED <<opened, journal, rate, setting, report, stale>>

\* A currency the parent has not configured.
RefuseChild(c) ==
  /\ pc[c] = "rate"
  /\ found[c].child \in Foreign /\ rate[found[c].child] = NoRate
  /\ found' = [found EXCEPT ![c] = Nothing]
  /\ Goto(c, "failed")
  /\ UNCHANGED <<opened, journal, rate, setting, report, stale>>

Consolidate(c) ==
  /\ pc[c] = "children" /\ found[c].left = {}
  /\ report' = [report EXCEPT ![c] =
                  [kind |-> "group", off |-> found[c].off,
                   rows |-> [a \in DOMAIN found[c].tb |->
                               [debit |-> ToCents(found[c].tb[a].debit),
                                credit |-> ToCents(found[c].tb[a].credit)]]]]
  /\ found' = [found EXCEPT ![c] = Nothing]
  /\ Goto(c, "done")
  /\ UNCHANGED <<opened, journal, rate, setting, stale>>

(***************************************************************************)
(* The rest of the system                                                  *)
(***************************************************************************)

OpenAccount(k, a) ==
  /\ a \notin opened[k]
  /\ opened' = [opened EXCEPT ![k] = @ \cup {a}]
  /\ UNCHANGED <<journal, rate, setting, found, report, pc, stale>>

\* Outdates the calls that are reading.
PostJournalEntry(e) ==
  /\ e \notin journal
  /\ CodesOfLines({e}) \subseteq opened[Entry[e].of]
  /\ journal' = journal \cup {e}
  /\ stale' = stale \cup {c \in ReportCalls : InFlight(c)}
  /\ UNCHANGED <<opened, rate, setting, found, report, pc>>

\* One row for a period and a currency: it is never changed.
SetPeriodExchangeRate(k, r) ==
  /\ rate[k] = NoRate
  /\ rate' = [rate EXCEPT ![k] = r]
  /\ UNCHANGED <<opened, journal, setting, found, report, pc, stale>>

\* Another estimate was quicker.
CreateSettingElsewhere ==
  /\ ~setting
  /\ setting' = TRUE
  /\ UNCHANGED <<opened, journal, rate, found, report, pc, stale>>

AbortReport(c) ==
  /\ InFlight(c)
  /\ found' = [found EXCEPT ![c] = Nothing]
  /\ Goto(c, "failed")
  /\ UNCHANGED <<opened, journal, rate, setting, report, stale>>

ReportStep(c) ==
  \/ SumLines(c) \/ SumIncome(c) \/ ReadAccountsAgain(c)
  \/ CreateSetting(c) \/ Aggregate(c) \/ Estimate(c)
  \/ ReadChild(c) \/ AddChild(c) \/ RefuseChild(c) \/ Consolidate(c)

ReportsNext ==
  \/ \E c \in ReportCalls :
       \/ ReadAccounts(c) \/ ReadDashboard(c) \/ ReadSetting(c) \/ ReadParent(c)
       \/ ReportStep(c)
       \/ AbortReport(c)
  \/ \E k \in Companies, a \in Codes : OpenAccount(k, a)
  \/ \E e \in Entries : PostJournalEntry(e)
  \/ \E k \in Foreign, r \in Rates : SetPeriodExchangeRate(k, r)
  \/ CreateSettingElsewhere

ReportsSpec == RequestsInit /\ ReportsInit /\ [][ReportsNext]_<<reportVars, pc, stale>>

(***************************************************************************)
(* Properties                                                              *)
(***************************************************************************)

ReportsTypeOK ==
  /\ opened \in [Companies -> SUBSET Codes]
  /\ \A e \in journal : CodesOfLines({e}) \subseteq opened[Entry[e].of]
  /\ rate \in [Foreign -> Rates \cup {NoRate}]
  /\ \A c \in ReportCalls : (report[c] # Nothing) = (pc[c] = "done")
  /\ \A c \in ReportCalls : (found[c] # Nothing) = InFlight(c)

\* Statements made of separate reads still agree with each other, to the cents
\* that rounding left posted entries off balance by.  A trial balance that
\* knows every account with lines shows just that difference between its two
\* columns, and so does the balance sheet made of it between its two sides, as
\* long as no account has a contrary balance; a zakat base no entry was posted
\* under is the net assets less the income from before the period and less that
\* difference.  The profit of this month is the one in the chart, unless entries
\* were posted under the dashboard or the two are not of the same entries
\* (getTrialBalance, getBalanceSheet, estimateZakat, getDashboardKpis).
StatementsAgree ==
  \A c \in ReportCalls :
    LET r == report[c]
    IN  /\ r.kind = "ledger" /\ r.unseen = {} =>
             /\ GrandTotal(r.rows, "Debit") - GrandTotal(r.rows, "Credit") = r.off
             /\ IsBalanced(r.rows) = (r.off = 0)
             /\ (\A a \in DOMAIN r.rows : ~Contrary(r.rows, a)) => SheetOff(r.rows) = r.off
        /\ r.kind = "zakat" /\ c \notin stale =>
             r.base = Max({0, r.earned})
        /\ r.kind = "kpis" /\ c \notin stale /\ r.same => r.month = r.chart

\* However its reads interleave with posting and with the setting of rates, a
\* consolidated trial balance is off balance by what the entries of the
\* companies are at the rates used for them, to the cent that rounding may cost
\* each code (getConsolidatedTrialBalance).
ConsolidationBalances ==
  \A c \in ReportCalls :
    report[c].kind = "group" =>
      LET rows == report[c].rows
          D == DOMAIN rows
          shown == SumOver([a \in D |-> rows[a].debit], D) - SumOver([a \in D |-> rows[a].credit], D)
      IN  Abs(RateUnit * shown - report[c].off) <= RateUnit * Cardinality(D)
=============================================================================
