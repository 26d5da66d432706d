# Formal models of the ERP API

TLA+ models, TLC runs and TLAPS proofs for the NestJS/Prisma back end in `apps/api` and the
parts of the Next.js front end in `apps/web` that keep state.
The back end is a set of services over one PostgreSQL database. Correctness there is a
question of *interleavings*: nearly every operation reads rows outside its transaction,
decides, and then writes by id inside a transaction at READ COMMITTED. The models keep
that structure statement by statement and abstract the data (accounts, texts, currencies,
XML).

## 1. The system

Paths below are under `apps/api/src/modules` unless they say otherwise.

| Part | State it keeps | Operations that change it | Meets |
| --- | --- | --- | --- |
| Journal entries (`accounting/journal-entries`) | entries with number, date, `reversalId` | `create`, `createReversal` | called by payments, invoices, payroll, end of service inside their transactions; asks periods |
| Periods, fiscal years (`accounting/accounting-periods`, `accounting/fiscal-years`) | status of periods and years | `initializeFiscalYear`, `updateStatus`, `create`, `close` | read by every posting |
| Payments (`business/payments`) | payment status, `journalEntryId`, allocations | `create`, `approve`, two event handlers | writes invoices, posts entries |
| Approvals (`approvals`) | request status | `approveRequest`, `rejectRequest` | emits in-process events to payments, payroll, purchase orders |
| Invoices (`business/invoices`) | status, `amountPaid`, ZATCA columns | `create`, `approve` | moves stock, posts entries, reads the hash chain |
| Inventory (`accounting/inventory`) | balances, movements, item cost | in/outward movement, transfer, items, warehouses | called by invoices |
| Document sequences (`business/sequences`) | next number, hash chain | `getNextSequence`, `getPreviousInvoiceHash` | called by payments, invoices |
| Payroll (`business/payroll`) | runs, payslips | `createPayrollRun`, `approvePayrollRun`, event handlers | approvals, entries |
| Procurement (`business/procurement`) | purchase order status | create, receive, approve, bill, event handlers | approvals, inventory transactions, invoices |
| Bank reconciliation (`accounting/bank-reconciliation`) | reconciliation status, matched lines | import, auto/manual match, unmatch, complete | entry lines |
| Fixed assets (`accounting/fixed-assets`) | schedules | create, `runMonthlyDepreciation` | writes entries itself |
| Authentication (`auth`, `database/redis.service.ts`) | refresh tokens, attempt counter, invitations | login, refresh, logout, accept invite | Redis or its memory fallback |
| ZATCA (`ksa-compliance/zatca`) | hash chain, submission status | generate, submit | invoices, external service |
| CRM, employee profiles, leave, end of service | quotes, profiles | create/accept/convert, accruals | invoices, entries |
| Chart of accounts (`accounting/chart-of-accounts`) | accounts, their parents | create, seed the template | entries, reports |
| Ledger queries, reports, Zakat, VAT, consolidation | period exchange rates, `ZakatSetting` | several reads, no transaction | entries, accounts |
| Tenants, users, roles, guards | users, `TenantUser`, invitations | register, invite, deactivate | authentication |
| Web front end (`apps/web`) | session cookie, React Query cache | pages, their mutations, the refreshing client | every route |
| Contacts, currencies, audit log | rows of one table each | insert, update by id, list | – |

### What is hard

* **Check, then act.** Status columns are read before `$transaction` and never again
  (`payments.service.ts:120`, `journal-entries.service.ts:127`, `approvals.service.ts:92`,
  `invoices.service.ts:115`, `payroll.service.ts:172`, `purchase-orders.service.ts:83`).
* **Write what was read.** Amounts and quantities are computed from an earlier read and
  written as values (`payments.service.ts:151`, `inventory.service.ts:207`).
* **Number by count.** The next entry number is a count over committed rows; the unique
  index arbitrates (`journal-entries.service.ts:72`).
* **Events in memory.** `emit` returns before the handler has run; a failing handler or a
  crash loses the work, nothing retries (`approvals.service.ts:105`).
* **Locks.** Rows stay locked until commit and are taken in the order of array elements:
  waiting, and deadlocks that PostgreSQL breaks by aborting one transaction.
* **Two stores.** Refresh tokens live in Redis, or in the memory of the process while Redis
  is away; turning from one to the other forgets and revives tokens (`redis.service.ts:65`).
* **Cents.** Amounts are exact decimals until a `numeric(18, 2)` column rounds each of them;
  sums are compared before that, so entries are kept that do not balance to the cent
  (`journal-entries.service.ts:63`).
* **Real time.** Months, years of service and the days of a report are instants and fractions
  of 365.25 days, not dates (`eosb.service.ts:27`, `reports.service.ts:147`).
* **Stale answers.** Two fetches, an invalidation and a page that was left come in any order;
  a first fetch survives the invalidation (`periods/page.tsx:29`).
* **Partial failure.** A later line or allocation is refused after earlier ones were written.

`PROJECT.json` lists 40 such places at their lines, each with the properties that
watch it or the reason none does yet.

### What makes each part correct

* Ledger: append-only; a number is used once; a reversal and the pointer to it appear
  together; a closed date only drains.
* Payments: an approved payment has its entry; `amountPaid` is backed by allocations;
  status and amount of an invoice agree.
* Inventory: balance = sum of movements; stock is not oversold.
* Payroll: the salaries of a period are posted once. Fixed assets: each instalment once,
  and no more than there is to depreciate.
* Procurement, CRM: one receipt and one bill per order, one invoice per quote.
* Bank reconciliation: the lines of a completed one explain its balances.
* Documents, ZATCA: every number is accounted for; submitted invoices form one chain.
* Sessions: a refresh token is spent once and nobody is logged out for nothing; failures
  add up to a lock; an invitation is accepted once.
* Chart: a forest of one type per tree. Reports: figures made of several reads agree.
* Amounts: rounding loses no more than it must; exact documents are posted exactly.
* Pages: who has done something sees it.

## 2. Modules

| Module | Models |
| --- | --- |
| `Ledger` | abstract: an append-only book of numbered entries, and reversal pointers |
| `JournalEntries` | entries, reversals, periods, fiscal years; implements `Ledger` |
| `PaymentApprovals` | approval requests, events, `PaymentsService.approve`, rejection, invoice rows |
| `Inventory` | stock movements of `InvoicesService.approve`, `transferInventory` |
| `Requests` | what the services below share: calls, where they stand, which are overtaken |
| `Sums` | the sum of a function over a finite set |
| `Payroll` | payroll runs, their requests and events, default accounts, accruals |
| `BankReconciliation` | statements, automatic and manual matching, completion |
| `FixedAssets` | schedules and depreciation runs |
| `Reports` | trial balance, statements, dashboard profits, zakat estimate, consolidation |
| `Amounts` | invoices, payslips, payroll entries and the VAT return down to the cent |
| `EndOfService` | accruals against the liability and the figure of the HR page |
| `Documents` | drawn and counted document numbers |
| `Procurement` | purchase orders from decision to bill |
| `Crm` | opportunities, quotes, conversion |
| `Zatca` | uuid, previous hash, generation, submission |
| `Sessions` | refresh tokens over Redis and its fallback, the refreshing browser client |
| `Accounts` | registration, failed logins and the lock, invitations, roles |
| `Chart` | accounts under parents, seeding of the template |
| `Web` | the pages over the shared query cache |
| `MC…` | instances for TLC; `MCMonthEnd`, `MCDocuments`, `MCAccess` compose several modules |
| `JournalEntriesProofs`, `PaymentApprovalsProofs`, `InventoryProofs`, `SessionsProofs`, `ReportsProofs` | theorems of the component of that name, checked by TLAPS |
| `DocumentsProofs` | theorems of `Documents`, `Zatca`, `Procurement`, `Crm` and of `MCDocuments` |
| `AccessProofs` | theorems of `Accounts`, `Chart`, `Web` and of `MCAccess` |
| `MonthEndProofs` | theorems of `BankReconciliation`, `Payroll`, `FixedAssets`, `EndOfService`, `Amounts` and of `MCMonthEnd` |

### How state and actions correspond to the code

Every module models requests as processes with a program counter `pc`. A step is one
database statement, or several that nothing can tell apart. Rows are functions from keys to
the columns that matter. Comments name the method of each action, `PROJECT.json` the lines.

**Database assumptions** (external, taken from PostgreSQL's documented behaviour and the
schema's `@unique`/`@@unique`): READ COMMITTED, Prisma's default here; an insert whose
unique key is held by an open transaction waits and then fails if that one committed; an
update waits for the row lock and then overwrites; a cycle of waiting transactions loses
one member; anything in flight may be aborted at any time (`Abort…`: crash, lost
connection, the interactive transaction's time-out, a full pool).

The first three components open their transactions up: what one has written and not
committed is a label of `pc` (`JournalEntries`) or a private copy `wrote` (the other two),
a row with a private copy is *locked*, rollback drops the copy. `BankReconciliation` keeps
row locks in `taken`. In the modules on `Requests` a transaction whose intermediate states
nobody can see or wait for is one step.

**`JournalEntries`.** `SubmitCreate`/`SubmitReversal` is the arrival of a request, for a
reversal up to the guard on `reversalId`. `Validate`/`Reject` is `findActivePeriodByDate`
together with the line checks of `create`, which can only reject. `Count`, `Insert`,
`InsertFails`, `LinkOriginal` and `Commit` are the statements of the transaction.
The calendar is a constant: `Covers[d]` is the set of periods whose bounds include `d`. It
may be empty or have two elements, because the two ways to create a year compute different
bounds and name their periods differently, so both kinds can exist side by side; `findFirst`
then returns either. Open and Adjusting are one value: no code path tells them apart.

**`PaymentApprovals`.** A call is a direct `PATCH /payments/:id/approve` or a decision on
an approval request followed by its event handler. `ReadPayment` is the only status check;
`UpdateInvoice` is one turn of the loop, writing `PaidRow` of the row *seen before*; then
the period is looked up outside the transaction (`CheckPeriod`), the entry is inserted
(`PostEntry`) and everything becomes visible (`Commit`). Of invoices it keeps status and
`amountPaid`; their own approval is two actions, the read and the update by id.

**`Inventory`.** A document is the sequence of movements its lines make. `CheckStock` is
the comparison with the balance, `ReadBalance` the second read in `upsertBalance`,
`UpdateBalance`/`InsertBalance` its two branches. `UpdateItem` takes the item's row lock,
which the update of the weighted average cost holds to the end. A transfer may be of a negative
quantity: it passes the check of the source and takes from the destination, so stocks a
document reaches that way are `Unguarded` (`inventory.service.ts:118`, `:154`).

**`Requests`.** `stale` holds the calls that somebody has overtaken: another call wrote what
they work on since their first read. No guard reads it. A property that exempts stale calls
says exactly how far the code is right without concurrency control, and that only an overlap
takes it further.

**`Payroll`.** A run bears the name of the call that creates it. `FindRun`, `DeleteRun` and
`CreateRun` are the three statements of `createPayrollRun` that others can see: the old run
is gone before the new one is validated. A decision (`ReadRequest`, `Decide`) is followed by
its event handler, which ends in the same `FindAccounts`/`CreateAccount`/`PostSalaries` as a
direct approval. `bookMonthlyAccrual` competes for account 2150.

**`BankReconciliation`.** `autoMatch` reads the free lines once and then updates one line by
id per statement transaction, in a transaction with row locks; the manual operations are one
`updateMany` each; `completeReconciliation` sums the lines it read before it sets the status.

**`FixedAssets`.** `CurrentMonth` is repeated `setMonth` of JavaScript, day overflow
included, and `DueDates` what the rows get of it;
`Instalment` rounds like `toDecimalPlaces(2)` and gives the rest to the last row. A run reads
the rows due and posts each in a transaction of its own, under a number made of code and
month.

**`Reports`.** A report is its sequence of reads: accounts, then lines (`found` keeps what
was read); four aggregates for the zakat estimate; for a consolidation the parent and each
child with its rate; for the dashboard one income statement after the other. Between them
entries are posted, accounts opened and rates set. `ZakatSetting` is found, then created.
An entry is the lines kept of it, each a debit and a credit in cents, and they need not add up:
`Imbalance` is what the debits of some entries exceed their credits by. An `entryDate` is an
instant. `Months` of the chart end with the midnight their last day begins with, as the code
has it, while the profit of this month runs until `now`, so the two may be of different
entries. The models stop at what the services answer: the totals of the balance sheet are exact
there (`SheetOff`). The page compares them once more as floating-point sums; that is left out.

**`Amounts`, `EndOfService`.** Pure calculation, one document or employee at a time. Amounts
are integers in fractions of a cent (`Unit`) fine enough for every product the code forms;
`Cents` is the cast to `numeric(18, 2)`. In `EndOfService` time is real time: `TimeServed` is
what has passed since the day of hire when each accrual is made, with calendar months, and a
year of service is 365.25 days of it, whatever the calendar says. Sixty months with two leap
days are more than five years, and the rate changes a month early. Accruals and liability are
rounded to the cent. All that is assumed of the calendar is that no accrual is made further
than `Drift` from the twelfth of a year it is due at. Bonus and other deductions of a payslip
may be negative, as no validator forbids it.

**`Documents`.** `DrawNumber` is the upsert of `getNextSequence`, committed before the
document, which may then fail to be inserted: the number is gone. `CountDocuments` is count
plus one of orders and quotes; `year` is the server's calendar, which the number shows and
neither counter heeds.

**`Procurement`, `Crm`.** Each operation reads the status (`BeginOrder`, `ReadDecision`,
`BeginConversion`) and writes by id later. `acceptQuote` is two updates without a
transaction, so it can fail between them; `acceptance` remembers of each quote whether every
acceptance so far stopped there (`"halfway"`) or one was completed.

**`Zatca`.** A hash is the record of what it covers, so equal hashes cover equal things. The
approval of an invoice takes a previous hash from `SequencesService`, generation replaces it
by that of the last submitted invoice, submission calls the authority and then updates by id.

**`Sessions`.** `redis` and `memory` are the two key sets, `fallback` and `link` the switch
between them; the connection is lost and comes back in the steps of the client library
(`connect`, then `ready`). A refresh checks the token, finds the user, deletes the old token
and stores a new one; a token that is not there revokes all tokens of the user (`KEYS`, then
`DEL`). The browser has one cookie, sends any number of requests and retries each once.
Expiry is left out: refresh tokens and the cookie with them live for seven days, the instance
for a few requests. A 401 may come at any time, so an expired access token is included.

**`Accounts`.** A login reads the user, compares, and writes `failedLoginAttempts` as a value;
`lock` is none, in the future or in the past. Invitations are hashed tokens, named after the
call that made them; those of more than seven days ago are `expired` and refused.

**`Chart`.** `CheckAccountCode` and `InsertAccount` are the two halves of `createAccount`,
`ReadChart` and `SeedTemplate` those of `seedSmeTemplate`, which puts missing accounts under
whatever account has the code of their parent.

**`Web`.** Every page is a record of the query keys it shows and of its mutations with the
tables each writes and the keys it invalidates; `Tables` names the rows a key is answered
from. The layout watches the pending approvals on every page. One cache entry is watched at a
time: whether it is `filled`, when it is old, what a fetch was answered with, and whose work it
shows. React Query is external. An invalidation makes an entry old and, on a page that shows it,
asks anew. If the entry has data, the question before is cancelled; if it was never filled, the
first fetch goes on and its answer passes for new, even one read before the work (`missed`).

**History variables** (marked `history` where they are declared) record what happened so that
properties can speak of it. No guard reads them, with two exceptions: `EndOfService` bounds
its `irregular`, and `RedisFails` in `Sessions` happens once, while `~switched`. The fields
`unseen`, `off`, `childOff`, `same` and `earned` of reports are histories too.

## 3. Runs

Every bound is a constant of the `.cfg` or the `MC` module: the number of calls, dates,
periods, payments, invoices, stocks. Each call is made once, which bounds every counter. No
state constraint is used, and no symmetry.

| Run | Instance | Distinct states | Shows |
| --- | --- | --- | --- |
| `JournalEntries` | 3 requests, 2 dates in 2 calendar years, 2 periods of 2 overlapping fiscal years | 226,714 | numbering, reversal links, closing, termination, refinement of `Ledger` |
| `PaymentApprovals` | 1 direct call, 2 decisions, 2 payments over 2 invoices in opposite orders | 99,904 | entry pointers, paid amounts, termination |
| `Inventory` | 3 calls over a purchase, a sale and a transfer; 3 stocks of 2 items, one without a row | 22,980 | balances, overselling, termination |
| `MonthEnd` | bank: 3 calls, 2 reconciliations, 2 lines; payroll: 2 creators, 2 deciders, 1 accrual, 1 period; 2 assets, 2 depreciation runs; 1 report over 6 entries of 2 tenants; 3 employees over 126 months; 6 parts in all | 345,704 | matching, salaries, depreciation, statements, amounts, accruals, termination |
| `Documents` | 4 calls each over numbers, an order above the limit, 2 quotes with 1 opportunity, 2 invoices | 1,385,254 | numbers, orders, quotes, the hash chain |
| `Access` | 3 calls from 2 browsers over an outage of Redis; 2 users, 1 tenant; 3 template accounts and 1 other; 2 operations over all pages | 1,822,434 | sessions, locks, invitations, the chart, the pages |
| `DoubleReversal`, `ClosedYear`, `DoublePosting`, `LostPayment`, `UnbalancedEntry`, `NumberGap` | the same or smaller | – | a counterexample each, see below |

The last three instances are *unions*, not products: components in one instance share no row
that one writes and another reads, so one of them at a time is at work (`atWork`), and
their product would show nothing more.

Why the bounds are enough to be interesting. *Ledger*: two requests race for a number and
the third commits between their counts; one reversal overtakes another; two calendar years
separate the series; `d2` is covered by two periods and `d1` by one. *Payments*: two calls
for one payment and two for one invoice occur, opposite orders give a deadlock, the totals
2 and 3 are reached exactly, exceeded or missed. *Inventory*: purchase, sale and transfer
lock rows in a cycle, purchase and transfer race for the first balance row of an item in a
warehouse, the sale needs all the stock there is. *Bank*: both statements want both lines in
opposite orders (a deadlock), one balances with one line and one with two. *Payroll*: two
creators replace each other's run while two decisions and an accrual meet; of the accounts,
one is missing for all three. *Assets*: a purchase on 31 January skips February, the other
price has half cents. *Reports*: every type of account, an overdrawn bank account, an entry of
either tenant that is a cent off balance, an entry dated after the midnight the last day begins
with, a dashboard opened before and after it (`Nows`), a range that ends before it begins, a
rate that rounds apart, an account opened between two reads. *Amounts*: all invoice types, quantities 1 and 3, prices from 1 to 110 cents with and
without 15 % tax at rates 1, 3.75 and 0.27, up to three lines; payslips at and above the GOSI
ceiling (scaled to 120 cents). *End of service*: 126 months, past the changes at 2, 5 and 10
years, with one accrual left out or doubled; of three days of hire, one has two leap days in its
first sixty months, one has one, and one has its accruals made ten days late; what is put
aside in a month is not a whole number of cents. *Documents*: a change of year between two draws, a
decision, a receipt and two bills of one order, two invoices whose hashes may refer to each
other. *Access*: two requests of one browser with the same cookie, a revocation and a rotation
on either side of an outage; two attempts lock; a child and a grandchild in the template, and
a user account under any of their codes. The proofs cover all other sizes.

Reductions in `Access`: access tokens are not kept (an answer of 401 may come at any time),
and cache entries are watched one at a time, as they do not influence each other.

Deadlock checking is on for the first two runs. In `JournalEntries` the periods, and in
`PaymentApprovals` the period switch, can always change. Elsewhere it is off: when all calls
have ended there is nothing left to do.

### Properties

* `NumbersWithinCount`: no entry has a number above the count of its year. Otherwise
  `count + 1` could be taken for ever and no entry could be posted in that year again.
* `ReversalLinks`: the pointer and the reversing entry are committed together, and the
  pointer names a posted reversal of that very entry.
* `ShutDateOnlyDrains` (action property): while all periods of a date stay closed, the set
  of requests past the check only shrinks, and only members of it are posted. This is the
  precise guarantee the check before the transaction gives.
* `ImplementsLedger`: every step is a step of the abstract ledger or changes nothing in it.
* `EntryPointers`: an Approved payment points at an entry posted for it, and no late
  rejection takes the pointer away.
* `NeverOverpaid`, `PaidWhenCovered`: lost updates only ever lose. `amountPaid` stays
  within what was allocated, and an invoice's status agrees with its amount unless the
  invoice itself was approved a second time.
* `BalanceIsSumOfMovements`, `NeverOversold`: on every stock no call handled with a stale
  quantity (`raced`), balances equal movements and checks suffice, through refusals on later
  lines, rollbacks, first-row races and deadlocks. A movement of several lines on the same
  stock is included: a transaction sees its own writes.
* `ReconciledBalances`: the lines of a completed reconciliation explain the difference of its
  balances, over any matching, unmatching and completing.
* `SalariesPostedOnce`: the salaries of a period are posted at most once and its run is then
  Approved, unless a stale call touched it or a posted run was rejected.
* `DepreciationPostedOnce`, `BookValueAboveSalvage`: one entry per posted row, none for the
  others, so a row is refused only when another run has posted it; and instalments add up to
  what there is to depreciate, from half a cent a month upward.
* `StatementsAgree`, `ConsolidationBalances`: figures made of several reads agree up to the
  cents by which kept entries are off balance, no more and no less: the two columns of a trial
  balance, the two sides of the sheet, the zakat base and the net assets, the consolidation at
  the rates it used (and a cent per code for rounding). The profit of this month is the one in
  the chart if both are of the same entries. The exceptions are spelt out: an account opened
  between the reads, a contrary balance (the sheet adds balances without sign), entries posted
  under the report. A period without a rate is translated one to one.
* `KeptWithinRounding`, `ExactAmountsPost`: an entry is kept off balance by no more than half
  a cent per line, and nothing but a fraction of a cent keeps a document from being posted;
  the VAT return then declares what the accounts hold.
* `AccrualsFollowLiability`: one accrual per month puts aside what a dismissal costs, through
  the change of rate, up to the drift of the months, half a cent per amount rounded, and the one
  month the higher rate may come early. Without a hire date (no service sets it) the lower rate
  is put aside for a liability of zero. The HR page is within the wage of a hundredth of a year
  and a day of it, and a resignation never costs more than a dismissal.
* `DrawnNumbersAccounted`, `CountedNumberFree`: a drawn number is used once, and every gap is
  a call that failed after drawing; a counted number is free unless another document was
  inserted since.
* `OrdersInStep`, `QuotesInvoicedOnce`: one bill and one receipt per order, one invoice per
  quote, and statuses that agree with them. The opportunity of an accepted quote is won, unless
  every acceptance that ended failed half-way; one that is completed makes up for others.
* `SubmittedChain`, `SubmittedIsFinal`: an invoice generated after all earlier submissions is
  linked to the one of them that was *created* last (`orderBy: createdAt`), which is the one
  before it as long as invoices are submitted in the order they were created in; and what was
  submitted is not submitted again or changed, unless it was `spoiled`: a Draft can be
  generated and submitted, and its approval then resets status and previous hash.
* `SessionKept`, `SpentOnce`: a browser keeps its session and the alarm about a stolen token
  is never false, unless two of its requests refresh together, an answer is lost, the store
  changes, or tokens are revoked; a token is spent once and a revoked one never.
* `LockoutCounts`, `InvitationAcceptedOnce`: the count is the number of wrong passwords in a
  row and the lock follows it; a first password is set once, and until then the invitation
  sent last is the one the server knows, whichever were sent before. It accepts that one for a
  week.
* `ChartIsForest`: one account per code, every parent there, no cycles, one type per tree but
  for accounts the template put under an account of the user.
* `OwnWorkShown`: once an operation has succeeded, an entry it refreshes never shows what was
  before, whichever page is opened and in whatever order answers come, unless the last fetch
  failed or the library kept a first fetch that was answered before the work.
* `RequestsEnd`, `CallsEnd`: every call that arrived ends.

### What the runs find against the code

Each of these states what a comment or message of the code claims; TLC finds a run against it.

* `ReversedAtMostOnce` (`journal-entries.service.ts:127`, `:148`): two overlapping
  reversals of one entry are both posted when their numbers differ.
* `NothingPostedInClosedYear` (`journal-entries.service.ts:38`, `fiscal-years.service.ts:110`):
  an entry is posted in a year that is Closed, by reopening a period or by being past the
  check when it closes.
* `PostedAtMostOnce` (`approvals.service.ts:90`): two approvals of one request both pass.
* `EveryAllocationCounted` (`payments.service.ts:150`): `amountPaid` loses a payment.
* `EntriesBalance` (`journal-entries.service.ts:63`): exact amounts are compared and rounded
  ones kept, so an entry is posted a cent off.
* `NumbersGapless` (`sequences.service.ts:20`): `sequences.service.ts:13-14` and
  `README.md:138` promise numbers without gaps; a document that fails after drawing its number
  leaves one. `DrawnNumbersAccounted` says that there are no other gaps.

The exceptions the other properties make (stale calls, overlaps, failures between two
statements) are of the same kind: they say where the code relies on calls not meeting.

### Fairness

Liveness assumes weak fairness of *one* action: some call takes some step of the server or
the database (`Step`, in `MonthEnd` `Proceed`). It says that Node.js and PostgreSQL do not
both stop while some call could go on. Nothing assumes that a user sends a request, that a
period opens or closes, or that something crashes. Deadlock detection is part of the step:
PostgreSQL runs it after `deadlock_timeout`. Since calls are finitely many and each step
advances one, this is enough. `Documents` and `Access` assume no fairness: their properties
are invariants.

## 4. Proofs

`tlapm` checks every step; there are no unproved leaves. Every invariant and every action
property that a run checks is a theorem of the specification of its component, for all values
of the constants; the runs check the same formulas on the instances above. Each component
follows the same plan: a typing of its variables, an inductive invariant (`IInv` in the first
three modules, `…Inv` named for the component in the others), `Init => IInv`, one step per
action, then the theorems, which are consequences of the invariant.

**The ledger, payments, stock**

* **`JournalEntriesProofs`** — `TypeCorrect`, `NumbersStayWithinCount`,
  `ReversalsAreLinked`, `ShutDatesOnlyDrain`, `LedgerRefinement`.
  `NumbersWithinCount` alone is not inductive: a request may hold a number it counted long
  ago. `IInv` adds that a number already *taken* is within the count plus one
  (`NumbersTakenWithinCount`), that held keys differ (`KeysDistinct`), and that a reversal's
  original is posted (`OriginalPosted`). The step of interest is `Commit`, which adds one
  entry to the count of its year; it rests on a lemma about the cardinality of a set
  extended by one element. The refinement needs `KeysDistinct` for `Fresh`.
* **`PaymentApprovalsProofs`** — `TypeCorrect`, `MoneyIsNeverInvented`, `PaidMeansCovered`,
  `EntriesAreKept`. The properties speak of committed rows, but what is written was read
  earlier. `IInv` therefore says of every row a call has *seen* or *written* that it is
  sound (`SoundRow`: the status fits the amount, the amount is backed): by what has been
  allocated so far for a row it saw (`SeenSound`), by that plus what the call itself has
  counted for a row it wrote (`WroteSound`). `allocated` never decreases, so an old read
  stays backed; that an *old* row is as good a base as the current one is the whole point.
* **`InventoryProofs`** — `TypeCorrect`, `BalancesAddUp`, `ChecksPreventOverselling`.
  The two properties speak of committed balances only, so `IInv` carries them to the rows of
  open transactions: locks are exclusive and held by calls in flight (`LocksSound`), a call
  has moved nothing of a stock it has not locked (`CountedSound`), its private copy of a
  stock that is not in `raced` is the recorded sum plus what it moved (`Sums`) and not
  negative (`Backed`), and the quantity it checked suffices up to the write
  (`CheckedSound`).

**`DocumentsProofs`**

* *Numbers* — `DrawnNumbersAreAccounted`, `CountedNumbersAreFree`. `DocumentsInv` says that
  each number up to the counter is held by one call (`DrawnOnce`, `DrawnAll`, `DrawnBelow`)
  and that a counted number is at most one past the count, and exactly that while nobody has
  overtaken the call (`CountedBelow`).
* *ZATCA* — `SubmittedInvoicesChain`, `SubmittedInvoicesAreFinal`. `ZatcaInv` adds that a call
  which is not stale knows the row (`ReadFresh`), that an invoice which is not spoiled was
  sent by one call, which is submitting it or has (`SentOnce`, `SentKept`), that the rows say
  Submitted of just the invoices submitted (`SubmittedRows`), and that a link is what it was
  when it was read, on a row or in a call about to save one (`LinksKept`): the submitted ones
  it was made of are not written any more.
* *Purchase orders* — `OrdersKeepInStep`. `OrdersInv` adds that a call which is not stale
  finds its order in a status it can start from (`ReadHolds`).
* *Quotes* — `QuotesAreInvoicedOnce`. `CrmInv` adds that a quote being converted is Accepted
  (`ConvertingAccepted`), that an acceptance under way keeps its quote `Winning` until the
  second statement bridges its two halves, and that one completed has won the opportunity for
  as long as no hand moves it (`CompletedWon`).

**`SessionsProofs`** — `TokensAreSpentOnce`, `SessionsAreKept`. `SessionInv` follows a token
from its call to the store to the one browser that gets it (`TokensGiven`), keeps Redis as the
only store until the connection breaks (`StoreSteady`), gives a token that is not contested
one rotation, and none after it was revoked (`OneRotation`), and says of a browser nobody
troubled that its cookie is in the store and safe from what `KEYS` returned whenever nothing
is being done to its session, and that one call at a time does it (`Undisturbed`).

**`AccessProofs`**

* *Accounts* — `LockoutsCountFailures`, `InvitationsAcceptedOnce`. `AccountInv` adds that what
  a call which is not stale has read is still so (`FreshRows`): the count it will write back
  plus one, the Invited it will end. The invitation of a user who is still Invited is the one
  sent last, since an invitation that was accepted ends that status.
* *Chart* — `ChartStaysForest`. `ChartInv` adds that the parent a call has found is still
  there with its type (`WantedSound`). The heart is `GrownAcyclic`: rows with new codes can be
  each other's ancestors only among themselves, since a row that was there has its parent
  there. So the chart stays acyclic because the template is (`ChartAssumption`, read off its
  listing).
* *Pages* — `WorkIsShown`. `WebInv` says that work an entry does not show is on its way
  (`WorkOnItsWay`): in the fetch, in its answer, or in the next page that shows the entry, unless
  it was `missed`; and that answers never go back behind what is shown (`AnswersGrow`).

**`ReportsProofs`** — `StatementsStayInAgreement`, `ConsolidationsBalance`. Balancing is a
fact about sums: counted by account, by entry or by line, debits and credits are the same
amounts (`TwoSides`), so a trial balance that knows every account with lines is off by just the
imbalance of its entries, which translation multiplies by the rate, and rounding moves either
side by half a cent for each code. Nothing is assumed of the lines of an entry but that they
are amounts on accounts. `ReportsInv` says of each report under way
what its reads so far have in common with the ledger as it is, unless an entry outdated them
(`LedgerRead`, `KpisRead`, `ZakatRead`, `GroupRead`).

**`MonthEndProofs`**

* *Bank* — `CompletedIsBalanced`. `BankInv` adds that a call which is not stale knows the
  lines it read as they are and its reconciliation as a Draft (`BankReadsFresh`). Then a
  completion sums the lines there are, and a matching touches no reconciliation but its own.
* *Payroll* — `PeriodsArePaidOnce`. `PayrollInv` adds where each kind of call can stand
  (`Stations`), that a period has one run at a time (`OneRunPerPeriod`) and that a call which
  is not stale acts on a run that is there and not posted (`PayrollReadsFresh`). Four steps
  write runs; all others are shown to be `Quiet` by one lemma.
* *Assets* — `RowsArePostedOnce`, `AssetsKeepSalvage`. Rows of one asset fall due in different
  months (`MonthsIncrease`: `setMonth` never returns to a month, whatever it skips), so their
  numbers differ; the instalments of a whole schedule add up because the last one is the rest.
* *End of service* — `AccrualsTrackLiability`. `EosbInv` says what has been put aside by every
  month, irregular months aside (`PutAside`): the lower rate for 59 months, then one month at
  whichever rate the calendar makes it, then the higher one. The rest is arithmetic with the
  drift, which `12 * Drift < Year` keeps from reaching a second month.
* *Amounts* — `EntriesStayClose`, `ExactAmountsArePosted`. `AmountsInv` says that the document
  is made of its input and that the entry is the rounded one of what the document posts
  (`MadeOfInput`, `Decided`). Then it is arithmetic: each line moves by half a cent at most;
  where all amounts are whole cents, sums of rounded amounts are rounded sums, and price, tax
  and total of an invoice agree.

**Sums, sequences, months.** Three definitions the models use are recursive: the sum over a
finite set (`Sums`, a fold of the community modules), the n-th month of a schedule, and the
lines of an entry added up. The library's induction theorems cannot be instantiated with a
formula here, so the proofs argue by the least counterexample: a non-empty set of natural
numbers has a smallest member (`SmallestNumber`, from well-foundedness), a finite set for
which a claim fails contains a smallest one (`ByElements`). `SumIsOnly` then shows that the
fold is the only function that adds up element by element, in any order; all else about sums
(`SumPlus`, `SumTimes`, `SumAtMost`, `SumShifted`, sums key by key) follows from it. No
definition is taken on trust.

**Composition.** `MCMonthEnd`, `MCDocuments` and `MCAccess` are unions of components.
`OneMonthEndPart`, `OneDocumentPart` and `OneAccessPart` show that in every behaviour of the
union one component is at work throughout and behaves as its own specification, so the
theorems above hold of what the runs explore; `…PartsTypeCorrect` is the typing of the unions.

**What failed attempts at a proof showed.** An earlier `SubmittedChain` linked an invoice to
the one submitted before it. That is false from three invoices on when they are submitted in
another order than they were created in: the code takes the last *created* one, and the
property now says so. A `CASE` with overlapping arms for the liability left open which arm
counts; it is the chain of conditions the code has. The zakat part of
`StatementsAgree` counts the income from before a period only up to its end, because a range may
end before it begins and no request is refused for that; the instance has one. The theorems
about reports once took entries to balance to the cent; `EntriesBalance` shows that the code
keeps others, so they now speak of the difference.

**Assumptions.** Only the named `ASSUME` of each component (functions of the right types,
sentinels outside the data, finite sets where counted, what the validators of the requests
guarantee), which TLC evaluates in every run. They are satisfiable: every run has an instance.

**Only model-checked:** the liveness properties `RequestsEnd` and `CallsEnd`, since temporal
reasoning under fairness and `ENABLED` is outside the prover's reach; and the counterexamples.

## 5. Not modelled, and why

* Formatting, texts, XML, QR codes, Hijri dates, signing, password hashing, and the dictionary
  of `lib/i18n.ts`: data no property reads.
* The weighted average cost and the cost-of-goods lines it feeds: divisions of decimals whose
  races are those of the quantities in `Inventory`; only the lock is kept.
* The arithmetic of the calendar of periods: the constant `Covers` admits every gap and
  overlap it can produce.
* The comparison of the two sides on the balance-sheet page (`balance-sheet/page.tsx:95-105`),
  made of floating-point sums: `Reports` ends with the exact totals of the service.
* Expiry of refresh tokens and of the cookie (seven days), see `Sessions`.
* A run for the transfer of a negative quantity: `Inventory` has the transfer as the code has it
  and `NeverOversold` exempts the stock it takes from (`Unguarded`), in the theorem; the
  instance moves positive quantities only.
* The connection pool: its exhaustion shows as a time-out, which is an abort.
* A lost event has no liveness to check, since nothing retries; the models let it be lost and
  show what stays safe.
* Leave: balances are sums over `LeaveRequest` rows, which no code creates; `LeaveService` has
  no caller. The exchange rates of `CurrenciesService` are read by nothing.
* Cash flow (a filter on account names) and the other figures of the dashboard, each one
  aggregate of a table.
* Contacts and the rest of the master data: inserted, updated by id, listed.
* The audit log: written after the answer without being awaited, read by no decision.
* Editing of roles; the seeds of roles and permissions, which nothing calls; the placeholders
  for GOSI, VAT, withholding tax and Zakat under `ksa-compliance`.
* Layout and forms of the front end beyond what `Web` keeps of each page.

What could be added next: the weighted average cost as a function over scaled integers; the
composition of invoices, payments and entry numbers for the lock order between the entry
number and the invoice row.
