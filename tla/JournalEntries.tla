--------------------------- MODULE JournalEntries ---------------------------
(***************************************************************************)
(* Posting to the general ledger: JournalEntriesService.create and         *)
(* .createReversal as the database statements they issue, interleaved with *)
(* each other and with AccountingPeriodsService and FiscalYearsService.    *)
(*                                                                         *)
(* PostgreSQL at READ COMMITTED: a statement sees what is committed when   *)
(* it runs; an insert whose unique key is held by an open transaction      *)
(* waits for that transaction and then fails if it committed; an updated   *)
(* row stays locked until commit.  A request posts at most one entry, so   *)
(* the entry is named by its request.                                      *)
(***************************************************************************)
EXTENDS Naturals, FiniteSets

CONSTANTS
  Requests,     \* calls of create and createReversal, one per HTTP request
  NoEntry,      \* NULL in reversalId
  Dates,        \* entry dates
  Years,        \* calendar (UTC) years
  YearOf,       \* [Dates -> Years]
  Periods,      \* accounting periods a fiscal year can be created with
  Covers,       \* [Dates -> SUBSET Periods]: startDate <= date <= endDate
  FiscalYears,
  FiscalYearOf  \* [Periods -> FiscalYears]

ASSUME JournalAssumption ==
  /\ IsFiniteSet(Requests)
  /\ NoEntry \notin Requests
  /\ Dates # {}
  /\ YearOf \in [Dates -> Years]
  /\ Covers \in [Dates -> SUBSET Periods]
  /\ FiscalYearOf \in [Periods -> FiscalYears]

VARIABLES
  pc,            \* where each request stands
  kind,          \* "JE" (create) or "REV" (createReversal)
  date,          \* dto.entryDate or reversalDate
  orig,          \* the entry a reversal reverses
  number,        \* the running number in entryNumber
  reversalId,    \* committed reversalId column of each entry
  periodStatus,  \* status column of each period, "Absent" before creation
  fyStatus,      \* status column of each fiscal year
  closing        \* fiscal years with a close() past its checks

journalVars == <<pc, kind, date, orig, number, reversalId>>
calendarVars == <<periodStatus, fyStatus, closing>>
vars == <<journalVars, calendarVars>>

PCs == {"idle", "submitted", "checked", "counted", "inserted", "linked",
        "committed", "failed"}

\* "Open" stands for Open and Adjusting, which the code never tells apart:
\* both let an entry in and both keep the fiscal year from closing.
PeriodStatuses == {"Open", "Closed"}

\* Journal entries visible to every transaction.
posted == {r \in Requests : pc[r] = "committed"}

\* Requests whose insert holds the unique key, committed or not.
HoldsKey(r) == pc[r] \in {"inserted", "linked", "committed"}

InFlight(r) == pc[r] \in {"submitted", "checked", "counted", "inserted", "linked"}

\* JE-<year>-<number> or REV-<year>-<number>: unique per tenant.
EntryNumber(r) == <<kind[r], YearOf[date[r]], number[r]>>

EntriesOfYear(y) == {r \in posted : YearOf[date[r]] = y}

\* Placeholder of the date column until the request arrives.
AnyDate == CHOOSE d \in Dates : TRUE

Init ==
  /\ pc = [r \in Requests |-> "idle"]
  /\ kind = [r \in Requests |-> "JE"]
  /\ date = [r \in Requests |-> AnyDate]
  /\ orig = [r \in Requests |-> NoEntry]
  /\ number = [r \in Requests |-> 0]
  /\ reversalId = [r \in Requests |-> NoEntry]
  /\ periodStatus = [p \in Periods |-> "Absent"]
  /\ fyStatus = [f \in FiscalYears |-> "Absent"]
  /\ closing = {}

Goto(r, l) == pc' = [pc EXCEPT ![r] = l]

\* An exception reaches the client.  What the request wrote is rolled back:
\* no row of it is left to have columns.
Fail(r) ==
  /\ Goto(r, "failed")
  /\ kind' = [kind EXCEPT ![r] = "JE"]
  /\ date' = [date EXCEPT ![r] = AnyDate]
  /\ orig' = [orig EXCEPT ![r] = NoEntry]
  /\ number' = [number EXCEPT ![r] = 0]
  /\ UNCHANGED <<reversalId, calendarVars>>

(***************************************************************************)
(* AccountingPeriodsService and FiscalYearsService.                        *)
(***************************************************************************)

\* A likely mistake: the periods start as "Future", the status the comment at
\* accounting-periods line 48 mentions and no enum value provides.
CreateFiscalYearInFuture(f) ==
  /\ fyStatus[f] = "Absent"
  /\ fyStatus' = [fyStatus EXCEPT ![f] = "Open"]
  /\ periodStatus' = [p \in Periods |->
                        IF FiscalYearOf[p] = f THEN "Future" ELSE periodStatus[p]]
  /\ UNCHANGED <<closing, journalVars>>

\* FiscalYearsService.create, initializeFiscalYear: one transaction creates
\* the year and its periods, all Open.  The name is unique, so a year is
\* created once.
CreateFiscalYear(f) ==
  /\ fyStatus[f] = "Absent"
  /\ fyStatus' = [fyStatus EXCEPT ![f] = "Open"]
  /\ periodStatus' = [p \in Periods |->
                        IF FiscalYearOf[p] = f THEN "Open" ELSE periodStatus[p]]
  /\ UNCHANGED <<closing, journalVars>>

\* AccountingPeriodsService.updateStatus: any status to any status, reopening
\* included, whatever the fiscal year's own status.
UpdateStatus(p, s) ==
  /\ periodStatus[p] # "Absent"
  /\ periodStatus' = [periodStatus EXCEPT ![p] = s]
  /\ UNCHANGED <<fyStatus, closing, journalVars>>

\* FiscalYearsService.close up to its update: the year is not Closed and no
\* period of it is Open or Adjusting.
BeginClose(f) ==
  /\ fyStatus[f] = "Open"
  /\ \A p \in Periods : FiscalYearOf[p] = f => periodStatus[p] = "Closed"
  /\ closing' = closing \cup {f}
  /\ UNCHANGED <<periodStatus, fyStatus, journalVars>>

\* ... and its update, which checks nothing again.
FinishClose(f) ==
  /\ f \in closing
  /\ fyStatus' = [fyStatus EXCEPT ![f] = "Closed"]
  /\ closing' = closing \ {f}
  /\ UNCHANGED <<periodStatus, journalVars>>

(***************************************************************************)
(* JournalEntriesService.  Reads before $transaction run on their own.     *)
(***************************************************************************)

\* POST /accounting/journal-entries.
SubmitCreate(r, d) ==
  /\ pc[r] = "idle"
  /\ kind' = [kind EXCEPT ![r] = "JE"]
  /\ date' = [date EXCEPT ![r] = d]
  /\ Goto(r, "submitted")
  /\ UNCHANGED <<orig, number, reversalId, calendarVars>>

\* POST /accounting/journal-entries/:id/reverse, up to the reversalId guard.
SubmitReversal(r, e, d) ==
  /\ pc[r] = "idle"
  /\ e \in posted
  /\ IF reversalId[e] # NoEntry
     THEN Fail(r)
     ELSE /\ kind' = [kind EXCEPT ![r] = "REV"]
          /\ date' = [date EXCEPT ![r] = d]
          /\ orig' = [orig EXCEPT ![r] = e]
          /\ Goto(r, "submitted")
          /\ UNCHANGED <<number, reversalId, calendarVars>>

\* findActivePeriodByDate: findFirst returns any period that covers the date.
PeriodsFound(d) == {p \in Covers[d] : periodStatus[p] # "Absent"}

\* A likely mistake: a period is looked up but its status is not read.
ValidateExistence(r) ==
  /\ pc[r] = "submitted"
  /\ PeriodsFound(date[r]) # {}
  /\ Goto(r, "checked")
  /\ UNCHANGED <<kind, date, orig, number, reversalId, calendarVars>>

\* The period check (and, for create, the checks on the lines, which can
\* only reject) passes.
Validate(r) ==
  /\ pc[r] = "submitted"
  /\ \E p \in PeriodsFound(date[r]) : periodStatus[p] # "Closed"
  /\ Goto(r, "checked")
  /\ UNCHANGED <<kind, date, orig, number, reversalId, calendarVars>>

\* No period, a Closed one, or (create) lines that are missing, negative,
\* two-sided, unbalanced or on an account that cannot be posted to.
Reject(r) ==
  /\ pc[r] = "submitted"
  /\ \/ PeriodsFound(date[r]) = {}
     \/ \E p \in PeriodsFound(date[r]) : periodStatus[p] = "Closed"
     \/ kind[r] = "JE"
  /\ Fail(r)

\* A likely mistake: the date range is dropped from the count.
CountEveryYear(r) ==
  /\ pc[r] = "checked"
  /\ number' = [number EXCEPT ![r] = Cardinality(posted) + 1]
  /\ Goto(r, "counted")
  /\ UNCHANGED <<kind, date, orig, reversalId, calendarVars>>

\* The transaction begins: count the year's entries of every series.
Count(r) ==
  /\ pc[r] = "checked"
  /\ number' = [number EXCEPT
                  ![r] = Cardinality(EntriesOfYear(YearOf[date[r]])) + 1]
  /\ Goto(r, "counted")
  /\ UNCHANGED <<kind, date, orig, reversalId, calendarVars>>

\* A likely mistake: no unique index on (tenantId, entryNumber).
InsertAnyNumber(r) ==
  /\ pc[r] = "counted"
  /\ Goto(r, "inserted")
  /\ UNCHANGED <<kind, date, orig, number, reversalId, calendarVars>>

\* journalEntry.create when nobody holds the entry number.
Insert(r) ==
  /\ pc[r] = "counted"
  /\ \A s \in Requests : HoldsKey(s) => EntryNumber(s) # EntryNumber(r)
  /\ Goto(r, "inserted")
  /\ UNCHANGED <<kind, date, orig, number, reversalId, calendarVars>>

\* A likely mistake: the insert is retried with the number counted before.
InsertRetries(r) ==
  /\ pc[r] = "counted"
  /\ \E s \in posted : EntryNumber(s) = EntryNumber(r)
  /\ Goto(r, "counted")
  /\ UNCHANGED <<kind, date, orig, number, reversalId, calendarVars>>

\* journalEntry.create when a committed entry has the number: unique
\* violation (P2002), the transaction rolls back.
InsertFails(r) ==
  /\ pc[r] = "counted"
  /\ \E s \in posted : EntryNumber(s) = EntryNumber(r)
  /\ Fail(r)

\* The row lock an open transaction holds on the original it updated.
Locks(s, e) == pc[s] = "linked" /\ orig[s] = e

\* A likely mistake: the update goes through this.prisma instead of tx, so it
\* takes effect at once and survives a rollback.
LinkOriginalOutside(r) ==
  /\ pc[r] = "inserted"
  /\ kind[r] = "REV"
  /\ \A s \in Requests : ~Locks(s, orig[r])
  /\ Goto(r, "linked")
  /\ reversalId' = [reversalId EXCEPT ![orig[r]] = r]
  /\ UNCHANGED <<kind, date, orig, number, calendarVars>>

\* createReversal: journalEntry.update of the original, visible at commit.
LinkOriginal(r) ==
  /\ pc[r] = "inserted"
  /\ kind[r] = "REV"
  /\ \A s \in Requests : ~Locks(s, orig[r])
  /\ Goto(r, "linked")
  /\ UNCHANGED <<kind, date, orig, number, reversalId, calendarVars>>

Commit(r) ==
  /\ \/ kind[r] = "JE" /\ pc[r] = "inserted"
     \/ pc[r] = "linked"
  /\ reversalId' = IF kind[r] = "REV"
                   THEN [reversalId EXCEPT ![orig[r]] = r] ELSE reversalId
  /\ Goto(r, "committed")
  /\ UNCHANGED <<kind, date, orig, number, calendarVars>>

\* Crash, lost connection or transaction timeout: nothing is committed.
Abort(r) ==
  /\ InFlight(r)
  /\ Fail(r)

Calendar ==
  \/ \E f \in FiscalYears : CreateFiscalYear(f) \/ BeginClose(f) \/ FinishClose(f)
  \/ \E p \in Periods, s \in PeriodStatuses : UpdateStatus(p, s)

Submit(r) ==
  \/ \E d \in Dates : SubmitCreate(r, d)
  \/ \E d \in Dates, e \in Requests : SubmitReversal(r, e, d)

\* The statements the server runs for a request once it has arrived.
Step(r) ==
  \/ Validate(r) \/ Reject(r) \/ Count(r) \/ Insert(r) \/ InsertFails(r)
  \/ LinkOriginal(r) \/ Commit(r)

Next ==
  \/ Calendar
  \/ \E r \in Requests : Submit(r) \/ Step(r) \/ Abort(r)

\* The server and the database do not both sit idle while some request has a
\* statement to run; nobody has to submit one, and nothing has to fail.
Fairness == WF_vars(\E r \in Requests : Step(r))

Spec == Init /\ [][Next]_vars

FairSpec == Spec /\ Fairness

-----------------------------------------------------------------------------

\* The columns hold values of their types.
TypeOK ==
  /\ pc \in [Requests -> PCs]
  /\ kind \in [Requests -> {"JE", "REV"}]
  /\ date \in [Requests -> Dates]
  /\ orig \in [Requests -> Requests \cup {NoEntry}]
  /\ number \in [Requests -> Nat]
  /\ reversalId \in [Requests -> Requests \cup {NoEntry}]
  /\ periodStatus \in [Periods -> PeriodStatuses \cup {"Absent"}]
  /\ fyStatus \in [FiscalYears -> {"Absent", "Open", "Closed"}]
  /\ closing \subseteq FiscalYears

\* count + 1 is a free number whenever no other request is between its count
\* and its commit: no posted entry of the year, of any series, has a number
\* above the year's count.  Numbering by count (lines 72-81 and 152-161) is
\* only sound because of this.
NumbersWithinCount ==
  \A e \in posted :
    number[e] <= Cardinality(EntriesOfYear(YearOf[date[e]]))

\* reversalId and the reversing entry are written together or not at all: the
\* column points at a posted reversal of that very entry, and an entry with a
\* posted reversal has a pointer, so the guard at line 127 sees it.
ReversalLinks ==
  /\ \A e \in Requests : reversalId[e] # NoEntry =>
        /\ e \in posted
        /\ reversalId[e] \in posted
        /\ kind[reversalId[e]] = "REV"
        /\ orig[reversalId[e]] = e
  /\ \A r \in posted : kind[r] = "REV" => reversalId[orig[r]] # NoEntry

\* Every covering period that exists is Closed.
Shut(d) == /\ PeriodsFound(d) # {}
           /\ \A p \in PeriodsFound(d) : periodStatus[p] = "Closed"

\* Requests for date d that are past the period check and not yet posted.
PastCheck(d) ==
  {r \in Requests : date[r] = d /\ pc[r] \in {"checked", "counted", "inserted", "linked"}}

\* A date whose periods are closed only drains: while they stay closed no
\* request gets past the period check, and what is posted on that date had
\* passed it before.  Closing while no request is in flight is a real close.
ShutDateOnlyDrains ==
  [][\A d \in Dates : Shut(d) /\ Shut(d)' =>
       /\ PastCheck(d)' \subseteq PastCheck(d)
       /\ \A r \in posted' \ posted : date'[r] = d => r \in PastCheck(d)]_vars

\* Nobody waits for ever on a number or on a row of another reversal: every
\* request that arrived is posted or fails.
RequestsEnd ==
  \A r \in Requests : InFlight(r) ~> pc[r] \in {"committed", "failed"}

\* The book of posted entries as the abstract ledger sees it.
book ==
  {[id |-> r, kind |-> kind[r], year |-> YearOf[date[r]], number |-> number[r],
    reverses |-> orig[r]] : r \in posted}

L == INSTANCE Ledger WITH EntryIds <- Requests, Kinds <- {"JE", "REV"},
                          reversalOf <- reversalId

\* The whole implements the abstract ledger: append-only, each number once,
\* reversal and pointer in one step.
ImplementsLedger == L!Spec

(***************************************************************************)
(* What comments in the code claim and the interleavings break.            *)
(***************************************************************************)

\* "This journal entry has already been reversed" (line 128), "prevent race
\* conditions" (line 148): an entry has at most one posted reversal.
ReversedAtMostOnce ==
  \A r, s \in posted :
    kind[r] = "REV" /\ kind[s] = "REV" /\ orig[r] = orig[s] => r = s

\* "Validate Accounting Period (Must be Open or Adjusting)" (line 38) and
\* "Ensure all periods are closed before closing FY" (fiscal-years line 110):
\* nothing is posted on a date all of whose fiscal years are Closed.
NothingPostedInClosedYear ==
  [][\A r \in posted' \ posted :
       \E p \in PeriodsFound(date[r]) : fyStatus[FiscalYearOf[p]] # "Closed"]_vars
=============================================================================
