----------------------------- MODULE FixedAssets -----------------------------
(***************************************************************************)
(* FixedAssetsService: an asset is created with its straight-line          *)
(* schedule, and depreciation runs post the instalments that are due, each *)
(* in a transaction of its own, as journal entries whose numbers are made  *)
(* from the asset's code and the month.  Money is in cents.                *)
(***************************************************************************)
EXTENDS Integers, FiniteSets, Requests, Sums

CONSTANTS
  DepreciationCalls,  \* calls of runMonthlyDepreciation
  Assets,     \* fixed assets, named by their code
  Purchased,  \* [Assets -> Date]
  Price,      \* [Assets -> Int], purchasePrice minus salvageValue
  Life,       \* [Assets -> Nat], usefulLifeMonths
  DaysIn,     \* [Nat -> 28..31], the length of each month
  AsOf        \* dates a depreciation run may be asked for

\* Months are counted through the years.
Date == [month: Nat, day: 1..31]

ASSUME AssetsAssumption ==
  /\ DepreciationCalls \subseteq Calls
  /\ IsFiniteSet(Assets)
  /\ Purchased \in [Assets -> Date]
  /\ Price \in [Assets -> Int]
  /\ Life \in [Assets -> Nat]
  /\ AsOf \subseteq Date

(***************************************************************************)
(* generateSchedule                                                        *)
(***************************************************************************)

\* date.setMonth(date.getMonth() + 1): a day the month lacks runs over into
\* the month after.
NextMonth(date) ==
  IF date.day <= DaysIn[date.month + 1]
  THEN [date EXCEPT !.month = @ + 1]
  ELSE [month |-> date.month + 2, day |-> date.day - DaysIn[date.month + 1]]

\* currentMonth after each turn of the loop.
CurrentMonth(a) ==
  LET month[i \in Nat] == IF i = 0 THEN Purchased[a] ELSE NextMonth(month[i - 1])
  IN  month

DueDates == [a \in Assets |-> [i \in 1..Life[a] |-> CurrentMonth(a)[i]]]

\* toDecimalPlaces(2), half up, of amount / months.
Monthly(amount, months) == (2 * amount + months) \div (2 * months)

\* A likely mistake: all instalments are equal.
InstalmentEqual(amount, months, i) == Monthly(amount, months)

\* The last instalment is what is left.
Instalment(amount, months, i) ==
  IF i < months THEN Monthly(amount, months)
                ELSE amount - (months - 1) * Monthly(amount, months)

\* Rows of the schedule; none unless there is something to depreciate.
Rows(a) == {[asset |-> a, number |-> i] : i \in IF Price[a] > 0 THEN 1..Life[a] ELSE {}}
AllRows == UNION {Rows(a) : a \in Assets}
DueDate(row) == DueDates[row.asset][row.number]
AmountOf(row) == Instalment(Price[row.asset], Life[row.asset], row.number)

\* DEP-<code>-<year and month>
EntryNumberOf(row) == <<row.asset, DueDate(row).month>>

DueBy(row, date) ==
  \/ DueDate(row).month < date.month
  \/ DueDate(row).month = date.month /\ DueDate(row).day <= date.day

VARIABLES
  active,    \* assets created, with their schedules
  posted,    \* rows whose posted column is true
  book,      \* how many journal entries have been posted for each row
  pending    \* rows a run has read and not come to yet

assetTables == <<active, posted, book>>
assetVars == <<assetTables, pending>>

Scheduled == UNION {Rows(a) : a \in active}

\* tenantId and entryNumber are unique.
NumberUsed(row) ==
  \E r \in AllRows : book[r] > 0 /\ EntryNumberOf(r) = EntryNumberOf(row)

AssetsInit ==
  /\ RequestsInit
  /\ active = {}
  /\ posted = {}
  /\ book = [r \in AllRows |-> 0]
  /\ pending = [c \in Calls |-> {}]

\* create: asset and schedule in one transaction.
CreateAsset(a) ==
  /\ a \notin active
  /\ active' = active \cup {a}
  /\ UNCHANGED <<posted, book, pending, pc, stale>>

\* A likely mistake: rows of assets that are not active as well.
FindPendingOfAll(c, date) ==
  /\ pc[c] = "idle"
  /\ pending' = [pending EXCEPT ![c] = {r \in AllRows \ posted : DueBy(r, date)}]
  /\ Goto(c, "posting")
  /\ UNCHANGED <<assetTables, stale>>

\* runMonthlyDepreciation reads the rows that are due and not posted.
FindPending(c, date) ==
  /\ pc[c] = "idle"
  /\ pending' = [pending EXCEPT ![c] = {r \in Scheduled \ posted : DueBy(r, date)}]
  /\ Goto(c, "posting")
  /\ UNCHANGED <<assetTables, stale>>

\* A likely mistake: numbers are drawn from a counter, so none is ever taken.
PostRowAnyway(c) ==
  /\ pc[c] = "posting"
  /\ \E r \in pending[c] :
       /\ book' = [book EXCEPT ![r] = @ + 1]
       /\ posted' = posted \cup {r}
       /\ pending' = [pending EXCEPT ![c] = @ \ {r}]
  /\ UNCHANGED <<active, pc, stale>>

\* One row, one transaction: the entry is inserted and the row updated by id.
PostRow(c) ==
  /\ pc[c] = "posting"
  /\ \E r \in pending[c] :
       /\ ~NumberUsed(r)
       /\ book' = [book EXCEPT ![r] = @ + 1]
       /\ posted' = posted \cup {r}
       /\ pending' = [pending EXCEPT ![c] = @ \ {r}]
  /\ UNCHANGED <<active, pc, stale>>

StopPosting(c, l) ==
  /\ Goto(c, l)
  /\ pending' = [pending EXCEPT ![c] = {}]
  /\ UNCHANGED <<assetTables, stale>>

\* The number is taken: the first failure ends the run.
NumberTaken(c) ==
  /\ pc[c] = "posting"
  /\ \E r \in pending[c] : NumberUsed(r)
  /\ StopPosting(c, "failed")

FinishRun(c) == pc[c] = "posting" /\ pending[c] = {} /\ StopPosting(c, "done")

\* A crash, a lost connection, a time-out between two rows.
AbortRun(c) == pc[c] = "posting" /\ StopPosting(c, "failed")

AssetsStep(c) == PostRow(c) \/ NumberTaken(c) \/ FinishRun(c)

AssetsNext ==
  \/ \E a \in Assets : CreateAsset(a)
  \/ \E c \in DepreciationCalls, date \in AsOf : FindPending(c, date)
  \/ \E c \in DepreciationCalls : AssetsStep(c) \/ AbortRun(c)

AssetsSpec == AssetsInit /\ [][AssetsNext]_<<assetVars, pc, stale>>

-----------------------------------------------------------------------------

\* The columns and the calls hold values of their types.
AssetsTypeOK ==
  /\ active \subseteq Assets
  /\ posted \subseteq Scheduled
  /\ book \in [AllRows -> Nat]
  /\ pending \in [Calls -> SUBSET Scheduled]
  /\ pc \in [Calls -> {"idle", "posting", "done", "failed"}]

\* A posted row has one journal entry and no other row has any, however runs
\* overlap, fail half-way and are repeated; so a row no run can post is only
\* one that another run has posted.
DepreciationPostedOnce ==
  \A r \in AllRows : /\ book[r] = (IF r \in posted THEN 1 ELSE 0)
                     /\ NumberUsed(r) => r \in posted

\* What has been posted for an asset never exceeds what there is to depreciate
\* and, once all rows are posted, equals it, if a month's share is at least
\* half a cent for every month before the last; below that, rounding up may
\* depreciate an asset below its salvage value.
BookValueAboveSalvage ==
  \A a \in active :
    2 * Price[a] >= Life[a] * (Life[a] - 1) /\ Price[a] > 0 /\ Life[a] > 0 =>
      LET total == SumOver([r \in Rows(a) |-> book[r] * AmountOf(r)], Rows(a))
      IN  /\ total <= Price[a]
          /\ Rows(a) \subseteq posted => total = Price[a]
=============================================================================
