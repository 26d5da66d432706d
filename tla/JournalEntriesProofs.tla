------------------------ MODULE JournalEntriesProofs ------------------------
(***************************************************************************)
(* The properties of JournalEntries for any number of requests, dates,     *)
(* periods and fiscal years.                                               *)
(***************************************************************************)
EXTENDS JournalEntries, FiniteSetTheorems, TLAPS

-----------------------------------------------------------------------------
(* The inductive invariant.                                                *)

\* A reversal reverses a posted entry; nothing else reverses anything.
OriginalPosted ==
  \A r \in Requests :
    /\ kind[r] = "JE" => orig[r] = NoEntry
    /\ kind[r] = "REV" => orig[r] \in posted
    /\ pc[r] = "idle" => kind[r] = "JE"
    /\ pc[r] = "linked" => kind[r] = "REV"

\* A number that is not committed yet is at most one above the year's count.
NumbersTakenWithinCount ==
  \A r \in Requests :
    pc[r] \in {"counted", "inserted", "linked"} =>
      number[r] <= Cardinality(EntriesOfYear(YearOf[date[r]])) + 1

\* The unique index: no two inserted entries have the same number.
KeysDistinct ==
  \A r, s \in Requests :
    HoldsKey(r) /\ HoldsKey(s) /\ EntryNumber(r) = EntryNumber(s) => r = s

IInv ==
  /\ TypeOK
  /\ OriginalPosted
  /\ NumbersTakenWithinCount
  /\ NumbersWithinCount
  /\ KeysDistinct
  /\ ReversalLinks

-----------------------------------------------------------------------------
(* Type correctness.                                                       *)

LEMMA AnyDateIsADate == AnyDate \in Dates
  BY JournalAssumption DEF AnyDate

\* Every column keeps values of its type.
LEMMA TypeInductive == TypeOK /\ [Next]_vars => TypeOK'
<1> SUFFICES ASSUME TypeOK, [Next]_vars PROVE TypeOK'
  OBVIOUS
<1> USE AnyDateIsADate DEF TypeOK, journalVars, calendarVars
<1>1. CASE UNCHANGED vars
  BY <1>1 DEF vars
<1>2. ASSUME NEW f \in FiscalYears, CreateFiscalYear(f) PROVE TypeOK'
  BY <1>2 DEF CreateFiscalYear, PeriodStatuses
<1>3. ASSUME NEW f \in FiscalYears, BeginClose(f) PROVE TypeOK'
  BY <1>3 DEF BeginClose
<1>4. ASSUME NEW f \in FiscalYears, FinishClose(f) PROVE TypeOK'
  BY <1>4 DEF FinishClose
<1>5. ASSUME NEW p \in Periods, NEW s \in PeriodStatuses, UpdateStatus(p, s)
      PROVE  TypeOK'
  BY <1>5 DEF UpdateStatus
<1> DEFINE FailTyped(r) == Fail(r) => TypeOK'
<1>6. ASSUME NEW r \in Requests PROVE FailTyped(r)
  BY DEF Fail, Goto, PCs
<1>7. ASSUME NEW r \in Requests, NEW d \in Dates, SubmitCreate(r, d)
      PROVE  TypeOK'
  BY <1>7 DEF SubmitCreate, Goto, PCs
<1>8. ASSUME NEW r \in Requests, NEW d \in Dates, NEW e \in Requests,
             SubmitReversal(r, e, d)
      PROVE  TypeOK'
  <2>1. CASE reversalId[e] # NoEntry
    BY <1>6, <1>8, <2>1 DEF SubmitReversal
  <2>2. CASE reversalId[e] = NoEntry
    BY <1>8, <2>2 DEF SubmitReversal, Goto, PCs
  <2>3. QED
    BY <2>1, <2>2
<1>9. ASSUME NEW r \in Requests, Validate(r) PROVE TypeOK'
  BY <1>9 DEF Validate, Goto, PCs
<1>10. ASSUME NEW r \in Requests, Reject(r) \/ InsertFails(r) \/ Abort(r)
       PROVE  TypeOK'
  BY <1>6, <1>10 DEF Reject, InsertFails, Abort
<1>11. ASSUME NEW r \in Requests, Count(r) PROVE TypeOK'
  <2>1. IsFiniteSet(EntriesOfYear(YearOf[date[r]]))
    BY JournalAssumption, FS_Subset DEF EntriesOfYear, posted
  <2>2. Cardinality(EntriesOfYear(YearOf[date[r]])) + 1 \in Nat
    BY <2>1, FS_CardinalityType
  <2>3. QED
    BY <1>11, <2>2 DEF Count, Goto, PCs
<1>12. ASSUME NEW r \in Requests, Insert(r) PROVE TypeOK'
  BY <1>12 DEF Insert, Goto, PCs
<1>13. ASSUME NEW r \in Requests, LinkOriginal(r) PROVE TypeOK'
  BY <1>13 DEF LinkOriginal, Goto, PCs
<1>14. ASSUME NEW r \in Requests, Commit(r) PROVE TypeOK'
  BY <1>14 DEF Commit, Goto, PCs
<1>15. QED
  BY <1>1, <1>2, <1>3, <1>4, <1>5, <1>7, <1>8, <1>9, <1>10, <1>11, <1>12,
     <1>13, <1>14 DEF Next, Calendar, Submit, Step

\* Type correctness holds throughout.
THEOREM TypeCorrect == Spec => []TypeOK
<1>1. Init => TypeOK
  BY AnyDateIsADate DEF Init, TypeOK, PCs
<1>2. QED
  BY <1>1, TypeInductive, PTL DEF Spec
-----------------------------------------------------------------------------
(* The inductive invariant.                                                *)

\* The entries of a year can be counted.
LEMMA YearsAreFinite ==
  \A y : /\ IsFiniteSet(EntriesOfYear(y))
         /\ Cardinality(EntriesOfYear(y)) \in Nat
<1> TAKE y
<1>1. EntriesOfYear(y) \in SUBSET Requests
  BY DEF EntriesOfYear, posted
<1>2. QED
  BY <1>1, JournalAssumption, FS_Subset, FS_CardinalityType

\* A step of one request r that neither had committed nor commits.
Quiet(r) ==
  /\ pc[r] # "committed"
  /\ pc'[r] # "committed"
  /\ reversalId' = reversalId
  /\ \A s \in Requests \ {r} :
       /\ pc'[s] = pc[s]
       /\ kind'[s] = kind[s]
       /\ date'[s] = date[s]
       /\ orig'[s] = orig[s]
       /\ number'[s] = number[s]

\* Such a step leaves the posted entries, and every year's count, alone.
LEMMA QuietFrame ==
  ASSUME NEW r \in Requests, Quiet(r)
  PROVE  /\ posted' = posted
         /\ \A y : EntriesOfYear(y)' = EntriesOfYear(y)
<1>1. posted' = posted
  BY DEF Quiet, posted
<1>2. ASSUME NEW y PROVE EntriesOfYear(y)' = EntriesOfYear(y)
  BY <1>1 DEF Quiet, EntriesOfYear, posted
<1>3. QED
  BY <1>1, <1>2

\* It leaves the invariant true if what it writes in its own columns does.
LEMMA QuietKeepsInv ==
  ASSUME IInv, TypeOK', NEW r \in Requests, Quiet(r),
         kind'[r] = "JE" => orig'[r] = NoEntry,
         kind'[r] = "REV" => orig'[r] \in posted,
         pc'[r] = "idle" => kind'[r] = "JE",
         pc'[r] = "linked" => kind'[r] = "REV",
         pc'[r] \in {"counted", "inserted", "linked"} =>
           number'[r] <= Cardinality(EntriesOfYear(YearOf[date'[r]])) + 1,
         HoldsKey(r)' =>
           /\ EntryNumber(r)' = EntryNumber(r)
           /\ \A s \in Requests \ {r} :
                HoldsKey(s) => EntryNumber(s) # EntryNumber(r)
  PROVE  IInv'
<1>1. /\ posted' = posted
      /\ \A y : EntriesOfYear(y)' = EntriesOfYear(y)
  BY QuietFrame
<1>2. OriginalPosted'
  BY <1>1 DEF IInv, OriginalPosted, Quiet
<1>3. NumbersTakenWithinCount'
  BY <1>1 DEF IInv, NumbersTakenWithinCount, Quiet
<1>4. NumbersWithinCount'
  <2> SUFFICES ASSUME NEW e \in posted
               PROVE  number'[e] <= Cardinality(EntriesOfYear(YearOf[date'[e]]))
    BY <1>1 DEF NumbersWithinCount
  <2>1. e \in Requests \ {r}
    BY DEF posted, Quiet
  <2>2. QED
    BY <2>1 DEF IInv, NumbersWithinCount, Quiet
<1>5. KeysDistinct'
  <2> SUFFICES ASSUME NEW a \in Requests, NEW b \in Requests,
                      HoldsKey(a)', HoldsKey(b)',
                      EntryNumber(a)' = EntryNumber(b)'
               PROVE  a = b
    BY DEF KeysDistinct
  <2>1. \A s \in Requests \ {r} : /\ HoldsKey(s)' <=> HoldsKey(s)
                                  /\ EntryNumber(s)' = EntryNumber(s)
    BY DEF Quiet, HoldsKey, EntryNumber
  <2>2. CASE a # r /\ b # r
    BY <2>1, <2>2 DEF IInv, KeysDistinct
  <2>3. CASE a = r \/ b = r
    BY <2>1, <2>3
  <2>4. QED
    BY <2>2, <2>3
<1>6. ReversalLinks'
  <2>1. \A s \in posted : s # r
    BY DEF posted, Quiet
  <2>2. posted \subseteq Requests
    BY DEF posted
  <2>3. QED
    BY <1>1, <2>1, <2>2 DEF IInv, ReversalLinks, Quiet, TypeOK
<1>7. QED
  BY <1>2, <1>3, <1>4, <1>5, <1>6 DEF IInv
\* Actions of the calendar leave every journal column alone.
LEMMA CalendarKeepsInv ==
  ASSUME IInv, TypeOK', UNCHANGED journalVars
  PROVE  IInv'
<1>1. /\ posted' = posted
      /\ \A y : EntriesOfYear(y)' = EntriesOfYear(y)
  BY DEF posted, EntriesOfYear, journalVars
<1>2. OriginalPosted' /\ NumbersTakenWithinCount' /\ NumbersWithinCount'
  BY <1>1 DEF IInv, OriginalPosted, NumbersTakenWithinCount,
              NumbersWithinCount, journalVars
<1>3. KeysDistinct'
  BY DEF IInv, KeysDistinct, HoldsKey, EntryNumber, journalVars
<1>4. ReversalLinks'
  BY <1>1 DEF IInv, ReversalLinks, journalVars
<1>5. QED
  BY <1>2, <1>3, <1>4 DEF IInv

\* A commit adds its entry to the posted ones and one to its year's count.
LEMMA CommitFrame ==
  ASSUME TypeOK, NEW r \in Requests, Commit(r)
  PROVE  /\ posted' = posted \cup {r}
         /\ r \notin posted
         /\ kind' = kind /\ date' = date /\ orig' = orig /\ number' = number
         /\ Cardinality(EntriesOfYear(YearOf[date[r]])') =
              Cardinality(EntriesOfYear(YearOf[date[r]])) + 1
         /\ \A y : y # YearOf[date[r]] => EntriesOfYear(y)' = EntriesOfYear(y)
<1>1. kind' = kind /\ date' = date /\ orig' = orig /\ number' = number
  BY DEF Commit
<1>2. pc' = [pc EXCEPT ![r] = "committed"]
  BY DEF Commit, Goto
<1>3. pc[r] # "committed"
  BY DEF Commit
<1>4. posted' = posted \cup {r} /\ r \notin posted
  BY <1>2, <1>3 DEF posted, TypeOK
<1>5. /\ EntriesOfYear(YearOf[date[r]])' = EntriesOfYear(YearOf[date[r]]) \cup {r}
      /\ r \notin EntriesOfYear(YearOf[date[r]])
  BY <1>1, <1>4 DEF EntriesOfYear
<1>6. Cardinality(EntriesOfYear(YearOf[date[r]])') =
        Cardinality(EntriesOfYear(YearOf[date[r]])) + 1
  BY <1>5, YearsAreFinite, FS_AddElement
<1>7. \A y : y # YearOf[date[r]] => EntriesOfYear(y)' = EntriesOfYear(y)
  BY <1>1, <1>4 DEF EntriesOfYear
<1>8. QED
  BY <1>1, <1>4, <1>6, <1>7

LEMMA CommitKeepsInv ==
  ASSUME IInv, TypeOK', NEW r \in Requests, Commit(r)
  PROVE  IInv'
<1> TypeOK
  BY DEF IInv
<1>1. /\ posted' = posted \cup {r}
      /\ r \notin posted
      /\ kind' = kind /\ date' = date /\ orig' = orig /\ number' = number
  BY CommitFrame
<1>2. ASSUME NEW y
      PROVE  /\ Cardinality(EntriesOfYear(y)) \in Nat
             /\ Cardinality(EntriesOfYear(y)') \in Nat
             /\ Cardinality(EntriesOfYear(y)) <= Cardinality(EntriesOfYear(y)')
  <2>1. CASE y = YearOf[date[r]]
    BY <2>1, CommitFrame, YearsAreFinite
  <2>2. CASE y # YearOf[date[r]]
    BY <2>2, CommitFrame, YearsAreFinite
  <2>3. QED
    BY <2>1, <2>2
<1>3. pc[r] \in {"inserted", "linked"} /\ pc' = [pc EXCEPT ![r] = "committed"]
  BY DEF Commit, Goto
<1>4. OriginalPosted'
  BY <1>1, <1>3 DEF IInv, OriginalPosted, TypeOK
<1>5. NumbersTakenWithinCount'
  <2> SUFFICES ASSUME NEW s \in Requests,
                      pc'[s] \in {"counted", "inserted", "linked"}
               PROVE  (number[s] <= Cardinality(EntriesOfYear(YearOf[date[s]])) + 1)'
    BY DEF NumbersTakenWithinCount
  <2>1. pc[s] = pc'[s]
    BY <1>3 DEF TypeOK
  <2>2. number[s] <= Cardinality(EntriesOfYear(YearOf[date[s]])) + 1
    BY <2>1 DEF IInv, NumbersTakenWithinCount
  <2>3. number[s] \in Nat
    BY DEF TypeOK
  <2>4. QED
    BY <1>1, <1>2, <2>2, <2>3
<1>6. NumbersWithinCount'
  <2> SUFFICES ASSUME NEW e \in posted'
               PROVE  (number[e] <= Cardinality(EntriesOfYear(YearOf[date[e]])))'
    BY DEF NumbersWithinCount
  <2>1. CASE e \in posted
    <3>1. number[e] <= Cardinality(EntriesOfYear(YearOf[date[e]])) /\ number[e] \in Nat
      BY <2>1 DEF IInv, NumbersWithinCount, TypeOK, posted
    <3>2. QED
      BY <1>1, <1>2, <3>1
  <2>2. CASE e = r
    <3>1. number[r] <= Cardinality(EntriesOfYear(YearOf[date[r]])) + 1
      BY <1>3 DEF IInv, NumbersTakenWithinCount
    <3>2. QED
      BY <1>1, <2>2, <3>1, CommitFrame
  <2>3. QED
    BY <1>1, <2>1, <2>2
<1>7. KeysDistinct'
  <2>1. \A s \in Requests : HoldsKey(s)' <=> HoldsKey(s)
    BY <1>3 DEF HoldsKey, TypeOK
  <2>2. \A s \in Requests : EntryNumber(s)' = EntryNumber(s)
    BY <1>1 DEF EntryNumber
  <2>3. QED
    BY <2>1, <2>2 DEF IInv, KeysDistinct
<1>8. ReversalLinks'
  <2>1. CASE kind[r] = "JE"
    <3>1. reversalId' = reversalId
      BY <2>1 DEF Commit
    <3>2. QED
      BY <1>1, <2>1, <3>1 DEF IInv, ReversalLinks
  <2>2. CASE kind[r] = "REV"
    <3>1. reversalId' = [reversalId EXCEPT ![orig[r]] = r]
      BY <2>2 DEF Commit
    <3>2. orig[r] \in posted /\ posted \subseteq Requests
      BY <2>2 DEF IInv, OriginalPosted, posted
    <3>3. r # NoEntry
      BY JournalAssumption
    <3>4. \A s \in posted : kind[s] = "REV" => orig[s] \in Requests
      BY <3>2 DEF IInv, OriginalPosted
    <3>5. QED
      BY <1>1, <2>2, <3>1, <3>2, <3>3, <3>4 DEF IInv, ReversalLinks, TypeOK
  <2>3. QED
    BY <2>1, <2>2 DEF TypeOK
<1>9. QED
  BY <1>4, <1>5, <1>6, <1>7, <1>8 DEF IInv

\* A request that fails leaves no row, and nothing of the ledger changes.
LEMMA FailKeepsInv ==
  ASSUME IInv, TypeOK', NEW r \in Requests, pc[r] # "committed", Fail(r)
  PROVE  IInv'
<1>1. /\ pc'[r] = "failed" /\ kind'[r] = "JE" /\ orig'[r] = NoEntry
      /\ Quiet(r)
  BY DEF Fail, Goto, Quiet, IInv, TypeOK
<1>2. ~HoldsKey(r)'
  BY <1>1 DEF HoldsKey
<1>3. QED
  BY <1>1, <1>2, QuietKeepsInv

\* IInv is inductive.
LEMMA InvInductive == IInv /\ [Next]_vars => IInv'
<1> SUFFICES ASSUME IInv, [Next]_vars PROVE IInv'
  OBVIOUS
<1>0. TypeOK /\ TypeOK'
  BY TypeInductive DEF IInv
<1>1. CASE UNCHANGED vars
  BY <1>0, <1>1, CalendarKeepsInv DEF vars
<1>2. CASE Calendar
  BY <1>0, <1>2, CalendarKeepsInv
     DEF Calendar, CreateFiscalYear, BeginClose, FinishClose, UpdateStatus
<1>3. ASSUME NEW r \in Requests, NEW d \in Dates, SubmitCreate(r, d)
      PROVE  IInv'
  <2>1. /\ pc[r] = "idle" /\ pc'[r] = "submitted" /\ kind'[r] = "JE"
        /\ orig'[r] = orig[r] /\ Quiet(r)
    BY <1>0, <1>3 DEF SubmitCreate, Goto, Quiet, TypeOK
  <2>2. orig[r] = NoEntry
    BY <2>1 DEF IInv, OriginalPosted
  <2>3. ~HoldsKey(r)'
    BY <2>1 DEF HoldsKey
  <2>4. QED
    BY <1>0, <2>1, <2>2, <2>3, QuietKeepsInv
<1>4. ASSUME NEW r \in Requests, NEW d \in Dates, NEW e \in Requests,
             SubmitReversal(r, e, d)
      PROVE  IInv'
  <2>1. CASE reversalId[e] # NoEntry
    <3>1. Fail(r) /\ pc[r] # "committed"
      BY <1>4, <2>1 DEF SubmitReversal
    <3>2. QED
      BY <1>0, <3>1, FailKeepsInv
  <2>2. CASE reversalId[e] = NoEntry
    <3>1. /\ pc'[r] = "submitted" /\ kind'[r] = "REV"
          /\ orig'[r] \in posted /\ Quiet(r)
      BY <1>0, <1>4, <2>2 DEF SubmitReversal, Goto, Quiet, TypeOK
    <3>2. ~HoldsKey(r)'
      BY <3>1 DEF HoldsKey
    <3>3. QED
      BY <1>0, <3>1, <3>2, QuietKeepsInv
  <2>3. QED
    BY <2>1, <2>2
<1>5. ASSUME NEW r \in Requests, Validate(r) PROVE IInv'
  <2>1. /\ pc'[r] = "checked" /\ kind' = kind /\ orig' = orig /\ Quiet(r)
    BY <1>0, <1>5 DEF Validate, Goto, Quiet, TypeOK
  <2>2. ~HoldsKey(r)'
    BY <2>1 DEF HoldsKey
  <2>3. QED
    BY <1>0, <2>1, <2>2, QuietKeepsInv DEF IInv, OriginalPosted
<1>6. ASSUME NEW r \in Requests, Reject(r) \/ InsertFails(r) \/ Abort(r)
      PROVE  IInv'
  <2>1. Fail(r) /\ pc[r] # "committed"
    BY <1>6 DEF Reject, InsertFails, Abort, InFlight
  <2>2. QED
    BY <1>0, <2>1, FailKeepsInv
<1>7. ASSUME NEW r \in Requests, Count(r) PROVE IInv'
  <2>1. /\ pc'[r] = "counted" /\ kind' = kind /\ orig' = orig /\ date' = date
        /\ number'[r] = Cardinality(EntriesOfYear(YearOf[date[r]])) + 1
        /\ Quiet(r)
    BY <1>0, <1>7 DEF Count, Goto, Quiet, TypeOK
  <2>2. number'[r] <= Cardinality(EntriesOfYear(YearOf[date'[r]])) + 1
    BY <2>1, YearsAreFinite
  <2>3. ~HoldsKey(r)'
    BY <2>1 DEF HoldsKey
  <2>4. QED
    BY <1>0, <2>1, <2>2, <2>3, QuietKeepsInv DEF IInv, OriginalPosted
<1>8. ASSUME NEW r \in Requests, Insert(r) PROVE IInv'
  <2>1. /\ pc[r] = "counted" /\ pc'[r] = "inserted"
        /\ kind' = kind /\ orig' = orig /\ date' = date /\ number' = number
        /\ Quiet(r)
    BY <1>0, <1>8 DEF Insert, Goto, Quiet, TypeOK
  <2>2. number'[r] <= Cardinality(EntriesOfYear(YearOf[date'[r]])) + 1
    BY <2>1 DEF IInv, NumbersTakenWithinCount
  <2>3. /\ EntryNumber(r)' = EntryNumber(r)
        /\ \A s \in Requests \ {r} :
             HoldsKey(s) => EntryNumber(s) # EntryNumber(r)
    BY <1>8, <2>1 DEF Insert, EntryNumber
  <2>4. QED
    BY <1>0, <2>1, <2>2, <2>3, QuietKeepsInv DEF IInv, OriginalPosted
<1>9. ASSUME NEW r \in Requests, LinkOriginal(r) PROVE IInv'
  <2>1. /\ pc[r] = "inserted" /\ pc'[r] = "linked" /\ kind[r] = "REV"
        /\ kind' = kind /\ orig' = orig /\ date' = date /\ number' = number
        /\ Quiet(r)
    BY <1>0, <1>9 DEF LinkOriginal, Goto, Quiet, TypeOK
  <2>2. number'[r] <= Cardinality(EntriesOfYear(YearOf[date'[r]])) + 1
    BY <2>1 DEF IInv, NumbersTakenWithinCount
  <2>3. /\ EntryNumber(r)' = EntryNumber(r)
        /\ \A s \in Requests \ {r} :
             HoldsKey(s) => EntryNumber(s) # EntryNumber(r)
    BY <2>1 DEF IInv, KeysDistinct, EntryNumber, HoldsKey
  <2>4. QED
    BY <1>0, <2>1, <2>2, <2>3, QuietKeepsInv DEF IInv, OriginalPosted
<1>10. ASSUME NEW r \in Requests, Commit(r) PROVE IInv'
  BY <1>0, <1>10, CommitKeepsInv
<1>11. QED
  BY <1>1, <1>2, <1>3, <1>4, <1>5, <1>6, <1>7, <1>8, <1>9, <1>10
     DEF Next, Submit, Step

LEMMA InvInitially == Init => IInv
<1> SUFFICES ASSUME Init PROVE IInv
  OBVIOUS
<1>1. TypeOK
  BY AnyDateIsADate DEF Init, TypeOK, PCs
<1>2. posted = {} /\ \A r \in Requests : ~HoldsKey(r)
  BY DEF Init, posted, HoldsKey
<1>3. QED
  BY <1>1, <1>2 DEF Init, IInv, OriginalPosted, NumbersTakenWithinCount,
                    NumbersWithinCount, KeysDistinct, ReversalLinks

LEMMA Invariance == Spec => []IInv
  BY InvInitially, InvInductive, PTL DEF Spec

-----------------------------------------------------------------------------
(* The safety properties.                                                  *)

\* Numbering by count never falls behind: no posted number is above its year's
\* count, so count + 1 is free for a request that runs alone.
THEOREM NumbersStayWithinCount == Spec => []NumbersWithinCount
<1>1. IInv => NumbersWithinCount
  BY DEF IInv
<1>2. QED
  BY <1>1, Invariance, PTL

\* The reversalId column and the posted reversals agree.
THEOREM ReversalsAreLinked == Spec => []ReversalLinks
<1>1. IInv => ReversalLinks
  BY DEF IInv
<1>2. QED
  BY <1>1, Invariance, PTL

\* Nothing new gets past the check of a date whose periods are and stay
\* closed, and what is posted on it had passed the check before.
THEOREM ShutDatesOnlyDrain == Spec => ShutDateOnlyDrains
<1> DEFINE Drains(d) ==
      Shut(d) /\ Shut(d)' =>
        /\ PastCheck(d)' \subseteq PastCheck(d)
        /\ \A r \in posted' \ posted : date'[r] = d => r \in PastCheck(d)
<1>1. ASSUME TypeOK, [Next]_vars, NEW d \in Dates PROVE Drains(d)
  <2> SUFFICES ASSUME Shut(d), NEW r \in Requests, date'[r] = d,
                      pc'[r] \in {"checked", "counted", "inserted", "linked"}
                        \/ (pc'[r] = "committed" /\ pc[r] # "committed")
               PROVE  r \in PastCheck(d)
    BY DEF PastCheck, posted
  <2>1. CASE UNCHANGED <<pc, date>>
    BY <2>1 DEF PastCheck
  <2>2. CASE Calendar
    BY <2>2, <2>1 DEF Calendar, CreateFiscalYear, BeginClose, FinishClose,
                      UpdateStatus, journalVars
  <2>3. ASSUME NEW q \in Requests, q # r, Submit(q) \/ Step(q) \/ Abort(q)
        PROVE  r \in PastCheck(d)
    <3>1. pc'[r] = pc[r] /\ date'[r] = date[r]
      BY <1>1, <2>3 DEF Submit, Step, SubmitCreate, SubmitReversal, Validate,
           Reject, Count, Insert, InsertFails, LinkOriginal, Commit, Abort,
           Fail, Goto, TypeOK
    <3>2. QED
      BY <3>1 DEF PastCheck
  <2>4. ASSUME Submit(r) \/ Reject(r) \/ InsertFails(r) \/ Abort(r) PROVE FALSE
    BY <1>1, <2>4 DEF Submit, SubmitCreate, SubmitReversal, Reject,
         InsertFails, Abort, Fail, Goto, TypeOK
  <2>5. ASSUME Validate(r) PROVE FALSE
    BY <2>5 DEF Validate, Shut
  <2>6. CASE Count(r) \/ Insert(r) \/ LinkOriginal(r) \/ Commit(r)
    BY <2>6 DEF Count, Insert, LinkOriginal, Commit, PastCheck
  <2>7. CASE UNCHANGED vars
    BY <2>1, <2>7 DEF vars, journalVars
  <2>8. QED
    BY <1>1, <2>2, <2>3, <2>4, <2>5, <2>6, <2>7 DEF Next, Step
<1>2. TypeOK /\ [Next]_vars => [\A d \in Dates : Drains(d)]_vars
  BY <1>1
<1>3. QED
  BY <1>2, TypeCorrect, PTL DEF Spec, ShutDateOnlyDrains

-----------------------------------------------------------------------------
(* The abstract ledger.                                                    *)

\* The entry of a request in the book.
EntryOf(r) ==
  [id |-> r, kind |-> kind[r], year |-> YearOf[date[r]], number |-> number[r],
   reverses |-> orig[r]]

\* Only a commit writes in the book or the pointers.
LEMMA OnlyCommitsReachTheBook ==
  ASSUME IInv, [Next]_vars, \A r \in Requests : ~Commit(r)
  PROVE  UNCHANGED <<book, reversalId>>
<1>1. SUFFICES /\ UNCHANGED reversalId
               /\ posted' = posted
               /\ \A e \in posted :
                    /\ kind'[e] = kind[e]
                    /\ date'[e] = date[e]
                    /\ orig'[e] = orig[e]
                    /\ number'[e] = number[e]
  BY DEF book
<1>2. CASE UNCHANGED vars
  BY <1>2 DEF vars, journalVars, posted
<1>3. CASE Calendar
  BY <1>3 DEF Calendar, CreateFiscalYear, BeginClose, FinishClose,
              UpdateStatus, journalVars, posted
<1>4. ASSUME NEW r \in Requests, Submit(r) \/ Step(r) \/ Abort(r)
      PROVE  Quiet(r)
  <2>1. CASE Fail(r) /\ pc[r] # "committed"
    BY <2>1 DEF Fail, Goto, Quiet, IInv, TypeOK
  <2>2. CASE Reject(r) \/ InsertFails(r) \/ Abort(r)
    BY <2>1, <2>2 DEF Reject, InsertFails, Abort, InFlight
  <2>3. CASE \E d \in Dates : SubmitCreate(r, d)
    BY <2>3 DEF SubmitCreate, Goto, Quiet, IInv, TypeOK
  <2>4. ASSUME NEW d \in Dates, NEW e \in Requests, SubmitReversal(r, e, d)
        PROVE  Quiet(r)
    <3>1. CASE reversalId[e] # NoEntry
      BY <2>1, <2>4, <3>1 DEF SubmitReversal
    <3>2. CASE reversalId[e] = NoEntry
      BY <2>4, <3>2 DEF SubmitReversal, Goto, Quiet, IInv, TypeOK
    <3>3. QED
      BY <3>1, <3>2
  <2>5. CASE Validate(r) \/ Count(r) \/ Insert(r) \/ LinkOriginal(r)
    BY <2>5 DEF Validate, Count, Insert, LinkOriginal, Goto, Quiet, IInv, TypeOK
  <2>6. QED
    BY <1>4, <2>2, <2>3, <2>4, <2>5 DEF Submit, Step
<1>5. ASSUME NEW r \in Requests, Quiet(r)
      PROVE  /\ UNCHANGED reversalId
             /\ posted' = posted
             /\ \A e \in posted : e \in Requests \ {r}
  BY <1>5, QuietFrame DEF Quiet, posted
<1>6. QED
  BY <1>2, <1>3, <1>4, <1>5 DEF Next, Quiet

\* A commit is a Post or a Reverse of the abstract ledger.
LEMMA CommitIsALedgerStep ==
  ASSUME IInv, NEW r \in Requests, Commit(r)
  PROVE  L!Next
<1> TypeOK
  BY DEF IInv
<1>1. /\ posted' = posted \cup {r}
      /\ r \notin posted
      /\ kind' = kind /\ date' = date /\ orig' = orig /\ number' = number
  BY CommitFrame
<1>2. book' = book \cup {EntryOf(r)}
  BY <1>1 DEF book, EntryOf
<1>3. \A f \in book : \E e \in posted : f = EntryOf(e)
  BY DEF book, EntryOf
<1>4. L!Fresh(EntryOf(r))
  <2> SUFFICES ASSUME NEW e \in posted
               PROVE  /\ e # r
                      /\ EntryNumber(e) # EntryNumber(r)
    BY <1>3 DEF L!Fresh, EntryOf, EntryNumber
  <2>1. HoldsKey(r) /\ HoldsKey(e) /\ e \in Requests
    BY DEF Commit, HoldsKey, posted
  <2>2. QED
    BY <1>1, <2>1 DEF IInv, KeysDistinct
<1>5. EntryOf(r) \in book' \ book
  BY <1>1, <1>2, <1>3 DEF EntryOf
<1>6. EntryOf(r) \in L!Entry
  BY JournalAssumption DEF EntryOf, L!Entry, TypeOK
<1>7. CASE kind[r] = "JE"
  <2>1. reversalId' = reversalId /\ orig[r] = NoEntry
    BY <1>7 DEF Commit, IInv, OriginalPosted
  <2>2. L!Post(EntryOf(r))
    BY <1>2, <1>4, <2>1 DEF L!Post, EntryOf
  <2>3. QED
    BY <1>5, <1>6, <2>2 DEF L!Next
<1>8. CASE kind[r] = "REV"
  <2>1. reversalId' = [reversalId EXCEPT ![orig[r]] = r] /\ orig[r] \in posted
    BY <1>8 DEF Commit, IInv, OriginalPosted
  <2>2. \E f \in book : f.id = EntryOf(r).reverses
    <3>1. EntryOf(orig[r]) \in book /\ EntryOf(orig[r]).id = orig[r]
      BY <2>1 DEF book, EntryOf
    <3>2. EntryOf(r).reverses = orig[r]
      BY DEF EntryOf
    <3>3. QED
      BY <3>1, <3>2
  <2>3. L!Reverse(EntryOf(r))
    BY <1>2, <1>4, <2>1, <2>2 DEF L!Reverse, EntryOf
  <2>4. QED
    BY <1>5, <1>6, <2>3 DEF L!Next
<1>9. QED
  BY <1>7, <1>8 DEF TypeOK

\* create and createReversal, interleaved statement by statement with each
\* other and with the closing of periods, implement the abstract ledger.
THEOREM LedgerRefinement == Spec => ImplementsLedger
<1>1. Init => L!Init
  BY DEF Init, L!Init, book, posted
<1>2. IInv /\ [Next]_vars => [L!Next]_(L!ledgerVars)
  BY OnlyCommitsReachTheBook, CommitIsALedgerStep DEF L!ledgerVars
<1>3. QED
  BY <1>1, <1>2, Invariance, PTL DEF Spec, ImplementsLedger, L!Spec
=============================================================================
