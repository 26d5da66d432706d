--------------------------- MODULE MonthEndProofs ---------------------------
(***************************************************************************)
(* Work at the end of a month, for any lines, statements, runs, assets,    *)
(* wages and number of calls: the lines of a completed reconciliation      *)
(* explain its balances, the salaries of a period and the rows of a        *)
(* schedule are posted once, an asset keeps its salvage value, accruals    *)
(* meet the liability they are made for, and entries are kept in balance   *)
(* but for half a cent for each line.                                      *)
(***************************************************************************)
EXTENDS MCMonthEnd, ReportsProofs

(***************************************************************************)
(* Bank reconciliation                                                     *)
(***************************************************************************)

BankView == <<bankVars, pc, stale>>

\* What a call holds: lines it has read, of which it takes some.
BankHolds ==
  \A c \in Calls :
    /\ pc[c] = "read" => task[c].do \in {"autoMatch", "complete"}
    /\ taken[c] \subseteq seen[c]
    /\ pc[c] # "read" => taken[c] = {}

\* A call that no write has made stale knows the state of its reconciliation,
\* and that the lines it has read are as it has read them.
BankReadsFresh ==
  \A c \in Calls \ stale : InFlight(c) =>
    /\ reconciliation[Of(c)] = "Draft"
    /\ pc[c] = "read" /\ task[c].do = "autoMatch" => seen[c] \subseteq LinesOf(Free)
    /\ pc[c] = "read" /\ task[c].do = "complete" => seen[c] = LinesOf(Of(c))

BankInv == BankTypeOK /\ BankHolds /\ BankReadsFresh /\ ReconciledBalances

-----------------------------------------------------------------------------

LEMMA BankInitInv == BankInit => BankInv
<1> SUFFICES ASSUME BankInit PROVE BankInv
  OBVIOUS
<1> USE BankAssumption DEF BankInit, RequestsInit
<1>1. (CHOOSE t \in Tasks : TRUE) \in Tasks
  <2>1. PICK r \in Recons : TRUE
    OBVIOUS
  <2>2. [do |-> "match", recon |-> r] \in Tasks
    BY DEF Tasks
  <2>3. QED
    BY <2>2
<1>2. BankTypeOK
  BY <1>1 DEF BankTypeOK, ReconciliationStatuses
<1>3. BankHolds /\ BankReadsFresh /\ ReconciledBalances
  BY DEF BankHolds, BankReadsFresh, ReconciledBalances, InFlight
<1>4. QED
  BY <1>2, <1>3 DEF BankInv

\* Of a step of c: where the others stand and what they hold does not change.
LEMMA BankTypeInductive ==
  ASSUME BankTypeOK, BankHolds, [BankNext]_BankView
  PROVE  BankTypeOK' /\ BankHolds'
<1> USE BankAssumption DEF BankTypeOK, BankHolds, ReconciliationStatuses, Goto, EndMatching, Refuse,
        bankVars, bankTables, InFlight, Ended
<1> DEFINE Goal == BankTypeOK' /\ BankHolds'
<1>1. ASSUME NEW r \in Recons, UploadStatement(r) PROVE Goal
  BY <1>1 DEF UploadStatement
<1>2. ASSUME NEW c \in MatchingCalls, NEW t \in Tasks, Begin(c, t) PROVE Goal
  BY <1>2 DEF Begin
<1>3. ASSUME NEW c \in MatchingCalls, BankStep(c) \/ AbortMatching(c) PROVE Goal
  <2> c \in Calls /\ Of(c) \in Recons
    BY DEF Of, Tasks
  <2>1. CASE ReadLines(c)
    <3>1. pc[c] = "begun" /\ taken' = taken /\ pc' = [pc EXCEPT ![c] = "read"]
      BY <2>1 DEF ReadLines
    <3> DEFINE read == LinesOf(IF task[c].do = "autoMatch" THEN Free ELSE Of(c))
    <3>2. /\ task[c].do \in {"autoMatch", "complete"}
          /\ seen' = [seen EXCEPT ![c] = read]
      BY <2>1 DEF ReadLines
    <3>3. read \in SUBSET Lines
      BY DEF LinesOf
    <3> HIDE DEF read
    <3>4. /\ seen' \in [Calls -> SUBSET Lines]
          /\ \A d \in Calls \ {c} : seen'[d] = seen[d]
          /\ task[c].do \in {"autoMatch", "complete"}
      BY <3>2, <3>3
    <3>5. \A d \in Calls : taken[d] \subseteq seen'[d]
      BY <3>1, <3>4
    <3>6. QED
      BY <2>1, <3>1, <3>4, <3>5 DEF ReadLines
  <2>2. CASE MatchTransaction(c)
    BY <2>2 DEF MatchTransaction, Candidates
  <2>3. CASE SkipTransaction(c)
    BY <2>3 DEF SkipTransaction
  <2>4. CASE CommitMatches(c)
    BY <2>4 DEF CommitMatches, Match, Record, Touched, Outdate
  <2>5. CASE ManualMatch(c) \/ ManualUnmatch(c)
    <3>1. PICK from \in {Free, Of(c)}, to \in {Free, Of(c)} : ManualUpdate(c, from, to)
      BY <2>5 DEF ManualMatch, ManualUnmatch
    <3>2. PICK L \in SUBSET LinesOf(from) :
            Match(L, to) /\ Record(c, L) /\ EndMatching(c, "done") /\ UNCHANGED reconciliation
      BY <3>1 DEF ManualUpdate
    <3>3. matched' \in [Lines -> Recons \cup {Free}] /\ suspect' \subseteq Recons
          /\ stale' \subseteq Calls
      BY <3>2 DEF Match, Record, Touched, Outdate, LinesOf
    <3>4. QED
      BY <3>2, <3>3
  <2>6. CASE Complete(c)
    BY <2>6 DEF Complete, Record, Touched, Outdate
  <2>7. CASE Refuse(c)
    BY <2>7
  <2>8. QED
    BY <1>3, <2>1, <2>2, <2>3, <2>4, <2>5, <2>6, <2>7
       DEF BankStep, AbortMatching, RefuseMismatch, MatchingDeadlock
<1>4. CASE UNCHANGED BankView
  BY <1>4 DEF BankView
<1>5. QED
  BY <1>1, <1>2, <1>3, <1>4 DEF BankNext

\* The amounts of lines do not change.
LEMMA TotalLater ==
  ASSUME NEW r \in Recons, LinesOf(r)' = LinesOf(r)
  PROVE  Total(LinesOf(r))' = Total(LinesOf(r))
  OBVIOUS

-----------------------------------------------------------------------------
(* A call writes the lines L or the status of its reconciliation, or       *)
(* neither.                                                                *)

\* What such a step of c does, whose own call ends.
BankWrites(c, L) ==
  /\ c \in Calls /\ L \subseteq Lines
  /\ \A l \in Lines \ L : matched'[l] = matched[l]
  /\ \A l \in L : matched'[l] \in {Of(c), Free}
  /\ \A r \in Recons \ {Of(c)} : reconciliation'[r] = reconciliation[r]
  /\ Record(c, L)
  /\ pc' = [pc EXCEPT ![c] = "done"]
  /\ UNCHANGED task
  /\ \A d \in Calls \ {c} : seen'[d] = seen[d]

\* Only calls it makes stale could have been misled.
LEMMA BankWriteKeepsFresh ==
  ASSUME BankInv, NEW c, NEW L, BankWrites(c, L)
  PROVE  BankReadsFresh'
<1> USE DEF BankInv, BankTypeOK
<1> SUFFICES ASSUME NEW d \in Calls \ stale', InFlight(d)'
             PROVE  /\ d # c /\ reconciliation'[Of(d)] = "Draft"
                    /\ pc[d] = "read" /\ task[d].do = "autoMatch" =>
                         seen[d] \subseteq LinesOf(Free)'
                    /\ pc[d] = "read" /\ task[d].do = "complete" => seen[d] = LinesOf(Of(d))'
  BY DEF BankReadsFresh, Of, LinesOf, BankWrites
<1>1. d # c /\ InFlight(d) /\ d \notin stale
  BY DEF BankWrites, InFlight, Ended, Record, Outdate
<1>2. Of(d) \notin Touched(c, L) /\ seen[d] \cap L = {}
  BY <1>1 DEF BankWrites, Record, Outdate
<1>3. Of(d) \in Recons /\ Of(d) # Of(c) /\ Of(d) # Free
  BY <1>2, BankAssumption DEF Touched, Of, Tasks
<1>4. reconciliation'[Of(d)] = "Draft"
  BY <1>1, <1>3 DEF BankReadsFresh, BankWrites
<1>5. ASSUME pc[d] = "read", task[d].do = "autoMatch" PROVE seen[d] \subseteq LinesOf(Free)'
  BY <1>1, <1>2, <1>5 DEF BankReadsFresh, BankWrites, LinesOf
<1>6. LinesOf(Of(d))' = LinesOf(Of(d))
  <2>1. \A l \in L : matched[l] # Of(d) /\ matched'[l] # Of(d)
    BY <1>2, <1>3 DEF Touched, BankWrites
  <2>2. QED
    BY <2>1 DEF LinesOf, BankWrites, Of
<1>7. QED
  BY <1>1, <1>4, <1>5, <1>6 DEF BankReadsFresh

\* Reconciliations it does not touch keep their status and their lines.
LEMMA WriteKeepsOthers ==
  ASSUME BankInv, NEW c, NEW L, BankWrites(c, L), NEW r \in Recons \ Touched(c, L)
  PROVE  reconciliation'[r] = reconciliation[r] /\ LinesOf(r)' = LinesOf(r)
<1>1. r # Of(c) /\ r # Free
  BY BankAssumption DEF Touched
<1>2. \A l \in L : matched[l] # r /\ matched'[l] # r
  BY <1>1 DEF Touched, BankWrites
<1>3. QED
  BY <1>1, <1>2 DEF BankWrites, LinesOf

\* A matching that is not stale takes free lines for a Draft, or frees its own.
LEMMA MatchKeepsBalances ==
  ASSUME BankInv, NEW c, NEW L, BankWrites(c, L), UNCHANGED reconciliation, InFlight(c),
         c \notin stale => \A l \in L : matched[l] \in {Free, Of(c)}
  PROVE  ReconciledBalances'
<1> SUFFICES ASSUME NEW r \in Recons, r \notin suspect', reconciliation[r] = "Reconciled"
             PROVE  Total(LinesOf(r))' = Difference[r]
  BY DEF ReconciledBalances
<1>1. r \notin suspect
  BY DEF BankWrites, Record
<1>2. r \notin Touched(c, L)
  <2>1. CASE c \in stale
    BY <2>1 DEF BankWrites, Record
  <2>2. CASE c \notin stale
    <3>1. reconciliation[Of(c)] = "Draft"
      BY <2>2 DEF BankInv, BankReadsFresh, BankWrites
    <3>2. Touched(c, L) \subseteq {Of(c)}
      BY <2>2 DEF Touched
    <3>3. QED
      BY <3>1, <3>2
  <2>3. QED
    BY <2>1, <2>2
<1>3. LinesOf(r)' = LinesOf(r)
  BY <1>2, WriteKeepsOthers
<1>4. QED
  BY <1>1, <1>3, TotalLater DEF BankInv, ReconciledBalances

\* A completion that is not stale has summed the lines there are.
LEMMA CompleteKeeps ==
  ASSUME BankInv, NEW c \in MatchingCalls, Complete(c)
  PROVE  BankReadsFresh' /\ ReconciledBalances'
<1> USE BankAssumption
<1>1. c \in Calls /\ Of(c) \in Recons /\ InFlight(c)
  BY DEF BankInv, BankTypeOK, Of, Tasks, Complete, InFlight, Ended
<1>2. BankWrites(c, {})
  BY <1>1 DEF BankWrites, Complete, EndMatching, Goto, BankInv, BankTypeOK
<1>3. ReconciledBalances'
  <2> SUFFICES ASSUME NEW r \in Recons, r \notin suspect', reconciliation'[r] = "Reconciled"
               PROVE  Total(LinesOf(r))' = Difference[r]
    BY DEF ReconciledBalances
  <2>1. LinesOf(r)' = LinesOf(r)
    BY DEF Complete, LinesOf
  <2>2. CASE r = Of(c)
    <3>1. c \notin stale
      BY <2>2 DEF Complete, Record, Touched
    <3>2. seen[c] = LinesOf(r)
      BY <1>1, <2>2, <3>1 DEF BankInv, BankReadsFresh, Complete
    <3>3. Total(seen[c]) = Difference[r]
      BY <2>2 DEF Complete
    <3>4. QED
      BY <2>1, <3>2, <3>3, TotalLater
  <2>3. CASE r # Of(c)
    <3>1. r \notin suspect /\ reconciliation[r] = "Reconciled"
      BY <2>3, <1>2 DEF Complete, Record, BankWrites
    <3>2. QED
      BY <2>1, <3>1, TotalLater DEF BankInv, ReconciledBalances
  <2>4. QED
    BY <2>2, <2>3
<1>4. QED
  BY <1>2, <1>3, BankWriteKeepsFresh

LEMMA CommitKeeps ==
  ASSUME BankInv, NEW c \in MatchingCalls, CommitMatches(c)
  PROVE  BankReadsFresh' /\ ReconciledBalances'
<1> USE BankAssumption
<1>1. c \in Calls /\ Of(c) \in Recons /\ InFlight(c)
  BY DEF BankInv, BankTypeOK, Of, Tasks, CommitMatches, InFlight, Ended
<1>2. BankWrites(c, taken[c])
  BY <1>1 DEF BankWrites, CommitMatches, Match, EndMatching, Goto, BankInv, BankTypeOK
<1>3. c \notin stale => \A l \in taken[c] : matched[l] \in {Free, Of(c)}
  BY <1>1 DEF BankInv, BankHolds, BankReadsFresh, CommitMatches, LinesOf
<1>4. UNCHANGED reconciliation
  BY DEF CommitMatches
<1>5. QED
  BY <1>1, <1>2, <1>3, <1>4, BankWriteKeepsFresh, MatchKeepsBalances

LEMMA ManualKeeps ==
  ASSUME BankInv, NEW c \in MatchingCalls, ManualMatch(c) \/ ManualUnmatch(c)
  PROVE  BankReadsFresh' /\ ReconciledBalances'
<1> USE BankAssumption
<1>1. c \in Calls /\ Of(c) \in Recons /\ InFlight(c)
  BY DEF BankInv, BankTypeOK, Of, Tasks, ManualMatch, ManualUnmatch, InFlight, Ended
<1>2. PICK from \in {Free, Of(c)}, to \in {Free, Of(c)} : ManualUpdate(c, from, to)
  BY DEF ManualMatch, ManualUnmatch
<1>3. PICK L \in SUBSET LinesOf(from) :
        Match(L, to) /\ Record(c, L) /\ EndMatching(c, "done") /\ UNCHANGED reconciliation
  BY <1>2 DEF ManualUpdate
<1>4. BankWrites(c, L)
  BY <1>1, <1>3 DEF BankWrites, Match, EndMatching, Goto, LinesOf, BankInv, BankTypeOK
<1>5. \A l \in L : matched[l] \in {Free, Of(c)}
  BY DEF LinesOf
<1>6. QED
  BY <1>1, <1>3, <1>4, <1>5, BankWriteKeepsFresh, MatchKeepsBalances

\* The other steps write neither lines nor a status that anybody has read.
LEMMA BankReadsKeep ==
  ASSUME BankInv, [BankNext]_BankView,
         \A c \in MatchingCalls :
           ~(Complete(c) \/ CommitMatches(c) \/ ManualMatch(c) \/ ManualUnmatch(c))
  PROVE  BankReadsFresh' /\ ReconciledBalances'
<1> USE BankAssumption DEF BankInv, BankTypeOK, Goto, EndMatching, Refuse, bankVars, bankTables,
        InFlight, Ended
<1> DEFINE Stays == /\ \A r \in Recons : LinesOf(r)' = LinesOf(r)
                    /\ UNCHANGED suspect
                    /\ \A r \in Recons :
                         reconciliation'[r] = "Reconciled" => reconciliation[r] = "Reconciled"
<1>1. ASSUME NEW r \in Recons, UploadStatement(r) PROVE BankReadsFresh' /\ Stays
  <2>1. \A d \in Calls : Of(d)' = Of(d) /\ LinesOf(Of(d))' = LinesOf(Of(d)) /\ Of(d) \in Recons
    BY <1>1 DEF UploadStatement, Of, LinesOf, Tasks
  <2>2. \A s \in Recons \cup {Free} : LinesOf(s)' = LinesOf(s)
    BY <1>1 DEF UploadStatement, LinesOf
  <2>3. QED
    BY <1>1, <2>1, <2>2 DEF UploadStatement, BankReadsFresh
<1>2. ASSUME NEW c \in MatchingCalls, NEW t \in Tasks, Begin(c, t) PROVE BankReadsFresh' /\ Stays
  <2>1. \A d \in Calls \ {c} : Of(d)' = Of(d) /\ LinesOf(Of(d))' = LinesOf(Of(d))
    BY <1>2 DEF Begin, Of, LinesOf
  <2>2. /\ \A s \in Recons \cup {Free} : LinesOf(s)' = LinesOf(s)
        /\ Of(c)' = t.recon /\ pc'[c] = "begun"
    BY <1>2 DEF Begin, LinesOf, Of
  <2>3. QED
    BY <1>2, <2>1, <2>2 DEF Begin, BankReadsFresh
<1>3. ASSUME NEW c \in MatchingCalls, BankStep(c) \/ AbortMatching(c) PROVE BankReadsFresh' /\ Stays
  <2> DEFINE Same == /\ UNCHANGED <<matched, reconciliation, task, stale, suspect>>
                     /\ \A d \in Calls : Of(d)' = Of(d) /\ LinesOf(Of(d))' = LinesOf(Of(d))
                     /\ \A s \in Recons \cup {Free} : LinesOf(s)' = LinesOf(s)
  <2>1. CASE ReadLines(c)
    <3>1. Same
      BY <2>1 DEF ReadLines, Of, LinesOf
    <3>2. QED
      BY <2>1, <3>1 DEF ReadLines, BankReadsFresh
  <2>2. CASE MatchTransaction(c) \/ SkipTransaction(c)
    <3>1. Same
      BY <2>2 DEF MatchTransaction, SkipTransaction, Of, LinesOf
    <3>2. QED
      BY <2>2, <3>1 DEF MatchTransaction, SkipTransaction, BankReadsFresh
  <2>3. CASE Refuse(c)
    <3>1. Same
      BY <2>3 DEF Of, LinesOf
    <3>2. QED
      BY <2>3, <3>1 DEF BankReadsFresh
  <2>4. QED
    BY <1>3, <2>1, <2>2, <2>3
       DEF BankStep, AbortMatching, RefuseMismatch, MatchingDeadlock
<1>4. ASSUME UNCHANGED BankView PROVE BankReadsFresh' /\ Stays
  <2>1. \A d \in Calls : Of(d)' = Of(d) /\ LinesOf(Of(d))' = LinesOf(Of(d))
    BY <1>4 DEF BankView, Of, LinesOf
  <2>2. \A s \in Recons \cup {Free} : LinesOf(s)' = LinesOf(s)
    BY <1>4 DEF BankView, LinesOf
  <2>3. QED
    BY <1>4, <2>1, <2>2 DEF BankView, BankReadsFresh
<1>5. BankReadsFresh' /\ Stays
  BY <1>1, <1>2, <1>3, <1>4 DEF BankNext
<1>6. ReconciledBalances'
  BY <1>5, TotalLater DEF ReconciledBalances
<1>7. QED
  BY <1>5, <1>6

-----------------------------------------------------------------------------

\* The invariant holds in every reachable state.
LEMMA BankInductive == BankInv /\ [BankNext]_BankView => BankInv'
  BY BankTypeInductive, BankReadsKeep, CompleteKeeps, CommitKeeps, ManualKeeps DEF BankInv

LEMMA BankInvariant == BankSpec => []BankInv
  BY BankInitInv, BankInductive, PTL DEF BankSpec, BankView

\* The columns and the calls of the reconciliation service hold values of
\* their types.
THEOREM BankTypeCorrect == BankSpec => []BankTypeOK
<1>1. BankInv => BankTypeOK
  BY DEF BankInv
<1>2. QED
  BY BankInvariant, <1>1, PTL

\* autoMatch, manualMatch, manualUnmatch and completeReconciliation
\* (bank-reconciliation.service.ts) leave a completed reconciliation with lines
\* that explain its balances, unless a call touched it that had overlapped a
\* write to what it read.
THEOREM CompletedIsBalanced == BankSpec => []ReconciledBalances
<1>1. BankInv => ReconciledBalances
  BY DEF BankInv
<1>2. QED
  BY BankInvariant, <1>1, PTL

(***************************************************************************)
(* Payroll                                                                 *)
(***************************************************************************)

PayrollView == <<payrollVars, pc, stale>>

\* Where each kind of call can stand, and that it has a run by then.
Stations ==
  \A c \in Calls :
    /\ pc[c] = "found" => /\ c \in Creators /\ target[c] \in Creators
                          /\ PeriodOf[target[c]] = PeriodOf[c]
    /\ pc[c] \in {"deciding", "event"} => c \in Deciders
    /\ pc[c] \in {"read", "accounts"} => c \in Deciders \cup Accruals
    /\ c \in Deciders /\ pc[c] # "idle" => target[c] \in Creators
    /\ c \in entries => pc[c] = "done"

\* tenantId and periodName are unique.
OneRunPerPeriod ==
  \A j, k \in Creators : Live(j) /\ Live(k) /\ PeriodOf[j] = PeriodOf[k] => j = k

\* A call that nobody has overtaken acts on what it has read.
Unposted(k) == Live(k) /\ runs[k] # "Approved"
PayrollReadsFresh ==
  \A c \in Calls \ stale :
    pc[c] = "found" \/ (c \in Deciders /\ pc[c] \in {"read", "accounts"}) => Unposted(target[c])

PayrollInv == PayrollTypeOK /\ Stations /\ OneRunPerPeriod /\ PayrollReadsFresh /\ SalariesPostedOnce

-----------------------------------------------------------------------------

LEMMA PayrollInitInv == PayrollInit => PayrollInv
  BY PayrollAssumption
     DEF PayrollInit, RequestsInit, PayrollInv, PayrollTypeOK, Stations, OneRunPerPeriod, PayrollReadsFresh,
         SalariesPostedOnce, Live, PayrollStatuses, RequestStatuses, PayrollPCs

\* One call acts; the rest stand where they stood.
LEMMA PayrollTypeInductive ==
  ASSUME PayrollTypeOK, Stations, [PayrollNext]_PayrollView
  PROVE  PayrollTypeOK'
<1> USE PayrollAssumption DEF PayrollTypeOK, Stations, PayrollStatuses, RequestStatuses, PayrollPCs,
        PayrollAccounts, EosbAccounts, Goto, Give, GiveUp, payrollVars, payrollTables
<1>1. ASSUME NEW d \in Deciders, NEW k \in Creators, NEW v \in {"approve", "reject"},
             ReadRequest(d, k, v) \/ ApproveDirectly(d, k)
      PROVE  PayrollTypeOK'
  BY <1>1 DEF ReadRequest, ApproveDirectly
<1>2. ASSUME NEW c \in Creators, FindRun(c) PROVE PayrollTypeOK'
  BY <1>2 DEF FindRun, RunsOf
<1>3. ASSUME NEW d \in Accruals, StartAccrual(d) PROVE PayrollTypeOK'
  BY <1>3 DEF StartAccrual
<1>4. ASSUME NEW c \in Creators \cup Deciders \cup Accruals, PayrollStep(c) \/ AbortPayroll(c)
      PROVE  PayrollTypeOK'
  <2> c \in Calls
    OBVIOUS
  <2>1. CASE DeleteRun(c)
    BY <2>1 DEF DeleteRun, Write, Outdate
  <2>2. CASE CreateRun(c)
    BY <2>2 DEF CreateRun, Write, Outdate
  <2>3. CASE Decide(c)
    BY <2>3 DEF Decide
  <2>4. CASE HandleRejection(c)
    BY <2>4 DEF HandleRejection, Outdate
  <2>5. CASE PostSalaries(c)
    BY <2>5 DEF PostSalaries, Write, Outdate
  <2>6. CASE PostAccrual(c)
    BY <2>6 DEF PostAccrual
  <2>7. CASE HandleApproval(c)
    BY <2>7 DEF HandleApproval
  <2>8. CASE FindAccounts(c)
    BY <2>8 DEF FindAccounts
  <2>9. CASE CreateAccount(c)
    BY <2>9 DEF CreateAccount
  <2>10. CASE GiveUp(c)
    BY <2>10
  <2>11. QED
    BY <1>4, <2>1, <2>2, <2>3, <2>4, <2>5, <2>6, <2>7, <2>8, <2>9, <2>10
       DEF PayrollStep, AbortPayroll, DeleteFails, RefusePayslips, CreateFails, RejectionFails,
           RefuseApproval, AccountExists, PostingFails
<1>5. CASE UNCHANGED PayrollView
  BY <1>5 DEF PayrollView
<1>6. QED
  BY <1>1, <1>2, <1>3, <1>4, <1>5 DEF PayrollNext

\* The steps of the other calls change none of what Stations says of a call.
LEMMA StationsInductive ==
  ASSUME PayrollTypeOK, Stations, [PayrollNext]_PayrollView
  PROVE  Stations'
<1> USE PayrollAssumption DEF PayrollTypeOK, Stations, Goto, Give, GiveUp, payrollVars, payrollTables
<1>1. ASSUME NEW d \in Deciders, NEW k \in Creators, NEW v \in {"approve", "reject"},
             ReadRequest(d, k, v) \/ ApproveDirectly(d, k)
      PROVE  Stations'
  BY <1>1 DEF ReadRequest, ApproveDirectly
<1>2. ASSUME NEW c \in Creators, FindRun(c) PROVE Stations'
  BY <1>2 DEF FindRun, RunsOf
<1>3. ASSUME NEW d \in Accruals, StartAccrual(d) PROVE Stations'
  BY <1>3 DEF StartAccrual
<1>4. ASSUME NEW c \in Creators \cup Deciders \cup Accruals, PayrollStep(c) \/ AbortPayroll(c)
      PROVE  Stations'
  <2> c \in Calls
    OBVIOUS
  <2>1. CASE DeleteRun(c)
    BY <2>1 DEF DeleteRun
  <2>2. CASE CreateRun(c)
    BY <2>2 DEF CreateRun
  <2>3. CASE Decide(c)
    BY <2>3 DEF Decide
  <2>4. CASE HandleRejection(c)
    BY <2>4 DEF HandleRejection
  <2>5. CASE PostSalaries(c)
    BY <2>5 DEF PostSalaries
  <2>6. CASE PostAccrual(c)
    BY <2>6 DEF PostAccrual
  <2>7. CASE HandleApproval(c)
    BY <2>7 DEF HandleApproval
  <2>8. CASE FindAccounts(c)
    BY <2>8 DEF FindAccounts
  <2>9. CASE CreateAccount(c)
    BY <2>9 DEF CreateAccount
  <2>10. CASE GiveUp(c) /\ pc[c] \notin {"idle", "done"}
    BY <2>10
  <2>11. QED
    BY <1>4, <2>1, <2>2, <2>3, <2>4, <2>5, <2>6, <2>7, <2>8, <2>9, <2>10
       DEF PayrollStep, AbortPayroll, DeleteFails, RefusePayslips, CreateFails, RejectionFails,
           RefuseApproval, AccountExists, PostingFails, InFlight, Ended
<1>5. CASE UNCHANGED PayrollView
  BY <1>5 DEF PayrollView
<1>6. QED
  BY <1>1, <1>2, <1>3, <1>4, <1>5 DEF PayrollNext

-----------------------------------------------------------------------------
(* Four steps write runs.  Whatever else a step does, it leaves the tables *)
(* alone, posts no salaries, and tells nobody that he is fresh who is not. *)

\* What a step that writes no run does to the rest.
Quiet ==
  /\ UNCHANGED <<runs, amiss>>
  /\ entries' \cap Deciders = entries \cap Deciders
  /\ \A d \in entries \cap Deciders : target'[d] = target[d]
  /\ \A c \in Calls \ stale' :
       pc'[c] = "found" \/ (c \in Deciders /\ pc'[c] \in {"read", "accounts"}) =>
         \/ Unposted(target'[c])
         \/ /\ c \notin stale /\ target'[c] = target[c]
            /\ pc[c] = "found" \/ (c \in Deciders /\ pc[c] \in {"read", "accounts"})

\* What a step of c in period p does that writes run k.
PayrollWrites(c, k, p) ==
  /\ c \in Calls /\ k \in Creators /\ PeriodOf[k] = p
  /\ \A j \in Creators \ {k} : runs'[j] = runs[j]
  /\ stale' = stale \cup {d \in Calls \ {c} : InFlight(d) /\ p \in About(d)}
  /\ amiss \subseteq amiss'
  /\ UNCHANGED target
  /\ pc' \in [Calls -> PayrollPCs] /\ pc'[c] \in {"cleared", "done"}
  /\ \A d \in Calls \ {c} : pc'[d] = pc[d]

LEMMA QuietKeeps ==
  ASSUME PayrollInv, Quiet
  PROVE  OneRunPerPeriod' /\ PayrollReadsFresh' /\ SalariesPostedOnce'
<1> USE PayrollAssumption DEF PayrollInv, Quiet, Live
<1>1. OneRunPerPeriod'
  BY DEF OneRunPerPeriod
<1>2. PayrollReadsFresh'
  BY DEF PayrollReadsFresh, Unposted
<1>3. SalariesPostedOnce'
  BY DEF SalariesPostedOnce
<1>4. QED
  BY <1>1, <1>2, <1>3

\* All but the four steps are quiet.
LEMMA QuietSteps ==
  ASSUME PayrollInv, [PayrollNext]_PayrollView
  PROVE  \/ Quiet
         \/ \E c \in Creators : DeleteRun(c) \/ CreateRun(c)
         \/ \E d \in Deciders : HandleRejection(d) \/ PostSalaries(d)
<1> USE PayrollAssumption DEF PayrollInv, PayrollTypeOK, Stations, Quiet, Goto, Give, GiveUp,
        payrollVars, payrollTables
<1>1. ASSUME NEW d \in Deciders, NEW k \in Creators, NEW v \in {"approve", "reject"},
             ReadRequest(d, k, v)
      PROVE  Quiet
  BY <1>1 DEF ReadRequest
<1>2. ASSUME NEW d \in Deciders, NEW k \in Creators, ApproveDirectly(d, k) PROVE Quiet
  BY <1>2 DEF ApproveDirectly, Approvable, Unposted, Live
<1>3. ASSUME NEW c \in Creators, FindRun(c) PROVE Quiet
  BY <1>3 DEF FindRun, RunsOf, Unposted
<1>4. ASSUME NEW d \in Accruals, StartAccrual(d) PROVE Quiet
  BY <1>4 DEF StartAccrual
<1>5. ASSUME NEW c \in Creators \cup Deciders \cup Accruals, PayrollStep(c) \/ AbortPayroll(c)
      PROVE  \/ Quiet \/ DeleteRun(c) \/ (c \in Creators /\ CreateRun(c))
             \/ HandleRejection(c) \/ PostSalaries(c)
  <2> c \in Calls
    OBVIOUS
  <2>1. CASE Decide(c)
    BY <2>1 DEF Decide
  <2>2. CASE PostAccrual(c)
    BY <2>2 DEF PostAccrual
  <2>3. CASE HandleApproval(c)
    BY <2>3 DEF HandleApproval, Approvable, Unposted, Live
  <2>4. CASE FindAccounts(c)
    BY <2>4 DEF FindAccounts
  <2>5. CASE CreateAccount(c)
    BY <2>5 DEF CreateAccount
  <2>6. CASE GiveUp(c)
    BY <2>6
  <2>7. QED
    BY <1>5, <2>1, <2>2, <2>3, <2>4, <2>5, <2>6
       DEF PayrollStep, AbortPayroll, DeleteFails, RefusePayslips, CreateFails, RejectionFails,
           RefuseApproval, AccountExists, PostingFails, CreateRun
<1>6. CASE UNCHANGED PayrollView
  BY <1>6 DEF PayrollView
<1>7. QED
  BY <1>1, <1>2, <1>3, <1>4, <1>5, <1>6 DEF PayrollNext, DeleteRun, HandleRejection, PostSalaries

\* A write makes everybody stale who is concerned, so the fresh stay right.
LEMMA PayrollWriteKeepsFresh ==
  ASSUME PayrollInv, NEW c, NEW k, NEW p, PayrollWrites(c, k, p)
  PROVE  PayrollReadsFresh'
<1> SUFFICES ASSUME NEW d \in Calls \ stale',
                    pc'[d] = "found" \/ (d \in Deciders /\ pc'[d] \in {"read", "accounts"})
             PROVE  runs'[target[d]] \notin {"Absent", "Approved"}
  BY DEF PayrollReadsFresh, Unposted, Live, PayrollWrites
<1> USE PayrollAssumption DEF PayrollInv, PayrollWrites
<1>1. d # c /\ pc'[d] = pc[d] /\ target'[d] = target[d] /\ d \notin stale /\ InFlight(d)
  BY DEF InFlight, Ended
<1>2. target[d] \in Creators /\ About(d) = {PeriodOf[target[d]]}
  BY <1>1 DEF Stations, About
<1>3. target[d] # k
  BY <1>1, <1>2
<1>4. Unposted(target[d])
  BY <1>1 DEF PayrollReadsFresh
<1>5. QED
  BY <1>1, <1>2, <1>3, <1>4 DEF Unposted, Live

\* A write to a run that is not the posted one of its period, or that is
\* noted as amiss, disturbs no posted salaries.
LEMMA WriteKeepsPosted ==
  ASSUME PayrollInv, NEW c, NEW k, NEW p, PayrollWrites(c, k, p), entries' = entries,
         p \in amiss' \/ runs[k] # "Approved"
  PROVE  SalariesPostedOnce'
<1> USE PayrollAssumption DEF PayrollInv, PayrollWrites
<1> SUFFICES ASSUME NEW d \in entries \cap Deciders, PeriodOf[target[d]] \notin amiss'
             PROVE  /\ runs'[target[d]] = "Approved"
                    /\ \A e \in entries \cap Deciders :
                         PeriodOf[target[e]] = PeriodOf[target[d]] => e = d
  BY DEF SalariesPostedOnce
<1>1. d \in Calls /\ target[d] \in Creators
  BY DEF Stations
<1>2. /\ runs[target[d]] = "Approved"
      /\ \A e \in entries \cap Deciders : PeriodOf[target[e]] = PeriodOf[target[d]] => e = d
  BY DEF SalariesPostedOnce
<1>3. target[d] # k
  BY <1>1, <1>2
<1>4. QED
  BY <1>1, <1>2, <1>3

LEMMA DeleteKeeps ==
  ASSUME PayrollInv, NEW c \in Creators, DeleteRun(c)
  PROVE  OneRunPerPeriod' /\ PayrollReadsFresh' /\ SalariesPostedOnce'
<1> USE PayrollAssumption DEF PayrollInv, PayrollTypeOK
<1> DEFINE k == target[c]
<1>1. k \in Creators /\ PeriodOf[k] = PeriodOf[c] /\ c \in Calls
  BY DEF DeleteRun, Stations
<1>2. PayrollWrites(c, k, PeriodOf[c])
  BY <1>1 DEF PayrollWrites, DeleteRun, Write, Outdate, Goto, PayrollPCs
<1>3. c \in stale \/ runs[k] # "Approved"
  BY <1>1 DEF DeleteRun, PayrollReadsFresh, Unposted
<1>4. entries' = entries /\ (c \in stale => PeriodOf[c] \in amiss')
  BY DEF DeleteRun, Write
<1>5. OneRunPerPeriod'
  BY <1>1 DEF OneRunPerPeriod, DeleteRun, Live
<1>6. SalariesPostedOnce'
  BY <1>2, <1>3, <1>4, WriteKeepsPosted
<1>7. QED
  BY <1>2, <1>5, <1>6, PayrollWriteKeepsFresh

LEMMA CreateKeeps ==
  ASSUME PayrollInv, NEW c \in Creators, CreateRun(c)
  PROVE  OneRunPerPeriod' /\ PayrollReadsFresh' /\ SalariesPostedOnce'
<1> USE PayrollAssumption DEF PayrollInv, PayrollTypeOK
<1>1. PayrollWrites(c, c, PeriodOf[c])
  BY DEF PayrollWrites, CreateRun, Write, Outdate, Give, Goto, PayrollPCs
<1>2. runs[c] # "Approved" /\ entries' = entries
  BY DEF CreateRun, RunsOf, Live
<1>3. OneRunPerPeriod'
  BY DEF OneRunPerPeriod, CreateRun, RunsOf, Live
<1>4. SalariesPostedOnce'
  BY <1>1, <1>2, WriteKeepsPosted
<1>5. QED
  BY <1>1, <1>3, <1>4, PayrollWriteKeepsFresh

LEMMA RejectionKeeps ==
  ASSUME PayrollInv, NEW d \in Deciders, HandleRejection(d)
  PROVE  OneRunPerPeriod' /\ PayrollReadsFresh' /\ SalariesPostedOnce'
<1> USE PayrollAssumption DEF PayrollInv, PayrollTypeOK
<1> DEFINE k == target[d]
<1>1. k \in Creators /\ d \in Calls
  BY DEF HandleRejection, Stations
<1>2. PayrollWrites(d, k, PeriodOf[k])
  BY <1>1 DEF PayrollWrites, HandleRejection, Outdate, Give, Goto, PayrollPCs
<1>3. entries' = entries /\ (runs[k] = "Approved" => PeriodOf[k] \in amiss')
  BY DEF HandleRejection
<1>4. OneRunPerPeriod'
  BY <1>1 DEF OneRunPerPeriod, HandleRejection, Live
<1>5. SalariesPostedOnce'
  BY <1>2, <1>3, WriteKeepsPosted
<1>6. QED
  BY <1>2, <1>4, <1>5, PayrollWriteKeepsFresh

\* A fresh approval finds its run unposted; as the run is the only one of the
\* period, no salaries of the period are posted.
LEMMA PostingKeeps ==
  ASSUME PayrollInv, NEW d \in Deciders, PostSalaries(d)
  PROVE  OneRunPerPeriod' /\ PayrollReadsFresh' /\ SalariesPostedOnce'
<1> USE PayrollAssumption DEF PayrollInv, PayrollTypeOK
<1> DEFINE k == target[d]
           p == PeriodOf[k]
<1>1. k \in Creators /\ d \in Calls /\ pc[d] = "accounts" /\ Live(k)
  BY DEF PostSalaries, Stations
<1>2. PayrollWrites(d, k, p)
  BY <1>1 DEF PayrollWrites, PostSalaries, Write, Outdate, Give, Goto, PayrollPCs
<1>3. OneRunPerPeriod'
  BY <1>1 DEF OneRunPerPeriod, PostSalaries, Live
<1>4. /\ runs'[k] = "Approved" /\ entries' = entries \cup {d} /\ target' = target
      /\ amiss \subseteq amiss' /\ (d \in stale => p \in amiss')
      /\ \A j \in Creators : runs[j] = "Approved" => runs'[j] = "Approved"
  BY <1>1 DEF PostSalaries, Write
<1>5. ASSUME p \notin amiss', NEW e \in entries \cap Deciders PROVE PeriodOf[target[e]] # p
  <2>1. e \in Calls /\ target[e] \in Creators
    BY DEF Stations
  <2>2. runs[k] # "Approved"
    BY <1>1, <1>4, <1>5 DEF PayrollReadsFresh, Unposted
  <2>3. CASE PeriodOf[target[e]] = p
    <3>1. runs[target[e]] = "Approved"
      BY <1>4, <1>5, <2>3 DEF SalariesPostedOnce
    <3>2. target[e] = k
      BY <1>1, <2>1, <2>3, <3>1 DEF OneRunPerPeriod, Live
    <3>3. QED
      BY <2>2, <3>1, <3>2
  <2>4. QED
    BY <2>3
<1>6. SalariesPostedOnce'
  <2> SUFFICES ASSUME NEW e \in entries' \cap Deciders, PeriodOf[target[e]] \notin amiss'
               PROVE  /\ runs'[target[e]] = "Approved"
                      /\ \A f \in entries' \cap Deciders :
                           PeriodOf[target[f]] = PeriodOf[target[e]] => f = e
    BY <1>4 DEF SalariesPostedOnce
  <2>1. CASE e = d
    BY <1>4, <1>5, <2>1
  <2>2. CASE e # d
    <3>1. e \in entries \cap Deciders /\ target[e] \in Creators
      BY <1>4, <2>2 DEF Stations
    <3>2. runs[target[e]] = "Approved"
      BY <1>4, <3>1 DEF SalariesPostedOnce
    <3>3. ASSUME NEW f \in entries \cap Deciders, PeriodOf[target[f]] = PeriodOf[target[e]] PROVE f = e
      BY <1>4, <3>1, <3>3 DEF SalariesPostedOnce
    <3>4. PeriodOf[target[d]] # PeriodOf[target[e]]
      BY <1>5, <3>1
    <3>5. QED
      BY <1>4, <3>1, <3>2, <3>3, <3>4
  <2>3. QED
    BY <2>1, <2>2
<1>7. QED
  BY <1>2, <1>3, <1>6, PayrollWriteKeepsFresh

-----------------------------------------------------------------------------

\* The invariant holds in every reachable state.
LEMMA PayrollInductive == PayrollInv /\ [PayrollNext]_PayrollView => PayrollInv'
  BY PayrollTypeInductive, StationsInductive, QuietSteps, QuietKeeps, DeleteKeeps, CreateKeeps,
     RejectionKeeps, PostingKeeps DEF PayrollInv

LEMMA PayrollInvariant == PayrollSpec => []PayrollInv
  BY PayrollInitInv, PayrollInductive, PTL DEF PayrollSpec, PayrollView

\* The columns and the calls of PayrollService hold values of their types.
THEOREM PayrollTypeCorrect == PayrollSpec => []PayrollTypeOK
<1>1. PayrollInv => PayrollTypeOK
  BY DEF PayrollInv
<1>2. QED
  BY PayrollInvariant, <1>1, PTL

\* createPayrollRun, approvePayrollRun and the two event handlers
\* (payroll.service.ts 31-279) post the salaries of a period once, for any
\* periods, runs, decisions and accruals, unless a call acted on what another
\* had changed since it read it, or a posted run was rejected.
THEOREM PeriodsArePaidOnce == PayrollSpec => []SalariesPostedOnce
<1>1. PayrollInv => SalariesPostedOnce
  BY DEF PayrollInv
<1>2. QED
  BY PayrollInvariant, <1>1, PTL

(***************************************************************************)
(* Fixed assets                                                            *)
(***************************************************************************)

\* g holds the dates of the first n turns of the loop, from p on.
Turns(g, p, n) == g = [i \in 0..n |-> IF i = 0 THEN p ELSE NextMonth(g[i - 1])]

LEMMA TurnsExist ==
  ASSUME NEW p, NEW n \in Nat
  PROVE  \E g : Turns(g, p, n)
<1> DEFINE S == {m \in Nat : ~ \E g : Turns(g, p, m)}
<1> SUFFICES ASSUME S # {} PROVE FALSE
  OBVIOUS
<1>1. PICK m \in S : \A y \in S : m <= y
  BY SmallestNumber
<1>2. CASE m = 0
  <2>1. Turns([i \in 0..0 |-> p], p, 0)
    BY DEF Turns
  <2>2. QED
    BY <1>1, <1>2, <2>1
<1>3. CASE m # 0
  <2>1. m - 1 \in Nat /\ m - 1 \notin S
    BY <1>1, <1>3
  <2>2. PICK g : Turns(g, p, m - 1)
    BY <2>1
  <2> DEFINE h == [i \in 0..m |-> IF i = m THEN NextMonth(g[m - 1]) ELSE g[i]]
  <2>3. ASSUME NEW i \in 0..m PROVE h[i] = IF i = 0 THEN p ELSE NextMonth(h[i - 1])
    <3>1. CASE i = m
      BY <1>3, <3>1
    <3>2. CASE i # m
      <4>1. i \in 0..(m - 1) /\ (i # 0 => i - 1 \in 0..m /\ i - 1 # m)
        BY <3>2
      <4>2. g[i] = IF i = 0 THEN p ELSE NextMonth(g[i - 1])
        BY <2>2, <4>1 DEF Turns
      <4>3. QED
        BY <3>2, <4>1, <4>2
    <3>3. QED
      BY <3>1, <3>2
  <2>4. h = [i \in 0..m |-> IF i = 0 THEN p ELSE NextMonth(h[i - 1])]
    BY <2>3
  <2>5. QED
    BY <1>1, <2>4 DEF Turns
<1>4. QED
  BY <1>2, <1>3

LEMMA TurnsAgree ==
  ASSUME NEW p, NEW m \in Nat, NEW n \in Nat, NEW g, NEW h, Turns(g, p, m), Turns(h, p, n),
         NEW i \in Nat, i <= m, i <= n
  PROVE  g[i] = h[i]
<1> DEFINE S == {j \in Nat : j <= m /\ j <= n /\ g[j] # h[j]}
<1> SUFFICES ASSUME S # {} PROVE FALSE
  OBVIOUS
<1>1. PICK j \in S : \A y \in S : j <= y
  BY SmallestNumber
<1>2. j \in 0..m /\ j \in 0..n
  BY <1>1
<1>3. /\ g[j] = IF j = 0 THEN p ELSE NextMonth(g[j - 1])
      /\ h[j] = IF j = 0 THEN p ELSE NextMonth(h[j - 1])
  BY <1>2 DEF Turns
<1>4. j # 0 => j - 1 \in Nat /\ j - 1 <= m /\ j - 1 <= n /\ j - 1 \notin S
  BY <1>1, <1>2
<1>5. QED
  BY <1>1, <1>3, <1>4

\* The recursion of generateSchedule has a value for every turn.
LEMMA CurrentMonthIs ==
  ASSUME NEW a, NEW n \in Nat
  PROVE  CurrentMonth(a)[n] = IF n = 0 THEN Purchased[a] ELSE NextMonth(CurrentMonth(a)[n - 1])
<1> DEFINE p == Purchased[a]
           g(m) == CHOOSE x : Turns(x, p, m)
           f == [m \in Nat |-> g(m)[m]]
<1>1. ASSUME NEW m \in Nat PROVE Turns(g(m), p, m)
  BY TurnsExist
<1> HIDE DEF g
<1>2. ASSUME NEW m \in Nat PROVE f[m] = IF m = 0 THEN p ELSE NextMonth(f[m - 1])
  <2>1. g(m)[m] = IF m = 0 THEN p ELSE NextMonth(g(m)[m - 1])
    BY <1>1 DEF Turns
  <2>2. m # 0 => m - 1 \in Nat /\ g(m)[m - 1] = g(m - 1)[m - 1]
    BY <1>1, TurnsAgree
  <2>3. QED
    BY <2>1, <2>2
<1>3. f = [m \in Nat |-> IF m = 0 THEN p ELSE NextMonth(f[m - 1])]
  BY <1>2
<1>4. CurrentMonth(a) = CHOOSE x : x = [m \in Nat |-> IF m = 0 THEN p ELSE NextMonth(x[m - 1])]
  BY DEF CurrentMonth
<1> HIDE DEF f, p
<1>5. CurrentMonth(a) = [m \in Nat |-> IF m = 0 THEN p ELSE NextMonth(CurrentMonth(a)[m - 1])]
  BY <1>3, <1>4
<1>6. QED
  BY <1>5 DEF p

\* What generateSchedule counts through is a date.
Dated(d) == d = [month |-> d.month, day |-> d.day] /\ d.month \in Nat

LEMMA LaterMonth ==
  ASSUME NEW d, Dated(d)
  PROVE  Dated(NextMonth(d)) /\ NextMonth(d).month > d.month
<1>1. CASE d.day <= DaysIn[d.month + 1]
  <2>1. NextMonth(d) = [month |-> d.month + 1, day |-> d.day]
    BY <1>1 DEF NextMonth, Dated
  <2>2. QED
    BY <2>1 DEF Dated
<1>2. CASE ~(d.day <= DaysIn[d.month + 1])
  <2>1. NextMonth(d) = [month |-> d.month + 2, day |-> d.day - DaysIn[d.month + 1]]
    BY <1>2 DEF NextMonth
  <2>2. QED
    BY <2>1 DEF Dated
<1>3. QED
  BY <1>1, <1>2

LEMMA TurnsAreDated ==
  ASSUME NEW a \in Assets, NEW n \in Nat
  PROVE  Dated(CurrentMonth(a)[n])
<1> DEFINE S == {m \in Nat : ~Dated(CurrentMonth(a)[m])}
<1> SUFFICES ASSUME S # {} PROVE FALSE
  OBVIOUS
<1>1. PICK m \in S : \A y \in S : m <= y
  BY SmallestNumber
<1>2. m \in Nat /\ ~Dated(CurrentMonth(a)[m])
  OBVIOUS
<1>3. CASE m = 0
  <2>1. CurrentMonth(a)[m] = Purchased[a]
    BY <1>3, CurrentMonthIs
  <2>2. Dated(Purchased[a])
    BY AssetsAssumption DEF Dated, Date
  <2>3. QED
    BY <1>2, <2>1, <2>2
<1>4. CASE m # 0
  <2>1. m - 1 \in Nat /\ m - 1 \notin S
    BY <1>1, <1>4
  <2>2. Dated(CurrentMonth(a)[m - 1])
    BY <2>1
  <2>3. CurrentMonth(a)[m] = NextMonth(CurrentMonth(a)[m - 1])
    BY <1>2, <1>4, CurrentMonthIs
  <2>4. QED
    BY <1>2, <2>2, <2>3, LaterMonth
<1>5. QED
  BY <1>3, <1>4

\* Instalments fall due in months of their own.
LEMMA MonthsIncrease ==
  ASSUME NEW a \in Assets, NEW i \in Nat, NEW j \in Nat, i < j
  PROVE  CurrentMonth(a)[i].month < CurrentMonth(a)[j].month
<1> DEFINE month(m) == CurrentMonth(a)[m].month
           S == {m \in Nat : i < m /\ ~(month(i) < month(m))}
<1> SUFFICES ASSUME S # {} PROVE FALSE
  OBVIOUS
<1>1. PICK m \in S : \A y \in S : m <= y
  BY SmallestNumber
<1>2. m \in Nat /\ m - 1 \in Nat /\ i < m /\ ~(month(i) < month(m)) /\ m - 1 \notin S
  BY <1>1
<1>3. month(i) \in Nat /\ month(m - 1) \in Nat /\ month(m) \in Nat
  BY <1>2, TurnsAreDated DEF Dated
<1>4. month(m) > month(m - 1)
  <2>1. CurrentMonth(a)[m] = NextMonth(CurrentMonth(a)[m - 1])
    BY <1>2, CurrentMonthIs
  <2>2. Dated(CurrentMonth(a)[m - 1])
    BY <1>2, TurnsAreDated
  <2>3. QED
    BY <2>1, <2>2, LaterMonth
<1> HIDE DEF month
<1>5. CASE m - 1 = i
  BY <1>2, <1>4, <1>5
<1>6. CASE m - 1 # i
  <2>1. month(i) < month(m - 1)
    BY <1>2, <1>6
  <2>2. QED
    BY <1>2, <1>3, <1>4, <2>1
<1>7. QED
  BY <1>5, <1>6

LEMMA RowsOfAsset ==
  ASSUME NEW r \in AllRows
  PROVE  r.asset \in Assets /\ r.number \in 1..Life[r.asset]
         /\ r = [asset |-> r.asset, number |-> r.number]
         /\ DueDate(r) = CurrentMonth(r.asset)[r.number]
<1>1. PICK a \in Assets : r \in Rows(a)
  BY DEF AllRows
<1>2. PICK i \in 1..Life[a] : r = [asset |-> a, number |-> i]
  BY <1>1 DEF Rows
<1>3. QED
  BY <1>2 DEF DueDate, DueDates

\* So the number of a row's entry is its own.
LEMMA NumbersDiffer ==
  ASSUME NEW r \in AllRows, NEW q \in AllRows, EntryNumberOf(r) = EntryNumberOf(q)
  PROVE  r = q
<1>1. r.asset = q.asset /\ DueDate(r).month = DueDate(q).month
  BY DEF EntryNumberOf
<1>2. /\ r.asset \in Assets /\ r.number \in Nat /\ q.number \in Nat
      /\ r = [asset |-> r.asset, number |-> r.number]
      /\ q = [asset |-> q.asset, number |-> q.number]
  BY RowsOfAsset, AssetsAssumption
<1>3. CurrentMonth(r.asset)[r.number].month = CurrentMonth(r.asset)[q.number].month
  BY <1>1, RowsOfAsset
<1>4. ~(r.number < q.number) /\ ~(q.number < r.number)
  <2>1. \A i, j \in Nat : i < j =>
          CurrentMonth(r.asset)[i].month < CurrentMonth(r.asset)[j].month
    BY <1>2, MonthsIncrease
  <2>2. \A i \in Nat : CurrentMonth(r.asset)[i].month \in Nat
    BY <1>2, TurnsAreDated DEF Dated
  <2>3. QED
    BY <1>2, <1>3, <2>1, <2>2
<1>5. QED
  BY <1>1, <1>2, <1>4

\* A row has been posted as often as its column says.
BookedAsPosted == \A r \in AllRows : book[r] = IF r \in posted THEN 1 ELSE 0

AssetsInv == AssetsTypeOK /\ BookedAsPosted
AssetsView == <<assetVars, pc, stale>>

LEMMA ScheduledRows == active \subseteq Assets => Scheduled \subseteq AllRows
  BY DEF Scheduled, AllRows

LEMMA AssetsInitInv == AssetsInit => AssetsInv
  BY DEF AssetsInit, RequestsInit, AssetsInv, AssetsTypeOK, BookedAsPosted, Scheduled

\* A row that is posted has not been posted yet.
LEMMA NumberIsFree ==
  ASSUME AssetsInv, NEW r \in AllRows
  PROVE  NumberUsed(r) <=> r \in posted
<1>1. NumberUsed(r) => book[r] > 0
  BY NumbersDiffer DEF NumberUsed
<1>2. book[r] > 0 => NumberUsed(r)
  BY DEF NumberUsed
<1>3. QED
  BY <1>1, <1>2 DEF AssetsInv, BookedAsPosted

LEMMA AssetsInductive == AssetsInv /\ [AssetsNext]_AssetsView => AssetsInv'
<1> SUFFICES ASSUME AssetsInv, [AssetsNext]_AssetsView PROVE AssetsInv'
  OBVIOUS
<1> USE AssetsAssumption DEF AssetsInv, AssetsTypeOK, BookedAsPosted, Goto, assetVars, assetTables
<1>1. ASSUME NEW a \in Assets, CreateAsset(a) PROVE AssetsInv'
  <2>1. Scheduled \subseteq Scheduled'
    BY <1>1 DEF CreateAsset, Scheduled
  <2>2. QED
    BY <1>1, <2>1 DEF CreateAsset
<1>2. ASSUME NEW c \in DepreciationCalls, NEW date \in AsOf, FindPending(c, date)
      PROVE  AssetsInv'
  <2>1. {r \in Scheduled \ posted : DueBy(r, date)} \in SUBSET Scheduled
    OBVIOUS
  <2>2. Scheduled' = Scheduled
    BY <1>2 DEF FindPending, Scheduled
  <2>3. QED
    BY <1>2, <2>1, <2>2 DEF FindPending
<1>3. ASSUME NEW c \in DepreciationCalls, PostRow(c) PROVE AssetsInv'
  <2>1. PICK r \in pending[c] :
          /\ ~NumberUsed(r)
          /\ book' = [book EXCEPT ![r] = @ + 1]
          /\ posted' = posted \cup {r}
          /\ pending' = [pending EXCEPT ![c] = @ \ {r}]
    BY <1>3 DEF PostRow
  <2>2. r \in Scheduled /\ r \in AllRows
    BY ScheduledRows
  <2>3. book[r] = 0
    BY <2>1, <2>2, NumberIsFree
  <2>4. Scheduled' = Scheduled
    BY <1>3 DEF PostRow, Scheduled
  <2>5. book' = [book EXCEPT ![r] = 1]
    BY <2>1, <2>3
  <2>6. BookedAsPosted'
    BY <2>1, <2>2, <2>5
  <2>7. AssetsTypeOK'
    BY <1>3, <2>1, <2>2, <2>4, <2>5 DEF PostRow
  <2>8. QED
    BY <2>6, <2>7
<1>4. ASSUME NEW c \in DepreciationCalls, NumberTaken(c) \/ FinishRun(c) \/ AbortRun(c)
      PROVE  AssetsInv'
  <2>1. Scheduled' = Scheduled
    BY <1>4 DEF NumberTaken, FinishRun, AbortRun, StopPosting, Scheduled
  <2>2. QED
    BY <1>4, <2>1 DEF NumberTaken, FinishRun, AbortRun, StopPosting
<1>5. CASE UNCHANGED AssetsView
  <2>1. Scheduled' = Scheduled
    BY <1>5 DEF AssetsView, Scheduled
  <2>2. QED
    BY <1>5, <2>1 DEF AssetsView
<1>6. QED
  BY <1>1, <1>2, <1>3, <1>4, <1>5 DEF AssetsNext, AssetsStep

LEMMA AssetsInvariant == AssetsSpec => []AssetsInv
  BY AssetsInitInv, AssetsInductive, PTL DEF AssetsSpec, AssetsView

\* The columns and the calls of FixedAssetsService hold values of their types.
THEOREM AssetsTypeCorrect == AssetsSpec => []AssetsTypeOK
<1>1. AssetsInv => AssetsTypeOK
  BY DEF AssetsInv
<1>2. QED
  BY AssetsInvariant, <1>1, PTL

\* runMonthlyDepreciation posts a row once, whatever the schedules and however
\* runs overlap, fail half-way and are repeated: the numbers of the entries,
\* made from the months in which instalments fall due, are their rows' own.
THEOREM RowsArePostedOnce == AssetsSpec => []DepreciationPostedOnce
<1>1. AssetsInv => DepreciationPostedOnce
  BY NumberIsFree DEF AssetsInv, BookedAsPosted, DepreciationPostedOnce
<1>2. QED
  BY AssetsInvariant, <1>1, PTL

\* The instalments of an asset whose months are worth half a cent and more.
LEMMA TimesAtMost ==
  ASSUME NEW k \in Nat, k > 0, NEW x \in Int, NEW y \in Int, k * x <= k * y
  PROVE  x <= y
<1> SUFFICES ASSUME x - y - 1 \in Nat PROVE FALSE
  OBVIOUS
<1>1. k * (x - y - 1) \in Nat
  OBVIOUS
<1>2. k * (x - y - 1) = k * x - k * y - k /\ k * x \in Int /\ k * y \in Int
  OBVIOUS
<1>3. QED
  BY <1>1, <1>2

LEMMA MonthlyAtMost ==
  ASSUME NEW p \in Nat, NEW n \in Nat, n > 0, 2 * p >= n * (n - 1)
  PROVE  Monthly(p, n) \in Nat /\ (n - 1) * Monthly(p, n) <= p
<1> DEFINE m == Monthly(p, n)
<1>1. m \in Nat /\ (2 * n) * m <= 2 * p + n
  <2>1. 2 * p + n \in Nat /\ 2 * n \in Nat /\ 2 * n > 0
    OBVIOUS
  <2>2. QED
    BY <2>1, QuotientIs DEF Monthly
<1> HIDE DEF m
<1>2. (n - 1) * ((2 * n) * m) <= (n - 1) * (2 * p + n)
  <2> DEFINE d == 2 * p + n - (2 * n) * m
  <2>1. (2 * n) * m \in Int
    BY <1>1
  <2>2. d \in Nat /\ n - 1 \in Nat
    BY <1>1, <2>1
  <2>3. (n - 1) * d \in Nat
    BY <2>2
  <2>4. (n - 1) * d = (n - 1) * (2 * p + n) - (n - 1) * ((2 * n) * m)
    BY <2>1
  <2>5. (n - 1) * (2 * p + n) \in Int /\ (n - 1) * ((2 * n) * m) \in Int
    BY <2>1
  <2> HIDE DEF d
  <2>6. QED
    BY <2>3, <2>4, <2>5
<1>3. (n - 1) * ((2 * n) * m) = (2 * n) * ((n - 1) * m)
  BY <1>1
<1>4. (n - 1) * (2 * p + n) = (2 * n) * p - 2 * p + n * (n - 1)
  OBVIOUS
<1>5. (2 * n) * ((n - 1) * m) <= (2 * n) * p
  <2> DEFINE A == (2 * n) * ((n - 1) * m)
             B == (n - 1) * (2 * p + n)
             C == (2 * n) * p
             D == n * (n - 1)
  <2>1. A <= B /\ B = C - 2 * p + D
    BY <1>2, <1>3, <1>4
  <2>2. C \in Int /\ D \in Int /\ A \in Int /\ 2 * p >= D
    BY <1>1
  <2> HIDE DEF A, B, C, D
  <2>3. A <= C
    BY <2>1, <2>2
  <2>4. QED
    BY <2>3 DEF A, C
<1>6. (n - 1) * m \in Int
  BY <1>1
<1>7. (n - 1) * m <= p
  BY <1>5, <1>6, TimesAtMost
<1>8. QED
  BY <1>1, <1>7 DEF m

\* The schedule has a row for each month.
LEMMA RowsAreMonths ==
  ASSUME NEW a \in Assets, Price[a] > 0
  PROVE  IsFiniteSet(Rows(a)) /\ Cardinality(Rows(a)) = Life[a]
<1> DEFINE n == Life[a]
           f == [i \in 1..n |-> [asset |-> a, number |-> i]]
<1>1. n \in Nat
  BY AssetsAssumption
<1>2. IsFiniteSet(1..n) /\ Cardinality(1..n) = n
  BY <1>1, FS_Interval
<1>3. Rows(a) = {[asset |-> a, number |-> i] : i \in 1..n}
  BY DEF Rows
<1>4. f \in Bijection(1..n, Rows(a))
  <2>1. f \in [1..n -> Rows(a)]
    BY <1>3
  <2>2. \A i, j \in 1..n : f[i] = f[j] => i = j
    <3>1. \A i \in 1..n : f[i].number = i
      OBVIOUS
    <3> HIDE DEF f
    <3>2. QED
      BY <3>1
  <2>3. \A r \in Rows(a) : \E i \in 1..n : f[i] = r
    BY <1>3
  <2> HIDE DEF f, n
  <2>4. QED
    BY <2>1, <2>2, <2>3 DEF Bijection, Injection, Surjection, IsInjective
<1>5. ExistsBijection(1..n, Rows(a))
  BY <1>4 DEF ExistsBijection
<1>6. QED
  BY <1>2, <1>5, FS_Bijection

\* All instalments together are what there is to depreciate.
LEMMA InstalmentsAddUp ==
  ASSUME NEW a \in Assets, Price[a] > 0, Life[a] > 0, 2 * Price[a] >= Life[a] * (Life[a] - 1),
         NEW f, \A r \in Rows(a) : f[r] = AmountOf(r)
  PROVE  /\ \A r \in Rows(a) : f[r] \in Nat
         /\ SumOver(f, Rows(a)) = Price[a]
<1> DEFINE p == Price[a]
           n == Life[a]
           m == Monthly(p, n)
           last == [asset |-> a, number |-> n]
           rest == Rows(a) \ {last}
<1>1. p \in Nat /\ n \in Nat /\ n > 0
  BY AssetsAssumption
<1>2. m \in Nat /\ (n - 1) * m <= p /\ (n - 1) * m \in Int
  BY <1>1, MonthlyAtMost
<1>3. last \in Rows(a)
  BY <1>1 DEF Rows
<1>4. f[last] = p - (n - 1) * m
  <2>1. last.asset = a /\ last.number = n
    OBVIOUS
  <2>2. AmountOf(last) = Instalment(p, n, n)
    BY <2>1, Zenon DEF AmountOf
  <2>3. QED
    BY <1>1, <1>3, <2>2 DEF Instalment
<1>5. ASSUME NEW r \in rest PROVE f[r] = m
  <2>1. PICK i \in 1..n : r = [asset |-> a, number |-> i]
    BY DEF Rows
  <2>2. i # n
    BY <2>1
  <2>3. r.asset = a /\ r.number = i /\ i < n
    BY <1>1, <2>1, <2>2
  <2>4. QED
    BY <2>3 DEF AmountOf, Instalment
<1>6. IsFiniteSet(Rows(a)) /\ Cardinality(Rows(a)) = n
  BY RowsAreMonths
<1>7. IsFiniteSet(rest) /\ Cardinality(rest) = n - 1
  BY <1>3, <1>6, OneLess
<1> HIDE DEF p, n, m, last, rest
<1>8. SumOver(f, rest) = m * (n - 1)
  BY <1>2, <1>5, <1>7, SumOfSame
<1>9. \A r \in Rows(a) : f[r] \in Nat
  BY <1>1, <1>2, <1>4, <1>5 DEF rest
<1>10. SumOver(f, Rows(a)) = f[last] + SumOver(f, rest)
  BY <1>3, <1>6, <1>9, SumWithout DEF rest
<1>11. m * (n - 1) = (n - 1) * m
  BY <1>1, <1>2
<1>12. SumOver(f, Rows(a)) = p
  BY <1>1, <1>2, <1>4, <1>8, <1>10, <1>11
<1>13. QED
  BY <1>9, <1>12 DEF p

\* runMonthlyDepreciation posts no more for an asset than there is to
\* depreciate, and in the end exactly that, for any price and life of which a
\* month's share is not too small for rounding.
THEOREM AssetsKeepSalvage == AssetsSpec => []BookValueAboveSalvage
<1>1. AssetsInv => BookValueAboveSalvage
  <2> SUFFICES ASSUME AssetsInv, NEW a \in active, 2 * Price[a] >= Life[a] * (Life[a] - 1),
                      Price[a] > 0, Life[a] > 0
               PROVE  LET total == SumOver([r \in Rows(a) |-> book[r] * AmountOf(r)], Rows(a))
                      IN  /\ total <= Price[a]
                          /\ Rows(a) \subseteq posted => total = Price[a]
    BY DEF BookValueAboveSalvage
  <2> DEFINE f == [r \in Rows(a) |-> AmountOf(r)]
             g == [r \in Rows(a) |-> book[r] * AmountOf(r)]
  <2>1. a \in Assets /\ \A r \in Rows(a) : book[r] = IF r \in posted THEN 1 ELSE 0
    BY DEF AssetsInv, AssetsTypeOK, BookedAsPosted, AllRows
  <2>2. \A r \in Rows(a) : f[r] = AmountOf(r)
    OBVIOUS
  <2>3. \A r \in Rows(a) : g[r] = book[r] * f[r]
    OBVIOUS
  <2> HIDE DEF f
  <2>4. (\A r \in Rows(a) : f[r] \in Nat) /\ SumOver(f, Rows(a)) = Price[a]
    BY <2>1, <2>2, InstalmentsAddUp
  <2>5. IsFiniteSet(Rows(a))
    BY <2>1, RowsAreMonths
  <2> HIDE DEF g
  <2>6. \A r \in Rows(a) : g[r] \in Int /\ f[r] \in Int /\ g[r] <= f[r]
    BY <2>1, <2>3, <2>4
  <2>7. SumOver(g, Rows(a)) <= Price[a]
    BY <2>4, <2>5, <2>6, SumAtMost
  <2>8. ASSUME Rows(a) \subseteq posted PROVE SumOver(g, Rows(a)) = Price[a]
    <3>1. \A r \in Rows(a) : g[r] \in Int /\ g[r] = f[r]
      BY <2>1, <2>3, <2>4, <2>8
    <3>2. QED
      BY <2>4, <2>5, <3>1, SumSame
  <2>9. QED
    BY <2>7, <2>8 DEF g
<1>2. QED
  BY AssetsInvariant, <1>1, PTL

(***************************************************************************)
(* End of service                                                          *)
(***************************************************************************)

EosbTyped ==
  /\ months \in 0..LastMonth /\ hired \in Hires /\ dated \in BOOLEAN
  /\ provision \in Nat /\ booked \in Nat /\ irregular \in Nat

LowerRate == Nearest(MonthlyWage, 24)
HigherRate == Nearest(MonthlyWage, 12)

\* What is to be put aside in m months of service: sixty months are five years
\* or a little more.
ToPutAside(m) ==
  IF dated /\ m >= 60
  THEN 59 * LowerRate + (m - 60) * HigherRate
         + (IF TimeServed[hired][60] <= 5 * Year THEN LowerRate ELSE HigherRate)
  ELSE m * LowerRate

\* While no accrual was left out or made twice, all are made but that of the
\* month that has begun.
PutAside ==
  irregular = 0 => \/ booked = 0 /\ months > 0 /\ provision = ToPutAside(months - 1)
                   \/ booked = 1 /\ provision = ToPutAside(months)

EosbInv == EosbTyped /\ PutAside

LEMMA EosbConstants ==
  /\ MonthlyWage \in Nat /\ LastMonth \in Nat /\ Drift \in Nat
  /\ Year \in Nat /\ Year > 0 /\ 12 * Drift < Year /\ Day \in Nat /\ Day > 0
  BY EosbAssumption

\* Rounding moves an amount by half a cent.
LEMMA NearestIs ==
  ASSUME NEW x \in Nat, NEW n \in Nat, n > 0
  PROVE  /\ Nearest(x, n) \in Nat /\ n * Nearest(x, n) \in Nat
         /\ 2 * (n * Nearest(x, n)) - 2 * x \in -n..n
<1> DEFINE e == 2 * x + n
           d == 2 * n
<1>1. e \in Nat /\ d \in Nat /\ d > 0
  OBVIOUS
<1>2. Nearest(x, n) = e \div d
  BY DEF Nearest
<1> HIDE DEF e, d
<1>3. e \div d \in Nat /\ d * (e \div d) <= e /\ e < d * (e \div d) + d
  BY <1>1, QuotientIs
<1> DEFINE q == e \div d
           k == n * q
<1>4. k \in Nat /\ d * q = 2 * k
  BY <1>3 DEF d
<1>5. 2 * k <= e /\ e < 2 * k + d
  BY <1>3, <1>4
<1> HIDE DEF k, q
<1>6. 2 * k - 2 * x \in -n..n
  BY <1>4, <1>5 DEF e, d
<1>7. QED
  BY <1>2, <1>3, <1>4, <1>6 DEF k, q

LEMMA NearestGrows ==
  ASSUME NEW x \in Nat, NEW y \in Nat, x <= y, NEW n \in Nat, n > 0
  PROVE  Nearest(x, n) <= Nearest(y, n)
<1> DEFINE p == Nearest(x, n)
           q == Nearest(y, n)
           d == 2 * n
<1>1. d \in Nat /\ d > 0 /\ 2 * x + n \in Nat /\ 2 * y + n \in Nat
  OBVIOUS
<1>2. p = (2 * x + n) \div d /\ q = (2 * y + n) \div d
  BY DEF Nearest
<1> HIDE DEF p, q, d
<1>3. p \in Nat /\ d * p <= 2 * x + n /\ q \in Nat /\ 2 * y + n < d * q + d
  BY <1>1, <1>2, QuotientIs
<1>4. ASSUME p > q PROVE FALSE
  <2>1. p - q - 1 \in Nat
    BY <1>3, <1>4
  <2>2. d * (p - q - 1) \in Nat /\ d * (p - q - 1) = d * p - d * q - d
    BY <1>1, <1>3, <2>1
  <2> DEFINE P == d * p
             Q == d * q
  <2>3. P \in Nat /\ Q \in Nat /\ P - Q - d \in Nat
    BY <1>1, <1>3, <2>2
  <2>4. P <= 2 * x + n /\ 2 * y + n < Q + d
    BY <1>3
  <2> HIDE DEF P, Q
  <2>5. QED
    BY <1>1, <2>3, <2>4
<1>5. QED
  BY <1>3, <1>4 DEF p, q

LEMMA NearestOfNone ==
  ASSUME NEW n \in Nat, n > 0
  PROVE  Nearest(0, n) = 0
<1> DEFINE q == Nearest(0, n)
<1>1. q \in Nat /\ n * q \in Nat /\ 2 * (n * q) \in -n..n
  BY NearestIs
<1>2. ASSUME q > 0 PROVE FALSE
  <2>1. n * (q - 1) \in Nat /\ n * (q - 1) = n * q - n
    BY <1>1, <1>2
  <2> DEFINE k == n * q
  <2>2. k \in Nat /\ k - n \in Nat /\ 2 * k <= n
    BY <1>1, <2>1
  <2> HIDE DEF k
  <2>3. QED
    BY <2>2
<1>3. QED
  BY <1>1, <1>2

LEMMA Scaled ==
  ASSUME NEW w \in Nat, NEW x \in Int, NEW l \in Int, NEW h \in Int, l <= x, x <= h
  PROVE  w * x \in Int /\ w * l \in Int /\ w * h \in Int /\ w * l <= w * x /\ w * x <= w * h
<1>1. w * (x - l) \in Nat /\ w * (h - x) \in Nat
  OBVIOUS
<1>2. w * (x - l) = w * x - w * l /\ w * (h - x) = w * h - w * x
  OBVIOUS
<1>3. w * x \in Int /\ w * l \in Int /\ w * h \in Int
  OBVIOUS
<1> DEFINE X == w * x
           L == w * l
           H == w * h
<1>4. X \in Int /\ L \in Int /\ H \in Int /\ X - L \in Nat /\ H - X \in Nat
  BY <1>1, <1>2, <1>3
<1> HIDE DEF X, L, H
<1>5. L <= X /\ X <= H
  BY <1>4
<1>6. QED
  BY <1>4, <1>5 DEF X, L, H

\* The rates are half the wage of a month and the whole of it, to half a cent.
LEMMA RatesAre ==
  /\ LowerRate \in Nat /\ 24 * LowerRate - MonthlyWage \in -12..12
  /\ HigherRate \in Nat /\ 24 * HigherRate - 2 * MonthlyWage \in -12..12
<1>1. LowerRate \in Nat /\ 2 * (24 * LowerRate) - 2 * MonthlyWage \in -24..24
  <2>1. PICK n \in Nat : n = 24
    OBVIOUS
  <2>2. LowerRate = Nearest(MonthlyWage, n) /\ n > 0
    BY <2>1 DEF LowerRate
  <2>3. LowerRate \in Nat /\ 2 * (n * LowerRate) - 2 * MonthlyWage \in -n..n
    BY <2>2, EosbConstants, NearestIs
  <2>4. QED
    BY <2>1, <2>3
<1>2. HigherRate \in Nat /\ 2 * (12 * HigherRate) - 2 * MonthlyWage \in -12..12
  <2>1. PICK n \in Nat : n = 12
    OBVIOUS
  <2>2. HigherRate = Nearest(MonthlyWage, n) /\ n > 0
    BY <2>1 DEF HigherRate
  <2>3. HigherRate \in Nat /\ 2 * (n * HigherRate) - 2 * MonthlyWage \in -n..n
    BY <2>2, EosbConstants, NearestIs
  <2>4. QED
    BY <2>1, <2>3
<1>3. QED
  BY <1>1, <1>2, EosbConstants

\* How far the time served is from as many twelfths of a year.
LEMMA TimeIs ==
  ASSUME NEW h \in Hires, NEW m \in 0..LastMonth
  PROVE  /\ TimeServed[h][m] \in Nat /\ m * Year \in Nat
         /\ 12 * TimeServed[h][m] - m * Year \in -(12 * Drift)..(12 * Drift)
  BY EosbAssumption

\* Only in the sixtieth month is it open which rate applies.
LEMMA RateOfMonth ==
  ASSUME NEW h \in Hires, NEW m \in 0..LastMonth
  PROVE  /\ m < 60 => TimeServed[h][m] <= 5 * Year
         /\ m > 60 => ~(TimeServed[h][m] <= 5 * Year)
<1> DEFINE t == TimeServed[h][m]
           k == m * Year
<1>1. t \in Nat /\ k \in Nat /\ 12 * t - k \in -(12 * Drift)..(12 * Drift)
  BY TimeIs
<1>2. CASE m < 60
  <2>1. Year * (59 - m) \in Nat /\ Year * (59 - m) = 59 * Year - k
    BY <1>2, EosbConstants
  <2> HIDE DEF k, t
  <2>2. k <= 59 * Year
    BY <1>1, <2>1, EosbConstants
  <2>3. t <= 5 * Year
    BY <1>1, <2>2, EosbConstants
  <2>4. QED
    BY <1>2, <2>3 DEF t
<1>3. CASE m > 60
  <2>1. Year * (m - 61) \in Nat /\ Year * (m - 61) = k - 61 * Year
    BY <1>3, EosbConstants
  <2> HIDE DEF k, t
  <2>2. k >= 61 * Year
    BY <1>1, <2>1, EosbConstants
  <2>3. ~(t <= 5 * Year)
    BY <1>1, <2>2, EosbConstants
  <2>4. QED
    BY <1>3, <2>3 DEF t
<1>4. QED
  BY <1>2, <1>3

LEMMA OneMore ==
  ASSUME NEW m \in Int, NEW r \in Int
  PROVE  (m - 1) * r + r = m * r
  OBVIOUS

\* The entry of a month is what the month adds, also in the month in which the
\* rate changes.
LEMMA AccrualAdds ==
  ASSUME EosbTyped, months > 0
  PROVE  ToPutAside(months - 1) + Accrual = ToPutAside(months)
<1>1. /\ months \in 0..LastMonth /\ months \in Nat /\ hired \in Hires
      /\ LowerRate \in Int /\ HigherRate \in Int
  BY EosbConstants, RatesAre DEF EosbTyped
<1>2. Accrual = IF Served <= 5 * Year THEN LowerRate ELSE HigherRate
  BY DEF Accrual, LowerRate, HigherRate
<1>3. (months - 1) * LowerRate + LowerRate = months * LowerRate
  BY <1>1, OneMore
<1>4. (months - 1 - 60) * HigherRate + HigherRate = (months - 60) * HigherRate
  BY <1>1
<1>5. CASE ~dated
  <2>1. Accrual = LowerRate
    BY <1>2, <1>5, EosbConstants DEF Served
  <2>2. QED
    BY <1>3, <1>5, <2>1 DEF ToPutAside
<1>6. CASE dated /\ months < 60
  <2>1. Accrual = LowerRate
    BY <1>1, <1>2, <1>6, RateOfMonth DEF Served, Elapsed
  <2>2. ToPutAside(months - 1) = (months - 1) * LowerRate /\ ToPutAside(months) = months * LowerRate
    BY <1>1, <1>6 DEF ToPutAside
  <2>3. QED
    BY <1>3, <2>1, <2>2
<1>7. CASE dated /\ months = 60
  <2>1. Accrual = IF TimeServed[hired][60] <= 5 * Year THEN LowerRate ELSE HigherRate
    BY <1>2, <1>7 DEF Served, Elapsed
  <2>2. ToPutAside(months - 1) = 59 * LowerRate
    BY <1>1, <1>7 DEF ToPutAside
  <2>3. ToPutAside(months) = 59 * LowerRate + 0 * HigherRate + Accrual
    BY <1>7, <2>1 DEF ToPutAside
  <2>4. Accrual \in Int
    BY <1>1, <1>2
  <2>5. QED
    BY <1>1, <2>2, <2>3, <2>4
<1>8. CASE dated /\ months > 60
  <2>1. Accrual = HigherRate
    BY <1>1, <1>2, <1>8, RateOfMonth DEF Served, Elapsed
  <2> DEFINE e == IF TimeServed[hired][60] <= 5 * Year THEN LowerRate ELSE HigherRate
             p == (months - 1 - 60) * HigherRate
             q == (months - 60) * HigherRate
  <2>2. /\ ToPutAside(months - 1) = 59 * LowerRate + p + e
        /\ ToPutAside(months) = 59 * LowerRate + q + e
    BY <1>1, <1>8 DEF ToPutAside
  <2>3. p \in Int /\ q \in Int /\ e \in Int /\ p + HigherRate = q
    BY <1>1, <1>4
  <2> HIDE DEF p, q, e
  <2>4. QED
    BY <1>1, <2>1, <2>2, <2>3
<1>9. QED
  BY <1>1, <1>5, <1>6, <1>7, <1>8 DEF EosbTyped

LEMMA EosbInitInv == EosbInit => EosbInv
<1> SUFFICES ASSUME EosbInit PROVE EosbInv
  OBVIOUS
<1>1. EosbTyped
  BY EosbConstants DEF EosbInit, EosbTyped
<1>2. ToPutAside(0) = 0
  BY RatesAre DEF ToPutAside
<1>3. QED
  BY <1>1, <1>2 DEF EosbInit, EosbInv, PutAside

LEMMA EosbInductive == EosbInv /\ [EosbNext]_eosbVars => EosbInv'
<1> SUFFICES ASSUME EosbInv, [EosbNext]_eosbVars PROVE EosbInv'
  OBVIOUS
<1> USE DEF EosbInv
<1>1. CASE BookMonthlyAccrual
  <2>1. /\ provision' = provision + Accrual /\ booked' = booked + 1
        /\ irregular' = irregular + booked /\ months' = months /\ dated' = dated /\ hired' = hired
    BY <1>1 DEF BookMonthlyAccrual
  <2>2. EosbTyped'
    <3>1. Accrual \in Nat
      BY RatesAre DEF Accrual, LowerRate, HigherRate
    <3>2. QED
      BY <2>1, <3>1 DEF EosbTyped
  <2>3. ASSUME irregular' = 0 PROVE booked' = 1 /\ provision' = ToPutAside(months)
    <3>1. irregular = 0 /\ booked = 0
      BY <2>1, <2>3 DEF EosbTyped
    <3>2. months > 0 /\ provision = ToPutAside(months - 1)
      BY <3>1 DEF PutAside
    <3>3. QED
      BY <2>1, <3>1, <3>2, AccrualAdds
  <2>4. ToPutAside(months)' = ToPutAside(months)
    BY <2>1 DEF ToPutAside
  <2>5. QED
    BY <2>2, <2>3, <2>4 DEF PutAside
<1>2. CASE MonthPasses
  <2>1. /\ months < LastMonth /\ months' = months + 1 /\ booked' = 0
        /\ dated' = dated /\ hired' = hired /\ provision' = provision
        /\ irregular' = irregular + (IF booked = 0 THEN 1 ELSE 0)
    BY <1>2 DEF MonthPasses
  <2>2. EosbTyped'
    BY <2>1, EosbConstants DEF EosbTyped
  <2>3. ASSUME irregular' = 0 PROVE provision' = ToPutAside(months)
    BY <2>1, <2>3 DEF PutAside, EosbTyped
  <2>4. months' - 1 = months /\ months' > 0
    BY <2>1 DEF EosbTyped
  <2>5. ToPutAside(months - 1)' = ToPutAside(months)
    BY <2>1, <2>4 DEF ToPutAside
  <2>6. QED
    BY <2>1, <2>2, <2>3, <2>4, <2>5 DEF PutAside
<1>3. CASE UNCHANGED eosbVars
  BY <1>3 DEF eosbVars, PutAside, ToPutAside, EosbTyped
<1>4. QED
  BY <1>1, <1>2, <1>3 DEF EosbNext

LEMMA EosbInvariant == EosbSpec => []EosbInv
  BY EosbInitInv, EosbInductive, PTL DEF EosbSpec

\* The years paid for, with the wage of a year taken as one.
YearsOwed == IF Served <= 5 * Year THEN Served ELSE 2 * Served - 5 * Year

LEMMA OwedIs ==
  ASSUME EosbTyped
  PROVE  Served \in Nat /\ YearsOwed \in Nat /\ Owed = MonthlyWage * YearsOwed /\ Owed \in Nat
<1>1. Served \in Nat
  BY TimeIs DEF EosbTyped, Served, Elapsed
<1>2. YearsOwed \in Nat
  BY <1>1, EosbConstants DEF YearsOwed
<1>3. Owed = MonthlyWage * YearsOwed
  BY DEF Owed, YearsOwed
<1>4. QED
  BY <1>1, <1>2, <1>3, EosbConstants

\* All of it is owed but for a resignation.
LEMMA LiabilityIs ==
  ASSUME EosbTyped, NEW reason, reason # "Resignation"
  PROVE  /\ Liability(reason) \in Nat /\ Year * Liability(reason) \in Nat
         /\ 2 * (Year * Liability(reason)) - Owed \in -Year..Year
<1> DEFINE n == 6 * Year
           x == 3 * Owed
           l == Liability(reason)
<1>1. Owed \in Nat /\ x \in Nat /\ n \in Nat /\ n > 0 /\ Year \in Nat
  BY OwedIs, EosbConstants
<1>2. l = Nearest(x, n)
  BY DEF Liability, Thirds
<1> HIDE DEF x, n, l
<1>3. l \in Nat /\ n * l \in Nat /\ 2 * (n * l) - 2 * x \in -n..n
  BY <1>1, <1>2, NearestIs
<1> DEFINE k == Year * l
<1>4. k \in Nat /\ n * l = 6 * k
  BY <1>1, <1>3 DEF n
<1>5. 2 * (6 * k) - 2 * x \in -n..n
  BY <1>3, <1>4
<1> HIDE DEF k
<1>6. 2 * k - Owed \in -Year..Year
  BY <1>1, <1>4, <1>5 DEF n, x
<1>7. QED
  BY <1>3, <1>4, <1>6 DEF k, l

\* A resignation is never dearer than a dismissal.
LEMMA ResigningOwesLess ==
  ASSUME EosbTyped
  PROVE  Liability("Resignation") <= Liability("Termination")
<1> DEFINE some == Thirds("Resignation")
<1>1. Owed \in Nat /\ 6 * Year \in Nat /\ 6 * Year > 0
  BY OwedIs, EosbConstants
<1>2. some \in 0..3 /\ Thirds("Termination") = 3
  BY DEF Thirds
<1> HIDE DEF some
<1>3. some * Owed \in Nat /\ 3 * Owed \in Nat /\ some * Owed <= 3 * Owed
  <2>1. some \in {0, 1, 2, 3}
    BY <1>2
  <2>2. QED
    BY <1>1, <2>1
<1>4. Nearest(some * Owed, 6 * Year) <= Nearest(3 * Owed, 6 * Year)
  BY <1>1, <1>3, NearestGrows
<1>5. QED
  BY <1>2, <1>4, Zenon DEF Liability, some

\* An amount put aside and an amount owed, each k or s years of a wage w but
\* for what is rounded.
LEMMA AheadBy ==
  ASSUME NEW w \in Nat, NEW y \in Nat, NEW m \in Nat, NEW d \in Nat,
         NEW p \in Int, NEW l \in Int, NEW owed \in Int, NEW k \in Int, NEW s \in Int,
         24 * p - w * k \in -(12 * m)..(12 * m),
         2 * (y * l) - owed \in -y..y,
         12 * owed = w * s,
         k * y - s \in -(24 * d)..(24 * d + y)
  PROVE  LET slack == 24 * w * d + 12 * y * (m + 1)
         IN  24 * y * (p - l) \in -slack..(slack + w * y)
<1> DEFINE u == 24 * p - w * k
           v == k * y - s
           z == 2 * (y * l) - owed
           U == y * u
           V == w * v
           ym == y * m
           wd == w * d
           wy == w * y
<1>1. u \in Int /\ v \in Int /\ z \in Int /\ ym \in Nat /\ wd \in Nat /\ wy \in Nat
  OBVIOUS
<1>2. 24 * y * (p - l) = U + V - 12 * z
  <2>1. U = y * (24 * p) - y * (w * k)
    OBVIOUS
  <2>2. V = w * (k * y) - w * s /\ w * (k * y) = y * (w * k)
    OBVIOUS
  <2>3. 24 * y * (p - l) = y * (24 * p) - 24 * (y * l)
    OBVIOUS
  <2> DEFINE a == y * (24 * p)
             b == y * (w * k)
             e == y * l
             f == w * s
  <2>4. a \in Int /\ b \in Int /\ e \in Int /\ f \in Int
    OBVIOUS
  <2>5. U = a - b /\ V = b - f /\ 24 * y * (p - l) = a - 24 * e /\ z = 2 * e - owed /\ 12 * owed = f
    BY <2>1, <2>2, <2>3
  <2> HIDE DEF a, b, e, f, U, V, z
  <2>6. QED
    BY <2>4, <2>5
<1>3. -(12 * m) <= u /\ u <= 12 * m /\ -(24 * d) <= v /\ v <= 24 * d + y /\ -y <= z /\ z <= y
  OBVIOUS
<1>4. /\ y * (-(12 * m)) = -(12 * ym) /\ y * (12 * m) = 12 * ym
      /\ w * (-(24 * d)) = -(24 * wd) /\ w * (24 * d + y) = 24 * wd + wy
  OBVIOUS
<1>5. 24 * w * d = 24 * wd /\ 12 * y * (m + 1) = 12 * ym + 12 * y
  OBVIOUS
<1> HIDE DEF u, v, z, ym, wd, wy
<1>6. U \in Int /\ y * (-(12 * m)) <= U /\ U <= y * (12 * m)
  BY <1>1, <1>3, Scaled
<1>7. V \in Int /\ w * (-(24 * d)) <= V /\ V <= w * (24 * d + y)
  BY <1>1, <1>3, Scaled
<1> DEFINE slack == 24 * wd + (12 * ym + 12 * y)
<1> HIDE DEF U, V
<1>8. U + V - 12 * z \in -slack..(slack + wy)
  BY <1>1, <1>3, <1>4, <1>6, <1>7
<1>9. QED
  BY <1>2, <1>5, <1>8 DEF wy

\* Many times a rate, to half a cent each time.
LEMMA ManyRates ==
  ASSUME NEW m \in Nat, NEW a \in Nat, NEW w \in Nat, 24 * a - w \in -12..12
  PROVE  m * a \in Int /\ 24 * (m * a) - w * m \in -(12 * m)..(12 * m)
<1> DEFINE u == 24 * a - w
<1>1. u \in Int /\ -12 <= u /\ u <= 12
  OBVIOUS
<1>2. 24 * (m * a) - w * m = m * u /\ m * a \in Int
  OBVIOUS
<1>3. m * (-12) = -(12 * m) /\ m * 12 = 12 * m
  OBVIOUS
<1> HIDE DEF u
<1>4. m * u \in Int /\ m * (-12) <= m * u /\ m * u <= m * 12
  BY <1>1, Scaled
<1> DEFINE k == m * u
<1>5. k \in -(12 * m)..(12 * m)
  BY <1>3, <1>4
<1>6. QED
  BY <1>2, <1>5

LEMMA ManyDoubleRates ==
  ASSUME NEW n \in Nat, NEW b \in Nat, NEW w \in Nat, 24 * b - 2 * w \in -12..12
  PROVE  24 * (n * b) - 2 * (n * w) \in -(12 * n)..(12 * n)
<1>1. 2 * w \in Nat /\ (2 * w) * n = 2 * (n * w)
  OBVIOUS
<1> DEFINE v == 2 * w
<1>2. v \in Nat /\ 24 * b - v \in -12..12
  BY <1>1
<1> HIDE DEF v
<1>3. 24 * (n * b) - v * n \in -(12 * n)..(12 * n)
  BY <1>2, ManyRates
<1>4. QED
  BY <1>1, <1>3 DEF v

\* What is put aside, in months of half a wage.
LEMMA PutAsideIs ==
  ASSUME EosbTyped, dated
  PROVE  \E k \in Int :
           /\ ToPutAside(months) \in Int
           /\ 24 * ToPutAside(months) - MonthlyWage * k \in -(12 * months)..(12 * months)
           /\ 12 * YearsOwed \in Int
           /\ k * Year - 12 * YearsOwed \in -(24 * Drift)..(24 * Drift + Year)
<1> DEFINE m == months
           w == MonthlyWage
           a == LowerRate
           b == HigherRate
           t == TimeServed[hired][m]
           y == Year
<1>1. /\ m \in Nat /\ w \in Nat /\ a \in Nat /\ b \in Nat /\ t \in Nat /\ y \in Nat /\ y > 0
      /\ Drift \in Nat
      /\ 24 * a - w \in -12..12 /\ 24 * b - 2 * w \in -12..12
      /\ m * y \in Nat /\ 12 * t - m * y \in -(12 * Drift)..(12 * Drift)
  BY EosbConstants, RatesAre, TimeIs DEF EosbTyped
<1>2. YearsOwed = IF t <= 5 * y THEN t ELSE 2 * t - 5 * y
  BY DEF YearsOwed, Served, Elapsed
<1>3. CASE m < 60
  <2>1. t <= 5 * y
    BY <1>3, RateOfMonth DEF EosbTyped
  <2>2. ToPutAside(m) = m * a
    BY <1>1, <1>3 DEF ToPutAside
  <2>3. ToPutAside(m) \in Int /\ 24 * ToPutAside(m) - w * m \in -(12 * m)..(12 * m)
    BY <1>1, <2>2, ManyRates
  <2>4. 12 * YearsOwed \in Int /\ m * y - 12 * YearsOwed \in -(24 * Drift)..(24 * Drift + y)
    <3> HIDE DEF t, y
    <3> DEFINE my == m * y
    <3>1. my \in Nat /\ 12 * t - my \in -(12 * Drift)..(12 * Drift)
      BY <1>1
    <3> HIDE DEF my
    <3>2. 12 * YearsOwed \in Int /\ my - 12 * YearsOwed \in -(24 * Drift)..(24 * Drift + y)
      BY <1>1, <1>2, <2>1, <3>1
    <3>3. QED
      BY <3>2 DEF my
  <2>5. m \in Int
    BY <1>1
  <2>6. QED
    BY <2>3, <2>4, <2>5
<1>4. CASE m >= 60
  <2> DEFINE low == TimeServed[hired][60] <= 5 * y
             e == IF low THEN a ELSE b
             extra == IF low THEN 0 ELSE 1
             n == m - 60
             k == 2 * m - 60 + extra
  <2>1. n \in Nat /\ e \in Nat /\ extra \in {0, 1} /\ 24 * e - (w + w * extra) \in -12..12
    BY <1>1, <1>4
  <2>2. ToPutAside(m) = 59 * a + n * b + e
    BY <1>4 DEF ToPutAside
  <2>3. ToPutAside(m) \in Int /\ 24 * ToPutAside(m) - w * k \in -(12 * m)..(12 * m)
    <3> DEFINE nb == n * b
               nw == n * w
               we == w * extra
    <3>1. /\ nb \in Nat /\ nw \in Nat /\ we \in Int /\ m = n + 60
          /\ 24 * nb - 2 * nw \in -(12 * n)..(12 * n)
      BY <1>1, <2>1, ManyDoubleRates
    <3>2. w * k = 2 * nw + 60 * w + we
      BY <1>1, <2>1
    <3> HIDE DEF nb, nw, we, n, e, k, extra, a, w, b, m
    <3>3. 24 * (59 * a + nb + e) - (2 * nw + 60 * w + we) \in -(12 * m)..(12 * m)
      BY <1>1, <2>1, <3>1 DEF we
    <3>4. QED
      BY <1>1, <2>1, <2>2, <3>1, <3>2, <3>3 DEF nb
  <2>4. k * y = 2 * (m * y) - 60 * y + extra * y
    BY <1>1, <2>1
  <2>5. /\ low => t <= 5 * y \/ m > 60
        /\ ~low => ~(t <= 5 * y)
        /\ m > 60 => ~(t <= 5 * y)
    <3>1. m > 60 => ~(t <= 5 * y)
      BY RateOfMonth DEF EosbTyped
    <3>2. m = 60 \/ m > 60
      BY <1>1, <1>4
    <3>3. QED
      BY <3>1, <3>2
  <2>6. 12 * YearsOwed \in Int /\ k * y - 12 * YearsOwed \in -(24 * Drift)..(24 * Drift + y)
    <3> DEFINE my == m * y
               ey == extra * y
    <3>1. /\ my \in Nat /\ 12 * t - my \in -(12 * Drift)..(12 * Drift)
          /\ ey = IF low THEN 0 ELSE y
          /\ m = 60 => my = 60 * y
      BY <1>1
    <3>2. k * y = 2 * my - 60 * y + ey
      BY <2>4
    <3>3. m = 60 \/ m > 60
      BY <1>1, <1>4
    <3> HIDE DEF my, ey, k, low, t, y, m, extra
    <3>4. 12 * YearsOwed \in Int
      BY <1>1, <1>2
    <3>5. CASE t <= 5 * y
      <4>1. low /\ my = 60 * y /\ YearsOwed = t
        BY <1>2, <2>5, <3>1, <3>3, <3>5
      <4>2. QED
        BY <1>1, <3>1, <3>2, <3>4, <4>1
    <3>6. CASE ~(t <= 5 * y)
      <4>1. YearsOwed = 2 * t - 5 * y
        BY <1>2, <3>6
      <4>2. QED
        BY <1>1, <3>1, <3>2, <3>4, <4>1
    <3>7. QED
      BY <3>5, <3>6
  <2>7. k \in Int
    BY <1>1, <2>1
  <2> HIDE DEF k
  <2>8. QED
    BY <2>3, <2>6, <2>7
<1>5. QED
  BY <1>1, <1>3, <1>4

\* The accruals and the liability.
LEMMA AccrualsAre ==
  ASSUME EosbInv
  PROVE  AccrualsFollow
<1> SUFFICES ASSUME irregular = 0, booked = 1
             PROVE  LET ahead == provision - Liability("Termination")
                        slack == 24 * MonthlyWage * Drift + 12 * Year * (months + 1)
                    IN  IF dated
                        THEN 24 * Year * ahead \in -slack..(slack + MonthlyWage * Year)
                        ELSE ahead = months * Nearest(MonthlyWage, 24)
  BY DEF AccrualsFollow
<1>1. EosbTyped /\ provision = ToPutAside(months) /\ dated \in BOOLEAN
  BY DEF EosbInv, PutAside, EosbTyped
<1> DEFINE l == Liability("Termination")
<1>2. l \in Nat /\ 2 * (Year * l) - Owed \in -Year..Year
  BY <1>1, LiabilityIs
<1>3. CASE dated
  <2>1. PICK k \in Int :
          /\ provision \in Int
          /\ 24 * provision - MonthlyWage * k \in -(12 * months)..(12 * months)
          /\ 12 * YearsOwed \in Int
          /\ k * Year - 12 * YearsOwed \in -(24 * Drift)..(24 * Drift + Year)
    BY <1>1, <1>3, PutAsideIs
  <2>2. Owed \in Int /\ 12 * Owed = MonthlyWage * (12 * YearsOwed)
    BY <1>1, OwedIs, EosbConstants
  <2>3. MonthlyWage \in Nat /\ Year \in Nat /\ months \in Nat /\ Drift \in Nat
    BY <1>1, EosbConstants DEF EosbTyped
  <2> DEFINE s == 12 * YearsOwed
  <2> HIDE DEF s, l
  <2>4. s \in Int /\ k * Year - s \in -(24 * Drift)..(24 * Drift + Year) /\ 12 * Owed = MonthlyWage * s
    BY <2>1, <2>2 DEF s
  <2>5. LET slack == 24 * MonthlyWage * Drift + 12 * Year * (months + 1)
        IN  24 * Year * (provision - l) \in -slack..(slack + MonthlyWage * Year)
    BY <1>2, <2>1, <2>2, <2>3, <2>4, AheadBy
  <2>6. QED
    BY <1>3, <2>5 DEF l
<1>4. CASE ~dated
  <2>1. Owed = 0
    BY <1>4, EosbConstants DEF Owed, Served
  <2>2. l = Nearest(0, 6 * Year)
    BY <2>1 DEF Liability, Thirds
  <2>3. l = 0
    BY <2>2, NearestOfNone, EosbConstants
  <2>4. provision = months * LowerRate /\ provision \in Nat
    BY <1>1, <1>4 DEF ToPutAside, EosbTyped
  <2>5. provision - l = provision
    BY <2>3, <2>4
  <2>6. QED
    BY <1>4, <2>4, <2>5 DEF LowerRate
<1>5. QED
  BY <1>1, <1>3, <1>4

\* The years of the page are those served, to a hundredth of a year and a day.
LEMMA PageYearsAre ==
  ASSUME EosbTyped, dated
  PROVE  /\ PageYears \in Nat /\ Year * PageYears \in Nat
         /\ 2 * (Year * PageYears) - 200 * Served \in -Year..(Year + 200 * Day)
<1> DEFINE t == Elapsed
           q == (t + Day - 1) \div Day
           x == Day * q
<1>1. t \in Nat /\ Served = t /\ Day \in Nat /\ Day > 0 /\ Year \in Nat /\ Year > 0
  BY TimeIs, EosbConstants DEF EosbTyped, Elapsed, Served
<1>2. q \in Nat /\ Day * q <= t + Day - 1 /\ t + Day - 1 < Day * q + Day
  BY <1>1, QuotientIs
<1>3. x \in Nat /\ 100 * Day * q = 100 * x
  BY <1>1, <1>2
<1>4. x <= t + Day - 1 /\ t + Day - 1 < x + Day
  BY <1>2
<1> HIDE DEF x
<1>5. PageYears = Nearest(100 * x, Year)
  BY <1>3 DEF PageYears
<1>6. /\ PageYears \in Nat /\ Year * PageYears \in Nat
      /\ 2 * (Year * PageYears) - 2 * (100 * x) \in -Year..Year
  BY <1>1, <1>3, <1>5, NearestIs
<1> DEFINE p == Year * PageYears
<1>7. p \in Nat /\ 2 * p - 2 * (100 * x) \in -Year..Year
  BY <1>6
<1> HIDE DEF p, t, q
<1>8. 2 * p - 200 * t \in -Year..(Year + 200 * Day)
  BY <1>1, <1>3, <1>4, <1>7
<1>9. QED
  BY <1>1, <1>6, <1>8 DEF p

LEMMA PageAheadBy ==
  ASSUME NEW w \in Nat, NEW y \in Nat, NEW g \in Int, NEW f \in Int, NEW l \in Int,
         NEW owed \in Int, NEW most \in Nat,
         owed = w * f, 2 * (y * l) - owed \in -y..y, y * g - 100 * f \in -most..most
  PROVE  LET slack == w * most + 100 * y
         IN  y * (w * g - 200 * l) \in -slack..slack
<1> DEFINE v == y * g - 100 * f
           z == 2 * (y * l) - owed
           V == w * v
           wm == w * most
<1>1. v \in Int /\ z \in Int /\ wm \in Nat /\ -most <= v /\ v <= most /\ -y <= z /\ z <= y
  OBVIOUS
<1>2. y * (w * g - 200 * l) = V - 100 * z
  <2>1. V = w * (y * g) - 100 * (w * f)
    OBVIOUS
  <2>2. y * (w * g - 200 * l) = w * (y * g) - 200 * (y * l)
    OBVIOUS
  <2> DEFINE a == w * (y * g)
             b == y * l
  <2>3. a \in Int /\ b \in Int /\ V = a - 100 * owed /\ z = 2 * b - owed
        /\ y * (w * g - 200 * l) = a - 200 * b
    BY <2>1, <2>2
  <2> HIDE DEF a, b, V, z
  <2>4. QED
    BY <2>3
<1>3. w * (-most) = -wm
  OBVIOUS
<1> HIDE DEF v, z, wm
<1>4. V \in Int /\ w * (-most) <= V /\ V <= w * most
  BY <1>1, Scaled
<1> HIDE DEF V
<1>5. V - 100 * z \in -(wm + 100 * y)..(wm + 100 * y)
  BY <1>1, <1>3, <1>4 DEF wm
<1>6. QED
  BY <1>2, <1>5 DEF wm

LEMMA PageIsClose ==
  ASSUME EosbTyped
  PROVE  PageFollows
<1> SUFFICES ASSUME dated
             PROVE  LET ahead == Year * (PageAmount - 200 * Liability("Active"))
                        slack == MonthlyWage * (Year + 200 * Day) + 100 * Year
                    IN  ahead \in -slack..slack
  BY DEF PageFollows
<1> DEFINE w == MonthlyWage
           y == PageYears
           p == Year * y
           g == IF y <= 500 THEN y ELSE 2 * y - 500
           f == YearsOwed
           l == Liability("Active")
           most == Year + 200 * Day
<1>1. /\ w \in Nat /\ Year \in Nat /\ Year > 0 /\ Day \in Nat /\ most \in Nat
      /\ Served \in Nat /\ f \in Nat /\ Owed = w * f /\ Owed \in Nat
      /\ l \in Nat /\ 2 * (Year * l) - Owed \in -Year..Year
      /\ y \in Nat /\ p \in Nat /\ 2 * p - 200 * Served \in -Year..most
  BY EosbConstants, OwedIs, LiabilityIs, PageYearsAre
<1>2. PageAmount = w * g
  BY DEF PageAmount
<1>3. g \in Nat
  BY <1>1
<1>4. Year * g = IF y <= 500 THEN p ELSE 2 * p - 500 * Year
  BY <1>1
<1>5. (y <= 500 => p <= 500 * Year) /\ (~(y <= 500) => p >= 500 * Year)
  <2>1. ASSUME y <= 500 PROVE p <= 500 * Year
    <3>1. Year * (500 - y) \in Nat /\ Year * (500 - y) = 500 * Year - p
      BY <1>1, <2>1
    <3> HIDE DEF p, y
    <3>2. QED
      BY <1>1, <3>1
  <2>2. ASSUME ~(y <= 500) PROVE p >= 500 * Year
    <3>1. Year * (y - 500) \in Nat /\ Year * (y - 500) = p - 500 * Year
      BY <1>1, <2>2
    <3> HIDE DEF p, y
    <3>2. QED
      BY <1>1, <3>1
  <2>3. QED
    BY <2>1, <2>2
<1>6. Year * g - 100 * f \in -most..most
  <2>1. f = IF Served <= 5 * Year THEN Served ELSE 2 * Served - 5 * Year
    BY DEF YearsOwed
  <2> DEFINE G == Year * g
  <2>2. G = IF y <= 500 THEN p ELSE 2 * p - 500 * Year
    BY <1>4
  <2>3. most = Year + 200 * Day
    OBVIOUS
  <2> HIDE DEF G, f, p, y, most
  <2>4. G - 100 * f \in -most..most
    BY <1>1, <1>5, <2>1, <2>2, <2>3
  <2>5. QED
    BY <2>4 DEF G
<1> HIDE DEF g, f, l, most
<1>7. LET slack == w * most + 100 * Year
      IN  Year * (w * g - 200 * l) \in -slack..slack
  BY <1>1, <1>3, <1>6, PageAheadBy
<1>8. QED
  BY <1>2, <1>7 DEF l, most

\* The accruals and the page follow what a dismissal would cost, whatever the
\* wage and the day of hire and however long the service.
THEOREM AccrualsTrackLiability == EosbSpec => []AccrualsFollowLiability
<1>1. EosbInv => AccrualsFollowLiability
  BY AccrualsAre, PageIsClose, ResigningOwesLess DEF AccrualsFollowLiability, EosbInv
<1>2. QED
  BY <1>1, EosbInvariant, PTL

(***************************************************************************)
(* Amounts                                                                 *)
(***************************************************************************)

LEMMA UnitIs ==
  /\ Unit \in Nat /\ Unit > 0 /\ 2 * Unit \in Nat /\ 2 * Unit > 0
  /\ \E u \in Nat : u > 0 /\ Unit = 10000 * u
<1>1. Unit \in Nat /\ Unit > 0 /\ Unit % 10000 = 0
  BY AmountsAssumption
<1>2. Unit = 10000 * (Unit \div 10000) /\ Unit \div 10000 \in Nat /\ Unit \div 10000 > 0
  BY <1>1
<1>3. QED
  BY <1>1, <1>2

\* Rounding moves an amount by half a cent at most, in twice the scaled amounts.
LEMMA CentsIs ==
  ASSUME NEW x \in Int
  PROVE  /\ Cents(x) \in Int /\ (2 * Unit) * Cents(x) \in Int
         /\ (2 * Unit) * Cents(x) <= 2 * x + Unit
         /\ 2 * x - Unit <= (2 * Unit) * Cents(x)
         /\ x >= 0 => Cents(x) >= 0
<1> DEFINE y == Size(x)
           n == 2 * y + Unit
           d == 2 * Unit
           q == n \div d
           k == d * q
<1>1. y \in Nat /\ y = (IF x < 0 THEN -x ELSE x)
  BY DEF Size
<1>2. Unit \in Nat /\ Unit > 0 /\ n \in Nat /\ d \in Nat /\ d > 0
  BY <1>1, UnitIs
<1>3. Cents(x) = IF x < 0 THEN -q ELSE q
  BY DEF Cents
<1>4. n = 2 * y + Unit /\ d = 2 * Unit
  OBVIOUS
<1> HIDE DEF n, d, y
<1>5. q \in Nat /\ d * q <= n /\ n < d * q + d
  BY <1>2, QuotientIs
<1>6. k \in Nat /\ k <= n /\ n < k + d /\ d * (-q) = -k
  BY <1>2, <1>5
<1> HIDE DEF k
<1>7. k <= 2 * y + Unit /\ 2 * y - Unit < k
  BY <1>1, <1>2, <1>4, <1>6
<1>8. (2 * Unit) * Cents(x) = IF x < 0 THEN -k ELSE k
  BY <1>3, <1>4, <1>6 DEF k
<1>9. QED
  BY <1>1, <1>2, <1>3, <1>5, <1>6, <1>7, <1>8

\* Whole cents are kept as they are.
LEMMA CentsOfWhole ==
  ASSUME NEW x \in Int
  PROVE  Cents(x * Unit) = x
<1>1. Unit \in Nat /\ Unit > 0 /\ x * Unit \in Int /\ Unit * x = x * Unit
  BY UnitIs
<1> DEFINE c == Cents(x * Unit)
<1>2. /\ c \in Int /\ (2 * Unit) * c <= 2 * (x * Unit) + Unit
      /\ 2 * (x * Unit) - Unit <= (2 * Unit) * c
  BY <1>1, CentsIs
<1> HIDE DEF c
<1>3. c = x \/ c - x - 1 \in Nat \/ x - c - 1 \in Nat
  BY <1>2
<1>4. CASE c - x - 1 \in Nat
  <2>1. Unit * (c - x - 1) \in Nat
    BY <1>1, <1>4
  <2>2. Unit * (c - x - 1) = Unit * c - x * Unit - Unit
    BY <1>1, <1>2
  <2>3. Unit * c \in Int /\ (2 * Unit) * c = 2 * (Unit * c)
    BY <1>1, <1>2
  <2>4. QED
    BY <1>1, <1>2, <2>1, <2>2, <2>3
<1>5. CASE x - c - 1 \in Nat
  <2>1. Unit * (x - c - 1) \in Nat
    BY <1>1, <1>5
  <2>2. Unit * (x - c - 1) = x * Unit - Unit * c - Unit
    BY <1>1, <1>2
  <2>3. Unit * c \in Int /\ (2 * Unit) * c = 2 * (Unit * c)
    BY <1>1, <1>2
  <2>4. QED
    BY <1>1, <1>2, <2>1, <2>2, <2>3
<1>6. QED
  BY <1>3, <1>4, <1>5 DEF c

LEMMA WholeIs ==
  ASSUME NEW x \in Int, Whole(x)
  PROVE  x = Unit * Cents(x) /\ Cents(x) \in Int
<1>1. Unit \in Nat /\ Unit > 0 /\ x % Unit = 0
  BY UnitIs DEF Whole
<1> DEFINE k == x \div Unit
<1>2. k \in Int /\ x = Unit * k
  BY <1>1
<1> HIDE DEF k
<1>3. x = k * Unit
  BY <1>1, <1>2
<1>4. Cents(x) = k
  BY <1>2, <1>3, CentsOfWhole
<1>5. QED
  BY <1>2, <1>4

LEMMA WholeTimes ==
  ASSUME NEW k \in Int
  PROVE  Whole(Unit * k) /\ Whole(k * Unit)
<1>1. Unit \in Nat /\ Unit > 0
  BY UnitIs
<1>2. (Unit * k) % Unit = 0 /\ Unit * k = k * Unit
  BY <1>1
<1>3. QED
  BY <1>2 DEF Whole

-----------------------------------------------------------------------------

DebitAt(s) == [i \in DOMAIN s |-> s[i].debit]
CreditAt(s) == [i \in DOMAIN s |-> s[i].credit]

LEMMA SidesAdd ==
  \A s : Debited(s) = SumOver(DebitAt(s), DOMAIN s) /\ Credited(s) = SumOver(CreditAt(s), DOMAIN s)
  BY Zenon DEF Debited, Credited, Added, Each, DebitAt, CreditAt

\* No line stands on both sides.
OneSided(s) ==
  /\ s \in Seq([debit : Int, credit : Int])
  /\ \A i \in DOMAIN s : s[i].debit = 0 \/ s[i].credit = 0

LEMMA PlacesFinite ==
  ASSUME NEW T, NEW s \in Seq(T)
  PROVE  /\ IsFiniteSet(DOMAIN s) /\ Cardinality(DOMAIN s) = Len(s) /\ Len(s) \in Nat
         /\ DOMAIN s = 1..Len(s) /\ \A i \in DOMAIN s : s[i] \in T
<1>1. Len(s) \in Nat /\ DOMAIN s = 1..Len(s) /\ \A i \in DOMAIN s : s[i] \in T
  OBVIOUS
<1>2. IsFiniteSet(1..Len(s)) /\ Cardinality(1..Len(s)) = Len(s)
  <2>1. 1 \in Int /\ Len(s) \in Int
    BY <1>1
  <2>2. QED
    BY <1>1, <2>1, FS_Interval
<1>3. QED
  BY <1>1, <1>2

LEMMA OneSidedIs ==
  ASSUME NEW s, OneSided(s)
  PROVE  /\ IsFiniteSet(DOMAIN s) /\ Cardinality(DOMAIN s) = Len(s) /\ Len(s) \in Nat
         /\ DOMAIN s = 1..Len(s)
         /\ \A i \in DOMAIN s : s[i].debit \in Int /\ s[i].credit \in Int
<1> DEFINE T == [debit : Int, credit : Int]
<1>1. s \in Seq(T)
  BY DEF OneSided
<1>2. \A l \in T : l.debit \in Int /\ l.credit \in Int
  OBVIOUS
<1> HIDE DEF T
<1>3. QED
  BY <1>1, <1>2, PlacesFinite

LEMMA SidesAreInt ==
  ASSUME NEW s, OneSided(s)
  PROVE  /\ Debited(s) \in Int /\ Credited(s) \in Int
<1>2. IsFiniteSet(DOMAIN s) /\ \A i \in DOMAIN s : s[i].debit \in Int /\ s[i].credit \in Int
  BY OneSidedIs
<1>3. /\ \A i \in DOMAIN s : DebitAt(s)[i] \in Int
      /\ \A i \in DOMAIN s : CreditAt(s)[i] \in Int
  BY <1>2 DEF DebitAt, CreditAt
<1>4. SumOver(DebitAt(s), DOMAIN s) \in Int /\ SumOver(CreditAt(s), DOMAIN s) \in Int
  BY <1>2, <1>3, SumIsInt
<1>5. QED
  BY <1>4, SidesAdd

LEMMA KeptIs ==
  ASSUME NEW s, OneSided(s)
  PROVE  /\ OneSided(Kept(s)) /\ Len(Kept(s)) = Len(s) /\ DOMAIN Kept(s) = DOMAIN s
         /\ \A i \in DOMAIN s : /\ Kept(s)[i].debit = Cents(s[i].debit)
                                /\ Kept(s)[i].credit = Cents(s[i].credit)
<1>2. DOMAIN s = 1..Len(s) /\ Len(s) \in Nat /\ \A i \in DOMAIN s : s[i].debit \in Int /\ s[i].credit \in Int
  BY OneSidedIs
<1>3. Kept(s) = [i \in DOMAIN s |-> [debit |-> Cents(s[i].debit), credit |-> Cents(s[i].credit)]]
  BY DEF Kept, Each
<1>4. \A i \in DOMAIN s : Cents(s[i].debit) \in Int /\ Cents(s[i].credit) \in Int
  BY <1>2, CentsIs
<1>5. Cents(0) = 0
  <2>1. 0 \in Int /\ 0 * Unit = 0
    BY UnitIs
  <2>2. Cents(0 * Unit) = 0
    BY <2>1, CentsOfWhole
  <2>3. QED
    BY <2>1, <2>2, Zenon
<1>6. \A i \in DOMAIN s : Kept(s)[i].debit = 0 \/ Kept(s)[i].credit = 0
  <2>1. \A i \in DOMAIN s : s[i].debit = 0 \/ s[i].credit = 0
    BY DEF OneSided
  <2>2. \A i \in DOMAIN s : /\ Kept(s)[i].debit = Cents(s[i].debit)
                            /\ Kept(s)[i].credit = Cents(s[i].credit)
    BY <1>3
  <2>3. QED
    BY <1>5, <2>1, <2>2
<1>7. Kept(s) \in Seq([debit : Int, credit : Int]) /\ Len(Kept(s)) = Len(s)
  BY <1>2, <1>3, <1>4
<1>8. QED
  BY <1>3, <1>6, <1>7 DEF OneSided

LEMMA OneSideRounded ==
  ASSUME NEW u \in Int, NEW d \in Int, NEW k \in Int, NEW p \in Int, NEW q \in Int,
         p <= 2 * d + u, 2 * d - u <= p, d = 0 => p = 0,
         q <= 2 * k + u, 2 * k - u <= q, k = 0 => q = 0, d = 0 \/ k = 0
  PROVE  p + 2 * k <= q + 2 * d + u /\ q + 2 * d <= p + 2 * k + u
  OBVIOUS

\* Of two scaled integers no more than n apart.
LEMMA ApartAtMost ==
  ASSUME NEW r \in Nat, r > 0, NEW p \in Int, NEW q \in Int, NEW n \in Nat,
         r * p <= r * q + r * n
  PROVE  p - q <= n
<1> SUFFICES ASSUME p - q > n PROVE FALSE
  OBVIOUS
<1>1. p - q - n - 1 \in Nat
  OBVIOUS
<1>2. r * (p - q - n - 1) \in Nat
  BY <1>1
<1>3. r * (p - q - n - 1) = r * p - r * q - r * n - r
  OBVIOUS
<1>4. r * p \in Int /\ r * q \in Int /\ r * n \in Int
  OBVIOUS
<1>5. QED
  BY <1>2, <1>3, <1>4

\* The sides of what is kept are apart by half a cent for each line, and by
\* what they were apart before.
LEMMA KeptIsClose ==
  ASSUME NEW s, OneSided(s), Debited(s) = Credited(s)
  PROVE  2 * Off(Kept(s)) <= Len(s)
<1> DEFINE D == DOMAIN s
           U == 2 * Unit
           d == DebitAt(s)
           k == CreditAt(s)
           dq == DebitAt(Kept(s))
           kq == CreditAt(Kept(s))
           ds == [i \in D |-> U * dq[i]]
           ks == [i \in D |-> U * kq[i]]
           d2 == [i \in D |-> 2 * d[i]]
           k2 == [i \in D |-> 2 * k[i]]
           u == [i \in D |-> Unit]
           dk == [i \in D |-> U * dq[i] + 2 * k[i]]
           kd == [i \in D |-> U * kq[i] + 2 * d[i]]
           dku == [i \in D |-> dk[i] + u[i]]
           kdu == [i \in D |-> kd[i] + u[i]]
           n == Len(s)
<1>1. /\ Unit \in Int /\ U \in Int /\ IsFiniteSet(D) /\ Cardinality(D) = n /\ n \in Nat
      /\ \A i \in D : d[i] \in Int /\ k[i] \in Int /\ (d[i] = 0 \/ k[i] = 0)
  BY UnitIs, OneSidedIs DEF OneSided, DebitAt, CreditAt
<1>2. /\ OneSided(Kept(s)) /\ DOMAIN Kept(s) = D
      /\ \A i \in D : dq[i] = Cents(d[i]) /\ kq[i] = Cents(k[i])
  BY KeptIs DEF DebitAt, CreditAt
<1>3. \A i \in D : /\ dq[i] \in Int /\ U * dq[i] \in Int /\ U * dq[i] <= 2 * d[i] + Unit
                   /\ 2 * d[i] - Unit <= U * dq[i] /\ (d[i] = 0 => dq[i] = 0)
                   /\ kq[i] \in Int /\ U * kq[i] \in Int /\ U * kq[i] <= 2 * k[i] + Unit
                   /\ 2 * k[i] - Unit <= U * kq[i] /\ (k[i] = 0 => kq[i] = 0)
  <2>1. Cents(0) = 0
    <3>1. 0 \in Int /\ 0 * Unit = 0
      BY UnitIs
    <3>2. Cents(0 * Unit) = 0
      BY <3>1, CentsOfWhole
    <3>3. QED
      BY <3>1, <3>2, Zenon
  <2>2. \A i \in D : /\ Cents(d[i]) \in Int /\ U * Cents(d[i]) \in Int /\ U * Cents(d[i]) <= 2 * d[i] + Unit
                     /\ 2 * d[i] - Unit <= U * Cents(d[i])
                     /\ Cents(k[i]) \in Int /\ U * Cents(k[i]) \in Int /\ U * Cents(k[i]) <= 2 * k[i] + Unit
                     /\ 2 * k[i] - Unit <= U * Cents(k[i])
    BY <1>1, CentsIs
  <2> HIDE DEF D, d, k, dq, kq, U
  <2>3. QED
    BY <1>2, <2>1, <2>2
<1>4. Debited(s) = SumOver(d, D) /\ Credited(s) = SumOver(k, D)
  BY SidesAdd
<1>5. Debited(Kept(s)) = SumOver(dq, D) /\ Credited(Kept(s)) = SumOver(kq, D)
  BY <1>2, SidesAdd
<1>24. \A i \in D : /\ U * dq[i] + 2 * k[i] <= U * kq[i] + 2 * d[i] + Unit
                    /\ U * kq[i] + 2 * d[i] <= U * dq[i] + 2 * k[i] + Unit
  <2> TAKE i \in D
  <2> DEFINE p == U * dq[i]
             q == U * kq[i]
  <2>1. /\ d[i] \in Int /\ k[i] \in Int /\ p \in Int /\ q \in Int /\ Unit \in Int
        /\ p <= 2 * d[i] + Unit /\ 2 * d[i] - Unit <= p /\ (d[i] = 0 => p = 0)
        /\ q <= 2 * k[i] + Unit /\ 2 * k[i] - Unit <= q /\ (k[i] = 0 => q = 0)
        /\ (d[i] = 0 \/ k[i] = 0)
    <3> HIDE DEF D, d, k, dq, kq, U
    <3>1. U * 0 = 0
      BY <1>1
    <3>2. QED
      BY <1>1, <1>3, <3>1
  <2> HIDE DEF D, d, k, dq, kq, U, p, q
  <2>2. p + 2 * k[i] <= q + 2 * d[i] + Unit /\ q + 2 * d[i] <= p + 2 * k[i] + Unit
    BY <2>1, OneSideRounded
  <2>3. QED
    BY <2>2 DEF p, q
<1>6. /\ \A i \in D : dq[i] \in Int /\ ds[i] = U * dq[i]
      /\ \A i \in D : kq[i] \in Int /\ ks[i] = U * kq[i]
      /\ \A i \in D : d[i] \in Int /\ d2[i] = 2 * d[i]
      /\ \A i \in D : k[i] \in Int /\ k2[i] = 2 * k[i]
      /\ \A i \in D : u[i] = Unit
      /\ \A i \in D : ds[i] \in Int /\ k2[i] \in Int /\ dk[i] = ds[i] + k2[i]
      /\ \A i \in D : ks[i] \in Int /\ d2[i] \in Int /\ kd[i] = ks[i] + d2[i]
      /\ \A i \in D : dk[i] \in Int /\ u[i] \in Int /\ dku[i] = dk[i] + u[i]
      /\ \A i \in D : kd[i] \in Int /\ u[i] \in Int /\ kdu[i] = kd[i] + u[i]
      /\ \A i \in D : dk[i] \in Int /\ kdu[i] \in Int /\ dk[i] <= kdu[i]
      /\ \A i \in D : kd[i] \in Int /\ dku[i] \in Int /\ kd[i] <= dku[i]
  <2> HIDE DEF d, k, dq, kq, U
  <2>1. \A i \in D : /\ dq[i] \in Int /\ U * dq[i] \in Int /\ ds[i] = U * dq[i]
                     /\ kq[i] \in Int /\ U * kq[i] \in Int /\ ks[i] = U * kq[i]
                     /\ d[i] \in Int /\ d2[i] = 2 * d[i] /\ k[i] \in Int /\ k2[i] = 2 * k[i]
                     /\ 2 * d[i] \in Int /\ 2 * k[i] \in Int
                     /\ u[i] = Unit /\ dk[i] = ds[i] + k2[i] /\ kd[i] = ks[i] + d2[i]
                     /\ dku[i] = dk[i] + u[i] /\ kdu[i] = kd[i] + u[i]
    BY <1>1, <1>3
  <2>2. \A i \in D : dk[i] <= kd[i] + Unit /\ kd[i] <= dk[i] + Unit
    BY <1>24
  <2> HIDE DEF D, ds, ks, d2, k2, u, dk, kd, dku, kdu
  <2>3. \A i \in D : /\ ds[i] \in Int /\ ks[i] \in Int /\ d2[i] \in Int /\ k2[i] \in Int /\ u[i] \in Int
    BY <1>1, <2>1
  <2>4. \A i \in D : /\ dk[i] \in Int /\ kd[i] \in Int
    BY <2>1, <2>3
  <2>5. \A i \in D : /\ dku[i] \in Int /\ kdu[i] \in Int /\ dk[i] <= kdu[i] /\ kd[i] <= dku[i]
    BY <2>1, <2>2, <2>3, <2>4
  <2>6. QED
    BY <2>1, <2>3, <2>4, <2>5
<1> HIDE DEF D, U, d, k, dq, kq, ds, ks, d2, k2, u, dk, kd, dku, kdu
<1>7. SumOver(ds, D) = U * SumOver(dq, D)
  BY <1>1, <1>6, SumTimes
<1>8. SumOver(ks, D) = U * SumOver(kq, D)
  BY <1>1, <1>6, SumTimes
<1>9. SumOver(d2, D) = 2 * SumOver(d, D)
  BY <1>1, <1>6, SumTimes
<1>10. SumOver(k2, D) = 2 * SumOver(k, D)
  BY <1>1, <1>6, SumTimes
<1>11. SumOver(u, D) = Unit * n
  <2>1. \A i \in D : u[i] = Unit
    BY <1>6
  <2>2. SumOver(u, D) = Unit * Cardinality(D)
    BY <1>1, <2>1, SumOfSame
  <2>3. QED
    BY <1>1, <2>2
<1>12. SumOver(dk, D) = SumOver(ds, D) + SumOver(k2, D)
  BY <1>1, <1>6, SumPlus
<1>13. SumOver(kd, D) = SumOver(ks, D) + SumOver(d2, D)
  BY <1>1, <1>6, SumPlus
<1>14. SumOver(dku, D) = SumOver(dk, D) + SumOver(u, D)
  BY <1>1, <1>6, SumPlus
<1>15. SumOver(kdu, D) = SumOver(kd, D) + SumOver(u, D)
  BY <1>1, <1>6, SumPlus
<1>16. SumOver(dk, D) <= SumOver(kdu, D)
  BY <1>1, <1>6, SumAtMost
<1>17. SumOver(kd, D) <= SumOver(dku, D)
  BY <1>1, <1>6, SumAtMost
<1> DEFINE p == Debited(Kept(s))
           q == Credited(Kept(s))
           x == SumOver(d, D)
           y == SumOver(k, D)
<1>18. p \in Int /\ q \in Int /\ x \in Int /\ y \in Int /\ x = y
  BY <1>2, <1>4, SidesAreInt
<1>19. /\ U * p + 2 * y <= U * q + 2 * x + Unit * n
       /\ U * q + 2 * x <= U * p + 2 * y + Unit * n
  <2>1. /\ SumOver(dk, D) = U * p + 2 * y /\ SumOver(kd, D) = U * q + 2 * x
        /\ SumOver(u, D) = Unit * n
    BY <1>5, <1>7, <1>8, <1>9, <1>10, <1>11, <1>12, <1>13
  <2> HIDE DEF p, q, x, y
  <2>2. U * p \in Int /\ U * q \in Int /\ Unit * n \in Int
    BY <1>1, <1>18
  <2>3. QED
    BY <1>14, <1>15, <1>16, <1>17, <1>18, <2>1, <2>2
<1>20. U = 2 * Unit /\ Off(Kept(s)) = IF p - q < 0 THEN -(p - q) ELSE p - q
  BY DEF U, Off, Size
<1> HIDE DEF p, q, x, y, n
<1>21. Unit * (2 * p) <= Unit * (2 * q) + Unit * n /\ Unit * (2 * q) <= Unit * (2 * p) + Unit * n
  <2>1. U * p = Unit * (2 * p) /\ U * q = Unit * (2 * q)
    BY <1>1, <1>18, <1>20
  <2>2. Unit * (2 * p) \in Int /\ Unit * (2 * q) \in Int /\ Unit * n \in Int
    BY <1>1, <1>18
  <2>3. QED
    BY <1>18, <1>19, <2>1, <2>2
<1>22. 2 * p - 2 * q <= n /\ 2 * q - 2 * p <= n
  <2>1. Unit \in Nat /\ Unit > 0 /\ 2 * p \in Int /\ 2 * q \in Int
    BY UnitIs, <1>18
  <2> HIDE DEF p, q, n
  <2>2. QED
    BY <1>1, <1>21, <2>1, ApartAtMost
<1>23. QED
  BY <1>1, <1>18, <1>20, <1>22 DEF n

-----------------------------------------------------------------------------

LEMMA SumOfLast ==
  ASSUME NEW n \in Nat, NEW f, \A i \in 1..(n + 1) : f[i] \in Int
  PROVE  SumOver(f, 1..(n + 1)) = f[n + 1] + SumOver(f, 1..n) /\ SumOver(f, 1..n) \in Int
<1> DEFINE S == 1..(n + 1)
<1>1. IsFiniteSet(S) /\ IsFiniteSet(1..n) /\ n + 1 \in S /\ S \ {n + 1} = 1..n
  <2>1. 1 \in Int /\ n \in Int /\ n + 1 \in Int
    OBVIOUS
  <2>2. IsFiniteSet(1..(n + 1)) /\ IsFiniteSet(1..n)
    BY <2>1, FS_Interval
  <2>3. n + 1 \in 1..(n + 1) /\ (1..(n + 1)) \ {n + 1} = 1..n
    OBVIOUS
  <2>4. QED
    BY <2>2, <2>3
<1>2. \A i \in 1..n : f[i] \in Int
  OBVIOUS
<1> HIDE DEF S
<1>3. SumOver(f, S) = f[n + 1] + SumOver(f, S \ {n + 1})
  BY <1>1, SumWithout DEF S
<1>4. QED
  BY <1>1, <1>2, <1>3, SumIsInt, Zenon DEF S

LEMMA SumShifted ==
  ASSUME NEW n \in Nat, NEW f, NEW g, g[1] \in Int, \A i \in 1..n : f[i] \in Int /\ g[i + 1] = f[i]
  PROVE  SumOver(g, 1..(n + 1)) = g[1] + SumOver(f, 1..n)
<1> DEFINE Fails == {m \in 0..n : SumOver(g, 1..(m + 1)) # g[1] + SumOver(f, 1..m)}
<1> SUFFICES ASSUME Fails # {} PROVE FALSE
  OBVIOUS
<1>1. PICK m \in Fails : \A k \in Fails : m <= k
  <2>1. Fails \in SUBSET Nat
    OBVIOUS
  <2> HIDE DEF Fails
  <2>2. QED
    BY <2>1, SmallestNumber
<1>2. m \in Nat /\ m <= n /\ SumOver(g, 1..(m + 1)) # g[1] + SumOver(f, 1..m)
  OBVIOUS
<1>3. \A i \in 1..(n + 1) : g[i] \in Int
  <2> TAKE i \in 1..(n + 1)
  <2>1. i = 1 \/ (i - 1 \in 1..n /\ (i - 1) + 1 = i)
    OBVIOUS
  <2>2. QED
    BY <2>1
<1>4. SumOver(g, 1..(m + 1)) = g[m + 1] + SumOver(g, 1..m)
  <2>1. \A i \in 1..(m + 1) : g[i] \in Int
    BY <1>2, <1>3
  <2>2. QED
    BY <1>2, <2>1, SumOfLast
<1>5. CASE m = 0
  <2>1. 1..m = {} /\ m + 1 = 1
    BY <1>5
  <2>2. SumOver(g, 1..m) = 0 /\ SumOver(f, 1..m) = 0
    BY <2>1, SumOfNone, Zenon
  <2>3. g[m + 1] = g[1]
    BY <2>1
  <2>4. QED
    BY <1>2, <1>4, <2>2, <2>3
<1>6. CASE m > 0
  <2>1. PICK k \in Nat : m = k + 1
    <3>1. m - 1 \in Nat /\ m = (m - 1) + 1
      BY <1>2, <1>6
    <3>2. QED
      BY <3>1
  <2>2. k \in 0..n /\ ~(m <= k) /\ m \in 1..n
    BY <1>2, <2>1
  <2>3. k \notin Fails
    BY <1>1, <2>2
  <2>4. SumOver(g, 1..(k + 1)) = g[1] + SumOver(f, 1..k)
    BY <2>2, <2>3
  <2>5. SumOver(f, 1..(k + 1)) = f[k + 1] + SumOver(f, 1..k) /\ SumOver(f, 1..k) \in Int
    <3>1. \A i \in 1..(k + 1) : f[i] \in Int
      BY <2>1, <2>2
    <3>2. QED
      BY <3>1, SumOfLast
  <2>6. g[m + 1] = f[m] /\ f[m] \in Int
    BY <2>2
  <2>7. SumOver(g, 1..m) = g[1] + SumOver(f, 1..k) /\ SumOver(f, 1..m) = f[m] + SumOver(f, 1..k)
    BY <2>1, <2>4, <2>5, Zenon
  <2> HIDE DEF Fails
  <2>8. QED
    BY <1>2, <1>4, <2>5, <2>6, <2>7
<1>7. QED
  BY <1>2, <1>5, <1>6

Line == [debit : Int, credit : Int]

\* What a line before the others adds.
LEMMA LineBefore ==
  ASSUME NEW a \in Line, a.debit = 0 \/ a.credit = 0, NEW t, OneSided(t)
  PROVE  /\ OneSided(<<a>> \o t) /\ Len(<<a>> \o t) = Len(t) + 1
         /\ (<<a>> \o t)[1] = a /\ \A i \in DOMAIN t : (<<a>> \o t)[i + 1] = t[i]
         /\ Debited(<<a>> \o t) = a.debit + Debited(t)
         /\ Credited(<<a>> \o t) = a.credit + Credited(t)
<1> DEFINE s == <<a>> \o t
           n == Len(t)
<1>1. t \in Seq(Line) /\ n \in Nat /\ DOMAIN t = 1..n
  BY DEF OneSided, Line
<1>2. s \in Seq(Line) /\ Len(s) = n + 1 /\ DOMAIN s = 1..(n + 1) /\ s[1] = a
  BY <1>1
<1>3. \A i \in 1..n : s[i + 1] = t[i]
  BY <1>1
<1>4. \A i \in 1..(n + 1) : i = 1 \/ (i - 1 \in 1..n /\ (i - 1) + 1 = i)
  OBVIOUS
<1> HIDE DEF s, n
<1>5. OneSided(s)
  <2>1. ASSUME NEW i \in DOMAIN s PROVE s[i].debit = 0 \/ s[i].credit = 0
    <3>1. CASE i = 1
      BY <1>2, <3>1
    <3>2. CASE i - 1 \in 1..n /\ (i - 1) + 1 = i
      <4>1. s[i] = t[i - 1] /\ i - 1 \in DOMAIN t
        BY <1>1, <1>3, <3>2
      <4>2. QED
        BY <4>1 DEF OneSided
    <3>3. QED
      BY <1>2, <1>4, <3>1, <3>2
  <2>2. QED
    BY <1>2, <2>1 DEF OneSided, Line
<1>6. \A i \in 1..n : t[i].debit \in Int /\ t[i].credit \in Int
  BY <1>1, OneSidedIs
<1>7. Debited(s) = a.debit + Debited(t)
  <2> DEFINE f == DebitAt(t)
             g == DebitAt(s)
  <2>1. g[1] = a.debit /\ a.debit \in Int /\ \A i \in 1..n : f[i] \in Int /\ g[i + 1] = f[i]
    <3>1. \A i \in 1..n : i + 1 \in 1..(n + 1)
      BY <1>1
    <3>2. 1 \in 1..(n + 1)
      BY <1>1
    <3>3. QED
      BY <1>1, <1>2, <1>3, <1>6, <3>1, <3>2 DEF DebitAt, Line
  <2> HIDE DEF f, g
  <2>2. SumOver(g, 1..(n + 1)) = g[1] + SumOver(f, 1..n)
    BY <1>1, <2>1, SumShifted
  <2>3. Debited(s) = SumOver(g, 1..(n + 1)) /\ Debited(t) = SumOver(f, 1..n)
    BY <1>1, <1>2, SidesAdd, Zenon DEF f, g
  <2>4. QED
    BY <2>1, <2>2, <2>3
<1>8. Credited(s) = a.credit + Credited(t)
  <2> DEFINE f == CreditAt(t)
             g == CreditAt(s)
  <2>1. g[1] = a.credit /\ a.credit \in Int /\ \A i \in 1..n : f[i] \in Int /\ g[i + 1] = f[i]
    <3>1. \A i \in 1..n : i + 1 \in 1..(n + 1)
      BY <1>1
    <3>2. 1 \in 1..(n + 1)
      BY <1>1
    <3>3. QED
      BY <1>1, <1>2, <1>3, <1>6, <3>1, <3>2 DEF CreditAt, Line
  <2> HIDE DEF f, g
  <2>2. SumOver(g, 1..(n + 1)) = g[1] + SumOver(f, 1..n)
    BY <1>1, <2>1, SumShifted
  <2>3. Credited(s) = SumOver(g, 1..(n + 1)) /\ Credited(t) = SumOver(f, 1..n)
    BY <1>1, <1>2, SidesAdd, Zenon DEF f, g
  <2>4. QED
    BY <2>1, <2>2, <2>3
<1>9. QED
  BY <1>1, <1>2, <1>3, <1>5, <1>7, <1>8 DEF s, n

LEMMA NoLines == OneSided(<<>>) /\ Len(<<>>) = 0 /\ Debited(<<>>) = 0 /\ Credited(<<>>) = 0
<1>1. OneSided(<<>>) /\ Len(<<>>) = 0 /\ DOMAIN <<>> = {}
  BY DEF OneSided
<1>2. QED
  BY <1>1, SidesAdd, SumOfNone

LEMMA SidesOfLine ==
  ASSUME NEW x \in Int
  PROVE  /\ Dr(x) \in Line /\ Dr(x).debit = x /\ Dr(x).credit = 0
         /\ Cr(x) \in Line /\ Cr(x).debit = 0 /\ Cr(x).credit = x
  BY DEF Dr, Cr, Line

LEMMA OneLine ==
  ASSUME NEW a \in Line, a.debit = 0 \/ a.credit = 0
  PROVE  /\ OneSided(<<a>>) /\ Len(<<a>>) = 1
         /\ Debited(<<a>>) = a.debit /\ Credited(<<a>>) = a.credit
<1>1. <<a>> \o <<>> = <<a>>
  OBVIOUS
<1>2. /\ OneSided(<<a>> \o <<>>) /\ Len(<<a>> \o <<>>) = Len(<<>>) + 1
      /\ Debited(<<a>> \o <<>>) = a.debit + Debited(<<>>)
      /\ Credited(<<a>> \o <<>>) = a.credit + Credited(<<>>)
  BY NoLines, LineBefore
<1>3. a.debit \in Int /\ a.credit \in Int
  BY DEF Line
<1>4. QED
  BY <1>1, <1>2, <1>3, NoLines

\* Lines that all stand on one side.
LEMMA LinesOnSide ==
  ASSUME NEW s \in Seq(Int)
  PROVE  /\ OneSided(Each(s, Cr)) /\ Len(Each(s, Cr)) = Len(s) /\ DOMAIN Each(s, Cr) = DOMAIN s
         /\ Debited(Each(s, Cr)) = 0 /\ Credited(Each(s, Cr)) = SumOver(s, DOMAIN s)
         /\ OneSided(Each(s, Dr)) /\ Len(Each(s, Dr)) = Len(s) /\ DOMAIN Each(s, Dr) = DOMAIN s
         /\ Credited(Each(s, Dr)) = 0 /\ Debited(Each(s, Dr)) = SumOver(s, DOMAIN s)
         /\ SumOver(s, DOMAIN s) \in Int
<1> DEFINE D == DOMAIN s
           c == [i \in D |-> [debit |-> 0, credit |-> s[i]]]
           d == [i \in D |-> [debit |-> s[i], credit |-> 0]]
<1>1. Each(s, Cr) = c /\ Each(s, Dr) = d
  BY Zenon DEF Each, Cr, Dr
<1>2. D = 1..Len(s) /\ Len(s) \in Nat /\ IsFiniteSet(D) /\ \A i \in D : s[i] \in Int
  BY PlacesFinite
<1>3. c \in Seq(Line) /\ Len(c) = Len(s) /\ d \in Seq(Line) /\ Len(d) = Len(s)
  BY <1>2 DEF Line
<1>4. OneSided(c) /\ OneSided(d) /\ DOMAIN c = D /\ DOMAIN d = D
  BY <1>3 DEF OneSided, Line
<1>5. /\ \A i \in D : DebitAt(c)[i] = 0 /\ CreditAt(d)[i] = 0
      /\ \A i \in D : s[i] \in Int /\ s[i] = CreditAt(c)[i]
      /\ \A i \in D : s[i] \in Int /\ s[i] = DebitAt(d)[i]
      /\ \A i \in D : s[i] \in Int
  BY <1>2 DEF DebitAt, CreditAt
<1>6. /\ Debited(c) = SumOver(DebitAt(c), D) /\ Credited(c) = SumOver(CreditAt(c), D)
      /\ Debited(d) = SumOver(DebitAt(d), D) /\ Credited(d) = SumOver(CreditAt(d), D)
  BY <1>4, SidesAdd, Zenon
<1> HIDE DEF D, c, d
<1>7. Cardinality(D) \in Nat
  BY <1>2, FS_CardinalityType
<1>8. SumOver(DebitAt(c), D) = 0 * Cardinality(D) /\ SumOver(CreditAt(d), D) = 0 * Cardinality(D)
  <2>1. SumOver(DebitAt(c), D) = 0 * Cardinality(D)
    <3> DEFINE f == DebitAt(c)
    <3>1. 0 \in Int /\ \A i \in D : f[i] = 0
      BY <1>5
    <3> HIDE DEF f
    <3>2. SumOver(f, D) = 0 * Cardinality(D)
      BY <1>2, <3>1, SumOfSame
    <3>3. QED
      BY <3>2 DEF f
  <2>2. SumOver(CreditAt(d), D) = 0 * Cardinality(D)
    <3> DEFINE f == CreditAt(d)
    <3>1. 0 \in Int /\ \A i \in D : f[i] = 0
      BY <1>5
    <3> HIDE DEF f
    <3>2. SumOver(f, D) = 0 * Cardinality(D)
      BY <1>2, <3>1, SumOfSame
    <3>3. QED
      BY <3>2 DEF f
  <2>3. QED
    BY <2>1, <2>2
<1>9. SumOver(s, D) = SumOver(CreditAt(c), D)
  BY <1>2, <1>5, SumSame
<1>10. SumOver(s, D) = SumOver(DebitAt(d), D)
  BY <1>2, <1>5, SumSame
<1>11. SumOver(s, D) \in Int
  BY <1>2, <1>5, SumIsInt
<1>12. Debited(c) = 0 /\ Credited(d) = 0
  BY <1>6, <1>7, <1>8
<1>13. QED
  BY <1>1, <1>3, <1>4, <1>6, <1>9, <1>10, <1>11, <1>12 DEF D

\* A total on one side, and lines on the other.
LEMMA TotalAndLines ==
  ASSUME NEW x \in Int, NEW s \in Seq(Int)
  PROVE  LET out == <<Dr(x)>> \o Each(s, Cr)
             in == <<Cr(x)>> \o Each(s, Dr)
         IN  /\ OneSided(out) /\ Len(out) = Len(s) + 1
             /\ Debited(out) = x /\ Credited(out) = SumOver(s, DOMAIN s)
             /\ OneSided(in) /\ Len(in) = Len(s) + 1
             /\ Credited(in) = x /\ Debited(in) = SumOver(s, DOMAIN s)
<1> DEFINE c == Each(s, Cr)
           d == Each(s, Dr)
           k == SumOver(s, DOMAIN s)
<1>1. /\ OneSided(c) /\ Len(c) = Len(s) /\ Debited(c) = 0 /\ Credited(c) = k
      /\ OneSided(d) /\ Len(d) = Len(s) /\ Debited(d) = k /\ Credited(d) = 0 /\ k \in Int
  BY LinesOnSide
<1>2. /\ Dr(x) \in Line /\ Dr(x).debit = x /\ Dr(x).credit = 0
      /\ Cr(x) \in Line /\ Cr(x).debit = 0 /\ Cr(x).credit = x
  BY SidesOfLine
<1> HIDE DEF c, d, k
<1>3. /\ OneSided(<<Dr(x)>> \o c) /\ Len(<<Dr(x)>> \o c) = Len(c) + 1
      /\ Debited(<<Dr(x)>> \o c) = Dr(x).debit + Debited(c)
      /\ Credited(<<Dr(x)>> \o c) = Dr(x).credit + Credited(c)
  BY <1>1, <1>2, LineBefore
<1>4. /\ OneSided(<<Cr(x)>> \o d) /\ Len(<<Cr(x)>> \o d) = Len(d) + 1
      /\ Debited(<<Cr(x)>> \o d) = Cr(x).debit + Debited(d)
      /\ Credited(<<Cr(x)>> \o d) = Cr(x).credit + Credited(d)
  BY <1>1, <1>2, LineBefore
<1>5. /\ OneSided(<<Dr(x)>> \o c) /\ Len(<<Dr(x)>> \o c) = Len(s) + 1
      /\ Debited(<<Dr(x)>> \o c) = x /\ Credited(<<Dr(x)>> \o c) = k
      /\ OneSided(<<Cr(x)>> \o d) /\ Len(<<Cr(x)>> \o d) = Len(s) + 1
      /\ Credited(<<Cr(x)>> \o d) = x /\ Debited(<<Cr(x)>> \o d) = k
  BY <1>1, <1>2, <1>3, <1>4
<1>6. QED
  BY <1>5 DEF c, d, k

\* The entry of a payroll run, and that of the employee profiles.
RunLines(gross, gosi, other, net) ==
  <<Dr(gross * Unit)>> \o LineIf(gosi) \o LineIf(other) \o <<Cr(net * Unit)>>

ProfileLines(gross, employee, employer) ==
  <<Dr(gross), Cr(gross - employee), Cr(employee + employer), Dr(employer)>>

\* What the deduction of an amount credits.
Deducted(x) == IF x > 0 THEN x * Unit ELSE 0

LEMMA DeductionBefore ==
  ASSUME NEW x \in Int, NEW t, OneSided(t)
  PROVE  /\ OneSided(LineIf(x) \o t) /\ Len(LineIf(x) \o t) \in Nat /\ Len(LineIf(x) \o t) >= Len(t)
         /\ Debited(LineIf(x) \o t) = Debited(t)
         /\ Credited(LineIf(x) \o t) = Deducted(x) + Credited(t)
         /\ Deducted(x) \in Int
<1>1. /\ x * Unit \in Int /\ Debited(t) \in Int /\ Credited(t) \in Int /\ Len(t) \in Nat
  BY UnitIs, SidesAreInt, OneSidedIs
<1>2. CASE x > 0
  <2>1. LineIf(x) = <<Cr(x * Unit)>>
    BY <1>2 DEF LineIf
  <2>2. Cr(x * Unit) \in Line /\ Cr(x * Unit).debit = 0 /\ Cr(x * Unit).credit = x * Unit
    BY <1>1, SidesOfLine
  <2>3. /\ OneSided(<<Cr(x * Unit)>> \o t) /\ Len(<<Cr(x * Unit)>> \o t) = Len(t) + 1
        /\ Debited(<<Cr(x * Unit)>> \o t) = Cr(x * Unit).debit + Debited(t)
        /\ Credited(<<Cr(x * Unit)>> \o t) = Cr(x * Unit).credit + Credited(t)
    BY <2>2, LineBefore
  <2>4. QED
    BY <1>1, <1>2, <2>1, <2>2, <2>3 DEF Deducted
<1>3. CASE ~(x > 0)
  <2>1. t \in Seq([debit : Int, credit : Int]) /\ LineIf(x) = <<>>
    BY <1>3 DEF LineIf, OneSided
  <2>2. LineIf(x) \o t = t
    BY <2>1
  <2>3. QED
    BY <1>1, <1>3, <2>2 DEF Deducted
<1>4. QED
  BY <1>2, <1>3

Joined(w, x, y, z) == ((w \o x) \o y) \o z
Nested(w, x, y, z) == w \o (x \o (y \o z))

LEMMA JoinedIs ==
  ASSUME NEW w \in Seq(Line), NEW x \in Seq(Line), NEW y \in Seq(Line), NEW z \in Seq(Line)
  PROVE  Joined(w, x, y, z) = Nested(w, x, y, z)
<1> DEFINE p == w \o x
           q == y \o z
<1>1. p \in Seq(Line) /\ q \in Seq(Line)
  OBVIOUS
<1>2. (p \o y) \o z = p \o (y \o z)
  <2> HIDE DEF p
  <2>1. QED
    BY <1>1, SMTT(30)
<1>3. (w \o x) \o q = w \o (x \o q)
  <2> HIDE DEF q
  <2>1. QED
    BY <1>1, SMTT(30)
<1>4. QED
  BY <1>2, <1>3, Zenon DEF Joined, Nested

LEMMA RunLinesAre ==
  ASSUME NEW gross \in Int, NEW gosi \in Int, NEW other \in Int, NEW net \in Int
  PROVE  LET lines == RunLines(gross, gosi, other, net)
         IN  /\ OneSided(lines) /\ Len(lines) >= 2
             /\ Debited(lines) = gross * Unit
             /\ Credited(lines) = Deducted(gosi) + (Deducted(other) + net * Unit)
<1> DEFINE g == Dr(gross * Unit)
           c == <<Cr(net * Unit)>>
           o == LineIf(other) \o c
           p == LineIf(gosi) \o o
<1>1. gross * Unit \in Int /\ net * Unit \in Int
  BY UnitIs
<1>2. OneSided(c) /\ Len(c) = 1 /\ Debited(c) = 0 /\ Credited(c) = net * Unit
  BY <1>1, SidesOfLine, OneLine
<1> HIDE DEF c
<1>3. /\ OneSided(o) /\ Len(o) \in Nat /\ Len(o) >= 1 /\ Debited(o) = 0
      /\ Credited(o) = Deducted(other) + net * Unit
  <2>1. /\ OneSided(o) /\ Len(o) \in Nat /\ Len(o) >= Len(c) /\ Debited(o) = Debited(c)
        /\ Credited(o) = Deducted(other) + Credited(c)
    BY <1>2, DeductionBefore
  <2>2. QED
    BY <1>2, <2>1
<1> HIDE DEF o
<1>4. /\ OneSided(p) /\ Len(p) \in Nat /\ Len(p) >= 1 /\ Debited(p) = 0
      /\ Credited(p) = Deducted(gosi) + (Deducted(other) + net * Unit)
  <2>1. /\ OneSided(p) /\ Len(p) \in Nat /\ Len(p) >= Len(o) /\ Debited(p) = Debited(o)
        /\ Credited(p) = Deducted(gosi) + Credited(o)
    BY <1>3, DeductionBefore
  <2>2. QED
    BY <1>3, <2>1
<1> HIDE DEF p
<1>5. g \in Line /\ g.debit = gross * Unit /\ g.credit = 0
  BY <1>1, SidesOfLine
<1> HIDE DEF g
<1>6. /\ OneSided(<<g>> \o p) /\ Len(<<g>> \o p) = Len(p) + 1
      /\ Debited(<<g>> \o p) = g.debit + Debited(p)
      /\ Credited(<<g>> \o p) = g.credit + Credited(p)
  BY <1>4, <1>5, LineBefore
<1>7. RunLines(gross, gosi, other, net) = <<g>> \o p
  <2> DEFINE a == <<g>>
             b == LineIf(gosi)
             d == LineIf(other)
  <2>1. a \in Seq(Line) /\ b \in Seq(Line) /\ d \in Seq(Line) /\ c \in Seq(Line)
    <3>1. gosi * Unit \in Int /\ other * Unit \in Int
      BY UnitIs
    <3>2. Cr(gosi * Unit) \in Line /\ Cr(other * Unit) \in Line
      BY <3>1, SidesOfLine
    <3>3. c \in Seq(Line)
      BY <1>2 DEF OneSided, Line
    <3>4. \A x \in Line : <<x>> \in Seq(Line)
      OBVIOUS
    <3>5. <<>> \in Seq(Line)
      OBVIOUS
    <3>6. QED
      BY <1>5, <3>2, <3>3, <3>4, <3>5 DEF LineIf
  <2> HIDE DEF a, b, c, d
  <2>2. Joined(a, b, d, c) = Nested(a, b, d, c)
    BY <2>1, JoinedIs
  <2>3. QED
    BY <2>2, Zenon DEF Joined, Nested, RunLines, a, b, d, c, o, p, g
<1>8. Debited(p) = 0 /\ Credited(p) \in Int /\ Debited(p) \in Int
  BY <1>4, SidesAreInt
<1>9. Len(<<g>> \o p) >= 2
  BY <1>2, <1>3, <1>4, <1>6
<1>10. QED
  BY <1>1, <1>4, <1>5, <1>6, <1>7, <1>8, <1>9

LEMMA PlaceBefore ==
  ASSUME NEW T, NEW a \in T, NEW t \in Seq(T)
  PROVE  (<<a>> \o t)[1] = a /\ \A i \in DOMAIN t : (<<a>> \o t)[i + 1] = t[i]
  OBVIOUS

LEMMA FourAre ==
  ASSUME NEW T, NEW a \in T, NEW b \in T, NEW c \in T, NEW d \in T, NEW s \in Seq(T),
         Len(s) = 4, s[1] = a, s[2] = b, s[3] = c, s[4] = d
  PROVE  s = <<a, b, c, d>>
<1>1. s = [i \in 1..4 |-> s[i]] /\ <<a, b, c, d>> = [i \in 1..4 |-> <<a, b, c, d>>[i]]
  OBVIOUS
<1>2. \A i \in 1..4 : i = 1 \/ i = 2 \/ i = 3 \/ i = 4
  OBVIOUS
<1>3. \A i \in 1..4 : s[i] = <<a, b, c, d>>[i]
  BY <1>2
<1>4. QED
  BY <1>1, <1>3, Zenon

LEMMA ProfileLinesAre ==
  ASSUME NEW gross \in Int, NEW employee \in Int, NEW employer \in Int
  PROVE  LET lines == ProfileLines(gross, employee, employer)
         IN  /\ OneSided(lines) /\ Len(lines) = 4
             /\ Debited(lines) = gross + employer /\ Credited(lines) = gross + employer
<1> DEFINE a == Dr(gross)
           b == Cr(gross - employee)
           c == Cr(employee + employer)
           d == Dr(employer)
<1>1. gross - employee \in Int /\ employee + employer \in Int
  OBVIOUS
<1>2. /\ a \in Line /\ a.debit = gross /\ a.credit = 0
      /\ b \in Line /\ b.debit = 0 /\ b.credit = gross - employee
      /\ c \in Line /\ c.debit = 0 /\ c.credit = employee + employer
      /\ d \in Line /\ d.debit = employer /\ d.credit = 0
  BY <1>1, SidesOfLine
<1> HIDE DEF a, b, c, d
<1>3. OneSided(<<d>>) /\ Len(<<d>>) = 1 /\ Debited(<<d>>) = employer /\ Credited(<<d>>) = 0
  BY <1>2, OneLine
<1> DEFINE t == <<c>> \o <<d>>
           u == <<b>> \o t
           v == <<a>> \o u
<1>4. OneSided(t) /\ Len(t) = 2 /\ Debited(t) = employer /\ Credited(t) = employee + employer
  <2>1. /\ OneSided(t) /\ Len(t) = Len(<<d>>) + 1 /\ Debited(t) = c.debit + Debited(<<d>>)
        /\ Credited(t) = c.credit + Credited(<<d>>)
    BY <1>2, <1>3, LineBefore
  <2>2. QED
    BY <1>2, <1>3, <2>1
<1> HIDE DEF t
<1>5. OneSided(u) /\ Len(u) = 3 /\ Debited(u) = employer /\ Credited(u) = gross + employer
  <2>1. /\ OneSided(u) /\ Len(u) = Len(t) + 1 /\ Debited(u) = b.debit + Debited(t)
        /\ Credited(u) = b.credit + Credited(t)
    BY <1>2, <1>4, LineBefore
  <2>2. QED
    BY <1>2, <1>4, <2>1
<1> HIDE DEF u
<1>6. OneSided(v) /\ Len(v) = 4 /\ Debited(v) = gross + employer /\ Credited(v) = gross + employer
  <2>1. /\ OneSided(v) /\ Len(v) = Len(u) + 1 /\ Debited(v) = a.debit + Debited(u)
        /\ Credited(v) = a.credit + Credited(u)
    BY <1>2, <1>5, LineBefore
  <2>2. QED
    BY <1>2, <1>5, <2>1
<1>7. ProfileLines(gross, employee, employer) = v
  <2>1. t[1] = c /\ t[2] = d
    <3>1. 1 \in DOMAIN <<d>> /\ <<d>>[1] = d /\ 1 + 1 = 2
      OBVIOUS
    <3>2. t[1] = c /\ t[1 + 1] = <<d>>[1]
      BY <1>2, <1>3, <3>1, LineBefore DEF t
    <3>3. QED
      BY <3>1, <3>2
  <2>2. u[1] = b /\ u[2] = c /\ u[3] = d
    <3>1. 1 \in DOMAIN t /\ 2 \in DOMAIN t
      BY <1>4, OneSidedIs
    <3>2. b \in Line /\ t \in Seq(Line)
      BY <1>2, <1>4 DEF OneSided, Line
    <3>3. u[1] = b /\ u[1 + 1] = t[1] /\ u[2 + 1] = t[2]
      BY <3>1, <3>2, PlaceBefore DEF u
    <3>4. QED
      BY <2>1, <3>3
  <2>3. v[1] = a /\ v[2] = b /\ v[3] = c /\ v[4] = d
    <3>1. 1 \in DOMAIN u /\ 2 \in DOMAIN u /\ 3 \in DOMAIN u
      BY <1>5, OneSidedIs
    <3>2. a \in Line /\ u \in Seq(Line)
      BY <1>2, <1>5 DEF OneSided, Line
    <3>3. v[1] = a /\ v[1 + 1] = u[1] /\ v[2 + 1] = u[2] /\ v[3 + 1] = u[3]
      BY <3>1, <3>2, PlaceBefore
    <3> HIDE DEF v
    <3>4. QED
      BY <2>2, <3>3
  <2>4. v \in Seq(Line)
    BY <1>6 DEF OneSided, Line
  <2> HIDE DEF v
  <2>5. v = <<a, b, c, d>>
    BY <1>2, <1>6, <2>3, <2>4, FourAre
  <2>6. QED
    BY <2>5 DEF ProfileLines, a, b, c, d
<1>8. QED
  BY <1>6, <1>7

-----------------------------------------------------------------------------

Item == [quantity : Nat, price : Nat, tax : Nat]
Payee == [basic : Nat, housing : Nat, transport : Nat, contract : Nat, bonus : Int, other : Int]

\* The rows CreateInvoice and CreatePayrollRun make.
InvoiceOf(i) ==
  [kind |-> "invoice",
   taxTotal |-> Cents(Added(i.lines, TaxOf)),
   total |-> Cents(Added(i.lines, LineTotal)),
   lines |-> Each(i.lines, LAMBDA l : Cents(LineTotal(l)))]

RunOf(staff) ==
  [kind |-> "run",
   gross |-> Cents(Added(staff, Gross)), gosi |-> Cents(Added(staff, Gosi)),
   other |-> Cents(Added(staff, Other)), net |-> Cents(Added(staff, Net)),
   slips |-> Each(staff, LAMBDA p :
               [gross |-> Cents(Gross(p)), gosi |-> Cents(Gosi(p)),
                other |-> Cents(Other(p)), net |-> Cents(Net(p))])]

\* The lines an approval hands to JournalEntriesService.create.
InvoiceEntry ==
  IF Receivable(input.of.type)
  THEN <<Dr(InBase(document.total))>> \o Each(Each(document.lines, InBase), Cr)
  ELSE <<Cr(InBase(document.total))>> \o Each(Each(document.lines, InBase), Dr)

RunEntry == RunLines(document.gross, document.gosi, document.other, document.net)

ProfilesEntry ==
  ProfileLines(Added(input.of, Salary), Added(input.of, EmployeeGosi), Added(input.of, EmployerGosi))

EntryHere ==
  IF input.kind = "invoice" THEN InvoiceEntry
  ELSE IF input.kind = "run" THEN RunEntry ELSE ProfilesEntry

InvoiceInput == input.kind = "invoice" /\ input.of \in InvoiceInputs
RunInput == input.kind = "run" /\ input.of \in StaffInputs
ProfilesInput == input.kind = "profiles" /\ input.of \in StaffInputs

\* The document is made of the input it stands for.
MadeOfInput ==
  \/ InvoiceInput /\ document \in {NoDocument, InvoiceOf(input.of)}
  \/ RunInput /\ document \in {NoDocument, RunOf(input.of)}
  \/ ProfilesInput /\ document = NoDocument

\* What could be posted has been, once it was approved.
Decided ==
  /\ status \in {"new", "draft", "approved", "refused"}
  /\ status = "new" => document = NoDocument
  /\ status \in {"draft", "approved"} /\ document = NoDocument => ProfilesInput
  /\ status = "refused" /\ InvoiceInput => document # NoDocument
  /\ status # "approved" => kept = <<>>
  /\ status = "approved" => Accepted(EntryHere) /\ kept = Kept(EntryHere)
  /\ status = "refused" => ~(Accepted(EntryHere) /\ Payable)

AmountsInv == MadeOfInput /\ Decided

-----------------------------------------------------------------------------

LEMMA AmountsInitInv == AmountsInit => AmountsInv
<1> SUFFICES ASSUME AmountsInit PROVE AmountsInv
  OBVIOUS
<1>1. InvoiceInput \/ RunInput \/ ProfilesInput
  BY DEF AmountsInit, InvoiceInput, RunInput, ProfilesInput
<1>2. QED
  BY <1>1 DEF AmountsInit, AmountsInv, MadeOfInput, Decided

LEMMA EntryStays ==
  ASSUME UNCHANGED <<input, document>>
  PROVE  EntryHere' = EntryHere
<1>1. input' = input /\ document' = document
  OBVIOUS
<1> DEFINE base == Each(document.lines, InBase)
<1>2. base' = base
  BY <1>1 DEF Each, InBase
<1>3. /\ Each(base, Cr)' = Each(base, Cr)
      /\ Each(base, Dr)' = Each(base, Dr)
  <2> HIDE DEF base
  <2>1. QED
    BY <1>2 DEF Each, Cr, Dr
<1>4. InBase(document.total)' = InBase(document.total)
  BY <1>1 DEF InBase
<1>5. InvoiceEntry' = InvoiceEntry
  BY <1>1, <1>3, <1>4 DEF InvoiceEntry
<1>6. RunEntry' = RunEntry
  BY <1>1 DEF RunEntry
<1>7. ProfilesEntry' = ProfilesEntry
  BY <1>1 DEF ProfilesEntry, Added, Each
<1>8. QED
  BY <1>1, <1>5, <1>6, <1>7 DEF EntryHere

\* What is posted depends on the input and the document alone.
LEMMA PostingDecides ==
  ASSUME MadeOfInput, Posting(EntryHere), UNCHANGED <<input, document>>, document = NoDocument => ProfilesInput
  PROVE  AmountsInv'
<1>1. EntryHere' = EntryHere /\ input' = input /\ document' = document
  BY EntryStays
<1>2. MadeOfInput' /\ (InvoiceInput' <=> InvoiceInput) /\ (ProfilesInput' <=> ProfilesInput)
  BY <1>1 DEF MadeOfInput, InvoiceInput, RunInput, ProfilesInput
<1>3. ~(InvoiceInput /\ ProfilesInput)
  BY DEF InvoiceInput, ProfilesInput
<1>4. /\ status' = IF Accepted(EntryHere) THEN "approved" ELSE "refused"
      /\ kept' = IF Accepted(EntryHere) THEN Kept(EntryHere) ELSE <<>>
  BY DEF Posting
<1>5. Decided'
  BY <1>1, <1>2, <1>3, <1>4, Zenon DEF Decided
<1>6. QED
  BY <1>2, <1>5 DEF AmountsInv

LEMMA NoneIs ==
  /\ NoDocument.kind = "none"
  /\ \A i : InvoiceOf(i).kind = "invoice" /\ InvoiceOf(i) # NoDocument
  /\ \A s : RunOf(s).kind = "run" /\ RunOf(s) # NoDocument
<1>1. /\ NoDocument.kind = "none"
      /\ \A i : InvoiceOf(i).kind = "invoice"
      /\ \A s : RunOf(s).kind = "run"
  BY DEF NoDocument, InvoiceOf, RunOf
<1>2. QED
  BY <1>1

LEMMA AmountsInductive == AmountsInv /\ [AmountsNext]_amountVars => AmountsInv'
<1> SUFFICES ASSUME AmountsInv, [AmountsNext]_amountVars PROVE AmountsInv'
  OBVIOUS
<1>1. MadeOfInput /\ Decided
  BY DEF AmountsInv
<1>2. CASE CreateInvoice
  <2>1. /\ status = "new" /\ input.kind = "invoice" /\ input' = input
        /\ status' = "draft" /\ kept' = kept /\ document' = InvoiceOf(input.of)
    BY <1>2 DEF CreateInvoice, InvoiceOf
  <2>2. InvoiceInput /\ InvoiceInput' /\ document' # NoDocument
    BY <1>1, <2>1, NoneIs DEF MadeOfInput, InvoiceInput, RunInput, ProfilesInput
  <2>3. MadeOfInput'
    BY <2>1, <2>2 DEF MadeOfInput
  <2>4. Decided'
    BY <1>1, <2>1, <2>2 DEF Decided
  <2>5. QED
    BY <2>3, <2>4 DEF AmountsInv
<1>3. CASE ApproveInvoice
  <2>1. document.kind = "invoice" /\ UNCHANGED <<input, document>>
    BY <1>3 DEF ApproveInvoice, Posting
  <2>2. InvoiceInput /\ document = InvoiceOf(input.of)
    BY <1>1, <2>1, NoneIs DEF MadeOfInput
  <2>3. EntryHere = InvoiceEntry
    BY <2>2 DEF EntryHere, InvoiceInput
  <2>4. Posting(InvoiceEntry)
    BY <1>3, Zenon DEF ApproveInvoice, InvoiceEntry
  <2>5. document # NoDocument
    BY <2>2, NoneIs
  <2>6. QED
    BY <1>1, <2>1, <2>3, <2>4, <2>5, PostingDecides
<1>4. CASE CreatePayrollRun
  <2>1. status = "new" /\ input.kind = "run" /\ input' = input /\ kept' = kept
    BY <1>4 DEF CreatePayrollRun
  <2>2. RunInput /\ RunInput' /\ ~InvoiceInput' /\ document = NoDocument /\ kept = <<>>
    BY <1>1, <2>1 DEF MadeOfInput, InvoiceInput, RunInput, ProfilesInput, Decided
  <2>3. \/ document' = RunOf(input.of) /\ status' = "draft"
        \/ document' = document /\ status' = "refused"
    BY <1>4 DEF CreatePayrollRun, RunOf
  <2>4. CASE document' = RunOf(input.of) /\ status' = "draft"
    <3>1. document' # NoDocument
      BY <2>4, NoneIs
    <3>2. MadeOfInput'
      BY <2>1, <2>2, <2>4 DEF MadeOfInput
    <3>3. Decided'
      BY <2>1, <2>2, <2>4, <3>1 DEF Decided
    <3>4. QED
      BY <3>2, <3>3 DEF AmountsInv
  <2>5. CASE document' = document /\ status' = "refused"
    <3>1. ~Payable'
      BY <2>1, <2>2, <2>5, NoneIs DEF Payable
    <3>2. MadeOfInput'
      BY <2>1, <2>2, <2>5 DEF MadeOfInput
    <3>3. Decided'
      BY <2>1, <2>2, <2>5, <3>1 DEF Decided
    <3>4. QED
      BY <3>2, <3>3 DEF AmountsInv
  <2>6. QED
    BY <2>3, <2>4, <2>5
<1>5. CASE ApprovePayrollRun
  <2>1. document.kind = "run" /\ UNCHANGED <<input, document>>
    BY <1>5 DEF ApprovePayrollRun, Posting
  <2>2. RunInput /\ document = RunOf(input.of)
    BY <1>1, <2>1, NoneIs DEF MadeOfInput
  <2>3. EntryHere = RunEntry
    BY <2>2 DEF EntryHere, RunInput
  <2>4. Posting(RunEntry)
    BY <1>5, Zenon DEF ApprovePayrollRun, RunEntry, RunLines
  <2>5. document # NoDocument
    BY <2>2, NoneIs
  <2>6. QED
    BY <1>1, <2>1, <2>3, <2>4, <2>5, PostingDecides
<1>6. CASE ProcessPayroll
  <2>1. input.kind = "profiles" /\ UNCHANGED <<input, document>>
    BY <1>6 DEF ProcessPayroll, Posting
  <2>2. ProfilesInput
    BY <1>1, <2>1 DEF MadeOfInput, InvoiceInput, RunInput, ProfilesInput
  <2>3. EntryHere = ProfilesEntry
    BY <2>1 DEF EntryHere
  <2>4. Posting(ProfilesEntry)
    BY <1>6, Zenon DEF ProcessPayroll, ProfilesEntry, ProfileLines
  <2>5. QED
    BY <1>1, <2>1, <2>2, <2>3, <2>4, PostingDecides
<1>7. CASE NoProfiles
  <2>1. /\ input = [kind |-> "profiles", of |-> <<>>] /\ status' = "refused" /\ status = "new"
        /\ input' = input /\ document' = document /\ kept' = kept
    BY <1>7 DEF NoProfiles
  <2>2. ProfilesInput /\ ~InvoiceInput' /\ kept = <<>>
    BY <1>1, <2>1 DEF MadeOfInput, InvoiceInput, RunInput, ProfilesInput, Decided
  <2>3. ~Payable'
    BY <2>1 DEF Payable
  <2>4. MadeOfInput'
    BY <1>1, <2>1 DEF MadeOfInput, InvoiceInput, RunInput, ProfilesInput
  <2>5. Decided'
    BY <2>1, <2>2, <2>3 DEF Decided
  <2>6. QED
    BY <2>4, <2>5 DEF AmountsInv
<1>8. CASE UNCHANGED amountVars
  <2>1. input' = input /\ document' = document /\ kept' = kept /\ status' = status
    BY <1>8 DEF amountVars
  <2>2. EntryHere' = EntryHere
    BY <2>1, EntryStays
  <2>3. Payable' <=> Payable
    BY <2>1 DEF Payable
  <2>4. MadeOfInput' /\ (InvoiceInput' <=> InvoiceInput) /\ (ProfilesInput' <=> ProfilesInput)
    BY <1>1, <2>1 DEF MadeOfInput, InvoiceInput, RunInput, ProfilesInput
  <2>5. Decided'
    BY <1>1, <2>1, <2>2, <2>3, <2>4 DEF Decided
  <2>6. QED
    BY <2>4, <2>5 DEF AmountsInv
<1>9. QED
  BY <1>2, <1>3, <1>4, <1>5, <1>6, <1>7, <1>8 DEF AmountsNext

LEMMA AmountsInvariant == AmountsSpec => []AmountsInv
  BY AmountsInitInv, AmountsInductive, PTL DEF AmountsSpec

-----------------------------------------------------------------------------

LEMMA PayeeIs ==
  ASSUME NEW p \in Payee
  PROVE  /\ p.basic + p.housing + p.transport + p.bonus \in Int /\ p.other \in Int
         /\ Gross(p) = (p.basic + p.housing + p.transport + p.bonus) * Unit /\ Other(p) = p.other * Unit
         /\ Gross(p) = Unit * (p.basic + p.housing + p.transport + p.bonus) /\ Other(p) = Unit * p.other
         /\ Gross(p) \in Int /\ Gosi(p) \in Nat /\ Other(p) \in Int /\ Net(p) \in Int
         /\ Net(p) = Gross(p) - Gosi(p) - Other(p)
<1>1. /\ p.basic \in Nat /\ p.housing \in Nat /\ p.transport \in Nat /\ p.bonus \in Int /\ p.other \in Int
      /\ GosiCeiling \in Nat
  BY AmountsAssumption DEF Payee
<1>2. Unit \in Nat /\ Unit \div 10 \in Nat
  <2>1. PICK u \in Nat : Unit = 10000 * u
    BY UnitIs
  <2>2. QED
    BY <2>1
<1>3. Smaller(p.basic + p.housing, GosiCeiling) \in Nat
  BY <1>1 DEF Smaller
<1>4. Gosi(p) \in Nat
  <2> DEFINE x == Smaller(p.basic + p.housing, GosiCeiling)
             y == Unit \div 10
  <2>1. x \in Nat /\ y \in Nat
    BY <1>2, <1>3
  <2> HIDE DEF x, y
  <2>2. x * y \in Nat
    BY <2>1
  <2>3. QED
    BY <2>2 DEF Gosi, x, y
<1> DEFINE g == p.basic + p.housing + p.transport + p.bonus
<1>5. g \in Int
  BY <1>1
<1>6. Gross(p) = g * Unit /\ Other(p) = p.other * Unit /\ Net(p) = Gross(p) - Gosi(p) - Other(p)
  BY DEF Gross, Other, Net
<1> HIDE DEF g
<1>7. /\ g * Unit \in Int /\ p.other * Unit \in Int /\ g * Unit = Unit * g /\ p.other * Unit = Unit * p.other
  BY <1>1, <1>2, <1>5
<1>8. QED
  BY <1>1, <1>4, <1>5, <1>6, <1>7 DEF g

\* A payslip pays what the wage protection file says, to the cent.
LEMMA SlipIsClose ==
  ASSUME RunInput, document = RunOf(input.of), NEW i \in DOMAIN document.slips
  PROVE  Size(SifLine(i).paid - SifLine(i).net) <= 1
<1> DEFINE p == input.of[i]
           slip == document.slips[i]
           g == p.basic + p.housing + p.transport + p.bonus
           c == Cents(Gosi(p))
           n == Cents(Net(p))
<1>1. input.of \in Seq(Payee)
  BY AmountsAssumption DEF RunInput, Payee
<1>2. document.slips = [j \in DOMAIN input.of |->
                          [gross |-> Cents(Gross(input.of[j])), gosi |-> Cents(Gosi(input.of[j])),
                           other |-> Cents(Other(input.of[j])), net |-> Cents(Net(input.of[j]))]]
  BY DEF RunOf, Each
<1>3. i \in DOMAIN input.of /\ p \in Payee
  BY <1>1, <1>2
<1>4. slip = [gross |-> Cents(Gross(p)), gosi |-> c, other |-> Cents(Other(p)), net |-> n]
  BY <1>2, <1>3
<1>5. /\ p.basic \in Nat /\ p.housing \in Nat /\ p.transport \in Nat /\ p.bonus \in Int /\ p.other \in Int
  BY <1>3 DEF Payee
<1>6. /\ g \in Int /\ Gross(p) = g * Unit /\ Other(p) = p.other * Unit
      /\ Gosi(p) \in Nat /\ Net(p) \in Int /\ Net(p) = Gross(p) - Gosi(p) - Other(p)
  BY <1>3, PayeeIs
<1>7. Cents(Gross(p)) = g /\ Cents(Other(p)) = p.other
  BY <1>5, <1>6, CentsOfWhole
<1>8. /\ c \in Int /\ (2 * Unit) * c \in Int
      /\ (2 * Unit) * c <= 2 * Gosi(p) + Unit /\ 2 * Gosi(p) - Unit <= (2 * Unit) * c
      /\ n \in Int /\ (2 * Unit) * n \in Int
      /\ (2 * Unit) * n <= 2 * Net(p) + Unit /\ 2 * Net(p) - Unit <= (2 * Unit) * n
  BY <1>6, CentsIs
<1> DEFINE paid == g - (c + p.other)
<1>9. SifLine(i).paid = paid /\ SifLine(i).net = n /\ paid \in Int
  <2>1. /\ SifLine(i).paid = p.basic + p.housing + (slip.gross - p.basic - p.housing) - (slip.gosi + slip.other)
        /\ SifLine(i).net = slip.net
    BY DEF SifLine
  <2>2. slip.gross = g /\ slip.gosi = c /\ slip.other = p.other /\ slip.net = n
    BY <1>4, <1>7
  <2> HIDE DEF slip, g, c, n
  <2>3. QED
    BY <1>5, <1>6, <1>8, <2>1, <2>2
<1> DEFINE U == 2 * Unit
<1>10. U \in Nat /\ U > 0 /\ Unit \in Nat /\ U = 2 * Unit
  BY UnitIs
<1>11. U * paid = 2 * (Gross(p) - Other(p)) - U * c
  <2>1. U * paid = U * g - U * c - U * p.other
    <3> HIDE DEF U, g, c
    <3>1. QED
      BY <1>5, <1>6, <1>8, <1>10 
  <2>2. U * g = 2 * (g * Unit) /\ U * p.other = 2 * (p.other * Unit)
    <3> HIDE DEF g
    <3>1. QED
      BY <1>5, <1>6, <1>10
  <2>3. g * Unit \in Int /\ p.other * Unit \in Int /\ U * c \in Int
    BY <1>5, <1>6, <1>8, <1>10
  <2> HIDE DEF U, g, c, paid
  <2>4. QED
    BY <1>6, <2>1, <2>2, <2>3
<1>12. U * paid <= U * n + U * 1 /\ U * n <= U * paid + U * 1
  <2> DEFINE x == U * c
             y == U * n
             a == Gross(p) - Other(p)
  <2>1. a \in Int /\ x \in Int /\ y \in Int /\ Net(p) = a - Gosi(p) /\ U * 1 = 2 * Unit
    <3>1. Gross(p) \in Int /\ Other(p) \in Int
      BY <1>3, PayeeIs
    <3>2. QED
      BY <1>6, <1>8, <1>10, <3>1
  <2>2. /\ x <= 2 * Gosi(p) + Unit /\ 2 * Gosi(p) - Unit <= x
        /\ y <= 2 * Net(p) + Unit /\ 2 * Net(p) - Unit <= y
    BY <1>8
  <2>3. U * paid = 2 * a - x
    BY <1>11
  <2> HIDE DEF x, y, a, U, paid
  <2>4. U * paid <= y + U * 1 /\ y <= U * paid + U * 1
    BY <1>6, <1>10, <2>1, <2>2, <2>3
  <2>5. QED
    BY <2>4 DEF y
<1>13. paid - n <= 1 /\ n - paid <= 1
  <2> HIDE DEF U, paid, n
  <2>1. paid \in Int /\ n \in Int /\ 1 \in Nat
    BY <1>8, <1>9
  <2>2. QED
    BY <1>10, <1>12, <2>1, ApartAtMost
<1> HIDE DEF paid, n
<1>14. QED
  BY <1>8, <1>9, <1>13 DEF Size

\* The totals of a run.
LEMMA StaffIs ==
  ASSUME NEW staff \in StaffInputs
  PROVE  /\ Added(staff, Gosi) \in Nat /\ Added(staff, Net) \in Int
         /\ \E g \in Int : Added(staff, Gross) = g * Unit
         /\ \E o \in Int : Added(staff, Other) = o * Unit
         /\ Added(staff, Net) = Added(staff, Gross) - Added(staff, Gosi) - Added(staff, Other)
<1> DEFINE D == DOMAIN staff
           gross == [i \in D |-> Gross(staff[i])]
           gosi == [i \in D |-> Gosi(staff[i])]
           other == [i \in D |-> Other(staff[i])]
           net == [i \in D |-> Net(staff[i])]
           less == [i \in D |-> net[i] + gosi[i]]
           g == [i \in D |-> staff[i].basic + staff[i].housing + staff[i].transport + staff[i].bonus]
           o == [i \in D |-> staff[i].other]
<1>1. staff \in Seq(Payee)
  BY AmountsAssumption DEF Payee
<1>2. IsFiniteSet(D) /\ \A i \in D : staff[i] \in Payee
  BY <1>1, PlacesFinite
<1>3. /\ Added(staff, Gross) = SumOver(gross, D) /\ Added(staff, Gosi) = SumOver(gosi, D)
      /\ Added(staff, Other) = SumOver(other, D) /\ Added(staff, Net) = SumOver(net, D)
  BY Zenon DEF Added, Each
<1>4. Unit \in Int
  BY UnitIs
<1>5. \A i \in D : /\ gross[i] \in Int /\ gosi[i] \in Nat /\ other[i] \in Int /\ net[i] \in Int
                   /\ net[i] = gross[i] - gosi[i] - other[i]
                   /\ g[i] \in Int /\ gross[i] = Unit * g[i] /\ o[i] \in Int /\ other[i] = Unit * o[i]
  BY <1>2, PayeeIs
<1>6. \A i \in D : less[i] = net[i] + gosi[i]
  OBVIOUS
<1> HIDE DEF D, gross, gosi, other, net, less, g, o
<1>7. /\ \A i \in D : gosi[i] \in Int /\ net[i] \in Int /\ less[i] = net[i] + gosi[i]
      /\ \A i \in D : less[i] \in Int /\ other[i] \in Int /\ gross[i] = less[i] + other[i]
      /\ \A i \in D : g[i] \in Int /\ gross[i] = Unit * g[i]
      /\ \A i \in D : o[i] \in Int /\ other[i] = Unit * o[i]
      /\ \A i \in D : gosi[i] \in Nat
      /\ \A i \in D : net[i] \in Int
      /\ \A i \in D : other[i] \in Int
      /\ \A i \in D : g[i] \in Int
      /\ \A i \in D : o[i] \in Int
  BY <1>5, <1>6
<1>8. SumOver(less, D) = SumOver(net, D) + SumOver(gosi, D)
  BY <1>2, <1>7, SumPlus
<1>9. SumOver(gross, D) = SumOver(less, D) + SumOver(other, D)
  BY <1>2, <1>7, SumPlus
<1>10. SumOver(gross, D) = Unit * SumOver(g, D)
  BY <1>2, <1>4, <1>7, SumTimes
<1>11. SumOver(other, D) = Unit * SumOver(o, D)
  BY <1>2, <1>4, <1>7, SumTimes
<1>12. /\ SumOver(gosi, D) \in Nat /\ SumOver(net, D) \in Int /\ SumOver(other, D) \in Int
       /\ SumOver(g, D) \in Int /\ SumOver(o, D) \in Int
  BY <1>2, <1>7, SumIsInt, SumIsNat
<1>13. Unit * SumOver(g, D) = SumOver(g, D) * Unit /\ Unit * SumOver(o, D) = SumOver(o, D) * Unit
  BY <1>4, <1>12
<1>14. SumOver(net, D) = SumOver(gross, D) - SumOver(gosi, D) - SumOver(other, D)
  BY <1>8, <1>9, <1>12
<1>15. QED
  BY <1>3, <1>10, <1>11, <1>12, <1>13, <1>14

LEMMA Spread ==
  ASSUME NEW b \in Nat, NEW t \in Nat, NEW u \in Nat
  PROVE  (b + t) * (10000 * u) = 10000 * (b * u) + 10000 * (t * u)
<1>1. (b + t) * u = b * u + t * u /\ b * u \in Nat /\ t * u \in Nat
  OBVIOUS
<1>2. (b + t) * (10000 * u) = 10000 * ((b + t) * u)
  OBVIOUS
<1>3. QED
  BY <1>1, <1>2

LEMMA PayeeGosi ==
  ASSUME NEW p \in Payee
  PROVE  /\ Salary(p) \in Nat /\ EmployeeGosi(p) \in Nat /\ EmployerGosi(p) \in Nat
         /\ EmployeeGosi(p) <= Salary(p)
         /\ p.basic + p.housing + p.transport \in Nat
         /\ Salary(p) = Unit * (p.basic + p.housing + p.transport)
<1>1. PICK u \in Nat : u > 0 /\ Unit = 10000 * u
  BY UnitIs
<1>2. Unit \div 10000 = u
  BY <1>1
<1>3. p.basic \in Nat /\ p.housing \in Nat /\ p.transport \in Nat
  BY DEF Payee
<1> DEFINE b == p.basic + p.housing
           k == b * u
           t == p.transport * u
<1>4. b \in Nat
  BY <1>3
<1>5. k \in Nat /\ t \in Nat
  <2> HIDE DEF b
  <2>1. QED
    BY <1>3, <1>4
<1>6. EmployeeGosi(p) = k * 975 /\ EmployerGosi(p) = k * 1150
  BY <1>2 DEF EmployeeGosi, EmployerGosi, GosiBase
<1>7. Salary(p) = 10000 * k + 10000 * t
  <2>1. Salary(p) = (b + p.transport) * (10000 * u)
    BY <1>1 DEF Salary
  <2> DEFINE r == p.transport
  <2>2. r \in Nat /\ b \in Nat /\ u \in Nat
    BY <1>3, <1>4
  <2> HIDE DEF b, r
  <2>3. (b + r) * (10000 * u) = 10000 * (b * u) + 10000 * (r * u)
    BY <2>2, Spread
  <2>4. QED
    BY <2>1, <2>3 DEF r
<1>8. Salary(p) = Unit * (p.basic + p.housing + p.transport)
  BY <1>3, UnitIs DEF Salary
<1> HIDE DEF k, t
<1>9. QED
  BY <1>3, <1>5, <1>6, <1>7, <1>8

\* The totals of the employee profiles.
LEMMA ProfilesAre ==
  ASSUME NEW staff \in StaffInputs
  PROVE  /\ Added(staff, Salary) \in Int /\ Added(staff, EmployeeGosi) \in Nat
         /\ Added(staff, EmployerGosi) \in Nat /\ Added(staff, EmployeeGosi) <= Added(staff, Salary)
         /\ \E g \in Int : Added(staff, Salary) = g * Unit
<1> DEFINE D == DOMAIN staff
           gross == [i \in D |-> Salary(staff[i])]
           own == [i \in D |-> EmployeeGosi(staff[i])]
           employer == [i \in D |-> EmployerGosi(staff[i])]
           g == [i \in D |-> staff[i].basic + staff[i].housing + staff[i].transport]
<1>1. staff \in Seq(Payee)
  BY AmountsAssumption DEF Payee
<1>2. IsFiniteSet(D) /\ \A i \in D : staff[i] \in Payee
  BY <1>1, PlacesFinite
<1>3. /\ Added(staff, Salary) = SumOver(gross, D) /\ Added(staff, EmployeeGosi) = SumOver(own, D)
      /\ Added(staff, EmployerGosi) = SumOver(employer, D)
  BY Zenon DEF Added, Each
<1>4. Unit \in Int
  BY UnitIs
<1>6. \A i \in D : /\ gross[i] \in Nat /\ own[i] \in Nat /\ employer[i] \in Nat /\ own[i] <= gross[i]
                   /\ g[i] \in Nat /\ gross[i] = Unit * g[i]
  BY <1>2, PayeeGosi
<1> HIDE DEF D, gross, own, employer, g
<1>7. /\ \A i \in D : own[i] \in Int /\ gross[i] \in Int /\ own[i] <= gross[i]
      /\ \A i \in D : g[i] \in Int /\ gross[i] = Unit * g[i]
      /\ \A i \in D : gross[i] \in Int
      /\ \A i \in D : own[i] \in Nat
      /\ \A i \in D : employer[i] \in Nat
      /\ \A i \in D : g[i] \in Int
  BY <1>6
<1>8. SumOver(own, D) <= SumOver(gross, D)
  BY <1>2, <1>7, SumAtMost
<1>9. SumOver(gross, D) = Unit * SumOver(g, D)
  BY <1>2, <1>4, <1>7, SumTimes
<1>10. /\ SumOver(own, D) \in Nat /\ SumOver(employer, D) \in Nat
       /\ SumOver(gross, D) \in Int /\ SumOver(g, D) \in Int
  BY <1>2, <1>7, SumIsInt, SumIsNat
<1>11. Unit * SumOver(g, D) = SumOver(g, D) * Unit
  BY <1>4, <1>10
<1>12. QED
  BY <1>3, <1>8, <1>9, <1>10, <1>11

LEMMA ItemIs ==
  ASSUME NEW l \in Item
  PROVE  /\ l.quantity * l.price \in Nat /\ TaxOf(l) \in Nat /\ LineTotal(l) \in Nat
         /\ LineTotal(l) = Unit * (l.quantity * l.price) + TaxOf(l)
<1>1. l.quantity \in Nat /\ l.price \in Nat /\ l.tax \in Nat
  BY DEF Item
<1>2. Unit \in Nat /\ Unit \div 100 \in Nat
  <2>1. PICK u \in Nat : Unit = 10000 * u
    BY UnitIs
  <2>2. QED
    BY <2>1
<1> DEFINE k == l.quantity * l.price
           h == Unit \div 100
<1>3. k \in Nat /\ h \in Nat
  BY <1>1, <1>2
<1>4. TaxOf(l) = k * l.tax * h /\ BeforeTax(l) = k * Unit /\ LineTotal(l) = BeforeTax(l) + TaxOf(l)
  BY DEF TaxOf, BeforeTax, LineTotal
<1> HIDE DEF k, h
<1>5. k * l.tax * h \in Nat /\ k * Unit \in Nat /\ k * Unit = Unit * k
  <2>1. k * l.tax \in Nat
    BY <1>1, <1>3
  <2>2. QED
    BY <1>2, <1>3, <2>1
<1>6. QED
  BY <1>3, <1>4, <1>5 DEF k

\* The totals of an invoice and the lines it keeps.
LEMMA InvoiceIs ==
  ASSUME NEW i \in InvoiceInputs
  PROVE  LET price == SumOver([j \in DOMAIN i.lines |-> i.lines[j].quantity * i.lines[j].price],
                              DOMAIN i.lines)
         IN  /\ i.rate \in Nat \ {0} /\ i.lines \in Seq(Item)
             /\ i.type \in {"SalesInvoice", "DebitNote", "PurchaseInvoice", "CreditNote"}
             /\ InvoiceOf(i).lines \in Seq(Int) /\ Len(InvoiceOf(i).lines) = Len(i.lines)
             /\ \A j \in DOMAIN i.lines : /\ InvoiceOf(i).lines[j] = Cents(LineTotal(i.lines[j]))
                                          /\ InvoiceOf(i).lines[j] \in Nat
             /\ DOMAIN InvoiceOf(i).lines = DOMAIN i.lines
             /\ Added(i.lines, LineTotal) \in Nat /\ Added(i.lines, TaxOf) \in Nat
             /\ price \in Nat /\ Added(i.lines, LineTotal) = Unit * price + Added(i.lines, TaxOf)
             /\ InvoiceOf(i).total \in Nat
<1> DEFINE D == DOMAIN i.lines
           kept0 == [j \in D |-> Cents(LineTotal(i.lines[j]))]
           total == [j \in D |-> LineTotal(i.lines[j])]
           tax == [j \in D |-> TaxOf(i.lines[j])]
           cost == [j \in D |-> i.lines[j].quantity * i.lines[j].price]
           before == [j \in D |-> Unit * cost[j]]
<1>1. /\ i.rate \in Nat \ {0} /\ i.lines \in Seq(Item)
      /\ i.type \in {"SalesInvoice", "DebitNote", "PurchaseInvoice", "CreditNote"}
  BY AmountsAssumption DEF Item
<1>2. /\ IsFiniteSet(D) /\ D = 1..Len(i.lines) /\ Len(i.lines) \in Nat
      /\ \A j \in D : i.lines[j] \in Item
  BY <1>1, PlacesFinite
<1>3. /\ Added(i.lines, LineTotal) = SumOver(total, D) /\ Added(i.lines, TaxOf) = SumOver(tax, D)
  BY Zenon DEF Added, Each
<1>4. InvoiceOf(i).lines = kept0 /\ InvoiceOf(i).total = Cents(Added(i.lines, LineTotal))
  BY DEF InvoiceOf, Each
<1>5. \A j \in D : /\ total[j] \in Nat /\ tax[j] \in Nat /\ cost[j] \in Nat
                   /\ total[j] = Unit * cost[j] + tax[j] /\ before[j] = Unit * cost[j]
  BY <1>2, ItemIs
<1>6. \A j \in D : kept0[j] = Cents(LineTotal(i.lines[j])) /\ kept0[j] \in Nat
  <2>1. \A l \in Item : Cents(LineTotal(l)) \in Nat
    <3> TAKE l \in Item
    <3>1. LineTotal(l) \in Nat
      BY ItemIs
    <3>2. QED
      BY <3>1, CentsIs
  <2>2. QED
    BY <1>2, <2>1
<1>7. kept0 \in Seq(Int) /\ Len(kept0) = Len(i.lines) /\ DOMAIN kept0 = D
  <2>1. kept0 = [j \in D |-> kept0[j]] /\ \A j \in D : kept0[j] \in Int
    BY <1>6
  <2> HIDE DEF kept0
  <2>2. QED
    BY <1>2, <2>1
<1>8. Unit \in Int /\ Unit \in Nat
  BY UnitIs
<1> DEFINE price == SumOver(cost, D)
<1>9. SumOver(total, D) \in Nat /\ SumOver(tax, D) \in Nat /\ price \in Nat
  <2>1. /\ \A j \in D : total[j] \in Nat
        /\ \A j \in D : tax[j] \in Nat
        /\ \A j \in D : cost[j] \in Nat
    BY <1>5
  <2> HIDE DEF D, total, tax, cost
  <2>2. QED
    BY <1>2, <2>1, SumIsNat
<1>10. SumOver(before, D) = Unit * price
  <2> HIDE DEF D, before, cost
  <2>1. \A j \in D : cost[j] \in Int /\ before[j] = Unit * cost[j]
    BY <1>5
  <2>2. QED
    BY <1>2, <1>8, <2>1, SumTimes
<1>11. SumOver(total, D) = SumOver(before, D) + SumOver(tax, D)
  <2>1. \A j \in D : before[j] \in Int /\ tax[j] \in Int /\ total[j] = before[j] + tax[j]
    <3> HIDE DEF D, before, tax, total, cost
    <3>1. \A j \in D : Unit * cost[j] \in Int
      BY <1>5, <1>8
    <3>2. QED
      BY <1>5, <3>1
  <2> HIDE DEF D, before, tax, total
  <2>2. QED
    BY <1>2, <2>1, SumPlus
<1>12. Cents(SumOver(total, D)) \in Nat
  BY <1>9, CentsIs
<1>13. QED
  BY <1>1, <1>3, <1>4, <1>6, <1>7, <1>9, <1>10, <1>11, <1>12

\* One cent of the document in the base currency.
Rate == input.of.rate * (Unit \div 100)

\* The two sides of an invoice's entry: its total, and its lines.
LEMMA InvoiceEntryIs ==
  ASSUME InvoiceInput, document = InvoiceOf(input.of)
  PROVE  LET lines == SumOver(document.lines, DOMAIN document.lines)
         IN  /\ OneSided(InvoiceEntry) /\ Len(InvoiceEntry) = Len(input.of.lines) + 1
             /\ document.total \in Nat /\ lines \in Nat /\ Rate \in Nat
             /\ IF Receivable(input.of.type)
                THEN Debited(InvoiceEntry) = Rate * document.total /\ Credited(InvoiceEntry) = Rate * lines
                ELSE Credited(InvoiceEntry) = Rate * document.total /\ Debited(InvoiceEntry) = Rate * lines
<1> DEFINE s == document.lines
           D == DOMAIN s
           base == Each(s, InBase)
           lines == SumOver(s, D)
           total == document.total
<1>1. /\ s \in Seq(Int) /\ Len(s) = Len(input.of.lines) /\ total \in Nat
      /\ input.of.rate \in Nat /\ \A j \in D : s[j] \in Nat
  BY InvoiceIs DEF InvoiceInput
<1>2. IsFiniteSet(D) /\ D = 1..Len(s) /\ Len(s) \in Nat
  BY <1>1, PlacesFinite
<1>3. Rate \in Nat /\ Rate \in Int
  <2>1. PICK u \in Nat : Unit = 10000 * u
    BY UnitIs
  <2>2. Unit \div 100 \in Nat
    BY <2>1
  <2>3. QED
    BY <1>1, <2>2 DEF Rate
<1>4. \A c \in Nat : InBase(c) = Rate * c /\ InBase(c) \in Int
  <2> TAKE c \in Nat
  <2>1. PICK u \in Nat : Unit = 10000 * u
    BY UnitIs
  <2>2. Unit \div 100 \in Nat
    BY <2>1
  <2> DEFINE r == input.of.rate
             h == Unit \div 100
  <2>3. InBase(c) = c * r * h /\ Rate = r * h /\ r \in Nat /\ h \in Nat
    BY <1>1, <2>2 DEF InBase, Rate
  <2> HIDE DEF r, h
  <2>4. c * r * h = (r * h) * c /\ (r * h) * c \in Int
    BY <2>3
  <2>5. QED
    BY <2>3, <2>4
<1>5. base = [j \in D |-> InBase(s[j])]
  BY Zenon DEF Each
<1>6. base \in Seq(Int) /\ Len(base) = Len(s) /\ DOMAIN base = D
  BY <1>1, <1>2, <1>4, <1>5
<1>7. SumOver(base, D) = Rate * lines /\ lines \in Nat
  <2>1. /\ \A j \in D : s[j] \in Int /\ base[j] = Rate * s[j]
        /\ \A j \in D : s[j] \in Nat
    BY <1>1, <1>4, <1>5
  <2> HIDE DEF s, D, base
  <2>2. QED
    BY <1>2, <1>3, <2>1, SumTimes, SumIsNat
<1>8. InBase(total) = Rate * total /\ InBase(total) \in Int
  BY <1>1, <1>4
<1> DEFINE x == InBase(total)
<1>9. /\ OneSided(<<Dr(x)>> \o Each(base, Cr)) /\ Len(<<Dr(x)>> \o Each(base, Cr)) = Len(base) + 1
      /\ Debited(<<Dr(x)>> \o Each(base, Cr)) = x
      /\ Credited(<<Dr(x)>> \o Each(base, Cr)) = SumOver(base, DOMAIN base)
      /\ OneSided(<<Cr(x)>> \o Each(base, Dr)) /\ Len(<<Cr(x)>> \o Each(base, Dr)) = Len(base) + 1
      /\ Credited(<<Cr(x)>> \o Each(base, Dr)) = x
      /\ Debited(<<Cr(x)>> \o Each(base, Dr)) = SumOver(base, DOMAIN base)
  <2>1. x \in Int
    BY <1>8
  <2> HIDE DEF x, base
  <2>2. QED
    BY <1>6, <2>1, TotalAndLines
<1>10. InvoiceEntry = IF Receivable(input.of.type) THEN <<Dr(x)>> \o Each(base, Cr)
                                                   ELSE <<Cr(x)>> \o Each(base, Dr)
  BY DEF InvoiceEntry
<1>11. SumOver(base, DOMAIN base) = Rate * lines
  BY <1>6, <1>7
<1> HIDE DEF base, x, lines, D
<1>12. QED
  BY <1>1, <1>3, <1>6, <1>7, <1>8, <1>9, <1>10, <1>11 DEF x, lines, D

\* The totals of a run as they are kept.
RunTotals(staff) ==
  /\ RunOf(staff).gross \in Int /\ RunOf(staff).gosi \in Nat
  /\ RunOf(staff).other \in Int /\ RunOf(staff).net \in Int
  /\ Added(staff, Gross) = RunOf(staff).gross * Unit
  /\ Added(staff, Other) = RunOf(staff).other * Unit

LEMMA RunTotalsAre ==
  ASSUME NEW staff \in StaffInputs
  PROVE  RunTotals(staff)
<1>1. /\ RunOf(staff).gross = Cents(Added(staff, Gross)) /\ RunOf(staff).gosi = Cents(Added(staff, Gosi))
      /\ RunOf(staff).other = Cents(Added(staff, Other)) /\ RunOf(staff).net = Cents(Added(staff, Net))
  BY DEF RunOf
<1>2. /\ Added(staff, Gosi) \in Nat /\ Added(staff, Net) \in Int
      /\ \E g \in Int : Added(staff, Gross) = g * Unit
      /\ \E o \in Int : Added(staff, Other) = o * Unit
  BY StaffIs
<1>3. PICK g \in Int : Added(staff, Gross) = g * Unit
  BY <1>2
<1>4. PICK o \in Int : Added(staff, Other) = o * Unit
  BY <1>2
<1>5. Cents(g * Unit) = g /\ Cents(o * Unit) = o
  BY CentsOfWhole
<1>6. RunOf(staff).gross = g /\ RunOf(staff).other = o
  BY <1>1, <1>3, <1>4, <1>5
<1>7. Cents(Added(staff, Gosi)) \in Nat /\ Cents(Added(staff, Net)) \in Int
  BY <1>2, CentsIs
<1>8. QED
  BY <1>1, <1>3, <1>4, <1>6, <1>7 DEF RunTotals

\* What an approval posts stands on one side line by line.
LEMMA PostedIsOneSided ==
  ASSUME AmountsInv, status = "approved"
  PROVE  OneSided(EntryHere)
<1>1. MadeOfInput /\ (document = NoDocument => ProfilesInput)
  BY DEF AmountsInv, Decided
<1>2. CASE InvoiceInput
  <2>1. document = InvoiceOf(input.of) /\ EntryHere = InvoiceEntry
    BY <1>1, <1>2 DEF MadeOfInput, InvoiceInput, RunInput, ProfilesInput, EntryHere
  <2>2. QED
    BY <1>2, <2>1, InvoiceEntryIs
<1>3. CASE RunInput
  <2>1. document = RunOf(input.of) /\ EntryHere = RunEntry
    BY <1>1, <1>3 DEF MadeOfInput, InvoiceInput, RunInput, ProfilesInput, EntryHere
  <2>2. RunTotals(input.of)
    BY <1>3, RunTotalsAre DEF RunInput
  <2>3. /\ document.gross \in Int /\ document.gosi \in Int /\ document.other \in Int
        /\ document.net \in Int
    BY <2>1, <2>2 DEF RunTotals
  <2>4. QED
    BY <2>1, <2>3, RunLinesAre DEF RunEntry
<1>4. CASE ProfilesInput
  <2>1. EntryHere = ProfilesEntry
    BY <1>4 DEF ProfilesInput, EntryHere
  <2>2. /\ Added(input.of, Salary) \in Int /\ Added(input.of, EmployeeGosi) \in Int
        /\ Added(input.of, EmployerGosi) \in Int
    BY <1>4, ProfilesAre DEF ProfilesInput
  <2>3. QED
    BY <2>1, <2>2, ProfileLinesAre DEF ProfilesEntry
<1>5. QED
  BY <1>1, <1>2, <1>3, <1>4 DEF MadeOfInput

\* JournalEntriesService.create (journal-entries.service.ts 36-107) keeps the
\* entries of approve, approvePayrollRun and processPayroll in balance but for
\* half a cent for each line, and generateSif pays what a payslip says to the
\* cent, whatever the amounts, the taxes, the rates, the staff and their number.
THEOREM EntriesStayClose == AmountsSpec => []KeptWithinRounding
<1>1. AmountsInv => KeptWithinRounding
  <2> SUFFICES ASSUME AmountsInv PROVE KeptWithinRounding
    OBVIOUS
  <2>1. 2 * Off(kept) <= Len(kept)
    <3>1. CASE status = "approved"
      <4>1. OneSided(EntryHere) /\ Accepted(EntryHere) /\ kept = Kept(EntryHere)
        BY <3>1, PostedIsOneSided DEF AmountsInv, Decided
      <4>2. Debited(EntryHere) = Credited(EntryHere)
        BY <4>1 DEF Accepted
      <4>3. 2 * Off(Kept(EntryHere)) <= Len(EntryHere) /\ Len(Kept(EntryHere)) = Len(EntryHere)
        BY <4>1, <4>2, KeptIsClose, KeptIs
      <4>4. QED
        BY <4>1, <4>3, Zenon
    <3>2. CASE status # "approved"
      <4>1. kept = <<>>
        BY <3>2 DEF AmountsInv, Decided
      <4>2. Off(<<>>) = 0 /\ Len(<<>>) = 0
        BY NoLines DEF Off, Size
      <4>3. QED
        BY <4>1, <4>2
    <3>3. QED
      BY <3>1, <3>2
  <2>2. ASSUME document.kind = "run", NEW i \in DOMAIN document.slips
        PROVE  Size(SifLine(i).paid - SifLine(i).net) <= 1
    <3>1. RunInput /\ document = RunOf(input.of)
      BY <2>2, NoneIs DEF AmountsInv, MadeOfInput
    <3>2. QED
      BY <2>2, <3>1, SlipIsClose
  <2>3. QED
    BY <2>1, <2>2 DEF KeptWithinRounding
<1>2. QED
  BY <1>1, AmountsInvariant, PTL

(***************************************************************************)
(* Amounts in whole cents                                                  *)
(***************************************************************************)

WholeLine == {l \in Line : Whole(l.debit) /\ Whole(l.credit)}
FairLine == [debit : Nat, credit : Nat]

LEMMA SumWhole ==
  ASSUME NEW S, IsFiniteSet(S), NEW f, \A x \in S : f[x] \in Int /\ Whole(f[x])
  PROVE  Whole(SumOver(f, S)) /\ SumOver(f, S) = Unit * SumOver([x \in S |-> Cents(f[x])], S)
<1> DEFINE q == [x \in S |-> Cents(f[x])]
<1>1. \A x \in S : q[x] \in Int /\ f[x] = Unit * q[x]
  BY WholeIs
<1>2. Unit \in Int
  BY UnitIs
<1>3. \A x \in S : q[x] \in Int
  BY <1>1
<1> HIDE DEF q
<1>4. SumOver(f, S) = Unit * SumOver(q, S) /\ SumOver(q, S) \in Int
  BY <1>1, <1>2, <1>3, SumTimes, SumIsInt
<1>5. QED
  BY <1>4, WholeTimes DEF q

\* Whole cents are kept whole.
LEMMA WholeIsKept ==
  ASSUME NEW s, OneSided(s), s \in Seq(WholeLine)
  PROVE  Unit * Debited(Kept(s)) = Debited(s) /\ Unit * Credited(Kept(s)) = Credited(s)
<1> DEFINE D == DOMAIN s
           d == DebitAt(s)
           k == CreditAt(s)
           dq == DebitAt(Kept(s))
           kq == CreditAt(Kept(s))
<1>1. /\ IsFiniteSet(D) /\ \A i \in D : s[i].debit \in Int /\ s[i].credit \in Int
  BY OneSidedIs
<1>2. \A i \in D : Whole(s[i].debit) /\ Whole(s[i].credit)
  BY DEF WholeLine
<1>3. DOMAIN Kept(s) = D /\ \A i \in D : /\ Kept(s)[i].debit = Cents(s[i].debit)
                                         /\ Kept(s)[i].credit = Cents(s[i].credit)
  BY KeptIs
<1>4. \A i \in D : /\ d[i] = s[i].debit /\ k[i] = s[i].credit
                   /\ dq[i] = Cents(s[i].debit) /\ kq[i] = Cents(s[i].credit)
  BY <1>3 DEF DebitAt, CreditAt
<1>5. Unit \in Int
  BY UnitIs
<1>6. /\ \A i \in D : dq[i] \in Int /\ d[i] = Unit * dq[i]
      /\ \A i \in D : kq[i] \in Int /\ k[i] = Unit * kq[i]
  <2>1. \A i \in D : /\ s[i].debit = Unit * Cents(s[i].debit) /\ Cents(s[i].debit) \in Int
                     /\ s[i].credit = Unit * Cents(s[i].credit) /\ Cents(s[i].credit) \in Int
    BY <1>1, <1>2, WholeIs
  <2> HIDE DEF d, k, dq, kq
  <2>2. QED
    BY <1>4, <2>1
<1>7. /\ Debited(s) = SumOver(d, D) /\ Credited(s) = SumOver(k, D)
      /\ Debited(Kept(s)) = SumOver(dq, D) /\ Credited(Kept(s)) = SumOver(kq, D)
  BY <1>3, SidesAdd
<1> HIDE DEF D, d, k, dq, kq
<1>8. SumOver(d, D) = Unit * SumOver(dq, D)
  BY <1>1, <1>5, <1>6, SumTimes
<1>9. SumOver(k, D) = Unit * SumOver(kq, D)
  BY <1>1, <1>5, <1>6, SumTimes
<1>10. QED
  BY <1>7, <1>8, <1>9

\* Nothing is lost of what balances.
LEMMA WholeStaysBalanced ==
  ASSUME NEW s, OneSided(s), s \in Seq(WholeLine), Debited(s) = Credited(s)
  PROVE  Off(Kept(s)) = 0
<1> DEFINE p == Debited(Kept(s))
           q == Credited(Kept(s))
<1>1. p \in Int /\ q \in Int
  BY KeptIs, SidesAreInt
<1>2. Unit * p = Unit * q /\ Unit \in Nat /\ Unit > 0
  BY WholeIsKept, UnitIs
<1>3. Off(Kept(s)) = IF p - q < 0 THEN -(p - q) ELSE p - q
  BY DEF Off, Size
<1> HIDE DEF p, q
<1>4. p - q <= 0 /\ q - p <= 0
  <2>1. Unit * p <= Unit * q + Unit * 0 /\ Unit * q <= Unit * p + Unit * 0 /\ 0 \in Nat
    BY <1>1, <1>2
  <2>2. QED
    BY <1>1, <1>2, <2>1, ApartAtMost
<1>5. QED
  BY <1>1, <1>3, <1>4

\* No line is below nothing: then balance is all that is asked.
LEMMA FairIsAccepted ==
  ASSUME NEW s, s \in Seq(FairLine), Len(s) >= 2, Debited(s) = Credited(s)
  PROVE  Accepted(s)
<1>1. \A i \in DOMAIN s : s[i] \in FairLine
  OBVIOUS
<1>2. QED
  BY <1>1 DEF Accepted, FairLine

LEMMA NoughtIsWhole == Whole(0) /\ 0 \in Nat
<1>1. 0 \in Int /\ Unit * 0 = 0
  BY UnitIs
<1>2. QED
  BY <1>1, WholeTimes

\* A run whose deduction is whole cents is whole cents.
LEMMA ExactRun ==
  ASSUME RunInput, document = RunOf(input.of), Exact, Payable
  PROVE  /\ Accepted(RunEntry) /\ Off(Kept(RunEntry)) = 0
<1> DEFINE staff == input.of
           g == document.gross
           d == document.gosi
           o == document.other
           n == document.net
<1>1. /\ g \in Int /\ d \in Nat /\ o \in Int /\ n \in Int
      /\ Added(staff, Gross) = g * Unit /\ Added(staff, Other) = o * Unit
  BY RunTotalsAre DEF RunTotals, RunInput
<1>2. /\ Added(staff, Gosi) \in Nat /\ Added(staff, Net) \in Int
      /\ Added(staff, Net) = Added(staff, Gross) - Added(staff, Gosi) - Added(staff, Other)
  BY StaffIs DEF RunInput
<1>3. n >= 0 /\ o >= 0 /\ Whole(Added(staff, Gosi))
  BY DEF RunInput, Exact, Payable
<1>4. d = Cents(Added(staff, Gosi)) /\ n = Cents(Added(staff, Net))
  BY DEF RunOf
<1>5. Added(staff, Gosi) = d * Unit
  <2>1. Added(staff, Gosi) = Unit * d
    BY <1>2, <1>3, <1>4, WholeIs
  <2>2. QED
    BY <1>1, <2>1, UnitIs
<1>6. Unit \in Nat /\ Unit > 0
  BY UnitIs
<1> HIDE DEF g, d, o, n
<1>7. Added(staff, Net) = (g - d - o) * Unit
  <2>1. (g - d - o) * Unit = g * Unit - d * Unit - o * Unit
    BY <1>1, <1>6
  <2>2. QED
    BY <1>1, <1>2, <1>5, <2>1
<1>8. n = g - d - o
  BY <1>1, <1>4, <1>7, CentsOfWhole
<1>9. g \in Nat /\ o \in Nat /\ n \in Nat
  BY <1>1, <1>3, <1>8
<1>10. /\ g * Unit \in Nat /\ d * Unit \in Nat /\ o * Unit \in Nat /\ n * Unit \in Nat
       /\ g * Unit = d * Unit + (o * Unit + n * Unit)
  <2>1. /\ g * Unit \in Nat /\ d * Unit \in Nat /\ o * Unit \in Nat /\ n * Unit \in Nat
    BY <1>1, <1>6, <1>9
  <2>2. g = d + (o + n)
    BY <1>1, <1>8, <1>9
  <2>3. (d + (o + n)) * Unit = d * Unit + (o * Unit + n * Unit)
    BY <1>1, <1>6, <1>9
  <2>4. QED
    BY <2>1, <2>2, <2>3
<1> DEFINE e == RunLines(g, d, o, n)
<1>11. /\ OneSided(e) /\ Len(e) >= 2 /\ Debited(e) = g * Unit
       /\ Credited(e) = Deducted(d) + (Deducted(o) + n * Unit)
  <2>1. g \in Int /\ d \in Int /\ o \in Int /\ n \in Int
    BY <1>1
  <2>2. QED
    BY <2>1, RunLinesAre
<1>12. Deducted(d) = d * Unit /\ Deducted(o) = o * Unit
  <2>1. d = 0 \/ d > 0
    BY <1>1
  <2>2. o = 0 \/ o > 0
    BY <1>9
  <2>3. 0 * Unit = 0
    BY <1>6
  <2>4. QED
    BY <2>1, <2>2, <2>3 DEF Deducted
<1>13. ASSUME NEW x \in Nat
       PROVE  /\ Dr(x * Unit) \in FairLine /\ Dr(x * Unit) \in WholeLine
              /\ Cr(x * Unit) \in FairLine /\ Cr(x * Unit) \in WholeLine
  <2>1. x * Unit \in Nat /\ Whole(x * Unit) /\ Whole(0)
    BY <1>6, WholeTimes, NoughtIsWhole
  <2>2. QED
    BY <2>1 DEF Dr, Cr, FairLine, WholeLine, Line
<1>14. e \in Seq(FairLine) /\ e \in Seq(WholeLine)
  <2>1. /\ \A T : \A a \in T : <<a>> \in Seq(T)
        /\ \A T : <<>> \in Seq(T)
        /\ \A T : \A s, t \in Seq(T) : s \o t \in Seq(T)
    OBVIOUS
  <2>2. /\ <<Dr(g * Unit)>> \in Seq(FairLine) /\ <<Dr(g * Unit)>> \in Seq(WholeLine)
        /\ <<Cr(n * Unit)>> \in Seq(FairLine) /\ <<Cr(n * Unit)>> \in Seq(WholeLine)
        /\ LineIf(d) \in Seq(FairLine) /\ LineIf(d) \in Seq(WholeLine)
        /\ LineIf(o) \in Seq(FairLine) /\ LineIf(o) \in Seq(WholeLine)
    BY <1>1, <1>9, <1>13, <2>1 DEF LineIf
  <2>3. QED
    BY <2>1, <2>2 DEF RunLines
<1>15. Debited(e) = Credited(e)
  BY <1>10, <1>11, <1>12
<1>16. RunEntry = e
  BY DEF RunEntry, g, d, o, n
<1> HIDE DEF e
<1>17. QED
  BY <1>11, <1>14, <1>15, <1>16, FairIsAccepted, WholeStaysBalanced

\* Deductions in whole cents are posted whole.
LEMMA ExactProfiles ==
  ASSUME ProfilesInput, Exact, Payable
  PROVE  /\ Accepted(ProfilesEntry) /\ Off(Kept(ProfilesEntry)) = 0
<1> DEFINE staff == input.of
           D == DOMAIN staff
           g == Added(staff, Salary)
           d == Added(staff, EmployeeGosi)
           r == Added(staff, EmployerGosi)
           own == [i \in D |-> EmployeeGosi(staff[i])]
           employer == [i \in D |-> EmployerGosi(staff[i])]
<1>1. /\ g \in Int /\ d \in Nat /\ r \in Nat /\ d <= g /\ \E k \in Int : g = k * Unit
  BY ProfilesAre DEF ProfilesInput
<1>2. PICK k \in Int : g = k * Unit
  BY <1>1
<1>3. d = SumOver(own, D) /\ r = SumOver(employer, D)
  BY Zenon DEF Added, Each
<1>4. \A i \in D : Whole(EmployeeGosi(staff[i])) /\ Whole(EmployerGosi(staff[i]))
  BY DEF Exact, ProfilesInput
<1>5. IsFiniteSet(D) /\ \A i \in D : EmployeeGosi(staff[i]) \in Int /\ EmployerGosi(staff[i]) \in Int
  <2>1. staff \in Seq(Payee)
    BY AmountsAssumption DEF ProfilesInput, Payee
  <2>2. \A p \in Payee : EmployeeGosi(p) \in Int /\ EmployerGosi(p) \in Int
    BY PayeeGosi
  <2>3. QED
    BY <2>1, <2>2, PlacesFinite
<1>6. Whole(d) /\ Whole(r)
  <2>1. /\ \A i \in D : own[i] \in Int /\ Whole(own[i])
        /\ \A i \in D : employer[i] \in Int /\ Whole(employer[i])
    BY <1>4, <1>5
  <2> HIDE DEF D, own, employer
  <2>2. Whole(SumOver(own, D)) /\ Whole(SumOver(employer, D))
    BY <1>5, <2>1, SumWhole
  <2>3. QED
    BY <1>3, <2>2
<1> HIDE DEF g, d, r
<1>7. PICK a \in Int : d = a * Unit
  <2>1. d = Unit * Cents(d) /\ Cents(d) \in Int
    BY <1>1, <1>6, WholeIs
  <2>2. Unit * Cents(d) = Cents(d) * Unit
    BY <2>1, UnitIs
  <2>3. QED
    BY <2>1, <2>2
<1>8. PICK b \in Int : r = b * Unit
  <2>1. r = Unit * Cents(r) /\ Cents(r) \in Int
    BY <1>1, <1>6, WholeIs
  <2>2. Unit * Cents(r) = Cents(r) * Unit
    BY <2>1, UnitIs
  <2>3. QED
    BY <2>1, <2>2
<1>9. Whole(g) /\ Whole(g - d) /\ Whole(d + r) /\ Whole(r) /\ Whole(0)
  <2>1. k - a \in Int /\ a + b \in Int
    OBVIOUS
  <2>2. (k - a) * Unit = g - d /\ (a + b) * Unit = d + r
    BY <1>2, <1>7, <1>8, UnitIs
  <2>3. Whole(k * Unit) /\ Whole((k - a) * Unit) /\ Whole((a + b) * Unit)
    BY <2>1, WholeTimes
  <2>4. QED
    BY <1>2, <1>6, <2>2, <2>3, NoughtIsWhole
<1>10. g \in Nat /\ g - d \in Nat /\ d + r \in Nat
  BY <1>1
<1> DEFINE e == ProfileLines(g, d, r)
<1>11. OneSided(e) /\ Len(e) = 4 /\ Debited(e) = g + r /\ Credited(e) = g + r
  <2>1. g \in Int /\ d \in Int /\ r \in Int
    BY <1>1
  <2>2. QED
    BY <2>1, ProfileLinesAre
<1>12. /\ Dr(g) \in FairLine /\ Cr(g - d) \in FairLine /\ Cr(d + r) \in FairLine /\ Dr(r) \in FairLine
       /\ Dr(g) \in WholeLine /\ Cr(g - d) \in WholeLine /\ Cr(d + r) \in WholeLine /\ Dr(r) \in WholeLine
  BY <1>1, <1>9, <1>10 DEF Dr, Cr, FairLine, WholeLine, Line
<1>13. e \in Seq(FairLine) /\ e \in Seq(WholeLine)
  <2>1. \A T : \A w, x, y, z \in T : <<w, x, y, z>> \in Seq(T)
    OBVIOUS
  <2>2. QED
    BY <1>12, <2>1 DEF ProfileLines
<1>14. ProfilesEntry = e
  BY DEF ProfilesEntry, g, d, r
<1> HIDE DEF e
<1>15. Len(e) >= 2 /\ Debited(e) = Credited(e)
  BY <1>11
<1>16. QED
  BY <1>11, <1>13, <1>14, <1>15, FairIsAccepted, WholeStaysBalanced

\* An invoice whose lines are whole cents adds up to what it keeps of them.
LEMMA ExactTotals ==
  ASSUME InvoiceInput, document = InvoiceOf(input.of), Exact
  PROVE  LET price == Added(input.of.lines, LAMBDA l : l.quantity * l.price)
         IN  /\ document.total = SumOver(document.lines, DOMAIN document.lines)
             /\ document.total = price + document.taxTotal
             /\ price \in Nat /\ document.taxTotal \in Int
<1> DEFINE i == input.of
           D == DOMAIN i.lines
           total == [j \in D |-> LineTotal(i.lines[j])]
           cents == [j \in D |-> Cents(total[j])]
           price == SumOver([j \in D |-> i.lines[j].quantity * i.lines[j].price], D)
           t == Added(i.lines, LineTotal)
           x == Added(i.lines, TaxOf)
           sum == SumOver(cents, D)
<1>1. /\ i \in InvoiceInputs /\ i.lines \in Seq(Item)
      /\ t \in Nat /\ x \in Nat /\ price \in Nat /\ t = Unit * price + x
      /\ DOMAIN document.lines = D /\ document.lines \in Seq(Int)
      /\ \A j \in D : document.lines[j] = Cents(LineTotal(i.lines[j])) /\ document.lines[j] \in Nat
  BY InvoiceIs DEF InvoiceInput
<1>2. IsFiniteSet(D) /\ \A j \in D : LineTotal(i.lines[j]) \in Int
  BY <1>1, PlacesFinite, ItemIs
<1>3. \A j \in D : Whole(LineTotal(i.lines[j]))
  BY DEF Exact, InvoiceInput
<1>4. t = SumOver(total, D)
  BY Zenon DEF Added, Each
<1>5. Whole(t) /\ t = Unit * sum /\ sum \in Int
  <2>1. \A j \in D : total[j] \in Int /\ Whole(total[j])
    BY <1>2, <1>3
  <2>2. \A j \in D : cents[j] \in Int
    BY <2>1, CentsIs
  <2> HIDE DEF total, D
  <2>3. Whole(SumOver(total, D)) /\ SumOver(total, D) = Unit * SumOver(cents, D)
    BY <1>2, <2>1, SumWhole
  <2> HIDE DEF cents
  <2>4. SumOver(cents, D) \in Int
    BY <1>2, <2>2, SumIsInt
  <2>5. QED
    BY <1>4, <2>3, <2>4
<1>6. sum = SumOver(document.lines, DOMAIN document.lines)
  <2>1. \A j \in D : cents[j] \in Int /\ cents[j] = document.lines[j]
    BY <1>1
  <2> HIDE DEF cents, D
  <2>2. SumOver(cents, D) = SumOver(document.lines, D)
    BY <1>2, <2>1, SumSame
  <2>3. QED
    BY <1>1, <2>2, Zenon
<1>7. document.total = Cents(t) /\ document.taxTotal = Cents(x)
  BY DEF InvoiceOf
<1> DEFINE asked == Added(i.lines, LAMBDA l : l.quantity * l.price)
<1>8. asked = price
  BY Zenon DEF Added, Each
<1> HIDE DEF t, x, sum, price, asked
<1>9. Unit \in Nat /\ Unit > 0
  BY UnitIs
<1>10. t = sum * Unit /\ x = (sum - price) * Unit
  <2>1. Unit * sum = sum * Unit /\ Unit * price = price * Unit /\ (sum - price) * Unit = sum * Unit - price * Unit
    BY <1>1, <1>5, <1>9
  <2>2. sum * Unit \in Int /\ price * Unit \in Int
    BY <1>1, <1>5, <1>9
  <2>3. QED
    BY <1>1, <1>5, <2>1, <2>2
<1>11. Cents(t) = sum /\ Cents(x) = sum - price /\ sum - price \in Int
  BY <1>1, <1>5, <1>10, CentsOfWhole
<1>12. /\ document.total = SumOver(document.lines, DOMAIN document.lines)
       /\ document.total = asked + document.taxTotal
       /\ asked \in Nat /\ document.taxTotal \in Int
  BY <1>1, <1>5, <1>6, <1>7, <1>8, <1>11
<1>13. QED
  BY <1>12, Zenon DEF asked

\* Its entry is accepted.
LEMMA ExactInvoice ==
  ASSUME InvoiceInput, document = InvoiceOf(input.of), Exact, Payable
  PROVE  Accepted(InvoiceEntry)
<1> DEFINE lines == SumOver(document.lines, DOMAIN document.lines)
<1>1. /\ OneSided(InvoiceEntry) /\ Len(InvoiceEntry) = Len(input.of.lines) + 1
      /\ document.total \in Nat /\ Rate \in Nat
      /\ IF Receivable(input.of.type)
         THEN Debited(InvoiceEntry) = Rate * document.total /\ Credited(InvoiceEntry) = Rate * lines
         ELSE Credited(InvoiceEntry) = Rate * document.total /\ Debited(InvoiceEntry) = Rate * lines
  BY InvoiceEntryIs
<1>2. document.total = lines
  BY ExactTotals
<1>3. Debited(InvoiceEntry) = Credited(InvoiceEntry)
  BY <1>1, <1>2
<1>4. Len(InvoiceEntry) >= 2
  <2>1. input.of.lines \in Seq(Item)
    BY InvoiceIs DEF InvoiceInput
  <2>2. input.of.lines # <<>>
    BY DEF Payable, InvoiceInput
  <2>3. Len(input.of.lines) \in Nat /\ Len(input.of.lines) # 0
    BY <2>1, <2>2
  <2>4. QED
    BY <1>1, <2>3
<1>5. InvoiceEntry \in Seq(FairLine)
  <2> DEFINE s == document.lines
             base == Each(s, InBase)
             y == InBase(document.total)
  <2>1. s \in Seq(Int) /\ \A j \in DOMAIN s : s[j] \in Nat
    BY InvoiceIs DEF InvoiceInput
  <2>2. input.of.rate \in Nat /\ Unit \div 100 \in Nat
    <3>1. PICK u \in Nat : Unit = 10000 * u
      BY UnitIs
    <3>2. Unit \div 100 \in Nat
      BY <3>1
    <3>3. QED
      BY <3>2, InvoiceIs DEF InvoiceInput
  <2>3. \A c \in Nat : InBase(c) \in Nat
    <3> DEFINE r == input.of.rate
               h == Unit \div 100
    <3> HIDE DEF r, h
    <3>1. \A c \in Nat : c * r * h \in Nat
      <4> TAKE c \in Nat
      <4>1. r \in Nat /\ h \in Nat
        BY <2>2 DEF r, h
      <4>2. c * r \in Nat
        BY <4>1
      <4>3. QED
        BY <4>1, <4>2
    <3>2. QED
      BY <3>1 DEF InBase, r, h
  <2>4. y \in Nat
    BY <1>1, <2>3
  <2>5. \A x \in Nat : Dr(x) \in FairLine /\ Cr(x) \in FairLine
    BY DEF Dr, Cr, FairLine
  <2>6. Each(base, Cr) \in Seq(FairLine) /\ Each(base, Dr) \in Seq(FairLine)
    <3> DEFINE n == Len(s)
    <3>1. n \in Nat /\ DOMAIN s = 1..n
      BY <2>1
    <3>2. base = [j \in 1..n |-> InBase(s[j])]
      BY <3>1 DEF Each
    <3>3. \A j \in 1..n : base[j] \in Nat
      BY <2>1, <2>3, <3>1, <3>2
    <3>4. DOMAIN base = 1..n
      BY <3>2
    <3> HIDE DEF base
    <3>5. Each(base, Cr) = [j \in 1..n |-> Cr(base[j])] /\ Each(base, Dr) = [j \in 1..n |-> Dr(base[j])]
      BY <3>4 DEF Each
    <3> HIDE DEF n
    <3>6. \A j \in 1..n : Cr(base[j]) \in FairLine /\ Dr(base[j]) \in FairLine
      BY <2>5, <3>3
    <3>7. [j \in 1..n |-> Cr(base[j])] \in Seq(FairLine) /\ [j \in 1..n |-> Dr(base[j])] \in Seq(FairLine)
      BY <3>1, <3>6
    <3>8. QED
      BY <3>5, <3>7
  <2>7. /\ \A T : \A a \in T : <<a>> \in Seq(T)
        /\ \A T : \A a, b \in Seq(T) : a \o b \in Seq(T)
    OBVIOUS
  <2>8. InvoiceEntry = IF Receivable(input.of.type) THEN <<Dr(y)>> \o Each(base, Cr)
                                                     ELSE <<Cr(y)>> \o Each(base, Dr)
    BY DEF InvoiceEntry
  <2> HIDE DEF base, y
  <2>9. <<Dr(y)>> \in Seq(FairLine) /\ <<Cr(y)>> \in Seq(FairLine)
    BY <2>4, <2>5, <2>7
  <2>10. /\ <<Dr(y)>> \o Each(base, Cr) \in Seq(FairLine)
         /\ <<Cr(y)>> \o Each(base, Dr) \in Seq(FairLine)
    BY <2>6, <2>7, <2>9
  <2>11. QED
    BY <2>8, <2>10
<1>6. QED
  BY <1>3, <1>4, <1>5, FairIsAccepted

LEMMA SameOfUnits ==
  ASSUME NEW p \in Int, NEW q \in Int, Unit * p = Unit * q
  PROVE  p = q
<1>1. Unit \in Nat /\ Unit > 0 /\ 0 \in Nat
  BY UnitIs
<1>2. Unit * p <= Unit * q + Unit * 0 /\ Unit * q <= Unit * p + Unit * 0
  BY <1>1
<1>3. p - q <= 0 /\ q - p <= 0
  BY <1>1, <1>2, ApartAtMost
<1>4. QED
  BY <1>3

LEMMA KeptOfRest ==
  ASSUME NEW a \in Line, a.debit = 0 \/ a.credit = 0, NEW t, OneSided(t)
  PROVE  Tail(Kept(<<a>> \o t)) = Kept(t)
<1> DEFINE s == <<a>> \o t
           n == Len(t)
<1>1. OneSided(s) /\ Len(s) = n + 1 /\ \A i \in DOMAIN t : s[i + 1] = t[i]
  BY LineBefore, SMTT(30)
<1>2. n \in Nat /\ DOMAIN t = 1..n /\ DOMAIN s = 1..(n + 1)
  BY <1>1, OneSidedIs
<1> HIDE DEF s, n
<1>3. /\ OneSided(Kept(s)) /\ Len(Kept(s)) = n + 1
      /\ Kept(t) = [i \in DOMAIN t |-> [debit |-> Cents(t[i].debit), credit |-> Cents(t[i].credit)]]
      /\ Kept(s) = [i \in DOMAIN s |-> [debit |-> Cents(s[i].debit), credit |-> Cents(s[i].credit)]]
  BY <1>1, KeptIs DEF Kept, Each
<1>4. Kept(s) \in Seq(Line)
  BY <1>3 DEF OneSided, Line
<1>5. Tail(Kept(s)) = [i \in 1..n |-> Kept(s)[i + 1]]
  BY <1>2, <1>3, <1>4
<1>6. \A i \in 1..n : Kept(s)[i + 1] = Kept(t)[i]
  <2> TAKE i \in 1..n
  <2>1. i + 1 \in DOMAIN s /\ i \in DOMAIN t /\ s[i + 1] = t[i]
    BY <1>1, <1>2
  <2>2. QED
    BY <1>3, <2>1
<1>7. Kept(t) = [i \in 1..n |-> Kept(t)[i]]
  BY <1>2, <1>3
<1>8. QED
  BY <1>5, <1>6, <1>7 DEF s

\* Posted in its own currency, an invoice in whole cents loses nothing: the
\* accounts of its lines get its price and its tax.
LEMMA ExactPosting ==
  ASSUME InvoiceInput, document = InvoiceOf(input.of), Exact, input.of.rate = 100
  PROVE  LET rest == Tail(Kept(InvoiceEntry))
             all == document.total
         IN  /\ Off(Kept(InvoiceEntry)) = 0
             /\ Credited(rest) - Debited(rest) = IF Receivable(input.of.type) THEN all ELSE -all
             /\ all \in Int
<1> DEFINE s == document.lines
           lines == SumOver(s, DOMAIN s)
           base == Each(s, InBase)
           x == InBase(document.total)
           c == Each(base, Cr)
           d == Each(base, Dr)
<1>1. /\ Unit \in Nat /\ Unit > 0 /\ Rate = Unit
  <2>1. PICK u \in Nat : u > 0 /\ Unit = 10000 * u
    BY UnitIs
  <2>2. Unit \div 100 = 100 * u
    BY <2>1
  <2>3. QED
    BY <2>1, <2>2 DEF Rate
<1>2. \A k \in Int : InBase(k) = Unit * k /\ InBase(k) \in Int
  <2> TAKE k \in Int
  <2>1. PICK u \in Nat : u > 0 /\ Unit = 10000 * u
    BY UnitIs
  <2>2. InBase(k) = k * 100 * (100 * u)
    <3>1. Unit \div 100 = 100 * u
      BY <2>1
    <3>2. QED
      BY <3>1 DEF InBase
  <2>3. k * 100 * (100 * u) = 10000 * u * k
    OBVIOUS
  <2>4. QED
    BY <1>1, <2>1, <2>2, <2>3
<1>3. /\ s \in Seq(Int) /\ document.total \in Int
  <2>1. s \in Seq(Int)
    BY InvoiceIs DEF InvoiceInput
  <2>2. document.total \in Nat
    BY InvoiceEntryIs
  <2>3. QED
    BY <2>1, <2>2
<1>4. document.total = lines
  BY ExactTotals
<1>5. /\ OneSided(InvoiceEntry) /\ lines \in Int
      /\ Debited(InvoiceEntry) = Credited(InvoiceEntry)
  BY <1>4, InvoiceEntryIs
<1>6. IsFiniteSet(DOMAIN s) /\ DOMAIN s = 1..Len(s) /\ Len(s) \in Nat /\ \A j \in DOMAIN s : s[j] \in Int
  BY <1>3, PlacesFinite
<1>7. base = [j \in DOMAIN s |-> InBase(s[j])]
  BY Zenon DEF Each
<1>8. base \in Seq(Int) /\ DOMAIN base = DOMAIN s /\ \A j \in DOMAIN s : base[j] = Unit * s[j]
  <2>1. \A j \in DOMAIN s : InBase(s[j]) \in Int /\ InBase(s[j]) = Unit * s[j]
    BY <1>2, <1>6
  <2>2. base = [j \in 1..Len(s) |-> InBase(s[j])]
    BY <1>6, <1>7
  <2>3. \A j \in 1..Len(s) : base[j] \in Int
    BY <1>6, <2>1, <2>2
  <2>4. base \in Seq(Int)
    <3> HIDE DEF s
    <3>1. base = [j \in 1..Len(s) |-> base[j]]
      BY <2>2
    <3> HIDE DEF base
    <3>2. QED
      BY <1>6, <2>3, <3>1
  <2>5. QED
    BY <1>7, <2>1, <2>4
<1>9. SumOver(base, DOMAIN base) = Unit * lines
  <2>1. Unit \in Int /\ \A j \in DOMAIN s : s[j] \in Int /\ base[j] = Unit * s[j]
    BY <1>1, <1>6, <1>8
  <2>2. DOMAIN base = DOMAIN s
    BY <1>8
  <2> DEFINE D == DOMAIN s
  <2>3. IsFiniteSet(D) /\ \A j \in D : s[j] \in Int /\ base[j] = Unit * s[j]
    BY <1>6, <2>1
  <2> HIDE DEF s, base, D
  <2>4. SumOver(base, D) = Unit * SumOver(s, D)
    BY <2>1, <2>3, SumTimes
  <2>5. QED
    BY <2>2, <2>4 DEF D
<1>10. /\ OneSided(c) /\ Debited(c) = 0 /\ Credited(c) = Unit * lines /\ DOMAIN c = DOMAIN s
       /\ OneSided(d) /\ Credited(d) = 0 /\ Debited(d) = Unit * lines /\ DOMAIN d = DOMAIN s
  <2> HIDE DEF base
  <2>1. QED
    BY <1>8, <1>9, LinesOnSide
<1>11. x = Unit * document.total /\ x \in Int
  BY <1>2, <1>3
<1>12. \A k \in Int : Whole(Unit * k) /\ Whole(0)
  BY WholeTimes, NoughtIsWhole
<1>13. \A k \in Int : /\ Dr(Unit * k) \in WholeLine /\ Cr(Unit * k) \in WholeLine
  <2> TAKE k \in Int
  <2>1. Unit * k \in Int /\ Whole(Unit * k) /\ Whole(0)
    BY <1>1, <1>12
  <2>2. QED
    BY <2>1 DEF Dr, Cr, WholeLine, Line
<1>14. c \in Seq(WholeLine) /\ d \in Seq(WholeLine)
  <2>1. /\ c = [j \in 1..Len(s) |-> Cr(Unit * s[j])] /\ d = [j \in 1..Len(s) |-> Dr(Unit * s[j])]
    <3>1. c = [j \in DOMAIN base |-> Cr(base[j])] /\ d = [j \in DOMAIN base |-> Dr(base[j])]
      BY Zenon DEF Each
    <3> HIDE DEF base, c, d
    <3>2. QED
      BY <1>6, <1>8, <3>1
  <2>2. \A j \in 1..Len(s) : Cr(Unit * s[j]) \in WholeLine /\ Dr(Unit * s[j]) \in WholeLine
    BY <1>6, <1>13
  <2> HIDE DEF c, d
  <2>3. QED
    BY <1>6, <2>1, <2>2
<1>15. InvoiceEntry = IF Receivable(input.of.type) THEN <<Dr(x)>> \o c ELSE <<Cr(x)>> \o d
  BY DEF InvoiceEntry
<1>16. /\ Dr(x) \in Line /\ Dr(x).credit = 0 /\ Cr(x) \in Line /\ Cr(x).debit = 0
       /\ Dr(x) \in WholeLine /\ Cr(x) \in WholeLine
  <2>1. Dr(Unit * document.total) \in WholeLine /\ Cr(Unit * document.total) \in WholeLine
    BY <1>3, <1>13
  <2>2. Dr(x) \in WholeLine /\ Cr(x) \in WholeLine
    BY <1>11, <2>1
  <2>3. QED
    BY <1>11, <2>2, SidesOfLine
<1> HIDE DEF base, c, d, x
<1>17. InvoiceEntry \in Seq(WholeLine)
  <2>1. /\ \A T : \A a \in T : <<a>> \in Seq(T)
        /\ \A T : \A a, b \in Seq(T) : a \o b \in Seq(T)
    OBVIOUS
  <2>2. <<Dr(x)>> \in Seq(WholeLine) /\ <<Cr(x)>> \in Seq(WholeLine)
    BY <1>16, <2>1
  <2>3. <<Dr(x)>> \o c \in Seq(WholeLine) /\ <<Cr(x)>> \o d \in Seq(WholeLine)
    BY <1>14, <2>1, <2>2
  <2>4. QED
    BY <1>15, <2>3
<1>18. Off(Kept(InvoiceEntry)) = 0
  BY <1>5, <1>17, WholeStaysBalanced
<1>19. Tail(Kept(<<Dr(x)>> \o c)) = Kept(c) /\ Tail(Kept(<<Cr(x)>> \o d)) = Kept(d)
  BY <1>10, <1>16, KeptOfRest
<1>20. /\ Unit * Debited(Kept(c)) = 0 /\ Unit * Credited(Kept(c)) = Unit * lines
       /\ Unit * Debited(Kept(d)) = Unit * lines /\ Unit * Credited(Kept(d)) = 0
  BY <1>10, <1>14, WholeIsKept
<1>21. /\ Debited(Kept(c)) \in Int /\ Credited(Kept(c)) \in Int
       /\ Debited(Kept(d)) \in Int /\ Credited(Kept(d)) \in Int
  BY <1>10, KeptIs, SidesAreInt
<1>22. /\ Debited(Kept(c)) = 0 /\ Credited(Kept(c)) = lines
       /\ Debited(Kept(d)) = lines /\ Credited(Kept(d)) = 0
  <2> HIDE DEF lines
  <2>1. Unit * 0 = 0 /\ 0 \in Int
    BY <1>1
  <2>2. QED
    BY <1>5, <1>20, <1>21, <2>1, SameOfUnits
<1>23. CASE Receivable(input.of.type)
  <2>1. Tail(Kept(InvoiceEntry)) = Kept(c)
    BY <1>15, <1>19, <1>23
  <2>2. Credited(Tail(Kept(InvoiceEntry))) = lines /\ Debited(Tail(Kept(InvoiceEntry))) = 0
    BY <1>22, <2>1
  <2> HIDE DEF lines
  <2>3. QED
    BY <1>3, <1>4, <1>18, <1>23, <2>2
<1>24. CASE ~Receivable(input.of.type)
  <2>1. Tail(Kept(InvoiceEntry)) = Kept(d)
    BY <1>15, <1>19, <1>24
  <2>2. Credited(Tail(Kept(InvoiceEntry))) = 0 /\ Debited(Tail(Kept(InvoiceEntry))) = lines
    BY <1>22, <2>1
  <2> HIDE DEF lines
  <2>3. QED
    BY <1>3, <1>4, <1>18, <1>24, <2>2
<1>25. QED
  BY <1>23, <1>24

\* What the documents of the three kinds come to, once they are in whole cents.
LEMMA ExactPosted ==
  ASSUME AmountsInv, Exact, Payable
  PROVE  /\ status # "refused"
         /\ (input.kind = "invoice" => input.of.rate = 100) => Off(kept) = 0
<1>1. MadeOfInput /\ Decided
  BY DEF AmountsInv
<1>2. status # "approved" => Off(kept) = 0
  <2>1. Off(<<>>) = 0
    BY NoLines DEF Off, Size
  <2>2. QED
    BY <1>1, <2>1 DEF Decided
<1>3. CASE InvoiceInput
  <2>1. CASE document = NoDocument
    <3>1. status = "new"
      BY <1>1, <1>3, <2>1 DEF Decided, InvoiceInput, ProfilesInput
    <3>2. QED
      BY <1>2, <3>1
  <2>2. CASE document # NoDocument
    <3>1. document = InvoiceOf(input.of) /\ EntryHere = InvoiceEntry
      BY <1>1, <1>3, <2>2 DEF MadeOfInput, InvoiceInput, RunInput, ProfilesInput, EntryHere
    <3>2. Accepted(EntryHere)
      BY <1>3, <3>1, ExactInvoice
    <3>3. status # "refused"
      BY <1>1, <3>2 DEF Decided
    <3>4. input.of.rate = 100 /\ status = "approved" => Off(kept) = 0
      BY <1>1, <1>3, <3>1, ExactPosting DEF Decided
    <3>5. QED
      BY <1>2, <1>3, <3>3, <3>4 DEF InvoiceInput
  <2>3. QED
    BY <2>1, <2>2
<1>4. CASE RunInput
  <2>1. document = RunOf(input.of) /\ EntryHere = RunEntry
    <3>1. document.kind = "run"
      BY <1>4 DEF Payable, RunInput
    <3>2. QED
      BY <1>1, <1>4, <3>1, NoneIs DEF MadeOfInput, InvoiceInput, RunInput, ProfilesInput, EntryHere
  <2>2. Accepted(EntryHere) /\ Off(Kept(EntryHere)) = 0
    BY <1>4, <2>1, ExactRun
  <2>3. QED
    BY <1>1, <1>2, <2>2 DEF Decided
<1>5. CASE ProfilesInput
  <2>1. EntryHere = ProfilesEntry
    BY <1>5 DEF ProfilesInput, EntryHere
  <2>2. Accepted(EntryHere) /\ Off(Kept(EntryHere)) = 0
    BY <1>5, <2>1, ExactProfiles
  <2>3. QED
    BY <1>1, <1>2, <2>2 DEF Decided
<1>6. QED
  BY <1>1, <1>3, <1>4, <1>5 DEF MadeOfInput

\* What an invoice in whole cents leaves on the accounts of its lines is what
\* the VAT return of its period declares, and the price.
LEMMA ExactReturn ==
  ASSUME AmountsInv, Exact, input.kind = "invoice", status = "approved", input.of.rate = 100
  PROVE  LET left == Tail(kept)
             net == VatReturn.outputVat - VatReturn.inputVat
             price == Added(input.of.lines, LAMBDA l : l.quantity * l.price)
         IN  Credited(left) - Debited(left)
               = net + (IF Receivable(input.of.type) THEN price ELSE -price)
<1> DEFINE price == Added(input.of.lines, LAMBDA l : l.quantity * l.price)
           gain == Credited(Tail(kept)) - Debited(Tail(kept))
           net == VatReturn.outputVat - VatReturn.inputVat
           all == document.total
           tax == document.taxTotal
<1>1. MadeOfInput /\ Decided
  BY DEF AmountsInv
<1>2. InvoiceInput /\ document = InvoiceOf(input.of) /\ EntryHere = InvoiceEntry
  BY <1>1 DEF MadeOfInput, Decided, InvoiceInput, RunInput, ProfilesInput, EntryHere
<1>3. kept = Kept(InvoiceEntry)
  BY <1>1, <1>2 DEF Decided
<1>4. gain = (IF Receivable(input.of.type) THEN all ELSE -all) /\ all \in Int
  BY <1>2, <1>3, ExactPosting
<1>5. all = price + tax /\ price \in Nat /\ tax \in Int
  BY <1>2, ExactTotals, Zenon
<1>6. net = IF Receivable(input.of.type) THEN tax - 0 ELSE 0 - tax
  BY DEF VatReturn
<1> HIDE DEF price, gain, net, all, tax
<1>7. gain = net + (IF Receivable(input.of.type) THEN price ELSE -price)
  BY <1>4, <1>5, <1>6
<1>8. QED
  BY <1>7, Zenon DEF gain, net, price

\* A document whose amounts are whole cents is posted when it is approved, to
\* the last cent in its own currency, and the accounts of an invoice's lines
\* agree with calculateVatReturn (vat.service.ts 10-57): whatever the lines, the
\* staff and their number.
THEOREM ExactAmountsArePosted == AmountsSpec => []ExactAmountsPost
<1>1. AmountsInv => ExactAmountsPost
  <2> SUFFICES ASSUME AmountsInv, Exact, Payable PROVE ExactAmountsPost
    BY Zenon DEF ExactAmountsPost
  <2>1. /\ status # "refused"
        /\ (input.kind = "invoice" => input.of.rate = 100) => Off(kept) = 0
    BY ExactPosted
  <2>2. input.kind = "invoice" /\ status = "approved" /\ input.of.rate = 100 =>
         LET left == Tail(kept)
             net == VatReturn.outputVat - VatReturn.inputVat
             price == Added(input.of.lines, LAMBDA l : l.quantity * l.price)
         IN  Credited(left) - Debited(left)
               = net + (IF Receivable(input.of.type) THEN price ELSE -price)
    BY ExactReturn, Zenon
  <2>3. QED
    BY <2>1, <2>2, Zenon DEF ExactAmountsPost
<1>2. QED
  BY <1>1, AmountsInvariant, PTL

(***************************************************************************)
(* One part at work                                                        *)
(***************************************************************************)

LEMMA BankPart ==
  MonthEndSpec => \/ [](atWork = "bank") /\ BankSpec
                  \/ []~(atWork = "bank")
<1>1. MonthEndInit => BankInit
  BY DEF MonthEndInit
<1>2. atWork = "bank" /\ [MonthEndNext]_parts => [BankNext]_BankView
  BY DEF MonthEndNext, parts, BankView
<1>3. [MonthEndNext]_parts => (atWork = "bank" <=> (atWork = "bank")')
  BY DEF MonthEndNext, parts
<1>4. QED
  BY <1>1, <1>2, <1>3, PTL DEF MonthEndSpec, BankSpec, BankView

LEMMA PayrollPart ==
  MonthEndSpec => \/ [](atWork = "payroll") /\ PayrollSpec
                  \/ []~(atWork = "payroll")
<1>1. MonthEndInit => PayrollInit
  BY DEF MonthEndInit
<1>2. atWork = "payroll" /\ [MonthEndNext]_parts => [PayrollNext]_PayrollView
  BY DEF MonthEndNext, parts, PayrollView
<1>3. [MonthEndNext]_parts => (atWork = "payroll" <=> (atWork = "payroll")')
  BY DEF MonthEndNext, parts
<1>4. QED
  BY <1>1, <1>2, <1>3, PTL DEF MonthEndSpec, PayrollSpec, PayrollView

LEMMA AssetsPart ==
  MonthEndSpec => \/ [](atWork = "assets") /\ AssetsSpec
                  \/ []~(atWork = "assets")
<1>1. MonthEndInit => AssetsInit
  BY DEF MonthEndInit
<1>2. atWork = "assets" /\ [MonthEndNext]_parts => [AssetsNext]_AssetsView
  BY DEF MonthEndNext, parts, AssetsView
<1>3. [MonthEndNext]_parts => (atWork = "assets" <=> (atWork = "assets")')
  BY DEF MonthEndNext, parts
<1>4. QED
  BY <1>1, <1>2, <1>3, PTL DEF MonthEndSpec, AssetsSpec, AssetsView

LEMMA ReportsPart ==
  MonthEndSpec => \/ [](atWork = "reports") /\ ReportsSpec
                  \/ []~(atWork = "reports")
<1>1. MonthEndInit => RequestsInit /\ ReportsInit
  BY DEF MonthEndInit, AssetsInit
<1>2. atWork = "reports" /\ [MonthEndNext]_parts => [ReportsNext]_ReportsView
  BY DEF MonthEndNext, parts, ReportsView
<1>3. [MonthEndNext]_parts => (atWork = "reports" <=> (atWork = "reports")')
  BY DEF MonthEndNext, parts
<1>4. QED
  BY <1>1, <1>2, <1>3, PTL DEF MonthEndSpec, ReportsSpec, ReportsView

LEMMA AmountsPart ==
  MonthEndSpec => \/ [](atWork = "amounts") /\ AmountsSpec
                  \/ []~(atWork = "amounts")
<1>1. MonthEndInit => AmountsInit
  BY DEF MonthEndInit
<1>2. atWork = "amounts" /\ [MonthEndNext]_parts => [AmountsNext]_amountVars
  BY DEF MonthEndNext, parts, amountVars
<1>3. [MonthEndNext]_parts => (atWork = "amounts" <=> (atWork = "amounts")')
  BY DEF MonthEndNext, parts
<1>4. QED
  BY <1>1, <1>2, <1>3, PTL DEF MonthEndSpec, AmountsSpec, amountVars

LEMMA EosbPart ==
  MonthEndSpec => \/ [](atWork = "eosb") /\ EosbSpec
                  \/ []~(atWork = "eosb")
<1>1. MonthEndInit => EosbInit
  BY DEF MonthEndInit
<1>2. atWork = "eosb" /\ [MonthEndNext]_parts => [EosbNext]_eosbVars
  BY DEF MonthEndNext, parts, eosbVars
<1>3. [MonthEndNext]_parts => (atWork = "eosb" <=> (atWork = "eosb")')
  BY DEF MonthEndNext, parts
<1>4. QED
  BY <1>1, <1>2, <1>3, PTL DEF MonthEndSpec, EosbSpec, eosbVars

\* The instance is the union of its parts: whatever it does, one of the
\* components alone does it, so what is proved of each of them holds in it.
THEOREM OneMonthEndPart ==
  MonthEndSpec => \/ [](atWork = "bank") /\ BankSpec
                  \/ [](atWork = "payroll") /\ PayrollSpec
                  \/ [](atWork = "assets") /\ AssetsSpec
                  \/ [](atWork = "reports") /\ ReportsSpec
                  \/ [](atWork = "amounts") /\ AmountsSpec
                  \/ [](atWork = "eosb") /\ EosbSpec
<1>1. MonthEndInit => atWork = "bank" \/ atWork = "payroll" \/ atWork = "assets" \/ atWork = "reports" \/ atWork = "amounts" \/ atWork = "eosb"
  BY DEF MonthEndInit
<1>2. QED
  BY <1>1, BankPart, PayrollPart, AssetsPart, ReportsPart, AmountsPart, EosbPart, PTL DEF MonthEndSpec

\* The part at work keeps its types.
THEOREM MonthEndPartsTypeCorrect == MonthEndSpec => []TypeOK
<1>1. TypeOK <=> /\ (atWork = "bank" => BankTypeOK)
                /\ (atWork = "payroll" => PayrollTypeOK)
                /\ (atWork = "assets" => AssetsTypeOK)
                /\ (atWork = "reports" => ReportsTypeOK)
  BY DEF TypeOK
<1>2. QED
  BY <1>1, BankPart, PayrollPart, AssetsPart, ReportsPart,
     BankTypeCorrect, PayrollTypeCorrect, AssetsTypeCorrect, ReportsTypeCorrect, PTL
=============================================================================
