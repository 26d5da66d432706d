------------------------- MODULE BankReconciliation --------------------------
(***************************************************************************)
(* BankReconciliationService for one bank account: statements are          *)
(* uploaded, their transactions matched with journal entry lines by        *)
(* machine or by hand, and a reconciliation is completed when the matched  *)
(* lines explain the difference of its balances.                           *)
(***************************************************************************)
EXTENDS Integers, Sequences, FiniteSets, Requests, FiniteSetsExt

CONSTANTS
  MatchingCalls,  \* calls of this service
  Recons,      \* reconciliations, one per uploaded statement
  Lines,       \* journal entry lines of the account
  Amount,      \* [Lines -> Int], debit minus credit
  Statement,   \* [Recons -> Seq(BankTransaction)]
  Difference,  \* [Recons -> Int], closing minus opening balance
  Free         \* no reconciliation: reconciliationId is null

\* A transaction of the statement, with the lines at most three days away.
BankTransaction == [amount: Int, near: SUBSET Lines]

ReconciliationStatuses == {"Absent", "Draft", "Reconciled"}

ASSUME BankAssumption ==
  /\ MatchingCalls \subseteq Calls
  /\ IsFiniteSet(Lines)
  /\ Recons # {}
  /\ Amount \in [Lines -> Int]
  /\ Statement \in [Recons -> Seq(BankTransaction)]
  /\ Difference \in [Recons -> Int]
  /\ Free \notin Recons

VARIABLES
  reconciliation,  \* status of each reconciliation
  matched,         \* reconciliationId of each line, as committed
  task,            \* what a call does and to which reconciliation
  seen,            \* the lines a call has read
  next,            \* the statement transaction autoMatch is at
  taken,           \* lines its open transaction has updated
  suspect          \* history: reconciliations touched by a stale call

bankTables == <<reconciliation, matched>>
bankVars == <<bankTables, task, seen, next, taken, suspect>>

Tasks == [do: {"autoMatch", "match", "unmatch", "complete"}, recon: Recons]

Of(c) == task[c].recon
LinesOf(r) == {l \in Lines : matched[l] = r}
Total(L) == MapThenSumSet(LAMBDA l : Amount[l], L)

\* A row updated in an open transaction is locked.
Locked(c, l) == \E d \in Calls \ {c} : l \in taken[d]

BankInit ==
  /\ RequestsInit
  /\ reconciliation = [r \in Recons |-> "Absent"]
  /\ matched = [l \in Lines |-> Free]
  /\ task = [c \in Calls |-> CHOOSE t \in Tasks : TRUE]
  /\ seen = [c \in Calls |-> {}]
  /\ next = [c \in Calls |-> 1]
  /\ taken = [c \in Calls |-> {}]
  /\ suspect = {}

\* The call ends; an open transaction with it.
EndMatching(c, l) ==
  /\ Goto(c, l)
  /\ seen' = [seen EXCEPT ![c] = {}]
  /\ next' = [next EXCEPT ![c] = 1]
  /\ taken' = [taken EXCEPT ![c] = {}]
  /\ UNCHANGED task

Refuse(c) == EndMatching(c, "failed") /\ UNCHANGED <<bankTables, suspect, stale>>

\* c writes lines L or the status of its reconciliation.  Calls about a
\* reconciliation concerned, or which hold such a line, are out of date.
Touched(c, L) == {Of(c)} \cup ({matched[l] : l \in L} \ {Free})
Record(c, L) ==
  /\ Outdate(c, {d \in Calls : Of(d) \in Touched(c, L) \/ seen[d] \cap L # {}})
  /\ suspect' = IF c \in stale THEN suspect \cup Touched(c, L) ELSE suspect

\* uploadStatement: statement, transactions and a Draft reconciliation.
UploadStatement(r) ==
  /\ reconciliation[r] = "Absent"
  /\ reconciliation' = [reconciliation EXCEPT ![r] = "Draft"]
  /\ UNCHANGED <<matched, task, seen, next, taken, suspect, pc, stale>>

\* Every operation first reads the status, and refuses a complete one.
Begin(c, t) ==
  /\ pc[c] = "idle"
  /\ reconciliation[t.recon] = "Draft"
  /\ task' = [task EXCEPT ![c] = t]
  /\ Goto(c, "begun")
  /\ UNCHANGED <<bankTables, seen, next, taken, suspect, stale>>

\* autoMatch reads the free lines, completeReconciliation the matched ones.
ReadLines(c) ==
  /\ pc[c] = "begun"
  /\ \/ task[c].do = "autoMatch" /\ seen' = [seen EXCEPT ![c] = LinesOf(Free)]
     \/ task[c].do = "complete" /\ seen' = [seen EXCEPT ![c] = LinesOf(Of(c))]
  /\ Goto(c, "read")
  /\ UNCHANGED <<bankTables, task, next, taken, suspect, stale>>

Finished(c) == next[c] > Len(Statement[Of(c)])
Candidates(c) ==
  LET t == Statement[Of(c)][next[c]]
  IN  {l \in seen[c] \ taken[c] : Amount[l] = t.amount /\ l \in t.near}

\* One turn of the loop: a line is updated by id; rows come in no order.
MatchTransaction(c) ==
  /\ pc[c] = "read" /\ task[c].do = "autoMatch" /\ ~Finished(c)
  /\ \E l \in Candidates(c) :
       /\ ~Locked(c, l)
       /\ taken' = [taken EXCEPT ![c] = @ \cup {l}]
  /\ next' = [next EXCEPT ![c] = @ + 1]
  /\ UNCHANGED <<bankTables, task, seen, suspect, pc, stale>>

SkipTransaction(c) ==
  /\ pc[c] = "read" /\ task[c].do = "autoMatch" /\ ~Finished(c)
  /\ Candidates(c) = {}
  /\ next' = [next EXCEPT ![c] = @ + 1]
  /\ UNCHANGED <<bankTables, task, seen, taken, suspect, pc, stale>>

Match(L, r) == matched' = [l \in Lines |-> IF l \in L THEN r ELSE matched[l]]

CommitMatches(c) ==
  /\ pc[c] = "read" /\ task[c].do = "autoMatch" /\ Finished(c)
  /\ Match(taken[c], Of(c))
  /\ Record(c, taken[c])
  /\ EndMatching(c, "done")
  /\ UNCHANGED reconciliation

\* manualMatch and manualUnmatch are one statement each, which passes over
\* lines in another state and waits for lines locked in this one.
ManualUpdate(c, from, to) ==
  \E L \in SUBSET LinesOf(from) :
    /\ \A l \in L : ~Locked(c, l)
    /\ Match(L, to)
    /\ Record(c, L)
    /\ EndMatching(c, "done")
    /\ UNCHANGED reconciliation

\* A likely mistake: without "reconciliationId: null" in the where clause.
ManualMatchAny(c) ==
  /\ pc[c] = "begun" /\ task[c].do = "match"
  /\ \E r \in Recons \cup {Free} : ManualUpdate(c, r, Of(c))

ManualMatch(c) ==
  pc[c] = "begun" /\ task[c].do = "match" /\ ManualUpdate(c, Free, Of(c))

ManualUnmatch(c) ==
  pc[c] = "begun" /\ task[c].do = "unmatch" /\ ManualUpdate(c, Of(c), Free)

\* The balance is computed from the lines read before.
Complete(c) ==
  /\ pc[c] = "read" /\ task[c].do = "complete"
  /\ Total(seen[c]) = Difference[Of(c)]
  /\ reconciliation' = [reconciliation EXCEPT ![Of(c)] = "Reconciled"]
  /\ Record(c, {})
  /\ EndMatching(c, "done")
  /\ UNCHANGED matched

\* A likely mistake: it waits for more matches.
AwaitMatches(c) ==
  /\ pc[c] = "read" /\ task[c].do = "complete"
  /\ Total(seen[c]) # Difference[Of(c)]
  /\ UNCHANGED <<bankVars, pc, stale>>

RefuseMismatch(c) ==
  /\ pc[c] = "read" /\ task[c].do = "complete"
  /\ Total(seen[c]) # Difference[Of(c)]
  /\ Refuse(c)

WaitsForLine(c, d) ==
  /\ pc[c] = "read" /\ task[c].do = "autoMatch" /\ ~Finished(c)
  /\ Candidates(c) # {}
  /\ Candidates(c) \subseteq {l \in Lines : Locked(c, l)}
  /\ Candidates(c) \cap taken[d] # {}

\* PostgreSQL ends a cycle of waiting transactions.
MatchingDeadlock(c) ==
  /\ \E d \in Calls : WaitsForLine(c, d) /\ WaitsForLine(d, c)
  /\ Refuse(c)

\* A crash, a lost connection, a time-out.
AbortMatching(c) == InFlight(c) /\ Refuse(c)

BankStep(c) ==
  \/ ReadLines(c) \/ MatchTransaction(c) \/ SkipTransaction(c)
  \/ CommitMatches(c) \/ ManualMatch(c) \/ ManualUnmatch(c)
  \/ Complete(c) \/ RefuseMismatch(c) \/ MatchingDeadlock(c)

BankNext ==
  \/ \E r \in Recons : UploadStatement(r)
  \/ \E c \in MatchingCalls, t \in Tasks : Begin(c, t)
  \/ \E c \in MatchingCalls : BankStep(c) \/ AbortMatching(c)

BankSpec == BankInit /\ [][BankNext]_<<bankVars, pc, stale>>

-----------------------------------------------------------------------------

\* The columns and the calls hold values of their types.
BankTypeOK ==
  /\ reconciliation \in [Recons -> ReconciliationStatuses]
  /\ matched \in [Lines -> Recons \cup {Free}]
  /\ task \in [Calls -> Tasks]
  /\ seen \in [Calls -> SUBSET Lines]
  /\ next \in [Calls -> Nat \ {0}]
  /\ taken \in [Calls -> SUBSET Lines]
  /\ suspect \subseteq Recons
  /\ pc \in [Calls -> {"idle", "begun", "read", "done", "failed"}]
  /\ stale \subseteq Calls

\* The lines of a completed reconciliation explain the difference of its
\* balances, over any matching, unmatching and completing, and whatever fails,
\* unless a call touched it that had overlapped a write to what it read.
ReconciledBalances ==
  \A r \in Recons \ suspect :
    reconciliation[r] = "Reconciled" => Total(LinesOf(r)) = Difference[r]
=============================================================================
