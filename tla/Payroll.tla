------------------------------- MODULE Payroll -------------------------------
(***************************************************************************)
(* PayrollService: runs are created, replaced, approved directly or by an  *)
(* approval event, and rejected; EosbService.bookMonthlyAccrual, which     *)
(* shares the liability account 2150 with it.                              *)
(*                                                                         *)
(* A run bears the name of the call that creates it, a journal entry the   *)
(* name of the call that posts it.  The two transactions (run with its     *)
(* approval request, entry with the run's status) have one statement that  *)
(* others can see or wait for, so each is one step; amounts are left out.  *)
(***************************************************************************)
EXTENDS Naturals, FiniteSets, Requests

CONSTANTS
  Creators,   \* calls of createPayrollRun
  Deciders,   \* approvals, direct or by a decision, and rejections
  Accruals,   \* calls of bookMonthlyAccrual
  Periods,    \* periodName
  PeriodOf,   \* [Creators -> Periods]
  Chart,      \* account codes there are to begin with
  NoRun

ASSUME PayrollAssumption ==
  /\ Creators \cup Deciders \cup Accruals \subseteq Calls
  /\ Creators \cap Deciders = {} /\ Creators \cap Accruals = {}
  /\ Deciders \cap Accruals = {}
  /\ PeriodOf \in [Creators -> Periods]
  /\ NoRun \notin Creators

\* Nothing sets Paid, but a Paid run would not be replaced.
PayrollStatuses == {"Draft", "PendingApproval", "Approved", "Paid"}
RequestStatuses == {"Absent", "Pending", "Approved", "Rejected"}

\* Accounts looked up by code and created where missing.
PayrollAccounts == {"5110", "2140", "2150", "2130"}
EosbAccounts == {"5120", "2150"}

VARIABLES
  runs,      \* status of each run, "Absent" before and after it exists
  request,   \* status of the approval request of each run
  entries,   \* the calls whose journal entry is committed
  accounts,  \* codes of the chart of accounts
  target,    \* the run a call found, decides on or approves
  verdict,   \* what a decider does: "direct", "approve" or "reject"
  missing,   \* accounts a call did not find
  amiss      \* history: periods touched by a stale call, or with a run
             \* rejected after it was posted

payrollTables == <<runs, request, entries, accounts>>
payrollVars == <<payrollTables, target, verdict, missing, amiss>>

Live(k) == runs[k] # "Absent"
RunsOf(p) == {k \in Creators : PeriodOf[k] = p /\ Live(k)}

\* The period a call is about.
About(c) == IF c \in Creators THEN {PeriodOf[c]}
            ELSE {PeriodOf[k] : k \in {target[c]} \ {NoRun}}

PayrollInit ==
  /\ RequestsInit
  /\ runs = [k \in Creators |-> "Absent"]
  /\ request = [k \in Creators |-> "Absent"]
  /\ entries = {}
  /\ accounts = Chart
  /\ target = [c \in Calls |-> NoRun]
  /\ verdict = [c \in Calls |-> "direct"]
  /\ missing = [c \in Calls |-> {}]
  /\ amiss = {}

Give(c, l) == Goto(c, l) /\ missing' = [missing EXCEPT ![c] = {}]
GiveUp(c) ==
  Give(c, "failed") /\ UNCHANGED <<payrollTables, target, verdict, amiss, stale>>

\* c writes in period p.
Write(c, p) ==
  /\ Outdate(c, {d \in Calls : p \in About(d)})
  /\ amiss' = IF c \in stale THEN amiss \cup {p} ELSE amiss

(***************************************************************************)
(* createPayrollRun                                                        *)
(***************************************************************************)
FindRun(c) ==
  /\ pc[c] = "idle"
  /\ \/ /\ RunsOf(PeriodOf[c]) = {}
        /\ Goto(c, "cleared")
        /\ UNCHANGED target
     \/ \E k \in RunsOf(PeriodOf[c]) :
          /\ runs[k] \notin {"Approved", "Paid"}
          /\ target' = [target EXCEPT ![c] = k]
          /\ Goto(c, "found")
  /\ UNCHANGED <<payrollTables, verdict, missing, amiss, stale>>

\* A run that is not posted is deleted at once, with its payslips; not its
\* approval request.
DeleteRun(c) ==
  /\ pc[c] = "found"
  /\ Live(target[c])
  /\ runs' = [runs EXCEPT ![target[c]] = "Absent"]
  /\ Goto(c, "cleared")
  /\ Write(c, PeriodOf[c])
  /\ UNCHANGED <<request, entries, accounts, target, verdict, missing>>

DeleteFails(c) == pc[c] = "found" /\ ~Live(target[c]) /\ GiveUp(c)

\* Unknown profiles, or a salary that differs from the contract.
RefusePayslips(c) == c \in Creators /\ pc[c] = "cleared" /\ GiveUp(c)

CreateRun(c) ==
  /\ c \in Creators
  /\ pc[c] = "cleared"
  /\ RunsOf(PeriodOf[c]) = {}
  /\ runs' = [runs EXCEPT ![c] = "PendingApproval"]
  /\ request' = [request EXCEPT ![c] = "Pending"]
  /\ Give(c, "done")
  /\ Write(c, PeriodOf[c])
  /\ UNCHANGED <<entries, accounts, target, verdict>>

\* tenantId and periodName are unique.
CreateFails(c) ==
  c \in Creators /\ pc[c] = "cleared" /\ RunsOf(PeriodOf[c]) # {} /\ GiveUp(c)

(***************************************************************************)
(* Decisions of ApprovalsService and the event handlers they wake.         *)
(***************************************************************************)
ReadRequest(d, k, v) ==
  /\ pc[d] = "idle"
  /\ request[k] = "Pending"
  /\ target' = [target EXCEPT ![d] = k]
  /\ verdict' = [verdict EXCEPT ![d] = v]
  /\ Goto(d, "deciding")
  /\ UNCHANGED <<payrollTables, missing, amiss, stale>>

\* By id alone; then the event is emitted.
Decide(d) ==
  /\ pc[d] = "deciding"
  /\ request' = [request EXCEPT ![target[d]] =
                   IF verdict[d] = "approve" THEN "Approved" ELSE "Rejected"]
  /\ Goto(d, "event")
  /\ UNCHANGED <<runs, entries, accounts, target, verdict, missing, amiss, stale>>

\* handleApprovalRejected puts any run back to Draft, a posted one included.
HandleRejection(d) ==
  /\ pc[d] = "event" /\ verdict[d] = "reject"
  /\ Live(target[d])
  /\ runs' = [runs EXCEPT ![target[d]] = "Draft"]
  /\ Outdate(d, {c \in Calls : PeriodOf[target[d]] \in About(c)})
  /\ amiss' = IF runs[target[d]] = "Approved"
              THEN amiss \cup {PeriodOf[target[d]]} ELSE amiss
  /\ Give(d, "done")
  /\ UNCHANGED <<request, entries, accounts, target, verdict>>

\* The run is gone: update throws, and nobody catches it.
RejectionFails(d) ==
  pc[d] = "event" /\ verdict[d] = "reject" /\ ~Live(target[d]) /\ GiveUp(d)

(***************************************************************************)
(* approvePayrollRun                                                       *)
(***************************************************************************)
\* A likely mistake: any run that exists.
ApprovableAgain(k) == Live(k)

Approvable(k) == Live(k) /\ runs[k] # "Approved"

ApproveDirectly(d, k) ==
  /\ pc[d] = "idle"
  /\ Approvable(k)
  /\ target' = [target EXCEPT ![d] = k]
  /\ Goto(d, "read")
  /\ UNCHANGED <<payrollTables, verdict, missing, amiss, stale>>

HandleApproval(d) ==
  /\ pc[d] = "event" /\ verdict[d] = "approve"
  /\ Approvable(target[d])
  /\ stale' = stale \ {d}
  /\ Goto(d, "read")
  /\ UNCHANGED <<payrollTables, target, verdict, missing, amiss>>

RefuseApproval(d) ==
  pc[d] = "event" /\ verdict[d] = "approve" /\ ~Approvable(target[d]) /\ GiveUp(d)

StartAccrual(d) ==
  /\ pc[d] = "idle"
  /\ Goto(d, "read")
  /\ UNCHANGED <<payrollTables, target, verdict, missing, amiss, stale>>

FindAccounts(d) ==
  /\ pc[d] = "read"
  /\ missing' = [missing EXCEPT ![d] =
       (IF d \in Accruals THEN EosbAccounts ELSE PayrollAccounts) \ accounts]
  /\ Goto(d, "accounts")
  /\ UNCHANGED <<payrollTables, target, verdict, amiss, stale>>

CreateAccount(d) ==
  /\ pc[d] = "accounts"
  /\ \E a \in missing[d] \ accounts :
       /\ accounts' = accounts \cup {a}
       /\ missing' = [missing EXCEPT ![d] = @ \ {a}]
  /\ UNCHANGED <<runs, request, entries, target, verdict, amiss, pc, stale>>

\* Another call has created it meanwhile: tenantId and code are unique.
AccountExists(d) ==
  pc[d] = "accounts" /\ missing[d] \cap accounts # {} /\ GiveUp(d)

PostSalaries(d) ==
  /\ d \in Deciders
  /\ pc[d] = "accounts" /\ missing[d] = {}
  /\ Live(target[d])
  /\ entries' = entries \cup {d}
  /\ runs' = [runs EXCEPT ![target[d]] = "Approved"]
  /\ Write(d, PeriodOf[target[d]])
  /\ Give(d, "done")
  /\ UNCHANGED <<request, accounts, target, verdict>>

\* The run was deleted: its update throws and takes the entry back.
PostingFails(d) ==
  /\ d \in Deciders
  /\ pc[d] = "accounts" /\ missing[d] = {} /\ ~Live(target[d])
  /\ GiveUp(d)

PostAccrual(d) ==
  /\ d \in Accruals
  /\ pc[d] = "accounts" /\ missing[d] = {}
  /\ entries' = entries \cup {d}
  /\ Give(d, "done")
  /\ UNCHANGED <<runs, request, accounts, target, verdict, amiss, stale>>

\* A crash, a time-out, an event nobody handles, an entry the ledger refuses.
AbortPayroll(c) == InFlight(c) /\ GiveUp(c)

PayrollStep(c) ==
  \/ DeleteRun(c) \/ DeleteFails(c) \/ RefusePayslips(c)
  \/ CreateRun(c) \/ CreateFails(c)
  \/ Decide(c) \/ HandleRejection(c) \/ RejectionFails(c)
  \/ HandleApproval(c) \/ RefuseApproval(c)
  \/ FindAccounts(c) \/ CreateAccount(c) \/ AccountExists(c)
  \/ PostSalaries(c) \/ PostingFails(c) \/ PostAccrual(c)

PayrollNext ==
  \/ \E d \in Deciders, k \in Creators :
       \/ ReadRequest(d, k, "approve") \/ ReadRequest(d, k, "reject")
       \/ ApproveDirectly(d, k)
  \/ \E c \in Creators : FindRun(c)
  \/ \E d \in Accruals : StartAccrual(d)
  \/ \E c \in Creators \cup Deciders \cup Accruals : PayrollStep(c) \/ AbortPayroll(c)

PayrollSpec == PayrollInit /\ [][PayrollNext]_<<payrollVars, pc, stale>>

-----------------------------------------------------------------------------

PayrollPCs ==
  {"idle", "found", "cleared", "deciding", "event", "read", "accounts", "done", "failed"}

\* The columns and the calls hold values of their types.
PayrollTypeOK ==
  /\ runs \in [Creators -> PayrollStatuses \cup {"Absent"}]
  /\ request \in [Creators -> RequestStatuses]
  /\ entries \subseteq Deciders \cup Accruals
  /\ accounts \subseteq Chart \cup PayrollAccounts \cup EosbAccounts
  /\ target \in [Calls -> Creators \cup {NoRun}]
  /\ verdict \in [Calls -> {"direct", "approve", "reject"}]
  /\ missing \in [Calls -> SUBSET (PayrollAccounts \cup EosbAccounts)]
  /\ amiss \subseteq Periods
  /\ pc \in [Calls -> PayrollPCs]
  /\ stale \subseteq Calls

\* The salaries of a period are posted at most once, and then its run is the
\* approved one: over replacements, repeated approvals, decisions that come
\* late or twice and failures, unless a call acted on a run that had changed
\* since it read it, or a posted run was rejected.
SalariesPostedOnce ==
  \A d \in entries \cap Deciders :
    LET p == PeriodOf[target[d]]
    IN  p \notin amiss =>
          /\ runs[target[d]] = "Approved"
          /\ \A e \in entries \cap Deciders : PeriodOf[target[e]] = p => e = d
=============================================================================
