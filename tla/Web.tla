--------------------------------- MODULE Web ---------------------------------
(***************************************************************************)
(* The pages of the web application: what each one shows, what can be done *)
(* on it and what it asks for again afterwards; and the cache they share,  *)
(* where an answer may be older than the work that was done meanwhile.     *)
(* Entries of the cache do not affect each other: one of them is watched.  *)
(***************************************************************************)
EXTENDS Naturals, Requests

CONSTANTS
  WebCalls,     \* operations, of this browser and of other users
  MaxVisits     \* bound on the pages opened

ASSUME WebAssumption == WebCalls \subseteq Calls /\ MaxVisits \in Nat

(***************************************************************************)
(* An operation writes tables and refreshes entries of the cache.          *)
(***************************************************************************)
Op(writes, refreshes) == [writes |-> writes, refreshes |-> refreshes]
Page(shows, does) == [shows |-> shows, does |-> does]
Posting == {"JournalEntry"}

InvoicesPage == Page({"invoices", "contacts", "accounts"},
  [createInvoice |-> Op({"Sequence", "Invoice"}, {"invoices"}),
   approveInvoice |-> Op({"Invoice", "Item", "StockTransaction"} \cup Posting,
                         {"invoices"})])
InvoicePage == Page({"invoice"},
  [generateZatca |-> Op({"Invoice"}, {"invoice"}),
   submitZatca |-> Op({"Invoice"}, {"invoice"})])
PaymentsPage == Page({"payments", "contacts", "accounts"},
  [createPayment |-> Op({"Sequence", "Payment", "ApprovalRequest"}, {"payments"}),
   approvePayment |-> Op({"Payment", "Invoice"} \cup Posting, {"payments"})])
ProcurementPage ==
  Page({"purchase-orders", "contacts-suppliers", "items", "warehouses"},
  [createOrder |-> Op({"PurchaseOrder", "ApprovalRequest"}, {"purchase-orders"}),
   receiveOrder |-> Op({"PurchaseOrder", "StockTransaction"}, {"purchase-orders"}),
   billOrder |-> Op({"PurchaseOrder", "Invoice"}, {"purchase-orders"})])
\* A decision reaches whatever document it is about.
Decision == Op({"ApprovalRequest", "Invoice", "Payment", "PayrollRun",
                "PurchaseOrder", "Account"} \cup Posting, {"pending-approvals"})
ApprovalsPage == Page({"pending-approvals", "approval-details"},
  [approveRequest |-> Decision, rejectRequest |-> Decision])
CrmPage == Page({"opportunities", "contacts-customers"},
  [createOpportunity |-> Op({"Opportunity"}, {"opportunities"}),
   updateStage |-> Op({"Opportunity"}, {"opportunities"})])
InventoryPage ==
  Page({"inventory-items", "inventory-warehouses", "inventory-transactions"},
  [createItem |-> Op({"Item"}, {"inventory-items"}),
   createWarehouse |-> Op({"Warehouse"}, {"inventory-warehouses"})])
PeriodsPage == Page({"accounting-periods"},
  [initializeYear |-> Op({"Period"}, {"accounting-periods"})])
JournalEntriesPage == Page({"journal-entries", "coa"},
  [createEntry |-> Op(Posting, {"journal-entries"})])
PayrollPage == Page({"employee-profiles", "payroll-runs"},
  [createRun |-> Op({"PayrollRun", "ApprovalRequest"}, {"payroll-runs"})])
ContactsPage == Page({"contacts", "accounts"},
  [createContact |-> Op({"Contact", "EmployeeProfile"},
                        {"contacts", "employee-profiles"})])
CoaPage == Page({"coa"}, [seedTemplate |-> Op({"Account"}, {"coa"})])
FixedAssetsPage == Page({"fixed-assets", "accounts", "fixed-asset-schedules"},
  [createAsset |-> Op({"FixedAsset", "Schedule"}, {"fixed-assets"}),
   runDepreciation |-> Op({"Schedule"} \cup Posting,
                          {"fixed-assets", "fixed-asset-schedules"})])
UsersPage == Page({"users", "roles"},
  [inviteUser |-> Op({"User", "TenantUser"}, {"users"})])
Matching == Op({"JournalEntry"},
               {"reconciliation-details", "unreconciled-lines"})
ReconciliationPage ==
  Page({"reconciliations", "reconciliation-details", "unreconciled-lines", "accounts"},
  [uploadStatement |-> Op({"Reconciliation"}, {"reconciliations"}),
   autoMatch |-> Matching, manualMatch |-> Matching, manualUnmatch |-> Matching,
   reconcile |-> Op({"Reconciliation"},
                    {"reconciliations", "reconciliation-details"})])

\* Saving loads the application anew: for the entry a refresh like the others.
SettingsPage == Page({"tenants"}, [saveSettings |-> Op({"Tenant"}, {"tenants"})])

NoOp == [o \in {} |-> Op({}, {})]
HrPage == Page({"employee-profiles"}, NoOp)
CompliancePage == Page({"vat-return", "zakat-estimate"}, NoOp)
LedgerPage == Page({"trial-balance", "gl-transactions"}, NoOp)
DashboardPage == Page({"dashboard-kpis"}, NoOp)
BalanceSheetPage == Page({"balance-sheet"}, NoOp)
IncomeStatementPage == Page({"income-statement"}, NoOp)
TrialBalancePage == Page({"trial-balance"}, NoOp)

Pages == {InvoicesPage, InvoicePage, PaymentsPage, ProcurementPage,
          ApprovalsPage, CrmPage, InventoryPage, PeriodsPage,
          JournalEntriesPage, PayrollPage, ContactsPage, CoaPage,
          FixedAssetsPage, UsersPage, ReconciliationPage, SettingsPage, HrPage,
          CompliancePage, LedgerPage, DashboardPage, BalanceSheetPage,
          IncomeStatementPage, TrialBalancePage}
Keys == UNION {p.shows : p \in Pages}

\* The tables an answer is made from, by the function that makes it.  Rows that
\* are only named in the answer (the contact of an invoice) are left out: no
\* page renames one.
InvoiceRows == {"Invoice"}
ContactRows == {"Contact"}
AccountRows == {"Account"}
PaymentRows == {"Payment"}
OrderRows == {"PurchaseOrder"}
ItemRows == {"Item"}
WarehouseRows == {"Warehouse"}
MovementRows == {"StockTransaction"}
PendingRows == {"ApprovalRequest"}
DetailRows == {"ApprovalRequest", "Payment", "PurchaseOrder", "PayrollRun"}
OpportunityRows == {"Opportunity"}
PeriodRows == {"Period"}
ProfileRows == {"EmployeeProfile"}
RunRows == {"PayrollRun"}
AssetRows == {"FixedAsset"}
ScheduleRows == {"FixedAsset", "Schedule"}
UserRows == {"User", "TenantUser"}
RoleRows == {"Role"}
TenantRows == {"Tenant"}
ReconciliationRows == {"Reconciliation"}
UnreconciledRows == {"JournalEntry"}
EntryRows == {"JournalEntry"}
PostedRows == {"JournalEntry"}
VatRows == {"Invoice"}
KpiRows == {"JournalEntry", "Invoice", "EmployeeProfile", "Opportunity", "Item"}

Tables(k) ==
  CASE k \in {"invoices", "invoice"} -> InvoiceRows
    [] k \in {"contacts", "contacts-customers", "contacts-suppliers"} -> ContactRows
    [] k \in {"accounts", "coa"} -> AccountRows
    [] k = "payments" -> PaymentRows
    [] k = "purchase-orders" -> OrderRows
    [] k \in {"items", "inventory-items"} -> ItemRows
    [] k \in {"warehouses", "inventory-warehouses"} -> WarehouseRows
    [] k = "inventory-transactions" -> MovementRows
    [] k = "pending-approvals" -> PendingRows
    [] k = "approval-details" -> DetailRows
    [] k = "opportunities" -> OpportunityRows
    [] k = "accounting-periods" -> PeriodRows
    [] k = "employee-profiles" -> ProfileRows
    [] k = "payroll-runs" -> RunRows
    [] k = "fixed-assets" -> AssetRows
    [] k = "fixed-asset-schedules" -> ScheduleRows
    [] k = "users" -> UserRows
    [] k = "roles" -> RoleRows
    [] k = "tenants" -> TenantRows
    [] k = "reconciliations" -> ReconciliationRows
    [] k = "reconciliation-details" -> ReconciliationRows \cup UnreconciledRows
    [] k = "unreconciled-lines" -> UnreconciledRows
    [] k = "journal-entries" -> EntryRows
    [] k = "vat-return" -> VatRows
    [] k = "dashboard-kpis" -> KpiRows
    [] OTHER -> PostedRows

\* A failure of these queries is answered with an empty list.
Swallowed == {"opportunities", "employee-profiles", "payroll-runs",
              "purchase-orders", "items", "warehouses"}

Touches(op, k) == Tables(k) \cap op.writes # {}

\* The pages where an entry is shown, changed or refreshed, and a last one where
\* it is not.
OpsOf(p) == {p.does[o] : o \in DOMAIN p.does}
Concerns(p, k) == k \in p.shows \/ \E op \in OpsOf(p) : Touches(op, k) \/ k \in op.refreshes
PagesAbout == [k \in Keys |-> {p \in Pages : Concerns(p, k)} \cup {TrialBalancePage}]
Changes == [k \in Keys |-> {op \in UNION {OpsOf(p) : p \in Pages} : Touches(op, k)}]

VARIABLES
  watched,     \* the entry of the cache that is watched
  page,        \* the page that is open
  visits,      \* pages opened so far
  doing,       \* the operation of each call
  sent,        \* calls of this browser
  written,     \* calls whose work is in the database
  shown,       \* the calls whose work the entry shows
  filled,      \* the entry has data
  old,         \* it has none, or what it has is a minute old or invalidated
  fetch,       \* of the entry: none, asked, or answered with ...
  answer,      \* ... the work of these calls
  missed       \* history: since the last question a fetch failed, or the answer
               \* to it passed for one that came after the work

entry == <<shown, filled, old, fetch, answer, missed>>
webVars == <<watched, page, visits, doing, sent, written, entry>>

\* The layout around every page shows how many approvals are pending.
Visible == watched \in page.shows \/ watched = "pending-approvals"
Relevant(S) == {c \in S : Touches(doing[c], watched)}

\* A page that shows the entry asks for it when it is old.
Ask == fetch' = "asked" /\ answer' = {} /\ missed' = FALSE
AskIf(b) == IF b THEN Ask ELSE UNCHANGED <<fetch, answer, missed>>

WebInit ==
  /\ RequestsInit
  /\ page \in Pages
  /\ watched \in {k \in page.shows : \E op \in Changes[k] : k \in op.refreshes}
  /\ visits = 0
  /\ doing = [c \in WebCalls |-> Op({}, {})]
  /\ sent = {} /\ written = {} /\ shown = {} /\ answer = {}
  /\ filled = FALSE /\ old = TRUE /\ fetch = "asked" /\ missed = FALSE

OpenPage(p) ==
  /\ visits < MaxVisits
  /\ page' = p /\ visits' = visits + 1
  /\ AskIf(p # page /\ watched \in p.shows /\ old /\ fetch = "none")
  /\ UNCHANGED <<watched, doing, sent, written, shown, filled, old, pc, stale>>

\* A likely mistake: what was only sent is shown as well.
AnswerOptimistically ==
  /\ fetch = "asked"
  /\ fetch' = "answered" /\ answer' = Relevant(written \cup sent)
  /\ UNCHANGED <<watched, page, visits, doing, sent, written, shown, filled, old, missed,
                 pc, stale>>

AnswerFetch ==
  /\ fetch = "asked"
  /\ fetch' = "answered" /\ answer' = Relevant(written)
  /\ UNCHANGED <<watched, page, visits, doing, sent, written, shown, filled, old, missed,
                 pc, stale>>

ShowAnswer ==
  /\ fetch = "answered"
  /\ shown' = answer /\ filled' = TRUE /\ old' = FALSE
  /\ fetch' = "none" /\ answer' = {}
  /\ UNCHANGED <<watched, page, visits, doing, sent, written, missed, pc, stale>>

\* After its retries.  What was there stays, or an empty list takes its place.
FetchFails ==
  /\ fetch # "none"
  /\ fetch' = "none" /\ answer' = {}
  /\ missed' = TRUE
  /\ IF watched \in Swallowed THEN shown' = {} /\ filled' = TRUE /\ old' = FALSE
                              ELSE UNCHANGED <<shown, filled, old>>
  /\ UNCHANGED <<watched, page, visits, doing, sent, written, pc, stale>>

\* staleTime is over: the next page that shows the entry asks for it.
EntryAges ==
  /\ ~old /\ old' = TRUE
  /\ UNCHANGED <<watched, page, visits, doing, sent, written, shown, filled, fetch,
                 answer, missed, pc, stale>>

\* The layout asks for the pending approvals every ten seconds.
PollApprovals ==
  /\ watched = "pending-approvals" /\ fetch = "none"
  /\ Ask
  /\ UNCHANGED <<watched, page, visits, doing, sent, written, shown, filled, old, pc,
                 stale>>

\* Only what concerns the entry is of interest.
Mutate(c, op) ==
  /\ pc[c] = "idle" /\ (Touches(op, watched) \/ watched \in op.refreshes)
  /\ doing' = [doing EXCEPT ![c] = op]
  /\ sent' = sent \cup {c}
  /\ Goto(c, "serve")
  /\ UNCHANGED <<watched, page, visits, written, entry, stale>>

\* Another user changes what the entry shows, it does not matter how.
OthersWrite(c) ==
  /\ pc[c] = "idle"
  /\ doing' = [doing EXCEPT ![c] = CHOOSE op \in Changes[watched] : TRUE]
  /\ written' = written \cup {c}
  /\ Goto(c, "done")
  /\ UNCHANGED <<watched, page, visits, sent, entry, stale>>

Serve(c) ==
  /\ pc[c] = "serve"
  /\ \/ written' = written \cup {c} /\ Goto(c, "succeed")
     \/ Goto(c, "failed") /\ UNCHANGED written
  /\ UNCHANGED <<watched, page, visits, doing, sent, entry, stale>>

\* onSuccess invalidates, wherever the user is by now.  A page that shows the
\* entry asks anew, and the question before is dropped if the entry has data; if
\* it has none yet, the first question goes on, and so does one for a page that
\* was left.  What that brings passes for new, whenever it was read.
Asks == Visible /\ (filled \/ fetch = "none")
Overtaken(c) == fetch = "answered" /\ ~(Relevant({c}) \subseteq answer)
Invalidate(c, b) ==
  IF b THEN Ask
       ELSE /\ missed' = (missed \/ (~Asks /\ Overtaken(c)))
            /\ UNCHANGED <<fetch, answer>>

\* A likely mistake: a fetch that is under way will do.
SucceedAfterFetch(c) ==
  /\ pc[c] = "succeed"
  /\ Goto(c, "done")
  /\ IF watched \in doing[c].refreshes
     THEN old' = TRUE /\ Invalidate(c, Visible /\ fetch = "none")
     ELSE UNCHANGED <<old, fetch, answer, missed>>
  /\ UNCHANGED <<watched, page, visits, doing, sent, written, shown, filled, stale>>

Succeed(c) ==
  /\ pc[c] = "succeed"
  /\ Goto(c, "done")
  /\ IF watched \in doing[c].refreshes
     THEN old' = TRUE /\ Invalidate(c, Asks)
     ELSE UNCHANGED <<old, fetch, answer, missed>>
  /\ UNCHANGED <<watched, page, visits, doing, sent, written, shown, filled, stale>>

WebStep(c) == Serve(c) \/ Succeed(c)

WebNext ==
  \/ \E p \in PagesAbout[watched] : OpenPage(p)
  \/ AnswerFetch \/ ShowAnswer \/ FetchFails \/ EntryAges \/ PollApprovals
  \/ \E c \in WebCalls :
       \/ \E op \in OpsOf(page) : Mutate(c, op)
       \/ OthersWrite(c) \/ WebStep(c)

WebSpec == WebInit /\ [][WebNext]_<<webVars, pc, stale>>

WebTypeOK ==
  /\ watched \in Keys /\ page \in Pages /\ visits \in 0..MaxVisits
  /\ sent \subseteq WebCalls /\ written \subseteq WebCalls
  /\ shown \subseteq written /\ answer \subseteq written
  /\ fetch \in {"none", "asked", "answered"}
  /\ filled \in BOOLEAN /\ old \in BOOLEAN /\ missed \in BOOLEAN
  /\ filled \/ old

\* Who has done something sees it: once an operation of this browser has
\* succeeded, an entry it refreshes never shows, on a page where nothing is
\* being fetched, what was before; whichever page the user has opened and in
\* whatever order the answers came, unless the last fetch has failed or was read
\* before the work and kept by the cache all the same.
OwnWorkShown ==
  missed \/ ~Visible \/ fetch # "none" \/
  \A c \in sent :
    /\ pc[c] = "done"
    /\ watched \in doing[c].refreshes /\ Touches(doing[c], watched)
    => c \in shown
=============================================================================
