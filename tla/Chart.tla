-------------------------------- MODULE Chart --------------------------------
(***************************************************************************)
(* ChartOfAccountsService: accounts are created one by one, under a parent *)
(* of the same type, and the template is seeded into whatever is there.    *)
(* Both look first and write later; a code is unique.                      *)
(***************************************************************************)
EXTENDS Requests

CONSTANTS
  ChartCalls,
  Codes,
  NoCode,
  TemplateType,     \* type of each account of the template
  TemplateParent    \* its parent in the template

Template == DOMAIN TemplateType
AccountTypes == {"Asset", "Liability", "Equity", "Revenue", "Expense"}

\* The template lists every account after its parent, which has its type.
ASSUME ChartAssumption ==
  /\ ChartCalls \subseteq Calls
  /\ NoCode \notin Codes
  /\ Template \subseteq Codes
  /\ TemplateType \in [Template -> AccountTypes]
  /\ TemplateParent \in [Template -> Template \cup {NoCode}]
  /\ \A k \in Template : TemplateParent[k] # NoCode =>
       TemplateType[TemplateParent[k]] = TemplateType[k]
  /\ ~\E S \in SUBSET Template : S # {} /\ \A k \in S : TemplateParent[k] \in S

VARIABLES
  accounts,   \* the rows: code, type and parent
  wanted,     \* the row a createAccount is to insert
  there,      \* the rows a seeding has read
  adopted     \* history: codes seeded under a parent the template did not make

chartTables == <<accounts>>
chartCalls == <<wanted, there>>
chartVars == <<chartTables, chartCalls, adopted>>

Row(k, ty, p) == [code |-> k, type |-> ty, parent |-> p]
CodesOf(S) == {a.code : a \in S}
ByTemplate(k) == Row(k, TemplateType[k], TemplateParent[k])

ChartInit ==
  /\ RequestsInit
  /\ accounts = {}
  /\ wanted = [c \in ChartCalls |-> Row(NoCode, "Asset", NoCode)]
  /\ there = [c \in ChartCalls |-> {}]
  /\ adopted = {}

\* A likely mistake: any account will do for a parent.
CheckCodeOnly(c, k, ty, p) ==
  /\ pc[c] = "idle"
  /\ k \notin CodesOf(accounts)
  /\ p # NoCode => p \in CodesOf(accounts)
  /\ wanted' = [wanted EXCEPT ![c] = Row(k, ty, p)]
  /\ Goto(c, "insert")
  /\ UNCHANGED <<accounts, there, adopted, stale>>

\* createAccount: the code is free and the parent has the type.
CheckAccountCode(c, k, ty, p) ==
  /\ pc[c] = "idle"
  /\ k \notin CodesOf(accounts)
  /\ p # NoCode => \E a \in accounts : a.code = p /\ a.type = ty
  /\ wanted' = [wanted EXCEPT ![c] = Row(k, ty, p)]
  /\ Goto(c, "insert")
  /\ UNCHANGED <<accounts, there, adopted, stale>>

RefuseAccount(c, k, ty, p) ==
  /\ pc[c] = "idle"
  /\ \/ k \in CodesOf(accounts)
     \/ p # NoCode /\ ~\E a \in accounts : a.code = p /\ a.type = ty
  /\ Goto(c, "failed")
  /\ UNCHANGED <<chartVars, stale>>

InsertAccount(c) ==
  /\ pc[c] = "insert"
  /\ IF wanted[c].code \in CodesOf(accounts)
     THEN Goto(c, "failed") /\ UNCHANGED accounts
     ELSE Goto(c, "done") /\ accounts' = accounts \cup {wanted[c]}
  /\ UNCHANGED <<chartCalls, adopted, stale>>

\* seedSmeTemplate reads what is there before its transaction starts.
ReadChart(c) ==
  /\ pc[c] = "idle"
  /\ there' = [there EXCEPT ![c] = accounts]
  /\ Goto(c, "seed")
  /\ UNCHANGED <<accounts, wanted, adopted, stale>>

\* One transaction: what was not there is created, under the account that has
\* the code of its parent, be it of the template or not; an account that came
\* in the meantime undoes all of it.
SeedTemplate(c) ==
  LET missing == Template \ CodesOf(there[c]) IN
  /\ pc[c] = "seed"
  /\ IF missing \cap CodesOf(accounts) # {}
     THEN Goto(c, "failed") /\ UNCHANGED <<accounts, adopted>>
     ELSE /\ accounts' = accounts \cup {ByTemplate(k) : k \in missing}
          /\ adopted' = adopted \cup
               {k \in missing : \E a \in there[c] :
                  a.code = TemplateParent[k] /\ a # ByTemplate(a.code)}
          /\ Goto(c, "done")
  /\ UNCHANGED <<chartCalls, stale>>

AbortChart(c) ==
  /\ InFlight(c)
  /\ Goto(c, "failed")
  /\ UNCHANGED <<chartVars, stale>>

ChartStep(c) == InsertAccount(c) \/ SeedTemplate(c)

ChartNext ==
  \E c \in ChartCalls :
    \/ \E k \in Codes, ty \in {"Asset", "Revenue"}, p \in Codes \cup {NoCode} :
         CheckAccountCode(c, k, ty, p) \/ RefuseAccount(c, k, ty, p)
    \/ ReadChart(c) \/ ChartStep(c) \/ AbortChart(c)

ChartSpec == ChartInit /\ [][ChartNext]_<<chartVars, pc, stale>>

-----------------------------------------------------------------------------

\* Rows have the columns of accounts, and what a call has read stays there.
ChartTypeOK ==
  /\ accounts \subseteq [code : Codes, type : AccountTypes, parent : Codes \cup {NoCode}]
  /\ there \in [ChartCalls -> SUBSET accounts]

\* getAccountTree: a root, or under the parent if there is one, else a root.
RootRows == {a \in accounts : a.parent = NoCode \/ a.parent \notin CodesOf(accounts)}
ChildRows(a) == {b \in accounts : b.parent = a.code}

\* The chart is a forest: a code stands for one account, every parent is there,
\* no accounts are each other's ancestors, and a child has the type of its
\* parent unless the template put it under an account of the user.
ChartIsForest ==
  /\ \A a, b \in accounts : a.code = b.code => a = b
  /\ \A a \in RootRows : a.parent = NoCode
  /\ ~\E S \in SUBSET accounts : S # {} /\ \A b \in S : \E a \in S : b \in ChildRows(a)
  /\ \A a \in accounts : \A b \in ChildRows(a) : b.code \in adopted \/ a.type = b.type
=============================================================================
