------------------------------ MODULE MCAccess -------------------------------
(***************************************************************************)
(* Sessions, accounts, the chart of accounts and the pages share no state  *)
(* that one of them writes and another one reads: one of them at a time.   *)
(***************************************************************************)
EXTENDS Sessions, Accounts, Chart, Web, TLC

CONSTANTS c1, c2, c3, b1, b2

VARIABLE atWork

parts == <<sessionVars, accountVars, chartVars, webVars, pc, stale, atWork>>

\* Two requests of one browser and one of another.
MCFrom == c1 :> b1 @@ c2 :> b1 @@ c3 :> b2

\* Three accounts of the template: its first root, with a child and a
\* grandchild.
MCTemplateType == [k \in {"1000", "1100", "1110"} |-> "Asset"]
MCTemplateParent == "1000" :> NoCode @@ "1100" :> "1000" @@ "1110" :> "1100"

AccessInit ==
  /\ SessionInit /\ AccountInit /\ ChartInit
  /\ atWork \in {"sessions", "accounts", "chart", "web"}
  /\ WebInit
  /\ atWork # "web" => page = InvoicePage /\ watched = "invoice"
  /\ atWork # "accounts" => Unknown

AccessNext ==
  /\ \/ /\ atWork = "sessions" /\ SessionNext
        /\ UNCHANGED <<accountVars, chartVars, webVars>>
     \/ /\ atWork = "accounts" /\ AccountNext
        /\ UNCHANGED <<sessionVars, chartVars, webVars>>
     \/ /\ atWork = "chart" /\ ChartNext
        /\ UNCHANGED <<sessionVars, accountVars, webVars>>
     \/ /\ atWork = "web" /\ WebNext
        /\ UNCHANGED <<sessionVars, accountVars, chartVars>>
  /\ UNCHANGED atWork

AccessSpec == AccessInit /\ [][AccessNext]_parts

\* The type invariants of the part at work.
TypeOK ==
  /\ atWork = "sessions" => SessionTypeOK
  /\ atWork = "accounts" => AccountTypeOK
  /\ atWork = "chart" => ChartTypeOK
  /\ atWork = "web" => WebTypeOK
=============================================================================
