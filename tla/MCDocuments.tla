----------------------------- MODULE MCDocuments -----------------------------
(***************************************************************************)
(* Business documents: their numbers, purchase orders, quotes and the      *)
(* hash chain of invoices.  No part reads rows another one writes (orders  *)
(* and quotes only insert an invoice), so one of them at a time is at      *)
(* work.                                                                   *)
(***************************************************************************)
EXTENDS Documents, Procurement, Crm, Zatca, TLC

CONSTANTS c1, c2, c3, c4, q1, q2, deal

VARIABLE atWork

parts == <<documentVars, orderVars, crmVars, zatcaVars, pc, stale, atWork>>

MCAbout == q1 :> deal @@ q2 :> NoOpportunity

PartsInit ==
  /\ DocumentsInit /\ ProcurementInit /\ CrmInit /\ ZatcaInit
  /\ atWork \in {"documents", "orders", "crm", "zatca"}

PartsNext ==
  /\ \/ /\ atWork = "documents" /\ DocumentsNext
        /\ UNCHANGED <<orderVars, crmVars, zatcaVars>>
     \/ /\ atWork = "orders" /\ ProcurementNext
        /\ UNCHANGED <<documentVars, crmVars, zatcaVars>>
     \/ /\ atWork = "crm" /\ CrmNext
        /\ UNCHANGED <<documentVars, orderVars, zatcaVars>>
     \/ /\ atWork = "zatca" /\ ZatcaNext
        /\ UNCHANGED <<documentVars, orderVars, crmVars>>
  /\ UNCHANGED atWork

PartsSpec == PartsInit /\ [][PartsNext]_parts

\* The type invariants of the part at work.
TypeOK ==
  /\ atWork = "documents" => DocumentsTypeOK
  /\ atWork = "orders" => ProcurementTypeOK
  /\ atWork = "crm" => CrmTypeOK
  /\ atWork = "zatca" => ZatcaTypeOK
=============================================================================
