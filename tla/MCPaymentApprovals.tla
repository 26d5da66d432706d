------------------------- MODULE MCPaymentApprovals -------------------------
(***************************************************************************)
(* Two payments that pay the same two invoices in opposite orders; the     *)
(* first is above the approval limit.                                      *)
(***************************************************************************)
EXTENDS PaymentApprovals, TLC

CONSTANTS c1, d1, d2, p1, p2, i1, i2

Allocate(i, a) == [invoice |-> i, amount |-> a]

MCPayments == {p1, p2}
MCNeedsApproval == {p1}
MCInvoices == {i1, i2}
MCTotal == i1 :> 2 @@ i2 :> 3
MCAllocations == p1 :> <<Allocate(i1, 1), Allocate(i2, 2)>>
              @@ p2 :> <<Allocate(i2, 1), Allocate(i1, 1)>>
=============================================================================
