---------------------------- MODULE MCInventory -----------------------------
(***************************************************************************)
(* Two items.  The purchase and the transfer race for the first balance    *)
(* row of item a in a warehouse, and purchase, sale and transfer lock rows *)
(* in a cycle: a2 then b1, b1 then a1, a1 then a2.                         *)
(***************************************************************************)
EXTENDS Inventory, TLC

CONSTANTS a, b, a1, a2, b1, purchase, sale, transfer, c1, c2, c3

MoveOf(kind, k, q) == [kind |-> kind, stock |-> k, quantity |-> q]

MCStocks == {a1, a2, b1}
MCItemOf == a1 :> a @@ a2 :> a @@ b1 :> b
MCOpening == a1 :> 2 @@ a2 :> NoRow @@ b1 :> 1
MCMoves ==
     purchase :> <<MoveOf("inward", a2, 1), MoveOf("inward", b1, 1)>>
  @@ sale     :> <<MoveOf("outward", b1, 1), MoveOf("outward", a1, 2)>>
  @@ transfer :> <<MoveOf("outward", a1, 1), MoveOf("into", a2, 1)>>
=============================================================================
