----------------------------- MODULE Inventory ------------------------------
(***************************************************************************)
(* Stock: InventoryService.processInwardMovement, processOutwardMovement   *)
(* and upsertBalance as InvoicesService.approve calls them inside its      *)
(* transaction, and InventoryService.transferInventory.                    *)
(*                                                                         *)
(* A document is an invoice or a transfer and stands for the movements its *)
(* lines make, in order.  PostgreSQL at READ COMMITTED: a read sees the    *)
(* committed rows and the transaction's own; an updated or inserted row is *)
(* locked until the end of the transaction.  Costs are left out.           *)
(***************************************************************************)
EXTENDS Integers, Sequences, FiniteSets

CONSTANTS
  Stocks,      \* (itemId, warehouseId) pairs: keys of inventoryBalance
  Items,
  ItemOf,      \* [Stocks -> Items]
  Opening,     \* [Stocks -> Nat \cup {NoRow}], the balances to begin with
  Invoices, Transfers,
  Moves,       \* [Documents -> Seq(Move)]
  Calls,       \* calls of InvoicesService.approve and of transferInventory
  NoRow

Documents == Invoices \cup Transfers

\* A purchase line moves "inward", a sales line and the source of a transfer
\* "outward", the destination of a transfer "into".  The quantity of an
\* invoice line is not negative (@Min(0)); a transfer's may be any number.
Move == [kind: {"inward", "outward", "into"}, stock: Stocks, quantity: Int]

ASSUME InventoryAssumption ==
  /\ IsFiniteSet(Calls)
  /\ Documents # {}
  /\ Invoices \cap Transfers = {}
  /\ NoRow \notin Int
  /\ ItemOf \in [Stocks -> Items]
  /\ Opening \in [Stocks -> Nat \cup {NoRow}]
  /\ Moves \in [Documents -> Seq(Move)]
  /\ \A d \in Documents : \A n \in 1..Len(Moves[d]) :
       Moves[d][n].quantity < 0 => Moves[d][n].kind # "inward"

VARIABLES
  balance,   \* quantity column of each inventoryBalance row, as committed
  draft,     \* the invoices whose status is Draft
  moved,     \* history: the quantities of the committed inventoryTransactions
  raced,     \* history: stocks some call handled on a quantity no longer true
  pc,        \* where each call stands
  doc,       \* the document a call is about
  next,      \* the movement a call is at
  seen,      \* the balance a call has read last
  wrote,     \* the balances a call's open transaction has written
  counted    \* history: what it has moved so far, per stock

tables == <<balance, draft>>
callVars == <<pc, doc, next, seen, wrote, counted>>
vars == <<tables, callVars, moved, raced>>

Nothing == [k \in Stocks |-> 0]
NoRows == [k \in Stocks |-> NoRow]
PCs == {"idle", "line", "checked", "read", "posted", "done", "failed"}

\* A missing row is a balance of zero.
Quantity(row) == IF row = NoRow THEN 0 ELSE row

Ended(c) == pc[c] \in {"done", "failed"}
InFlight(c) == pc[c] # "idle" /\ ~Ended(c)

Finished(c) == next[c] > Len(Moves[doc[c]])
Current(c) == Moves[doc[c]][next[c]]

\* What a movement adds to the balance.
Delta(m) == IF m.kind = "outward" THEN -m.quantity ELSE m.quantity

\* Rows that c's open transaction has written and keeps locked: balances, and
\* items, whose weightedAverageCost an inward movement updates first.
Locks(c, k) == wrote[c][k] # NoRow
LocksItem(c, i) ==
  \E n \in 1..Len(Moves[doc[c]]) :
    /\ InFlight(c)
    /\ Moves[doc[c]][n].kind = "inward"
    /\ ItemOf[Moves[doc[c]][n].stock] = i
    /\ n < next[c] \/ (n = next[c] /\ pc[c] \in {"checked", "read"})

\* The row a statement of c's transaction sees.
Visible(c, k) == IF Locks(c, k) THEN wrote[c][k] ELSE balance[k]

Init ==
  /\ balance = Opening
  /\ draft = Invoices
  /\ moved = [k \in Stocks |-> Quantity(Opening[k])]
  /\ raced = {}
  /\ pc = [c \in Calls |-> "idle"]
  /\ doc = [c \in Calls |-> CHOOSE d \in Documents : TRUE]
  /\ next = [c \in Calls |-> 1]
  /\ seen = [c \in Calls |-> NoRow]
  /\ wrote = [c \in Calls |-> NoRows]
  /\ counted = [c \in Calls |-> Nothing]

Goto(c, l) == pc' = [pc EXCEPT ![c] = l]

\* The call ends; its transaction with it.
End(c, l) ==
  /\ Goto(c, l)
  /\ next' = [next EXCEPT ![c] = 1]
  /\ seen' = [seen EXCEPT ![c] = NoRow]
  /\ wrote' = [wrote EXCEPT ![c] = NoRows]
  /\ counted' = [counted EXCEPT ![c] = Nothing]

Fail(c) == End(c, "failed") /\ UNCHANGED <<doc, tables, moved, raced>>

\* PATCH /invoices/:id/approve: the status is read before the transaction.
\* POST /accounting/inventory/transfer: nothing is checked.
Begin(c, d) ==
  /\ pc[c] = "idle"
  /\ d \in Transfers \/ d \in draft
  /\ doc' = [doc EXCEPT ![c] = d]
  /\ Goto(c, "line")
  /\ UNCHANGED <<tables, moved, raced, next, seen, wrote, counted>>

\* Outward: the balance is read and compared.
Sufficient(c) ==
  LET k == Current(c).stock
  IN  Visible(c, k) # NoRow /\ Visible(c, k) >= Current(c).quantity

\* A likely mistake: a missing row is refused, a small balance is not.
CheckRow(c) ==
  /\ pc[c] = "line"
  /\ ~Finished(c)
  /\ Current(c).kind = "outward"
  /\ Visible(c, Current(c).stock) # NoRow
  /\ seen' = [seen EXCEPT ![c] = Visible(c, Current(c).stock)]
  /\ Goto(c, "checked")
  /\ UNCHANGED <<tables, moved, raced, doc, next, wrote, counted>>

CheckStock(c) ==
  /\ pc[c] = "line"
  /\ ~Finished(c)
  /\ Current(c).kind = "outward"
  /\ Sufficient(c)
  /\ seen' = [seen EXCEPT ![c] = Visible(c, Current(c).stock)]
  /\ Goto(c, "checked")
  /\ UNCHANGED <<tables, moved, raced, doc, next, wrote, counted>>

\* A likely mistake: wait for a delivery instead of giving up.
AwaitStock(c) ==
  /\ pc[c] = "line"
  /\ ~Finished(c)
  /\ Current(c).kind = "outward"
  /\ ~Sufficient(c)
  /\ Goto(c, "line")
  /\ UNCHANGED <<tables, moved, raced, doc, next, seen, wrote, counted>>

\* "Insufficient stock": the whole document is rolled back.
RefuseStock(c) ==
  /\ pc[c] = "line"
  /\ ~Finished(c)
  /\ Current(c).kind = "outward"
  /\ ~Sufficient(c)
  /\ Fail(c)

\* Inward: the new weighted average cost is written in the item.
UpdateItem(c) ==
  /\ pc[c] = "line"
  /\ ~Finished(c)
  /\ Current(c).kind = "inward"
  /\ \A d \in Calls \ {c} : ~LocksItem(d, ItemOf[Current(c).stock])
  /\ Goto(c, "checked")
  /\ UNCHANGED <<tables, moved, raced, doc, next, seen, wrote, counted>>

\* upsertBalance reads the row again, which a commit may have changed since an
\* outward movement was checked.
ReadBalance(c) ==
  /\ \/ pc[c] = "checked"
     \/ pc[c] = "line" /\ ~Finished(c) /\ Current(c).kind = "into"
  /\ LET k == Current(c).stock
     IN  /\ seen' = [seen EXCEPT ![c] = Visible(c, k)]
         /\ raced' = IF Current(c).kind = "outward" /\ Visible(c, k) # seen[c]
                     THEN raced \cup {k} ELSE raced
  /\ Goto(c, "read")
  /\ UNCHANGED <<tables, moved, doc, next, wrote, counted>>

\* The row becomes what c last read plus the movement; the movement's
\* inventoryTransaction is inserted with it.
Write(c) ==
  LET k == Current(c).stock
  IN  /\ \A d \in Calls \ {c} : ~Locks(d, k)
      /\ wrote' = [wrote EXCEPT ![c][k] = Quantity(seen[c]) + Delta(Current(c))]
      /\ counted' = [counted EXCEPT ![c][k] = @ + Delta(Current(c))]
      /\ raced' = IF Visible(c, k) # seen[c] THEN raced \cup {k} ELSE raced
      /\ next' = [next EXCEPT ![c] = @ + 1]
      /\ Goto(c, "line")
      /\ UNCHANGED <<moved, doc, seen>>

\* A likely mistake: upsertBalance uses this.prisma instead of tx, so a
\* rollback leaves the row as it is.
UpdateBalanceOutside(c) ==
  /\ pc[c] = "read"
  /\ seen[c] # NoRow
  /\ Write(c)
  /\ balance' = [balance EXCEPT ![Current(c).stock] = seen[c] + Delta(Current(c))]
  /\ UNCHANGED draft

UpdateBalance(c) ==
  /\ pc[c] = "read"
  /\ seen[c] # NoRow
  /\ Write(c)
  /\ UNCHANGED tables

\* A likely mistake: the loop goes on with the line after the next.
InsertBalanceSkips(c) ==
  /\ pc[c] = "read"
  /\ seen[c] = NoRow
  /\ balance[Current(c).stock] = NoRow
  /\ \A d \in Calls \ {c} : ~Locks(d, Current(c).stock)
  /\ wrote' = [wrote EXCEPT ![c][Current(c).stock] = Delta(Current(c))]
  /\ counted' = [counted EXCEPT ![c][Current(c).stock] = @ + Delta(Current(c))]
  /\ next' = [next EXCEPT ![c] = @ + 2]
  /\ Goto(c, "line")
  /\ UNCHANGED <<tables, moved, raced, doc, seen>>

\* No row was found.
InsertBalance(c) ==
  /\ pc[c] = "read"
  /\ seen[c] = NoRow
  /\ balance[Current(c).stock] = NoRow
  /\ Write(c)
  /\ UNCHANGED tables

\* ... but another transaction has inserted one: the unique key refuses.
InsertFails(c) ==
  /\ pc[c] = "read"
  /\ seen[c] = NoRow
  /\ balance[Current(c).stock] # NoRow
  /\ Fail(c)

\* The journal entry of an approved invoice; a second posting that counts the
\* same entries waits for the first one's transaction.
PostEntry(c) ==
  /\ pc[c] = "line"
  /\ Finished(c)
  /\ doc[c] \in Invoices
  /\ \A d \in Calls : pc[d] # "posted"
  /\ Goto(c, "posted")
  /\ UNCHANGED <<tables, moved, raced, doc, next, seen, wrote, counted>>

\* The invoice becomes Approved, by id alone, and everything is committed.
Commit(c) ==
  /\ \/ pc[c] = "posted"
     \/ pc[c] = "line" /\ Finished(c) /\ doc[c] \in Transfers
  /\ balance' = [k \in Stocks |-> Visible(c, k)]
  /\ draft' = draft \ {doc[c]}
  /\ moved' = [k \in Stocks |-> moved[k] + counted[c][k]]
  /\ End(c, "done")
  /\ UNCHANGED <<doc, raced>>

\* Call c waits for a row that call d has locked.
WaitsFor(c, d) ==
  /\ d # c
  /\ InFlight(c)
  /\ ~Finished(c)
  /\ \/ /\ pc[c] = "line"
        /\ Current(c).kind = "inward"
        /\ LocksItem(d, ItemOf[Current(c).stock])
     \/ pc[c] = "read" /\ Locks(d, Current(c).stock)

\* PostgreSQL finds c on a cycle of waiting transactions and aborts it.
DeadlockVictim(c) ==
  /\ \E S \in SUBSET Calls :
       c \in S /\ \A a \in S : \E b \in S : WaitsFor(a, b)
  /\ Fail(c)

\* A crash, a timeout, a lost connection, an entry the ledger refuses.
Abort(c) == InFlight(c) /\ Fail(c)

Step(c) ==
  \/ CheckStock(c) \/ RefuseStock(c) \/ UpdateItem(c)
  \/ ReadBalance(c) \/ UpdateBalance(c) \/ InsertBalance(c) \/ InsertFails(c)
  \/ PostEntry(c) \/ Commit(c) \/ DeadlockVictim(c)

Next ==
  \/ \E c \in Calls, d \in Documents : Begin(c, d)
  \/ \E c \in Calls : Step(c) \/ Abort(c)

Spec == Init /\ [][Next]_vars

\* The server and the database never both stop while a call can go on.
FairSpec == Spec /\ WF_vars(\E c \in Calls : Step(c))

-----------------------------------------------------------------------------

\* The columns and the calls hold values of their types.
TypeOK ==
  /\ balance \in [Stocks -> Int \cup {NoRow}]
  /\ draft \subseteq Invoices
  /\ moved \in [Stocks -> Int]
  /\ raced \subseteq Stocks
  /\ pc \in [Calls -> PCs]
  /\ doc \in [Calls -> Documents]
  /\ next \in [Calls -> Nat]
  /\ \A c \in Calls : next[c] \in 1..Len(Moves[doc[c]]) + 1
  /\ seen \in [Calls -> Int \cup {NoRow}]
  /\ wrote \in [Calls -> [Stocks -> Int \cup {NoRow}]]
  /\ counted \in [Calls -> [Stocks -> Int]]

\* A balance is the sum of the recorded movements, over any mix of documents,
\* refusals, rollbacks and deadlocks, unless some call wrote it from a
\* quantity that had changed since it read it.
BalanceIsSumOfMovements ==
  \A k \in Stocks \ raced : Quantity(balance[k]) = moved[k]

\* A transfer of a negative quantity takes from its destination, which
\* transferInventory does not check.
Unguarded(k) ==
  \E d \in Documents : \E n \in 1..Len(Moves[d]) :
    /\ Moves[d][n].kind = "into"
    /\ Moves[d][n].stock = k
    /\ Moves[d][n].quantity < 0

\* Stock is never oversold, several lines of one document included, unless a
\* call acted on a quantity that was no longer true.
NeverOversold ==
  \A k \in Stocks \ raced : ~Unguarded(k) => Quantity(balance[k]) >= 0

\* Documents lock items and balances in the order of their lines, which may be
\* opposite; still every call comes to an end.
CallsEnd == \A c \in Calls : InFlight(c) ~> Ended(c)
=============================================================================
