-------------------------- MODULE InventoryProofs ---------------------------
(***************************************************************************)
(* Stock adds up and is never oversold by calls that act on quantities     *)
(* still true, for any documents, warehouses and number of calls.          *)
(***************************************************************************)
EXTENDS Inventory, SequenceTheorems, TLAPS

\* A call is at a movement of its document while it handles one.
AtMove ==
  \A c \in Calls :
    /\ pc[c] = "idle" => next[c] = 1
    /\ pc[c] \in {"checked", "read"} => ~Finished(c)

\* A row is locked by one call, which is in flight.
LocksSound ==
  \A c \in Calls, k \in Stocks : Locks(c, k) =>
    /\ InFlight(c)
    /\ \A d \in Calls : Locks(d, k) => d = c

\* A call has moved nothing of a stock it has not locked.
CountedSound == \A c \in Calls, k \in Stocks : ~Locks(c, k) => counted[c][k] = 0

\* The quantity an outward movement was checked against suffices.
CheckedSound ==
  \A c \in Calls :
    /\ pc[c] \in {"checked", "read"}
    /\ Current(c).kind = "outward"
    /\ Current(c).stock \notin raced
    => seen[c] # NoRow /\ seen[c] >= Current(c).quantity

\* Committed and uncommitted rows add up.
Sums ==
  \A k \in Stocks \ raced :
    /\ Quantity(balance[k]) = moved[k]
    /\ \A c \in Calls : Locks(c, k) => wrote[c][k] = moved[k] + counted[c][k]

\* Committed and uncommitted rows are not negative.
Backed ==
  \A k \in Stocks \ raced : ~Unguarded(k) =>
    /\ Quantity(balance[k]) >= 0
    /\ \A c \in Calls : Locks(c, k) => wrote[c][k] >= 0

IInv == /\ TypeOK
        /\ AtMove
        /\ LocksSound
        /\ CountedSound
        /\ CheckedSound
        /\ Sums
        /\ Backed

-----------------------------------------------------------------------------
(* Types.                                                                  *)

\* The movement a call is at is one of its document's.
LEMMA CurrentTyped ==
  ASSUME TypeOK, NEW c \in Calls, ~Finished(c)
  PROVE  /\ Current(c) \in Move
         /\ next[c] \in 1..Len(Moves[doc[c]])
         /\ doc[c] \in Documents
<1>1. Moves[doc[c]] \in Seq(Move) /\ doc[c] \in Documents
  BY InventoryAssumption DEF TypeOK
<1>2. next[c] \in 1..Len(Moves[doc[c]])
  BY <1>1 DEF Finished, TypeOK
<1>3. Moves[doc[c]][next[c]] \in Move
  BY <1>1, <1>2, ElementOfSeq
<1>4. QED
  BY <1>1, <1>2, <1>3 DEF Current

\* Any document has room for the first movement.
LEMMA FirstInRange ==
  ASSUME NEW d \in Documents
  PROVE  1 \in 1..Len(Moves[d]) + 1
<1>1. Moves[d] \in Seq(Move)
  BY InventoryAssumption
<1>2. Len(Moves[d]) \in Nat
  BY <1>1
<1>3. QED
  BY <1>2

LEMMA NothingTyped ==
  /\ Nothing \in [Stocks -> Int]
  /\ NoRows \in [Stocks -> Int \cup {NoRow}]
<1>1. Nothing \in [Stocks -> Int]
  BY DEF Nothing
<1>2. NoRows \in [Stocks -> Int \cup {NoRow}]
  <2>1. NoRow \in Int \cup {NoRow}
    OBVIOUS
  <2>2. QED
    BY <2>1, Zenon DEF NoRows
<1>3. QED
  BY <1>1, <1>2

\* A visible row is a number or missing.
LEMMA VisibleTyped ==
  ASSUME TypeOK, NEW c \in Calls, NEW k \in Stocks
  PROVE  Visible(c, k) \in Int \cup {NoRow}
  BY DEF TypeOK, Visible

\* What a movement adds is a number.
LEMMA DeltaTyped ==
  ASSUME NEW m \in Move
  PROVE  Delta(m) \in Int /\ m.stock \in Stocks /\ m.quantity \in Int
  BY DEF Move, Delta

\* The end of a call keeps the columns of calls typed.
LEMMA EndTyped ==
  ASSUME TypeOK, NEW c \in Calls, NEW l \in {"done", "failed"}, End(c, l),
         doc' = doc
  PROVE  /\ pc' \in [Calls -> PCs]
         /\ next' \in [Calls -> Nat]
         /\ \A d \in Calls : next'[d] \in 1..Len(Moves[doc'[d]]) + 1
         /\ seen' \in [Calls -> Int \cup {NoRow}]
         /\ wrote' \in [Calls -> [Stocks -> Int \cup {NoRow}]]
         /\ counted' \in [Calls -> [Stocks -> Int]]
<1>1. doc[c] \in Documents
  BY DEF TypeOK
<1>2. \A d \in Calls : next'[d] = IF d = c THEN 1 ELSE next[d]
  BY DEF End, TypeOK
<1>3. \A d \in Calls : next'[d] \in 1..Len(Moves[doc'[d]]) + 1
  BY <1>1, <1>2, FirstInRange DEF TypeOK
<1>4. QED
  BY <1>3, NothingTyped DEF End, Goto, TypeOK, PCs

\* Every column keeps values of its type.
LEMMA TypeInductive == TypeOK /\ AtMove /\ [Next]_vars => TypeOK'
<1> SUFFICES ASSUME TypeOK, AtMove, [Next]_vars PROVE TypeOK'
  OBVIOUS
<1> USE DEF tables, callVars
<1>1. CASE UNCHANGED vars
  BY <1>1 DEF vars, TypeOK
<1>2. ASSUME NEW c \in Calls, NEW d \in Documents, Begin(c, d) PROVE TypeOK'
  <2>1. pc[c] = "idle" /\ next[c] = 1
    BY <1>2 DEF Begin, AtMove
  <2>2. doc' = [doc EXCEPT ![c] = d] /\ next' = next
    BY <1>2 DEF Begin
  <2>3. \A e \in Calls : next'[e] \in 1..Len(Moves[doc'[e]]) + 1
    BY <2>1, <2>2, FirstInRange DEF TypeOK
  <2>4. QED
    BY <1>2, <2>2, <2>3 DEF Begin, Goto, TypeOK, PCs
<1>3. ASSUME NEW c \in Calls, Fail(c) PROVE TypeOK'
  BY <1>3, EndTyped DEF Fail, TypeOK
<1>4. ASSUME NEW c \in Calls, CheckStock(c) PROVE TypeOK'
  <2>1. Visible(c, Current(c).stock) \in Int \cup {NoRow}
    BY <1>4, CurrentTyped, DeltaTyped, VisibleTyped DEF CheckStock
  <2>2. QED
    BY <1>4, <2>1 DEF CheckStock, Goto, TypeOK, PCs
<1>5. ASSUME NEW c \in Calls, UpdateItem(c) PROVE TypeOK'
  BY <1>5 DEF UpdateItem, Goto, TypeOK, PCs
<1>6. ASSUME NEW c \in Calls, ReadBalance(c) PROVE TypeOK'
  <2>1. Current(c).stock \in Stocks
    BY <1>6, CurrentTyped, DeltaTyped DEF ReadBalance, AtMove
  <2>2. Visible(c, Current(c).stock) \in Int \cup {NoRow}
    BY <2>1, VisibleTyped
  <2>3. QED
    BY <1>6, <2>1, <2>2 DEF ReadBalance, Goto, TypeOK, PCs
<1>7. ASSUME NEW c \in Calls, pc[c] = "read", Write(c), UNCHANGED tables
      PROVE  TypeOK'
  <2> DEFINE k == Current(c).stock
             q == Delta(Current(c))
  <2>1. k \in Stocks /\ q \in Int /\ next[c] \in 1..Len(Moves[doc[c]])
    BY <1>7, CurrentTyped, DeltaTyped DEF AtMove
  <2>2. Quantity(seen[c]) \in Int
    BY DEF Quantity, TypeOK
  <2>3. /\ wrote' = [wrote EXCEPT ![c][k] = Quantity(seen[c]) + q]
        /\ counted' = [counted EXCEPT ![c][k] = @ + q]
        /\ next' = [next EXCEPT ![c] = @ + 1]
        /\ doc' = doc
        /\ raced' \subseteq raced \cup {k}
    BY <1>7 DEF Write
  <2> HIDE DEF k, q
  <2>4. wrote' \in [Calls -> [Stocks -> Int \cup {NoRow}]]
    BY <2>1, <2>2, <2>3 DEF TypeOK
  <2>5. counted' \in [Calls -> [Stocks -> Int]]
    BY <2>1, <2>3 DEF TypeOK
  <2>6. raced' \subseteq Stocks
    BY <2>1, <2>3 DEF TypeOK
  <2>7. next' \in [Calls -> Nat] /\ \A d \in Calls : next'[d] \in 1..Len(Moves[doc'[d]]) + 1
    <3>1. Len(Moves[doc[c]]) \in Nat
      BY <2>1, InventoryAssumption DEF TypeOK
    <3>2. QED
      BY <2>1, <2>3, <3>1 DEF TypeOK
  <2>8. QED
    BY <1>7, <2>4, <2>5, <2>6, <2>7 DEF Write, Goto, TypeOK, PCs
<1>8. ASSUME NEW c \in Calls, PostEntry(c) PROVE TypeOK'
  BY <1>8 DEF PostEntry, Goto, TypeOK, PCs
<1>9. ASSUME NEW c \in Calls, Commit(c) PROVE TypeOK'
  <2>1. balance' \in [Stocks -> Int \cup {NoRow}]
    BY <1>9, VisibleTyped DEF Commit
  <2>2. moved' \in [Stocks -> Int]
    BY <1>9 DEF Commit, TypeOK
  <2>3. QED
    BY <1>9, <2>1, <2>2, EndTyped DEF Commit, TypeOK
<1>10. QED
  BY <1>1, <1>2, <1>3, <1>4, <1>5, <1>6, <1>7, <1>8, <1>9
     DEF Next, Step, RefuseStock, UpdateBalance, InsertBalance, InsertFails,
         DeadlockVictim, Abort

-----------------------------------------------------------------------------
(* Where calls stand.                                                      *)

Standing == AtMove /\ CheckedSound

\* What holds of calls other than c survives a step of c.
LEMMA OthersStand ==
  ASSUME Standing, NEW c \in Calls, raced \subseteq raced',
         \A d \in Calls : d # c => /\ pc'[d] = pc[d]
                                   /\ next'[d] = next[d]
                                   /\ doc'[d] = doc[d]
                                   /\ seen'[d] = seen[d],
         pc'[c] # "idle",
         pc'[c] \in {"checked", "read"} => ~Finished(c)',
         pc'[c] \in {"checked", "read"} /\ (Current(c).kind)' = "outward"
            /\ (Current(c).stock)' \notin raced'
            => seen'[c] # NoRow /\ seen'[c] >= (Current(c).quantity)'
  PROVE  Standing'
<1>1. ASSUME NEW d \in Calls, d # c
      PROVE  /\ Finished(d)' = Finished(d)
             /\ Current(d)' = Current(d)
  BY <1>1 DEF Finished, Current
<1>2. AtMove'
  BY <1>1 DEF Standing, AtMove
<1>3. CheckedSound'
  BY <1>1 DEF Standing, CheckedSound
<1>4. QED
  BY <1>2, <1>3 DEF Standing

\* A call that ends stands nowhere.
LEMMA EndStands ==
  ASSUME TypeOK, Standing, NEW c \in Calls, NEW l \in {"done", "failed"},
         End(c, l), UNCHANGED <<doc, raced>>
  PROVE  Standing'
<1>1. pc'[c] = l
  BY DEF End, Goto, TypeOK
<1>2. \A d \in Calls : d # c => pc'[d] = pc[d] /\ next'[d] = next[d] /\ seen'[d] = seen[d]
  BY DEF End, Goto, TypeOK
<1>3. QED
  BY <1>1, <1>2, OthersStand

\* Calls keep standing at a movement they have checked.
LEMMA StandingInductive == TypeOK /\ Standing /\ [Next]_vars => Standing'
<1> SUFFICES ASSUME TypeOK, Standing, [Next]_vars PROVE Standing'
  OBVIOUS
<1> USE DEF tables, callVars
<1>1. CASE UNCHANGED vars
  BY <1>1 DEF vars, Standing, AtMove, CheckedSound, Finished, Current
<1>2. ASSUME NEW c \in Calls, NEW d \in Documents, Begin(c, d) PROVE Standing'
  <2>1. pc'[c] = "line" /\ raced' = raced
    BY <1>2 DEF Begin, Goto, TypeOK
  <2>2. \A e \in Calls : e # c => /\ pc'[e] = pc[e] /\ next'[e] = next[e]
                                  /\ doc'[e] = doc[e] /\ seen'[e] = seen[e]
    BY <1>2 DEF Begin, Goto, TypeOK
  <2>3. QED
    BY <2>1, <2>2, OthersStand
<1>3. ASSUME NEW c \in Calls, Fail(c) PROVE Standing'
  BY <1>3, EndStands DEF Fail
<1>4. ASSUME NEW c \in Calls, CheckStock(c) PROVE Standing'
  <2>1. /\ pc'[c] = "checked"
        /\ seen'[c] = Visible(c, Current(c).stock)
        /\ UNCHANGED <<raced, doc, next>>
        /\ ~Finished(c)
        /\ Sufficient(c)
    BY <1>4 DEF CheckStock, Goto, TypeOK
  <2>2. \A e \in Calls : e # c => pc'[e] = pc[e] /\ seen'[e] = seen[e]
    BY <1>4 DEF CheckStock, Goto, TypeOK
  <2>3. Current(c)' = Current(c) /\ ~Finished(c)'
    BY <2>1 DEF Current, Finished
  <2>4. seen'[c] # NoRow /\ seen'[c] >= Current(c).quantity
    BY <2>1 DEF Sufficient
  <2>5. QED
    BY <2>1, <2>2, <2>3, <2>4, OthersStand
<1>5. ASSUME NEW c \in Calls, UpdateItem(c) PROVE Standing'
  <2>1. /\ pc'[c] = "checked"
        /\ UNCHANGED <<raced, doc, next, seen>>
        /\ ~Finished(c)
        /\ Current(c).kind = "inward"
    BY <1>5 DEF UpdateItem, Goto, TypeOK
  <2>2. \A e \in Calls : e # c => pc'[e] = pc[e]
    BY <1>5 DEF UpdateItem, Goto, TypeOK
  <2>3. Current(c)' = Current(c) /\ ~Finished(c)'
    BY <2>1 DEF Current, Finished
  <2>4. QED
    BY <2>1, <2>2, <2>3, OthersStand
<1>6. ASSUME NEW c \in Calls, ReadBalance(c) PROVE Standing'
  <2>1. /\ pc'[c] = "read"
        /\ seen'[c] = Visible(c, Current(c).stock)
        /\ raced \subseteq raced'
        /\ UNCHANGED <<doc, next>>
        /\ ~Finished(c)
    BY <1>6 DEF ReadBalance, Goto, TypeOK, Standing, AtMove
  <2>2. \A e \in Calls : e # c => pc'[e] = pc[e] /\ seen'[e] = seen[e]
    BY <1>6 DEF ReadBalance, Goto, TypeOK
  <2>3. Current(c)' = Current(c) /\ ~Finished(c)'
    BY <2>1 DEF Current, Finished
  <2>4. ASSUME Current(c).kind = "outward", Current(c).stock \notin raced'
        PROVE  seen'[c] # NoRow /\ seen'[c] >= Current(c).quantity
    <3>1. pc[c] = "checked"
      BY <1>6, <2>4 DEF ReadBalance
    <3>2. Visible(c, Current(c).stock) = seen[c] /\ Current(c).stock \notin raced
      BY <1>6, <2>4 DEF ReadBalance
    <3>3. QED
      BY <2>1, <2>4, <3>1, <3>2 DEF Standing, CheckedSound
  <2>5. QED
    BY <2>1, <2>2, <2>3, <2>4, OthersStand
<1>7. ASSUME NEW c \in Calls, Write(c) PROVE Standing'
  <2>1. pc'[c] = "line" /\ raced \subseteq raced'
    BY <1>7 DEF Write, Goto, TypeOK
  <2>2. \A e \in Calls : e # c => /\ pc'[e] = pc[e] /\ next'[e] = next[e]
                                  /\ doc'[e] = doc[e] /\ seen'[e] = seen[e]
    BY <1>7 DEF Write, Goto, TypeOK
  <2>3. QED
    BY <2>1, <2>2, OthersStand
<1>8. ASSUME NEW c \in Calls, PostEntry(c) PROVE Standing'
  <2>1. pc'[c] = "posted" /\ UNCHANGED <<raced, doc, next, seen>>
    BY <1>8 DEF PostEntry, Goto, TypeOK
  <2>2. \A e \in Calls : e # c => pc'[e] = pc[e]
    BY <1>8 DEF PostEntry, Goto, TypeOK
  <2>3. QED
    BY <2>1, <2>2, OthersStand
<1>9. ASSUME NEW c \in Calls, Commit(c) PROVE Standing'
  BY <1>9, EndStands DEF Commit
<1>10. QED
  BY <1>1, <1>2, <1>3, <1>4, <1>5, <1>6, <1>7, <1>8, <1>9
     DEF Next, Step, RefuseStock, UpdateBalance, InsertBalance, InsertFails,
         DeadlockVictim, Abort

-----------------------------------------------------------------------------
(* What rows hold.                                                         *)

Rows == LocksSound /\ CountedSound /\ Sums /\ Backed

\* Rows are as sound as before when none is written.
LEMMA RowsUntouched ==
  ASSUME Rows, UNCHANGED <<balance, moved, wrote, counted>>,
         raced \subseteq raced',
         \A d \in Calls : InFlight(d) => InFlight(d)'
  PROVE  Rows'
<1>1. \A d \in Calls, k \in Stocks : Locks(d, k)' = Locks(d, k)
  BY DEF Locks
<1>2. LocksSound'
  BY <1>1 DEF Rows, LocksSound
<1>3. CountedSound'
  BY <1>1 DEF Rows, CountedSound
<1>4. Sums'
  BY <1>1 DEF Rows, Sums
<1>5. Backed'
  BY <1>1 DEF Rows, Backed
<1>6. QED
  BY <1>2, <1>3, <1>4, <1>5 DEF Rows

\* A call that ends holds no lock; the others hold theirs.
LEMMA EndUnlocks ==
  ASSUME TypeOK, NEW c \in Calls, NEW l \in {"done", "failed"}, End(c, l)
  PROVE  /\ \A k \in Stocks : ~Locks(c, k)' /\ counted'[c][k] = 0
         /\ \A d \in Calls : d # c =>
              /\ wrote'[d] = wrote[d] /\ counted'[d] = counted[d]
              /\ InFlight(d)' = InFlight(d)
              /\ \A k \in Stocks : Locks(d, k)' = Locks(d, k)
<1>1. wrote'[c] = NoRows /\ counted'[c] = Nothing
  BY DEF End, TypeOK
<1>2. \A d \in Calls : d # c =>
        wrote'[d] = wrote[d] /\ counted'[d] = counted[d] /\ pc'[d] = pc[d]
  BY DEF End, Goto, TypeOK
<1>3. \A k \in Stocks : ~Locks(c, k)' /\ counted'[c][k] = 0
  BY <1>1 DEF Locks, NoRows, Nothing
<1>4. QED
  BY <1>2, <1>3 DEF Locks, InFlight, Ended

\* A rollback leaves the rows as they were.
LEMMA FailKeepsRows ==
  ASSUME TypeOK, Rows, NEW c \in Calls, Fail(c)
  PROVE  Rows'
<1>1. End(c, "failed") /\ UNCHANGED <<balance, moved, raced>>
  BY DEF Fail, tables
<1>2. LocksSound' /\ CountedSound'
  BY <1>1, EndUnlocks DEF Rows, LocksSound, CountedSound
<1>3. Sums' /\ Backed'
  BY <1>1, EndUnlocks DEF Rows, Sums, Backed
<1>4. QED
  BY <1>2, <1>3 DEF Rows

\* A commit publishes the rows of the call and counts what it moved.
LEMMA CommitKeepsRows ==
  ASSUME TypeOK, Rows, NEW c \in Calls, Commit(c)
  PROVE  Rows'
<1>1. /\ End(c, "done")
      /\ raced' = raced
      /\ \A k \in Stocks : balance'[k] = Visible(c, k)
      /\ \A k \in Stocks : moved'[k] = moved[k] + counted[c][k]
  BY DEF Commit
<1>2. LocksSound' /\ CountedSound'
  BY <1>1, EndUnlocks DEF Rows, LocksSound, CountedSound
<1>3. ASSUME NEW k \in Stocks
      PROVE  moved[k] \in Int /\ counted[c][k] \in Int
  BY DEF TypeOK
<1>4. ASSUME NEW k \in Stocks, NEW d \in Calls, Locks(d, k)'
      PROVE  /\ d # c /\ Locks(d, k) /\ ~Locks(c, k)
             /\ wrote'[d][k] = wrote[d][k]
             /\ counted'[d][k] = counted[d][k]
  BY <1>1, <1>4, EndUnlocks DEF Rows, LocksSound
<1>5. Sums'
  <2> SUFFICES ASSUME NEW k \in Stocks \ raced
               PROVE  /\ Quantity(balance'[k]) = moved'[k]
                      /\ \A d \in Calls : Locks(d, k)' => wrote'[d][k] = moved'[k] + counted'[d][k]
    BY <1>1 DEF Sums, Quantity
  <2>1. CASE Locks(c, k)
    <3>1. Quantity(balance'[k]) = wrote[c][k]
      BY <1>1, <2>1 DEF Visible, Quantity, Locks
    <3>2. wrote[c][k] = moved[k] + counted[c][k]
      BY <2>1 DEF Rows, Sums
    <3>3. QED
      BY <1>1, <1>4, <2>1, <3>1, <3>2
  <2>2. CASE ~Locks(c, k)
    <3>1. balance'[k] = balance[k] /\ moved'[k] = moved[k]
      BY <1>1, <1>3, <2>2 DEF Visible, Rows, CountedSound
    <3>2. QED
      BY <1>4, <3>1 DEF Rows, Sums
  <2>3. QED
    BY <2>1, <2>2
<1>6. Backed'
  <2> SUFFICES ASSUME NEW k \in Stocks \ raced, ~Unguarded(k)
               PROVE  /\ Quantity(balance'[k]) >= 0
                      /\ \A d \in Calls : Locks(d, k)' => wrote'[d][k] >= 0
    BY <1>1 DEF Backed, Quantity
  <2>1. Quantity(Visible(c, k)) >= 0
    BY DEF Rows, Backed, Visible, Quantity, Locks
  <2>2. QED
    BY <1>1, <1>4, <2>1 DEF Rows, Backed
<1>7. QED
  BY <1>2, <1>5, <1>6 DEF Rows

\* A written row adds up, and stays backed, unless it was written from a
\* quantity that had changed.
LEMMA WriteKeepsRows ==
  ASSUME TypeOK, Standing, Rows, NEW c \in Calls, pc[c] = "read", Write(c),
         UNCHANGED tables
  PROVE  Rows'
<1> DEFINE k == Current(c).stock
           q == Delta(Current(c))
<1>1. ~Finished(c)
  BY DEF Standing, AtMove
<1>2. Current(c) \in Move /\ k \in Stocks /\ q \in Int
  BY <1>1, CurrentTyped, DeltaTyped
<1>3. /\ \A d \in Calls \ {c} : ~Locks(d, k)
      /\ wrote' = [wrote EXCEPT ![c][k] = Quantity(seen[c]) + q]
      /\ counted' = [counted EXCEPT ![c][k] = @ + q]
      /\ raced' = IF Visible(c, k) # seen[c] THEN raced \cup {k} ELSE raced
      /\ UNCHANGED <<moved, balance>>
  BY DEF Write, tables
<1>4. \A d \in Calls : InFlight(d) => InFlight(d)'
  BY DEF Write, Goto, TypeOK, InFlight, Ended
<1>5. InFlight(c)'
  BY <1>4 DEF InFlight, Ended
\* The new quantity is backed if the row is what the call has read.
<1>6. ASSUME k \notin raced', ~Unguarded(k) PROVE Quantity(seen[c]) + q >= 0
  <2>1. Visible(c, k) = seen[c] /\ k \notin raced
    BY <1>3, <1>6
  <2>2. Quantity(seen[c]) \in Int /\ Current(c).quantity \in Int
    BY <1>2 DEF TypeOK, Quantity, Move
  <2>3. CASE Current(c).kind = "outward"
    <3>1. seen[c] # NoRow /\ seen[c] >= Current(c).quantity
      BY <2>1, <2>3 DEF Standing, CheckedSound
    <3>2. QED
      BY <2>2, <2>3, <3>1 DEF Delta, Quantity
  <2>4. CASE Current(c).kind # "outward"
    <3>1. Quantity(seen[c]) >= 0
      BY <1>2, <1>6, <2>1 DEF Rows, Backed, Visible, Quantity, Locks
    <3>2. Current(c).quantity >= 0
      <4>1. doc[c] \in Documents /\ next[c] \in 1..Len(Moves[doc[c]])
        BY <1>1, CurrentTyped
      <4>2. CASE Current(c).kind = "inward"
        BY <2>2, <4>1, <4>2, InventoryAssumption DEF Current
      <4>3. CASE Current(c).kind = "into"
        BY <1>6, <2>2, <4>1, <4>3 DEF Current, Unguarded
      <4>4. QED
        BY <1>2, <2>4, <4>2, <4>3 DEF Move
    <3>3. QED
      BY <2>2, <2>4, <3>1, <3>2 DEF Delta
  <2>5. QED
    BY <2>3, <2>4
\* It adds up under the same condition.
<1>7. ASSUME k \notin raced' PROVE Quantity(seen[c]) + q = moved[k] + (counted[c][k] + q)
  <2>1. Visible(c, k) = seen[c] /\ k \notin raced
    BY <1>3, <1>7
  <2>2. moved[k] \in Int /\ counted[c][k] \in Int
    BY <1>2 DEF TypeOK
  <2>3. CASE Locks(c, k)
    <3>1. seen[c] = moved[k] + counted[c][k] /\ seen[c] # NoRow
      BY <1>2, <2>1, <2>3 DEF Rows, Sums, Visible, Locks
    <3>2. QED
      BY <1>2, <2>2, <3>1 DEF Quantity
  <2>4. CASE ~Locks(c, k)
    <3>1. Quantity(seen[c]) = moved[k] /\ counted[c][k] = 0
      BY <1>2, <2>1, <2>4 DEF Rows, Sums, Visible, CountedSound
    <3>2. QED
      BY <1>2, <2>2, <3>1
  <2>5. QED
    BY <2>3, <2>4
<1>8. Quantity(seen[c]) + q \in Int
  BY <1>2 DEF TypeOK, Quantity
<1> HIDE DEF k, q
<1>9. /\ wrote'[c][k] = Quantity(seen[c]) + q
      /\ counted'[c][k] = counted[c][k] + q
      /\ raced \subseteq raced'
  BY <1>2, <1>3 DEF TypeOK
<1>10. \A d \in Calls, j \in Stocks : d # c \/ j # k =>
         wrote'[d][j] = wrote[d][j] /\ counted'[d][j] = counted[d][j]
  BY <1>2, <1>3 DEF TypeOK
<1>11. \A d \in Calls, j \in Stocks : Locks(d, j)' <=> (d = c /\ j = k) \/ Locks(d, j)
  BY <1>8, <1>9, <1>10, InventoryAssumption DEF Locks
<1>12. LocksSound'
  BY <1>3, <1>4, <1>5, <1>11 DEF Rows, LocksSound
<1>13. CountedSound'
  BY <1>10, <1>11 DEF Rows, CountedSound
<1>14. Sums'
  <2> SUFFICES ASSUME NEW j \in Stocks, j \notin raced'
               PROVE  /\ Quantity(balance[j]) = moved[j]
                      /\ \A d \in Calls : Locks(d, j)' => wrote'[d][j] = moved[j] + counted'[d][j]
    BY <1>3 DEF Sums, Quantity
  <2>1. j \notin raced
    BY <1>9
  <2>2. ASSUME NEW d \in Calls, Locks(d, j)'
        PROVE  wrote'[d][j] = moved[j] + counted'[d][j]
    <3>1. CASE d = c /\ j = k
      BY <1>7, <1>9, <3>1
    <3>2. CASE ~(d = c /\ j = k)
      BY <1>10, <1>11, <2>1, <2>2, <3>2 DEF Rows, Sums
    <3>3. QED
      BY <3>1, <3>2
  <2>3. QED
    BY <2>1, <2>2 DEF Rows, Sums
<1>15. Backed'
  <2> SUFFICES ASSUME NEW j \in Stocks, j \notin raced', ~Unguarded(j)
               PROVE  /\ Quantity(balance[j]) >= 0
                      /\ \A d \in Calls : Locks(d, j)' => wrote'[d][j] >= 0
    BY <1>3 DEF Backed, Quantity
  <2>1. j \notin raced
    BY <1>9
  <2>2. ASSUME NEW d \in Calls, Locks(d, j)'
        PROVE  wrote'[d][j] >= 0
    <3>1. CASE d = c /\ j = k
      BY <1>6, <1>9, <3>1
    <3>2. CASE ~(d = c /\ j = k)
      BY <1>10, <1>11, <2>1, <2>2, <3>2 DEF Rows, Backed
    <3>3. QED
      BY <3>1, <3>2
  <2>3. QED
    BY <2>1, <2>2 DEF Rows, Backed
<1>16. QED
  BY <1>12, <1>13, <1>14, <1>15 DEF Rows

\* Rows stay sound in every step.
LEMMA RowsInductive == TypeOK /\ Standing /\ Rows /\ [Next]_vars => Rows'
<1> SUFFICES ASSUME TypeOK, Standing, Rows, [Next]_vars PROVE Rows'
  OBVIOUS
<1> USE DEF tables, callVars
<1>1. CASE UNCHANGED vars
  BY <1>1, RowsUntouched DEF vars, InFlight, Ended
<1>2. ASSUME NEW c \in Calls, NEW d \in Documents, Begin(c, d) PROVE Rows'
  BY <1>2, RowsUntouched DEF Begin, Goto, TypeOK, InFlight, Ended
<1>3. ASSUME NEW c \in Calls, CheckStock(c) PROVE Rows'
  BY <1>3, RowsUntouched DEF CheckStock, Goto, TypeOK, InFlight, Ended
<1>4. ASSUME NEW c \in Calls, UpdateItem(c) PROVE Rows'
  BY <1>4, RowsUntouched DEF UpdateItem, Goto, TypeOK, InFlight, Ended
<1>5. ASSUME NEW c \in Calls, ReadBalance(c) PROVE Rows'
  BY <1>5, RowsUntouched DEF ReadBalance, Goto, TypeOK, InFlight, Ended
<1>6. ASSUME NEW c \in Calls, PostEntry(c) PROVE Rows'
  BY <1>6, RowsUntouched DEF PostEntry, Goto, TypeOK, InFlight, Ended
<1>7. QED
  BY <1>1, <1>2, <1>3, <1>4, <1>5, <1>6, FailKeepsRows, CommitKeepsRows,
     WriteKeepsRows
     DEF Next, Step, RefuseStock, UpdateBalance, InsertBalance, InsertFails,
         DeadlockVictim, Abort

-----------------------------------------------------------------------------
(* The invariant and its consequences.                                     *)

LEMMA InitIInv == Init => IInv
<1> SUFFICES ASSUME Init PROVE IInv
  OBVIOUS
<1>1. TypeOK
  <2>1. balance \in [Stocks -> Int \cup {NoRow}] /\ moved \in [Stocks -> Int]
    BY InventoryAssumption DEF Init, Quantity
  <2>2. doc \in [Calls -> Documents]
    BY InventoryAssumption DEF Init
  <2>3. \A c \in Calls : next[c] \in 1..Len(Moves[doc[c]]) + 1
    BY <2>2, FirstInRange DEF Init
  <2>4. QED
    BY <2>1, <2>2, <2>3, NothingTyped DEF Init, TypeOK, PCs
<1>2. AtMove /\ CheckedSound
  BY DEF Init, AtMove, CheckedSound
<1>3. \A c \in Calls, k \in Stocks : ~Locks(c, k) /\ counted[c][k] = 0
  BY DEF Init, Locks, NoRows, Nothing
<1>4. LocksSound /\ CountedSound
  BY <1>3 DEF LocksSound, CountedSound
<1>5. Sums /\ Backed
  BY <1>3, InventoryAssumption DEF Sums, Backed, Init, Quantity
<1>6. QED
  BY <1>1, <1>2, <1>4, <1>5 DEF IInv

\* The invariant holds in every reachable state.
LEMMA Invariant == Spec => []IInv
<1>1. IInv /\ [Next]_vars => IInv'
  BY TypeInductive, StandingInductive, RowsInductive DEF IInv, Standing, Rows
<1>2. QED
  BY InitIInv, <1>1, PTL DEF Spec

\* The columns and the calls hold values of their types in every execution.
THEOREM TypeCorrect == Spec => []TypeOK
<1>1. IInv => TypeOK
  BY DEF IInv
<1>2. QED
  BY Invariant, <1>1, PTL

\* upsertBalance (inventory.service.ts 199-218) keeps balances equal to the sum
\* of the recorded movements, for any documents and any number of calls, except
\* where a call wrote from a quantity that had changed since it read it.
THEOREM BalancesAddUp == Spec => []BalanceIsSumOfMovements
<1>1. IInv => BalanceIsSumOfMovements
  BY DEF IInv, Sums, BalanceIsSumOfMovements
<1>2. QED
  BY Invariant, <1>1, PTL

\* The stock checks (lines 118-125 and 154-161) never let a balance fall below
\* zero on the strength of a true quantity, whatever lines a document has; the
\* destination of a negative transfer, which nothing checks, is the exception.
THEOREM ChecksPreventOverselling == Spec => []NeverOversold
<1>1. IInv => NeverOversold
  BY DEF IInv, Backed, NeverOversold
<1>2. QED
  BY Invariant, <1>1, PTL
=============================================================================
