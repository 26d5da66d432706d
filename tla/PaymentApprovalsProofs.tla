----------------------- MODULE PaymentApprovalsProofs -----------------------
(***************************************************************************)
(* What survives every interleaving of payment approvals, for any number   *)
(* of calls, payments and invoices.                                        *)
(***************************************************************************)
EXTENDS PaymentApprovals, SequenceTheorems, TLAPS

\* A call that has read the invoices and whose transaction may be open.
Open(c) == pc[c] \in {"updating", "checked", "posted"}

\* A row whose status and amountPaid agree, as far as PaidWhenCovered says, and
\* whose amountPaid is at most n.
SoundRow(row, i, n) ==
  /\ row \in Row
  /\ row.paid <= n
  /\ row.status = "Paid" => row.paid >= Total[i]
  /\ Total[i] > 0 /\ row.paid >= Total[i] /\ i \notin reapproved
        => row.status = "Paid"

\* The committed rows.
InvoicesSound == \A i \in Invoices : SoundRow(invoice[i], i, allocated[i])

\* The rows a call has read: stale perhaps, but no less sound.
SeenSound ==
  \A c \in Calls : Open(c) =>
    \A i \in Invoices : SoundRow(seen[c][i], i, allocated[i])

\* The rows a call is about to commit, with what it is about to allocate.
WroteSound ==
  \A c \in Calls, i \in Invoices : Locks(c, i) =>
    /\ Open(c)
    /\ SoundRow(wrote[c][i], i, allocated[i] + counted[c][i])

\* Only the approval of a payment opens a transaction.
OnlyApprovalsPost == \A c \in Calls : Open(c) => verdict[c] = "Approved"

IInv ==
  TypeOK /\ InvoicesSound /\ SeenSound /\ WroteSound /\ OnlyApprovalsPost
         /\ EntryPointers

-----------------------------------------------------------------------------
(* Type correctness.                                                       *)

LEMMA AnyPaymentIsAPayment == AnyPayment \in Payments
  BY PaymentAssumption DEF AnyPayment

LEMMA NothingTyped ==
  /\ Nothing \in [Invoices -> Nat]
  /\ NoRows \in [Invoices -> Row \cup {NoRow}]
<1>1. Nothing \in [Invoices -> Nat]
  BY DEF Nothing
<1>2. NoRows \in [Invoices -> Row \cup {NoRow}]
  <2>1. NoRow \in Row \cup {NoRow}
    OBVIOUS
  <2>2. QED
    BY <2>1, Zenon DEF NoRows
<1>3. QED
  BY <1>1, <1>2

\* The allocation a call is at is one of its payment's.
LEMMA CurrentTyped ==
  ASSUME TypeOK, NEW c \in Calls, ~Allocated(c)
  PROVE  /\ Current(c).invoice \in Invoices
         /\ Current(c).amount \in Nat \ {0}
<1>1. Allocations[target[c]] \in Seq([invoice: Invoices, amount: Nat \ {0}])
  BY PaymentAssumption DEF TypeOK
<1>2. next[c] \in 1..Len(Allocations[target[c]])
  BY <1>1 DEF Allocated, TypeOK
<1>3. Allocations[target[c]][next[c]] \in [invoice: Invoices, amount: Nat \ {0}]
  BY <1>1, <1>2, ElementOfSeq
<1>4. QED
  BY <1>3 DEF Current

\* Ending a call keeps its columns typed.
LEMMA EndTyped ==
  ASSUME TypeOK, NEW c \in Calls, NEW l \in {"done", "failed"}, End(c, l)
  PROVE  /\ pc' \in [Calls -> PCs]
         /\ seen' \in [Calls -> [Invoices -> Row \cup {NoRow}]]
         /\ wrote' \in [Calls -> [Invoices -> Row \cup {NoRow}]]
         /\ next' \in [Calls -> Nat \ {0}]
         /\ counted' \in [Calls -> [Invoices -> Nat]]
  BY NothingTyped DEF TypeOK, End, Goto, PCs

\* What approve() writes is a row.
LEMMA PaidRowTyped ==
  ASSUME NEW row \in Row, NEW i \in Invoices, NEW amount \in Nat
  PROVE  PaidRow(row, i, amount) \in Row
  BY DEF PaidRow, Row

\* Every column keeps values of its type.
LEMMA TypeInductive == TypeOK /\ SeenSound /\ [Next]_vars => TypeOK'
<1> SUFFICES ASSUME TypeOK, SeenSound, [Next]_vars PROVE TypeOK'
  OBVIOUS
<1> USE DEF tables, callVars
<1>1. CASE UNCHANGED vars
  BY <1>1 DEF vars, TypeOK
<1>2. ASSUME NEW i \in Invoices, ApproveInvoice(i) PROVE TypeOK'
  BY <1>2 DEF ApproveInvoice, TypeOK, Row
<1>3. CASE SwitchPeriod
  BY <1>3 DEF SwitchPeriod, TypeOK
<1>0. ASSUME NEW i \in Invoices, ReadInvoice(i) PROVE TypeOK'
  BY <1>0 DEF ReadInvoice, TypeOK
<1>4. ASSUME NEW c \in Calls, NEW p \in Payments, Submit(c, p) PROVE TypeOK'
  BY <1>4 DEF Submit, Goto, TypeOK, PCs
<1>5. ASSUME NEW c \in Calls, NEW p \in Payments,
             NEW v \in {"Approved", "Rejected"}, Decide(c, p, v)
      PROVE  TypeOK'
  BY <1>5 DEF Decide, Goto, TypeOK, PCs
<1>6. ASSUME NEW c \in Calls, Fail(c) PROVE TypeOK'
  BY <1>6, EndTyped DEF Fail, TypeOK
<1>7. ASSUME NEW c \in Calls, UpdateRequest(c) PROVE TypeOK'
  BY <1>7 DEF UpdateRequest, Goto, TypeOK, PCs
<1>8. ASSUME NEW c \in Calls, HandleRejection(c) PROVE TypeOK'
  <2>1. payment' \in [Payments -> [status: PaymentStatuses, entry: Calls \cup {NoCall}]]
    <3>1. /\ payment \in [Payments -> [status: PaymentStatuses, entry: Calls \cup {NoCall}]]
          /\ target[c] \in Payments /\ "Draft" \in PaymentStatuses
      BY DEF TypeOK, PaymentStatuses
    <3>2. payment' = [payment EXCEPT ![target[c]].status = "Draft"]
      BY <1>8 DEF HandleRejection
    <3>3. [payment[target[c]] EXCEPT !.status = "Draft"]
            \in [status: PaymentStatuses, entry: Calls \cup {NoCall}]
      BY <3>1
    <3>4. QED
      BY <3>1, <3>2, <3>3
  <2>2. QED
    BY <1>8, <2>1, EndTyped DEF HandleRejection, TypeOK
<1>9. ASSUME NEW c \in Calls, ReadPayment(c) PROVE TypeOK'
  BY <1>9 DEF ReadPayment, Goto, TypeOK, PCs
<1>10. ASSUME NEW c \in Calls, UpdateInvoice(c) PROVE TypeOK'
  <2> DEFINE i == Current(c).invoice
             a == Current(c).amount
  <2>1. i \in Invoices /\ a \in Nat
    BY <1>10, CurrentTyped DEF UpdateInvoice
  <2>2. seen[c][i] \in Row
    BY <1>10, <2>1 DEF UpdateInvoice, SeenSound, Open, SoundRow
  <2>3. PaidRow(seen[c][i], i, a) \in Row
    BY <2>1, <2>2, PaidRowTyped
  <2>4. /\ wrote' = [wrote EXCEPT ![c][i] = PaidRow(seen[c][i], i, a)]
        /\ counted' = [counted EXCEPT ![c][i] = @ + a]
        /\ next' = [next EXCEPT ![c] = @ + 1]
    BY <1>10 DEF UpdateInvoice
  <2> HIDE DEF i, a
  <2>5. wrote' \in [Calls -> [Invoices -> Row \cup {NoRow}]]
    BY <2>1, <2>3, <2>4 DEF TypeOK
  <2>6. counted' \in [Calls -> [Invoices -> Nat]]
    BY <2>1, <2>4 DEF TypeOK
  <2>7. QED
    BY <1>10, <2>4, <2>5, <2>6 DEF UpdateInvoice, TypeOK
<1>11. ASSUME NEW c \in Calls, CheckPeriod(c) PROVE TypeOK'
  BY <1>11 DEF CheckPeriod, Goto, TypeOK, PCs
<1>12. ASSUME NEW c \in Calls, PostEntry(c) PROVE TypeOK'
  BY <1>12 DEF PostEntry, Goto, TypeOK, PCs
<1>13. ASSUME NEW c \in Calls, Commit(c) PROVE TypeOK'
  <2>1. invoice' \in [Invoices -> Row]
    BY <1>13 DEF Commit, Locks, TypeOK
  <2>2. payment' \in [Payments -> [status: PaymentStatuses, entry: Calls \cup {NoCall}]]
    BY <1>13 DEF Commit, TypeOK, PaymentStatuses
  <2>3. allocated' \in [Invoices -> Nat]
    BY <1>13 DEF Commit, TypeOK
  <2>4. QED
    BY <1>13, <2>1, <2>2, <2>3, EndTyped DEF Commit, TypeOK
<1>14. QED
  BY <1>0, <1>1, <1>2, <1>3, <1>4, <1>5, <1>6, <1>7, <1>8, <1>9, <1>10, <1>11,
     <1>12, <1>13
     DEF Next, Step, RefusePayment, RefuseInvoice, RefusePeriod,
         DeadlockVictim, Abort

-----------------------------------------------------------------------------
(* Sound rows.                                                             *)

\* A row stays sound as more is allocated to its invoice.
LEMMA SoundRowGrows ==
  ASSUME NEW i \in Invoices, NEW row, NEW n \in Nat, NEW m \in Nat,
         n <= m, SoundRow(row, i, n)
  PROVE  SoundRow(row, i, m)
  BY DEF SoundRow, Row

\* Whatever the age of the row it starts from, approve() writes a sound one.
LEMMA PaidRowSound ==
  ASSUME NEW i \in Invoices, NEW row, NEW amount \in Nat,
         NEW n \in Nat, NEW m \in Nat, n + amount <= m, SoundRow(row, i, n)
  PROVE  SoundRow(PaidRow(row, i, amount), i, m)
<1>1. Total[i] \in Nat
  BY PaymentAssumption
<1>2. row.paid \in Nat
  BY DEF SoundRow, Row
<1>3. PaidRow(row, i, amount) \in Row
  BY PaidRowTyped DEF SoundRow
<1>4. CASE row.paid + amount >= Total[i]
  BY <1>1, <1>2, <1>3, <1>4 DEF SoundRow, PaidRow
<1>5. CASE ~(row.paid + amount >= Total[i])
  BY <1>1, <1>2, <1>3, <1>5 DEF SoundRow, PaidRow
<1>6. QED
  BY <1>4, <1>5

\* A call that has no open transaction locks no row.
LEMMA NoLockUnlessOpen ==
  ASSUME WroteSound, NEW c \in Calls, ~Open(c), NEW i \in Invoices
  PROVE  ~Locks(c, i)
  BY DEF WroteSound

\* A call that ends, or rolls back, leaves the soundness of rows as it is.
LEMMA EndSound ==
  ASSUME TypeOK, SeenSound, WroteSound, OnlyApprovalsPost,
         NEW c \in Calls, NEW l \in {"done", "failed"}, End(c, l),
         UNCHANGED <<verdict, allocated, reapproved>>
  PROVE  SeenSound' /\ WroteSound' /\ OnlyApprovalsPost'
<1>1. \A d \in Calls : d # c => /\ pc'[d] = pc[d]
                                /\ seen'[d] = seen[d]
                                /\ wrote'[d] = wrote[d]
                                /\ counted'[d] = counted[d]
  BY DEF End, Goto, TypeOK
<1>2. pc'[c] = l /\ wrote'[c] = NoRows
  BY DEF End, Goto, TypeOK
<1>3. \A i \in Invoices : wrote'[c][i] = NoRow
  BY <1>2 DEF NoRows
<1>4. SeenSound'
  BY <1>1, <1>2 DEF SeenSound, Open, SoundRow
<1>5. WroteSound'
  BY <1>1, <1>2, <1>3 DEF WroteSound, Locks, Open, SoundRow
<1>6. OnlyApprovalsPost'
  BY <1>1, <1>2 DEF OnlyApprovalsPost, Open
<1>7. QED
  BY <1>4, <1>5, <1>6

\* Rows stay sound in every step.
LEMMA SoundInductive ==
  TypeOK /\ InvoicesSound /\ SeenSound /\ WroteSound /\ OnlyApprovalsPost
         /\ [Next]_vars
    => InvoicesSound' /\ SeenSound' /\ WroteSound' /\ OnlyApprovalsPost'
<1> DEFINE Sound == InvoicesSound /\ SeenSound /\ WroteSound /\ OnlyApprovalsPost
<1> SUFFICES ASSUME TypeOK, Sound, [Next]_vars PROVE Sound'
  OBVIOUS
<1> USE DEF tables, callVars
<1>1. CASE UNCHANGED vars
  BY <1>1 DEF vars, InvoicesSound, SeenSound, WroteSound, OnlyApprovalsPost,
              SoundRow, Open, Locks
<1>2. ASSUME NEW i \in Invoices, ApproveInvoice(i) PROVE Sound'
  <2>1. SoundRow(invoice[i], i, allocated[i])
    BY DEF InvoicesSound
  <2>2. /\ invoice'[i].paid = invoice[i].paid
        /\ invoice'[i].status = "Approved"
        /\ invoice'[i] \in Row
    BY <1>2 DEF ApproveInvoice, TypeOK, Row
  <2>3. \A j \in Invoices : j # i => invoice'[j] = invoice[j]
    BY <1>2 DEF ApproveInvoice, TypeOK
  <2>4. /\ reapproved \subseteq reapproved'
        /\ invoice[i].status # "Draft" => i \in reapproved'
        /\ UNCHANGED <<pc, verdict, seen, wrote, counted, allocated>>
    BY <1>2 DEF ApproveInvoice
  <2>5. \A j \in Invoices : \A row, n :
          SoundRow(row, j, n) => /\ row \in Row /\ row.paid <= n
                                 /\ row.status = "Paid" => row.paid >= Total[j]
                                 /\ Total[j] > 0 /\ row.paid >= Total[j] /\ j \notin reapproved'
                                      => row.status = "Paid"
    BY <2>4 DEF SoundRow
  <2>6. InvoicesSound'
    <3> SUFFICES ASSUME NEW j \in Invoices
                 PROVE  SoundRow(invoice[j], j, allocated[j])'
      BY DEF InvoicesSound
    <3>1. CASE j = i
      BY <2>1, <2>2, <2>4, <3>1 DEF SoundRow
    <3>2. CASE j # i
      BY <2>3, <2>4, <2>5, <3>2 DEF InvoicesSound, SoundRow
    <3>3. QED
      BY <3>1, <3>2
  <2>7. SeenSound'
    BY <2>4, <2>5 DEF SeenSound, SoundRow, Open
  <2>8. WroteSound'
    BY <2>4, <2>5 DEF WroteSound, SoundRow, Open, Locks
  <2>9. OnlyApprovalsPost'
    BY <2>4 DEF OnlyApprovalsPost, Open
  <2>10. QED
    BY <2>6, <2>7, <2>8, <2>9
<1>0. ASSUME NEW i \in Invoices, ReadInvoice(i) PROVE Sound'
  BY <1>0 DEF ReadInvoice, InvoicesSound, SeenSound, WroteSound,
              OnlyApprovalsPost, SoundRow, Open, Locks
<1>3. CASE SwitchPeriod
  BY <1>3 DEF SwitchPeriod, InvoicesSound, SeenSound, WroteSound,
              OnlyApprovalsPost, SoundRow, Open, Locks
<1>4. ASSUME NEW c \in Calls, NEW l \in PCs,
             ~Open(c), ~(l \in {"updating", "checked", "posted"}), Goto(c, l),
             \A d \in Calls : d # c => verdict'[d] = verdict[d],
             UNCHANGED <<invoice, seen, wrote, counted, allocated, reapproved>>
      PROVE  Sound'
  <2>1. \A d \in Calls : Open(d)' => d # c /\ Open(d)
    BY <1>4 DEF Open, Goto, TypeOK
  <2>2. \A d \in Calls, i \in Invoices : Locks(d, i)' => d # c /\ Locks(d, i)
    BY <1>4, NoLockUnlessOpen DEF Locks
  <2>3. \A d \in Calls : d # c /\ Open(d) => Open(d)'
    BY <1>4 DEF Open, Goto, TypeOK
  <2>4. InvoicesSound'
    BY <1>4 DEF InvoicesSound, SoundRow
  <2>5. SeenSound'
    BY <1>4, <2>1 DEF SeenSound, SoundRow
  <2>6. WroteSound'
    BY <1>4, <2>2, <2>3 DEF WroteSound, SoundRow
  <2>7. OnlyApprovalsPost'
    BY <1>4, <2>1 DEF OnlyApprovalsPost
  <2>8. QED
    BY <2>4, <2>5, <2>6, <2>7
<1>5. ASSUME NEW c \in Calls, NEW p \in Payments, Submit(c, p) PROVE Sound'
  BY <1>4, <1>5 DEF Submit, Open, PCs
<1>6. ASSUME NEW c \in Calls, NEW p \in Payments,
             NEW v \in {"Approved", "Rejected"}, Decide(c, p, v)
      PROVE  Sound'
  BY <1>4, <1>6 DEF Decide, Open, PCs, TypeOK
<1>7. ASSUME NEW c \in Calls, UpdateRequest(c) PROVE Sound'
  BY <1>4, <1>7 DEF UpdateRequest, Open, PCs
<1>8. ASSUME NEW c \in Calls, Fail(c) PROVE Sound'
  BY <1>8, EndSound DEF Fail, InvoicesSound, SoundRow
<1>9. ASSUME NEW c \in Calls, HandleRejection(c) PROVE Sound'
  BY <1>9, EndSound DEF HandleRejection, InvoicesSound, SoundRow
<1>10. ASSUME NEW c \in Calls, ReadPayment(c) PROVE Sound'
  <2>1. /\ seen'[c] = invoice
        /\ pc'[c] = "updating"
        /\ verdict'[c] = "Approved"
        /\ ~Open(c)
    BY <1>10 DEF ReadPayment, Goto, TypeOK, Open
  <2>2. \A d \in Calls : d # c => seen'[d] = seen[d] /\ pc'[d] = pc[d]
    BY <1>10 DEF ReadPayment, Goto, TypeOK
  <2>3. UNCHANGED <<invoice, allocated, wrote, counted, verdict, reapproved>>
    BY <1>10 DEF ReadPayment
  <2>4. InvoicesSound'
    BY <2>3 DEF InvoicesSound, SoundRow
  <2>5. SeenSound'
    BY <2>1, <2>2, <2>3 DEF InvoicesSound, SeenSound, SoundRow, Open
  <2>6. WroteSound'
    BY <2>1, <2>2, <2>3 DEF WroteSound, SoundRow, Open, Locks
  <2>7. OnlyApprovalsPost'
    BY <2>1, <2>2, <2>3 DEF OnlyApprovalsPost, Open
  <2>8. QED
    BY <2>4, <2>5, <2>6, <2>7
<1>11. ASSUME NEW c \in Calls, UpdateInvoice(c) PROVE Sound'
  <2> DEFINE i == Current(c).invoice
             a == Current(c).amount
  <2>1. i \in Invoices /\ a \in Nat
    BY <1>11, CurrentTyped DEF UpdateInvoice
  <2>2. /\ wrote' = [wrote EXCEPT ![c][i] = PaidRow(seen[c][i], i, a)]
        /\ counted' = [counted EXCEPT ![c][i] = @ + a]
        /\ UNCHANGED <<pc, verdict, seen, invoice, allocated, reapproved>>
    BY <1>11 DEF UpdateInvoice
  <2>3. Open(c)
    BY <1>11 DEF UpdateInvoice, Open
  <2> HIDE DEF i, a
  <2>4. wrote'[c][i] = PaidRow(seen[c][i], i, a) /\ counted'[c][i] = counted[c][i] + a
    BY <2>1, <2>2 DEF TypeOK
  <2>5. \A d \in Calls, j \in Invoices :
          d # c \/ j # i => wrote'[d][j] = wrote[d][j] /\ counted'[d][j] = counted[d][j]
    BY <2>1, <2>2 DEF TypeOK
  <2>6. allocated[i] \in Nat /\ counted[c][i] \in Nat
    BY <2>1 DEF TypeOK
  <2>7. SoundRow(seen[c][i], i, allocated[i])
    BY <2>1, <2>3 DEF SeenSound
  <2>8. SoundRow(PaidRow(seen[c][i], i, a), i, allocated[i] + (counted[c][i] + a))
    BY <2>1, <2>6, <2>7, PaidRowSound
  <2>9. WroteSound'
    <3> SUFFICES ASSUME NEW d \in Calls, NEW j \in Invoices, Locks(d, j)'
                 PROVE  /\ Open(d)'
                        /\ SoundRow(wrote'[d][j], j, allocated'[j] + counted'[d][j])
      BY <2>2 DEF WroteSound, SoundRow
    <3>1. CASE d = c /\ j = i
      BY <2>2, <2>3, <2>4, <2>8, <3>1 DEF Open
    <3>2. CASE ~(d = c /\ j = i)
      BY <2>2, <2>5, <3>2 DEF WroteSound, Locks, Open
    <3>3. QED
      BY <3>1, <3>2
  <2>10. QED
    BY <2>2, <2>9 DEF InvoicesSound, SeenSound, OnlyApprovalsPost, SoundRow, Open
<1>12. ASSUME NEW c \in Calls, CheckPeriod(c) PROVE Sound'
  BY <1>12 DEF CheckPeriod, Goto, TypeOK, InvoicesSound, SeenSound, WroteSound,
               OnlyApprovalsPost, SoundRow, Open, Locks
<1>13. ASSUME NEW c \in Calls, PostEntry(c) PROVE Sound'
  BY <1>13 DEF PostEntry, Goto, TypeOK, InvoicesSound, SeenSound, WroteSound,
               OnlyApprovalsPost, SoundRow, Open, Locks
<1>14. ASSUME NEW c \in Calls, Commit(c) PROVE Sound'
  <2>1. /\ pc'[c] = "done"
        /\ wrote'[c] = NoRows
        /\ Open(c)
        /\ verdict' = verdict
        /\ reapproved' = reapproved
    BY <1>14 DEF Commit, End, Goto, TypeOK, Open
  <2>2. \A d \in Calls : d # c => /\ pc'[d] = pc[d]
                                  /\ seen'[d] = seen[d]
                                  /\ wrote'[d] = wrote[d]
                                  /\ counted'[d] = counted[d]
    BY <1>14 DEF Commit, End, Goto, TypeOK
  <2>3. \A j \in Invoices :
          /\ allocated'[j] = allocated[j] + counted[c][j]
          /\ invoice'[j] = IF Locks(c, j) THEN wrote[c][j] ELSE invoice[j]
    BY <1>14 DEF Commit
  <2>4. \A d \in Calls, j \in Invoices : counted[d][j] \in Nat /\ allocated[j] \in Nat
    BY DEF TypeOK
  <2>5. InvoicesSound'
    <3> SUFFICES ASSUME NEW j \in Invoices
                 PROVE  SoundRow(invoice'[j], j, allocated'[j])
      BY <2>1 DEF InvoicesSound, SoundRow
    <3>1. CASE Locks(c, j)
      BY <2>1, <2>3, <3>1 DEF WroteSound, SoundRow
    <3>2. CASE ~Locks(c, j)
      <4>1. SoundRow(invoice[j], j, allocated[j])
        BY DEF InvoicesSound
      <4>2. SoundRow(invoice[j], j, allocated[j] + counted[c][j])
        BY <2>4, <4>1, SoundRowGrows
      <4>3. QED
        BY <2>1, <2>3, <3>2, <4>2 DEF SoundRow
    <3>3. QED
      BY <3>1, <3>2
  <2>6. SeenSound'
    <3> SUFFICES ASSUME NEW d \in Calls, Open(d)', NEW j \in Invoices
                 PROVE  SoundRow(seen'[d][j], j, allocated'[j])
      BY <2>1 DEF SeenSound, SoundRow
    <3>1. d # c /\ Open(d)
      BY <2>1, <2>2 DEF Open
    <3>2. SoundRow(seen[d][j], j, allocated[j])
      BY <3>1 DEF SeenSound
    <3>3. SoundRow(seen[d][j], j, allocated[j] + counted[c][j])
      BY <2>4, <3>2, SoundRowGrows
    <3>4. QED
      BY <2>2, <2>3, <3>1, <3>3
  <2>7. WroteSound'
    <3> SUFFICES ASSUME NEW d \in Calls, NEW j \in Invoices, Locks(d, j)'
                 PROVE  /\ Open(d)'
                        /\ SoundRow(wrote'[d][j], j, allocated'[j] + counted'[d][j])
      BY <2>1 DEF WroteSound, SoundRow
    <3>1. d # c
      BY <2>1 DEF Locks, NoRows
    <3>2. Locks(d, j) /\ wrote'[d][j] = wrote[d][j] /\ counted'[d][j] = counted[d][j]
      BY <2>2, <3>1 DEF Locks
    <3>3. Open(d) /\ SoundRow(wrote[d][j], j, allocated[j] + counted[d][j])
      BY <3>2 DEF WroteSound
    <3>4. SoundRow(wrote[d][j], j, (allocated[j] + counted[c][j]) + counted[d][j])
      BY <2>4, <3>3, SoundRowGrows
    <3>5. QED
      BY <2>2, <2>3, <3>1, <3>2, <3>3, <3>4 DEF Open
  <2>8. OnlyApprovalsPost'
    BY <2>1, <2>2 DEF OnlyApprovalsPost, Open
  <2>9. QED
    BY <2>5, <2>6, <2>7, <2>8
<1>15. QED
  <2> HIDE DEF Sound
  <2>1. QED
    BY <1>0, <1>1, <1>2, <1>3, <1>5, <1>6, <1>7, <1>8, <1>9, <1>10, <1>11,
       <1>12, <1>13, <1>14
       DEF Next, Step, RefusePayment, RefuseInvoice, RefusePeriod,
           DeadlockVictim, Abort

-----------------------------------------------------------------------------
(* Journal entry pointers.                                                 *)

\* A step that leaves the payments and every finished call alone, and in which
\* no call finishes an approval.
LEMMA PointersUntouched ==
  ASSUME EntryPointers, UNCHANGED payment,
         \A p \in Payments : Posted(p)' = Posted(p)
  PROVE  EntryPointers'
  BY DEF EntryPointers

\* A call that moves without finishing an approval posts nothing.
LEMMA NothingPosted ==
  ASSUME TypeOK, NEW c \in Calls, NEW l \in PCs, pc[c] # "done", Goto(c, l),
         \/ l # "done"
         \/ verdict'[c] = "Rejected",
         \A d \in Calls : d # c => verdict'[d] = verdict[d] /\ target'[d] = target[d],
         NEW p \in Payments
  PROVE  Posted(p)' = Posted(p)
<1>1. pc'[c] = l /\ \A d \in Calls : d # c => pc'[d] = pc[d]
  BY DEF Goto, TypeOK
<1>2. QED
  BY <1>1 DEF Posted

\* A payment's entry pointer is right in every step.
LEMMA PointersInductive ==
  TypeOK /\ OnlyApprovalsPost /\ EntryPointers /\ [Next]_vars => EntryPointers'
<1> SUFFICES ASSUME TypeOK, OnlyApprovalsPost, EntryPointers, [Next]_vars
             PROVE  EntryPointers'
  OBVIOUS
<1> USE DEF tables, callVars
<1>1. CASE UNCHANGED vars
  BY <1>1 DEF vars, EntryPointers, Posted
<1>2. ASSUME NEW i \in Invoices, ApproveInvoice(i) PROVE EntryPointers'
  BY <1>2 DEF ApproveInvoice, EntryPointers, Posted
<1>0. ASSUME NEW i \in Invoices, ReadInvoice(i) PROVE EntryPointers'
  BY <1>0 DEF ReadInvoice, EntryPointers, Posted
<1>3. CASE SwitchPeriod
  BY <1>3 DEF SwitchPeriod, EntryPointers, Posted
<1>4. ASSUME NEW c \in Calls, NEW p \in Payments, Submit(c, p) PROVE EntryPointers'
  <2>1. \A d \in Calls : d # c => verdict'[d] = verdict[d] /\ target'[d] = target[d]
    BY <1>4 DEF Submit, TypeOK
  <2>2. \A q \in Payments : Posted(q)' = Posted(q)
    BY <1>4, <2>1, NothingPosted DEF Submit, PCs
  <2>3. QED
    BY <1>4, <2>2, PointersUntouched DEF Submit
<1>5. ASSUME NEW c \in Calls, NEW p \in Payments,
             NEW v \in {"Approved", "Rejected"}, Decide(c, p, v)
      PROVE  EntryPointers'
  <2>1. \A d \in Calls : d # c => verdict'[d] = verdict[d] /\ target'[d] = target[d]
    BY <1>5 DEF Decide, TypeOK
  <2>2. \A q \in Payments : Posted(q)' = Posted(q)
    BY <1>5, <2>1, NothingPosted DEF Decide, PCs
  <2>3. QED
    BY <1>5, <2>2, PointersUntouched DEF Decide
<1>6. ASSUME NEW c \in Calls, NEW l \in PCs, pc[c] # "done", l # "done",
             Goto(c, l), UNCHANGED <<payment, verdict, target>>
      PROVE  EntryPointers'
  <2>1. \A q \in Payments : Posted(q)' = Posted(q)
    BY <1>6, NothingPosted
  <2>2. QED
    BY <1>6, <2>1, PointersUntouched
<1>7. ASSUME NEW c \in Calls, pc[c] # "done", Fail(c) PROVE EntryPointers'
  BY <1>6, <1>7 DEF Fail, End, PCs
<1>8. ASSUME NEW c \in Calls, UpdateRequest(c) PROVE EntryPointers'
  BY <1>6, <1>8 DEF UpdateRequest, PCs
<1>9. ASSUME NEW c \in Calls, HandleRejection(c) PROVE EntryPointers'
  <2>1. \A q \in Payments : Posted(q)' = Posted(q)
    BY <1>9, NothingPosted DEF HandleRejection, End, PCs
  <2>2. \A q \in Payments : /\ payment'[q].entry = payment[q].entry
                            /\ \/ payment'[q].status = payment[q].status
                               \/ payment'[q].status = "Draft"
    BY <1>9 DEF HandleRejection, TypeOK
  <2>3. QED
    BY <2>1, <2>2 DEF EntryPointers
<1>10. ASSUME NEW c \in Calls, ReadPayment(c) PROVE EntryPointers'
  BY <1>6, <1>10 DEF ReadPayment, PCs
<1>11. ASSUME NEW c \in Calls, UpdateInvoice(c) PROVE EntryPointers'
  BY <1>11 DEF UpdateInvoice, EntryPointers, Posted
<1>12. ASSUME NEW c \in Calls, CheckPeriod(c) PROVE EntryPointers'
  BY <1>6, <1>12 DEF CheckPeriod, PCs
<1>13. ASSUME NEW c \in Calls, PostEntry(c) PROVE EntryPointers'
  BY <1>6, <1>13 DEF PostEntry, PCs
<1>14. ASSUME NEW c \in Calls, Commit(c) PROVE EntryPointers'
  <2>1. /\ pc' = [pc EXCEPT ![c] = "done"]
        /\ payment' = [payment EXCEPT ![target[c]] = [status |-> "Approved", entry |-> c]]
        /\ UNCHANGED <<verdict, target>>
    BY <1>14 DEF Commit, End, Goto
  <2>2. verdict[c] = "Approved" /\ pc[c] # "done" /\ target[c] \in Payments
    BY <1>14 DEF Commit, OnlyApprovalsPost, Open, TypeOK
  <2>3. \A q \in Payments : q = target[c] => c \in Posted(q)'
    BY <2>1, <2>2 DEF Posted, TypeOK
  <2>4. payment'[target[c]] = [status |-> "Approved", entry |-> c]
    BY <2>1, <2>2 DEF TypeOK
  <2>5. \A q \in Payments : q # target[c] =>
          payment'[q] = payment[q] /\ Posted(q)' = Posted(q)
    BY <2>1, <2>2 DEF Posted, TypeOK
  <2>6. ASSUME NEW q \in Payments
        PROVE  /\ payment'[q].status = "Approved" => payment'[q].entry \in Posted(q)'
               /\ Posted(q)' # {} <=> payment'[q].entry \in Posted(q)'
    <3>1. CASE q = target[c]
      BY <2>3, <2>4, <3>1
    <3>2. CASE q # target[c]
      BY <2>5, <3>2 DEF EntryPointers
    <3>3. QED
      BY <3>1, <3>2
  <2>7. QED
    BY <2>6 DEF EntryPointers
<1>15. QED
  BY <1>0, <1>1, <1>2, <1>3, <1>4, <1>5, <1>7, <1>8, <1>9, <1>10, <1>11,
     <1>12, <1>13, <1>14
     DEF Next, Step, RefusePayment, RefuseInvoice, RefusePeriod,
         DeadlockVictim, WaitsFor, Abort, InFlight, Ended

-----------------------------------------------------------------------------
(* The invariant and its consequences.                                     *)

LEMMA InitIInv == Init => IInv
<1> SUFFICES ASSUME Init PROVE IInv
  OBVIOUS
<1>1. TypeOK
  <2>1. payment \in [Payments -> [status: PaymentStatuses, entry: Calls \cup {NoCall}]]
    BY DEF Init, Created, PaymentStatuses
  <2>2. invoice \in [Invoices -> Row]
    BY DEF Init, Row
  <2>3. target \in [Calls -> Payments] /\ pc \in [Calls -> PCs]
    BY AnyPaymentIsAPayment DEF Init, PCs
  <2>4. seen \in [Calls -> [Invoices -> Row \cup {NoRow}]]
    BY NothingTyped DEF Init
  <2>5. wrote \in [Calls -> [Invoices -> Row \cup {NoRow}]]
    BY NothingTyped DEF Init
  <2>6. counted \in [Calls -> [Invoices -> Nat]] /\ allocated \in [Invoices -> Nat]
    BY NothingTyped DEF Init
  <2>7. QED
    BY <2>1, <2>2, <2>3, <2>4, <2>5, <2>6 DEF Init, TypeOK
<1>2. InvoicesSound
  BY PaymentAssumption DEF Init, InvoicesSound, SoundRow, Row, Nothing
<1>3. SeenSound /\ WroteSound /\ OnlyApprovalsPost
  BY DEF Init, SeenSound, WroteSound, OnlyApprovalsPost, Open, Locks, NoRows
<1>4. EntryPointers
  <2>1. \A p \in Payments : Posted(p) = {}
    BY DEF Init, Posted
  <2>2. \A p \in Payments : payment[p].status # "Approved"
    BY DEF Init, Created
  <2>3. QED
    BY <2>1, <2>2 DEF EntryPointers
<1>5. QED
  BY <1>1, <1>2, <1>3, <1>4 DEF IInv

\* The invariant holds in every reachable state.
LEMMA Invariant == Spec => []IInv
<1>1. IInv /\ [Next]_vars => IInv'
  BY TypeInductive, SoundInductive, PointersInductive DEF IInv
<1>2. QED
  BY InitIInv, <1>1, PTL DEF Spec

\* The columns and the calls hold values of their types in every execution.
THEOREM TypeCorrect == Spec => []TypeOK
<1>1. IInv => TypeOK
  BY DEF IInv
<1>2. QED
  BY Invariant, <1>1, PTL

\* Concurrent approvals may lose an update of amountPaid (payments.service.ts
\* 142-167 writes what it read before the transaction), but for any number of
\* calls, payments, invoices and allocations it never exceeds what the posted
\* payments allocated.
THEOREM MoneyIsNeverInvented == Spec => []NeverOverpaid
<1>1. IInv => NeverOverpaid
  BY DEF IInv, InvoicesSound, SoundRow, NeverOverpaid
<1>2. QED
  BY Invariant, <1>1, PTL

\* An invoice is Paid exactly when its amountPaid covers its total, whatever
\* stale row the approval started from.
THEOREM PaidMeansCovered == Spec => []PaidWhenCovered
<1>1. IInv => PaidWhenCovered
  BY DEF IInv, InvoicesSound, SoundRow, PaidWhenCovered
<1>2. QED
  BY Invariant, <1>1, PTL

\* An Approved payment points at an entry posted for it, and a payment that
\* was posted keeps a pointer, whatever rejections come late.
THEOREM EntriesAreKept == Spec => []EntryPointers
<1>1. IInv => EntryPointers
  BY DEF IInv
<1>2. QED
  BY Invariant, <1>1, PTL
=============================================================================
