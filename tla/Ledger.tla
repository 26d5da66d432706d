------------------------------- MODULE Ledger -------------------------------
(***************************************************************************)
(* What the general ledger promises to the rest of the ERP, without        *)
(* transactions, requests or failures: an append-only book of posted       *)
(* entries in which every (kind, year, number) is used at most once, and   *)
(* in which an entry points at a reversing entry of its own as soon as one *)
(* is in the book.  JournalEntries is shown to implement this.             *)
(***************************************************************************)
EXTENDS Naturals

CONSTANTS
  EntryIds,   \* identities (uuids) of journal entries
  Kinds,      \* number series: manual entries, reversals
  Years,      \* calendar years a number series runs in
  NoEntry     \* "no entry": a NULL foreign key

VARIABLES
  book,        \* the set of posted entries
  reversalOf   \* for each entry, the entry its reversalId column points at

ledgerVars == <<book, reversalOf>>

Entry == [id: EntryIds, kind: Kinds, year: Years, number: Nat,
          reverses: EntryIds \cup {NoEntry}]

Init == /\ book = {}
        /\ reversalOf = [e \in EntryIds |-> NoEntry]

\* An identity and a number that no posted entry has.
Fresh(e) == \A f \in book :
              /\ f.id # e.id
              /\ <<f.kind, f.year, f.number>> # <<e.kind, e.year, e.number>>

Post(e) == /\ Fresh(e)
           /\ e.reverses = NoEntry
           /\ book' = book \cup {e}
           /\ UNCHANGED reversalOf

Reverse(e) == /\ Fresh(e)
              /\ \E f \in book : f.id = e.reverses
              /\ book' = book \cup {e}
              /\ reversalOf' = [reversalOf EXCEPT ![e.reverses] = e.id]

Next == \E e \in book' \ book : e \in Entry /\ (Post(e) \/ Reverse(e))

Spec == Init /\ [][Next]_ledgerVars
=============================================================================
