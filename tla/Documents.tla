------------------------------ MODULE Documents ------------------------------
(***************************************************************************)
(* How documents get their numbers: invoices and payments draw theirs from *)
(* SequencesService before they are inserted, purchase orders and quotes   *)
(* count the documents there are and add one.                              *)
(*                                                                         *)
(* A document is named by the call that creates it.                        *)
(***************************************************************************)
EXTENDS Integers, FiniteSets, Requests

CONSTANTS
  CreateCalls,  \* calls of create, createPO and createQuote
  Drawn,        \* entity types whose numbers are drawn from a sequence
  Counted,      \* entity types whose numbers are counted: orders, quotes
  LastYear      \* bound: the years documents are created in

ASSUME DocumentsAssumption ==
  /\ CreateCalls \subseteq Calls
  /\ Drawn \cap Counted = {} /\ Drawn \cup Counted # {}
  /\ LastYear \in Nat

Series == Drawn \cup Counted

VARIABLES
  nextNumber,  \* DocumentSequence: the last number drawn, 0 before there is a row
  documents,   \* the documents inserted
  draft,       \* the document a call is about to insert
  year         \* the server's calendar

documentTables == <<nextNumber, documents, year>>
documentVars == <<documentTables, draft>>

\* PREFIX-YYYY-NNNN; the entity type stands for its prefix.
Document == [series: Series, year: 0..LastYear, number: Nat]
NoDocument == [series |-> CHOOSE s \in Series : TRUE, year |-> 0, number |-> 0]

NumberOf(c) == draft[c]
Numbers == {NumberOf(c) : c \in documents}

\* The documents of a series, of all years.
DocumentsIn(s) == {c \in documents : NumberOf(c).series = s}

DocumentsInit ==
  /\ RequestsInit
  /\ nextNumber = [s \in Drawn |-> 0]
  /\ documents = {}
  /\ draft = [c \in Calls |-> NoDocument]
  /\ year = 0

NewYear ==
  /\ year < LastYear
  /\ year' = year + 1
  /\ UNCHANGED <<nextNumber, documents, draft, pc, stale>>

\* A payment whose allocations exceed its amount is refused before a number
\* is drawn.
RefuseAllocations(c) ==
  /\ pc[c] = "idle"
  /\ Goto(c, "failed")
  /\ UNCHANGED <<documentVars, stale>>

\* A likely mistake: a number is drawn per year.
DrawNumberOfYear(c, s) ==
  /\ pc[c] = "idle"
  /\ LET n == Cardinality({d \in DocumentsIn(s) : NumberOf(d).year = year}) + 1
     IN  draft' = [draft EXCEPT ![c] = [series |-> s, year |-> year, number |-> n]]
  /\ nextNumber' = [nextNumber EXCEPT ![s] = @ + 1]
  /\ Goto(c, "numbered")
  /\ UNCHANGED <<documents, year, stale>>

\* getNextSequence: one upsert, committed before the document is inserted.
DrawNumber(c, s) ==
  /\ pc[c] = "idle"
  /\ nextNumber' = [nextNumber EXCEPT ![s] = @ + 1]
  /\ draft' = [draft EXCEPT ![c] =
                 [series |-> s, year |-> year, number |-> nextNumber'[s]]]
  /\ Goto(c, "numbered")
  /\ UNCHANGED <<documents, year, stale>>

\* A likely mistake: the count alone, without plus one.
CountDocumentsOff(c, s) ==
  /\ pc[c] = "idle"
  /\ draft' = [draft EXCEPT ![c] =
                 [series |-> s, year |-> year, number |-> Cardinality(DocumentsIn(s))]]
  /\ Goto(c, "numbered")
  /\ UNCHANGED <<nextNumber, documents, year, stale>>

\* createPO and createQuote count before their transaction; the count runs
\* through the years.
CountDocuments(c, s) ==
  /\ pc[c] = "idle"
  /\ draft' = [draft EXCEPT ![c] =
                 [series |-> s, year |-> year, number |-> Cardinality(DocumentsIn(s)) + 1]]
  /\ Goto(c, "numbered")
  /\ UNCHANGED <<nextNumber, documents, year, stale>>

InsertDocument(c) ==
  /\ pc[c] = "numbered"
  /\ NumberOf(c) \notin Numbers
  /\ documents' = documents \cup {c}
  /\ Goto(c, "done")
  /\ Outdate(c, {d \in Calls : NumberOf(d).series = NumberOf(c).series})
  /\ UNCHANGED <<nextNumber, draft, year>>

\* The number is taken: tenantId and number are unique.
InsertDocumentFails(c) ==
  /\ pc[c] = "numbered"
  /\ NumberOf(c) \in Numbers
  /\ Goto(c, "failed")
  /\ UNCHANGED <<documentVars, stale>>

\* An unknown contact or account, a crash, a lost connection.
AbortDocument(c) ==
  /\ pc[c] = "numbered"
  /\ Goto(c, "failed")
  /\ UNCHANGED <<documentVars, stale>>

DocumentsStep(c) == InsertDocument(c) \/ InsertDocumentFails(c)

DocumentsNext ==
  \/ NewYear
  \/ \E c \in CreateCalls :
       \/ RefuseAllocations(c)
       \/ \E s \in Drawn : DrawNumber(c, s)
       \/ \E s \in Counted : CountDocuments(c, s)
       \/ DocumentsStep(c)
       \/ AbortDocument(c)

DocumentsSpec == DocumentsInit /\ [][DocumentsNext]_<<documentVars, pc, stale>>

-----------------------------------------------------------------------------

\* The columns and the calls hold values of their types.
DocumentsTypeOK ==
  /\ nextNumber \in [Drawn -> Nat]
  /\ documents \subseteq CreateCalls
  /\ draft \in [Calls -> Document]
  /\ year \in 0..LastYear
  /\ pc \in [Calls -> {"idle", "numbered", "done", "failed"}]
  /\ stale \subseteq Calls

\* A drawn number is used once over all years and calls, and each number drawn
\* so far is a document's, is being inserted, or was lost with the call that
\* failed after drawing it: numbers are not gapless, as NumbersGapless says, but
\* these are all the gaps there are.
DrawnNumbersAccounted ==
  \A s \in Drawn :
    LET holders(n) == {c \in Calls : NumberOf(c).series = s /\ NumberOf(c).number = n}
    IN  /\ \A n \in 1..nextNumber[s] : Cardinality(holders(n)) = 1
        /\ \A c \in DocumentsIn(s) : NumberOf(c).number \in 1..nextNumber[s]

\* The number a call has counted is free, so its document is not refused,
\* unless another of the series was inserted since; and numbers never run
\* ahead of the count, so the next one is free.
CountedNumberFree ==
  \A s \in Counted :
    /\ \A c \in DocumentsIn(s) : NumberOf(c).number \in 1..Cardinality(DocumentsIn(s))
    /\ \A c \in Calls : pc[c] = "numbered" /\ NumberOf(c).series = s /\ c \notin stale =>
         NumberOf(c) \notin Numbers

\* "guarantee gapless numbering" (sequences.service.ts 14), "Gapless Document
\* Numbering Sequences" (README.md 138): a number that was drawn is a document's,
\* or will be when the call that has it inserts it.
NumbersGapless ==
  \A s \in Drawn : \A n \in 1..nextNumber[s] :
    \E c \in Calls :
      /\ NumberOf(c).series = s /\ NumberOf(c).number = n
      /\ pc[c] \in {"numbered", "done"}
=============================================================================
