-------------------------- MODULE DocumentsProofs ---------------------------
(***************************************************************************)
(* The numbers of documents, the hash chain of invoices, purchase orders   *)
(* that keep in step with their receipts and bills, quotes that get one    *)
(* invoice and opportunities that are won: for any series, invoices,       *)
(* orders, quotes and number of calls.                                     *)
(***************************************************************************)
EXTENDS MCDocuments, WellFoundedInduction, SequenceTheorems, FiniteSetTheorems,
        TLAPS

(***************************************************************************)
(* Numbers of documents                                                    *)
(***************************************************************************)

Holds(c, s, n) == NumberOf(c).series = s /\ NumberOf(c).number = n

CountIn(s) == Cardinality(DocumentsIn(s))

\* A document's call is done; a call gets its number before it inserts, and
\* has none before it begins.
NumberedCalls ==
  /\ \A c \in documents : pc[c] = "done"
  /\ \A c \in Calls : /\ pc[c] \in {"numbered", "done"} => NumberOf(c).number >= 1
                      /\ pc[c] = "idle" => NumberOf(c).number = 0

\* One call and no other holds each number drawn so far, and none a later one.
DrawnOnce ==
  \A s \in Drawn, c, d \in Calls, n \in Nat \ {0} : Holds(c, s, n) /\ Holds(d, s, n) => c = d

DrawnAll ==
  \A s \in Drawn : \A n \in 1..nextNumber[s] : \E c \in Calls : Holds(c, s, n)

DrawnBelow ==
  \A s \in Drawn, c \in Calls : NumberOf(c).series = s => NumberOf(c).number <= nextNumber[s]

\* No number counted is beyond the next one, and it is the next one as long as
\* nobody has overtaken the call.
CountedBelow ==
  \A s \in Counted, c \in Calls : NumberOf(c).series = s =>
    /\ c \in documents => NumberOf(c).number <= CountIn(s)
    /\ pc[c] = "numbered" => NumberOf(c).number <= CountIn(s) + 1
    /\ pc[c] = "numbered" /\ c \notin stale => NumberOf(c).number = CountIn(s) + 1

DocumentsInv ==
  /\ DocumentsTypeOK /\ NumberedCalls
  /\ DrawnOnce /\ DrawnAll /\ DrawnBelow
  /\ IsFiniteSet(documents) /\ CountedBelow

DocumentsView == <<documentVars, pc, stale>>

-----------------------------------------------------------------------------

LEMMA NoDocumentTyped == NoDocument \in Document /\ NoDocument.number = 0
<1>1. PICK s \in Series : TRUE
  BY DocumentsAssumption DEF Series
<1>2. (CHOOSE t \in Series : TRUE) \in Series
  BY <1>1
<1>3. 0 \in 0..LastYear
  BY DocumentsAssumption
<1>4. QED
  BY <1>2, <1>3 DEF NoDocument, Document

\* The documents of a series are finitely many.
LEMMA CountTyped ==
  ASSUME IsFiniteSet(documents), NEW s
  PROVE  IsFiniteSet(DocumentsIn(s)) /\ CountIn(s) \in Nat
<1>1. DocumentsIn(s) \subseteq documents
  BY DEF DocumentsIn
<1>2. IsFiniteSet(DocumentsIn(s))
  BY <1>1, FS_Subset
<1>3. QED
  BY <1>2, FS_CardinalityType DEF CountIn

LEMMA DocumentsInitInv == DocumentsInit => DocumentsInv
<1> SUFFICES ASSUME DocumentsInit PROVE DocumentsInv
  OBVIOUS
<1>1. draft \in [Calls -> Document] /\ \A c \in Calls : NumberOf(c) = NoDocument
  BY NoDocumentTyped DEF DocumentsInit, NumberOf
<1>2. DocumentsTypeOK
  BY <1>1, DocumentsAssumption DEF DocumentsInit, RequestsInit, DocumentsTypeOK
<1>3. NumberedCalls /\ CountedBelow
  BY <1>1, NoDocumentTyped DEF DocumentsInit, RequestsInit, NumberedCalls, CountedBelow
<1>4. DrawnOnce /\ DrawnAll /\ DrawnBelow
  BY <1>1, NoDocumentTyped DEF DocumentsInit, DrawnOnce, DrawnAll, DrawnBelow, Holds
<1>5. IsFiniteSet(documents)
  BY FS_EmptySet DEF DocumentsInit
<1>6. QED
  BY <1>2, <1>3, <1>4, <1>5 DEF DocumentsInv

\* A call that ends without a document.
Gives(c) ==
  /\ pc[c] \in {"idle", "numbered"} /\ Goto(c, "failed")
  /\ UNCHANGED <<documentVars, stale>>

\* Every step is one of these.
LEMMA DocumentsSteps ==
  ASSUME [DocumentsNext]_DocumentsView
  PROVE  \/ NewYear
         \/ \E c \in CreateCalls : \/ Gives(c) \/ InsertDocument(c)
                                   \/ \E s \in Drawn : DrawNumber(c, s)
                                   \/ \E s \in Counted : CountDocuments(c, s)
         \/ UNCHANGED DocumentsView
  BY DEF DocumentsNext, DocumentsStep, RefuseAllocations, InsertDocumentFails, AbortDocument,
         Gives, DocumentsView

LEMMA DocumentsTypeInductive ==
  ASSUME DocumentsInv, [DocumentsNext]_DocumentsView
  PROVE  DocumentsTypeOK' /\ NumberedCalls' /\ IsFiniteSet(documents)'
<1> USE DocumentsAssumption DEF DocumentsInv, DocumentsTypeOK, NumberedCalls, Goto, NumberOf
<1> DEFINE Goal == DocumentsTypeOK' /\ NumberedCalls' /\ IsFiniteSet(documents)'
<1>1. CASE NewYear
  <2>1. year + 1 \in 0..LastYear
    BY <1>1 DEF NewYear
  <2>2. QED
    BY <1>1, <2>1 DEF NewYear
<1>2. ASSUME NEW c \in CreateCalls, Gives(c) PROVE Goal
  BY <1>2 DEF Gives, documentVars, documentTables
<1>3. ASSUME NEW c \in CreateCalls, InsertDocument(c) PROVE Goal
  <2>1. IsFiniteSet(documents')
    BY <1>3, FS_AddElement DEF InsertDocument
  <2>2. QED
    BY <1>3, <2>1 DEF InsertDocument, Outdate
<1>4. ASSUME NEW c \in CreateCalls, NEW s \in Drawn, DrawNumber(c, s) PROVE Goal
  <2>1. nextNumber[s] + 1 \in Nat \ {0}
    OBVIOUS
  <2>2. [series |-> s, year |-> year, number |-> nextNumber'[s]] \in Document
    BY <1>4, <2>1 DEF DrawNumber, Document, Series
  <2>3. QED
    BY <1>4, <2>1, <2>2 DEF DrawNumber
<1>5. ASSUME NEW c \in CreateCalls, NEW s \in Counted, CountDocuments(c, s) PROVE Goal
  <2>1. CountIn(s) \in Nat
    BY CountTyped
  <2>2. [series |-> s, year |-> year, number |-> CountIn(s) + 1] \in Document
    BY <2>1 DEF Document, Series
  <2>3. QED
    BY <1>5, <2>1, <2>2 DEF CountDocuments, CountIn
<1>6. CASE UNCHANGED DocumentsView
  BY <1>6 DEF DocumentsView, documentVars, documentTables
<1>7. QED
  BY <1>1, <1>2, <1>3, <1>4, <1>5, <1>6, DocumentsSteps

\* Only DrawNumber and CountDocuments touch a draft.
LEMMA DraftsKept ==
  ASSUME [DocumentsNext]_DocumentsView
  PROVE  \/ \E c \in CreateCalls, s \in Drawn : DrawNumber(c, s)
         \/ \E c \in CreateCalls, s \in Counted : CountDocuments(c, s)
         \/ UNCHANGED <<nextNumber, draft>>
  BY DocumentsSteps
     DEF Gives, InsertDocument, NewYear, DocumentsView, documentVars, documentTables

\* The upsert gives a call the number after all numbers drawn.
LEMMA DrawnInductive ==
  ASSUME DocumentsInv, [DocumentsNext]_DocumentsView
  PROVE  DrawnOnce' /\ DrawnAll' /\ DrawnBelow'
<1> USE DocumentsAssumption DEF DocumentsInv, DocumentsTypeOK, NumberOf, Holds
<1> DEFINE Goal == DrawnOnce' /\ DrawnAll' /\ DrawnBelow'
<1>1. ASSUME NEW c \in CreateCalls, NEW s \in Drawn, DrawNumber(c, s) PROVE Goal
  <2> DEFINE n == nextNumber[s] + 1
  <2>1. /\ nextNumber' = [nextNumber EXCEPT ![s] = n]
        /\ nextNumber'[s] = n /\ n \in Nat \ {0} /\ c \in Calls
        /\ draft' = [draft EXCEPT ![c] = [series |-> s, year |-> year, number |-> n]]
    BY <1>1 DEF DrawNumber
  <2>2. draft[c].number = 0
    BY <1>1 DEF DrawNumber, NumberedCalls
  <2>3. \A d \in Calls : draft[d].series = s => draft[d].number < n
    BY DEF DrawnBelow, Document
  <2>4. \A d \in Calls, m \in Nat \ {0} : draft[d].number = m => d # c
    BY <2>2
  <2> HIDE DEF n
  <2>5. DrawnOnce'
    BY <2>1, <2>3 DEF DrawnOnce
  <2>6. DrawnBelow'
    <3> SUFFICES ASSUME NEW t \in Drawn, NEW d \in Calls, draft'[d].series = t
                 PROVE  draft'[d].number <= nextNumber'[t]
      BY DEF DrawnBelow
    <3>1. CASE d = c
      BY <2>1, <3>1
    <3>2. CASE d # c
      <4>1. draft[d].series = t /\ draft'[d].number = draft[d].number
        BY <2>1, <3>2
      <4>2. draft[d].number \in Nat /\ nextNumber[t] \in Nat
        BY DEF Document
      <4>3. draft[d].number <= nextNumber[t] /\ (t = s => draft[d].number < n)
        BY <2>3, <4>1 DEF DrawnBelow
      <4>4. t # s => nextNumber'[t] = nextNumber[t]
        BY <2>1
      <4>5. t = s => nextNumber'[t] = n
        BY <2>1
      <4>6. QED
        BY <2>1, <4>1, <4>2, <4>3, <4>4, <4>5
    <3>3. QED
      BY <3>1, <3>2
  <2>7. DrawnAll'
    <3> SUFFICES ASSUME NEW t \in Drawn, NEW m \in 1..nextNumber'[t]
                 PROVE  \E d \in Calls : Holds(d, t, m)'
      BY DEF DrawnAll
    <3>1. CASE t = s /\ m = n
      BY <2>1, <3>1
    <3>2. CASE ~(t = s /\ m = n)
      <4>1. m \in 1..nextNumber[t] /\ m \in Nat \ {0}
        BY <2>1, <3>2 DEF n
      <4>2. PICK d \in Calls : Holds(d, t, m)
        BY <4>1 DEF DrawnAll
      <4>3. d # c
        BY <2>4, <4>1, <4>2
      <4>4. QED
        BY <2>1, <4>2, <4>3
    <3>3. QED
      BY <3>1, <3>2
  <2>8. QED
    BY <2>5, <2>6, <2>7
<1>2. ASSUME NEW c \in CreateCalls, NEW s \in Counted, CountDocuments(c, s) PROVE Goal
  <2>1. /\ nextNumber' = nextNumber /\ c \in Calls
        /\ draft[c].number = 0
        /\ draft'[c].series = s /\ s \notin Drawn
        /\ \A d \in Calls \ {c} : draft'[d] = draft[d]
    BY <1>2 DEF CountDocuments, NumberedCalls
  <2>2. \A d \in Calls, t \in Drawn, m \in Nat \ {0} : Holds(d, t, m)' <=> Holds(d, t, m)
    BY <2>1
  <2>3. DrawnOnce' /\ DrawnBelow'
    BY <2>1, <2>2 DEF DrawnOnce, DrawnBelow
  <2>4. DrawnAll'
    BY <2>1, <2>2 DEF DrawnAll
  <2>5. QED
    BY <2>3, <2>4
<1>3. CASE UNCHANGED <<nextNumber, draft>>
  BY <1>3 DEF DrawnOnce, DrawnAll, DrawnBelow
<1>4. QED
  BY <1>1, <1>2, <1>3, DraftsKept

\* Inserting a document adds one to the count of its series.
LEMMA InsertCounts ==
  ASSUME DocumentsInv, NEW c \in CreateCalls, InsertDocument(c), NEW s
  PROVE  CountIn(s)' = IF NumberOf(c).series = s THEN CountIn(s) + 1 ELSE CountIn(s)
<1>1. c \notin documents /\ draft' = draft /\ documents' = documents \cup {c}
  BY DEF InsertDocument, DocumentsInv, NumberedCalls
<1>2. IsFiniteSet(DocumentsIn(s)) /\ c \notin DocumentsIn(s)
  BY <1>1, CountTyped DEF DocumentsInv, DocumentsIn
<1>3. CASE NumberOf(c).series = s
  <2>1. DocumentsIn(s)' = DocumentsIn(s) \cup {c}
    BY <1>1, <1>3 DEF DocumentsIn, NumberOf
  <2>2. QED
    BY <1>2, <1>3, <2>1, FS_AddElement DEF CountIn
<1>4. CASE NumberOf(c).series # s
  <2>1. DocumentsIn(s)' = DocumentsIn(s)
    BY <1>1, <1>4 DEF DocumentsIn, NumberOf
  <2>2. QED
    BY <1>4, <2>1 DEF CountIn
<1>5. QED
  BY <1>3, <1>4

\* A count that was overtaken is too low, never too high.
LEMMA CountedInductive ==
  ASSUME DocumentsInv, [DocumentsNext]_DocumentsView
  PROVE  CountedBelow'
<1> SUFFICES ASSUME NEW s \in Counted, NEW d \in Calls, NumberOf(d)'.series = s
             PROVE  /\ d \in documents' => NumberOf(d)'.number <= CountIn(s)'
                    /\ pc'[d] = "numbered" => NumberOf(d)'.number <= CountIn(s)' + 1
                    /\ pc'[d] = "numbered" /\ d \notin stale'
                         => NumberOf(d)'.number = CountIn(s)' + 1
  BY DEF CountedBelow
<1> DEFINE Goal == /\ d \in documents' => NumberOf(d)'.number <= CountIn(s)'
                   /\ pc'[d] = "numbered" => NumberOf(d)'.number <= CountIn(s)' + 1
                   /\ pc'[d] = "numbered" /\ d \notin stale'
                        => NumberOf(d)'.number = CountIn(s)' + 1
<1> USE DocumentsAssumption DEF DocumentsInv, DocumentsTypeOK, NumberedCalls, Goto, NumberOf
<1>1. CountIn(s) \in Nat
  BY CountTyped
<1>2. ASSUME NumberOf(d)'.series = s, draft'[d] = draft[d], CountIn(s)' = CountIn(s),
             d \in documents' => d \in documents,
             pc'[d] = "numbered" => pc[d] = "numbered", stale \subseteq stale'
      PROVE  Goal
  BY <1>2 DEF CountedBelow
<1>3. CASE UNCHANGED <<documents, draft>> /\ stale' = stale
           /\ (pc'[d] = "numbered" => pc[d] = "numbered")
  BY <1>2, <1>3 DEF CountIn, DocumentsIn
<1>4. CASE NewYear
  BY <1>3, <1>4 DEF NewYear
<1>5. ASSUME NEW c \in CreateCalls, Gives(c) PROVE Goal
  BY <1>3, <1>5 DEF Gives, documentVars, documentTables
<1>6. ASSUME NEW c \in CreateCalls, InsertDocument(c) PROVE Goal
  <2>1. /\ draft' = draft /\ c \in Calls /\ pc'[c] = "done" /\ pc[c] = "numbered"
        /\ draft[d].series = s
        /\ documents' = documents \cup {c}
        /\ \A e \in Calls \ {c} : pc'[e] = pc[e]
        /\ stale' = stale \cup {e \in {f \in Calls : NumberOf(f).series = NumberOf(c).series}
                                        \ {c} : InFlight(e)}
    BY <1>6 DEF InsertDocument, Outdate
  <2>2. CountIn(s)' = IF draft[c].series = s THEN CountIn(s) + 1 ELSE CountIn(s)
    BY <1>6, InsertCounts
  <2>3. draft[d].number \in Nat
    BY DEF Document
  <2>4. /\ d \in documents => draft[d].number <= CountIn(s)
        /\ pc[d] = "numbered" => draft[d].number <= CountIn(s) + 1
    BY <2>1 DEF CountedBelow
  <2>5. CASE d = c
    BY <1>1, <2>1, <2>2, <2>3, <2>4, <2>5
  <2>6. CASE d # c /\ draft[c].series = s
    <3>1. pc'[d] = "numbered" => d \in stale'
      BY <2>1, <2>6 DEF InFlight, Ended
    <3>2. QED
      BY <1>1, <2>1, <2>2, <2>3, <2>4, <2>6, <3>1
  <2>7. CASE d # c /\ draft[c].series # s
    BY <1>2, <2>1, <2>2, <2>7
  <2>8. QED
    BY <2>5, <2>6, <2>7
<1>7. ASSUME NEW c \in CreateCalls, NEW t \in Drawn, DrawNumber(c, t) PROVE Goal
  <2>1. /\ documents' = documents /\ stale' = stale /\ c \notin documents /\ c \in Calls
        /\ draft'[c].series = t /\ t # s
        /\ \A e \in Calls \ {c} : draft'[e] = draft[e] /\ pc'[e] = pc[e]
    BY <1>7 DEF DrawNumber
  <2>2. d # c
    BY <2>1
  <2>3. DocumentsIn(s)' = DocumentsIn(s)
    BY <2>1 DEF DocumentsIn
  <2>4. QED
    BY <1>2, <2>1, <2>2, <2>3 DEF CountIn
<1>8. ASSUME NEW c \in CreateCalls, NEW t \in Counted, CountDocuments(c, t) PROVE Goal
  <2>1. /\ documents' = documents /\ stale' = stale /\ c \notin documents /\ c \in Calls
        /\ draft'[c] = [series |-> t, year |-> year, number |-> CountIn(t) + 1]
        /\ \A e \in Calls \ {c} : draft'[e] = draft[e] /\ pc'[e] = pc[e]
    BY <1>8 DEF CountDocuments, CountIn
  <2>2. DocumentsIn(s)' = DocumentsIn(s)
    BY <2>1 DEF DocumentsIn
  <2>3. CountIn(s)' = CountIn(s)
    BY <2>2 DEF CountIn
  <2>4. CASE d = c
    BY <1>1, <2>1, <2>3, <2>4
  <2>5. CASE d # c
    BY <1>2, <2>1, <2>3, <2>5
  <2>6. QED
    BY <2>4, <2>5
<1>9. CASE UNCHANGED DocumentsView
  BY <1>3, <1>9 DEF DocumentsView, documentVars, documentTables
<1>10. QED
  BY <1>4, <1>5, <1>6, <1>7, <1>8, <1>9, DocumentsSteps

\* The invariant holds in every reachable state.
LEMMA DocumentsInductive == DocumentsInv /\ [DocumentsNext]_DocumentsView => DocumentsInv'
  BY DocumentsTypeInductive, DrawnInductive, CountedInductive DEF DocumentsInv

LEMMA DocumentsInvariant == DocumentsSpec => []DocumentsInv
  BY DocumentsInitInv, DocumentsInductive, PTL DEF DocumentsSpec, DocumentsView

\* The columns and the calls of the creation of documents hold values of their
\* types.
THEOREM DocumentsTypeCorrect == DocumentsSpec => []DocumentsTypeOK
<1>1. DocumentsInv => DocumentsTypeOK
  BY DEF DocumentsInv
<1>2. QED
  BY DocumentsInvariant, <1>1, PTL

\* getNextSequence (sequences.service.ts) gives every number to one call, over
\* all years and whatever calls fail, so a gap is a document that was lost: for
\* any number of calls and series.
THEOREM DrawnNumbersAreAccounted == DocumentsSpec => []DrawnNumbersAccounted
<1>1. DocumentsInv => DrawnNumbersAccounted
  <2> SUFFICES ASSUME DocumentsInv, NEW s \in Drawn
               PROVE  /\ \A n \in 1..nextNumber[s] :
                           Cardinality({c \in Calls : Holds(c, s, n)}) = 1
                      /\ \A c \in DocumentsIn(s) : NumberOf(c).number \in 1..nextNumber[s]
    BY DEF DrawnNumbersAccounted, Holds
  <2> USE DocumentsAssumption DEF DocumentsInv, DocumentsTypeOK
  <2>1. ASSUME NEW n \in 1..nextNumber[s]
        PROVE  Cardinality({c \in Calls : Holds(c, s, n)}) = 1
    <3>1. n \in Nat \ {0}
      OBVIOUS
    <3>2. PICK c \in Calls : Holds(c, s, n)
      BY DEF DrawnAll
    <3>3. {d \in Calls : Holds(d, s, n)} = {c}
      BY <3>1, <3>2 DEF DrawnOnce
    <3>4. QED
      BY <3>3, FS_Singleton
  <2>2. ASSUME NEW c \in DocumentsIn(s) PROVE NumberOf(c).number \in 1..nextNumber[s]
    <3>1. c \in Calls /\ c \in documents /\ NumberOf(c).series = s
      BY DEF DocumentsIn
    <3>2. NumberOf(c).number \in Nat
      BY <3>1 DEF NumberOf, Document
    <3>3. QED
      BY <3>1, <3>2 DEF NumberedCalls, DrawnBelow
  <2>3. QED
    BY <2>1, <2>2
<1>2. QED
  BY DocumentsInvariant, <1>1, PTL

\* The number that createPO and createQuote count (procurement and crm services)
\* is free until another document of the series is inserted, and never beyond
\* the next: for any number of calls and series.
THEOREM CountedNumbersAreFree == DocumentsSpec => []CountedNumberFree
<1>1. DocumentsInv => CountedNumberFree
  <2> SUFFICES ASSUME DocumentsInv, NEW s \in Counted
               PROVE  /\ \A c \in DocumentsIn(s) : NumberOf(c).number \in 1..CountIn(s)
                      /\ \A c \in Calls : pc[c] = "numbered" /\ NumberOf(c).series = s
                                          /\ c \notin stale => NumberOf(c) \notin Numbers
    BY DEF CountedNumberFree, CountIn
  <2> USE DocumentsAssumption DEF DocumentsInv, DocumentsTypeOK
  <2>1. CountIn(s) \in Nat
    BY CountTyped
  <2>2. ASSUME NEW c \in DocumentsIn(s)
        PROVE  NumberOf(c).number \in 1..CountIn(s)
    <3>1. c \in Calls /\ c \in documents /\ NumberOf(c).series = s
      BY DEF DocumentsIn
    <3>2. NumberOf(c).number \in Nat
      BY <3>1 DEF NumberOf, Document
    <3>3. QED
      BY <2>1, <3>1, <3>2 DEF NumberedCalls, CountedBelow
  <2>3. ASSUME NEW c \in Calls, pc[c] = "numbered", NumberOf(c).series = s, c \notin stale
        PROVE  NumberOf(c) \notin Numbers
    <3>1. NumberOf(c).number = CountIn(s) + 1
      BY <2>3 DEF CountedBelow
    <3>2. ASSUME NEW d \in documents, NumberOf(d) = NumberOf(c) PROVE FALSE
      <4>1. d \in DocumentsIn(s)
        BY <2>3, <3>2 DEF DocumentsIn
      <4>2. QED
        BY <2>1, <2>2, <3>1, <3>2, <4>1
    <3>3. QED
      BY <3>2 DEF Numbers
  <2>4. QED
    BY <2>2, <2>3
<1>2. QED
  BY DocumentsInvariant, <1>1, PTL

(***************************************************************************)
(* The hash chain of invoices                                              *)
(***************************************************************************)

\* The columns and locals that ZatcaTypeOK does not bound.
ZatcaColumns ==
  /\ DOMAIN hash = Invoices /\ DOMAIN pih = Invoices
  /\ DOMAIN read = Calls /\ DOMAIN previous = Calls
  /\ \A c \in Calls : /\ DOMAIN previous[c] = {"hash", "after"}
                      /\ previous[c].after \in 0..Len(submissions)

\* What a call has sent once it has sent it.
Message(c) == [call |-> c, invoice |-> work[c].invoice, hash |-> read[c].hash]

\* What a call has done up to where it stands.
WorkInStep ==
  \A c \in Calls :
    /\ pc[c] \in {"approve", "generate", "submit"} => work[c].do = pc[c]
    /\ pc[c] = "sent" => work[c].do = "submit" /\ Message(c) \in sent
    /\ pc[c] \in {"submit", "sent"} => hash[work[c].invoice] # None
    /\ pc[c] = "linked" => previous[c].hash # None

\* What a call has read is still so, unless it is stale.
ReadFresh ==
  \A c \in Calls \ stale : InFlight(c) =>
    /\ read[c].hash = hash[work[c].invoice]
    /\ work[c].do \in {"generate", "submit"} => zatca[work[c].invoice] = "NotSubmitted"

\* An invoice that is not spoiled was sent by the one call that is submitting
\* it, or has submitted it.
SentOnce ==
  /\ \A m \in sent : m.call \in Calls
  /\ \A m \in sent : m.invoice \in Invoices \ spoiled =>
       \/ zatca[m.invoice] = "Submitted"
       \/ pc[m.call] = "sent" /\ work[m.call].invoice = m.invoice
  /\ \A m, n \in sent : m.invoice = n.invoice /\ m.invoice \in Invoices \ spoiled => m = n

SentKept ==
  \A i \in Invoices \ spoiled : zatca[i] = "Submitted" =>
    \E m \in sent : m.invoice = i /\ m.hash = hash[i]

\* The rows say Submitted of the invoices submitted, unless they are spoiled.
SubmittedRows ==
  /\ \A i \in Invoices : zatca[i] = "Submitted" =>
       \E k \in 1..Len(submissions) : submissions[k] = i
  /\ \A k \in 1..Len(submissions) :
       submissions[k] \notin spoiled => zatca[submissions[k]] = "Submitted"

First(n) == {submissions[j] : j \in 1..n}

\* h is the link read after n submissions, if none of them is spoiled.
Linked(h, n) == First(n) \cap spoiled = {} => h = LinkTo(First(n))

\* A link stays what it was when it was read: on a row that was generated, and
\* in a call that is about to save one.
LinksKept ==
  /\ \A i \in Invoices \ spoiled : hash[i] # None =>
       /\ pih[i] = hash[i].previous
       /\ after[i] <= Len(submissions)
       /\ Linked(hash[i].previous, after[i])
  /\ \A c \in Calls : pc[c] = "linked" /\ work[c].do = "generate" =>
       Linked(previous[c].hash, previous[c].after)

ZatcaInv ==
  /\ ZatcaTypeOK /\ ZatcaColumns /\ WorkInStep /\ ReadFresh
  /\ SentOnce /\ SentKept /\ SubmittedRows /\ LinksKept

ZatcaView == <<zatcaVars, pc, stale>>

-----------------------------------------------------------------------------

\* Every set of numbers has a smallest, and a bounded one a greatest.
LEMMA SmallestOf ==
  ASSUME NEW S \in SUBSET Nat, S # {}
  PROVE  \E x \in S : \A y \in S : x <= y
<1>1. PICK x \in S : \A y \in S : <<y, x>> \notin OpToRel(<, Nat)
  BY NatLessThanWellFounded, WFMin
<1>2. \A y \in S : ~(y < x)
  BY <1>1 DEF OpToRel
<1>3. QED
  BY <1>2

LEMMA MaxOf ==
  ASSUME NEW N \in Nat, NEW S \in SUBSET (1..N), S # {}
  PROVE  Max(S) \in S
<1> DEFINE T == {N - x : x \in S}
<1>1. T \in SUBSET Nat /\ T # {}
  <2>1. \A x \in S : N - x \in Nat
    OBVIOUS
  <2>2. QED
    BY <2>1
<1>2. PICK t \in T : \A y \in T : t <= y
  BY <1>1, SmallestOf
<1>3. PICK x \in S : t = N - x
  BY <1>2
<1>4. \A y \in S : x >= y
  <2> TAKE y \in S
  <2>1. t <= N - y
    BY <1>2
  <2>2. QED
    BY <1>3, <2>1
<1>5. QED
  BY <1>4 DEF Max

LEMMA InvoicesNumbered == Invoices = 1..Issued /\ 1 \in Invoices /\ Issued \in Nat
  BY ZatcaAssumption DEF Invoices

LEMMA ZatcaInitInv == ZatcaInit => ZatcaInv
<1> SUFFICES ASSUME ZatcaInit PROVE ZatcaInv
  OBVIOUS
<1> USE InvoicesNumbered DEF ZatcaInit, RequestsInit
<1>1. ZatcaTypeOK
  BY DEF ZatcaTypeOK, ZatcaStatuses, Works
<1>2. ZatcaColumns
  BY DEF ZatcaColumns, NoPrevious
<1>3. WorkInStep /\ ReadFresh
  BY DEF WorkInStep, ReadFresh, InFlight
<1>4. SentOnce /\ SentKept /\ SubmittedRows
  BY DEF SentOnce, SentKept, SubmittedRows
<1>5. LinksKept
  BY DEF LinksKept
<1>6. QED
  BY <1>1, <1>2, <1>3, <1>4, <1>5 DEF ZatcaInv

\* The eight kinds of steps.
Begins(c, do, i) ==
  /\ Begin(c, do, i)
  /\ do \in {"generate", "submit"} => zatca[i] = "NotSubmitted"
  /\ do = "submit" => hash[i] # None

LEMMA ZatcaSteps ==
  ASSUME [ZatcaNext]_ZatcaView
  PROVE  \/ \E c \in ZatcaCalls : \/ \E i \in Invoices, do \in {"approve", "generate", "submit"} :
                                       Begins(c, do, i)
                                  \/ ReadUuid(c) \/ FinishApprove(c)
                                  \/ ReadPrevious(c) \/ SaveXml(c)
                                  \/ SendXml(c) \/ FinishSubmit(c) \/ AbortZatca(c)
         \/ UNCHANGED ZatcaView
  BY DEF ZatcaNext, ZatcaStep, Begins, BeginApprove, BeginGenerate, BeginSubmit, ZatcaView

\* A link is a hash, as submitted invoices have one.
LEMMA LinkIsSet ==
  ASSUME ZatcaTypeOK
  PROVE  LastSubmitted # None
<1> DEFINE S == {i \in Invoices : zatca[i] = "Submitted"}
<1>1. CASE S = {}
  BY <1>1 DEF LastSubmitted, LinkTo, Genesis, None
<1>2. CASE S # {}
  <2>1. Max(S) \in S
    BY <1>2, MaxOf, InvoicesNumbered
  <2>2. QED
    BY <1>2, <2>1 DEF LastSubmitted, LinkTo, ZatcaTypeOK
<1>3. QED
  BY <1>1, <1>2

LEMMA ZatcaTypeInductive ==
  ASSUME ZatcaInv, [ZatcaNext]_ZatcaView
  PROVE  ZatcaTypeOK' /\ ZatcaColumns'
<1> USE ZatcaAssumption
    DEF ZatcaInv, ZatcaTypeOK, ZatcaColumns, Goto, Works, ZatcaStatuses, zatcaTables,
        zatcaCallVars, zatcaHistory, zatcaVars
<1> DEFINE Goal == ZatcaTypeOK' /\ ZatcaColumns'
<1>1. ASSUME NEW c \in ZatcaCalls, NEW i \in Invoices,
             NEW do \in {"approve", "generate", "submit"}, Begins(c, do, i)
      PROVE  Goal
  BY <1>1 DEF Begins, Begin
<1>2. ASSUME NEW c \in ZatcaCalls, ReadUuid(c) PROVE Goal
  BY <1>2 DEF ReadUuid
<1>3. ASSUME NEW c \in ZatcaCalls, FinishApprove(c) PROVE Goal
  BY <1>3 DEF FinishApprove, Spoil, Rewrite, EndZatca, Outdate, NoPrevious, WorkInStep
<1>4. ASSUME NEW c \in ZatcaCalls, ReadPrevious(c) PROVE Goal
  BY <1>4 DEF ReadPrevious
<1>5. ASSUME NEW c \in ZatcaCalls, SaveXml(c) PROVE Goal
  <2>1. \A i, u, l : XmlHash(i, u, l) # None
    BY DEF XmlHash, None
  <2>2. QED
    BY <1>5, <2>1 DEF SaveXml, Spoil, Rewrite, EndZatca, Outdate, NoPrevious, WorkInStep
<1>6. ASSUME NEW c \in ZatcaCalls, SendXml(c) PROVE Goal
  BY <1>6 DEF SendXml, Spoil
<1>7. ASSUME NEW c \in ZatcaCalls, FinishSubmit(c) PROVE Goal
  <2>1. /\ submissions' \in Seq(Invoices)
        /\ Len(submissions') = Len(submissions) + 1
    BY <1>7, AppendProperties DEF FinishSubmit
  <2>2. QED
    BY <1>7, <2>1 DEF FinishSubmit, Spoil, Rewrite, EndZatca, Outdate, NoPrevious, WorkInStep
<1>8. ASSUME NEW c \in ZatcaCalls, AbortZatca(c) PROVE Goal
  BY <1>8 DEF AbortZatca, Spoil, EndZatca, NoPrevious
<1>9. CASE UNCHANGED ZatcaView
  BY <1>9 DEF ZatcaView
<1>10. QED
  BY <1>1, <1>2, <1>3, <1>4, <1>5, <1>6, <1>7, <1>8, <1>9, ZatcaSteps, SMTT(30)

\* Every step's effect that the links hang on: what is spoiled stays so, and the
\* submissions are only appended to.
LEMMA HistoryGrows ==
  ASSUME ZatcaInv, [ZatcaNext]_ZatcaView
  PROVE  /\ spoiled \subseteq spoiled'
         /\ Len(submissions) <= Len(submissions')
         /\ \A k \in 1..Len(submissions) : submissions'[k] = submissions[k]
<1> USE DEF ZatcaInv, ZatcaTypeOK, zatcaTables, zatcaCallVars, zatcaHistory, zatcaVars
<1>1. ASSUME NEW c \in ZatcaCalls, FinishSubmit(c)
      PROVE  /\ spoiled \subseteq spoiled'
             /\ Len(submissions) <= Len(submissions')
             /\ \A k \in 1..Len(submissions) : submissions'[k] = submissions[k]
  <2>1. c \in Calls /\ work[c].invoice \in Invoices
    BY ZatcaAssumption DEF Works
  <2>2. submissions' = Append(submissions, work[c].invoice) /\ spoiled \subseteq spoiled'
    BY <1>1 DEF FinishSubmit, Spoil
  <2>3. QED
    BY <2>1, <2>2, AppendProperties
<1>2. \/ spoiled \subseteq spoiled' /\ submissions' = submissions
      \/ \E c \in ZatcaCalls : FinishSubmit(c)
  BY ZatcaSteps
     DEF Begins, Begin, ReadUuid, FinishApprove, ReadPrevious, SaveXml, SendXml, AbortZatca,
         Spoil, ZatcaView
<1>3. Len(submissions) \in Nat
  OBVIOUS
<1>4. QED
  BY <1>1, <1>2, <1>3

\* Only SaveXml changes a hash, and if it does to a submitted invoice, that is
\* spoiled.
LEMMA HashKept ==
  ASSUME ZatcaInv, [ZatcaNext]_ZatcaView, NEW i \in Invoices \ spoiled'
  PROVE  /\ zatca[i] = "Submitted" => hash'[i] = hash[i]
         /\ zatca[i] = "Submitted" => pih'[i] = pih[i]
         /\ hash[i] # None => hash'[i] # None
         /\ zatca[i] = "Submitted" => zatca'[i] = "Submitted"
<1> USE ZatcaAssumption
    DEF ZatcaInv, ZatcaTypeOK, ZatcaColumns, Works, zatcaTables, zatcaCallVars, zatcaHistory,
        zatcaVars
<1> DEFINE Goal == /\ zatca[i] = "Submitted" => hash'[i] = hash[i]
                   /\ zatca[i] = "Submitted" => pih'[i] = pih[i]
                   /\ hash[i] # None => hash'[i] # None
                   /\ zatca[i] = "Submitted" => zatca'[i] = "Submitted"
<1>1. ASSUME NEW c \in ZatcaCalls, SaveXml(c) PROVE Goal
  <2>1. CASE work[c].invoice = i
    <3>1. c \notin stale /\ InFlight(c) /\ work[c].do = "generate" /\ c \in Calls
      BY <1>1, <2>1 DEF SaveXml, Spoil, InFlight, Ended
    <3>2. zatca[i] = "NotSubmitted"
      BY <2>1, <3>1 DEF ReadFresh
    <3>3. hash'[i] = XmlHash(i, read[c].uuid, previous[c].hash)
      BY <1>1, <2>1 DEF SaveXml
    <3>4. hash'[i] # None
      BY <3>3 DEF XmlHash, None
    <3>5. QED
      BY <3>2, <3>4
  <2>2. CASE work[c].invoice # i
    BY <1>1, <2>2 DEF SaveXml
  <2>3. QED
    BY <2>1, <2>2
<1>2. ASSUME NEW c \in ZatcaCalls, FinishApprove(c) PROVE Goal
  BY <1>2 DEF FinishApprove, Spoil
<1>3. ASSUME NEW c \in ZatcaCalls, FinishSubmit(c) PROVE Goal
  BY <1>3 DEF FinishSubmit
<1>4. CASE UNCHANGED <<hash, pih, zatca>>
  BY <1>4
<1>5. QED
  BY <1>1, <1>2, <1>3, <1>4, ZatcaSteps
     DEF Begins, Begin, ReadUuid, ReadPrevious, SendXml, AbortZatca, ZatcaView

LEMMA WorkInductive ==
  ASSUME ZatcaInv, [ZatcaNext]_ZatcaView
  PROVE  WorkInStep'
<1> SUFFICES ASSUME NEW d \in Calls
             PROVE  /\ pc'[d] \in {"approve", "generate", "submit"} => work'[d].do = pc'[d]
                    /\ pc'[d] = "sent" => work'[d].do = "submit" /\ Message(d)' \in sent'
                    /\ pc'[d] \in {"submit", "sent"} => hash'[work'[d].invoice] # None
                    /\ pc'[d] = "linked" => previous'[d].hash # None
  BY DEF WorkInStep
<1> USE ZatcaAssumption
    DEF ZatcaInv, ZatcaTypeOK, ZatcaColumns, Goto, Works, zatcaTables, zatcaCallVars,
        zatcaHistory, zatcaVars, WorkInStep, Message
<1> DEFINE Goal ==
      /\ pc'[d] \in {"approve", "generate", "submit"} => work'[d].do = pc'[d]
      /\ pc'[d] = "sent" => work'[d].do = "submit" /\ Message(d)' \in sent'
      /\ pc'[d] \in {"submit", "sent"} => hash'[work'[d].invoice] # None
      /\ pc'[d] = "linked" => previous'[d].hash # None
<1>1. ASSUME NEW c \in ZatcaCalls, NEW i \in Invoices,
             NEW do \in {"approve", "generate", "submit"}, Begins(c, do, i)
      PROVE  Goal
  BY <1>1 DEF Begins, Begin
<1>2. ASSUME NEW c \in ZatcaCalls, ReadUuid(c) PROVE Goal
  <2>1. \A u : MockHash(u) # None
    BY DEF MockHash, None
  <2>2. Genesis # None
    BY DEF Genesis, None
  <2>3. QED
    BY <1>2, <2>1, <2>2 DEF ReadUuid
<1>3. ASSUME NEW c \in ZatcaCalls, FinishApprove(c) PROVE Goal
  BY <1>3 DEF FinishApprove, Rewrite, EndZatca
<1>4. ASSUME NEW c \in ZatcaCalls, ReadPrevious(c) PROVE Goal
  BY <1>4, LinkIsSet DEF ReadPrevious
<1>5. ASSUME NEW c \in ZatcaCalls, SaveXml(c) PROVE Goal
  <2>1. \A i, u, l : XmlHash(i, u, l) # None
    BY DEF XmlHash, None
  <2>2. QED
    BY <1>5, <2>1 DEF SaveXml, Rewrite, EndZatca
<1>6. ASSUME NEW c \in ZatcaCalls, SendXml(c) PROVE Goal
  BY <1>6 DEF SendXml
<1>7. ASSUME NEW c \in ZatcaCalls, FinishSubmit(c) PROVE Goal
  BY <1>7 DEF FinishSubmit, Rewrite, EndZatca
<1>8. ASSUME NEW c \in ZatcaCalls, AbortZatca(c) PROVE Goal
  BY <1>8 DEF AbortZatca, EndZatca
<1>9. CASE UNCHANGED ZatcaView
  BY <1>9 DEF ZatcaView
<1>10. QED
  BY <1>1, <1>2, <1>3, <1>4, <1>5, <1>6, <1>7, <1>8, <1>9, ZatcaSteps

\* Whoever writes a row outdates the calls that have read it.
LEMMA ReadFreshInductive ==
  ASSUME ZatcaInv, [ZatcaNext]_ZatcaView
  PROVE  ReadFresh'
<1> SUFFICES ASSUME NEW d \in Calls, d \notin stale', InFlight(d)'
             PROVE  /\ read'[d].hash = hash'[work'[d].invoice]
                    /\ work'[d].do \in {"generate", "submit"} =>
                         zatca'[work'[d].invoice] = "NotSubmitted"
  BY DEF ReadFresh
<1> USE ZatcaAssumption
    DEF ZatcaInv, ZatcaTypeOK, ZatcaColumns, Goto, Works, zatcaTables, zatcaCallVars,
        zatcaHistory, zatcaVars, ReadFresh, InFlight, Ended
<1> DEFINE Goal == /\ read'[d].hash = hash'[work'[d].invoice]
                   /\ work'[d].do \in {"generate", "submit"} =>
                        zatca'[work'[d].invoice] = "NotSubmitted"
<1>1. ASSUME NEW c \in ZatcaCalls, NEW i \in Invoices,
             NEW do \in {"approve", "generate", "submit"}, Begins(c, do, i)
      PROVE  Goal
  BY <1>1 DEF Begins, Begin
<1>2. ASSUME NEW c \in ZatcaCalls, FinishApprove(c) \/ SaveXml(c) \/ FinishSubmit(c)
      PROVE  Goal
  <2>1. Rewrite(c) /\ c \in Calls
    BY <1>2 DEF FinishApprove, SaveXml, FinishSubmit
  <2>2. d # c /\ read'[d] = read[d] /\ work' = work /\ pc'[d] = pc[d]
    BY <2>1 DEF Rewrite, EndZatca
  <2>3. d \notin stale /\ (work[d].invoice = work[c].invoice => d \in stale')
    BY <2>1, <2>2 DEF Rewrite, Outdate
  <2>4. \A j \in Invoices \ {work[c].invoice} : hash'[j] = hash[j] /\ zatca'[j] = zatca[j]
    BY <1>2 DEF FinishApprove, SaveXml, FinishSubmit
  <2>5. QED
    BY <2>2, <2>3, <2>4
<1>3. ASSUME NEW c \in ZatcaCalls, ReadUuid(c) \/ ReadPrevious(c) \/ SendXml(c) PROVE Goal
  BY <1>3 DEF ReadUuid, ReadPrevious, SendXml
<1>4. ASSUME NEW c \in ZatcaCalls, AbortZatca(c) PROVE Goal
  BY <1>4 DEF AbortZatca, EndZatca
<1>5. CASE UNCHANGED ZatcaView
  BY <1>5 DEF ZatcaView
<1>6. QED
  BY <1>1, <1>2, <1>3, <1>4, <1>5, ZatcaSteps

\* A call sends an invoice nobody has sent, or it spoils it.
LEMMA SentInductive ==
  ASSUME ZatcaInv, [ZatcaNext]_ZatcaView
  PROVE  SentOnce'
<1> USE ZatcaAssumption
    DEF ZatcaInv, ZatcaTypeOK, ZatcaColumns, Goto, Works, zatcaTables, zatcaCallVars,
        zatcaHistory, zatcaVars, SentOnce
<1> DEFINE Held(m) == \/ zatca[m.invoice] = "Submitted"
                      \/ pc[m.call] = "sent" /\ work[m.call].invoice = m.invoice
<1>1. spoiled \subseteq spoiled'
  BY HistoryGrows
<1>2. ASSUME sent' = sent,
             \A m \in sent : m.invoice \in Invoices \ spoiled' /\ Held(m) => Held(m)'
      PROVE  SentOnce'
  BY <1>1, <1>2
<1>3. ASSUME NEW c \in ZatcaCalls, NEW i \in Invoices,
             NEW do \in {"approve", "generate", "submit"}, Begins(c, do, i)
      PROVE  SentOnce'
  <2>1. \A m \in sent : m.call \in Calls /\ (Held(m) => Held(m)')
    BY <1>3 DEF Begins, Begin
  <2>2. QED
    BY <1>2, <1>3, <2>1 DEF Begins, Begin
<1>4. ASSUME NEW c \in ZatcaCalls, ReadUuid(c) \/ ReadPrevious(c) PROVE SentOnce'
  <2>1. \A m \in sent : m.call \in Calls /\ (Held(m) => Held(m)')
    BY <1>4 DEF ReadUuid, ReadPrevious
  <2>2. QED
    BY <1>2, <1>4, <2>1 DEF ReadUuid, ReadPrevious
<1>5. ASSUME NEW c \in ZatcaCalls, FinishApprove(c) \/ SaveXml(c) PROVE SentOnce'
  <2>1. sent' = sent /\ work' = work /\ pc[c] = "linked" /\ pc' = [pc EXCEPT ![c] = "done"]
    BY <1>5 DEF FinishApprove, SaveXml, Rewrite, EndZatca
  <2>2. ASSUME NEW m \in sent, m.invoice \in Invoices \ spoiled', zatca[m.invoice] = "Submitted"
        PROVE  zatca'[m.invoice] = "Submitted"
    BY <2>2, HashKept
  <2>3. QED
    BY <1>2, <2>1, <2>2
<1>6. ASSUME NEW c \in ZatcaCalls, SendXml(c) PROVE SentOnce'
  <2> DEFINE i == work[c].invoice
             new == [call |-> c, invoice |-> i, hash |-> read[c].hash]
  <2>1. /\ sent' = sent \cup {new} /\ zatca' = zatca /\ work' = work
        /\ pc[c] = "submit" /\ pc' = [pc EXCEPT ![c] = "sent"] /\ c \in Calls
    BY <1>6 DEF SendXml
  <2>2. i \notin spoiled' => \A m \in sent : m.invoice # i
    <3> SUFFICES ASSUME i \notin spoiled', NEW m \in sent, m.invoice = i PROVE FALSE
      OBVIOUS
    <3>1. c \notin stale /\ ~\E d \in Calls : pc[d] = "sent" /\ work[d].invoice = i
      BY <1>6 DEF SendXml, Spoil
    <3>2. zatca[i] = "NotSubmitted"
      BY <2>1, <3>1 DEF ReadFresh, WorkInStep, InFlight, Ended
    <3>3. i \in Invoices \ spoiled
      BY <1>1
    <3>4. m.invoice \in Invoices \ spoiled /\ m.call \in Calls
      BY <3>3
    <3>5. zatca[m.invoice] = "Submitted" \/ (pc[m.call] = "sent" /\ work[m.call].invoice = m.invoice)
      BY <3>4
    <3>6. QED
      BY <3>1, <3>2, <3>4, <3>5
  <2>3. new.call = c /\ new.invoice = i
    OBVIOUS
  <2> HIDE DEF new
  <2>4. \A m \in sent' : m.call \in Calls
    BY <2>1, <2>3
  <2>5. \A m \in sent' : m.invoice \in Invoices \ spoiled' => Held(m)'
    BY <1>1, <2>1, <2>3
  <2>6. \A m, n \in sent' :
          m.invoice = n.invoice /\ m.invoice \in Invoices \ spoiled' => m = n
    BY <1>1, <2>1, <2>2, <2>3
  <2>7. QED
    BY <2>4, <2>5, <2>6
<1>7. ASSUME NEW c \in ZatcaCalls, FinishSubmit(c) PROVE SentOnce'
  <2>1. /\ sent' = sent /\ work' = work /\ pc' = [pc EXCEPT ![c] = "done"]
        /\ zatca' = [zatca EXCEPT ![work[c].invoice] = "Submitted"]
    BY <1>7 DEF FinishSubmit, Rewrite, EndZatca
  <2>2. QED
    BY <1>2, <2>1
<1>8. ASSUME NEW c \in ZatcaCalls, AbortZatca(c) PROVE SentOnce'
  <2>1. /\ sent' = sent /\ work' = work /\ pc' = [pc EXCEPT ![c] = "failed"] /\ zatca' = zatca
        /\ pc[c] = "sent" => work[c].invoice \in spoiled'
    BY <1>8 DEF AbortZatca, EndZatca, Spoil
  <2>2. QED
    BY <1>2, <2>1
<1>9. CASE UNCHANGED ZatcaView
  BY <1>2, <1>9 DEF ZatcaView
<1>10. QED
  BY <1>3, <1>4, <1>5, <1>6, <1>7, <1>8, <1>9, ZatcaSteps

\* What was sent is what is kept.
LEMMA KeptInductive ==
  ASSUME ZatcaInv, [ZatcaNext]_ZatcaView
  PROVE  SentKept'
<1> SUFFICES ASSUME NEW i \in Invoices \ spoiled', zatca'[i] = "Submitted"
             PROVE  \E m \in sent' : m.invoice = i /\ m.hash = hash'[i]
  BY DEF SentKept
<1> USE ZatcaAssumption
    DEF ZatcaInv, ZatcaTypeOK, ZatcaColumns, Works, zatcaTables, zatcaCallVars, zatcaHistory,
        zatcaVars
<1>1. i \in Invoices \ spoiled /\ sent \subseteq sent'
  <2>1. sent \subseteq sent'
    BY ZatcaSteps
       DEF Begins, Begin, ReadUuid, FinishApprove, ReadPrevious, SaveXml, SendXml,
           FinishSubmit, AbortZatca, ZatcaView
  <2>2. QED
    BY <2>1, HistoryGrows
<1>2. CASE zatca[i] = "Submitted"
  <2>1. hash'[i] = hash[i]
    BY <1>2, HashKept
  <2>2. QED
    BY <1>1, <1>2, <2>1 DEF SentKept
<1>3. CASE zatca[i] # "Submitted"
  <2>1. PICK c \in ZatcaCalls : FinishSubmit(c) /\ work[c].invoice = i
    BY <1>3, ZatcaSteps
       DEF Begins, Begin, ReadUuid, FinishApprove, ReadPrevious, SaveXml, SendXml,
           FinishSubmit, AbortZatca, ZatcaView
  <2>2. c \notin stale /\ pc[c] = "sent" /\ c \in Calls /\ hash' = hash
    BY <2>1 DEF FinishSubmit, Spoil
  <2>3. Message(c) \in sent /\ read[c].hash = hash[i]
    BY <2>1, <2>2 DEF WorkInStep, ReadFresh, InFlight, Ended
  <2>4. QED
    BY <1>1, <2>1, <2>2, <2>3 DEF Message
<1>4. QED
  BY <1>2, <1>3

LEMMA SubmittedInductive ==
  ASSUME ZatcaInv, [ZatcaNext]_ZatcaView
  PROVE  SubmittedRows'
<1> USE ZatcaAssumption
    DEF ZatcaInv, ZatcaTypeOK, ZatcaColumns, Works, zatcaTables, zatcaCallVars, zatcaHistory,
        zatcaVars, SubmittedRows
<1>1. ASSUME NEW c \in ZatcaCalls, FinishSubmit(c) PROVE SubmittedRows'
  <2> DEFINE i == work[c].invoice
  <2>1. /\ i \in Invoices
        /\ zatca' = [zatca EXCEPT ![i] = "Submitted"]
        /\ submissions' = Append(submissions, i)
    BY <1>1 DEF FinishSubmit
  <2>2. /\ Len(submissions') = Len(submissions) + 1 /\ Len(submissions) \in Nat
        /\ \A k \in 1..Len(submissions) : submissions'[k] = submissions[k]
        /\ submissions'[Len(submissions) + 1] = i
    BY <2>1, AppendProperties
  <2>3. spoiled \subseteq spoiled'
    BY HistoryGrows
  <2>4. \A k \in 1..Len(submissions) : submissions[k] \in Invoices
    OBVIOUS
  <2> HIDE DEF i
  <2>5. ASSUME NEW j \in Invoices, zatca'[j] = "Submitted"
        PROVE  \E k \in 1..Len(submissions') : submissions'[k] = j
    <3>1. CASE j = i
      BY <2>2, <3>1
    <3>2. CASE j # i
      <4>1. zatca[j] = "Submitted"
        BY <2>1, <2>5, <3>2
      <4>2. PICK k \in 1..Len(submissions) : submissions[k] = j
        BY <4>1
      <4>3. k \in 1..Len(submissions') /\ submissions'[k] = j
        BY <2>2, <4>2
      <4>4. QED
        BY <4>3
    <3>3. QED
      BY <3>1, <3>2
  <2>6. ASSUME NEW k \in 1..Len(submissions'), submissions'[k] \notin spoiled'
        PROVE  zatca'[submissions'[k]] = "Submitted"
    BY <2>1, <2>2, <2>3, <2>4, <2>6
  <2>7. QED
    BY <2>5, <2>6
<1>2. ASSUME submissions' = submissions, \A i \in Invoices : zatca'[i] = "Submitted" =>
               zatca[i] = "Submitted"
      PROVE  SubmittedRows'
  <2>1. spoiled \subseteq spoiled'
    BY HistoryGrows
  <2>2. \A k \in 1..Len(submissions) : submissions[k] \in Invoices
    OBVIOUS
  <2>3. ASSUME NEW k \in 1..Len(submissions), submissions[k] \notin spoiled'
        PROVE  zatca'[submissions[k]] = "Submitted"
    BY <2>1, <2>2, <2>3, HashKept
  <2>4. QED
    BY <1>2, <2>3
<1>3. ASSUME NEW c \in ZatcaCalls, FinishApprove(c) PROVE SubmittedRows'
  <2>1. submissions' = submissions /\ zatca' = [zatca EXCEPT ![work[c].invoice] = "NotSubmitted"]
    BY <1>3 DEF FinishApprove
  <2>2. QED
    BY <1>2, <2>1
<1>4. CASE UNCHANGED <<submissions, zatca>>
  BY <1>2, <1>4
<1>5. QED
  BY <1>1, <1>3, <1>4, ZatcaSteps
     DEF Begins, Begin, ReadUuid, ReadPrevious, SaveXml, SendXml, AbortZatca, ZatcaView

LEMMA FirstAreInvoices ==
  ASSUME ZatcaTypeOK, NEW n \in 0..Len(submissions)
  PROVE  First(n) \in SUBSET (1..Issued)
<1>1. \A j \in 1..n : j \in 1..Len(submissions)
  BY DEF ZatcaTypeOK
<1>2. submissions \in Seq(1..Issued)
  BY InvoicesNumbered DEF ZatcaTypeOK
<1> HIDE DEF ZatcaTypeOK
<1>3. \A j \in 1..Len(submissions) : submissions[j] \in 1..Issued
  BY <1>2, ElementOfSeq
<1>4. QED
  BY <1>1, <1>3 DEF First

\* The invoices submitted are not written any more, so the link to them stays.
LEMMA LinkStays ==
  ASSUME ZatcaInv, [ZatcaNext]_ZatcaView, NEW n \in 0..Len(submissions), NEW h, Linked(h, n)
  PROVE  Linked(h, n)'
<1>0. Len(submissions) \in Nat /\ \A j \in 1..n : j \in 1..Len(submissions)
  BY DEF ZatcaInv, ZatcaTypeOK
<1>1. First(n)' = First(n)
  <2>1. \A j \in 1..n : submissions'[j] = submissions[j]
    BY <1>0, HistoryGrows
  <2>2. QED
    BY <2>1 DEF First
<1> SUFFICES ASSUME First(n) \cap spoiled' = {}
             PROVE  h = IF First(n) = {} THEN Genesis ELSE hash'[Max(First(n))]
  BY <1>1 DEF Linked, LinkTo
<1>2. h = LinkTo(First(n))
  BY HistoryGrows DEF Linked
<1>3. CASE First(n) = {}
  BY <1>2, <1>3 DEF LinkTo
<1>4. CASE First(n) # {}
  <2> DEFINE i == Max(First(n))
  <2>1. i \in First(n)
    BY <1>4, FirstAreInvoices, MaxOf, InvoicesNumbered DEF ZatcaInv
  <2>2. PICK k \in 1..Len(submissions) : submissions[k] = i
    <3> HIDE DEF i
    <3>1. QED
      BY <1>0, <2>1 DEF First
  <2>3. i \in Invoices /\ i \notin spoiled'
    BY <2>1, FirstAreInvoices, InvoicesNumbered DEF ZatcaInv
  <2>4. zatca[i] = "Submitted"
    BY <2>2, <2>3, HistoryGrows DEF ZatcaInv, SubmittedRows
  <2>5. hash'[i] = hash[i]
    BY <2>3, <2>4, HashKept
  <2>6. QED
    BY <1>2, <1>4, <2>5 DEF LinkTo
<1>5. QED
  BY <1>3, <1>4

\* What a call reads as the link is one.
LEMMA LastIsLinked ==
  ASSUME ZatcaInv
  PROVE  Linked(LastSubmitted, Len(submissions))
<1> SUFFICES ASSUME First(Len(submissions)) \cap spoiled = {}
             PROVE  LastSubmitted = LinkTo(First(Len(submissions)))
  BY DEF Linked
<1>1. {i \in Invoices : zatca[i] = "Submitted"} = First(Len(submissions))
  <2>1. \A k \in 1..Len(submissions) : submissions[k] \in Invoices
    BY DEF ZatcaInv, ZatcaTypeOK
  <2>2. QED
    BY <2>1 DEF First, ZatcaInv, SubmittedRows
<1>2. QED
  BY <1>1 DEF LastSubmitted

\* Rows that were generated keep their link, and so do the calls that have read it.
LEMMA RowLinksInductive ==
  ASSUME ZatcaInv, [ZatcaNext]_ZatcaView, NEW i \in Invoices \ spoiled', hash'[i] # None
  PROVE  /\ pih'[i] = hash'[i].previous
         /\ after'[i] <= Len(submissions')
         /\ Linked(hash[i].previous, after[i])'
<1> USE ZatcaAssumption
    DEF ZatcaInv, ZatcaTypeOK, ZatcaColumns, Works, zatcaTables, zatcaCallVars, zatcaHistory,
        zatcaVars
<1> DEFINE Goal == /\ pih'[i] = hash'[i].previous
                   /\ after'[i] <= Len(submissions')
                   /\ Linked(hash[i].previous, after[i])'
<1>1. i \in Invoices \ spoiled /\ Len(submissions) <= Len(submissions')
      /\ Len(submissions) \in Nat /\ after[i] \in Nat /\ Len(submissions') \in Nat
  <2>1. submissions' \in Seq(Invoices)
    BY ZatcaTypeInductive
  <2>2. i \in Invoices \ spoiled /\ Len(submissions) <= Len(submissions')
    BY HistoryGrows
  <2>3. after[i] \in Nat
    OBVIOUS
  <2>4. QED
    BY <2>1, <2>2, <2>3
<1>2. ASSUME hash'[i] = hash[i], pih'[i] = pih[i], after'[i] = after[i] PROVE Goal
  <2>1. /\ pih[i] = hash[i].previous /\ after[i] <= Len(submissions)
        /\ Linked(hash[i].previous, after[i])
    BY <1>1, <1>2 DEF LinksKept
  <2>2. after[i] \in 0..Len(submissions)
    BY <1>1, <2>1
  <2>3. Linked(hash[i].previous, after[i])'
    <3>1. PICK h, n : h = hash[i].previous /\ n = after[i]
      OBVIOUS
    <3>2. Linked(h, n)'
      BY <2>1, <2>2, <3>1, LinkStays
    <3>3. QED
      BY <1>2, <3>1, <3>2
  <2>4. QED
    BY <1>1, <1>2, <2>1, <2>3
<1>3. ASSUME NEW c \in ZatcaCalls, SaveXml(c) PROVE Goal
  <2>1. CASE work[c].invoice = i
    <3>1. /\ hash'[i] = XmlHash(i, read[c].uuid, previous[c].hash)
          /\ pih'[i] = previous[c].hash /\ after'[i] = previous[c].after
          /\ pc[c] = "linked" /\ work[c].do = "generate" /\ c \in Calls
      BY <1>3, <2>1 DEF SaveXml
    <3>2. hash'[i].previous = previous[c].hash
      BY <3>1 DEF XmlHash
    <3>3. Linked(previous[c].hash, previous[c].after) /\ previous[c].after \in 0..Len(submissions)
      BY <3>1 DEF LinksKept
    <3>4. PICK h, n : h = previous[c].hash /\ n = previous[c].after
      OBVIOUS
    <3>5. Linked(h, n)'
      BY <3>3, <3>4, LinkStays
    <3>6. n <= Len(submissions) /\ n \in Nat
      BY <1>1, <3>3, <3>4
    <3>7. Linked(hash[i].previous, after[i])'
      BY <3>1, <3>2, <3>4, <3>5
    <3>8. QED
      BY <1>1, <3>1, <3>2, <3>4, <3>6, <3>7
  <2>2. CASE work[c].invoice # i
    BY <1>2, <1>3, <2>2 DEF SaveXml
  <2>3. QED
    BY <2>1, <2>2
<1>4. ASSUME NEW c \in ZatcaCalls, FinishApprove(c) PROVE Goal
  <2>1. hash' = hash /\ after' = after /\ work[c].invoice # i
    BY <1>4 DEF FinishApprove, Spoil
  <2>2. pih'[i] = pih[i]
    BY <1>4, <2>1 DEF FinishApprove
  <2>3. QED
    BY <1>2, <2>1, <2>2
<1>5. CASE UNCHANGED <<hash, pih, after>>
  BY <1>2, <1>5
<1>6. QED
  BY <1>3, <1>4, <1>5, ZatcaSteps
     DEF Begins, Begin, ReadUuid, ReadPrevious, SendXml, FinishSubmit, AbortZatca, ZatcaView

LEMMA CallLinksInductive ==
  ASSUME ZatcaInv, [ZatcaNext]_ZatcaView, NEW d \in Calls,
         pc'[d] = "linked", work'[d].do = "generate"
  PROVE  Linked(previous[d].hash, previous[d].after)'
<1> USE ZatcaAssumption
    DEF ZatcaInv, ZatcaTypeOK, ZatcaColumns, Goto, zatcaTables, zatcaCallVars, zatcaHistory,
        zatcaVars
<1>1. ASSUME previous'[d] = previous[d], pc[d] = "linked", work[d].do = "generate"
      PROVE  Linked(previous[d].hash, previous[d].after)'
  <2>1. PICK h, n : h = previous[d].hash /\ n = previous[d].after
    OBVIOUS
  <2>2. Linked(h, n) /\ n \in 0..Len(submissions)
    BY <1>1, <2>1 DEF LinksKept
  <2>3. Linked(h, n)'
    BY <2>2, LinkStays
  <2>4. QED
    BY <1>1, <2>1, <2>3
<1>2. ASSUME NEW c \in ZatcaCalls, ReadPrevious(c)
      PROVE  Linked(previous[d].hash, previous[d].after)'
  <2>1. CASE d = c
    <3>1. PICK h, n : h = LastSubmitted /\ n = Len(submissions)
      OBVIOUS
    <3>2. Linked(h, n) /\ n \in 0..Len(submissions)
      BY <3>1, LastIsLinked
    <3>3. Linked(h, n)'
      BY <3>2, LinkStays
    <3>4. previous'[d] = [hash |-> h, after |-> n]
      BY <1>2, <2>1, <3>1 DEF ReadPrevious
    <3>5. QED
      BY <3>3, <3>4
  <2>2. CASE d # c
    BY <1>1, <1>2, <2>2 DEF ReadPrevious
  <2>3. QED
    BY <2>1, <2>2
<1>3. ASSUME NEW c \in ZatcaCalls, ReadUuid(c)
      PROVE  Linked(previous[d].hash, previous[d].after)'
  <2>1. d # c
    BY <1>3 DEF ReadUuid, WorkInStep
  <2>2. QED
    BY <1>1, <1>3, <2>1 DEF ReadUuid
<1>4. ASSUME NEW c \in ZatcaCalls, NEW i \in Invoices,
             NEW do \in {"approve", "generate", "submit"}, Begins(c, do, i)
      PROVE  Linked(previous[d].hash, previous[d].after)'
  BY <1>1, <1>4 DEF Begins, Begin
<1>5. ASSUME NEW c \in ZatcaCalls,
             FinishApprove(c) \/ SaveXml(c) \/ FinishSubmit(c) \/ AbortZatca(c)
      PROVE  Linked(previous[d].hash, previous[d].after)'
  <2>1. EndZatca(c, "done") \/ EndZatca(c, "failed")
    BY <1>5 DEF FinishApprove, SaveXml, FinishSubmit, AbortZatca, Rewrite
  <2>2. QED
    BY <1>1, <2>1 DEF EndZatca
<1>6. ASSUME NEW c \in ZatcaCalls, SendXml(c)
      PROVE  Linked(previous[d].hash, previous[d].after)'
  BY <1>1, <1>6 DEF SendXml
<1>7. CASE UNCHANGED ZatcaView
  BY <1>1, <1>7 DEF ZatcaView
<1>8. QED
  BY <1>2, <1>3, <1>4, <1>5, <1>6, <1>7, ZatcaSteps

\* The invariant holds in every reachable state.
LEMMA ZatcaInductive == ZatcaInv /\ [ZatcaNext]_ZatcaView => ZatcaInv'
<1> SUFFICES ASSUME ZatcaInv, [ZatcaNext]_ZatcaView PROVE ZatcaInv'
  OBVIOUS
<1>1. LinksKept'
  BY RowLinksInductive, CallLinksInductive DEF LinksKept
<1>2. QED
  BY <1>1, ZatcaTypeInductive, WorkInductive, ReadFreshInductive, SentInductive,
     KeptInductive, SubmittedInductive DEF ZatcaInv

LEMMA ZatcaInvariant == ZatcaSpec => []ZatcaInv
  BY ZatcaInitInv, ZatcaInductive, PTL DEF ZatcaSpec, ZatcaView

\* The columns and the calls of the ZATCA service hold values of their types.
THEOREM ZatcaTypeCorrect == ZatcaSpec => []ZatcaTypeOK
<1>1. ZatcaInv => ZatcaTypeOK
  BY DEF ZatcaInv
<1>2. QED
  BY ZatcaInvariant, <1>1, PTL

\* generateZatcaData and submitToZatca (zatca.service.ts) keep the hashes of the
\* submitted invoices in one chain, for any number of invoices and calls,
\* wherever what was read is still true when it is written.
THEOREM SubmittedInvoicesChain == ZatcaSpec => []SubmittedChain
<1>1. ZatcaInv => SubmittedChain
  <2> SUFFICES ASSUME ZatcaInv, NEW k \in DOMAIN submissions
               PROVE  LET i == submissions[k]
                          earlier == {submissions[j] : j \in 1..(k - 1)}
                      IN  /\ i \notin spoiled => pih[i] = hash[i].previous
                          /\ after[i] = k - 1 /\ ({i} \cup earlier) \cap spoiled = {}
                               => hash[i].previous = LinkTo(earlier)
    BY DEF SubmittedChain
  <2> DEFINE i == submissions[k]
  <2>1. k \in 1..Len(submissions) /\ i \in Invoices
    BY DEF ZatcaInv, ZatcaTypeOK
  <2> HIDE DEF i
  <2>2. i \notin spoiled => hash[i] # None
    BY <2>1 DEF ZatcaInv, SubmittedRows, ZatcaTypeOK, i
  <2>3. i \notin spoiled => pih[i] = hash[i].previous /\ Linked(hash[i].previous, after[i])
    BY <2>1, <2>2 DEF ZatcaInv, LinksKept
  <2>4. ASSUME after[i] = k - 1, ({i} \cup First(k - 1)) \cap spoiled = {}
        PROVE  hash[i].previous = LinkTo(First(k - 1))
    BY <2>3, <2>4 DEF Linked
  <2>5. QED
    BY <2>3, <2>4 DEF First, i
<1>2. QED
  BY ZatcaInvariant, <1>1, PTL

\* submitToZatca (zatca.service.ts 216-287) sends the authority an invoice once
\* and keeps the document it has sent, for any number of invoices and calls,
\* wherever the status that was read is still true.
THEOREM SubmittedInvoicesAreFinal == ZatcaSpec => []SubmittedIsFinal
<1>1. ZatcaInv => SubmittedIsFinal
  <2> SUFFICES ASSUME ZatcaInv, NEW i \in Invoices \ spoiled
               PROVE  Cardinality({m \in sent : m.invoice = i}) <= 1
    BY DEF SubmittedIsFinal, ZatcaInv, SentKept
  <2> DEFINE S == {m \in sent : m.invoice = i}
  <2>1. CASE S = {}
    BY <2>1, FS_EmptySet
  <2>2. CASE S # {}
    <3>1. PICK m \in S : TRUE
      BY <2>2
    <3>2. S = {m}
      BY <3>1 DEF ZatcaInv, SentOnce
    <3>3. QED
      BY <3>2, FS_Singleton
  <2>3. QED
    BY <2>1, <2>2
<1>2. QED
  BY ZatcaInvariant, <1>1, PTL

(***************************************************************************)
(* Purchase orders                                                         *)
(***************************************************************************)

\* A call nobody has overtaken since it read its order acts on a true status.
ReadHolds ==
  \A c \in Calls : pc[c] = "read" /\ c \notin stale =>
    order[job[c].order] \in ReadyFor(job[c].do)

\* Only receive, approve and bill are read for.
ReadJobs == \A c \in Calls : pc[c] = "read" => job[c].do \in {"receive", "approve", "bill"}

OrdersInv == ProcurementTypeOK /\ ReadJobs /\ ReadHolds /\ OrdersInStep

\* What OrdersInStep says of an order no call has wronged.
InStep(o) ==
  /\ receipts[o] <= 1
  /\ bills[o] = 1 => order[o] = "Billed"
  /\ order[o] = "Received" => receipts[o] = 1
  /\ receipts[o] = 1 => order[o] \in {"Received", "Billed"}

Billed(o) == bills[o] <= 1 /\ (order[o] = "Billed" => bills[o] = 1)

OrdersView == <<orderVars, pc, stale>>

-----------------------------------------------------------------------------

LEMMA OrdersInitInv == ProcurementInit => OrdersInv
<1> SUFFICES ASSUME ProcurementInit PROVE OrdersInv
  OBVIOUS
<1>1. (CHOOSE j \in Jobs : TRUE) \in Jobs
  <2>1. PICK o \in Orders : TRUE
    BY ProcurementAssumption
  <2>2. [do |-> "bill", order |-> o] \in Jobs
    BY DEF Jobs
  <2>3. QED
    BY <2>2
<1>2. ProcurementTypeOK
  BY <1>1 DEF ProcurementInit, RequestsInit, ProcurementTypeOK, OrderStatuses
<1>3. ReadJobs /\ ReadHolds /\ OrdersInStep
  BY DEF ProcurementInit, RequestsInit, ReadJobs, ReadHolds, OrdersInStep
<1>4. QED
  BY <1>2, <1>3 DEF OrdersInv

\* The statements of a call that write the order.
WritesOrder(c) == Receive(c) \/ Send(c) \/ Bill(c) \/ HandleDecision(c)

\* The rest of what it does leaves order, receipts and bills alone.
LeavesOrders(c) ==
  \/ \E j \in Jobs : ReadDecision(c, j)
  \/ BillExists(c) \/ SaveDecision(c) \/ AbortOrder(c)

\* Every step is of one of four kinds.
LEMMA OrderSteps ==
  ASSUME [ProcurementNext]_OrdersView
  PROVE  \/ \E c \in OrderCalls : \/ \E j \in Jobs : BeginOrder(c, j)
                                  \/ WritesOrder(c) \/ LeavesOrders(c)
         \/ UNCHANGED OrdersView
  BY DEF ProcurementNext, OrderStep, WritesOrder, LeavesOrders, OrdersView

LEMMA OrdersTypeInductive == ProcurementTypeOK /\ [ProcurementNext]_OrdersView => ProcurementTypeOK'
<1> SUFFICES ASSUME ProcurementTypeOK, [ProcurementNext]_OrdersView PROVE ProcurementTypeOK'
  OBVIOUS
<1> USE ProcurementAssumption DEF ProcurementTypeOK, Goto, OrderStatuses
<1>1. ASSUME NEW c \in OrderCalls, NEW j \in Jobs, BeginOrder(c, j)
      PROVE  ProcurementTypeOK'
  BY <1>1 DEF BeginOrder, orderTables
<1>2. ASSUME NEW c \in OrderCalls, WritesOrder(c) PROVE ProcurementTypeOK'
  <2>1. c \in Calls /\ job[c].order \in Orders
    BY DEF Jobs
  <2>2. CASE Receive(c)
    BY <2>1, <2>2 DEF Receive, SetStatus, Outdate
  <2>3. CASE Send(c)
    BY <2>1, <2>3 DEF Send, SetStatus, Outdate
  <2>4. CASE Bill(c)
    BY <2>1, <2>4 DEF Bill, SetStatus, Outdate
  <2>5. CASE HandleDecision(c)
    BY <2>1, <2>5 DEF HandleDecision, Outdate
  <2>6. QED
    BY <1>2, <2>2, <2>3, <2>4, <2>5 DEF WritesOrder
<1>3. ASSUME NEW c \in OrderCalls, LeavesOrders(c) PROVE ProcurementTypeOK'
  BY <1>3 DEF LeavesOrders, ReadDecision, BillExists, SaveDecision, AbortOrder, RefuseJob, orderVars,
              orderTables
<1>4. CASE UNCHANGED OrdersView
  BY <1>4 DEF OrdersView, orderVars, orderTables
<1>5. QED
  BY <1>1, <1>2, <1>3, <1>4, OrderSteps

\* A call that writes an order outdates every other call that has read it.
LEMMA ReadInductive ==
  ASSUME OrdersInv, [ProcurementNext]_OrdersView
  PROVE  ReadJobs' /\ ReadHolds'
<1> SUFFICES ASSUME NEW d \in Calls, pc'[d] = "read"
             PROVE  /\ job'[d].do \in {"receive", "approve", "bill"}
                    /\ d \notin stale' => order'[job'[d].order] \in ReadyFor(job'[d].do)
  BY DEF ReadJobs, ReadHolds
<1> USE ProcurementAssumption DEF OrdersInv, ProcurementTypeOK, ReadJobs, ReadHolds, Goto
<1> DEFINE Goal == /\ job'[d].do \in {"receive", "approve", "bill"}
                   /\ d \notin stale' => order'[job'[d].order] \in ReadyFor(job'[d].do)
<1>1. ASSUME NEW c \in OrderCalls, NEW j \in Jobs, BeginOrder(c, j) PROVE Goal
  BY <1>1 DEF BeginOrder, orderTables
<1>2. ASSUME NEW c \in OrderCalls, WritesOrder(c) PROVE Goal
  <2>1. /\ d # c /\ pc[d] = "read" /\ job' = job
        /\ stale' = stale \cup {e \in {f \in Calls : job[f].order = job[c].order} \ {c} : InFlight(e)}
        /\ \A o \in Orders \ {job[c].order} : order'[o] = order[o]
    BY <1>2 DEF WritesOrder, Receive, Send, Bill, HandleDecision, SetStatus, Outdate
  <2>2. InFlight(d)
    BY <2>1 DEF InFlight, Ended
  <2>3. job[d].order \in Orders
    BY DEF Jobs
  <2>4. CASE job[d].order = job[c].order
    BY <2>1, <2>2, <2>4
  <2>5. CASE job[d].order # job[c].order
    BY <2>1, <2>3, <2>5
  <2>6. QED
    BY <2>4, <2>5
<1>3. ASSUME NEW c \in OrderCalls, LeavesOrders(c) PROVE Goal
  BY <1>3 DEF LeavesOrders, ReadDecision, BillExists, SaveDecision, AbortOrder, RefuseJob, orderVars,
              orderTables
<1>4. CASE UNCHANGED OrdersView
  BY <1>4 DEF OrdersView, orderVars, orderTables
<1>5. QED
  BY <1>1, <1>2, <1>3, <1>4, OrderSteps

\* Whoever writes the order: it has one bill at most, and one if it is Billed.
LEMMA BilledInductive ==
  ASSUME OrdersInv, [ProcurementNext]_OrdersView, NEW o \in Orders
  PROVE  Billed(o)'
<1> USE ProcurementAssumption DEF OrdersInv, ProcurementTypeOK, Billed
<1>1. Billed(o)
  BY DEF OrdersInStep
<1>2. ASSUME NEW c \in OrderCalls, Bill(c) PROVE Billed(o)'
  BY <1>1, <1>2 DEF Bill, SetStatus, Jobs
<1>3. ASSUME NEW c \in OrderCalls, Receive(c) \/ Send(c) \/ HandleDecision(c)
      PROVE  Billed(o)'
  BY <1>1, <1>3 DEF Receive, Send, HandleDecision, SetStatus, Jobs
<1>4. ASSUME UNCHANGED <<order, bills>> PROVE Billed(o)'
  BY <1>1, <1>4
<1>5. QED
  BY <1>2, <1>3, <1>4, OrderSteps
     DEF WritesOrder, LeavesOrders, BeginOrder, ReadDecision, BillExists, SaveDecision, AbortOrder,
         RefuseJob, OrdersView, orderVars, orderTables

\* A writer that is not stale finds the order as it read it; a decision finds
\* it waiting; every other writer wrongs it.
LEMMA StepInductive ==
  ASSUME OrdersInv, [ProcurementNext]_OrdersView, NEW o \in Orders, o \notin wronged'
  PROVE  InStep(o)'
<1> USE ProcurementAssumption DEF OrdersInv, ProcurementTypeOK, InStep
<1>1. o \notin wronged => InStep(o)
  BY DEF OrdersInStep
<1>2. ASSUME NEW c \in OrderCalls, Receive(c) \/ Send(c) \/ Bill(c) PROVE InStep(o)'
  <2>1. /\ o \notin wronged
        /\ pc[c] = "read"
        /\ c \in stale => o # job[c].order
    BY <1>2 DEF Receive, Send, Bill, SetStatus
  <2>2. bills[o] \in {0, 1} /\ receipts[o] \in {0, 1}
    BY <1>1, <2>1 DEF OrdersInStep
  <2>3. CASE o # job[c].order
    BY <1>1, <1>2, <2>1, <2>3 DEF Receive, Send, Bill, SetStatus
  <2>4. CASE o = job[c].order
    <3>1. order[o] \in ReadyFor(job[c].do)
      BY <2>1, <2>4 DEF ReadHolds
    <3>2. CASE Receive(c)
      BY <1>1, <2>1, <2>2, <2>4, <3>1, <3>2 DEF Receive, SetStatus, ReadyFor
    <3>3. CASE Send(c)
      BY <1>1, <2>1, <2>2, <2>4, <3>1, <3>3 DEF Send, SetStatus, ReadyFor
    <3>4. CASE Bill(c)
      BY <1>1, <2>1, <2>2, <2>4, <3>1, <3>4 DEF Bill, SetStatus, ReadyFor, OrderStatuses
    <3>5. QED
      BY <1>2, <3>2, <3>3, <3>4
  <2>5. QED
    BY <2>3, <2>4
<1>3. ASSUME NEW c \in OrderCalls, HandleDecision(c) PROVE InStep(o)'
  <2>1. o \notin wronged
    BY <1>3 DEF HandleDecision
  <2>2. CASE o # job[c].order
    BY <1>1, <1>3, <2>1, <2>2 DEF HandleDecision
  <2>3. CASE o = job[c].order
    <3>1. order[o] = "PendingApproval"
      BY <1>3, <2>3 DEF HandleDecision
    <3>2. QED
      BY <1>1, <1>3, <2>1, <2>3, <3>1 DEF HandleDecision, OrdersInStep
  <2>4. QED
    BY <2>2, <2>3
<1>4. ASSUME UNCHANGED <<order, bills, receipts, wronged>> PROVE InStep(o)'
  BY <1>1, <1>4
<1>5. QED
  BY <1>2, <1>3, <1>4, OrderSteps
     DEF WritesOrder, LeavesOrders, BeginOrder, ReadDecision, BillExists, SaveDecision, AbortOrder,
         RefuseJob, OrdersView, orderVars, orderTables

\* The invariant holds in every reachable state.
LEMMA OrdersInductive == OrdersInv /\ [ProcurementNext]_OrdersView => OrdersInv'
<1> SUFFICES ASSUME OrdersInv, [ProcurementNext]_OrdersView PROVE OrdersInv'
  OBVIOUS
<1>1. ProcurementTypeOK' /\ ReadJobs' /\ ReadHolds'
  BY OrdersTypeInductive, ReadInductive DEF OrdersInv
<1>2. OrdersInStep'
  BY BilledInductive, StepInductive DEF OrdersInStep, Billed, InStep
<1>3. QED
  BY <1>1, <1>2 DEF OrdersInv

LEMMA OrdersInvariant == ProcurementSpec => []OrdersInv
  BY OrdersInitInv, OrdersInductive, PTL DEF ProcurementSpec, OrdersView

\* The columns and the calls of PurchaseOrdersService hold values of their types.
THEOREM ProcurementTypeCorrect == ProcurementSpec => []ProcurementTypeOK
<1>1. OrdersInv => ProcurementTypeOK
  BY DEF OrdersInv
<1>2. QED
  BY OrdersInvariant, <1>1, PTL

\* The status checks of receiveGoods, approvePurchaseOrder and convertToBill
\* (purchase-orders.service.ts 76-179) keep an order, its receipts and its bill
\* in step, for any orders and any number of calls, wherever the status that
\* was read is still true; one bill is all an order gets in any case.
THEOREM OrdersKeepInStep == ProcurementSpec => []OrdersInStep
<1>1. OrdersInv => OrdersInStep
  BY DEF OrdersInv
<1>2. QED
  BY OrdersInvariant, <1>1, PTL

(***************************************************************************)
(* Quotes and opportunities                                                *)
(***************************************************************************)

\* A quote being converted was accepted, and stays so.
ConvertingAccepted ==
  \A c \in Calls : pc[c] = "converting" => quote[subject[c]] = "Accepted"

\* An acceptance that was completed won its opportunity, and only a hand takes
\* that back.
CompletedWon ==
  \A q \in Quotes :
    acceptance[q] = "complete" /\ About[q] \in Opportunities \ moved => stage[About[q]] = "Won"

CrmInv == CrmTypeOK /\ ConvertingAccepted /\ CompletedWon /\ QuotesInvoicedOnce

CrmView == <<crmVars, pc, stale>>

\* c accepts its quote and has still to win the opportunity.
Winning(c, q) == pc[c] = "accepted" /\ subject[c] = q

-----------------------------------------------------------------------------

LEMMA CrmInitInv == CrmInit => CrmInv
<1> SUFFICES ASSUME CrmInit PROVE CrmInv
  OBVIOUS
<1>1. (CHOOSE q \in Quotes : TRUE) \in Quotes
  BY CrmAssumption
<1>2. CrmTypeOK
  BY <1>1 DEF CrmInit, RequestsInit, CrmTypeOK, Stages, QuoteStatuses
<1>3. ConvertingAccepted /\ CompletedWon /\ QuotesInvoicedOnce
  BY DEF CrmInit, RequestsInit, ConvertingAccepted, CompletedWon, QuotesInvoicedOnce
<1>4. QED
  BY <1>2, <1>3 DEF CrmInv

LEMMA CrmTypeInductive == CrmTypeOK /\ [CrmNext]_CrmView => CrmTypeOK'
<1> SUFFICES ASSUME CrmTypeOK, [CrmNext]_CrmView PROVE CrmTypeOK'
  OBVIOUS
<1> USE DEF CrmTypeOK, Goto, Stages, QuoteStatuses
<1>1. ASSUME NEW o \in Opportunities, NEW s \in Stages, UpdateOpportunityStage(o, s)
      PROVE  CrmTypeOK'
  BY <1>1 DEF UpdateOpportunityStage
<1>2. ASSUME NEW c \in CrmCalls, NEW q \in Quotes, AcceptQuote(c, q) PROVE CrmTypeOK'
  BY <1>2, CrmAssumption DEF AcceptQuote
<1>3. ASSUME NEW c \in CrmCalls, NEW q \in Quotes, BeginConversion(c, q) PROVE CrmTypeOK'
  BY <1>3, CrmAssumption DEF BeginConversion, crmTables
<1>4. ASSUME NEW c \in CrmCalls, WinOpportunity(c) PROVE CrmTypeOK'
  BY <1>4, CrmAssumption DEF WinOpportunity
<1>5. ASSUME NEW c \in CrmCalls, InvoiceQuote(c) PROVE CrmTypeOK'
  BY <1>5, CrmAssumption DEF InvoiceQuote
<1>6. ASSUME NEW c \in CrmCalls, QuoteInvoiced(c) PROVE CrmTypeOK'
  BY <1>6, CrmAssumption DEF QuoteInvoiced, crmVars, crmTables
<1>7. ASSUME NEW c \in CrmCalls, AbortCrm(c) PROVE CrmTypeOK'
  BY <1>7, CrmAssumption DEF AbortCrm, crmTables
<1>8. CASE UNCHANGED CrmView
  BY <1>8 DEF CrmView, crmVars, crmTables
<1>9. QED
  BY <1>1, <1>2, <1>3, <1>4, <1>5, <1>6, <1>7, <1>8 DEF CrmNext, CrmStep

\* Accepted is a status for ever, so what a conversion checked stays true.
LEMMA ConvertingInductive ==
  CrmTypeOK /\ ConvertingAccepted /\ [CrmNext]_CrmView => ConvertingAccepted'
<1> SUFFICES ASSUME CrmTypeOK, ConvertingAccepted, [CrmNext]_CrmView,
                    NEW d \in Calls, pc'[d] = "converting"
             PROVE  quote'[subject'[d]] = "Accepted"
  BY DEF ConvertingAccepted
<1> USE DEF CrmTypeOK, ConvertingAccepted, Goto
<1>1. ASSUME NEW o \in Opportunities, NEW s \in Stages, UpdateOpportunityStage(o, s)
      PROVE  quote'[subject'[d]] = "Accepted"
  BY <1>1 DEF UpdateOpportunityStage
<1>2. ASSUME NEW c \in CrmCalls, NEW q \in Quotes, AcceptQuote(c, q)
      PROVE  quote'[subject'[d]] = "Accepted"
  BY <1>2, CrmAssumption DEF AcceptQuote
<1>3. ASSUME NEW c \in CrmCalls, NEW q \in Quotes, BeginConversion(c, q)
      PROVE  quote'[subject'[d]] = "Accepted"
  BY <1>3, CrmAssumption DEF BeginConversion, crmTables
<1>4. ASSUME NEW c \in CrmCalls, CrmStep(c) \/ AbortCrm(c)
      PROVE  quote'[subject'[d]] = "Accepted"
  BY <1>4, CrmAssumption
     DEF CrmStep, WinOpportunity, InvoiceQuote, QuoteInvoiced, AbortCrm, crmVars, crmTables
<1>5. CASE UNCHANGED CrmView
  BY <1>5 DEF CrmView, crmVars, crmTables
<1>6. QED
  BY <1>1, <1>2, <1>3, <1>4, <1>5 DEF CrmNext

LEMMA CompletedInductive == CrmTypeOK /\ CompletedWon /\ [CrmNext]_CrmView => CompletedWon'
<1> SUFFICES ASSUME CrmTypeOK, CompletedWon, [CrmNext]_CrmView, NEW q \in Quotes,
                    acceptance'[q] = "complete", About[q] \in Opportunities \ moved'
             PROVE  stage'[About[q]] = "Won"
  BY DEF CompletedWon
<1> USE DEF CrmTypeOK, CompletedWon
<1>1. ASSUME NEW c \in CrmCalls, WinOpportunity(c) PROVE stage'[About[q]] = "Won"
  <2>1. CASE subject[c] = q
    BY <1>1, <2>1 DEF WinOpportunity
  <2>2. CASE subject[c] # q
    <3>1. stage[About[q]] = "Won"
      BY <1>1, <2>2 DEF WinOpportunity
    <3>2. QED
      BY <1>1, <3>1 DEF WinOpportunity
  <2>3. QED
    BY <2>1, <2>2
<1>2. ASSUME NEW o \in Opportunities, NEW s \in Stages, UpdateOpportunityStage(o, s)
      PROVE  stage'[About[q]] = "Won"
  BY <1>2 DEF UpdateOpportunityStage
<1>3. ASSUME NEW c \in CrmCalls, AbortCrm(c) PROVE stage'[About[q]] = "Won"
  <2>1. acceptance[q] = "complete"
    BY <1>3 DEF AbortCrm
  <2>2. QED
    BY <1>3, <2>1 DEF AbortCrm, crmTables
<1>4. ASSUME UNCHANGED <<stage, acceptance, moved>> PROVE stage'[About[q]] = "Won"
  BY <1>4
<1>5. QED
  BY <1>1, <1>2, <1>3, <1>4
     DEF CrmNext, CrmStep, AcceptQuote, BeginConversion, InvoiceQuote, QuoteInvoiced,
         CrmView, crmVars, crmTables

\* The number of an invoice is made from the quote's, so the second is refused.
LEMMA InvoicesInductive ==
  ASSUME CrmInv, [CrmNext]_CrmView, NEW q \in Quotes
  PROVE  invoiced'[q] <= 1 /\ (invoiced'[q] = 1 => quote'[q] = "Accepted")
<1> USE DEF CrmInv, CrmTypeOK, QuotesInvoicedOnce
<1> DEFINE Goal == invoiced'[q] <= 1 /\ (invoiced'[q] = 1 => quote'[q] = "Accepted")
<1>1. ASSUME NEW c \in CrmCalls, InvoiceQuote(c) PROVE Goal
  BY <1>1, CrmAssumption DEF InvoiceQuote, ConvertingAccepted
<1>2. ASSUME NEW c \in CrmCalls, NEW r \in Quotes, AcceptQuote(c, r) PROVE Goal
  BY <1>2 DEF AcceptQuote
<1>3. ASSUME UNCHANGED <<quote, invoiced>> PROVE Goal
  BY <1>3
<1>4. QED
  BY <1>1, <1>2, <1>3
     DEF CrmNext, CrmStep, UpdateOpportunityStage, BeginConversion, WinOpportunity,
         QuoteInvoiced, AbortCrm, CrmView, crmVars, crmTables

\* An acceptance that has not failed is on its way to the opportunity or has
\* won it, and only a hand takes that back.
LEMMA WinningInductive ==
  ASSUME CrmInv, [CrmNext]_CrmView, NEW q \in Quotes,
         quote'[q] = "Accepted", About[q] \in Opportunities \ moved', acceptance'[q] # "halfway"
  PROVE  stage'[About[q]] = "Won" \/ \E c \in Calls : Winning(c, q)'
<1> USE DEF CrmInv, CrmTypeOK, Goto, Winning
<1> DEFINE Goal == stage'[About[q]] = "Won" \/ \E c \in Calls : Winning(c, q)'
<1>1. ASSUME quote[q] = "Accepted", acceptance[q] # "halfway", About[q] \notin moved
      PROVE  stage[About[q]] = "Won" \/ \E c \in Calls : Winning(c, q)
  BY <1>1 DEF QuotesInvoicedOnce
<1>2. ASSUME NEW o \in Opportunities, NEW s \in Stages, UpdateOpportunityStage(o, s)
      PROVE  Goal
  BY <1>1, <1>2 DEF UpdateOpportunityStage
<1>3. ASSUME NEW c \in CrmCalls, NEW r \in Quotes, AcceptQuote(c, r) PROVE Goal
  <2>1. CASE r = q
    <3>1. About[q] # NoOpportunity /\ c \in Calls
      BY CrmAssumption
    <3>2. Winning(c, q)'
      BY <1>3, <2>1, <3>1 DEF AcceptQuote
    <3>3. QED
      BY <3>1, <3>2
  <2>2. CASE r # q
    <3>1. quote[q] = "Accepted" /\ acceptance[q] # "halfway" /\ About[q] \notin moved
      BY <1>3, <2>2 DEF AcceptQuote
    <3>2. \A d \in Calls : Winning(d, q) => Winning(d, q)'
      BY <1>3 DEF AcceptQuote
    <3>3. QED
      BY <1>1, <1>3, <3>1, <3>2 DEF AcceptQuote
  <2>3. QED
    BY <2>1, <2>2
<1>4. ASSUME NEW c \in CrmCalls, NEW r \in Quotes, BeginConversion(c, r) PROVE Goal
  <2>1. \A d \in Calls : Winning(d, q) => Winning(d, q)'
    BY <1>4 DEF BeginConversion
  <2>2. QED
    BY <1>1, <1>4, <2>1 DEF BeginConversion, crmTables
<1>5. ASSUME NEW c \in CrmCalls, WinOpportunity(c) PROVE Goal
  <2>1. stage[About[q]] = "Won" => stage'[About[q]] = "Won"
    BY <1>5 DEF WinOpportunity
  <2>2. \A d \in Calls : Winning(d, q) => Winning(d, q)' \/ stage'[About[q]] = "Won"
    BY <1>5 DEF WinOpportunity
  <2>3. subject[c] = q => stage'[About[q]] = "Won"
    BY <1>5 DEF WinOpportunity
  <2>4. subject[c] # q => acceptance'[q] = acceptance[q]
    BY <1>5 DEF WinOpportunity
  <2>5. QED
    BY <1>1, <1>5, <2>1, <2>2, <2>3, <2>4 DEF WinOpportunity
<1>6. ASSUME NEW c \in CrmCalls, InvoiceQuote(c) \/ QuoteInvoiced(c) PROVE Goal
  <2>1. \A d \in Calls : Winning(d, q) => Winning(d, q)'
    BY <1>6 DEF InvoiceQuote, QuoteInvoiced, crmVars
  <2>2. QED
    BY <1>1, <1>6, <2>1 DEF InvoiceQuote, QuoteInvoiced, crmVars, crmTables
<1>7. ASSUME NEW c \in CrmCalls, AbortCrm(c) PROVE Goal
  <2>1. acceptance[q] # "halfway" /\ stage' = stage /\ quote' = quote /\ moved' = moved
    BY <1>7 DEF AbortCrm, crmTables
  <2>2. CASE Winning(c, q)
    <3>1. acceptance[q] = "complete"
      BY <1>7, <2>1, <2>2 DEF AbortCrm
    <3>2. QED
      BY <2>1, <3>1 DEF CompletedWon
  <2>3. CASE ~Winning(c, q)
    <3>1. \A d \in Calls : Winning(d, q) => Winning(d, q)'
      BY <1>7, <2>3 DEF AbortCrm
    <3>2. QED
      BY <1>1, <2>1, <3>1
  <2>4. QED
    BY <2>2, <2>3
<1>8. CASE UNCHANGED CrmView
  BY <1>1, <1>8 DEF CrmView, crmVars, crmTables
<1>9. QED
  BY <1>2, <1>3, <1>4, <1>5, <1>6, <1>7, <1>8 DEF CrmNext, CrmStep

\* The invariant holds in every reachable state.
LEMMA CrmInductive == CrmInv /\ [CrmNext]_CrmView => CrmInv'
<1> SUFFICES ASSUME CrmInv, [CrmNext]_CrmView PROVE CrmInv'
  OBVIOUS
<1>1. CrmTypeOK' /\ ConvertingAccepted' /\ CompletedWon'
  BY CrmTypeInductive, ConvertingInductive, CompletedInductive DEF CrmInv
<1>2. QuotesInvoicedOnce'
  BY InvoicesInductive, WinningInductive DEF QuotesInvoicedOnce, Winning
<1>3. QED
  BY <1>1, <1>2 DEF CrmInv

LEMMA CrmInvariant == CrmSpec => []CrmInv
  BY CrmInitInv, CrmInductive, PTL DEF CrmSpec, CrmView

\* The columns and the calls of CrmService hold values of their types.
THEOREM CrmTypeCorrect == CrmSpec => []CrmTypeOK
<1>1. CrmInv => CrmTypeOK
  BY DEF CrmInv
<1>2. QED
  BY CrmInvariant, <1>1, PTL

\* acceptQuote and convertQuoteToInvoice (crm.service.ts 72-128) give a quote
\* one invoice and win its opportunity, for any quotes and any number of calls;
\* the exceptions are the quote of which every acceptance that ended failed
\* between its two updates and the opportunity that somebody moved.
THEOREM QuotesAreInvoicedOnce == CrmSpec => []QuotesInvoicedOnce
<1>1. CrmInv => QuotesInvoicedOnce
  BY DEF CrmInv
<1>2. QED
  BY CrmInvariant, <1>1, PTL

(***************************************************************************)
(* One part at work                                                        *)
(***************************************************************************)

LEMMA DocumentsPart ==
  PartsSpec => \/ [](atWork = "documents") /\ DocumentsSpec
               \/ []~(atWork = "documents")
<1>1. PartsInit => DocumentsInit
  BY DEF PartsInit
<1>2. atWork = "documents" /\ [PartsNext]_parts => [DocumentsNext]_DocumentsView
  BY DEF PartsNext, parts, DocumentsView
<1>3. [PartsNext]_parts => (atWork = "documents" <=> (atWork = "documents")')
  BY DEF PartsNext, parts
<1>4. QED
  BY <1>1, <1>2, <1>3, PTL DEF PartsSpec, DocumentsSpec, DocumentsView

LEMMA OrdersPart ==
  PartsSpec => \/ [](atWork = "orders") /\ ProcurementSpec
               \/ []~(atWork = "orders")
<1>1. PartsInit => ProcurementInit
  BY DEF PartsInit
<1>2. atWork = "orders" /\ [PartsNext]_parts => [ProcurementNext]_OrdersView
  BY DEF PartsNext, parts, OrdersView
<1>3. [PartsNext]_parts => (atWork = "orders" <=> (atWork = "orders")')
  BY DEF PartsNext, parts
<1>4. QED
  BY <1>1, <1>2, <1>3, PTL DEF PartsSpec, ProcurementSpec, OrdersView

LEMMA CrmPart ==
  PartsSpec => \/ [](atWork = "crm") /\ CrmSpec
               \/ []~(atWork = "crm")
<1>1. PartsInit => CrmInit
  BY DEF PartsInit
<1>2. atWork = "crm" /\ [PartsNext]_parts => [CrmNext]_CrmView
  BY DEF PartsNext, parts, CrmView
<1>3. [PartsNext]_parts => (atWork = "crm" <=> (atWork = "crm")')
  BY DEF PartsNext, parts
<1>4. QED
  BY <1>1, <1>2, <1>3, PTL DEF PartsSpec, CrmSpec, CrmView

LEMMA ZatcaPart ==
  PartsSpec => \/ [](atWork = "zatca") /\ ZatcaSpec
               \/ []~(atWork = "zatca")
<1>1. PartsInit => ZatcaInit
  BY DEF PartsInit
<1>2. atWork = "zatca" /\ [PartsNext]_parts => [ZatcaNext]_ZatcaView
  BY DEF PartsNext, parts, ZatcaView
<1>3. [PartsNext]_parts => (atWork = "zatca" <=> (atWork = "zatca")')
  BY DEF PartsNext, parts
<1>4. QED
  BY <1>1, <1>2, <1>3, PTL DEF PartsSpec, ZatcaSpec, ZatcaView

\* The instance is the union of its parts: whatever it does, one of the
\* components alone does it, so what is proved of each of the four holds in it.
THEOREM OneDocumentPart ==
  PartsSpec => \/ [](atWork = "documents") /\ DocumentsSpec
               \/ [](atWork = "orders") /\ ProcurementSpec
               \/ [](atWork = "crm") /\ CrmSpec
               \/ [](atWork = "zatca") /\ ZatcaSpec
<1>1. PartsInit => atWork = "documents" \/ atWork = "orders" \/ atWork = "crm" \/ atWork = "zatca"
  BY DEF PartsInit
<1>2. QED
  BY <1>1, DocumentsPart, OrdersPart, CrmPart, ZatcaPart, PTL DEF PartsSpec

\* The part at work keeps its types.
THEOREM DocumentPartsTypeCorrect == PartsSpec => []TypeOK
<1>1. TypeOK <=> /\ (atWork = "documents" => DocumentsTypeOK)
                /\ (atWork = "orders" => ProcurementTypeOK)
                /\ (atWork = "crm" => CrmTypeOK)
                /\ (atWork = "zatca" => ZatcaTypeOK)
  BY DEF TypeOK
<1>2. QED
  BY <1>1, DocumentsPart, OrdersPart, CrmPart, ZatcaPart,
     DocumentsTypeCorrect, ProcurementTypeCorrect, CrmTypeCorrect, ZatcaTypeCorrect, PTL
=============================================================================
