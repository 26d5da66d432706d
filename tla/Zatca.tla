-------------------------------- MODULE Zatca --------------------------------
(***************************************************************************)
(* The chain of invoice hashes.  InvoicesService.approve gives an invoice  *)
(* a uuid and a previous hash; ZatcaService.generateZatcaData replaces     *)
(* that hash by the one of the last submitted invoice and hashes the XML   *)
(* that contains it; submitToZatca sends it and sets the final status.     *)
(* Each reads the invoice, works, and updates it by id.                    *)
(*                                                                         *)
(* A hash is the record of what it covers.                                 *)
(***************************************************************************)
EXTENDS Naturals, Sequences, FiniteSets, Requests, FiniteSetsExt

CONSTANTS
  ZatcaCalls,
  Issued       \* invoices in the order of createdAt: 1..Issued

ASSUME ZatcaAssumption ==
  /\ ZatcaCalls \subseteq Calls
  /\ Issued \in Nat \ {0}

Invoices == 1..Issued

\* Cleared and Reported depend on the customer and nothing tells them apart
\* later, so they are one.  Nothing sets Failed.
ZatcaStatuses == {"NotSubmitted", "Submitted"}

None == [kind |-> "none"]           \* a null column
Genesis == [kind |-> "genesis"]     \* the constants for no previous invoice
Uuid(c) == [kind |-> "uuid", by |-> c]
MockHash(u) == [kind |-> "mock", of |-> u]
XmlHash(i, u, link) == [kind |-> "xml", number |-> i, uuid |-> u, previous |-> link]

VARIABLES
  approved,  \* invoices whose status is Approved
  uuid,      \* zatcaUuid: the call that drew it, or None
  pih,       \* zatcaPih
  hash,      \* zatcaHash, None until zatcaXml is generated
  zatca,     \* zatcaStatus
  work,      \* what a call does, to which invoice
  read,      \* uuid and hash of the invoice as the call read it
  previous,  \* the previous hash a call has read, and after how many
             \* submissions
  sent,      \* history: the requests to the authority
  submissions,     \* history: the invoices in the order they were submitted in
  after,     \* history: how many were when the predecessor of a generated
             \* hash was read
  spoiled    \* history: invoices written by a stale call, approved after they
             \* were generated, or sent by a call that failed or overlapped

zatcaTables == <<approved, uuid, pih, hash, zatca>>
zatcaCallVars == <<work, read, previous>>
zatcaHistory == <<sent, submissions, after, spoiled>>
zatcaVars == <<zatcaTables, zatcaCallVars, zatcaHistory>>

Works == [do: {"approve", "generate", "submit"}, invoice: Invoices]
NothingRead == [uuid |-> None, hash |-> None]
NoPrevious == [hash |-> None, after |-> 0]

ZatcaInit ==
  /\ RequestsInit
  /\ approved = {}
  /\ uuid = [i \in Invoices |-> None]
  /\ pih = [i \in Invoices |-> None]
  /\ hash = [i \in Invoices |-> None]
  /\ zatca = [i \in Invoices |-> "NotSubmitted"]
  /\ work = [c \in Calls |-> [do |-> "approve", invoice |-> 1]]
  /\ read = [c \in Calls |-> NothingRead]
  /\ previous = [c \in Calls |-> NoPrevious]
  /\ sent = {}
  /\ submissions = <<>>
  /\ after = [i \in Invoices |-> 0]
  /\ spoiled = {}

EndZatca(c, l) ==
  /\ Goto(c, l)
  /\ read' = [read EXCEPT ![c] = NothingRead]
  /\ previous' = [previous EXCEPT ![c] = NoPrevious]
  /\ UNCHANGED work

\* c updates its invoice by id: others that read it are out of date.
Rewrite(c) ==
  /\ Outdate(c, {d \in Calls : work[d].invoice = work[c].invoice})
  /\ EndZatca(c, "done")

Spoil(c, also) ==
  spoiled' = IF c \in stale \/ also THEN spoiled \cup {work[c].invoice} ELSE spoiled

Begin(c, do, i) ==
  /\ pc[c] = "idle"
  /\ work' = [work EXCEPT ![c] = [do |-> do, invoice |-> i]]
  /\ read' = [read EXCEPT ![c] = [uuid |-> uuid[i], hash |-> hash[i]]]
  /\ Goto(c, do)
  /\ UNCHANGED <<zatcaTables, previous, zatcaHistory, stale>>

(***************************************************************************)
(* approve                                                                 *)
(***************************************************************************)
BeginApprove(c, i) == i \notin approved /\ Begin(c, "approve", i)

\* getPreviousInvoiceHash: of the newest invoice that has a previous hash, the
\* invoice itself included if it was generated as a draft.
ReadUuid(c) ==
  LET chained == {i \in Invoices : pih[i] # None}
      found == IF chained = {} THEN Genesis ELSE MockHash(uuid[Max(chained)])
  IN  /\ pc[c] = "approve"
      /\ previous' = [previous EXCEPT ![c].hash = found]
      /\ Goto(c, "linked")
      /\ UNCHANGED <<zatcaTables, work, read, zatcaHistory, stale>>

\* The update resets zatcaStatus, whatever it was.
FinishApprove(c) ==
  LET i == work[c].invoice
  IN  /\ pc[c] = "linked" /\ work[c].do = "approve"
      /\ approved' = approved \cup {i}
      /\ uuid' = [uuid EXCEPT ![i] = Uuid(c)]
      /\ pih' = [pih EXCEPT ![i] = previous[c].hash]
      /\ zatca' = [zatca EXCEPT ![i] = "NotSubmitted"]
      /\ Spoil(c, hash[i] # None)
      /\ Rewrite(c)
      /\ UNCHANGED <<hash, sent, submissions, after>>

(***************************************************************************)
(* generateZatcaData                                                       *)
(***************************************************************************)
\* A likely mistake: without the check of zatcaStatus.
BeginGenerateAgain(c, i) == Begin(c, "generate", i)

BeginGenerate(c, i) == zatca[i] = "NotSubmitted" /\ Begin(c, "generate", i)

\* The hash of the newest invoice of S, newest by creation.
LinkTo(S) == IF S = {} THEN Genesis ELSE hash[Max(S)]

\* A likely mistake: the newest invoice that has a hash.
LastGenerated == LinkTo({i \in Invoices : hash[i] # None})

LastSubmitted == LinkTo({i \in Invoices : zatca[i] = "Submitted"})

ReadPrevious(c) ==
  /\ pc[c] = "generate"
  /\ previous' = [previous EXCEPT ![c] =
                    [hash |-> LastSubmitted, after |-> Len(submissions)]]
  /\ Goto(c, "linked")
  /\ UNCHANGED <<zatcaTables, work, read, zatcaHistory, stale>>

\* A likely mistake: the row keeps the previous hash that approve gave it.
SaveXmlAlone(c) ==
  LET i == work[c].invoice
  IN  /\ pc[c] = "linked" /\ work[c].do = "generate"
      /\ hash' = [hash EXCEPT ![i] = XmlHash(i, read[c].uuid, previous[c].hash)]
      /\ after' = [after EXCEPT ![i] = previous[c].after]
      /\ Spoil(c, FALSE)
      /\ Rewrite(c)
      /\ UNCHANGED <<approved, uuid, pih, zatca, sent, submissions>>

\* The XML names number, uuid as read and previous hash; hash and previous
\* hash are saved.
SaveXml(c) ==
  LET i == work[c].invoice
  IN  /\ pc[c] = "linked" /\ work[c].do = "generate"
      /\ hash' = [hash EXCEPT ![i] = XmlHash(i, read[c].uuid, previous[c].hash)]
      /\ pih' = [pih EXCEPT ![i] = previous[c].hash]
      /\ after' = [after EXCEPT ![i] = previous[c].after]
      /\ Spoil(c, FALSE)
      /\ Rewrite(c)
      /\ UNCHANGED <<approved, uuid, zatca, sent, submissions>>

(***************************************************************************)
(* submitToZatca                                                           *)
(***************************************************************************)
BeginSubmit(c, i) ==
  hash[i] # None /\ zatca[i] = "NotSubmitted" /\ Begin(c, "submit", i)

\* The authority is asked; any answer, or none, counts as a success.
SendXml(c) ==
  LET i == work[c].invoice
  IN  /\ pc[c] = "submit"
      /\ sent' = sent \cup {[call |-> c, invoice |-> i, hash |-> read[c].hash]}
      /\ Goto(c, "sent")
      /\ Spoil(c, \E d \in Calls : pc[d] = "sent" /\ work[d].invoice = i)
      /\ UNCHANGED <<zatcaTables, zatcaCallVars, submissions, after, stale>>

FinishSubmit(c) ==
  LET i == work[c].invoice
  IN  /\ pc[c] = "sent"
      /\ zatca' = [zatca EXCEPT ![i] = "Submitted"]
      /\ submissions' = Append(submissions, i)
      /\ Spoil(c, FALSE)
      /\ Rewrite(c)
      /\ UNCHANGED <<approved, uuid, pih, hash, sent, after>>

\* A refused journal entry, a crash, a lost connection.
AbortZatca(c) ==
  /\ InFlight(c)
  /\ Spoil(c, pc[c] = "sent")
  /\ EndZatca(c, "failed")
  /\ UNCHANGED <<zatcaTables, sent, submissions, after, stale>>

ZatcaStep(c) ==
  \/ ReadUuid(c) \/ FinishApprove(c)
  \/ ReadPrevious(c) \/ SaveXml(c)
  \/ SendXml(c) \/ FinishSubmit(c)

ZatcaNext ==
  \E c \in ZatcaCalls :
    \/ \E i \in Invoices : BeginApprove(c, i) \/ BeginGenerate(c, i) \/ BeginSubmit(c, i)
    \/ ZatcaStep(c)
    \/ AbortZatca(c)

ZatcaSpec == ZatcaInit /\ [][ZatcaNext]_<<zatcaVars, pc, stale>>

-----------------------------------------------------------------------------

\* The columns and the calls hold values of their types.
ZatcaTypeOK ==
  /\ approved \subseteq Invoices
  /\ zatca \in [Invoices -> ZatcaStatuses]
  /\ work \in [Calls -> Works]
  /\ after \in [Invoices -> Nat]
  /\ submissions \in Seq(Invoices)
  /\ spoiled \subseteq Invoices
  /\ pc \in [Calls -> {"idle", "approve", "generate", "linked", "submit", "sent",
                       "done", "failed"}]
  /\ \A i \in Invoices : (zatca[i] = "Submitted" => hash[i] # None)
                         /\ (hash[i] # None => pih[i] # None)

\* The row of an invoice, and the document its hash stands for, name the same
\* previous hash.  If the invoice was generated after all earlier submissions,
\* that is the hash of the newest, by creation, of the invoices submitted until
\* then: of the one before it, as long as invoices are submitted in the order
\* they were created in.  (Spoiled ones excepted, on either end of the link.)
SubmittedChain ==
  \A k \in DOMAIN submissions :
    LET i == submissions[k]
        earlier == {submissions[j] : j \in 1..(k - 1)}
    IN  /\ i \notin spoiled => pih[i] = hash[i].previous
        /\ after[i] = k - 1 /\ ({i} \cup earlier) \cap spoiled = {}
             => hash[i].previous = LinkTo(earlier)

\* The authority hears of an invoice once, and of the document that is kept:
\* generating, approving and submitting again leave what was submitted alone,
\* unless the invoice is spoiled.
SubmittedIsFinal ==
  \A i \in Invoices \ spoiled :
    /\ Cardinality({m \in sent : m.invoice = i}) <= 1
    /\ zatca[i] = "Submitted" =>
         \E m \in sent : m.invoice = i /\ m.hash = hash[i]
=============================================================================
