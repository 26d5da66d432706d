------------------------------ MODULE Requests -------------------------------
(***************************************************************************)
(* What the services share: a request runs as a chain of statements        *)
(* between which any other request may run.  Node.js gives no more than    *)
(* that, and outside a transaction neither does PostgreSQL.                *)
(***************************************************************************)
CONSTANT Calls   \* requests and event handlers

VARIABLES
  pc,      \* where each call stands
  stale    \* history: calls since whose first read another one wrote

Goto(c, l) == pc' = [pc EXCEPT ![c] = l]

Ended(c) == pc[c] \in {"done", "failed"}
InFlight(c) == pc[c] # "idle" /\ ~Ended(c)

\* c writes what the calls in S work on.
Outdate(c, S) == stale' = stale \cup {d \in S \ {c} : InFlight(d)}

RequestsInit ==
  /\ pc = [c \in Calls |-> "idle"]
  /\ stale = {}

\* Whatever calls wait for, they all come to an end.  (There are finitely many
\* in an instance and each is made once.)
CallsEnd == []<>(\A c \in Calls : ~InFlight(c))
=============================================================================
