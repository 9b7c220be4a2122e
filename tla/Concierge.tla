------------------------------ MODULE Concierge ------------------------------
(***************************************************************************)
(* A buyer pays once to have a request delivered without delay:            *)
(* POST /api/rfqs/[id]/concierge opens a payment session at the provider,  *)
(* the provider's event, delivered at least once, flips the request's paid *)
(* flag and releases its delayed matches (lib/concierge.ts, expediteRfq).  *)
(*                                                                         *)
(* The fan-out is one step here (Fanout splits it), and so is the end of   *)
(* the request.                                                            *)
(***************************************************************************)
EXTENDS Naturals

CONSTANTS
    Sessions,      \* payment sessions the buyer can open
    Targets,       \* operators the request fans out to
    MaxLost        \* bound: events whose handler dies half way

ASSUME ConciergeAssumption == MaxLost \in Nat

VARIABLES
    request,       \* "open" before its fan-out, "matched", "closed"
    expedited,     \* rfqs.concierge
    match,         \* match[o]: "none", "delayed" or "pending"
    session,       \* session[s]: "none", "open", or "paid" at the provider
    event,         \* event[s]: what the handler of s's event is about to do
    jobs,          \* jobs[o]: notifications the expedite enqueued for o
    receipts,      \* receipts mailed
    lost           \* handlers that died

conciergeVars == <<request, expedited, match, session, event, jobs, receipts, lost>>

-----------------------------------------------------------------------------
ConciergeInit ==
    /\ request = "open"
    /\ expedited = FALSE
    /\ match = [o \in Targets |-> "none"]
    /\ session = [s \in Sessions |-> "none"]
    /\ event = [s \in Sessions |-> "idle"]
    /\ jobs = [o \in Targets |-> 0]
    /\ receipts = 0
    /\ lost = 0

\* The route: not paid, live, and, once fanned out, something left to release.
OpenSession(s) ==
    /\ session[s] = "none"
    /\ ~expedited /\ request # "closed"
    /\ request = "matched" => \E o \in Targets : match[o] = "delayed"
    /\ session' = [session EXCEPT ![s] = "open"]
    /\ UNCHANGED <<request, expedited, match, event, jobs, receipts, lost>>

\* The buyer pays on the provider's page; nobody asks the route again.
Pay(s) ==
    /\ session[s] = "open"
    /\ session' = [session EXCEPT ![s] = "paid"]
    /\ UNCHANGED <<request, expedited, match, event, jobs, receipts, lost>>

\* Mutation of Expedite: the update does not ask for the flag.
ExpediteAgain(s) ==
    /\ session[s] = "paid" /\ event[s] = "idle"
    /\ request # "closed"
    /\ expedited' = TRUE
    /\ match' = [o \in Targets |-> IF match[o] = "delayed" THEN "pending" ELSE match[o]]
    /\ jobs' = [o \in Targets |-> jobs[o] + IF match[o] = "delayed" THEN 1 ELSE 0]
    /\ event' = [event EXCEPT ![s] = "receipt"]
    /\ UNCHANGED <<request, session, receipts, lost>>

\* The event, the first time or again: expediteRfq flips a live, unpaid request
\* and releases its matches in one transaction; otherwise nothing applies.  The
\* release's jobs follow.
Expedite(s) ==
    /\ session[s] = "paid" /\ event[s] = "idle"
    /\ ~expedited /\ request # "closed"
    /\ expedited' = TRUE
    /\ match' = [o \in Targets |-> IF match[o] = "delayed" THEN "pending" ELSE match[o]]
    /\ jobs' = [o \in Targets |-> jobs[o] + IF match[o] = "delayed" THEN 1 ELSE 0]
    /\ event' = [event EXCEPT ![s] = "receipt"]
    /\ UNCHANGED <<request, session, receipts, lost>>

\* The receipt; a handler that dies before it is not made up for, the event
\* delivered again finds the flag set.
MailReceipt(s) ==
    /\ event[s] = "receipt"
    /\ receipts' = receipts + 1
    /\ event' = [event EXCEPT ![s] = "idle"]
    /\ UNCHANGED <<request, expedited, match, session, jobs, lost>>

HandlerDies(s) ==
    /\ event[s] = "receipt" /\ lost < MaxLost
    /\ event' = [event EXCEPT ![s] = "idle"]
    /\ lost' = lost + 1
    /\ UNCHANGED <<request, expedited, match, session, jobs, receipts>>

\* rfqFanout: free operators wait, all of them go out at once on a paid request.
FanOut ==
    /\ request = "open"
    /\ request' = "matched"
    /\ \E waits \in SUBSET Targets :
         match' = [o \in Targets |-> IF o \in waits /\ ~expedited THEN "delayed" ELSE "pending"]
    /\ UNCHANGED <<expedited, session, event, jobs, receipts, lost>>

DelayPasses(o) ==
    /\ match[o] = "delayed"
    /\ match' = [match EXCEPT ![o] = "pending"]
    /\ UNCHANGED <<request, expedited, session, event, jobs, receipts, lost>>

CloseRequest ==
    /\ request # "closed"
    /\ request' = "closed"
    /\ UNCHANGED <<expedited, match, session, event, jobs, receipts, lost>>

ConciergeNext ==
    \/ \E s \in Sessions : \/ OpenSession(s) \/ Pay(s) \/ Expedite(s)
                           \/ MailReceipt(s) \/ HandlerDies(s)
    \/ \E o \in Targets : DelayPasses(o)
    \/ FanOut \/ CloseRequest

ConciergeSpec == ConciergeInit /\ [][ConciergeNext]_conciergeVars

-----------------------------------------------------------------------------
\* The variables keep to their domains.
ConciergeTypeOK ==
    /\ request \in {"open", "matched", "closed"}
    /\ expedited \in BOOLEAN
    /\ match \in [Targets -> {"none", "delayed", "pending"}]
    /\ session \in [Sessions -> {"none", "open", "paid"}]
    /\ event \in [Sessions -> {"idle", "receipt"}]
    /\ jobs \in [Targets -> Nat]
    /\ receipts \in Nat
    /\ lost \in 0 .. MaxLost

\* However often the provider repeats an event and however many sessions were
\* paid, an operator is announced once and the buyer has one receipt ("a replayed
\* webhook can't re-notify", lib/concierge.ts).
ExpeditedOnce ==
    /\ \A o \in Targets : jobs[o] <= 1
    /\ receipts + lost <= 1

\* The buyer is charged once ("a double-clicked upsell can't charge twice",
\* lib/concierge.ts).
ChargedOnce == \A s, t \in Sessions : session[s] = "paid" /\ session[t] = "paid" => s = t
=============================================================================
