---------------------------- MODULE Negotiation ----------------------------
(***************************************************************************)
(* The haggling over one quote: the operator revises its price, the buyer  *)
(* counters, either side answers or takes the counter back, and an accept  *)
(* by the buyer (of the ask) or the operator (of the counter) ends it,     *)
(* while the RFQ can close, reopen or expire underneath.                   *)
(*                                                                         *)
(* Steps are SQL statements and transactions, as in DealFlow.  A request   *)
(* keeps what its first reads told it (ask, offer) and uses it later.  The *)
(* row lock of reviseQuote is explicit: while it is held no other          *)
(* statement writes the quote row.                                         *)
(*                                                                         *)
(* One RFQ with one quote; what other quotes and requests do to the RFQ    *)
(* row is CloseRfq and ReopenRfq.                                          *)
(***************************************************************************)
EXTENDS Naturals, Sequences

CONSTANTS
    Sessions,    \* requests in flight together
    Prices,      \* prices on offer
    Faults,      \* the failures that can happen, of FaultKinds
    MaxRounds,   \* bound: counter rounds
    MaxOffers    \* bound: no revise starts on a quote that had this many prices

FaultKinds == {"abort", "refused", "torn"}
None == 0        \* no price, no session

ASSUME NegotiationAssumption ==
    /\ Prices \subseteq Nat \ {0}
    /\ Faults \subseteq FaultKinds
    /\ MaxRounds \in Nat /\ MaxOffers \in Nat
    /\ None \notin Sessions

VARIABLES
    live,        \* the RFQ is new, matched or quoted
    status,      \* status of the quote
    price,       \* quotes.amount_minor
    counter,     \* quotes.counter_amount_minor, None without a counter
    rounds,      \* rows of quote_counter_rounds, oldest first
    trail,       \* rows of quote_revisions, oldest first
    offers,      \* history: every price the quote had, oldest first
    deal,        \* the amount the deal's fee was computed on, None without a deal
    lock,        \* the session with the quote row FOR UPDATE, or None
    req,         \* req[s]: the request session s is serving
    sweep        \* the expiry statement in flight

quoteVars == <<status, price, counter, rounds, trail, offers>>
vars == <<live, quoteVars, deal, lock, req, sweep>>

-----------------------------------------------------------------------------
QuoteStates == {"sent", "accepted", "declined", "withdrawn"}
Outcomes == {"open", "answered", "accepted", "expired", "withdrawn", "declined"}
Steps == {"idle", "lock", "write", "counter", "close", "accept", "resolve",
          "rollback", "deal", "unaccept"}

\* offer: the price the request is going to write; ask: the price it read;
\* outcome: how it ends the counter round.
Request == [pc : Steps, ask : Prices \cup {None}, offer : Prices \cup {None},
            outcome : Outcomes]
Task(pc, ask, offer, outcome) ==
    [pc |-> pc, ask |-> ask, offer |-> offer, outcome |-> outcome]
Idle == Task("idle", None, None, "open")

\* The expiry statement: not running, or running on what its snapshot showed.
Snapshot == [on : BOOLEAN, sent : BOOLEAN, rounds : Nat]
NoSweep == [on |-> FALSE, sent |-> FALSE, rounds |-> 0]

At(s, step) == req[s].pc = step
Serve(s, task) == req' = [req EXCEPT ![s] = task]
Goto(s, step) == Serve(s, [req[s] EXCEPT !.pc = step])
Finish(s) == Serve(s, Idle)
GiveBack(s, step) == Serve(s, Task(step, None, None, "open"))

Unlocked == lock = None
IsOpen(i) == rounds[i].outcome = "open"

\* The open rounds among the first n end in an outcome.
ResolveFirst(n, outcome) ==
    rounds' = [i \in DOMAIN rounds |->
                 IF IsOpen(i) /\ i <= n
                 THEN [rounds[i] EXCEPT !.outcome = outcome] ELSE rounds[i]]
Resolve(outcome) == ResolveFirst(Len(rounds), outcome)

Init ==
    /\ live = TRUE
    /\ status = "sent"
    /\ price \in Prices
    /\ counter = None
    /\ rounds = <<>>
    /\ trail = <<>>
    /\ offers = <<price>>
    /\ deal = None
    /\ lock = None
    /\ req = [s \in Sessions |-> Idle]
    /\ sweep = NoSweep

-----------------------------------------------------------------------------
(* POST /quotes/:id/revise, and the first half of /accept-counter.          *)

ReviseCheck(s, p) ==
    /\ At(s, "idle")
    /\ Len(offers) < MaxOffers
    /\ status = "sent"
    /\ Serve(s, Task("lock", None, p, "answered"))
    /\ UNCHANGED <<live, quoteVars, deal, lock, sweep>>

\* The operator takes the counter it read: a revise to the buyer's number.
AcceptCounterCheck(s) ==
    /\ At(s, "idle")
    /\ Len(offers) < MaxOffers
    /\ status = "sent" /\ counter # None /\ live
    /\ Serve(s, Task("lock", None, counter, "accepted"))
    /\ UNCHANGED <<live, quoteVars, deal, lock, sweep>>

\* Mutation of ReviseLock: the terms are read without FOR UPDATE.
ReviseRead(s) ==
    /\ At(s, "lock")
    /\ Serve(s, [req[s] EXCEPT !.pc = "write", !.ask = price])
    /\ UNCHANGED <<live, quoteVars, deal, lock, sweep>>

\* reviseQuote pins the terms it is about to supersede.
ReviseLock(s) ==
    /\ At(s, "lock") /\ Unlocked
    /\ lock' = s
    /\ Serve(s, [req[s] EXCEPT !.pc = "write", !.ask = price])
    /\ UNCHANGED <<live, quoteVars, deal, sweep>>

\* Mutation of ReviseWrite: the UPDATE forgets the quote's status.
ReviseWriteBlind(s) ==
    /\ At(s, "write")
    /\ price' = req[s].offer /\ counter' = None
    /\ trail' = Append(trail, req[s].ask)
    /\ offers' = Append(offers, req[s].offer)
    /\ Resolve(req[s].outcome)
    /\ Finish(s)
    /\ lock' = None
    /\ UNCHANGED <<live, status, deal, sweep>>

\* Mutation of ReviseWrite: the new terms leave the counter on the table.
ReviseWriteKeeps(s) ==
    /\ At(s, "write") /\ status = "sent" /\ live
    /\ price' = req[s].offer
    /\ trail' = Append(trail, req[s].ask)
    /\ offers' = Append(offers, req[s].offer)
    /\ counter' = None
    /\ Finish(s)
    /\ lock' = None
    /\ UNCHANGED <<live, status, rounds, deal, sweep>>

\* The rest of the transaction, under the lock: new terms, no counter, the old
\* terms on the trail, the round ended; nothing if the quote or the RFQ moved.
\* A taken counter goes on to closeDealForQuote with the terms just written.
ReviseWrite(s) ==
    /\ At(s, "write")
    /\ \/ /\ status = "sent" /\ live
          /\ price' = req[s].offer
          /\ counter' = None
          /\ trail' = Append(trail, req[s].ask)
          /\ offers' = Append(offers, req[s].offer)
          /\ Resolve(req[s].outcome)
          /\ \/ /\ req[s].outcome = "accepted"
                /\ Serve(s, Task("close", req[s].offer, None, "accepted"))
             \/ req[s].outcome # "accepted" /\ Finish(s)
       \/ /\ status # "sent" \/ ~ live
          /\ Finish(s)
          /\ UNCHANGED <<price, counter, trail, offers, rounds>>
    /\ lock' = None
    /\ UNCHANGED <<live, status, deal, sweep>>

-----------------------------------------------------------------------------
(* POST and DELETE /quotes/:id/counter, /decline-counter.                   *)

CounterCheck(s, p) ==
    /\ At(s, "idle")
    /\ Len(rounds) < MaxRounds
    /\ status = "sent" /\ counter = None /\ p < price
    /\ Serve(s, Task("counter", None, p, "open"))
    /\ UNCHANGED <<live, quoteVars, deal, lock, sweep>>

\* counterQuote: the counter and its round in one transaction, if the quote is
\* still sent and has no counter.
CounterQuote(s) ==
    /\ At(s, "counter") /\ Unlocked
    /\ \/ /\ status = "sent" /\ counter = None
          /\ counter' = req[s].offer
          /\ rounds' = Append(rounds, [amount |-> req[s].offer, outcome |-> "open"])
       \/ /\ status # "sent" \/ counter # None
          /\ UNCHANGED <<counter, rounds>>
    /\ Finish(s)
    /\ UNCHANGED <<live, status, price, trail, offers, deal, lock, sweep>>

\* clearQuoteCounter: the buyer withdraws it or the operator declines it.
ClearCounter(outcome) ==
    /\ Unlocked
    /\ status = "sent" /\ counter # None
    /\ counter' = None
    /\ Resolve(outcome)
    /\ UNCHANGED <<live, status, price, trail, offers, deal, lock, req, sweep>>

-----------------------------------------------------------------------------
(* POST /quotes/:id/accept and closeDealForQuote.                           *)

AcceptCheck(s) ==
    /\ At(s, "idle")
    /\ status = "sent" /\ live
    /\ Serve(s, Task("close", price, None, "accepted"))
    /\ UNCHANGED <<live, quoteVars, deal, lock, sweep>>

CloseForDeal(s) ==
    /\ At(s, "close")
    /\ \/ live /\ live' = FALSE /\ Goto(s, "accept")
       \/ ~ live /\ Finish(s) /\ UNCHANGED live
    /\ UNCHANGED <<quoteVars, deal, lock, sweep>>

\* setQuoteStatus: the flip, then the rounds in a statement of its own.
AcceptQuote(s) ==
    /\ At(s, "accept") /\ Unlocked
    /\ \/ status = "sent" /\ status' = "accepted" /\ Goto(s, "resolve")
       \/ status # "sent" /\ GiveBack(s, "rollback") /\ UNCHANGED status
    /\ UNCHANGED <<live, price, counter, rounds, trail, offers, deal, lock, sweep>>

ResolveCounterRounds(s) ==
    /\ At(s, "resolve")
    /\ Resolve(req[s].outcome)
    /\ IF req[s].outcome = "accepted" THEN Goto(s, "deal") ELSE Finish(s)
    /\ UNCHANGED <<live, status, price, counter, trail, offers, deal, lock, sweep>>

\* The rollbacks find the RFQ closed, or live again by a reopen.
Rollback(s) ==
    /\ At(s, "rollback")
    /\ live' = TRUE
    /\ Finish(s)
    /\ UNCHANGED <<quoteVars, deal, lock, sweep>>

\* createDeal, with the fee on the amount the request brought along; the faults
\* are those of DealFlow.
CreateDeal(s) ==
    /\ At(s, "deal")
    /\ \/ deal # None /\ Finish(s) /\ UNCHANGED deal
       \/ deal = None /\ deal' = req[s].ask /\ Finish(s)
       \/ deal = None /\ "refused" \in Faults /\ GiveBack(s, "unaccept") /\ UNCHANGED deal
       \/ deal = None /\ "torn" \in Faults /\ GiveBack(s, "unaccept") /\ deal' = req[s].ask
    /\ UNCHANGED <<live, quoteVars, lock, sweep>>

UnacceptQuote(s) ==
    /\ At(s, "unaccept") /\ Unlocked
    /\ \/ status = "accepted" /\ status' = "sent" /\ Goto(s, "rollback")
       \/ status # "accepted" /\ Finish(s) /\ UNCHANGED status
    /\ UNCHANGED <<live, price, counter, rounds, trail, offers, deal, lock, sweep>>

-----------------------------------------------------------------------------
(* The other ways out, and the RFQ underneath.                              *)

\* Mutation of LeaveSent: the outcome of the round is written as the status.
LeaveSentExpired(s, new) ==
    /\ At(s, "idle") /\ Unlocked
    /\ status = "sent"
    /\ status' = "expired"
    /\ Serve(s, Task("resolve", None, None, "expired"))
    /\ UNCHANGED <<live, price, counter, rounds, trail, offers, deal, lock, sweep>>

\* decline, withdraw, the decline loops: setQuoteStatus again.
LeaveSent(s, new) ==
    /\ At(s, "idle") /\ Unlocked
    /\ status = "sent"
    /\ status' = new
    /\ Serve(s, Task("resolve", None, None, "expired"))
    /\ UNCHANGED <<live, price, counter, rounds, trail, offers, deal, lock, sweep>>

CloseRfq ==
    /\ live /\ live' = FALSE
    /\ UNCHANGED <<quoteVars, deal, lock, req, sweep>>

ReopenRfq ==
    /\ ~ live /\ live' = TRUE
    /\ UNCHANGED <<quoteVars, deal, lock, req, sweep>>

\* The expiry statement takes its snapshot ...
ExpireStart ==
    /\ ~ sweep.on /\ live
    /\ sweep' = [on |-> TRUE, sent |-> status = "sent", rounds |-> Len(rounds)]
    /\ UNCHANGED <<live, quoteVars, deal, lock, req>>

\* ... and commits once the rows it writes are free: the RFQ and the quote are
\* checked again on their latest versions, the rounds are those of the snapshot.
ExpireCommit ==
    /\ sweep.on /\ Unlocked
    /\ sweep' = NoSweep
    /\ live' = FALSE
    /\ IF live /\ sweep.sent /\ status = "sent"
       THEN status' = "declined" /\ ResolveFirst(sweep.rounds, "expired")
       ELSE UNCHANGED <<status, rounds>>
    /\ UNCHANGED <<price, counter, trail, offers, deal, lock, req>>

\* A repo call throws or the process dies; a transaction that is open rolls back.
Abort(s) ==
    /\ "abort" \in Faults /\ ~ At(s, "idle")
    /\ Finish(s)
    /\ lock' = IF lock = s THEN None ELSE lock
    /\ UNCHANGED <<live, quoteVars, deal, sweep>>

-----------------------------------------------------------------------------
Haggling(s) ==
    \/ \E p \in Prices : ReviseCheck(s, p) \/ CounterCheck(s, p)
    \/ AcceptCounterCheck(s)
    \/ ReviseLock(s) \/ ReviseWrite(s) \/ CounterQuote(s)

Closing(s) ==
    \/ AcceptCheck(s) \/ CloseForDeal(s) \/ AcceptQuote(s) \/ ResolveCounterRounds(s)
    \/ Rollback(s) \/ CreateDeal(s) \/ UnacceptQuote(s)
    \/ \E new \in {"declined", "withdrawn"} : LeaveSent(s, new)

Next ==
    \/ \E s \in Sessions : Haggling(s) \/ Closing(s) \/ Abort(s)
    \/ \E outcome \in {"withdrawn", "declined"} : ClearCounter(outcome)
    \/ CloseRfq \/ ReopenRfq \/ ExpireStart \/ ExpireCommit

Spec == Init /\ [][Next]_vars
-----------------------------------------------------------------------------
(* Properties.                                                              *)

\* Every variable has a value of its domain, and a request that is about to
\* write a price has one (and, for a revise, an answer to the round).
ReqType ==
    /\ req \in [Sessions -> Request]
    /\ \A s \in Sessions :
         /\ req[s].pc \in {"lock", "write", "counter"} => req[s].offer \in Prices
         /\ req[s].pc \in {"lock", "write"} => req[s].outcome \in {"answered", "accepted"}
         /\ req[s].pc = "write" => req[s].ask \in Prices
TypeOK ==
    /\ live \in BOOLEAN
    /\ status \in QuoteStates
    /\ price \in Prices
    /\ counter \in Prices \cup {None}
    /\ rounds \in Seq([amount : Prices, outcome : Outcomes])
    /\ trail \in Seq(Prices)
    /\ offers \in Seq(Prices)
    /\ deal \in Prices \cup {None}
    /\ lock \in Sessions \cup {None}
    /\ ReqType
    /\ sweep \in Snapshot

\* QA-530, the revision trail: however revises race, the trail is the prices
\* the quote had before its current one, each once and in order.
TrailComplete == offers = Append(trail, price)

\* QA-530, FOR UPDATE: the terms a revise is about to log are still the quote's,
\* because nobody else writes the row; it makes TrailComplete inductive.
Pinned ==
    \A s \in Sessions : At(s, "write") => lock = s /\ req[s].ask = price

\* The trail and the lock that keeps it.
TrailPinned == TrailComplete /\ Pinned

\* QA-522, the audit of counters: at most one round is open, and it is the
\* counter on the table.
OpenRoundOnTable ==
    /\ \A i, j \in DOMAIN rounds : IsOpen(i) /\ IsOpen(j) => i = j
    /\ \A i \in DOMAIN rounds : IsOpen(i) => counter = rounds[i].amount

\* QA-439, the revise is gated on a sent quote and takes the row lock before:
\* no revise that was on its way when the quote was accepted changes its price.
AcceptedTermsStand ==
    [][status = "accepted" => price' = price]_vars

\* The deal's fee is computed on the price the deal stands at
\* (accept/route.ts:84, "agreed price is the quoted amount here").
FeeOnAgreedPrice == deal # None => deal = price

\* counter/route.ts:78, a withdrawn counter does not "sit as the negotiated
\* price": a revise to the buyer's number needs the number on the table.
TakesLiveCounter ==
    [][\A s \in Sessions :
         ReviseWrite(s) /\ price' # price /\ req[s].outcome = "accepted"
           => counter = req[s].offer]_vars
=============================================================================
