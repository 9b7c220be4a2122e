----------------------------- MODULE BuyerInbox -----------------------------
(***************************************************************************)
(* The buyer's page of requests and offers (quotes/page.tsx) against the   *)
(* routes its buttons post to.  One request, one offer per bidder.         *)
(*                                                                         *)
(* For every button, Shows... is the condition under which the page        *)
(* renders it and Takes... the guard of its route; the action is the       *)
(* handler: it posts, and on a refusal it only prints the error.  A page   *)
(* may be arbitrarily old when it is clicked, so a click may arrive in any *)
(* state and the routes alone decide; what the page itself decides is      *)
(* stated of a page that shows the rows as they are (BuyerButtonsWork).    *)
(* Authorisation, rate limits, mail and prices are left out; asks are      *)
(* above the smallest amount, so that a lower counter exists.              *)
(***************************************************************************)
EXTENDS Naturals, FiniteSets

CONSTANTS
    Bidders,       \* the operators that may quote on the request
    Owner,         \* the one the request's listing belongs to
    MaxTurns       \* how often the world outside the two inboxes changes

ASSUME OwnerBids == Owner \in Bidders

VARIABLES
    request,       \* the request's row
    offer,         \* one quote per bidder, the latest
    deal,          \* the deal on a bidder's accepted quote
    flagged,       \* the buyer's open flags, on offers and on deals
    ground,        \* the listing, the suspended bidders, the mailbox's block
    reopened,      \* history: the request was reopened
    turns

inboxVars == <<request, offer, deal, flagged, ground, reopened, turns>>

\* rfqDeadlineAt against the two clocks that read it: "soon" is before the start
\* of today plus eight days, "edge" lies between that and this moment plus eight
\* days, "far" beyond both.
Horizons == {"lapsed", "soon", "edge", "far"}
LiveRfq == {"open", "matched", "quoted"}
Live == request.status \in LiveRfq

NoOffer == [status |-> "none", countered |-> FALSE]
NoDealYet == [invoice |-> "none", rated |-> FALSE]
Sent(b) == offer[b].status = "sent"
SentBids == {b \in Bidders : Sent(b)}

InboxInit ==
    /\ request \in [status : {"open"}, paused : {FALSE}, horizon : {"soon", "far"},
                    concierge : {FALSE}, waiting : {FALSE}]
    /\ offer = [b \in Bidders |-> NoOffer]
    /\ deal = [b \in Bidders |-> NoDealYet]
    /\ flagged = {}
    /\ ground \in [listing : {"up", "dated"}, suspended : {{}}, blocked : {FALSE}]
    /\ reopened = FALSE
    /\ turns = 0

\* setQuoteStatus is a compare-and-set: of a batch those flip that are still sent.
Leave(bids, to) ==
    [b \in Bidders |->
        IF b \in bids /\ Sent(b) THEN [status |-> to, countered |-> FALSE] ELSE offer[b]]

-----------------------------------------------------------------------------
(* What the page shows, of the rows the inbox answered.                     *)

Unavailable(b) == b \in ground.suspended
Browseable == ground.listing = "up"
\* The mailbox's open flags; the page takes them over at every load.
WasReported(what, b) == <<what, b>> \in flagged

\* An offer on the table can be taken, countered or declined; of a suspended
\* operator's only the decline is left.
ShowsAccept(b) == Sent(b) /\ Live /\ ~Unavailable(b)
ShowsCounter(b) == Sent(b) /\ Live /\ ~Unavailable(b) /\ ~offer[b].countered
ShowsDecline(b) == Sent(b) /\ Live
ShowsWithdrawCounter(b) == Sent(b) /\ offer[b].countered
ShowsDeclineAll == Live /\ Cardinality(SentBids) >= 2
ShowsClose == Live
ShowsPause(on) == Live /\ request.paused # on
ShowsEdit == Live
ShowsExtend == Live /\ request.horizon # "far"
ShowsConcierge == Live /\ ~request.concierge
DealStands(b) == offer[b].status = "accepted" /\ deal[b].invoice \notin {"none", "void"}
ShowsRate(b) == DealStands(b) /\ ~deal[b].rated
ShowsReportDeal(b) == DealStands(b) /\ ~WasReported("deal", b)
ShowsReport(b) == offer[b] # NoOffer /\ ~WasReported("offer", b)
ShowsRepost == ~Live /\ Browseable

-----------------------------------------------------------------------------
(* What the routes take.                                                    *)

\* The listing behind a deal must still be on the market; only the owner's own
\* quote dies with the date of a one-off.
Sellable(b) == ground.listing = "up" \/ (ground.listing = "dated" /\ b # Owner)
TakesAccept(b) == Live /\ Sent(b) /\ Sellable(b) /\ b \notin ground.suspended
TakesDecline(b) == Sent(b)
TakesDeclineAll == SentBids # {}
TakesCounter(b) == Sent(b) /\ ~offer[b].countered
TakesWithdrawCounter(b) == Sent(b) /\ offer[b].countered
TakesClose == Live
TakesPause(on) == IF on THEN Live /\ ~request.paused ELSE request.paused
TakesAmend == Live
TakesExtend == request.horizon \in {"lapsed", "soon"} /\ Live
TakesConcierge == ~request.concierge /\ Live /\ (request.status = "open" \/ request.waiting)
TakesRate(b) == deal[b].invoice \notin {"none", "void"} /\ ~deal[b].rated
TakesReport(b) == offer[b] # NoOffer /\ ~ground.blocked /\ <<"offer", b>> \notin flagged
TakesReportDeal(b) == deal[b].invoice # "none" /\ ~ground.blocked /\ <<"deal", b>> \notin flagged
TakesRfq == ground.listing = "up" /\ Owner \notin ground.suspended /\ ~ground.blocked

-----------------------------------------------------------------------------
(* The handlers.                                                            *)

\* The whole of closeDeal: its steps, races and failures are DealFlow's.
Accept(b) ==
    /\ TakesAccept(b)
    /\ request' = [request EXCEPT !.status = "closed"]
    /\ offer' = [Leave(Bidders, "declined") EXCEPT ![b] = [status |-> "accepted", countered |-> FALSE]]
    /\ deal' = [deal EXCEPT ![b].invoice = "open"]
    /\ ground' \in {ground} \cup
         (IF b = Owner THEN {[ground EXCEPT !.listing = "gone"]} ELSE {})
    /\ UNCHANGED <<flagged, reopened, turns>>

Decline(b) ==
    /\ TakesDecline(b)
    /\ offer' = Leave({b}, "declined")
    /\ UNCHANGED <<request, deal, flagged, ground, reopened, turns>>

DeclineAll ==
    /\ TakesDeclineAll
    /\ offer' = Leave(Bidders, "declined")
    /\ UNCHANGED <<request, deal, flagged, ground, reopened, turns>>

MakeCounter(b) ==
    /\ TakesCounter(b)
    /\ offer' = [offer EXCEPT ![b].countered = TRUE]
    /\ UNCHANGED <<request, deal, flagged, ground, reopened, turns>>

WithdrawCounter(b) ==
    /\ TakesWithdrawCounter(b)
    /\ offer' = [offer EXCEPT ![b].countered = FALSE]
    /\ UNCHANGED <<request, deal, flagged, ground, reopened, turns>>

\* The close flips the row first and declines what is sent at that moment; a
\* handler that dies between, or an offer inserted after, leaves sent quotes.
CloseRequest(finishes) ==
    /\ TakesClose
    /\ request' = [request EXCEPT !.status = "closed"]
    /\ offer' = IF finishes THEN Leave(Bidders, "declined") ELSE offer
    /\ UNCHANGED <<deal, flagged, ground, reopened, turns>>

Pause(on) ==
    /\ TakesPause(on)
    /\ request' = [request EXCEPT !.paused = on]
    /\ UNCHANGED <<offer, deal, flagged, ground, reopened, turns>>

\* Whatever dates the form holds.
Amend(h) ==
    /\ TakesAmend
    /\ request' = [request EXCEPT !.horizon = h]
    /\ UNCHANGED <<offer, deal, flagged, ground, reopened, turns>>

\* dateTo becomes today plus seven days: the request closes at the start of
\* today plus eight.
Extend ==
    /\ TakesExtend
    /\ request' = [request EXCEPT !.horizon = "edge"]
    /\ UNCHANGED <<offer, deal, flagged, ground, reopened, turns>>

BuyConcierge ==
    /\ TakesConcierge
    /\ request' = [request EXCEPT !.concierge = TRUE, !.waiting = FALSE]
    /\ UNCHANGED <<offer, deal, flagged, ground, reopened, turns>>

Rate(b) ==
    /\ TakesRate(b)
    /\ deal' = [deal EXCEPT ![b].rated = TRUE]
    /\ UNCHANGED <<request, offer, flagged, ground, reopened, turns>>

Report(what, b) ==
    /\ IF what = "offer" THEN TakesReport(b) ELSE TakesReportDeal(b)
    /\ flagged' = flagged \cup {<<what, b>>}
    /\ UNCHANGED <<request, offer, deal, ground, reopened, turns>>

-----------------------------------------------------------------------------
(* The buttons that the page shows although their route refuses them.       *)

\* An extension puts the deadline on the edge itself, and there the page, which
\* counts eight days from this moment, still offers what the route, which counts
\* from midnight, refuses.
DeadExtend == request.horizon = "edge"
\* The card knows nothing of the listing an accept would sell from.  A listing
\* that ends takes its live requests along, so what is left is the owner's quote
\* on a one-off whose date has passed, and a request reopened after the end.
DeadAccept(b) == (ground.listing = "dated" /\ b = Owner) \/ (ground.listing = "gone" /\ reopened)
\* Every match is delivered: there is nothing left to expedite.
DeadConcierge == request.status # "open" /\ ~request.waiting
DeadReport == ground.blocked
DeadRepost == Owner \in ground.suspended \/ ground.blocked

BuyerButtonsWork ==
    /\ \A b \in Bidders :
         /\ ShowsAccept(b) => TakesAccept(b) \/ DeadAccept(b)
         /\ ShowsCounter(b) => TakesCounter(b)
         /\ ShowsDecline(b) => TakesDecline(b)
         /\ ShowsWithdrawCounter(b) => TakesWithdrawCounter(b)
         /\ ShowsRate(b) => TakesRate(b)
         /\ ShowsReport(b) => TakesReport(b) \/ DeadReport
         /\ ShowsReportDeal(b) => TakesReportDeal(b) \/ DeadReport
    /\ ShowsDeclineAll => TakesDeclineAll
    /\ ShowsClose => TakesClose
    /\ \A on \in BOOLEAN : ShowsPause(on) => TakesPause(on)
    /\ ShowsEdit => TakesAmend
    /\ ShowsExtend => TakesExtend \/ DeadExtend
    /\ ShowsConcierge => TakesConcierge \/ DeadConcierge
    /\ ShowsRepost => TakesRfq \/ DeadRepost

\* quotes/page.tsx: "hide the button while the click would only error".  It does
\* not hold: see DeadExtend.
ExtendIsHonest == ShowsExtend => TakesExtend
=============================================================================
