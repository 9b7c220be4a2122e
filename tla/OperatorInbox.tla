--------------------------- MODULE OperatorInbox ---------------------------
(***************************************************************************)
(* The operators' page of requests (app/rfqs/page.tsx and its buttons)     *)
(* against its routes, on the rows of BuyerInbox, and what changes those   *)
(* rows from outside the two pages: the fan-out, the clock and its sweep,  *)
(* the end of the listing, the admin, and a reopen.                        *)
(*                                                                         *)
(* Every bidder sees the request: the owner at once, the other once its    *)
(* match is delivered.                                                     *)
(***************************************************************************)
EXTENDS BuyerInbox

VARIABLES
    hidden,        \* bidders that dismissed the request
    flaggers,      \* bidders with an open flag on the request
    posting        \* offers that passed their guards and are not inserted yet

operatorVars == <<hidden, flaggers, posting>>
deskOfOffersVars == <<inboxVars, operatorVars>>

OperatorInit ==
    /\ InboxInit
    /\ hidden = {}
    /\ flaggers = {}
    /\ posting = {}

\* listRfqs for an operator; the dismissed view lists the hidden row instead.
Delivered(b) == b = Owner \/ (request.status # "open" /\ ~request.waiting)
InView(b) == Delivered(b) /\ b \notin hidden
LiveOffer(b) == offer[b].status \in {"sent", "accepted"}

-----------------------------------------------------------------------------
(* What the page shows.                                                     *)

ShowsRestore(b) == Delivered(b) /\ b \in hidden
ShowsAnswer(b) == InView(b) /\ Sent(b) /\ offer[b].countered /\ Live
ShowsRevise(b) == InView(b) /\ Sent(b) /\ Live
ShowsQuote(b) == InView(b) /\ ~LiveOffer(b) /\ Live /\ ~request.paused
ShowsFlag(b) == InView(b) /\ Live
ShowsDismiss(b) == InView(b) /\ offer[b] = NoOffer /\ Live
ShowsNote(b) == Delivered(b)

-----------------------------------------------------------------------------
(* What the routes take.                                                    *)

TakesQuote(b) ==
    /\ b \notin ground.suspended
    /\ ground.listing # "gone" /\ (b = Owner => ground.listing = "up")
    /\ Delivered(b)
    /\ Live /\ ~request.paused /\ ~LiveOffer(b)
TakesRevise(b) == b \notin ground.suspended /\ Sent(b) /\ Live
TakesWithdraw(b) == Sent(b)
TakesAcceptCounter(b) ==
    b \notin ground.suspended /\ Sent(b) /\ offer[b].countered /\ Live /\ Sellable(b)
\* The guard names the database's "new" where the interface says "open".
TakesDeclineCounter(b) ==
    Sent(b) /\ offer[b].countered /\ request.status \in {"new", "matched", "quoted"}
TakesFlag(b) == InView(b) /\ b \notin flaggers
TakesDismiss(b) == Delivered(b)
TakesRestore(b) == b \in hidden
TakesNote(b) == InView(b)

-----------------------------------------------------------------------------
(* The handlers.                                                            *)

\* POST /api/quotes checks, then inserts: the request may be closed in between.
PostQuote(b) ==
    /\ TakesQuote(b) /\ b \notin posting
    /\ posting' = posting \cup {b}
    /\ UNCHANGED <<inboxVars, hidden, flaggers>>

\* createQuote: the partial unique index refuses a second live quote; only a live
\* request becomes quoted.
InsertQuoteUnmarked(b) ==
    /\ b \in posting /\ ~LiveOffer(b)
    /\ offer' = [offer EXCEPT ![b] = [status |-> "sent", countered |-> FALSE]]
    /\ posting' = posting \ {b}
    /\ flagged' = flagged \ {<<"offer", b>>}
    /\ UNCHANGED <<request, deal, ground, reopened, turns, hidden, flaggers>>
InsertQuote(b) ==
    /\ b \in posting /\ ~LiveOffer(b)
    /\ offer' = [offer EXCEPT ![b] = [status |-> "sent", countered |-> FALSE]]
    /\ request' = IF Live THEN [request EXCEPT !.status = "quoted"] ELSE request
    /\ posting' = posting \ {b}
    /\ flagged' = flagged \ {<<"offer", b>>}
    /\ UNCHANGED <<deal, ground, reopened, turns, hidden, flaggers>>

Revise(b) ==
    /\ TakesRevise(b)
    /\ offer' = [offer EXCEPT ![b].countered = FALSE]
    /\ UNCHANGED <<request, deal, flagged, ground, reopened, turns, operatorVars>>

Withdraw(b) ==
    /\ TakesWithdraw(b)
    /\ offer' = Leave({b}, "withdrawn")
    /\ UNCHANGED <<request, deal, flagged, ground, reopened, turns, operatorVars>>

\* The revise at the buyer's number and the closing of the deal in one.
AcceptCounter(b) ==
    /\ TakesAcceptCounter(b)
    /\ Accept(b)
    /\ UNCHANGED operatorVars

DeclineCounter(b) ==
    /\ TakesDeclineCounter(b)
    /\ offer' = [offer EXCEPT ![b].countered = FALSE]
    /\ UNCHANGED <<request, deal, flagged, ground, reopened, turns, operatorVars>>

FlagRequest(b) ==
    /\ TakesFlag(b)
    /\ flaggers' = flaggers \cup {b}
    /\ UNCHANGED <<inboxVars, hidden, posting>>

Dismiss(b) ==
    /\ TakesDismiss(b)
    /\ hidden' = hidden \cup {b}
    /\ UNCHANGED <<inboxVars, flaggers, posting>>

Restore(b) ==
    /\ TakesRestore(b)
    /\ hidden' = hidden \ {b}
    /\ UNCHANGED <<inboxVars, flaggers, posting>>

-----------------------------------------------------------------------------
(* The world outside the two pages.                                         *)

\* Matches of a free or unverified bidder wait out their delay.
FanOut(waits) ==
    /\ request.status = "open"
    /\ request' = [request EXCEPT !.status = "matched", !.waiting = waits /\ ~request.concierge]
    /\ UNCHANGED <<offer, deal, flagged, ground, reopened, turns, operatorVars>>

DelayPassed ==
    /\ request.waiting
    /\ request' = [request EXCEPT !.waiting = FALSE]
    /\ UNCHANGED <<offer, deal, flagged, ground, reopened, turns, operatorVars>>

\* At midnight what lay on the edge is within the week.
Midnight ==
    /\ request.horizon \in {"edge", "soon"}
    /\ request' = [request EXCEPT !.horizon = IF @ = "edge" THEN "soon" ELSE "lapsed"]
    /\ UNCHANGED <<offer, deal, flagged, ground, reopened, turns, operatorVars>>

\* The sweep takes the lapsed request and its sent quotes.
Expire ==
    /\ Live /\ request.horizon = "lapsed"
    /\ request' = [request EXCEPT !.status = "expired"]
    /\ offer' = Leave(Bidders, "expired")
    /\ UNCHANGED <<deal, flagged, ground, reopened, turns, operatorVars>>

Turn == turns < MaxTurns /\ turns' = turns + 1

\* archived or sold: endListing closes the live requests and declines their quotes.
EndListing ==
    /\ Turn
    /\ ground.listing # "gone"
    /\ ground' = [ground EXCEPT !.listing = "gone"]
    /\ request' = IF Live THEN [request EXCEPT !.status = "closed"] ELSE request
    /\ offer' = IF Live THEN Leave(Bidders, "declined") ELSE offer
    /\ UNCHANGED <<deal, flagged, reopened, operatorVars>>

ToggleSuspension(b) ==
    /\ Turn
    /\ ground' = [ground EXCEPT !.suspended = IF b \in @ THEN @ \ {b} ELSE @ \cup {b}]
    /\ UNCHANGED <<request, offer, deal, flagged, reopened, operatorVars>>

\* The block bins the live requests and clears the mailbox's flags.
ToggleBlock ==
    /\ Turn
    /\ ground' = [ground EXCEPT !.blocked = ~@]
    /\ request' = IF Live /\ ~ground.blocked THEN [request EXCEPT !.status = "spam"] ELSE request
    /\ flagged' = IF ground.blocked THEN flagged ELSE {}
    /\ UNCHANGED <<offer, deal, reopened, operatorVars>>

VoidDeal(b) ==
    /\ Turn
    /\ deal[b].invoice = "open"
    /\ deal' = [deal EXCEPT ![b].invoice = "void"]
    /\ UNCHANGED <<request, offer, flagged, ground, reopened, operatorVars>>

DismissFlags ==
    /\ Turn
    /\ flagged' = {}
    /\ flaggers' = {}
    /\ UNCHANGED <<request, offer, deal, ground, reopened, hidden, posting>>

\* No button reopens a request; the route does.
ReopenRequest ==
    /\ Turn
    /\ request.status = "closed" /\ request.horizon # "lapsed"
    /\ request' = [request EXCEPT !.status = "open"]
    /\ reopened' = TRUE
    /\ UNCHANGED <<offer, deal, flagged, ground, operatorVars>>

\* The buttons by what they are about; a behaviour is about one of the three, and
\* every behaviour has the fan-out, offers, closes and reopens.
CommonNext ==
    \/ \E b \in Bidders : PostQuote(b) \/ InsertQuote(b) \/ AcceptCounter(b)
    \/ \E b \in Bidders : Accept(b) /\ UNCHANGED operatorVars
    \/ \E finishes \in BOOLEAN : CloseRequest(finishes) /\ UNCHANGED operatorVars
    \/ \E waits \in BOOLEAN : FanOut(waits)
    \/ DelayPassed \/ ReopenRequest

\* The offers on the table, and the listing they are for.
TermsNext ==
    \/ /\ \/ \E b \in Bidders : Decline(b) \/ MakeCounter(b) \/ WithdrawCounter(b)
          \/ DeclineAll
       /\ UNCHANGED operatorVars
    \/ \E b \in Bidders : Revise(b) \/ Withdraw(b) \/ DeclineCounter(b) \/ ToggleSuspension(b)
    \/ EndListing

\* The dates, the pause and the paid upgrade.
DatesNext ==
    \/ /\ \/ Extend \/ BuyConcierge
          \/ \E on \in BOOLEAN : Pause(on)
          \/ \E h \in {"soon", "far"} : Amend(h)
       /\ UNCHANGED operatorVars
    \/ Midnight \/ Expire

\* Flags, hidden rows, ratings and what the admin does about them.
TrustNext ==
    \/ /\ \E b \in Bidders : Rate(b) \/ \E what \in {"offer", "deal"} : Report(what, b)
       /\ UNCHANGED operatorVars
    \/ \E b \in Bidders : FlagRequest(b) \/ Dismiss(b) \/ Restore(b) \/ VoidDeal(b)
    \/ ToggleBlock \/ DismissFlags

InboxNext == CommonNext \/ TermsNext \/ DatesNext \/ TrustNext

-----------------------------------------------------------------------------
\* What the operator's page shows although the route refuses it: it knows neither
\* of a suspension nor of the listing's end; it forgets a flag on a reload; a
\* note on a dismissed request is not found; and the decline of a counter is
\* refused while the request is "open" - which, with an offer on it, it is only
\* after a reopen, since the first offer makes it "quoted".
DeadQuote(b) ==
    b \in ground.suspended \/ (ground.listing = "gone" /\ reopened)
      \/ (ground.listing = "dated" /\ b = Owner)
DeadDeclineCounter == request.status = "open" /\ reopened

OperatorButtonsWork ==
    \A b \in Bidders :
        /\ ShowsRestore(b) => TakesRestore(b)
        /\ ShowsAnswer(b) => /\ TakesAcceptCounter(b) \/ DeadQuote(b)
                             /\ TakesDeclineCounter(b) \/ DeadDeclineCounter
        /\ ShowsRevise(b) => /\ TakesRevise(b) \/ b \in ground.suspended
                             /\ TakesWithdraw(b)
        /\ ShowsQuote(b) => TakesQuote(b) \/ DeadQuote(b)
        /\ ShowsFlag(b) => TakesFlag(b) \/ b \in flaggers
        /\ ShowsDismiss(b) => TakesDismiss(b)
        /\ ShowsNote(b) => TakesNote(b) \/ b \in hidden

InboxTypeOK ==
    /\ request \in [status : {"open", "matched", "quoted", "closed", "expired", "spam"},
                    paused : BOOLEAN, horizon : Horizons, concierge : BOOLEAN, waiting : BOOLEAN]
    /\ offer \in [Bidders -> [status : {"none", "sent", "declined", "withdrawn", "accepted", "expired"},
                              countered : BOOLEAN]]
    /\ deal \in [Bidders -> [invoice : {"none", "open", "void"}, rated : BOOLEAN]]
    /\ flagged \subseteq {"offer", "deal"} \X Bidders
    /\ hidden \subseteq Bidders /\ flaggers \subseteq Bidders /\ posting \subseteq Bidders
    /\ ground \in [listing : {"up", "dated", "gone"}, suspended : SUBSET Bidders, blocked : BOOLEAN]
=============================================================================
