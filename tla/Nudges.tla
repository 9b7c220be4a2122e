------------------------------- MODULE Nudges -------------------------------
(***************************************************************************)
(* The worker's reminders: nine sweeps that each mail somebody once, once  *)
(* per counter round, or weekly (apps/worker/src/repo.ts, handlers.ts).    *)
(*                                                                         *)
(* A sweep is one statement in two phases: "due" selects rows on the       *)
(* statement's snapshot, "stamped" updates them under the row lock and     *)
(* asks again for the stamp only; the stamped rows are then mailed, each   *)
(* once, whether the mail goes or not.  Two workers' ticks overlap.        *)
(*                                                                         *)
(* A behaviour follows one sweep, chosen at the start, over one request    *)
(* with its quote, deal, listing and operator.                             *)
(***************************************************************************)
EXTENDS Naturals

CONSTANT Tickers   \* workers

VARIABLES
    sweep,         \* which of the sweeps this is about
    rfqIs,         \* the request: "new", "matched", "quoted" or "closed"
    offer,         \* its quote: "none", "sent", "dead" or "accepted"
    counter,       \* quotes.countered_at is set
    bill,          \* the deal: "none", "invoiced" or "settled"
    rated,         \* deals.buyer_rating is set
    dismissed,     \* the operator dismissed the request
    leg,           \* the dated listing: "active" or "ended"
    book,          \* the operator has a listing
    banned,        \* the operator is suspended
    ripe,          \* the sweep's window has passed
    stamp,         \* the sweep's stamp: "none", "recent" or "old" (a week)
    visit,         \* visit[w]: "idle", "due" or "mail"
    claims         \* history: rows stamped since the reminder was last armed

nudgeWorld == <<rfqIs, offer, counter, bill, rated, dismissed, leg, book, banned>>
nudgeVars == <<sweep, nudgeWorld, ripe, stamp, visit, claims>>

-----------------------------------------------------------------------------
Once == {"legExpired", "staleQuotes", "unquoted", "closingSoon", "unratedDeal",
         "counter", "emptyBook"}
Weekly == {"operator", "invoice"}
Sweeps == Once \cup Weekly
IsOpenRfq == rfqIs \in {"new", "matched", "quoted"}

NudgeInit ==
    /\ sweep \in Sweeps
    /\ rfqIs = "new" /\ offer = "none" /\ counter = FALSE
    /\ bill = "none" /\ rated = FALSE /\ dismissed = FALSE
    /\ leg = "active" /\ book = FALSE /\ banned = FALSE
    /\ ripe = FALSE
    /\ stamp = "none"
    /\ visit = [w \in Tickers |-> "idle"]
    /\ claims = 0

-----------------------------------------------------------------------------
(* What each sweep selects; the stamp is asked for in Free.                 *)

ExpiredListingsDue == leg = "active"
StaleQuotesDue == rfqIs = "quoted" /\ offer = "sent"
UnquotedRfqsDue == rfqIs \in {"new", "matched"} /\ offer # "sent"
ClosingSoonRfqsDue == IsOpenRfq
UnratedDealsDue == bill # "none" /\ ~rated
UnansweredCountersDue == offer = "sent" /\ counter /\ IsOpenRfq
UnansweredOperatorsDue ==
    rfqIs \in {"new", "matched"} /\ offer \notin {"sent", "accepted"} /\ ~dismissed
OverdueInvoicesDue == bill = "invoiced"
EmptyBookOperatorsDue == ~book /\ ~banned

\* Mutation of Free: a weekly reminder is sent once.
FreeOnce == stamp = "none"

Free == IF sweep \in Weekly THEN stamp # "recent" ELSE stamp = "none"

\* Phase one, on the snapshot of the statement.
Select(w, due) ==
    /\ visit[w] = "idle"
    /\ due /\ ripe /\ Free
    /\ visit' = [visit EXCEPT ![w] = "due"]
    /\ UNCHANGED <<sweep, nudgeWorld, ripe, stamp, claims>>

\* Mutation of Stamp: the update does not ask for the stamp again.
StampBlind(w) ==
    /\ visit[w] = "due"
    /\ visit' = [visit EXCEPT ![w] = "mail"]
    /\ stamp' = "recent"
    /\ claims' = claims + 1
    /\ UNCHANGED <<sweep, nudgeWorld, ripe>>

\* Phase two, under the row lock: the stamp is asked for again, nothing else is.
Stamp(w) ==
    /\ visit[w] = "due"
    /\ IF Free
       THEN /\ visit' = [visit EXCEPT ![w] = "mail"]
            /\ stamp' = "recent"
            /\ claims' = claims + 1
       ELSE /\ visit' = [visit EXCEPT ![w] = "idle"]
            /\ UNCHANGED <<stamp, claims>>
    /\ UNCHANGED <<sweep, nudgeWorld, ripe>>

\* The mail goes, fails and is logged, or the worker dies before it: the stamp
\* stays.
MailNudge(w) ==
    /\ visit[w] = "mail"
    /\ visit' = [visit EXCEPT ![w] = "idle"]
    /\ UNCHANGED <<sweep, nudgeWorld, ripe, stamp, claims>>

Sweep(w, which, due) == sweep = which /\ (Select(w, due) \/ Stamp(w) \/ MailNudge(w))

NotifyExpiredListings(w) == Sweep(w, "legExpired", ExpiredListingsDue)
NudgeStaleQuotes(w) == Sweep(w, "staleQuotes", StaleQuotesDue)
NudgeUnquotedRfqs(w) == Sweep(w, "unquoted", UnquotedRfqsDue)
NudgeClosingSoonRfqs(w) == Sweep(w, "closingSoon", ClosingSoonRfqsDue)
NudgeUnratedDeals(w) == Sweep(w, "unratedDeal", UnratedDealsDue)
NudgeUnansweredCounters(w) == Sweep(w, "counter", UnansweredCountersDue)
NudgeUnansweredOperators(w) == Sweep(w, "operator", UnansweredOperatorsDue)
RemindOverdueInvoices(w) == Sweep(w, "invoice", OverdueInvoicesDue)
NudgeEmptyBookOperators(w) == Sweep(w, "emptyBook", EmptyBookOperatorsDue)

Tick(w) ==
    \/ NotifyExpiredListings(w) \/ NudgeStaleQuotes(w) \/ NudgeUnquotedRfqs(w)
    \/ NudgeClosingSoonRfqs(w) \/ NudgeUnratedDeals(w) \/ NudgeUnansweredCounters(w)
    \/ NudgeUnansweredOperators(w) \/ RemindOverdueInvoices(w) \/ NudgeEmptyBookOperators(w)

-----------------------------------------------------------------------------
(* What the others do to the rows meanwhile.                                *)

\* The window of a sweep starts anew with what it waits on.
Restart(which) == ripe' = (ripe /\ sweep # which)
\* No worker moves.
RowsOnly == UNCHANGED <<sweep, visit, stamp, claims>>

\* A new row.  The reminder of a counter is stamped on the quote, and its sweep
\* follows one quote to its end.
CreateQuote ==
    /\ IsOpenRfq
    /\ offer = "none" \/ (offer = "dead" /\ sweep # "counter")
    /\ rfqIs' = "quoted" /\ offer' = "sent" /\ counter' = FALSE
    /\ Restart("staleQuotes") /\ RowsOnly
    /\ UNCHANGED <<bill, rated, dismissed, leg, book, banned>>

\* Withdrawn or declined.
EndQuote ==
    /\ offer = "sent"
    /\ offer' = "dead"
    /\ UNCHANGED <<rfqIs, counter, bill, rated, dismissed, leg, book, banned, ripe>>
    /\ RowsOnly

CounterQuote ==
    /\ offer = "sent" /\ ~counter
    /\ counter' = TRUE
    /\ Restart("counter") /\ RowsOnly
    /\ UNCHANGED <<rfqIs, offer, bill, rated, dismissed, leg, book, banned>>

\* reviseQuote and clearQuoteCounter retire the round and its stamp.
EndRound ==
    /\ offer = "sent" /\ counter
    /\ counter' = FALSE
    /\ IF sweep = "counter" THEN stamp' = "none" /\ claims' = 0 ELSE UNCHANGED <<stamp, claims>>
    /\ UNCHANGED <<sweep, rfqIs, offer, bill, rated, dismissed, leg, book, banned, ripe, visit>>

CloseDealOnQuote ==
    /\ offer = "sent" /\ bill = "none" /\ IsOpenRfq
    /\ offer' = "accepted" /\ rfqIs' = "closed" /\ bill' = "invoiced"
    /\ ripe' = (ripe /\ sweep \notin {"unratedDeal", "invoice"})
    /\ RowsOnly
    /\ UNCHANGED <<counter, rated, dismissed, leg, book, banned>>

\* Mutation of SettleBill: a state of the invoice the sweeps do not know.
SettleUnknown ==
    /\ bill = "invoiced"
    /\ bill' = "overdue"
    /\ UNCHANGED <<rfqIs, offer, counter, rated, dismissed, leg, book, banned, ripe>> /\ RowsOnly

SettleBill ==
    /\ bill = "invoiced"
    /\ bill' = "settled"
    /\ UNCHANGED <<rfqIs, offer, counter, rated, dismissed, leg, book, banned, ripe>> /\ RowsOnly

RateDeal ==
    /\ bill # "none" /\ ~rated
    /\ rated' = TRUE
    /\ UNCHANGED <<rfqIs, offer, counter, bill, dismissed, leg, book, banned, ripe>> /\ RowsOnly

CloseRequestRfq ==
    /\ IsOpenRfq
    /\ rfqIs' = "closed" /\ offer' = IF offer = "sent" THEN "dead" ELSE offer
    /\ UNCHANGED <<counter, bill, rated, dismissed, leg, book, banned, ripe>> /\ RowsOnly

FanOutRfq ==
    /\ rfqIs = "new" /\ rfqIs' = "matched"
    /\ UNCHANGED <<offer, counter, bill, rated, dismissed, leg, book, banned, ripe>> /\ RowsOnly

\* An extension moves the close date out of the window; an edited listing has a
\* new date.  Neither clears the stamp.
MoveDate ==
    /\ \/ IsOpenRfq /\ Restart("closingSoon")
       \/ leg = "active" /\ Restart("legExpired")
    /\ UNCHANGED nudgeWorld /\ RowsOnly

DismissRfq ==
    /\ ~dismissed /\ dismissed' = TRUE
    /\ UNCHANGED <<rfqIs, offer, counter, bill, rated, leg, book, banned, ripe>> /\ RowsOnly

ChangeListings ==
    /\ \/ book' = TRUE /\ leg' \in {"active", "ended"}
       \/ UNCHANGED <<book, leg>>
    /\ banned' \in BOOLEAN
    /\ UNCHANGED <<rfqIs, offer, counter, bill, rated, dismissed, ripe>> /\ RowsOnly

WindowPasses ==
    /\ ~ripe /\ ripe' = TRUE
    /\ UNCHANGED nudgeWorld /\ RowsOnly

\* A week later a weekly reminder is armed again.
WeekPasses ==
    /\ stamp = "recent"
    /\ stamp' = "old"
    /\ claims' = IF sweep \in Weekly THEN 0 ELSE claims
    /\ UNCHANGED <<sweep, nudgeWorld, ripe, visit>>

NudgeNext ==
    \/ \E w \in Tickers : Tick(w)
    \/ CreateQuote \/ EndQuote \/ CounterQuote \/ EndRound \/ CloseDealOnQuote
    \/ SettleBill \/ RateDeal \/ CloseRequestRfq \/ FanOutRfq \/ MoveDate
    \/ DismissRfq \/ ChangeListings \/ WindowPasses \/ WeekPasses

\* Every worker polls, and time passes.
NudgeFairness ==
    /\ \A w \in Tickers : WF_nudgeVars(Tick(w))
    /\ WF_nudgeVars(WindowPasses) /\ WF_nudgeVars(WeekPasses)

NudgeSpec == NudgeInit /\ [][NudgeNext]_nudgeVars /\ NudgeFairness

-----------------------------------------------------------------------------
\* The variables keep to their domains.
NudgeTypeOK ==
    /\ sweep \in Sweeps
    /\ rfqIs \in {"new", "matched", "quoted", "closed"}
    /\ offer \in {"none", "sent", "dead", "accepted"}
    /\ bill \in {"none", "invoiced", "settled"}
    /\ <<counter, rated, dismissed, book, banned, ripe>> \in
         BOOLEAN \X BOOLEAN \X BOOLEAN \X BOOLEAN \X BOOLEAN \X BOOLEAN
    /\ leg \in {"active", "ended"}
    /\ stamp \in {"none", "recent", "old"}
    /\ visit \in [Tickers -> {"idle", "due", "mail"}]
    /\ claims \in Nat

\* However the ticks of two workers overlap, with each other and with whoever
\* changes the rows, a reminder is claimed once: once ever, once per counter
\* round, once per week ("a racing tick mails nobody twice", worker/src/repo.ts).
ClaimedOnce == claims <= 1

\* A success fee that stays unpaid is chased every week, for ever
\* (remindOverdueInvoices).
DebtIsChased ==
    sweep = "invoice" /\ bill = "invoiced" /\ stamp # "recent"
    ~> bill # "invoiced" \/ stamp = "recent"

\* A counter round starts with its reminder armed ("so a re-countered round
\* re-arms", clearQuoteCounter).
RoundStartsArmed ==
    [][sweep = "counter" /\ ~counter /\ counter' => stamp = "none"]_nudgeVars
=============================================================================
