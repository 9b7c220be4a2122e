------------------------------ MODULE DealFlow ------------------------------
(***************************************************************************)
(* Deal arbitration: how an RFQ, the quotes offered on it and the listing  *)
(* it was opened from move while several web requests and the worker's     *)
(* expiry sweep act on the same Postgres rows.                             *)
(*                                                                         *)
(* A web request is a session.  Every repo call it makes is a step of its  *)
(* own, because each is its own SQL statement and nothing ties two of them *)
(* together; what one statement changes, it changes atomically.  A request *)
(* can stop between any two of its calls (Abort): a thrown repo call, a    *)
(* killed process.                                                         *)
(*                                                                         *)
(* One row of `quotes` is one element of Quotes: its RFQ and its operator  *)
(* never change, so RfqOf and OpOf are constants and a row that was not    *)
(* inserted yet has the status "none".  A deal is identified with its      *)
(* quote (deals.quote_id is unique): invoice[q] is "none" until the deal   *)
(* row of q exists.                                                        *)
(*                                                                         *)
(* Status "open" of an RFQ stands for the database's "new" and "matched",  *)
(* which every guard here treats alike; status "active" of a listing for   *)
(* draft, active and paused, none of which stops a quote or a deal.        *)
(***************************************************************************)
EXTENDS FiniteSets

CONSTANTS
    Rfqs,        \* rows of rfqs
    Quotes,      \* rows of quotes, inserted or not
    Operators,   \* rows of operators
    Listings,    \* rows of listings
    OneOff,      \* the listings of a one-off type (one sale consumes them)
    Sessions,    \* web requests that can be in flight together
    RfqOf,       \* RfqOf[q]: the RFQ quote q is for
    OpOf,        \* OpOf[q]: the operator quote q is from
    ListingOf,   \* ListingOf[r]: the listing RFQ r was opened from
    OwnerOf,     \* OwnerOf[l]: the operator that owns listing l
    Faults,      \* the failures of a repo call that can happen, of FaultKinds
    None         \* no quote, no listing

\* A request cut short between two calls; a deal insert that fails; a deal
\* insert that is written and reported as failed.
FaultKinds == {"abort", "refused", "torn"}

ASSUME DealFlowAssumption ==
    /\ RfqOf \in [Quotes -> Rfqs]
    /\ OpOf \in [Quotes -> Operators]
    /\ ListingOf \in [Rfqs -> Listings]
    /\ OwnerOf \in [Listings -> Operators]
    /\ OneOff \subseteq Listings
    /\ Faults \subseteq FaultKinds
    /\ None \notin Quotes
    /\ None \notin Listings

VARIABLES
    rfq,         \* rfq[r]: status of the RFQ
    quote,       \* quote[q]: status of the quote row, "none" before the insert
    invoice,     \* invoice[q]: invoice status of the deal on q, "none" without one
    listing,     \* listing[l]: status of the listing
    lapsed,      \* RFQs whose deadline has passed
    req,         \* req[s]: the request session s is serving
    renewed      \* history: RFQs reopened by the buyer, or with a torn deal insert

vars == <<rfq, quote, invoice, listing, lapsed, req, renewed>>

-----------------------------------------------------------------------------
Live == {"open", "quoted"}
RfqStates == Live \cup {"closed", "spam"}
QuoteStates == {"none", "sent", "accepted", "declined", "withdrawn"}
InvoiceStates == {"none", "pending", "invoiced", "paid", "void"}
ListingStates == {"active", "archived", "sold"}

\* Where a request stands: the name of the repo call it makes next.
QuoteSteps == {"insert", "mark"}
AcceptSteps == {"close", "accept", "rollback", "deal", "unaccept", "unclose",
                "siblings", "invoice", "sell"}
SweepSteps == {"sweep", "cascade"}
RevertSteps == {"restore", "reactivate"}
Steps == {"idle"} \cup QuoteSteps \cup AcceptSteps \cup SweepSteps \cup RevertSteps

\* todo holds the quotes a decline loop still has to flip, orphans the RFQs
\* whose quotes it has not listed yet.
Request == [pc : Steps, q : Quotes \cup {None}, l : Listings \cup {None},
            orphans : SUBSET Rfqs, todo : SUBSET Quotes]
Task(pc, q, l, orphans, todo) ==
    [pc |-> pc, q |-> q, l |-> l, orphans |-> orphans, todo |-> todo]
Idle == Task("idle", None, None, {}, {})

Dealt(q) == invoice[q] # "none"
SentOn(r) == {q \in Quotes : RfqOf[q] = r /\ quote[q] = "sent"}

\* The partial unique index: one sent-or-accepted row per RFQ and operator.
LiveTwin(q) == \E p \in Quotes \ {q} : /\ RfqOf[p] = RfqOf[q]
                                       /\ OpOf[p] = OpOf[q]
                                       /\ quote[p] \in {"sent", "accepted"}

At(s, step) == req[s].pc = step
Serve(s, task) == req' = [req EXCEPT ![s] = task]
Goto(s, step) == Serve(s, [req[s] EXCEPT !.pc = step])
Finish(s) == Serve(s, Idle)

Init ==
    /\ rfq = [r \in Rfqs |-> "open"]
    /\ quote = [q \in Quotes |-> "none"]
    /\ invoice = [q \in Quotes |-> "none"]
    /\ listing = [l \in Listings |-> "active"]
    /\ lapsed = {}
    /\ req = [s \in Sessions |-> Idle]
    /\ renewed = {}

-----------------------------------------------------------------------------
(* POST /quotes: an operator offers on an RFQ.                             *)

\* The guards, read before anything is written.
QuoteCheck(s, q) ==
    /\ At(s, "idle")
    /\ quote[q] = "none"
    /\ rfq[RfqOf[q]] \in Live
    /\ listing[ListingOf[RfqOf[q]]] = "active"
    /\ ~ LiveTwin(q)
    /\ Serve(s, Task("insert", q, None, {}, {}))
    /\ UNCHANGED <<rfq, quote, invoice, listing, lapsed, renewed>>

\* createQuote inserts the row as sent whatever became of the RFQ; only the
\* unique index can refuse it.
QuoteInsert(s) ==
    /\ At(s, "insert")
    /\ LET q == req[s].q IN
         \/ /\ quote[q] = "none" /\ ~ LiveTwin(q)
            /\ quote' = [quote EXCEPT ![q] = "sent"]
            /\ Goto(s, "mark")
         \/ /\ quote[q] # "none" \/ LiveTwin(q)
            /\ Finish(s)
            /\ UNCHANGED quote
    /\ UNCHANGED <<rfq, invoice, listing, lapsed, renewed>>

\* Mutation of QuoteMark: the flip forgets the live gate (QA-165).
QuoteMarkBlind(s) ==
    /\ At(s, "mark")
    /\ rfq' = [rfq EXCEPT ![RfqOf[req[s].q]] = "quoted"]
    /\ Finish(s)
    /\ UNCHANGED <<quote, invoice, listing, lapsed, renewed>>

\* createQuote's second statement: the RFQ becomes quoted if it is still live.
QuoteMark(s) ==
    /\ At(s, "mark")
    /\ LET r == RfqOf[req[s].q] IN
         rfq' = IF rfq[r] \in Live THEN [rfq EXCEPT ![r] = "quoted"] ELSE rfq
    /\ Finish(s)
    /\ UNCHANGED <<quote, invoice, listing, lapsed, renewed>>

-----------------------------------------------------------------------------
(* POST /quotes/:id/accept and /accept-counter: closeDealForQuote.         *)

\* The market guards both routes read before closeDealForQuote runs.
AcceptCheck(s, q) ==
    /\ At(s, "idle")
    /\ quote[q] = "sent"
    /\ rfq[RfqOf[q]] \in Live
    /\ listing[ListingOf[RfqOf[q]]] = "active"
    /\ Serve(s, Task("close", q, None, {}, {}))
    /\ UNCHANGED <<rfq, quote, invoice, listing, lapsed, renewed>>

\* Mutation of CloseForDeal: an unconditional UPDATE in place of the gate.
CloseForDealBlind(s) ==
    /\ At(s, "close")
    /\ rfq' = [rfq EXCEPT ![RfqOf[req[s].q]] = "closed"]
    /\ Goto(s, "accept")
    /\ UNCHANGED <<quote, invoice, listing, lapsed, renewed>>

\* The single-winner gate: live -> closed, or the accept is refused.
CloseForDeal(s) ==
    /\ At(s, "close")
    /\ LET r == RfqOf[req[s].q] IN
         \/ /\ rfq[r] \in Live
            /\ rfq' = [rfq EXCEPT ![r] = "closed"]
            /\ Goto(s, "accept")
         \/ /\ rfq[r] \notin Live
            /\ Finish(s)
            /\ UNCHANGED rfq
    /\ UNCHANGED <<quote, invoice, listing, lapsed, renewed>>

\* Then the quote, sent -> accepted; a lost race gives the RFQ back.
AcceptQuote(s) ==
    /\ At(s, "accept")
    /\ LET q == req[s].q IN
         \/ /\ quote[q] = "sent"
            /\ quote' = [quote EXCEPT ![q] = "accepted"]
            /\ Goto(s, "deal")
         \/ /\ quote[q] # "sent"
            /\ Goto(s, "rollback")
            /\ UNCHANGED quote
    /\ UNCHANGED <<rfq, invoice, listing, lapsed, renewed>>

\* setRfqStatus("quoted", ["closed"]), the compensation of CloseForDeal.
GiveBack(r) ==
    rfq' = IF rfq[r] = "closed" THEN [rfq EXCEPT ![r] = "quoted"] ELSE rfq

Rollback(s) ==
    /\ At(s, "rollback")
    /\ GiveBack(RfqOf[req[s].q])
    /\ Finish(s)
    /\ UNCHANGED <<quote, invoice, listing, lapsed, renewed>>

\* createDeal inserts the deal row, then reads the quote back.  A row that is
\* there already ends the request (deals.quote_id is unique); the insert can
\* fail with nothing written (refused), and the read can fail after it, so that
\* the row is there and the caller is told there is none (torn).
CreateDeal(s) ==
    /\ At(s, "deal")
    /\ LET q == req[s].q IN
         \/ /\ Dealt(q)
            /\ Finish(s)
            /\ UNCHANGED <<invoice, renewed>>
         \/ /\ ~ Dealt(q)
            /\ invoice' = [invoice EXCEPT ![q] = "pending"]
            /\ Serve(s, Task("siblings", q, None, {RfqOf[q]}, {}))
            /\ UNCHANGED renewed
         \/ /\ ~ Dealt(q) /\ "refused" \in Faults
            /\ Goto(s, "unaccept")
            /\ UNCHANGED <<invoice, renewed>>
         \/ /\ ~ Dealt(q) /\ "torn" \in Faults
            /\ invoice' = [invoice EXCEPT ![q] = "pending"]
            /\ renewed' = renewed \cup {RfqOf[q]}
            /\ Goto(s, "unaccept")
    /\ UNCHANGED <<rfq, quote, listing, lapsed>>

\* The rollback of a failed createDeal: the quote first, then the RFQ.
UnacceptQuote(s) ==
    /\ At(s, "unaccept")
    /\ LET q == req[s].q IN
         \/ /\ quote[q] = "accepted"
            /\ quote' = [quote EXCEPT ![q] = "sent"]
            /\ Goto(s, "unclose")
         \/ /\ quote[q] # "accepted"
            /\ Finish(s)
            /\ UNCHANGED quote
    /\ UNCHANGED <<rfq, invoice, listing, lapsed, renewed>>

UncloseRfq(s) ==
    /\ At(s, "unclose")
    /\ GiveBack(RfqOf[req[s].q])
    /\ Finish(s)
    /\ UNCHANGED <<quote, invoice, listing, lapsed, renewed>>

\* Mutation of RaiseInvoice: the ledger flip forgets its expected states.
RaiseInvoiceBlind(s) ==
    /\ At(s, "invoice")
    /\ invoice' = [invoice EXCEPT ![req[s].q] = "invoiced"]
    /\ Goto(s, "sell")
    /\ UNCHANGED <<rfq, quote, listing, lapsed, renewed>>

\* pending/invoiced -> invoiced once the provider made the invoice; a provider
\* failure leaves the deal pending and never blocks the accept.
RaiseInvoice(s) ==
    /\ At(s, "invoice")
    /\ LET q == req[s].q IN
         \/ /\ invoice[q] \in {"pending", "invoiced"}
            /\ invoice' = [invoice EXCEPT ![q] = "invoiced"]
         \/ UNCHANGED invoice
    /\ Goto(s, "sell")
    /\ UNCHANGED <<rfq, quote, listing, lapsed, renewed>>

\* The owner's winning quote on one-off inventory takes the listing off the
\* market; the sweep of the listing's other RFQs follows.
SellListing(s) ==
    /\ At(s, "sell")
    /\ LET q == req[s].q
           l == ListingOf[RfqOf[q]]
       IN \/ /\ OpOf[q] = OwnerOf[l] /\ l \in OneOff
             /\ listing' = [listing EXCEPT ![l] = "sold"]
             /\ Serve(s, Task("sweep", None, l, {}, {}))
          \/ /\ OpOf[q] # OwnerOf[l] \/ l \notin OneOff
             /\ Finish(s)
             /\ UNCHANGED listing
    /\ UNCHANGED <<rfq, quote, invoice, lapsed, renewed>>

-----------------------------------------------------------------------------
(* The decline loops: for each RFQ of a list, list its quotes, then flip    *)
(* the sent ones to declined one statement at a time.                       *)

CascadeSteps == {"siblings", "cascade"}

\* listQuotes of the next RFQ, filtered to sent (and not the winner).
ListSent(s) ==
    /\ req[s].pc \in CascadeSteps
    /\ req[s].todo = {}
    /\ \E r \in req[s].orphans :
         Serve(s, [req[s] EXCEPT !.orphans = @ \ {r},
                                 !.todo = SentOn(r) \ {req[s].q}])
    /\ UNCHANGED <<rfq, quote, invoice, listing, lapsed, renewed>>

\* Mutation of DeclineNext: the loop trusts the list it read.
DeclineNextBlind(s) ==
    /\ req[s].pc \in CascadeSteps
    /\ \E q \in req[s].todo :
         /\ quote' = [quote EXCEPT ![q] = "declined"]
         /\ Serve(s, [req[s] EXCEPT !.todo = @ \ {q}])
    /\ UNCHANGED <<rfq, invoice, listing, lapsed, renewed>>

\* setQuoteStatus(declined, sent): a quote that moved meanwhile is skipped.
DeclineNext(s) ==
    /\ req[s].pc \in CascadeSteps
    /\ \E q \in req[s].todo :
         /\ quote' = IF quote[q] = "sent"
                     THEN [quote EXCEPT ![q] = "declined"] ELSE quote
         /\ Serve(s, [req[s] EXCEPT !.todo = @ \ {q}])
    /\ UNCHANGED <<rfq, invoice, listing, lapsed, renewed>>

\* The loop is over: an accept goes on to its invoice, the others are done.
CascadeDone(s) ==
    /\ req[s].todo = {} /\ req[s].orphans = {}
    /\ \/ At(s, "siblings") /\ Goto(s, "invoice")
       \/ At(s, "cascade") /\ Finish(s)
    /\ UNCHANGED <<rfq, quote, invoice, listing, lapsed, renewed>>

\* closeLiveRfqsForListing: one UPDATE closes every live RFQ of the listing.
SweepListing(s) ==
    /\ At(s, "sweep")
    /\ LET dead == {r \in Rfqs : ListingOf[r] = req[s].l /\ rfq[r] \in Live} IN
         /\ rfq' = [r \in Rfqs |-> IF r \in dead THEN "closed" ELSE rfq[r]]
         /\ Serve(s, Task("cascade", None, None, dead, {}))
    /\ UNCHANGED <<quote, invoice, listing, lapsed, renewed>>

-----------------------------------------------------------------------------
(* The buyer's, the operators' and the admin's other requests.             *)

\* POST /rfqs/:id/close, and the admin's force-close: the same gate as an
\* accept, then the decline loop.
CloseRfq(s, r) ==
    /\ At(s, "idle")
    /\ rfq[r] \in Live
    /\ rfq' = [rfq EXCEPT ![r] = "closed"]
    /\ Serve(s, Task("cascade", None, None, {r}, {}))
    /\ UNCHANGED <<quote, invoice, listing, lapsed, renewed>>

\* The admin bins an RFQ; its quotes are left as they are.
SpamRfq(r) ==
    /\ rfq[r] \in Live
    /\ rfq' = [rfq EXCEPT ![r] = "spam"]
    /\ UNCHANGED <<quote, invoice, listing, lapsed, req, renewed>>

\* POST /rfqs/:id/reopen: a closed RFQ whose deadline is ahead is live again.
\* Nobody asks whether a deal closed it.
Reopen(r) ==
    /\ rfq[r] = "closed"
    /\ r \notin lapsed
    /\ rfq' = [rfq EXCEPT ![r] = "open"]
    /\ renewed' = renewed \cup {r}
    /\ UNCHANGED <<quote, invoice, listing, lapsed, req>>

\* POST /rfqs/:id/decline-quotes: the sent quotes die, the RFQ stays.
DeclineAll(s, r) ==
    /\ At(s, "idle")
    /\ SentOn(r) # {}
    /\ Serve(s, Task("cascade", None, None, {}, SentOn(r)))
    /\ UNCHANGED <<rfq, quote, invoice, listing, lapsed, renewed>>

\* POST /quotes/:id/decline and /withdraw: one compare-and-set.
LeaveSent(q, status) ==
    /\ quote[q] = "sent"
    /\ quote' = [quote EXCEPT ![q] = status]
    /\ UNCHANGED <<rfq, invoice, listing, lapsed, req, renewed>>
DeclineQuote(q) == LeaveSent(q, "declined")
WithdrawQuote(q) == LeaveSent(q, "withdrawn")

\* The operator archives a listing, the admin does so over any status, or the
\* operator marks a one-off listing sold; its live RFQs are then swept.
EndListing(s, l) ==
    /\ At(s, "idle")
    /\ \/ listing' = [listing EXCEPT ![l] = "archived"]
       \/ /\ listing[l] = "active" /\ l \in OneOff
          /\ listing' = [listing EXCEPT ![l] = "sold"]
    /\ Serve(s, Task("sweep", None, l, {}, {}))
    /\ UNCHANGED <<rfq, quote, invoice, lapsed, renewed>>

\* The admin's pause is written over any status.
PauseListing(l) ==
    /\ listing[l] # "active"
    /\ listing' = [listing EXCEPT ![l] = "active"]
    /\ UNCHANGED <<rfq, quote, invoice, lapsed, req, renewed>>

-----------------------------------------------------------------------------
(* Deadlines: the clock, the buyer's extension, the worker's sweep.        *)

Lapse(r) ==
    /\ r \notin lapsed
    /\ lapsed' = lapsed \cup {r}
    /\ UNCHANGED <<rfq, quote, invoice, listing, req, renewed>>

ExtendRfq(r) ==
    /\ r \in lapsed
    /\ rfq[r] \in Live
    /\ lapsed' = lapsed \ {r}
    /\ UNCHANGED <<rfq, quote, invoice, listing, req, renewed>>

\* Mutation of ExpireRfqs: RFQs that got a quote are forgotten.
ExpireUnquoted ==
    LET stale == {r \in lapsed : rfq[r] = "open"} IN
    /\ stale # {}
    /\ rfq' = [r \in Rfqs |-> IF r \in stale THEN "closed" ELSE rfq[r]]
    /\ UNCHANGED <<quote, invoice, listing, lapsed, req, renewed>>

\* One statement closes every stale live RFQ and declines its sent quotes.
ExpireRfqs ==
    LET stale == {r \in lapsed : rfq[r] \in Live} IN
    /\ stale # {}
    /\ rfq' = [r \in Rfqs |-> IF r \in stale THEN "closed" ELSE rfq[r]]
    /\ quote' = [q \in Quotes |->
                   IF RfqOf[q] \in stale /\ quote[q] = "sent"
                   THEN "declined" ELSE quote[q]]
    /\ UNCHANGED <<invoice, listing, lapsed, req, renewed>>

-----------------------------------------------------------------------------
(* The deal ledger after the accept.                                       *)

\* The provider's payment event settles a pending or invoiced deal; the admin's
\* settlement of an invoiced one is a special case.
PayDeal(q) ==
    /\ invoice[q] \in {"pending", "invoiced"}
    /\ invoice' = [invoice EXCEPT ![q] = "paid"]
    /\ UNCHANGED <<rfq, quote, listing, lapsed, req, renewed>>

VoidDeal(q) ==
    /\ invoice[q] \in {"pending", "invoiced"}
    /\ invoice' = [invoice EXCEPT ![q] = "void"]
    /\ UNCHANGED <<rfq, quote, listing, lapsed, req, renewed>>

\* The admin reverts a deal: void (an already void deal passes), then give
\* the listing back if the winner owns it and it is sold.
RevertDeal(s, q) ==
    /\ At(s, "idle")
    /\ invoice[q] \in {"pending", "invoiced", "void"}
    /\ invoice' = [invoice EXCEPT ![q] = "void"]
    /\ Serve(s, Task("restore", q, None, {}, {}))
    /\ UNCHANGED <<rfq, quote, listing, lapsed, renewed>>

RestoreCheck(s) ==
    /\ At(s, "restore")
    /\ LET q == req[s].q
           l == ListingOf[RfqOf[q]]
       IN \/ OwnerOf[l] = OpOf[q] /\ listing[l] = "sold" /\ Goto(s, "reactivate")
          \/ (OwnerOf[l] # OpOf[q] \/ listing[l] # "sold") /\ Finish(s)
    /\ UNCHANGED <<rfq, quote, invoice, listing, lapsed, renewed>>

Reactivate(s) ==
    /\ At(s, "reactivate")
    /\ listing' = [listing EXCEPT ![ListingOf[RfqOf[req[s].q]]] = "active"]
    /\ Finish(s)
    /\ UNCHANGED <<rfq, quote, invoice, lapsed, renewed>>

-----------------------------------------------------------------------------
\* A repo call throws or the process dies: the request ends where it stands.
Abort(s) ==
    /\ "abort" \in Faults
    /\ ~ At(s, "idle")
    /\ Finish(s)
    /\ UNCHANGED <<rfq, quote, invoice, listing, lapsed, renewed>>

Offering(s) == (\E q \in Quotes : QuoteCheck(s, q)) \/ QuoteInsert(s) \/ QuoteMark(s)

Accepting(s) ==
    \/ \E q \in Quotes : AcceptCheck(s, q)
    \/ CloseForDeal(s) \/ AcceptQuote(s) \/ Rollback(s)
    \/ CreateDeal(s) \/ UnacceptQuote(s) \/ UncloseRfq(s)
    \/ RaiseInvoice(s) \/ SellListing(s)

Cascading(s) ==
    \/ \E r \in Rfqs : CloseRfq(s, r) \/ DeclineAll(s, r)
    \/ \E l \in Listings : EndListing(s, l)
    \/ SweepListing(s) \/ ListSent(s) \/ DeclineNext(s) \/ CascadeDone(s)

Reverting(s) ==
    \/ \E q \in Quotes : RevertDeal(s, q)
    \/ RestoreCheck(s) \/ Reactivate(s)

Next ==
    \/ \E s \in Sessions :
         Offering(s) \/ Accepting(s) \/ Cascading(s) \/ Reverting(s) \/ Abort(s)
    \/ \E r \in Rfqs : SpamRfq(r) \/ Reopen(r) \/ Lapse(r) \/ ExtendRfq(r)
    \/ \E q \in Quotes : \/ DeclineQuote(q) \/ WithdrawQuote(q)
                         \/ PayDeal(q) \/ VoidDeal(q)
    \/ \E l \in Listings : PauseListing(l)
    \/ ExpireRfqs

Spec == Init /\ [][Next]_vars

\* The worker keeps ticking: a stale RFQ that stays stale is swept.
FairSpec == Spec /\ WF_vars(ExpireRfqs)
-----------------------------------------------------------------------------
(* Properties.                                                              *)

\* Every variable has a value of its domain, and a request at a step that works
\* on a quote has one.
QuotedSteps == QuoteSteps \cup AcceptSteps \cup RevertSteps
ReqType ==
    /\ req \in [Sessions -> Request]
    /\ \A s \in Sessions : req[s].pc \in QuotedSteps => req[s].q \in Quotes
TypeOK ==
    /\ rfq \in [Rfqs -> RfqStates]
    /\ quote \in [Quotes -> QuoteStates]
    /\ invoice \in [Quotes -> InvoiceStates]
    /\ listing \in [Listings -> ListingStates]
    /\ lapsed \subseteq Rfqs
    /\ ReqType
    /\ renewed \subseteq Rfqs

\* A session holds an RFQ from the moment its accept closed it until the deal
\* exists or the RFQ is given back.
HoldSteps == {"accept", "rollback", "deal", "unaccept", "unclose"}
Holds(s, r) == req[s].pc \in HoldSteps /\ RfqOf[req[s].q] = r

\* lib/deal.ts, the RFQ flip is the single-winner gate: whatever races the
\* accepts of an RFQ (sibling accepts, closes, expiry, late quotes, aborts), at
\* most one of its quotes becomes a deal, as long as the buyer does not reopen
\* it and no deal insert is torn.
SingleWinner ==
    \A p, q \in Quotes :
        Dealt(p) /\ Dealt(q) /\ RfqOf[p] = RfqOf[q] /\ RfqOf[p] \notin renewed
            => p = q

\* The accept closes the RFQ before the quote and gives the quote back before
\* the RFQ, so no accepted quote or deal is ever seen on an RFQ that still
\* takes accepts (QA-99, QA-165, QA-310).
SealedIsClosed ==
    \A q \in Quotes :
        (quote[q] = "accepted" \/ Dealt(q)) /\ RfqOf[q] \notin renewed
            => rfq[RfqOf[q]] = "closed"

\* No decline, withdrawal, cascade or expiry that races an accept takes the
\* quote of a deal away: a deal stands on an accepted quote.
DealHasAcceptedQuote ==
    \A q \in Quotes :
        Dealt(q) /\ RfqOf[q] \notin renewed => quote[q] = "accepted"

\* At most one request at a time has closed an RFQ for its own accept, and
\* while it does the RFQ is closed, has no deal and no other accepted quote:
\* the compensation of a failed accept never undoes another request's work.
ExclusiveHold ==
    \A s \in Sessions, r \in Rfqs \ renewed :
        Holds(s, r) =>
            /\ rfq[r] = "closed"
            /\ \A t \in Sessions : Holds(t, r) => t = s
            /\ req[s].pc = "deal" => quote[req[s].q] = "accepted"
            /\ \A q \in Quotes : RfqOf[q] = r =>
                 /\ ~ Dealt(q)
                 /\ quote[q] = "accepted" =>
                      req[s].pc \in {"deal", "unaccept"} /\ req[s].q = q

\* The arbitration as a whole, and its inductive invariant: the four above, which
\* need each other, on well-typed rows.
Arbitration ==
    TypeOK /\ SingleWinner /\ SealedIsClosed /\ DealHasAcceptedQuote /\ ExclusiveHold

\* setDealInvoice's expected states (QA-145): once the admin or the provider
\* settled a deal, paid or void, no late invoicing by the accept that created
\* it, no second settlement and no revert changes the verdict.
SettledIsFinal ==
    [][\A q \in Quotes : invoice[q] \in {"paid", "void"} => invoice'[q] = invoice[q]]_vars

\* Deal formation implements the abstract book of deals.
Book == INSTANCE DealBook WITH sealed <- {q \in Quotes : Dealt(q)}
BookSpec == Book!Spec

\* The worker's sweep reaches every RFQ past its deadline, those given back by
\* a failing accept included, unless the buyer extends it first.
LapsedIsSwept ==
    \A r \in Rfqs : (r \in lapsed) ~> (r \notin lapsed \/ rfq[r] \notin Live)

\* lib/deal.ts:39, "at most one deal is ever created per RFQ (QA-99)".
OneDealPerRfq ==
    \A p, q \in Quotes : Dealt(p) /\ Dealt(q) /\ RfqOf[p] = RfqOf[q] => p = q

\* lib/deal.ts:165, one-off inventory "can't be sold twice": of the owner's
\* deals on a one-off listing at most one is not void.
SoldOnce ==
    \A p, q \in Quotes :
        LET l == ListingOf[RfqOf[p]] IN
        /\ l \in OneOff /\ ListingOf[RfqOf[q]] = l
        /\ OpOf[p] = OwnerOf[l] /\ OpOf[q] = OwnerOf[l]
        /\ invoice[p] \notin {"none", "void"} /\ invoice[q] \notin {"none", "void"}
        => p = q
=============================================================================
