----------------------------- MODULE AdminDesk -----------------------------
(***************************************************************************)
(* The admin's page (admin/page.tsx, jobs/page.tsx and their buttons)      *)
(* against the routes under api/admin, on one operator, listing, request,  *)
(* deal, mailbox, job and demand group.                                    *)
(*                                                                         *)
(* The page is rendered on the server and not refreshed until a button of  *)
(* its own was pressed: a click answers the rows as they were, and comes   *)
(* back after another admin, the buyer, the operator or the worker changed *)
(* them.  Mail, the audit feed and analytics are left out.                 *)
(***************************************************************************)
EXTENDS Naturals

CONSTANT NoClick

VARIABLES
    matter,        \* which of the page's tables the behaviour is about
    desk,          \* the rows
    click,         \* the button that was shown and is about to be pressed
    amiss          \* history: buttons that took effect where they were not offered

adminVars == <<matter, desk, click, amiss>>

Toggles == {"verify", "unverify", "suspend", "reinstate", "block", "unblock"}
Flags == {"listing", "request", "quote", "deal"}
LiveRequests == {"open", "matched", "quoted"}

AdminInit ==
    /\ matter \in {"operators", "ledger", "listings", "requests", "jobs", "demand"}
    /\ desk \in [verified : BOOLEAN, suspended : {FALSE}, blocked : {FALSE},
                 invoice : {"pending"}, rated : {FALSE}, lot : {"active"}, oneOff : BOOLEAN,
                 request : {"open"}, flags : {{}}, job : {"queued"}, backlog : {FALSE}]
    /\ matter # "operators" => desk.verified
    /\ matter \notin {"ledger", "listings"} => ~desk.oneOff
    /\ matter = "ledger" => desk.request = "open"
    /\ click = NoClick
    /\ amiss = {}

-----------------------------------------------------------------------------
(* What the page offers, table by table.                                    *)

OffersOnOperator ==
    {IF desk.verified THEN "unverify" ELSE "verify", IF desk.suspended THEN "reinstate" ELSE "suspend"}
OffersOnDeal ==
    (IF desk.invoice = "invoiced" THEN {"markPaid"} ELSE {})
      \cup (IF desk.invoice \in {"pending", "invoiced"} THEN {"void"} ELSE {})
      \cup (IF desk.invoice # "paid" THEN {"revert"} ELSE {})
      \cup (IF desk.rated THEN {"clearRating"} ELSE {})
OffersOnListing == {"paused", "archived"} \ {desk.lot}
OffersOnRequest == IF desk.request \in LiveRequests THEN {"spam", "close"} ELSE {}
OffersOnMailbox == {IF desk.blocked THEN "unblock" ELSE "block"}
OffersOnFlags == desk.flags
OffersOnJob == IF desk.job = "failed" THEN {"retry"} ELSE {}
OffersOnDemand == IF desk.backlog THEN {"flush"} ELSE {}

\* A flag's row is its own dismissal button, named by what was flagged, beside the
\* buttons of the rows it reaches.
Offered ==
    CASE matter = "operators" -> OffersOnOperator
      [] matter = "ledger" -> OffersOnDeal
      [] matter = "listings" -> OffersOnListing \cup OffersOnFlags
      [] matter = "requests" -> OffersOnRequest \cup OffersOnMailbox \cup OffersOnFlags
      [] matter = "jobs" -> OffersOnJob
      [] matter = "demand" -> OffersOnDemand

-----------------------------------------------------------------------------
(* The routes.  Each is the whole handler; what it refuses is a 409.        *)

\* The routes flip what they find, whatever the button said.
ToggleVerified == desk' = [desk EXCEPT !.verified = ~@]
ToggleSuspended == desk' = [desk EXCEPT !.suspended = ~@]

MarkPaid ==
    /\ desk.invoice = "invoiced"
    /\ desk' = [desk EXCEPT !.invoice = "paid"]
VoidInvoice ==
    /\ desk.invoice \in {"pending", "invoiced"}
    /\ desk' = [desk EXCEPT !.invoice = "void"]
\* A deal that is void already is not refused: the restore is run again.
RevertDeal ==
    /\ desk.invoice # "paid"
    /\ desk' = [desk EXCEPT !.invoice = "void",
                            !.lot = IF @ = "sold" THEN "active" ELSE @]
ClearRating ==
    /\ desk.rated
    /\ desk' = [desk EXCEPT !.rated = FALSE]

\* Over any status; archiving clears the flags and ends the live request.
Moderate(status) ==
    desk' = IF status = "paused" THEN [desk EXCEPT !.lot = "paused"]
            ELSE [desk EXCEPT !.lot = "archived", !.flags = @ \ {"listing"},
                              !.request = IF @ \in LiveRequests THEN "closed" ELSE @]

\* setRfqStatus is a compare-and-set over the live states; the flags die with it.
ModerateRfq(status) ==
    /\ desk.request \in LiveRequests
    /\ desk' = [desk EXCEPT !.request = status, !.flags = @ \ {"request"}]

\* The block bins the live request and clears what the mailbox flagged.
ToggleBlocked ==
    desk' = IF desk.blocked THEN [desk EXCEPT !.blocked = FALSE]
            ELSE [desk EXCEPT !.blocked = TRUE, !.flags = {}, !.backlog = FALSE,
                              !.request = IF @ \in LiveRequests THEN "spam" ELSE @]

DismissReport(flag) ==
    /\ flag \in desk.flags
    /\ desk' = [desk EXCEPT !.flags = @ \ {flag}]
\* Mutation of RetryJob: the word of another table.
RetryPending ==
    /\ desk.job = "failed"
    /\ desk' = [desk EXCEPT !.job = "pending"]
RetryJob ==
    /\ desk.job = "failed"
    /\ desk' = [desk EXCEPT !.job = "queued"]
\* Sent, or cleared of what is gone; a failed mail keeps the backlog.
FlushDemand ==
    /\ desk.backlog
    /\ desk' \in {desk, [desk EXCEPT !.backlog = FALSE]}

Route(button) ==
    \/ button \in {"verify", "unverify"} /\ ToggleVerified
    \/ button \in {"suspend", "reinstate"} /\ ToggleSuspended
    \/ button = "markPaid" /\ MarkPaid
    \/ button = "void" /\ VoidInvoice
    \/ button = "revert" /\ RevertDeal
    \/ button = "clearRating" /\ ClearRating
    \/ button \in {"paused", "archived"} /\ Moderate(button)
    \/ button = "spam" /\ ModerateRfq("spam")
    \/ button = "close" /\ ModerateRfq("closed")
    \/ button \in {"block", "unblock"} /\ ToggleBlocked
    \/ button \in Flags /\ DismissReport(button)
    \/ button = "retry" /\ RetryJob
    \/ button = "flush" /\ FlushDemand

\* The conditions under which the routes above answer without an error.
Takes(button) ==
    CASE button = "markPaid" -> desk.invoice = "invoiced"
      [] button = "void" -> desk.invoice \in {"pending", "invoiced"}
      [] button = "revert" -> desk.invoice # "paid"
      [] button = "clearRating" -> desk.rated
      [] button \in {"spam", "close"} -> desk.request \in LiveRequests
      [] button \in Flags -> button \in desk.flags
      [] button = "retry" -> desk.job = "failed"
      [] button = "flush" -> desk.backlog
      [] OTHER -> TRUE

-----------------------------------------------------------------------------
(* The page, and the others.                                                *)

Look(button) ==
    /\ click = NoClick
    /\ button \in Offered
    /\ click' = button
    /\ UNCHANGED <<matter, desk, amiss>>

Press ==
    /\ click # NoClick /\ Route(click)
    /\ amiss' = IF click \notin Offered /\ desk' # desk THEN amiss \cup {click} ELSE amiss
    /\ click' = NoClick
    /\ UNCHANGED matter

Refuse ==
    /\ click # NoClick /\ ~Takes(click)
    /\ click' = NoClick
    /\ UNCHANGED <<matter, desk, amiss>>

\* Another admin, on a page that is fresh.
Colleague(button) ==
    /\ button \in Offered
    /\ Route(button)
    /\ UNCHANGED <<matter, click, amiss>>

Becomes(d) == desk' = d /\ UNCHANGED <<matter, click, amiss>>

\* The invoice is raised, the buyer rates the deal and flags it.
Business ==
    \/ desk.invoice = "pending" /\ Becomes([desk EXCEPT !.invoice = "invoiced"])
    \/ desk.invoice # "void" /\ ~desk.rated /\ Becomes([desk EXCEPT !.rated = TRUE])

\* The operator pauses, reactivates or archives; the accept sells a one-off.
Trade ==
    \/ desk.lot = "active" /\ \E s \in {"paused", "archived"} \cup (IF desk.oneOff THEN {"sold"} ELSE {}) :
         Becomes([desk EXCEPT !.lot = s, !.request = IF s # "paused" /\ @ \in LiveRequests THEN "closed" ELSE @])
    \/ desk.lot = "paused" /\ ~desk.suspended /\ Becomes([desk EXCEPT !.lot = "active"])
    \/ desk.lot \notin {"archived", "sold"} /\ Becomes([desk EXCEPT !.flags = @ \cup {"listing"}])

\* The fan-out, offers, the buyer's close, the sweep, a reopen; flags come in.
Demand ==
    \/ desk.request = "open" /\ Becomes([desk EXCEPT !.request = "matched"])
    \/ desk.request = "matched" /\ Becomes([desk EXCEPT !.request = "quoted"])
    \/ desk.request \in LiveRequests /\ \E s \in {"closed", "expired"} : Becomes([desk EXCEPT !.request = s])
    \/ desk.request = "closed" /\ Becomes([desk EXCEPT !.request = "open"])
    \/ desk.request \in LiveRequests /\ Becomes([desk EXCEPT !.flags = @ \cup {"request"}])
    \/ ~desk.blocked /\ \E f \in {"quote", "deal"} : Becomes([desk EXCEPT !.flags = @ \cup {f}])

Worker ==
    /\ desk.job = "queued"
    /\ \E s \in {"done", "failed"} : Becomes([desk EXCEPT !.job = s])

Digests ==
    \/ ~desk.backlog /\ Becomes([desk EXCEPT !.backlog = TRUE])
    \/ desk.backlog /\ Becomes([desk EXCEPT !.backlog = FALSE])

AdminNext ==
    \/ \E button \in Offered : Look(button) \/ Colleague(button)
    \/ Press \/ Refuse
    \/ matter = "ledger" /\ (Business \/ Trade)
    \/ matter = "listings" /\ Trade
    \/ matter = "requests" /\ Demand
    \/ matter = "jobs" /\ Worker
    \/ matter = "demand" /\ Digests

-----------------------------------------------------------------------------
\* A fresh page offers nothing its route refuses.
AdminButtonsWork == \A button \in Offered : Takes(button)

\* From a stale page, only a toggle does what the page would no longer offer: it
\* then does the opposite of its label.  An archive repeated clears the flags that
\* the operator's own archive left.
OnlyTogglesMisfire == amiss \subseteq Toggles \cup {"archived"}

AdminTypeOK ==
    /\ desk \in [verified : BOOLEAN, suspended : BOOLEAN, blocked : BOOLEAN,
                 invoice : {"pending", "invoiced", "paid", "void"}, rated : BOOLEAN,
                 lot : {"active", "paused", "archived", "sold"}, oneOff : BOOLEAN,
                 request : LiveRequests \cup {"closed", "expired", "spam"}, flags : SUBSET Flags,
                 job : {"queued", "done", "failed"}, backlog : BOOLEAN]
    /\ amiss \subseteq Toggles \cup Flags \cup {"markPaid", "void", "revert", "clearRating", "paused",
                 "archived", "spam", "close", "retry", "flush"}
=============================================================================
