----------------------------- MODULE ListingBook -----------------------------
(***************************************************************************)
(* The listings of one operator and the requests that change them: create, *)
(* duplicate, PATCH and DELETE by the operator (api/listings), moderation  *)
(* by the admin, the sold and unsold flips of deals, against a plan that   *)
(* the billing changes and a suspension the admin toggles.                 *)
(*                                                                         *)
(* A request reads the listing and the account, decides, and writes later; *)
(* a write under the plan cap is a transaction that locks the operator's   *)
(* row, counts, and commits.  Title, price, photos and attributes are left *)
(* out, and so is who is told of a change (AlertDigest, DealFlow).         *)
(***************************************************************************)
EXTENDS Naturals, FiniteSets

CONSTANTS
    Listings,      \* rows of listings, inserted or not
    Calls,         \* requests of the operator and of admins in flight
    Cap,           \* FREE_LISTING_LIMIT
    NoListing      \* a request that has no listing (yet)

ASSUME ListingBookAssumption ==
    /\ Cap \in Nat
    /\ IsFiniteSet(Listings)
    /\ NoListing \notin Listings

VARIABLES
    shelf,         \* shelf[l]: status of the listing; "none" when there is no row
    plan,          \* operators.plan
    suspended,     \* operators.suspended
    opLock,        \* the requests whose transaction holds the operator's row
    call,          \* call[c]: what request c is doing and what it has read
    exempt         \* history: listings that count without a count having let them in

bookVars == <<shelf, plan, suspended, opLock, call, exempt>>

-----------------------------------------------------------------------------
Ended == {"archived", "sold"}
Counted == {"draft", "active", "paused"}
Statuses == {"none"} \cup Counted \cup Ended
Pcs == {"idle", "create", "insert", "patch", "row", "count", "put", "moderate",
        "delete"}
Unplaced == {"idle", "create", "insert"}
CallState == {r \in [pc : Pcs, on : Listings \cup {NoListing}, seen : Statuses, to : Statuses,
                     capped : BOOLEAN] : r.pc \in Unplaced \/ r.on \in Listings}

Resting == [pc |-> "idle", on |-> NoListing, seen |-> "none", to |-> "none",
            capped |-> FALSE]

\* The rows the cap counts: everything but archived and sold.
OnBook == {l \in Listings : shelf[l] \in Counted}
Capped == plan = "free"

Goto(c, pc) == call' = [call EXCEPT ![c].pc = pc]
Done(c) == call' = [call EXCEPT ![c] = Resting]

\* A row takes a status; a row that starts to count without the count having
\* let it in is exempt for as long as it counts.
Put(l, st, letIn) ==
    /\ shelf' = [shelf EXCEPT ![l] = st]
    /\ exempt' = IF st \notin Counted THEN exempt \ {l}
                 ELSE IF shelf[l] \in Counted \/ letIn THEN exempt
                 ELSE exempt \cup {l}

BookInit ==
    /\ shelf = [l \in Listings |-> "none"]
    /\ plan = "free"
    /\ suspended = FALSE
    /\ opLock = {}
    /\ call = [c \in Calls |-> Resting]
    /\ exempt = {}

-----------------------------------------------------------------------------
(* POST /api/listings and /api/listings/[id]/duplicate.                     *)

\* The route reads the account: the cap is passed on for a free plan only.
CreateListing(c) ==
    /\ call[c].pc = "idle" /\ ~suspended
    /\ call' = [call EXCEPT ![c] = [Resting EXCEPT !.pc = "create", !.to = "active",
                                                   !.capped = Capped]]
    /\ UNCHANGED <<shelf, plan, suspended, opLock, exempt>>

\* A copy of any row of the operator, as a draft; nothing asks for a suspension.
DuplicateListing(c, l) ==
    /\ call[c].pc = "idle" /\ shelf[l] # "none"
    /\ call' = [call EXCEPT ![c] = [Resting EXCEPT !.pc = "create", !.to = "draft",
                                                   !.capped = Capped]]
    /\ UNCHANGED <<shelf, plan, suspended, opLock, exempt>>

\* createListing without a cap is one insert.
InsertUncapped(c, l) ==
    /\ call[c].pc = "create" /\ ~call[c].capped
    /\ shelf[l] = "none"
    /\ Put(l, call[c].to, FALSE)
    /\ Done(c)
    /\ UNCHANGED <<plan, suspended, opLock>>

\* Mutation of LockAndCount: the operator's row is not locked.
CountUnlocked(c) ==
    /\ call[c].pc = "create" /\ call[c].capped
    /\ IF Cardinality(OnBook) >= Cap
       THEN Done(c) /\ UNCHANGED opLock
       ELSE Goto(c, "insert") /\ opLock' = opLock \cup {c}
    /\ UNCHANGED <<shelf, plan, suspended, exempt>>

\* The capped transaction: lock the operator's row, count, refuse or go on.
LockAndCount(c) ==
    /\ call[c].pc = "create" /\ call[c].capped
    /\ opLock = {}
    /\ IF Cardinality(OnBook) >= Cap
       THEN Done(c) /\ UNCHANGED opLock
       ELSE Goto(c, "insert") /\ opLock' = {c}
    /\ UNCHANGED <<shelf, plan, suspended, exempt>>

InsertCapped(c, l) ==
    /\ call[c].pc = "insert"
    /\ shelf[l] = "none"
    /\ Put(l, call[c].to, TRUE)
    /\ opLock' = opLock \ {c}
    /\ Done(c)
    /\ UNCHANGED <<plan, suspended>>

-----------------------------------------------------------------------------
(* PATCH /api/listings/[id], the status half.                               *)

\* The route reads the listing and the account and decides on what it read; an
\* ended listing only takes the status it has.
PatchListing(c, l, to) ==
    /\ call[c].pc = "idle" /\ ~suspended
    /\ shelf[l] # "none"
    /\ shelf[l] \in Ended => to = shelf[l]
    /\ LET capped == to = "active" /\ shelf[l] # "active" /\ Capped IN
         call' = [call EXCEPT ![c] =
                    [pc |-> IF capped THEN "row" ELSE "patch", on |-> l,
                     seen |-> shelf[l], to |-> to, capped |-> capped]]
    /\ UNCHANGED <<shelf, plan, suspended, opLock, exempt>>

\* updateListingStatus without a cap: by id alone, over any status.
WriteStatus(c) ==
    /\ call[c].pc = "patch"
    /\ LET l == call[c].on IN
         IF shelf[l] = "none" THEN UNCHANGED <<shelf, exempt>>
         ELSE Put(l, call[c].to, FALSE)
    /\ Done(c)
    /\ UNCHANGED <<plan, suspended, opLock>>

\* updateListingStatus with a cap reads the row before it takes the lock; the
\* row's own status decides whether the count below includes it.
ReadRow(c) ==
    /\ call[c].pc = "row"
    /\ LET l == call[c].on IN
         IF shelf[l] = "none" THEN Done(c)
         ELSE call' = [call EXCEPT ![c].pc = "count", ![c].seen = shelf[l]]
    /\ UNCHANGED <<shelf, plan, suspended, opLock, exempt>>

\* Lock, count, take the row itself off when it was read as counted.
CountOthers(c) ==
    /\ call[c].pc = "count" /\ opLock = {}
    /\ LET own == IF call[c].seen \in Ended THEN 0 ELSE 1 IN
         IF Cardinality(OnBook) >= Cap + own
         THEN Done(c) /\ UNCHANGED opLock
         ELSE Goto(c, "put") /\ opLock' = {c}
    /\ UNCHANGED <<shelf, plan, suspended, exempt>>

\* The row is active; one that was read as ended was let in by the count, one
\* that was read as counted needed no place.
PutActive(c) ==
    /\ call[c].pc = "put"
    /\ LET l == call[c].on IN
         IF shelf[l] = "none" THEN UNCHANGED <<shelf, exempt>>
         ELSE Put(l, "active", call[c].seen \in Ended)
    /\ opLock' = opLock \ {c}
    /\ Done(c)
    /\ UNCHANGED <<plan, suspended>>

-----------------------------------------------------------------------------
(* DELETE, moderation, and what the rest of the system does to the book.    *)

\* The route lets drafts and archived rows through and ends their watches...
DeleteListing(c, l) ==
    /\ call[c].pc = "idle"
    /\ shelf[l] \in {"draft", "archived"}
    /\ call' = [call EXCEPT ![c] = [Resting EXCEPT !.pc = "delete", !.on = l,
                                                   !.seen = shelf[l]]]
    /\ UNCHANGED <<shelf, plan, suspended, opLock, exempt>>

\* Mutation of DeleteRow: the row is kept under a status nothing else knows.
DeleteSoftly(c) ==
    /\ call[c].pc = "delete"
    /\ LET l == call[c].on IN
         IF shelf[l] \in {"draft", "archived"} THEN Put(l, "deleted", FALSE)
         ELSE UNCHANGED <<shelf, exempt>>
    /\ Done(c)
    /\ UNCHANGED <<plan, suspended, opLock>>

\* ... and the delete itself asks again.
DeleteRow(c) ==
    /\ call[c].pc = "delete"
    /\ LET l == call[c].on IN
         IF shelf[l] \in {"draft", "archived"} THEN Put(l, "none", FALSE)
         ELSE UNCHANGED <<shelf, exempt>>
    /\ Done(c)
    /\ UNCHANGED <<plan, suspended, opLock>>

\* POST /api/admin/listings/[id]/status: paused or archived over anything.
ModerateListing(c, l, to) ==
    /\ call[c].pc = "idle" /\ shelf[l] # "none"
    /\ call' = [call EXCEPT ![c] = [Resting EXCEPT !.pc = "moderate", !.on = l, !.to = to]]
    /\ UNCHANGED <<shelf, plan, suspended, opLock, exempt>>

WriteModeration(c) ==
    /\ call[c].pc = "moderate"
    /\ LET l == call[c].on IN
         IF shelf[l] = "none" THEN UNCHANGED <<shelf, exempt>>
         ELSE Put(l, call[c].to, FALSE)
    /\ Done(c)
    /\ UNCHANGED <<plan, suspended, opLock>>

\* A deal sells a one-off listing and ends its watches; a revert or a void puts
\* it back on sale.
SoldByDeal(l) ==
    /\ shelf[l] \in {"active", "paused"}
    /\ Put(l, "sold", FALSE)
    /\ UNCHANGED <<plan, suspended, opLock, call>>

BackOnSale(l) ==
    /\ shelf[l] = "sold"
    /\ Put(l, "active", FALSE)
    /\ UNCHANGED <<plan, suspended, opLock, call>>

SetOperatorPlan(p) ==
    /\ plan' = p
    /\ UNCHANGED <<shelf, suspended, opLock, call, exempt>>

ToggleSuspension ==
    /\ suspended' = ~suspended
    /\ UNCHANGED <<shelf, plan, opLock, call, exempt>>

BookNext ==
    \/ \E c \in Calls : \/ CreateListing(c) \/ LockAndCount(c)
                        \/ WriteStatus(c) \/ ReadRow(c) \/ CountOthers(c) \/ PutActive(c)
                        \/ DeleteRow(c) \/ WriteModeration(c)
    \/ \E c \in Calls, l \in Listings :
          \/ DuplicateListing(c, l) \/ InsertUncapped(c, l) \/ InsertCapped(c, l)
          \/ DeleteListing(c, l)
          \/ \E to \in Counted \cup Ended : PatchListing(c, l, to)
          \/ \E to \in {"paused", "archived"} : ModerateListing(c, l, to)
    \/ \E l \in Listings : SoldByDeal(l) \/ BackOnSale(l)
    \/ \E p \in {"free", "pro"} : SetOperatorPlan(p)
    \/ ToggleSuspension

BookSpec == BookInit /\ [][BookNext]_bookVars

-----------------------------------------------------------------------------
\* The variables keep to their domains.
BookTypeOK ==
    /\ shelf \in [Listings -> Statuses]
    /\ plan \in {"free", "pro"}
    /\ suspended \in BOOLEAN
    /\ opLock \subseteq Calls
    /\ call \in [Calls -> CallState]
    /\ exempt \subseteq Listings

\* A free account never holds more counted listings than the cap, those aside
\* that no count ever let in: written while the plan was read as pro, put back
\* over an ended row, or brought back by a revert.  However many creates and
\* duplicates race, a place is given once (createListing, drizzle.ts).
CapHolds == Cardinality(OnBook \ exempt) <= Cap

\* A listing an admin archived or a deal consumed does not come back on sale by a
\* request of the operator or an admin ("must not come back on a PATCH, nor
\* through a two-hop", api/listings/[id]/route.ts).
EndedStaysDown ==
    [][\A l \in Listings :
         shelf[l] \in Ended /\ call' # call => shelf'[l] # "active"]_bookVars
=============================================================================
