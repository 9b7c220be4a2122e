------------------------------ MODULE RfqIntake ------------------------------
(***************************************************************************)
(* The requests one buyer has on one listing and what the buyer, the admin *)
(* and the clock do to them: POST with its dedupe key, amend, extend,      *)
(* close and reopen, moderation, the buyer block, the deletion of the      *)
(* buyer's data, the expiry sweep and the end of the listing (api/rfqs,    *)
(* api/admin, api/account/delete, drizzle.ts).                             *)
(*                                                                         *)
(* A handler reads the row, decides, and writes later by a statement with  *)
(* its own guard.  The fields of a request are a body and a dateTo; a day  *)
(* of the model is a week of the calendar, so an extension dates a request *)
(* to the next day.  The dedupe key, a hash of the fields, is the fields   *)
(* it was made from.                                                       *)
(***************************************************************************)
EXTENDS Naturals, FiniteSets

CONSTANTS
    Rows,          \* rows of rfqs, inserted or not
    Bodies,        \* what a request can ask for
    Buyers,        \* requests of the buyer, admins and jobs that can be in flight
    MaxDay,        \* bound: days that pass; what a buyer asks for is dated by then
    NoRow          \* a request that has no row

ASSUME RfqIntakeAssumption == MaxDay \in Nat /\ NoRow \notin Rows /\ Bodies # {}

VARIABLES
    rfq,           \* rfq[r]: [status, body, date, key, gone, moved]: gone, its
                   \* buyer's data is deleted (mailbox, token and key are tombstones);
                   \* moved, an extension dated it since the key was made
    blocked,       \* the buyer's address is in blocked_emails
    listing,       \* "live"; "ended" once its end has begun; "swept" after its sweep
    today,
    ask            \* ask[b]: what request b is doing and what it has read

intakeVars == <<rfq, blocked, listing, today, ask>>

-----------------------------------------------------------------------------
RfqStatuses == {"none", "live", "closed", "spam"}
Dates == 0 .. MaxDay + 1
Fields == Bodies \X Dates
AskPcs == {"idle", "post", "amend", "extend", "close", "reopen",
           "spam", "block", "spamall", "erase"}

AnyFields == <<CHOOSE b \in Bodies : TRUE, 0>>
Idle == [pc |-> "idle", on |-> NoRow, fields |-> AnyFields, mine |-> {}]
FieldsOf(r) == <<rfq[r].body, rfq[r].date>>
IsLiveRow(r) == rfq[r].status = "live"

\* rfqs_dedupe_key, the unique index over live rows.
KeyTaken(k, r) == \E s \in Rows \ {r} : IsLiveRow(s) /\ ~rfq[s].gone /\ rfq[s].key = k

AskDone(b) == ask' = [ask EXCEPT ![b] = Idle]
Begin(b, pc, r, fields) ==
    ask' = [ask EXCEPT ![b] = [Idle EXCEPT !.pc = pc, !.on = r, !.fields = fields]]

\* buyerAuthorized: the row still carries the mailbox and the token.
Authorized(r) == rfq[r].status # "none" /\ ~rfq[r].gone

IntakeInit ==
    /\ rfq = [r \in Rows |-> [status |-> "none", body |-> CHOOSE b \in Bodies : TRUE,
                              date |-> 0, key |-> AnyFields, gone |-> FALSE,
                              moved |-> FALSE]]
    /\ blocked = FALSE
    /\ listing = "live"
    /\ today = 0
    /\ ask = [b \in Buyers |-> Idle]

-----------------------------------------------------------------------------
(* POST /api/rfqs.                                                          *)

\* Listing and block are checked, a live twin is replayed; only then the insert.
PostRfq(b, f) ==
    /\ ask[b].pc = "idle"
    /\ listing = "live" /\ ~blocked
    /\ f[2] \in today .. MaxDay
    /\ ~KeyTaken(f, NoRow)
    /\ Begin(b, "post", NoRow, f)
    /\ UNCHANGED <<rfq, blocked, listing, today>>

\* createRfq: on a collision the twin's id is the answer and nothing is stored.
InsertRfq(b, r) ==
    /\ ask[b].pc = "post"
    /\ rfq[r].status = "none"
    /\ LET f == ask[b].fields IN
         IF KeyTaken(f, NoRow) THEN UNCHANGED rfq
         ELSE /\ rfq' = [rfq EXCEPT ![r] = [status |-> "live", body |-> f[1], date |-> f[2],
                                           key |-> f, gone |-> FALSE,
                                           moved |-> FALSE]]
    /\ AskDone(b)
    /\ UNCHANGED <<blocked, listing, today>>

-----------------------------------------------------------------------------
(* The buyer's actions on a row: authorize on what was read, then write     *)
(* under a guard.                                                           *)

BuyerAsks(b, pc, r, f) ==
    /\ ask[b].pc = "idle" /\ Authorized(r)
    /\ Begin(b, pc, r, f)
    /\ UNCHANGED <<rfq, blocked, listing, today>>

\* PATCH: other fields, dated ahead.
AskAmend(b, r, f) == f[2] \in today .. MaxDay /\ BuyerAsks(b, "amend", r, f)

\* POST extend: a week from today, which must be later than the date it has.
AskExtend(b, r) ==
    rfq[r].date < today + 1 /\ BuyerAsks(b, "extend", r, <<rfq[r].body, today + 1>>)

AskClose(b, r) == BuyerAsks(b, "close", r, Idle.fields)

\* POST reopen: a closed request whose date is still ahead.
AskReopen(b, r) ==
    /\ rfq[r].status = "closed" /\ rfq[r].date >= today
    /\ BuyerAsks(b, "reopen", r, Idle.fields)

\* Mutation of AmendRfq: the key stays that of the fields replaced.
AmendKeepKey(b) ==
    /\ ask[b].pc = "amend"
    /\ LET r == ask[b].on
           f == ask[b].fields
       IN IF IsLiveRow(r)
          THEN /\ rfq' = [rfq EXCEPT ![r].body = f[1], ![r].date = f[2]]
          ELSE UNCHANGED rfq
    /\ AskDone(b)
    /\ UNCHANGED <<blocked, listing, today>>

\* updateRfqFields: under the row lock, new fields and a new key; refused on a
\* dead row, or when the key is a live twin's.
AmendRfq(b) ==
    /\ ask[b].pc = "amend"
    /\ LET r == ask[b].on
           f == ask[b].fields
       IN IF IsLiveRow(r) /\ ~KeyTaken(f, r)
          THEN /\ rfq' = [rfq EXCEPT ![r].body = f[1], ![r].date = f[2], ![r].key = f,
                                   ![r].moved = FALSE]
          ELSE UNCHANGED rfq
    /\ AskDone(b)
    /\ UNCHANGED <<blocked, listing, today>>

\* extendRfqDeadline: merges the date reckoned when the route read the row; the
\* dedupe key is left alone.
ExtendRfq(b) ==
    /\ ask[b].pc = "extend"
    /\ LET r == ask[b].on IN
         rfq' = IF IsLiveRow(r) THEN [rfq EXCEPT ![r].date = ask[b].fields[2], ![r].moved = TRUE]
                ELSE rfq
    /\ AskDone(b)
    /\ UNCHANGED <<blocked, listing, today>>

\* Mutation of FlipStatus: the statement has no expected statuses.
FlipAny(b) ==
    /\ ask[b].pc \in {"close", "spam", "reopen"}
    /\ LET r == ask[b].on
           to == CASE ask[b].pc = "spam" -> "spam"
                   [] ask[b].pc = "reopen" -> "live"
                   [] OTHER -> "closed"
       IN rfq' = IF to = "live" => ~KeyTaken(rfq[r].key, r)
                 THEN [rfq EXCEPT ![r].status = to] ELSE rfq
    /\ AskDone(b)
    /\ UNCHANGED <<blocked, listing, today>>

\* setRfqStatus for close, moderation and reopen: the expected statuses are the
\* live ones, or closed for a reopen, which the unique index can still refuse.
FlipStatus(b) ==
    /\ ask[b].pc \in {"close", "spam", "reopen"}
    /\ LET r == ask[b].on
           to == CASE ask[b].pc = "spam" -> "spam"
                   [] ask[b].pc = "reopen" -> "live"
                   [] OTHER -> "closed"
       IN rfq' = IF IF to = "live" THEN rfq[r].status = "closed" /\ ~KeyTaken(rfq[r].key, r)
                    ELSE IsLiveRow(r)
                 THEN [rfq EXCEPT ![r].status = to] ELSE rfq
    /\ AskDone(b)
    /\ UNCHANGED <<blocked, listing, today>>

\* POST /api/admin/rfqs/[id]/status: spam or closed.
ModerateRfq(b, r, to) ==
    /\ ask[b].pc = "idle" /\ rfq[r].status # "none"
    /\ Begin(b, to, r, Idle.fields)
    /\ UNCHANGED <<rfq, blocked, listing, today>>

-----------------------------------------------------------------------------
(* The buyer block, and the deletion of the buyer's data.                   *)

\* The toggle reads the block; a blocked address is let back in.
ToggleBlock(b) ==
    /\ ask[b].pc = "idle"
    /\ IF blocked THEN AskDone(b) /\ blocked' = FALSE
       ELSE Begin(b, "block", NoRow, Idle.fields) /\ UNCHANGED blocked
    /\ UNCHANGED <<rfq, listing, today>>

BlockBuyerEmail(b) ==
    /\ ask[b].pc = "block"
    /\ blocked' = TRUE
    /\ ask' = [ask EXCEPT ![b].pc = "spamall"]
    /\ UNCHANGED <<rfq, listing, today>>

\* spamBuyerRfqs: every live row of the address, found by the address.
SpamBuyerRfqs(b) ==
    /\ ask[b].pc = "spamall"
    /\ rfq' = [r \in Rows |-> IF IsLiveRow(r) /\ ~rfq[r].gone
                              THEN [rfq[r] EXCEPT !.status = "spam"] ELSE rfq[r]]
    /\ AskDone(b)
    /\ UNCHANGED <<blocked, listing, today>>

\* deleteBuyerData selects the rows of the mailbox ...
SelectMine(b) ==
    /\ ask[b].pc = "idle"
    /\ \E r \in Rows : Authorized(r)
    /\ ask' = [ask EXCEPT ![b] = [Idle EXCEPT !.pc = "erase",
                                    !.mine = {<<r, rfq[r].status>> :
                                                r \in {s \in Rows : Authorized(s)}}]]
    /\ UNCHANGED <<rfq, blocked, listing, today>>

\* ... and rewrites them, the status from what it selected.  (So are the fields,
\* without the contacts in them; nobody can find or read them any more.)
EraseMine(b) ==
    /\ ask[b].pc = "erase"
    /\ rfq' = [r \in Rows |->
                 IF \E m \in ask[b].mine : m[1] = r
                 THEN LET m == CHOOSE m \in ask[b].mine : m[1] = r
                      IN [rfq[r] EXCEPT !.status = IF m[2] = "live" THEN "closed" ELSE m[2],
                                        !.gone = TRUE, !.key = AnyFields, !.moved = FALSE]
                 ELSE rfq[r]]
    /\ AskDone(b)
    /\ UNCHANGED <<blocked, listing, today>>

-----------------------------------------------------------------------------
(* The market and the clock.                                                *)

\* The expiry statement closes what is past its date.
ExpireStaleRfqs ==
    /\ \E r \in Rows : IsLiveRow(r) /\ rfq[r].date < today
    /\ rfq' = [r \in Rows |-> IF IsLiveRow(r) /\ rfq[r].date < today
                              THEN [rfq[r] EXCEPT !.status = "closed"] ELSE rfq[r]]
    /\ UNCHANGED <<blocked, listing, today, ask>>

ListingEnds ==
    /\ listing = "live"
    /\ listing' = "ended"
    /\ UNCHANGED <<rfq, blocked, today, ask>>

\* closeListingRfqs, after the listing's flip.
CloseLiveRfqsForListing ==
    /\ listing = "ended"
    /\ rfq' = [r \in Rows |-> IF IsLiveRow(r) THEN [rfq[r] EXCEPT !.status = "closed"]
                              ELSE rfq[r]]
    /\ listing' = "swept"
    /\ UNCHANGED <<blocked, today, ask>>

DayPasses ==
    /\ today < MaxDay
    /\ today' = today + 1
    /\ UNCHANGED <<rfq, blocked, listing, ask>>

IntakeNext ==
    \/ \E b \in Buyers : \/ AmendRfq(b) \/ ExtendRfq(b) \/ FlipStatus(b)
                         \/ ToggleBlock(b) \/ BlockBuyerEmail(b) \/ SpamBuyerRfqs(b)
                         \/ SelectMine(b) \/ EraseMine(b)
    \/ \E b \in Buyers, f \in Fields : PostRfq(b, f)
    \/ \E b \in Buyers, r \in Rows :
          \/ InsertRfq(b, r)
          \/ \E f \in Fields : AskAmend(b, r, f)
          \/ AskExtend(b, r) \/ AskClose(b, r) \/ AskReopen(b, r)
          \/ \E to \in {"spam", "close"} : ModerateRfq(b, r, to)
    \/ ExpireStaleRfqs \/ ListingEnds \/ CloseLiveRfqsForListing \/ DayPasses

IntakeSpec == IntakeInit /\ [][IntakeNext]_intakeVars

-----------------------------------------------------------------------------
\* The variables keep to their domains.
IntakeTypeOK ==
    /\ rfq \in [Rows -> [status : RfqStatuses, body : Bodies, date : Dates,
                         key : Fields, gone : BOOLEAN, moved : BOOLEAN]]
    /\ blocked \in BOOLEAN
    /\ listing \in {"live", "ended", "swept"}
    /\ today \in 0 .. MaxDay
    /\ ask \in [Buyers -> [pc : AskPcs, on : Rows \cup {NoRow}, fields : Fields,
                           mine : SUBSET (Rows \X RfqStatuses)]]

\* No two live requests of the buyer ask the same: posts, amends, reopens and
\* deletions race over the dedupe index, and a request an extension did not date
\* anew is found under its own fields (api/rfqs, updateRfqFields).
NoTwins ==
    \A r, s \in Rows :
        r # s /\ (\A t \in {r, s} : IsLiveRow(t) /\ ~rfq[t].gone /\ ~rfq[t].moved)
        => FieldsOf(r) # FieldsOf(s)

\* What an admin marked as spam stays so until the buyer's data is deleted,
\* whatever close, reopen, expiry or block is in flight (setRfqStatus).
SpamStaysDown ==
    [][\A r \in Rows : rfq[r].status = "spam"
         => rfq'[r].status = "spam" \/ rfq'[r].gone]_intakeVars

\* Once a buyer is blocked no request of theirs is on the market: the block "kills
\* future filings", its sweep "clears what the buyer already delivered"
\* (api/admin/buyers/block/route.ts).
BlockedIsOut ==
    blocked /\ (\A b \in Buyers : ask[b].pc = "idle")
    => \A r \in Rows : ~(IsLiveRow(r) /\ ~rfq[r].gone)
=============================================================================
