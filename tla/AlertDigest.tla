----------------------------- MODULE AlertDigest -----------------------------
(***************************************************************************)
(* What one confirmed saved search is mailed.  A listing that starts to    *)
(* match mails at once, or is queued: inside the cooldown of the last mail *)
(* and, for a daily search, always.  The queue is mailed as one digest by  *)
(* the next listing, by the worker once the cooldown is over, or by the    *)
(* admin (lib/search-alerts.ts, searchAlertFlush, alertBacklogs).          *)
(*                                                                         *)
(* A sender reads the queue, reads which listings are still live, mails,   *)
(* and only then empties the queue; a mail can fail and a sender can die.  *)
(* AlertConsent models how a search comes to be active.                    *)
(***************************************************************************)
EXTENDS Naturals, FiniteSets

CONSTANTS
    Lots,          \* listings that match the search
    Hooked,        \* web requests that can be in flight
    MaxFaults,     \* bound: mails that fail and senders that die
    Sweeper,       \* the worker's flush
    NoLot          \* a flush has no listing of its own

ASSUME AlertDigestAssumption ==
    MaxFaults \in Nat /\ NoLot \notin Lots /\ Sweeper \notin Hooked

VARIABLES
    daily,         \* search_alerts.freq
    armed,         \* its status is active
    onSale,        \* the listings that are active
    queue,         \* search_alerts.pending_ids
    lastMail,      \* last_alerted_at: "never", "recent" or "old"
    aged,          \* the subscription is older than the cooldown
    sender,        \* sender[p]: [pc, lot, lots]
    faults,
    owed,          \* history: queued, and in no digest since
    mingled        \* history: two requests about the search overlapped

digestVars == <<daily, armed, onSale, queue, lastMail, aged, sender, faults, owed, mingled>>

-----------------------------------------------------------------------------
Senders == Hooked \cup {Sweeper}
SenderPcs == {"idle", "append", "load", "send", "mark"}
NoSender == [pc |-> "idle", lot |-> NoLot, lots |-> {}]

Busy == {p \in Senders : sender[p].pc # "idle"}
Finish(p) == sender' = [sender EXCEPT ![p] = NoSender]
Start(p, pc, lot, lots) ==
    /\ sender' = [sender EXCEPT ![p] = [pc |-> pc, lot |-> lot, lots |-> lots]]
    /\ mingled' = (mingled \/ Busy # {})

\* Mutation of Matured: no coalesce, a search that was never mailed never matures.
MaturedNoCoalesce == lastMail = "old"

\* alertBacklogs: the last mail, or else the subscription, is past the cooldown.
Matured == IF lastMail = "never" THEN aged ELSE lastMail = "old"

DigestInit ==
    /\ daily \in BOOLEAN
    /\ armed = TRUE
    /\ onSale = {}
    /\ queue = {}
    /\ lastMail = "never"
    /\ aged = FALSE
    /\ sender = [p \in Senders |-> NoSender]
    /\ faults = 0
    /\ owed = {}
    /\ mingled = FALSE

-----------------------------------------------------------------------------
\* alertSavedSearches for a listing that was activated or edited live: on what it
\* read of the search it queues the listing or mails it with the backlog.
AlertSavedSearches(p, l) ==
    /\ sender[p].pc = "idle" /\ armed
    /\ onSale' = onSale \cup {l}
    /\ Start(p, IF daily \/ lastMail = "recent" THEN "append" ELSE "load", l, queue)
    /\ UNCHANGED <<daily, armed, queue, lastMail, aged, faults, owed>>

\* appendSearchAlertPending: a distinct append.
AppendPending(p) ==
    /\ sender[p].pc = "append"
    /\ queue' = queue \cup {sender[p].lot}
    /\ owed' = owed \cup {sender[p].lot}
    /\ Finish(p)
    /\ UNCHANGED <<daily, armed, onSale, lastMail, aged, faults, mingled>>

\* searchAlertFlush and the admin's flush read an active search with a backlog;
\* only the worker waits for the cooldown.
SearchAlertFlush ==
    /\ sender[Sweeper].pc = "idle"
    /\ armed /\ queue # {} /\ Matured
    /\ Start(Sweeper, "load", NoLot, queue)
    /\ UNCHANGED <<daily, armed, onSale, queue, lastMail, aged, faults, owed>>

AdminFlush(p) ==
    /\ sender[p].pc = "idle"
    /\ armed /\ queue # {}
    /\ Start(p, "load", NoLot, queue)
    /\ UNCHANGED <<daily, armed, onSale, queue, lastMail, aged, faults, owed>>

\* Of the backlog, the listings that are still live.  None of them and no listing
\* of its own: the queue is emptied without a mail.
LoadDigest(p) ==
    /\ sender[p].pc = "load"
    /\ LET live == sender[p].lots \cap onSale IN
         sender' = [sender EXCEPT
           ![p].pc = IF live = {} /\ sender[p].lot = NoLot THEN "mark" ELSE "send"]
    /\ UNCHANGED <<daily, armed, onSale, queue, lastMail, aged, faults, owed, mingled>>

\* Mutation of SendDigest: the queue is emptied before the mail.
MarkFirst(p) ==
    /\ sender[p].pc = "send"
    /\ queue' = {}
    /\ lastMail' = "recent"
    /\ IF faults < MaxFaults
       THEN faults' = faults + 1 /\ UNCHANGED owed /\ Finish(p)
       ELSE /\ owed' = owed \ sender[p].lots
            /\ Finish(p)
            /\ UNCHANGED faults
    /\ UNCHANGED <<daily, armed, onSale, aged, mingled>>

SendDigest(p) ==
    /\ sender[p].pc = "send"
    /\ sender' = [sender EXCEPT ![p].pc = "mark"]
    /\ UNCHANGED <<daily, armed, onSale, queue, lastMail, aged, faults, owed, mingled>>

\* markSearchAlerted: the whole queue, whatever it holds by now.
MarkSearchAlerted(p) ==
    /\ sender[p].pc = "mark"
    /\ queue' = {}
    /\ lastMail' = "recent"
    /\ owed' = owed \ sender[p].lots
    /\ Finish(p)
    /\ UNCHANGED <<daily, armed, onSale, aged, faults, mingled>>

\* The mail fails and the queue stays; or the sender dies.
SenderFails(p) ==
    /\ faults < MaxFaults
    /\ sender[p].pc \in {"load", "send", "mark"}
    /\ faults' = faults + 1
    /\ Finish(p)
    /\ UNCHANGED <<daily, armed, onSale, queue, lastMail, aged, owed, mingled>>

-----------------------------------------------------------------------------
(* The rest of the system.                                                  *)

ListingLeaves(l) ==
    /\ l \in onSale
    /\ onSale' = onSale \ {l}
    /\ UNCHANGED <<daily, armed, queue, lastMail, aged, sender, faults, owed, mingled>>

\* Paused, turned off, confirmed again (AlertConsent); the queue stays.
MuteOrArm ==
    /\ armed' = ~armed
    /\ UNCHANGED <<daily, onSale, queue, lastMail, aged, sender, faults, owed, mingled>>

CooldownPasses ==
    /\ ~aged \/ lastMail = "recent"
    /\ aged' = TRUE
    /\ lastMail' = IF lastMail = "recent" THEN "old" ELSE lastMail
    /\ UNCHANGED <<daily, armed, onSale, queue, sender, faults, owed, mingled>>

SenderSteps(p) == LoadDigest(p) \/ SendDigest(p) \/ MarkSearchAlerted(p)

DigestNext ==
    \/ \E p \in Hooked : \/ AppendPending(p) \/ AdminFlush(p)
                         \/ \E l \in Lots : AlertSavedSearches(p, l)
    \/ \E p \in Senders : SenderSteps(p) \/ SenderFails(p)
    \/ SearchAlertFlush
    \/ \E l \in Lots : ListingLeaves(l)
    \/ MuteOrArm \/ CooldownPasses

\* The worker polls, and time passes.
DigestFairness ==
    /\ WF_digestVars(SearchAlertFlush)
    /\ WF_digestVars(SenderSteps(Sweeper))
    /\ WF_digestVars(CooldownPasses)

DigestSpec == DigestInit /\ [][DigestNext]_digestVars /\ DigestFairness

-----------------------------------------------------------------------------
\* The variables keep to their domains.
DigestTypeOK ==
    /\ daily \in BOOLEAN /\ armed \in BOOLEAN /\ aged \in BOOLEAN /\ mingled \in BOOLEAN
    /\ onSale \subseteq Lots /\ queue \subseteq Lots /\ owed \subseteq Lots
    /\ lastMail \in {"never", "recent", "old"}
    /\ sender \in [Senders -> [pc : SenderPcs, lot : Lots \cup {NoLot}, lots : SUBSET Lots]]
    /\ faults \in 0 .. MaxFaults

\* A queued match is not lost: it stays queued until a digest has taken it up,
\* whichever mails fail and senders die half way ("mark is post-send so a send
\* failure can't lose the backlog", searchAlertFlush), as long as no two
\* requests about the search overlap.
BacklogKept == ~mingled => owed \subseteq queue

\* The same without the exception: an append that lands between a sender's read
\* and its mark is wiped with the queue.
NothingWiped == owed \subseteq queue

\* The backlog of a search that stays active is mailed in the end, a daily one
\* that was never mailed before too (alertBacklogs).
BacklogServed == queue # {} /\ armed ~> queue = {} \/ ~armed
=============================================================================
