---------------------------- MODULE BackendDesk ----------------------------
(***************************************************************************)
(* One mailbox and everything the marketplaces hold about it - requests,   *)
(* their edits and counters, flags, search alerts, the account, the block  *)
(* list - in the two repositories called in lockstep (lib/repo/memory.ts,  *)
(* lib/repo/drizzle.ts), up to the owner's deletion of it all.             *)
(*                                                                         *)
(* Postgres removes what hangs on a deleted row through its foreign keys   *)
(* (packages/db/src/schema.ts), memory with loops of its own.  Counts are  *)
(* what a call returns, except counterScrubbed, where memory counts a      *)
(* quote with noted rounds once and Postgres counts the rounds.            *)
(***************************************************************************)
EXTENDS Naturals, FiniteSets

CONSTANTS
    Verticals,     \* the marketplaces that share the database
    Here,          \* the one whose rows move; the others start full
    Kinds,         \* what a buyer flags: quotes, deals
    Reports        \* the ids of flags

ASSUME DeskAssumption ==
    /\ Here \in Verticals
    /\ IsFiniteSet(Reports)

VARIABLES
    store,         \* MemoryRepo
    base,          \* Postgres
    heard,         \* the two answered the last call alike
    gone           \* history: marketplaces that deleted the mailbox's data and
                   \* have not heard from it since

deskVars == <<store, base, heard, gone>>

-----------------------------------------------------------------------------
RfqStates == {"none", "live", "closed", "spam"}
Trails == {"none", "mine", "clean"}
Flag == [kind : Kinds, at : Verticals, open : BOOLEAN, mine : BOOLEAN]
NoFlag == [kind |-> "none"]
ListingFlags == {"none", "open", "dismissed"}

\* One request per marketplace with one quote on it; rows of other mailboxes
\* look like nothing of what follows.
Place(full) ==
    [rfq |-> IF full THEN "live" ELSE "none", mine |-> full, fields |-> full,
     rungs |-> IF full THEN "mine" ELSE "none", counter |-> full, noted |-> full,
     alert |-> full]
Empty ==
    [at |-> [v \in Verticals |-> Place(v # Here)], flag |-> [f \in Reports |-> NoFlag],
     user |-> "none", listed |-> TRUE, onListing |-> "none", blocked |-> FALSE]

DeskInit ==
    /\ store = Empty
    /\ base = Empty
    /\ heard = TRUE
    /\ gone = {}

Answer(db, a) == [db |-> db, answer |-> a]
BothDesks(m, s) ==
    /\ store' = m.db
    /\ base' = s.db
    /\ heard' = (m.answer = s.answer)

-----------------------------------------------------------------------------
\* createQuoteReport, createDealReport: memory scans for the mailbox's open flag,
\* Postgres has a unique index over the open rows.
MemFile(f, k, v) ==
    IF \E g \in Reports : store.flag[g] = [kind |-> k, at |-> v, open |-> TRUE, mine |-> TRUE]
    THEN Answer(store, "null")
    ELSE Answer([store EXCEPT !.flag[f] = [kind |-> k, at |-> v, open |-> TRUE, mine |-> TRUE]],
                "yes")
OpenDedupe(rows) ==
    \A f, g \in Reports :
        (f # g /\ rows[f] # NoFlag /\ rows[f] = rows[g]) => ~rows[f].open \/ ~rows[f].mine
SqlFile(f, k, v) ==
    LET row == [kind |-> k, at |-> v, open |-> TRUE, mine |-> TRUE] IN
    IF OpenDedupe([base.flag EXCEPT ![f] = row])
    THEN Answer([base EXCEPT !.flag[f] = row], "yes")
    ELSE Answer(base, "null")

\* resolveXReport: once, while open.
MemResolve(f) ==
    IF store.flag[f] = NoFlag \/ ~store.flag[f].open THEN Answer(store, "no")
    ELSE Answer([store EXCEPT !.flag[f].open = FALSE], "yes")
SqlResolve(f) ==
    IF base.flag[f] # NoFlag /\ base.flag[f].open
    THEN Answer([base EXCEPT !.flag[f].open = FALSE], "yes")
    ELSE Answer(base, "no")

\* resolveXReportsByReporter: the flags of a blocked mailbox leave the queue.
Filed(rows, k) == {f \in Reports : rows[f] # NoFlag /\ rows[f].kind = k /\ rows[f].open /\ rows[f].mine}
MemResolveMine(k) ==
    Answer([store EXCEPT !.flag = [f \in Reports |->
              IF f \in Filed(store.flag, k) THEN [@[f] EXCEPT !.open = FALSE] ELSE @[f]]],
           Cardinality(Filed(store.flag, k)))
SqlResolveMine(k) ==
    Answer([base EXCEPT !.flag = [f \in Reports |->
              IF f \in Filed(base.flag, k) THEN [@[f] EXCEPT !.open = FALSE] ELSE @[f]]],
           Cardinality(Filed(base.flag, k)))

\* The flag of a listing hangs on the account that filed it and on the listing.
MemFlagListing ==
    IF store.onListing = "open" THEN Answer(store, "null")
    ELSE Answer([store EXCEPT !.onListing = "open"], "yes")
SqlFlagListing ==
    IF base.onListing = "open" THEN Answer(base, "null")
    ELSE Answer([base EXCEPT !.onListing = "open"], "yes")
MemResolveListing ==
    IF store.onListing # "open" THEN Answer(store, 0)
    ELSE Answer([store EXCEPT !.onListing = "dismissed"], 1)
SqlResolveListing ==
    IF base.onListing # "open" THEN Answer(base, 0)
    ELSE Answer([base EXCEPT !.onListing = "dismissed"], 1)

\* deleteListing's loop over the reports, and the foreign key.
MemDropListing == Answer([store EXCEPT !.listed = FALSE, !.onListing = "none"], "yes")
SqlDropListing == Answer([base EXCEPT !.listed = FALSE, !.onListing = "none"], "yes")

\* blockBuyerEmail, then spamBuyerRfqs: only live requests flip.
MemBlock(v) ==
    LET hit == store.at[v].mine /\ store.at[v].rfq = "live" IN
    Answer([store EXCEPT !.blocked = TRUE, !.at[v].rfq = IF hit THEN "spam" ELSE @], hit)
SqlBlock(v) ==
    LET hit == base.at[v].mine /\ base.at[v].rfq = "live" IN
    Answer([base EXCEPT !.blocked = TRUE, !.at[v].rfq = IF hit THEN "spam" ELSE @], hit)
MemUnblock == Answer([store EXCEPT !.blocked = FALSE], store.blocked)
SqlUnblock == Answer([base EXCEPT !.blocked = FALSE], base.blocked)

-----------------------------------------------------------------------------
\* deleteBuyerData: every surface of one marketplace that can carry the mailbox.
\* A request's edits, counters and notes are reached through the requests the
\* mailbox still owns; flags through what they flag; the account wherever it is,
\* if it is a buyer's.
Scrubbed(p) ==
    [p EXCEPT !.rfq = IF @ = "live" THEN "closed" ELSE @, !.mine = FALSE, !.fields = FALSE,
              !.rungs = IF @ = "mine" THEN "clean" ELSE @,
              !.counter = FALSE, !.noted = FALSE]

\* The bug a sweep could have: the trail of edits keeps the old contact field.
MemEraseKeepsEdits(v) ==
    LET p == store.at[v]
        q == IF p.mine THEN [Scrubbed(p) EXCEPT !.rungs = p.rungs] ELSE p
    IN Answer([store EXCEPT
                 !.at[v] = [q EXCEPT !.alert = FALSE],
                 !.flag = [f \in Reports |->
                    IF @[f] # NoFlag /\ @[f].at = v THEN [@[f] EXCEPT !.mine = FALSE] ELSE @[f]],
                 !.user = IF @ = "buyer" THEN "none" ELSE @,
                 !.onListing = IF store.user = "buyer" THEN "none" ELSE @],
              <<p.mine, p.alert, store.user = "buyer">>)

MemErase(v) ==
    LET p == store.at[v]
        q == IF p.mine THEN Scrubbed(p) ELSE p
    IN Answer([store EXCEPT
                 !.at[v] = [q EXCEPT !.alert = FALSE],
                 !.flag = [f \in Reports |->
                    IF @[f] # NoFlag /\ @[f].at = v THEN [@[f] EXCEPT !.mine = FALSE] ELSE @[f]],
                 !.user = IF @ = "buyer" THEN "none" ELSE @,
                 !.onListing = IF store.user = "buyer" THEN "none" ELSE @],
              <<p.mine, p.alert, store.user = "buyer">>)

SqlErase(v) ==
    LET p == base.at[v]
        q == IF p.mine THEN Scrubbed(p) ELSE p
    IN Answer([base EXCEPT
                 !.at[v] = [q EXCEPT !.alert = FALSE],
                 !.flag = [f \in Reports |->
                    IF @[f] # NoFlag /\ @[f].at = v THEN [@[f] EXCEPT !.mine = FALSE] ELSE @[f]],
                 !.user = IF @ = "buyer" THEN "none" ELSE @,
                 !.onListing = IF base.user = "buyer" THEN "none" ELSE @],
              <<p.mine, p.alert, base.user = "buyer">>)

-----------------------------------------------------------------------------
\* What the mailbox does, the same row in both: a request that names it in its
\* contact field, an amendment that logs the old fields, a counter with a note,
\* a close, a subscription, a sign-in.
Same(new(_)) ==
    BothDesks(Answer(new(store), "yes"), Answer(new(base), "yes"))
At(db, v, p) == [db EXCEPT !.at[v] = p]

PostRfq ==
    /\ store.at[Here].rfq = "none" /\ ~store.blocked
    /\ Same(LAMBDA db : At(db, Here, [db.at[Here] EXCEPT !.rfq = "live", !.mine = TRUE,
                                                          !.fields = TRUE]))
    /\ gone' = gone \ {Here}

\* Only the owner amends; the mailbox may leave the contact field.
AmendRfq(contact) ==
    /\ store.at[Here].rfq = "live" /\ store.at[Here].mine
    /\ Same(LAMBDA db : At(db, Here,
              [db.at[Here] EXCEPT !.rungs = IF db.at[Here].fields \/ @ = "mine"
                                            THEN "mine" ELSE "clean",
                                  !.fields = contact]))
    /\ gone' = gone \ {Here}

Counter(note) ==
    /\ store.at[Here].rfq = "live" /\ store.at[Here].mine
    /\ Same(LAMBDA db : At(db, Here, [db.at[Here] EXCEPT !.counter = note,
                                                          !.noted = @ \/ note]))
    /\ gone' = gone \ {Here}

CloseRfq ==
    /\ store.at[Here].rfq = "live"
    /\ Same(LAMBDA db : At(db, Here, [db.at[Here] EXCEPT !.rfq = "closed"]))
    /\ UNCHANGED gone

Subscribe ==
    /\ ~store.blocked
    /\ Same(LAMBDA db : At(db, Here, [db.at[Here] EXCEPT !.alert = TRUE]))
    /\ gone' = gone \ {Here}

SignIn(role) ==
    /\ store.user = "none"
    /\ Same(LAMBDA db : [db EXCEPT !.user = role])
    /\ UNCHANGED gone

FileReport(f, k) ==
    /\ store.flag[f] = NoFlag
    /\ store.at[Here].rfq # "none" /\ store.at[Here].mine
    /\ BothDesks(MemFile(f, k, Here), SqlFile(f, k, Here))
    /\ gone' = gone \ {Here}

ResolveReport(f) == BothDesks(MemResolve(f), SqlResolve(f)) /\ UNCHANGED gone
ResolveMine(k) == BothDesks(MemResolveMine(k), SqlResolveMine(k)) /\ UNCHANGED gone

FlagListing ==
    /\ store.user # "none" /\ store.listed
    /\ BothDesks(MemFlagListing, SqlFlagListing)
    /\ UNCHANGED gone
ResolveListingReports == BothDesks(MemResolveListing, SqlResolveListing) /\ UNCHANGED gone
RemoveListing == store.listed /\ BothDesks(MemDropListing, SqlDropListing) /\ UNCHANGED gone

Block == BothDesks(MemBlock(Here), SqlBlock(Here)) /\ UNCHANGED gone
Unblock == BothDesks(MemUnblock, SqlUnblock) /\ UNCHANGED gone

DeleteBuyerData(v) ==
    /\ BothDesks(MemErase(v), SqlErase(v))
    /\ gone' = gone \cup {v}

DeskNext ==
    \/ PostRfq \/ CloseRfq \/ Subscribe
    \/ \E b \in BOOLEAN : AmendRfq(b) \/ Counter(b)
    \/ \E role \in {"buyer", "operator"} : SignIn(role)
    \/ \E k \in Kinds : ResolveMine(k) \/ \E f \in Reports : FileReport(f, k)
    \/ \E f \in Reports : ResolveReport(f)
    \/ FlagListing \/ ResolveListingReports \/ RemoveListing \/ Block \/ Unblock
    \/ \E v \in Verticals : DeleteBuyerData(v)

-----------------------------------------------------------------------------
Stores ==
    [at : [Verticals -> [rfq : RfqStates, mine : BOOLEAN, fields : BOOLEAN, rungs : Trails,
                         counter : BOOLEAN, noted : BOOLEAN, alert : BOOLEAN]],
     flag : [Reports -> Flag \cup {NoFlag}], user : {"none", "buyer", "operator"},
     listed : BOOLEAN, onListing : ListingFlags, blocked : BOOLEAN]

DeskTypeOK == store \in Stores /\ base \in Stores /\ gone \subseteq Verticals

\* The two answer alike and hold the same rows, cascades included.
DesksAgree == heard /\ store = base

Trace(db, v) ==
    \/ db.at[v].mine \/ db.at[v].fields \/ db.at[v].rungs = "mine"
    \/ db.at[v].counter \/ db.at[v].noted \/ db.at[v].alert
    \/ \E f \in Reports : db.flag[f] # NoFlag /\ db.flag[f].at = v /\ db.flag[f].mine

\* Once its owner deleted it, no table of that marketplace names the mailbox in
\* either repository, and none does again until the mailbox itself comes back;
\* another marketplace's rows are left alone.
ErasedIsGone ==
    /\ \A v \in gone : ~Trace(store, v) /\ ~Trace(base, v)
    /\ \A v \in Verticals \ ({Here} \cup gone) : base.at[v] = Place(TRUE)
=============================================================================
