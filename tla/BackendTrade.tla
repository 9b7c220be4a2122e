---------------------------- MODULE BackendTrade ----------------------------
(***************************************************************************)
(* One request, the operators it reached and the quotes they sent, in the  *)
(* two repositories called in lockstep (lib/repo/memory.ts and             *)
(* lib/repo/drizzle.ts; BackendRequests says why lockstep).                *)
(*                                                                         *)
(* The two see a delayed match differently: memory compares deliverAt with *)
(* its clock at every read, Postgres reads the state column that the       *)
(* worker's sweep flips.  The delay's end and the sweep that follows it    *)
(* are one step here.  pending stands for every state but delayed.         *)
(***************************************************************************)
EXTENDS Naturals, Sequences, FiniteSets

CONSTANTS
    Ops,           \* the operators; each quotes the request at most once
    Nobody,        \* the listing is gone, or the request names none
    Notes,         \* texts of counters and reasons
    Silent,        \* no text
    MaxRounds,     \* bound: counters on one quote
    MaxRevs        \* bound: revisions of one quote

ASSUME TradeAssumption ==
    /\ Nobody \notin Ops
    /\ Silent \notin Notes
    /\ MaxRounds \in Nat
    /\ MaxRevs \in Nat

VARIABLES
    kept,          \* MemoryRepo: rfqs, rfqMatches, rfqDismissed, quotes, ...
    held,          \* the same tables in Postgres
    replies        \* the two answered the last call alike

tradeVars == <<kept, held, replies>>

-----------------------------------------------------------------------------
LiveM == {"open", "matched", "quoted"}
LiveS == {"new", "matched", "quoted"}
Texts == Notes \cup {Silent}
Outcomes == {"open", "answered", "accepted", "withdrawn", "declined", "expired"}
NoQuote == [status |-> "none"]
Quote == [status : {"sent", "accepted", "declined", "withdrawn"}, countered : BOOLEAN,
          note : Texts, seen : BOOLEAN, reason : Texts, terms : 0 .. MaxRevs]

Tables(states, statuses) ==
    [status : statuses, concierge : BOOLEAN, home : Ops \cup {Nobody},
     match : [Ops -> states], dismissed : SUBSET Ops,
     quote : [Ops -> Quote \cup {NoQuote}], rounds : [Ops -> Seq(Outcomes)],
     revs : [Ops -> Seq(0 .. MaxRevs)]]

TradeInit ==
    \E home \in Ops \cup {Nobody} :
        LET empty(s) == [status |-> s, concierge |-> FALSE, home |-> home,
                         match |-> [o \in Ops |-> "none"], dismissed |-> {},
                         quote |-> [o \in Ops |-> NoQuote], rounds |-> [o \in Ops |-> <<>>],
                         revs |-> [o \in Ops |-> <<>>]]
        IN /\ kept = empty("open")
           /\ held = empty("new")
           /\ replies = TRUE

Did(db) == [db |-> db, answer |-> "yes"]
Refused(db) == [db |-> db, answer |-> "no"]
BothTrade(m, s) ==
    /\ kept' = m.db
    /\ held' = s.db
    /\ replies' = (m.answer = s.answer)

KeptLive == kept.status \in LiveM
HeldLive == held.status \in LiveS

\* The open round of a quote takes an outcome (resolveCounterRounds).
Resolved(rounds, outcome) ==
    [i \in DOMAIN rounds |-> IF rounds[i] = "open" THEN outcome ELSE rounds[i]]

Uncountered(q) == [q EXCEPT !.countered = FALSE, !.note = Silent]

-----------------------------------------------------------------------------
\* createRfqMatches: existing pairs are left alone, and only a request nobody
\* has taken up becomes matched.
MemMatches(ops, at) ==
    Did([kept EXCEPT
           !.match = [o \in Ops |-> IF o \in ops /\ @[o] = "none" THEN at ELSE @[o]],
           !.status = IF @ = "open" THEN "matched" ELSE @])
SqlMatches(ops, at) ==
    Did([held EXCEPT
           !.match = [o \in Ops |-> IF o \in ops /\ @[o] = "none"
                                    THEN (IF at = "later" THEN "delayed" ELSE "pending")
                                    ELSE @[o]],
           !.status = IF @ = "new" THEN "matched" ELSE @])

\* expediteRfq: once, while live, and every delayed match is due.
MemExpedite ==
    IF kept.concierge \/ ~KeptLive THEN Refused(kept)
    ELSE Did([kept EXCEPT !.concierge = TRUE,
                          !.match = [o \in Ops |-> IF @[o] = "later" THEN "due" ELSE @[o]]])
SqlExpedite ==
    IF held.concierge \/ ~HeldLive THEN Refused(held)
    ELSE Did([held EXCEPT !.concierge = TRUE,
                          !.match = [o \in Ops |-> IF @[o] = "delayed" THEN "pending" ELSE @[o]]])

\* matchVisible and hasRfqMatch.
MemVisible(o) == kept.match[o] = "due"
SqlVisible(o) == held.match[o] \notin {"none", "delayed"}

MemDismiss(o) ==
    IF kept.home = o \/ MemVisible(o) THEN Did([kept EXCEPT !.dismissed = @ \cup {o}])
    ELSE Refused(kept)
SqlDismiss(o) ==
    IF held.home = o \/ SqlVisible(o) THEN Did([held EXCEPT !.dismissed = @ \cup {o}])
    ELSE Refused(held)
MemUndismiss(o) ==
    IF o \in kept.dismissed THEN Did([kept EXCEPT !.dismissed = @ \ {o}]) ELSE Refused(kept)
SqlUndismiss(o) ==
    IF o \in held.dismissed THEN Did([held EXCEPT !.dismissed = @ \ {o}]) ELSE Refused(held)

Fresh == [status |-> "sent", countered |-> FALSE, note |-> Silent, seen |-> FALSE,
          reason |-> Silent, terms |-> 0]
MemCreateQuote(o) ==
    Did([kept EXCEPT !.quote[o] = Fresh, !.status = IF KeptLive THEN "quoted" ELSE @])
SqlCreateQuote(o) ==
    Did([held EXCEPT !.quote[o] = Fresh, !.status = IF HeldLive THEN "quoted" ELSE @])

\* counterQuote: one live counter at a time, and its audit row with it.
MemCounter(o, n) ==
    IF kept.quote[o].status # "sent" \/ kept.quote[o].countered THEN Refused(kept)
    ELSE Did([kept EXCEPT !.quote[o].countered = TRUE,
                          !.quote[o].note = IF n = Silent THEN @ ELSE n,
                          !.rounds[o] = <<"open">> \o @])
SqlCounter(o, n) ==
    IF held.quote[o].status # "sent" \/ held.quote[o].countered THEN Refused(held)
    ELSE Did([held EXCEPT !.quote[o].countered = TRUE, !.quote[o].note = n,
                          !.rounds[o] = <<"open">> \o @])

\* clearQuoteCounter: the buyer's withdrawal, or the operator's refusal.
MemClear(o, outcome) ==
    IF kept.quote[o].status # "sent" \/ ~kept.quote[o].countered THEN Refused(kept)
    ELSE Did([kept EXCEPT !.quote[o] = Uncountered(@),
                          !.rounds[o] = Resolved(@, outcome)])
SqlClear(o, outcome) ==
    IF held.quote[o].status # "sent" \/ ~held.quote[o].countered THEN Refused(held)
    ELSE Did([held EXCEPT !.quote[o] = Uncountered(@),
                          !.rounds[o] = Resolved(@, outcome)])

\* setQuoteStatus: a quote that leaves sent ends its round.
MemSetQuote(o, s, expected, n) ==
    IF kept.quote[o].status # expected THEN Refused(kept)
    ELSE Did([kept EXCEPT
                !.quote[o].status = s,
                !.quote[o].reason = IF n = Silent THEN @ ELSE n,
                !.rounds[o] = IF expected = "sent" /\ s # "sent"
                              THEN Resolved(@, IF s = "accepted" THEN "accepted" ELSE "expired")
                              ELSE @])
SqlSetQuote(o, s, expected, n) ==
    IF held.quote[o].status # expected THEN Refused(held)
    ELSE Did([held EXCEPT
                !.quote[o].status = s,
                !.quote[o].reason = IF n = Silent THEN @ ELSE n,
                !.rounds[o] = IF expected = "sent" /\ s # "sent"
                              THEN Resolved(@, IF s = "accepted" THEN "accepted" ELSE "expired")
                              ELSE @])

\* reviseQuote: only of a live request; the old terms are logged, the buyer has
\* not seen the new ones, and they answer the counter.
Revised(q) == [Uncountered(q) EXCEPT !.seen = FALSE, !.terms = @ + 1]
MemRevise(o, outcome) ==
    IF kept.quote[o].status # "sent" \/ ~KeptLive THEN Refused(kept)
    ELSE Did([kept EXCEPT !.quote[o] = Revised(@), !.rounds[o] = Resolved(@, outcome),
                          !.revs[o] = <<kept.quote[o].terms>> \o @])
SqlRevise(o, outcome) ==
    IF held.quote[o].status # "sent" \/ ~HeldLive THEN Refused(held)
    ELSE Did([held EXCEPT !.quote[o] = Revised(@), !.rounds[o] = Resolved(@, outcome),
                          !.revs[o] = <<held.quote[o].terms>> \o @])

MemSeen(o) == Did([kept EXCEPT !.quote[o].seen = TRUE])
SqlSeen(o) == Did([held EXCEPT !.quote[o].seen = TRUE])

\* The sweep's expiry declines every quote still sent and ends its round.
MemExpireTrade ==
    LET dead == {o \in Ops : kept.quote[o].status = "sent"} IN
    IF ~KeptLive THEN Refused(kept)
    ELSE Did([kept EXCEPT
                !.status = "expired",
                !.quote = [o \in Ops |-> IF o \in dead THEN [@[o] EXCEPT !.status = "declined"]
                                         ELSE @[o]],
                !.rounds = [o \in Ops |-> IF o \in dead THEN Resolved(@[o], "expired") ELSE @[o]]])
SqlExpireTrade ==
    LET dead == {o \in Ops : held.quote[o].status = "sent"} IN
    IF ~HeldLive THEN Refused(held)
    ELSE Did([held EXCEPT
                !.status = "closed",
                !.quote = [o \in Ops |-> IF o \in dead THEN [@[o] EXCEPT !.status = "declined"]
                                         ELSE @[o]],
                !.rounds = [o \in Ops |-> IF o \in dead THEN Resolved(@[o], "expired") ELSE @[o]]])

-----------------------------------------------------------------------------
CreateRfqMatches(ops, at) == BothTrade(MemMatches(ops, at), SqlMatches(ops, at))

\* The delay ends and the worker's sweep follows.
DelayOver ==
    BothTrade(Did([kept EXCEPT !.match = [o \in Ops |-> IF @[o] = "later" THEN "due" ELSE @[o]]]),
          Did([held EXCEPT !.match = [o \in Ops |-> IF @[o] = "delayed" THEN "pending" ELSE @[o]]]))

ExpediteRfq == BothTrade(MemExpedite, SqlExpedite)
DismissRfq(o) == BothTrade(MemDismiss(o), SqlDismiss(o))
UndismissRfq(o) == BothTrade(MemUndismiss(o), SqlUndismiss(o))

\* Quotes are posted on a live request by an operator who sees it, but the
\* request may die between that test and the insert.
CreateQuote(o) ==
    /\ kept.quote[o] = NoQuote
    /\ kept.home = o \/ MemVisible(o)
    /\ BothTrade(MemCreateQuote(o), SqlCreateQuote(o))

HasQuote(o) == kept.quote[o] # NoQuote

CounterQuote(o, n) ==
    /\ HasQuote(o)
    /\ Len(kept.rounds[o]) < MaxRounds
    /\ BothTrade(MemCounter(o, n), SqlCounter(o, n))

ClearQuoteCounter(o, outcome) ==
    HasQuote(o) /\ BothTrade(MemClear(o, outcome), SqlClear(o, outcome))

\* Declines, withdrawals and accepts leave sent; the undo of a lost accept and
\* the admin's revert leave accepted.
SetQuoteStatus(o, s, expected, n) ==
    /\ HasQuote(o)
    /\ n # Silent => s = "declined"
    /\ BothTrade(MemSetQuote(o, s, expected, n), SqlSetQuote(o, s, expected, n))

ReviseQuote(o, outcome) ==
    /\ HasQuote(o)
    /\ kept.quote[o].terms < MaxRevs
    /\ BothTrade(MemRevise(o, outcome), SqlRevise(o, outcome))

MarkQuotesBuyerSeen(o) == HasQuote(o) /\ BothTrade(MemSeen(o), SqlSeen(o))

ExpireTrade == BothTrade(MemExpireTrade, SqlExpireTrade)

\* The buyer's or the admin's close, and the buyer's reopen of a closed request.
CloseTrade(s) ==
    /\ KeptLive
    /\ BothTrade(Did([kept EXCEPT !.status = s]), Did([held EXCEPT !.status = s]))
ReopenTrade ==
    /\ kept.status = "closed"
    /\ BothTrade(Did([kept EXCEPT !.status = "open"]), Did([held EXCEPT !.status = "new"]))

\* deleteListing: requests lose the link, never the row (memory copies the
\* foreign key's set null).
DropListing ==
    BothTrade(Did([kept EXCEPT !.home = Nobody]), Did([held EXCEPT !.home = Nobody]))

TradeNext ==
    \/ \E ops \in SUBSET Ops \ {{}}, at \in {"due", "later"} : CreateRfqMatches(ops, at)
    \/ \E o \in Ops :
         \/ DismissRfq(o) \/ UndismissRfq(o) \/ CreateQuote(o) \/ MarkQuotesBuyerSeen(o)
         \/ \E n \in Texts : CounterQuote(o, n)
         \/ \E outcome \in {"withdrawn", "declined"} : ClearQuoteCounter(o, outcome)
         \/ \E outcome \in {"answered", "accepted"} : ReviseQuote(o, outcome)
         \/ \E s \in {"accepted", "declined", "withdrawn"}, n \in Texts :
              SetQuoteStatus(o, s, "sent", n)
         \/ \E s \in {"sent", "declined"} : SetQuoteStatus(o, s, "accepted", Silent)
    \/ \E s \in {"closed", "spam"} : CloseTrade(s)
    \/ ExpediteRfq \/ DelayOver \/ ExpireTrade \/ ReopenTrade \/ DropListing

-----------------------------------------------------------------------------
TradeTypeOK ==
    /\ kept \in Tables({"none", "later", "due"}, LiveM \cup {"closed", "spam", "expired"})
    /\ held \in Tables({"none", "delayed", "pending"}, LiveS \cup {"closed", "spam"})

\* The inbox views of listRfqs that hold the request for an operator; memory's
\* countRfqs reads the same list.
MemViews(o) ==
    LET seen == kept.home = o \/ MemVisible(o)
        quoted == kept.quote[o].status \in {"sent", "accepted"}
        inbox == seen /\ o \notin kept.dismissed
    IN {v \in {"inbox", "dismissed", "needsQuote", "answered", "countered", "lost"} :
          CASE v = "inbox" -> inbox
            [] v = "dismissed" -> seen /\ o \in kept.dismissed
            [] v = "needsQuote" -> inbox /\ ~quoted
            [] v = "answered" -> inbox /\ quoted
            [] v = "countered" -> inbox /\ kept.quote[o].status = "sent" /\ kept.quote[o].countered
            [] v = "lost" -> inbox /\ HasQuote(o) /\ kept.status \in {"closed", "expired"}}

SqlListViews(o) ==
    LET seen == held.home = o \/ SqlVisible(o)
        inbox == seen /\ o \notin held.dismissed
    IN {v \in {"inbox", "dismissed", "needsQuote", "answered", "countered", "lost"} :
          CASE v = "inbox" -> inbox
            [] v = "dismissed" -> seen /\ o \in held.dismissed
            [] v = "needsQuote" -> inbox /\ held.quote[o].status \notin {"sent", "accepted"}
            [] v = "answered" -> inbox /\ held.quote[o].status \in {"sent", "accepted"}
            [] v = "countered" -> inbox /\ held.quote[o].status = "sent" /\ held.quote[o].countered
            [] v = "lost" -> inbox /\ held.quote[o] # NoQuote /\ held.status = "closed"}

\* countRfqs writes the predicates of the list a second time.
SqlCountViews(o) ==
    {v \in {"inbox", "dismissed", "needsQuote", "answered", "countered", "lost"} :
       /\ held.home = o \/ SqlVisible(o)
       /\ IF v = "dismissed" THEN o \in held.dismissed ELSE o \notin held.dismissed
       /\ v = "needsQuote" => held.quote[o].status \notin {"sent", "accepted"}
       /\ v = "answered" => held.quote[o].status \in {"sent", "accepted"}
       /\ v = "countered" => held.quote[o].status = "sent" /\ held.quote[o].countered
       /\ v = "lost" => held.quote[o] # NoQuote /\ held.status = "closed"}

\* The teaser (countPendingRfqs), the concierge's offer (countRfqPendingMatches),
\* the delivered set (countDeliveredMatches) and who hears of an amendment.
MemPending(o) ==
    /\ kept.match[o] = "later"
    /\ kept.status \notin {"closed", "expired", "spam"}
    /\ o \notin kept.dismissed
SqlPending(o) ==
    /\ held.match[o] = "delayed"
    /\ held.status \notin {"closed", "spam"}
    /\ o \notin held.dismissed
MemHears(o) == MemVisible(o) /\ o \notin kept.dismissed
SqlHears(o) == SqlVisible(o) /\ o \notin held.dismissed

SameTrade(o) ==
    /\ kept.quote[o] = held.quote[o]
    /\ kept.rounds[o] = held.rounds[o]
    /\ kept.revs[o] = held.revs[o]
    /\ MemVisible(o) = SqlVisible(o)
    /\ (kept.match[o] = "later") = (held.match[o] = "delayed")

\* After any sequence of calls both repositories show every operator the same
\* inbox, in every view, and the counters printed beside a view count it.
InboxesAgree ==
    /\ replies
    /\ \A o \in Ops :
         /\ MemViews(o) = SqlListViews(o)
         /\ SqlCountViews(o) = SqlListViews(o)
         /\ MemPending(o) = SqlPending(o)
         /\ MemHears(o) = SqlHears(o)
         /\ SameTrade(o)
=============================================================================
