-------------------------- MODULE BackendRequests --------------------------
(***************************************************************************)
(* The request tables of the two repositories, called in lockstep: every   *)
(* call of the Repo interface (lib/repo/types.ts) is made of MemoryRepo    *)
(* (memory.ts, what the tests and the demo run on) and of DrizzleRepo      *)
(* (drizzle.ts, what production runs on).  Each call is one synchronous    *)
(* block of the first and one statement or transaction of the second, so   *)
(* there are no interleavings here: the question is whether any sequence   *)
(* of calls makes the two answer differently.                              *)
(*                                                                         *)
(* Postgres keeps the dedupe key in the row under a partial unique index;  *)
(* the memory repository keeps a map from a key to the last request that   *)
(* claimed it.  Postgres has no status expired.                            *)
(***************************************************************************)
EXTENDS Naturals, FiniteSets

CONSTANTS
    Rfqs,          \* request ids
    Keys,          \* dedupe keys
    Tied,          \* the requests that name the listing
    NoRfq,         \* a key nobody claimed
    MaxDay,        \* bound: the last day
    MaxEdits       \* bound: amendments of one request

ASSUME RequestsAssumption ==
    /\ Tied \subseteq Rfqs
    /\ NoRfq \notin Rfqs
    /\ MaxDay \in Nat
    /\ MaxEdits \in Nat

VARIABLES
    mem,           \* MemoryRepo: rfqs, rfqDedupe, rfqAmendments
    sql,           \* the rfqs and rfq_amendments tables
    today,         \* the day of both clocks
    said,          \* the two answered the last call alike
    apart          \* the last call was one on which the two are known to differ

requestVars == <<mem, sql, today, said, apart>>

-----------------------------------------------------------------------------
Undated == MaxDay + 1
Dates == 0 .. Undated
LIVE_RFQ_STATUSES == {"open", "matched", "quoted"}
LiveRows == {"new", "matched", "quoted"}
NoRow == [status |-> "none"]

\* The rows, the fan-out's fields aside.  A request posted on day 0 without a
\* date goes stale on day 1: a day here is the thirty days of the horizon.
MemRfq == [status : LIVE_RFQ_STATUSES \cup {"closed", "expired", "spam"},
           until : Dates, born : 0 .. MaxDay, paused : BOOLEAN, rungs : 0 .. MaxEdits]
SqlRfq == [status : LiveRows \cup {"closed", "spam"},
           until : Dates, born : 0 .. MaxDay, paused : BOOLEAN, rungs : 0 .. MaxEdits,
           key : Keys]

RequestsInit ==
    /\ mem = [row |-> [r \in Rfqs |-> NoRow], dedupe |-> [k \in Keys |-> NoRfq]]
    /\ sql = [r \in Rfqs |-> NoRow]
    /\ today = 0
    /\ said = TRUE
    /\ apart = FALSE

-----------------------------------------------------------------------------
\* What a call leaves in a repository and what it returns.
Reply(db, answer) == [db |-> db, answer |-> answer]
MemSet(r, row) == [mem EXCEPT !.row[r] = row]
SqlSet(r, row) == [sql EXCEPT ![r] = row]

MemLive(r) == mem.row[r].status \in LIVE_RFQ_STATUSES
SqlLive(r) == sql[r].status \in LiveRows

\* The map's holder of a key, when it is live and not r itself.
MemTwin(k, r) == LET x == mem.dedupe[k] IN x \notin {NoRfq, r} /\ MemLive(x)

\* rfqs_dedupe_key: one live row per key.
SqlTwin(k, r) == \E x \in Rfqs \ {r} : SqlLive(x) /\ sql[x].key = k

MemCreateRfq(r, k, u) ==
    IF MemTwin(k, r) THEN Reply(mem, "duplicate")
    ELSE Reply([MemSet(r, [status |-> "open", until |-> u, born |-> today,
                           paused |-> FALSE, rungs |-> 0])
                  EXCEPT !.dedupe[k] = r], "yes")

SqlCreateRfq(r, k, u) ==
    IF SqlTwin(k, r) THEN Reply(sql, "duplicate")
    ELSE Reply(SqlSet(r, [status |-> "new", until |-> u, born |-> today,
                          paused |-> FALSE, rungs |-> 0, key |-> k]), "yes")

\* toDb and toRfq: the interface's open is the row's new, and expired has no row.
ToDb(s) == CASE s = "open" -> "new" [] s = "expired" -> "closed" [] OTHER -> s

MemSetRfqStatus(r, s, expectedIn) ==
    IF mem.row[r].status \notin expectedIn THEN Reply(mem, "no")
    ELSE Reply([mem EXCEPT !.row[r].status = s], "yes")

SqlSetRfqStatus(r, s, expectedIn) ==
    IF sql[r].status \notin {ToDb(e) : e \in expectedIn} THEN Reply(sql, "no")
    ELSE IF ToDb(s) \in LiveRows /\ SqlTwin(sql[r].key, r) THEN Reply(sql, "duplicate")
    ELSE Reply([sql EXCEPT ![r].status = ToDb(s)], "yes")

\* The rows a statement flips, and the requests it returns.
MemFlip(rows, s) ==
    Reply([mem EXCEPT !.row = [r \in Rfqs |->
             IF r \in rows THEN [mem.row[r] EXCEPT !.status = s] ELSE mem.row[r]]], rows)
SqlFlip(rows, s) ==
    Reply([r \in Rfqs |-> IF r \in rows THEN [sql[r] EXCEPT !.status = s] ELSE sql[r]], rows)

MemCloseLive == MemFlip({r \in Tied : MemLive(r)}, "closed")
SqlCloseLive == SqlFlip({r \in Tied : SqlLive(r)}, "closed")

MemExtend(r, u) ==
    IF MemLive(r) THEN Reply([mem EXCEPT !.row[r].until = u], "yes") ELSE Reply(mem, "no")
SqlExtend(r, u) ==
    IF SqlLive(r) THEN Reply([sql EXCEPT ![r].until = u], "yes") ELSE Reply(sql, "no")

MemSetPaused(r, p) ==
    IF IF p THEN MemLive(r) /\ ~mem.row[r].paused ELSE mem.row[r].paused
    THEN Reply([mem EXCEPT !.row[r].paused = p], "yes")
    ELSE Reply(mem, "no")
SqlSetPaused(r, p) ==
    IF IF p THEN SqlLive(r) /\ ~sql[r].paused ELSE sql[r].paused
    THEN Reply([sql EXCEPT ![r].paused = p], "yes")
    ELSE Reply(sql, "no")

\* The bug a re-key could have: the request's old keys stay in the map.
MemAmendKeepsKeys(r, k, u) ==
    IF ~MemLive(r) THEN Reply(mem, "no")
    ELSE IF MemTwin(k, r) THEN Reply(mem, "duplicate")
    ELSE Reply([mem EXCEPT !.row[r].until = u, !.row[r].rungs = @ + 1,
                           !.dedupe[k] = r], "yes")

\* updateRfqFields: the fields, the key and the superseded rung in one step.
MemAmend(r, k, u) ==
    IF ~MemLive(r) THEN Reply(mem, "no")
    ELSE IF MemTwin(k, r) THEN Reply(mem, "duplicate")
    ELSE Reply([mem EXCEPT !.row[r].until = u, !.row[r].rungs = @ + 1,
                           !.dedupe = [x \in Keys |-> IF x = k THEN r
                                                      ELSE IF @[x] = r THEN NoRfq
                                                      ELSE @[x]]], "yes")
SqlAmend(r, k, u) ==
    IF ~SqlLive(r) THEN Reply(sql, "no")
    ELSE IF SqlTwin(k, r) THEN Reply(sql, "duplicate")
    ELSE Reply([sql EXCEPT ![r].until = u, ![r].rungs = @ + 1, ![r].key = k], "yes")

\* A dated request lives through its date, an undated one through the horizon.
Stale(row) == IF row.until # Undated THEN row.until < today ELSE row.born < today

MemExpire == MemFlip({r \in Rfqs : MemLive(r) /\ Stale(mem.row[r])}, "expired")
SqlExpire == SqlFlip({r \in Rfqs : SqlLive(r) /\ Stale(sql[r])}, "closed")

-----------------------------------------------------------------------------
\* One call, made of both.
Both(m, s) ==
    /\ mem' = m.db
    /\ sql' = s.db
    /\ said' = (m.answer = s.answer)
    /\ UNCHANGED today

Exists(r) == mem.row[r] # NoRow

CreateRfq(r, k, u) ==
    /\ ~Exists(r)
    /\ Both(MemCreateRfq(r, k, u), SqlCreateRfq(r, k, u))
    /\ UNCHANGED apart

\* The close of the buyer, of the admin (spam too) and of a deal.
TakeDown(r, s) ==
    /\ Exists(r)
    /\ Both(MemSetRfqStatus(r, s, LIVE_RFQ_STATUSES), SqlSetRfqStatus(r, s, LIVE_RFQ_STATUSES))
    /\ UNCHANGED apart

\* The buyer's reopen, refused once the horizon has passed, and the undo of a
\* deal that lost its race.  Memory does not look at the key: a request that
\* comes back after another claimed it is where the two part.
Revive(r, s) ==
    /\ Exists(r)
    /\ mem.row[r].status # "expired"
    /\ ~Stale(mem.row[r])
    /\ Both(MemSetRfqStatus(r, s, {"closed"}), SqlSetRfqStatus(r, s, {"closed"}))
    /\ apart' = (mem.row[r].status = "closed" /\ mem.dedupe[sql[r].key] # r)

CloseLiveRfqsForListing == Both(MemCloseLive, SqlCloseLive) /\ UNCHANGED apart

ExtendRfqDeadline(r, u) ==
    /\ Exists(r)
    /\ Both(MemExtend(r, u), SqlExtend(r, u))
    /\ UNCHANGED apart

SetRfqPaused(r, p) ==
    /\ Exists(r)
    /\ Both(MemSetPaused(r, p), SqlSetPaused(r, p))
    /\ UNCHANGED apart

UpdateRfqFields(r, k, u) ==
    /\ Exists(r)
    /\ mem.row[r].rungs < MaxEdits
    /\ Both(MemAmend(r, k, u), SqlAmend(r, k, u))
    /\ UNCHANGED apart

ExpireRfqs == Both(MemExpire, SqlExpire) /\ UNCHANGED apart

DayPasses ==
    /\ today < MaxDay
    /\ today' = today + 1
    /\ UNCHANGED <<mem, sql, said, apart>>

\* The comparison ends with the first call on which the two are known to part.
RequestsNext ==
    /\ ~apart
    /\ \/ \E r \in Rfqs :
            \/ \E k \in Keys, u \in Dates : CreateRfq(r, k, u) \/ UpdateRfqFields(r, k, u)
            \/ \E s \in {"closed", "spam"} : TakeDown(r, s)
            \/ \E s \in {"open", "quoted"} : Revive(r, s)
            \/ \E u \in 0 .. MaxDay : ExtendRfqDeadline(r, u)
            \/ \E p \in BOOLEAN : SetRfqPaused(r, p)
       \/ CloseLiveRfqsForListing
       \/ ExpireRfqs
       \/ DayPasses

-----------------------------------------------------------------------------
RequestsTypeOK ==
    /\ mem \in [row : [Rfqs -> MemRfq \cup {NoRow}], dedupe : [Keys -> Rfqs \cup {NoRfq}]]
    /\ sql \in [Rfqs -> SqlRfq \cup {NoRow}]
    /\ today \in 0 .. MaxDay
    /\ apart \in BOOLEAN

\* getRfqByDedupeKey of each: the live request of a key.
MemByKey(k) ==
    LET x == mem.dedupe[k] IN IF x # NoRfq /\ MemLive(x) THEN {x} ELSE {}
SqlByKey(k) == {r \in Rfqs : SqlLive(r) /\ sql[r].key = k}

\* getRfq of each, expired folded into closed.
SameRfq(r) ==
    IF sql[r] = NoRow THEN mem.row[r] = NoRow
    ELSE /\ mem.row[r] # NoRow
         /\ ToDb(mem.row[r].status) = sql[r].status
         /\ \A f \in {"until", "born", "paused", "rungs"} : mem.row[r][f] = sql[r][f]

\* No sequence of calls makes the memory repository answer a caller otherwise
\* than Postgres would, refusals of a duplicate included, as long as no request
\* comes back to life after another claimed its dedupe key.
RequestsAgree ==
    apart \/ /\ said
             /\ \A r \in Rfqs : SameRfq(r)
             /\ \A k \in Keys : MemByKey(k) = SqlByKey(k)
=============================================================================
