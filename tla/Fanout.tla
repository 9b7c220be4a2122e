------------------------------- MODULE Fanout -------------------------------
(***************************************************************************)
(* One RFQ and its way to the operators: the web route enqueues a fan-out  *)
(* job, a worker inserts the matches, some due at once and some after the  *)
(* delay of their operator's plan, and a notification job per delivered    *)
(* match mails the operator.  The buyer can close, reopen and amend the    *)
(* RFQ or pay for instant delivery while this goes on; every enqueue can   *)
(* be lost and every job can throw or lose its worker.                     *)
(*                                                                         *)
(* A step is one SQL statement or transaction.  The jobs                   *)
(* table is what its queries here ask of it: how many rows of a payload    *)
(* wait to be claimed and whether a settled one is still kept; JobQueue    *)
(* has the table itself.                                                   *)
(***************************************************************************)
EXTENDS Naturals, FiniteSets

CONSTANTS
    Operators,     \* operators the RFQ can match
    Workers,       \* worker processes
    Fan,           \* the payload of the RFQ's fan-out job
    None,
    MaxFaults,     \* bound: jobs that throw or lose their worker
    MaxAmends      \* bound: amendments by the buyer

ASSUME FanoutAssumption ==
    /\ Fan \notin Operators /\ None \notin Operators \cup {Fan}
    /\ MaxFaults \in Nat /\ MaxAmends \in Nat

Payloads == Operators \cup {Fan}   \* a notification job has its match's operator

VARIABLES
    rfq,           \* rfqs.status: new, matched (or quoted), closed
    paid,          \* rfqs.concierge
    match,         \* match[o]: state of the rfq_matches row, none without one
    ripe,          \* operators whose row's deliver_at has passed
    waiting,       \* waiting[x]: jobs of payload x pending, or running and not begun
    kept,          \* payloads with a done or failed job not pruned yet
    posting,       \* a request has still to enqueue the fan-out
    expedited,     \* matches the payment flipped and has still to enqueue
    worker,        \* worker[w]: where the tick of w is
    faults, amends

rows == <<match, ripe>>
jobs == <<waiting, kept>>
web == <<posting, expedited, amends>>
vars == <<rfq, paid, rows, jobs, web, worker, faults>>

-----------------------------------------------------------------------------
MatchStates == {"none", "delayed", "pending", "sent"}
Phases == {"stranded", "enqueue", "refan", "claim", "handle",
           "insert", "matched", "announce", "mark"}
JobPhases == {"insert", "matched", "announce", "mark"}   \* inside a handler

\* todo: the matches to enqueue, or to insert; batch: the claimed jobs; job: the
\* one being handled; instant: the paid flag its fan-out read.
Progress == [pc : Phases, todo : SUBSET Operators, batch : SUBSET Payloads,
             job : Payloads \cup {None}, instant : BOOLEAN]
Begin == [pc |-> "handle", todo |-> {}, batch |-> {}, job |-> None, instant |-> FALSE]

At(w, pc) == worker[w].pc = pc
Work(w, progress) == worker' = [worker EXCEPT ![w] = progress]
Goto(w, pc) == Work(w, [worker[w] EXCEPT !.pc = pc])

IsLive == rfq \in {"new", "matched"}

\* not exists (select 1 from jobs ...): no row of any status has the payload.
NoRow(x) == waiting[x] = 0 /\ x \notin kept /\ \A w \in Workers : x \notin worker[w].batch
EnqueueJob(x) == waiting' = [waiting EXCEPT ![x] = @ + 1]

\* The job in hand is settled: done, or failed for good.
Settle(w) ==
    /\ kept' = kept \cup {worker[w].job}
    /\ Work(w, [worker[w] EXCEPT !.pc = "handle", !.batch = @ \ {worker[w].job},
                                 !.job = None, !.todo = {}, !.instant = FALSE])

Init ==
    /\ rfq = "new" /\ paid = FALSE
    /\ match = [o \in Operators |-> "none"] /\ ripe = {}
    /\ waiting = [x \in Payloads |-> 0] /\ kept = {}
    /\ posting = TRUE /\ expedited = {} /\ amends = 0
    /\ worker = [w \in Workers |-> Begin]
    /\ faults = 0

-----------------------------------------------------------------------------
(* The web side.                                                            *)

\* POST /rfqs, and PATCH after an amendment: the enqueue, whose failure is
\* logged and forgotten.
RouteEnqueue ==
    /\ posting
    /\ posting' = FALSE
    /\ EnqueueJob(Fan) \/ UNCHANGED waiting
    /\ UNCHANGED <<rfq, paid, rows, kept, expedited, amends, worker, faults>>

AmendRfq ==
    /\ IsLive /\ ~ posting /\ amends < MaxAmends
    /\ amends' = amends + 1
    /\ posting' = TRUE
    /\ UNCHANGED <<rfq, paid, rows, jobs, expedited, worker, faults>>

\* Mutation of CloseRfq: the interface's status is written as it is.
CloseExpired ==
    /\ IsLive /\ rfq' = "expired"
    /\ UNCHANGED <<paid, rows, jobs, web, worker, faults>>

\* A close, an accept or the expiry; the reopen writes the status new.
CloseRfq ==
    /\ IsLive /\ rfq' = "closed"
    /\ UNCHANGED <<paid, rows, jobs, web, worker, faults>>
ReopenRfq ==
    /\ rfq = "closed" /\ rfq' = "new"
    /\ UNCHANGED <<paid, rows, jobs, web, worker, faults>>

\* The listing's owner needs no match to quote: the RFQ is quoted.
QuoteEarly ==
    /\ rfq = "new" /\ rfq' = "matched"
    /\ UNCHANGED <<paid, rows, jobs, web, worker, faults>>

\* expediteRfq: the flag and every delayed match, in one transaction.
ExpediteRfq ==
    /\ IsLive /\ ~ paid
    /\ paid' = TRUE
    /\ LET held == {o \in Operators : match[o] = "delayed"} IN
         /\ match' = [o \in Operators |-> IF o \in held THEN "pending" ELSE match[o]]
         /\ ripe' = ripe \cup held
         /\ expedited' = held
    /\ UNCHANGED <<rfq, jobs, posting, amends, worker, faults>>

\* Then a notification job for each, a failure is logged and forgotten.
ExpediteEnqueue(o) ==
    /\ o \in expedited
    /\ expedited' = expedited \ {o}
    /\ EnqueueJob(o) \/ UNCHANGED waiting
    /\ UNCHANGED <<rfq, paid, rows, kept, posting, amends, worker, faults>>

-----------------------------------------------------------------------------
(* The worker's sweeps.                                                     *)

\* The batch is handled, the next tick begins: the delayed matches of a live RFQ
\* that are due turn pending.
DeliverDueMatches(w) ==
    /\ At(w, "handle") /\ worker[w].batch = {}
    /\ LET due == {o \in ripe : match[o] = "delayed" /\ IsLive} IN
         /\ match' = [o \in Operators |-> IF o \in due THEN "pending" ELSE match[o]]
         /\ Work(w, [worker[w] EXCEPT !.pc = "stranded", !.todo = due])
    /\ UNCHANGED <<rfq, paid, ripe, jobs, web, faults>>

\* Mutation of UnnotifiedPendingMatches: only the fresh ones are enqueued.
FreshOnly(w) ==
    /\ At(w, "stranded")
    /\ Goto(w, "enqueue")
    /\ UNCHANGED <<rfq, paid, rows, jobs, web, faults>>

\* The pending matches of a live RFQ that no job row mentions join them.
UnnotifiedPendingMatches(w) ==
    /\ At(w, "stranded")
    /\ LET stranded == {o \in Operators : match[o] = "pending" /\ NoRow(o) /\ IsLive} IN
         Work(w, [worker[w] EXCEPT !.pc = "enqueue", !.todo = @ \cup stranded])
    /\ UNCHANGED <<rfq, paid, rows, jobs, web, faults>>

EnqueueNext(w) ==
    /\ At(w, "enqueue")
    /\ \E o \in worker[w].todo :
         EnqueueJob(o) /\ Work(w, [worker[w] EXCEPT !.todo = @ \ {o}])
    /\ UNCHANGED <<rfq, paid, rows, kept, web, faults>>

\* An RFQ that is still new and that no fan-out job mentions gets one.
UnfanoutedRfqs(w) ==
    /\ At(w, "enqueue") /\ worker[w].todo = {}
    /\ \/ rfq = "new" /\ NoRow(Fan) /\ Goto(w, "refan")
       \/ (rfq # "new" \/ ~ NoRow(Fan)) /\ Goto(w, "claim")
    /\ UNCHANGED <<rfq, paid, rows, jobs, web, faults>>
Refan(w) ==
    /\ At(w, "refan")
    /\ EnqueueJob(Fan)
    /\ Goto(w, "claim")
    /\ UNCHANGED <<rfq, paid, rows, kept, web, faults>>

-----------------------------------------------------------------------------
(* The worker's batch.                                                      *)

ClaimJobs(w) ==
    /\ At(w, "claim")
    /\ LET claimed == {x \in Payloads : waiting[x] > 0} IN
         /\ waiting' = [x \in Payloads |-> IF x \in claimed THEN waiting[x] - 1 ELSE waiting[x]]
         /\ Work(w, [worker[w] EXCEPT !.pc = "handle", !.batch = claimed])
    /\ UNCHANGED <<rfq, paid, rows, kept, web, faults>>

\* rfqFanout: load the RFQ and the operators that fit it as it is now; a dead
\* one completes the job.
LoadRfq(w) ==
    /\ At(w, "handle") /\ Fan \in worker[w].batch
    /\ \/ /\ IsLive
          /\ \E fitting \in SUBSET Operators :
               Work(w, [worker[w] EXCEPT !.pc = "insert", !.job = Fan,
                                         !.todo = fitting, !.instant = paid])
          /\ UNCHANGED kept
       \/ /\ ~ IsLive
          /\ kept' = kept \cup {Fan}
          /\ Work(w, [worker[w] EXCEPT !.batch = @ \ {Fan}])
    /\ UNCHANGED <<rfq, paid, rows, waiting, web, faults>>

\* Mutation of InsertMatches: the conflict updates the row instead.
UpsertMatches(w) ==
    /\ At(w, "insert")
    /\ \E prompt \in SUBSET worker[w].todo :
         LET now == IF worker[w].instant THEN worker[w].todo ELSE prompt IN
         /\ match' = [o \in Operators |->
                        IF o \notin worker[w].todo THEN match[o]
                        ELSE IF o \in now THEN "pending" ELSE "delayed"]
         /\ ripe' = ripe \cup now
         /\ Work(w, [worker[w] EXCEPT !.pc = "matched", !.todo = now])
    /\ UNCHANGED <<rfq, paid, jobs, web, faults>>

\* Mutation of InsertMatches: announces what it matched, not what it inserted.
AnnounceAll(w) ==
    /\ At(w, "insert")
    /\ \E prompt \in SUBSET worker[w].todo :
         LET new == {o \in worker[w].todo : match[o] = "none"}
             now == IF worker[w].instant THEN worker[w].todo ELSE prompt
         IN /\ match' = [o \in Operators |->
                           IF o \notin new THEN match[o]
                           ELSE IF o \in now THEN "pending" ELSE "delayed"]
            /\ ripe' = ripe \cup (new \cap now)
            /\ Work(w, [worker[w] EXCEPT !.pc = "matched", !.todo = now])
    /\ UNCHANGED <<rfq, paid, jobs, web, faults>>

\* One insert for the operators without a row: pending and due now if the RFQ
\* was paid or their plan is prompt, else delayed.  The pending ones among the
\* inserted are announced.
InsertMatches(w) ==
    /\ At(w, "insert")
    /\ \E prompt \in SUBSET worker[w].todo :
         LET new == {o \in worker[w].todo : match[o] = "none"}
             now == IF worker[w].instant THEN new ELSE new \cap prompt
         IN /\ match' = [o \in Operators |->
                           IF o \notin new THEN match[o]
                           ELSE IF o \in now THEN "pending" ELSE "delayed"]
            /\ ripe' = ripe \cup now
            /\ Work(w, [worker[w] EXCEPT !.pc = "matched", !.todo = now])
    /\ UNCHANGED <<rfq, paid, jobs, web, faults>>

\* Mutation of MarkRfqMatched: the status is written whatever it has become.
MarkBlind(w) ==
    /\ At(w, "matched")
    /\ rfq' = "matched"
    /\ Goto(w, "announce")
    /\ UNCHANGED <<paid, rows, jobs, web, faults>>

MarkRfqMatched(w) ==
    /\ At(w, "matched")
    /\ rfq' = IF rfq = "new" THEN "matched" ELSE rfq
    /\ Goto(w, "announce")
    /\ UNCHANGED <<paid, rows, jobs, web, faults>>

Announce(w) ==
    /\ At(w, "announce")
    /\ \/ /\ \E o \in worker[w].todo :
               EnqueueJob(o) /\ Work(w, [worker[w] EXCEPT !.todo = @ \ {o}])
          /\ UNCHANGED kept
       \/ worker[w].todo = {} /\ Settle(w) /\ UNCHANGED waiting
    /\ UNCHANGED <<rfq, paid, rows, web, faults>>

\* quoteNotification: a sent match and a dead RFQ complete the job; else the mail
\* goes out, or not to an operator that muted it, and is marked afterwards.
LoadMatch(w, o) ==
    /\ At(w, "handle") /\ o \in worker[w].batch
    /\ \/ /\ match[o] = "sent" \/ ~ IsLive
          /\ kept' = kept \cup {o}
          /\ Work(w, [worker[w] EXCEPT !.batch = @ \ {o}])
       \/ /\ match[o] # "sent" /\ IsLive
          /\ Work(w, [worker[w] EXCEPT !.pc = "mark", !.job = o])
          /\ UNCHANGED kept
    /\ UNCHANGED <<rfq, paid, rows, waiting, web, faults>>

MarkMatchState(w) ==
    /\ At(w, "mark")
    /\ match' = [match EXCEPT ![worker[w].job] = "sent"]
    /\ Settle(w)
    /\ UNCHANGED <<rfq, paid, ripe, waiting, web, faults>>

\* The handler throws: the job waits for a retry, or has none left and fails.
Throw(w) ==
    /\ faults < MaxFaults /\ worker[w].job # None
    /\ faults' = faults + 1
    /\ \/ /\ EnqueueJob(worker[w].job)
          /\ Work(w, [worker[w] EXCEPT !.pc = "handle", !.batch = @ \ {worker[w].job},
                                       !.job = None, !.todo = {}, !.instant = FALSE])
          /\ UNCHANGED kept
       \/ Settle(w) /\ UNCHANGED waiting
    /\ UNCHANGED <<rfq, paid, rows, web>>

\* The tick throws or the process dies: its claims go back by the stale sweep.
Crash(w) ==
    /\ faults < MaxFaults
    /\ faults' = faults + 1
    /\ waiting' = [x \in Payloads |-> IF x \in worker[w].batch THEN waiting[x] + 1
                                                               ELSE waiting[x]]
    /\ Work(w, Begin)
    /\ UNCHANGED <<rfq, paid, rows, kept, web>>

-----------------------------------------------------------------------------
\* deliver_at of a delayed match passes.
DeliverAtPasses(o) ==
    /\ match[o] = "delayed" /\ o \notin ripe
    /\ ripe' = ripe \cup {o}
    /\ UNCHANGED <<rfq, paid, match, jobs, web, worker, faults>>

\* The hourly prune drops a settled job past its retention.
PruneJob(x) ==
    /\ x \in kept
    /\ kept' = kept \ {x}
    /\ UNCHANGED <<rfq, paid, rows, waiting, web, worker, faults>>

Sweep(w) ==
    \/ DeliverDueMatches(w) \/ UnnotifiedPendingMatches(w) \/ EnqueueNext(w)
    \/ UnfanoutedRfqs(w) \/ Refan(w)
Batch(w) ==
    \/ ClaimJobs(w)
    \/ LoadRfq(w) \/ InsertMatches(w) \/ MarkRfqMatched(w) \/ Announce(w)
    \/ \E o \in Operators : LoadMatch(w, o)
    \/ MarkMatchState(w)

Next ==
    \/ \E w \in Workers : Sweep(w) \/ Batch(w) \/ Throw(w) \/ Crash(w)
    \/ \E o \in Operators : ExpediteEnqueue(o) \/ DeliverAtPasses(o)
    \/ \E x \in Payloads : PruneJob(x)
    \/ RouteEnqueue \/ AmendRfq \/ CloseRfq \/ ReopenRfq \/ QuoteEarly \/ ExpediteRfq

Spec == Init /\ [][Next]_vars

\* Requests finish, every worker keeps polling, time passes and old jobs are
\* pruned.
FairSpec ==
    /\ Spec
    /\ WF_vars(RouteEnqueue)
    /\ \A w \in Workers : WF_vars(Sweep(w) \/ Batch(w))
    /\ \A o \in Operators : WF_vars(DeliverAtPasses(o))
    /\ \A x \in Payloads : WF_vars(PruneJob(x))
-----------------------------------------------------------------------------
(* Properties.                                                              *)

\* Every variable has a value of its domain, and a worker inside a handler has
\* the job among those it claimed.
TypeOK ==
    /\ rfq \in {"new", "matched", "closed"} /\ paid \in BOOLEAN
    /\ match \in [Operators -> MatchStates] /\ ripe \subseteq Operators
    /\ waiting \in [Payloads -> Nat] /\ kept \subseteq Payloads
    /\ posting \in BOOLEAN /\ expedited \subseteq Operators
    /\ worker \in [Workers -> Progress]
    /\ \A w \in Workers :
         /\ At(w, "mark") => worker[w].job \in Operators
         /\ worker[w].pc \in JobPhases <=> worker[w].job # None
         /\ worker[w].job # None => worker[w].job \in worker[w].batch
    /\ faults \in Nat /\ amends \in Nat

\* Someone is about to enqueue, or has enqueued, or is handling the mail of o.
OnItsWay(o) ==
    \/ waiting[o] > 0 \/ o \in kept \/ o \in expedited
    \/ \E w \in Workers :
         \/ o \in worker[w].batch
         \/ worker[w].pc # "insert" /\ o \in worker[w].todo

\* handlers.ts:190, "delayed ones notify via the sweep": whatever re-fan-outs,
\* payments, sweeps and retries overlap, nobody starts to notify an operator
\* whose match is missing or still held back by its plan's delay.
NobodyJumpsTheDelay ==
    \A o \in Operators : match[o] \in {"none", "delayed"} => ~ OnItsWay(o)

\* A match is delivered, or notified, only once its deliver_at has passed.
DelayIsServed ==
    \A o \in Operators : match[o] \in {"pending", "sent"} => o \in ripe

\* The delay of a plan holds on every way a match can take: no mail is started and
\* no match delivered ahead of it.
DelayHolds == NobodyJumpsTheDelay /\ DelayIsServed

\* repo.ts:421, onConflictDoNothing: no re-fan-out, late insert or late sweep
\* takes a match back to an earlier state, which would mail its operator again.
Rank == [none |-> 0, delayed |-> 1, pending |-> 2, sent |-> 3]
MatchesAdvance ==
    [][\A o \in Operators : Rank[match[o]] <= Rank[match'[o]]]_vars

\* repo.ts:428, "never resurrect a closed/spam RFQ": a fan-out that was under
\* way when the RFQ closed does not bring it back; only the buyer does.
DeadStaysDead == [][rfq = "closed" /\ rfq' # rfq => rfq' = "new"]_vars

\* handlers.ts:316, QA-162: a match of a live RFQ is notified in the end,
\* whatever enqueue was lost and whichever worker died, or the RFQ dies.
EveryMatchIsNotified ==
    \A o \in Operators :
        (match[o] # "none" /\ IsLive) ~> (match[o] = "sent" \/ ~ IsLive)

\* QA-168: an RFQ whose fan-out was never enqueued does not stay new for ever.
NewIsTakenUp == (rfq = "new") ~> (rfq # "new")

\* The sweeps make good for every lost enqueue, of a fan-out and of a notification.
NothingIsForgotten == EveryMatchIsNotified /\ NewIsTakenUp

\* handlers.ts:174, QA-399: on a paid RFQ "every match goes out now".
PaidIsInstant == paid => \A o \in Operators : match[o] # "delayed"

\* handlers.ts:341, QA-168: "RFQs that persisted but never got a job" are fanned
\* out in the end, unless they die.
EveryRfqFansOut == posting ~> (~ IsLive \/ \E w \in Workers : At(w, "insert"))
=============================================================================
