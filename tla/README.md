# JetMarket: formal models

TLA+ models of the JetMarket marketplace, the TLC configurations that check
them on small instances, and proofs, checked by TLAPS, of what they promise for
every instance. The models are read from the TypeScript and SQL of the
repository; `PROJECT.json` ties every definition to the lines it stands for.

1. [The system](#1-the-system): inventory, interactions, what is hard
2. [Modules](#2-modules): which module models what, and how
3. [Runs](#3-runs): what each run asks, its bounds, what it shows
4. [Fairness](#4-fairness)
5. [Proofs](#5-proofs)
6. [Where code and docs disagree](#6-where-code-and-docs-disagree)
7. [What is not modelled](#7-what-is-not-modelled)
8. [Plan](#8-plan)

How to run, in this directory:

    tlc -workers 2 -config DealFlowRace.cfg MCDealFlow
    tlapm DealFlowProofs.tla

## 1. The system

JetMarket is a marketplace for high-ticket goods, jets first. A buyer posts a
request for quotation (RFQ), usually on a listing; the worker fans it out to
the operators that fit it; operators quote; buyer and operator haggle; the
buyer accepts one quote, which becomes a deal with a fee; the operator is
invoiced. A Next.js application (`apps/web`) serves requests, one worker process
or more (`apps/worker`) polls a jobs table, and both share a Postgres database
(`packages/db`). Nothing else is shared: **every interaction is a row**, so what
runs concurrently is web requests, worker ticks and payment webhooks, and what
is atomic is a SQL statement, or a transaction in the few places that open one.

The tests and the demo run the same application on a second implementation of
the repository interface, `lib/repo/memory.ts`, with the fan-out inline in the
request. What is promised of one has to hold of the other.

### Inventory

| Component | Where | State | Operations | What makes it correct |
|---|---|---|---|---|
| deal arbitration | `lib/deal.ts`, `app/api/quotes`, `app/api/rfqs/[id]`, `db/src/expire.ts` | status of rfqs, quotes, listings; the deals row | quote, accept, close, reopen, decline, withdraw, expire, sell, archive, spam | one deal per RFQ; a deal stands on an accepted quote; a failed accept undoes its own work only |
| deal ledger | `app/api/admin/deals`, `app/api/deals`, `lib/billing.ts` | `deals.invoice_status`, ratings | invoice, pay, void, revert, rate | paid and void are final |
| negotiation | `app/api/quotes/[id]/{revise,counter,accept-counter,decline-counter}` | amount, counter, rounds, revision trail | revise, counter, withdraw or decline or take a counter | trail complete; one open round, the one shown; accepted terms fixed; fee on the agreed price |
| job queue | `db/src/jobs.ts`, `worker/src/index.ts` | rows of jobs | enqueue, claim, complete, fail and back off, stale requeue, prune, retry | a job is on one worker; it settles, once |
| fan-out and delivery | `worker/src/handlers.ts`, `worker/src/repo.ts`, `lib/concierge.ts` | rfq_matches, rfqs.concierge, notification jobs | fan out, deliver due, recover stranded, notify, expedite on payment | delays are served; nobody is told ahead of time; everybody is told in the end; a dead RFQ stays dead |
| matching rule | `domain/src/matching.ts`, `plans.ts`, `lib/fanout.ts` | none of its own | pick, order and delay operators, inline or from SQL | the two fan-outs reach the same operators |
| nudges and reminders | `worker/src/handlers.ts`, `repo.ts` | nine claim stamps | select, stamp, mail | one claim per window, round or week; a debt is chased |
| search alerts | `lib/search-alerts.ts`, `app/api/search-alerts` | saved searches, token, digest queue | subscribe, confirm, pause, turn off, block; append, mail, flush | no mail without a standing consent; no queued listing lost |
| billing | `lib/billing.ts`, `app/api/billing`, `lib/concierge.ts` | subscription rows, operator plan, paid flag | payment and subscription events | the newest event wins; plan and subscription agree; paid once |
| RFQ intake | `app/api/rfqs`, `lib/rfq-dedupe.ts` | fields, dedupe key, status, deadline | post, amend, extend, close, reopen, bin, block, delete | no live twins; spam stays binned |
| listing lifecycle | `app/api/listings` | listing status, plan cap | create, duplicate, PATCH, DELETE, moderate, sell | the cap holds |
| moderation, account deletion | `app/api/admin`, `app/api/account` | suspension, flags, block list, personal data | suspend, verify, bin, block, dismiss, delete | nothing survives a deletion; nothing new for a blocked address |
| authentication | `lib/auth.ts`, `app/api/auth` | user, session version, ledger of used links | issue, consume, sign out, sync the admin role | a link works once; what was revoked stays so |
| repository interface | `lib/repo/{types,memory,drizzle}.ts` | all tables, twice | over a hundred calls | the two answer alike |
| buyer's, operators', admin's pages | `quotes/page.tsx`, `app/rfqs/page.tsx`, `admin/page.tsx` | rows as last loaded, a token | buttons | a button does what it says |
| public pages, mail texts, providers, verticals | `apps/web`, `packages/*` | none shared | rendering, adapters, configuration | out of scope |

### How they interact

    buyer / operator / admin            payment provider
             |  requests                     |  webhooks
             v                               v
      +----------------- apps/web ------------------+
      | accept: RFQ flip -> quote flip -> deal row  |
      |         -> decline siblings -> invoice      |
      |         -> listing sold -> sweep other RFQs |
      | post/amend RFQ: row, then enqueue rfq.fanout|
      | payment: paid flag + delayed matches, then  |
      |          a notification job for each        |
      | listing goes live: saved searches, mail now |
      |          or queue for a digest              |
      +------------------+--------------------------+
                         |  rfqs quotes deals listings rfq_matches jobs
                         |  operators subscriptions search_alerts users
                         v
      +---------------- apps/worker ----------------+
      | tick: expire, nudges, deliver due, flush    |
      |       digests, recover stranded matches and |
      |       RFQs, requeue stale, prune, claim a   |
      |       batch, handle it                      |
      +---------------------------------------------+

### What is hard

* **Interleaving at statement grain.** An accept is up to ten statements with
  no transaction around them. Correctness rests on a few compare-and-sets
  (`setRfqStatus` with expected states, `setQuoteStatus`, `setDealInvoice`,
  the claim stamps), partial unique indexes and a few row locks
  (`reviseQuote`, `updateRfqFields`, the operator's row under the cap).
* **Compensation.** A lost or failed accept gives back what it took by status
  alone, without knowing who holds the status now.
* **State read early and used late**: the listing an accept checked, the amount
  of its fee, the counter an operator takes, the paid flag of a fan-out, the
  plan a create read, the session version a sign-in read.
* **Partial failure.** Every enqueue after a commit can be lost; every request
  can die between two statements; `createDeal` can write the row and report a
  failure; a worker can die with claimed jobs, a digest between mail and mark.
* **Delivery out of order.** The provider repeats and reorders events; links of
  old mails come back after new ones were sent.
* **Recovery racing the work it recovers**: stale requeue and a slow handler,
  the stranded sweep and an enqueue under way, re-fan-outs, overlapping ticks.
* **Snapshots.** The expiry statement's branches share one snapshot, while its
  row updates re-check the latest version after a lock wait; the claim sweeps
  select on a snapshot and re-check the stamp only.
* **Two versions of one truth.** Memory and SQL, inline and worker, page and
  route, directory and profile decide the same question in different code.

`PROJECT.json` lists these one by one under `hazards`, at the line where each
bites, with the properties that would catch it, or why none does.

## 2. Modules

| Module | Models |
|---|---|
| `DealFlow` | deal arbitration, the ledger, the parts of the listing and deadline handling that touch it |
| `DealBook` | the abstract specification `DealFlow` implements |
| `Negotiation` | the haggling over one quote, up to its deal |
| `JobQueue` | the jobs table and the workers that poll it |
| `Fanout` | one RFQ's way to its operators, on top of what the jobs table promises |
| `ListingBook` | one operator's listings under the plan cap |
| `OperatorAccount` | profile, subscription and plan |
| `RfqIntake` | one buyer's requests: dedupe, amend, reopen, moderation, block, deletion |
| `Concierge` | paying for instant delivery |
| `Access` | magic links, sessions, the admin role |
| `AlertConsent`, `AlertDigest` | a saved search: whether it may be mailed, what it is mailed |
| `Nudges` | the worker's nine reminder sweeps |
| `BackendRequests`, `BackendTrade`, `BackendDesk`, `BackendAccounts`, `BackendListings` | the memory and the SQL repository in lockstep, table by table |
| `Matching` | the matching rule and the two fan-outs in lockstep |
| `BuyerInbox`, `OperatorInbox` | the two sides' pages on the same rows (the second EXTENDS the first), each button against its route |
| `BuyerTab` | the token and the loads of one browser tab |
| `AdminDesk` | the admin's buttons, from fresh and from stale pages |
| `MCStorefront`, `MCOutreach`, `MCAgreement` | compositions of the modules above for one run each |
| `MCDealFlow`, `MCNegotiation`, `MCJobQueue`, `MCFanout` | instances for TLC |
| `DealFlowProofs`, `NegotiationProofs`, `JobQueueProofs`, `FanoutProofs` | theorems about the module of that name |
| `StorefrontProofs`, `OutreachProofs`, `AgreementProofs` | theorems about the modules of that composition and about the composition |
| `BackendProofs` | the lemmas about the `Backend...` modules that `AgreementProofs` composes |

Operators whose comment begins "Mutation of" are broken variants of the action
that follows them, kept to show that the properties can fail.

The modules composed in `MCStorefront`, `MCOutreach` and `MCAgreement` share no
state in the code, so their product would only multiply states. The composition
has a variable `focus`, chosen at the start: the part in focus moves and the
others stay as they begin. Modules that do share rows are one state machine:
`OperatorInbox` extends `BuyerInbox`, `DealFlow` has its own listings.

### DealFlow and DealBook

State: `rfq`, `quote`, `listing` (statuses), `invoice[q]` (the deal on quote q,
`none` until the row exists: `deals.quote_id` is unique), `lapsed` (deadline
passed), and `req[s]`, the request session s serves: the repo call it makes
next, its quote, its listing, and the lists it walks. Each repo call is an
action named for it. The accept is the chain

    AcceptCheck -> CloseForDeal -> AcceptQuote -> CreateDeal
                     -> ListSent/DeclineNext* -> RaiseInvoice -> SellListing
                     -> SweepListing -> ListSent/DeclineNext*

with `Rollback` after a lost quote flip and `UnacceptQuote`, `UncloseRfq` after
a failed insert. `Faults` says which failures can happen: `abort` ends a request
between any two calls, `refused` fails the deal insert, `torn` writes it and
reports a failure. `renewed` is history: the RFQs that were reopened or whose
insert was torn. The safety properties are about the others; what happens to
renewed ones is what the violation run `DealFlowReopen` is about.

Abstractions, none of which a guard tells apart: RFQ `open` is the database's
`new` and `matched` (the repository's interface says `open`, and the reopen
writes `new`); listing `active` is draft, active and paused. `Reopen`, `PayDeal`,
`VoidDeal` and `LeaveSent` do guard and compare-and-set in one step, since the
compare-and-set repeats the guard. A provider's payment event may settle a
pending or an invoiced deal (`lib/billing.ts:26`), the admin's settlement only an
invoiced one: `PayDeal` is the wider of the two. The revise that
`accept-counter` does first is in `Negotiation`. Rate limits, authorisation,
suspension, the RFQ's pause and the match requirement of `POST /quotes` only
refuse more requests and are left out.

`DealBook` keeps only what users were promised: a set of sealed quotes in which
an RFQ takes a second deal only once renewed. The refinement maps `sealed` to
the quotes with a deal row.

### Negotiation

State: the quote row (`status`, `price`, `counter`), its `rounds` and `trail`,
`deal` (the amount the fee was computed on), `lock` (who holds the row FOR
UPDATE in `reviseQuote`), the requests, and `sweep`, the snapshot of an expiry
statement in flight. `offers` is history. While `lock` is taken no other
statement writes the row; the expiry's row updates re-check the latest version
and its round update uses the snapshot. `setQuoteStatus` is two statements
(`AcceptQuote`, then `ResolveCounterRounds`). `CloseRfq` and `ReopenRfq` stand
for everything that happens to the RFQ elsewhere. `ClearCounter(declined)`
does not ask for a live RFQ, which the route does: the model allows more.

### JobQueue

State: `status`, `attempts` of each row; `due` and `old` are what the queries ask
of `run_at` and `updated_at`; `phase[w]`, `work[w]` the tick of worker w. Each
helper of `db/src/jobs.ts` is one statement and one action. `ClaimJobs` takes any
`Batch` due rows or all of them (SKIP LOCKED: no two claims share a row).
`CompleteJob` and `FailJob` write by id whatever the row has become, as the code
does. `raced` is history: jobs the stale sweep took from a worker that still had
them (a slow handler; the code's ten-minute cutoff is for the claim, not for
the handler's progress). The properties are about the others.

### Fanout

One RFQ and its operators. `match[o]` and `ripe` are the rfq_matches rows and
whether `deliver_at` has passed; the jobs table is reduced to what the queries
here ask: `waiting[x]`, how many rows of payload x can still be claimed, and
`kept`, which payloads have a settled row left. A worker's tick is
`DeliverDueMatches`, `UnnotifiedPendingMatches`, `EnqueueNext`,
`UnfanoutedRfqs`, `Refan`, `ClaimJobs`, then per job `LoadRfq`,
`InsertMatches`, `MarkRfqMatched`, `Announce` or `LoadMatch`,
`MarkMatchState`. The web side posts and amends (the enqueue comes after and
can be lost), closes, reopens, quotes early, and pays (`ExpediteRfq`, one
transaction, then one enqueue per match).

Abstractions: `matched` is matched and quoted, `closed` is closed and spam.
Which operators fit, and who is prompt by plan, are inputs. Mail goes out
between `LoadMatch` and `MarkMatchState`; that a crash there mails twice is the
code's at-least-once choice. A crash and the stale requeue that makes good for
it are one step (JobQueue has them apart); one row per payload is claimed at a
time. The payment is not tied to a checkout: it completes at any time while the
RFQ is live (`Concierge` has the sessions).

### ListingBook

State: `shelf[l]` (a listing's status), `plan`, `suspended`, `opLock` (who has
the operator's row FOR UPDATE), `call[c]` (a request, with the status it read
and whether it is capped). A create and a reactivation under the cap are two
steps, `LockAndCount` or `CountOthers` under the lock and then the write; a
reactivation reads its own row (`ReadRow`) before the lock, as the code does.
Everything else is read, decide, write. `exempt` is history: listings that count
without a count having let them in (inserted while the plan was read as Pro, put
back over a row that had ended, brought back by a revert). Left out: titles, prices, photos,
watches; a PATCH to sold is allowed for any listing; what a duplicate and a
DELETE ask of suspension.

### OperatorAccount, Concierge

`OperatorAccount`: `profile`, `sub`, the events the provider has sent (each may
come again, in any order, and stamps may tie), and the webhook, profile, verify,
suspend and away requests, each a read followed by writes, each able to die in
between. `raced` is history: two writers of the plan overlapped, or one died
half way; `OneAtATimeAgrees` is about the rest, since for the others it is false
(section 6). `StampsAdvance` has no such exception.

`Concierge`: sessions at the provider, events that repeat, `Expedite` (flag and
delayed matches, one transaction; the enqueues that follow are in `Fanout`), the
receipt, a handler that dies between the two.

### RfqIntake

The rows one buyer has on one listing. `InsertRfq`, `AmendRfq`, `FlipStatus` are
statements with the code's guards and the partial unique index on live keys;
`ask[b]` is what a request read before. A dedupe key is the fields it was made
from: `ExtendRfq` changes the date and not the key (`moved`), so `NoTwins` leaves
extended requests out. new, matched and quoted are one live status; one day
stands for a week; pause is left out. Block and deletion are walks of several
steps (`BlockBuyerEmail`, `SpamBuyerRfqs`; `SelectMine`, `EraseMine`).

### Access

`user` (role, session version), `mailed`, the ledger `used`, the `cookies` in
browsers, and the sign-ins under way. Several instances serve: `ahead[d]` is how
far the clock where request d runs is before the slowest, up to `Drift`, and a
stamp may lie up to `Skew` (SKEW_MS) in the future. `VerifyMagicLink` checks the
signature's age and dates the ledger row by the same reading; `PruneLedger`,
`InsertSig`, `LoadUser` and `SetCookie` are the awaits that follow, between which
time passes and everything else runs. `Redeploy` changes ADMIN_EMAILS; requests
of the old process are dropped or finish as they began.

The histories say what a property is about. `revoked` holds the cookies a logout
had to kill: those set by then, and that of every callback which had read the
user by then, added when it is set (`late` keeps the callback until then).
`late` also holds the requests a deploy caught before they synced the role, and
`resynced` says that the last sync was by a request which is not late. `outlived`
holds the links whose ledger row need not last as long as the link: one used
less than `Drift` after its stamp, since the row counts from the consumer's clock
and the link from its signer's, and one whose request reached the ledger after the
link had lapsed. `LinkSignsInOnce` is about the others; without the exemption it
is false (section 6).

### AlertConsent, AlertDigest, Nudges

`AlertConsent`: one row with its token; every subscribe rotates the token, so
links of old mails, numbered by token, are still clicked. `optedOut` and
`straddled` are history. `AlertDigest`: `queue`, `lastMail`, and senders that
append, read, mail, and only then empty the queue; mails fail and senders die
(`MaxFaults`). `mingled` is history: two senders of one search overlapped.
Whether a listing matches a saved search is an input.

`Nudges`: a behaviour follows one of the nine sweeps over one request and its
quote, deal, listing and operator. A sweep selects on a snapshot (`due`), stamps
under the row lock asking only for the stamp again, and mails; the mail's fate
changes nothing. `claims` counts stamps since the reminder was last armed.

### Backend... modules

Memory's calls are synchronous blocks and SQL's are statements or transactions,
so a call is one step that both take (`Mem...` and `Sql...` operators, one pair
per method), and the property compares their answers and every row a later call
would read, missing values, cascades and NULL comparisons included.

* `BackendRequests`: create, dedupe, amend, extend, pause, status flips,
  expiry. Memory keeps a map from a key to its last claimant, SQL a partial
  index; the comparison ends (`apart`) with a reopen that finds another claimant,
  where the two are known to part.
* `BackendTrade`: matches, views and counters of an operator's inbox, quotes,
  counters, rounds, revisions, dismissals. Memory compares `deliverAt` with its
  clock, SQL has a state the worker's sweep flips: delay's end and sweep are one
  step.
* `BackendDesk`: flags, block list, alerts, and the deletion of a mailbox over
  two marketplaces of one database.
* `BackendAccounts`: users, used links, profile, subscription, presets, deals
  and ratings, one saved search. `split` marks the full ledger of memory.
* `BackendListings`: the cap as each counts it, delete, and the filters of the
  browse, tested one by one.

### Matching

`Candidates` of either side, the scoring rule with its ties, the plan's delay,
and the two fan-outs as one step each, through edits of operators, amendments
and a payment. Tied matches are broken by dealer id, numbers here.

### BuyerInbox, OperatorInbox, BuyerTab, AdminDesk

For every button, `Shows...` is the condition under which the page renders it and
`Takes...` its route's guard. A click acts in any state: the page may be
arbitrarily old and the route alone decides. What a page itself decides is said
of a page whose rows are fresh: what it shows, its route takes, with the
exceptions listed as `Dead...` definitions (section 6). One request; one aspect of the world
(terms, dates or trust) moves per behaviour. `BuyerTab` has the address, the
stash in sessionStorage, and loads that land in any order. In `AdminDesk` a
button is picked from the page as it was (`click`) and pressed later; `amiss`
records what took effect where it was not offered.

## 3. Runs

The pass runs together fire all actions of their next-state relations. Deadlock
is not checked where the system may rest: it ends when nothing more is offered,
clicked or enqueued within the bounds. `Fanout` never rests, and its runs check
for deadlock.

| Run | Instance | Shows |
|---|---|---|
| `DealFlowRace` | 1 RFQ, 2 quotes of 2 operators, 1 one-off listing, 2 sessions, all faults | `SingleWinner`, `Arbitration` (types, sealed RFQs closed, deals on accepted quotes, exclusive hold), `SettledIsFinal`, and that DealFlow implements DealBook (`BookSpec`) |
| `DealFlowSweep` | 1 RFQ, 2 quotes, 1 session, all faults | `LapsedIsSwept`: a lapsed RFQ leaves the market, also one a failing accept gives back after the sweep |
| `DealFlowReopen` | violation | `OneDealPerRfq` fails: close by deal, reopen, second deal |
| `DealFlowTwoSales` | violation | `SoldOnce` fails: two RFQs of one one-off listing |
| `NegotiationRace` | 2 sessions, 2 prices, 2 rounds, 2 revises and one in flight, all faults | `TrailPinned`, `OpenRoundOnTable`, `AcceptedTermsStand` |
| `NegotiationStaleFee` | violation | `FeeOnAgreedPrice` fails |
| `JobQueueTick` | 2 jobs, 2 workers, batch 2, 2 attempts, 1 crash, 1 retry | `SoleHolder`, `SettlesOnce`, `JobSettles` |
| `FanoutDelivery` | 1 operator, 2 workers, 1 fault, 1 amendment | `DelayHolds`, `MatchesAdvance`, `DeadStaysDead` |
| `FanoutSettles` | 2 operators, 1 worker, 1 fault | `NothingIsForgotten`: every match of a live RFQ is notified, and none stays new |
| `Storefront` | 2 requests in flight per part; 2 listings under a cap of 1; 2 stamps, 1 death; 2 requests of one buyer over 2 days; 2 payment sessions, 2 operators; 1 link, 2 clocks up to a tick apart, 3 instants, 2 session versions | `CapHolds`, `OneAtATimeAgrees`, `StampsAdvance`, `NoTwins`, `SpamStaysDown`, `ExpeditedOnce`, `LinkSignsInOnce`, `RevokedIsOut` |
| `Outreach` | 3 clicks, 3 tokens; 2 listings, 1 web sender and the worker, 1 fault; 2 workers, 9 sweeps | `OffNeedsConfirmation`, `BlockedIsSilent`, `BacklogKept`, `BacklogServed`, `ClaimedOnce`, `DebtIsChased` |
| `Agreement` | one or two rows per table, two keys, two marketplaces; 2 bidders, two turns of the world; 2 links; 3 dealers with 6 kinds of book, 2 changes | `BackendsAgree`, `ErasedIsGone`, `DirectoryMatchesProfile`, `PagesAreHonest`, `FanoutsAgree` |

Every property of a pass run has a mutant in `PROJECT.json`: one action replaced
by a plausible mistake (a dropped guard, a blind write, a missing sweep), under
which TLC finds the property violated.

**Bounds.** `MaxRounds`, `MaxOffers`, `MaxCrashes`, `MaxRetries`, `MaxFaults`,
`MaxAmends`, `MaxStamp`, `MaxDeaths`, `MaxDay`, `MaxLost`, `MaxNow`,
`MaxVersion`, `MaxToken`, `MaxEdits`, `MaxRevs`, `MaxTurns`, `MaxChanges` cap
counters the code does not cap; each appears in a guard of the actions that
count, or in the domain of the counted value. Every race here is between
two parties over one row, so two sessions, quotes or workers reach it; a
subscription needs a third click in flight, because a block walks in two steps
beside a confirm and a subscribe. `Batch` is 10 in the code, and 2 leaves a batch
that is full, partly full or empty. Two rounds let a second counter follow a
resolved one; two prices give a revise a different number. `MaxOffers` guards
the start of a revise, so one that started earlier may exceed it: three prices
occur, enough for two superseded terms whose order can be wrong. A cap of 1 with
two listings has every occupancy from empty to over the cap; two stamps have an
older, a newer and a tied event. `LinkTtl` is shorter than `SessionTtl`, as in
the code, so a session can outlive its link and a ledger row; `MaxNow` lets
both end. `Drift` and `Skew` are one tick, as long as the link itself: a link
can outlive its row by a whole lifetime. One link suffices, as no action relates
two but the prune, which takes every expired row. Of the roles a sign-in page asks
for (`Intents`) the run has one, since the code compares roles with admin only; the
proofs have both, and any number of links. One fault suffices for each recovery to be needed; that
recoveries of many faults do not disturb each other is what the proofs, which
have no bounds, add. In `Agreement` a row per table is enough for a method that
touches one row by id; tables with a key, a cap, or a foreign key have two. With
`Limit` 1 and two competing dealers the cut of the matching rule is exercised
(10 in the code). With two operators and two workers together `Fanout` does not
finish in reasonable time: safety is checked with two workers and liveness with
two operators.

**Symmetry** is used for sessions, and in `Storefront` for requests and rows,
which its parts draw from two common sets of values; never in a run with a
liveness property.

## 4. Fairness

* `DealFlow!FairSpec`: the worker's expiry sweep is weakly fair. The worker
  loops until it is told to stop, catches what a tick throws and sleeps a fixed interval
  (`worker/src/index.ts`). Requests are *not* fair: they may stop anywhere.
* `JobQueue!FairSpec`: each worker's tick is weakly fair (its handlers return or
  throw), and clocks advance. Crashes are bounded: a job that kills its worker
  every time never settles, since the attempts budget is looked at by `failJob`
  only.
* `Fanout!FairSpec`: each worker's tick, the clock of each delayed match, the
  hourly prune, and the end of a request that is about to enqueue. The prune is
  essential to `NothingIsForgotten`: a job that failed for good hides its
  match from the stranded sweep until its row is pruned.
* `AlertDigest!DigestFairness`: the worker's flush starts when it may, its
  steps go on, and the cooldown passes. Web requests are not fair. Faults are
  bounded: a mail that fails for ever leaves its backlog for ever.
* `Nudges!NudgeFairness`: every worker's tick, and the windows and weeks pass.

No strong fairness is used, and none of the users' actions is fair.

## 5. Proofs

`tlapm` checks every theorem to the last leaf, from the named assumptions only
(one `...Assumption` per module: the typing of its constants, finiteness of
the listings, a cap in Nat, at least one locale and one stamp), for any sets of
rows, sessions, requests and workers, and any bounds. Every safety invariant and
action property a run checks is stated by a theorem. A theorem is about the
specification of its own module (`BookSpec`, `IntakeSpec`, ...), or, in
`AgreementProofs` and for the type invariants of `MCStorefront` and `MCOutreach`,
about the composition.

**DealFlowProofs.** `ArbitrationHolds` proves the inductive invariant
`Arbitration`: the type invariant and the four safety properties *together*.
None of the four is inductive alone. `SingleWinner` needs that a request about
to insert a deal found no other deal, which is `ExclusiveHold`: from the flip
of the RFQ to the deal row the session holds the RFQ, which stays closed,
without deals, without other accepted quotes and without other holders.
`ExclusiveHold` needs `SealedIsClosed` to exclude a second holder entering
through a live RFQ that already has an accepted quote, and the order of
compensation (quote first, RFQ second) to keep that true on the way out.
The theorems `OneWinner`, `SealedStaysClosed`, `DealsStandOnAccepted`,
`HoldIsExclusive` follow; `Settlement` proves the action property; and
`ImplementsBook` the refinement: `CreateDeal` maps to `Seal`, whose guard is
`ExclusiveHold`'s "no deal yet", `Reopen` maps to `Renew`, the rest stutters.

**NegotiationProofs.** `TrailIsComplete`: `Pinned` (the terms a locked revise will
log are still the quote's) is what makes `TrailComplete` inductive; it holds because `lock` has one
owner and every other writer of the row asks for it to be free.
`AcceptedTermsAreFixed` follows from the status guard of the write.
`OpenRoundOnTable` (`RoundsAreAudited`) is inductive with the type invariant: no
price is `None`, so without a counter there is no open round, and whatever
clears the counter ends the rounds in the same statement or transaction; an
accepted quote keeps its counter, and only sheds open rounds.

**JobQueueProofs.** `ClaimsAreExclusive`: `SoleHolder` and the type invariant are
inductive, by the claim's `pending` guard and the `raced` bookkeeping.
`SettlesForGood` follows: only a holder writes an answer, a held job is running.

**FanoutProofs.** `DelaysHold` is the heart. `OnItsWay(o)` collects every place
that can lead to a mail for o: a waiting or settled job row, a batch, a list to
enqueue, the payment's list. The lemma `StepIsLawful` shows that a step puts an
operator on its way only by turning its match pending (or sent) in that very
step; `StepForward` that a match never returns to `none` or `delayed`. So an
operator with a missing or delayed match is not on its way. From it,
`DelaysAreServed`: who marks a match sent holds its job, so the match had left
its delay; `TheDelayHolds` is both. `MatchesOnlyAdvance` and `NoResurrection`
are action properties.

**StorefrontProofs.** Five modules and their composition.
* `SubscriptionsAdvance` is the gate of the upsert. `PlanFollowsSubscription` is
  inductive as `PlanInv`: as long as nothing raced, there is one writer of the
  plan at most, the event it applies is newer than the row, a form that is about
  to write has the row's plan, and with no writer the two agree.
* `TwinsAreRefused`: `KeysFollow` (a row that no extension moved is keyed by its
  fields) and `KeysDiffer` (rows in the index's scope differ in key) are
  inductive together; NoTwins is their consequence. `SpamIsFinal` goes through
  the expected states of every flip.
* `TheCapHolds`: `CountersHold` (who has counted holds the operator's lock,
  alone) and `PlaceIsFree` (and the counted place is still free) with
  `CapHolds`; the cardinality facts are the library's.
* `PaidDeliveryIsOnce`: `PaidOnce` says that before the flag nothing was enqueued
  or mailed, and after it one handler at most has its receipt still to mail.
* `RevocationHolds`: `VersionsLag` (no version in a cookie or in a callback's
  hands is ahead of the user's; a revoked cookie's, and that of a callback a
  logout overtook, is behind) and `NobodyPromotes` (while the mailbox is not
  listed, no request that is not late asks for the admin role, and one about to write the
  role of an admin has seen that it is one).
* `LinksAreOneTime`: `LedgerOutlasts` (the row of a link that is not exempt expires
  at the link's own lapse plus the drift or later, and so outlasts it by every
  instance's clock) and `OneUse` (of the requests that will open a session with a
  link there is one at most, and the link has opened none). A request between
  the check and the insert is one that either finds the row or finds the link
  lapsed, which is why the exemption looks at the clock of the insert.
* `StorefrontRunsItsParts`: a step of the composition is a step or a stutter of
  each part, so the theorems of the parts hold of it; `StorefrontTypeCorrect` is
  drawn that way.

**OutreachProofs.** `OffStaysOff` by the rotation of tokens; `BlockedStaysSilent`:
`SilenceComes` (if a blocked mailbox has a search that can be mailed, the block
or the confirmation that armed it is still under way and will turn it off);
`TheBacklogIsKept`: `OneSender` (as long as requests about the search did not
overlap, one sender is at work and what it read is the whole queue);
`RemindersAreClaimedOnce`: `StampCounts` (while the stamp is free nothing is
claimed). `OutreachTypeCorrect` types the three parts and carries them over to
the composition.

**BackendProofs.** Each pair of tables is coupled by an invariant, and one lemma
per call shows that both repositories leave what the coupling asks for and give
the same answer. Where the two keep the same shape the coupling is equality; where
they do not it says why the difference cannot be seen.
* Requests, `RequestsInv`: memory's map of keys stands for Postgres' partial unique
  index because a key it holds is the key of its holder's row, *live or not*
  (`HoldersKeep`), and a live row holds its own key (`LiveHold`). From the two,
  `TwinsAgree`: both refuse a key for the same requests. The first is why an
  amendment has to drop the keys the request held before; the second is what a
  revival breaks when another request claimed the key, the step that sets `apart`.
* Trade, `TradeInv`: `Mirrored` folds expired into closed and the running delay
  into delayed; `NotesHaveCounters` is why keeping an old note (memory) and writing
  null (Postgres) are the same.
* Desk, `DeskInv`: `OpenDedupe` makes the scan and the index find the same open
  flag; `OwnedTraces` (what is not the mailbox's request carries nothing of it)
  is what makes the deletion, which reaches edits, counters and notes through
  the requests the mailbox owns, complete (`ErasureIsComplete`).
* Accounts, `AccountsInv`: `LedgersAgree`. A signature covers its expiry, so a
  link that can still be presented (this module has one clock; `Access` has many)
  has not expired in either ledger; Postgres may prune the others and memory keep
  them. While the ledger is not full the two accept and refuse together, and a full
  one sets `split`.
* Listings, `ListingsInv`: the shelves are equal; the cap counted before and after
  the listing's own row, and the directory's count against the profile, are
  cardinalities (`CapsAgree`, `DirectoryCounts`).

**AgreementProofs.** The pages and the fan-outs, and the composition.
* Pages: `InboxInv` strengthens the type invariant by `OddOnesAreReopened`. A live
  request on a listing that is gone, or an open one with an offer, was reopened:
  those are the rows whose buttons the routes refuse for another reason than the page
  shows. `ClickIsOurs` for the admin's tables, `OneLink` for the tab: nothing of an
  earlier link outlives the document that showed it.
* Fan-outs: `FanoutsMatch`. `SameCandidates` equates the plan's rule and the SQL
  condition, the choice is then one function of the same candidates, and what
  was inserted before survives in both.
* `PartsMoveAlone` and `PartsCorrect` bring the invariants together under `Spec`;
  `BackendsNeverDiffer`, `ErasureIsFinal`, `DirectoryIsHonest`, `PagesStayHonest`,
  `FanoutsNeverDiffer` and `AgreementTypeCorrect` follow.

**Only model-checked**: the liveness properties (`LapsedIsSwept`, `JobSettles`,
`NothingIsForgotten`, `BacklogServed`, `DebtIsChased`), since the prover handles
neither `ENABLED` nor the induction a leads-to needs.

## 6. Where code and docs disagree

Three have a run that exhibits them and an entry under `findings`.

* **A reopened RFQ takes a second deal** (`DealFlowReopen`). `lib/deal.ts:39` says
  at most one deal is ever created per RFQ; the reopen route does not ask
  whether a deal closed it.
* **One-off inventory can be sold twice** (`DealFlowTwoSales`). The listing is read
  before the arbitration of one RFQ and flipped, unconditionally, at its end; two
  RFQs of one listing arbitrate independently.
* **The fee can be on a superseded price** (`NegotiationStaleFee`). The amount is
  read before the flip; a revise commits in between.

The others are stated in the modules, each as a definition TLC refutes when it
is given as a property. No run is spent on them.

| Definition | What happens |
|---|---|
| `Negotiation!TakesLiveCounter` | `accept-counter` revises to the number it read: a withdrawn counter becomes the price |
| `Fanout!PaidIsInstant` | the payment commits between the fan-out's read of the flag and its insert; the delayed rows stay |
| `Fanout!EveryRfqFansOut` | the recovery asks for the status new, which an owner's early quote ends |
| `ListingBook!EndedStaysDown` | a stale PATCH, or an admin's pause and a reactivation, bring a sold listing back |
| `OperatorAccount!NoLateDowngrade` | the subscription is read, the plan set later: a late cancel lands under a newer activation |
| `RfqIntake!BlockedIsOut` | a post or a reopen that passed its block check lands after the block's sweep |
| `Access!EveryLinkOnce` | `lib/auth.ts:100` says the ledger keeps a link single-use across instances and that a row expires with its link's TTL; the row counts from the consumer's clock, the link from its signer's, so a link used early by a slower clock outlives its row; so does one whose second request stalls until the first one's row is pruned |
| `Concierge!ChargedOnce` | two checkouts of one request can both be paid; `lib/concierge.ts` says a double click "can't charge twice" (it delivers once, `ExpeditedOnce`) |
| `AlertDigest!NothingWiped` | the mark empties the whole queue, also what was appended after the digest was read |
| `Nudges!RoundStartsArmed` | a sweep that selected the old round stamps the new one |
| `BuyerInbox!ExtendIsHonest` | after an extension the page offers the next one, which the route refuses until midnight UTC |
| `Matching!NewMailOnce` | the inline fan-out of an amendment mails every instant match again; the worker only new ones |

Exceptions that the checked properties name (`raced`, `mingled`, `straddled`,
`outlived`, `late`, `exempt`, `moved`, `renewed`, `apart`, `split`, the `Dead...` buttons) are such
places, too: the property says what holds outside them.

The models also reach the following. A repeated revert after the listing was
sold again reactivates it; a counter can end at or above a racing lower ask; the
expiry leaves a round open that was added after its snapshot; an accepted round
remains when the close after it fails; a torn `createDeal` makes the buyer's
retry end in a conflict; the stranded sweep may enqueue a second job for a match
just being announced; a reopened RFQ is fanned out again once its old job is
pruned, though `reopen/route.ts:20` says it is not; a handler slower than the
stale cutoff runs twice; the decline of a counter is refused on a reopened
request (`decline-counter/route.ts:39` lists new, and the row it tests says
open); an admin's toggle pressed on a stale page does the opposite of its label; the operator's archive leaves the listing's
flags open; rows of an older load can land after those of a newer one.

**Memory and SQL** part, as far as the modules name it, on: a reopened request
whose key another claimed; expired rows, which SQL folds into closed; the full
ledger of used links; `counterScrubbed`, a tally; quotes, whose one-live-per-operator
rule is an index in Postgres only. **Inline and worker fan-out** part on:
the state after a fan-out without a fit; later matches of a paid request
(instant with the worker only); the mail above.

## 7. What is not modelled

* **Public pages, translations, the component library**: rendering, no state.
* **Mail texts** (`lib/notify.ts`): whether and when a mail goes is in the
  modules; what it says is not.
* **Providers** appear as faults and events; **verticals** are configuration.
* **Fees and money** (`domain/fees.ts`, `money.ts`): arithmetic on one value
  with unit tests; the models only ask which price a fee is on.
* **Read-only queries**: statistics, feeds, the admin's lists, demand groups.
  Their filters are compared across the repositories only where a page decides
  on them (inbox views, browse, directory).
* **Refusals that only narrow**: rate limits, captcha, schema validation, most
  authorisation checks. A model without them allows more.
* **Attribute filters** on values a schema cannot produce (null or boolean under a
  range), the browse's free text (`JSON.stringify` against `jsonb::text`), price
  rounding and the order of rows are left out of the comparison of the
  repositories.
* **The mock checkout** applies a subscription event without a stamp, which skips
  the stale-event test; `OperatorAccount` has the provider's stamped events only.
* **Unknown verticals**: for a vertical without a matching configuration the inline
  fan-out infers "aircraftCategory" (`lib/fanout.ts:23`) and the worker nothing
  (`handlers.ts:155`). Both verticals the repository ships have a configuration
  (`packages/verticals`), and `Matching` has such verticals only; nor does it have
  requests whose listing was deleted between the two reads.
* **Erasure of queued jobs**: `ErasedIsGone` is about tables; an address in the
  payload of a pending job, or inside a longer text, is not in the model.
* **Uploads** (orphaned photos) and **analytics**.
* The merging of neighbours: `DealFlow` and `ListingBook` each have listings,
  `Fanout` and `JobQueue` each have jobs; what one assumes of the other is
  in section 2 and not yet a checked refinement.

## 8. Plan

1. *Done*: arbitration, negotiation, queue, fan-out; listings, account, intake,
   concierge, access; alerts and nudges; both repositories; matching; pages; and
   the proofs of section 5.
2. *Done*: a theorem for every safety invariant and action property, with the
   agreement of the two repositories, of the two fan-outs and of pages and routes.
3. *Refinement*: `Fanout`'s waiting and settled rows as an image of `JobQueue`;
   an abstract delivery (none, held, out) that `Fanout` implements;
   `RfqIntake`'s index as the abstract set of live keys.
4. *Composition*: `ListingBook` with two `DealFlow` RFQs of one listing, sharing
   the status; the deletion of a mailbox beside jobs in flight.
