---------------------------- MODULE FanoutProofs ----------------------------
(***************************************************************************)
(* Proofs about Fanout, for every number of operators, workers, faults and *)
(* amendments.                                                             *)
(***************************************************************************)
EXTENDS Fanout, TLAPS

-----------------------------------------------------------------------------
(* Type correctness.                                                       *)

\* What a worker's tick keeps: a value of its domain, the job it handles among
\* those it claimed, and an operator to mark.
GoodProgress(p) ==
    /\ p \in Progress
    /\ p.pc = "mark" => p.job \in Operators
    /\ p.pc \in JobPhases <=> p.job # None
    /\ p.job # None => p.job \in p.batch

\* The part of TypeOK about the workers.
WorkersOK ==
    /\ worker \in [Workers -> Progress]
    /\ \A w \in Workers : GoodProgress(worker[w])

\* The rest of TypeOK.
RowsOK ==
    /\ rfq \in {"new", "matched", "closed"} /\ paid \in BOOLEAN
    /\ match \in [Operators -> MatchStates] /\ ripe \subseteq Operators
    /\ waiting \in [Payloads -> Nat] /\ kept \subseteq Payloads
    /\ posting \in BOOLEAN /\ expedited \subseteq Operators
    /\ faults \in Nat /\ amends \in Nat

LEMMA TypeParts == TypeOK <=> RowsOK /\ WorkersOK
  BY DEF TypeOK, RowsOK, WorkersOK, GoodProgress, At

\* One worker moves, the others stay.
LEMMA WorkMoves ==
  ASSUME WorkersOK, NEW w \in Workers, NEW p, Work(w, p)
  PROVE  /\ worker'[w] = p
         /\ \A v \in Workers \ {w} : worker'[v] = worker[v]
  BY DEF Work, WorkersOK

LEMMA WorkType ==
  ASSUME WorkersOK, NEW w \in Workers, NEW p, GoodProgress(p), Work(w, p)
  PROVE  WorkersOK'
  BY DEF Work, WorkersOK, GoodProgress

LEMMA EnqueueType ==
  ASSUME RowsOK, NEW x \in Payloads, EnqueueJob(x)
  PROVE  waiting' \in [Payloads -> Nat]
  BY DEF EnqueueJob, RowsOK

LEMMA BeginIsGood == GoodProgress(Begin)
  BY DEF GoodProgress, Begin, Progress, Phases, JobPhases

\* A worker lets go of the job in hand, settled or to be retried.
LEMMA LetGoType ==
  ASSUME WorkersOK, NEW w \in Workers,
         Work(w, [worker[w] EXCEPT !.pc = "handle", !.batch = @ \ {worker[w].job},
                                   !.job = None, !.todo = {}, !.instant = FALSE])
  PROVE  WorkersOK'
<1> DEFINE p == [worker[w] EXCEPT !.pc = "handle", !.batch = @ \ {worker[w].job},
                                  !.job = None, !.todo = {}, !.instant = FALSE]
<1>1. GoodProgress(worker[w])
  BY DEF WorkersOK
<1>2. GoodProgress(p)
  BY <1>1 DEF GoodProgress, Progress, Phases, JobPhases
<1> QED BY <1>2, WorkType

LEMMA SettleType ==
  ASSUME RowsOK, WorkersOK, NEW w \in Workers, worker[w].pc \in JobPhases, Settle(w)
  PROVE  kept' \subseteq Payloads /\ WorkersOK'
<1>1. worker[w].job \in Payloads
  BY DEF WorkersOK, GoodProgress, Progress
<1> QED BY <1>1, LetGoType DEF Settle, RowsOK

\* The workers' own steps.
LEMMA SweepType ==
  ASSUME RowsOK, WorkersOK, NEW w \in Workers, Sweep(w)
  PROVE  RowsOK' /\ WorkersOK'
<1>0. GoodProgress(worker[w])
  BY DEF WorkersOK
<1> DEFINE P == worker[w]
<1>1. CASE DeliverDueMatches(w)
  <2>1. PICK due : /\ due \subseteq Operators
                   /\ match' = [o \in Operators |-> IF o \in due THEN "pending" ELSE match[o]]
                   /\ Work(w, [P EXCEPT !.pc = "stranded", !.todo = due])
    BY <1>1 DEF DeliverDueMatches, RowsOK
  <2>2. GoodProgress([P EXCEPT !.pc = "stranded", !.todo = due])
    BY <1>0, <1>1, <2>1 DEF DeliverDueMatches, At, GoodProgress, Progress, Phases, JobPhases
  <2>3. WorkersOK'
    BY <2>1, <2>2, WorkType
  <2> QED BY <1>1, <2>1, <2>3 DEF DeliverDueMatches, RowsOK, MatchStates, jobs, web
<1>2. CASE UnnotifiedPendingMatches(w)
  <2>1. PICK found : /\ found \subseteq Operators
                     /\ Work(w, [P EXCEPT !.pc = "enqueue", !.todo = @ \cup found])
    BY <1>2 DEF UnnotifiedPendingMatches
  <2>2. GoodProgress([P EXCEPT !.pc = "enqueue", !.todo = @ \cup found])
    BY <1>0, <1>2, <2>1 DEF UnnotifiedPendingMatches, At, GoodProgress, Progress, Phases, JobPhases
  <2>3. WorkersOK'
    BY <2>1, <2>2, WorkType
  <2> QED BY <1>2, <2>3 DEF UnnotifiedPendingMatches, RowsOK, rows, jobs, web
<1>3. CASE EnqueueNext(w)
  <2>1. PICK o \in P.todo : EnqueueJob(o) /\ Work(w, [P EXCEPT !.todo = @ \ {o}])
    BY <1>3 DEF EnqueueNext
  <2>2. o \in Payloads /\ GoodProgress([P EXCEPT !.todo = @ \ {o}])
    BY <1>0, <2>1 DEF GoodProgress, Progress, Phases, JobPhases, Payloads
  <2>3. WorkersOK' /\ waiting' \in [Payloads -> Nat]
    BY <2>1, <2>2, WorkType, EnqueueType
  <2> QED BY <1>3, <2>3 DEF EnqueueNext, RowsOK, rows, web
<1>4. CASE UnfanoutedRfqs(w)
  <2>1. PICK pc \in {"refan", "claim"} : Work(w, [P EXCEPT !.pc = pc])
    BY <1>4 DEF UnfanoutedRfqs, Goto
  <2>2. GoodProgress([P EXCEPT !.pc = pc])
    BY <1>0, <1>4, <2>1 DEF UnfanoutedRfqs, At, GoodProgress, Progress, Phases, JobPhases
  <2>3. WorkersOK'
    BY <2>1, <2>2, WorkType
  <2> QED BY <1>4, <2>3 DEF UnfanoutedRfqs, RowsOK, rows, jobs, web
<1>5. CASE Refan(w)
  <2>1. GoodProgress([P EXCEPT !.pc = "claim"])
    BY <1>0, <1>5 DEF Refan, At, GoodProgress, Progress, Phases, JobPhases
  <2>2. WorkersOK' /\ waiting' \in [Payloads -> Nat]
    BY <1>5, <2>1, WorkType, EnqueueType DEF Refan, Goto, Payloads
  <2> QED BY <1>5, <2>2 DEF Refan, RowsOK, rows, web
<1> QED BY <1>1, <1>2, <1>3, <1>4, <1>5 DEF Sweep

\* A job of the batch is finished without its handler taking a step more.
LEMMA DoneType ==
  ASSUME RowsOK, WorkersOK, NEW w \in Workers, NEW x \in worker[w].batch,
         At(w, "handle"), kept' = kept \cup {x},
         Work(w, [worker[w] EXCEPT !.batch = @ \ {x}])
  PROVE  kept' \subseteq Payloads /\ WorkersOK'
<1>1. GoodProgress(worker[w])
  BY DEF WorkersOK
<1>2. GoodProgress([worker[w] EXCEPT !.batch = @ \ {x}])
  BY <1>1 DEF GoodProgress, Progress, Phases, JobPhases, At
<1> QED BY <1>1, <1>2, WorkType DEF RowsOK, GoodProgress, Progress

LEMMA BatchType ==
  ASSUME RowsOK, WorkersOK, NEW w \in Workers, Batch(w)
  PROVE  RowsOK' /\ WorkersOK'
<1>0. GoodProgress(worker[w])
  BY DEF WorkersOK
<1> DEFINE P == worker[w]
<1>1. CASE ClaimJobs(w)
  <2>1. PICK claimed : /\ claimed \subseteq Payloads
                       /\ \A x \in claimed : waiting[x] > 0
                       /\ waiting' = [x \in Payloads |-> IF x \in claimed THEN waiting[x] - 1
                                                         ELSE waiting[x]]
                       /\ Work(w, [P EXCEPT !.pc = "handle", !.batch = claimed])
    BY <1>1 DEF ClaimJobs
  <2>2. waiting' \in [Payloads -> Nat]
    BY <2>1 DEF RowsOK
  <2>3. GoodProgress([P EXCEPT !.pc = "handle", !.batch = claimed])
    BY <1>0, <1>1, <2>1 DEF ClaimJobs, At, GoodProgress, Progress, Phases, JobPhases
  <2>4. WorkersOK'
    BY <2>1, <2>3, WorkType
  <2> QED BY <1>1, <2>2, <2>4 DEF ClaimJobs, RowsOK, rows, web
<1>2. CASE LoadRfq(w)
  <2>1. ASSUME NEW fitting \in SUBSET Operators, UNCHANGED kept,
               Work(w, [P EXCEPT !.pc = "insert", !.job = Fan,
                                 !.todo = fitting, !.instant = paid])
        PROVE  kept' \subseteq Payloads /\ WorkersOK'
    <3>1. GoodProgress([P EXCEPT !.pc = "insert", !.job = Fan,
                                 !.todo = fitting, !.instant = paid])
      BY <1>0, <1>2, FanoutAssumption
         DEF LoadRfq, RowsOK, GoodProgress, Progress, Phases, JobPhases, Payloads
    <3> QED BY <2>1, <3>1, WorkType DEF RowsOK
  <2>2. kept' \subseteq Payloads /\ WorkersOK'
    BY <1>2, <2>1, DoneType DEF LoadRfq
  <2> QED BY <1>2, <2>2 DEF LoadRfq, RowsOK, rows, web
<1>3. CASE InsertMatches(w)
  <2>1. PICK now : /\ now \subseteq Operators
                   /\ match' \in [Operators -> MatchStates]
                   /\ ripe' = ripe \cup now
                   /\ Work(w, [P EXCEPT !.pc = "matched", !.todo = now])
    BY <1>0, <1>3 DEF InsertMatches, RowsOK, MatchStates, GoodProgress, Progress
  <2>2. GoodProgress([P EXCEPT !.pc = "matched", !.todo = now])
    BY <1>0, <1>3, <2>1 DEF InsertMatches, At, GoodProgress, Progress, Phases, JobPhases
  <2>3. WorkersOK'
    BY <2>1, <2>2, WorkType
  <2> QED BY <1>3, <2>1, <2>3 DEF InsertMatches, RowsOK, jobs, web
<1>4. CASE MarkRfqMatched(w)
  <2>1. GoodProgress([P EXCEPT !.pc = "announce"])
    BY <1>0, <1>4 DEF MarkRfqMatched, At, GoodProgress, Progress, Phases, JobPhases
  <2>2. WorkersOK'
    BY <1>4, <2>1, WorkType DEF MarkRfqMatched, Goto
  <2> QED BY <1>4, <2>2 DEF MarkRfqMatched, RowsOK, rows, jobs, web
<1>5. CASE Announce(w)
  <2>1. ASSUME NEW o \in P.todo, EnqueueJob(o), Work(w, [P EXCEPT !.todo = @ \ {o}]),
               UNCHANGED kept
        PROVE  waiting' \in [Payloads -> Nat] /\ kept' \subseteq Payloads /\ WorkersOK'
    <3>1. o \in Payloads /\ GoodProgress([P EXCEPT !.todo = @ \ {o}])
      BY <1>0 DEF GoodProgress, Progress, Phases, JobPhases, Payloads
    <3> QED BY <2>1, <3>1, WorkType, EnqueueType DEF RowsOK
  <2>2. ASSUME Settle(w), UNCHANGED waiting
        PROVE  waiting' \in [Payloads -> Nat] /\ kept' \subseteq Payloads /\ WorkersOK'
    BY <1>5, <2>2, SettleType DEF Announce, At, JobPhases, RowsOK
  <2> QED BY <1>5, <2>1, <2>2 DEF Announce, RowsOK, rows, web
<1>6. ASSUME NEW o \in Operators, LoadMatch(w, o) PROVE RowsOK' /\ WorkersOK'
  <2>1. ASSUME UNCHANGED kept, Work(w, [P EXCEPT !.pc = "mark", !.job = o])
        PROVE  kept' \subseteq Payloads /\ WorkersOK'
    <3>1. GoodProgress([P EXCEPT !.pc = "mark", !.job = o])
      BY <1>0, <1>6, FanoutAssumption
         DEF LoadMatch, GoodProgress, Progress, Phases, JobPhases, Payloads
    <3> QED BY <2>1, <3>1, WorkType DEF RowsOK
  <2>2. kept' \subseteq Payloads /\ WorkersOK'
    BY <1>6, <2>1, DoneType DEF LoadMatch
  <2> QED BY <1>6, <2>2 DEF LoadMatch, RowsOK, rows, web
<1>7. CASE MarkMatchState(w)
  <2>1. match' \in [Operators -> MatchStates]
    BY <1>7 DEF MarkMatchState, RowsOK, MatchStates
  <2>2. kept' \subseteq Payloads /\ WorkersOK'
    BY <1>7, SettleType DEF MarkMatchState, At, JobPhases
  <2> QED BY <1>7, <2>1, <2>2 DEF MarkMatchState, RowsOK, web
<1> QED BY <1>1, <1>2, <1>3, <1>4, <1>5, <1>6, <1>7 DEF Batch

LEMMA FaultType ==
  ASSUME RowsOK, WorkersOK, NEW w \in Workers, Throw(w) \/ Crash(w)
  PROVE  RowsOK' /\ WorkersOK'
<1>1. CASE Throw(w)
  <2>1. worker[w].job \in Payloads /\ worker[w].pc \in JobPhases
    BY <1>1 DEF Throw, WorkersOK, GoodProgress, Progress
  <2>2. waiting' \in [Payloads -> Nat] /\ kept' \subseteq Payloads /\ WorkersOK'
    BY <1>1, <2>1, LetGoType, SettleType, EnqueueType DEF Throw, RowsOK
  <2> QED BY <1>1, <2>2 DEF Throw, RowsOK, rows, web
<1>2. CASE Crash(w)
  <2>1. waiting' \in [Payloads -> Nat]
    BY <1>2 DEF Crash, RowsOK
  <2>2. WorkersOK'
    BY <1>2, BeginIsGood, WorkType DEF Crash
  <2> QED BY <1>2, <2>1, <2>2 DEF Crash, RowsOK, rows, web
<1> QED BY <1>1, <1>2

\* The steps of the web routes, of the clock and of the prune.
Outside ==
    \/ \E o \in Operators : ExpediteEnqueue(o) \/ DeliverAtPasses(o)
    \/ \E x \in Payloads : PruneJob(x)
    \/ RouteEnqueue \/ AmendRfq \/ CloseRfq \/ ReopenRfq \/ QuoteEarly \/ ExpediteRfq

LEMMA OutsideType ==
  ASSUME RowsOK, Outside  PROVE RowsOK' /\ UNCHANGED worker
<1>1. ASSUME NEW o \in Operators, ExpediteEnqueue(o) PROVE RowsOK' /\ UNCHANGED worker
  <2>1. waiting' \in [Payloads -> Nat]
    BY <1>1, EnqueueType DEF ExpediteEnqueue, RowsOK, Payloads
  <2> QED BY <1>1, <2>1 DEF ExpediteEnqueue, RowsOK, rows
<1>2. ASSUME NEW o \in Operators, DeliverAtPasses(o) PROVE RowsOK' /\ UNCHANGED worker
  BY <1>2 DEF DeliverAtPasses, RowsOK, jobs, web
<1>3. ASSUME NEW x \in Payloads, PruneJob(x) PROVE RowsOK' /\ UNCHANGED worker
  BY <1>3 DEF PruneJob, RowsOK, rows, web
<1>4. CASE RouteEnqueue
  <2>1. waiting' \in [Payloads -> Nat]
    BY <1>4, EnqueueType DEF RouteEnqueue, RowsOK, Payloads
  <2> QED BY <1>4, <2>1 DEF RouteEnqueue, RowsOK, rows
<1>5. CASE AmendRfq
  BY <1>5 DEF AmendRfq, RowsOK, rows, jobs
<1>6. CASE CloseRfq \/ ReopenRfq \/ QuoteEarly
  BY <1>6 DEF CloseRfq, ReopenRfq, QuoteEarly, RowsOK, rows, jobs, web
<1>7. CASE ExpediteRfq
  BY <1>7 DEF ExpediteRfq, RowsOK, MatchStates, jobs
<1> QED BY <1>1, <1>2, <1>3, <1>4, <1>5, <1>6, <1>7 DEF Outside

\* The rows, the jobs and the workers' progress keep to their domains.
THEOREM FanoutTypeCorrect == Spec => []TypeOK
<1>1. Init => RowsOK /\ WorkersOK
  <2>1. ASSUME Init PROVE RowsOK
    <3>1. match \in [Operators -> MatchStates] /\ waiting \in [Payloads -> Nat]
      BY <2>1 DEF Init, MatchStates
    <3> QED BY <2>1, <3>1 DEF Init, RowsOK
  <2>2. Begin \in Progress
    BY BeginIsGood DEF GoodProgress
  <2>3. Init => WorkersOK
    BY <2>2, BeginIsGood DEF Init, WorkersOK
  <2> QED BY <2>1, <2>3
<1>2. RowsOK /\ WorkersOK /\ [Next]_vars => RowsOK' /\ WorkersOK'
  <2> SUFFICES ASSUME RowsOK, WorkersOK, [Next]_vars PROVE RowsOK' /\ WorkersOK'
    OBVIOUS
  <2>1. ASSUME NEW w \in Workers, Sweep(w) \/ Batch(w) \/ Throw(w) \/ Crash(w)
        PROVE  RowsOK' /\ WorkersOK'
    BY <2>1, SweepType, BatchType, FaultType
  <2>2. CASE Outside
    BY <2>2, OutsideType DEF WorkersOK
  <2>3. CASE UNCHANGED vars
    BY <2>3 DEF vars, rows, jobs, web, RowsOK, WorkersOK
  <2> QED BY <2>1, <2>2, <2>3 DEF Next, Outside
<1> QED BY <1>1, <1>2, TypeParts, PTL DEF Spec

-----------------------------------------------------------------------------
(* Matches only advance.                                                   *)

\* What a step does to the rows: a state is kept or left for a later one.
Forward ==
    \A o \in Operators :
        \/ match'[o] = match[o]
        \/ match[o] = "none"
        \/ match[o] = "delayed" /\ match'[o] \in {"pending", "sent"}
        \/ match'[o] = "sent"

LEMMA StepForward ==
  ASSUME TypeOK, [Next]_vars  PROVE Forward
<1> USE DEF Forward, TypeOK
<1>1. ASSUME NEW w \in Workers, Sweep(w) PROVE Forward
  BY <1>1 DEF Sweep, DeliverDueMatches, UnnotifiedPendingMatches, EnqueueNext,
              UnfanoutedRfqs, Refan, rows
<1>2. ASSUME NEW w \in Workers, Batch(w) PROVE Forward
  <2>1. CASE InsertMatches(w)
    BY <2>1 DEF InsertMatches
  <2>2. CASE MarkMatchState(w)
    BY <2>2 DEF MarkMatchState
  <2> QED BY <1>2, <2>1, <2>2
          DEF Batch, ClaimJobs, LoadRfq, MarkRfqMatched, Announce, LoadMatch, rows
<1>3. ASSUME NEW w \in Workers, Throw(w) \/ Crash(w) PROVE Forward
  BY <1>3 DEF Throw, Crash, rows
<1>4. CASE Outside
  BY <1>4 DEF Outside, ExpediteEnqueue, DeliverAtPasses, PruneJob, RouteEnqueue, AmendRfq,
              CloseRfq, ReopenRfq, QuoteEarly, ExpediteRfq, rows
<1>5. CASE UNCHANGED vars
  BY <1>5 DEF vars, rows
<1> QED BY <1>1, <1>2, <1>3, <1>4, <1>5 DEF Next, Outside

\* No insert, sweep, payment or mark takes a match back.
THEOREM MatchesOnlyAdvance == Spec => MatchesAdvance
<1> DEFINE Up == \A o \in Operators : Rank[match[o]] <= Rank[match'[o]]
<1>1. TypeOK /\ TypeOK' /\ [Next]_vars => Up
  <2> SUFFICES ASSUME TypeOK, TypeOK', [Next]_vars, NEW o \in Operators
               PROVE  Rank[match[o]] <= Rank[match'[o]]
    OBVIOUS
  <2>1. match[o] \in MatchStates /\ match'[o] \in MatchStates
    BY DEF TypeOK
  <2>2. \/ match'[o] = match[o] \/ match[o] = "none" \/ match'[o] = "sent"
        \/ match[o] = "delayed" /\ match'[o] = "pending"
    BY StepForward DEF Forward
  <2> QED BY <2>1, <2>2 DEF MatchStates, Rank
<1> QED BY <1>1, FanoutTypeCorrect, PTL DEF Spec, MatchesAdvance

\* Only the buyer's reopen brings a dead RFQ back.
THEOREM NoResurrection == Spec => DeadStaysDead
<1>1. [Next]_vars => [rfq = "closed" /\ rfq' # rfq => rfq' = "new"]_vars
  <2> SUFFICES ASSUME [Next]_vars, rfq = "closed", rfq' # rfq PROVE rfq' = "new"
    OBVIOUS
  <2>1. ASSUME NEW w \in Workers, Sweep(w) PROVE FALSE
    BY <2>1 DEF Sweep, DeliverDueMatches, UnnotifiedPendingMatches, EnqueueNext,
                UnfanoutedRfqs, Refan
  <2>2. ASSUME NEW w \in Workers, Batch(w) PROVE FALSE
    BY <2>2 DEF Batch, ClaimJobs, LoadRfq, InsertMatches, MarkRfqMatched, Announce,
                LoadMatch, MarkMatchState
  <2>3. ASSUME NEW w \in Workers, Throw(w) \/ Crash(w) PROVE FALSE
    BY <2>3 DEF Throw, Crash
  <2>4. CASE Outside
    BY <2>4 DEF Outside, ExpediteEnqueue, DeliverAtPasses, PruneJob, RouteEnqueue,
                AmendRfq, CloseRfq, ReopenRfq, QuoteEarly, ExpediteRfq, IsLive
  <2>5. CASE UNCHANGED vars
    BY <2>5 DEF vars
  <2> QED BY <2>1, <2>2, <2>3, <2>4, <2>5 DEF Next, Outside
<1> QED BY <1>1, PTL DEF Spec, DeadStaysDead

-----------------------------------------------------------------------------
(* Delays.                                                                  *)

\* The worker's share of OnItsWay.
Carries(w, o) ==
    o \in worker[w].batch \/ (worker[w].pc # "insert" /\ o \in worker[w].todo)

LEMMA OnItsWayParts ==
  \A o \in Operators :
    OnItsWay(o) <=> \/ waiting[o] > 0 \/ o \in kept \/ o \in expedited
                    \/ \E w \in Workers : Carries(w, o)
  BY DEF OnItsWay, Carries

\* What a step may add to OnItsWay: matches that are, from then on, out.
Lawful(o) == OnItsWay(o)' => OnItsWay(o) \/ match'[o] \in {"pending", "sent"}

\* A worker's move is lawful for an operator if its new progress carries it no
\* more than the old one, or the operator is being notified anyway.
LEMMA MoveIsLawful ==
  ASSUME TypeOK, NEW w \in Workers, NEW p, Work(w, p), NEW o \in Operators,
         UNCHANGED expedited,
         waiting'[o] > 0 => OnItsWay(o) \/ match'[o] \in {"pending", "sent"},
         o \in kept' => OnItsWay(o) \/ match'[o] \in {"pending", "sent"},
         o \in p.batch \/ (p.pc # "insert" /\ o \in p.todo) =>
           OnItsWay(o) \/ match'[o] \in {"pending", "sent"}
  PROVE  Lawful(o)
<1>1. \A v \in Workers : worker'[v] = IF v = w THEN p ELSE worker[v]
  BY DEF Work, TypeOK
<1> QED BY <1>1 DEF Lawful, OnItsWay

\* An enqueue adds a row of one payload.
LEMMA EnqueueAdds ==
  ASSUME TypeOK, NEW x \in Payloads, EnqueueJob(x), NEW o \in Operators, waiting'[o] > 0
  PROVE  waiting[o] > 0 \/ o = x
  BY DEF EnqueueJob, TypeOK, Payloads

\* Settling the job in hand, or giving it up, only moves its payload.
LEMMA SettleIsLawful ==
  ASSUME TypeOK, NEW w \in Workers, worker[w].job # None, Settle(w), NEW o \in Operators,
         UNCHANGED <<waiting, expedited>>
  PROVE  Lawful(o)
<1> DEFINE P == worker[w]
           p == [P EXCEPT !.pc = "handle", !.batch = @ \ {P.job},
                          !.job = None, !.todo = {}, !.instant = FALSE]
<1>1. P \in Progress /\ P.job \in P.batch
  BY DEF TypeOK
<1>2. p.batch \subseteq P.batch /\ p.todo = {}
  BY <1>1 DEF Progress
<1>3. Work(w, p) /\ kept' = kept \cup {P.job}
  BY DEF Settle
<1>4. o \in p.batch \/ o \in kept' => OnItsWay(o)
  BY <1>1, <1>2, <1>3 DEF OnItsWay
<1> HIDE DEF p
<1> QED BY <1>2, <1>3, <1>4, MoveIsLawful DEF OnItsWay

LEMMA StepIsLawful ==
  ASSUME TypeOK, NobodyJumpsTheDelay, [Next]_vars, NEW o \in Operators
  PROVE  Lawful(o)
<1>0. o \in Payloads
  BY DEF Payloads
<1>1. ASSUME NEW w \in Workers, Carries(w, o) PROVE OnItsWay(o)
  BY <1>1 DEF Carries, OnItsWay
<1>2. \A w \in Workers : worker[w] \in Progress
  BY DEF TypeOK
<1>3. ASSUME NEW w \in Workers, Sweep(w) PROVE Lawful(o)
  <2> DEFINE P == worker[w]
  <2>0. P \in Progress
    BY <1>2
  <2>1. CASE DeliverDueMatches(w)
    <3>1. PICK due : /\ due \subseteq Operators
                     /\ match' = [i \in Operators |-> IF i \in due THEN "pending" ELSE match[i]]
                     /\ Work(w, [P EXCEPT !.pc = "stranded", !.todo = due])
      BY <2>1 DEF DeliverDueMatches, TypeOK
    <3> DEFINE p == [P EXCEPT !.pc = "stranded", !.todo = due]
    <3>2. p.batch = P.batch /\ p.todo = due
      BY <2>0 DEF Progress
    <3>3. o \in p.todo => match'[o] = "pending"
      BY <3>1, <3>2
    <3>4. o \in p.batch => OnItsWay(o)
      BY <1>1, <3>2 DEF Carries
    <3>5. UNCHANGED <<waiting, kept, expedited>>
      BY <2>1 DEF DeliverDueMatches, jobs, web
    <3> HIDE DEF p
    <3> QED BY <3>1, <3>3, <3>4, <3>5, MoveIsLawful DEF p, OnItsWay
  <2>2. CASE UnnotifiedPendingMatches(w)
    <3>1. PICK found : /\ found \subseteq Operators
                       /\ \A i \in found : match[i] = "pending"
                       /\ Work(w, [P EXCEPT !.pc = "enqueue", !.todo = @ \cup found])
      BY <2>2 DEF UnnotifiedPendingMatches
    <3> DEFINE p == [P EXCEPT !.pc = "enqueue", !.todo = @ \cup found]
    <3>2. p.batch = P.batch /\ p.todo = P.todo \cup found /\ P.pc # "insert"
      BY <2>0, <2>2 DEF Progress, UnnotifiedPendingMatches, At
    <3>3. o \in p.todo \/ o \in p.batch => OnItsWay(o) \/ match'[o] = "pending"
      BY <1>1, <2>2, <3>1, <3>2 DEF Carries, UnnotifiedPendingMatches, rows
    <3>4. UNCHANGED <<waiting, kept, expedited>>
      BY <2>2 DEF UnnotifiedPendingMatches, jobs, web
    <3> HIDE DEF p
    <3> QED BY <3>1, <3>3, <3>4, MoveIsLawful DEF p, OnItsWay
  <2>3. CASE EnqueueNext(w)
    <3>1. PICK i \in P.todo : EnqueueJob(i) /\ Work(w, [P EXCEPT !.todo = @ \ {i}])
      BY <2>3 DEF EnqueueNext
    <3> DEFINE p == [P EXCEPT !.todo = @ \ {i}]
    <3>2. /\ p.batch = P.batch /\ p.todo \subseteq P.todo /\ P.pc # "insert"
          /\ i \in Payloads
      BY <2>0, <2>3 DEF Progress, EnqueueNext, At, Payloads
    <3>3. o \in p.todo \/ o \in p.batch \/ o = i => OnItsWay(o)
      BY <1>1, <3>1, <3>2 DEF Carries
    <3>4. UNCHANGED <<kept, expedited>>
      BY <2>3 DEF EnqueueNext, web
    <3>5. waiting'[o] > 0 => OnItsWay(o)
      BY <3>1, <3>2, <3>3, EnqueueAdds DEF OnItsWay
    <3> HIDE DEF p
    <3> QED BY <3>1, <3>3, <3>4, <3>5, MoveIsLawful DEF p, OnItsWay
  <2>4. CASE UnfanoutedRfqs(w) \/ Refan(w)
    <3>1. PICK pc \in {"refan", "claim"} : Work(w, [P EXCEPT !.pc = pc])
      BY <2>4 DEF UnfanoutedRfqs, Refan, Goto
    <3> DEFINE p == [P EXCEPT !.pc = pc]
    <3>2. p.batch = P.batch /\ p.todo = P.todo /\ P.pc # "insert"
      BY <2>0, <2>4 DEF Progress, UnfanoutedRfqs, Refan, At
    <3>3. o \in p.todo \/ o \in p.batch => OnItsWay(o)
      BY <1>1, <3>2 DEF Carries
    <3>4. UNCHANGED <<kept, expedited>>
      BY <2>4 DEF UnfanoutedRfqs, Refan, jobs, web
    <3>5. waiting'[o] > 0 => OnItsWay(o)
      BY <2>4, EnqueueAdds, FanoutAssumption
         DEF UnfanoutedRfqs, Refan, jobs, Payloads, OnItsWay
    <3> HIDE DEF p
    <3> QED BY <3>1, <3>3, <3>4, <3>5, MoveIsLawful DEF p, OnItsWay
  <2> QED BY <1>3, <2>1, <2>2, <2>3, <2>4 DEF Sweep
<1>4. ASSUME NEW w \in Workers, Batch(w) PROVE Lawful(o)
  <2> DEFINE P == worker[w]
  <2>0. P \in Progress
    BY <1>2
  <2>1. CASE ClaimJobs(w)
    <3>1. PICK claimed :
            /\ \A x \in claimed : waiting[x] > 0
            /\ waiting' = [x \in Payloads |-> IF x \in claimed THEN waiting[x] - 1
                                              ELSE waiting[x]]
            /\ Work(w, [P EXCEPT !.pc = "handle", !.batch = claimed])
      BY <2>1 DEF ClaimJobs
    <3> DEFINE p == [P EXCEPT !.pc = "handle", !.batch = claimed]
    <3>2. p.batch = claimed /\ p.todo = P.todo /\ P.pc # "insert"
      BY <2>0, <2>1 DEF Progress, ClaimJobs, At
    <3>3. o \in p.todo \/ o \in p.batch => OnItsWay(o)
      BY <1>1, <3>1, <3>2 DEF Carries, OnItsWay
    <3>4. waiting'[o] > 0 => OnItsWay(o)
      BY <1>0, <3>1 DEF OnItsWay, TypeOK
    <3>5. UNCHANGED <<kept, expedited>>
      BY <2>1 DEF ClaimJobs, web
    <3> HIDE DEF p
    <3> QED BY <3>1, <3>3, <3>4, <3>5, MoveIsLawful DEF p, OnItsWay
  <2>2. CASE LoadRfq(w)
    <3>1. ASSUME NEW fitting \in SUBSET Operators, UNCHANGED kept,
                 Work(w, [P EXCEPT !.pc = "insert", !.job = Fan,
                                   !.todo = fitting, !.instant = paid])
          PROVE  Lawful(o)
      <4> DEFINE p == [P EXCEPT !.pc = "insert", !.job = Fan,
                                !.todo = fitting, !.instant = paid]
      <4>1. p.batch = P.batch /\ p.pc = "insert"
        BY <2>0 DEF Progress
      <4>2. o \in p.batch => OnItsWay(o)
        BY <1>1, <4>1 DEF Carries
      <4>3. UNCHANGED <<waiting, expedited>>
        BY <2>2 DEF LoadRfq, web
      <4> HIDE DEF p
      <4> QED BY <3>1, <4>1, <4>2, <4>3, MoveIsLawful DEF p, OnItsWay
    <3>2. ASSUME kept' = kept \cup {Fan}, Work(w, [P EXCEPT !.batch = @ \ {Fan}])
          PROVE  Lawful(o)
      <4> DEFINE p == [P EXCEPT !.batch = @ \ {Fan}]
      <4>1. p.batch \subseteq P.batch /\ p.todo = P.todo /\ p.pc = P.pc
        BY <2>0 DEF Progress
      <4>2. o \in p.batch \/ (p.pc # "insert" /\ o \in p.todo) => OnItsWay(o)
        BY <1>1, <4>1 DEF Carries
      <4>3. UNCHANGED <<waiting, expedited>> /\ (o \in kept' => o \in kept)
        BY <2>2, <3>2, FanoutAssumption DEF LoadRfq, web
      <4> HIDE DEF p
      <4> QED BY <3>2, <4>2, <4>3, MoveIsLawful DEF p, OnItsWay
    <3> QED BY <2>2, <3>1, <3>2 DEF LoadRfq
  <2>3. CASE InsertMatches(w)
    <3>1. PICK now : /\ \A i \in now : match'[i] = "pending"
                     /\ Work(w, [P EXCEPT !.pc = "matched", !.todo = now])
      <4>1. PICK prompt \in SUBSET P.todo :
              LET new == {i \in P.todo : match[i] = "none"}
                  now == IF P.instant THEN new ELSE new \cap prompt
              IN /\ match' = [i \in Operators |->
                                IF i \notin new THEN match[i]
                                ELSE IF i \in now THEN "pending" ELSE "delayed"]
                 /\ Work(w, [P EXCEPT !.pc = "matched", !.todo = now])
        BY <2>3 DEF InsertMatches
      <4>2. P.todo \subseteq Operators
        BY <2>0 DEF Progress
      <4> QED BY <4>1, <4>2
    <3> DEFINE p == [P EXCEPT !.pc = "matched", !.todo = now]
    <3>2. p.batch = P.batch /\ p.todo = now
      BY <2>0 DEF Progress
    <3>3. o \in p.todo => match'[o] = "pending"
      BY <3>1, <3>2
    <3>4. o \in p.batch => OnItsWay(o)
      BY <1>1, <3>2 DEF Carries
    <3>5. UNCHANGED <<waiting, kept, expedited>>
      BY <2>3 DEF InsertMatches, jobs, web
    <3> HIDE DEF p
    <3> QED BY <3>1, <3>3, <3>4, <3>5, MoveIsLawful DEF p, OnItsWay
  <2>4. CASE MarkRfqMatched(w)
    <3> DEFINE p == [P EXCEPT !.pc = "announce"]
    <3>1. p.batch = P.batch /\ p.todo = P.todo /\ P.pc # "insert"
      BY <2>0, <2>4 DEF Progress, MarkRfqMatched, At
    <3>2. o \in p.todo \/ o \in p.batch => OnItsWay(o)
      BY <1>1, <3>1 DEF Carries
    <3>3. UNCHANGED <<waiting, kept, expedited>> /\ Work(w, p)
      BY <2>4 DEF MarkRfqMatched, Goto, jobs, web
    <3> HIDE DEF p
    <3> QED BY <3>2, <3>3, MoveIsLawful DEF OnItsWay
  <2>5. CASE Announce(w)
    <3>1. ASSUME NEW i \in P.todo, EnqueueJob(i), Work(w, [P EXCEPT !.todo = @ \ {i}]),
                 UNCHANGED kept
          PROVE  Lawful(o)
      <4> DEFINE p == [P EXCEPT !.todo = @ \ {i}]
      <4>1. /\ p.batch = P.batch /\ p.todo \subseteq P.todo /\ P.pc # "insert"
            /\ i \in Payloads
        BY <2>0, <2>5 DEF Progress, Announce, At, Payloads
      <4>2. o \in p.todo \/ o \in p.batch \/ o = i => OnItsWay(o)
        BY <1>1, <3>1, <4>1 DEF Carries
      <4>3. UNCHANGED expedited
        BY <2>5 DEF Announce, web
      <4>4. waiting'[o] > 0 => OnItsWay(o)
        BY <3>1, <4>1, <4>2, EnqueueAdds DEF OnItsWay
      <4> HIDE DEF p
      <4> QED BY <3>1, <4>2, <4>3, <4>4, MoveIsLawful DEF p, OnItsWay
    <3>2. ASSUME Settle(w), UNCHANGED waiting PROVE Lawful(o)
      BY <2>5, <3>2, SettleIsLawful DEF Announce, At, JobPhases, web, TypeOK
    <3> QED BY <2>5, <3>1, <3>2 DEF Announce
  <2>6. ASSUME NEW i \in Operators, LoadMatch(w, i) PROVE Lawful(o)
    <3>1. i \in P.batch /\ P.pc # "insert" /\ UNCHANGED <<waiting, expedited>>
      BY <2>6 DEF LoadMatch, At, web
    <3>2. ASSUME kept' = kept \cup {i}, Work(w, [P EXCEPT !.batch = @ \ {i}])
          PROVE  Lawful(o)
      <4> DEFINE p == [P EXCEPT !.batch = @ \ {i}]
      <4>1. p.batch \subseteq P.batch /\ p.todo = P.todo
        BY <2>0 DEF Progress
      <4>2. o \in p.todo \/ o \in p.batch \/ o = i => OnItsWay(o)
        BY <1>1, <3>1, <4>1 DEF Carries
      <4>3. o \in kept' => OnItsWay(o)
        BY <3>2, <4>2 DEF OnItsWay
      <4> HIDE DEF p
      <4> QED BY <3>1, <3>2, <4>2, <4>3, MoveIsLawful DEF p, OnItsWay
    <3>3. ASSUME UNCHANGED kept, Work(w, [P EXCEPT !.pc = "mark", !.job = i])
          PROVE  Lawful(o)
      <4> DEFINE p == [P EXCEPT !.pc = "mark", !.job = i]
      <4>1. p.batch = P.batch /\ p.todo = P.todo
        BY <2>0 DEF Progress
      <4>2. o \in p.todo \/ o \in p.batch => OnItsWay(o)
        BY <1>1, <3>1, <4>1 DEF Carries
      <4> HIDE DEF p
      <4> QED BY <3>1, <3>3, <4>2, MoveIsLawful DEF p, OnItsWay
    <3> QED BY <2>6, <3>2, <3>3 DEF LoadMatch
  <2>7. CASE MarkMatchState(w)
    BY <2>7, SettleIsLawful DEF MarkMatchState, At, JobPhases, web, TypeOK
  <2> QED BY <1>4, <2>1, <2>2, <2>3, <2>4, <2>5, <2>6, <2>7 DEF Batch
<1>5. ASSUME NEW w \in Workers, Throw(w) PROVE Lawful(o)
  <2> DEFINE P == worker[w]
  <2>1. ASSUME EnqueueJob(P.job), UNCHANGED kept,
               Work(w, [P EXCEPT !.pc = "handle", !.batch = @ \ {P.job},
                                 !.job = None, !.todo = {}, !.instant = FALSE])
        PROVE  Lawful(o)
    <3> DEFINE p == [P EXCEPT !.pc = "handle", !.batch = @ \ {P.job},
                              !.job = None, !.todo = {}, !.instant = FALSE]
    <3>1. P.job \in P.batch /\ P.job \in Payloads
      BY <1>2, <1>5 DEF Throw, TypeOK, Progress
    <3>2. p.batch \subseteq P.batch /\ p.todo = {}
      BY <1>2 DEF Progress
    <3>3. o \in p.todo \/ o \in p.batch \/ o = P.job => OnItsWay(o)
      BY <1>1, <3>1, <3>2 DEF Carries
    <3>4. waiting'[o] > 0 => OnItsWay(o)
      BY <2>1, <3>1, <3>3, EnqueueAdds DEF OnItsWay
    <3>5. UNCHANGED expedited
      BY <1>5 DEF Throw, web
    <3> HIDE DEF p
    <3> QED BY <2>1, <3>3, <3>4, <3>5, MoveIsLawful DEF p, OnItsWay
  <2>2. ASSUME Settle(w), UNCHANGED waiting PROVE Lawful(o)
    BY <1>5, <2>2, SettleIsLawful DEF Throw, TypeOK, web
  <2> QED BY <1>5, <2>1, <2>2 DEF Throw
<1>6. ASSUME NEW w \in Workers, Crash(w) PROVE Lawful(o)
  <2>1. Begin.batch = {} /\ Begin.todo = {} /\ Work(w, Begin)
    BY <1>6 DEF Begin, Crash
  <2>2. waiting'[o] > 0 => OnItsWay(o)
    BY <1>0, <1>1, <1>6 DEF Crash, Carries, OnItsWay, TypeOK
  <2>3. UNCHANGED <<kept, expedited>>
    BY <1>6 DEF Crash, web
  <2> QED BY <2>1, <2>2, <2>3, MoveIsLawful DEF OnItsWay
<1>7. CASE Outside
  <2>1. UNCHANGED worker
    BY <1>7, TypeParts, OutsideType
  <2>2. waiting'[o] > 0 => OnItsWay(o)
    BY <1>7, EnqueueAdds, FanoutAssumption
       DEF Outside, ExpediteEnqueue, DeliverAtPasses, PruneJob, RouteEnqueue, AmendRfq,
           CloseRfq, ReopenRfq, QuoteEarly, ExpediteRfq, jobs, Payloads, OnItsWay
  <2>3. kept' \subseteq kept
    BY <1>7 DEF Outside, ExpediteEnqueue, DeliverAtPasses, PruneJob, RouteEnqueue, AmendRfq,
                CloseRfq, ReopenRfq, QuoteEarly, ExpediteRfq, jobs
  <2>4. o \in expedited' => o \in expedited \/ match'[o] = "pending"
    BY <1>7 DEF Outside, ExpediteEnqueue, DeliverAtPasses, PruneJob, RouteEnqueue, AmendRfq,
                CloseRfq, ReopenRfq, QuoteEarly, ExpediteRfq, web
  <2> QED BY <2>1, <2>2, <2>3, <2>4 DEF Lawful, OnItsWay
<1>8. CASE UNCHANGED vars
  BY <1>8 DEF vars, jobs, web, Lawful, OnItsWay
<1> QED BY <1>3, <1>4, <1>5, <1>6, <1>7, <1>8 DEF Next, Outside

\* Whatever re-fan-outs, payments, sweeps and retries overlap, nobody starts to
\* notify an operator whose match is missing or still delayed.
THEOREM DelaysHold == Spec => []NobodyJumpsTheDelay
<1>1. Init => NobodyJumpsTheDelay
  BY DEF Init, NobodyJumpsTheDelay, OnItsWay, Begin, Payloads
<1>2. TypeOK /\ TypeOK' /\ NobodyJumpsTheDelay /\ [Next]_vars => NobodyJumpsTheDelay'
  <2> SUFFICES ASSUME TypeOK, TypeOK', NobodyJumpsTheDelay, [Next]_vars,
                      NEW o \in Operators, match'[o] \in {"none", "delayed"}
               PROVE  ~ OnItsWay(o)'
    BY DEF NobodyJumpsTheDelay
  <2>1. match[o] \in {"none", "delayed"}
    BY StepForward DEF Forward
  <2>2. ~ OnItsWay(o)
    BY <2>1 DEF NobodyJumpsTheDelay
  <2> QED BY <2>2, StepIsLawful DEF Lawful
<1> QED BY <1>1, <1>2, FanoutTypeCorrect, PTL DEF Spec

\* No match is delivered or notified before its deliver_at: the job in hand of a
\* worker that marks one is on its way, so the match had left its delay.
THEOREM DelaysAreServed == Spec => []DelayIsServed
<1>1. Init => DelayIsServed
  BY DEF Init, DelayIsServed
<1>2. TypeOK /\ NobodyJumpsTheDelay /\ DelayIsServed /\ [Next]_vars => DelayIsServed'
  <2> SUFFICES ASSUME TypeOK, NobodyJumpsTheDelay, DelayIsServed, [Next]_vars,
                      NEW o \in Operators, match'[o] \in {"pending", "sent"}
               PROVE  o \in ripe'
    BY DEF DelayIsServed
  <2>0. match[o] \in {"pending", "sent"} => o \in ripe
    BY DEF DelayIsServed
  <2>1. ASSUME NEW w \in Workers, Sweep(w) PROVE o \in ripe'
    BY <2>0, <2>1 DEF Sweep, DeliverDueMatches, UnnotifiedPendingMatches, EnqueueNext,
                      UnfanoutedRfqs, Refan, rows, TypeOK
  <2>2. ASSUME NEW w \in Workers, InsertMatches(w) PROVE o \in ripe'
    BY <2>0, <2>2 DEF InsertMatches
  <2>3. ASSUME NEW w \in Workers, MarkMatchState(w) PROVE o \in ripe'
    <3>1. worker[w].job \in Operators /\ worker[w].job \in worker[w].batch
      BY <2>3, FanoutAssumption DEF MarkMatchState, TypeOK
    <3>2. match[worker[w].job] \notin {"none", "delayed"}
      BY <3>1 DEF NobodyJumpsTheDelay, OnItsWay
    <3>3. worker[w].job \in ripe
      BY <3>1, <3>2 DEF TypeOK, MatchStates, DelayIsServed
    <3> QED BY <2>0, <2>3, <3>3 DEF MarkMatchState, TypeOK
  <2>4. ASSUME NEW w \in Workers, Batch(w) PROVE o \in ripe'
    BY <2>0, <2>2, <2>3, <2>4
       DEF Batch, ClaimJobs, LoadRfq, MarkRfqMatched, Announce, LoadMatch, rows
  <2>5. ASSUME NEW w \in Workers, Throw(w) \/ Crash(w) PROVE o \in ripe'
    BY <2>0, <2>5 DEF Throw, Crash, rows
  <2>6. CASE Outside
    BY <2>0, <2>6
       DEF Outside, ExpediteEnqueue, DeliverAtPasses, PruneJob, RouteEnqueue, AmendRfq,
           CloseRfq, ReopenRfq, QuoteEarly, ExpediteRfq, rows, TypeOK
  <2>7. CASE UNCHANGED vars
    BY <2>0, <2>7 DEF vars, rows
  <2> QED BY <2>1, <2>4, <2>5, <2>6, <2>7 DEF Next, Outside
<1> QED BY <1>1, <1>2, FanoutTypeCorrect, DelaysHold, PTL DEF Spec

\* No mail is started and no match delivered ahead of its plan's delay, whatever
\* overlaps.
THEOREM TheDelayHolds == Spec => []DelayHolds
BY DelaysHold, DelaysAreServed, PTL DEF DelayHolds
=============================================================================
