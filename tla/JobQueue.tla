------------------------------ MODULE JobQueue ------------------------------
(***************************************************************************)
(* The jobs table and the workers that poll it (packages/db/src/jobs.ts,   *)
(* the tick of apps/worker/src/index.ts).  Each helper is one SQL          *)
(* statement, so one step; a worker can die, or its tick throw, between    *)
(* any two of them and forgets the jobs it claimed, which stay running.    *)
(*                                                                         *)
(* run_at and updated_at are kept as what the queries ask of them: due     *)
(* (run_at has passed) and old (updated_at is behind the cutoff that       *)
(* matters for the row's status: ten minutes when running, the retention   *)
(* period when done or failed).                                            *)
(***************************************************************************)
EXTENDS Naturals, FiniteSets

CONSTANTS
    Jobs,          \* rows of jobs, inserted or not
    Workers,       \* worker processes polling the same table
    MaxAttempts,   \* max_attempts of every row
    Batch,         \* CLAIM_BATCH
    MaxCrashes,    \* bound: how often a worker dies or a tick throws
    MaxRetries     \* bound: how often the admin retries a failed job

ASSUME JobQueueAssumption ==
    /\ MaxAttempts \in Nat \ {0}
    /\ Batch \in Nat \ {0}
    /\ MaxCrashes \in Nat
    /\ MaxRetries \in Nat

VARIABLES
    status,        \* status[j]; "none" before the insert, "gone" once pruned
    attempts,      \* attempts[j]
    due,           \* jobs whose run_at has passed
    old,           \* jobs whose updated_at is behind the cutoff for their status
    phase,         \* phase[w]: the next helper of worker w's tick
    work,          \* work[w]: claimed jobs w has still to handle
    crashes,       \* crashes so far
    retries,       \* admin retries so far
    raced          \* history: jobs requeued while a worker was still on them

vars == <<status, attempts, due, old, phase, work, crashes, retries, raced>>

-----------------------------------------------------------------------------
States == {"none", "pending", "running", "done", "failed", "gone"}
Phases == {"requeue", "prune", "claim", "handle"}
Terminal == {"done", "failed"}

Holders(j) == {w \in Workers : j \in work[w]}

\* The rows of a set take a status; their updated_at is now.
Update(rows, new) ==
    /\ status' = [j \in Jobs |-> IF j \in rows THEN new ELSE status[j]]
    /\ old' = old \ rows

Init ==
    /\ status = [j \in Jobs |-> "none"]
    /\ attempts = [j \in Jobs |-> 0]
    /\ due = {}
    /\ old = {}
    /\ phase = [w \in Workers |-> "requeue"]
    /\ work = [w \in Workers |-> {}]
    /\ crashes = 0
    /\ retries = 0
    /\ raced = {}

-----------------------------------------------------------------------------
\* enqueueJob: due at once, or at the run_at the caller names.
Enqueue(j) ==
    /\ status[j] = "none"
    /\ Update({j}, "pending")
    /\ due' \in {due, due \cup {j}}
    /\ UNCHANGED <<attempts, phase, work, crashes, retries, raced>>

\* retryJob: the admin gives a failed job a fresh budget.
RetryJob(j) ==
    /\ retries < MaxRetries
    /\ status[j] = "failed"
    /\ Update({j}, "pending")
    /\ attempts' = [attempts EXCEPT ![j] = 0]
    /\ due' = due \cup {j}
    /\ retries' = retries + 1
    /\ UNCHANGED <<phase, work, crashes, raced>>

-----------------------------------------------------------------------------
(* One tick: requeue, prune (hourly), claim, then the batch job by job.     *)

\* Mutation of RequeueStaleJobs: the sweep takes the running rows of any age.
RequeueRunning(w) ==
    /\ phase[w] = "requeue"
    /\ LET stale == {j \in Jobs : status[j] = "running"} IN
         /\ Update(stale, "pending")
         /\ raced' = raced \cup {j \in stale \cap old : Holders(j) # {}}
    /\ phase' = [phase EXCEPT ![w] = "prune"]
    /\ UNCHANGED <<attempts, due, work, crashes, retries>>

\* Mutation of RequeueStaleJobs: the sweep does not exist.
RequeueNothing(w) ==
    /\ phase[w] = "requeue"
    /\ phase' = [phase EXCEPT ![w] = "prune"]
    /\ UNCHANGED <<status, attempts, due, old, work, crashes, retries, raced>>

\* Rows running since before the cutoff are pending again.
RequeueStaleJobs(w) ==
    /\ phase[w] = "requeue"
    /\ LET stale == {j \in old : status[j] = "running"} IN
         /\ Update(stale, "pending")
         /\ raced' = raced \cup {j \in stale : Holders(j) # {}}
    /\ phase' = [phase EXCEPT ![w] = "prune"]
    /\ UNCHANGED <<attempts, due, work, crashes, retries>>

PruneJobs(w) ==
    /\ phase[w] = "prune"
    /\ \/ Update({j \in old : status[j] \in Terminal}, "gone")
       \/ UNCHANGED <<status, old>>
    /\ phase' = [phase EXCEPT ![w] = "claim"]
    /\ UNCHANGED <<attempts, due, work, crashes, retries, raced>>

\* Up to Batch due rows turn running, counted as an attempt; SKIP LOCKED keeps
\* two claims off the same row.
ClaimJobs(w) ==
    /\ phase[w] = "claim"
    /\ LET ready == {j \in due : status[j] = "pending"} IN
       \E rows \in SUBSET ready :
         /\ \/ Cardinality(rows) = Batch
            \/ Cardinality(rows) < Batch /\ rows = ready
         /\ Update(rows, "running")
         /\ attempts' = [j \in Jobs |-> IF j \in rows THEN attempts[j] + 1 ELSE attempts[j]]
         /\ work' = [work EXCEPT ![w] = rows]
    /\ phase' = [phase EXCEPT ![w] = "handle"]
    /\ UNCHANGED <<due, crashes, retries, raced>>

Drop(w, j) == work' = [work EXCEPT ![w] = @ \ {j}]

\* Mutation of CompleteJob: a status no query of the table asks for.
CompleteJobUnknown(w, j) ==
    /\ phase[w] = "handle" /\ j \in work[w]
    /\ Update({j} \ {i \in Jobs : status[i] = "gone"}, "completed")
    /\ Drop(w, j)
    /\ UNCHANGED <<attempts, due, phase, crashes, retries, raced>>

\* The handler returned: completeJob, whatever became of the row meanwhile.
CompleteJob(w, j) ==
    /\ phase[w] = "handle" /\ j \in work[w]
    /\ Update({j} \ {i \in Jobs : status[i] = "gone"}, "done")
    /\ Drop(w, j)
    /\ UNCHANGED <<attempts, due, phase, crashes, retries, raced>>

\* The handler (or completeJob) threw: back off, or failed once the attempts
\* are used up.
FailJob(w, j) ==
    /\ phase[w] = "handle" /\ j \in work[w]
    /\ LET row == {j} \ {i \in Jobs : status[i] = "gone"} IN
         \/ attempts[j] < MaxAttempts /\ Update(row, "pending") /\ due' = due \ row
         \/ attempts[j] >= MaxAttempts /\ Update(row, "failed") /\ UNCHANGED due
    /\ Drop(w, j)
    /\ UNCHANGED <<attempts, phase, crashes, retries, raced>>

\* The batch is handled: the main loop starts the next tick.
NextTick(w) ==
    /\ phase[w] = "handle" /\ work[w] = {}
    /\ phase' = [phase EXCEPT ![w] = "requeue"]
    /\ UNCHANGED <<status, attempts, due, old, work, crashes, retries, raced>>

\* The process dies, or failJob throws out of the tick: the claims are forgotten.
Crash(w) ==
    /\ crashes < MaxCrashes
    /\ crashes' = crashes + 1
    /\ work' = [work EXCEPT ![w] = {}]
    /\ phase' = [phase EXCEPT ![w] = "requeue"]
    /\ UNCHANGED <<status, attempts, due, old, retries, raced>>

-----------------------------------------------------------------------------
(* The clock.                                                               *)

RunAtPasses(j) ==
    /\ status[j] = "pending" /\ j \notin due
    /\ due' = due \cup {j}
    /\ UNCHANGED <<status, attempts, old, phase, work, crashes, retries, raced>>

GrowsOld(j) ==
    /\ status[j] \in {"running"} \cup Terminal /\ j \notin old
    /\ old' = old \cup {j}
    /\ UNCHANGED <<status, attempts, due, phase, work, crashes, retries, raced>>

-----------------------------------------------------------------------------
Tick(w) ==
    \/ RequeueStaleJobs(w) \/ PruneJobs(w) \/ ClaimJobs(w) \/ NextTick(w)
    \/ \E j \in Jobs : CompleteJob(w, j) \/ FailJob(w, j)

Next ==
    \/ \E w \in Workers : Tick(w) \/ Crash(w)
    \/ \E j \in Jobs : Enqueue(j) \/ RetryJob(j) \/ RunAtPasses(j) \/ GrowsOld(j)

Spec == Init /\ [][Next]_vars

\* Every worker keeps polling, its handlers return or throw, and time passes.
FairSpec ==
    /\ Spec
    /\ \A w \in Workers : WF_vars(Tick(w))
    /\ \A j \in Jobs : WF_vars(RunAtPasses(j)) /\ WF_vars(GrowsOld(j))
-----------------------------------------------------------------------------
(* Properties.                                                              *)

\* Every variable has a value of its domain.
TypeOK ==
    /\ status \in [Jobs -> States]
    /\ attempts \in [Jobs -> Nat]
    /\ due \subseteq Jobs
    /\ old \subseteq Jobs
    /\ phase \in [Workers -> Phases]
    /\ work \in [Workers -> SUBSET Jobs]
    /\ crashes \in 0 .. MaxCrashes
    /\ retries \in 0 .. MaxRetries
    /\ raced \subseteq Jobs

\* jobs.ts:38, claims are safe from concurrent workers: unless the stale sweep
\* took it from a worker still on it, a job is on at most one worker, and it is
\* running as long as it is on one.
SoleHolder ==
    \A j \in Jobs \ raced :
        /\ \A v, w \in Workers : j \in work[v] /\ j \in work[w] => v = w
        /\ Holders(j) # {} => status[j] = "running"

\* A job that was not taken from a live worker settles once: after done it is
\* only pruned, after failed only pruned or retried by the admin with a fresh
\* budget, so no late answer revives or overwrites it.
SettlesOnce ==
    [][\A j \in Jobs \ raced :
         /\ status[j] = "done" => status'[j] \in {"done", "gone"}
         /\ status[j] = "failed" =>
              \/ status'[j] \in {"failed", "gone"}
              \/ status'[j] = "pending" /\ attempts'[j] = 0]_vars

\* index.ts:132, nothing is stranded: with finitely many crashes and retries an
\* enqueued job is done or failed in the end, whoever died holding it.
JobSettles ==
    \A j \in Jobs :
        status[j] \in {"pending", "running"} ~> status[j] \in Terminal \cup {"gone"}
=============================================================================
