--------------------------- MODULE JobQueueProofs ---------------------------
(***************************************************************************)
(* Proofs about JobQueue, for every number of jobs and workers, every      *)
(* batch size, attempt budget and number of crashes and retries.           *)
(***************************************************************************)
EXTENDS JobQueue, TLAPS

-----------------------------------------------------------------------------
(* Type correctness.                                                       *)

\* Giving some rows a status keeps the two variables of a row in their domains.
LEMMA UpdateType ==
  ASSUME TypeOK, NEW rows, NEW new \in States, Update(rows, new)
  PROVE  status' \in [Jobs -> States] /\ old' \subseteq Jobs
  BY DEF TypeOK, Update

\* The variables of jobs.ts and of the tick keep to their domains.
THEOREM QueueTypeCorrect == Spec => []TypeOK
<1>1. Init => TypeOK
  BY JobQueueAssumption DEF Init, TypeOK, States, Phases
<1>2. TypeOK /\ [Next]_vars => TypeOK'
  <2> SUFFICES ASSUME TypeOK, [Next]_vars PROVE TypeOK'
    OBVIOUS
  <2> USE JobQueueAssumption
  <2>1. ASSUME NEW w \in Workers, RequeueStaleJobs(w) PROVE TypeOK'
    <3>1. PICK stale : stale \subseteq old /\ Update(stale, "pending")
                       /\ raced' = raced \cup {j \in stale : Holders(j) # {}}
      BY <2>1 DEF RequeueStaleJobs
    <3>2. status' \in [Jobs -> States] /\ old' \subseteq Jobs
      BY <3>1, UpdateType DEF States
    <3> QED BY <2>1, <3>1, <3>2 DEF RequeueStaleJobs, TypeOK, Phases
  <2>2. ASSUME NEW w \in Workers, PruneJobs(w) PROVE TypeOK'
    <3>1. status' \in [Jobs -> States] /\ old' \subseteq Jobs
      BY <2>2, UpdateType DEF PruneJobs, States, TypeOK
    <3> QED BY <2>2, <3>1 DEF PruneJobs, TypeOK, Phases
  <2>3. ASSUME NEW w \in Workers, ClaimJobs(w) PROVE TypeOK'
    <3>1. PICK rows : /\ rows \subseteq due /\ Update(rows, "running")
                      /\ attempts' = [j \in Jobs |-> IF j \in rows THEN attempts[j] + 1
                                                     ELSE attempts[j]]
                      /\ work' = [work EXCEPT ![w] = rows]
      BY <2>3 DEF ClaimJobs
    <3>2. status' \in [Jobs -> States] /\ old' \subseteq Jobs
      BY <3>1, UpdateType DEF States
    <3>3. attempts' \in [Jobs -> Nat]
      BY <3>1 DEF TypeOK
    <3> QED BY <2>3, <3>1, <3>2, <3>3 DEF ClaimJobs, TypeOK, Phases
  <2>4. ASSUME NEW w \in Workers, NEW j \in Jobs, CompleteJob(w, j) PROVE TypeOK'
    <3>1. status' \in [Jobs -> States] /\ old' \subseteq Jobs
      BY <2>4, UpdateType DEF CompleteJob, States
    <3> QED BY <2>4, <3>1 DEF CompleteJob, Drop, TypeOK
  <2>5. ASSUME NEW w \in Workers, NEW j \in Jobs, FailJob(w, j) PROVE TypeOK'
    <3>1. status' \in [Jobs -> States] /\ old' \subseteq Jobs
      BY <2>5, UpdateType DEF FailJob, States
    <3> QED BY <2>5, <3>1 DEF FailJob, Drop, TypeOK
  <2>6. ASSUME NEW w \in Workers, NextTick(w) PROVE TypeOK'
    BY <2>6 DEF NextTick, TypeOK, Phases
  <2>7. ASSUME NEW w \in Workers, Crash(w) PROVE TypeOK'
    BY <2>7 DEF Crash, TypeOK, Phases
  <2>8. ASSUME NEW j \in Jobs, Enqueue(j) PROVE TypeOK'
    <3>1. status' \in [Jobs -> States] /\ old' \subseteq Jobs
      BY <2>8, UpdateType DEF Enqueue, States
    <3> QED BY <2>8, <3>1 DEF Enqueue, TypeOK
  <2>9. ASSUME NEW j \in Jobs, RetryJob(j) PROVE TypeOK'
    <3>1. status' \in [Jobs -> States] /\ old' \subseteq Jobs
      BY <2>9, UpdateType DEF RetryJob, States
    <3>2. retries' \in 0 .. MaxRetries
      BY <2>9 DEF RetryJob, TypeOK
    <3>3. attempts' \in [Jobs -> Nat]
      BY <2>9 DEF RetryJob, TypeOK
    <3> QED BY <2>9, <3>1, <3>2, <3>3 DEF RetryJob, TypeOK
  <2>10. ASSUME NEW j \in Jobs, RunAtPasses(j) \/ GrowsOld(j) PROVE TypeOK'
    BY <2>10 DEF RunAtPasses, GrowsOld, TypeOK
  <2>11. CASE UNCHANGED vars
    BY <2>11 DEF vars, TypeOK
  <2> QED BY <2>1, <2>2, <2>3, <2>4, <2>5, <2>6, <2>7, <2>8, <2>9, <2>10, <2>11
          DEF Next, Tick
<1> QED BY <1>1, <1>2, PTL DEF Spec

-----------------------------------------------------------------------------
(* Claims.                                                                  *)

\* A step that leaves the claims alone and turns no running row into anything
\* else, or only rows nobody is on, keeps SoleHolder.
LEMMA ClaimsUntouched ==
  ASSUME SoleHolder, UNCHANGED work, raced \subseteq raced',
         \A j \in Jobs \ raced' :
           Holders(j) # {} /\ status[j] = "running" => status'[j] = "running"
  PROVE  SoleHolder'
  BY DEF SoleHolder, Holders

\* A worker that answers for a job lets go of it; whatever the answer writes,
\* nobody else was on the job unless it was raced.
LEMMA AnswerKeeps ==
  ASSUME TypeOK, SoleHolder, NEW w \in Workers, NEW j \in Jobs, j \in work[w],
         Drop(w, j), UNCHANGED raced,
         \A i \in Jobs \ {j} : status'[i] = status[i]
  PROVE  SoleHolder'
<1>1. \A v \in Workers : work'[v] = IF v = w THEN work[w] \ {j} ELSE work[v]
  BY DEF Drop, TypeOK
<1>2. j \notin raced => Holders(j)' = {}
  BY <1>1 DEF SoleHolder, Holders
<1>3. \A i \in Jobs \ {j} : Holders(i)' = Holders(i)
  BY <1>1 DEF Holders
<1> QED BY <1>1, <1>2, <1>3 DEF SoleHolder, Holders

\* Claims are exclusive for every number of workers, crashes and retries.
LEMMA SoleHolderStep ==
  ASSUME TypeOK, SoleHolder, [Next]_vars  PROVE SoleHolder'
<1> USE DEF TypeOK
<1>1. ASSUME NEW w \in Workers, RequeueStaleJobs(w) PROVE SoleHolder'
  <2>1. \A j \in Jobs \ raced' : Holders(j) # {} => status'[j] = status[j]
    BY <1>1 DEF RequeueStaleJobs, Update
  <2> QED BY <1>1, <2>1, ClaimsUntouched DEF RequeueStaleJobs
<1>2. ASSUME NEW w \in Workers, PruneJobs(w) PROVE SoleHolder'
  <2>1. \A j \in Jobs : status[j] = "running" => status'[j] = "running"
    BY <1>2 DEF PruneJobs, Update, Terminal
  <2> QED BY <1>2, <2>1, ClaimsUntouched DEF PruneJobs
<1>3. ASSUME NEW w \in Workers, ClaimJobs(w) PROVE SoleHolder'
  <2>1. PICK rows : /\ \A j \in rows : j \in Jobs /\ status[j] = "pending"
                    /\ Update(rows, "running")
                    /\ work' = [work EXCEPT ![w] = rows]
                    /\ UNCHANGED raced
    BY <1>3 DEF ClaimJobs
  <2>2. \A v \in Workers : work'[v] = IF v = w THEN rows ELSE work[v]
    BY <2>1
  <2>3. \A j \in Jobs : status'[j] = IF j \in rows THEN "running" ELSE status[j]
    BY <2>1 DEF Update
  <2>4. \A j \in rows \ raced, v \in Workers : j \notin work[v]
    BY <2>1 DEF SoleHolder, Holders
  <2>5. \A j \in Jobs : Holders(j)' # {} => j \in rows \/ Holders(j) # {}
    BY <2>2 DEF Holders
  <2> QED BY <2>1, <2>2, <2>3, <2>4, <2>5 DEF SoleHolder
<1>4. ASSUME NEW w \in Workers, NEW j \in Jobs, CompleteJob(w, j) PROVE SoleHolder'
  <2>1. \A i \in Jobs \ {j} : status'[i] = status[i]
    BY <1>4 DEF CompleteJob, Update
  <2> QED BY <1>4, <2>1, AnswerKeeps DEF CompleteJob
<1>5. ASSUME NEW w \in Workers, NEW j \in Jobs, FailJob(w, j) PROVE SoleHolder'
  <2>1. \A i \in Jobs \ {j} : status'[i] = status[i]
    BY <1>5 DEF FailJob, Update
  <2> QED BY <1>5, <2>1, AnswerKeeps DEF FailJob
<1>6. ASSUME NEW w \in Workers, Crash(w) PROVE SoleHolder'
  <2>1. \A v \in Workers : work'[v] \subseteq work[v]
    BY <1>6 DEF Crash
  <2>2. UNCHANGED <<status, raced>>
    BY <1>6 DEF Crash
  <2> QED BY <2>1, <2>2 DEF SoleHolder, Holders
<1>7. ASSUME NEW j \in Jobs, Enqueue(j) \/ RetryJob(j) PROVE SoleHolder'
  <2>1. \A i \in Jobs : status[i] = "running" => status'[i] = "running"
    BY <1>7 DEF Enqueue, RetryJob, Update
  <2> QED BY <1>7, <2>1, ClaimsUntouched DEF Enqueue, RetryJob
<1>8. ASSUME NEW j \in Jobs, RunAtPasses(j) \/ GrowsOld(j) PROVE SoleHolder'
  BY <1>8, ClaimsUntouched DEF RunAtPasses, GrowsOld
<1>9. ASSUME NEW w \in Workers, NextTick(w) PROVE SoleHolder'
  BY <1>9, ClaimsUntouched DEF NextTick
<1>10. CASE UNCHANGED vars
  BY <1>10, ClaimsUntouched DEF vars
<1> QED BY <1>1, <1>2, <1>3, <1>4, <1>5, <1>6, <1>7, <1>8, <1>9, <1>10 DEF Next, Tick

\* jobs.ts:38, claims are safe from concurrent workers: no job is on two of them
\* unless the stale sweep took it from a live one.
THEOREM ClaimsAreExclusive == Spec => []SoleHolder
<1>1. Init => SoleHolder
  BY DEF Init, SoleHolder, Holders
<1>2. TypeOK /\ SoleHolder /\ [Next]_vars => SoleHolder'
  BY SoleHolderStep
<1> QED BY <1>1, <1>2, QueueTypeCorrect, PTL DEF Spec

\* A settled job that was never taken from a live worker stays settled.
THEOREM SettlesForGood == Spec => SettlesOnce
<1> DEFINE Settled ==
      \A j \in Jobs \ raced :
         /\ status[j] = "done" => status'[j] \in {"done", "gone"}
         /\ status[j] = "failed" =>
              \/ status'[j] \in {"failed", "gone"}
              \/ status'[j] = "pending" /\ attempts'[j] = 0
<1>1. TypeOK /\ SoleHolder /\ [Next]_vars => Settled
  <2> SUFFICES ASSUME TypeOK, SoleHolder, [Next]_vars,
                      NEW j \in Jobs \ raced, status[j] \in Terminal
               PROVE  /\ status[j] = "done" => status'[j] \in {"done", "gone"}
                      /\ status[j] = "failed" =>
                           \/ status'[j] \in {"failed", "gone"}
                           \/ status'[j] = "pending" /\ attempts'[j] = 0
    BY DEF Terminal
  <2> DEFINE Keeps == status'[j] \in {status[j], "gone"}
  <2>0. \A w \in Workers : j \notin work[w]
    BY DEF SoleHolder, Holders, Terminal
  <2>1. ASSUME NEW w \in Workers, Tick(w) \/ Crash(w) PROVE Keeps
    <3>1. CASE RequeueStaleJobs(w)
      BY <3>1 DEF RequeueStaleJobs, Update, Terminal
    <3>2. CASE PruneJobs(w)
      BY <3>2 DEF PruneJobs, Update
    <3>3. CASE ClaimJobs(w)
      BY <3>3 DEF ClaimJobs, Update, Terminal
    <3>4. ASSUME NEW i \in Jobs, CompleteJob(w, i) \/ FailJob(w, i) PROVE Keeps
      BY <2>0, <3>4 DEF CompleteJob, FailJob, Update
    <3>5. CASE NextTick(w) \/ Crash(w)
      BY <3>5 DEF NextTick, Crash
    <3> QED BY <2>1, <3>1, <3>2, <3>3, <3>4, <3>5 DEF Tick
  <2>2. ASSUME NEW i \in Jobs, Enqueue(i) \/ RunAtPasses(i) \/ GrowsOld(i) PROVE Keeps
    BY <2>2 DEF Enqueue, RunAtPasses, GrowsOld, Update, Terminal
  <2>3. ASSUME NEW i \in Jobs, RetryJob(i)
        PROVE  \/ Keeps
               \/ status[j] = "failed" /\ status'[j] = "pending" /\ attempts'[j] = 0
    BY <2>3 DEF RetryJob, Update, TypeOK
  <2>4. CASE UNCHANGED vars
    BY <2>4 DEF vars
  <2> QED BY <2>1, <2>2, <2>3, <2>4 DEF Next, Terminal
<1>2. TypeOK /\ SoleHolder /\ [Next]_vars => [Settled]_vars
  BY <1>1
<1> QED BY <1>2, QueueTypeCorrect, ClaimsAreExclusive, PTL DEF Spec, SettlesOnce
=============================================================================
