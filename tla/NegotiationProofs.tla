------------------------- MODULE NegotiationProofs -------------------------
(***************************************************************************)
(* Proofs about Negotiation, for every set of prices and requests, every   *)
(* choice of failures and every number of rounds and revisions.            *)
(***************************************************************************)
EXTENDS Negotiation, SequenceTheorems, TLAPS

-----------------------------------------------------------------------------
(* Type correctness.                                                       *)

Round == [amount : Prices, outcome : Outcomes]
Writes == {"lock", "write", "counter"}

\* Ending open rounds changes neither their number nor their amounts, and opens
\* none.
LEMMA ResolveRounds ==
  ASSUME rounds \in Seq(Round), NEW n \in Nat, NEW outcome \in Outcomes,
         ResolveFirst(n, outcome)
  PROVE  /\ rounds' \in Seq(Round)
         /\ DOMAIN rounds' = DOMAIN rounds
         /\ \A i \in DOMAIN rounds :
              /\ rounds'[i].amount = rounds[i].amount
              /\ IsOpen(i)' => IsOpen(i)
              /\ outcome # "open" /\ i <= n => ~ IsOpen(i)'
<1>1. /\ Len(rounds) \in Nat
      /\ DOMAIN rounds = 1 .. Len(rounds)
      /\ \A i \in DOMAIN rounds : rounds[i] \in Round
  BY LenProperties, ElementOfSeq
<1>2. /\ DOMAIN rounds' = DOMAIN rounds
      /\ \A i \in DOMAIN rounds :
        rounds'[i] = IF IsOpen(i) /\ i <= n THEN [rounds[i] EXCEPT !.outcome = outcome]
                     ELSE rounds[i]
  BY DEF ResolveFirst
<1>3. \A i \in DOMAIN rounds :
        /\ rounds'[i] \in Round
        /\ rounds'[i].amount = rounds[i].amount
        /\ rounds'[i].outcome = IF IsOpen(i) /\ i <= n THEN outcome ELSE rounds[i].outcome
  BY <1>1, <1>2 DEF Round
<1>4. rounds' \in [1 .. Len(rounds) -> Round]
  BY <1>1, <1>3 DEF ResolveFirst
<1>5. rounds' \in Seq(Round)
  BY <1>1, <1>4, SeqDef
<1>6. \A i \in DOMAIN rounds :
        /\ IsOpen(i)' => IsOpen(i)
        /\ outcome # "open" /\ i <= n => ~ IsOpen(i)'
  BY <1>3 DEF IsOpen
<1> QED BY <1>2, <1>3, <1>5, <1>6

\* All of them: no round is open afterwards.
LEMMA ResolveAll ==
  ASSUME rounds \in Seq(Round), NEW outcome \in Outcomes, Resolve(outcome)
  PROVE  /\ rounds' \in Seq(Round)
         /\ DOMAIN rounds' = DOMAIN rounds
         /\ \A i \in DOMAIN rounds :
              /\ rounds'[i].amount = rounds[i].amount
              /\ IsOpen(i)' => IsOpen(i)
              /\ outcome # "open" => ~ IsOpen(i)'
<1>1. /\ Len(rounds) \in Nat
      /\ DOMAIN rounds = 1 .. Len(rounds)
  BY LenProperties
<1>2. ResolveFirst(Len(rounds), outcome)
  BY DEF Resolve
<1>3. \A i \in DOMAIN rounds : i <= Len(rounds)
  BY <1>1
<1> QED BY <1>1, <1>2, <1>3, ResolveRounds

\* The tasks a handler takes up.
LEMMA TaskType ==
  /\ \A p \in Steps, a, o \in Prices \cup {None}, u \in Outcomes :
       LET task == Task(p, a, o, u)
       IN  /\ task \in Request /\ task.pc = p /\ task.ask = a
           /\ task.offer = o /\ task.outcome = u
  /\ Idle \in Request /\ Idle.pc = "idle"
  BY DEF Task, Idle, Request, Steps, Outcomes

\* A session that takes up a well-formed task keeps ReqType; the other sessions
\* are where they were.
LEMMA ServeType ==
  ASSUME ReqType, NEW s \in Sessions, NEW task \in Request, Serve(s, task),
         task.pc \in Writes => task.offer \in Prices,
         task.pc \in {"lock", "write"} => task.outcome \in {"answered", "accepted"},
         task.pc = "write" => task.ask \in Prices
  PROVE  ReqType'
  BY DEF Serve, ReqType, Writes

\* Ending a request keeps ReqType.
LEMMA FinishType ==
  ASSUME ReqType, NEW s \in Sessions, Finish(s)  PROVE ReqType'
  BY TaskType, ServeType DEF Finish, Writes

\* Moving on to a step that writes no price keeps ReqType.
LEMMA GotoType ==
  ASSUME ReqType, NEW s \in Sessions, NEW p \in Steps \ Writes, Goto(s, p)
  PROVE  ReqType'
<1> DEFINE task == [req[s] EXCEPT !.pc = p]
<1>1. task \in Request /\ task.pc = p
  BY DEF ReqType, Request
<1>2. Serve(s, task)
  BY DEF Goto
<1> HIDE DEF task
<1> QED BY <1>1, <1>2, ServeType DEF Writes

\* Taking up a task keeps ReqType.
LEMMA TakeUpType ==
  ASSUME ReqType, NEW s \in Sessions, NEW p \in Steps \ {"write"},
         NEW a \in Prices \cup {None}, NEW o \in Prices \cup {None}, NEW u \in Outcomes,
         p \in Writes => o \in Prices,
         p = "lock" => u \in {"answered", "accepted"}, Serve(s, Task(p, a, o, u))
  PROVE  ReqType'
<1> DEFINE task == Task(p, a, o, u)
<1>1. task \in Request /\ task.pc = p /\ task.offer = o /\ task.outcome = u
  BY DEF Task, Request
<1> HIDE DEF task
<1> QED BY <1>1, ServeType DEF task

\* So does turning to the compensation.
LEMMA GiveBackType ==
  ASSUME ReqType, NEW s \in Sessions, NEW p \in Steps \ Writes, GiveBack(s, p)
  PROVE  ReqType'
  BY TakeUpType DEF GiveBack, Outcomes, Writes

\* The handlers' writes stay in the domains.
LEMMA HagglingType ==
  ASSUME TypeOK, NEW s \in Sessions, Haggling(s)  PROVE TypeOK'
<1> USE NegotiationAssumption DEF TypeOK
<1>1. ASSUME NEW p \in Prices, ReviseCheck(s, p) PROVE TypeOK'
  BY <1>1, TakeUpType DEF ReviseCheck, quoteVars, Steps, Outcomes
<1>2. ASSUME NEW p \in Prices, CounterCheck(s, p) PROVE TypeOK'
  BY <1>2, TakeUpType DEF CounterCheck, quoteVars, Steps, Outcomes
<1>3. CASE AcceptCounterCheck(s)
  BY <1>3, TakeUpType DEF AcceptCounterCheck, quoteVars, Steps, Outcomes
<1>4. CASE ReviseLock(s)
  <2> DEFINE task == [req[s] EXCEPT !.pc = "write", !.ask = price]
  <2>1. /\ req[s] \in Request /\ req[s].offer \in Prices
        /\ req[s].outcome \in {"answered", "accepted"}
    BY <1>4 DEF ReviseLock, At, ReqType
  <2>2. /\ task \in Request /\ task.ask = price /\ task.offer = req[s].offer
        /\ task.outcome = req[s].outcome
    BY <2>1 DEF Request, Steps
  <2>3. Serve(s, task)
    BY <1>4 DEF ReviseLock
  <2> HIDE DEF task
  <2>4. ReqType'
    BY <2>1, <2>2, <2>3, ServeType
  <2> QED BY <1>4, <2>4 DEF ReviseLock, quoteVars
<1>5. CASE ReviseWrite(s)
  <2>1. /\ req[s] \in Request /\ req[s].offer \in Prices /\ req[s].ask \in Prices
    BY <1>5 DEF ReviseWrite, At, ReqType
  <2>2. CASE status = "sent" /\ live
    <3>1. trail' \in Seq(Prices) /\ offers' \in Seq(Prices)
      <4>1. /\ Append(trail, req[s].ask) \in Seq(Prices)
            /\ Append(offers, req[s].offer) \in Seq(Prices)
        BY <2>1, AppendProperties
      <4> QED BY <1>5, <2>2, <4>1 DEF ReviseWrite
    <3>2. rounds' \in Seq(Round)
      BY <1>5, <2>1, <2>2, ResolveAll DEF ReviseWrite, Round, Request
    <3>3. ReqType'
      <4>1. CASE Finish(s)
        BY <4>1, FinishType
      <4>2. CASE Serve(s, Task("close", req[s].offer, None, "accepted"))
        BY <2>1, <4>2, TakeUpType DEF Steps, Outcomes, Writes
      <4> QED BY <1>5, <2>2, <4>1, <4>2 DEF ReviseWrite
    <3> QED BY <1>5, <2>1, <2>2, <3>1, <3>2, <3>3 DEF ReviseWrite, Round
  <2>3. CASE ~ (status = "sent" /\ live)
    BY <1>5, <2>3, FinishType DEF ReviseWrite
  <2> QED BY <2>2, <2>3
<1>6. CASE CounterQuote(s)
  <2>1. req[s].offer \in Prices
    BY <1>6 DEF CounterQuote, At, ReqType
  <2>2. [amount |-> req[s].offer, outcome |-> "open"] \in Round
    BY <2>1 DEF Round, Outcomes
  <2>3. rounds' \in Seq(Round)
    <3>1. rounds \in Seq(Round)
      BY DEF Round
    <3>2. Append(rounds, [amount |-> req[s].offer, outcome |-> "open"]) \in Seq(Round)
      BY <2>2, <3>1, AppendProperties
    <3> QED BY <1>6, <3>1, <3>2 DEF CounterQuote
  <2> QED BY <1>6, <2>1, <2>3, FinishType DEF CounterQuote, Round
<1> QED BY <1>1, <1>2, <1>3, <1>4, <1>5, <1>6 DEF Haggling
\* The accept, its rollback and the flips of setQuoteStatus stay in the domains.
LEMMA ClosingType ==
  ASSUME TypeOK, NEW s \in Sessions, Closing(s)  PROVE TypeOK'
<1> USE NegotiationAssumption DEF TypeOK
<1>1. CASE AcceptCheck(s)
  BY <1>1, TakeUpType DEF AcceptCheck, quoteVars, Steps, Outcomes, Writes
<1>2. CASE CloseForDeal(s)
  BY <1>2, GotoType, FinishType DEF CloseForDeal, quoteVars, Steps, Writes
<1>3. CASE AcceptQuote(s)
  BY <1>3, GotoType, GiveBackType DEF AcceptQuote, Steps, Writes, QuoteStates
<1>4. CASE ResolveCounterRounds(s)
  <2>1. req[s].outcome \in Outcomes /\ rounds \in Seq(Round)
    BY DEF ReqType, Request, Round
  <2>2. rounds' \in Seq(Round)
    BY <1>4, <2>1, ResolveAll DEF ResolveCounterRounds
  <2>3. ReqType'
    BY <1>4, GotoType, FinishType DEF ResolveCounterRounds, Steps, Writes
  <2> QED BY <1>4, <2>2, <2>3 DEF ResolveCounterRounds, Round
<1>5. CASE Rollback(s)
  BY <1>5, FinishType DEF Rollback, quoteVars
<1>6. CASE CreateDeal(s)
  <2>1. req[s].ask \in Prices \cup {None}
    BY DEF ReqType, Request
  <2>2. ReqType'
    BY <1>6, GiveBackType, FinishType DEF CreateDeal, Steps, Writes
  <2> QED BY <1>6, <2>1, <2>2 DEF CreateDeal, quoteVars
<1>7. CASE UnacceptQuote(s)
  BY <1>7, GotoType, FinishType DEF UnacceptQuote, Steps, Writes, QuoteStates
<1>8. ASSUME NEW new \in {"declined", "withdrawn"}, LeaveSent(s, new) PROVE TypeOK'
  BY <1>8, TakeUpType DEF LeaveSent, Steps, Outcomes, Writes, QuoteStates
<1> QED BY <1>1, <1>2, <1>3, <1>4, <1>5, <1>6, <1>7, <1>8 DEF Closing

\* The steps that move no request: an answer to the counter, the RFQ, the expiry.
Elsewhere ==
    \/ \E outcome \in {"withdrawn", "declined"} : ClearCounter(outcome)
    \/ CloseRfq \/ ReopenRfq \/ ExpireStart \/ ExpireCommit

\* They stay in the domains too.
LEMMA ElsewhereType ==
  ASSUME TypeOK, Elsewhere  PROVE TypeOK' /\ UNCHANGED req
<1> USE DEF TypeOK
<1>0. UNCHANGED req
  BY DEF Elsewhere, ClearCounter, CloseRfq, ReopenRfq, ExpireStart, ExpireCommit
<1>1. ReqType'
  BY <1>0 DEF ReqType
<1>2. ASSUME NEW outcome \in {"withdrawn", "declined"}, ClearCounter(outcome)
      PROVE TypeOK'
  <2>1. rounds' \in Seq(Round)
    BY <1>2, ResolveAll DEF ClearCounter, Round, Outcomes
  <2> QED BY <1>1, <1>2, <2>1 DEF ClearCounter, Round
<1>3. CASE CloseRfq \/ ReopenRfq
  BY <1>1, <1>3 DEF CloseRfq, ReopenRfq, quoteVars
<1>4. CASE ExpireStart
  <2>1. Len(rounds) \in Nat
    BY LenProperties
  <2>2. sweep' \in Snapshot
    BY <1>4, <2>1 DEF ExpireStart, Snapshot
  <2> QED BY <1>1, <1>4, <2>2 DEF ExpireStart, quoteVars
<1>5. CASE ExpireCommit
  <2>1. sweep.rounds \in Nat /\ NoSweep \in Snapshot /\ rounds \in Seq(Round)
    BY DEF Snapshot, NoSweep, Round
  <2>2. rounds' \in Seq(Round)
    BY <1>5, <2>1, ResolveRounds DEF ExpireCommit, Outcomes
  <2> QED BY <1>1, <1>5, <2>1, <2>2 DEF ExpireCommit, Round, QuoteStates
<1> QED BY <1>0, <1>2, <1>3, <1>4, <1>5 DEF Elsewhere

\* The variables of the negotiation keep to their domains.
THEOREM NegotiationTypeCorrect == Spec => []TypeOK
<1>1. Init => TypeOK
  <2> SUFFICES ASSUME Init PROVE TypeOK
    OBVIOUS
  <2>1. ReqType
    BY TaskType DEF Init, ReqType
  <2>2. NoSweep \in Snapshot
    BY DEF NoSweep, Snapshot
  <2> QED BY <2>1, <2>2 DEF Init, TypeOK, QuoteStates
<1>2. TypeOK /\ [Next]_vars => TypeOK'
  <2> SUFFICES ASSUME TypeOK, [Next]_vars PROVE TypeOK'
    OBVIOUS
  <2>1. ASSUME NEW s \in Sessions, Abort(s) PROVE TypeOK'
    BY <2>1, FinishType DEF Abort, TypeOK, quoteVars
  <2>2. CASE UNCHANGED vars
    BY <2>2 DEF vars, quoteVars, TypeOK, ReqType
  <2> QED BY <2>1, <2>2, HagglingType, ClosingType, ElsewhereType DEF Next, Elsewhere
<1> QED BY <1>1, <1>2, PTL DEF Spec

-----------------------------------------------------------------------------
(* The revision trail.                                                      *)

\* A step that writes no price and lets no session into a revise's write.
KeepsTerms ==
    /\ UNCHANGED <<price, trail, offers>>
    /\ \A t \in Sessions : req'[t].pc = "write" =>
         lock' = lock /\ req'[t] = req[t]

\* It keeps the trail and the pinned terms.
LEMMA KeepsTermsKeeps ==
  ASSUME TypeOK, Pinned, TrailComplete, KeepsTerms
  PROVE  Pinned' /\ TrailComplete'
  BY DEF Pinned, TrailComplete, KeepsTerms, At

\* A session that moves on outside the write pins nothing new.
LEMMA MovesOn ==
  ASSUME TypeOK, NEW s \in Sessions, NEW task, Serve(s, task), task.pc # "write"
  PROVE  \A t \in Sessions : req'[t].pc = "write" => req'[t] = req[t]
  BY DEF TypeOK, ReqType, Serve

\* So Goto and Finish.
LEMMA GotoMovesOn ==
  ASSUME TypeOK, NEW s \in Sessions, NEW p \in Steps \ {"write"}, Finish(s) \/ Goto(s, p)
  PROVE  \A t \in Sessions : req'[t].pc = "write" => req'[t] = req[t]
<1>1. CASE Finish(s)
  BY <1>1, TaskType, MovesOn DEF Finish
<1>2. CASE Goto(s, p)
  <2> DEFINE task == [req[s] EXCEPT !.pc = p]
  <2>1. task.pc = p
    BY DEF TypeOK, ReqType, Request
  <2>2. Serve(s, task)
    BY <1>2 DEF Goto
  <2> HIDE DEF task
  <2> QED BY <2>1, <2>2, MovesOn
<1> QED BY <1>1, <1>2

\* So the tasks a handler takes up.
LEMMA TakeUpMovesOn ==
  ASSUME TypeOK, NEW s \in Sessions, NEW p \in Steps \ {"write"}, NEW a, NEW o, NEW u,
         Serve(s, Task(p, a, o, u))
  PROVE  \A t \in Sessions : req'[t].pc = "write" => req'[t] = req[t]
<1>1. Task(p, a, o, u).pc = p
  BY DEF Task
<1> QED BY <1>1, MovesOn

\* The revise's two steps: under the lock the pinned terms are the quote's, so
\* what is logged is what is superseded.
LEMMA ReviseKeepsTrail ==
  ASSUME TypeOK, Pinned, TrailComplete, NEW s \in Sessions,
         ReviseLock(s) \/ ReviseWrite(s)
  PROVE  Pinned' /\ TrailComplete'
<1> USE NegotiationAssumption DEF TypeOK
<1>1. CASE ReviseLock(s)
  <2>1. \A t \in Sessions : req[t].pc # "write"
    BY <1>1 DEF ReviseLock, Unlocked, Pinned, At
  <2>2. /\ \A t \in Sessions \ {s} : req'[t] = req[t]
        /\ req'[s].ask = price
    BY <1>1 DEF ReviseLock, Serve, ReqType, Request
  <2> QED BY <1>1, <2>1, <2>2 DEF ReviseLock, Pinned, TrailComplete, quoteVars, At
<1>2. CASE ReviseWrite(s)
  <2>1. lock = s /\ req[s].ask = price
    BY <1>2 DEF ReviseWrite, Pinned
  <2>2. \A t \in Sessions \ {s} : req[t].pc # "write"
    BY <2>1 DEF Pinned, At
  <2>3. \A t \in Sessions : req'[t].pc # "write"
    <3>1. CASE Finish(s)
      BY <2>2, <3>1, TaskType DEF Finish, Serve, ReqType
    <3>2. CASE Serve(s, Task("close", req[s].offer, None, "accepted"))
      BY <2>2, <3>2 DEF Serve, Task, ReqType
    <3> QED BY <1>2, <3>1, <3>2 DEF ReviseWrite
  <2>4. Pinned'
    BY <2>3 DEF Pinned, At
  <2>5. TrailComplete'
    BY <1>2, <2>1 DEF ReviseWrite, TrailComplete
  <2> QED BY <2>4, <2>5
<1> QED BY <1>1, <1>2

\* Every step keeps the trail complete.
LEMMA TrailStep ==
  ASSUME TypeOK, Pinned, TrailComplete, [Next]_vars
  PROVE  Pinned' /\ TrailComplete'
<1>1. ASSUME NEW s \in Sessions, Haggling(s) PROVE Pinned' /\ TrailComplete'
  <2>1. CASE ReviseLock(s) \/ ReviseWrite(s)
    BY <2>1, ReviseKeepsTrail
  <2>2. CASE \/ \E p \in Prices : ReviseCheck(s, p) \/ CounterCheck(s, p)
             \/ AcceptCounterCheck(s)
    <3>1. KeepsTerms
      BY <2>2, TakeUpMovesOn DEF ReviseCheck, CounterCheck, AcceptCounterCheck, KeepsTerms,
         quoteVars, Steps
    <3> QED BY <3>1, KeepsTermsKeeps
  <2>3. CASE CounterQuote(s)
    <3>1. KeepsTerms
      BY <2>3, GotoMovesOn DEF CounterQuote, KeepsTerms, Steps
    <3> QED BY <3>1, KeepsTermsKeeps
  <2> QED BY <1>1, <2>1, <2>2, <2>3 DEF Haggling
<1>2. ASSUME NEW s \in Sessions, Closing(s) PROVE Pinned' /\ TrailComplete'
  <2>1. CASE AcceptCheck(s) \/ \E new \in {"declined", "withdrawn"} : LeaveSent(s, new)
    <3>1. KeepsTerms
      BY <2>1, TakeUpMovesOn DEF AcceptCheck, LeaveSent, KeepsTerms, quoteVars, Steps
    <3> QED BY <3>1, KeepsTermsKeeps
  <2>2. CASE \/ CloseForDeal(s) \/ AcceptQuote(s) \/ ResolveCounterRounds(s)
             \/ Rollback(s) \/ CreateDeal(s) \/ UnacceptQuote(s)
    <3>1. KeepsTerms
      BY <2>2, GotoMovesOn, TakeUpMovesOn DEF GiveBack, CloseForDeal, AcceptQuote,
         ResolveCounterRounds, Rollback, CreateDeal, UnacceptQuote, KeepsTerms, quoteVars, Steps
    <3> QED BY <3>1, KeepsTermsKeeps
  <2> QED BY <1>2, <2>1, <2>2 DEF Closing
<1>3. CASE Elsewhere
  <2>1. KeepsTerms
    BY <1>3, ElsewhereType DEF Elsewhere, ClearCounter, CloseRfq, ReopenRfq, ExpireStart,
       ExpireCommit, KeepsTerms, quoteVars
  <2> QED BY <2>1, KeepsTermsKeeps
<1>4. ASSUME NEW s \in Sessions, Abort(s) PROVE Pinned' /\ TrailComplete'
  <2>1. \A t \in Sessions : req'[t].pc = "write" => req'[t] = req[t] /\ t # s
    BY <1>4, GotoMovesOn, TaskType DEF Abort, Finish, Serve, TypeOK, ReqType, Steps
  <2> QED BY <1>4, <2>1 DEF Abort, Pinned, TrailComplete, quoteVars, At
<1>5. CASE UNCHANGED vars
  <2>1. KeepsTerms
    BY <1>5 DEF vars, quoteVars, KeepsTerms
  <2> QED BY <2>1, KeepsTermsKeeps
<1> QED BY <1>1, <1>2, <1>3, <1>4, <1>5 DEF Next, Elsewhere

\* QA-530: the revision trail loses no price and logs none twice, whatever
\* revises, accepts of the counter, crashes and expiries race; the row lock is why.
THEOREM TrailIsComplete == Spec => []TrailPinned
<1>1. Init => TrailPinned
  <2> SUFFICES ASSUME Init PROVE Pinned /\ TrailComplete
    BY DEF TrailPinned
  <2>1. Pinned
    BY TaskType DEF Init, Pinned, At
  <2>2. TrailComplete
    BY DEF Init, TrailComplete
  <2> QED BY <2>1, <2>2
<1>2. TypeOK /\ TrailPinned /\ [Next]_vars => TrailPinned'
  BY TrailStep DEF TrailPinned
<1> QED BY <1>1, <1>2, NegotiationTypeCorrect, PTL DEF Spec

-----------------------------------------------------------------------------
(* Accepted terms.                                                          *)

\* QA-439: no step changes the price of an accepted quote.
THEOREM AcceptedTermsAreFixed == Spec => AcceptedTermsStand
<1>1. [Next]_vars => (status = "accepted" => price' = price)
  <2> SUFFICES ASSUME [Next]_vars, status = "accepted" PROVE price' = price
    OBVIOUS
  <2>1. ASSUME NEW s \in Sessions, Haggling(s) PROVE price' = price
    BY <2>1 DEF Haggling, ReviseCheck, CounterCheck, AcceptCounterCheck, ReviseLock,
       ReviseWrite, CounterQuote, quoteVars
  <2>2. ASSUME NEW s \in Sessions, Closing(s) \/ Abort(s) PROVE price' = price
    BY <2>2 DEF Closing, AcceptCheck, CloseForDeal, AcceptQuote, ResolveCounterRounds,
       Rollback, CreateDeal, UnacceptQuote, LeaveSent, Abort, quoteVars
  <2>3. CASE Elsewhere \/ UNCHANGED vars
    BY <2>3 DEF Elsewhere, ClearCounter, CloseRfq, ReopenRfq, ExpireStart, ExpireCommit,
       vars, quoteVars
  <2> QED BY <2>1, <2>2, <2>3 DEF Next, Elsewhere
<1>2. [Next]_vars => [status = "accepted" => price' = price]_vars
  BY <1>1
<1> QED BY <1>2, PTL DEF Spec, AcceptedTermsStand

-----------------------------------------------------------------------------
(* Counter rounds.                                                          *)

\* A step that opens no round and leaves the counter keeps the audit straight.
LEMMA FewerOpenRounds ==
  ASSUME OpenRoundOnTable, DOMAIN rounds' = DOMAIN rounds,
         \A i \in DOMAIN rounds :
            IsOpen(i)' => IsOpen(i) /\ rounds'[i].amount = rounds[i].amount,
         \/ UNCHANGED counter
         \/ \A i \in DOMAIN rounds : ~ IsOpen(i)'
  PROVE  OpenRoundOnTable'
  BY DEF OpenRoundOnTable, IsOpen

\* A step that leaves rounds and counter alone, likewise.
LEMMA SameRounds ==
  ASSUME OpenRoundOnTable, UNCHANGED <<rounds, counter>>
  PROVE  OpenRoundOnTable'
  BY DEF OpenRoundOnTable, IsOpen

\* A counter opens its round only when none is on the table, and then no round is
\* open.
LEMMA CounterOpensOne ==
  ASSUME TypeOK, OpenRoundOnTable, NEW s \in Sessions, CounterQuote(s)
  PROVE  OpenRoundOnTable'
<1>1. CASE UNCHANGED <<rounds, counter>>
  BY <1>1, SameRounds
<1>2. CASE /\ counter = None /\ counter' = req[s].offer
           /\ rounds' = Append(rounds, [amount |-> req[s].offer, outcome |-> "open"])
  <2> DEFINE row == [amount |-> req[s].offer, outcome |-> "open"]
  <2>1. req[s].offer \in Prices
    BY DEF CounterQuote, At, TypeOK, ReqType
  <2>2. row \in Round /\ row.amount = req[s].offer
    BY <2>1 DEF Round, Outcomes
  <2>3. rounds \in Seq(Round)
    BY DEF TypeOK, Round
  <2>4. /\ Len(rounds) \in Nat /\ DOMAIN rounds = 1 .. Len(rounds)
        /\ \A i \in DOMAIN rounds : rounds[i] \in Round
    BY <2>3, LenProperties, ElementOfSeq
  <2> HIDE DEF row
  <2>5. /\ rounds' \in Seq(Round)
        /\ Len(rounds') = Len(rounds) + 1
        /\ \A i \in 1 .. Len(rounds) : rounds'[i] = rounds[i]
        /\ rounds'[Len(rounds) + 1] = row
    <3>1. rounds' = Append(rounds, row)
      BY <1>2 DEF row
    <3> QED BY <2>2, <2>3, <3>1, AppendProperties
  <2>6. DOMAIN rounds' = 1 .. Len(rounds) + 1
    BY <2>5, LenProperties
  <2>7. \A i \in DOMAIN rounds : ~ IsOpen(i)
    BY <1>2, <2>4, NegotiationAssumption DEF OpenRoundOnTable, Round, None
  <2>8. \A i \in DOMAIN rounds' : IsOpen(i)' => i = Len(rounds) + 1
    BY <2>4, <2>5, <2>6, <2>7 DEF IsOpen
  <2>9. \A i \in DOMAIN rounds' : IsOpen(i)' => counter' = rounds'[i].amount
    BY <1>2, <2>2, <2>5, <2>8
  <2> QED BY <2>8, <2>9 DEF OpenRoundOnTable
<1> QED BY <1>1, <1>2 DEF CounterQuote

\* A revise ends every round along with the counter.
LEMMA ReviseEndsRounds ==
  ASSUME TypeOK, OpenRoundOnTable, NEW s \in Sessions, ReviseWrite(s)
  PROVE  OpenRoundOnTable'
<1>1. CASE UNCHANGED <<rounds, counter>>
  BY <1>1, SameRounds
<1>2. CASE Resolve(req[s].outcome)
  <2>1. /\ req[s].outcome \in Outcomes \ {"open"}
        /\ rounds \in Seq(Round)
    BY DEF ReviseWrite, At, TypeOK, ReqType, Outcomes, Round
  <2> QED BY <1>2, <2>1, ResolveAll, FewerOpenRounds
<1> QED BY <1>1, <1>2 DEF ReviseWrite

\* Every step keeps the audit of counters straight.
LEMMA RoundsStep ==
  ASSUME TypeOK, OpenRoundOnTable, [Next]_vars  PROVE OpenRoundOnTable'
<1>0. rounds \in Seq(Round)
  BY DEF TypeOK, Round
<1>1. ASSUME NEW s \in Sessions, Haggling(s) PROVE OpenRoundOnTable'
  <2>1. CASE ReviseWrite(s)
    BY <2>1, ReviseEndsRounds
  <2>2. CASE CounterQuote(s)
    BY <2>2, CounterOpensOne
  <2>3. CASE ~ ReviseWrite(s) /\ ~ CounterQuote(s)
    BY <1>1, <2>3, SameRounds DEF Haggling, ReviseCheck, CounterCheck, AcceptCounterCheck,
       ReviseLock, quoteVars
  <2> QED BY <2>1, <2>2, <2>3
<1>2. ASSUME NEW s \in Sessions, Closing(s) \/ Abort(s) PROVE OpenRoundOnTable'
  <2>1. CASE ResolveCounterRounds(s)
    <3>1. req[s].outcome \in Outcomes
      BY DEF TypeOK, ReqType, Request
    <3> QED BY <1>0, <2>1, <3>1, ResolveAll, FewerOpenRounds DEF ResolveCounterRounds
  <2>2. CASE ~ ResolveCounterRounds(s)
    BY <1>2, <2>2, SameRounds DEF Closing, AcceptCheck, CloseForDeal, AcceptQuote,
       Rollback, CreateDeal, UnacceptQuote, LeaveSent, Abort, quoteVars
  <2> QED BY <2>1, <2>2
<1>3. ASSUME NEW outcome \in {"withdrawn", "declined"}, ClearCounter(outcome)
      PROVE OpenRoundOnTable'
  BY <1>0, <1>3, ResolveAll, FewerOpenRounds DEF ClearCounter, Outcomes
<1>4. CASE ExpireCommit
  <2>1. CASE UNCHANGED <<rounds, counter>>
    BY <2>1, SameRounds
  <2>2. CASE ResolveFirst(sweep.rounds, "expired")
    <3>1. sweep.rounds \in Nat /\ UNCHANGED counter
      BY <1>4 DEF ExpireCommit, TypeOK, Snapshot
    <3> QED BY <1>0, <2>2, <3>1, ResolveRounds, FewerOpenRounds DEF Outcomes
  <2> QED BY <1>4, <2>1, <2>2 DEF ExpireCommit
<1>5. CASE CloseRfq \/ ReopenRfq \/ ExpireStart \/ UNCHANGED vars
  BY <1>5, SameRounds DEF CloseRfq, ReopenRfq, ExpireStart, vars, quoteVars
<1> QED BY <1>1, <1>2, <1>3, <1>4, <1>5 DEF Next

\* QA-522: at most one counter round is open, and it is the counter on the table.
THEOREM RoundsAreAudited == Spec => []OpenRoundOnTable
<1>1. Init => OpenRoundOnTable
  BY DEF Init, OpenRoundOnTable
<1>2. TypeOK /\ OpenRoundOnTable /\ [Next]_vars => OpenRoundOnTable'
  BY RoundsStep
<1> QED BY <1>1, <1>2, NegotiationTypeCorrect, PTL DEF Spec
=============================================================================
