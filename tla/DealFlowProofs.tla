--------------------------- MODULE DealFlowProofs ---------------------------
(***************************************************************************)
(* Proofs about DealFlow, for every set of RFQs, quotes, listings and      *)
(* requests and every choice of failures.                                  *)
(***************************************************************************)
EXTENDS DealFlow, TLAPS

-----------------------------------------------------------------------------
(* Type correctness.                                                       *)

\* The steps and statuses by name, so that a leaf need not expand their sets.
LEMMA Names ==
  /\ {"insert", "mark", "close", "accept", "rollback", "deal", "unaccept",
      "unclose", "siblings", "invoice", "sell", "restore", "reactivate"} = QuotedSteps
  /\ Steps = QuotedSteps \cup {"idle", "sweep", "cascade"}
  /\ {"open", "quoted", "closed", "spam"} = RfqStates
  /\ {"none", "sent", "accepted", "declined", "withdrawn"} = QuoteStates
  /\ {"none", "pending", "invoiced", "paid", "void"} = InvoiceStates
  /\ {"active", "archived", "sold"} = ListingStates
  BY DEF QuotedSteps, Steps, QuoteSteps, AcceptSteps, SweepSteps, RevertSteps,
         RfqStates, Live, QuoteStates, InvoiceStates, ListingStates

\* The tasks a handler takes up are requests: one on a quote, a sweep of a
\* listing, a decline loop.
LEMMA TaskType ==
  /\ \A p \in Steps, q \in Quotes, o \in SUBSET Rfqs :
       LET task == Task(p, q, None, o, {})
       IN  task \in Request /\ task.pc = p /\ task.q = q
  /\ \A l \in Listings :
       LET task == Task("sweep", None, l, {}, {})
       IN  task \in Request /\ task.pc = "sweep"
  /\ \A o \in SUBSET Rfqs, t \in SUBSET Quotes :
       LET task == Task("cascade", None, None, o, t)
       IN  task \in Request /\ task.pc = "cascade"
  /\ Idle \in Request /\ Idle.pc = "idle"
  BY Names DEF Task, Idle, Request

\* A session that takes up a well-formed task keeps ReqType.
LEMMA ServeType ==
  ASSUME ReqType, NEW s \in Sessions, NEW task \in Request, Serve(s, task),
         task.pc \in QuotedSteps => task.q \in Quotes
  PROVE  ReqType'
  BY DEF Serve, ReqType

\* Ending a request keeps ReqType.
LEMMA FinishType ==
  ASSUME ReqType, NEW s \in Sessions, Finish(s)  PROVE ReqType'
  BY TaskType, ServeType, Names DEF Finish

\* Moving on to another step with the same quote keeps ReqType.
LEMMA GotoType ==
  ASSUME ReqType, NEW s \in Sessions, NEW p \in Steps, Goto(s, p),
         p \in QuotedSteps => req[s].q \in Quotes
  PROVE  ReqType'
<1> DEFINE task == [req[s] EXCEPT !.pc = p]
<1>1. req[s] \in Request
  BY DEF ReqType
<1>2. task \in Request /\ task.pc = p /\ task.q = req[s].q
  BY <1>1 DEF Request
<1>3. Serve(s, task)
  BY DEF Goto
<1> HIDE DEF task
<1> QED BY <1>2, <1>3, ServeType

\* Each kind of task a handler takes up keeps ReqType.
LEMMA TakeUpType ==
  ASSUME ReqType, NEW s \in Sessions
  PROVE  /\ \A p \in Steps, q \in Quotes : Serve(s, Task(p, q, None, {}, {})) => ReqType'
         /\ \A q \in Quotes, r \in Rfqs :
              Serve(s, Task("siblings", q, None, {r}, {})) => ReqType'
         /\ \A l \in Listings : Serve(s, Task("sweep", None, l, {}, {})) => ReqType'
         /\ \A o \in SUBSET Rfqs, t \in SUBSET Quotes :
              Serve(s, Task("cascade", None, None, o, t)) => ReqType'
<1>1. ASSUME NEW p \in Steps, NEW q \in Quotes, Serve(s, Task(p, q, None, {}, {}))
      PROVE  ReqType'
  <2> DEFINE task == Task(p, q, None, {}, {})
  <2>1. task \in Request /\ task.pc = p /\ task.q = q
    BY TaskType
  <2> HIDE DEF task
  <2> QED BY <1>1, <2>1, ServeType DEF task
<1>2. ASSUME NEW q \in Quotes, NEW r \in Rfqs, Serve(s, Task("siblings", q, None, {r}, {}))
      PROVE  ReqType'
  <2> DEFINE task == Task("siblings", q, None, {r}, {})
  <2>1. task \in Request /\ task.pc = "siblings" /\ task.q = q
    BY TaskType, Names
  <2> HIDE DEF task
  <2> QED BY <1>2, <2>1, ServeType DEF task
<1>3. ASSUME NEW l \in Listings, Serve(s, Task("sweep", None, l, {}, {}))
      PROVE  ReqType'
  <2> DEFINE task == Task("sweep", None, l, {}, {})
  <2>1. task \in Request /\ task.pc \notin QuotedSteps
    BY TaskType, Names
  <2> HIDE DEF task
  <2> QED BY <1>3, <2>1, ServeType DEF task
<1>4. ASSUME NEW o \in SUBSET Rfqs, NEW t \in SUBSET Quotes,
             Serve(s, Task("cascade", None, None, o, t))
      PROVE  ReqType'
  <2> DEFINE task == Task("cascade", None, None, o, t)
  <2>1. task \in Request /\ task.pc \notin QuotedSteps
    BY TaskType, Names
  <2> HIDE DEF task
  <2> QED BY <1>4, <2>1, ServeType DEF task
<1> QED BY <1>1, <1>2, <1>3, <1>4

\* A request at a step that works on a quote has one.
LEMMA QuoteTyped ==
  ASSUME ReqType, NEW s \in Sessions, req[s].pc \in QuotedSteps
  PROVE  req[s].q \in Quotes
  BY DEF ReqType

\* POST /quotes keeps every variable in its domain.
LEMMA OfferingType ==
  ASSUME TypeOK, NEW s \in Sessions, Offering(s)  PROVE TypeOK'
<1> USE DealFlowAssumption, Names DEF TypeOK
<1>1. ASSUME NEW q \in Quotes, QuoteCheck(s, q) PROVE TypeOK'
  BY <1>1, TakeUpType DEF QuoteCheck
<1>2. CASE QuoteInsert(s)
  BY <1>2, GotoType, FinishType, QuoteTyped DEF QuoteInsert, At
<1>3. CASE QuoteMark(s)
  BY <1>3, FinishType DEF QuoteMark
<1> QED BY <1>1, <1>2, <1>3 DEF Offering

\* So do closeDealForQuote and its rollback ...
LEMMA AcceptingType ==
  ASSUME TypeOK, NEW s \in Sessions, Accepting(s)  PROVE TypeOK'
<1> USE DealFlowAssumption, Names DEF TypeOK
<1>1. ASSUME NEW q \in Quotes, AcceptCheck(s, q) PROVE TypeOK'
  BY <1>1, TakeUpType DEF AcceptCheck
<1>2. CASE CloseForDeal(s)
  BY <1>2, GotoType, FinishType, QuoteTyped DEF CloseForDeal, At
<1>3. CASE AcceptQuote(s)
  BY <1>3, GotoType, FinishType, QuoteTyped DEF AcceptQuote, At
<1>4. CASE Rollback(s)
  BY <1>4, FinishType DEF Rollback, GiveBack
<1>5. CASE UnacceptQuote(s)
  BY <1>5, GotoType, FinishType, QuoteTyped DEF UnacceptQuote, At
<1>6. CASE UncloseRfq(s)
  BY <1>6, FinishType DEF UncloseRfq, GiveBack
<1>7. CASE RaiseInvoice(s)
  BY <1>7, GotoType, QuoteTyped DEF RaiseInvoice, At
<1>8. CASE SellListing(s)
  <2>1. req[s].q \in Quotes
    BY <1>8, QuoteTyped DEF SellListing, At
  <2>2. ReqType'
    BY <1>8, <2>1, TakeUpType, FinishType DEF SellListing
  <2> QED BY <1>8, <2>2 DEF SellListing
<1>9. CASE CreateDeal(s)
  <2>1. req[s].q \in Quotes
    BY <1>9, QuoteTyped DEF CreateDeal, At
  <2>2. ReqType'
    BY <1>9, <2>1, TakeUpType, GotoType, FinishType DEF CreateDeal
  <2> QED BY <1>9, <2>1, <2>2 DEF CreateDeal
<1> QED BY <1>1, <1>2, <1>3, <1>4, <1>5, <1>6, <1>7, <1>8, <1>9 DEF Accepting

\* ... the decline loops, the closes and the listing sweep ...
LEMMA CascadingType ==
  ASSUME TypeOK, NEW s \in Sessions, Cascading(s)  PROVE TypeOK'
<1> USE DealFlowAssumption, Names DEF TypeOK
<1>0. req[s] \in Request
  BY DEF ReqType
<1>1. ASSUME NEW r \in Rfqs, CloseRfq(s, r) PROVE TypeOK'
  BY <1>1, TakeUpType DEF CloseRfq
<1>2. ASSUME NEW r \in Rfqs, DeclineAll(s, r) PROVE TypeOK'
  <2>1. SentOn(r) \in SUBSET Quotes
    BY DEF SentOn
  <2> QED BY <1>2, <2>1, TakeUpType DEF DeclineAll
<1>3. ASSUME NEW l \in Listings, EndListing(s, l) PROVE TypeOK'
  BY <1>3, TakeUpType DEF EndListing
<1>4. CASE SweepListing(s)
  <2>1. PICK dead \in SUBSET Rfqs :
               /\ rfq' = [r \in Rfqs |-> IF r \in dead THEN "closed" ELSE rfq[r]]
               /\ Serve(s, Task("cascade", None, None, dead, {}))
    BY <1>4 DEF SweepListing
  <2> QED BY <1>4, <2>1, TakeUpType DEF SweepListing
<1>5. CASE ListSent(s)
  <2>1. PICK r \in req[s].orphans :
               Serve(s, [req[s] EXCEPT !.orphans = @ \ {r},
                                       !.todo = SentOn(r) \ {req[s].q}])
    BY <1>5 DEF ListSent
  <2> DEFINE task == [req[s] EXCEPT !.orphans = @ \ {r},
                                    !.todo = SentOn(r) \ {req[s].q}]
  <2>2. task \in Request /\ task.pc = req[s].pc /\ task.q = req[s].q
    BY <1>0 DEF Request, SentOn
  <2>3. task.pc \in QuotedSteps => task.q \in Quotes
    BY <2>2 DEF ReqType
  <2> HIDE DEF task
  <2>4. ReqType'
    BY <2>1, <2>2, <2>3, ServeType DEF task
  <2> QED BY <1>5, <2>4 DEF ListSent
<1>6. CASE DeclineNext(s)
  <2>1. PICK q \in req[s].todo :
               /\ quote' = IF quote[q] = "sent" THEN [quote EXCEPT ![q] = "declined"] ELSE quote
               /\ Serve(s, [req[s] EXCEPT !.todo = @ \ {q}])
    BY <1>6 DEF DeclineNext
  <2> DEFINE task == [req[s] EXCEPT !.todo = @ \ {q}]
  <2>2. task \in Request /\ task.pc = req[s].pc /\ task.q = req[s].q
    BY <1>0 DEF Request
  <2>3. task.pc \in QuotedSteps => task.q \in Quotes
    BY <2>2 DEF ReqType
  <2> HIDE DEF task
  <2>4. ReqType'
    BY <2>1, <2>2, <2>3, ServeType DEF task
  <2> QED BY <1>6, <2>1, <2>4 DEF DeclineNext
<1>7. CASE CascadeDone(s)
  BY <1>7, GotoType, FinishType, QuoteTyped DEF CascadeDone, At
<1> QED BY <1>1, <1>2, <1>3, <1>4, <1>5, <1>6, <1>7 DEF Cascading

\* ... and the admin's revert of a deal.
LEMMA RevertingType ==
  ASSUME TypeOK, NEW s \in Sessions, Reverting(s)  PROVE TypeOK'
<1> USE DealFlowAssumption, Names DEF TypeOK
<1>1. ASSUME NEW q \in Quotes, RevertDeal(s, q) PROVE TypeOK'
  BY <1>1, TakeUpType DEF RevertDeal
<1>2. CASE RestoreCheck(s)
  BY <1>2, GotoType, FinishType, QuoteTyped DEF RestoreCheck, At
<1>3. CASE Reactivate(s)
  BY <1>3, FinishType DEF Reactivate
<1> QED BY <1>1, <1>2, <1>3 DEF Reverting

\* The actions of no session: the clock, the sweep, the one-statement requests.
LEMMA RowType ==
  ASSUME TypeOK, UNCHANGED req,
         \/ \E r \in Rfqs : SpamRfq(r) \/ Reopen(r) \/ Lapse(r) \/ ExtendRfq(r)
         \/ \E q \in Quotes : \/ DeclineQuote(q) \/ WithdrawQuote(q)
                              \/ PayDeal(q) \/ VoidDeal(q)
         \/ \E l \in Listings : PauseListing(l)
         \/ ExpireRfqs
  PROVE  TypeOK'
<1> USE DealFlowAssumption, Names DEF TypeOK
<1>0. ReqType'
  BY DEF ReqType
<1>1. ASSUME NEW r \in Rfqs, SpamRfq(r) \/ Reopen(r) \/ Lapse(r) \/ ExtendRfq(r)
      PROVE TypeOK'
  BY <1>0, <1>1 DEF SpamRfq, Reopen, Lapse, ExtendRfq
<1>2. ASSUME NEW q \in Quotes,
             DeclineQuote(q) \/ WithdrawQuote(q) \/ PayDeal(q) \/ VoidDeal(q)
      PROVE TypeOK'
  BY <1>0, <1>2 DEF DeclineQuote, WithdrawQuote, LeaveSent, PayDeal, VoidDeal
<1>3. ASSUME NEW l \in Listings, PauseListing(l) PROVE TypeOK'
  BY <1>0, <1>3 DEF PauseListing
<1>4. CASE ExpireRfqs
  BY <1>0, <1>4 DEF ExpireRfqs
<1> QED BY <1>1, <1>2, <1>3, <1>4

\* DealFlow's variables keep to their domains whatever the requests, the clock
\* and the worker do, and a request never loses the quote it works on.
THEOREM TypeCorrect == Spec => []TypeOK
<1>1. Init => TypeOK
  BY Names, TaskType DEF Init, TypeOK, ReqType
<1>2. TypeOK /\ [Next]_vars => TypeOK'
  <2> SUFFICES ASSUME TypeOK, [Next]_vars PROVE TypeOK'
    OBVIOUS
  <2>1. ASSUME NEW s \in Sessions, Abort(s) PROVE TypeOK'
    BY <2>1, FinishType DEF Abort, TypeOK
  <2>2. ASSUME NEW s \in Sessions,
               Offering(s) \/ Accepting(s) \/ Cascading(s) \/ Reverting(s) \/ Abort(s)
        PROVE TypeOK'
    BY <2>1, <2>2, OfferingType, AcceptingType, CascadingType, RevertingType
  <2>3. CASE UNCHANGED vars
    BY <2>3 DEF vars, TypeOK, ReqType
  <2>4. ASSUME \/ \E r \in Rfqs : SpamRfq(r) \/ Reopen(r) \/ Lapse(r) \/ ExtendRfq(r)
               \/ \E q \in Quotes : \/ DeclineQuote(q) \/ WithdrawQuote(q)
                                    \/ PayDeal(q) \/ VoidDeal(q)
               \/ \E l \in Listings : PauseListing(l)
               \/ ExpireRfqs
        PROVE TypeOK'
    <3>1. UNCHANGED req
      BY <2>4 DEF SpamRfq, Reopen, Lapse, ExtendRfq, DeclineQuote, WithdrawQuote,
                  LeaveSent, PayDeal, VoidDeal, PauseListing, ExpireRfqs
    <3> QED BY <2>4, <3>1, RowType
  <2> QED BY <2>2, <2>3, <2>4 DEF Next
<1> QED BY <1>1, <1>2, PTL DEF Spec

-----------------------------------------------------------------------------
(* Arbitration.                                                            *)

\* What the invariant says of requests other than the six steps that close an
\* RFQ, accept or give back a quote, or record a deal: nobody takes hold of an
\* RFQ, no closed RFQ comes back unless renewed, accepted quotes and deals stay.
Quiet ==
    /\ \A t \in Sessions, r \in Rfqs : Holds(t, r)' =>
         Holds(t, r) /\ req'[t].pc = req[t].pc /\ req'[t].q = req[t].q
    /\ \A r \in Rfqs \ renewed' : rfq[r] = "closed" => rfq'[r] = "closed"
    /\ \A q \in Quotes : quote'[q] = "accepted" <=> quote[q] = "accepted"
    /\ \A q \in Quotes : Dealt(q)' <=> Dealt(q)
    /\ renewed \subseteq renewed'

\* A quiet step keeps the arbitration invariant.
LEMMA QuietKeeps ==
  ASSUME Arbitration, TypeOK', Quiet  PROVE Arbitration'
<1> USE DealFlowAssumption DEF Arbitration, Quiet
<1>1. SingleWinner'
  BY DEF SingleWinner
<1>2. SealedIsClosed'
  BY DEF SealedIsClosed
<1>3. DealHasAcceptedQuote'
  BY DEF DealHasAcceptedQuote
<1>4. ExclusiveHold'
  <2> SUFFICES ASSUME NEW s \in Sessions, NEW r \in Rfqs, r \notin renewed', Holds(s, r)'
               PROVE  /\ rfq'[r] = "closed"
                      /\ \A t \in Sessions : Holds(t, r)' => t = s
                      /\ req'[s].pc = "deal" => quote'[req'[s].q] = "accepted"
                      /\ \A q \in Quotes : RfqOf[q] = r =>
                           /\ ~ Dealt(q)'
                           /\ quote'[q] = "accepted" =>
                                req'[s].pc \in {"deal", "unaccept"} /\ req'[s].q = q
    BY DEF ExclusiveHold
  <2>1. Holds(s, r) /\ r \in Rfqs \ renewed
    OBVIOUS
  <2>2. req[s].pc = "deal" => req[s].q \in Quotes
    BY Names DEF TypeOK, ReqType
  <2> QED BY <2>1, <2>2 DEF ExclusiveHold
<1> QED BY <1>1, <1>2, <1>3, <1>4

\* Nobody takes hold of an RFQ, and who holds one stays where it is.
HoldsAsBefore ==
    \A t \in Sessions, r \in Rfqs : Holds(t, r)' =>
      Holds(t, r) /\ req'[t].pc = req[t].pc /\ req'[t].q = req[t].q

\* A session that moves on to a step outside HoldSteps takes hold of no RFQ.
LEMMA ServeLetsGo ==
  ASSUME ReqType, NEW s \in Sessions, NEW task, Serve(s, task),
         task.pc \notin HoldSteps
  PROVE  HoldsAsBefore
  BY DEF Serve, ReqType, HoldsAsBefore, Holds

\* A request that ends holds nothing.
LEMMA FinishLetsGo ==
  ASSUME ReqType, NEW s \in Sessions, Finish(s)  PROVE HoldsAsBefore
<1>1. Idle.pc \notin HoldSteps
  BY TaskType DEF HoldSteps
<1> QED BY <1>1, ServeLetsGo DEF Finish

\* A request that moves on to a step outside HoldSteps holds nothing.
LEMMA GotoLetsGo ==
  ASSUME ReqType, NEW s \in Sessions, NEW p, p \notin HoldSteps, Goto(s, p)
  PROVE  HoldsAsBefore
<1> DEFINE task == [req[s] EXCEPT !.pc = p]
<1>1. req[s] \in Request
  BY DEF ReqType
<1>2. task.pc = p
  BY <1>1 DEF Request
<1>3. Serve(s, task)
  BY DEF Goto
<1> HIDE DEF task
<1> QED BY <1>2, <1>3, ServeLetsGo

\* Every task a handler takes up starts outside HoldSteps.
LEMMA TakeUpLetsGo ==
  ASSUME ReqType, NEW s \in Sessions, NEW p, p \notin HoldSteps,
         NEW q, NEW l, NEW o, NEW t, Serve(s, Task(p, q, l, o, t))
  PROVE  HoldsAsBefore
<1>1. Task(p, q, l, o, t).pc = p
  BY DEF Task
<1> QED BY <1>1, ServeLetsGo

\* Offering a quote is quiet: it writes sent and quoted only.
LEMMA OfferingQuiet ==
  ASSUME Arbitration, NEW s \in Sessions, Offering(s)  PROVE Quiet
<1>0. TypeOK /\ ReqType
  BY DEF Arbitration, TypeOK
<1> USE <1>0, DealFlowAssumption
<1>1. ASSUME NEW q \in Quotes, QuoteCheck(s, q) PROVE Quiet
  <2>1. HoldsAsBefore
    BY <1>1, TakeUpLetsGo DEF QuoteCheck, HoldSteps
  <2> QED BY <1>1, <2>1 DEF QuoteCheck, Quiet, HoldsAsBefore, Dealt
<1>2. CASE QuoteInsert(s)
  <2>1. HoldsAsBefore
    BY <1>2, GotoLetsGo, FinishLetsGo DEF QuoteInsert, HoldSteps
  <2> QED BY <1>2, <2>1 DEF QuoteInsert, Quiet, HoldsAsBefore, Dealt, TypeOK
<1>3. CASE QuoteMark(s)
  <2>1. HoldsAsBefore
    BY <1>3, FinishLetsGo DEF QuoteMark
  <2> QED BY <1>3, <2>1 DEF QuoteMark, Quiet, HoldsAsBefore, Dealt, TypeOK, Live
<1> QED BY <1>1, <1>2, <1>3 DEF Offering

\* The decline loops and the closes and sweeps before them are quiet: an
\* accepted quote is not sent, and a live RFQ is not closed.
LEMMA CascadingQuiet ==
  ASSUME Arbitration, NEW s \in Sessions, Cascading(s)  PROVE Quiet
<1>0. TypeOK /\ ReqType
  BY DEF Arbitration, TypeOK
<1> USE <1>0, DealFlowAssumption
<1>1. ASSUME NEW r \in Rfqs, CloseRfq(s, r) PROVE Quiet
  <2>1. HoldsAsBefore
    BY <1>1, TakeUpLetsGo DEF CloseRfq, HoldSteps
  <2> QED BY <1>1, <2>1 DEF CloseRfq, Quiet, HoldsAsBefore, Dealt, TypeOK
<1>2. ASSUME NEW r \in Rfqs, DeclineAll(s, r) PROVE Quiet
  <2>1. HoldsAsBefore
    BY <1>2, TakeUpLetsGo DEF DeclineAll, HoldSteps
  <2> QED BY <1>2, <2>1 DEF DeclineAll, Quiet, HoldsAsBefore, Dealt
<1>3. ASSUME NEW l \in Listings, EndListing(s, l) PROVE Quiet
  <2>1. HoldsAsBefore
    BY <1>3, TakeUpLetsGo DEF EndListing, HoldSteps
  <2> QED BY <1>3, <2>1 DEF EndListing, Quiet, HoldsAsBefore, Dealt
<1>4. CASE SweepListing(s)
  <2>1. HoldsAsBefore
    BY <1>4, TakeUpLetsGo DEF SweepListing, HoldSteps
  <2> QED BY <1>4, <2>1 DEF SweepListing, Quiet, HoldsAsBefore, Dealt, TypeOK
<1>5. CASE ListSent(s)
  <2>1. PICK r \in req[s].orphans :
               Serve(s, [req[s] EXCEPT !.orphans = @ \ {r},
                                       !.todo = SentOn(r) \ {req[s].q}])
    BY <1>5 DEF ListSent
  <2> DEFINE task == [req[s] EXCEPT !.orphans = @ \ {r},
                                    !.todo = SentOn(r) \ {req[s].q}]
  <2>2. task.pc = req[s].pc
    BY DEF ReqType, Request
  <2> HIDE DEF task
  <2>3. HoldsAsBefore
    BY <1>5, <2>1, <2>2, ServeLetsGo DEF ListSent, CascadeSteps, HoldSteps, task
  <2> QED BY <1>5, <2>3 DEF ListSent, Quiet, HoldsAsBefore, Dealt
<1>6. CASE DeclineNext(s)
  <2>1. PICK q \in req[s].todo :
               /\ quote' = IF quote[q] = "sent" THEN [quote EXCEPT ![q] = "declined"] ELSE quote
               /\ Serve(s, [req[s] EXCEPT !.todo = @ \ {q}])
    BY <1>6 DEF DeclineNext
  <2> DEFINE task == [req[s] EXCEPT !.todo = @ \ {q}]
  <2>2. task.pc = req[s].pc
    BY DEF ReqType, Request
  <2> HIDE DEF task
  <2>3. HoldsAsBefore
    BY <1>6, <2>1, <2>2, ServeLetsGo DEF DeclineNext, CascadeSteps, HoldSteps, task
  <2> QED BY <1>6, <2>1, <2>3 DEF DeclineNext, Quiet, HoldsAsBefore, Dealt, TypeOK
<1>7. CASE CascadeDone(s)
  <2>1. HoldsAsBefore
    BY <1>7, GotoLetsGo, FinishLetsGo DEF CascadeDone, HoldSteps
  <2> QED BY <1>7, <2>1 DEF CascadeDone, Quiet, HoldsAsBefore, Dealt
<1> QED BY <1>1, <1>2, <1>3, <1>4, <1>5, <1>6, <1>7 DEF Cascading

\* A revert is quiet: it works on a deal that exists.
LEMMA RevertingQuiet ==
  ASSUME Arbitration, NEW s \in Sessions, Reverting(s)  PROVE Quiet
<1>0. TypeOK /\ ReqType
  BY DEF Arbitration, TypeOK
<1> USE <1>0, DealFlowAssumption
<1>1. ASSUME NEW q \in Quotes, RevertDeal(s, q) PROVE Quiet
  <2>1. HoldsAsBefore
    BY <1>1, TakeUpLetsGo DEF RevertDeal, HoldSteps
  <2> QED BY <1>1, <2>1 DEF RevertDeal, Quiet, HoldsAsBefore, Dealt, TypeOK
<1>2. CASE RestoreCheck(s)
  <2>1. HoldsAsBefore
    BY <1>2, GotoLetsGo, FinishLetsGo DEF RestoreCheck, HoldSteps
  <2> QED BY <1>2, <2>1 DEF RestoreCheck, Quiet, HoldsAsBefore, Dealt
<1>3. CASE Reactivate(s)
  <2>1. HoldsAsBefore
    BY <1>3, FinishLetsGo DEF Reactivate
  <2> QED BY <1>3, <2>1 DEF Reactivate, Quiet, HoldsAsBefore, Dealt
<1> QED BY <1>1, <1>2, <1>3 DEF Reverting

\* The steps of an accept before it closes the RFQ and after the deal exists.
LEMMA AcceptingQuiet ==
  ASSUME Arbitration, NEW s \in Sessions,
         \/ \E q \in Quotes : AcceptCheck(s, q)
         \/ RaiseInvoice(s) \/ SellListing(s) \/ Abort(s)
  PROVE  Quiet
<1>0. TypeOK /\ ReqType
  BY DEF Arbitration, TypeOK
<1> USE <1>0, DealFlowAssumption
<1>1. ASSUME NEW q \in Quotes, AcceptCheck(s, q) PROVE Quiet
  <2>1. HoldsAsBefore
    BY <1>1, TakeUpLetsGo DEF AcceptCheck, HoldSteps
  <2> QED BY <1>1, <2>1 DEF AcceptCheck, Quiet, HoldsAsBefore, Dealt
<1>2. CASE RaiseInvoice(s)
  <2>1. HoldsAsBefore
    BY <1>2, GotoLetsGo DEF RaiseInvoice, HoldSteps
  <2>2. req[s].q \in Quotes
    BY <1>2, QuoteTyped, Names DEF RaiseInvoice, At
  <2> QED BY <1>2, <2>1, <2>2 DEF RaiseInvoice, Quiet, HoldsAsBefore, Dealt, TypeOK
<1>3. CASE SellListing(s)
  <2>1. HoldsAsBefore
    BY <1>3, TakeUpLetsGo, FinishLetsGo DEF SellListing, HoldSteps
  <2> QED BY <1>3, <2>1 DEF SellListing, Quiet, HoldsAsBefore, Dealt
<1>4. CASE Abort(s)
  <2>1. HoldsAsBefore
    BY <1>4, FinishLetsGo DEF Abort
  <2> QED BY <1>4, <2>1 DEF Abort, Quiet, HoldsAsBefore, Dealt
<1> QED BY <1>1, <1>2, <1>3, <1>4

\* The clock, the sweep and the requests of one statement: a sent quote dies, a
\* live RFQ leaves the market, a closed one returns only by being renewed, a
\* deal moves between its invoice states.
LEMMA RowQuiet ==
  ASSUME Arbitration, UNCHANGED req,
         \/ \E r \in Rfqs : SpamRfq(r) \/ Reopen(r) \/ Lapse(r) \/ ExtendRfq(r)
         \/ \E q \in Quotes : \/ DeclineQuote(q) \/ WithdrawQuote(q)
                              \/ PayDeal(q) \/ VoidDeal(q)
         \/ \E l \in Listings : PauseListing(l)
         \/ ExpireRfqs
  PROVE  Quiet
<1>0. TypeOK
  BY DEF Arbitration
<1>h. HoldsAsBefore
  BY DEF HoldsAsBefore, Holds
<1> USE <1>0, <1>h DEF Quiet, HoldsAsBefore, Dealt, TypeOK
<1>1. ASSUME NEW r \in Rfqs, SpamRfq(r) \/ Reopen(r) \/ Lapse(r) \/ ExtendRfq(r)
      PROVE Quiet
  BY <1>1 DEF SpamRfq, Reopen, Lapse, ExtendRfq, Live
<1>2. ASSUME NEW q \in Quotes,
             DeclineQuote(q) \/ WithdrawQuote(q) \/ PayDeal(q) \/ VoidDeal(q)
      PROVE Quiet
  BY <1>2 DEF DeclineQuote, WithdrawQuote, LeaveSent, PayDeal, VoidDeal
<1>3. ASSUME NEW l \in Listings, PauseListing(l) PROVE Quiet
  BY <1>3 DEF PauseListing
<1>4. CASE ExpireRfqs
  BY <1>4 DEF ExpireRfqs
<1> QED BY <1>1, <1>2, <1>3, <1>4

\* What Goto and Finish do to the requests.
LEMMA GotoMoves ==
  ASSUME ReqType, NEW s \in Sessions, NEW p, Goto(s, p)
  PROVE  /\ req'[s].pc = p /\ req'[s].q = req[s].q
         /\ \A t \in Sessions \ {s} : req'[t] = req[t]
<1>1. req[s] \in Request
  BY DEF ReqType
<1> QED BY <1>1 DEF Goto, Serve, ReqType, Request

\* A session that moves on outside HoldSteps holds nothing, the others what they
\* held.
LEMMA LetGo ==
  ASSUME ReqType, NEW s \in Sessions, NEW task, Serve(s, task), task.pc \notin HoldSteps
  PROVE  \A t \in Sessions, r \in Rfqs : Holds(t, r)' =>
            t # s /\ Holds(t, r) /\ req'[t] = req[t]
  BY DEF Serve, ReqType, Holds

\* Taking hold: a live RFQ has no holder, no accepted quote and no deal, so its
\* closing makes the session its only holder.
LEMMA CloseForDealKeeps ==
  ASSUME Arbitration, TypeOK', NEW s \in Sessions, CloseForDeal(s)
  PROVE  Arbitration'
<1>0. TypeOK /\ ReqType /\ req[s].q \in Quotes
  BY QuoteTyped, Names DEF Arbitration, TypeOK, CloseForDeal, At
<1> USE <1>0, DealFlowAssumption DEF Arbitration
<1> DEFINE c == RfqOf[req[s].q]
<1>1. CASE rfq[c] \notin Live
  <2>1. HoldsAsBefore
    BY <1>1, FinishLetsGo DEF CloseForDeal
  <2>2. Quiet
    BY <1>1, <2>1 DEF CloseForDeal, Quiet, HoldsAsBefore, Dealt
  <2> QED BY <2>2, QuietKeeps
<1>2. CASE rfq[c] \in Live
  <2>0. c \in Rfqs /\ rfq[c] # "closed"
    BY <1>2 DEF Live
  <2>1. /\ rfq' = [rfq EXCEPT ![c] = "closed"]
        /\ Goto(s, "accept")
        /\ UNCHANGED <<quote, invoice, renewed>>
    BY <1>2 DEF CloseForDeal
  <2>2. /\ req'[s].pc = "accept" /\ req'[s].q = req[s].q
        /\ \A t \in Sessions \ {s} : req'[t] = req[t]
    BY <2>1, GotoMoves
  <2>3. c \notin renewed =>
          /\ \A t \in Sessions : ~ Holds(t, c)
          /\ \A q \in Quotes : RfqOf[q] = c => ~ Dealt(q) /\ quote[q] # "accepted"
    BY <2>0 DEF ExclusiveHold, SealedIsClosed
  <2>4. SingleWinner' /\ DealHasAcceptedQuote'
    BY <2>1 DEF SingleWinner, DealHasAcceptedQuote, Dealt
  <2>5. SealedIsClosed'
    BY <2>1 DEF SealedIsClosed, Dealt, TypeOK
  <2>6. ExclusiveHold'
    <3>1. ASSUME NEW t \in Sessions, NEW r \in Rfqs \ renewed, Holds(t, r)', r # c
          PROVE  t # s /\ Holds(t, r) /\ req'[t] = req[t]
      BY <2>2, <3>1 DEF Holds
    <3>2. ASSUME NEW t \in Sessions, c \notin renewed, Holds(t, c)'
          PROVE  t = s
      BY <2>2, <2>3, <3>2 DEF Holds
    <3>3. \A r \in Rfqs : r # c => rfq'[r] = rfq[r]
      BY <2>1 DEF TypeOK
    <3>4. rfq'[c] = "closed"
      BY <2>0, <2>1 DEF TypeOK
    <3> QED BY <2>1, <2>2, <2>3, <3>1, <3>2, <3>3, <3>4 DEF ExclusiveHold, Dealt
  <2> QED BY <2>4, <2>5, <2>6
<1> QED BY <1>1, <1>2

\* The holder accepts its quote, the only one accepted, or turns to rolling back.
LEMMA AcceptQuoteKeeps ==
  ASSUME Arbitration, TypeOK', NEW s \in Sessions, AcceptQuote(s)
  PROVE  Arbitration'
<1>0. TypeOK /\ ReqType /\ req[s].q \in Quotes /\ req[s].pc = "accept"
  BY QuoteTyped, Names DEF Arbitration, TypeOK, AcceptQuote, At
<1> USE <1>0, DealFlowAssumption DEF Arbitration
<1> DEFINE h == req[s].q
           c == RfqOf[h]
<1>1. Holds(s, c) /\ c \in Rfqs
  BY DEF Holds, HoldSteps
<1>2. c \notin renewed =>
        /\ rfq[c] = "closed"
        /\ \A t \in Sessions : Holds(t, c) => t = s
        /\ \A q \in Quotes : RfqOf[q] = c => ~ Dealt(q) /\ quote[q] # "accepted"
  BY <1>1 DEF ExclusiveHold
<1>3. PICK p \in {"deal", "rollback"} :
        /\ Goto(s, p)
        /\ p = "deal" => quote' = [quote EXCEPT ![h] = "accepted"]
        /\ p = "rollback" => quote' = quote
        /\ UNCHANGED <<rfq, invoice, renewed>>
  BY DEF AcceptQuote
<1>4. /\ req'[s].pc = p /\ req'[s].q = h
      /\ \A t \in Sessions \ {s} : req'[t] = req[t]
  BY <1>3, GotoMoves
<1>5. /\ \A q \in Quotes \ {h} : quote'[q] = quote[q]
      /\ quote'[h] = "accepted" => p = "deal" \/ quote[h] = "accepted"
      /\ p = "deal" => quote'[h] = "accepted"
      /\ quote[h] = "accepted" => quote'[h] = "accepted"
  BY <1>3 DEF TypeOK
<1>6. SingleWinner'
  BY <1>3 DEF SingleWinner, Dealt
<1>7. SealedIsClosed'
  BY <1>2, <1>3, <1>5 DEF SealedIsClosed, Dealt
<1>8. DealHasAcceptedQuote'
  BY <1>3, <1>5 DEF DealHasAcceptedQuote, Dealt
<1>9. ExclusiveHold'
  <2>1. ASSUME NEW t \in Sessions, NEW r \in Rfqs, Holds(t, r)'
        PROVE  Holds(t, r) /\ (t # s => req'[t] = req[t])
    BY <1>4, <2>1 DEF Holds, HoldSteps
  <2>2. \A r \in Rfqs : Holds(s, r)' => r = c
    BY <1>4 DEF Holds
  <2>3. \A t \in Sessions \ {s}, r \in Rfqs \ renewed :
           Holds(t, r)' => r # c /\ req[t].pc \in HoldSteps
    BY <1>2, <2>1 DEF Holds
  <2>4. \A t \in Sessions : req[t].pc = "deal" => req[t].q \in Quotes
    BY Names DEF ReqType
  <2>5. \A t \in Sessions, r \in Rfqs : Holds(t, r) => RfqOf[req[t].q] = r
    BY DEF Holds
  <2> QED BY <1>2, <1>3, <1>4, <1>5, <2>1, <2>2, <2>3, <2>4, <2>5 DEF ExclusiveHold, Dealt
<1> QED BY <1>6, <1>7, <1>8, <1>9

\* Giving the RFQ back: its only holder lets it go, with no accepted quote and
\* no deal on it.
LEMMA GiveBackKeeps ==
  ASSUME Arbitration, TypeOK', NEW s \in Sessions, Rollback(s) \/ UncloseRfq(s)
  PROVE  Arbitration'
<1>0. /\ TypeOK /\ ReqType /\ req[s].q \in Quotes
      /\ req[s].pc \in {"rollback", "unclose"}
  BY QuoteTyped, Names DEF Arbitration, TypeOK, Rollback, UncloseRfq, At
<1> USE <1>0, DealFlowAssumption DEF Arbitration
<1> DEFINE c == RfqOf[req[s].q]
<1>1. Holds(s, c) /\ c \in Rfqs
  BY DEF Holds, HoldSteps
<1>2. c \notin renewed =>
        /\ \A t \in Sessions : Holds(t, c) => t = s
        /\ \A q \in Quotes : RfqOf[q] = c => ~ Dealt(q) /\ quote[q] # "accepted"
  BY <1>1 DEF ExclusiveHold
<1>3. /\ \A r \in Rfqs : r # c => rfq'[r] = rfq[r]
      /\ Finish(s)
      /\ UNCHANGED <<quote, invoice, renewed>>
  BY DEF Rollback, UncloseRfq, GiveBack, TypeOK
<1>4. Idle.pc \notin HoldSteps
  BY TaskType DEF HoldSteps
<1>5. \A t \in Sessions, r \in Rfqs : Holds(t, r)' =>
        t # s /\ Holds(t, r) /\ req'[t] = req[t]
  BY <1>3, <1>4, LetGo DEF Finish
<1>6. SingleWinner' /\ DealHasAcceptedQuote'
  BY <1>3 DEF SingleWinner, DealHasAcceptedQuote, Dealt
<1>7. SealedIsClosed'
  BY <1>2, <1>3 DEF SealedIsClosed, Dealt
<1>8. ExclusiveHold'
  BY <1>2, <1>3, <1>5 DEF ExclusiveHold, Dealt
<1> QED BY <1>6, <1>7, <1>8

\* The rollback of the quote leaves its RFQ without an accepted quote; a quote
\* that is no longer accepted ends the rollback.
LEMMA UnacceptKeeps ==
  ASSUME Arbitration, TypeOK', NEW s \in Sessions, UnacceptQuote(s)
  PROVE  Arbitration'
<1>0. TypeOK /\ ReqType /\ req[s].q \in Quotes /\ req[s].pc = "unaccept"
  BY QuoteTyped, Names DEF Arbitration, TypeOK, UnacceptQuote, At
<1> USE <1>0, DealFlowAssumption DEF Arbitration
<1> DEFINE h == req[s].q
           c == RfqOf[h]
<1>1. CASE quote[h] # "accepted"
  <2>1. HoldsAsBefore
    BY <1>1, FinishLetsGo DEF UnacceptQuote
  <2>2. Quiet
    BY <1>1, <2>1 DEF UnacceptQuote, Quiet, HoldsAsBefore, Dealt
  <2> QED BY <2>2, QuietKeeps
<1>2. CASE quote[h] = "accepted"
  <2>1. Holds(s, c) /\ c \in Rfqs
    BY DEF Holds, HoldSteps
  <2>2. c \notin renewed =>
          /\ rfq[c] = "closed"
          /\ \A t \in Sessions : Holds(t, c) => t = s
          /\ \A q \in Quotes : RfqOf[q] = c =>
               ~ Dealt(q) /\ (quote[q] = "accepted" => q = h)
    BY <2>1 DEF ExclusiveHold
  <2>3. /\ Goto(s, "unclose")
        /\ quote' = [quote EXCEPT ![h] = "sent"]
        /\ UNCHANGED <<rfq, invoice, renewed>>
    BY <1>2 DEF UnacceptQuote
  <2>4. /\ req'[s].pc = "unclose" /\ req'[s].q = h
        /\ \A t \in Sessions \ {s} : req'[t] = req[t]
    BY <2>3, GotoMoves
  <2>5. quote'[h] = "sent" /\ \A q \in Quotes \ {h} : quote'[q] = quote[q]
    BY <2>3 DEF TypeOK
  <2>6. SingleWinner'
    BY <2>3 DEF SingleWinner, Dealt
  <2>7. SealedIsClosed'
    BY <2>3, <2>5 DEF SealedIsClosed, Dealt
  <2>8. DealHasAcceptedQuote'
    BY <2>2, <2>3, <2>5 DEF DealHasAcceptedQuote, Dealt
  <2>9. ExclusiveHold'
    <3>1. ASSUME NEW t \in Sessions, NEW r \in Rfqs, Holds(t, r)'
          PROVE  Holds(t, r) /\ (t # s => req'[t] = req[t])
      BY <2>4, <3>1 DEF Holds, HoldSteps
    <3>2. \A r \in Rfqs : Holds(s, r)' => r = c
      BY <2>4 DEF Holds
    <3>3. \A t \in Sessions \ {s}, r \in Rfqs \ renewed : Holds(t, r)' => r # c
      BY <2>2, <3>1
    <3>4. \A t \in Sessions : req[t].pc = "deal" => req[t].q \in Quotes
      BY Names DEF ReqType
    <3>5. \A t \in Sessions, r \in Rfqs : Holds(t, r) => RfqOf[req[t].q] = r
      BY DEF Holds
    <3> QED BY <2>2, <2>3, <2>4, <2>5, <3>1, <3>2, <3>3, <3>4, <3>5 DEF ExclusiveHold, Dealt
  <2> QED BY <2>6, <2>7, <2>8, <2>9
<1> QED BY <1>1, <1>2

\* The deal is recorded by the only holder of an RFQ without one, on the quote
\* it accepted; a torn insert counts the RFQ as renewed.
LEMMA CreateDealKeeps ==
  ASSUME Arbitration, TypeOK', NEW s \in Sessions, CreateDeal(s)
  PROVE  Arbitration'
<1>0. TypeOK /\ ReqType /\ req[s].q \in Quotes /\ req[s].pc = "deal"
  BY QuoteTyped, Names DEF Arbitration, TypeOK, CreateDeal, At
<1> USE <1>0, DealFlowAssumption DEF Arbitration
<1> DEFINE h == req[s].q
           c == RfqOf[h]
<1>1. Holds(s, c) /\ c \in Rfqs
  BY DEF Holds, HoldSteps
<1>2. c \notin renewed =>
        /\ rfq[c] = "closed"
        /\ quote[h] = "accepted"
        /\ \A t \in Sessions : Holds(t, c) => t = s
        /\ \A q \in Quotes : RfqOf[q] = c =>
             ~ Dealt(q) /\ (quote[q] = "accepted" => q = h)
  BY <1>1 DEF ExclusiveHold
<1>3. UNCHANGED <<rfq, quote>>
  BY DEF CreateDeal
<1>4. CASE Dealt(h)
  <2>1. Finish(s) /\ UNCHANGED <<invoice, renewed>>
    BY <1>4 DEF CreateDeal
  <2>2. HoldsAsBefore
    BY <2>1, FinishLetsGo
  <2>3. Quiet
    BY <1>3, <2>1, <2>2 DEF Quiet, HoldsAsBefore, Dealt
  <2> QED BY <2>3, QuietKeeps
<1>5. ASSUME ~ Dealt(h), invoice' = [invoice EXCEPT ![h] = "pending"],
             Serve(s, Task("siblings", h, None, {c}, {})), UNCHANGED renewed
      PROVE  Arbitration'
  <2>1. \A q \in Quotes : Dealt(q)' <=> Dealt(q) \/ q = h
    BY <1>5 DEF Dealt, TypeOK
  <2>2. Task("siblings", h, None, {c}, {}).pc \notin HoldSteps
    BY DEF Task, HoldSteps
  <2>3. \A t \in Sessions, r \in Rfqs : Holds(t, r)' =>
          t # s /\ Holds(t, r) /\ req'[t] = req[t]
    BY <1>5, <2>2, LetGo
  <2>4. SingleWinner'
    BY <1>2, <1>5, <2>1 DEF SingleWinner
  <2>5. SealedIsClosed'
    BY <1>2, <1>3, <1>5, <2>1 DEF SealedIsClosed
  <2>6. DealHasAcceptedQuote'
    BY <1>2, <1>3, <1>5, <2>1 DEF DealHasAcceptedQuote
  <2>7. ExclusiveHold'
    BY <1>2, <1>3, <1>5, <2>1, <2>3 DEF ExclusiveHold
  <2> QED BY <2>4, <2>5, <2>6, <2>7
<1>6. ASSUME Goto(s, "unaccept"), renewed \subseteq renewed',
             \/ UNCHANGED invoice
             \/ invoice' = [invoice EXCEPT ![h] = "pending"] /\ c \in renewed'
      PROVE  Arbitration'
  <2>1. /\ req'[s].pc = "unaccept" /\ req'[s].q = h
        /\ \A t \in Sessions \ {s} : req'[t] = req[t]
    BY <1>6, GotoMoves
  <2>2. \A q \in Quotes : RfqOf[q] \notin renewed' => (Dealt(q)' <=> Dealt(q))
    BY <1>6 DEF Dealt, TypeOK
  <2>3. SingleWinner'
    BY <1>6, <2>2 DEF SingleWinner
  <2>4. SealedIsClosed'
    BY <1>3, <1>6, <2>2 DEF SealedIsClosed
  <2>5. DealHasAcceptedQuote'
    BY <1>3, <1>6, <2>2 DEF DealHasAcceptedQuote
  <2>6. ExclusiveHold'
    <3>1. ASSUME NEW t \in Sessions, NEW r \in Rfqs, Holds(t, r)'
          PROVE  Holds(t, r) /\ (t # s => req'[t] = req[t])
      BY <2>1, <3>1 DEF Holds, HoldSteps
    <3>2. \A r \in Rfqs : Holds(s, r)' => r = c
      BY <2>1 DEF Holds
    <3> QED BY <1>2, <1>3, <1>6, <2>1, <2>2, <3>1, <3>2 DEF ExclusiveHold
  <2> QED BY <2>3, <2>4, <2>5, <2>6
<1>7. \/ Dealt(h)
      \/ /\ ~ Dealt(h) /\ invoice' = [invoice EXCEPT ![h] = "pending"]
         /\ Serve(s, Task("siblings", h, None, {c}, {})) /\ UNCHANGED renewed
      \/ Goto(s, "unaccept") /\ UNCHANGED <<invoice, renewed>>
      \/ /\ Goto(s, "unaccept") /\ renewed' = renewed \cup {c}
         /\ invoice' = [invoice EXCEPT ![h] = "pending"]
  BY DEF CreateDeal
<1> QED BY <1>4, <1>5, <1>6, <1>7

\* Every step of every request, of the clock and of the worker keeps the
\* invariant.
LEMMA ArbitrationStep ==
  ASSUME Arbitration, TypeOK', [Next]_vars  PROVE Arbitration'
<1>1. ASSUME NEW s \in Sessions, Accepting(s) PROVE Arbitration'
  BY <1>1, AcceptingQuiet, QuietKeeps, CloseForDealKeeps, AcceptQuoteKeeps,
     GiveBackKeeps, CreateDealKeeps, UnacceptKeeps DEF Accepting
<1>2. ASSUME NEW s \in Sessions,
             Offering(s) \/ Cascading(s) \/ Reverting(s) \/ Abort(s)
      PROVE Arbitration'
  BY <1>2, OfferingQuiet, CascadingQuiet, RevertingQuiet, AcceptingQuiet, QuietKeeps
<1>3. ASSUME \/ \E r \in Rfqs : SpamRfq(r) \/ Reopen(r) \/ Lapse(r) \/ ExtendRfq(r)
             \/ \E q \in Quotes : \/ DeclineQuote(q) \/ WithdrawQuote(q)
                                  \/ PayDeal(q) \/ VoidDeal(q)
             \/ \E l \in Listings : PauseListing(l)
             \/ ExpireRfqs
      PROVE Arbitration'
  <2>1. UNCHANGED req
    BY <1>3 DEF SpamRfq, Reopen, Lapse, ExtendRfq, DeclineQuote, WithdrawQuote,
                LeaveSent, PayDeal, VoidDeal, PauseListing, ExpireRfqs
  <2> QED BY <1>3, <2>1, RowQuiet, QuietKeeps
<1>4. CASE UNCHANGED vars
  <2>1. Quiet
    BY <1>4 DEF vars, Quiet, Holds, Dealt
  <2> QED BY <2>1, QuietKeeps
<1> QED BY <1>1, <1>2, <1>3, <1>4 DEF Next

\* The invariant behind the arbitration of deals holds in every reachable state.
THEOREM ArbitrationHolds == Spec => []Arbitration
<1>1. TypeOK /\ Init => Arbitration
  <2> SUFFICES ASSUME TypeOK, Init PROVE Arbitration
    OBVIOUS
  <2>1. \A s \in Sessions, r \in Rfqs : ~ Holds(s, r)
    BY TaskType DEF Init, Holds, HoldSteps
  <2>2. \A q \in Quotes : ~ Dealt(q) /\ quote[q] # "accepted"
    BY DEF Init, Dealt
  <2> QED BY <2>1, <2>2 DEF Arbitration, SingleWinner, SealedIsClosed,
             DealHasAcceptedQuote, ExclusiveHold
<1>2. Arbitration /\ TypeOK' /\ [Next]_vars => Arbitration'
  BY ArbitrationStep
<1> QED BY <1>1, <1>2, TypeCorrect, PTL DEF Spec

\* lib/deal.ts, the single-winner gate: at most one quote of an RFQ becomes a
\* deal, whatever races its accepts, until the buyer reopens the RFQ or a deal
\* insert is torn.
THEOREM OneWinner == Spec => []SingleWinner
<1>1. Arbitration => SingleWinner
  BY DEF Arbitration
<1> QED BY <1>1, ArbitrationHolds, PTL

\* No accepted quote and no deal is seen on an RFQ that still takes accepts, not
\* even while an accept is half done or half undone.
THEOREM SealedStaysClosed == Spec => []SealedIsClosed
<1>1. Arbitration => SealedIsClosed
  BY DEF Arbitration
<1> QED BY <1>1, ArbitrationHolds, PTL

\* A deal stands on an accepted quote.
THEOREM DealsStandOnAccepted == Spec => []DealHasAcceptedQuote
<1>1. Arbitration => DealHasAcceptedQuote
  BY DEF Arbitration
<1> QED BY <1>1, ArbitrationHolds, PTL

\* At most one request holds an RFQ, so a failed accept undoes only its own work.
THEOREM HoldIsExclusive == Spec => []ExclusiveHold
<1>1. Arbitration => ExclusiveHold
  BY DEF Arbitration
<1> QED BY <1>1, ArbitrationHolds, PTL

-----------------------------------------------------------------------------
(* The ledger.                                                             *)

\* No step but the settlement itself writes a paid or void deal (QA-145).
THEOREM Settlement == Spec => SettledIsFinal
<1> DEFINE Final == \A q \in Quotes :
                      invoice[q] \in {"paid", "void"} => invoice'[q] = invoice[q]
<1>1. TypeOK /\ [Next]_vars => Final
  <2> SUFFICES ASSUME TypeOK, [Next]_vars PROVE Final
    OBVIOUS
  <2> USE DEF TypeOK
  <2>1. ASSUME NEW s \in Sessions, CreateDeal(s) \/ RaiseInvoice(s) PROVE Final
    <3>1. req[s].q \in Quotes
      BY <2>1, QuoteTyped, Names DEF CreateDeal, RaiseInvoice, At
    <3> QED BY <2>1, <3>1 DEF CreateDeal, RaiseInvoice, Dealt
  <2>2. ASSUME NEW s \in Sessions, Accepting(s) PROVE Final
    BY <2>1, <2>2 DEF Accepting, AcceptCheck, CloseForDeal, AcceptQuote, Rollback,
                      UnacceptQuote, UncloseRfq, SellListing
  <2>3. ASSUME NEW s \in Sessions, Reverting(s) PROVE Final
    BY <2>3, SMTT(60) DEF Reverting, RevertDeal, RestoreCheck, Reactivate
  <2>4. ASSUME NEW s \in Sessions, Offering(s) \/ Cascading(s) \/ Abort(s) PROVE Final
    BY <2>4 DEF Offering, QuoteCheck, QuoteInsert, QuoteMark, Cascading, CloseRfq,
                DeclineAll, EndListing, SweepListing, ListSent, DeclineNext,
                CascadeDone, Abort
  <2>5. ASSUME NEW q \in Quotes,
               DeclineQuote(q) \/ WithdrawQuote(q) \/ PayDeal(q) \/ VoidDeal(q)
        PROVE Final
    BY <2>5 DEF DeclineQuote, WithdrawQuote, LeaveSent, PayDeal, VoidDeal
  <2>6. ASSUME NEW r \in Rfqs, SpamRfq(r) \/ Reopen(r) \/ Lapse(r) \/ ExtendRfq(r)
        PROVE Final
    BY <2>6 DEF SpamRfq, Reopen, Lapse, ExtendRfq
  <2>7. ASSUME \/ \E l \in Listings : PauseListing(l)
               \/ ExpireRfqs \/ UNCHANGED vars
        PROVE Final
    BY <2>7 DEF PauseListing, ExpireRfqs, vars
  <2> QED BY <2>2, <2>3, <2>4, <2>5, <2>6, <2>7 DEF Next
<1>2. TypeOK /\ [Next]_vars => [Final]_vars
  BY <1>1
<1> QED BY <1>2, TypeCorrect, PTL DEF Spec, SettledIsFinal

-----------------------------------------------------------------------------
(* Refinement of the abstract book.                                        *)

\* A step that leaves deals and renewals alone is no step of the book.
LEMMA BookStutters ==
  ASSUME UNCHANGED <<invoice, renewed>>
  PROVE  UNCHANGED Book!bookVars
  BY DEF Book!bookVars, Dealt

\* A step that moves an existing deal between invoice states neither seals nor
\* renews.
LEMMA LedgerStutters ==
  ASSUME TypeOK, NEW q \in Quotes, invoice[q] # "none", UNCHANGED renewed,
         NEW state, state # "none", invoice' = [invoice EXCEPT ![q] = state]
  PROVE  UNCHANGED Book!bookVars
  BY DEF Book!bookVars, Dealt, TypeOK

\* Recording a deal is a seal of the book (and, torn, a renewal), or a stutter.
LEMMA CreateDealSeals ==
  ASSUME Arbitration, NEW s \in Sessions, CreateDeal(s)
  PROVE  [Book!Next]_(Book!bookVars)
<1>0. TypeOK /\ req[s].q \in Quotes /\ req[s].pc = "deal"
  BY QuoteTyped, Names DEF Arbitration, TypeOK, CreateDeal, At
<1> USE <1>0, DealFlowAssumption
<1> DEFINE h == req[s].q
           c == RfqOf[h]
<1>1. CASE UNCHANGED <<invoice, renewed>>
  BY <1>1, BookStutters
<1>2. ASSUME ~ Dealt(h), invoice' = [invoice EXCEPT ![h] = "pending"],
             renewed' \in {renewed, renewed \cup {c}}
      PROVE  Book!Next
  <2>1. Holds(s, c)
    BY DEF Holds, HoldSteps
  <2>2. c \notin renewed => \A p \in Quotes : RfqOf[p] = c => ~ Dealt(p)
    BY <2>1 DEF Arbitration, ExclusiveHold
  <2>3. {q \in Quotes : Dealt(q)'} = {q \in Quotes : Dealt(q)} \cup {h}
    BY <1>2 DEF Dealt, TypeOK
  <2>4. Book!Seal(h)
    BY <1>2, <2>2, <2>3 DEF Book!Seal
  <2> QED BY <2>4 DEF Book!Next
<1> QED BY <1>1, <1>2 DEF CreateDeal

\* Every step of DealFlow seals one deal, renews one RFQ or leaves the book alone.
LEMMA BookStep ==
  ASSUME Arbitration, [Next]_vars  PROVE [Book!Next]_(Book!bookVars)
<1>0. TypeOK
  BY DEF Arbitration
<1>1. ASSUME NEW s \in Sessions, Accepting(s) PROVE [Book!Next]_(Book!bookVars)
  <2>1. CASE RaiseInvoice(s)
    <3>1. req[s].q \in Quotes
      BY <1>0, <2>1, QuoteTyped, Names DEF RaiseInvoice, At, TypeOK
    <3> QED BY <1>0, <2>1, <3>1, BookStutters, LedgerStutters DEF RaiseInvoice
  <2>2. CASE ~ RaiseInvoice(s) /\ ~ CreateDeal(s)
    BY <1>1, <2>2, BookStutters DEF Accepting, AcceptCheck, CloseForDeal, AcceptQuote,
       Rollback, UnacceptQuote, UncloseRfq, SellListing
  <2> QED BY <2>1, <2>2, CreateDealSeals
<1>2. ASSUME NEW s \in Sessions, Reverting(s) PROVE [Book!Next]_(Book!bookVars)
  <2>1. ASSUME NEW q \in Quotes, RevertDeal(s, q) PROVE UNCHANGED Book!bookVars
    BY <1>0, <2>1, LedgerStutters DEF RevertDeal
  <2> QED BY <1>2, <2>1, BookStutters DEF Reverting, RestoreCheck, Reactivate
<1>3. ASSUME NEW s \in Sessions, Offering(s) \/ Cascading(s) \/ Abort(s)
      PROVE [Book!Next]_(Book!bookVars)
  BY <1>3, BookStutters DEF Offering, QuoteCheck, QuoteInsert, QuoteMark, Cascading,
     CloseRfq, DeclineAll, EndListing, SweepListing, ListSent, DeclineNext,
     CascadeDone, Abort
<1>4. ASSUME NEW q \in Quotes,
             DeclineQuote(q) \/ WithdrawQuote(q) \/ PayDeal(q) \/ VoidDeal(q)
      PROVE [Book!Next]_(Book!bookVars)
  <2>1. CASE PayDeal(q) \/ VoidDeal(q)
    BY <1>0, <2>1, LedgerStutters DEF PayDeal, VoidDeal
  <2> QED BY <1>4, <2>1, BookStutters DEF DeclineQuote, WithdrawQuote, LeaveSent
<1>5. ASSUME NEW r \in Rfqs, SpamRfq(r) \/ Reopen(r) \/ Lapse(r) \/ ExtendRfq(r)
      PROVE [Book!Next]_(Book!bookVars)
  <2>1. CASE Reopen(r)
    <3>1. Book!Renew(r)
      BY <2>1 DEF Reopen, Book!Renew, Dealt
    <3> QED BY <3>1 DEF Book!Next
  <2> QED BY <1>5, <2>1, BookStutters DEF SpamRfq, Lapse, ExtendRfq
<1>6. ASSUME \/ \E l \in Listings : PauseListing(l)
             \/ ExpireRfqs \/ UNCHANGED vars
      PROVE [Book!Next]_(Book!bookVars)
  BY <1>6, BookStutters DEF PauseListing, ExpireRfqs, vars
<1> QED BY <1>1, <1>2, <1>3, <1>4, <1>5, <1>6 DEF Next

\* Deal formation implements the book: each RFQ's deals are sealed one at a time,
\* and a second one only after a reopen or a torn insert.
THEOREM ImplementsBook == Spec => BookSpec
<1>1. Init => Book!Init
  BY DEF Init, Book!Init, Dealt
<1>2. Arbitration /\ [Next]_vars => [Book!Next]_(Book!bookVars)
  BY BookStep
<1> QED BY <1>1, <1>2, ArbitrationHolds, PTL DEF Spec, BookSpec, Book!Spec
=============================================================================
