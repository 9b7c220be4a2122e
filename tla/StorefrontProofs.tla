--------------------------- MODULE StorefrontProofs ---------------------------
(***************************************************************************)
(* What the parts of the web application promise, for any number of rows   *)
(* and requests in flight: the operator's account and listings, the        *)
(* buyer's requests, the paid delivery and signing in.  Each part has its  *)
(* own type theorem and invariants; they share no state, so that each of   *)
(* them carries over to the composition.                                   *)
(***************************************************************************)
EXTENDS MCStorefront, FiniteSetTheorems, TLAPS

-----------------------------------------------------------------------------
(* The operator's account.                                                  *)

LEMMA Blanks == NoProfile \in Profile /\ NoEvent \in Events
BY OperatorAccountAssumption DEF NoProfile, Profile, Plans, NoEvent, Events

\* The rows of an account, and what its requests have read, are well typed.
THEOREM AccountTypeCorrect == AccountSpec => []AccountTypeOK
<1> USE OperatorAccountAssumption, Blanks DEF HookPcs, FormPcs, IdleHook, IdleForm
<1>1. AccountInit => AccountTypeOK
  <2> SUFFICES ASSUME AccountInit PROVE AccountTypeOK
    OBVIOUS
  <2>1. sub \in [status : {"none", "active", "canceled"}, at : 0 .. MaxStamp]
    BY DEF AccountInit
  <2>2. hook \in [Hooks -> [pc : HookPcs, ev : Events]]
    BY DEF AccountInit
  <2>3. form \in [Forms -> [pc : FormPcs, seen : Profile]]
    BY DEF AccountInit
  <2>4. emitted \subseteq Events /\ profile \in Profile
    BY DEF AccountInit
  <2>5. deaths \in 0 .. MaxDeaths
    BY DEF AccountInit
  <2>6. paying \in BOOLEAN /\ raced \in BOOLEAN /\ role \in {"buyer", "operator"}
    BY DEF AccountInit
  <2> QED BY <2>1, <2>2, <2>3, <2>4, <2>5, <2>6 DEF AccountTypeOK
<1>2. ASSUME AccountTypeOK, [AccountNext]_accountVars PROVE AccountTypeOK'
  <2> USE <1>2 DEF AccountTypeOK
  <2>1. ASSUME NEW e \in Events, ProviderEvent(e.kind, e.at) PROVE AccountTypeOK'
    BY <2>1 DEF ProviderEvent, Events
  <2>2. ASSUME NEW e \in Events, NEW h \in Hooks, Receive(h, e) PROVE AccountTypeOK'
    BY <2>2 DEF Receive, Overlap
  <2>3. ASSUME NEW h \in Hooks, Activate(h) \/ Cancel(h) PROVE AccountTypeOK'
    <3>1. hook[h].ev.at \in 0 .. MaxStamp
      BY DEF Events
    <3> QED BY <2>3, <3>1 DEF Activate, Cancel, UpsertSubscription
  <2>4. ASSUME NEW h \in Hooks, RereadSubscription(h) PROVE AccountTypeOK'
    BY <2>4 DEF RereadSubscription
  <2>5. ASSUME NEW h \in Hooks, SetPlan(h) PROVE AccountTypeOK'
    BY <2>5 DEF SetPlan, Profile, Plans
  <2>6. ASSUME NEW h \in Hooks, HookDies(h) PROVE AccountTypeOK'
    BY <2>6 DEF HookDies
  <2>7. ASSUME NEW f \in Forms, ReadProfile(f) PROVE AccountTypeOK'
    BY <2>7 DEF ReadProfile, Overlap
  <2>8. ASSUME NEW f \in Forms, UpsertOperator(f) PROVE AccountTypeOK'
    <3>1. form[f].seen.plan \in Plans /\ form[f].seen.verified \in BOOLEAN
      BY DEF Profile
    <3>2. profile' \in Profile
      BY <2>8, <3>1 DEF UpsertOperator, Profile
    <3>3. form' \in [Forms -> [pc : FormPcs, seen : Profile]]
      BY <2>8 DEF UpsertOperator
    <3> QED BY <2>8, <3>2, <3>3 DEF UpsertOperator
  <2>9. ASSUME NEW f \in Forms, Promote(f) PROVE AccountTypeOK'
    BY <2>9 DEF Promote
  <2>10. ASSUME NEW f \in Forms, SetVerified(f) \/ SetSuspended(f) \/ SetAccepting(f)
         PROVE AccountTypeOK'
    <3>1. profile' \in Profile
      <4>1. \A x : /\ [profile EXCEPT !.verified = ~x] \in Profile
                   /\ [profile EXCEPT !.suspended = ~x] \in Profile
                   /\ x \in BOOLEAN => [profile EXCEPT !.accepting = x] \in Profile
        BY DEF Profile
      <4> QED BY <2>10, <4>1, ZenonT(60) DEF SetVerified, SetSuspended, SetAccepting
    <3>2. form' \in [Forms -> [pc : FormPcs, seen : Profile]]
      BY <2>10 DEF SetVerified, SetSuspended, SetAccepting
    <3> QED BY <2>10, <3>1, <3>2 DEF SetVerified, SetSuspended, SetAccepting
  <2>11. ASSUME NEW f \in Forms, FormDies(f) PROVE AccountTypeOK'
    BY <2>11 DEF FormDies
  <2>12. ASSUME NEW f \in Forms, NEW what \in {"verify", "suspend", "away"},
                ReadToggle(f, what)
         PROVE AccountTypeOK'
    BY <2>12 DEF ReadToggle
  <2>13. CASE UNCHANGED accountVars
    BY <2>13 DEF accountVars
  <2> QED BY <2>1, <2>2, <2>3, <2>4, <2>5, <2>6, <2>7, <2>8, <2>9, <2>10, <2>11, <2>12, <2>13
             DEF AccountNext
<1> QED BY <1>1, <1>2, PTL DEF AccountSpec

\* Whatever order, repetition, overlap and deaths the provider's events meet, the
\* subscription row takes a newer event or stays.
THEOREM SubscriptionsAdvance == AccountSpec => StampsAdvance
<1>1. ASSUME AccountTypeOK, [AccountNext]_accountVars
      PROVE  sub'.at >= sub.at /\ (sub'.at = sub.at => sub' = sub)
  <2>1. sub.at \in Nat
    BY <1>1 DEF AccountTypeOK
  <2>2. ASSUME NEW h \in Hooks, NEW st, UpsertSubscription(h, st)
        PROVE  sub'.at >= sub.at /\ (sub'.at = sub.at => sub' = sub)
    <3>1. hook[h].ev.at \in Nat
      BY <1>1 DEF AccountTypeOK, Events, NoEvent
    <3> QED BY <2>1, <2>2, <3>1 DEF UpsertSubscription
  <2>3. CASE UNCHANGED sub
    BY <2>1, <2>3
  <2>4. (\A h \in Hooks : ~ Activate(h) /\ ~ Cancel(h)) => UNCHANGED sub
    BY <1>1 DEF AccountNext, ProviderEvent, Receive, RereadSubscription, SetPlan, HookDies,
       ReadProfile, UpsertOperator, Promote, SetVerified, SetSuspended, SetAccepting,
       FormDies, ReadToggle, accountVars
  <2> QED BY <2>2, <2>3, <2>4 DEF Activate, Cancel
<1> QED BY <1>1, AccountTypeCorrect, PTL DEF AccountSpec, StampsAdvance

\* Until two writers of the plan overlap or one dies, the one at work holds an event
\* the row has not seen, or a profile whose plan is still the row's.
Applying(h) == hook[h].pc # "idle"
PlanAgrees == profile.plan = "pro" <=> sub.status = "active"
OneWriter ==
    /\ \A h, g \in Hooks : Applying(h) /\ Applying(g) => h = g
    /\ \A f, g \in Forms : form[f].pc = "upsert" /\ form[g].pc = "upsert" => f = g
    /\ \A h \in Hooks, f \in Forms : ~(Applying(h) /\ form[f].pc = "upsert")
EventIsNew ==
    \A h \in Hooks :
      /\ hook[h].pc = "activate" => hook[h].ev.kind = "activated" /\ hook[h].ev.at > sub.at
      /\ hook[h].pc \in {"reread", "cancel"} =>
            hook[h].ev.kind = "canceled" /\ hook[h].ev.at > sub.at
      /\ hook[h].pc = "plan" => (hook[h].ev.kind = "activated" <=> sub.status = "active")
FormIsFresh == \A f \in Forms : form[f].pc = "upsert" => form[f].seen.plan = profile.plan
PlanInv == ~raced => /\ OneWriter /\ EventIsNew /\ FormIsFresh
                     /\ (\A h \in Hooks : ~Applying(h)) => PlanAgrees

LEMMA NoWriters ==
  PlanWriters = {} <=> /\ \A h \in Hooks : ~Applying(h)
                       /\ \A f \in Forms : form[f].pc # "upsert"
BY DEF PlanWriters, Applying

\* Handled one at a time and to the end, the events and the profile form leave the
\* plan agreeing with the subscription, in any order and any number.
THEOREM PlanFollowsSubscription == AccountSpec => []OneAtATimeAgrees
<1>1. AccountInit => PlanInv
  BY DEF AccountInit, PlanInv, OneWriter, EventIsNew, FormIsFresh, PlanAgrees, Applying, IdleHook,
     IdleForm, NoProfile
<1>2. ASSUME AccountTypeOK, PlanInv, [AccountNext]_accountVars PROVE PlanInv'
  <2>1. /\ hook \in [Hooks -> [pc : HookPcs, ev : Events]]
        /\ form \in [Forms -> [pc : FormPcs, seen : Profile]]
        /\ profile \in Profile /\ sub \in [status : {"none", "active", "canceled"}, at : 0 .. MaxStamp]
    BY <1>2 DEF AccountTypeOK
  <2>2. SUFFICES ASSUME ~raced' PROVE PlanInv'
    BY DEF PlanInv
  <2>3. ASSUME ~raced
        PROVE  /\ OneWriter /\ EventIsNew /\ FormIsFresh
               /\ (\A h \in Hooks : ~Applying(h)) => PlanAgrees
    BY <1>2, <2>3 DEF PlanInv
  <2>4. ASSUME NEW e \in Events, NEW h \in Hooks, Receive(h, e) PROVE PlanInv'
    <3>1. ~raced /\ PlanWriters = {}
      BY <2>2, <2>4 DEF Receive, Overlap
    <3>2. /\ UNCHANGED <<profile, sub, form>> /\ e.at > sub.at
          /\ \A g \in Hooks \ {h} : hook'[g] = hook[g]
          /\ hook'[h] = [pc |-> IF e.kind = "activated" THEN "activate" ELSE "reread", ev |-> e]
      BY <2>1, <2>4 DEF Receive
    <3>3. e.kind \in {"activated", "canceled"}
      BY DEF Events
    <3>4. OneWriter' /\ FormIsFresh'
      BY <2>3, <3>1, <3>2, NoWriters DEF OneWriter, FormIsFresh, Applying
    <3>5. EventIsNew'
      BY <2>3, <3>1, <3>2, <3>3, NoWriters DEF EventIsNew, Applying
    <3>6. Applying(h)'
      BY <3>2 DEF Applying
    <3> QED BY <3>4, <3>5, <3>6 DEF PlanInv
  <2>5. ASSUME NEW h \in Hooks, Activate(h) \/ RereadSubscription(h) \/ Cancel(h) PROVE PlanInv'
    <3>1. ~raced /\ Applying(h)
      BY <2>2, <2>5 DEF Activate, RereadSubscription, Cancel, UpsertSubscription, Applying
    <3>2. /\ UNCHANGED <<profile, form>>
          /\ \A g \in Hooks \ {h} : hook'[g] = hook[g]
          /\ hook'[h].ev = hook[h].ev /\ hook'[h].pc \in {"plan", "cancel"}
      BY <2>1, <2>5 DEF Activate, RereadSubscription, Cancel, UpsertSubscription
    <3>3. \A g \in Hooks \ {h} : hook'[g].pc = "idle"
      BY <2>1, <2>3, <3>1, <3>2 DEF OneWriter, Applying
    <3>4. OneWriter' /\ FormIsFresh'
      BY <2>3, <3>1, <3>2, <3>3 DEF OneWriter, FormIsFresh, Applying
    <3>5. EventIsNew'
      <4>1. CASE Activate(h)
        <5>1. hook'[h].pc = "plan" /\ sub'.status = "active" /\ hook[h].ev.kind = "activated"
          BY <2>1, <2>3, <3>1, <4>1 DEF Activate, UpsertSubscription, EventIsNew
        <5> QED BY <3>2, <3>3, <5>1 DEF EventIsNew
      <4>2. CASE Cancel(h)
        <5>1. hook'[h].pc = "plan" /\ sub'.status = "canceled" /\ hook[h].ev.kind = "canceled"
          BY <2>1, <2>3, <3>1, <4>2 DEF Cancel, UpsertSubscription, EventIsNew
        <5> QED BY <3>2, <3>3, <5>1 DEF EventIsNew
      <4>3. CASE RereadSubscription(h)
        <5>1. /\ UNCHANGED sub /\ hook[h].ev.kind = "canceled" /\ hook[h].ev.at > sub.at
              /\ hook'[h].pc = IF sub.status = "none" THEN "plan" ELSE "cancel"
          BY <2>1, <2>3, <3>1, <4>3 DEF RereadSubscription, EventIsNew
        <5> QED BY <3>2, <3>3, <5>1 DEF EventIsNew
      <4> QED BY <2>5, <4>1, <4>2, <4>3
    <3>6. Applying(h)'
      BY <3>2 DEF Applying
    <3> QED BY <3>4, <3>5, <3>6 DEF PlanInv
  <2>6. ASSUME NEW h \in Hooks, SetPlan(h) PROVE PlanInv'
    <3>1. ~raced /\ Applying(h) /\ hook[h].pc = "plan"
      BY <2>2, <2>6 DEF SetPlan, Applying
    <3>2. /\ UNCHANGED <<sub, form>>
          /\ profile'.plan = IF hook[h].ev.kind = "activated" THEN "pro" ELSE "free"
          /\ hook'[h].pc = "idle" /\ \A g \in Hooks \ {h} : hook'[g] = hook[g]
      BY <2>1, <2>6 DEF SetPlan, IdleHook, Profile
    <3>3. \A g \in Hooks : hook'[g].pc = "idle"
      BY <2>1, <2>3, <3>1, <3>2 DEF OneWriter, Applying
    <3>4. PlanAgrees'
      BY <2>3, <3>1, <3>2 DEF EventIsNew, PlanAgrees
    <3>5. \A f \in Forms : form'[f].pc # "upsert"
      BY <2>3, <3>1, <3>2 DEF OneWriter
    <3> QED BY <3>3, <3>4, <3>5 DEF PlanInv, OneWriter, EventIsNew, FormIsFresh, Applying
  <2>7. ASSUME NEW f \in Forms, ReadProfile(f) PROVE PlanInv'
    <3>1. ~raced /\ PlanWriters = {}
      BY <2>2, <2>7 DEF ReadProfile, Overlap
    <3>2. /\ UNCHANGED <<profile, sub, hook>>
          /\ form'[f].pc = "upsert" /\ form'[f].seen = profile
          /\ \A g \in Forms \ {f} : form'[g] = form[g]
      BY <2>1, <2>7 DEF ReadProfile
    <3>3. OneWriter' /\ FormIsFresh'
      BY <2>3, <3>1, <3>2, NoWriters DEF OneWriter, FormIsFresh, Applying
    <3> QED BY <2>3, <3>1, <3>2, <3>3 DEF PlanInv, EventIsNew, PlanAgrees, Applying
  \* A form that writes keeps the plan; the others do not touch it.
  <2>8. ASSUME NEW f \in Forms,
               \/ UpsertOperator(f) \/ Promote(f) \/ SetVerified(f) \/ SetSuspended(f)
               \/ SetAccepting(f) \/ FormDies(f)
               \/ \E what \in {"verify", "suspend", "away"} : ReadToggle(f, what)
        PROVE  PlanInv'
    <3>1. /\ UNCHANGED <<sub, hook, raced>>
          /\ form'[f].pc # "upsert" /\ \A g \in Forms \ {f} : form'[g] = form[g]
      <4>1. CASE \E what \in {"verify", "suspend", "away"} : ReadToggle(f, what)
        BY <2>1, <4>1 DEF ReadToggle
      <4>2. CASE UpsertOperator(f)
        BY <2>1, <4>2 DEF UpsertOperator, IdleForm
      <4>3. CASE Promote(f) \/ SetVerified(f) \/ SetSuspended(f) \/ SetAccepting(f) \/ FormDies(f)
        BY <2>1, <4>3 DEF Promote, SetVerified, SetSuspended, SetAccepting, FormDies, IdleForm
      <4> QED BY <2>8, <4>1, <4>2, <4>3
    <3>2. ~raced
      BY <2>2, <3>1
    <3>3. profile'.plan = profile.plan
      <4>1. CASE UpsertOperator(f)
        BY <2>1, <2>3, <3>2, <4>1 DEF UpsertOperator, FormIsFresh, Profile
      <4>2. CASE ~UpsertOperator(f)
        BY <2>1, <2>8, <4>2
           DEF Promote, SetVerified, SetSuspended, SetAccepting, FormDies, ReadToggle, Profile
      <4> QED BY <4>1, <4>2
    <3>4. OneWriter' /\ FormIsFresh'
      BY <2>3, <3>1, <3>2, <3>3 DEF OneWriter, FormIsFresh, Applying
    <3> QED BY <2>3, <3>1, <3>2, <3>3, <3>4 DEF PlanInv, EventIsNew, PlanAgrees, Applying
  <2>9. ASSUME NEW e \in Events, ProviderEvent(e.kind, e.at) PROVE PlanInv'
    BY <1>2, <2>9 DEF ProviderEvent, PlanInv, OneWriter, EventIsNew, FormIsFresh, PlanAgrees, Applying
  <2>10. ASSUME NEW h \in Hooks, HookDies(h) PROVE PlanInv'
    BY <2>2, <2>10 DEF HookDies
  <2>11. CASE UNCHANGED accountVars
    BY <1>2, <2>11 DEF accountVars, PlanInv, OneWriter, EventIsNew, FormIsFresh, PlanAgrees, Applying
  <2> QED BY <1>2, <2>4, <2>5, <2>6, <2>7, <2>8, <2>9, <2>10, <2>11 DEF AccountNext
<1>3. PlanInv => OneAtATimeAgrees
  BY NoWriters DEF PlanInv, OneAtATimeAgrees, PlanAgrees
<1> QED BY <1>1, <1>2, <1>3, AccountTypeCorrect, PTL DEF AccountSpec

-----------------------------------------------------------------------------
(* The buyer's requests.                                                    *)

Row == [status : RfqStatuses, body : Bodies, date : Dates, key : Fields, gone : BOOLEAN,
        moved : BOOLEAN]
Ask == [pc : AskPcs, on : Rows \cup {NoRow}, fields : Fields, mine : SUBSET (Rows \X RfqStatuses)]

LEMMA IdleIsTyped == AnyFields \in Fields /\ Idle \in Ask
<1>1. AnyFields \in Fields
  BY RfqIntakeAssumption DEF AnyFields, Fields, Dates
<1> QED BY <1>1 DEF Idle, Ask, AskPcs

\* What a request in flight holds is typed, whichever handler wrote it.
LEMMA BeginIsTyped ==
  ASSUME IntakeTypeOK, NEW b \in Buyers, NEW pc \in AskPcs, NEW r \in Rows \cup {NoRow},
         NEW f \in Fields, Begin(b, pc, r, f)
  PROVE  ask' \in [Buyers -> Ask]
<1>1. [Idle EXCEPT !.pc = pc, !.on = r, !.fields = f] \in Ask
  BY IdleIsTyped DEF Ask
<1> QED BY <1>1 DEF Begin, IntakeTypeOK, Ask

LEMMA AskDoneIsTyped ==
  ASSUME IntakeTypeOK, NEW b \in Buyers, AskDone(b)
  PROVE  ask' \in [Buyers -> Ask]
BY IdleIsTyped DEF AskDone, IntakeTypeOK, Ask

\* The rows of the buyer, and what the requests in flight hold, are well typed.
THEOREM IntakeTypeCorrect == IntakeSpec => []IntakeTypeOK
<1>1. IntakeInit => IntakeTypeOK
  <2> SUFFICES ASSUME IntakeInit PROVE IntakeTypeOK
    OBVIOUS
  <2>1. rfq \in [Rows -> Row]
    BY RfqIntakeAssumption, IdleIsTyped DEF IntakeInit, Row, RfqStatuses, Dates
  <2>2. ask \in [Buyers -> Ask]
    BY IdleIsTyped DEF IntakeInit
  <2>3. today \in 0 .. MaxDay
    BY RfqIntakeAssumption DEF IntakeInit
  <2>4. blocked \in BOOLEAN /\ listing \in {"live", "ended", "swept"}
    BY DEF IntakeInit
  <2> QED BY <2>1, <2>2, <2>3, <2>4 DEF IntakeTypeOK, Row, Ask
<1>2. ASSUME IntakeTypeOK, [IntakeNext]_intakeVars PROVE IntakeTypeOK'
  <2>1. /\ rfq \in [Rows -> Row] /\ ask \in [Buyers -> Ask]
        /\ today \in 0 .. MaxDay /\ blocked \in BOOLEAN
        /\ listing \in {"live", "ended", "swept"}
    BY <1>2 DEF IntakeTypeOK, Row, Ask
  <2>2. ASSUME /\ rfq' \in [Rows -> Row] /\ ask' \in [Buyers -> Ask]
               /\ today' \in 0 .. MaxDay /\ blocked' \in BOOLEAN
               /\ listing' \in {"live", "ended", "swept"}
        PROVE  IntakeTypeOK'
    BY <2>2 DEF IntakeTypeOK, Row, Ask
  <2>3. Idle \in Ask /\ Idle.fields \in Fields /\ NoRow \in Rows \cup {NoRow}
    BY IdleIsTyped DEF Ask
  <2>4. ASSUME NEW b \in Buyers, NEW f \in Fields, PostRfq(b, f) PROVE IntakeTypeOK'
    BY <1>2, <2>1, <2>2, <2>3, <2>4, BeginIsTyped DEF PostRfq, AskPcs
  <2>5. ASSUME NEW b \in Buyers, NEW r \in Rows, InsertRfq(b, r) PROVE IntakeTypeOK'
    <3>1. ask[b].fields \in Fields
      BY <2>1 DEF Ask
    <3>2. [status |-> "live", body |-> ask[b].fields[1], date |-> ask[b].fields[2],
           key |-> ask[b].fields, gone |-> FALSE, moved |-> FALSE] \in Row
      BY <3>1 DEF Row, RfqStatuses, Fields
    <3>3. rfq' \in [Rows -> Row]
      BY <2>1, <2>5, <3>2 DEF InsertRfq
    <3> QED BY <1>2, <2>1, <2>2, <2>5, <3>3, AskDoneIsTyped DEF InsertRfq
  <2>6. ASSUME NEW b \in Buyers, NEW pc \in AskPcs, NEW r \in Rows, NEW f \in Fields,
               BuyerAsks(b, pc, r, f)
        PROVE  IntakeTypeOK'
    BY <1>2, <2>1, <2>2, <2>6, BeginIsTyped DEF BuyerAsks
  <2>7. ASSUME NEW b \in Buyers, NEW r \in Rows, NEW f \in Fields,
               AskAmend(b, r, f) \/ AskClose(b, r) \/ AskReopen(b, r)
        PROVE  IntakeTypeOK'
    BY <2>3, <2>6, <2>7 DEF AskAmend, AskClose, AskReopen, AskPcs
  <2>8. ASSUME NEW b \in Buyers, NEW r \in Rows, AskExtend(b, r) PROVE IntakeTypeOK'
    <3>1. <<rfq[r].body, today + 1>> \in Fields
      <4>1. rfq[r].body \in Bodies
        BY <2>1 DEF Row
      <4>2. today + 1 \in Dates
        BY <2>1, RfqIntakeAssumption DEF Dates
      <4> QED BY <4>1, <4>2 DEF Fields
    <3> QED BY <2>6, <2>8, <3>1 DEF AskExtend, AskPcs
  <2>9. ASSUME NEW b \in Buyers, AmendRfq(b) \/ ExtendRfq(b) \/ FlipStatus(b)
        PROVE  IntakeTypeOK'
    <3>1. ask[b].fields \in Fields /\ ask[b].fields[1] \in Bodies /\ ask[b].fields[2] \in Dates
      BY <2>1 DEF Ask, Fields
    <3>2. rfq' \in [Rows -> Row]
      <4>1. CASE AmendRfq(b)
        BY <2>1, <3>1, <4>1 DEF AmendRfq, Row
      <4>2. CASE ExtendRfq(b)
        BY <2>1, <3>1, <4>2, ZenonT(60) DEF ExtendRfq, Row
      <4>3. CASE FlipStatus(b)
        <5>1. PICK to \in RfqStatuses : rfq' \in {rfq, [rfq EXCEPT ![ask[b].on].status = to]}
          BY <4>3 DEF FlipStatus, RfqStatuses
        <5> QED BY <2>1, <5>1 DEF Row
      <4> QED BY <2>9, <4>1, <4>2, <4>3
    <3> QED BY <1>2, <2>1, <2>2, <2>9, <3>2, AskDoneIsTyped DEF AmendRfq, ExtendRfq, FlipStatus
  <2>10. ASSUME NEW b \in Buyers, NEW r \in Rows, NEW to \in {"spam", "close"},
                ModerateRfq(b, r, to)
         PROVE  IntakeTypeOK'
    BY <1>2, <2>1, <2>2, <2>3, <2>10, BeginIsTyped DEF ModerateRfq, AskPcs
  <2>11. ASSUME NEW b \in Buyers, ToggleBlock(b) PROVE IntakeTypeOK'
    BY <1>2, <2>1, <2>2, <2>3, <2>11, BeginIsTyped, AskDoneIsTyped DEF ToggleBlock, AskPcs
  <2>12. ASSUME NEW b \in Buyers, BlockBuyerEmail(b) PROVE IntakeTypeOK'
    BY <2>1, <2>2, <2>12 DEF BlockBuyerEmail, Ask, AskPcs
  <2>13. ASSUME NEW b \in Buyers, SpamBuyerRfqs(b) PROVE IntakeTypeOK'
    <3>1. rfq' \in [Rows -> Row]
      BY <2>1, <2>13 DEF SpamBuyerRfqs, Row, RfqStatuses
    <3> QED BY <1>2, <2>1, <2>2, <2>13, <3>1, AskDoneIsTyped DEF SpamBuyerRfqs
  <2>14. ASSUME NEW b \in Buyers, SelectMine(b) PROVE IntakeTypeOK'
    <3>1. {<<r, rfq[r].status>> : r \in {s \in Rows : Authorized(s)}}
            \in SUBSET (Rows \X RfqStatuses)
      BY <2>1 DEF Row
    <3>2. [Idle EXCEPT !.pc = "erase",
                       !.mine = {<<r, rfq[r].status>> : r \in {s \in Rows : Authorized(s)}}]
            \in Ask
      BY <2>3, <3>1 DEF Ask, AskPcs
    <3> QED BY <2>1, <2>2, <2>14, <3>2 DEF SelectMine
  <2>15. ASSUME NEW b \in Buyers, EraseMine(b) PROVE IntakeTypeOK'
    <3>1. ask[b].mine \subseteq Rows \X RfqStatuses
      BY <2>1 DEF Ask
    <3>2. rfq' \in [Rows -> Row]
      <4> SUFFICES ASSUME NEW r \in Rows PROVE rfq'[r] \in Row
        BY <2>15 DEF EraseMine
      <4>1. CASE \E m \in ask[b].mine : m[1] = r
        <5> DEFINE m == CHOOSE m \in ask[b].mine : m[1] = r
        <5>1. m \in ask[b].mine
          BY <4>1
        <5> DEFINE st == IF m[2] = "live" THEN "closed" ELSE m[2]
        <5>2. st \in RfqStatuses
          BY <3>1, <5>1 DEF RfqStatuses
        <5>3. rfq'[r] = [rfq[r] EXCEPT !.status = st, !.gone = TRUE, !.key = AnyFields,
                                       !.moved = FALSE]
          BY <2>15, <4>1 DEF EraseMine
        <5> HIDE DEF st
        <5> QED BY <2>1, <5>2, <5>3, IdleIsTyped DEF Row
      <4>2. CASE ~ \E m \in ask[b].mine : m[1] = r
        BY <2>1, <2>15, <4>2 DEF EraseMine
      <4> QED BY <4>1, <4>2
    <3> QED BY <1>2, <2>1, <2>2, <2>15, <3>2, AskDoneIsTyped DEF EraseMine
  <2>16. CASE ExpireStaleRfqs \/ ListingEnds \/ CloseLiveRfqsForListing \/ DayPasses
    <3>1. rfq' \in [Rows -> Row]
      BY <2>1, <2>16 DEF ExpireStaleRfqs, ListingEnds, CloseLiveRfqsForListing, DayPasses, Row,
         RfqStatuses
    <3>2. today' \in 0 .. MaxDay
      BY <2>1, <2>16, RfqIntakeAssumption
         DEF ExpireStaleRfqs, ListingEnds, CloseLiveRfqsForListing, DayPasses
    <3>3. ask' \in [Buyers -> Ask] /\ blocked' \in BOOLEAN /\ listing' \in {"live", "ended", "swept"}
      BY <2>1, <2>16 DEF ExpireStaleRfqs, ListingEnds, CloseLiveRfqsForListing, DayPasses
    <3> QED BY <2>2, <3>1, <3>2, <3>3
  <2>17. CASE UNCHANGED intakeVars
    BY <1>2, <2>17 DEF intakeVars, IntakeTypeOK
  <2> QED BY <1>2, <2>3, <2>4, <2>5, <2>7, <2>8, <2>9, <2>10, <2>11, <2>12, <2>13, <2>14, <2>15,
             <2>16, <2>17 DEF IntakeNext
<1> QED BY <1>1, <1>2, PTL DEF IntakeSpec

\* A request marked as spam comes back by no path, and leaves that status only
\* when its buyer's data is deleted.
THEOREM SpamIsFinal == IntakeSpec => SpamStaysDown
<1>1. ASSUME IntakeTypeOK, [IntakeNext]_intakeVars
      PROVE  \A r \in Rows : rfq[r].status = "spam" => rfq'[r].status = "spam" \/ rfq'[r].gone
  <2> SUFFICES ASSUME NEW r \in Rows, rfq[r].status = "spam"
               PROVE  rfq'[r].status = "spam" \/ rfq'[r].gone
    OBVIOUS
  <2>1. rfq \in [Rows -> Row]
    BY <1>1 DEF IntakeTypeOK, Row
  <2>2. ASSUME NEW b \in Buyers,
               (\E s \in Rows : InsertRfq(b, s)) \/ AmendRfq(b) \/ ExtendRfq(b)
        PROVE  rfq'[r].status = "spam"
    BY <1>1, <2>1, <2>2 DEF InsertRfq, AmendRfq, ExtendRfq, Row
  <2>3. ASSUME NEW b \in Buyers, FlipStatus(b) PROVE rfq'[r].status = "spam"
    <3>1. PICK to : \/ rfq' = rfq
                    \/ /\ rfq' = [rfq EXCEPT ![ask[b].on].status = to]
                       /\ rfq[ask[b].on].status # "spam"
      BY <2>3 DEF FlipStatus, IsLiveRow
    <3> QED BY <1>1, <2>1, <3>1 DEF Row
  <2>4. ASSUME NEW b \in Buyers, SpamBuyerRfqs(b) PROVE rfq'[r].status = "spam"
    BY <1>1, <2>1, <2>4 DEF SpamBuyerRfqs, IsLiveRow, Row
  <2>5. ASSUME NEW b \in Buyers, EraseMine(b)
        PROVE  rfq'[r].status = "spam" \/ rfq'[r].gone
    <3>1. CASE \E m \in ask[b].mine : m[1] = r
      <4> DEFINE m == CHOOSE m \in ask[b].mine : m[1] = r
                 st == IF m[2] = "live" THEN "closed" ELSE m[2]
      <4>1. rfq'[r] = [rfq[r] EXCEPT !.status = st, !.gone = TRUE, !.key = AnyFields,
                                     !.moved = FALSE]
        BY <2>5, <3>1 DEF EraseMine
      <4> HIDE DEF st
      <4> QED BY <2>1, <4>1 DEF Row
    <3>2. CASE ~ \E m \in ask[b].mine : m[1] = r
      BY <1>1, <2>5, <3>2 DEF EraseMine
    <3> QED BY <3>1, <3>2
  <2>6. CASE ExpireStaleRfqs \/ CloseLiveRfqsForListing
    BY <1>1, <2>1, <2>6 DEF ExpireStaleRfqs, CloseLiveRfqsForListing, IsLiveRow, Row
  <2>7. CASE UNCHANGED rfq
    BY <1>1, <2>7
  <2> QED BY <1>1, <2>2, <2>3, <2>4, <2>5, <2>6, <2>7
          DEF IntakeNext, PostRfq, AskAmend, AskExtend, AskClose, AskReopen, BuyerAsks,
              ModerateRfq, ToggleBlock, BlockBuyerEmail, SelectMine, ListingEnds, DayPasses,
              intakeVars
<1> QED BY <1>1, IntakeTypeCorrect, PTL DEF IntakeSpec, SpamStaysDown

\* The key of a request whose data is there is that of its fields, unless an
\* extension moved its date; and the index keeps the live keys apart.
KeysFollow == \A r \in Rows : ~rfq[r].gone /\ ~rfq[r].moved => rfq[r].key = FieldsOf(r)
Indexed(r) == IsLiveRow(r) /\ ~rfq[r].gone
KeysDiffer == \A r, s \in Rows : r # s /\ Indexed(r) /\ Indexed(s) => rfq[r].key # rfq[s].key

LEMMA InitKeys == IntakeInit => KeysFollow /\ KeysDiffer
<1> SUFFICES ASSUME IntakeInit PROVE KeysFollow /\ KeysDiffer
  OBVIOUS
<1>1. \A r \in Rows : rfq[r].key = <<rfq[r].body, rfq[r].date>> /\ rfq[r].status = "none"
  <2> DEFINE any == CHOOSE b \in Bodies : TRUE
  <2>1. rfq = [r \in Rows |-> [status |-> "none", body |-> any, date |-> 0, key |-> <<any, 0>>,
                               gone |-> FALSE, moved |-> FALSE]]
    BY DEF IntakeInit, AnyFields
  <2> HIDE DEF any
  <2> QED BY <2>1
<1> QED BY <1>1 DEF KeysFollow, KeysDiffer, FieldsOf, Indexed, IsLiveRow

\* A step that writes one row, with a key no other live row has, keeps both.
LEMMA OneRowWritten ==
  ASSUME IntakeTypeOK, KeysFollow, KeysDiffer, NEW r \in Rows, NEW row \in Row,
         rfq' = [rfq EXCEPT ![r] = row],
         ~row.gone /\ ~row.moved => row.key = <<row.body, row.date>>,
         row.status = "live" /\ ~row.gone => ~KeyTaken(row.key, r)
  PROVE  KeysFollow' /\ KeysDiffer'
<1>1. rfq \in [Rows -> Row]
  BY DEF IntakeTypeOK, Row
<1>2. rfq'[r] = row /\ \A s \in Rows \ {r} : rfq'[s] = rfq[s]
  BY <1>1
<1>3. KeysFollow'
  BY <1>2 DEF KeysFollow, FieldsOf
<1>4. KeysDiffer'
  BY <1>2 DEF KeysDiffer, Indexed, IsLiveRow, KeyTaken
<1> QED BY <1>3, <1>4

\* A step that takes rows down, or their data away, keeps both.
LEMMA RowsGoDown ==
  ASSUME KeysFollow, KeysDiffer,
         \A r \in Rows :
            \/ rfq'[r].gone
            \/ /\ rfq'[r].body = rfq[r].body /\ rfq'[r].date = rfq[r].date
               /\ rfq'[r].key = rfq[r].key /\ rfq'[r].moved = rfq[r].moved
               /\ rfq'[r].gone = rfq[r].gone
               /\ rfq'[r].status = rfq[r].status \/ rfq'[r].status # "live"
  PROVE  KeysFollow' /\ KeysDiffer'
BY DEF KeysFollow, KeysDiffer, Indexed, IsLiveRow, FieldsOf

\* Whatever posts, amends, extensions, reopens and deletions are in flight, no two
\* live requests of the buyer ask the same.
THEOREM TwinsAreRefused == IntakeSpec => []NoTwins
<1>1. IntakeInit => KeysFollow /\ KeysDiffer
  BY InitKeys
<1>2. ASSUME IntakeTypeOK, KeysFollow, KeysDiffer, [IntakeNext]_intakeVars
      PROVE  KeysFollow' /\ KeysDiffer'
  <2>1. rfq \in [Rows -> Row] /\ ask \in [Buyers -> Ask]
    BY <1>2 DEF IntakeTypeOK, Row, Ask
  <2>2. CASE UNCHANGED rfq
    BY <1>2, <2>2 DEF KeysFollow, KeysDiffer, FieldsOf, Indexed, IsLiveRow
  <2>3. ASSUME NEW b \in Buyers, NEW r \in Rows, InsertRfq(b, r) PROVE KeysFollow' /\ KeysDiffer'
    <3> DEFINE f == ask[b].fields
               row == [status |-> "live", body |-> f[1], date |-> f[2], key |-> f,
                       gone |-> FALSE, moved |-> FALSE]
    <3>1. f \in Fields
      BY <2>1 DEF Ask
    <3>2. row \in Row /\ f = <<f[1], f[2]>>
      BY <3>1 DEF Row, RfqStatuses, Fields
    <3>3. CASE KeyTaken(f, NoRow)
      BY <2>2, <2>3, <3>3 DEF InsertRfq
    <3>4. CASE ~KeyTaken(f, NoRow)
      <4>1. ~KeyTaken(f, r)
        BY <3>4, RfqIntakeAssumption DEF KeyTaken
      <4>2. rfq' = [rfq EXCEPT ![r] = row]
        BY <2>3, <3>4 DEF InsertRfq
      <4>3. row.key = f /\ row.body = f[1] /\ row.date = f[2]
        OBVIOUS
      <4> HIDE DEF row
      <4> QED BY <1>2, <3>2, <4>1, <4>2, <4>3, OneRowWritten
    <3> QED BY <3>3, <3>4
  <2>4. ASSUME NEW b \in Buyers, AmendRfq(b), ~UNCHANGED rfq PROVE KeysFollow' /\ KeysDiffer'
    <3> DEFINE r == ask[b].on
               f == ask[b].fields
               row == [rfq[r] EXCEPT !.body = f[1], !.date = f[2], !.key = f, !.moved = FALSE]
    <3>1. f \in Fields /\ r \in Rows \cup {NoRow}
      BY <2>1 DEF Ask
    <3>2. /\ ~KeyTaken(f, r)
          /\ rfq' = [rfq EXCEPT ![r].body = f[1], ![r].date = f[2], ![r].key = f, ![r].moved = FALSE]
      BY <2>4 DEF AmendRfq
    <3>3. r \in Rows /\ rfq' = [rfq EXCEPT ![r] = row]
      BY <2>1, <2>4, <3>2
    <3>4. f[1] \in Bodies /\ f[2] \in Dates /\ f = <<f[1], f[2]>>
      BY <3>1 DEF Fields
    <3>5. row \in Row /\ row.key = f /\ row.body = f[1] /\ row.date = f[2]
      BY <2>1, <3>1, <3>3, <3>4 DEF Row
    <3> HIDE DEF row, r, f
    <3> QED BY <1>2, <3>2, <3>3, <3>4, <3>5, OneRowWritten
  <2>5. ASSUME NEW b \in Buyers, ExtendRfq(b), ~UNCHANGED rfq PROVE KeysFollow' /\ KeysDiffer'
    <3> DEFINE r == ask[b].on
    <3>1. rfq' = [rfq EXCEPT ![r].date = ask[b].fields[2], ![r].moved = TRUE]
      BY <2>5 DEF ExtendRfq
    <3>2. r \in Rows
      BY <2>1, <2>5, <3>1
    <3>3. /\ rfq'[r].moved /\ rfq'[r].key = rfq[r].key /\ rfq'[r].gone = rfq[r].gone
          /\ rfq'[r].status = rfq[r].status
          /\ \A s \in Rows \ {r} : rfq'[s] = rfq[s]
      BY <2>1, <3>1, <3>2 DEF Row
    <3> HIDE DEF r
    <3> QED BY <1>2, <3>3 DEF KeysFollow, KeysDiffer, Indexed, IsLiveRow, FieldsOf
  <2>6. ASSUME NEW b \in Buyers, FlipStatus(b), ~UNCHANGED rfq PROVE KeysFollow' /\ KeysDiffer'
    <3> DEFINE r == ask[b].on
    <3>1. PICK to : /\ rfq' = [rfq EXCEPT ![r].status = to]
                    /\ to = "live" => ~KeyTaken(rfq[r].key, r)
      BY <2>6 DEF FlipStatus
    <3>2. r \in Rows
      BY <2>1, <2>6, <3>1
    <3>3. /\ rfq'[r].status = to /\ rfq'[r].key = rfq[r].key /\ rfq'[r].gone = rfq[r].gone
          /\ rfq'[r].moved = rfq[r].moved /\ rfq'[r].body = rfq[r].body
          /\ rfq'[r].date = rfq[r].date
          /\ \A s \in Rows \ {r} : rfq'[s] = rfq[s]
      BY <2>1, <3>1, <3>2 DEF Row
    <3> HIDE DEF r
    <3>4. KeysFollow'
      BY <1>2, <3>3 DEF KeysFollow, FieldsOf
    <3>5. KeysDiffer'
      BY <1>2, <3>1, <3>3 DEF KeysDiffer, Indexed, IsLiveRow, KeyTaken
    <3> QED BY <3>4, <3>5
  <2>7. ASSUME NEW b \in Buyers, SpamBuyerRfqs(b) PROVE KeysFollow' /\ KeysDiffer'
    BY <1>2, <2>1, <2>7, RowsGoDown DEF SpamBuyerRfqs, Row
  <2>8. ASSUME NEW b \in Buyers, EraseMine(b) PROVE KeysFollow' /\ KeysDiffer'
    <3>1. \A r \in Rows : rfq'[r] = rfq[r] \/ rfq'[r].gone
      <4> TAKE r \in Rows
      <4> DEFINE m == CHOOSE m \in ask[b].mine : m[1] = r
                 st == IF m[2] = "live" THEN "closed" ELSE m[2]
      <4>1. \/ rfq'[r] = rfq[r]
            \/ rfq'[r] = [rfq[r] EXCEPT !.status = st, !.gone = TRUE, !.key = AnyFields,
                                        !.moved = FALSE]
        BY <2>8 DEF EraseMine
      <4> HIDE DEF st
      <4> QED BY <2>1, <4>1 DEF Row
    <3> QED BY <1>2, <3>1, RowsGoDown
  <2>9. CASE ExpireStaleRfqs \/ CloseLiveRfqsForListing
    BY <1>2, <2>1, <2>9, RowsGoDown DEF ExpireStaleRfqs, CloseLiveRfqsForListing, Row
  <2> QED BY <1>2, <2>2, <2>3, <2>4, <2>5, <2>6, <2>7, <2>8, <2>9
          DEF IntakeNext, PostRfq, AskAmend, AskExtend, AskClose, AskReopen, BuyerAsks,
              ModerateRfq, ToggleBlock, BlockBuyerEmail, SelectMine, ListingEnds, DayPasses,
              intakeVars
<1>3. KeysFollow /\ KeysDiffer => NoTwins
  BY DEF KeysFollow, KeysDiffer, NoTwins, Indexed
<1> QED BY <1>1, <1>2, <1>3, IntakeTypeCorrect, PTL DEF IntakeSpec

-----------------------------------------------------------------------------
(* The operator's listings.                                                 *)

LEMMA RestingIsTyped == Resting \in CallState
BY DEF Resting, CallState, Pcs, Statuses, Unplaced

LEMMA PutIsTyped ==
  ASSUME BookTypeOK, NEW l \in Listings, NEW st \in Statuses, NEW letIn, Put(l, st, letIn)
  PROVE  shelf' \in [Listings -> Statuses] /\ exempt' \subseteq Listings
BY DEF Put, BookTypeOK

LEMMA DoneIsTyped ==
  ASSUME BookTypeOK, NEW c \in Calls, Done(c)
  PROVE  call' \in [Calls -> CallState]
BY RestingIsTyped DEF Done, BookTypeOK

LEMMA DoneRests ==
  ASSUME BookTypeOK, NEW c \in Calls, Done(c)
  PROVE  call'[c].pc = "idle" /\ \A d \in Calls \ {c} : call'[d] = call[d]
BY DEF Done, Resting, BookTypeOK

LEMMA GotoIsTyped ==
  ASSUME BookTypeOK, NEW c \in Calls, NEW pc \in Pcs, Goto(c, pc),
         pc \in Unplaced \/ call[c].pc \notin Unplaced
  PROVE  call' \in [Calls -> CallState]
<1>1. [call[c] EXCEPT !.pc = pc] \in CallState
  BY DEF BookTypeOK, CallState
<1> QED BY <1>1 DEF Goto, BookTypeOK

\* The listings, and what the requests for them have read, are well typed.
THEOREM BookTypeCorrect == BookSpec => []BookTypeOK
<1>1. BookInit => BookTypeOK
  BY RestingIsTyped DEF BookInit, BookTypeOK, Statuses
<1>2. ASSUME BookTypeOK, [BookNext]_bookVars PROVE BookTypeOK'
  <2>1. /\ shelf \in [Listings -> Statuses] /\ call \in [Calls -> CallState]
        /\ opLock \subseteq Calls /\ exempt \subseteq Listings
        /\ plan \in {"free", "pro"} /\ suspended \in BOOLEAN
    BY <1>2 DEF BookTypeOK
  <2>2. ASSUME NEW c \in Calls
        PROVE  /\ call[c].to \in Statuses
               /\ call[c].pc \notin Unplaced => call[c].on \in Listings
    BY <2>1 DEF CallState
  <2>3. ASSUME NEW c \in Calls, NEW pc \in Pcs, NEW l \in Listings,
               NEW seen \in Statuses, NEW to \in Statuses, NEW capped \in BOOLEAN
        PROVE  [pc |-> pc, on |-> l, seen |-> seen, to |-> to, capped |-> capped] \in CallState
    BY DEF CallState
  <2>4. Capped \in BOOLEAN
    BY DEF Capped
  <2>5. ASSUME NEW c \in Calls, CreateListing(c) PROVE BookTypeOK'
    <3>1. [Resting EXCEPT !.pc = "create", !.to = "active", !.capped = Capped] \in CallState
      BY <2>4, RestingIsTyped DEF CallState, Pcs, Unplaced, Statuses, Counted
    <3> QED BY <2>1, <2>5, <3>1 DEF CreateListing, BookTypeOK
  <2>6. ASSUME NEW c \in Calls, NEW l \in Listings, DuplicateListing(c, l) PROVE BookTypeOK'
    <3>1. [Resting EXCEPT !.pc = "create", !.to = "draft", !.capped = Capped] \in CallState
      BY <2>4, RestingIsTyped DEF CallState, Pcs, Unplaced, Statuses, Counted
    <3> QED BY <2>1, <2>6, <3>1 DEF DuplicateListing, BookTypeOK
  <2>7. ASSUME NEW c \in Calls, NEW l \in Listings, InsertUncapped(c, l) \/ InsertCapped(c, l)
        PROVE  BookTypeOK'
    <3>1. call' \in [Calls -> CallState]
      BY <1>2, <2>7, DoneIsTyped DEF InsertUncapped, InsertCapped
    <3>2. shelf' \in [Listings -> Statuses] /\ exempt' \subseteq Listings
      BY <1>2, <2>2, <2>7, PutIsTyped DEF InsertUncapped, InsertCapped
    <3> QED BY <2>1, <2>7, <3>1, <3>2 DEF InsertUncapped, InsertCapped, BookTypeOK
  <2>8. ASSUME NEW c \in Calls, LockAndCount(c) \/ CountOthers(c) PROVE BookTypeOK'
    <3>1. call' \in [Calls -> CallState]
      BY <1>2, <2>8, DoneIsTyped, GotoIsTyped DEF LockAndCount, CountOthers, Pcs, Unplaced
    <3> QED BY <2>1, <2>8, <3>1 DEF LockAndCount, CountOthers, BookTypeOK
  <2>9. ASSUME NEW c \in Calls, NEW l \in Listings, NEW to \in Counted \cup Ended,
               PatchListing(c, l, to)
        PROVE  BookTypeOK'
    <3> DEFINE capped == to = "active" /\ shelf[l] # "active" /\ Capped
               rec == [pc |-> IF capped THEN "row" ELSE "patch", on |-> l,
                       seen |-> shelf[l], to |-> to, capped |-> capped]
    <3>1. capped \in BOOLEAN /\ shelf[l] \in Statuses /\ to \in Statuses
          /\ (IF capped THEN "row" ELSE "patch") \in Pcs
      BY <2>1 DEF Statuses, Pcs
    <3>2. call' = [call EXCEPT ![c] = rec]
      BY <2>9 DEF PatchListing
    <3> HIDE DEF capped
    <3>3. rec \in CallState
      BY <2>3, <3>1
    <3> HIDE DEF rec
    <3> QED BY <2>1, <2>9, <3>2, <3>3 DEF PatchListing, BookTypeOK
  <2>10. ASSUME NEW c \in Calls,
                WriteStatus(c) \/ PutActive(c) \/ DeleteRow(c) \/ WriteModeration(c)
         PROVE  BookTypeOK'
    <3>1. call' \in [Calls -> CallState]
      BY <1>2, <2>10, DoneIsTyped DEF WriteStatus, PutActive, DeleteRow, WriteModeration
    <3>2. call[c].on \in Listings
      BY <2>2, <2>10 DEF WriteStatus, PutActive, DeleteRow, WriteModeration, Unplaced
    <3>3. shelf' \in [Listings -> Statuses] /\ exempt' \subseteq Listings
      <4>1. "active" \in Statuses /\ "none" \in Statuses
        BY DEF Statuses, Counted
      <4>2. UNCHANGED <<shelf, exempt>> => shelf' \in [Listings -> Statuses] /\ exempt' \subseteq Listings
        BY <2>1
      <4>3. CASE WriteStatus(c) \/ WriteModeration(c)
        BY <1>2, <2>2, <3>2, <4>2, <4>3, PutIsTyped DEF WriteStatus, WriteModeration
      <4>4. CASE PutActive(c)
        BY <1>2, <3>2, <4>1, <4>2, <4>4, PutIsTyped DEF PutActive
      <4>5. CASE DeleteRow(c)
        BY <1>2, <3>2, <4>1, <4>2, <4>5, PutIsTyped DEF DeleteRow
      <4> QED BY <2>10, <4>3, <4>4, <4>5
    <3> QED BY <2>1, <2>10, <3>1, <3>3
            DEF WriteStatus, PutActive, DeleteRow, WriteModeration, BookTypeOK
  <2>11. ASSUME NEW c \in Calls, ReadRow(c) PROVE BookTypeOK'
    <3>1. call' \in [Calls -> CallState]
      <4>1. [call[c] EXCEPT !.pc = "count", !.seen = shelf[call[c].on]] \in CallState
        BY <2>1, <2>2, <2>11, ZenonT(60) DEF ReadRow, CallState, Pcs, Unplaced
      <4> QED BY <1>2, <2>1, <2>11, <4>1, DoneIsTyped DEF ReadRow
    <3> QED BY <2>1, <2>11, <3>1 DEF ReadRow, BookTypeOK
  <2>12. ASSUME NEW c \in Calls, NEW l \in Listings, DeleteListing(c, l) PROVE BookTypeOK'
    <3>1. [Resting EXCEPT !.pc = "delete", !.on = l, !.seen = shelf[l]] \in CallState
      BY <2>1, RestingIsTyped DEF CallState, Pcs, Unplaced
    <3> QED BY <2>1, <2>12, <3>1 DEF DeleteListing, BookTypeOK
  <2>13. ASSUME NEW c \in Calls, NEW l \in Listings, NEW to \in {"paused", "archived"},
                ModerateListing(c, l, to)
         PROVE  BookTypeOK'
    <3>1. [Resting EXCEPT !.pc = "moderate", !.on = l, !.to = to] \in CallState
      BY RestingIsTyped DEF CallState, Pcs, Unplaced, Statuses, Counted, Ended
    <3> QED BY <2>1, <2>13, <3>1 DEF ModerateListing, BookTypeOK
  <2>14. ASSUME NEW l \in Listings, SoldByDeal(l) \/ BackOnSale(l) PROVE BookTypeOK'
    BY <1>2, <2>1, <2>14, PutIsTyped
       DEF SoldByDeal, BackOnSale, BookTypeOK, Statuses, Counted, Ended
  <2>15. ASSUME NEW p \in {"free", "pro"}, SetOperatorPlan(p) PROVE BookTypeOK'
    BY <2>1, <2>15 DEF SetOperatorPlan, BookTypeOK
  <2>16. CASE ToggleSuspension
    BY <2>1, <2>16 DEF ToggleSuspension, BookTypeOK
  <2>17. CASE UNCHANGED bookVars
    BY <2>1, <2>17 DEF bookVars, BookTypeOK
  <2> QED BY <1>2, <2>5, <2>6, <2>7, <2>8, <2>9, <2>10, <2>11, <2>12, <2>13, <2>14, <2>15, <2>16,
             <2>17 DEF BookNext
<1> QED BY <1>1, <1>2, PTL DEF BookSpec

\* The listings a count let in.
Held == OnBook \ exempt

\* A transaction that has counted holds the operator's row alone, and the place
\* it is about to give away is free.
CountersHold == \A c \in Calls : call[c].pc \in {"insert", "put"} => opLock = {c}
Places(c) == call[c].pc = "insert" \/ (call[c].pc = "put" /\ call[c].seen \in Ended)
PlaceIsFree == \A c \in Calls : Places(c) => Cardinality(Held) < Cap
CapInv == CapHolds /\ CountersHold /\ PlaceIsFree

LEMMA HeldIsFinite ==
  ASSUME BookTypeOK
  PROVE  IsFiniteSet(OnBook) /\ IsFiniteSet(Held) /\ Cardinality(Held) <= Cardinality(OnBook)
         /\ Cardinality(Held) \in Nat /\ Cardinality(OnBook) \in Nat
<1>1. OnBook \in SUBSET Listings /\ Held \in SUBSET OnBook
  BY DEF OnBook, Held
<1>2. IsFiniteSet(OnBook)
  BY <1>1, FS_Subset, ListingBookAssumption
<1>3. IsFiniteSet(Held) /\ Cardinality(Held) <= Cardinality(OnBook)
  BY <1>1, <1>2, FS_Subset
<1> QED BY <1>2, <1>3, FS_CardinalityType

\* A row put without a count takes no place; one the count let in takes one.
LEMMA PutTakes ==
  ASSUME BookTypeOK, NEW l \in Listings, NEW st, NEW letIn \in BOOLEAN, Put(l, st, letIn)
  PROVE  Held' \subseteq Held \cup {l} /\ (~letIn => Held' \subseteq Held)
<1>1. shelf' = [shelf EXCEPT ![l] = st] /\ shelf \in [Listings -> Statuses]
  BY DEF Put, BookTypeOK
<1>2. exempt \ {l} \subseteq exempt'
  BY DEF Put
<1>3. Held' \subseteq Held \cup {l}
  BY <1>1, <1>2 DEF Held, OnBook
<1>4. ASSUME ~letIn, l \in Held' PROVE l \in Held
  <2>1. st \in Counted /\ l \notin exempt'
    BY <1>1, <1>4 DEF Held, OnBook
  <2> QED BY <1>4, <2>1 DEF Put, Held, OnBook
<1> QED BY <1>3, <1>4

\* A step that gives no place away and starts no counted write keeps the cap.
LEMMA NoPlaceGiven ==
  ASSUME BookTypeOK, BookTypeOK', CapInv, Held' \subseteq Held,
         \A c \in Calls : /\ call'[c].pc \in {"insert", "put"} => call'[c] = call[c]
                          /\ call[c].pc \in {"insert", "put"} =>
                                opLock' = opLock \/ call'[c].pc = "idle",
         opLock' # opLock => \E c \in Calls : call[c].pc \in {"insert", "put"} /\ call'[c].pc = "idle"
  PROVE  CapInv'
<1>1. Cardinality(Held') <= Cardinality(Held) /\ Cardinality(Held') \in Nat
  BY HeldIsFinite, FS_Subset, FS_CardinalityType
<1>2. Cardinality(Held) <= Cap /\ Cardinality(Held) \in Nat
  BY HeldIsFinite DEF CapInv, CapHolds, Held
<1>3. CapHolds'
  BY <1>1, <1>2, ListingBookAssumption DEF CapHolds, Held
<1>4. CountersHold'
  BY DEF CapInv, CountersHold
<1>5. PlaceIsFree'
  BY <1>1, <1>2, ListingBookAssumption DEF CapInv, PlaceIsFree, Places
<1> QED BY <1>3, <1>4, <1>5 DEF CapInv

\* Except for the exempt, a free account never holds more listings than the cap,
\* however many requests race for the last place.
THEOREM TheCapHolds == BookSpec => []CapHolds
<1>1. BookInit => CapInv
  <2> SUFFICES ASSUME BookInit PROVE CapInv
    OBVIOUS
  <2>1. OnBook \ exempt = {}
    BY DEF BookInit, OnBook, Counted
  <2>2. Cardinality(OnBook \ exempt) = 0
    BY <2>1, FS_EmptySet
  <2> QED BY <2>2, ListingBookAssumption
          DEF BookInit, CapInv, CapHolds, CountersHold, PlaceIsFree, Places, Resting
<1>2. ASSUME BookTypeOK, BookTypeOK', CapInv, [BookNext]_bookVars PROVE CapInv'
  <2>1. call \in [Calls -> CallState] /\ opLock \subseteq Calls
    BY <1>2 DEF BookTypeOK
  <2>2. ASSUME NEW c \in Calls
        PROVE  call[c].to \in Statuses /\ (call[c].pc \notin Unplaced => call[c].on \in Listings)
    BY <2>1 DEF CallState
  <2>3. Cardinality(Held) <= Cap /\ Cardinality(Held) \in Nat
    BY <1>2, HeldIsFinite DEF CapInv, CapHolds, Held
  <2>4. UNCHANGED <<shelf, exempt>> => Held' = Held
    BY DEF Held, OnBook
  \* Requests that only read.
  <2>5. ASSUME NEW c \in Calls,
               \/ CreateListing(c) \/ ReadRow(c)
               \/ \E l \in Listings :
                    \/ DuplicateListing(c, l) \/ DeleteListing(c, l)
                    \/ \E to \in Counted \cup Ended : PatchListing(c, l, to)
                    \/ \E to \in {"paused", "archived"} : ModerateListing(c, l, to)
        PROVE  CapInv'
    <3>1. UNCHANGED <<shelf, exempt, opLock>>
      BY <2>5 DEF CreateListing, ReadRow, DuplicateListing, DeleteListing, PatchListing,
         ModerateListing, Done
    <3>2. /\ call[c].pc \notin {"insert", "put"} /\ call'[c].pc \notin {"insert", "put"}
          /\ \A d \in Calls \ {c} : call'[d] = call[d]
      <4>1. CASE CreateListing(c) \/ \E l \in Listings : DuplicateListing(c, l)
        BY <2>1, <4>1 DEF CreateListing, DuplicateListing, Resting
      <4>2. CASE ReadRow(c)
        BY <1>2, <2>1, <4>2, DoneRests DEF ReadRow, CallState
      <4>3. CASE \E l \in Listings :
                   DeleteListing(c, l) \/ \E to \in {"paused", "archived"} : ModerateListing(c, l, to)
        BY <2>1, <4>3 DEF DeleteListing, ModerateListing, Resting
      <4>4. CASE \E l \in Listings, to \in Counted \cup Ended : PatchListing(c, l, to)
        <5> PICK l \in Listings, to \in Counted \cup Ended : PatchListing(c, l, to)
          BY <4>4
        <5>1. call'[c].pc \in {"row", "patch"}
          BY <2>1 DEF PatchListing
        <5> QED BY <2>1, <5>1 DEF PatchListing
      <4> QED BY <2>5, <4>1, <4>2, <4>3, <4>4
    <3> QED BY <1>2, <2>4, <3>1, <3>2, NoPlaceGiven
  \* Writes no count let in.
  <2>6. ASSUME NEW c \in Calls,
               \/ WriteStatus(c) \/ DeleteRow(c) \/ WriteModeration(c)
               \/ \E l \in Listings : InsertUncapped(c, l)
        PROVE  CapInv'
    <3>1. \/ UNCHANGED <<shelf, exempt>>
          \/ \E l \in Listings, st \in Statuses : Put(l, st, FALSE)
      <4>1. "none" \in Statuses /\ call[c].to \in Statuses
        BY <2>2 DEF Statuses
      <4>2. call[c].pc \notin Unplaced => call[c].on \in Listings
        BY <2>2
      <4>3. CASE WriteStatus(c) \/ WriteModeration(c)
        BY <4>1, <4>2, <4>3 DEF WriteStatus, WriteModeration, Unplaced
      <4>4. CASE DeleteRow(c)
        BY <4>1, <4>2, <4>4 DEF DeleteRow, Unplaced
      <4>5. CASE \E l \in Listings : InsertUncapped(c, l)
        BY <4>1, <4>5 DEF InsertUncapped
      <4> QED BY <2>6, <4>3, <4>4, <4>5
    <3>2. Held' \subseteq Held
      BY <1>2, <2>4, <3>1, PutTakes
    <3>3. /\ opLock' = opLock
          /\ call[c].pc \notin {"insert", "put"} /\ call'[c].pc = "idle"
          /\ \A d \in Calls \ {c} : call'[d] = call[d]
      BY <1>2, <2>6, DoneRests DEF WriteStatus, DeleteRow, WriteModeration, InsertUncapped
    <3> QED BY <1>2, <3>2, <3>3, NoPlaceGiven
  \* The counts.
  <2>7. ASSUME NEW c \in Calls, LockAndCount(c) \/ CountOthers(c) PROVE CapInv'
    <3>1. /\ opLock = {} /\ Held' = Held /\ OnBook' = OnBook
          /\ \A d \in Calls \ {c} : call'[d] = call[d]
          /\ call[c].pc \notin {"insert", "put"}
      BY <2>1, <2>7 DEF LockAndCount, CountOthers, Done, Goto, Held, OnBook
    <3>2. \A d \in Calls : call[d].pc \notin {"insert", "put"}
      BY <1>2, <3>1 DEF CapInv, CountersHold
    <3>3. CASE call'[c].pc = "idle" /\ opLock' = opLock
      BY <1>2, <3>1, <3>2, <3>3, NoPlaceGiven
    <3>4. CASE call'[c].pc \in {"insert", "put"} /\ opLock' = {c}
      <4>1. Places(c)' => Cardinality(OnBook) < Cap
        <5>1. Cardinality(OnBook) \in Nat /\ Cap \in Nat
          BY <1>2, HeldIsFinite, ListingBookAssumption
        <5>2. CASE LockAndCount(c)
          BY <2>1, <3>4, <5>1, <5>2 DEF LockAndCount, Done, Resting
        <5>3. CASE CountOthers(c)
          <6>1. call'[c] = [call[c] EXCEPT !.pc = "put"]
                /\ ~(Cardinality(OnBook) >= Cap + IF call[c].seen \in Ended THEN 0 ELSE 1)
            BY <2>1, <3>4, <5>3 DEF CountOthers, Done, Goto, Resting
          <6>2. call'[c].pc = "put" /\ call'[c].seen = call[c].seen
            BY <2>1, <6>1 DEF CallState
          <6> QED BY <5>1, <6>1, <6>2 DEF Places
        <5> QED BY <2>7, <5>2, <5>3
      <4>2. Cardinality(Held) <= Cardinality(OnBook) /\ Cardinality(OnBook) \in Nat
        BY <1>2, HeldIsFinite
      <4>3. PlaceIsFree'
        <5> SUFFICES ASSUME NEW d \in Calls, Places(d)' PROVE Cardinality(Held) < Cap
          BY <3>1 DEF PlaceIsFree
        <5>1. d = c
          BY <3>1, <3>2 DEF Places
        <5> QED BY <2>3, <4>1, <4>2, <5>1, ListingBookAssumption
      <4>4. CountersHold'
        BY <3>1, <3>2, <3>4 DEF CountersHold
      <4>5. CapHolds'
        BY <2>3, <3>1 DEF CapHolds, Held
      <4> QED BY <4>3, <4>4, <4>5 DEF CapInv
    <3> QED BY <2>1, <2>7, <3>1, <3>3, <3>4 DEF LockAndCount, CountOthers, Done, Goto, Resting,
               CallState
  \* The writes a count let in.
  <2>8. ASSUME NEW c \in Calls, PutActive(c) \/ \E l \in Listings : InsertCapped(c, l)
        PROVE  CapInv'
    <3>1. /\ call[c].pc \in {"insert", "put"} /\ call'[c].pc = "idle" /\ opLock' = opLock \ {c}
          /\ \A d \in Calls \ {c} : call'[d] = call[d]
      BY <1>2, <2>8, DoneRests DEF PutActive, InsertCapped
    <3>2. \A d \in Calls : call'[d].pc \notin {"insert", "put"}
      BY <1>2, <3>1 DEF CapInv, CountersHold
    <3>3. \/ Held' \subseteq Held
          \/ Places(c) /\ \E l \in Listings : Held' \subseteq Held \cup {l}
      <4>1. CASE PutActive(c)
        <5>1. call[c].on \in Listings /\ (call[c].seen \in Ended) \in BOOLEAN
          BY <2>2, <4>1 DEF PutActive, Unplaced
        <5> QED BY <1>2, <2>4, <4>1, <5>1, PutTakes DEF PutActive, Places
      <4>2. CASE \E l \in Listings : InsertCapped(c, l)
        BY <1>2, <4>2, PutTakes DEF InsertCapped, Places
      <4> QED BY <2>8, <4>1, <4>2
    <3>4. Cardinality(Held') <= Cap
      <4>1. IsFiniteSet(Held) /\ Cap \in Nat
        BY <1>2, HeldIsFinite, ListingBookAssumption
      <4>2. CASE Held' \subseteq Held
        <5>1. Cardinality(Held') <= Cardinality(Held) /\ IsFiniteSet(Held')
          BY <4>1, <4>2, FS_Subset
        <5> QED BY <2>3, <4>1, <5>1, FS_CardinalityType
      <4>3. ASSUME Places(c), NEW l \in Listings, Held' \subseteq Held \cup {l}
            PROVE  Cardinality(Held') <= Cap
        <5>1. IsFiniteSet(Held \cup {l}) /\ Cardinality(Held \cup {l}) <= Cardinality(Held) + 1
          <6>1. /\ IsFiniteSet(Held \cup {l})
                /\ Cardinality(Held \cup {l})
                     = IF l \in Held THEN Cardinality(Held) ELSE Cardinality(Held) + 1
            BY <4>1, FS_AddElement
          <6> QED BY <2>3, <6>1
        <5>2. IsFiniteSet(Held') /\ Cardinality(Held') <= Cardinality(Held \cup {l})
          BY <4>3, <5>1, FS_Subset
        <5>3. Cardinality(Held) < Cap
          BY <1>2, <4>3 DEF CapInv, PlaceIsFree
        <5>4. Cardinality(Held') \in Nat /\ Cardinality(Held \cup {l}) \in Nat
          BY <5>1, <5>2, FS_CardinalityType
        <5> QED BY <2>3, <4>1, <5>1, <5>2, <5>3, <5>4
      <4> QED BY <3>3, <4>2, <4>3
    <3> QED BY <3>2, <3>4 DEF CapInv, CapHolds, CountersHold, PlaceIsFree, Places, Held
  \* Deals, the plan and the suspension.
  <2>9. ASSUME NEW l \in Listings, SoldByDeal(l) \/ BackOnSale(l) PROVE CapInv'
    <3>1. Held' \subseteq Held
      BY <1>2, <2>9, PutTakes DEF SoldByDeal, BackOnSale
    <3> QED BY <1>2, <2>9, <3>1, NoPlaceGiven DEF SoldByDeal, BackOnSale
  <2>10. CASE (\E p \in {"free", "pro"} : SetOperatorPlan(p)) \/ ToggleSuspension
              \/ UNCHANGED bookVars
    BY <1>2, <2>4, <2>10, NoPlaceGiven DEF SetOperatorPlan, ToggleSuspension, bookVars
  <2> QED BY <1>2, <2>5, <2>6, <2>7, <2>8, <2>9, <2>10 DEF BookNext
<1>3. CapInv => CapHolds
  BY DEF CapInv
<1> QED BY <1>1, <1>2, <1>3, BookTypeCorrect, PTL DEF BookSpec

-----------------------------------------------------------------------------
(* The paid delivery.                                                       *)

\* The flag of the request is the gate: before it nothing was enqueued or mailed,
\* after it one handler at most has its receipt still to mail.
PaidOnce ==
    /\ ~expedited => /\ \A o \in Targets : jobs[o] = 0
                     /\ receipts + lost = 0
                     /\ \A s \in Sessions : event[s] = "idle"
    /\ \A s \in Sessions : event[s] = "receipt" => receipts + lost = 0
    /\ \A s, t \in Sessions : event[s] = "receipt" /\ event[t] = "receipt" => s = t

LEMMA ConciergeTyped == ConciergeSpec => []ConciergeTypeOK
<1> USE ConciergeAssumption
<1>1. ConciergeInit => ConciergeTypeOK
  <2> SUFFICES ASSUME ConciergeInit PROVE ConciergeTypeOK
    OBVIOUS
  <2>1. lost \in 0 .. MaxLost /\ receipts \in Nat /\ jobs \in [Targets -> Nat]
    BY DEF ConciergeInit
  <2>2. expedited \in BOOLEAN
    BY DEF ConciergeInit
  <2> QED BY <2>1, <2>2 DEF ConciergeInit, ConciergeTypeOK
<1>2. ASSUME ConciergeTypeOK, [ConciergeNext]_conciergeVars PROVE ConciergeTypeOK'
  <2> USE <1>2 DEF ConciergeTypeOK
  <2>1. ASSUME NEW s \in Sessions, OpenSession(s) \/ Pay(s) PROVE ConciergeTypeOK'
    BY <2>1 DEF OpenSession, Pay
  <2>2. ASSUME NEW s \in Sessions, Expedite(s) PROVE ConciergeTypeOK'
    <3>1. match' \in [Targets -> {"none", "delayed", "pending"}]
      BY <2>2 DEF Expedite
    <3>2. jobs' \in [Targets -> Nat]
      BY <2>2 DEF Expedite
    <3> QED BY <2>2, <3>1, <3>2 DEF Expedite
  <2>3. ASSUME NEW s \in Sessions, MailReceipt(s) \/ HandlerDies(s) PROVE ConciergeTypeOK'
    BY <2>3 DEF MailReceipt, HandlerDies
  <2>4. CASE (\E o \in Targets : DelayPasses(o)) \/ CloseRequest
    BY <2>4 DEF DelayPasses, CloseRequest
  <2>5. CASE FanOut
    BY <2>5 DEF FanOut
  <2>6. CASE UNCHANGED conciergeVars
    BY <2>6 DEF conciergeVars
  <2> QED BY <2>1, <2>2, <2>3, <2>4, <2>5, <2>6 DEF ConciergeNext
<1> QED BY <1>1, <1>2, PTL DEF ConciergeSpec

\* However many sessions are paid and however often their events come, an operator
\* is announced at most once and at most one receipt goes out.
THEOREM PaidDeliveryIsOnce == ConciergeSpec => []ExpeditedOnce
<1>1. ConciergeInit => PaidOnce /\ ExpeditedOnce
  BY DEF ConciergeInit, PaidOnce, ExpeditedOnce
<1>2. ASSUME ConciergeTypeOK, PaidOnce, ExpeditedOnce, [ConciergeNext]_conciergeVars
      PROVE  PaidOnce' /\ ExpeditedOnce'
  <2> USE <1>2 DEF PaidOnce, ExpeditedOnce, ConciergeTypeOK
  <2>1. ASSUME NEW s \in Sessions, Expedite(s) PROVE PaidOnce' /\ ExpeditedOnce'
    <3>1. \A o \in Targets : jobs'[o] <= 1
      BY <2>1 DEF Expedite
    <3>2. event' = [event EXCEPT ![s] = "receipt"] /\ \A t \in Sessions : event[t] = "idle"
      BY <2>1 DEF Expedite
    <3>3. expedited' /\ receipts' + lost' = 0
      BY <2>1 DEF Expedite
    <3> QED BY <3>1, <3>2, <3>3
  <2>2. ASSUME NEW s \in Sessions, MailReceipt(s) \/ HandlerDies(s)
        PROVE  PaidOnce' /\ ExpeditedOnce'
    <3>1. event[s] = "receipt" /\ event' = [event EXCEPT ![s] = "idle"]
      BY <2>2 DEF MailReceipt, HandlerDies
    <3>2. receipts + lost = 0 /\ receipts \in Nat /\ lost \in Nat
      BY <3>1, ConciergeAssumption
    <3>3. receipts' + lost' = 1
      BY <2>2, <3>2 DEF MailReceipt, HandlerDies
    <3>4. expedited
      <4> SUFFICES ASSUME ~expedited PROVE event[s] = "idle"
        BY <3>1
      <4> QED OBVIOUS
    <3>5. \A t \in Sessions : event'[t] = "idle"
      BY <3>1
    <3>6. UNCHANGED <<expedited, jobs>>
      BY <2>2 DEF MailReceipt, HandlerDies
    <3> QED BY <3>2, <3>3, <3>4, <3>5, <3>6
  <2>3. CASE UNCHANGED <<expedited, jobs, receipts, lost, event>>
    BY <2>3
  <2> QED BY <2>1, <2>2, <2>3
          DEF ConciergeNext, OpenSession, Pay, FanOut, DelayPasses, CloseRequest, conciergeVars
<1> QED BY <1>1, <1>2, ConciergeTyped, PTL DEF ConciergeSpec


-----------------------------------------------------------------------------
(* Signing in.                                                              *)

LEMMA AtRestIsTyped == AtRest \in DoorState
BY AccessAssumption DEF AtRest, DoorState, DoorPcs, SignIn, Roles, Instants

LEMMA EntersTyped ==
    ASSUME NEW pc \in DoorPcs, NEW link \in Links \cup {"none"},
           pc \in SignIn => link \in Links
    PROVE  [AtRest EXCEPT !.pc = pc, !.link = link] \in DoorState
BY AtRestIsTyped DEF DoorState

LEMMA ClocksAreStamps ==
    ASSUME AccessTypeOK, NEW d \in Doors
    PROVE  /\ ahead[d] \in Nat /\ ahead[d] <= Drift /\ now \in Nat
           /\ Clock(d) \in Nat /\ Clock(d) \in Instants /\ Clock(d) # Unsent
           /\ now <= Clock(d) /\ Clock(d) <= now + Drift
<1>1. /\ now \in Nat /\ now <= MaxNow /\ ahead[d] \in Nat /\ ahead[d] <= Drift
      /\ MaxNow \in Nat /\ Drift \in Nat
  BY AccessAssumption DEF AccessTypeOK, Times
<1> QED BY <1>1 DEF Clock, Instants, Unsent

\* The user, the ledger, the cookies and the requests in flight are well typed.
THEOREM AccessTypeCorrect == AccessSpec => []AccessTypeOK
<1> USE AccessAssumption
<1>1. AccessInit => AccessTypeOK
  <2> SUFFICES ASSUME AccessInit PROVE AccessTypeOK
    OBVIOUS
  <2>1. user \in [role : Roles, version : 1 .. MaxVersion]
    BY DEF AccessInit, Roles
  <2>2. door \in [Doors -> DoorState]
    BY AtRestIsTyped DEF AccessInit
  <2>3. /\ now \in Times /\ ahead \in [Doors -> 0 .. Drift]
        /\ mailed \in [Links -> Instants \cup {Unsent}] /\ minted \in [Links -> Nat]
    BY DEF AccessInit, Times
  <2>4. /\ listed \in BOOLEAN /\ resynced \in BOOLEAN /\ used = {}
        /\ cookies = {} /\ revoked = {} /\ outlived = {} /\ late = {}
    BY DEF AccessInit
  <2> QED BY <2>1, <2>2, <2>3, <2>4 DEF AccessTypeOK
<1>2. ASSUME AccessTypeOK, [AccessNext]_accessVars PROVE AccessTypeOK'
  <2> DEFINE Waiting == {d \in Doors : door[d].pc \in {"create", "sync", "cookie"}}
  <2>1. /\ now \in Times /\ ahead \in [Doors -> 0 .. Drift]
        /\ listed \in BOOLEAN /\ resynced \in BOOLEAN
        /\ user \in [role : Roles, version : 1 .. MaxVersion]
        /\ mailed \in [Links -> Instants \cup {Unsent}]
        /\ used \subseteq [link : Links, till : 0 .. MaxNow + Drift + LinkTtl]
        /\ cookies \subseteq Cookies /\ revoked \subseteq Cookies
        /\ door \in [Doors -> DoorState] /\ minted \in [Links -> Nat]
        /\ outlived \subseteq Links /\ late \subseteq Waiting
    BY <1>2 DEF AccessTypeOK
  \* A request that moves on, and the histories of the others.
  <2>2. ASSUME NEW d \in Doors, NEW r \in DoorState, door' = [door EXCEPT ![d] = r]
        PROVE  /\ door' \in [Doors -> DoorState] /\ door'[d] = r
               /\ \A e \in Doors \ {d} : door'[e] = door[e]
    BY <2>1, <2>2
  <2>3. ASSUME NEW d \in Doors, \A e \in Doors \ {d} : door'[e] = door[e],
               late' \subseteq Waiting, d \in late' => door'[d].pc \in {"create", "sync", "cookie"}
        PROVE  late' \subseteq Waiting'
    BY <2>3
  <2>4. ASSUME NEW d \in Doors, NEW wants \in Intents, RequestLink(d, wants)
        PROVE  AccessTypeOK'
    <3>1. [AtRest EXCEPT !.pc = "create", !.wants = IF listed THEN "admin" ELSE wants] \in DoorState
      BY AtRestIsTyped DEF DoorState, DoorPcs, SignIn, Roles
    <3>2. /\ door' \in [Doors -> DoorState] /\ door'[d].pc = "create"
          /\ \A e \in Doors \ {d} : door'[e] = door[e]
      BY <2>2, <2>4, <3>1 DEF RequestLink, AtRest
    <3>3. late' \subseteq Waiting'
      BY <2>1, <2>3, <2>4, <3>2 DEF RequestLink, histories
    <3> QED BY <2>1, <2>4, <3>2, <3>3 DEF RequestLink, histories, AccessTypeOK
  <2>5. ASSUME NEW d \in Doors, CreateUser(d) PROVE AccessTypeOK'
    <3> DEFINE row == IF user.role # "none" THEN user ELSE [user EXCEPT !.role = door[d].wants]
    <3>1. door[d] \in DoorState /\ door[d].wants \in Roles
      BY <2>1 DEF DoorState
    <3>2. row \in [role : Roles, version : 1 .. MaxVersion]
      BY <2>1, <3>1 DEF Roles
    <3>3. user' = row /\ door' = [door EXCEPT ![d] = [door[d] EXCEPT !.pc = "sync", !.saw = row.role]]
      BY <2>1, <2>5 DEF CreateUser
    <3> HIDE DEF row
    <3>4. /\ [door[d] EXCEPT !.pc = "sync", !.saw = row.role] \in DoorState
          /\ [door[d] EXCEPT !.pc = "sync", !.saw = row.role].pc = "sync"
      BY <3>1, <3>2 DEF DoorState, DoorPcs, SignIn
    <3>5. /\ door' \in [Doors -> DoorState] /\ door'[d].pc = "sync"
          /\ \A e \in Doors \ {d} : door'[e] = door[e]
      BY <2>2, <3>3, <3>4
    <3>6. late' \subseteq Waiting'
      BY <2>1, <2>3, <2>5, <3>5 DEF CreateUser, histories
    <3> QED BY <2>1, <2>5, <3>2, <3>3, <3>5, <3>6 DEF CreateUser, histories, AccessTypeOK
  <2>6. ASSUME NEW d \in Doors, SyncRole(d) PROVE AccessTypeOK'
    <3>1. door[d].wants \in Roles
      BY <2>1 DEF DoorState
    <3>2. user' \in [role : Roles, version : 1 .. MaxVersion]
      BY <2>1, <2>6, <3>1 DEF SyncRole
    <3>3. [AtRest EXCEPT !.pc = "mail", !.link = "none"] \in DoorState
      BY EntersTyped DEF DoorPcs, SignIn
    <3>4. door' \in [Doors -> DoorState] /\ \A e \in Doors \ {d} : door'[e] = door[e]
      BY <2>2, <2>6, <3>3 DEF SyncRole, Enter
    <3>5. resynced' \in BOOLEAN /\ late' \subseteq Waiting /\ d \notin late'
      BY <2>1, <2>6 DEF SyncRole
    <3>6. late' \subseteq Waiting'
      BY <2>3, <3>4, <3>5
    <3> QED BY <2>1, <2>6, <3>2, <3>4, <3>5, <3>6 DEF SyncRole, AccessTypeOK
  <2>7. ASSUME NEW d \in Doors, NEW k \in Links, MailLink(d, k) PROVE AccessTypeOK'
    <3>1. mailed' \in [Links -> Instants \cup {Unsent}]
      BY <1>2, <2>1, <2>7, ClocksAreStamps DEF MailLink
    <3>2. door' \in [Doors -> DoorState] /\ \A e \in Doors \ {d} : door'[e] = door[e]
      BY <2>2, <2>7, AtRestIsTyped DEF MailLink, Leave
    <3>3. late' \subseteq Waiting'
      BY <2>1, <2>3, <2>7, <3>2 DEF MailLink, histories
    <3> QED BY <2>1, <2>7, <3>1, <3>2, <3>3 DEF MailLink, histories, AccessTypeOK
  <2>8. ASSUME NEW d \in Doors, NEW k \in Links, VerifyMagicLink(d, k) PROVE AccessTypeOK'
    <3>1. [AtRest EXCEPT !.pc = "prune", !.link = k, !.at = Clock(d)] \in DoorState
      BY <1>2, AtRestIsTyped, ClocksAreStamps DEF DoorState, DoorPcs, SignIn
    <3>2. door' \in [Doors -> DoorState] /\ \A e \in Doors \ {d} : door'[e] = door[e]
      BY <2>2, <2>8, <3>1 DEF VerifyMagicLink
    <3>3. late' \subseteq Waiting'
      BY <2>1, <2>3, <2>8, <3>2 DEF VerifyMagicLink, histories
    <3> QED BY <2>1, <2>8, <3>2, <3>3 DEF VerifyMagicLink, histories, AccessTypeOK
  <2>9. ASSUME NEW d \in Doors, PruneLedger(d) PROVE AccessTypeOK'
    <3>1. door[d] \in DoorState /\ door[d].pc = "prune"
      BY <2>1, <2>9 DEF PruneLedger
    <3>2. [door[d] EXCEPT !.pc = "insert"] \in DoorState
      BY <3>1 DEF DoorState, DoorPcs, SignIn
    <3>3. door' \in [Doors -> DoorState] /\ \A e \in Doors \ {d} : door'[e] = door[e]
      BY <2>1, <2>2, <2>9, <3>2 DEF PruneLedger
    <3>4. late' \subseteq Waiting'
      BY <2>1, <2>3, <2>9, <3>1, <3>3 DEF PruneLedger, histories
    <3> QED BY <2>1, <2>9, <3>3, <3>4 DEF PruneLedger, histories, AccessTypeOK
  <2>10. ASSUME NEW d \in Doors, InsertSig(d) PROVE AccessTypeOK'
    <3> DEFINE k == door[d].link
               row == [link |-> k, till |-> door[d].at + LinkTtl]
    <3>1. k \in Links /\ door[d].at \in Instants /\ door[d].pc = "insert"
      BY <2>1, <2>10 DEF InsertSig, DoorState, SignIn
    <3>2. row \in [link : Links, till : 0 .. MaxNow + Drift + LinkTtl]
      BY <3>1 DEF Instants
    <3>3. /\ used' \subseteq used \cup {row} /\ outlived' \subseteq outlived \cup {k}
          /\ Leave(d) \/ Enter(d, "user", k)
      BY <2>10 DEF InsertSig
    <3>4. [AtRest EXCEPT !.pc = "user", !.link = k] \in DoorState
      BY <3>1, EntersTyped DEF DoorPcs, SignIn
    <3>5. door' \in [Doors -> DoorState] /\ \A e \in Doors \ {d} : door'[e] = door[e]
      BY <2>2, <3>3, <3>4, AtRestIsTyped DEF Leave, Enter
    <3>6. late' \subseteq Waiting'
      BY <2>1, <2>3, <2>10, <3>1, <3>5 DEF InsertSig
    <3>7. /\ used' \subseteq [link : Links, till : 0 .. MaxNow + Drift + LinkTtl]
          /\ outlived' \subseteq Links
      BY <2>1, <3>1, <3>2, <3>3
    <3> HIDE DEF k, row
    <3> QED BY <2>1, <2>10, <3>5, <3>6, <3>7 DEF InsertSig, AccessTypeOK
  <2>11. ASSUME NEW d \in Doors, LoadUser(d) PROVE AccessTypeOK'
    <3>1. door[d] \in DoorState /\ door[d].pc = "user" /\ user.version \in 1 .. MaxVersion
      BY <2>1, <2>11 DEF LoadUser
    <3>2. [door[d] EXCEPT !.pc = "cookie", !.version = user.version] \in DoorState
      BY <3>1 DEF DoorState, DoorPcs, SignIn
    <3>3. /\ door' = [door EXCEPT ![d] = [door[d] EXCEPT !.pc = "cookie", !.version = user.version]]
          /\ [door[d] EXCEPT !.pc = "cookie", !.version = user.version].pc = "cookie"
      BY <2>1, <2>11, <3>1 DEF LoadUser, DoorState
    <3>4. /\ door' \in [Doors -> DoorState] /\ door'[d].pc = "cookie"
          /\ \A e \in Doors \ {d} : door'[e] = door[e]
      BY <2>2, <3>2, <3>3
    <3>5. late' \subseteq Waiting'
      BY <2>1, <2>3, <2>11, <3>4 DEF LoadUser, histories
    <3> QED BY <2>1, <2>11, <3>4, <3>5 DEF LoadUser, histories, AccessTypeOK
  <2>12. ASSUME NEW d \in Doors, SetCookie(d) PROVE AccessTypeOK'
    <3> DEFINE c == [version |-> door[d].version, at |-> Clock(d)]
    <3>1. c \in Cookies
      BY <1>2, <2>1, ClocksAreStamps DEF DoorState, Cookies
    <3>2. /\ cookies' = cookies \cup {c} /\ revoked' \subseteq revoked \cup {c}
          /\ late' = late \ {d} /\ Leave(d) /\ door[d].pc = "cookie"
          /\ minted' = [minted EXCEPT ![door[d].link] = minted[door[d].link] + 1]
          /\ UNCHANGED <<now, ahead, listed, user, mailed, used, outlived, resynced>>
      BY <2>12 DEF SetCookie, Sign
    <3>3. door[d].link \in Links
      BY <2>1, <3>2 DEF DoorState, SignIn
    <3>4. minted' \in [Links -> Nat]
      BY <2>1, <3>2, <3>3
    <3>5. door' \in [Doors -> DoorState] /\ \A e \in Doors \ {d} : door'[e] = door[e]
      BY <2>2, <3>2, AtRestIsTyped DEF Leave
    <3>6. late' \subseteq Waiting'
      BY <2>1, <2>3, <3>2, <3>5
    <3> HIDE DEF c
    <3>7. cookies' \subseteq Cookies /\ revoked' \subseteq Cookies
      BY <2>1, <3>1, <3>2
    <3> QED BY <2>1, <3>2, <3>4, <3>5, <3>6, <3>7 DEF AccessTypeOK
  <2>13. ASSUME NEW c \in cookies, Logout(c) PROVE AccessTypeOK'
    <3>1. user' \in [role : Roles, version : 1 .. MaxVersion]
      BY <2>1, <2>13 DEF Logout
    <3>2. late' \subseteq Waiting'
      BY <2>1, <2>13 DEF Logout
    <3> QED BY <2>1, <2>13, <3>1, <3>2 DEF Logout, AccessTypeOK
  <2>14. CASE Tick
    <3>1. now' \in Times
      BY <2>1, <2>14 DEF Tick, Times
    <3> QED BY <2>1, <2>14, <3>1 DEF Tick, histories, AccessTypeOK
  <2>15. ASSUME NEW gone \in SUBSET Doors, Redeploy(gone) PROVE AccessTypeOK'
    <3>1. door' \in [Doors -> DoorState] /\ \A d \in Doors \ gone : door'[d] = door[d]
      BY <2>1, <2>15, AtRestIsTyped DEF Redeploy
    <3>2. listed' \in BOOLEAN /\ resynced' \in BOOLEAN
      BY <2>15 DEF Redeploy
    <3>3. late' \subseteq Waiting'
      BY <2>1, <2>15, <3>1 DEF Redeploy
    <3> QED BY <2>1, <2>15, <3>1, <3>2, <3>3 DEF Redeploy, AccessTypeOK
  <2>16. CASE UNCHANGED accessVars
    BY <2>1, <2>16 DEF accessVars, AccessTypeOK
  <2> QED BY <1>2, <2>4, <2>5, <2>6, <2>7, <2>8, <2>9, <2>10, <2>11, <2>12, <2>13, <2>14, <2>15, <2>16
          DEF AccessNext
<1> QED BY <1>1, <1>2, PTL DEF AccessSpec

LEMMA LeaveMoves ==
    ASSUME AccessTypeOK, NEW d \in Doors, Leave(d)
    PROVE  door'[d] = AtRest /\ \A e \in Doors \ {d} : door'[e] = door[e]
BY DEF AccessTypeOK, Leave

LEMMA EnterMoves ==
    ASSUME AccessTypeOK, NEW d \in Doors, NEW pc, NEW link, Enter(d, pc, link)
    PROVE  /\ door'[d].pc = pc /\ door'[d].link = link /\ door'[d].version = 1
           /\ \A e \in Doors \ {d} : door'[e] = door[e]
BY DEF AccessTypeOK, Enter, AtRest

\* A request of the sign-in form moves alone and leaves the ledger and the sessions.
LEMMA FormSteps ==
    ASSUME AccessTypeOK, NEW d \in Doors,
           \/ \E wants \in Intents : RequestLink(d, wants)
           \/ CreateUser(d) \/ SyncRole(d)
           \/ \E k \in Links : MailLink(d, k)
    PROVE  /\ door[d].pc \notin SignIn /\ door'[d].pc \notin SignIn
           /\ \A e \in Doors \ {d} : door'[e] = door[e]
           /\ UNCHANGED <<now, ahead, listed, used, cookies, minted, outlived, revoked>>
           /\ user'.version = user.version
           /\ door'[d].version = 1 \/ door'[d].version = door[d].version
<1>1. door \in [Doors -> DoorState] /\ user \in [role : Roles, version : 1 .. MaxVersion]
  BY DEF AccessTypeOK
<1>2. CASE \E wants \in Intents : RequestLink(d, wants)
  <2> PICK wants \in Intents : RequestLink(d, wants)
    BY <1>2
  <2> QED BY <1>1 DEF RequestLink, AtRest, SignIn, histories
<1>3. CASE CreateUser(d)
  <2>1. user'.version = user.version
    BY <1>1, <1>3 DEF CreateUser
  <2> QED BY <1>1, <1>3, <2>1 DEF CreateUser, DoorState, SignIn, histories
<1>4. CASE SyncRole(d)
  <2>1. user'.version = user.version
    BY <1>1, <1>4 DEF SyncRole
  <2> QED BY <1>1, <1>4, <2>1 DEF SyncRole, Enter, AtRest, SignIn
<1>5. CASE \E k \in Links : MailLink(d, k)
  <2> PICK k \in Links : MailLink(d, k)
    BY <1>5
  <2> QED BY <1>1 DEF MailLink, Leave, AtRest, SignIn, histories
<1> QED BY <1>2, <1>3, <1>4, <1>5

\* A request of the callback moves alone and leaves the user and the links.
LEMMA CallbackSteps ==
    ASSUME AccessTypeOK, NEW d \in Doors,
           \/ \E k \in Links : VerifyMagicLink(d, k)
           \/ PruneLedger(d) \/ InsertSig(d) \/ LoadUser(d) \/ SetCookie(d)
    PROVE  /\ door[d].pc \in SignIn \cup {"idle"} /\ door'[d].pc \in SignIn \cup {"idle"}
           /\ \A e \in Doors \ {d} : door'[e] = door[e]
           /\ UNCHANGED <<now, ahead, listed, user, mailed, resynced>>
           /\ late' = late \/ late' = late \ {d}
<1>1. door \in [Doors -> DoorState]
  BY DEF AccessTypeOK
<1>2. CASE \E k \in Links : VerifyMagicLink(d, k)
  <2> PICK k \in Links : VerifyMagicLink(d, k)
    BY <1>2
  <2> QED BY <1>1 DEF VerifyMagicLink, AtRest, SignIn, histories
<1>3. CASE PruneLedger(d)
  <2>1. /\ door[d].pc = "prune" /\ door' = [door EXCEPT ![d] = [door[d] EXCEPT !.pc = "insert"]]
        /\ UNCHANGED <<now, ahead, listed, user, mailed, resynced, late>>
    BY <1>1, <1>3 DEF PruneLedger, histories
  <2>2. door'[d].pc = "insert" /\ \A e \in Doors \ {d} : door'[e] = door[e]
    BY <1>1, <2>1 DEF DoorState
  <2> QED BY <2>1, <2>2 DEF SignIn
<1>4. CASE InsertSig(d)
  <2>1. Leave(d) \/ Enter(d, "user", door[d].link)
    BY <1>4 DEF InsertSig
  <2>2. door'[d].pc \in {"idle", "user"}
    BY <2>1, LeaveMoves, EnterMoves DEF AtRest
  <2>3. \A e \in Doors \ {d} : door'[e] = door[e]
    BY <2>1, LeaveMoves, EnterMoves
  <2>4. UNCHANGED <<now, ahead, listed, user, mailed, resynced, late>> /\ door[d].pc = "insert"
    BY <1>4 DEF InsertSig
  <2> QED BY <2>2, <2>3, <2>4 DEF SignIn
<1>5. CASE LoadUser(d)
  BY <1>1, <1>5 DEF LoadUser, DoorState, SignIn, histories
<1>6. CASE SetCookie(d)
  BY <1>1, <1>6 DEF SetCookie, Sign, Leave, AtRest, SignIn
<1> QED BY <1>2, <1>3, <1>4, <1>5, <1>6

-----------------------------------------------------------------------------
(* Signing in: what is taken stays taken.                                   *)

\* A logout leaves every cookie behind the user's version, the ones on their way
\* included, and no request holds a version ahead of it.
VersionsLag ==
    /\ \A c \in revoked : c.version < user.version
    /\ \A c \in cookies : c.version <= user.version
    /\ \A d \in Doors : door[d].version <= user.version
    /\ \A d \in late : door[d].pc = "cookie" => door[d].version < user.version

\* While the mailbox is not listed only late requests ask for the admin role, and
\* whoever else is about to write the role has seen whether the user is an admin.
NobodyPromotes ==
    /\ \A d \in Doors : door[d].pc \in {"create", "sync"} => door[d].wants # "none"
    /\ (\E d \in Doors : door[d].pc = "sync") \/ resynced => user.role # "none"
    /\ ~listed => \A d \in Doors \ late :
          /\ door[d].pc \in {"create", "sync"} => door[d].wants # "admin"
          /\ door[d].pc = "sync" /\ user.role = "admin" => door[d].saw = "admin"

LEMMA LagKept ==
    ASSUME AccessTypeOK, AccessTypeOK', VersionsLag, [AccessNext]_accessVars
    PROVE  VersionsLag'
<1>1. /\ user.version \in Nat /\ user.version >= 1
      /\ \A c \in cookies \cup revoked : c.version \in Nat
      /\ \A d \in Doors : door[d].version \in Nat
      /\ door \in [Doors -> DoorState] /\ user \in [role : Roles, version : 1 .. MaxVersion]
      /\ late \subseteq Doors
  BY AccessAssumption DEF AccessTypeOK, Cookies, DoorState
<1>2. ASSUME NEW d \in Doors,
             \/ \E wants \in Intents : RequestLink(d, wants)
             \/ CreateUser(d) \/ SyncRole(d)
             \/ \E k \in Links : MailLink(d, k)
      PROVE  VersionsLag'
  <2>1. /\ door'[d].pc \notin SignIn /\ \A e \in Doors \ {d} : door'[e] = door[e]
        /\ UNCHANGED <<cookies, revoked>> /\ user'.version = user.version
        /\ door'[d].version = 1 \/ door'[d].version = door[d].version
    BY <1>2, FormSteps
  <2>2. ASSUME NEW e \in late', door'[e].pc = "cookie" PROVE e \in late
    <3>1. CASE SyncRole(d)
      BY <1>1, <2>1, <2>2, <3>1 DEF SyncRole, SignIn, AccessTypeOK
    <3>2. CASE late' = late
      BY <2>2, <3>2
    <3> QED BY <1>2, <3>1, <3>2 DEF RequestLink, CreateUser, MailLink, histories
  <2>3. \A e \in late' : door'[e].pc = "cookie" => door'[e].version < user'.version
    <3> SUFFICES ASSUME NEW e \in late', door'[e].pc = "cookie"
                 PROVE  door'[e].version < user'.version
      OBVIOUS
    <3>1. e \in late /\ e # d
      BY <2>1, <2>2 DEF SignIn
    <3> QED BY <1>1, <2>1, <3>1 DEF VersionsLag
  <2> QED BY <1>1, <2>1, <2>3 DEF VersionsLag
<1>3. ASSUME NEW d \in Doors,
             \/ \E k \in Links : VerifyMagicLink(d, k)
             \/ PruneLedger(d) \/ InsertSig(d)
      PROVE  VersionsLag'
  <2>1. /\ door'[d].pc # "cookie" /\ UNCHANGED <<cookies, revoked>>
        /\ door'[d].version = 1 \/ door'[d].version = door[d].version
    <3>1. CASE \E k \in Links : VerifyMagicLink(d, k)
      BY <1>1, <3>1 DEF VerifyMagicLink, AtRest, histories
    <3>2. CASE PruneLedger(d)
      BY <1>1, <3>2 DEF PruneLedger, DoorState, histories
    <3>3. CASE InsertSig(d)
      <4>1. Leave(d) \/ Enter(d, "user", door[d].link)
        BY <3>3 DEF InsertSig
      <4>2. door'[d].pc \in {"idle", "user"} /\ door'[d].version = 1
        BY <4>1, LeaveMoves, EnterMoves DEF AtRest
      <4>3. UNCHANGED <<cookies, revoked>>
        BY <3>3 DEF InsertSig
      <4> QED BY <4>2, <4>3
    <3> QED BY <1>3, <3>1, <3>2, <3>3
  <2>2. /\ \A e \in Doors \ {d} : door'[e] = door[e]
        /\ UNCHANGED user /\ late' \subseteq late
    BY <1>3, CallbackSteps
  <2> QED BY <1>1, <2>1, <2>2 DEF VersionsLag
<1>4. ASSUME NEW d \in Doors, LoadUser(d) PROVE VersionsLag'
  <2>1. /\ UNCHANGED <<user, cookies, revoked, late>> /\ door[d].pc = "user"
        /\ door'[d].version = user.version
        /\ \A e \in Doors \ {d} : door'[e] = door[e]
    BY <1>1, <1>4 DEF LoadUser, DoorState, histories
  <2>2. d \notin late
    BY <2>1 DEF AccessTypeOK
  <2> QED BY <1>1, <2>1, <2>2 DEF VersionsLag
<1>5. ASSUME NEW d \in Doors, SetCookie(d) PROVE VersionsLag'
  <2> DEFINE c == [version |-> door[d].version, at |-> Clock(d)]
  <2>1. /\ UNCHANGED user /\ cookies' = cookies \cup {c} /\ c.version = door[d].version
        /\ revoked' = IF d \in late THEN revoked \cup {c} ELSE revoked
        /\ door[d].pc = "cookie" /\ late' = late \ {d} /\ door'[d].version = 1
        /\ \A e \in Doors \ {d} : door'[e] = door[e]
    BY <1>1, <1>5 DEF SetCookie, Sign, Leave, AtRest
  <2> HIDE DEF c
  <2>2. \A x \in revoked' : x.version < user'.version
    BY <2>1 DEF VersionsLag
  <2> QED BY <1>1, <2>1, <2>2 DEF VersionsLag
<1>6. ASSUME NEW c \in cookies, Logout(c) PROVE VersionsLag'
  <2>1. /\ user'.version = user.version + 1 /\ revoked' = cookies
        /\ UNCHANGED <<cookies, door>> /\ late' \subseteq Doors
    BY <1>1, <1>6 DEF Logout
  <2> QED BY <1>1, <2>1 DEF VersionsLag
<1>7. CASE Tick \/ UNCHANGED accessVars
  BY <1>7 DEF Tick, accessVars, histories, VersionsLag
<1>8. ASSUME NEW gone \in SUBSET Doors, Redeploy(gone) PROVE VersionsLag'
  <2>1. /\ UNCHANGED <<user, cookies, revoked>>
        /\ \A d \in Doors : door'[d] = IF d \in gone THEN AtRest ELSE door[d]
        /\ \A d \in late' : d \in Doors /\ d \notin gone
                            /\ (door'[d].pc = "cookie" => d \in late)
    BY <1>1, <1>8 DEF Redeploy
  <2> QED BY <1>1, <2>1 DEF VersionsLag, AtRest
<1> QED BY <1>2, <1>3, <1>4, <1>5, <1>6, <1>7, <1>8 DEF AccessNext

LEMMA NobodyPromotesKept ==
    ASSUME AccessTypeOK, NobodyPromotes, DelistedIsOut, [AccessNext]_accessVars
    PROVE  NobodyPromotes' /\ DelistedIsOut'
<1>1. /\ door \in [Doors -> DoorState] /\ user \in [role : Roles, version : 1 .. MaxVersion]
      /\ late \subseteq {d \in Doors : door[d].pc \in {"create", "sync", "cookie"}}
      /\ resynced \in BOOLEAN /\ listed \in BOOLEAN
  BY DEF AccessTypeOK
<1>2. ASSUME NEW d \in Doors, NEW wants \in Intents, RequestLink(d, wants)
      PROVE  NobodyPromotes' /\ DelistedIsOut'
  <2>1. /\ UNCHANGED <<listed, user, resynced, late>>
        /\ door'[d].pc = "create" /\ door'[d].wants = IF listed THEN "admin" ELSE wants
        /\ \A e \in Doors \ {d} : door'[e] = door[e]
    BY <1>1, <1>2 DEF RequestLink, AtRest, histories
  <2>2. wants \in {"buyer", "operator"}
    BY AccessAssumption
  <2> QED BY <2>1, <2>2 DEF NobodyPromotes, DelistedIsOut
<1>3. ASSUME NEW d \in Doors, CreateUser(d) PROVE NobodyPromotes' /\ DelistedIsOut'
  <2>1. /\ UNCHANGED <<listed, resynced, late>> /\ door[d].pc = "create"
        /\ door'[d].pc = "sync" /\ door'[d].wants = door[d].wants
        /\ door'[d].saw = user'.role
        /\ \A e \in Doors \ {d} : door'[e] = door[e]
    BY <1>1, <1>3 DEF CreateUser, DoorState, histories
  <2>2. \/ user' = user /\ user.role # "none"
        \/ user.role = "none" /\ user'.role = door[d].wants
    BY <1>1, <1>3 DEF CreateUser
  <2>3. user'.role # "none"
    BY <2>1, <2>2 DEF NobodyPromotes
  <2>4. (\E e \in Doors : door[e].pc = "sync") \/ resynced => user' = user
    BY <2>2 DEF NobodyPromotes
  <2> QED BY <2>1, <2>3, <2>4 DEF NobodyPromotes, DelistedIsOut
<1>4. ASSUME NEW d \in Doors, SyncRole(d) PROVE NobodyPromotes' /\ DelistedIsOut'
  <2> DEFINE wants == door[d].wants
  <2>1. /\ UNCHANGED listed /\ door[d].pc = "sync" /\ door'[d].pc = "mail"
        /\ resynced' = (d \notin late)
        /\ late' = IF d \in late THEN (late \cup {e \in Doors : door[e].pc = "sync"}) \ {d}
                   ELSE late
        /\ \A e \in Doors \ {d} : door'[e] = door[e]
    BY <1>1, <1>4 DEF SyncRole, Enter, AtRest
  <2>2. /\ user' = user \/ user'.role = wants
        /\ "admin" \in {door[d].saw, wants} /\ wants # door[d].saw => user'.role = wants
    BY <1>1, <1>4 DEF SyncRole
  <2>3. wants # "none" /\ user.role # "none"
    BY <2>1 DEF NobodyPromotes
  <2>4. user'.role # "none"
    BY <2>2, <2>3
  <2> HIDE DEF wants
  <2>5. CASE d \in late
    BY <2>1, <2>4, <2>5 DEF NobodyPromotes, DelistedIsOut
  <2>6. CASE d \notin late
    <3>1. ~listed => door[d].wants # "admin"
                     /\ (user.role = "admin" => door[d].saw = "admin")
      BY <2>1, <2>6 DEF NobodyPromotes
    <3>2. ~listed => user'.role # "admin"
      BY <2>2, <3>1 DEF wants
    <3> QED BY <2>1, <2>4, <2>6, <3>2 DEF NobodyPromotes, DelistedIsOut
  <2> QED BY <2>5, <2>6
<1>5. ASSUME NEW d \in Doors, NEW k \in Links, MailLink(d, k)
      PROVE  NobodyPromotes' /\ DelistedIsOut'
  <2>1. /\ UNCHANGED <<listed, user, resynced, late>> /\ door'[d].pc = "idle"
        /\ \A e \in Doors \ {d} : door'[e] = door[e]
    BY <1>1, <1>5 DEF MailLink, Leave, AtRest, histories
  <2> QED BY <2>1 DEF NobodyPromotes, DelistedIsOut
<1>6. ASSUME NEW d \in Doors,
             \/ \E k \in Links : VerifyMagicLink(d, k)
             \/ PruneLedger(d) \/ InsertSig(d) \/ LoadUser(d) \/ SetCookie(d)
      PROVE  NobodyPromotes' /\ DelistedIsOut'
  <2>1. /\ UNCHANGED <<listed, user, resynced>> /\ door'[d].pc \notin {"create", "sync"}
        /\ \A e \in Doors \ {d} : door'[e] = door[e]
        /\ late' = late \/ late' = late \ {d}
    BY <1>6, CallbackSteps DEF SignIn
  <2> QED BY <2>1 DEF NobodyPromotes, DelistedIsOut
<1>7. ASSUME NEW c \in cookies, Logout(c) PROVE NobodyPromotes' /\ DelistedIsOut'
  <2>1. user'.role = user.role /\ UNCHANGED <<listed, door, resynced>> /\ late \subseteq late'
    BY <1>1, <1>7 DEF Logout
  <2> QED BY <2>1 DEF NobodyPromotes, DelistedIsOut
<1>8. CASE Tick \/ UNCHANGED accessVars
  BY <1>8 DEF Tick, accessVars, histories, NobodyPromotes, DelistedIsOut
<1>9. ASSUME NEW gone \in SUBSET Doors, Redeploy(gone) PROVE NobodyPromotes' /\ DelistedIsOut'
  <2>1. /\ resynced' = FALSE /\ UNCHANGED user
        /\ \A d \in Doors : \/ door'[d].pc = "idle"
                            \/ /\ door'[d] = door[d]
                               /\ door[d].pc \in {"create", "sync"} => d \in late'
    BY <1>1, <1>9 DEF Redeploy, AtRest
  <2> QED BY <2>1 DEF NobodyPromotes, DelistedIsOut
<1> QED BY <1>2, <1>3, <1>4, <1>5, <1>6, <1>7, <1>8, <1>9 DEF AccessNext

\* A session from before a logout is dead, whether its cookie was set before the
\* logout or is set by a callback the logout overtook, and so are the admin rights of
\* a mailbox that is no longer listed once a request that is not late has synced it.
THEOREM RevocationHolds == AccessSpec => []RevokedIsOut
<1>1. AccessInit => VersionsLag /\ NobodyPromotes /\ DelistedIsOut
  BY DEF AccessInit, VersionsLag, NobodyPromotes, DelistedIsOut, AtRest
<1>2. AccessTypeOK /\ AccessTypeOK' /\ VersionsLag /\ [AccessNext]_accessVars => VersionsLag'
  BY LagKept
<1>3. AccessTypeOK /\ NobodyPromotes /\ DelistedIsOut /\ [AccessNext]_accessVars
        => NobodyPromotes' /\ DelistedIsOut'
  BY NobodyPromotesKept
<1>4. AccessTypeOK /\ VersionsLag /\ DelistedIsOut => RevokedIsOut
  BY DEF AccessTypeOK, VersionsLag, RevokedIsOut, LoggedOutIsOut, CurrentUser, Cookies
<1> QED BY <1>1, <1>2, <1>3, <1>4, AccessTypeCorrect, PTL DEF AccessSpec

-----------------------------------------------------------------------------
(* Signing in: a link is good for one session.                              *)

Minting(d) == door[d].pc \in {"user", "cookie"}
Spent(k) == minted[k] > 0 \/ \E d \in Doors : Minting(d) /\ door[d].link = k

\* By every clock the link has lapsed; the ledger's row outlasts it by the drift.
Lapsed(k) == now > mailed[k] + LinkTtl
Remembered(k) == \E u \in used : u.link = k /\ u.till >= mailed[k] + Drift + LinkTtl

\* The ledger remembers a link that was used until the link has lapsed by every
\* clock, so a use that starts later is refused by the one or by the other.
LedgerOutlasts ==
    /\ \A d \in Doors : door[d].pc \in SignIn => mailed[door[d].link] # Unsent
    /\ \A k \in Links : Spent(k) => mailed[k] # Unsent
    /\ \A k \in Links \ outlived : Spent(k) => Remembered(k) \/ Lapsed(k)
OneUse ==
    /\ \A d \in Doors : Minting(d) /\ door[d].link \notin outlived => minted[door[d].link] = 0
    /\ \A d, e \in Doors : Minting(d) /\ Minting(e) /\ door[d].link = door[e].link
                             /\ door[d].link \notin outlived => d = e
LinkInv == LedgerOutlasts /\ OneUse /\ LinkSignsInOnce

\* A step that mints nothing, forgets nothing that matters and starts no use keeps
\* the invariant.
LEMMA NothingMinted ==
  ASSUME LinkInv, AccessTypeOK, AccessTypeOK', UNCHANGED <<minted, outlived>>,
         \A k \in Links : mailed[k] # Unsent => mailed'[k] = mailed[k],
         \A k \in Links : mailed[k] # Unsent /\ (Remembered(k) \/ Lapsed(k))
                            => Remembered(k)' \/ Lapsed(k)',
         \A d \in Doors : door'[d].pc \in SignIn =>
                             /\ mailed[door'[d].link] # Unsent
                             /\ Minting(d)' => Minting(d) /\ door'[d].link = door[d].link
  PROVE  LinkInv'
<1>1. \A d \in Doors : (door'[d].pc \in SignIn => door'[d].link \in Links) /\ (Minting(d)' => door'[d].pc \in SignIn)
  BY DEF AccessTypeOK, DoorState, Minting, SignIn
<1>2. \A k \in Links : Spent(k)' => Spent(k)
  BY <1>1 DEF Spent
<1>3. Unsent' = Unsent
  BY DEF Unsent
<1>4. LedgerOutlasts'
  BY <1>1, <1>2, <1>3 DEF LinkInv, LedgerOutlasts
<1>5. OneUse' /\ LinkSignsInOnce'
  BY <1>1 DEF LinkInv, OneUse, LinkSignsInOnce
<1> QED BY <1>4, <1>5 DEF LinkInv

LEMMA LinkInvKept ==
    ASSUME AccessTypeOK, AccessTypeOK', LinkInv, [AccessNext]_accessVars
    PROVE  LinkInv'
<1> USE AccessAssumption
<1>1. /\ door \in [Doors -> DoorState] /\ minted \in [Links -> Nat] /\ now \in Nat
      /\ mailed \in [Links -> Instants \cup {Unsent}]
      /\ \A k \in Links : mailed[k] \in Nat
      /\ \A u \in used : u.till \in Nat /\ u.link \in Links
      /\ LinkTtl \in Nat /\ Drift \in Nat
  BY DEF AccessTypeOK, Times, Instants, Unsent
<1>2. \A d \in Doors : door[d].pc \in SignIn => door[d].link \in Links
  BY <1>1 DEF DoorState
\* The sign-in form.
<1>3. ASSUME NEW d \in Doors,
             \/ \E wants \in Intents : RequestLink(d, wants)
             \/ CreateUser(d) \/ SyncRole(d)
             \/ \E k \in Links : MailLink(d, k)
      PROVE  LinkInv'
  <2>1. /\ door'[d].pc \notin SignIn /\ \A e \in Doors \ {d} : door'[e] = door[e]
        /\ UNCHANGED <<now, used, minted, outlived>>
    BY <1>3, FormSteps
  <2>2. \A j \in Links : mailed[j] # Unsent => mailed'[j] = mailed[j]
    <3>1. CASE UNCHANGED mailed
      BY <3>1
    <3>2. CASE \E k \in Links : MailLink(d, k)
      BY <1>1, <3>2 DEF MailLink
    <3> QED BY <1>3, <3>1, <3>2 DEF RequestLink, CreateUser, SyncRole
  <2>3. \A j \in Links : mailed[j] # Unsent /\ (Remembered(j) \/ Lapsed(j))
                           => Remembered(j)' \/ Lapsed(j)'
    BY <2>1, <2>2 DEF Remembered, Lapsed
  <2>4. \A e \in Doors : door'[e].pc \in SignIn =>
                           /\ mailed[door'[e].link] # Unsent
                           /\ Minting(e)' => Minting(e) /\ door'[e].link = door[e].link
    BY <2>1 DEF LinkInv, LedgerOutlasts, Minting
  <2> QED BY <2>1, <2>2, <2>3, <2>4, NothingMinted
\* The callback.
<1>4. ASSUME NEW d \in Doors, NEW k \in Links, VerifyMagicLink(d, k) PROVE LinkInv'
  <2>1. /\ door'[d].pc = "prune" /\ door'[d].link = k /\ mailed[k] # Unsent
        /\ \A e \in Doors \ {d} : door'[e] = door[e]
        /\ UNCHANGED <<now, used, minted, mailed, outlived>>
    BY <1>1, <1>4 DEF VerifyMagicLink, LinkIsFresh, AtRest, histories
  <2>2. \A j \in Links : mailed[j] # Unsent /\ (Remembered(j) \/ Lapsed(j))
                           => Remembered(j)' \/ Lapsed(j)'
    BY <2>1 DEF Remembered, Lapsed
  <2>3. \A e \in Doors : door'[e].pc \in SignIn =>
                           /\ mailed[door'[e].link] # Unsent
                           /\ Minting(e)' => Minting(e) /\ door'[e].link = door[e].link
    BY <2>1 DEF LinkInv, LedgerOutlasts, Minting
  <2> QED BY <2>1, <2>2, <2>3, NothingMinted
<1>5. ASSUME NEW d \in Doors, PruneLedger(d) PROVE LinkInv'
  <2>1. /\ door[d].pc = "prune" /\ door'[d].pc = "insert" /\ door'[d].link = door[d].link
        /\ \A e \in Doors \ {d} : door'[e] = door[e]
        /\ used' = {u \in used : u.till >= Clock(d)}
        /\ UNCHANGED <<now, minted, mailed, outlived>>
    BY <1>1, <1>5 DEF PruneLedger, DoorState, histories
  <2>2. Clock(d) \in Nat /\ Clock(d) <= now + Drift
    BY ClocksAreStamps
  \* What is pruned belongs to links that have lapsed by every clock.
  <2>3. ASSUME NEW j \in Links, mailed[j] # Unsent, Remembered(j) \/ Lapsed(j)
        PROVE  Remembered(j)' \/ Lapsed(j)'
    <3>1. CASE Lapsed(j)
      BY <2>1, <3>1 DEF Lapsed
    <3>2. CASE Remembered(j)
      <4>1. PICK u \in used : u.link = j /\ u.till >= mailed[j] + Drift + LinkTtl
        BY <3>2 DEF Remembered
      <4>2. CASE u.till >= Clock(d)
        BY <2>1, <4>1, <4>2 DEF Remembered
      <4>3. CASE ~(u.till >= Clock(d))
        <5>1. now > mailed[j] + LinkTtl
          BY <1>1, <2>2, <4>1, <4>3
        <5> QED BY <2>1, <5>1 DEF Lapsed
      <4> QED BY <4>2, <4>3
    <3> QED BY <2>3, <3>1, <3>2
  <2>4. \A e \in Doors : door'[e].pc \in SignIn =>
                           /\ mailed[door'[e].link] # Unsent
                           /\ Minting(e)' => Minting(e) /\ door'[e].link = door[e].link
    BY <2>1 DEF LinkInv, LedgerOutlasts, Minting, SignIn
  <2> QED BY <2>1, <2>3, <2>4, NothingMinted
<1>6. ASSUME NEW d \in Doors, InsertSig(d) PROVE LinkInv'
  <2> DEFINE k == door[d].link
             row == [link |-> k, till |-> door[d].at + LinkTtl]
  <2>1. /\ k \in Links /\ door[d].pc = "insert" /\ mailed[k] # Unsent
        /\ door[d].at \in Nat /\ door[d] \in DoorState
        /\ UNCHANGED <<now, minted, mailed>>
    BY <1>1, <1>2, <1>6 DEF InsertSig, LinkInv, LedgerOutlasts, SignIn, DoorState, Instants
  <2>2. CASE \E u \in used : u.link = k
    <3>1. Leave(d) /\ UNCHANGED <<used, outlived>>
      BY <1>6, <2>2 DEF InsertSig
    <3>2. door'[d].pc = "idle" /\ \A e \in Doors \ {d} : door'[e] = door[e]
      BY <1>1, <3>1 DEF Leave, AtRest
    <3>3. \A j \in Links : mailed[j] # Unsent /\ (Remembered(j) \/ Lapsed(j))
                             => Remembered(j)' \/ Lapsed(j)'
      BY <2>1, <3>1 DEF Remembered, Lapsed
    <3>4. \A e \in Doors : door'[e].pc \in SignIn =>
                             /\ mailed[door'[e].link] # Unsent
                             /\ Minting(e)' => Minting(e) /\ door'[e].link = door[e].link
      BY <3>2 DEF LinkInv, LedgerOutlasts, Minting, SignIn
    <3> QED BY <2>1, <3>1, <3>3, <3>4, NothingMinted
  <2>3. CASE ~ \E u \in used : u.link = k
    <3>1. /\ used' = used \cup {row} /\ Enter(d, "user", k)
          /\ outlived' = IF Outlives(d, k) THEN outlived \cup {k} ELSE outlived
      BY <1>6, <2>3 DEF InsertSig
    <3>2. /\ door'[d].pc = "user" /\ door'[d].link = k
          /\ \A e \in Doors \ {d} : door'[e] = door[e]
      BY <1>1, <3>1 DEF Enter, AtRest
    <3>3. \A j \in Links : Spent(j)' => Spent(j) \/ j = k
      BY <2>1, <3>2 DEF Spent, Minting
    <3>4. \A j \in Links : Remembered(j) \/ Lapsed(j) => Remembered(j)' \/ Lapsed(j)'
      BY <2>1, <3>1 DEF Remembered, Lapsed
    \* A use that is not exempt finds the link unspent and leaves a row that lasts.
    <3>5. ASSUME k \notin outlived' PROVE ~Spent(k) /\ Remembered(k)'
      <4>1. k \notin outlived /\ ~Outlives(d, k)
        BY <3>1, <3>5
      <4>2. now <= Clock(d) /\ Clock(d) \in Nat
        BY ClocksAreStamps
      <4>3. door[d].at >= mailed[k] + Drift /\ now <= mailed[k] + LinkTtl
        BY <1>1, <2>1, <4>1, <4>2 DEF Outlives
      <4>4. ~Spent(k)
        <5> SUFFICES ASSUME Spent(k) PROVE FALSE
          OBVIOUS
        <5>1. Remembered(k)
          BY <1>1, <2>1, <4>1, <4>3 DEF LinkInv, LedgerOutlasts, Lapsed
        <5> QED BY <2>3, <5>1 DEF Remembered
      <4>5. row \in used' /\ row.link = k /\ row.till >= mailed'[k] + Drift + LinkTtl
        BY <1>1, <2>1, <3>1, <4>3
      <4> QED BY <3>2, <4>4, <4>5 DEF Remembered
    <3> HIDE DEF row
    <3>6. LedgerOutlasts'
      <4>1. ASSUME NEW e \in Doors, door'[e].pc \in SignIn
            PROVE  mailed'[door'[e].link] # Unsent
        BY <2>1, <3>2, <4>1 DEF LinkInv, LedgerOutlasts
      <4>2. \A j \in Links : Spent(j)' => mailed'[j] # Unsent
        BY <2>1, <3>3 DEF LinkInv, LedgerOutlasts
      <4>3. \A j \in Links \ outlived' : Spent(j)' => Remembered(j)' \/ Lapsed(j)'
        BY <3>1, <3>2, <3>3, <3>4, <3>5 DEF LinkInv, LedgerOutlasts
      <4>4. Unsent' = Unsent
        BY DEF Unsent
      <4> QED BY <4>1, <4>2, <4>3, <4>4 DEF LedgerOutlasts
    <3>7. k \notin outlived' => minted[k] = 0 /\ \A e \in Doors : Minting(e) => door[e].link # k
      BY <1>1, <2>1, <3>5 DEF Spent
    <3>8. outlived \subseteq outlived'
      BY <3>1
    <3>9. OneUse'
      <4>1. ASSUME NEW e \in Doors, Minting(e)', door'[e].link \notin outlived'
            PROVE  minted'[door'[e].link] = 0
        BY <2>1, <3>2, <3>7, <3>8, <4>1 DEF LinkInv, OneUse, Minting
      <4>2. ASSUME NEW e \in Doors, NEW f \in Doors, Minting(e)', Minting(f)',
                   door'[e].link = door'[f].link, door'[e].link \notin outlived'
            PROVE  e = f
        BY <2>1, <3>2, <3>7, <3>8, <4>2 DEF LinkInv, OneUse, Minting
      <4> QED BY <4>1, <4>2 DEF OneUse
    <3>10. LinkSignsInOnce'
      BY <2>1, <3>8 DEF LinkInv, LinkSignsInOnce
    <3> QED BY <3>6, <3>9, <3>10 DEF LinkInv
  <2> QED BY <2>2, <2>3
<1>7. ASSUME NEW d \in Doors, LoadUser(d) PROVE LinkInv'
  <2>1. /\ door[d].pc = "user" /\ door'[d].pc = "cookie" /\ door'[d].link = door[d].link
        /\ \A e \in Doors \ {d} : door'[e] = door[e]
        /\ UNCHANGED <<now, used, minted, mailed, outlived>>
    BY <1>1, <1>7 DEF LoadUser, DoorState, histories
  <2>2. \A j \in Links : mailed[j] # Unsent /\ (Remembered(j) \/ Lapsed(j))
                           => Remembered(j)' \/ Lapsed(j)'
    BY <2>1 DEF Remembered, Lapsed
  <2>3. \A e \in Doors : door'[e].pc \in SignIn =>
                           /\ mailed[door'[e].link] # Unsent
                           /\ Minting(e)' => Minting(e) /\ door'[e].link = door[e].link
    BY <2>1 DEF LinkInv, LedgerOutlasts, Minting, SignIn
  <2> QED BY <2>1, <2>2, <2>3, NothingMinted
<1>8. ASSUME NEW d \in Doors, SetCookie(d) PROVE LinkInv'
  <2> DEFINE k == door[d].link
  <2>1. /\ minted' = [minted EXCEPT ![k] = minted[k] + 1] /\ door[d].pc = "cookie" /\ Leave(d)
        /\ UNCHANGED <<now, used, mailed, outlived>>
    BY <1>8 DEF SetCookie, Sign
  <2>2. /\ k \in Links /\ Minting(d)
        /\ k \notin outlived => /\ minted[k] = 0
                                /\ \A e \in Doors \ {d} : Minting(e) => door[e].link # k
    BY <1>2, <2>1 DEF Minting, SignIn, LinkInv, OneUse
  <2>3. minted'[k] = minted[k] + 1 /\ \A j \in Links \ {k} : minted'[j] = minted[j]
    BY <1>1, <2>1, <2>2
  <2>4. door'[d].pc = "idle" /\ \A e \in Doors \ {d} : door'[e] = door[e]
    BY <1>1, <2>1 DEF Leave, AtRest
  <2>5. \A j \in Links : Spent(j)' => Spent(j)
    BY <2>2, <2>3, <2>4 DEF Spent, Minting
  <2>6. \A j \in Links : Remembered(j) \/ Lapsed(j) => Remembered(j)' \/ Lapsed(j)'
    BY <2>1 DEF Remembered, Lapsed
  <2>7. LedgerOutlasts'
    <3>1. Unsent' = Unsent
      BY DEF Unsent
    <3> QED BY <2>1, <2>4, <2>5, <2>6, <3>1 DEF LinkInv, LedgerOutlasts, SignIn
  <2>8. OneUse'
    <3>1. ASSUME NEW e \in Doors, Minting(e)', door'[e].link \notin outlived'
          PROVE  minted'[door'[e].link] = 0
      <4>1. e # d /\ door'[e] = door[e] /\ Minting(e)
        BY <2>4, <3>1 DEF Minting
      <4>2. door[e].link \in Links /\ door[e].link # k
        BY <1>2, <2>1, <2>2, <3>1, <4>1 DEF Minting, SignIn
      <4> QED BY <2>1, <2>3, <3>1, <4>1, <4>2 DEF LinkInv, OneUse
    <3>2. ASSUME NEW e \in Doors, NEW f \in Doors, Minting(e)', Minting(f)',
                 door'[e].link = door'[f].link, door'[e].link \notin outlived'
          PROVE  e = f
      <4>1. e # d /\ f # d
        BY <2>4, <3>2 DEF Minting
      <4> QED BY <2>1, <2>4, <3>2, <4>1 DEF LinkInv, OneUse, Minting
    <3> QED BY <3>1, <3>2 DEF OneUse
  <2>9. LinkSignsInOnce'
    <3> SUFFICES ASSUME NEW j \in Links \ outlived' PROVE minted'[j] <= 1
      BY DEF LinkSignsInOnce
    <3>1. CASE j = k
      BY <2>1, <2>2, <2>3, <3>1
    <3>2. CASE j # k
      BY <2>1, <2>3, <3>2 DEF LinkInv, LinkSignsInOnce
    <3> QED BY <3>1, <3>2
  <2> QED BY <2>7, <2>8, <2>9 DEF LinkInv
<1>9. CASE \/ \E c \in cookies : Logout(c)
           \/ UNCHANGED accessVars
  <2>1. UNCHANGED <<now, used, minted, mailed, outlived, door>>
    BY <1>9 DEF Logout, accessVars
  <2>2. \A j \in Links : Remembered(j) \/ Lapsed(j) => Remembered(j)' \/ Lapsed(j)'
    BY <2>1 DEF Remembered, Lapsed
  <2> QED BY <2>1, <2>2, NothingMinted DEF LinkInv, LedgerOutlasts, Minting
<1>10. CASE Tick
  <2>1. now' = now + 1 /\ UNCHANGED <<used, minted, mailed, outlived, door>>
    BY <1>10 DEF Tick, histories
  <2>2. \A j \in Links : Remembered(j) \/ Lapsed(j) => Remembered(j)' \/ Lapsed(j)'
    BY <1>1, <2>1 DEF Remembered, Lapsed
  <2> QED BY <2>1, <2>2, NothingMinted DEF LinkInv, LedgerOutlasts, Minting
<1>11. ASSUME NEW gone \in SUBSET Doors, Redeploy(gone) PROVE LinkInv'
  <2>1. /\ UNCHANGED <<now, used, minted, mailed, outlived>>
        /\ \A d \in Doors : door'[d].pc \in SignIn => door'[d] = door[d]
    BY <1>1, <1>11 DEF Redeploy, AtRest, SignIn
  <2>2. \A j \in Links : Remembered(j) \/ Lapsed(j) => Remembered(j)' \/ Lapsed(j)'
    BY <2>1 DEF Remembered, Lapsed
  <2> QED BY <2>1, <2>2, NothingMinted DEF LinkInv, LedgerOutlasts, Minting
<1> QED BY <1>3, <1>4, <1>5, <1>6, <1>7, <1>8, <1>9, <1>10, <1>11 DEF AccessNext

\* However many clients post a link to however many instances, whatever their clocks
\* within the drift say, however the ledger is pruned and however often the process
\* is replaced, the link opens one session at most, unless it was used within the
\* drift of its stamp or reached the ledger after it had lapsed.
THEOREM LinksAreOneTime == AccessSpec => []LinkSignsInOnce
<1>1. AccessInit => LinkInv
  BY DEF AccessInit, LinkInv, LedgerOutlasts, OneUse, LinkSignsInOnce, Spent, Minting, AtRest,
         SignIn
<1>2. AccessTypeOK /\ AccessTypeOK' /\ LinkInv /\ [AccessNext]_accessVars => LinkInv'
  BY LinkInvKept
<1>3. LinkInv => LinkSignsInOnce
  BY DEF LinkInv
<1> QED BY <1>1, <1>2, <1>3, AccessTypeCorrect, PTL DEF AccessSpec

-----------------------------------------------------------------------------
(* The composition.                                                         *)

\* Each part moves in the composition as it does alone, or not at all.
LEMMA StorefrontSteps ==
    ASSUME [Next]_storeVars
    PROVE  /\ [BookNext]_bookVars /\ [AccountNext]_accountVars /\ [IntakeNext]_intakeVars
           /\ [ConciergeNext]_conciergeVars /\ [AccessNext]_accessVars
<1>1. CASE UNCHANGED storeVars
  BY <1>1 DEF storeVars
<1>2. CASE Next
  BY <1>2 DEF Next
<1> QED BY <1>1, <1>2

\* A behaviour of the composition is one of every part: what the theorems above
\* say of a part holds in the composition.
THEOREM StorefrontRunsItsParts ==
    Spec => BookSpec /\ AccountSpec /\ IntakeSpec /\ ConciergeSpec /\ AccessSpec
<1>1. Init => BookInit /\ AccountInit /\ IntakeInit /\ ConciergeInit /\ AccessInit
  BY DEF Init
<1>2. [Next]_storeVars =>
        /\ [BookNext]_bookVars /\ [AccountNext]_accountVars /\ [IntakeNext]_intakeVars
        /\ [ConciergeNext]_conciergeVars /\ [AccessNext]_accessVars
  BY StorefrontSteps
<1> QED
  BY <1>1, <1>2, PTL DEF Spec, BookSpec, AccountSpec, IntakeSpec, ConciergeSpec, AccessSpec

\* The rows of every part of the web application are well typed.
THEOREM StorefrontTypeCorrect == Spec => []StorefrontTypeOK
<1> QED
  BY StorefrontRunsItsParts, BookTypeCorrect, AccountTypeCorrect, IntakeTypeCorrect,
     ConciergeTyped, AccessTypeCorrect, PTL DEF StorefrontTypeOK
=============================================================================
