--------------------------- MODULE OperatorAccount ---------------------------
(***************************************************************************)
(* One operator's account: the profile (api/operators), the admin's verify *)
(* and suspend toggles, the away switch, and the Pro plan the payment      *)
(* provider's events pay for (lib/billing.ts, api/billing/webhook).        *)
(*                                                                         *)
(* Every handler reads, decides, and writes in later statements, and can   *)
(* die in between.  The provider delivers an event at least once, in any   *)
(* order; stamps are event.created, in seconds, so two events can share    *)
(* one.                                                                    *)
(***************************************************************************)
EXTENDS Naturals

CONSTANTS
    Hooks,         \* webhook requests that can be in flight
    Forms,         \* profile, admin and away requests that can be in flight
    MaxStamp,      \* bound: stamps of the provider's events
    MaxDeaths      \* bound: requests that die half way

ASSUME OperatorAccountAssumption == MaxStamp \in Nat \ {0} /\ MaxDeaths \in Nat

VARIABLES
    role,          \* users.role
    profile,       \* the operators row: [made, plan, verified, suspended, accepting]
    sub,           \* the subscriptions row: [status, at]; at = 0 without a stamp
    emitted,       \* events the provider has sent and may send again
    paying,        \* the provider's own state of the subscription
    hook,          \* hook[h]: [pc, ev], ev being the event it applies
    form,          \* form[f]: [pc, seen], seen being the row it has read
    deaths,        \* requests that died so far
    raced          \* history: plan writers overlapped, or one died half way

accountVars == <<role, profile, sub, emitted, paying, hook, form, deaths, raced>>

-----------------------------------------------------------------------------
Plans == {"free", "pro"}
Profile == [made : BOOLEAN, plan : Plans, verified : BOOLEAN, suspended : BOOLEAN,
            accepting : BOOLEAN]
Events == [kind : {"activated", "canceled"}, at : 1 .. MaxStamp]
HookPcs == {"idle", "activate", "reread", "cancel", "plan"}
FormPcs == {"idle", "upsert", "promote", "verify", "suspend", "away"}

NoProfile == [made |-> FALSE, plan |-> "free", verified |-> FALSE, suspended |-> FALSE,
              accepting |-> TRUE]
NoEvent == [kind |-> "activated", at |-> 1]
IdleHook == [pc |-> "idle", ev |-> NoEvent]
IdleForm == [pc |-> "idle", seen |-> NoProfile]

Stamps == {e.at : e \in emitted}

\* A request that will write the plan starts: does it overlap another one?
PlanWriters == {h \in Hooks : hook[h].pc # "idle"} \cup {f \in Forms : form[f].pc = "upsert"}
Overlap == raced' = (raced \/ PlanWriters # {})

AccountInit ==
    /\ role = "buyer"
    /\ profile = NoProfile
    /\ sub = [status |-> "none", at |-> 0]
    /\ emitted = {}
    /\ paying = FALSE
    /\ hook = [h \in Hooks |-> IdleHook]
    /\ form = [f \in Forms |-> IdleForm]
    /\ deaths = 0
    /\ raced = FALSE

-----------------------------------------------------------------------------
(* The provider.  POST /api/billing/checkout only opens a session there.    *)

\* The subscription starts, renews or ends at the provider.
ProviderEvent(kind, at) ==
    /\ profile.made
    /\ kind = "canceled" => paying
    /\ at \in 1 .. MaxStamp /\ \A s \in Stamps : s <= at
    /\ emitted' = emitted \cup {[kind |-> kind, at |-> at]}
    /\ paying' = (kind = "activated")
    /\ UNCHANGED <<role, profile, sub, hook, form, deaths, raced>>

\* Mutation of Receive: only the subscription row is gated, the plan is not.
ReceiveUngated(h, e) ==
    /\ hook[h].pc = "idle" /\ e \in emitted
    /\ Overlap
    /\ hook' = [hook EXCEPT ![h] =
                  [pc |-> IF e.kind = "activated" THEN "activate" ELSE "reread", ev |-> e]]
    /\ UNCHANGED <<role, profile, sub, emitted, paying, form, deaths>>

\* applyPaymentEvent: an event not newer than the row is dropped as a whole.
Receive(h, e) ==
    /\ hook[h].pc = "idle" /\ e \in emitted
    /\ e.at > sub.at
    /\ Overlap
    /\ hook' = [hook EXCEPT ![h] =
                  [pc |-> IF e.kind = "activated" THEN "activate" ELSE "reread", ev |-> e]]
    /\ UNCHANGED <<role, profile, sub, emitted, paying, form, deaths>>

\* Mutation of UpsertSubscription: no setWhere, the row takes any stamp.
UpsertAnyStamp(h, st) ==
    /\ sub' = [status |-> st, at |-> hook[h].ev.at]
    /\ hook' = [hook EXCEPT ![h].pc = "plan"]
    /\ UNCHANGED <<role, profile, emitted, paying, form, deaths, raced>>

\* upsertSubscription: setWhere lets a newer stamp in only.
UpsertSubscription(h, st) ==
    /\ sub' = IF hook[h].ev.at > sub.at THEN [status |-> st, at |-> hook[h].ev.at] ELSE sub
    /\ hook' = [hook EXCEPT ![h].pc = "plan"]
    /\ UNCHANGED <<role, profile, emitted, paying, form, deaths, raced>>

Activate(h) == hook[h].pc = "activate" /\ UpsertSubscription(h, "active")

\* A cancel reads the row again; without one there is nothing to mark.
RereadSubscription(h) ==
    /\ hook[h].pc = "reread"
    /\ hook' = [hook EXCEPT ![h].pc = IF sub.status = "none" THEN "plan" ELSE "cancel"]
    /\ UNCHANGED <<role, profile, sub, emitted, paying, form, deaths, raced>>

Cancel(h) == hook[h].pc = "cancel" /\ UpsertSubscription(h, "canceled")

\* setOperatorPlan, a statement of its own.
SetPlan(h) ==
    /\ hook[h].pc = "plan"
    /\ profile' = [profile EXCEPT !.plan = IF hook[h].ev.kind = "activated" THEN "pro"
                                           ELSE "free"]
    /\ hook' = [hook EXCEPT ![h] = IdleHook]
    /\ UNCHANGED <<role, sub, emitted, paying, form, deaths, raced>>

-----------------------------------------------------------------------------
(* The profile form, the admin's toggles and the away switch.               *)

\* The route reads the row it is about to replace.
ReadProfile(f) ==
    /\ form[f].pc = "idle"
    /\ Overlap
    /\ form' = [form EXCEPT ![f] = [pc |-> "upsert", seen |-> profile]]
    /\ UNCHANGED <<role, profile, sub, emitted, paying, hook, deaths>>

\* upsertOperator: plan and verified go back as they were read (free and
\* unverified for a new row); suspended and accepting are left alone.
UpsertOperator(f) ==
    /\ form[f].pc = "upsert"
    /\ profile' = [profile EXCEPT !.made = TRUE, !.plan = form[f].seen.plan,
                                  !.verified = form[f].seen.verified]
    /\ form' = IF ~form[f].seen.made /\ role = "buyer"
               THEN [form EXCEPT ![f].pc = "promote"] ELSE [form EXCEPT ![f] = IdleForm]
    /\ UNCHANGED <<role, sub, emitted, paying, hook, deaths, raced>>

\* setUserRole after a first profile.
Promote(f) ==
    /\ form[f].pc = "promote"
    /\ role' = "operator"
    /\ form' = [form EXCEPT ![f] = IdleForm]
    /\ UNCHANGED <<profile, sub, emitted, paying, hook, deaths, raced>>

\* Verify, suspend and away read the row first; an away switch of a suspended
\* account is refused there.
ReadToggle(f, what) ==
    /\ form[f].pc = "idle" /\ profile.made
    /\ what = "away" => ~profile.suspended /\ role = "operator"
    /\ form' = [form EXCEPT ![f] = [pc |-> what, seen |-> profile]]
    /\ UNCHANGED <<role, profile, sub, emitted, paying, hook, deaths, raced>>

SetVerified(f) ==
    /\ form[f].pc = "verify"
    /\ profile' = [profile EXCEPT !.verified = ~form[f].seen.verified]
    /\ form' = [form EXCEPT ![f] = IdleForm]
    /\ UNCHANGED <<role, sub, emitted, paying, hook, deaths, raced>>

SetSuspended(f) ==
    /\ form[f].pc = "suspend"
    /\ profile' = [profile EXCEPT !.suspended = ~form[f].seen.suspended]
    /\ form' = [form EXCEPT ![f] = IdleForm]
    /\ UNCHANGED <<role, sub, emitted, paying, hook, deaths, raced>>

SetAccepting(f) ==
    /\ form[f].pc = "away"
    /\ \E on \in BOOLEAN : profile' = [profile EXCEPT !.accepting = on]
    /\ form' = [form EXCEPT ![f] = IdleForm]
    /\ UNCHANGED <<role, sub, emitted, paying, hook, deaths, raced>>

\* A request dies between two of its statements.
HookDies(h) ==
    /\ deaths < MaxDeaths /\ hook[h].pc # "idle"
    /\ hook' = [hook EXCEPT ![h] = IdleHook]
    /\ deaths' = deaths + 1
    /\ raced' = TRUE
    /\ UNCHANGED <<role, profile, sub, emitted, paying, form>>

FormDies(f) ==
    /\ deaths < MaxDeaths /\ form[f].pc # "idle"
    /\ form' = [form EXCEPT ![f] = IdleForm]
    /\ deaths' = deaths + 1
    /\ UNCHANGED <<role, profile, sub, emitted, paying, hook, raced>>

AccountNext ==
    \/ \E e \in Events : \/ ProviderEvent(e.kind, e.at)
                         \/ \E h \in Hooks : Receive(h, e)
    \/ \E h \in Hooks : \/ Activate(h) \/ RereadSubscription(h) \/ Cancel(h)
                        \/ SetPlan(h) \/ HookDies(h)
    \/ \E f \in Forms : \/ ReadProfile(f) \/ UpsertOperator(f) \/ Promote(f)
                        \/ SetVerified(f) \/ SetSuspended(f) \/ SetAccepting(f)
                        \/ FormDies(f)
                        \/ \E what \in {"verify", "suspend", "away"} : ReadToggle(f, what)

AccountSpec == AccountInit /\ [][AccountNext]_accountVars

-----------------------------------------------------------------------------
\* The variables keep to their domains.
AccountTypeOK ==
    /\ role \in {"buyer", "operator"}
    /\ profile \in Profile
    /\ sub \in [status : {"none", "active", "canceled"}, at : 0 .. MaxStamp]
    /\ emitted \subseteq Events
    /\ paying \in BOOLEAN
    /\ hook \in [Hooks -> [pc : HookPcs, ev : Events]]
    /\ form \in [Forms -> [pc : FormPcs, seen : Profile]]
    /\ deaths \in 0 .. MaxDeaths
    /\ raced \in BOOLEAN

\* However the provider orders and repeats its events and however their
\* handlers overlap or die, the subscription row never goes back to an older
\* event (the gate of upsertSubscription, drizzle.ts).
StampsAdvance == [][sub'.at >= sub.at /\ (sub'.at = sub.at => sub' = sub)]_accountVars

\* Handled one at a time and to the end, late and repeated events included, the
\* events and the profile form leave the plan agreeing with the subscription:
\* Pro exactly when it is active (applyPaymentEvent skips the whole update).
OneAtATimeAgrees ==
    ~raced /\ PlanWriters = {} => (profile.plan = "pro" <=> sub.status = "active")

\* A cancel that comes late never downgrades the plan under a newer active
\* subscription ("otherwise a late canceled would still downgrade the operator
\* plan while the newer subscription row stays active", lib/billing.ts).
NoLateDowngrade ==
    [][\A h \in Hooks :
         /\ hook[h].pc = "plan" /\ hook[h].ev.kind = "canceled"
         /\ sub.status = "active" /\ sub.at > hook[h].ev.at
         => ~(profile.plan = "pro" /\ profile'.plan = "free")]_accountVars
=============================================================================
