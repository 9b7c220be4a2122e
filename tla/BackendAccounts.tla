-------------------------- MODULE BackendAccounts --------------------------
(***************************************************************************)
(* The rows that belong to one person in the two repositories, called in   *)
(* lockstep (lib/repo/memory.ts, lib/repo/drizzle.ts): the account and the *)
(* ledger of used sign-in links, the operator's profile, subscription and  *)
(* presets, the deal they closed, one saved search.  The tables share      *)
(* nothing, so each has a next-state relation of its own.                  *)
(*                                                                         *)
(* Two differences are known and end the comparison: memory refuses a link *)
(* when its ledger is full (ten thousand, LedgerCap here), Postgres never; *)
(* and only Postgres forgets links that expired, which the callback does   *)
(* not present again.                                                      *)
(***************************************************************************)
EXTENDS Naturals, FiniteSets

CONSTANTS
    Sigs,          \* signatures of sign-in links
    LedgerCap,     \* the bound of memory's ledger
    Locales,       \* page locales
    Tokens,        \* tokens of the saved search's mails
    Items,         \* listings queued for its digest
    Names,         \* names of quote presets
    Unset,         \* no row, or an argument left out
    MaxStamp       \* bound: stamps, versions and days

ASSUME AccountsAssumption ==
    /\ LedgerCap \in Nat
    /\ MaxStamp \in Nat \ {0}
    /\ Locales # {}
    /\ Unset \notin Locales \cup Tokens \cup Names \cup Sigs \cup Items

VARIABLES
    mrows,         \* MemoryRepo
    prows,         \* Postgres
    now,           \* the clock of both
    told,          \* the two answered the last call alike
    split          \* a known difference was met

accountsVars == <<mrows, prows, now, told, split>>

-----------------------------------------------------------------------------
Roles == {"buyer", "operator", "admin"}
NoUser == [role |-> "none"]
NoProfile == [plan |-> "none"]
NoSub == [plan |-> "none"]
NoDeal == [invoice |-> "none"]
NoAlert == [status |-> "none"]
Invoices == {"pending", "sent", "paid", "void"}
Rated == 0 .. 5

Rows ==
    [user : {NoUser} \cup [role : Roles, version : 1 .. MaxStamp, locale : Locales],
     used : SUBSET [sig : Sigs, exp : 0 .. MaxStamp],
     op : {NoProfile} \cup [plan : {"free", "pro"}, accepting : BOOLEAN, notify : BOOLEAN,
                            suspended : BOOLEAN, seen : BOOLEAN],
     sub : {NoSub} \cup [plan : {"free", "pro"}, stamp : 0 .. MaxStamp],
     deal : {NoDeal} \cup [invoice : Invoices, ref : BOOLEAN, buyer : Rated, operator : Rated],
     alert : {NoAlert} \cup [status : {"pending", "active", "paused", "off"},
                             token : Tokens, queue : SUBSET Items],
     preset : [Names -> 0 .. 2]]

AccountsInit ==
    LET empty == [user |-> NoUser, used |-> {}, op |-> NoProfile, sub |-> NoSub,
                  deal |-> NoDeal, alert |-> NoAlert, preset |-> [n \in Names |-> 0]]
    IN /\ mrows = empty /\ prows = empty
       /\ now = 0
       /\ told = TRUE
       /\ split = FALSE

Gave(db, a) == [db |-> db, answer |-> a]
BothRows(m, s) ==
    /\ mrows' = m.db
    /\ prows' = s.db
    /\ told' = (m.answer = s.answer)
    /\ UNCHANGED now

TimePasses == now < MaxStamp /\ now' = now + 1 /\ UNCHANGED <<mrows, prows, told, split>>

-----------------------------------------------------------------------------
(* users, magic_links_used *)

\* createUser: the account the mailbox has, its locale following the page.
MemCreateUser(role, loc) ==
    IF mrows.user # NoUser
    THEN Gave([mrows EXCEPT !.user.locale = IF loc = Unset THEN @ ELSE loc], mrows.user.role)
    ELSE Gave([mrows EXCEPT !.user = [role |-> role, version |-> 1,
                 locale |-> IF loc = Unset THEN CHOOSE l \in Locales : TRUE ELSE loc]], role)
SqlCreateUser(role, loc) ==
    IF prows.user # NoUser
    THEN Gave([prows EXCEPT !.user.locale = IF loc = Unset THEN @ ELSE loc], prows.user.role)
    ELSE Gave([prows EXCEPT !.user = [role |-> role, version |-> 1,
                 locale |-> IF loc = Unset THEN CHOOSE l \in Locales : TRUE ELSE loc]], role)

MemBump == Gave([mrows EXCEPT !.user.version = @ + 1], "yes")
SqlBump == Gave([prows EXCEPT !.user.version = @ + 1], "yes")
MemSetRole(r) == Gave([mrows EXCEPT !.user.role = r], "yes")
SqlSetRole(r) == Gave([prows EXCEPT !.user.role = r], "yes")

\* consumeMagicLinkSig: memory looks the signature up and prunes only when full;
\* Postgres prunes first and inserts under the primary key.
MemConsume(s, e) ==
    LET full == Cardinality(mrows.used) >= LedgerCap
        left == IF full THEN {u \in mrows.used : u.exp >= now} ELSE mrows.used
    IN IF \E u \in mrows.used : u.sig = s THEN Gave(mrows, "replay")
       ELSE IF Cardinality(left) >= LedgerCap
            THEN Gave([mrows EXCEPT !.used = left], "replay")
            ELSE Gave([mrows EXCEPT !.used = left \cup {[sig |-> s, exp |-> e]}], "yes")
SqlConsume(s, e) ==
    LET left == {u \in prows.used : u.exp >= now}
    IN IF \E u \in left : u.sig = s THEN Gave([prows EXCEPT !.used = left], "replay")
       ELSE Gave([prows EXCEPT !.used = left \cup {[sig |-> s, exp |-> e]}], "yes")

CreateUser(r, loc) == BothRows(MemCreateUser(r, loc), SqlCreateUser(r, loc)) /\ UNCHANGED split
BumpSessionVersion ==
    /\ mrows.user # NoUser /\ mrows.user.version < MaxStamp
    /\ BothRows(MemBump, SqlBump) /\ UNCHANGED split
SetUserRole(r) == mrows.user # NoUser /\ BothRows(MemSetRole(r), SqlSetRole(r)) /\ UNCHANGED split

\* The callback has verified the signature and that the link has not expired; a
\* signature covers its expiry.
Expiry(s) == IF s = CHOOSE x \in Sigs : TRUE THEN 0 ELSE MaxStamp
ConsumeMagicLinkSig(s) ==
    /\ now <= Expiry(s)
    /\ BothRows(MemConsume(s, Expiry(s)), SqlConsume(s, Expiry(s)))
    /\ split' = (/\ ~ \E u \in mrows.used : u.sig = s
                 /\ Cardinality({u \in mrows.used : u.exp >= now}) >= LedgerCap)

LoginNext ==
    /\ ~split
    /\ \/ \E r \in Roles, loc \in Locales \cup {Unset} : CreateUser(r, loc)
       \/ \E r \in Roles : SetUserRole(r)
       \/ \E s \in Sigs : ConsumeMagicLinkSig(s)
       \/ BumpSessionVersion \/ TimePasses

-----------------------------------------------------------------------------
(* operators, subscriptions, operator_quote_templates *)

\* upsertOperator: the profile form names the plan; the switches it leaves out
\* survive, as does the inbox stamp.
MemUpsertOperator(p) ==
    Gave([mrows EXCEPT !.op =
            IF @ = NoProfile
            THEN [plan |-> p, accepting |-> TRUE, notify |-> TRUE, suspended |-> FALSE, seen |-> FALSE]
            ELSE [@ EXCEPT !.plan = p]], "yes")
SqlUpsertOperator(p) ==
    Gave([prows EXCEPT !.op =
            IF @ = NoProfile
            THEN [plan |-> p, accepting |-> TRUE, notify |-> TRUE, suspended |-> FALSE, seen |-> FALSE]
            ELSE [@ EXCEPT !.plan = p]], "yes")

MemToggle(switch, on) == Gave([mrows EXCEPT !.op[switch] = on], "yes")
SqlToggle(switch, on) == Gave([prows EXCEPT !.op[switch] = on], "yes")

\* upsertSubscription: a stamped event applies when it is newer than the stamp
\* on the row; an unstamped one (stamp 0) always does.
MemUpsertSub(p, stamp) ==
    IF stamp # 0 /\ mrows.sub # NoSub /\ mrows.sub.stamp # 0 /\ stamp <= mrows.sub.stamp
    THEN Gave(mrows, mrows.sub.plan)
    ELSE Gave([mrows EXCEPT !.sub = [plan |-> p, stamp |-> stamp]], p)
SqlUpsertSub(p, stamp) ==
    IF prows.sub = NoSub \/ stamp = 0 \/ stamp > prows.sub.stamp
    THEN Gave([prows EXCEPT !.sub = [plan |-> p, stamp |-> stamp]], p)
    ELSE Gave(prows, prows.sub.plan)

\* upsertQuoteTemplate: one preset per name.
MemPreset(n, a) == Gave([mrows EXCEPT !.preset[n] = a], "yes")
SqlPreset(n, a) == Gave([prows EXCEPT !.preset[n] = a], "yes")
MemDropPreset(n) == Gave([mrows EXCEPT !.preset[n] = 0], mrows.preset[n] # 0)
SqlDropPreset(n) == Gave([prows EXCEPT !.preset[n] = 0], prows.preset[n] # 0)

UpsertOperator(p) == BothRows(MemUpsertOperator(p), SqlUpsertOperator(p)) /\ UNCHANGED split
ToggleOperator(switch, on) ==
    /\ mrows.op # NoProfile
    /\ BothRows(MemToggle(switch, on), SqlToggle(switch, on)) /\ UNCHANGED split
UpsertSubscriptionRow(p, stamp) ==
    /\ mrows.op # NoProfile
    /\ BothRows(MemUpsertSub(p, stamp), SqlUpsertSub(p, stamp)) /\ UNCHANGED split
UpsertQuoteTemplate(n, a) ==
    /\ mrows.op # NoProfile
    /\ BothRows(MemPreset(n, a), SqlPreset(n, a)) /\ UNCHANGED split
DeleteQuoteTemplate(n) == BothRows(MemDropPreset(n), SqlDropPreset(n)) /\ UNCHANGED split

OperatorNext ==
    \/ \E p \in {"free", "pro"} :
         UpsertOperator(p) \/ \E stamp \in 0 .. MaxStamp : UpsertSubscriptionRow(p, stamp)
    \/ \E on \in BOOLEAN :
         \E switch \in {"accepting", "notify", "suspended"} : ToggleOperator(switch, on)
    \/ ToggleOperator("seen", TRUE)
    \/ \E n \in Names : DeleteQuoteTemplate(n) \/ \E a \in 1 .. 2 : UpsertQuoteTemplate(n, a)

-----------------------------------------------------------------------------
(* deals *)

MemCreateDeal ==
    IF mrows.deal # NoDeal THEN Gave(mrows, "duplicate")
    ELSE Gave([mrows EXCEPT !.deal = [invoice |-> "pending", ref |-> FALSE,
                                      buyer |-> 0, operator |-> 0]], "yes")
SqlCreateDeal ==
    IF prows.deal # NoDeal THEN Gave(prows, "duplicate")
    ELSE Gave([prows EXCEPT !.deal = [invoice |-> "pending", ref |-> FALSE,
                                      buyer |-> 0, operator |-> 0]], "yes")

\* setDealInvoice: from the statuses the caller expects; a reference is kept
\* when the call brings none.
MemInvoice(s, expectedIn, ref) ==
    IF mrows.deal.invoice \notin expectedIn THEN Gave(mrows, "no")
    ELSE Gave([mrows EXCEPT !.deal.invoice = s, !.deal.ref = @ \/ ref], "yes")
SqlInvoice(s, expectedIn, ref) ==
    IF prows.deal.invoice \notin expectedIn THEN Gave(prows, "no")
    ELSE Gave([prows EXCEPT !.deal.invoice = s, !.deal.ref = @ \/ ref], "yes")

\* rateDeal, rateDealByOperator: once, within one to five, not on a void deal.
MemRate(side, n) ==
    IF mrows.deal[side] # 0 \/ mrows.deal.invoice = "void" \/ n < 1 \/ n > 5
    THEN Gave(mrows, "no")
    ELSE Gave([mrows EXCEPT !.deal[side] = n], "yes")
SqlRate(side, n) ==
    IF prows.deal[side] = 0 /\ prows.deal.invoice # "void" /\ n \in 1 .. 5
    THEN Gave([prows EXCEPT !.deal[side] = n], "yes")
    ELSE Gave(prows, "no")
MemClearRating ==
    IF mrows.deal.buyer = 0 THEN Gave(mrows, "no")
    ELSE Gave([mrows EXCEPT !.deal.buyer = 0], "yes")
SqlClearRating ==
    IF prows.deal.buyer = 0 THEN Gave(prows, "no")
    ELSE Gave([prows EXCEPT !.deal.buyer = 0], "yes")

CreateDeal == BothRows(MemCreateDeal, SqlCreateDeal) /\ UNCHANGED split
SetDealInvoice(s, expectedIn, ref) ==
    /\ mrows.deal # NoDeal
    /\ BothRows(MemInvoice(s, expectedIn, ref), SqlInvoice(s, expectedIn, ref))
    /\ UNCHANGED split
RateDeal(side, n) ==
    mrows.deal # NoDeal /\ BothRows(MemRate(side, n), SqlRate(side, n)) /\ UNCHANGED split
ClearDealRating ==
    mrows.deal # NoDeal /\ BothRows(MemClearRating, SqlClearRating) /\ UNCHANGED split

DealNext ==
    \/ CreateDeal \/ ClearDealRating
    \/ \E s \in Invoices, expectedIn \in SUBSET Invoices, ref \in BOOLEAN :
         SetDealInvoice(s, expectedIn, ref)
    \/ \E side \in {"buyer", "operator"}, n \in {0, 1, 5, 6} : RateDeal(side, n)

-----------------------------------------------------------------------------
(* search_alerts *)

\* createSearchAlert: a known search gets the new token, and is asked to confirm
\* again if it was off or paused.
Rearmed(a, t) ==
    [a EXCEPT !.token = t, !.status = IF @ \in {"off", "paused"} THEN "pending" ELSE @]
MemSubscribe(t) ==
    IF mrows.alert # NoAlert
    THEN Gave([mrows EXCEPT !.alert = Rearmed(@, t)], "rotated")
    ELSE Gave([mrows EXCEPT !.alert = [status |-> "pending", token |-> t, queue |-> {}]], "created")
SqlSubscribe(t) ==
    IF prows.alert # NoAlert
    THEN Gave([prows EXCEPT !.alert = Rearmed(@, t)], "rotated")
    ELSE Gave([prows EXCEPT !.alert = [status |-> "pending", token |-> t, queue |-> {}]], "created")

MemConfirm(t) ==
    IF mrows.alert.token = t /\ mrows.alert.status = "pending"
    THEN Gave([mrows EXCEPT !.alert.status = "active"], "yes") ELSE Gave(mrows, "null")
SqlConfirm(t) ==
    IF prows.alert.token = t /\ prows.alert.status = "pending"
    THEN Gave([prows EXCEPT !.alert.status = "active"], "yes") ELSE Gave(prows, "null")
MemUnsubscribe(t) ==
    IF mrows.alert.token = t /\ mrows.alert.status # "off"
    THEN Gave([mrows EXCEPT !.alert.status = "off"], "yes") ELSE Gave(mrows, "null")
SqlUnsubscribe(t) ==
    IF prows.alert.token = t /\ prows.alert.status # "off"
    THEN Gave([prows EXCEPT !.alert.status = "off"], "yes") ELSE Gave(prows, "null")
MemSetAlert(to, from) ==
    IF mrows.alert.status \in from
    THEN Gave([mrows EXCEPT !.alert.status = to], "yes") ELSE Gave(mrows, "null")
SqlSetAlert(to, from) ==
    IF prows.alert.status \in from
    THEN Gave([prows EXCEPT !.alert.status = to], "yes") ELSE Gave(prows, "null")
MemOff == Gave([mrows EXCEPT !.alert.status = "off"], mrows.alert.status # "off")
SqlOff == Gave([prows EXCEPT !.alert.status = "off"], prows.alert.status # "off")
MemAppend(i) == Gave([mrows EXCEPT !.alert.queue = @ \cup {i}], "yes")
SqlAppend(i) == Gave([prows EXCEPT !.alert.queue = @ \cup {i}], "yes")
MemAlerted == Gave([mrows EXCEPT !.alert.queue = {}], "yes")
SqlAlerted == Gave([prows EXCEPT !.alert.queue = {}], "yes")

HasAlert == mrows.alert # NoAlert
CreateSearchAlert(t) == BothRows(MemSubscribe(t), SqlSubscribe(t)) /\ UNCHANGED split
ConfirmSearchAlert(t) == HasAlert /\ BothRows(MemConfirm(t), SqlConfirm(t)) /\ UNCHANGED split
UnsubscribeSearchAlert(t) ==
    HasAlert /\ BothRows(MemUnsubscribe(t), SqlUnsubscribe(t)) /\ UNCHANGED split
SetSearchAlertStatus(to, from) ==
    HasAlert /\ BothRows(MemSetAlert(to, from), SqlSetAlert(to, from)) /\ UNCHANGED split
OffSearchAlertsByEmail == HasAlert /\ BothRows(MemOff, SqlOff) /\ UNCHANGED split
AppendSearchAlertPending(i) == HasAlert /\ BothRows(MemAppend(i), SqlAppend(i)) /\ UNCHANGED split
MarkSearchAlerted == HasAlert /\ BothRows(MemAlerted, SqlAlerted) /\ UNCHANGED split

AlertNext ==
    \/ \E t \in Tokens : CreateSearchAlert(t) \/ ConfirmSearchAlert(t) \/ UnsubscribeSearchAlert(t)
    \/ SetSearchAlertStatus("paused", {"active"}) \/ SetSearchAlertStatus("active", {"paused"})
    \/ \E i \in Items : AppendSearchAlertPending(i)
    \/ OffSearchAlertsByEmail \/ MarkSearchAlerted

-----------------------------------------------------------------------------
AccountsTypeOK ==
    /\ mrows \in Rows /\ prows \in Rows
    /\ now \in 0 .. MaxStamp
    /\ split \in BOOLEAN

\* The two answer every call alike and keep the same rows.  Of the ledger they
\* need to agree only on the links that can still be presented.
AccountsAgree ==
    split \/ /\ told
             /\ [mrows EXCEPT !.used = {}] = [prows EXCEPT !.used = {}]
             /\ {u \in mrows.used : u.exp >= now} = {u \in prows.used : u.exp >= now}
=============================================================================
