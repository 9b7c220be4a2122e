-------------------------------- MODULE Access --------------------------------
(***************************************************************************)
(* How one mailbox signs in and out: POST /api/auth/magic-link creates the *)
(* user, syncs the admin role with ADMIN_EMAILS and mails a link; the      *)
(* callback's POST consumes the link once and sets a session cookie; a     *)
(* logout bumps the session version, which every request compares          *)
(* (lib/auth.ts, api/auth).  The callback's GET only verifies.             *)
(*                                                                         *)
(* Links and cookies are signed values nobody stores; the database keeps   *)
(* the user row and the ledger of the links that were used.  Several       *)
(* instances serve requests, each by a clock of its own, and a redeploy    *)
(* changes ADMIN_EMAILS while requests of the old process may go on.       *)
(***************************************************************************)
EXTENDS Naturals

CONSTANTS
    Links,         \* links that can be mailed
    Doors,         \* sign-in requests that can be in flight
    Intents,       \* roles the sign-in pages ask for, of "buyer" and "operator"
    LinkTtl,       \* MAGIC_LINK_TTL_MS, in ticks
    SessionTtl,    \* SESSION_TTL_MS, in ticks
    Skew,          \* SKEW_MS: how far in the future a signed stamp may lie
    Drift,         \* how far the clocks of two instances may differ, in ticks
    MaxNow,        \* bound: ticks
    MaxVersion     \* bound: logouts

ASSUME AccessAssumption ==
    /\ Intents \subseteq {"buyer", "operator"}
    /\ LinkTtl \in Nat /\ SessionTtl \in Nat /\ Skew \in Nat /\ Drift \in Nat
    /\ MaxNow \in Nat /\ MaxVersion \in Nat \ {0}

VARIABLES
    now,
    ahead,         \* ahead[d]: how far the clock of d's instance runs before now
    listed,        \* the mailbox is in ADMIN_EMAILS
    user,          \* the users row: [role, version]; role "none" without a row
    mailed,        \* mailed[k]: the stamp link k was signed and mailed with, or Unsent
    used,          \* the ledger: records [link, till]
    cookies,       \* the sessions set in browsers: records [version, at]
    door,          \* door[d]: what request d is doing and what it has read
    minted,        \* history: minted[k], sessions that link k opened
    outlived,      \* history: links used within Drift of their stamp, or that lapsed
                   \* between the check and the ledger
    late,          \* history: requests that a deploy, a logout or a late request's
                   \* write overtook between what they read and what they do with it
    revoked,       \* history: cookies set, or on their way, before a logout
    resynced       \* history: a request that is not late synced the role last

accessVars == <<now, ahead, listed, user, mailed, used, cookies, door,
                minted, outlived, late, revoked, resynced>>
histories == <<minted, outlived, late, revoked, resynced>>

-----------------------------------------------------------------------------
Unsent == MaxNow + Drift + 1
Roles == {"none", "buyer", "operator", "admin"}
Times == 0 .. MaxNow
Instants == 0 .. MaxNow + Drift
Cookies == [version : 1 .. MaxVersion, at : Instants]
SignIn == {"prune", "insert", "user", "cookie"}
DoorPcs == {"idle", "create", "sync", "mail"} \cup SignIn
DoorState == {r \in [pc : DoorPcs, wants : Roles, saw : Roles, link : Links \cup {"none"},
                     at : Instants, version : 1 .. MaxVersion] :
                r.pc \in SignIn => r.link \in Links}

AtRest == [pc |-> "idle", wants |-> "none", saw |-> "none", link |-> "none",
           at |-> 0, version |-> 1]
Enter(d, pc, link) == door' = [door EXCEPT ![d] = [AtRest EXCEPT !.pc = pc, !.link = link]]
Leave(d) == door' = [door EXCEPT ![d] = AtRest]

\* Date.now() where request d runs.
Clock(d) == now + ahead[d]

\* verifyParts and the age check of verifySession and verifyMagicLink.
Fresh(stamp, ttl, clock) == stamp <= clock + Skew /\ clock <= stamp + ttl

LinkIsFresh(k, clock) == mailed[k] # Unsent /\ Fresh(mailed[k], LinkTtl, clock)
CookieIsFresh(c) == \E d \in Doors : Fresh(c.at, SessionTtl, Clock(d))

\* Mutation of CurrentUser: the session version is not compared.
CurrentUserUnversioned(c) == CookieIsFresh(c) /\ user.role # "none"

\* currentUser accepts a cookie.
CurrentUser(c) == CookieIsFresh(c) /\ user.role # "none" /\ c.version = user.version

AccessInit ==
    /\ now = 0
    /\ ahead \in [Doors -> 0 .. Drift]
    /\ listed \in BOOLEAN
    /\ user = [role |-> "none", version |-> 1]
    /\ mailed = [k \in Links |-> Unsent]
    /\ used = {}
    /\ cookies = {}
    /\ door = [d \in Doors |-> AtRest]
    /\ minted = [k \in Links |-> 0]
    /\ outlived = {} /\ late = {} /\ revoked = {}
    /\ resynced = FALSE

-----------------------------------------------------------------------------
(* POST /api/auth/magic-link.                                               *)

\* The role the sign-in page asked for; ADMIN_EMAILS overrides it.
RequestLink(d, wants) ==
    /\ door[d].pc = "idle"
    /\ door' = [door EXCEPT ![d] = [AtRest EXCEPT
                  !.pc = "create", !.wants = IF listed THEN "admin" ELSE wants]]
    /\ UNCHANGED <<now, ahead, listed, user, mailed, used, cookies, histories>>

\* createUser: insert or the row that is there, whose role stays.
CreateUser(d) ==
    /\ door[d].pc = "create"
    /\ LET row == IF user.role # "none" THEN user ELSE [user EXCEPT !.role = door[d].wants]
       IN /\ user' = row
          /\ door' = [door EXCEPT ![d].pc = "sync", ![d].saw = row.role]
    /\ UNCHANGED <<now, ahead, listed, mailed, used, cookies, histories>>

\* setUserRole when the row or the request is an admin's and the two differ.
SyncRole(d) ==
    /\ door[d].pc = "sync"
    /\ LET wants == door[d].wants IN
         user' = IF "admin" \in {door[d].saw, wants} /\ wants # door[d].saw
                 THEN [user EXCEPT !.role = wants] ELSE user
    /\ resynced' = (d \notin late)
    /\ late' = IF d \in late THEN (late \cup {e \in Doors : door[e].pc = "sync"}) \ {d}
               ELSE late
    /\ Enter(d, "mail", "none")
    /\ UNCHANGED <<now, ahead, listed, mailed, used, cookies, minted, outlived, revoked>>

\* The link is signed and mailed; or the mail fails and nobody has the link.
MailLink(d, k) ==
    /\ door[d].pc = "mail"
    /\ \/ mailed[k] = Unsent /\ mailed' = [mailed EXCEPT ![k] = Clock(d)]
       \/ UNCHANGED mailed
    /\ Leave(d)
    /\ UNCHANGED <<now, ahead, listed, user, used, cookies, histories>>

-----------------------------------------------------------------------------
(* The callback's POST, and logout.                                         *)

\* The ledger row is dated by the same reading of the clock.
VerifyMagicLink(d, k) ==
    /\ door[d].pc = "idle" /\ LinkIsFresh(k, Clock(d))
    /\ door' = [door EXCEPT ![d] = [AtRest EXCEPT
                  !.pc = "prune", !.link = k, !.at = Clock(d)]]
    /\ UNCHANGED <<now, ahead, listed, user, mailed, used, cookies, histories>>

\* consumeMagicLinkSig: expired rows go first ...
PruneLedger(d) ==
    /\ door[d].pc = "prune"
    /\ used' = {u \in used : u.till >= Clock(d)}
    /\ door' = [door EXCEPT ![d].pc = "insert"]
    /\ UNCHANGED <<now, ahead, listed, user, mailed, cookies, histories>>

\* History: the uses whose row need not last as long as the link is accepted.
Outlives(d, k) == door[d].at < mailed[k] + Drift \/ Clock(d) > mailed[k] + LinkTtl

\* Mutation of InsertSig: a row expires with the request.
InsertForgets(d) ==
    /\ door[d].pc = "insert"
    /\ LET k == door[d].link IN
         IF \E u \in used : u.link = k
         THEN Leave(d) /\ UNCHANGED <<used, outlived>>
         ELSE /\ used' = used \cup {[link |-> k, till |-> door[d].at]}
              /\ outlived' = IF Outlives(d, k) THEN outlived \cup {k} ELSE outlived
              /\ Enter(d, "user", k)
    /\ UNCHANGED <<now, ahead, listed, user, mailed, cookies, minted, late, revoked, resynced>>

\* ... then the signature is inserted unless it is there.
InsertSig(d) ==
    /\ door[d].pc = "insert"
    /\ LET k == door[d].link IN
         IF \E u \in used : u.link = k
         THEN Leave(d) /\ UNCHANGED <<used, outlived>>
         ELSE /\ used' = used \cup {[link |-> k, till |-> door[d].at + LinkTtl]}
              /\ outlived' = IF Outlives(d, k) THEN outlived \cup {k} ELSE outlived
              /\ Enter(d, "user", k)
    /\ UNCHANGED <<now, ahead, listed, user, mailed, cookies, minted, late, revoked, resynced>>

\* The row is read for its session version ...
LoadUser(d) ==
    /\ door[d].pc = "user"
    /\ door' = [door EXCEPT ![d].pc = "cookie", ![d].version = user.version]
    /\ UNCHANGED <<now, ahead, listed, user, mailed, used, cookies, histories>>

\* Session d is signed: a browser holds it, whatever happened since the row was read.
Sign(d, version) ==
    LET c == [version |-> version, at |-> Clock(d)] IN
      /\ door[d].pc = "cookie"
      /\ cookies' = cookies \cup {c}
      /\ minted' = [minted EXCEPT ![door[d].link] = @ + 1]
      /\ revoked' = IF d \in late THEN revoked \cup {c} ELSE revoked
      /\ late' = late \ {d}
      /\ Leave(d)
      /\ UNCHANGED <<now, ahead, listed, user, mailed, used, outlived, resynced>>

\* Mutation of SetCookie: the version is the row's when the cookie is signed.
SetCookieAnew(d) == Sign(d, user.version)

\* ... which the cookie carries.
SetCookie(d) == Sign(d, door[d].version)

\* Any cookie that verifies logs every session of the user out.
Logout(c) ==
    /\ CookieIsFresh(c) /\ user.version < MaxVersion
    /\ user' = [user EXCEPT !.version = @ + 1]
    /\ revoked' = cookies
    /\ late' = late \cup {d \in Doors : door[d].pc = "cookie"}
    /\ UNCHANGED <<now, ahead, listed, mailed, used, cookies, door, minted, outlived, resynced>>

-----------------------------------------------------------------------------
Tick ==
    /\ now < MaxNow
    /\ now' = now + 1
    /\ UNCHANGED <<ahead, listed, user, mailed, used, cookies, door, histories>>

\* A process with another ADMIN_EMAILS takes over; of the requests in flight some
\* are dropped and the others finish as they began.
Redeploy(gone) ==
    /\ listed' = ~listed
    /\ door' = [d \in Doors |-> IF d \in gone THEN AtRest ELSE door[d]]
    /\ late' = (late \cup {d \in Doors : door[d].pc \in {"create", "sync"}}) \ gone
    /\ resynced' = FALSE
    /\ UNCHANGED <<now, ahead, user, mailed, used, cookies, minted, outlived, revoked>>

AccessNext ==
    \/ \E d \in Doors : \/ \E wants \in Intents : RequestLink(d, wants)
                        \/ CreateUser(d) \/ SyncRole(d)
                        \/ \E k \in Links : MailLink(d, k) \/ VerifyMagicLink(d, k)
                        \/ PruneLedger(d) \/ InsertSig(d) \/ LoadUser(d) \/ SetCookie(d)
    \/ \E c \in cookies : Logout(c)
    \/ Tick \/ \E gone \in SUBSET Doors : Redeploy(gone)

AccessSpec == AccessInit /\ [][AccessNext]_accessVars

-----------------------------------------------------------------------------
\* The variables keep to their domains.
AccessTypeOK ==
    /\ now \in Times /\ ahead \in [Doors -> 0 .. Drift]
    /\ listed \in BOOLEAN /\ resynced \in BOOLEAN
    /\ user \in [role : Roles, version : 1 .. MaxVersion]
    /\ mailed \in [Links -> Instants \cup {Unsent}]
    /\ used \subseteq [link : Links, till : 0 .. MaxNow + Drift + LinkTtl]
    /\ cookies \subseteq Cookies /\ revoked \subseteq Cookies
    /\ door \in [Doors -> DoorState]
    /\ minted \in [Links -> Nat]
    /\ outlived \subseteq Links
    /\ late \subseteq {d \in Doors : door[d].pc \in {"create", "sync", "cookie"}}

\* A link signs in at most once, however many clients post it to however many
\* instances, however often the ledger is pruned and the process restarted
\* (consumeMagicLink).  Two uses are exempt, for the code does let their ledger row
\* go first: one within Drift of the link's stamp, since the row counts from the
\* clock of whoever consumes the link and the link from the clock that signed it; and
\* one by a request that reached the ledger only after the link had lapsed.
LinkSignsInOnce == \A k \in Links \ outlived : minted[k] <= 1

\* NOT an invariant: what lib/auth.ts:100-104 says, that the ledger keeps a link single
\* use across instances since its row expires "with the link's own TTL".  A link that
\* an instance with a clock behind its signer's consumed is accepted longer than its row
\* lasts, and signs in again after the next prune; so does one that two requests check
\* just before it lapses, when the second stalls past the row of the first.
EveryLinkOnce == \A k \in Links : minted[k] <= 1

\* No session from before a logout is accepted again: neither a cookie that was set
\* by then nor the one of a callback that had read the user by then and sets its
\* cookie after it (currentUser).
LoggedOutIsOut == \A c \in revoked : ~CurrentUser(c)

\* A mailbox that ADMIN_EMAILS no longer lists is no admin once it has asked for a
\* link ("a removed one loses admin access", magic-link/route.ts), whatever requests
\* of the old process did before.  A request of the old process that syncs the role
\* last, or while the new one has read the row and not yet synced it, is exempt.
DelistedIsOut == ~listed /\ resynced => user.role # "admin"

\* What was taken from a mailbox, its sessions or its admin rights, stays taken.
RevokedIsOut == LoggedOutIsOut /\ DelistedIsOut
=============================================================================
