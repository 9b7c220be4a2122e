----------------------------- MODULE AlertConsent -----------------------------
(***************************************************************************)
(* One saved search (or watched listing) of a mailbox and whether it may   *)
(* be mailed: subscribe, the confirm and unsubscribe links of the mails,   *)
(* pause, resume and turn-off from the account page, the admin's block of  *)
(* the address and the end of a watched listing (api/search-alerts,        *)
(* api/admin/buyers/block, lib/search-alerts.ts).                          *)
(*                                                                         *)
(* Every subscribe rotates the token, so the links of older mails die; the *)
(* model numbers the tokens.  AlertDigest models what is mailed.           *)
(***************************************************************************)
EXTENDS Naturals

CONSTANTS
    Clicks,        \* requests about the alert that can be in flight
    MaxToken       \* bound: tokens ever made

ASSUME AlertConsentAssumption == MaxToken \in Nat

VARIABLES
    alert,         \* the search_alerts row: [status, token]; "none" without a row
    barred,        \* the address is in blocked_emails
    click,         \* click[c]: [pc, token], the token it was given or has read
    optedOut,      \* history: turned off since the last confirmation
    straddled      \* history: a subscribe replaced the token between a confirm's
                   \* flip and its block check

consentVars == <<alert, barred, click, optedOut, straddled>>

-----------------------------------------------------------------------------
AlertStatuses == {"none", "pending", "active", "paused", "off"}
ClickPcs == {"idle", "save", "confirmed", "kill", "off", "bar"}
NoClick == [pc |-> "idle", token |-> 0]

Reply(c) == click' = [click EXCEPT ![c] = NoClick]

ConsentInit ==
    /\ alert = [status |-> "none", token |-> 0]
    /\ barred = FALSE
    /\ click = [c \in Clicks |-> NoClick]
    /\ optedOut = FALSE
    /\ straddled = FALSE

-----------------------------------------------------------------------------
\* POST /api/search-alerts: a blocked address is refused.
Subscribe(c) ==
    /\ click[c].pc = "idle" /\ ~barred
    /\ click' = [click EXCEPT ![c].pc = "save"]
    /\ UNCHANGED <<alert, barred, optedOut, straddled>>

\* Mutation of CreateSearchAlert: a row that was turned off is armed again.
RotateArms(c) ==
    /\ click[c].pc = "save" /\ alert.token < MaxToken
    /\ alert' = [status |-> CASE alert.status = "none" -> "pending"
                              [] alert.status \in {"off", "paused"} -> "active"
                              [] OTHER -> alert.status,
                 token |-> alert.token + 1]
    /\ straddled' = (straddled \/ \E d \in Clicks : click[d].pc \in {"confirmed", "kill"})
    /\ Reply(c)
    /\ UNCHANGED <<barred, optedOut>>

\* createSearchAlert: a new row, or the token of the one row is replaced; one
\* that is off or paused has to be confirmed again.
CreateSearchAlert(c) ==
    /\ click[c].pc = "save" /\ alert.token < MaxToken
    /\ alert' = [status |-> IF alert.status \in {"none", "off", "paused"} THEN "pending"
                            ELSE alert.status,
                 token |-> alert.token + 1]
    /\ straddled' = (straddled \/ \E d \in Clicks : click[d].pc \in {"confirmed", "kill"})
    /\ Reply(c)
    /\ UNCHANGED <<barred, optedOut>>

\* GET confirm: the flip comes first and is by token and status ...
ConfirmSearchAlert(c, t) ==
    /\ click[c].pc = "idle"
    /\ alert.status = "pending" /\ alert.token = t
    /\ alert' = [alert EXCEPT !.status = "active"]
    /\ optedOut' = FALSE
    /\ click' = [click EXCEPT ![c] = [pc |-> "confirmed", token |-> t]]
    /\ UNCHANGED <<barred, straddled>>

\* Mutation of ConfirmGate: the block is not asked for after the flip.
ConfirmUngated(c) ==
    /\ click[c].pc = "confirmed"
    /\ Reply(c)
    /\ UNCHANGED <<alert, barred, optedOut, straddled>>

\* ... then the block is asked for, and a blocked address is turned off again.
ConfirmGate(c) ==
    /\ click[c].pc = "confirmed"
    /\ IF barred THEN click' = [click EXCEPT ![c].pc = "kill"] ELSE Reply(c)
    /\ UNCHANGED <<alert, barred, optedOut, straddled>>

\* unsubscribeSearchAlert, by token: the mail's link, the turn-off button, the
\* end of a watch, and the confirmation of a blocked address.
UnsubscribeSearchAlert(c) ==
    /\ click[c].pc \in {"off", "kill"}
    /\ IF alert.token = click[c].token /\ alert.status # "off"
       THEN alert' = [alert EXCEPT !.status = "off"] /\ optedOut' = TRUE
       ELSE UNCHANGED <<alert, optedOut>>
    /\ Reply(c)
    /\ UNCHANGED <<barred, straddled>>

\* The link of any mail ever sent.
FollowUnsubscribe(c, t) ==
    /\ click[c].pc = "idle" /\ t \in 1 .. alert.token
    /\ click' = [click EXCEPT ![c] = [pc |-> "off", token |-> t]]
    /\ UNCHANGED <<alert, barred, optedOut, straddled>>

\* POST off reads the row of the mailbox and turns its token off; endListingWatches
\* does so for the active watches of a listing that ended, after a mail.
TurnOff(c) ==
    /\ click[c].pc = "idle" /\ alert.status # "none"
    /\ click' = [click EXCEPT ![c] = [pc |-> "off", token |-> alert.token]]
    /\ UNCHANGED <<alert, barred, optedOut, straddled>>

EndListingWatches(c) ==
    /\ alert.status = "active"
    /\ TurnOff(c)

\* setSearchAlertStatus under its expected status.
PauseAlert ==
    /\ alert.status = "active"
    /\ alert' = [alert EXCEPT !.status = "paused"]
    /\ UNCHANGED <<barred, click, optedOut, straddled>>

ResumeAlert ==
    /\ alert.status = "paused"
    /\ alert' = [alert EXCEPT !.status = "active"]
    /\ UNCHANGED <<barred, click, optedOut, straddled>>

\* The admin's toggle: let in again, or blocked, and then swept.
BarAddress(c) ==
    /\ click[c].pc = "idle"
    /\ barred' = ~barred
    /\ click' = [click EXCEPT ![c].pc = IF barred THEN "idle" ELSE "bar"]
    /\ straddled' = FALSE
    /\ UNCHANGED <<alert, optedOut>>

OffSearchAlertsByEmail(c) ==
    /\ click[c].pc = "bar"
    /\ IF alert.status \notin {"none", "off"}
       THEN alert' = [alert EXCEPT !.status = "off"] /\ optedOut' = TRUE
       ELSE UNCHANGED <<alert, optedOut>>
    /\ Reply(c)
    /\ UNCHANGED <<barred, straddled>>

ConsentNext ==
    \/ \E c \in Clicks : \/ Subscribe(c) \/ CreateSearchAlert(c) \/ ConfirmGate(c)
                         \/ UnsubscribeSearchAlert(c) \/ TurnOff(c) \/ EndListingWatches(c)
                         \/ BarAddress(c) \/ OffSearchAlertsByEmail(c)
                         \/ \E t \in 1 .. MaxToken : \/ ConfirmSearchAlert(c, t)
                                                     \/ FollowUnsubscribe(c, t)
    \/ PauseAlert \/ ResumeAlert

ConsentSpec == ConsentInit /\ [][ConsentNext]_consentVars

-----------------------------------------------------------------------------
\* The variables keep to their domains.
ConsentTypeOK ==
    /\ alert \in [status : AlertStatuses, token : 0 .. MaxToken]
    /\ barred \in BOOLEAN
    /\ click \in [Clicks -> [pc : ClickPcs, token : 0 .. MaxToken]]
    /\ optedOut \in BOOLEAN
    /\ straddled \in BOOLEAN

\* A search that was turned off, by the mailbox, the block or the end of a watch,
\* is not mailed again until its mailbox confirms anew, whatever subscribes,
\* resumes and old links race ("re-opt-in must re-confirm", createSearchAlert).
OffNeedsConfirmation == optedOut => alert.status \notin {"active", "paused"}

\* Once the address is blocked and every request is through, the alert is not
\* active: what a subscribe that had passed the block check saves after the sweep
\* is killed by its own confirm.  The one exception is a second subscribe that
\* takes the token away under that confirm (api/search-alerts/confirm).
BlockedIsSilent ==
    barred /\ ~straddled /\ (\A c \in Clicks : click[c].pc = "idle")
    => alert.status # "active"
=============================================================================
