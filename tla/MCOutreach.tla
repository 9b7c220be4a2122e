----------------------------- MODULE MCOutreach -----------------------------
(***************************************************************************)
(* What the system mails unasked, in one run: who may be mailed of a saved *)
(* search, what its digests hold, and the worker's reminders.  They share  *)
(* no state; the part a behaviour is about is chosen at the start.         *)
(***************************************************************************)
EXTENDS AlertConsent, AlertDigest, Nudges

VARIABLE focus

outreachVars == <<focus, consentVars, digestVars, nudgeVars>>

Init ==
    /\ ConsentInit /\ DigestInit /\ NudgeInit
    /\ focus \in {"consent", "digest", "nudge"}
    /\ focus # "digest" => ~daily
    /\ focus # "nudge" => sweep = "invoice"

Next ==
    /\ UNCHANGED focus
    /\ \/ /\ focus = "consent" /\ ConsentNext
          /\ UNCHANGED <<digestVars, nudgeVars>>
       \/ /\ focus = "digest" /\ DigestNext
          /\ UNCHANGED <<consentVars, nudgeVars>>
       \/ /\ focus = "nudge" /\ NudgeNext
          /\ UNCHANGED <<consentVars, digestVars>>

\* Only the part in focus runs, and it runs under its own fairness.
Spec ==
    /\ Init /\ [][Next]_outreachVars
    /\ focus = "digest" => DigestFairness
    /\ focus = "nudge" => NudgeFairness

\* The subscriptions, the queues and the stamps are well typed.
OutreachTypeOK == ConsentTypeOK /\ DigestTypeOK /\ NudgeTypeOK
=============================================================================
