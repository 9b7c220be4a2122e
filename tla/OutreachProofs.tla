---------------------------- MODULE OutreachProofs ----------------------------
(***************************************************************************)
(* What nobody is mailed, for any number of requests, listings, workers    *)
(* and failures: an alert that was turned off or whose address is blocked, *)
(* a digest that loses a listing, a reminder a second time.                *)
(***************************************************************************)
EXTENDS MCOutreach, TLAPS

-----------------------------------------------------------------------------
(* The consent of a saved search.                                           *)

Click == [pc : ClickPcs, token : 0 .. MaxToken]

\* The saved search and the requests about it are well typed.
THEOREM ConsentTypeCorrect == ConsentSpec => []ConsentTypeOK
<1> USE AlertConsentAssumption
<1>1. ConsentInit => ConsentTypeOK
  <2> SUFFICES ASSUME ConsentInit PROVE ConsentTypeOK
    OBVIOUS
  <2>1. alert \in [status : AlertStatuses, token : 0 .. MaxToken]
    BY DEF ConsentInit, AlertStatuses
  <2>2. click \in [Clicks -> Click]
    BY DEF ConsentInit, NoClick, Click, ClickPcs
  <2>3. barred \in BOOLEAN /\ optedOut \in BOOLEAN /\ straddled \in BOOLEAN
    BY DEF ConsentInit
  <2> QED BY <2>1, <2>2, <2>3 DEF ConsentTypeOK, Click
<1>2. ASSUME ConsentTypeOK, [ConsentNext]_consentVars PROVE ConsentTypeOK'
  <2>1. /\ alert \in [status : AlertStatuses, token : 0 .. MaxToken]
        /\ click \in [Clicks -> Click]
        /\ barred \in BOOLEAN /\ optedOut \in BOOLEAN /\ straddled \in BOOLEAN
    BY <1>2 DEF ConsentTypeOK, Click
  <2>2. ASSUME /\ alert' \in [status : AlertStatuses, token : 0 .. MaxToken]
               /\ click' \in [Clicks -> Click]
               /\ barred' \in BOOLEAN /\ optedOut' \in BOOLEAN /\ straddled' \in BOOLEAN
        PROVE  ConsentTypeOK'
    BY <2>2 DEF ConsentTypeOK, Click
  <2>3. ASSUME NEW c \in Clicks, Reply(c) PROVE click' \in [Clicks -> Click]
    BY <2>1, <2>3 DEF Reply, NoClick, Click, ClickPcs
  <2>4. ASSUME NEW c \in Clicks, Subscribe(c) PROVE ConsentTypeOK'
    <3>1. click' \in [Clicks -> Click]
      BY <2>1, <2>4 DEF Subscribe, Click, ClickPcs
    <3> QED BY <2>1, <2>2, <2>4, <3>1 DEF Subscribe
  <2>5. ASSUME NEW c \in Clicks, CreateSearchAlert(c) PROVE ConsentTypeOK'
    <3>1. alert' \in [status : AlertStatuses, token : 0 .. MaxToken]
      BY <2>1, <2>5 DEF CreateSearchAlert, AlertStatuses
    <3>2. straddled' \in BOOLEAN
      BY <2>1, <2>5 DEF CreateSearchAlert
    <3>3. UNCHANGED <<barred, optedOut>> /\ Reply(c)
      BY <2>5 DEF CreateSearchAlert
    <3> QED BY <2>1, <2>2, <2>3, <3>1, <3>2, <3>3
  <2>6. ASSUME NEW c \in Clicks, NEW t \in 1 .. MaxToken, ConfirmSearchAlert(c, t)
        PROVE  ConsentTypeOK'
    <3>1. alert' \in [status : AlertStatuses, token : 0 .. MaxToken]
      BY <2>1, <2>6 DEF ConfirmSearchAlert, AlertStatuses
    <3>2. click' \in [Clicks -> Click]
      BY <2>1, <2>6 DEF ConfirmSearchAlert, Click, ClickPcs
    <3>3. optedOut' \in BOOLEAN /\ UNCHANGED <<barred, straddled>>
      BY <2>6 DEF ConfirmSearchAlert
    <3> QED BY <2>1, <2>2, <3>1, <3>2, <3>3
  <2>7. ASSUME NEW c \in Clicks, ConfirmGate(c) PROVE ConsentTypeOK'
    <3>1. click' \in [Clicks -> Click]
      <4>1. CASE barred
        BY <2>1, <2>7, <4>1 DEF ConfirmGate, Click, ClickPcs
      <4>2. CASE ~barred
        BY <2>3, <2>7, <4>2 DEF ConfirmGate
      <4> QED BY <4>1, <4>2
    <3> QED BY <2>1, <2>2, <2>7, <3>1 DEF ConfirmGate
  <2>8. ASSUME NEW c \in Clicks, UnsubscribeSearchAlert(c) \/ OffSearchAlertsByEmail(c)
        PROVE  ConsentTypeOK'
    <3>1. Reply(c) /\ UNCHANGED <<barred, straddled>>
      BY <2>8 DEF UnsubscribeSearchAlert, OffSearchAlertsByEmail
    <3>2. \/ UNCHANGED <<alert, optedOut>>
          \/ alert' = [alert EXCEPT !.status = "off"] /\ optedOut' = TRUE
      BY <2>8 DEF UnsubscribeSearchAlert, OffSearchAlertsByEmail
    <3>3. alert' \in [status : AlertStatuses, token : 0 .. MaxToken]
      BY <2>1, <3>2 DEF AlertStatuses
    <3>4. optedOut' \in BOOLEAN
      BY <2>1, <3>2
    <3> QED BY <2>1, <2>2, <2>3, <3>1, <3>3, <3>4
  <2>9. ASSUME NEW c \in Clicks,
               TurnOff(c) \/ \E t \in 1 .. MaxToken : FollowUnsubscribe(c, t)
        PROVE  ConsentTypeOK'
    <3>1. click' \in [Clicks -> Click]
      BY <2>1, <2>9 DEF TurnOff, FollowUnsubscribe, Click, ClickPcs
    <3> QED BY <2>1, <2>2, <2>9, <3>1 DEF TurnOff, FollowUnsubscribe
  <2>10. ASSUME NEW c \in Clicks, BarAddress(c) PROVE ConsentTypeOK'
    <3>1. click' \in [Clicks -> Click]
      BY <2>1, <2>10 DEF BarAddress, Click, ClickPcs
    <3>2. barred' \in BOOLEAN /\ straddled' \in BOOLEAN
      BY <2>10 DEF BarAddress
    <3> QED BY <2>1, <2>2, <2>10, <3>1, <3>2 DEF BarAddress
  <2>11. CASE PauseAlert \/ ResumeAlert
    <3>1. alert' \in [status : AlertStatuses, token : 0 .. MaxToken]
      BY <2>1, <2>11 DEF PauseAlert, ResumeAlert, AlertStatuses
    <3> QED BY <2>1, <2>2, <2>11, <3>1 DEF PauseAlert, ResumeAlert
  <2>12. CASE UNCHANGED consentVars
    BY <2>1, <2>2, <2>12 DEF consentVars
  <2> QED BY <1>2, <2>4, <2>5, <2>6, <2>7, <2>8, <2>9, <2>10, <2>11, <2>12
          DEF ConsentNext, EndListingWatches
<1> QED BY <1>1, <1>2, PTL DEF ConsentSpec

\* A search that was turned off stays unmailed until its mailbox confirms anew.
THEOREM OffStaysOff == ConsentSpec => []OffNeedsConfirmation
<1>1. ConsentInit => OffNeedsConfirmation
  BY DEF ConsentInit, OffNeedsConfirmation
<1>2. ASSUME ConsentTypeOK, OffNeedsConfirmation, [ConsentNext]_consentVars
      PROVE  OffNeedsConfirmation'
  <2>1. alert \in [status : AlertStatuses, token : 0 .. MaxToken]
    BY <1>2 DEF ConsentTypeOK
  <2>2. \/ optedOut' = FALSE
        \/ alert'.status \in {"pending", "off"}
        \/ /\ optedOut' = optedOut
           /\ \/ alert' = alert
              \/ alert'.status = alert.status
              \/ alert.status \in {"active", "paused"}
    <3>1. ASSUME NEW c \in Clicks, CreateSearchAlert(c)
          PROVE  /\ optedOut' = optedOut
                 /\ alert'.status = "pending" \/ alert'.status = alert.status
      BY <2>1, <3>1 DEF CreateSearchAlert
    <3>2. ASSUME NEW c \in Clicks, UnsubscribeSearchAlert(c) \/ OffSearchAlertsByEmail(c)
          PROVE  alert'.status = "off" \/ UNCHANGED <<alert, optedOut>>
      BY <2>1, <3>2 DEF UnsubscribeSearchAlert, OffSearchAlertsByEmail
    <3>3. ASSUME NEW c \in Clicks, NEW t \in 1 .. MaxToken, ConfirmSearchAlert(c, t)
          PROVE  optedOut' = FALSE
      BY <3>3 DEF ConfirmSearchAlert
    <3>4. CASE PauseAlert \/ ResumeAlert
      BY <3>4 DEF PauseAlert, ResumeAlert
    <3>5. CASE UNCHANGED <<alert, optedOut>>
      BY <3>5
    <3> QED BY <1>2, <3>1, <3>2, <3>3, <3>4, <3>5
            DEF ConsentNext, Subscribe, ConfirmGate, FollowUnsubscribe, TurnOff,
                EndListingWatches, BarAddress, consentVars
  <2> QED BY <1>2, <2>2 DEF OffNeedsConfirmation
<1> QED BY <1>1, <1>2, ConsentTypeCorrect, PTL DEF ConsentSpec

\* A blocked mailbox whose search can be mailed is about to be swept: by the block
\* itself, or by the confirmation that armed it.
WillSilence(c) ==
    \/ click[c].pc = "bar"
    \/ click[c].pc \in {"confirmed", "kill"} /\ click[c].token = alert.token
SilenceComes ==
    barred /\ ~straddled /\ alert.status \in {"active", "paused"}
    => \E c \in Clicks : WillSilence(c)

\* Once every request is through, a blocked mailbox is not mailed.
THEOREM BlockedStaysSilent == ConsentSpec => []BlockedIsSilent
<1>1. ConsentInit => SilenceComes
  BY DEF ConsentInit, SilenceComes
<1>2. ASSUME ConsentTypeOK, SilenceComes, [ConsentNext]_consentVars PROVE SilenceComes'
  <2>1. alert \in [status : AlertStatuses, token : 0 .. MaxToken] /\ click \in [Clicks -> Click]
    BY <1>2 DEF ConsentTypeOK, Click
  <2>2. SUFFICES ASSUME barred', ~straddled', alert'.status \in {"active", "paused"}
                 PROVE  \E c \in Clicks : WillSilence(c)'
    BY DEF SilenceComes
  \* Who is about to silence the alert goes on to do so.
  <2>3. ASSUME barred, ~straddled, alert.status \in {"active", "paused"},
               \A c \in Clicks : WillSilence(c) => WillSilence(c)'
        PROVE  \E c \in Clicks : WillSilence(c)'
    BY <1>2, <2>3 DEF SilenceComes
  <2>4. ASSUME NEW c \in Clicks, NEW r, click' = [click EXCEPT ![c] = r],
               click[c].pc \in {"idle", "save", "off"}, UNCHANGED <<alert, barred, straddled>>
        PROVE  \E d \in Clicks : WillSilence(d)'
    BY <2>1, <2>2, <2>3, <2>4 DEF WillSilence
  <2>5. ASSUME NEW c \in Clicks,
               Subscribe(c) \/ TurnOff(c) \/ \E t \in 1 .. MaxToken : FollowUnsubscribe(c, t)
        PROVE  \E d \in Clicks : WillSilence(d)'
    <3>1. click[c].pc = "idle" /\ UNCHANGED <<alert, barred, straddled>>
      BY <2>5 DEF Subscribe, TurnOff, FollowUnsubscribe
    <3>2. \E r : click' = [click EXCEPT ![c] = r]
      BY <2>5 DEF Subscribe, TurnOff, FollowUnsubscribe
    <3> QED BY <2>4, <3>1, <3>2
  <2>6. ASSUME NEW c \in Clicks, CreateSearchAlert(c)
        PROVE  \E d \in Clicks : WillSilence(d)'
    <3>1. /\ click[c].pc = "save" /\ barred' = barred
          /\ click' = [click EXCEPT ![c] = NoClick]
          /\ straddled' = (straddled \/ \E d \in Clicks : click[d].pc \in {"confirmed", "kill"})
      BY <2>6 DEF CreateSearchAlert, Reply
    <3>2. alert.status \in {"active", "paused"} /\ barred
      BY <2>1, <2>2, <2>6, <3>1 DEF CreateSearchAlert, AlertStatuses
    <3>3. ~straddled /\ \A d \in Clicks : click[d].pc \notin {"confirmed", "kill"}
      BY <2>2, <3>1
    <3>4. PICK d \in Clicks : click[d].pc = "bar"
      BY <1>2, <3>2, <3>3 DEF SilenceComes, WillSilence
    <3>5. click'[d].pc = "bar"
      BY <2>1, <3>1, <3>4
    <3> QED BY <3>5 DEF WillSilence
  <2>7. ASSUME NEW c \in Clicks, NEW t \in 1 .. MaxToken, ConfirmSearchAlert(c, t)
        PROVE  \E d \in Clicks : WillSilence(d)'
    <3>1. click'[c] = [pc |-> "confirmed", token |-> t] /\ alert'.token = t
      BY <2>1, <2>7 DEF ConfirmSearchAlert
    <3> QED BY <3>1 DEF WillSilence
  <2>8. ASSUME NEW c \in Clicks, ConfirmGate(c)
        PROVE  \E d \in Clicks : WillSilence(d)'
    <3>1. barred /\ click' = [click EXCEPT ![c].pc = "kill"] /\ UNCHANGED <<alert, straddled>>
          /\ click[c].pc = "confirmed"
      BY <2>2, <2>8 DEF ConfirmGate
    <3>2. /\ click'[c].pc = "kill" /\ click'[c].token = click[c].token
          /\ \A d \in Clicks \ {c} : click'[d] = click[d]
      BY <2>1, <3>1 DEF Click
    <3> QED BY <2>2, <2>3, <3>1, <3>2 DEF WillSilence
  <2>9. ASSUME NEW c \in Clicks, UnsubscribeSearchAlert(c)
        PROVE  \E d \in Clicks : WillSilence(d)'
    <3>1. /\ ~(alert.token = click[c].token /\ alert.status # "off")
          /\ UNCHANGED <<alert, barred, straddled>>
          /\ click' = [click EXCEPT ![c] = NoClick] /\ click[c].pc \in {"off", "kill"}
      BY <2>1, <2>2, <2>9 DEF UnsubscribeSearchAlert, Reply
    <3>2. ~WillSilence(c)
      BY <2>2, <3>1 DEF WillSilence
    <3> QED BY <2>1, <2>2, <2>3, <3>1, <3>2 DEF WillSilence
  <2>10. ASSUME NEW c \in Clicks, BarAddress(c)
         PROVE  \E d \in Clicks : WillSilence(d)'
    <3>1. click'[c].pc = "bar"
      <4>1. ~barred
        BY <2>2, <2>10 DEF BarAddress
      <4>2. click' = [click EXCEPT ![c].pc = "bar"]
        BY <2>10, <4>1 DEF BarAddress
      <4> QED BY <2>1, <4>2 DEF Click
    <3> QED BY <3>1 DEF WillSilence
  <2>11. ASSUME NEW c \in Clicks, OffSearchAlertsByEmail(c)
         PROVE  \E d \in Clicks : WillSilence(d)'
    BY <2>1, <2>2, <2>11 DEF OffSearchAlertsByEmail, AlertStatuses
  <2>12. CASE PauseAlert \/ ResumeAlert
    <3>1. /\ alert.status \in {"active", "paused"} /\ alert'.token = alert.token
          /\ UNCHANGED <<barred, click, straddled>>
      BY <2>1, <2>12 DEF PauseAlert, ResumeAlert
    <3> QED BY <2>2, <2>3, <3>1 DEF WillSilence
  <2>13. CASE UNCHANGED consentVars
    BY <2>2, <2>3, <2>13 DEF consentVars, WillSilence
  <2> QED BY <1>2, <2>5, <2>6, <2>7, <2>8, <2>9, <2>10, <2>11, <2>12, <2>13
          DEF ConsentNext, EndListingWatches
<1>3. SilenceComes => BlockedIsSilent
  BY DEF SilenceComes, BlockedIsSilent, WillSilence
<1> QED BY <1>1, <1>2, <1>3, ConsentTypeCorrect, PTL DEF ConsentSpec

-----------------------------------------------------------------------------
(* The backlog of a saved search.                                           *)

Sending(p) == sender[p].pc \in {"load", "send", "mark"}
LotIds == Lots \cup {NoLot}
SenderRows == [pc : SenderPcs, lot : LotIds, lots : SUBSET LotIds]

\* As long as no two requests overlap, one sender at most is at work, and what it
\* read is the whole queue.
OneSender ==
    /\ sender \in [Senders -> SenderRows]
    /\ ~mingled => \A p, q \in Busy : p = q
    /\ ~mingled => \A p \in Senders : Sending(p) => queue \subseteq sender[p].lots

LEMMA StartIsAlone ==
  ASSUME OneSender, NEW p \in Senders, NEW pc, NEW lot, sender[p].pc = "idle",
         Start(p, pc, lot, queue), UNCHANGED queue,
         [pc |-> pc, lot |-> lot, lots |-> queue] \in SenderRows
  PROVE  OneSender'
<1>1. /\ sender'[p].pc = pc /\ sender'[p].lots = queue
      /\ \A q \in Senders \ {p} : sender'[q] = sender[q]
  BY DEF OneSender, Start
<1>2. sender' \in [Senders -> SenderRows]
  BY DEF OneSender, Start
<1>3. ~mingled' => ~mingled /\ Busy = {}
  BY DEF Start
<1>4. ~mingled' => \A q \in Senders \ {p} : sender'[q].pc = "idle"
  BY <1>1, <1>3 DEF Busy
<1>5. ~mingled' => \A q, r \in Busy' : q = r
  BY <1>4 DEF Busy, Senders
<1>6. ~mingled' => \A q \in Senders : Sending(q)' => queue' \subseteq sender'[q].lots
  BY <1>1, <1>4 DEF Sending
<1> QED BY <1>2, <1>5, <1>6 DEF OneSender

\* A sender that goes on or stops keeps the others where they are.
LEMMA OneGoesOn ==
  ASSUME OneSender, NEW p \in Senders, NEW pc \in SenderPcs, sender[p].pc # "idle",
         \/ sender' = [sender EXCEPT ![p] = NoSender] /\ pc = "idle"
         \/ sender' = [sender EXCEPT ![p].pc = pc] /\ (Sending(p) \/ pc = "idle"),
         mingled' = mingled,
         queue' \subseteq queue \/ pc = "idle"
  PROVE  OneSender'
<1>1. /\ sender'[p].pc = pc /\ \A q \in Senders \ {p} : sender'[q] = sender[q]
      /\ pc # "idle" => sender'[p].lots = sender[p].lots
  BY DEF OneSender, NoSender, SenderRows
<1>2. NoSender \in SenderRows
  BY DEF NoSender, SenderRows, SenderPcs, LotIds
<1>3. sender' \in [Senders -> SenderRows]
  BY <1>2 DEF OneSender, SenderRows
<1>4. ~mingled => \A q \in Senders \ {p} : sender[q].pc = "idle"
  BY DEF OneSender, Busy
<1>5. ~mingled' => \A q, r \in Busy' : q = r
  BY <1>1, <1>4 DEF Busy, Senders
<1>6. ~mingled' => \A q \in Senders : Sending(q)' => queue' \subseteq sender'[q].lots
  <2> SUFFICES ASSUME ~mingled', NEW q \in Senders, Sending(q)'
               PROVE  queue' \subseteq sender'[q].lots
    OBVIOUS
  <2>1. q = p /\ pc # "idle"
    BY <1>1, <1>4 DEF Sending
  <2>2. Sending(p) /\ queue' \subseteq queue
    BY <2>1
  <2> QED BY <1>1, <2>1, <2>2 DEF OneSender
<1> QED BY <1>3, <1>5, <1>6 DEF OneSender

\* An append has a listing of its own.
AppendsALot == \A p \in Senders : sender[p].pc = "append" => sender[p].lot \in Lots

\* The queue, and what its senders have read of it, are well typed.
LEMMA DigestTyped ==
    DigestInit /\ [][DigestNext]_digestVars => [](DigestTypeOK /\ AppendsALot)
<1> DEFINE Row == [pc : SenderPcs, lot : Lots \cup {NoLot}, lots : SUBSET Lots]
<1> USE AlertDigestAssumption
<1>1. DigestInit => DigestTypeOK /\ AppendsALot
  <2> SUFFICES ASSUME DigestInit PROVE DigestTypeOK /\ AppendsALot
    OBVIOUS
  <2>1. NoSender \in Row /\ NoSender.pc = "idle"
    BY DEF NoSender, SenderPcs
  <2>2. sender \in [Senders -> Row] /\ AppendsALot
    BY <2>1 DEF DigestInit, AppendsALot
  <2>3. daily \in BOOLEAN /\ armed \in BOOLEAN /\ aged \in BOOLEAN /\ mingled \in BOOLEAN
    BY DEF DigestInit
  <2>4. /\ onSale \subseteq Lots /\ queue \subseteq Lots /\ owed \subseteq Lots
        /\ lastMail \in {"never", "recent", "old"} /\ faults \in 0 .. MaxFaults
    BY DEF DigestInit
  <2> QED BY <2>2, <2>3, <2>4 DEF DigestTypeOK
<1>2. ASSUME DigestTypeOK, AppendsALot, [DigestNext]_digestVars
      PROVE  (DigestTypeOK /\ AppendsALot)'
  <2> USE <1>2 DEF DigestTypeOK
  <2>1. sender \in [Senders -> Row] /\ Hooked \subseteq Senders /\ Sweeper \in Senders
    BY DEF Senders
  <2>2. ASSUME NEW p \in Senders, NEW lot \in Lots \cup {NoLot},
               NEW pc \in SenderPcs \ {"append"},
               Start(p, pc, lot, queue) \/ (lot \in Lots /\ Start(p, "append", lot, queue)),
               UNCHANGED <<daily, armed, queue, lastMail, aged, faults, owed>>,
               onSale' \subseteq Lots
        PROVE  (DigestTypeOK /\ AppendsALot)'
    <3>1. PICK at \in SenderPcs :
            /\ at = "append" => lot \in Lots
            /\ sender' = [sender EXCEPT ![p] = [pc |-> at, lot |-> lot, lots |-> queue]]
            /\ mingled' = (mingled \/ Busy # {})
      BY <2>2 DEF Start, SenderPcs
    <3>2. sender' \in [Senders -> Row] /\ AppendsALot'
      BY <2>1, <3>1 DEF AppendsALot
    <3> QED BY <2>2, <3>1, <3>2
  <2>3. ASSUME NEW p \in Hooked, NEW l \in Lots, AlertSavedSearches(p, l)
        PROVE  (DigestTypeOK /\ AppendsALot)'
    BY <2>1, <2>2, <2>3 DEF AlertSavedSearches, SenderPcs
  <2>4. ASSUME NEW p \in Hooked, AdminFlush(p) PROVE (DigestTypeOK /\ AppendsALot)'
    BY <2>1, <2>2, <2>4 DEF AdminFlush, SenderPcs
  <2>5. CASE SearchAlertFlush
    BY <2>1, <2>2, <2>5 DEF SearchAlertFlush, SenderPcs
  <2>6. ASSUME NEW p \in Senders, Finish(p) PROVE sender' \in [Senders -> Row] /\ AppendsALot'
    BY <2>1, <2>6 DEF Finish, NoSender, SenderPcs, AppendsALot
  <2>7. ASSUME NEW p \in Senders, NEW pc \in SenderPcs \ {"append"},
               sender' = [sender EXCEPT ![p].pc = pc]
        PROVE  sender' \in [Senders -> Row] /\ AppendsALot'
    BY <2>1, <2>7 DEF AppendsALot
  <2>8. ASSUME NEW p \in Hooked, AppendPending(p) PROVE (DigestTypeOK /\ AppendsALot)'
    <3>1. sender[p].lot \in Lots
      BY <2>1, <2>8 DEF AppendPending, AppendsALot
    <3> QED BY <2>1, <2>6, <2>8, <3>1 DEF AppendPending
  <2>9. ASSUME NEW p \in Senders, LoadDigest(p) \/ SendDigest(p)
        PROVE  (DigestTypeOK /\ AppendsALot)'
    <3>1. \E pc \in SenderPcs \ {"append"} : sender' = [sender EXCEPT ![p].pc = pc]
      BY <2>9 DEF LoadDigest, SendDigest, SenderPcs
    <3> QED BY <2>7, <2>9, <3>1 DEF LoadDigest, SendDigest
  <2>10. ASSUME NEW p \in Senders, MarkSearchAlerted(p) PROVE (DigestTypeOK /\ AppendsALot)'
    BY <2>6, <2>10 DEF MarkSearchAlerted
  <2>11. ASSUME NEW p \in Senders, SenderFails(p) PROVE (DigestTypeOK /\ AppendsALot)'
    BY <2>6, <2>11 DEF SenderFails
  <2>12. CASE UNCHANGED sender /\ (UNCHANGED digestVars \/ MuteOrArm \/ CooldownPasses
                                 \/ \E l \in Lots : ListingLeaves(l))
    BY <2>12 DEF AppendsALot, digestVars, MuteOrArm, CooldownPasses, ListingLeaves
  <2>13. CASE UNCHANGED digestVars
    BY <2>12, <2>13 DEF digestVars
  <2> QED BY <1>2, <2>3, <2>4, <2>5, <2>8, <2>9, <2>10, <2>11, <2>12, <2>13
          DEF DigestNext, SenderSteps, MuteOrArm, CooldownPasses, ListingLeaves
<1> QED BY <1>1, <1>2, PTL

\* The same as a theorem of the part.
THEOREM DigestTypeCorrect == DigestSpec => []DigestTypeOK
BY DigestTyped, PTL DEF DigestSpec

QueueTyped == queue \subseteq LotIds

\* A queued listing stays queued until a digest has taken it up.
THEOREM TheBacklogIsKept == DigestSpec => []BacklogKept
<1>1. DigestInit => OneSender /\ BacklogKept
  BY DEF DigestInit, OneSender, BacklogKept, Busy, Sending, NoSender, SenderRows, SenderPcs,
     LotIds
<1>2. DigestInit => QueueTyped
  BY DEF DigestInit, QueueTyped
<1>3. ASSUME OneSender, BacklogKept, QueueTyped, [DigestNext]_digestVars
      PROVE  OneSender' /\ BacklogKept' /\ QueueTyped'
  <2>1. sender \in [Senders -> SenderRows]
    BY <1>3 DEF OneSender
  <2>2. Hooked \subseteq Senders /\ Sweeper \in Senders
    BY DEF Senders
  <2>3. ASSUME NEW p \in Senders, NEW pc \in SenderPcs, NEW lot \in LotIds,
               sender[p].pc = "idle", Start(p, pc, lot, queue), UNCHANGED <<queue, owed>>
        PROVE  OneSender' /\ BacklogKept' /\ QueueTyped'
    <3>1. [pc |-> pc, lot |-> lot, lots |-> queue] \in SenderRows
      BY <1>3 DEF SenderRows, QueueTyped
    <3>2. OneSender'
      BY <1>3, <2>3, <3>1, StartIsAlone
    <3>3. mingled => mingled'
      BY <2>3 DEF Start
    <3> QED BY <1>3, <2>3, <3>2, <3>3 DEF BacklogKept, QueueTyped
  <2>4. ASSUME NEW p \in Hooked, NEW l \in Lots, AlertSavedSearches(p, l)
        PROVE  OneSender' /\ BacklogKept' /\ QueueTyped'
    <3> DEFINE pc == IF daily \/ lastMail = "recent" THEN "append" ELSE "load"
    <3>1. pc \in SenderPcs /\ p \in Senders /\ l \in LotIds
      BY <2>2 DEF SenderPcs, LotIds
    <3>2. sender[p].pc = "idle" /\ Start(p, pc, l, queue) /\ UNCHANGED <<queue, owed>>
      BY <2>4 DEF AlertSavedSearches
    <3> HIDE DEF pc
    <3> QED BY <2>3, <3>1, <3>2
  <2>5. ASSUME NEW p \in Hooked, AdminFlush(p)
        PROVE  OneSender' /\ BacklogKept' /\ QueueTyped'
    BY <2>2, <2>3, <2>5 DEF AdminFlush, SenderPcs, LotIds
  <2>6. CASE SearchAlertFlush
    BY <2>2, <2>3, <2>6 DEF SearchAlertFlush, SenderPcs, LotIds
  <2>7. ASSUME NEW p \in Hooked, AppendPending(p)
        PROVE  OneSender' /\ BacklogKept' /\ QueueTyped'
    <3>1. /\ sender[p].pc = "append" /\ sender' = [sender EXCEPT ![p] = NoSender]
          /\ mingled' = mingled
      BY <2>7 DEF AppendPending, Finish
    <3>2. OneSender'
      BY <1>3, <2>2, <3>1, OneGoesOn DEF SenderPcs
    <3>3. queue' = queue \cup {sender[p].lot} /\ owed' = owed \cup {sender[p].lot}
      BY <2>7 DEF AppendPending
    <3>4. BacklogKept'
      BY <1>3, <3>1, <3>3 DEF BacklogKept, QueueTyped
    <3>5. QueueTyped'
      BY <1>3, <2>1, <2>2, <3>3 DEF SenderRows, QueueTyped
    <3> QED BY <3>2, <3>4, <3>5
  <2>8. ASSUME NEW p \in Senders, LoadDigest(p) \/ SendDigest(p)
        PROVE  OneSender' /\ BacklogKept' /\ QueueTyped'
    <3>1. /\ Sending(p) /\ UNCHANGED <<queue, owed, mingled>>
          /\ \E pc \in {"send", "mark"} : sender' = [sender EXCEPT ![p].pc = pc]
      BY <2>8 DEF LoadDigest, SendDigest, Sending
    <3>2. OneSender'
      BY <1>3, <3>1, OneGoesOn DEF Sending, SenderPcs
    <3> QED BY <1>3, <3>1, <3>2 DEF BacklogKept, QueueTyped
  <2>9. ASSUME NEW p \in Senders, MarkSearchAlerted(p)
         PROVE  OneSender' /\ BacklogKept' /\ QueueTyped'
    <3>1. /\ sender[p].pc = "mark" /\ sender' = [sender EXCEPT ![p] = NoSender]
          /\ mingled' = mingled /\ queue' = {} /\ owed' = owed \ sender[p].lots
      BY <2>9 DEF MarkSearchAlerted, Finish
    <3>2. OneSender'
      BY <1>3, <3>1, OneGoesOn DEF SenderPcs
    <3>3. ~mingled => owed \subseteq sender[p].lots
      BY <1>3, <3>1 DEF OneSender, BacklogKept, Sending
    <3> QED BY <3>1, <3>2, <3>3 DEF BacklogKept, QueueTyped
  <2>10. ASSUME NEW p \in Senders, SenderFails(p)
         PROVE  OneSender' /\ BacklogKept' /\ QueueTyped'
    <3>1. /\ sender[p].pc # "idle" /\ sender' = [sender EXCEPT ![p] = NoSender]
          /\ UNCHANGED <<queue, owed, mingled>>
      BY <2>10 DEF SenderFails, Finish
    <3>2. OneSender'
      BY <1>3, <3>1, OneGoesOn DEF SenderPcs
    <3> QED BY <1>3, <3>1, <3>2 DEF BacklogKept, QueueTyped
  <2>11. CASE UNCHANGED <<sender, queue, owed, mingled>>
    BY <1>3, <2>11 DEF OneSender, BacklogKept, Busy, Sending, QueueTyped
  <2> QED BY <1>3, <2>4, <2>5, <2>6, <2>7, <2>8, <2>9, <2>10, <2>11
          DEF DigestNext, SenderSteps, ListingLeaves, MuteOrArm, CooldownPasses, digestVars
<1> QED BY <1>1, <1>2, <1>3, PTL DEF DigestSpec

-----------------------------------------------------------------------------
(* The reminders.                                                           *)

\* The stamp counts the claim: while it is free, nothing is claimed.
StampCounts ==
    /\ claims \in {0, 1}
    /\ stamp \in {"none", "recent", "old"}
    /\ Free => claims = 0

\* A reminder is claimed once, for any number of workers.
THEOREM RemindersAreClaimedOnce == NudgeSpec => []ClaimedOnce
<1>1. NudgeInit => StampCounts
  BY DEF NudgeInit, StampCounts
<1>2. ASSUME StampCounts, [NudgeNext]_nudgeVars PROVE StampCounts'
  <2>1. CASE UNCHANGED <<sweep, stamp, claims>>
    BY <1>2, <2>1 DEF StampCounts, Free
  <2>2. ASSUME NEW w \in Tickers, Stamp(w) PROVE StampCounts'
    BY <1>2, <2>2 DEF Stamp, StampCounts, Free
  <2>3. ASSUME NEW w \in Tickers, NEW due, Select(w, due) \/ MailNudge(w) PROVE StampCounts'
    BY <2>1, <2>3 DEF Select, MailNudge
  <2>4. ASSUME NEW w \in Tickers, Tick(w) PROVE StampCounts'
    BY <2>2, <2>3, <2>4
       DEF Tick, Sweep, NotifyExpiredListings, NudgeStaleQuotes, NudgeUnquotedRfqs,
           NudgeClosingSoonRfqs, NudgeUnratedDeals, NudgeUnansweredCounters,
           NudgeUnansweredOperators, RemindOverdueInvoices, NudgeEmptyBookOperators
  <2>5. CASE EndRound
    BY <1>2, <2>5 DEF EndRound, StampCounts, Free, Weekly
  <2>6. CASE WeekPasses
    BY <1>2, <2>6 DEF WeekPasses, StampCounts, Free
  <2> QED BY <1>2, <2>1, <2>4, <2>5, <2>6
          DEF NudgeNext, RowsOnly, CreateQuote, EndQuote, CounterQuote, CloseDealOnQuote,
              SettleBill, RateDeal, CloseRequestRfq, FanOutRfq, MoveDate, DismissRfq,
              ChangeListings, WindowPasses, nudgeVars
<1>3. StampCounts => ClaimedOnce
  BY DEF StampCounts, ClaimedOnce
<1> QED BY <1>1, <1>2, <1>3, PTL DEF NudgeSpec

NudgeFlags ==
    /\ counter \in BOOLEAN /\ rated \in BOOLEAN /\ dismissed \in BOOLEAN
    /\ book \in BOOLEAN /\ banned \in BOOLEAN /\ ripe \in BOOLEAN

LEMMA NudgeFlagsTyped ==
    NudgeFlags <=> <<counter, rated, dismissed, book, banned, ripe>> \in
                     BOOLEAN \X BOOLEAN \X BOOLEAN \X BOOLEAN \X BOOLEAN \X BOOLEAN
BY DEF NudgeFlags

\* The rows a reminder looks at, its stamp and its claims are well typed.
LEMMA NudgeTyped == NudgeInit /\ [][NudgeNext]_nudgeVars => []NudgeTypeOK
<1> DEFINE Rows == /\ sweep \in Sweeps
                   /\ rfqIs \in {"new", "matched", "quoted", "closed"}
                   /\ offer \in {"none", "sent", "dead", "accepted"}
                   /\ bill \in {"none", "invoiced", "settled"}
                   /\ NudgeFlags
                   /\ leg \in {"active", "ended"}
                   /\ stamp \in {"none", "recent", "old"}
                   /\ visit \in [Tickers -> {"idle", "due", "mail"}]
                   /\ claims \in Nat
<1>0. NudgeTypeOK <=> Rows
  <2> HIDE DEF NudgeFlags
  <2> QED BY NudgeFlagsTyped DEF NudgeTypeOK
<1>1. NudgeInit => Rows
  <2> SUFFICES ASSUME NudgeInit PROVE Rows
    OBVIOUS
  <2>1. NudgeFlags
    BY DEF NudgeInit, NudgeFlags
  <2> QED BY <2>1 DEF NudgeInit
<1>2. ASSUME Rows, [NudgeNext]_nudgeVars PROVE Rows'
  <2> USE <1>2 DEF NudgeFlags
  <2>1. CASE UNCHANGED nudgeVars
    BY <2>1 DEF nudgeVars, nudgeWorld
  <2>2. ASSUME NEW w \in Tickers, Tick(w) PROVE Rows'
    <3>1. UNCHANGED <<sweep, nudgeWorld, ripe>>
      BY <2>2 DEF Tick, Sweep, NotifyExpiredListings, NudgeStaleQuotes, NudgeUnquotedRfqs,
           NudgeClosingSoonRfqs, NudgeUnratedDeals, NudgeUnansweredCounters,
           NudgeUnansweredOperators, RemindOverdueInvoices, NudgeEmptyBookOperators,
           Select, Stamp, MailNudge
    <3>2. \/ \E due \in BOOLEAN : Select(w, due)
          \/ Stamp(w) \/ MailNudge(w)
      BY <2>2 DEF Tick, Sweep, NotifyExpiredListings, NudgeStaleQuotes, NudgeUnquotedRfqs,
           NudgeClosingSoonRfqs, NudgeUnratedDeals, NudgeUnansweredCounters,
           NudgeUnansweredOperators, RemindOverdueInvoices, NudgeEmptyBookOperators,
           Select
    <3>3. /\ visit' \in [Tickers -> {"idle", "due", "mail"}]
          /\ stamp' \in {"none", "recent", "old"} /\ claims' \in Nat
      BY <3>2 DEF Select, Stamp, MailNudge
    <3> QED BY <3>1, <3>3 DEF nudgeWorld
  <2>3. CASE EndRound \/ WeekPasses
    <3>1. NudgeFlags'
      BY <2>3 DEF EndRound, WeekPasses, nudgeWorld
    <3>2. claims' \in Nat /\ stamp' \in {"none", "recent", "old"}
      BY <2>3 DEF EndRound, WeekPasses
    <3> QED BY <2>3, <3>1, <3>2 DEF EndRound, WeekPasses, nudgeWorld
  <2>4. CASE CreateQuote \/ EndQuote \/ CounterQuote \/ CloseDealOnQuote
    BY <2>4 DEF CreateQuote, EndQuote, CounterQuote, CloseDealOnQuote, Restart, RowsOnly
  <2>5. CASE SettleBill \/ RateDeal \/ CloseRequestRfq \/ FanOutRfq
    <3>1. NudgeFlags'
      BY <2>5 DEF SettleBill, RateDeal, CloseRequestRfq, FanOutRfq
    <3> QED BY <2>5, <3>1 DEF SettleBill, RateDeal, CloseRequestRfq, FanOutRfq, RowsOnly
  <2>6. CASE MoveDate \/ DismissRfq \/ ChangeListings \/ WindowPasses
    BY <2>6, ZenonT(60) DEF MoveDate, DismissRfq, ChangeListings, WindowPasses, Restart, RowsOnly, nudgeWorld
  <2> QED BY <1>2, <2>1, <2>2, <2>3, <2>4, <2>5, <2>6 DEF NudgeNext
<1> HIDE DEF Rows
<1> QED BY <1>0, <1>1, <1>2, PTL

\* The same as a theorem of the part.
THEOREM NudgeTypeCorrect == NudgeSpec => []NudgeTypeOK
BY NudgeTyped, PTL DEF NudgeSpec

-----------------------------------------------------------------------------
(* The composition.                                                         *)

\* Each part moves in the composition as it does alone, or not at all.
LEMMA OutreachSteps ==
    ASSUME [Next]_outreachVars
    PROVE  [ConsentNext]_consentVars /\ [DigestNext]_digestVars /\ [NudgeNext]_nudgeVars
<1>1. CASE UNCHANGED outreachVars
  BY <1>1 DEF outreachVars
<1>2. CASE Next
  BY <1>2 DEF Next
<1> QED BY <1>1, <1>2

\* The subscriptions, the queues and the stamps are well typed.
THEOREM OutreachTypeCorrect == Spec => []OutreachTypeOK
<1>1. Init => ConsentInit /\ DigestInit /\ NudgeInit
  BY DEF Init
<1>2. [Next]_outreachVars =>
        [ConsentNext]_consentVars /\ [DigestNext]_digestVars /\ [NudgeNext]_nudgeVars
  BY OutreachSteps
<1>3. Spec => ConsentSpec
  BY <1>1, <1>2, PTL DEF Spec, ConsentSpec
<1>4. Spec => DigestInit /\ [][DigestNext]_digestVars
  BY <1>1, <1>2, PTL DEF Spec
<1>5. Spec => NudgeInit /\ [][NudgeNext]_nudgeVars
  BY <1>1, <1>2, PTL DEF Spec
<1> QED
  BY <1>3, <1>4, <1>5, ConsentTypeCorrect, DigestTyped, NudgeTyped, PTL DEF OutreachTypeOK
=============================================================================
