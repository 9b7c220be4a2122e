--------------------------- MODULE AgreementProofs ---------------------------
(***************************************************************************)
(* That the pages are honest and the fan-outs agree, for any number of     *)
(* operators, links and edits, and the composition with the repositories.  *)
(***************************************************************************)
EXTENDS MCAgreement, BackendProofs, FiniteSetTheorems, TLAPS

-----------------------------------------------------------------------------
(* The buyer's tab.                                                         *)

\* A document speaks for the link that was opened last, or for none: nothing of an
\* earlier link outlives the document that showed it.
OneLink ==
    /\ token \in {NoLink, opened}
    /\ stash = IF storable THEN opened ELSE NoLink
    /\ storable => token = opened
    /\ rows \in {NoLink, token}
    /\ loads \subseteq {token} \ {NoLink}
    /\ busy => rows # NoLink

TabFields ==
    /\ token \in Links \cup {NoLink} /\ stash \in Links \cup {NoLink}
    /\ rows \in Links \cup {NoLink} /\ opened \in Links \cup {NoLink}
    /\ loads \subseteq Links
    /\ storable \in BOOLEAN /\ busy \in BOOLEAN /\ editing \in BOOLEAN

LEMMA TabFieldsTyped == TabFields <=> TabTypeOK
BY DEF TabFields, TabTypeOK

\* The tab's fields are well typed, and it shows one link.
LEMMA TabCorrect == TabInit /\ [][TabNext]_tabVars => [](TabTypeOK /\ OneLink)
<1> USE NoLinkIsNone
<1>1. TabInit => TabFields /\ OneLink
  BY DEF TabInit, TabFields, OneLink
<1>2. ASSUME TabFields, OneLink, [TabNext]_tabVars PROVE (TabFields /\ OneLink)'
  <2> USE <1>2 DEF TabFields, OneLink
  <2>1. ASSUME NEW link \in Links \cup {NoLink}, Arrive(link) PROVE (TabFields /\ OneLink)'
    <3>1. /\ UNCHANGED storable /\ rows' = NoLink /\ busy' = FALSE /\ editing' = FALSE
          /\ loads' = IF token' = NoLink THEN {} ELSE {token'}
          /\ opened' = IF link # NoLink THEN link ELSE opened
      BY <2>1 DEF Arrive, Arrives
    <3>2. /\ token' = IF link # NoLink THEN link ELSE stash
          /\ stash' = IF link # NoLink /\ storable THEN link ELSE stash
      BY <2>1 DEF Arrive, Arrives
    <3>3. token' \in {NoLink, opened'} /\ (storable' => token' = opened')
      BY <3>1, <3>2
    <3>4. stash' = IF storable' THEN opened' ELSE NoLink
      BY <3>1, <3>2
    <3>5. OneLink'
      BY <3>1, <3>3, <3>4
    <3>6. TabFields'
      BY <3>1, <3>2
    <3> QED BY <3>5, <3>6
  <2>2. ASSUME NEW link \in Links, Land(link) PROVE (TabFields /\ OneLink)'
    BY <2>2 DEF Land
  <2>3. CASE Search \/ Wake
    <3>1. /\ loads' = loads \cup {token} /\ token # NoLink
          /\ UNCHANGED <<token, stash, storable, rows, busy, editing, opened>>
      BY <2>3 DEF Search, Wake
    <3> QED BY <3>1
  <2>4. CASE Click \/ EditForm
    <3>1. TabFields'
      BY <2>4 DEF Click, EditForm
    <3>2. OneLink'
      BY <2>4 DEF Click, EditForm
    <3> QED BY <3>1, <3>2
  <2>5. ASSUME NEW wentThrough \in BOOLEAN, Done(wentThrough) PROVE (TabFields /\ OneLink)'
    <3>1. /\ loads' \in {loads, loads \cup {token}} /\ token # NoLink
          /\ busy' = FALSE /\ UNCHANGED <<token, stash, storable, rows, opened>>
      BY <2>5 DEF Done
    <3>2. editing' \in BOOLEAN
      BY <2>5 DEF Done
    <3> QED BY <3>1, <3>2
  <2>6. CASE UNCHANGED tabVars
    BY <2>6 DEF tabVars
  <2> QED BY <1>2, <2>1, <2>2, <2>3, <2>4, <2>5, <2>6 DEF TabNext
<1> QED BY <1>1, <1>2, TabFieldsTyped, PTL

\* The rows on screen are of the link that was opened last.
LEMMA TabSpeaks == ASSUME OneLink PROVE TabSpeaksForItsLink
BY DEF OneLink, TabSpeaksForItsLink

-----------------------------------------------------------------------------
(* The admin's page.                                                        *)

Matters == {"operators", "ledger", "listings", "requests", "jobs", "demand"}
DeskRow == [verified : BOOLEAN, suspended : BOOLEAN, blocked : BOOLEAN,
            invoice : {"pending", "invoiced", "paid", "void"}, rated : BOOLEAN,
            lot : {"active", "paused", "archived", "sold"}, oneOff : BOOLEAN,
            request : LiveRequests \cup {"closed", "expired", "spam"}, flags : SUBSET Flags,
            job : {"queued", "done", "failed"}, backlog : BOOLEAN]

\* Every button a table ever shows.
Buttons ==
    CASE matter = "operators" -> {"verify", "unverify", "suspend", "reinstate"}
      [] matter = "ledger" -> {"markPaid", "void", "revert", "clearRating"}
      [] matter = "listings" -> {"paused", "archived"} \cup Flags
      [] matter = "requests" -> {"spam", "close", "block", "unblock"} \cup Flags
      [] matter = "jobs" -> {"retry"}
      [] matter = "demand" -> {"flush"}

\* The button about to be pressed was one of this table's.
ClickIsOurs ==
    /\ matter \in Matters
    /\ desk \in DeskRow
    /\ click = NoClick \/ click \in Buttons

LEMMA OffersAreButtons ==
    ASSUME matter \in Matters, desk \in DeskRow
    PROVE  Offered \subseteq Buttons
<1> USE DEF Matters, DeskRow, Offered, Buttons
<1>1. CASE matter = "operators"
  BY <1>1 DEF OffersOnOperator
<1>2. CASE matter = "ledger"
  BY <1>2 DEF OffersOnDeal
<1>3. CASE matter = "listings"
  BY <1>3 DEF OffersOnListing, OffersOnFlags
<1>4. CASE matter = "requests"
  BY <1>4 DEF OffersOnRequest, OffersOnMailbox, OffersOnFlags
<1>5. CASE matter = "jobs"
  BY <1>5 DEF OffersOnJob
<1>6. CASE matter = "demand"
  BY <1>6 DEF OffersOnDemand
<1> QED BY <1>1, <1>2, <1>3, <1>4, <1>5, <1>6

LEMMA DeskWrites ==
    ASSUME desk \in DeskRow, NEW lot \in {"active", "paused", "archived", "sold"},
           NEW request_ \in LiveRequests \cup {"closed", "expired", "spam"},
           NEW flags_ \in SUBSET Flags
    PROVE  [desk EXCEPT !.lot = lot, !.flags = flags_, !.request = request_] \in DeskRow
BY DEF DeskRow

\* Whatever route a button posts to, the rows stay well typed.
LEMMA RoutesKeepTypes ==
    ASSUME desk \in DeskRow, NEW button, Route(button)
    PROVE  desk' \in DeskRow
<1> USE DEF DeskRow, LiveRequests
<1>1. CASE ToggleVerified \/ ToggleSuspended
  BY <1>1 DEF ToggleVerified, ToggleSuspended
<1>2. CASE MarkPaid \/ VoidInvoice \/ RevertDeal \/ ClearRating
  BY <1>2, ZenonT(60) DEF MarkPaid, VoidInvoice, RevertDeal, ClearRating
<1>3. CASE \E s \in {"paused", "archived"} : Moderate(s)
  <2> DEFINE then == IF desk.request \in LiveRequests THEN "closed" ELSE desk.request
  <2>1. /\ then \in LiveRequests \cup {"closed", "expired", "spam"}
        /\ desk.flags \ {"listing"} \in SUBSET Flags
    OBVIOUS
  <2>2. CASE desk' = [desk EXCEPT !.lot = "paused"]
    BY <2>2
  <2>3. CASE desk' = [desk EXCEPT !.lot = "archived", !.flags = desk.flags \ {"listing"},
                                  !.request = then]
    <3> HIDE DEF then, DeskRow, LiveRequests
    <3> QED BY <2>1, <2>3, DeskWrites
  <2> QED BY <1>3, <2>2, <2>3 DEF Moderate
<1>4. CASE \E s \in {"spam", "closed"} : ModerateRfq(s)
  <2> PICK s \in {"spam", "closed"} : ModerateRfq(s)
    BY <1>4
  <2>1. desk.flags \ {"request"} \in SUBSET Flags
    OBVIOUS
  <2>2. desk' = [desk EXCEPT !.request = s, !.flags = desk.flags \ {"request"}]
    BY DEF ModerateRfq
  <2> QED BY <2>1, <2>2
<1>5. CASE ToggleBlocked
  BY <1>5 DEF ToggleBlocked
<1>6. CASE \E f \in Flags : DismissReport(f)
  BY <1>6 DEF DismissReport
<1>7. CASE RetryJob \/ FlushDemand
  BY <1>7, ZenonT(60) DEF RetryJob, FlushDemand
<1> QED BY <1>1, <1>2, <1>3, <1>4, <1>5, <1>6, <1>7 DEF Route

\* What presses through is still offered, or it is a toggle or a repeated archive,
\* or it changes nothing.
LEMMA StalePressIsHarmless ==
    ASSUME ClickIsOurs, NEW button \in Buttons, Route(button),
           button \notin Offered, desk' # desk
    PROVE  button \in Toggles \cup {"archived"}
<1> USE DEF ClickIsOurs, Offered, Buttons
<1>1. CASE matter = "operators"
  BY <1>1 DEF Toggles
<1>2. CASE matter = "ledger"
  BY <1>2 DEF OffersOnDeal, Route, MarkPaid, VoidInvoice, RevertDeal, ClearRating, Flags
<1>3. CASE matter = "listings"
  <2>1. CASE button \in Flags
    BY <1>3, <2>1 DEF OffersOnFlags, Route, DismissReport, Flags
  <2>2. CASE button = "paused"
    <3>1. desk.lot = "paused"
      BY <1>3, <2>2 DEF OffersOnListing
    <3>2. desk' = [desk EXCEPT !.lot = "paused"]
      BY <2>2 DEF Route, Moderate, Flags
    <3>3. desk' = desk
      BY <3>1, <3>2 DEF DeskRow
    <3> QED BY <3>3
  <2> QED BY <1>3, <2>1, <2>2
<1>4. CASE matter = "requests"
  <2>1. CASE button \in Flags
    BY <1>4, <2>1 DEF OffersOnFlags, Route, DismissReport, Flags
  <2>2. CASE button \in {"spam", "close"}
    BY <1>4, <2>2 DEF OffersOnRequest, Route, ModerateRfq, Flags
  <2> QED BY <1>4, <2>1, <2>2 DEF Toggles
<1>5. CASE matter = "jobs"
  BY <1>5 DEF OffersOnJob, Route, RetryJob, Flags
<1>6. CASE matter = "demand"
  BY <1>6 DEF OffersOnDemand, Route, FlushDemand, Flags
<1> QED BY <1>1, <1>2, <1>3, <1>4, <1>5, <1>6 DEF Matters

\* The rows are well typed, and a stale click misfires only where it is known to.
LEMMA AdminCorrect ==
    AdminInit /\ [][AdminNext]_adminVars => [](ClickIsOurs /\ OnlyTogglesMisfire)
<1>1. AdminInit => ClickIsOurs /\ OnlyTogglesMisfire
  BY DEF AdminInit, ClickIsOurs, OnlyTogglesMisfire, Matters, DeskRow, LiveRequests
<1>2. ASSUME ClickIsOurs, OnlyTogglesMisfire, [AdminNext]_adminVars
      PROVE  (ClickIsOurs /\ OnlyTogglesMisfire)'
  <2>1. desk \in DeskRow /\ matter \in Matters /\ Offered \subseteq Buttons
    BY <1>2, OffersAreButtons DEF ClickIsOurs
  <2>2. matter' = matter => Buttons' = Buttons
    BY DEF Buttons
  <2>3. ASSUME desk' \in DeskRow, UNCHANGED <<matter, click, amiss>>
        PROVE  (ClickIsOurs /\ OnlyTogglesMisfire)'
    BY <1>2, <2>2, <2>3 DEF ClickIsOurs, OnlyTogglesMisfire
  <2>4. ASSUME NEW button \in Offered, Look(button)
        PROVE  (ClickIsOurs /\ OnlyTogglesMisfire)'
    BY <1>2, <2>1, <2>2, <2>4 DEF Look, ClickIsOurs, OnlyTogglesMisfire
  <2>5. ASSUME NEW button \in Offered, Colleague(button)
        PROVE  (ClickIsOurs /\ OnlyTogglesMisfire)'
    <3>1. desk' \in DeskRow
      BY <2>1, <2>5, RoutesKeepTypes DEF Colleague
    <3> QED BY <2>3, <2>5, <3>1 DEF Colleague
  <2>6. CASE Press
    <3>1. desk' \in DeskRow
      BY <2>1, <2>6, RoutesKeepTypes DEF Press
    <3>2. click \in Buttons
      BY <1>2, <2>6 DEF Press, ClickIsOurs
    <3>3. OnlyTogglesMisfire'
      <4>1. CASE click \notin Offered /\ desk' # desk
        <5>1. click \in Toggles \cup {"archived"}
          BY <1>2, <2>6, <3>2, <4>1, StalePressIsHarmless DEF Press
        <5> QED BY <1>2, <2>6, <4>1, <5>1 DEF Press, OnlyTogglesMisfire
      <4>2. CASE ~(click \notin Offered /\ desk' # desk)
        BY <1>2, <2>6, <4>2 DEF Press, OnlyTogglesMisfire
      <4> QED BY <4>1, <4>2
    <3> QED BY <2>1, <2>6, <3>1, <3>3 DEF Press, ClickIsOurs
  <2>7. CASE Refuse
    BY <1>2, <2>7 DEF Refuse, ClickIsOurs, OnlyTogglesMisfire
  <2>8. CASE Business
    <3>1. desk' \in DeskRow
      BY <2>1, <2>8 DEF Business, Becomes, DeskRow
    <3> QED BY <2>3, <2>8, <3>1 DEF Business, Becomes
  <2>9. CASE Trade
    <3>1. desk' \in DeskRow
      <4>1. ASSUME NEW s \in {"paused", "archived", "sold"},
                   Becomes([desk EXCEPT !.lot = s,
                              !.request = IF s # "paused" /\ @ \in LiveRequests THEN "closed" ELSE @])
            PROVE  desk' \in DeskRow
        <5> DEFINE then == IF s # "paused" /\ desk.request \in LiveRequests
                           THEN "closed" ELSE desk.request
        <5>1. then \in LiveRequests \cup {"closed", "expired", "spam"}
          BY <2>1 DEF DeskRow
        <5>2. desk' = [desk EXCEPT !.lot = s, !.request = then]
          BY <4>1 DEF Becomes
        <5> HIDE DEF then
        <5> QED BY <2>1, <5>1, <5>2 DEF DeskRow
      <4>2. CASE Becomes([desk EXCEPT !.lot = "active"])
        BY <2>1, <4>2 DEF Becomes, DeskRow
      <4>3. CASE Becomes([desk EXCEPT !.flags = @ \cup {"listing"}])
        BY <2>1, <4>3 DEF Becomes, DeskRow, Flags
      <4> QED BY <2>9, <4>1, <4>2, <4>3 DEF Trade
    <3> QED BY <2>3, <2>9, <3>1 DEF Trade, Becomes
  <2>10. CASE Demand
    <3>1. desk' \in DeskRow
      BY <2>1, <2>10 DEF Demand, Becomes, DeskRow, Flags, LiveRequests
    <3> QED BY <2>3, <2>10, <3>1 DEF Demand, Becomes
  <2>11. CASE Worker \/ Digests
    <3>1. desk' \in DeskRow
      BY <2>1, <2>11, ZenonT(60) DEF Worker, Digests, Becomes, DeskRow
    <3> QED BY <2>3, <2>11, <3>1 DEF Worker, Digests, Becomes
  <2>12. CASE UNCHANGED adminVars
    BY <2>1, <2>3, <2>12 DEF adminVars
  <2> QED BY <1>2, <2>4, <2>5, <2>6, <2>7, <2>8, <2>9, <2>10, <2>11, <2>12 DEF AdminNext
<1> QED BY <1>1, <1>2, PTL

LEMMA AdminTyped ==
    ASSUME ClickIsOurs, OnlyTogglesMisfire
    PROVE  AdminTypeOK
BY DEF ClickIsOurs, OnlyTogglesMisfire, AdminTypeOK, DeskRow, Toggles

\* A fresh page offers nothing its route refuses.
LEMMA AdminIsHonest == ASSUME ClickIsOurs PROVE AdminButtonsWork
<1> SUFFICES ASSUME NEW button \in Offered PROVE Takes(button)
  BY DEF AdminButtonsWork
<1> USE DEF ClickIsOurs, Offered, Takes, Flags
<1>1. CASE matter = "operators"
  BY <1>1 DEF OffersOnOperator
<1>2. CASE matter = "ledger"
  BY <1>2 DEF OffersOnDeal
<1>3. CASE matter = "listings"
  BY <1>3 DEF OffersOnListing, OffersOnFlags, DeskRow
<1>4. CASE matter = "requests"
  BY <1>4 DEF OffersOnRequest, OffersOnMailbox, OffersOnFlags, DeskRow
<1>5. CASE matter = "jobs"
  BY <1>5 DEF OffersOnJob
<1>6. CASE matter = "demand"
  BY <1>6 DEF OffersOnDemand
<1> QED BY <1>1, <1>2, <1>3, <1>4, <1>5, <1>6 DEF Matters

-----------------------------------------------------------------------------
(* The two inboxes.                                                         *)

OfferStates == {"none", "sent", "declined", "withdrawn", "accepted", "expired"}
RequestRow == [status : {"open", "matched", "quoted", "closed", "expired", "spam"},
               paused : BOOLEAN, horizon : Horizons, concierge : BOOLEAN, waiting : BOOLEAN]
OfferRow == [status : OfferStates, countered : BOOLEAN]
DealRow == [invoice : {"none", "open", "void"}, rated : BOOLEAN]
GroundRow == [listing : {"up", "dated", "gone"}, suspended : SUBSET Bidders, blocked : BOOLEAN]

\* A live request on a listing that is gone was reopened, and so was an open one
\* that has an offer: the end of a listing takes its live requests along, and the
\* first offer makes a request "quoted".
OddOnesAreReopened ==
    /\ ground.listing = "gone" /\ Live => reopened
    /\ request.status = "open" /\ ~reopened => \A b \in Bidders : offer[b] = NoOffer

InboxInv == InboxTypeOK /\ OddOnesAreReopened

LEMMA InboxRows ==
    InboxTypeOK <=> /\ request \in RequestRow
                    /\ offer \in [Bidders -> OfferRow]
                    /\ deal \in [Bidders -> DealRow]
                    /\ flagged \subseteq {"offer", "deal"} \X Bidders
                    /\ hidden \subseteq Bidders /\ flaggers \subseteq Bidders
                    /\ posting \subseteq Bidders
                    /\ ground \in GroundRow
BY DEF InboxTypeOK, RequestRow, OfferRow, DealRow, GroundRow, OfferStates

LEMMA OfferWrites ==
    ASSUME offer \in [Bidders -> OfferRow]
    PROVE  /\ NoOffer \in OfferRow
           /\ \A bids : \A to \in OfferStates : Leave(bids, to) \in [Bidders -> OfferRow]
           /\ \A bids, to : \A b \in Bidders : offer[b] = NoOffer => Leave(bids, to)[b] = NoOffer
           /\ \A b \in Bidders, c \in BOOLEAN :
                /\ [offer EXCEPT ![b].countered = c] \in [Bidders -> OfferRow]
                /\ Sent(b) => offer[b] # NoOffer
<1>1. NoOffer \in OfferRow
  BY DEF NoOffer, OfferRow, OfferStates
<1>2. ASSUME NEW bids, NEW to \in OfferStates PROVE Leave(bids, to) \in [Bidders -> OfferRow]
  <2>1. [status |-> to, countered |-> FALSE] \in OfferRow
    BY DEF OfferRow
  <2> QED BY <2>1 DEF Leave
<1>3. ASSUME NEW bids, NEW to, NEW b \in Bidders, offer[b] = NoOffer
      PROVE  Leave(bids, to)[b] = NoOffer
  <2>1. ~Sent(b)
    BY <1>3 DEF Sent, NoOffer
  <2> QED BY <1>3, <2>1 DEF Leave
<1>4. ASSUME NEW b \in Bidders, NEW c \in BOOLEAN
      PROVE  [offer EXCEPT ![b].countered = c] \in [Bidders -> OfferRow]
  BY DEF OfferRow
<1>5. \A b \in Bidders : Sent(b) => offer[b] # NoOffer
  BY DEF Sent, NoOffer
<1> QED BY <1>1, <1>2, <1>3, <1>4, <1>5

LEMMA RequestWrites ==
    ASSUME request \in RequestRow
    PROVE  /\ \A s \in {"open", "matched", "quoted", "closed", "expired", "spam"} :
                [request EXCEPT !.status = s] \in RequestRow
           /\ \A p \in BOOLEAN : [request EXCEPT !.paused = p] \in RequestRow
           /\ \A h \in Horizons : [request EXCEPT !.horizon = h] \in RequestRow
           /\ \A c, w \in BOOLEAN : [request EXCEPT !.concierge = c, !.waiting = w] \in RequestRow
           /\ \A s \in {"matched"}, w \in BOOLEAN :
                [request EXCEPT !.status = s, !.waiting = w] \in RequestRow
           /\ \A w \in BOOLEAN : [request EXCEPT !.waiting = w] \in RequestRow
<1> USE DEF RequestRow
<1>1. \A s \in {"open", "matched", "quoted", "closed", "expired", "spam"} :
        [request EXCEPT !.status = s] \in RequestRow
  OBVIOUS
<1>2. \A p \in BOOLEAN : [request EXCEPT !.paused = p] \in RequestRow
  OBVIOUS
<1>3. \A h \in Horizons : [request EXCEPT !.horizon = h] \in RequestRow
  OBVIOUS
<1>4. \A c, w \in BOOLEAN : [request EXCEPT !.concierge = c, !.waiting = w] \in RequestRow
  OBVIOUS
<1>5. \A s \in {"matched"}, w \in BOOLEAN :
        [request EXCEPT !.status = s, !.waiting = w] \in RequestRow
  OBVIOUS
<1>6. \A w \in BOOLEAN : [request EXCEPT !.waiting = w] \in RequestRow
  OBVIOUS
<1> HIDE DEF RequestRow
<1> QED BY <1>1, <1>2, <1>3, <1>4, <1>5, <1>6

\* The inboxes' rows are well typed, and what is odd about them follows a reopen.
LEMMA InboxCorrect == OperatorInit /\ [][InboxNext]_deskOfOffersVars => []InboxInv
<1> USE OwnerBids DEF LiveRfq, Live
<1>1. OperatorInit => InboxInv
  <2> SUFFICES ASSUME OperatorInit PROVE InboxInv
    OBVIOUS
  <2> USE DEF OperatorInit, InboxInit
  <2>1. request \in RequestRow /\ request.status = "open"
    BY DEF RequestRow, Horizons
  <2>2. offer \in [Bidders -> OfferRow] /\ deal \in [Bidders -> DealRow]
    BY DEF OfferRow, DealRow, NoOffer, NoDealYet, OfferStates
  <2>3. ground \in GroundRow /\ ground.listing # "gone"
    BY DEF GroundRow
  <2>4. OddOnesAreReopened
    BY <2>3 DEF OddOnesAreReopened
  <2> QED BY <2>1, <2>2, <2>3, <2>4, InboxRows DEF InboxInv
<1>2. ASSUME InboxInv, [InboxNext]_deskOfOffersVars PROVE InboxInv'
  <2>1. /\ request \in RequestRow /\ offer \in [Bidders -> OfferRow]
        /\ deal \in [Bidders -> DealRow]
        /\ flagged \subseteq {"offer", "deal"} \X Bidders
        /\ hidden \subseteq Bidders /\ flaggers \subseteq Bidders /\ posting \subseteq Bidders
        /\ ground \in GroundRow
        /\ OddOnesAreReopened
    BY <1>2, InboxRows DEF InboxInv
  <2>2. ASSUME /\ request' \in RequestRow /\ offer' \in [Bidders -> OfferRow]
               /\ deal' \in [Bidders -> DealRow]
               /\ flagged' \subseteq {"offer", "deal"} \X Bidders
               /\ hidden' \subseteq Bidders /\ flaggers' \subseteq Bidders
               /\ posting' \subseteq Bidders
               /\ ground' \in GroundRow
               /\ OddOnesAreReopened'
        PROVE  InboxInv'
    <3>1. InboxTypeOK'
      BY <2>2 DEF InboxTypeOK, RequestRow, OfferRow, DealRow, GroundRow, OfferStates
    <3> QED BY <2>2, <3>1 DEF InboxInv
  <2>3. \A b \in Bidders : Sent(b) => offer[b] # NoOffer
    BY <2>1, OfferWrites
  <2> DEFINE Untouched == \A b \in Bidders : offer[b] = NoOffer => offer'[b] = NoOffer
  <2>4. ASSUME request'.status = request.status, ground'.listing = ground.listing,
               UNCHANGED reopened, Untouched
        PROVE  OddOnesAreReopened'
    BY <2>1, <2>4 DEF OddOnesAreReopened
  <2>5. ASSUME request'.status \notin LiveRfq PROVE OddOnesAreReopened'
    BY <2>5 DEF OddOnesAreReopened
  <2> HIDE DEF Live, LiveRfq
  \* Only offers that were sent change.
  <2> DEFINE OffersMove ==
        \/ \E bids \in SUBSET Bidders, to \in {"declined", "withdrawn"} : offer' = Leave(bids, to)
        \/ \E b \in Bidders, c \in BOOLEAN :
             Sent(b) /\ offer' = [offer EXCEPT ![b].countered = c]
  <2>6. ASSUME UNCHANGED <<request, deal, flagged, ground, reopened, turns, operatorVars>>,
               OffersMove
        PROVE  InboxInv'
    <3>1. offer' \in [Bidders -> OfferRow]
      BY <2>1, <2>6, OfferWrites DEF OfferStates
    <3>2. Untouched
      <4>1. CASE \E bids \in SUBSET Bidders, to \in {"declined", "withdrawn"} :
                   offer' = Leave(bids, to)
        BY <2>1, <4>1, OfferWrites
      <4>2. CASE \E b \in Bidders, c \in BOOLEAN :
                   Sent(b) /\ offer' = [offer EXCEPT ![b].countered = c]
        BY <2>1, <2>3, <4>2
      <4> QED BY <2>6, <4>1, <4>2
    <3>3. OddOnesAreReopened'
      BY <2>4, <2>6, <3>2
    <3> QED BY <2>1, <2>2, <2>6, <3>1, <3>3 DEF operatorVars
  \* Only the rows that are not the request, the offers or the listing change.
  <2>7. ASSUME UNCHANGED <<offer, reopened>>, request' \in RequestRow, ground' \in GroundRow,
               request'.status = request.status, ground'.listing = ground.listing,
               deal' \in [Bidders -> DealRow], flagged' \subseteq {"offer", "deal"} \X Bidders,
               hidden' \subseteq Bidders, flaggers' \subseteq Bidders, posting' \subseteq Bidders
        PROVE  InboxInv'
    <3>1. OddOnesAreReopened'
      BY <2>4, <2>7
    <3> QED BY <2>1, <2>2, <2>7, <3>1
  <2>8. ASSUME NEW b \in Bidders, Accept(b), UNCHANGED operatorVars PROVE InboxInv'
    <3>1. request' \in RequestRow /\ request'.status = "closed"
      <4>1. request' = [request EXCEPT !.status = "closed"]
        BY <2>8 DEF Accept
      <4>2. request' \in RequestRow
        BY <2>1, <4>1, RequestWrites
      <4> QED BY <2>1, <4>1, <4>2 DEF RequestRow
    <3>2. offer' \in [Bidders -> OfferRow]
      <4>1. Leave(Bidders, "declined") \in [Bidders -> OfferRow]
        BY <2>1, OfferWrites DEF OfferStates
      <4>2. [status |-> "accepted", countered |-> FALSE] \in OfferRow
        BY DEF OfferRow, OfferStates
      <4>3. offer' = [Leave(Bidders, "declined") EXCEPT
                        ![b] = [status |-> "accepted", countered |-> FALSE]]
        BY <2>8 DEF Accept
      <4> QED BY <4>1, <4>2, <4>3
    <3>3. deal' \in [Bidders -> DealRow] /\ ground' \in GroundRow
      BY <2>1, <2>8 DEF Accept, DealRow, GroundRow
    <3>4. OddOnesAreReopened'
      BY <2>5, <3>1 DEF LiveRfq
    <3>5. UNCHANGED <<flagged, hidden, flaggers, posting>>
      BY <2>8 DEF Accept, operatorVars
    <3> QED BY <2>1, <2>2, <3>1, <3>2, <3>3, <3>4, <3>5
  <2>9. ASSUME NEW finishes \in BOOLEAN, CloseRequest(finishes), UNCHANGED operatorVars
        PROVE  InboxInv'
    <3>1. request' \in RequestRow /\ request'.status = "closed"
      <4>1. request' = [request EXCEPT !.status = "closed"]
        BY <2>9 DEF CloseRequest
      <4>2. request' \in RequestRow
        BY <2>1, <4>1, RequestWrites
      <4> QED BY <2>1, <4>1, <4>2 DEF RequestRow
    <3>2. offer' \in [Bidders -> OfferRow]
      BY <2>1, <2>9, OfferWrites DEF CloseRequest, OfferStates
    <3>3. OddOnesAreReopened'
      BY <2>5, <3>1 DEF LiveRfq
    <3> QED BY <2>1, <2>2, <2>9, <3>1, <3>2, <3>3 DEF CloseRequest, operatorVars
  <2>10. ASSUME NEW b \in Bidders, InsertQuote(b) PROVE InboxInv'
    <3>1. offer' \in [Bidders -> OfferRow]
      <4>1. [status |-> "sent", countered |-> FALSE] \in OfferRow
        BY DEF OfferRow, OfferStates
      <4> QED BY <2>1, <2>10, <4>1 DEF InsertQuote
    <3>2. UNCHANGED <<deal, ground, reopened, hidden, flaggers>>
      BY <2>10 DEF InsertQuote
    <3>3. posting' \subseteq Bidders /\ flagged' \subseteq {"offer", "deal"} \X Bidders
      BY <2>1, <2>10 DEF InsertQuote
    <3>4. request' = IF Live THEN [request EXCEPT !.status = "quoted"] ELSE request
      BY <2>10 DEF InsertQuote
    <3>5. request' \in RequestRow
      BY <2>1, <3>4, RequestWrites
    <3>6. OddOnesAreReopened'
      <4>1. CASE Live
        <5>1. request'.status = "quoted"
          BY <2>1, <3>4, <4>1 DEF RequestRow
        <5> QED BY <2>1, <3>2, <4>1, <5>1 DEF OddOnesAreReopened
      <4>2. CASE ~Live
        BY <2>5, <3>4, <4>2 DEF Live
      <4> QED BY <4>1, <4>2
    <3> QED BY <2>1, <2>2, <3>1, <3>2, <3>3, <3>5, <3>6
  <2>11. ASSUME NEW waits \in BOOLEAN, FanOut(waits) PROVE InboxInv'
    <3>1. request' = [request EXCEPT !.status = "matched", !.waiting = waits /\ ~request.concierge]
          /\ request.status = "open"
          /\ UNCHANGED <<offer, deal, flagged, ground, reopened, hidden, flaggers, posting>>
      BY <2>11 DEF FanOut, operatorVars
    <3>2. (waits /\ ~request.concierge) \in BOOLEAN
      OBVIOUS
    <3>3. request' \in RequestRow
      BY <2>1, <3>1, <3>2, RequestWrites
    <3>4. request'.status = "matched" /\ Live
      BY <2>1, <3>1 DEF RequestRow, Live, LiveRfq
    <3>5. OddOnesAreReopened'
      BY <2>1, <3>1, <3>4 DEF OddOnesAreReopened
    <3> QED BY <2>1, <2>2, <3>1, <3>3, <3>5
  <2>12. CASE ReopenRequest
    <3>1. OddOnesAreReopened'
      BY <2>12 DEF ReopenRequest, OddOnesAreReopened
    <3>2. request' \in RequestRow
      BY <2>1, <2>12, RequestWrites DEF ReopenRequest
    <3> QED BY <2>1, <2>2, <2>12, <3>1, <3>2 DEF ReopenRequest, operatorVars
  <2>13. CASE DelayPassed \/ Midnight
    <3>1. \/ request' = [request EXCEPT !.waiting = FALSE]
          \/ \E h \in Horizons : request' = [request EXCEPT !.horizon = h]
      BY <2>13 DEF DelayPassed, Midnight, Horizons
    <3>2. request' \in RequestRow
      BY <2>1, <3>1, RequestWrites
    <3>3. request'.status = request.status
      BY <2>1, <3>1 DEF RequestRow
    <3> QED BY <2>1, <2>7, <2>13, <3>2, <3>3 DEF DelayPassed, Midnight, operatorVars
  <2>14. ASSUME UNCHANGED operatorVars,
                Extend \/ BuyConcierge \/ (\E on \in BOOLEAN : Pause(on))
                  \/ (\E h \in {"soon", "far"} : Amend(h))
         PROVE  InboxInv'
    <3>1. \/ \E h \in Horizons : request' = [request EXCEPT !.horizon = h]
          \/ \E p \in BOOLEAN : request' = [request EXCEPT !.paused = p]
          \/ request' = [request EXCEPT !.concierge = TRUE, !.waiting = FALSE]
      BY <2>14 DEF Extend, BuyConcierge, Pause, Amend, Horizons
    <3>2. request' \in RequestRow
      BY <2>1, <3>1, RequestWrites
    <3>3. request'.status = request.status
      BY <2>1, <3>1 DEF RequestRow
    <3> QED BY <2>1, <2>7, <2>14, <3>2, <3>3 DEF Extend, BuyConcierge, Pause, Amend, operatorVars
  <2>15. CASE Expire
    <3>1. request' \in RequestRow /\ request'.status = "expired"
      <4>1. request' = [request EXCEPT !.status = "expired"]
        BY <2>15 DEF Expire
      <4>2. request' \in RequestRow
        BY <2>1, <4>1, RequestWrites
      <4> QED BY <2>1, <4>1, <4>2 DEF RequestRow
    <3>2. offer' \in [Bidders -> OfferRow]
      BY <2>1, <2>15, OfferWrites DEF Expire, OfferStates
    <3>3. OddOnesAreReopened'
      BY <2>5, <3>1 DEF LiveRfq
    <3> QED BY <2>1, <2>2, <2>15, <3>1, <3>2, <3>3 DEF Expire, operatorVars
  <2>16. CASE EndListing
    <3>1. request' = IF Live THEN [request EXCEPT !.status = "closed"] ELSE request
      BY <2>16 DEF EndListing
    <3>2. request' \in RequestRow /\ request'.status \notin LiveRfq
      BY <2>1, <3>1, RequestWrites, ZenonT(60) DEF RequestRow, Live, LiveRfq
    <3>3. offer' \in [Bidders -> OfferRow]
      BY <2>1, <2>16, OfferWrites DEF EndListing, OfferStates
    <3>4. ground' \in GroundRow
      BY <2>1, <2>16 DEF EndListing, GroundRow
    <3>5. OddOnesAreReopened'
      BY <2>5, <3>2
    <3> QED BY <2>1, <2>2, <2>16, <3>2, <3>3, <3>4, <3>5 DEF EndListing, operatorVars
  <2>17. ASSUME NEW b \in Bidders, ToggleSuspension(b) PROVE InboxInv'
    <3>1. ground' \in GroundRow /\ ground'.listing = ground.listing
      BY <2>1, <2>17 DEF ToggleSuspension, GroundRow
    <3> QED BY <2>1, <2>7, <2>17, <3>1 DEF ToggleSuspension, operatorVars
  <2>18. CASE ToggleBlock
    <3>1. /\ request' = IF Live /\ ~ground.blocked THEN [request EXCEPT !.status = "spam"] ELSE request
          /\ ground' = [ground EXCEPT !.blocked = ~ground.blocked]
          /\ flagged' \in {flagged, {}}
          /\ UNCHANGED <<offer, deal, reopened, hidden, flaggers, posting>>
      BY <2>18 DEF ToggleBlock, operatorVars
    <3>2. request' \in RequestRow
      BY <2>1, <3>1, RequestWrites
    <3>3. request'.status = request.status \/ request'.status \notin LiveRfq
      BY <2>1, <3>1 DEF RequestRow, LiveRfq
    <3>4. ground' \in GroundRow /\ ground'.listing = ground.listing
      <4>1. \A x : [ground EXCEPT !.blocked = ~x] \in GroundRow
        BY <2>1 DEF GroundRow
      <4> QED BY <2>1, <3>1, <4>1 DEF GroundRow
    <3>5. OddOnesAreReopened'
      BY <2>4, <2>5, <3>1, <3>3, <3>4
    <3> QED BY <2>1, <2>2, <3>1, <3>2, <3>4, <3>5
  <2>19. ASSUME NEW b \in Bidders, VoidDeal(b) PROVE InboxInv'
    <3>1. deal' \in [Bidders -> DealRow]
      BY <2>1, <2>19 DEF VoidDeal, DealRow
    <3> QED BY <2>1, <2>7, <2>19, <3>1 DEF VoidDeal, operatorVars
  <2>20. ASSUME NEW b \in Bidders, Rate(b), UNCHANGED operatorVars PROVE InboxInv'
    <3>1. deal' \in [Bidders -> DealRow]
      BY <2>1, <2>20 DEF Rate, DealRow
    <3> QED BY <2>1, <2>7, <2>20, <3>1 DEF Rate, operatorVars
  <2>21. ASSUME NEW what \in {"offer", "deal"}, NEW b \in Bidders, Report(what, b),
                UNCHANGED operatorVars
         PROVE  InboxInv'
    BY <2>1, <2>7, <2>21 DEF Report, operatorVars
  <2>22. ASSUME NEW b \in Bidders, PostQuote(b) \/ FlagRequest(b) \/ Dismiss(b) \/ Restore(b)
         PROVE  InboxInv'
    BY <2>1, <2>7, <2>22 DEF PostQuote, FlagRequest, Dismiss, Restore, inboxVars
  <2>23. CASE DismissFlags
    BY <2>1, <2>7, <2>23 DEF DismissFlags
  <2>24. ASSUME NEW b \in Bidders, AcceptCounter(b) PROVE InboxInv'
    BY <2>8, <2>24 DEF AcceptCounter
  <2>25. ASSUME NEW b \in Bidders, Revise(b) \/ Withdraw(b) \/ DeclineCounter(b) PROVE InboxInv'
    <3>1. UNCHANGED <<request, deal, flagged, ground, reopened, turns, operatorVars>>
      BY <2>25 DEF Revise, Withdraw, DeclineCounter
    <3>2. OffersMove
      BY <2>25 DEF Revise, Withdraw, DeclineCounter, TakesRevise, TakesDeclineCounter
    <3> HIDE DEF OffersMove
    <3> QED BY <2>6, <3>1, <3>2
  <2>26. ASSUME UNCHANGED operatorVars,
                (\E b \in Bidders : Decline(b) \/ MakeCounter(b) \/ WithdrawCounter(b)) \/ DeclineAll
         PROVE  InboxInv'
    <3>1. UNCHANGED <<request, deal, flagged, ground, reopened, turns>>
      BY <2>26 DEF Decline, MakeCounter, WithdrawCounter, DeclineAll
    <3>2. OffersMove
      BY <2>26 DEF Decline, MakeCounter, WithdrawCounter, DeclineAll, TakesCounter,
                   TakesWithdrawCounter
    <3> HIDE DEF OffersMove
    <3> QED BY <2>6, <2>26, <3>1, <3>2
  <2>27. CASE UNCHANGED deskOfOffersVars
    BY <2>1, <2>7, <2>27 DEF deskOfOffersVars, inboxVars, operatorVars
  <2>28. CASE CommonNext
    BY <2>8, <2>9, <2>10, <2>11, <2>12, <2>13, <2>22, <2>24, <2>28 DEF CommonNext
  <2>29. CASE TermsNext
    BY <2>16, <2>17, <2>25, <2>26, <2>29 DEF TermsNext
  <2>30. CASE DatesNext
    BY <2>13, <2>14, <2>15, <2>30 DEF DatesNext
  <2>31. CASE TrustNext
    BY <2>18, <2>19, <2>20, <2>21, <2>22, <2>23, <2>31 DEF TrustNext
  <2> QED BY <1>2, <2>27, <2>28, <2>29, <2>30, <2>31 DEF InboxNext
<1> QED BY <1>1, <1>2, PTL

\* The buyer's page offers nothing its route refuses, the named exceptions aside.
LEMMA BuyerIsHonest == ASSUME InboxInv PROVE BuyerButtonsWork
<1>1. /\ request \in RequestRow /\ ground \in GroundRow /\ OddOnesAreReopened
      /\ offer \in [Bidders -> OfferRow]
  BY InboxRows DEF InboxInv
<1>2. ASSUME NEW b \in Bidders
      PROVE  /\ ShowsAccept(b) => TakesAccept(b) \/ DeadAccept(b)
             /\ ShowsCounter(b) => TakesCounter(b)
             /\ ShowsDecline(b) => TakesDecline(b)
             /\ ShowsWithdrawCounter(b) => TakesWithdrawCounter(b)
             /\ ShowsRate(b) => TakesRate(b)
             /\ ShowsReport(b) => TakesReport(b) \/ DeadReport
             /\ ShowsReportDeal(b) => TakesReportDeal(b) \/ DeadReport
  <2>1. ShowsAccept(b) => TakesAccept(b) \/ DeadAccept(b)
    BY <1>1 DEF ShowsAccept, TakesAccept, DeadAccept, Unavailable, Sellable, GroundRow,
                OddOnesAreReopened
  <2>2. /\ ShowsCounter(b) => TakesCounter(b)
        /\ ShowsDecline(b) => TakesDecline(b)
        /\ ShowsWithdrawCounter(b) => TakesWithdrawCounter(b)
    BY DEF ShowsCounter, TakesCounter, ShowsDecline, TakesDecline, ShowsWithdrawCounter,
           TakesWithdrawCounter
  <2>3. ShowsRate(b) => TakesRate(b)
    BY DEF ShowsRate, TakesRate, DealStands
  <2>4. /\ ShowsReport(b) => TakesReport(b) \/ DeadReport
        /\ ShowsReportDeal(b) => TakesReportDeal(b) \/ DeadReport
    BY DEF ShowsReport, ShowsReportDeal, TakesReport, TakesReportDeal, DeadReport, DealStands,
           WasReported
  <2> QED BY <2>1, <2>2, <2>3, <2>4
<1>3. ShowsDeclineAll => TakesDeclineAll
  BY FS_EmptySet DEF ShowsDeclineAll, TakesDeclineAll
<1>4. ASSUME NEW on \in BOOLEAN PROVE ShowsPause(on) => TakesPause(on)
  BY <1>1 DEF ShowsPause, TakesPause, RequestRow
<1>5. /\ ShowsClose => TakesClose
      /\ ShowsEdit => TakesAmend
      /\ ShowsExtend => TakesExtend \/ DeadExtend
      /\ ShowsConcierge => TakesConcierge \/ DeadConcierge
  BY <1>1 DEF ShowsClose, TakesClose, ShowsEdit, TakesAmend, ShowsExtend, TakesExtend, DeadExtend,
              ShowsConcierge, TakesConcierge, DeadConcierge, RequestRow, Horizons
<1>6. ShowsRepost => TakesRfq \/ DeadRepost
  BY DEF ShowsRepost, TakesRfq, DeadRepost, Browseable
<1> QED BY <1>2, <1>3, <1>4, <1>5, <1>6 DEF BuyerButtonsWork

\* So does the operator's.
LEMMA OperatorIsHonest == ASSUME InboxInv PROVE OperatorButtonsWork
<1>1. /\ request \in RequestRow /\ ground \in GroundRow /\ OddOnesAreReopened
      /\ offer \in [Bidders -> OfferRow]
  BY InboxRows DEF InboxInv
<1> SUFFICES ASSUME NEW b \in Bidders
             PROVE  /\ ShowsRestore(b) => TakesRestore(b)
                    /\ ShowsAnswer(b) => /\ TakesAcceptCounter(b) \/ DeadQuote(b)
                                         /\ TakesDeclineCounter(b) \/ DeadDeclineCounter
                    /\ ShowsRevise(b) => /\ TakesRevise(b) \/ b \in ground.suspended
                                         /\ TakesWithdraw(b)
                    /\ ShowsQuote(b) => TakesQuote(b) \/ DeadQuote(b)
                    /\ ShowsFlag(b) => TakesFlag(b) \/ b \in flaggers
                    /\ ShowsDismiss(b) => TakesDismiss(b)
                    /\ ShowsNote(b) => TakesNote(b) \/ b \in hidden
  BY DEF OperatorButtonsWork
<1>2. Sent(b) => offer[b] # NoOffer
  BY DEF Sent, NoOffer
<1>3. /\ ShowsRestore(b) => TakesRestore(b)
      /\ ShowsRevise(b) => /\ TakesRevise(b) \/ b \in ground.suspended
                           /\ TakesWithdraw(b)
      /\ ShowsFlag(b) => TakesFlag(b) \/ b \in flaggers
      /\ ShowsDismiss(b) => TakesDismiss(b)
      /\ ShowsNote(b) => TakesNote(b) \/ b \in hidden
  BY DEF ShowsRestore, TakesRestore, ShowsRevise, TakesRevise, TakesWithdraw, ShowsFlag, TakesFlag,
         ShowsDismiss, TakesDismiss, ShowsNote, TakesNote, InView
<1>4. ShowsAnswer(b) => TakesAcceptCounter(b) \/ DeadQuote(b)
  BY <1>1 DEF ShowsAnswer, TakesAcceptCounter, DeadQuote, Sellable, GroundRow, OddOnesAreReopened
<1>5. ShowsAnswer(b) => TakesDeclineCounter(b) \/ DeadDeclineCounter
  BY <1>1, <1>2 DEF ShowsAnswer, TakesDeclineCounter, DeadDeclineCounter, Live, LiveRfq,
                    OddOnesAreReopened
<1>6. ShowsQuote(b) => TakesQuote(b) \/ DeadQuote(b)
  BY <1>1 DEF ShowsQuote, TakesQuote, DeadQuote, InView, GroundRow, OddOnesAreReopened
<1> QED BY <1>3, <1>4, <1>5, <1>6

-----------------------------------------------------------------------------
(* The two fan-outs.                                                        *)

Minutes == {0, 360, 1440}
Side == [state : {"new", "matched"}, rows : UNION {[D -> Minutes] : D \in SUBSET Others},
         mails : [Dealers -> Nat]]
Fleets == [Dealers -> [verified : BOOLEAN, pro : BOOLEAN, home : BOOLEAN, out : BOOLEAN]]

\* A request that was not fanned out has no row, and who has no row has no mail.
FanoutsMatch ==
    /\ MatchingTypeOK
    /\ inline \in Side /\ worker \in Side
    /\ worker.state = "new" => DOMAIN worker.rows = {}
    /\ \A d \in Dealers \ DOMAIN worker.rows : worker.mails[d] = 0
    /\ FanoutsAgree

\* The plan's rule and the query's condition select the same operators.
LEMMA SameCandidates == InlineCandidates = SqlCandidates
<1>1. ASSUME NEW d \in Dealers
      PROVE  (book[d] = {} \/ book[d] \ {"foreign"} # {})
               <=> ("foreign" \notin book[d] \/ book[d] \ {"foreign"} # {})
  OBVIOUS
<1> QED BY <1>1 DEF InlineCandidates, SqlCandidates

LEMMA LargerOfTwo ==
    ASSUME NEW a \in Nat, NEW b \in Nat
    PROVE  Max({a, b}) \in {a, b}
<1>1. \E x \in {a, b} : \A y \in {a, b} : x >= y
  <2>1. CASE a >= b
    BY <2>1
  <2>2. CASE b >= a
    BY <2>2
  <2> QED BY <2>1, <2>2
<1> QED BY <1>1 DEF Max

LEMMA DelayIsTyped == \A d : Delay(d) \in Minutes
<1> TAKE d
<1> DEFINE p == IF dealer[d].pro THEN 0 ELSE 1440
           v == IF dealer[d].verified THEN 0 ELSE 360
<1>1. p \in {0, 1440} /\ v \in {0, 360}
  OBVIOUS
<1>2. Delay(d) = Max({p, v})
  BY DEF Delay
<1> HIDE DEF p, v
<1>3. p \in Nat /\ v \in Nat
  BY <1>1
<1>4. Max({p, v}) \in {p, v}
  BY <1>3, LargerOfTwo
<1> QED BY <1>1, <1>2, <1>4 DEF Minutes

LEMMA ChosenAreOthers ==
    ASSUME NEW candidates \in SUBSET Dealers, NEW need
    PROVE  Chosen(candidates, need) \subseteq Others
BY DEF Chosen, Others

\* One fan-out of both sides for the same wishes keeps them together.
LEMMA FanoutsStayTogether ==
    ASSUME FanoutsMatch, NEW wish,
           inline' = InlineFanout(wish), worker' = SqlFanout(wish), UNCHANGED paid
    PROVE  /\ inline' \in Side /\ worker' \in Side
           /\ worker'.state = "new" => DOMAIN worker'.rows = {}
           /\ \A d \in Dealers \ DOMAIN worker'.rows : worker'.mails[d] = 0
           /\ FanoutsAgree'
<1> DEFINE C == Chosen(SqlCandidates, Needs(wish))
           slow == [d \in C |-> Delay(d)]
           fast == [d \in C |-> IF paid THEN 0 ELSE Delay(d)]
           inserted == C \ DOMAIN worker.rows
           mailed == {d \in inserted : fast[d] = 0}
           heardOf == {d \in C : slow[d] = 0}
<1>1. C \subseteq Others
  BY ChosenAreOthers DEF SqlCandidates
<1>2. Chosen(InlineCandidates, Needs(wish)) = C
  BY SameCandidates
<1> HIDE DEF C
<1>3. /\ inline.state \in {"new", "matched"} /\ worker.state \in {"new", "matched"}
      /\ inline.mails \in [Dealers -> Nat] /\ worker.mails \in [Dealers -> Nat]
      /\ DOMAIN inline.rows \subseteq Others /\ inline.rows \in [DOMAIN inline.rows -> Minutes]
      /\ DOMAIN worker.rows \subseteq Others /\ worker.rows \in [DOMAIN worker.rows -> Minutes]
  BY DEF FanoutsMatch, Side
<1>4. slow \in [C -> Minutes] /\ fast \in [C -> Minutes]
  BY DelayIsTyped DEF Minutes
<1>5. worker' = [state |-> "matched", rows |-> Inserted(worker.rows, fast),
                 mails |-> Mailed(worker.mails, mailed)]
  BY <1>3 DEF SqlFanout, C
<1>6. \/ C = {} /\ inline' = inline
      \/ C # {} /\ inline' = [state |-> "matched", rows |-> Inserted(inline.rows, slow),
                             mails |-> Mailed(inline.mails, heardOf)]
  BY <1>2, <1>3 DEF InlineFanout
<1> HIDE DEF slow, fast, mailed, heardOf
<1>7. ASSUME NEW m \in [Dealers -> Nat], NEW ds PROVE Mailed(m, ds) \in [Dealers -> Nat]
  BY DEF Mailed, One
<1> DEFINE W == Inserted(worker.rows, fast)
           I == Inserted(inline.rows, slow)
<1>8. /\ DOMAIN W = DOMAIN worker.rows \cup C
      /\ W \in UNION {[D -> Minutes] : D \in SUBSET Others}
      /\ \A d \in DOMAIN W : W[d] = IF d \in DOMAIN worker.rows THEN worker.rows[d] ELSE fast[d]
  <2> DEFINE old == worker.rows
  <2>1. /\ DOMAIN old \in SUBSET Others /\ old \in [DOMAIN old -> Minutes]
        /\ C \in SUBSET Others
    BY <1>1, <1>3
  <2> HIDE DEF old
  <2>2. DOMAIN fast = C
    BY <1>4
  <2>3. /\ DOMAIN Inserted(old, fast) = DOMAIN old \cup C
        /\ Inserted(old, fast) \in [DOMAIN old \cup C -> Minutes]
        /\ \A d \in DOMAIN Inserted(old, fast) :
             Inserted(old, fast)[d] = IF d \in DOMAIN old THEN old[d] ELSE fast[d]
    BY <1>4, <2>1, <2>2 DEF Inserted
  <2>4. DOMAIN old \cup C \in SUBSET Others
    BY <2>1
  <2> QED BY <2>3, <2>4 DEF old
<1>9. /\ DOMAIN I = DOMAIN inline.rows \cup C
       /\ I \in UNION {[D -> Minutes] : D \in SUBSET Others}
       /\ \A d \in DOMAIN I : I[d] = IF d \in DOMAIN inline.rows THEN inline.rows[d] ELSE slow[d]
  <2> DEFINE old == inline.rows
  <2>1. /\ DOMAIN old \in SUBSET Others /\ old \in [DOMAIN old -> Minutes]
        /\ C \in SUBSET Others
    BY <1>1, <1>3
  <2> HIDE DEF old
  <2>2. DOMAIN slow = C
    BY <1>4
  <2>3. /\ DOMAIN Inserted(old, slow) = DOMAIN old \cup C
        /\ Inserted(old, slow) \in [DOMAIN old \cup C -> Minutes]
        /\ \A d \in DOMAIN Inserted(old, slow) :
             Inserted(old, slow)[d] = IF d \in DOMAIN old THEN old[d] ELSE slow[d]
    BY <1>4, <2>1, <2>2 DEF Inserted
  <2>4. DOMAIN old \cup C \in SUBSET Others
    BY <2>1
  <2> QED BY <2>3, <2>4 DEF old
<1>10. /\ worker'.rows = W
       /\ DOMAIN inline'.rows = DOMAIN inline.rows \cup C
       /\ \A d \in DOMAIN inline'.rows :
            inline'.rows[d] = IF d \in DOMAIN inline.rows THEN inline.rows[d] ELSE slow[d]
  <2>1. worker'.rows = W
    BY <1>5
  <2>2. CASE C = {}
    BY <1>6, <2>1, <2>2
  <2>3. CASE C # {}
    <3>1. inline'.rows = I
      BY <1>6, <2>3
    <3> HIDE DEF I
    <3> QED BY <1>9, <2>1, <3>1
  <2> QED BY <2>2, <2>3
<1> HIDE DEF W, I
<1>11. inline' \in Side /\ worker' \in Side
  <2>1. worker' = [state |-> "matched", rows |-> W, mails |-> Mailed(worker.mails, mailed)]
    BY <1>5 DEF W
  <2>2. \/ inline' = inline
        \/ inline' = [state |-> "matched", rows |-> I, mails |-> Mailed(inline.mails, heardOf)]
    BY <1>6 DEF I
  <2>3. worker' \in Side
    BY <1>3, <1>7, <1>8, <2>1 DEF Side
  <2>4. inline' \in Side
    BY <1>3, <1>7, <1>9, <2>2 DEF Side, FanoutsMatch
  <2> QED BY <2>3, <2>4
<1>12. \A d \in Dealers : worker'.mails[d] = worker.mails[d] + One(d \in mailed)
  BY <1>5 DEF Mailed
<1>13. \A d \in C : (~paid => slow[d] = fast[d]) /\ (paid => fast[d] = 0)
  BY DEF slow, fast
<1>14. DOMAIN inline'.rows = DOMAIN worker'.rows
  BY <1>8, <1>10 DEF FanoutsMatch, FanoutsAgree
<1>15. ASSUME NEW d \in DOMAIN worker'.rows
       PROVE  /\ ~paid' => inline'.rows[d] = worker'.rows[d]
              /\ paid' => worker'.rows[d] = 0
              /\ worker'.mails[d] = One(worker'.rows[d] = 0)
  <2>1. DOMAIN inline.rows = DOMAIN worker.rows /\ d \in Dealers
    BY <1>1, <1>3, <1>8, <1>10 DEF FanoutsMatch, FanoutsAgree, Others
  <2>2. CASE d \in DOMAIN worker.rows
    <3>1. d \notin mailed
      BY <2>2 DEF mailed
    <3>2. worker'.mails[d] = worker.mails[d]
      BY <1>3, <1>12, <2>1, <3>1 DEF One
    <3> QED BY <1>8, <1>10, <1>14, <2>1, <2>2, <3>2 DEF FanoutsMatch, FanoutsAgree
  <2>3. CASE d \notin DOMAIN worker.rows
    <3>1. d \in C /\ worker.mails[d] = 0
      BY <1>8, <1>10, <2>1, <2>3 DEF FanoutsMatch
    <3>2. d \in mailed <=> worker'.rows[d] = 0
      BY <1>8, <1>10, <2>3, <3>1 DEF mailed
    <3>3. worker'.mails[d] = One(worker'.rows[d] = 0)
      BY <1>12, <2>1, <3>1, <3>2 DEF One
    <3> QED BY <1>8, <1>10, <1>13, <1>14, <2>1, <2>3, <3>1, <3>3
  <2> QED BY <2>2, <2>3
<1>16. DOMAIN inline'.rows # {} => inline'.state = worker'.state
  BY <1>3, <1>5, <1>6, <1>10 DEF FanoutsMatch, FanoutsAgree
<1>17. \A d \in Dealers \ DOMAIN worker'.rows : worker'.mails[d] = 0
  <2> SUFFICES ASSUME NEW d \in Dealers \ DOMAIN worker'.rows PROVE worker'.mails[d] = 0
    OBVIOUS
  <2>1. d \notin C /\ d \notin DOMAIN worker.rows
    BY <1>8, <1>10
  <2>2. d \notin mailed
    BY <2>1 DEF mailed
  <2> QED BY <1>12, <2>1, <2>2 DEF One, FanoutsMatch
<1> QED BY <1>5, <1>11, <1>14, <1>15, <1>16, <1>17 DEF FanoutsAgree

\* The payment releases the rows that wait, on both sides, and mails their operators.
LEMMA ReleaseKeepsTogether ==
    ASSUME FanoutsMatch, PayForConcierge
    PROVE  /\ inline' \in Side /\ worker' \in Side
           /\ worker'.state = "new" => DOMAIN worker'.rows = {}
           /\ \A d \in Dealers \ DOMAIN worker'.rows : worker'.mails[d] = 0
           /\ FanoutsAgree'
<1> DEFINE waiting(side) == {d \in DOMAIN side.rows : side.rows[d] > 0}
           freed(side) == [d \in DOMAIN side.rows |-> 0]
<1>1. ASSUME NEW side \in Side
      PROVE  /\ Released(side) \in Side
             /\ Released(side).state = side.state
             /\ Released(side).rows = freed(side)
             /\ Released(side).mails = Mailed(side.mails, waiting(side))
  <2>1. /\ side.state \in {"new", "matched"} /\ side.mails \in [Dealers -> Nat]
        /\ DOMAIN side.rows \in SUBSET Others
    BY DEF Side
  <2>2. Released(side) = [side EXCEPT !.rows = freed(side), !.mails = Mailed(side.mails, waiting(side))]
    BY DEF Released
  <2>3. freed(side) \in UNION {[D -> Minutes] : D \in SUBSET Others}
    BY <2>1 DEF Minutes
  <2>4. Mailed(side.mails, waiting(side)) \in [Dealers -> Nat]
    BY <2>1 DEF Mailed, One
  <2> HIDE DEF waiting, freed
  <2> QED BY <2>1, <2>2, <2>3, <2>4 DEF Side
<1>2. /\ inline \in Side /\ worker \in Side
      /\ inline' = Released(inline) /\ worker' = Released(worker) /\ paid' = TRUE
  BY DEF PayForConcierge, FanoutsMatch
<1>3. /\ DOMAIN inline.rows = DOMAIN worker.rows /\ DOMAIN worker.rows \subseteq Dealers
      /\ \A d \in DOMAIN worker.rows : worker.rows[d] \in Minutes /\ worker.mails[d] = One(worker.rows[d] = 0)
  BY <1>2 DEF FanoutsMatch, FanoutsAgree, Side, Others
<1>4. \A d \in Dealers : worker'.mails[d] = worker.mails[d] + One(d \in waiting(worker))
  BY <1>1, <1>2 DEF Mailed
<1>5. DOMAIN worker'.rows = DOMAIN worker.rows /\ DOMAIN inline'.rows = DOMAIN inline.rows
  BY <1>1, <1>2
<1>6. ASSUME NEW d \in DOMAIN worker'.rows
      PROVE  worker'.rows[d] = 0 /\ worker'.mails[d] = One(worker'.rows[d] = 0)
  <2>1. worker'.rows[d] = 0 /\ d \in DOMAIN worker.rows
    BY <1>1, <1>2, <1>5
  <2>2. worker.rows[d] \in Minutes /\ worker.mails[d] = One(worker.rows[d] = 0) /\ d \in Dealers
    BY <1>3, <2>1
  <2>3. worker'.mails[d] = 1
    BY <1>4, <2>1, <2>2 DEF One, Minutes
  <2> QED BY <2>1, <2>3 DEF One
<1>7. ASSUME NEW d \in Dealers \ DOMAIN worker'.rows PROVE worker'.mails[d] = 0
  BY <1>4, <1>5 DEF FanoutsMatch, One
<1>8. inline'.state = inline.state /\ worker'.state = worker.state
  BY <1>1, <1>2
<1>9. inline' \in Side /\ worker' \in Side
  BY <1>1, <1>2
<1>10. FanoutsAgree'
  BY <1>2, <1>3, <1>5, <1>6, <1>8 DEF FanoutsMatch, FanoutsAgree
<1> QED BY <1>5, <1>7, <1>8, <1>9, <1>10 DEF FanoutsMatch

\* Through any sequence of edits, payments and amendments the two fan-outs agree.
LEMMA MatchingCorrect == MatchingSpec => []FanoutsMatch
<1> USE MatchingAssumption
<1>0. ASSUME inline \in Side, worker \in Side
      PROVE  \A side \in {inline, worker} :
                /\ side.state \in {"new", "matched"}
                /\ DOMAIN side.rows \subseteq Others
                /\ \A d \in DOMAIN side.rows : side.rows[d] \in {0, 360, 1440}
  BY <1>0 DEF Side, Minutes
<1>1. MatchingInit => FanoutsMatch
  <2> SUFFICES ASSUME MatchingInit PROVE FanoutsMatch
    OBVIOUS
  <2>1. Unsent \in Side /\ DOMAIN Unsent.rows = {} /\ Unsent.mails = [d \in Dealers |-> 0]
    <3>1. NoMails \in [Dealers -> Nat] /\ [d \in {} |-> 0] \in [{} -> Minutes] /\ {} \in SUBSET Others
      BY DEF NoMails, Minutes
    <3> QED BY <3>1 DEF Unsent, Side, NoMails
  <2>2. inline = Unsent /\ worker = Unsent
    BY DEF MatchingInit
  <2>3. dealer \in Fleets
    BY DEF MatchingInit, Fleets
  <2>4. book \in [Dealers -> Stocks] /\ asked \in Wishes
    BY DEF MatchingInit
  <2>5. MatchingTypeOK
    BY <1>0, <2>1, <2>2, <2>3, <2>4 DEF MatchingTypeOK, Fleets
  <2>6. FanoutsAgree
    BY <2>1, <2>2 DEF FanoutsAgree
  <2> QED BY <2>1, <2>2, <2>5, <2>6 DEF FanoutsMatch
<1>2. ASSUME FanoutsMatch, [MatchingNext]_matchingVars PROVE FanoutsMatch'
  <2>1. dealer \in Fleets /\ book \in [Dealers -> Stocks] /\ asked \in Wishes
    BY <1>2 DEF FanoutsMatch, MatchingTypeOK, Fleets
  <2>2. ASSUME inline' \in Side, worker' \in Side, dealer' \in Fleets,
               book' \in [Dealers -> Stocks], asked' \in Wishes
        PROVE  MatchingTypeOK'
    <3>1. \A side \in {inline', worker'} :
                /\ side.state \in {"new", "matched"}
                /\ DOMAIN side.rows \subseteq Others
                /\ \A d \in DOMAIN side.rows : side.rows[d] \in {0, 360, 1440}
      BY <2>2 DEF Side, Minutes
    <3> QED BY <2>2, <3>1 DEF MatchingTypeOK, Fleets
  <2>3. CASE Publish
    <3>1. asked \in Wishes /\ inline' = InlineFanout(asked) /\ worker' = SqlFanout(asked) /\ paid' = paid
      BY <2>1, <2>3 DEF Publish
    <3> QED BY <1>2, <2>1, <2>2, <2>3, <3>1, FanoutsStayTogether DEF Publish, FanoutsMatch
  <2>4. CASE AmendWishes
    <3>1. asked' \in Wishes /\ inline' = InlineFanout(asked') /\ worker' = SqlFanout(asked') /\ paid' = paid
      BY <2>4 DEF AmendWishes
    <3>2. /\ inline' \in Side /\ worker' \in Side
          /\ worker'.state = "new" => DOMAIN worker'.rows = {}
          /\ \A d \in Dealers \ DOMAIN worker'.rows : worker'.mails[d] = 0
          /\ FanoutsAgree'
      BY <1>2, <3>1, FanoutsStayTogether
    <3> QED BY <2>1, <2>2, <2>4, <3>1, <3>2 DEF AmendWishes, FanoutsMatch
  <2>5. CASE PayForConcierge
    <3>1. UNCHANGED <<dealer, book, asked>>
      BY <2>5 DEF PayForConcierge
    <3> QED BY <1>2, <2>1, <2>2, <2>5, <3>1, ReleaseKeepsTogether DEF FanoutsMatch
  <2>6. ASSUME UNCHANGED <<inline, worker, paid, asked>>, dealer' \in Fleets,
               book' \in [Dealers -> Stocks]
        PROVE  FanoutsMatch'
    BY <1>2, <2>1, <2>2, <2>6 DEF FanoutsMatch, FanoutsAgree
  <2>7. ASSUME NEW d \in Others, Become(d) PROVE FanoutsMatch'
    <3>1. PICK what \in {"verified", "pro", "out"} : dealer' = [dealer EXCEPT ![d][what] = ~@]
      BY <2>7 DEF Become
    <3>2. dealer' \in Fleets
      BY <2>1, <3>1 DEF Fleets
    <3> QED BY <2>1, <2>6, <2>7, <3>2 DEF Become
  <2>8. ASSUME NEW d \in Others, Restock(d) PROVE FanoutsMatch'
    <3>1. book' \in [Dealers -> Stocks]
      BY <2>1, <2>8 DEF Restock
    <3> QED BY <2>1, <2>6, <2>8, <3>1 DEF Restock
  <2>9. CASE UNCHANGED matchingVars
    BY <2>1, <2>6, <2>9 DEF matchingVars
  <2> QED BY <1>2, <2>3, <2>4, <2>5, <2>7, <2>8, <2>9 DEF MatchingNext
<1> QED BY <1>1, <1>2, PTL DEF MatchingSpec

-----------------------------------------------------------------------------
(* The composition.                                                        *)

\* A part moves by its own steps only, whichever part a behaviour is about.
LEMMA PartsMoveAlone ==
    ASSUME [Next]_agreementVars
    PROVE  /\ [RequestsNext]_requestVars
           /\ [TradeNext]_tradeVars
           /\ [DeskNext]_deskVars
           /\ [LoginNext \/ OperatorNext \/ DealNext \/ AlertNext]_accountsVars
           /\ [ListingsNext]_listingVars
           /\ [InboxNext]_deskOfOffersVars
           /\ [TabNext]_tabVars
           /\ [AdminNext]_adminVars
           /\ [MatchingNext]_matchingVars
<1>1. CASE UNCHANGED agreementVars
  BY <1>1 DEF agreementVars, backendVars, pageVars
<1>2. CASE BackendNext /\ UNCHANGED <<pageVars, matchingVars>>
  BY <1>2 DEF BackendNext, pageVars
<1>3. CASE PageNext /\ UNCHANGED <<backendVars, matchingVars>>
  BY <1>3 DEF PageNext, backendVars, InboxNext
<1>4. CASE MatchingNext /\ UNCHANGED <<backendVars, pageVars>>
  BY <1>4 DEF backendVars, pageVars
<1> QED BY <1>1, <1>2, <1>3, <1>4 DEF Next

\* Each part, run in the composition, is the part proved above.
LEMMA PartsCorrect ==
    Spec => /\ []RequestsInv /\ []TradeInv /\ []DeskInv /\ []AccountsInv /\ []ListingsInv
            /\ []InboxInv
            /\ [](TabTypeOK /\ OneLink)
            /\ [](ClickIsOurs /\ OnlyTogglesMisfire)
            /\ []FanoutsMatch
<1>1. Init => /\ RequestsInit /\ TradeInit /\ DeskInit /\ AccountsInit /\ ListingsInit
              /\ OperatorInit /\ TabInit /\ AdminInit /\ MatchingInit
  BY DEF Init
<1> QED BY <1>1, PartsMoveAlone, RequestsCorrect, TradeCorrect, DeskCorrect, AccountsCorrect,
           ListingsCorrect, InboxCorrect, TabCorrect, AdminCorrect, MatchingCorrect, PTL
        DEF Spec, MatchingSpec

\* The rows of both repositories, the pages and the fan-outs stay well typed through
\* every sequence of the calls, clicks and edits modelled.
THEOREM AgreementTypeCorrect == Spec => []AgreementTypeOK
<1>1. RequestsInv => RequestsTypeOK
  BY RequestsInvImplies
<1>2. TradeInv => TradeTypeOK
  BY TradeTyped
<1>3. DeskInv => DeskTypeOK
  BY DeskInvImplies
<1>4. AccountsInv => AccountsTypeOK
  BY AccountsInvImplies
<1>5. ListingsInv => ListingsTypeOK
  BY DEF ListingsInv
<1>6. InboxInv => InboxTypeOK
  BY DEF InboxInv
<1>7. ClickIsOurs /\ OnlyTogglesMisfire => AdminTypeOK
  BY AdminTyped
<1>8. FanoutsMatch => MatchingTypeOK
  BY DEF FanoutsMatch
<1>9. RequestsTypeOK /\ TradeTypeOK /\ DeskTypeOK /\ AccountsTypeOK /\ ListingsTypeOK
        /\ InboxTypeOK /\ TabTypeOK /\ AdminTypeOK /\ MatchingTypeOK => AgreementTypeOK
  BY DEF AgreementTypeOK
<1> QED BY <1>1, <1>2, <1>3, <1>4, <1>5, <1>6, <1>7, <1>8, <1>9, PartsCorrect, PTL

\* The tests run on memory.ts and production on drizzle.ts: for any sets of rows and
\* any bounds, no sequence of calls of the Repo interface makes the two answer
\* differently or leaves rows a later call would read differently, the two differences
\* the modules name aside (a revival of a request whose key was claimed, a full ledger
\* of sign-in links).
THEOREM BackendsNeverDiffer == Spec => []BackendsAgree
<1>1. RequestsInv => RequestsAgree
  BY RequestsInvImplies
<1>2. TradeInv => InboxesAgree
  BY ViewsAgree
<1>3. DeskInv => DesksAgree
  BY DeskInvImplies
<1>4. AccountsInv => AccountsAgree
  BY AccountsInvImplies
<1>5. ListingsInv => ListingsAgree
  BY ShelvesAgree
<1>6. RequestsAgree /\ InboxesAgree /\ DesksAgree /\ AccountsAgree /\ ListingsAgree => BackendsAgree
  BY DEF BackendsAgree
<1> QED BY <1>1, <1>2, <1>3, <1>4, <1>5, <1>6, PartsCorrect, PTL

\* Once deleteBuyerData ran, no table of that marketplace names the mailbox in either
\* repository, and no later call brings a trace back until the mailbox itself returns;
\* the rows of the other marketplaces are not touched.
THEOREM ErasureIsFinal == Spec => []ErasedIsGone
<1>1. DeskInv => ErasedIsGone
  BY DeskInvImplies
<1> QED BY <1>1, PartsCorrect, PTL

\* The listings the broker directory counts are, in both repositories and on every day,
\* those the profile behind the entry shows: for any set of listings and markets.
THEOREM DirectoryIsHonest == Spec => []DirectoryMatchesProfile
<1>1. ListingsInv => DirectoryMatchesProfile
  BY DirectoryCounts
<1> QED BY <1>1, PartsCorrect, PTL

\* No page offers a button its route refuses, a stale press does what it says or
\* nothing (the admin's toggles aside), and a tab shows the rows of its own link.
THEOREM PagesStayHonest == Spec => []PagesAreHonest
<1>1. InboxInv => BuyerButtonsWork /\ OperatorButtonsWork
  BY BuyerIsHonest, OperatorIsHonest
<1>2. ClickIsOurs => AdminButtonsWork
  BY AdminIsHonest
<1>3. OneLink => TabSpeaksForItsLink
  BY TabSpeaks
<1>4. BuyerButtonsWork /\ OperatorButtonsWork /\ AdminButtonsWork /\ OnlyTogglesMisfire
        /\ TabSpeaksForItsLink => PagesAreHonest
  BY DEF PagesAreHonest
<1> QED BY <1>1, <1>2, <1>3, <1>4, PartsCorrect, PTL

\* The inline fan-out of the demo and the worker's SQL fan-out choose the same operators,
\* with the same head starts until a concierge payment releases the worker's rows, and
\* the worker has mailed an operator once exactly when its row may be seen: through any
\* sequence of edits of the fleets, the profiles and the request.
THEOREM FanoutsNeverDiffer == Spec => []FanoutsAgree
<1>1. FanoutsMatch => FanoutsAgree
  BY DEF FanoutsMatch
<1> QED BY <1>1, PartsCorrect, PTL
=============================================================================
