---------------------------- MODULE MCAgreement ----------------------------
(***************************************************************************)
(* Where two parts of the program must say the same thing: the memory and  *)
(* the SQL repository behind the Repo interface, the inline and the        *)
(* worker's fan-out, the pages' buttons and the routes they post to.  The  *)
(* parts share no state, so the one a behaviour is about (focus) is chosen *)
(* at the start and the others stay as they are.                           *)
(***************************************************************************)
EXTENDS BackendRequests, BackendTrade, BackendDesk, BackendAccounts, BackendListings,
        OperatorInbox, BuyerTab, AdminDesk, Matching

VARIABLE focus

backendVars == <<requestVars, tradeVars, deskVars, accountsVars, listingVars>>
pageVars == <<deskOfOffersVars, tabVars, adminVars>>
agreementVars == <<focus, backendVars, pageVars, matchingVars>>

Books == {{}, {"light"}, {"heavy", "blank"}, {"foreign"}, {"foreign", "light"}, {"draft"}}

\* A part that is not in focus starts in one of its initial states only.
Init ==
    /\ focus \in {"requests", "trade", "desk", "login", "operator", "deal", "alert", "listings",
                  "terms", "dates", "trust", "tab", "admin", "matching"}
    /\ RequestsInit /\ TradeInit /\ DeskInit /\ AccountsInit /\ ListingsInit
    /\ focus # "trade" => kept.home = Nobody
    /\ OperatorInit
    /\ focus \notin {"terms", "dates", "trust"} => request.horizon = "far" /\ ground.listing = "up"
    /\ TabInit
    /\ focus # "tab" => storable
    /\ AdminInit
    /\ focus # "admin" => matter = "jobs"
    /\ MatchingInit
    /\ focus # "matching" =>
         /\ model = "none" /\ asked = [category |-> "none", seats |-> 0]
         /\ \A d \in Others : book[d] = {} /\ ~dealer[d].verified /\ ~dealer[d].home

BackendNext ==
    \/ /\ focus = "requests" /\ RequestsNext
       /\ UNCHANGED <<tradeVars, deskVars, accountsVars, listingVars>>
    \/ /\ focus = "trade" /\ TradeNext
       /\ UNCHANGED <<requestVars, deskVars, accountsVars, listingVars>>
    \/ /\ focus = "desk" /\ DeskNext
       /\ UNCHANGED <<requestVars, tradeVars, accountsVars, listingVars>>
    \/ /\ \/ focus = "login" /\ LoginNext
          \/ focus = "operator" /\ OperatorNext
          \/ focus = "deal" /\ DealNext
          \/ focus = "alert" /\ AlertNext
       /\ UNCHANGED <<requestVars, tradeVars, deskVars, listingVars>>
    \/ /\ focus = "listings" /\ ListingsNext
       /\ UNCHANGED <<requestVars, tradeVars, deskVars, accountsVars>>

\* In the inboxes one aspect of the world moves per behaviour.
PageNext ==
    \/ /\ \/ focus \in {"terms", "dates", "trust"} /\ CommonNext
          \/ focus = "terms" /\ TermsNext
          \/ focus = "dates" /\ DatesNext
          \/ focus = "trust" /\ TrustNext
       /\ UNCHANGED <<tabVars, adminVars>>
    \/ focus = "tab" /\ TabNext /\ UNCHANGED <<deskOfOffersVars, adminVars>>
    \/ focus = "admin" /\ AdminNext /\ UNCHANGED <<deskOfOffersVars, tabVars>>

Next ==
    /\ UNCHANGED focus
    /\ \/ BackendNext /\ UNCHANGED <<pageVars, matchingVars>>
       \/ PageNext /\ UNCHANGED <<backendVars, matchingVars>>
       \/ focus = "matching" /\ MatchingNext /\ UNCHANGED <<backendVars, pageVars>>

Spec == Init /\ [][Next]_agreementVars

\* The rows of both repositories, the pages and the fan-outs are well typed; a part
\* out of focus does not move.
AgreementTypeOK ==
    /\ focus = "requests" => RequestsTypeOK
    /\ focus = "trade" => TradeTypeOK
    /\ focus = "desk" => DeskTypeOK
    /\ focus \in {"login", "operator", "deal", "alert"} => AccountsTypeOK
    /\ focus = "listings" => ListingsTypeOK
    /\ focus \in {"terms", "dates", "trust"} => InboxTypeOK
    /\ focus = "tab" => TabTypeOK
    /\ focus = "admin" => AdminTypeOK
    /\ focus = "matching" => MatchingTypeOK

\* The tests and the demo run on memory.ts and production on drizzle.ts: no
\* sequence of calls of the Repo interface tells the two apart, in its answers or
\* in the rows a later call would read.
BackendsAgree ==
    RequestsAgree /\ InboxesAgree /\ DesksAgree /\ AccountsAgree /\ ListingsAgree

\* A page that shows the rows as they are offers no button whose route refuses it,
\* the exceptions named in the modules aside; pressed on a stale page a button does
\* what it says or nothing, the admin's toggles aside; and a browser tab shows the
\* rows of the mailbox whose link was opened last.
PagesAreHonest ==
    /\ BuyerButtonsWork /\ OperatorButtonsWork /\ AdminButtonsWork
    /\ OnlyTogglesMisfire
    /\ TabSpeaksForItsLink
=============================================================================
