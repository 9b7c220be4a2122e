---------------------------- MODULE MCStorefront ----------------------------
(***************************************************************************)
(* The parts of the web application that share no state, in one run: the   *)
(* operator's listings and account, the buyer's requests, the payment for  *)
(* instant delivery, and signing in.  The part a behaviour is about is     *)
(* chosen at the start; the others stay as they begin.                     *)
(***************************************************************************)
EXTENDS ListingBook, OperatorAccount, RfqIntake, Concierge, Access, TLC

VARIABLE focus

storeVars == <<focus, bookVars, accountVars, intakeVars, conciergeVars, accessVars>>

Init ==
    /\ BookInit /\ AccountInit /\ IntakeInit /\ ConciergeInit /\ AccessInit
    /\ focus \in {"book", "account", "intake", "concierge", "access"}
    /\ focus # "access" => ~listed /\ \A d \in Doors : ahead[d] = 0

Next ==
    /\ UNCHANGED focus
    /\ \/ /\ focus = "book" /\ BookNext
          /\ UNCHANGED <<accountVars, intakeVars, conciergeVars, accessVars>>
       \/ /\ focus = "account" /\ AccountNext
          /\ UNCHANGED <<bookVars, intakeVars, conciergeVars, accessVars>>
       \/ /\ focus = "intake" /\ IntakeNext
          /\ UNCHANGED <<bookVars, accountVars, conciergeVars, accessVars>>
       \/ /\ focus = "concierge" /\ ConciergeNext
          /\ UNCHANGED <<bookVars, accountVars, intakeVars, accessVars>>
       \/ /\ focus = "access" /\ AccessNext
          /\ UNCHANGED <<bookVars, accountVars, intakeVars, conciergeVars>>

Spec == Init /\ [][Next]_storeVars

\* The rows of every part are well typed, and no request is at two places.
StorefrontTypeOK ==
    BookTypeOK /\ AccountTypeOK /\ IntakeTypeOK /\ ConciergeTypeOK /\ AccessTypeOK

\* The parts have their rows, and their requests, from two common sets: renaming
\* either throughout changes nothing.
StoreSymmetry == Permutations(Listings) \cup Permutations(Calls)
=============================================================================
