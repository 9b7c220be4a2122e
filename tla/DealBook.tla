------------------------------ MODULE DealBook ------------------------------
(***************************************************************************)
(* What deal arbitration promises, without requests, statuses or steps: a  *)
(* book of sealed deals in which an RFQ takes a second deal only after it  *)
(* was renewed.  DealFlow implements it.                                   *)
(***************************************************************************)
CONSTANTS
    Rfqs,        \* requests for quotation
    Quotes,      \* offers
    RfqOf        \* RfqOf[q]: the RFQ offer q is for

VARIABLES
    sealed,      \* the quotes a deal was sealed on
    renewed      \* the RFQs that may take another deal

bookVars == <<sealed, renewed>>

Init == sealed = {} /\ renewed = {}

\* A deal is sealed on q; its RFQ has none yet or was renewed.  The seal may
\* renew the RFQ itself: a deal recorded while its maker is told it failed.
Seal(q) ==
    /\ q \notin sealed
    /\ RfqOf[q] \in renewed \/ \A p \in sealed : RfqOf[p] # RfqOf[q]
    /\ sealed' = sealed \cup {q}
    /\ renewed' \in {renewed, renewed \cup {RfqOf[q]}}

Renew(r) ==
    /\ renewed' = renewed \cup {r}
    /\ UNCHANGED sealed

Next == (\E q \in Quotes : Seal(q)) \/ (\E r \in Rfqs : Renew(r))

Spec == Init /\ [][Next]_bookVars
=============================================================================
