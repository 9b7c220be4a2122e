----------------------------- MODULE MCDealFlow -----------------------------
(***************************************************************************)
(* Instances of DealFlow for TLC.  The relations between rows are given as *)
(* definitions over the rows a cfg names; a cfg picks one set per run.     *)
(***************************************************************************)
EXTENDS DealFlow, TLC

CONSTANTS r1, r2, q1, q2, o1, o2, l1

\* Two operators compete on one RFQ; o1 owns the one-off listing behind it.
MCRfqOf == [q \in Quotes |-> r1]
MCOpOf == [q \in Quotes |-> IF q = q1 THEN o1 ELSE o2]
MCListingOf == [r \in Rfqs |-> l1]
MCOwnerOf == [l \in Listings |-> o1]

\* Two RFQs on one listing, both quoted by its owner.
MCRfqOfTwo == q1 :> r1 @@ q2 :> r2
MCOpOfOwner == [q \in Quotes |-> o1]

\* Requests are interchangeable.
SessionSymmetry == Permutations(Sessions)
=============================================================================
