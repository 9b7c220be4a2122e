--------------------------- MODULE MCNegotiation ---------------------------
(* Instances of Negotiation for TLC.                                        *)
EXTENDS Negotiation, TLC

\* Requests are interchangeable.
SessionSymmetry == Permutations(Sessions)
=============================================================================
