\* Two requests haggle over one quote, with every failure.
SPECIFICATION Spec
CONSTANTS
    Sessions = {s1, s2}
    Prices = {1, 2}
    Faults = {"abort", "refused", "torn"}
    MaxRounds = 2
    MaxOffers = 2
SYMMETRY SessionSymmetry
INVARIANT TypeOK
INVARIANT TrailPinned
INVARIANT OpenRoundOnTable
PROPERTY AcceptedTermsStand
CHECK_DEADLOCK FALSE
