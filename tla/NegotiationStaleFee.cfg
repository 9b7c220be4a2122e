\* A revise lands between the accept's read and its flip.
SPECIFICATION Spec
CONSTANTS
    Sessions = {s1, s2}
    Prices = {1, 2}
    Faults = {}
    MaxRounds = 2
    MaxOffers = 3
SYMMETRY SessionSymmetry
INVARIANT FeeOnAgreedPrice
CHECK_DEADLOCK FALSE
