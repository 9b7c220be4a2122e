\* Two RFQs on one one-off listing, both won by its owner.
SPECIFICATION Spec
CONSTANTS
    r1 = r1
    r2 = r2
    q1 = q1
    q2 = q2
    o1 = o1
    o2 = o2
    l1 = l1
    None = None
    Faults = {}
    Rfqs = {r1, r2}
    Quotes = {q1, q2}
    Operators = {o1}
    Listings = {l1}
    OneOff = {l1}
    Sessions = {s1, s2}
    RfqOf <- MCRfqOfTwo
    OpOf <- MCOpOfOwner
    ListingOf <- MCListingOf
    OwnerOf <- MCOwnerOf
SYMMETRY SessionSymmetry
INVARIANT SoldOnce
CHECK_DEADLOCK FALSE
