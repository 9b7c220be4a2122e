\* A buyer reopens an RFQ a deal closed.
SPECIFICATION Spec
CONSTANTS
    r1 = r1
    r2 = r2
    q1 = q1
    q2 = q2
    o1 = o1
    o2 = o2
    l1 = l1
    None = None
    Faults = {}
    Rfqs = {r1}
    Quotes = {q1, q2}
    Operators = {o1, o2}
    Listings = {l1}
    OneOff = {}
    Sessions = {s1}
    RfqOf <- MCRfqOf
    OpOf <- MCOpOf
    ListingOf <- MCListingOf
    OwnerOf <- MCOwnerOf
INVARIANT OneDealPerRfq
CHECK_DEADLOCK FALSE
