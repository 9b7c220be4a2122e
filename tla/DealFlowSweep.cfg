\* One RFQ, one request at a time, the worker's sweep under weak fairness.
SPECIFICATION FairSpec
CONSTANTS
    r1 = r1
    r2 = r2
    q1 = q1
    q2 = q2
    o1 = o1
    o2 = o2
    l1 = l1
    None = None
    Faults = {"abort", "refused", "torn"}
    Rfqs = {r1}
    Quotes = {q1, q2}
    Operators = {o1, o2}
    Listings = {l1}
    OneOff = {l1}
    Sessions = {s1}
    RfqOf <- MCRfqOf
    OpOf <- MCOpOf
    ListingOf <- MCListingOf
    OwnerOf <- MCOwnerOf
PROPERTY LapsedIsSwept
CHECK_DEADLOCK FALSE
