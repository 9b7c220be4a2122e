\* One worker, two operators; the sweeps make good for what was lost.
SPECIFICATION FairSpec
CONSTANTS
    Operators = {o1, o2}
    Workers = {w1}
    Fan = Fan
    None = None
    MaxFaults = 1
    MaxAmends = 0
PROPERTY NothingIsForgotten
