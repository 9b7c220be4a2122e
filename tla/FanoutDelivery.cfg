\* Two workers, one operator; payment, amendment, reopen, lost enqueues, a fault.
SPECIFICATION Spec
CONSTANTS
    Operators = {o1}
    Workers = {w1, w2}
    Fan = Fan
    None = None
    MaxFaults = 1
    MaxAmends = 1
INVARIANT TypeOK
INVARIANT DelayHolds
PROPERTY MatchesAdvance
PROPERTY DeadStaysDead
