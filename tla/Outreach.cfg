SPECIFICATION Spec
CONSTANTS
  Clicks = {c1, c2, c3}
  MaxToken = 2
  Lots = {l1, l2}
  Hooked = {h1}
  MaxFaults = 1
  Sweeper = Sweeper
  NoLot = NoLot
  Tickers = {w1, w2}
INVARIANTS OutreachTypeOK OffNeedsConfirmation BlockedIsSilent BacklogKept ClaimedOnce
PROPERTIES BacklogServed DebtIsChased
CHECK_DEADLOCK FALSE
