SPECIFICATION Spec
CONSTANTS
  Listings = {a1, a2}
  Calls = {b1, b2}
  Cap = 1
  NoListing = NoListing
  Hooks = {b1, b2}
  Forms = {f1}
  MaxStamp = 2
  MaxDeaths = 1
  Rows = {a1, a2}
  Bodies = {x}
  Buyers = {b1, b2}
  MaxDay = 1
  NoRow = NoRow
  Sessions = {a1, a2}
  Targets = {b1, b2}
  MaxLost = 1
  Links = {l1}
  Doors = {b1, b2}
  Intents = {"buyer"}
  LinkTtl = 1
  SessionTtl = 2
  Skew = 1
  Drift = 1
  MaxNow = 2
  MaxVersion = 2
INVARIANTS StorefrontTypeOK CapHolds OneAtATimeAgrees NoTwins ExpeditedOnce LinkSignsInOnce
  RevokedIsOut
PROPERTIES StampsAdvance SpamStaysDown
CHECK_DEADLOCK FALSE
SYMMETRY StoreSymmetry
