SPECIFICATION Spec
CONSTANTS
  Rfqs = {r1, r2}
  Keys = {k1, k2}
  Tied = {r1}
  NoRfq = NoRfq
  MaxDay = 1
  MaxEdits = 1
  Ops = {o1}
  Nobody = Nobody
  Notes = {x}
  Silent = Silent
  MaxRounds = 2
  MaxRevs = 1
  Verticals = {v1, v2}
  Here = v1
  Kinds = {quote}
  Reports = {c1, c2}
  Sigs = {s1, s2, s3}
  LedgerCap = 2
  Locales = {en, de}
  Tokens = {t1, t2}
  Items = {i1}
  Names = {n1}
  Unset = Unset
  MaxStamp = 2
  Lots = {l1, l2}
  Markets = {v1, v2}
  Market = v1
  Bidders = {1, 2}
  Owner = 1
  MaxTurns = 2
  Links = {m1, m2}
  NoLink = NoLink
  NoClick = "none"
  Dealers = {1, 2, 3}
  Lister = 1
  Limit = 1
  Stocks <- Books
  MaxChanges = 2
INVARIANTS AgreementTypeOK BackendsAgree ErasedIsGone DirectoryMatchesProfile PagesAreHonest FanoutsAgree
CHECK_DEADLOCK FALSE
