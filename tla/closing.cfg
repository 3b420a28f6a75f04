SPECIFICATION Spec
CONSTANTS
  seller = seller
  b1 = b1
  b2 = b2
  None = None
  Auctions = {a1}
  Users = {seller, b1, b2}
  Admins = {}
  Seller <- MCSeller
  Amounts = {500, 600}
  Terms <- EitherTerms
  Requests = {r1}
  Managers = {m1, m2}
  Ticks = {k1}
  MaxFaults = 0
SYMMETRY Symmetry
INVARIANTS SoldIsBacked
PROPERTIES AnnouncedCloseEndsBidding ImplementsLedger NeverRelaunched
