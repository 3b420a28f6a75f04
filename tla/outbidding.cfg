SPECIFICATION Spec
CONSTANTS
  seller = seller
  b1 = b1
  b2 = b2
  None = None
  Auctions = {a1}
  Users = {seller, b1, b2}
  Admins = {}
  Seller <- MCSeller
  Amounts = {500, 600, 700}
  Terms <- NoBuyNow
  Requests = {r1, r2}
  Managers = {m1}
  Ticks = {}
  MaxFaults = 0
SYMMETRY Symmetry
INVARIANTS OutbidNoticesAreRight OutbidBiddersAreTold
