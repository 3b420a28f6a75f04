SPECIFICATION Spec
CONSTANTS
  seller = seller
  b1 = b1
  b2 = b2
  None = None
  Auctions = {a1}
  Users = {seller, b1, b2}
  Admins = {}
  Seller <- MCSeller
  Amounts = {500, 600}
  Terms <- LowBuyNow
  Requests = {r1}
  Managers = {m1}
  Ticks = {k1}
  MaxFaults = 0
PROPERTIES ClosedStateIsFinal
