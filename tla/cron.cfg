SPECIFICATION FairSpec
CONSTANTS
  seller = seller
  b1 = b1
  b2 = b2
  None = None
  Auctions = {a1, a2}
  Users = {seller, b1, b2}
  Admins = {}
  Seller <- MCSeller
  Amounts = {600}
  Terms <- NoBuyNow
  Requests = {}
  Managers = {m1}
  Ticks = {k1, k2}
  MaxFaults = 1
\* Without bidders the system rests once every auction is closed.
CHECK_DEADLOCK FALSE
PROPERTIES ExpiredAuctionsClose
