SPECIFICATION FrontSpec
CONSTANTS
  seller = seller
  b1 = b1
  v1 = v1
  Viewer = v1
  Users = {seller, b1, v1}
  Auctions = {a1, a2}
  Seller <- MCSeller
  Amounts = {1, 2}
  a1 = a1
  a2 = a2
  y1 = y1
  Cutoff = 2
  EndDates = {1, 2, 3}
  Selects = {"year", "transmission"}
  OptionOf <- MCOptionOf
  Rank <- MCRank
  NoOption = NoOption
  Busy = {a1}
  BuyNow <- MCBuyNow
  MinFirstBid = 1
  NoPrice = 0
  Reserve = 1
  Step = 1
  MaxLoads = 3
  Undefined = Undefined
  m1 = m1
  m2 = m2
  d1 = d1
  d2 = d2
  MakeOptions = {m1, m2}
  ModelOptions = {d1, d2}
  OptionMake <- MCOptionMake
  Queries = {q1, q2}
  Others = {o1}
  MaxRequests = 4
  Empty = Empty
  t1 = t1
  t2 = t2
  f1 = f1
  f2 = f2
  x1 = x1
  x2 = x2
  Makes = {m1, m2}
  Models = {d1, d2}
  Trims = {t1, t2}
  Fuels = {f1, f2}
  Specs = {x1, x2}
  MakeOf <- MCMakeOf
  ModelOf <- MCModelOf
  Engines <- MCEngines
  Typed = Typed
  Nothing = Nothing
  SavedTrim = t1
  SavedSpec = x2
  MaxAsked = 3
  MaxFormLoads = 2
  MaxPicks = 2
  MaxSaves = 2
  MaxSaveFaults = 1
INVARIANTS QuietPageIsCurrent RefusalsMeanStalePages ResultsAnswerTheLastSearch OptionsFitTheSelection CascadeFits FiguresFitTheFinition LoadShowsTheAd  FeedIsWhole
PROPERTIES AnnouncedWinnerWon
CHECK_DEADLOCK FALSE
