SPECIFICATION Spec
CONSTANTS
  None = None
  Ads = {a1}
  Users = {u1, adm}
  Admins = {adm}
  Texts = {t1, t2}
  Photos = {p1, p2, p3}
  Handlers = {h1}
  MaxActive = 1
  Deletable = {p1}
  OneClient = TRUE
  MaxFaults = 1
SYMMETRY Symmetry
INVARIANTS RowsShowTheirFiles
PROPERTIES ImplementsLifecycle
