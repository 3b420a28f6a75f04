SPECIFICATION Spec
CONSTANTS
  None = None
  Ads = {a1, a2, a3}
  Users = {adm}
  Admins = {adm}
  Texts = {t1}
  Photos = {}
  Handlers = {h1, h2}
  MaxActive = 1
  Deletable = {}
  OneClient = FALSE
  MaxFaults = 0
SYMMETRY Symmetry
INVARIANTS CapOvershootIsBounded
