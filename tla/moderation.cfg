SPECIFICATION Spec
CONSTANTS
  None = None
  Ads = {a1}
  Users = {u1, adm}
  Admins = {adm}
  Texts = {t1, t2}
  Photos = {}
  Handlers = {h1, h2}
  MaxActive = 1
  Deletable = {}
  OneClient = FALSE
  MaxFaults = 0
SYMMETRY Symmetry
INVARIANTS TypeOK ReasonIsInThread ValidationIsTold
