SPECIFICATION Spec
CONSTANTS
  Null = Null
  Emails = {e1}
  Admins = {}
  Clients = {t1, t2}
  ShortLife = 2
  LongLife = 3
  Lead = 1
  MaxTimeout = 1
  MaxTime = 3
  MaxVersion = 1
  MaxFaults = 1
  MaxLogins = 2
SYMMETRY Symmetry
INVARIANTS OneAccountPerEmail WarningIsArmed LastWriterShowsStored
PROPERTIES WarningsComeInTime SessionsEndForAReason
