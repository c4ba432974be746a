\* A Kill that lands before Start stored the cancel function.
SPECIFICATION FairSpec
CONSTANTS
  Entries = {j1}
  Owners = {alice}
  NoOwner = NoOwner
  NoId = NoId
  ExplicitIds = {}
  CapSettings = {}
  DefaultCap = 1
PROPERTIES
  KilledJobSettles
CHECK_DEADLOCK FALSE
