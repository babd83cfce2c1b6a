SPECIFICATION Spec
CONSTANTS
  i1 = i1  i2 = i2  c1 = c1  c2 = c2  slug = slug
  NoRow = NoRow  NoImage = NoImage  NoJob = NoJob  Free = Free
  Ids <- TwoSites
  Slugs <- OneSlug
  SlugOf <- SameSlug
  Clients = {c1}
  Images <- TwoImages
  Compat <- Forward
  Kinds = {"start", "stop", "delete", "lan", "refresh", "versions", "spx", "publish"}
  Faults = {"plan", "undo", "read", "write", "crash"}
  UserOwned = {i2}
  Unlisted = {}
  DuplicateNames = FALSE
  MaxRequests = 5
INVARIANTS
  StartDelivers
  RunningIsRecorded
PROPERTY
  GuardsVolume
CHECK_DEADLOCK FALSE
