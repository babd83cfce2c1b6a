SPECIFICATION FairSpec
CONSTANTS
  i1 = i1  i2 = i2  c1 = c1  c2 = c2  slug = slug
  NoRow = NoRow  NoImage = NoImage  NoJob = NoJob  Free = Free
  Ids <- TwoSites
  Slugs <- OneSlug
  SlugOf <- SameSlug
  Clients = {c1, c2}
  Images <- TwoImages
  Compat <- Forward
  Kinds = {"start", "stop", "delete", "lan", "versions"}
  Faults = {"plan", "store", "write"}
  UserOwned = {}
  Unlisted = {i2}
  DuplicateNames = FALSE
  MaxRequests = 3
INVARIANTS
  StartDelivers
  DeleteDelivers
PROPERTY
  RequestsReturn
CHECK_DEADLOCK FALSE
