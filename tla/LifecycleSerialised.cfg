SPECIFICATION Spec
CONSTANTS
  i1 = i1  i2 = i2  c1 = c1  c2 = c2  slug = slug
  NoRow = NoRow  NoImage = NoImage  NoJob = NoJob  Free = Free
  Ids <- OneSite
  Slugs <- OneSlug
  SlugOf <- SameSlug
  Clients = {c1, c2}
  Images <- TwoImages
  Compat <- Forward
  Kinds = {"start", "delete"}
  Faults = {}
  UserOwned = {}
  Unlisted = {}
  DuplicateNames = FALSE
  MaxRequests = 2
INVARIANT
  GoneIsDown
CHECK_DEADLOCK FALSE
