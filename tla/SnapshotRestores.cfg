SPECIFICATION SitesSpec
CONSTANTS
  u1 = u1  u2 = u2  posts = posts
  Users = {u1, u2}
  Images <- TwoEngines
  Tables = {posts}
  MaxWrites = 2
  MaxSecond = 0
  MaxSnaps = 2
  MaxAsked = 2
  SameSecond = FALSE
  MaySkip = TRUE
  Keep = 1
  TreeClients = {u1, u2}
  Remotes = {"r1"}
  Branches = {"b1"}
  MaxIds = 3
  MaxJobs = 4
  TreeFaults = {"git", "store", "hook", "crash"}
  HookSites = {"s1"}
  HookEvents = {"pre-start", "post-start"}
  HookIds = {1, 2}
  HookKinds = {"exec", "exec-host"}
  MaxHookWork = 1
  MaxHookRuns = 2
  RoutedSlugs = {"a", "b"}
  ServiceOrder <- MailService
  LanHosts = {"lan"}
  RouterFaults = {"cert", "key", "write", "crash", "docker"}
  MaxRouteJobs = 2
  Assets = {"a"}
  Bundle <- ThreeReleases
  SiteFiles = {"wp-config.php"}
  FileWriters = {"w1", "w2"}
  MaxData = 2
  MaxEdits = 2
  FileFaults = {"write", "save", "crash"}
SYMMETRY UserSymmetry
INVARIANT
  IntactRestores
\* Clients and users may stop asking, and the bounds cut every part off.
CHECK_DEADLOCK FALSE
