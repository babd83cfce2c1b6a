------------------------------ MODULE Traefik ------------------------------
(* The routing layer: internal/router/traefik writes one dynamic            *)
(* configuration file per route into a directory that the router container  *)
(* watches, and asks the container's admin API how many routers it has      *)
(* loaded; internal/tls issues the certificate each file names.             *)
(*                                                                          *)
(* Operations on one site are serialised by the site's mutex, operations on *)
(* different sites are not, and the start-up sequence ("boot": the wipe of  *)
(* app.Initialize or of ResetInfrastructure, EnsureRunning, the services'   *)
(* routes) is serialised with neither: nothing reads UIState.initDone.      *)
EXTENDS FiniteSets, Sequences, Naturals

CONSTANTS
  RoutedSlugs,          \* sites with a route
  ServiceOrder,   \* the global services with a route, in the order the boot registers them
  LanHosts,       \* the extra host names the LAN toggle gives a site
  RouterFaults,   \* faults explored: subset of {"cert", "key", "write", "crash", "docker"}
  MaxRouteJobs    \* bound on the operations started

Services == {ServiceOrder[i] : i \in DOMAIN ServiceOrder}
Routes == RoutedSlugs \cup Services
NoRoute == {}                 \* no file, nothing loaded, no certificate
Local == "local"              \* the route's own host name, in every request
Wanted(r) == {{Local} \cup l : l \in IF r \in RoutedSlugs THEN SUBSET LanHosts ELSE {{}}}

ASSUME RouterAssumption ==
  /\ RoutedSlugs \cap Services = {}
  /\ Local \notin LanHosts
  /\ IsFiniteSet(RoutedSlugs) /\ ServiceOrder \in Seq(Services) /\ MaxRouteJobs \in Nat

VARIABLES
  rfile,      \* the dynamic directory: the hosts of the route's file, {} for no file
  rtls,       \* whether the file names a certificate
  cert,       \* the hosts of the certificate on disk, {} for none
  fits,       \* whether the key beside it is that certificate's
  known,      \* siteRoutes and serviceRoutes of this process
  box,        \* the router container: "gone", "stopped" or "up"
  api,        \* whose password is in api.yaml: "mine" or "old"
  loaded,     \* the hosts the running router serves for each route
  lapi,       \* whose password it accepts
  mkcert,     \* what is there of mkcert: "none", "binary", or "ready" with its authority trusted
  rjob,       \* the operation in flight on each route, and the boot's
  boot,       \* the start-up sequence
  turn,       \* the service it registers next
  stale,      \* the sites whose file an earlier process wrote
  routeJobs       \* operations started

routerVars == <<rfile, rtls, cert, fits, known, box, api, loaded, lapi, mkcert, rjob, boot, turn, stale, routeJobs>>
disk == <<rfile, rtls, cert, fits, stale>>
running == <<box, api, loaded, lapi>>

NoRouteJob == [op |-> "none", at |-> "-", want |-> {}, tls |-> FALSE, was |-> FALSE, need |-> 0]
RouteSteps == {"-", "cert", "key", "write", "enter", "wait", "unlink", "uncert", "forget"}

HostSets(S) == {NoRoute} \cup UNION {Wanted(r) : r \in S}
RouterTypeOK ==
  /\ rfile \in [Routes -> HostSets(Routes)] /\ cert \in [Routes -> HostSets(Routes)]
  /\ rtls \in [Routes -> BOOLEAN] /\ fits \in [Routes -> BOOLEAN]
  /\ known \subseteq Routes
  /\ box \in {"gone", "stopped", "up"} /\ api \in {"mine", "old"} /\ lapi \in {"mine", "old", "none"}
  /\ loaded \in [Routes -> HostSets(Routes)]
  /\ mkcert \in {"none", "binary", "ready"}
  /\ rjob \in [Routes -> [op : {"none", "upsert", "remove"}, at : RouteSteps, want : HostSets(Routes),
                          tls : BOOLEAN, was : BOOLEAN, need : 0..(1 + Cardinality(Routes))]]
  /\ boot \in {"off", "wipe", "ensure", "glob", "sweep", "config", "create", "ready", "services"}
  /\ turn \in 1..(Len(ServiceOrder) + 1) /\ stale \subseteq RoutedSlugs
  /\ routeJobs \in 0..MaxRouteJobs

RouterInit ==
  /\ rfile = [r \in Routes |-> NoRoute] /\ rtls = [r \in Routes |-> FALSE]
  /\ cert = [r \in Routes |-> NoRoute] /\ fits = [r \in Routes |-> FALSE]
  /\ known = {} /\ box = "gone" /\ api = "old" /\ loaded = [r \in Routes |-> NoRoute] /\ lapi = "none"
  /\ mkcert \in {"none", "ready"}
  /\ rjob = [r \in Routes |-> NoRouteJob] /\ boot = "wipe" /\ turn = 1 /\ stale = {} /\ routeJobs = 0

(* The next step of r's operation, and its end. *)
RouteStep(r, at) == rjob' = [rjob EXCEPT ![r].at = at]
Over(r) == rjob' = [rjob EXCEPT ![r] = NoRouteJob]
BootFails(r) == boot' = IF r \in Services THEN "off" ELSE boot
RouteAt(r, op, at) == rjob[r].op = op /\ rjob[r].at = at

(* What the admin API answers to this process. *)
Answers == box = "up" /\ lapi = "mine"
Loaded == Cardinality({r \in Routes : loaded[r] # NoRoute}) + 1
ExpectedRouterCount(k) == 1 + Cardinality(k)

(* UpsertSite, UpsertService and RemoveSite begin.                           *)
Upsert(r) ==
  /\ rjob[r] = NoRouteJob /\ routeJobs < MaxRouteJobs /\ r \in RoutedSlugs
  /\ \E h \in Wanted(r) : rjob' = [rjob EXCEPT ![r] = [NoRouteJob EXCEPT !.op = "upsert", !.at = "cert", !.want = h]]
  /\ routeJobs' = routeJobs + 1
  /\ UNCHANGED <<disk, running, known, mkcert, boot, turn>>

RemoveSite(r) ==
  /\ rjob[r] = NoRouteJob /\ routeJobs < MaxRouteJobs /\ r \in RoutedSlugs
  /\ rjob' = [rjob EXCEPT ![r] = [NoRouteJob EXCEPT !.op = "remove", !.at = "unlink"]]
  /\ routeJobs' = routeJobs + 1
  /\ UNCHANGED <<disk, running, known, mkcert, boot, turn>>

(* Available: the binary is found and its authority was installed. *)
Ready == mkcert = "ready"

(* certCovers and sanMatches, wildcards set aside. *)
Covers(r) == rjob[r].want \subseteq cert[r]

(* Mutation of Render: the file names a certificate in any case.           *)
MutantRenderTls(r, tls) ==
  rjob' = [rjob EXCEPT ![r].at = "write", ![r].tls = TRUE, ![r].was = rfile[r] # NoRoute]

(* Site and Service render the file with or without a certificate, then     *)
(* wasPresent is taken.                                                     *)
Render(r, tls) ==
  rjob' = [rjob EXCEPT ![r].at = "write", ![r].tls = tls, ![r].was = rfile[r] # NoRoute]

(* ensureCert, first half: the provider is asked, a covering certificate is *)
(* reused whatever its key, else mkcert issues one and the new certificate  *)
(* is renamed into place. A failure leaves the route without a certificate. *)
EnsureCert(r) ==
  /\ RouteAt(r, "upsert", "cert")
  /\ \/ /\ Ready /\ Covers(r) /\ Render(r, TRUE)
        /\ UNCHANGED disk
     \/ /\ Ready /\ ~Covers(r)
        /\ cert' = [cert EXCEPT ![r] = rjob[r].want] /\ fits' = [fits EXCEPT ![r] = FALSE]
        /\ RouteStep(r, "key")
        /\ UNCHANGED <<rfile, rtls, stale>>
     \/ /\ ~Ready \/ (~Covers(r) /\ "cert" \in RouterFaults)
        /\ Render(r, FALSE)
        /\ UNCHANGED disk
  /\ UNCHANGED <<running, known, mkcert, boot, turn, routeJobs>>

(* ensureCert, second half: the key is renamed after the certificate.       *)
InstallKey(r) ==
  /\ RouteAt(r, "upsert", "key")
  /\ \/ fits' = [fits EXCEPT ![r] = TRUE] /\ Render(r, TRUE)
     \/ "key" \in RouterFaults /\ Render(r, FALSE) /\ UNCHANGED fits
  /\ UNCHANGED <<rfile, rtls, cert, stale, running, known, mkcert, boot, turn, routeJobs>>

(* genmark.WriteAtomic: the file is the old one or the new one.             *)
WriteRoute(r) ==
  /\ RouteAt(r, "upsert", "write")
  /\ \/ /\ rfile' = [rfile EXCEPT ![r] = rjob[r].want] /\ rtls' = [rtls EXCEPT ![r] = rjob[r].tls]
        /\ stale' = stale \ {r}
        /\ RouteStep(r, "enter")
        /\ UNCHANGED boot
     \/ /\ "write" \in RouterFaults /\ Over(r) /\ BootFails(r)
        /\ UNCHANGED <<rfile, rtls, stale>>
  /\ UNCHANGED <<cert, fits, running, known, mkcert, turn, routeJobs>>

(* The known map is updated under the router's mutex; only a route that was *)
(* neither on disk nor known is waited for.                                 *)
EnterRoute(r) ==
  /\ RouteAt(r, "upsert", "enter")
  /\ known' = known \cup {r}
  /\ IF rjob[r].was \/ r \in known THEN Over(r)
     ELSE rjob' = [rjob EXCEPT ![r].at = "wait", ![r].need = ExpectedRouterCount(known')]
  /\ UNCHANGED <<disk, running, mkcert, boot, turn, routeJobs>>

(* waitForRouterCount: until the router counts as many as were expected at  *)
(* the time, or the deadline passes and the operation fails.                *)
RouteSeen(r) ==
  /\ RouteAt(r, "upsert", "wait") /\ Answers /\ Loaded >= rjob[r].need
  /\ Over(r)
  /\ UNCHANGED <<disk, running, known, mkcert, boot, turn, routeJobs>>

RouteTimesOut(r) ==
  /\ RouteAt(r, "upsert", "wait")
  /\ Over(r) /\ BootFails(r)
  /\ UNCHANGED <<disk, running, known, mkcert, turn, routeJobs>>

(* RemoveSite: the file, then the certificate (a failure is a warning),     *)
(* then the map.                                                            *)
UnlinkRoute(r) ==
  /\ RouteAt(r, "remove", "unlink")
  /\ \/ /\ rfile' = [rfile EXCEPT ![r] = NoRoute] /\ rtls' = [rtls EXCEPT ![r] = FALSE]
        /\ stale' = stale \ {r}
        /\ RouteStep(r, "uncert")
     \/ "write" \in RouterFaults /\ Over(r) /\ UNCHANGED <<rfile, rtls, stale>>
  /\ UNCHANGED <<cert, fits, running, known, mkcert, boot, turn, routeJobs>>

RemoveCert(r) ==
  /\ RouteAt(r, "remove", "uncert")
  /\ \/ cert' = [cert EXCEPT ![r] = NoRoute] /\ fits' = [fits EXCEPT ![r] = FALSE]
     \/ "cert" \in RouterFaults /\ UNCHANGED <<cert, fits>>
  /\ RouteStep(r, "forget")
  /\ UNCHANGED <<rfile, rtls, stale, running, known, mkcert, boot, turn, routeJobs>>

ForgetRoute(r) ==
  /\ RouteAt(r, "remove", "forget")
  /\ known' = known \ {r}
  /\ Over(r)
  /\ UNCHANGED <<disk, running, mkcert, boot, turn, routeJobs>>

(* The boot. WipeLabelled removes the container, the retry button and       *)
(* ResetInfrastructure start it again.                                      *)
Wipe ==
  /\ boot = "wipe"
  /\ box' = "gone" /\ loaded' = [r \in Routes |-> NoRoute] /\ lapi' = "none"
  /\ boot' = "ensure"
  /\ UNCHANGED <<disk, api, known, mkcert, rjob, turn, routeJobs>>

BootAgain ==
  /\ boot = "off" /\ routeJobs < MaxRouteJobs
  /\ boot' = "wipe" /\ routeJobs' = routeJobs + 1
  /\ UNCHANGED <<disk, running, known, mkcert, rjob, turn>>

(* EnsureRunning: a running router that answers this process is kept, any   *)
(* other container is removed.                                              *)
InspectRouter ==
  /\ boot = "ensure"
  /\ boot' = IF Answers THEN "services" ELSE "glob"
  /\ box' = IF Answers THEN box ELSE "gone"
  /\ loaded' = IF Answers THEN loaded ELSE [r \in Routes |-> NoRoute]
  /\ lapi' = IF Answers THEN lapi ELSE "none"
  /\ UNCHANGED <<disk, api, known, mkcert, rjob, turn, routeJobs>>

(* Mutation of SweepFiles: only the routes of the map are swept.           *)
MutantSweepKnown ==
  /\ boot = "glob"
  /\ rfile' = [r \in Routes |-> IF r \in RoutedSlugs \cap known THEN NoRoute ELSE rfile[r]]
  /\ rtls' = [r \in Routes |-> IF r \in RoutedSlugs \cap known THEN FALSE ELSE rtls[r]]
  /\ stale' = stale \ known /\ boot' = "sweep"
  /\ UNCHANGED <<cert, fits, running, known, mkcert, rjob, turn, routeJobs>>

(* cleanStaleSiteConfigs: the sites' files go, then the sites' map. Files   *)
(* of services stay.                                                        *)
SweepFiles ==
  /\ boot = "glob"
  /\ rfile' = [r \in Routes |-> IF r \in RoutedSlugs THEN NoRoute ELSE rfile[r]]
  /\ rtls' = [r \in Routes |-> IF r \in RoutedSlugs THEN FALSE ELSE rtls[r]]
  /\ stale' = {} /\ boot' = "sweep"
  /\ UNCHANGED <<cert, fits, running, known, mkcert, rjob, turn, routeJobs>>

SweepMap ==
  /\ boot = "sweep"
  /\ known' = known \ RoutedSlugs
  /\ boot' = "config"
  /\ UNCHANGED <<disk, running, mkcert, rjob, turn, routeJobs>>

(* writeStaticConfig and writeAPIConfig. *)
WriteConfig ==
  /\ boot = "config"
  /\ api' = "mine" /\ boot' = "create"
  /\ UNCHANGED <<disk, box, loaded, lapi, known, mkcert, rjob, turn, routeJobs>>

(* createContainer, which fails on a busy port. *)
CreateRouter ==
  /\ boot = "create"
  /\ \/ box' = "up" /\ boot' = "ready"
     \/ "docker" \in RouterFaults /\ boot' = "off" /\ UNCHANGED box
  /\ UNCHANGED <<disk, api, loaded, lapi, known, mkcert, rjob, turn, routeJobs>>

(* waitReady, and its deadline. *)
RouterReady ==
  /\ boot = "ready"
  /\ boot' = IF Answers THEN "services" ELSE "off"
  /\ turn' = 1
  /\ UNCHANGED <<disk, running, known, mkcert, rjob, routeJobs>>

(* BringUpGlobals registers the services one after another and stops at the *)
(* first that fails (BootFails).                                            *)
ServicesIdle == \A r \in Services : rjob[r] = NoRouteJob
UpsertService(r) ==
  /\ boot = "services" /\ turn <= Len(ServiceOrder) /\ r = ServiceOrder[turn] /\ ServicesIdle
  /\ rjob' = [rjob EXCEPT ![r] = [NoRouteJob EXCEPT !.op = "upsert", !.at = "cert", !.want = {Local}]]
  /\ turn' = turn + 1
  /\ UNCHANGED <<disk, running, known, mkcert, boot, routeJobs>>

BootEnds ==
  /\ boot = "services" /\ turn > Len(ServiceOrder) /\ ServicesIdle
  /\ boot' = "off"
  /\ UNCHANGED <<disk, running, known, mkcert, rjob, turn, routeJobs>>

(* The container: its file watcher reads the whole directory at some later  *)
(* moment, and Docker may stop and restart it.                              *)
Watch ==
  /\ box = "up"
  /\ loaded' = rfile /\ lapi' = api
  /\ UNCHANGED <<disk, box, api, known, mkcert, rjob, boot, turn, routeJobs>>

ContainerStops ==
  /\ box = "up" /\ "docker" \in RouterFaults
  /\ box' = "stopped" /\ loaded' = [r \in Routes |-> NoRoute] /\ lapi' = "none"
  /\ UNCHANGED <<disk, api, known, mkcert, rjob, boot, turn, routeJobs>>

(* EnsureBinary downloads a binary of the pinned hash or leaves none;       *)
(* InstallCA, from the banner or from a health action, runs it.             *)
EnsureBinary ==
  /\ mkcert = "none" /\ mkcert' = "binary"
  /\ UNCHANGED <<disk, running, known, rjob, boot, turn, routeJobs>>

InstallCA ==
  /\ mkcert = "binary" /\ mkcert' = "ready"
  /\ UNCHANGED <<disk, running, known, rjob, boot, turn, routeJobs>>

(* The process dies; the next one has a password of its own, an empty map,  *)
(* and finds the files and the certificates.                                *)
ProcessDies ==
  /\ "crash" \in RouterFaults
  /\ known' = {} /\ api' = "old" /\ lapi' = IF lapi = "mine" THEN "old" ELSE lapi
  /\ rjob' = [r \in Routes |-> NoRouteJob] /\ boot' = "wipe"
  /\ stale' = {r \in RoutedSlugs : rfile[r] # NoRoute}
  /\ routeJobs < MaxRouteJobs /\ routeJobs' = routeJobs + 1
  /\ UNCHANGED <<rfile, rtls, cert, fits, box, loaded, mkcert, turn>>

RouteOp(r) ==
  \/ Upsert(r) \/ RemoveSite(r) \/ EnsureCert(r) \/ InstallKey(r) \/ WriteRoute(r) \/ EnterRoute(r)
  \/ RouteSeen(r) \/ RouteTimesOut(r) \/ UnlinkRoute(r) \/ RemoveCert(r) \/ ForgetRoute(r) \/ UpsertService(r)
RouterNext ==
  \/ \E r \in Routes : RouteOp(r)
  \/ Wipe \/ BootAgain \/ InspectRouter \/ SweepFiles \/ SweepMap \/ WriteConfig \/ CreateRouter \/ RouterReady \/ BootEnds
  \/ Watch \/ ContainerStops \/ EnsureBinary \/ InstallCA \/ ProcessDies
RouterSpec == RouterInit /\ [][RouterNext]_routerVars

-----------------------------------------------------------------------------
(* A file that names a certificate always finds on disk one that is valid   *)
(* for the route's own name, whatever crashes, fails or is swept in         *)
(* between: the certificate comes before the file and leaves after it       *)
(* (traefik.go:224-262).                                                    *)
TlsRouteHasItsCert == \A r \in Routes : rtls[r] => rfile[r] # NoRoute /\ Local \in cert[r]

(* Once the boot of this process has swept, every site's file was written   *)
(* by this process: a file a crashed process left would route to a backend  *)
(* that is gone (traefik.go:176-186). A boot that keeps a running router    *)
(* sweeps nothing, so only a router this process made may be kept.          *)
NoStrayRoutes == boot \notin {"wipe", "ensure", "glob"} => stale = {}

(* router.go:28-30: UpsertSite "returns once the new routes are observable  *)
(* via Health". The wait counts routers and is skipped for a route known or *)
(* written before, a retry after a failed wait among them.                  *)
UpsertReturns(r) ==
  /\ rjob[r].op = "upsert" /\ rjob'[r] = NoRouteJob
  /\ rjob[r].at = "enter" \/ (rjob[r].at = "wait" /\ Answers /\ Loaded >= rjob[r].need)
UpsertedIsServed == [][\A r \in RoutedSlugs : UpsertReturns(r) => loaded[r] # NoRoute]_routerVars
=============================================================================
