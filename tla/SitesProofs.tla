----------------------------- MODULE SitesProofs -----------------------------
(***************************************************************************)
(* Proofs about what the site manager keeps beside its lifecycle: the      *)
(* certificates and the swept files of the router, for any sites, services *)
(* and faults; the order in which worktree creation, clone and delete take *)
(* the sites' mutexes, and the uncommitted work they leave alone, for any  *)
(* sites and clients; what a site's database is found in after a restore,  *)
(* an import or an engine migration; the files the user made his own; the  *)
(* hooks of a site and what their runs report.                             *)
(***************************************************************************)
EXTENDS SiteTree, Traefik, SiteData, ManagedFiles, Hooks, FiniteSetTheorems, TLAPS

-----------------------------------------------------------------------------
(* The router.                                                             *)

(* What a route's operation has established by the time it gets there.     *)
RouteJobOK(r) ==
  /\ rjob[r].op = "upsert" => Local \in rjob[r].want
  /\ RouteAt(r, "upsert", "key") \/ (RouteAt(r, "upsert", "write") /\ rjob[r].tls)
       => Local \in cert[r]
  /\ RouteAt(r, "remove", "uncert") => ~rtls[r]

Hosts == SUBSET ({Local} \cup LanHosts)
Needs == {ExpectedRouterCount(k) : k \in SUBSET Routes} \cup {0}
RouteJobs == [op : {"none", "upsert", "remove"}, at : RouteSteps, want : Hosts, tls : BOOLEAN,
              was : BOOLEAN, need : Needs]

CertInv ==
  /\ rfile \in [Routes -> Hosts] /\ cert \in [Routes -> Hosts]
  /\ rtls \in [Routes -> BOOLEAN] /\ known \subseteq Routes
  /\ rjob \in [Routes -> RouteJobs]
  /\ \A r \in Routes : RouteJobOK(r)
  /\ TlsRouteHasItsCert

LEMMA CertInvInit == RouterInit => CertInv
  BY DEF RouterInit, CertInv, RouteJobOK, RouteAt, TlsRouteHasItsCert, NoRoute, NoRouteJob, RouteSteps,
         RouteJobs, Hosts, Needs

(* A step of the operation on one route leaves the others as they are.     *)
LEMMA CertStep ==
  ASSUME CertInv, NEW r \in Routes, NEW f \in Hosts, NEW c \in Hosts, NEW t \in BOOLEAN,
         NEW j \in RouteJobs, known' \subseteq Routes,
         rfile' = [rfile EXCEPT ![r] = f], cert' = [cert EXCEPT ![r] = c],
         rtls' = [rtls EXCEPT ![r] = t], rjob' = [rjob EXCEPT ![r] = j],
         t => f # NoRoute /\ Local \in c,
         j.op = "upsert" => Local \in j.want,
         j.op = "upsert" /\ (j.at = "key" \/ (j.at = "write" /\ j.tls)) => Local \in c,
         j.op = "remove" /\ j.at = "uncert" => ~t
  PROVE  CertInv'
<1>1. /\ rfile' \in [Routes -> Hosts] /\ cert' \in [Routes -> Hosts]
      /\ rtls' \in [Routes -> BOOLEAN] /\ rjob' \in [Routes -> RouteJobs]
  BY DEF CertInv
<1>2. /\ rfile'[r] = f /\ cert'[r] = c /\ rtls'[r] = t /\ rjob'[r] = j
      /\ \A q \in Routes \ {r} : /\ rfile'[q] = rfile[q] /\ cert'[q] = cert[q]
                                 /\ rtls'[q] = rtls[q] /\ rjob'[q] = rjob[q]
  BY DEF CertInv
<1>3. \A q \in Routes : RouteJobOK(q)'
  BY <1>2 DEF CertInv, RouteJobOK, RouteAt
<1>4. TlsRouteHasItsCert'
  BY <1>2 DEF CertInv, TlsRouteHasItsCert
<1> QED
  BY <1>1, <1>3, <1>4 DEF CertInv

(* The steps that change the operation alone.                              *)
LEMMA CertJobStep ==
  ASSUME CertInv, NEW r \in Routes, NEW j \in RouteJobs, known' \subseteq Routes,
         UNCHANGED <<rfile, cert, rtls>>, rjob' = [rjob EXCEPT ![r] = j],
         j.op = "upsert" => Local \in j.want,
         j.op = "upsert" /\ (j.at = "key" \/ (j.at = "write" /\ j.tls)) => Local \in cert[r],
         j.op = "remove" /\ j.at = "uncert" => ~rtls[r]
  PROVE  CertInv'
<1>1. /\ rfile' = [rfile EXCEPT ![r] = rfile[r]] /\ cert' = [cert EXCEPT ![r] = cert[r]]
      /\ rtls' = [rtls EXCEPT ![r] = rtls[r]]
      /\ rfile[r] \in Hosts /\ cert[r] \in Hosts /\ rtls[r] \in BOOLEAN
  BY DEF CertInv
<1>2. rtls[r] => rfile[r] # NoRoute /\ Local \in cert[r]
  BY DEF CertInv, TlsRouteHasItsCert
<1> QED
  BY <1>1, <1>2, CertStep

LEMMA CertRouteOp ==
  ASSUME CertInv, NEW r \in Routes, RouteOp(r) PROVE CertInv'
<1>1. /\ rjob[r] \in RouteJobs /\ RouteJobOK(r) /\ known \subseteq Routes
      /\ rfile[r] \in Hosts /\ cert[r] \in Hosts /\ rtls[r] \in BOOLEAN
      /\ rtls[r] => rfile[r] # NoRoute /\ Local \in cert[r]
  BY DEF CertInv, TlsRouteHasItsCert
<1>2. \A h \in Wanted(r) : h \in Hosts /\ Local \in h
  BY DEF Wanted, Hosts
<1>3. NoRouteJob \in RouteJobs /\ NoRouteJob.op = "none"
  BY DEF NoRouteJob, RouteJobs, RouteSteps, Hosts, Needs
<1>4. CASE Over(r) /\ UNCHANGED <<rfile, cert, rtls>> /\ known' \subseteq Routes
  BY <1>3, <1>4, CertJobStep DEF Over
<1>5. ASSUME NEW h \in Wanted(r), UNCHANGED <<rfile, cert, rtls, known>>,
             rjob' = [rjob EXCEPT ![r] = [NoRouteJob EXCEPT !.op = "upsert", !.at = "cert", !.want = h]]
      PROVE  CertInv'
  <2> DEFINE j == [NoRouteJob EXCEPT !.op = "upsert", !.at = "cert", !.want = h]
  <2>1. j \in RouteJobs /\ j.op = "upsert" /\ j.at = "cert" /\ j.want = h
    BY <1>2 DEF NoRouteJob, RouteJobs, RouteSteps, Hosts, Needs
  <2> QED
    BY <1>1, <1>2, <1>5, <2>1, CertJobStep
<1>6. CASE Upsert(r) \/ UpsertService(r)
  <2>2. CASE Upsert(r)
    BY <1>5, <2>2 DEF Upsert, disk
  <2>3. CASE UpsertService(r)
    <3>1. {Local} \in Wanted(r)
      <4>1. {Local} = {Local} \cup {} /\ {} \in SUBSET LanHosts /\ {} \in {{}}
        OBVIOUS
      <4> QED
        BY <4>1 DEF Wanted
    <3> QED
      BY <1>5, <2>3, <3>1 DEF UpsertService, disk
  <2> QED
    BY <1>6, <2>2, <2>3
<1>7. CASE RemoveSite(r)
  <2> DEFINE j == [NoRouteJob EXCEPT !.op = "remove", !.at = "unlink"]
  <2>1. j \in RouteJobs /\ j.op = "remove" /\ j.at = "unlink"
    BY DEF NoRouteJob, RouteJobs, RouteSteps, Hosts, Needs
  <2>2. rjob' = [rjob EXCEPT ![r] = j] /\ UNCHANGED <<rfile, cert, rtls, known>>
    BY <1>7 DEF RemoveSite, disk
  <2> QED
    BY <1>1, <2>1, <2>2, CertJobStep
<1>8. ASSUME NEW tls \in BOOLEAN, NEW c \in Hosts, Render(r, tls), UNCHANGED <<rfile, rtls, known>>,
             cert' = [cert EXCEPT ![r] = c], rjob[r].op = "upsert",
             Local \in cert[r] \/ tls => Local \in c
      PROVE  CertInv'
  <2> DEFINE j == [rjob[r] EXCEPT !.at = "write", !.tls = tls, !.was = rfile[r] # NoRoute]
  <2>1. (rfile[r] # NoRoute) \in BOOLEAN
    OBVIOUS
  <2>2. /\ j \in RouteJobs /\ j.op = "upsert" /\ j.at = "write" /\ j.tls = tls
        /\ j.want = rjob[r].want
    BY <1>1, <1>8, <2>1 DEF RouteJobs, RouteSteps
  <2>3. rjob' = [rjob EXCEPT ![r] = j]
    BY <1>8 DEF Render
  <2>4. Local \in rjob[r].want
    BY <1>1, <1>8 DEF RouteJobOK
  <2>5. rfile' = [rfile EXCEPT ![r] = rfile[r]] /\ rtls' = [rtls EXCEPT ![r] = rtls[r]]
    BY <1>8 DEF CertInv
  <2> QED
    <3>1. /\ rtls[r] => rfile[r] # NoRoute /\ Local \in c
          /\ j.op = "upsert" => Local \in j.want
          /\ j.op = "upsert" /\ (j.at = "key" \/ (j.at = "write" /\ j.tls)) => Local \in c
          /\ j.op # "remove" /\ known' \subseteq Routes
      BY <1>1, <1>8, <2>2, <2>4
    <3>2. j \in RouteJobs /\ rfile[r] \in Hosts /\ rtls[r] \in BOOLEAN
      BY <1>1, <2>2
    <3> HIDE DEF j
    <3> QED
      BY <1>8, <2>3, <2>5, <3>1, <3>2, CertStep
<1>9. ASSUME NEW at \in RouteSteps, RouteStep(r, at)
      PROVE  \E j \in RouteJobs : /\ rjob' = [rjob EXCEPT ![r] = j] /\ j.at = at
                                   /\ j.op = rjob[r].op /\ j.want = rjob[r].want /\ j.tls = rjob[r].tls
  <2> DEFINE j == [rjob[r] EXCEPT !.at = at]
  <2>1. rjob' = [rjob EXCEPT ![r] = j]
    BY <1>9 DEF RouteStep
  <2>2. j \in RouteJobs /\ j.at = at /\ j.op = rjob[r].op /\ j.want = rjob[r].want /\ j.tls = rjob[r].tls
    BY <1>1 DEF RouteJobs
  <2> QED
    BY <2>1, <2>2
<1>10. CASE EnsureCert(r)
  <2>1. rjob[r].op = "upsert" /\ Local \in rjob[r].want /\ UNCHANGED <<rfile, rtls, known>>
    BY <1>1, <1>10 DEF EnsureCert, RouteAt, RouteJobOK, disk
  <2>2. CASE Covers(r) /\ Render(r, TRUE) /\ UNCHANGED disk
    <3>1. Local \in cert[r] /\ cert' = [cert EXCEPT ![r] = cert[r]]
      BY <2>1, <2>2 DEF Covers, disk, CertInv
    <3> QED
      BY <1>1, <1>8, <2>1, <2>2, <3>1
  <2>3. CASE cert' = [cert EXCEPT ![r] = rjob[r].want] /\ RouteStep(r, "key")
    <3>1. PICK j \in RouteJobs : /\ rjob' = [rjob EXCEPT ![r] = j] /\ j.at = "key" /\ j.op = "upsert"
                                 /\ j.want = rjob[r].want
      BY <1>9, <2>1, <2>3 DEF RouteSteps
    <3>2. rfile' = [rfile EXCEPT ![r] = rfile[r]] /\ rtls' = [rtls EXCEPT ![r] = rtls[r]]
      BY <2>1 DEF CertInv
    <3>3. rjob[r].want \in Hosts
      BY <1>1 DEF RouteJobs
    <3> QED
      BY <1>1, <2>1, <2>3, <3>1, <3>2, <3>3, CertStep
  <2>4. CASE Render(r, FALSE) /\ UNCHANGED disk
    <3>1. cert' = [cert EXCEPT ![r] = cert[r]]
      BY <2>4 DEF disk, CertInv
    <3> QED
      BY <1>1, <1>8, <2>1, <2>4, <3>1
  <2> QED
    BY <1>10, <2>2, <2>3, <2>4 DEF EnsureCert
<1>11. CASE InstallKey(r)
  <2>1. /\ rjob[r].op = "upsert" /\ Local \in cert[r] /\ UNCHANGED <<rfile, rtls, cert, known>>
        /\ Render(r, TRUE) \/ Render(r, FALSE)
    BY <1>1, <1>11 DEF InstallKey, RouteAt, RouteJobOK
  <2>2. cert' = [cert EXCEPT ![r] = cert[r]]
    BY <2>1 DEF CertInv
  <2> QED
    BY <1>1, <1>8, <2>1, <2>2
<1>12. CASE WriteRoute(r)
  <2>1. /\ rjob[r].op = "upsert" /\ rjob[r].at = "write" /\ UNCHANGED <<cert, known>>
        /\ Local \in rjob[r].want /\ (rjob[r].tls => Local \in cert[r])
    BY <1>1, <1>12 DEF WriteRoute, RouteAt, RouteJobOK
  <2>2. CASE Over(r) /\ UNCHANGED <<rfile, rtls>>
    BY <1>1, <1>4, <2>1, <2>2
  <2>3. CASE /\ rfile' = [rfile EXCEPT ![r] = rjob[r].want] /\ rtls' = [rtls EXCEPT ![r] = rjob[r].tls]
             /\ RouteStep(r, "enter")
    <3>1. PICK j \in RouteJobs : /\ rjob' = [rjob EXCEPT ![r] = j] /\ j.at = "enter" /\ j.op = "upsert"
                                 /\ j.want = rjob[r].want
      BY <1>9, <2>1, <2>3 DEF RouteSteps
    <3>2. cert' = [cert EXCEPT ![r] = cert[r]] /\ rjob[r].want \in Hosts /\ rjob[r].tls \in BOOLEAN
      BY <1>1, <2>1 DEF CertInv, RouteJobs
    <3>3. rjob[r].want # NoRoute
      BY <2>1 DEF NoRoute
    <3> QED
      BY <1>1, <2>1, <2>3, <3>1, <3>2, <3>3, CertStep
  <2> QED
    BY <1>12, <2>2, <2>3 DEF WriteRoute
<1>13. CASE EnterRoute(r)
  <2>1. /\ rjob[r].op = "upsert" /\ Local \in rjob[r].want /\ UNCHANGED <<rfile, rtls, cert>>
        /\ known' = known \cup {r}
    BY <1>1, <1>13 DEF EnterRoute, RouteAt, RouteJobOK, disk
  <2>2. CASE Over(r)
    BY <1>1, <1>4, <2>1, <2>2
  <2>3. CASE rjob' = [rjob EXCEPT ![r].at = "wait", ![r].need = ExpectedRouterCount(known')]
    <3> DEFINE n == ExpectedRouterCount(known')
               j == [rjob[r] EXCEPT !.at = "wait", !.need = n]
    <3>1. n \in Needs
      BY <1>1, <2>1 DEF Needs
    <3>2. rjob' = [rjob EXCEPT ![r] = j]
      BY <2>3
    <3> HIDE DEF n
    <3>3. j \in RouteJobs /\ j.at = "wait" /\ j.op = "upsert" /\ j.want = rjob[r].want
      BY <1>1, <2>1, <3>1 DEF RouteJobs, RouteSteps
    <3> QED
      BY <1>1, <2>1, <3>2, <3>3, CertJobStep
  <2> QED
    BY <1>13, <2>2, <2>3 DEF EnterRoute
<1>14. CASE RouteSeen(r) \/ RouteTimesOut(r)
  BY <1>1, <1>4, <1>14 DEF RouteSeen, RouteTimesOut, disk
<1>15. CASE UnlinkRoute(r)
  <2>1. rjob[r].op = "remove" /\ UNCHANGED <<cert, known>>
    BY <1>15 DEF UnlinkRoute, RouteAt
  <2>2. CASE Over(r) /\ UNCHANGED <<rfile, rtls>>
    BY <1>1, <1>4, <2>1, <2>2
  <2>3. CASE /\ rfile' = [rfile EXCEPT ![r] = NoRoute] /\ rtls' = [rtls EXCEPT ![r] = FALSE]
             /\ RouteStep(r, "uncert")
    <3>1. PICK j \in RouteJobs : rjob' = [rjob EXCEPT ![r] = j] /\ j.op = "remove"
      BY <1>9, <2>1, <2>3 DEF RouteSteps
    <3>2. cert' = [cert EXCEPT ![r] = cert[r]] /\ NoRoute \in Hosts
      BY <2>1 DEF CertInv, Hosts, NoRoute
    <3> QED
      BY <1>1, <2>1, <2>3, <3>1, <3>2, CertStep
  <2> QED
    BY <1>15, <2>2, <2>3 DEF UnlinkRoute
<1>16. CASE RemoveCert(r)
  <2>1. rjob[r].op = "remove" /\ UNCHANGED <<rfile, rtls, known>> /\ ~rtls[r] /\ RouteStep(r, "forget")
    BY <1>1, <1>16 DEF RemoveCert, RouteAt, RouteJobOK
  <2>2. PICK j \in RouteJobs : rjob' = [rjob EXCEPT ![r] = j] /\ j.op = "remove"
    BY <1>9, <2>1 DEF RouteSteps
  <2>3. PICK c \in Hosts : cert' = [cert EXCEPT ![r] = c]
    <3>1. CASE cert' = cert
      BY <1>1, <3>1 DEF CertInv
    <3>2. CASE cert' = [cert EXCEPT ![r] = NoRoute]
      BY <3>2 DEF Hosts, NoRoute
    <3> QED
      BY <1>16, <3>1, <3>2 DEF RemoveCert
  <2>4. rfile' = [rfile EXCEPT ![r] = rfile[r]] /\ rtls' = [rtls EXCEPT ![r] = FALSE]
    BY <2>1 DEF CertInv
  <2> QED
    BY <1>1, <2>1, <2>2, <2>3, <2>4, CertStep
<1>17. CASE ForgetRoute(r)
  BY <1>1, <1>4, <1>17 DEF ForgetRoute, disk
<1> QED
  BY <1>6, <1>7, <1>10, <1>11, <1>12, <1>13, <1>14, <1>15, <1>16, <1>17 DEF RouteOp

(* The steps of the boot, of the container and of mkcert, for the          *)
(* certificates.                                                           *)
LEMMA CertOtherStep ==
  ASSUME CertInv, known' \subseteq Routes, UNCHANGED <<rfile, cert, rtls, rjob>>
  PROVE  CertInv'
BY DEF CertInv, RouteJobOK, RouteAt, TlsRouteHasItsCert

LEMMA CertInvStep == CertInv /\ [RouterNext]_routerVars => CertInv'
<1> SUFFICES ASSUME CertInv, [RouterNext]_routerVars PROVE CertInv'
  OBVIOUS
<1>1. ASSUME NEW r \in Routes, RouteOp(r) PROVE CertInv'
  BY <1>1, CertRouteOp
<1>2. CASE SweepFiles
  <2>1. /\ rfile' = [r \in Routes |-> IF r \in RoutedSlugs THEN NoRoute ELSE rfile[r]]
        /\ rtls' = [r \in Routes |-> IF r \in RoutedSlugs THEN FALSE ELSE rtls[r]]
        /\ UNCHANGED <<cert, known, rjob>>
    BY <1>2 DEF SweepFiles
  <2>2. rfile' \in [Routes -> Hosts] /\ rtls' \in [Routes -> BOOLEAN]
    BY <2>1 DEF CertInv, Hosts, NoRoute
  <2>3. \A r \in Routes : rtls'[r] => rtls[r] /\ rfile'[r] = rfile[r]
    BY <2>1
  <2>4. TlsRouteHasItsCert'
    BY <2>1, <2>3 DEF CertInv, TlsRouteHasItsCert
  <2>5. \A r \in Routes : RouteJobOK(r)'
    BY <2>1, <2>3 DEF CertInv, RouteJobOK, RouteAt
  <2> QED
    BY <2>1, <2>2, <2>4, <2>5 DEF CertInv
<1>3. CASE Wipe \/ BootAgain \/ InspectRouter \/ SweepMap \/ WriteConfig \/ CreateRouter \/ RouterReady
           \/ BootEnds \/ Watch \/ ContainerStops \/ EnsureBinary \/ InstallCA
  <2>1. known' \subseteq known /\ UNCHANGED <<rfile, cert, rtls, rjob>>
    BY <1>3 DEF Wipe, BootAgain, InspectRouter, SweepMap, WriteConfig, CreateRouter, RouterReady,
                BootEnds, Watch, ContainerStops, EnsureBinary, InstallCA, disk
  <2> QED
    BY <2>1, CertOtherStep DEF CertInv
<1>4. CASE ProcessDies
  <2>1. known' = {} /\ rjob' = [r \in Routes |-> NoRouteJob] /\ UNCHANGED <<rfile, cert, rtls>>
    BY <1>4 DEF ProcessDies
  <2>2. rjob' \in [Routes -> RouteJobs]
    BY <2>1 DEF NoRouteJob, RouteJobs, RouteSteps, Hosts, Needs
  <2>3. \A r \in Routes : RouteJobOK(r)'
    BY <2>1 DEF RouteJobOK, RouteAt, NoRouteJob
  <2> QED
    BY <2>1, <2>2, <2>3 DEF CertInv, TlsRouteHasItsCert
<1>5. CASE UNCHANGED routerVars
  BY <1>5, CertOtherStep DEF routerVars, CertInv
<1> QED
  BY <1>1, <1>2, <1>3, <1>4, <1>5 DEF RouterNext

(* A file that names a certificate finds one for the route's own name on   *)
(* disk, for any routes, faults and crashes (ensureCert, UpsertSite,       *)
(* RemoveSite, cleanStaleSiteConfigs).                                     *)
THEOREM CertificatesOutliveFiles == RouterSpec => []TlsRouteHasItsCert
<1>1. CertInv => TlsRouteHasItsCert
  BY DEF CertInv
<1> QED
  BY <1>1, CertInvInit, CertInvStep, PTL DEF RouterSpec

-----------------------------------------------------------------------------
Busy(r) == rjob[r] # NoRouteJob

(* Files of an earlier process are gone once this process has written its  *)
(* password: a router that answers to it was made after the sweep.  Only   *)
(* the boot operates on services, one at a time.                           *)
StrayInv ==
  /\ DOMAIN rjob = Routes
  /\ boot \notin {"wipe", "ensure", "glob"} \/ api = "mine" \/ lapi = "mine" => stale = {}
  /\ \A r \in Services : Busy(r) => boot = "services"
  /\ \A r, q \in Services : Busy(r) /\ Busy(q) => r = q

LEMMA StrayRouteOp ==
  ASSUME StrayInv, NEW r \in Routes, RouteOp(r) PROVE StrayInv'
<1>1. /\ stale' \subseteq stale /\ UNCHANGED <<api, lapi>>
      /\ boot' = boot \/ (boot' = "off" /\ r \in Services /\ Busy(r) /\ rjob' = [rjob EXCEPT ![r] = NoRouteJob])
      /\ \E j : rjob' = [rjob EXCEPT ![r] = j]
      /\ ~Busy(r) /\ r \in Services => boot = "services" /\ boot' = boot /\ \A q \in Services : ~Busy(q)
  <2>1. CASE Upsert(r) \/ RemoveSite(r)
    BY <2>1, RouterAssumption DEF Upsert, RemoveSite, disk, running, Busy
  <2>2. CASE UpsertService(r)
    BY <2>2 DEF UpsertService, disk, running, ServicesIdle, Busy
  <2>3. \A op \in {"upsert", "remove"}, at \in RouteSteps : RouteAt(r, op, at) => Busy(r)
    BY DEF RouteAt, Busy, NoRouteJob
  <2>4. CASE EnsureCert(r)
    BY <2>3, <2>4 DEF EnsureCert, Render, RouteStep, disk, running, RouteSteps
  <2>5. CASE InstallKey(r)
    BY <2>3, <2>5 DEF InstallKey, Render, running, RouteSteps
  <2>6. CASE WriteRoute(r)
    BY <2>3, <2>6 DEF WriteRoute, RouteStep, running, RouteSteps, Over, BootFails
  <2>7. CASE EnterRoute(r)
    BY <2>3, <2>7 DEF EnterRoute, disk, running, RouteSteps, Over
  <2>8. CASE RouteSeen(r) \/ RouteTimesOut(r)
    BY <2>3, <2>8 DEF RouteSeen, RouteTimesOut, disk, running, RouteSteps, Over, BootFails
  <2>9. CASE UnlinkRoute(r)
    BY <2>3, <2>9 DEF UnlinkRoute, RouteStep, running, RouteSteps, Over
  <2>10. CASE RemoveCert(r) \/ ForgetRoute(r)
    BY <2>3, <2>10 DEF RemoveCert, ForgetRoute, RouteStep, disk, running, RouteSteps, Over
  <2> QED
    BY <2>1, <2>2, <2>4, <2>5, <2>6, <2>7, <2>8, <2>9, <2>10 DEF RouteOp
<1>2. \A q \in Routes \ {r} : rjob'[q] = rjob[q]
  BY <1>1 DEF StrayInv
<1>3. \A q \in Services : q \in Routes
  BY DEF Routes
<1>4. \A q \in Services : Busy(q)' => q = r \/ Busy(q)
  BY <1>2, <1>3 DEF Busy
<1>5. CASE boot' = boot
  BY <1>1, <1>4, <1>5 DEF StrayInv
<1>6. CASE boot' # boot
  <2>1. ~Busy(r)' /\ stale = {}
    BY <1>1, <1>6 DEF StrayInv, Busy
  <2> QED
    BY <1>1, <1>4, <1>6, <2>1 DEF StrayInv
<1> QED
  BY <1>5, <1>6

LEMMA StrayInvStep == StrayInv /\ [RouterNext]_routerVars => StrayInv'
<1> SUFFICES ASSUME StrayInv, [RouterNext]_routerVars PROVE StrayInv'
  OBVIOUS
<1>1. ASSUME NEW r \in Routes, RouteOp(r) PROVE StrayInv'
  BY <1>1, StrayRouteOp
<1>2. CASE Wipe \/ InspectRouter
  BY <1>2 DEF Wipe, InspectRouter, Answers, StrayInv, Busy, disk
<1>3. CASE BootAgain
  BY <1>3 DEF BootAgain, StrayInv, Busy, disk, running
<1>4. CASE SweepFiles \/ SweepMap
  BY <1>4 DEF SweepFiles, SweepMap, StrayInv, Busy, disk, running
<1>5. CASE WriteConfig \/ CreateRouter
  BY <1>5 DEF WriteConfig, CreateRouter, StrayInv, Busy, disk
<1>6. CASE RouterReady \/ BootEnds
  BY <1>6 DEF RouterReady, BootEnds, ServicesIdle, StrayInv, Busy, disk, running
<1>7. CASE Watch \/ ContainerStops
  BY <1>7 DEF Watch, ContainerStops, StrayInv, Busy, disk
<1>8. CASE EnsureBinary \/ InstallCA
  BY <1>8 DEF EnsureBinary, InstallCA, StrayInv, Busy, disk, running
<1>9. CASE ProcessDies
  <2>1. \A r \in Services : ~Busy(r)' /\ r \in Routes
    BY <1>9 DEF ProcessDies, Busy, Routes
  <2> QED
    BY <1>9, <2>1 DEF ProcessDies, StrayInv
<1>10. CASE UNCHANGED routerVars
  BY <1>10 DEF routerVars, StrayInv, Busy
<1> QED
  BY <1>1, <1>2, <1>3, <1>4, <1>5, <1>6, <1>7, <1>8, <1>9, <1>10 DEF RouterNext

(* Once the boot has swept, no site's file is one that an earlier process  *)
(* wrote, for any sites, services and crashes (EnsureRunning,              *)
(* cleanStaleSiteConfigs, writeAPIConfig).                                 *)
THEOREM SweptRoutesAreOurs == RouterSpec => []NoStrayRoutes
<1>1. RouterInit => StrayInv
  BY DEF RouterInit, StrayInv, Busy, Routes
<1>2. StrayInv => NoStrayRoutes
  BY DEF StrayInv, NoStrayRoutes
<1> QED
  BY <1>1, <1>2, StrayInvStep, PTL DEF RouterSpec

-----------------------------------------------------------------------------
(* What a file, a certificate and the router list is what some operation   *)
(* on a route asked for; a count waited for is no more than all routes'.   *)
Requested == HostSets(Routes)
HostsAsked ==
  /\ \A r \in Routes : rfile[r] \in Requested /\ cert[r] \in Requested /\ rjob[r].want \in Requested
  /\ loaded \in [Routes -> Requested]
BootPhases == {"off", "wipe", "ensure", "glob", "sweep", "config", "create", "ready", "services"}
BootTyped ==
  /\ fits \in [Routes -> BOOLEAN] /\ box \in {"gone", "stopped", "up"} /\ api \in {"mine", "old"}
  /\ lapi \in {"mine", "old", "none"} /\ mkcert \in {"none", "binary", "ready"}
  /\ boot \in BootPhases /\ turn \in 1..(Len(ServiceOrder) + 1)
  /\ stale \subseteq RoutedSlugs /\ routeJobs \in 0..MaxRouteJobs

LEMMA RoutesAreFinite ==
  /\ IsFiniteSet(Routes) /\ Cardinality(Routes) \in Nat
  /\ Len(ServiceOrder) \in Nat
  /\ Needs \subseteq 0..(1 + Cardinality(Routes))
<1>1. ServiceOrder \in Seq(Services) /\ IsFiniteSet(RoutedSlugs)
  BY RouterAssumption
<1>2. Len(ServiceOrder) \in Nat /\ DOMAIN ServiceOrder = 1..Len(ServiceOrder)
  BY <1>1
<1>3. ServiceOrder \in Surjection(DOMAIN ServiceOrder, Services)
  <2>1. ServiceOrder \in [DOMAIN ServiceOrder -> Services]
    BY <1>1
  <2> QED
    BY <2>1 DEF Surjection, Services
<1>4. IsFiniteSet(DOMAIN ServiceOrder)
  BY <1>2, FS_Interval
<1>5. IsFiniteSet(Services)
  BY <1>3, <1>4, FS_Surjection
<1>6. IsFiniteSet(Routes) /\ Cardinality(Routes) \in Nat
  BY <1>1, <1>5, FS_Union, FS_CardinalityType DEF Routes
<1>7. ASSUME NEW k \in SUBSET Routes PROVE ExpectedRouterCount(k) \in 0..(1 + Cardinality(Routes))
  <2>1. Cardinality(k) \in Nat /\ Cardinality(k) <= Cardinality(Routes)
    BY <1>6, FS_Subset, FS_CardinalityType
  <2> QED
    BY <1>6, <2>1 DEF ExpectedRouterCount
<1> QED
  BY <1>2, <1>6, <1>7 DEF Needs

LEMMA HostSetsAsked ==
  /\ NoRoute \in Requested /\ \A r \in Routes : Wanted(r) \subseteq Requested /\ {Local} \in Wanted(r)
<1>1. \A r \in Routes : Wanted(r) \subseteq Requested
  BY DEF Requested, HostSets
<1>2. \A r \in Routes : {Local} \in Wanted(r)
  <2>1. {Local} = {Local} \cup {} /\ {} \in SUBSET LanHosts /\ {} \in {{}}
    OBVIOUS
  <2> QED
    BY <2>1 DEF Wanted
<1>3. NoRoute \in Requested
  BY Zenon DEF Requested, HostSets
<1> QED
  BY <1>1, <1>2, <1>3, Zenon

(* An operation on one route writes what it was asked for, or nothing.     *)
LEMMA HostsStep ==
  ASSUME CertInv, HostsAsked, NEW r \in Routes, RouteOp(r)
  PROVE  HostsAsked'
<1> DEFINE Moved == \E j : /\ rjob' = [rjob EXCEPT ![r] = j]
                           /\ j.want \in Wanted(r) \cup {rjob[r].want, NoRoute}
<1>0. /\ DOMAIN rfile = Routes /\ DOMAIN cert = Routes /\ DOMAIN rjob = Routes
      /\ \A q \in Routes : rjob[q] \in RouteJobs
  BY DEF CertInv
<1>1. UNCHANGED loaded
  BY DEF RouteOp, Upsert, UpsertService, RemoveSite, EnsureCert, InstallKey, WriteRoute, EnterRoute,
         RouteSeen, RouteTimesOut, UnlinkRoute, RemoveCert, ForgetRoute, running
<1>2. /\ rfile' \in {rfile, [rfile EXCEPT ![r] = rjob[r].want], [rfile EXCEPT ![r] = NoRoute]}
      /\ cert' \in {cert, [cert EXCEPT ![r] = rjob[r].want], [cert EXCEPT ![r] = NoRoute]}
  BY DEF RouteOp, Upsert, UpsertService, RemoveSite, EnsureCert, InstallKey, WriteRoute, EnterRoute,
         RouteSeen, RouteTimesOut, UnlinkRoute, RemoveCert, ForgetRoute, disk
<1>3. Moved
  <2>1. CASE Upsert(r) \/ UpsertService(r) \/ RemoveSite(r)
    BY <2>1, HostSetsAsked DEF Upsert, UpsertService, RemoveSite, NoRouteJob, NoRoute
  <2>2. ASSUME NEW at, RouteStep(r, at) PROVE Moved
    <3>1. [rjob[r] EXCEPT !.at = at].want = rjob[r].want
      BY <1>0 DEF RouteJobs
    <3> QED
      BY <2>2, <3>1 DEF RouteStep
  <2>3. ASSUME NEW tls, Render(r, tls) PROVE Moved
    <3> DEFINE j == [rjob[r] EXCEPT !.at = "write", !.tls = tls, !.was = rfile[r] # NoRoute]
    <3>1. j.want = rjob[r].want
      BY <1>0 DEF RouteJobs
    <3>2. rjob' = [rjob EXCEPT ![r] = j]
      BY <2>3 DEF Render
    <3> HIDE DEF j
    <3> QED
      BY <3>1, <3>2
  <2>4. CASE Over(r)
    <3>1. NoRouteJob.want = NoRoute
      BY DEF NoRouteJob, NoRoute
    <3> QED
      BY <2>4, <3>1 DEF Over
  <2>5. ASSUME NEW n, rjob' = [rjob EXCEPT ![r].at = "wait", ![r].need = n] PROVE Moved
    <3> DEFINE j == [rjob[r] EXCEPT !.at = "wait", !.need = n]
    <3>1. j.want = rjob[r].want
      BY <1>0 DEF RouteJobs
    <3>2. rjob' = [rjob EXCEPT ![r] = j]
      BY <2>5
    <3> HIDE DEF j
    <3> QED
      BY <3>1, <3>2
  <2>6. CASE EnsureCert(r) \/ InstallKey(r) \/ WriteRoute(r) \/ UnlinkRoute(r) \/ RemoveCert(r)
    BY <2>2, <2>3, <2>4, <2>6 DEF EnsureCert, InstallKey, WriteRoute, UnlinkRoute, RemoveCert
  <2>7. CASE EnterRoute(r) \/ RouteSeen(r) \/ RouteTimesOut(r) \/ ForgetRoute(r)
    BY <2>4, <2>5, <2>7 DEF EnterRoute, RouteSeen, RouteTimesOut, ForgetRoute
  <2> QED
    BY <2>1, <2>6, <2>7 DEF RouteOp
<1>4. rjob[r].want \in Requested /\ NoRoute \in Requested /\ Wanted(r) \subseteq Requested
  BY HostSetsAsked DEF HostsAsked
<1>5. ASSUME NEW q \in Routes PROVE rfile'[q] \in Requested /\ cert'[q] \in Requested /\ rjob'[q].want \in Requested
  <2>1. rfile[q] \in Requested /\ cert[q] \in Requested /\ rjob[q].want \in Requested
    BY DEF HostsAsked
  <2>2. rfile'[q] \in Requested /\ cert'[q] \in Requested
    BY <1>0, <1>2, <1>4, <2>1
  <2>3. rjob'[q].want \in Requested
    BY <1>0, <1>3, <1>4, <2>1
  <2> QED
    BY <2>2, <2>3
<1> QED
  BY <1>1, <1>5 DEF HostsAsked, Requested

LEMMA BootTypedOp ==
  ASSUME BootTyped, NEW r \in Routes, RouteOp(r)
  PROVE  BootTyped'
<1>0. routeJobs \in Nat /\ MaxRouteJobs \in Nat /\ turn \in Nat /\ Len(ServiceOrder) \in Nat
  BY RouterAssumption, RoutesAreFinite DEF BootTyped
<1>1. UNCHANGED <<box, api, lapi, mkcert>>
  BY DEF RouteOp, Upsert, UpsertService, RemoveSite, EnsureCert, InstallKey, WriteRoute, EnterRoute,
         RouteSeen, RouteTimesOut, UnlinkRoute, RemoveCert, ForgetRoute, running
<1>2. fits' = fits \/ (\E b \in BOOLEAN : fits' = [fits EXCEPT ![r] = b])
  BY DEF RouteOp, Upsert, UpsertService, RemoveSite, EnsureCert, InstallKey, WriteRoute, EnterRoute,
         RouteSeen, RouteTimesOut, UnlinkRoute, RemoveCert, ForgetRoute, disk
<1>3. boot' \in {boot, "off"} /\ stale' \subseteq stale
  BY DEF RouteOp, Upsert, UpsertService, RemoveSite, EnsureCert, InstallKey, WriteRoute, EnterRoute,
         RouteSeen, RouteTimesOut, UnlinkRoute, RemoveCert, ForgetRoute, disk, BootFails
<1>4. turn' = turn \/ (turn <= Len(ServiceOrder) /\ turn' = turn + 1)
  BY DEF RouteOp, Upsert, UpsertService, RemoveSite, EnsureCert, InstallKey, WriteRoute, EnterRoute,
         RouteSeen, RouteTimesOut, UnlinkRoute, RemoveCert, ForgetRoute
<1>5. routeJobs' = routeJobs \/ (routeJobs < MaxRouteJobs /\ routeJobs' = routeJobs + 1)
  BY DEF RouteOp, Upsert, UpsertService, RemoveSite, EnsureCert, InstallKey, WriteRoute, EnterRoute,
         RouteSeen, RouteTimesOut, UnlinkRoute, RemoveCert, ForgetRoute
<1>6. fits' \in [Routes -> BOOLEAN]
  BY <1>2 DEF BootTyped
<1>7. turn' \in 1..(Len(ServiceOrder) + 1) /\ routeJobs' \in 0..MaxRouteJobs
  BY <1>0, <1>4, <1>5 DEF BootTyped
<1> QED
  BY <1>1, <1>3, <1>6, <1>7 DEF BootTyped, BootPhases

LEMMA BootTypedStep ==
  ASSUME CertInv, HostsAsked, BootTyped, [RouterNext]_routerVars
  PROVE  HostsAsked' /\ BootTyped'
<1>0. routeJobs \in Nat /\ MaxRouteJobs \in Nat /\ 1 \in 1..(Len(ServiceOrder) + 1)
  BY RouterAssumption, RoutesAreFinite DEF BootTyped
<1>1. ASSUME NEW r \in Routes, RouteOp(r) PROVE HostsAsked' /\ BootTyped'
  BY <1>1, HostsStep, BootTypedOp
<1>2. CASE SweepFiles
  <2>1. /\ rfile' = [r \in Routes |-> IF r \in RoutedSlugs THEN NoRoute ELSE rfile[r]]
        /\ UNCHANGED <<cert, fits, rjob, loaded, box, api, lapi, mkcert, turn, routeJobs>>
        /\ stale' = {} /\ boot' = "sweep"
    BY <1>2 DEF SweepFiles, running
  <2>2. HostsAsked'
    BY <2>1, HostSetsAsked DEF HostsAsked, Requested
  <2> QED
    BY <2>1, <2>2 DEF BootTyped, BootPhases
<1>3. CASE Wipe \/ InspectRouter \/ ContainerStops
  <2>1. /\ loaded' = loaded \/ loaded' = [r \in Routes |-> NoRoute]
        /\ UNCHANGED <<rfile, cert, fits, stale, rjob, api, mkcert, turn, routeJobs>>
    BY <1>3 DEF Wipe, InspectRouter, ContainerStops, disk
  <2>2. /\ box' \in {box, "gone", "stopped"} /\ lapi' \in {lapi, "none"}
        /\ boot' \in {boot, "ensure", "services", "glob"}
    BY <1>3 DEF Wipe, InspectRouter, ContainerStops
  <2>3. loaded' \in [Routes -> Requested]
    BY <2>1, HostSetsAsked DEF HostsAsked
  <2> QED
    BY <2>1, <2>2, <2>3 DEF HostsAsked, Requested, BootTyped, BootPhases
<1>4. CASE Watch
  <2>1. loaded' = rfile /\ lapi' = api /\ UNCHANGED <<rfile, cert, fits, stale, box, api, rjob, mkcert, boot, turn, routeJobs>>
    BY <1>4 DEF Watch, disk
  <2>2. loaded' \in [Routes -> Requested]
    BY <2>1 DEF HostsAsked, CertInv
  <2> QED
    BY <2>1, <2>2 DEF HostsAsked, Requested, BootTyped, BootPhases
<1>5. CASE BootAgain \/ SweepMap \/ WriteConfig \/ CreateRouter \/ RouterReady \/ BootEnds \/ EnsureBinary \/ InstallCA
  <2>1. UNCHANGED <<rfile, cert, fits, stale, rjob, loaded, lapi>>
    BY <1>5 DEF BootAgain, SweepMap, WriteConfig, CreateRouter, RouterReady, BootEnds, EnsureBinary, InstallCA,
                disk, running
  <2>2. /\ boot' \in BootPhases /\ box' \in {box, "up"} /\ api' \in {api, "mine"} /\ turn' \in {turn, 1}
        /\ mkcert' \in {mkcert, "binary", "ready"}
    BY <1>5 DEF BootAgain, SweepMap, WriteConfig, CreateRouter, RouterReady, BootEnds, EnsureBinary, InstallCA,
                running, BootTyped, BootPhases
  <2>3. routeJobs' = routeJobs \/ (routeJobs < MaxRouteJobs /\ routeJobs' = routeJobs + 1)
    BY <1>5 DEF BootAgain, SweepMap, WriteConfig, CreateRouter, RouterReady, BootEnds, EnsureBinary, InstallCA
  <2>4. routeJobs' \in 0..MaxRouteJobs
    BY <1>0, <2>3 DEF BootTyped
  <2>5. HostsAsked'
    BY <2>1 DEF HostsAsked, Requested
  <2> QED
    BY <1>0, <2>1, <2>2, <2>4, <2>5 DEF BootTyped
<1>6. CASE ProcessDies
  <2>1. /\ UNCHANGED <<rfile, cert, fits, box, loaded, mkcert, turn>> /\ boot' = "wipe" /\ api' = "old"
        /\ lapi' \in {"old", lapi} /\ rjob' = [r \in Routes |-> NoRouteJob]
        /\ stale' \subseteq RoutedSlugs /\ routeJobs < MaxRouteJobs /\ routeJobs' = routeJobs + 1
    BY <1>6 DEF ProcessDies
  <2>2. routeJobs' \in 0..MaxRouteJobs
    BY <1>0, <2>1
  <2>3. HostsAsked'
    BY <2>1, HostSetsAsked DEF HostsAsked, Requested, NoRouteJob, NoRoute
  <2> QED
    BY <2>1, <2>2, <2>3 DEF BootTyped, BootPhases
<1>7. CASE UNCHANGED routerVars
  BY <1>7 DEF routerVars, HostsAsked, Requested, BootTyped
<1> QED
  BY <1>1, <1>2, <1>3, <1>4, <1>5, <1>6, <1>7 DEF RouterNext

(* The files, the certificates, what the router has loaded, the operations *)
(* under way and the boot stay of their types, for any sites, services and *)
(* faults: a certificate names hosts somebody asked for, the boot registers*)
(* no service twice in a row, and a count waited for is one the router can *)
(* reach (waitForRouterCount).                                             *)
THEOREM RouterTypeCorrect == RouterSpec => []RouterTypeOK
<1> DEFINE Inv == CertInv /\ HostsAsked /\ BootTyped
<1>1. RouterInit => Inv
  <2> SUFFICES ASSUME RouterInit PROVE HostsAsked /\ BootTyped
    BY CertInvInit
  <2>1. HostsAsked
    BY HostSetsAsked DEF RouterInit, HostsAsked, NoRouteJob, NoRoute
  <2> QED
    BY <2>1, RoutesAreFinite, RouterAssumption DEF RouterInit, BootTyped, BootPhases
<1>2. Inv /\ [RouterNext]_routerVars => Inv'
  BY CertInvStep, BootTypedStep
<1>3. Inv => RouterTypeOK
  <2> SUFFICES ASSUME CertInv, HostsAsked, BootTyped PROVE RouterTypeOK
    OBVIOUS
  <2>1. rfile \in [Routes -> Requested] /\ cert \in [Routes -> Requested]
    BY DEF CertInv, HostsAsked
  <2>2. rjob \in [Routes -> [op : {"none", "upsert", "remove"}, at : RouteSteps, want : Requested,
                             tls : BOOLEAN, was : BOOLEAN, need : 0..(1 + Cardinality(Routes))]]
    <3>1. ASSUME NEW r \in Routes
          PROVE  rjob[r] \in [op : {"none", "upsert", "remove"}, at : RouteSteps, want : Requested,
                             tls : BOOLEAN, was : BOOLEAN, need : 0..(1 + Cardinality(Routes))]
      <4>1. rjob[r] \in RouteJobs /\ rjob[r].want \in Requested
        BY DEF CertInv, HostsAsked
      <4>2. rjob[r].need \in 0..(1 + Cardinality(Routes))
        BY <4>1, RoutesAreFinite DEF RouteJobs
      <4> QED
        BY <4>1, <4>2 DEF RouteJobs
    <3> QED
      BY <3>1 DEF CertInv
  <2> QED
    BY <2>1, <2>2 DEF RouterTypeOK, CertInv, HostsAsked, BootTyped, BootPhases, Requested
<1> QED
  BY <1>1, <1>2, <1>3, PTL DEF RouterSpec

-----------------------------------------------------------------------------
(* A finite set of numbers has a greatest one: as many numbers are up to   *)
(* it as there are in the set.                                             *)
LEMMA GreatestExists ==
  ASSUME NEW S \in SUBSET Nat, IsFiniteSet(S), S # {}
  PROVE  Max(S) \in S /\ \A i \in S : Max(S) >= i
<1> DEFINE n == Cardinality(S)
           below(x) == {y \in S : y <= x}
           f == [x \in S |-> Cardinality(below(x))]
<1>1. n \in Nat /\ n # 0
  BY FS_CardinalityType, FS_EmptySet
<1>2. \A x \in S : /\ IsFiniteSet(below(x)) /\ Cardinality(below(x)) \in 1..n
                   /\ Cardinality(below(x)) = n => below(x) = S
  <2> SUFFICES ASSUME NEW x \in S
               PROVE  /\ IsFiniteSet(below(x)) /\ Cardinality(below(x)) \in 1..n
                      /\ Cardinality(below(x)) = n => below(x) = S
    OBVIOUS
  <2>1. below(x) \in SUBSET S /\ x \in below(x)
    OBVIOUS
  <2> HIDE DEF below
  <2>2. /\ IsFiniteSet(below(x)) /\ Cardinality(below(x)) <= n
        /\ n = Cardinality(below(x)) => below(x) = S
    BY <2>1, FS_Subset
  <2>3. Cardinality(below(x)) \in Nat /\ Cardinality(below(x)) # 0
    BY <2>1, <2>2, FS_CardinalityType, FS_EmptySet
  <2> QED
    BY <1>1, <2>2, <2>3
<1>3. \A x, y \in S : x < y => Cardinality(below(x)) # Cardinality(below(y))
  <2> SUFFICES ASSUME NEW x \in S, NEW y \in S, x < y
               PROVE  Cardinality(below(x)) # Cardinality(below(y))
    OBVIOUS
  <2>1. below(x) \in SUBSET below(y) /\ y \in below(y) /\ y \notin below(x)
    <3>1. x \in Nat /\ y \in Nat /\ \A z \in S : z \in Nat
      OBVIOUS
    <3>2. \A z \in S : z <= x => z <= y
      BY <3>1
    <3>3. y \in below(y)
      BY <3>1
    <3>4. x < y => ~(y <= x)
      BY <3>1
    <3>5. y \notin below(x)
      BY <3>4
    <3> QED
      BY <3>2, <3>3, <3>5
  <2>2. IsFiniteSet(below(y))
    BY <1>2
  <2> HIDE DEF below
  <2> QED
    BY <2>1, <2>2, FS_Subset
<1>4. f \in Injection(S, 1..n)
  <2>1. f \in [S -> 1..n] /\ \A x \in S : f[x] = Cardinality(below(x))
    BY <1>2
  <2> HIDE DEF f, below
  <2>2. \A x, y \in S : f[x] = f[y] => x = y
    BY <1>3, <2>1
  <2> QED
    BY <2>1, <2>2 DEF Injection, IsInjective
<1>5. IsFiniteSet(1..n) /\ Cardinality(1..n) = n
  BY <1>1, FS_Interval
<1>6. PICK x \in S : f[x] = n
  <2> HIDE DEF f
  <2>1. f \in Surjection(S, 1..n)
    BY <1>4, <1>5, FS_Injection
  <2>2. n \in 1..n
    BY <1>1
  <2> QED
    BY <2>1, <2>2 DEF Surjection
<1>7. below(x) = S
  BY <1>2, <1>6
<1>8. \A y \in S : x >= y
  BY <1>7
<1>9. \E z \in S : \A y \in S : z >= y
  BY <1>8
<1> QED
  BY <1>9, Zenon DEF Max

(* The sites' mutexes.                                                     *)

(* What a client in the middle of an operation is entitled to hold.        *)
MayHold(t, i) ==
  \/ t.op = "delete" /\ t.pc \in {"plan", "row"} /\ i = t.id
  \/ /\ t.op \in {"worktree", "clone"} /\ t.pc \notin {"insert", "lock"}
     /\ i = t.parent \/ (t.pc \in {"plan", "row"} /\ i = t.child)
     /\ t.op = "worktree" => ~t.dry

(* A child is younger than the site it was made for, which was in the      *)
(* table by then; a dry run never gets as far as a mutex.                  *)
Younger(t, n) ==
  /\ t.op \in {"worktree", "clone"} =>
       t.parent < n /\ (t.pc \in {"start", "plan", "clone", "row"} => t.parent < t.child)
  /\ t.op = "worktree" /\ t.dry => t.pc \in {"insert", "done"}

Holders == {<< >>} \cup {<<c>> : c \in TreeClients}

RowsOK ==
  /\ nextId \in Nat \ {0} /\ rows \in [Ids -> [parent : Nat, slug : Texts]]
  /\ \A i \in Ids : rows[i] # Gone => i < nextId
LockInv ==
  /\ RowsOK
  /\ task \in [TreeClients -> Tasks] /\ held \in [Ids -> Holders]
  /\ \A c \in TreeClients, i \in Ids : held[i] = <<c>> => MayHold(task[c], i)
  /\ \A c \in TreeClients : Younger(task[c], nextId)

LEMMA LockInvInit == TreeInit => LockInv
  BY DEF TreeInit, LockInv, RowsOK, Tasks, Gone, Texts, NoTask, Younger, MayHold, Holders

(* The invariant says that a waiting client holds older sites only.        *)
LEMMA LocksDescendFromInv == LockInv => LocksDescend
  BY DEF LockInv, LocksDescend, Wants, MayHold, Younger, Tasks, NoTask, WorktreeTasks, CloneTasks,
         DeleteTasks, Ids

(* A step of client c: what the others hold and do is what they held and   *)
(* did, or less.                                                           *)
LEMMA LockStep ==
  ASSUME LockInv, RowsOK', NEW c \in TreeClients, NEW t \in Tasks,
         task' = [task EXCEPT ![c] = t], nextId <= nextId', held' \in [Ids -> Holders],
         \A i \in Ids : held'[i] \in {held[i], << >>, <<c>>},
         \A i \in Ids : held'[i] = <<c>> => MayHold(t, i),
         Younger(t, nextId')
  PROVE  LockInv'
<1>1. /\ task' \in [TreeClients -> Tasks] /\ task'[c] = t
      /\ \A d \in TreeClients \ {c} : task'[d] = task[d]
  BY DEF LockInv
<1>2. \A d \in TreeClients \ {c}, i \in Ids : held'[i] = <<d>> => held[i] = <<d>>
  <2>1. \A a, b \in TreeClients : <<a>> = <<b>> => a = b
    <3> SUFFICES ASSUME NEW a \in TreeClients, NEW b \in TreeClients, <<a>> = <<b>> PROVE a = b
      OBVIOUS
    <3>1. <<a>>[1] = <<b>>[1]
      OBVIOUS
    <3> QED
      BY <3>1
  <2>2. \A a \in TreeClients : << >> # <<a>>
    OBVIOUS
  <2> QED
    BY <2>1, <2>2
<1>3. \A d \in TreeClients, i \in Ids : held'[i] = <<d>> => MayHold(task'[d], i)
  BY <1>1, <1>2 DEF LockInv
<1>4. \A d \in TreeClients : Younger(task'[d], nextId')
  <2> SUFFICES ASSUME NEW d \in TreeClients, d # c PROVE Younger(task[d], nextId')
    BY <1>1
  <2>1. Younger(task[d], nextId) /\ task[d] \in Tasks /\ nextId \in Nat /\ nextId' \in Nat
    BY DEF LockInv, RowsOK
  <2> QED
    BY <2>1 DEF Younger, Tasks, WorktreeTasks, CloneTasks, DeleteTasks, NoTask
<1> QED
  BY <1>1, <1>3, <1>4 DEF LockInv, MayHold, Younger

LEMMA RowsStay == ASSUME RowsOK, UNCHANGED <<rows, nextId>> PROVE RowsOK' /\ nextId <= nextId'
  BY DEF RowsOK

LEMMA RowInserted ==
  ASSUME RowsOK, NEW parent \in Nat, NEW slug \in Texts, Inserted(parent, slug)
  PROVE  RowsOK' /\ nextId < nextId' /\ nextId \in Nat
<1>1. nextId <= MaxIds /\ nextId' = nextId + 1
      /\ rows' = [rows EXCEPT ![nextId] = [parent |-> parent, slug |-> slug]]
  BY DEF Inserted
<1>2. rows' \in [Ids -> [parent : Nat, slug : Texts]]
  BY <1>1 DEF RowsOK
<1>3. \A i \in Ids : rows'[i] # Gone => i < nextId'
  BY <1>1 DEF RowsOK, Ids
<1> QED
  BY <1>1, <1>2, <1>3 DEF RowsOK

LEMMA RowDropped ==
  ASSUME RowsOK, NEW i, Dropped(i), UNCHANGED nextId PROVE RowsOK' /\ nextId <= nextId'
<1>1. Gone \in [parent : Nat, slug : Texts]
  BY DEF Gone, Texts
<1>2. rows' \in [Ids -> [parent : Nat, slug : Texts]]
  BY <1>1 DEF RowsOK, Dropped
<1>3. \A j \in Ids : rows'[j] = rows[j] \/ rows'[j] = Gone
  BY DEF RowsOK, Dropped
<1> QED
  BY <1>2, <1>3 DEF RowsOK

LEMMA HeldLocked ==
  ASSUME held \in [Ids -> Holders], NEW c \in TreeClients, NEW i, Locks(c, i)
  PROVE  /\ held' \in [Ids -> Holders] /\ \A j \in Ids : held'[j] \in {held[j], << >>, <<c>>}
         /\ \A j \in Ids : held'[j] = <<c>> => held[j] = <<c>> \/ j = i
BY DEF Locks, Holders

LEMMA HeldUnlocked ==
  ASSUME held \in [Ids -> Holders], NEW c \in TreeClients, NEW i, Unlocks(i)
  PROVE  /\ held' \in [Ids -> Holders] /\ \A j \in Ids : held'[j] \in {held[j], << >>, <<c>>}
         /\ \A j \in Ids : held'[j] = <<c>> => held[j] = <<c>> /\ j # i
<1>1. \A j \in Ids : held'[j] = (IF j = i THEN << >> ELSE held[j])
  BY DEF Unlocks
<1>2. << >> # <<c>>
  OBVIOUS
<1> QED
  BY <1>1, <1>2 DEF Unlocks, Holders

(* The steps that ask for something: the client had no task, so it holds   *)
(* nothing.                                                                *)
LEMMA LockAsks ==
  ASSUME LockInv, NEW c \in TreeClients,
         AddTop(c) \/ AskWorktree(c) \/ AskClone(c) \/ AskDelete(c)
  PROVE  LockInv'
<1>1. /\ task[c] = NoTask /\ UNCHANGED held /\ held \in [Ids -> Holders]
      /\ \A i \in Ids : held'[i] \in {held[i], << >>, <<c>>}
  BY DEF AddTop, AskWorktree, AskClone, AskDelete, Begins, LockInv
<1>2. \A i \in Ids : held'[i] # <<c>>
  BY <1>1 DEF LockInv, MayHold, NoTask
<1>3. ASSUME NEW t \in Tasks, task' = [task EXCEPT ![c] = t], RowsOK', nextId <= nextId',
             Younger(t, nextId')
      PROVE  LockInv'
  BY <1>1, <1>2, <1>3, LockStep
<1>4. ASSUME NEW t \in Tasks, task' = [task EXCEPT ![c] = t], UNCHANGED <<rows, nextId>>,
             Younger(t, nextId)
      PROVE  LockInv'
  BY <1>3, <1>4, RowsStay DEF LockInv
<1>5. nextId \in Nat
  BY DEF LockInv, RowsOK
<1>6. CASE AddTop(c)
  <2>1. RowsOK' /\ nextId < nextId' /\ UNCHANGED task
    BY <1>6, RowInserted DEF AddTop, LockInv, Slugs, Texts
  <2>2. task' = [task EXCEPT ![c] = NoTask] /\ NoTask \in Tasks
    BY <1>1, <2>1 DEF LockInv, Tasks
  <2>3. Younger(NoTask, nextId')
    BY DEF Younger, NoTask
  <2>4. nextId' \in Nat /\ nextId <= nextId'
    BY <1>5, <2>1 DEF RowsOK
  <2> QED
    BY <1>3, <2>1, <2>2, <2>3, <2>4
<1>7. CASE AskWorktree(c)
  <2>1. PICK r \in Remotes, b \in Branches, dry \in BOOLEAN, q \in Nat, pc \in TreePcs :
          /\ task' = [task EXCEPT ![c] = [op |-> "worktree", pc |-> pc, slug |-> <<r, b>>,
                         dry |-> dry, made |-> FALSE, parent |-> q, child |-> 0, added |-> FALSE]]
          /\ \/ q \in TopLevel(<<r>>) /\ pc = IF dry THEN "done" ELSE "lock"
             \/ q = 0 /\ pc = "insert"
    BY <1>7 DEF AskWorktree, Begins, Becomes, TreePcs, TopLevel, Ids
  <2> DEFINE t == [op |-> "worktree", pc |-> pc, slug |-> <<r, b>>, dry |-> dry, made |-> FALSE,
                   parent |-> q, child |-> 0, added |-> FALSE]
  <2>2. <<r, b>> \in Slugs
    BY DEF Slugs
  <2>3. t \in Tasks
    BY <2>2 DEF Tasks, WorktreeTasks
  <2>4. nextId > 0 /\ (q # 0 => q < nextId)
    BY <2>1 DEF LockInv, RowsOK, TopLevel
  <2>5. Younger(t, nextId)
    BY <2>1, <2>4 DEF Younger
  <2> QED
    BY <1>4, <1>7, <2>1, <2>3, <2>5 DEF AskWorktree
<1>8. CASE AskClone(c)
  <2>1. PICK i \in Ids : /\ Exists(i)
                         /\ task' = [task EXCEPT ![c] = [op |-> "clone", pc |-> "lock", parent |-> i, child |-> 0]]
    BY <1>8 DEF AskClone, Begins, Becomes
  <2> DEFINE t == [op |-> "clone", pc |-> "lock", parent |-> i, child |-> 0]
  <2>2. t \in Tasks /\ Younger(t, nextId)
    BY <2>1 DEF Tasks, CloneTasks, TreePcs, Younger, Exists, LockInv, RowsOK, Ids
  <2> QED
    BY <1>4, <1>8, <2>1, <2>2 DEF AskClone
<1>9. CASE AskDelete(c)
  <2>1. PICK i \in Ids, force \in BOOLEAN :
          task' = [task EXCEPT ![c] = [op |-> "delete", pc |-> "read", id |-> i, root |-> i,
                     force |-> force, mine |-> force, slug |-> << >>, own |-> << >>, kids |-> {}]]
    BY <1>9 DEF AskDelete, Begins, Becomes
  <2> DEFINE t == [op |-> "delete", pc |-> "read", id |-> i, root |-> i, force |-> force, mine |-> force,
                   slug |-> << >>, own |-> << >>, kids |-> {}]
  <2>2. t \in Tasks /\ Younger(t, nextId)
    BY DEF Tasks, DeleteTasks, TreePcs, Younger, Texts, Ids
  <2> QED
    BY <1>4, <1>9, <2>1, <2>2 DEF AskDelete
<1> QED
  BY <1>6, <1>7, <1>8, <1>9

(* A step that keeps what the client holds, gives a mutex back or takes    *)
(* one.                                                                    *)
LEMMA LockKeeps ==
  ASSUME LockInv, NEW c \in TreeClients, NEW t \in Tasks, task' = [task EXCEPT ![c] = t],
         RowsOK', nextId <= nextId', UNCHANGED held, Younger(t, nextId'),
         \A i \in Ids : MayHold(task[c], i) => MayHold(t, i)
  PROVE  LockInv'
<1>1. /\ held \in [Ids -> Holders] /\ \A i \in Ids : held'[i] \in {held[i], << >>, <<c>>}
      /\ \A i \in Ids : held[i] = <<c>> => MayHold(task[c], i)
  BY DEF LockInv
<1> QED
  BY <1>1, LockStep

LEMMA LockGives ==
  ASSUME LockInv, NEW c \in TreeClients, NEW t \in Tasks, NEW k, task' = [task EXCEPT ![c] = t],
         RowsOK', nextId <= nextId', Unlocks(k), Younger(t, nextId'),
         \A i \in Ids : MayHold(task[c], i) /\ i # k => MayHold(t, i)
  PROVE  LockInv'
<1>1. /\ held \in [Ids -> Holders]
      /\ \A i \in Ids : held[i] = <<c>> => MayHold(task[c], i)
  BY DEF LockInv
<1>2. \A i \in Ids : held'[i] = <<c>> => MayHold(t, i)
  BY <1>1, HeldUnlocked
<1> QED
  BY <1>1, <1>2, HeldUnlocked, LockStep

LEMMA LockTakes ==
  ASSUME LockInv, NEW c \in TreeClients, NEW t \in Tasks, NEW k, task' = [task EXCEPT ![c] = t],
         Locks(c, k), UNCHANGED <<rows, nextId>>, Younger(t, nextId), MayHold(t, k),
         \A i \in Ids : MayHold(task[c], i) => MayHold(t, i)
  PROVE  LockInv'
<1>1. /\ held \in [Ids -> Holders] /\ RowsOK
      /\ \A i \in Ids : held[i] = <<c>> => MayHold(task[c], i)
  BY DEF LockInv
<1>2. \A i \in Ids : held'[i] = <<c>> => MayHold(t, i)
  BY <1>1, HeldLocked
<1> QED
  BY <1>1, <1>2, HeldLocked, RowsStay, LockStep

(* The steps of CreateWorktreeSite.                                        *)
LEMMA LockWorktree ==
  ASSUME LockInv, NEW c \in TreeClients,
         \/ InsertParent(c) \/ DryRunEnds(c) \/ LockParent(c) \/ GitSteps(c) \/ AddChild(c)
         \/ UndoWorktree(c) \/ TakeChild(c) \/ LeaveChild(c) \/ EndWorktree(c)
  PROVE  LockInv'
<1> DEFINE w == task[c]
<1>1. /\ w \in WorktreeTasks /\ w.op = "worktree" /\ Younger(w, nextId)
      /\ \A i \in Ids : held[i] = <<c>> => MayHold(w, i)
      /\ held \in [Ids -> Holders] /\ RowsOK /\ nextId \in Nat
  <2>1. w \in Tasks /\ w # NoTask /\ w.op = "worktree"
    BY DEF InsertParent, DryRunEnds, LockParent, GitSteps, AddChild, UndoWorktree, TakeChild, LeaveChild,
           EndWorktree, At, LockInv
  <2> QED
    BY <2>1 DEF LockInv, RowsOK, Tasks, CloneTasks, DeleteTasks
<1>2. NoTask \in Tasks /\ \A n : Younger(NoTask, n)
  BY DEF Tasks, Younger, NoTask
<1>7. ASSUME NEW pc \in TreePcs
      PROVE  LET t == [w EXCEPT !.pc = pc] IN
             t \in WorktreeTasks /\ t \in Tasks /\ t.pc = pc /\ t.op = "worktree" /\ t.parent = w.parent
             /\ t.child = w.child /\ t.dry = w.dry
  BY <1>1 DEF WorktreeTasks, Tasks
<1>8. ASSUME NEW pc \in TreePcs, w.pc # "lock", w.pc # "insert", ~w.dry, w.pc \notin {"plan", "row"},
             pc \in {"undo", "done"}, Moves(c, pc), UNCHANGED <<rows, nextId, held>>
      PROVE  LockInv'
  <2> DEFINE t == [w EXCEPT !.pc = pc]
  <2>1. t \in Tasks /\ Younger(t, nextId) /\ \A i \in Ids : MayHold(w, i) => MayHold(t, i)
    BY <1>1, <1>7, <1>8 DEF Younger, MayHold
  <2> QED
    BY LockKeeps, RowsStay, <1>1, <1>8, <2>1 DEF Moves, Becomes
<1>10. CASE InsertParent(c)
  <2>1. w.pc = "insert" /\ UNCHANGED held
    BY <1>10 DEF InsertParent, At
  <2>2. \A i \in Ids : ~MayHold(w, i)
    BY <1>1, <2>1 DEF MayHold
  <2>3. CASE Becomes(c, NoTask) /\ UNCHANGED <<rows, nextId>>
    BY <1>1, <1>2, LockKeeps, RowsStay, <2>1, <2>2, <2>3 DEF Becomes
  <2>4. CASE /\ Inserted(0, <<w.slug[1]>>)
             /\ Becomes(c, [w EXCEPT !.parent = nextId, !.made = TRUE, !.pc = IF w.dry THEN "done" ELSE "lock"])
    <3> DEFINE pc == IF w.dry THEN "done" ELSE "lock"
               t == [w EXCEPT !.parent = nextId, !.made = TRUE, !.pc = pc]
    <3>1. pc \in TreePcs
      BY DEF TreePcs
    <3>2. t \in WorktreeTasks /\ t.op = "worktree" /\ t.pc = pc /\ t.parent = nextId /\ t.dry = w.dry
      <4> HIDE DEF pc
      <4> QED
        BY <1>1, <3>1 DEF WorktreeTasks
    <3>3. PICK r \in Remotes : w.slug[1] = r
      BY <1>1 DEF WorktreeTasks, Slugs
    <3>4. RowsOK' /\ nextId < nextId' /\ nextId' \in Nat
      <4>1. <<w.slug[1]>> \in Texts /\ 0 \in Nat
        BY <3>3 DEF Slugs, Texts
      <4>2. RowsOK' /\ nextId < nextId'
        BY <1>1, <2>4, <4>1, RowInserted
      <4> QED
        BY <4>2 DEF RowsOK
    <3>5. Younger(t, nextId')
      BY <3>2, <3>4 DEF Younger
    <3>6. nextId <= nextId' /\ t \in Tasks
      BY <1>1, <3>2, <3>4 DEF Tasks
    <3> QED
      BY LockKeeps, <2>1, <2>2, <2>4, <3>4, <3>5, <3>6 DEF Becomes
  <2> QED
    BY <1>10, <2>3, <2>4 DEF InsertParent
<1>11. CASE DryRunEnds(c)
  <2>1. w.dry /\ UNCHANGED <<held, nextId>> /\ Becomes(c, NoTask) /\ (Dropped(w.parent) \/ UNCHANGED rows)
    BY <1>11 DEF DryRunEnds
  <2>2. \A i \in Ids : ~MayHold(w, i)
    BY <1>1, <2>1 DEF MayHold
  <2>3. RowsOK' /\ nextId <= nextId'
    BY <1>1, <2>1, RowDropped, RowsStay
  <2> QED
    BY <1>2, LockKeeps, <2>1, <2>2, <2>3 DEF Becomes
<1>12. CASE LockParent(c)
  <2> DEFINE t == [w EXCEPT !.pc = "git"]
  <2>1. w.pc = "lock" /\ Locks(c, w.parent) /\ task' = [task EXCEPT ![c] = t] /\ UNCHANGED <<rows, nextId>>
    BY <1>12 DEF LockParent, At, Moves, Becomes
  <2>2. t \in Tasks /\ t.pc = "git" /\ t.op = "worktree" /\ t.parent = w.parent /\ t.dry = w.dry
    BY <1>7 DEF TreePcs
  <2>3. ~w.dry /\ \A i \in Ids : ~MayHold(w, i)
    BY <1>1, <2>1 DEF Younger, MayHold
  <2>4. Younger(t, nextId) /\ MayHold(t, w.parent)
    BY <1>1, <2>2, <2>3 DEF Younger, MayHold
  <2> QED
    BY LockTakes, <2>1, <2>2, <2>3, <2>4
<1>13. CASE GitSteps(c)
  <2>1. w.pc = "git" /\ ~w.dry /\ UNCHANGED <<rows, nextId, held>>
    BY <1>1, <1>13 DEF GitSteps, At, Younger
  <2>2. CASE Moves(c, "undo")
    BY <1>8, <2>1, <2>2 DEF TreePcs
  <2>3. CASE Becomes(c, [w EXCEPT !.added = TRUE, !.pc = "add"])
    <3> DEFINE t == [w EXCEPT !.added = TRUE, !.pc = "add"]
    <3>1. t \in WorktreeTasks /\ t.pc = "add" /\ t.op = "worktree" /\ t.parent = w.parent /\ t.dry = w.dry
      BY <1>1 DEF WorktreeTasks, TreePcs
    <3>2. Younger(t, nextId) /\ t \in Tasks /\ \A i \in Ids : MayHold(w, i) => MayHold(t, i)
      BY <1>1, <2>1, <3>1 DEF Younger, MayHold, Tasks
    <3> QED
      BY LockKeeps, RowsStay, <1>1, <2>1, <2>3, <3>2 DEF Becomes
  <2> QED
    BY <1>13, <2>2, <2>3 DEF GitSteps
<1>14. CASE AddChild(c)
  <2>1. w.pc = "add" /\ ~w.dry /\ UNCHANGED held
    BY <1>1, <1>14 DEF AddChild, At, Younger
  <2>2. CASE Moves(c, "undo") /\ UNCHANGED <<rows, nextId>>
    BY <1>8, <2>1, <2>2 DEF TreePcs
  <2>3. CASE Inserted(w.parent, w.slug) /\ Becomes(c, [w EXCEPT !.child = nextId, !.pc = "start"])
    <3> DEFINE t == [w EXCEPT !.child = nextId, !.pc = "start"]
    <3>1. /\ t \in WorktreeTasks /\ t.pc = "start" /\ t.op = "worktree" /\ t.parent = w.parent
          /\ t.dry = w.dry /\ t.child = nextId
      BY <1>1 DEF WorktreeTasks, TreePcs
    <3>2. w.parent \in Nat /\ w.slug \in Texts /\ w.parent < nextId
      BY <1>1 DEF WorktreeTasks, Texts, Younger
    <3>3. RowsOK' /\ nextId < nextId' /\ nextId' \in Nat
      BY <1>1, <2>3, <3>2, RowInserted DEF RowsOK
    <3>4. w.parent < nextId' /\ nextId <= nextId'
      BY <1>1, <3>2, <3>3
    <3>5. Younger(t, nextId')
      BY <2>1, <3>1, <3>2, <3>4 DEF Younger
    <3>6. t \in Tasks /\ \A i \in Ids : MayHold(w, i) => MayHold(t, i)
      BY <1>1, <2>1, <3>1 DEF MayHold, Tasks
    <3> QED
      BY LockKeeps, <2>1, <2>3, <3>3, <3>4, <3>5, <3>6 DEF Becomes
  <2> QED
    BY <1>14, <2>2, <2>3 DEF AddChild
<1>15. CASE UndoWorktree(c)
  <2>1. /\ w.pc = "undo" /\ UNCHANGED nextId /\ Unlocks(w.parent) /\ Becomes(c, NoTask)
        /\ Dropped(w.parent) \/ UNCHANGED rows
    BY <1>15 DEF UndoWorktree, At
  <2>2. \A i \in Ids : MayHold(w, i) => i = w.parent
    BY <1>1, <2>1 DEF MayHold
  <2>3. RowsOK' /\ nextId <= nextId'
    BY <1>1, <2>1, RowDropped, RowsStay
  <2> QED
    BY <1>2, LockGives, <2>1, <2>2, <2>3 DEF Becomes
<1>16. CASE TakeChild(c)
  <2> DEFINE pc == IF w.pc = "start" THEN "plan" ELSE "row"
             t == [w EXCEPT !.pc = pc]
  <2>1. /\ w.pc \in {"start", "clone"} /\ Locks(c, w.child) /\ task' = [task EXCEPT ![c] = t]
        /\ UNCHANGED <<rows, nextId>>
    BY <1>16 DEF TakeChild, At, Moves, Becomes
  <2>2. pc \in TreePcs /\ pc \in {"plan", "row"}
    BY DEF TreePcs
  <2> HIDE DEF pc
  <2>3. t \in Tasks /\ t.pc = pc /\ t.op = "worktree" /\ t.parent = w.parent /\ t.child = w.child /\ t.dry = w.dry
    BY <1>7, <2>2
  <2>4. ~w.dry
    BY <1>1, <2>1 DEF Younger
  <2>5. Younger(t, nextId) /\ MayHold(t, w.child) /\ \A i \in Ids : MayHold(w, i) => MayHold(t, i)
    BY <1>1, <2>1, <2>2, <2>3, <2>4 DEF Younger, MayHold
  <2> QED
    BY LockTakes, <2>1, <2>3, <2>5
<1>17. CASE LeaveChild(c)
  <2>1. PICK pc \in {"clone", "done"} : Moves(c, pc)
    BY <1>17 DEF LeaveChild
  <2> DEFINE t == [w EXCEPT !.pc = pc]
  <2>2. w.pc \in {"plan", "row"} /\ Unlocks(w.child) /\ UNCHANGED <<rows, nextId>>
    BY <1>17 DEF LeaveChild, At
  <2>3. t \in Tasks /\ t.pc = pc /\ t.op = "worktree" /\ t.parent = w.parent /\ t.child = w.child /\ t.dry = w.dry
    BY <1>7 DEF TreePcs
  <2>4. Younger(t, nextId') /\ \A i \in Ids : MayHold(w, i) /\ i # w.child => MayHold(t, i)
    BY <1>1, <2>2, <2>3 DEF Younger, MayHold
  <2>5. RowsOK' /\ nextId <= nextId'
    BY <1>1, <2>2, RowsStay
  <2> QED
    BY LockGives, <2>1, <2>2, <2>3, <2>4, <2>5 DEF Moves, Becomes
<1>18. CASE EndWorktree(c)
  <2>1. w.pc = "done" /\ UNCHANGED <<rows, nextId>> /\ Unlocks(w.parent) /\ Becomes(c, NoTask)
    BY <1>18 DEF EndWorktree, At
  <2>2. \A i \in Ids : MayHold(w, i) => i = w.parent
    BY <1>1, <2>1 DEF MayHold
  <2>3. RowsOK' /\ nextId <= nextId'
    BY <1>1, <2>1, RowsStay
  <2> QED
    BY <1>2, LockGives, <2>1, <2>2, <2>3 DEF Becomes
<1> QED
  BY <1>10, <1>11, <1>12, <1>13, <1>14, <1>15, <1>16, <1>17, <1>18

(* The steps of CloneSite.                                                 *)
LEMMA LockClone ==
  ASSUME LockInv, NEW c \in TreeClients, LockSource(c) \/ AddClone(c) \/ StartClone(c)
  PROVE  LockInv'
<1> DEFINE w == task[c]
<1>1. /\ w \in CloneTasks /\ w.op = "clone" /\ Younger(w, nextId) /\ RowsOK /\ nextId \in Nat
  <2>1. w \in Tasks /\ w # NoTask /\ w.op = "clone"
    BY DEF LockSource, AddClone, StartClone, At, LockInv
  <2> QED
    BY <2>1 DEF LockInv, RowsOK, Tasks, WorktreeTasks, DeleteTasks
<1>2. NoTask \in Tasks /\ \A n : Younger(NoTask, n)
  BY DEF Tasks, Younger, NoTask
<1>3. ASSUME NEW pc \in TreePcs
      PROVE  LET t == [w EXCEPT !.pc = pc] IN
             t \in Tasks /\ t.pc = pc /\ t.op = "clone" /\ t.parent = w.parent /\ t.child = w.child
  BY <1>1 DEF CloneTasks, Tasks
<1>4. CASE LockSource(c)
  <2> DEFINE t == [w EXCEPT !.pc = "add"]
  <2>1. w.pc = "lock" /\ Locks(c, w.parent) /\ task' = [task EXCEPT ![c] = t] /\ UNCHANGED <<rows, nextId>>
    BY <1>4 DEF LockSource, At, Moves, Becomes
  <2>2. t \in Tasks /\ t.pc = "add" /\ t.op = "clone" /\ t.parent = w.parent
    BY <1>3 DEF TreePcs
  <2>3. \A i \in Ids : ~MayHold(w, i)
    BY <1>1, <2>1 DEF MayHold
  <2>4. Younger(t, nextId) /\ MayHold(t, w.parent)
    BY <1>1, <2>2 DEF Younger, MayHold
  <2> QED
    BY LockTakes, <2>1, <2>2, <2>3, <2>4
<1>5. CASE AddClone(c)
  <2>1. w.pc = "add" /\ UNCHANGED held
    BY <1>5 DEF AddClone, At
  <2>2. CASE Moves(c, "done") /\ UNCHANGED <<rows, nextId>>
    <3> DEFINE t == [w EXCEPT !.pc = "done"]
    <3>1. t \in Tasks /\ t.pc = "done" /\ t.op = "clone" /\ t.parent = w.parent
      BY <1>3 DEF TreePcs
    <3>2. Younger(t, nextId') /\ \A i \in Ids : MayHold(w, i) => MayHold(t, i)
      BY <1>1, <2>1, <2>2, <3>1 DEF Younger, MayHold
    <3>3. RowsOK' /\ nextId <= nextId'
      BY <1>1, <2>2, RowsStay
    <3> QED
      BY LockKeeps, <2>1, <2>2, <3>1, <3>2, <3>3 DEF Moves, Becomes
  <2>3. CASE /\ \E r \in Remotes : Inserted(0, <<r>>)
             /\ Becomes(c, [w EXCEPT !.child = nextId, !.pc = "start"])
    <3> DEFINE t == [w EXCEPT !.child = nextId, !.pc = "start"]
    <3>1. t \in Tasks /\ t.pc = "start" /\ t.op = "clone" /\ t.parent = w.parent /\ t.child = nextId
      BY <1>1 DEF CloneTasks, TreePcs, Tasks
    <3>2. RowsOK' /\ nextId < nextId' /\ nextId' \in Nat
      <4>1. \A r \in Remotes : <<r>> \in Texts
        BY DEF Slugs, Texts
      <4>2. RowsOK' /\ nextId < nextId'
        BY <1>1, <2>3, <4>1, RowInserted
      <4> QED
        BY <4>2 DEF RowsOK
    <3>3. w.parent \in Nat /\ w.parent < nextId
      BY <1>1 DEF CloneTasks, Younger
    <3>4. w.parent < nextId' /\ nextId <= nextId'
      BY <1>1, <3>2, <3>3
    <3>5. Younger(t, nextId') /\ \A i \in Ids : MayHold(w, i) => MayHold(t, i)
      BY <1>1, <2>1, <3>1, <3>3, <3>4 DEF Younger, MayHold
    <3> QED
      BY LockKeeps, <2>1, <2>3, <3>1, <3>2, <3>4, <3>5 DEF Becomes
  <2> QED
    BY <1>5, <2>2, <2>3 DEF AddClone
<1>6. CASE StartClone(c)
  <2>1. UNCHANGED <<rows, nextId>> /\ RowsOK' /\ nextId <= nextId'
    BY <1>1, <1>6, RowsStay DEF StartClone
  <2>2. CASE At(c, "clone", "start") /\ Locks(c, w.child) /\ Moves(c, "plan")
    <3> DEFINE t == [w EXCEPT !.pc = "plan"]
    <3>1. t \in Tasks /\ t.pc = "plan" /\ t.op = "clone" /\ t.parent = w.parent /\ t.child = w.child
      BY <1>3 DEF TreePcs
    <3>2. w.pc = "start"
      BY <2>2 DEF At
    <3>3. Younger(t, nextId) /\ MayHold(t, w.child) /\ \A i \in Ids : MayHold(w, i) => MayHold(t, i)
      BY <1>1, <3>1, <3>2 DEF Younger, MayHold
    <3> QED
      BY LockTakes, <2>1, <2>2, <3>1, <3>3 DEF Moves, Becomes
  <2>3. CASE At(c, "clone", "plan") /\ Unlocks(w.child) /\ Moves(c, "done")
    <3> DEFINE t == [w EXCEPT !.pc = "done"]
    <3>1. t \in Tasks /\ t.pc = "done" /\ t.op = "clone" /\ t.parent = w.parent /\ t.child = w.child
      BY <1>3 DEF TreePcs
    <3>2. w.pc = "plan"
      BY <2>3 DEF At
    <3>3. Younger(t, nextId') /\ \A i \in Ids : MayHold(w, i) /\ i # w.child => MayHold(t, i)
      BY <1>1, <2>1, <3>1, <3>2 DEF Younger, MayHold
    <3> QED
      BY LockGives, <2>1, <2>3, <3>1, <3>3 DEF Moves, Becomes
  <2>4. CASE At(c, "clone", "done") /\ Unlocks(w.parent) /\ Becomes(c, NoTask)
    <3>1. w.pc = "done"
      BY <2>4 DEF At
    <3>2. \A i \in Ids : MayHold(w, i) => i = w.parent
      BY <1>1, <3>1 DEF MayHold
    <3> QED
      BY LockGives, <1>2, <2>1, <2>4, <3>2 DEF Becomes
  <2> QED
    BY <1>6, <2>2, <2>3, <2>4 DEF StartClone
<1> QED
  BY <1>4, <1>5, <1>6

(* The steps of DeleteSiteWithOptions.                                     *)
LEMMA LockDelete ==
  ASSUME LockInv, NEW c \in TreeClients,
         ReadSite(c) \/ NextKid(c) \/ LockDoomed(c) \/ RunDeletePlan(c) \/ DeleteTheRow(c)
  PROVE  LockInv'
<1> DEFINE w == task[c]
<1>1. /\ w \in DeleteTasks /\ w.op = "delete" /\ RowsOK /\ nextId \in Nat
  <2>1. w \in Tasks /\ w # NoTask /\ w.op = "delete"
    BY DEF ReadSite, NextKid, LockDoomed, RunDeletePlan, DeleteTheRow, At, LockInv
  <2> QED
    BY <2>1 DEF LockInv, RowsOK, Tasks, WorktreeTasks, CloneTasks
<1>2. /\ NoTask \in Tasks /\ \A n : Younger(NoTask, n)
      /\ \A t \in DeleteTasks : t \in Tasks /\ \A n : Younger(t, n)
  BY DEF Tasks, Younger, NoTask, DeleteTasks
<1>3. ASSUME NEW pc \in TreePcs
      PROVE  LET t == [w EXCEPT !.pc = pc] IN t \in DeleteTasks /\ t.pc = pc /\ t.op = "delete" /\ t.id = w.id
  BY <1>1 DEF DeleteTasks
<1>4. ASSUME NEW t \in DeleteTasks \cup {NoTask}, Becomes(c, t), UNCHANGED <<rows, nextId, held>>,
             w.pc \notin {"plan", "row"}
      PROVE  LockInv'
  <2>1. \A i \in Ids : ~MayHold(w, i)
    BY <1>1, <1>4 DEF MayHold
  <2> QED
    BY LockKeeps, RowsStay, <1>1, <1>2, <1>4, <2>1 DEF Becomes
<1>5. ASSUME NEW t \in DeleteTasks \cup {NoTask}, Becomes(c, t), Unlocks(w.id), RowsOK', UNCHANGED nextId
      PROVE  LockInv'
  <2>1. \A i \in Ids : MayHold(w, i) => i = w.id
    BY <1>1 DEF MayHold
  <2>2. nextId <= nextId'
    BY <1>1, <1>5
  <2> QED
    BY LockGives, <1>2, <1>5, <2>1, <2>2 DEF Becomes
<1>6. CASE ReadSite(c)
  <2> DEFINE i == w.id
             own == IF i = w.root THEN rows[i].slug ELSE w.own
             kids == IF i = w.root THEN ChildrenOf(i) ELSE w.kids
  <2>1. w.pc = "read" /\ UNCHANGED <<rows, nextId, held>>
    BY <1>6 DEF ReadSite, At
  <2>2. CASE Becomes(c, NoTask)
    BY <1>4, <2>1, <2>2
  <2>3. CASE Moves(c, "done")
    BY <1>3, <1>4, <2>1, <2>3 DEF Moves, TreePcs
  <2>4. ASSUME Exists(i), NEW pc \in {"done", "lock"},
               Becomes(c, [w EXCEPT !.slug = rows[i].slug, !.own = own, !.pc = pc, !.kids = kids])
        PROVE  LockInv'
    <3>1. rows[i].slug \in Texts /\ kids \in SUBSET Ids /\ w.own \in Texts
      BY <1>1, <2>4 DEF Exists, RowsOK, DeleteTasks, ChildrenOf
    <3>2. own \in Texts
      BY <3>1
    <3> HIDE DEF own, kids
    <3>3. [w EXCEPT !.slug = rows[i].slug, !.own = own, !.pc = pc, !.kids = kids] \in DeleteTasks
      BY <1>1, <3>1, <3>2 DEF DeleteTasks, TreePcs
    <3> QED
      BY <1>4, <2>1, <2>4, <3>3
  <2>5. \/ Becomes(c, NoTask) \/ Moves(c, "done")
        \/ Exists(i) /\ \E pc \in {"done", "lock"} :
             Becomes(c, [w EXCEPT !.slug = rows[i].slug, !.own = own, !.pc = pc, !.kids = kids])
    BY <1>1, <1>6 DEF ReadSite, DeleteTasks
  <2> QED
    BY <2>2, <2>3, <2>4, <2>5
<1>7. CASE NextKid(c)
  <2>1. w.pc = "done" /\ UNCHANGED <<rows, nextId, held>>
    BY <1>7 DEF NextKid, At
  <2>2. CASE Becomes(c, [w EXCEPT !.id = w.root, !.pc = "lock", !.force = w.mine, !.slug = w.own])
    <3>1. [w EXCEPT !.id = w.root, !.pc = "lock", !.force = w.mine, !.slug = w.own] \in DeleteTasks
      BY <1>1 DEF DeleteTasks, TreePcs
    <3> QED
      BY <1>4, <2>1, <2>2, <3>1
  <2>3. ASSUME NEW k \in w.kids,
               Becomes(c, [w EXCEPT !.id = k, !.kids = @ \ {k}, !.force = TRUE, !.pc = "read"])
        PROVE  LockInv'
    <3>1. k \in Nat
      BY <1>1, <2>3 DEF DeleteTasks, Ids
    <3>2. [w EXCEPT !.id = k, !.kids = @ \ {k}, !.force = TRUE, !.pc = "read"] \in DeleteTasks
      BY <1>1, <3>1 DEF DeleteTasks, TreePcs
    <3> QED
      BY <1>4, <2>1, <2>3, <3>2
  <2> QED
    BY <1>7, <2>2, <2>3 DEF NextKid
<1>8. CASE LockDoomed(c)
  <2> DEFINE t == [w EXCEPT !.pc = "plan"]
  <2>1. w.pc = "lock" /\ Locks(c, w.id) /\ task' = [task EXCEPT ![c] = t] /\ UNCHANGED <<rows, nextId>>
    BY <1>8 DEF LockDoomed, At, Moves, Becomes
  <2>2. t \in DeleteTasks /\ t.pc = "plan" /\ t.op = "delete" /\ t.id = w.id
    BY <1>3 DEF TreePcs
  <2>3. MayHold(t, w.id) /\ \A i \in Ids : ~MayHold(w, i)
    BY <1>1, <2>1, <2>2 DEF MayHold
  <2> QED
    BY LockTakes, <1>2, <2>1, <2>2, <2>3
<1>9. CASE RunDeletePlan(c)
  <2>1. w.pc = "plan" /\ UNCHANGED <<rows, nextId>>
    BY <1>9 DEF RunDeletePlan, At
  <2>2. CASE Moves(c, "row") /\ UNCHANGED held
    <3> DEFINE t == [w EXCEPT !.pc = "row"]
    <3>1. t \in DeleteTasks /\ t.pc = "row" /\ t.op = "delete" /\ t.id = w.id
      BY <1>3 DEF TreePcs
    <3>2. \A i \in Ids : MayHold(w, i) => MayHold(t, i)
      BY <1>1, <3>1 DEF MayHold
    <3> QED
      BY LockKeeps, RowsStay, <1>1, <1>2, <2>1, <2>2, <3>1, <3>2 DEF Moves, Becomes
  <2>3. CASE Unlocks(w.id) /\ (Becomes(c, NoTask) \/ Moves(c, "done"))
    BY <1>1, <1>3, <1>5, <2>1, <2>3, RowsStay DEF Moves, TreePcs
  <2> QED
    BY <1>9, <2>2, <2>3 DEF RunDeletePlan
<1>10. CASE DeleteTheRow(c)
  <2>1. /\ Dropped(w.id) \/ UNCHANGED rows
        /\ Unlocks(w.id) /\ (Becomes(c, NoTask) \/ Moves(c, "done")) /\ UNCHANGED nextId
    BY <1>10 DEF DeleteTheRow
  <2>2. RowsOK'
    BY <1>1, <2>1, RowDropped, RowsStay
  <2> QED
    BY <1>3, <1>5, <2>1, <2>2 DEF Moves, TreePcs
<1> QED
  BY <1>6, <1>7, <1>8, <1>9, <1>10

(* Every step keeps what the clients hold and are entitled to.             *)
LEMMA LockInvStep == LockInv /\ [TreeNext]_treeVars => LockInv'
<1> SUFFICES ASSUME LockInv, [TreeNext]_treeVars PROVE LockInv'
  OBVIOUS
<1>1. CASE Edits \/ UNCHANGED treeVars
  BY <1>1, RowsStay DEF Edits, treeVars, LockInv, RowsOK, MayHold, Younger
<1>2. CASE TreeCrash
  <2>1. /\ held' = [i \in Ids |-> << >>] /\ task' = [c \in TreeClients |-> NoTask]
        /\ UNCHANGED <<rows, nextId>>
    BY <1>2 DEF TreeCrash
  <2>2. \A c \in TreeClients : << >> # <<c>>
    OBVIOUS
  <2> QED
    BY <2>1, <2>2 DEF LockInv, RowsOK, Tasks, Holders, Younger, NoTask
<1>3. ASSUME NEW c \in TreeClients,
             \/ AddTop(c) \/ AskWorktree(c) \/ InsertParent(c) \/ DryRunEnds(c)
             \/ LockParent(c) \/ GitSteps(c) \/ AddChild(c) \/ UndoWorktree(c)
             \/ TakeChild(c) \/ LeaveChild(c) \/ EndWorktree(c)
             \/ AskClone(c) \/ LockSource(c) \/ AddClone(c) \/ StartClone(c)
             \/ AskDelete(c) \/ ReadSite(c) \/ NextKid(c) \/ LockDoomed(c)
             \/ RunDeletePlan(c) \/ DeleteTheRow(c)
      PROVE  LockInv'
  BY <1>3, LockAsks, LockWorktree, LockClone, LockDelete
<1> QED
  BY <1>1, <1>2, <1>3 DEF TreeNext

(* Nobody waits for a site's mutex while holding a younger site's, for any *)
(* sites, worktrees and clients: operations on parents and children never  *)
(* wait for one another in a circle (CreateWorktreeSite, CloneSite,        *)
(* DeleteSiteWithOptions).                                                 *)
THEOREM MutexesDescend == TreeSpec => []LocksDescend
  BY LockInvInit, LockInvStep, LocksDescendFromInv, PTL DEF TreeSpec

(* The operations on parents and children never wait for one another in a  *)
(* circle, however many clients, sites and worktrees there are: the        *)
(* mutexes of siteMutex cannot leave everyone waiting for everyone.        *)
THEOREM NoCircleOfMutexes == TreeSpec => []NobodyWaitsInACircle
<1>1. LocksDescend => NobodyWaitsInACircle
  <2> SUFFICES ASSUME LocksDescend, NEW W \in SUBSET TreeClients, W # {},
                      \A c \in W : \E d \in W : WaitsFor(c, d)
               PROVE  FALSE
    BY DEF NobodyWaitsInACircle
  <2> DEFINE S == {Wants(c) : c \in W}
  <2>1. S \in SUBSET Ids /\ S # {}
    BY DEF WaitsFor
  <2>2. IsFiniteSet(S) /\ S \in SUBSET Nat
    <3> HIDE DEF S
    <3>1. IsFiniteSet(Ids) /\ Ids \in SUBSET Nat
      BY SiteTreeAssumption, FS_Interval DEF Ids
    <3> QED
      BY <2>1, <3>1, FS_Subset
  <2> HIDE DEF S
  <2>3. Max(S) \in S /\ \A i \in S : Max(S) >= i
    BY <2>1, <2>2, GreatestExists
  <2>4. PICK c \in W : Wants(c) = Max(S)
    BY <2>3 DEF S
  <2>5. PICK d \in W : WaitsFor(c, d)
    OBVIOUS
  <2>6. Wants(d) \in S /\ Wants(d) # 0
    BY <2>1 DEF S, Ids
  <2>7. Wants(c) < Wants(d)
    BY <2>5, <2>6 DEF LocksDescend, WaitsFor
  <2>8. Wants(c) \in Nat /\ Wants(d) \in Nat
    BY <2>2, <2>3, <2>4, <2>6
  <2> QED
    BY <2>3, <2>4, <2>6, <2>7, <2>8
<1> QED
  BY <1>1, MutexesDescend, PTL

-----------------------------------------------------------------------------
(* Uncommitted work.                                                       *)

(* What a client's operation must be for its steps to leave uncommitted    *)
(* work alone: a delete that is forced at the site it was asked for was    *)
(* asked with force, and a creation undoes only a worktree it added, which *)
(* nobody has worked in yet.                                               *)
Spares(t, dirs) ==
  /\ t.op = "delete" => /\ t.id = t.root /\ t.force => t.mine
                        /\ t.root \notin t.kids
  /\ t.op = "worktree" => /\ t.pc \in {"insert", "lock", "git"} => ~t.added
                          /\ t.added /\ t.pc \in {"add", "undo"} => dirs[t.slug] # "dirty"

WorkInv ==
  /\ LockInv
  /\ tree \in [Slugs -> {"absent", "clean", "dirty"}]
  /\ \A i \in Ids : rows[i].parent < i
  /\ \A c \in TreeClients : Spares(task[c], tree)

LEMMA WorkInvInit == TreeInit => WorkInv
  BY LockInvInit DEF TreeInit, WorkInv, Spares, NoTask, Gone, Ids

(* A step of client c that gives it task t and makes no worktree dirty.    *)
LEMMA WorkStep ==
  ASSUME WorkInv, LockInv', NEW c \in TreeClients, NEW t, task' = [task EXCEPT ![c] = t],
         tree' \in [Slugs -> {"absent", "clean", "dirty"}],
         \A s \in Slugs : tree'[s] = "dirty" => tree[s] = "dirty",
         \A i \in Ids : rows'[i].parent < i, Spares(t, tree')
  PROVE  WorkInv'
<1>1. /\ task'[c] = t /\ \A d \in TreeClients \ {c} : task'[d] = task[d]
  BY DEF WorkInv, LockInv
<1>2. ASSUME NEW d \in TreeClients, d # c PROVE Spares(task[d], tree')
  <2>1. Spares(task[d], tree) /\ task[d] \in Tasks
    BY <1>2 DEF WorkInv, LockInv
  <2> QED
    BY <2>1 DEF Spares, Tasks, WorktreeTasks, CloneTasks, DeleteTasks, NoTask
<1> QED
  BY <1>1, <1>2 DEF WorkInv

(* A site is added beside an older parent, or for itself.                  *)
LEMMA ParentsOlder ==
  ASSUME WorkInv, \/ UNCHANGED rows
                  \/ \E i : Dropped(i)
                  \/ \E p \in Nat, s \in Texts : Inserted(p, s) /\ p < nextId
  PROVE  \A i \in Ids : rows'[i].parent < i
<1>1. CASE UNCHANGED rows
  BY <1>1 DEF WorkInv
<1>2. CASE \E i : Dropped(i)
  BY <1>2 DEF WorkInv, LockInv, RowsOK, Dropped, Gone, Ids
<1>3. CASE \E p \in Nat, s \in Texts : Inserted(p, s) /\ p < nextId
  BY <1>3 DEF WorkInv, LockInv, RowsOK, Inserted, Ids
<1> QED
  BY <1>1, <1>2, <1>3

LEMMA WorkDelete ==
  ASSUME WorkInv, LockInv', NEW c \in TreeClients,
         \/ AskDelete(c) \/ ReadSite(c) \/ NextKid(c) \/ LockDoomed(c)
         \/ RunDeletePlan(c) \/ DeleteTheRow(c)
  PROVE  WorkInv'
<1> DEFINE w == task[c]
<1>0. w \in Tasks /\ Spares(w, tree)
  BY DEF WorkInv, LockInv
<1>1. tree \in [Slugs -> {"absent", "clean", "dirty"}] /\ \A i \in Ids : rows[i].parent < i
  BY DEF WorkInv
<1>2. CASE AskDelete(c)
  <2>1. PICK i \in Ids, f \in BOOLEAN :
          Becomes(c, [op |-> "delete", pc |-> "read", id |-> i, root |-> i, force |-> f,
                      mine |-> f, slug |-> << >>, own |-> << >>, kids |-> {}])
    BY <1>2 DEF AskDelete, Begins
  <2>2. UNCHANGED <<rows, tree>>
    BY <1>2 DEF AskDelete
  <2> QED
    BY <1>1, <2>1, <2>2, WorkStep DEF Becomes, Spares
<1>3. CASE ReadSite(c) \/ NextKid(c) \/ LockDoomed(c) \/ RunDeletePlan(c) \/ DeleteTheRow(c)
  <2>1. w # NoTask /\ w.op = "delete" /\ w \in DeleteTasks
    BY <1>0, <1>3 DEF ReadSite, NextKid, LockDoomed, RunDeletePlan, DeleteTheRow, At, Tasks,
                      WorktreeTasks, CloneTasks
  <2>2. PICK t : /\ task' = [task EXCEPT ![c] = t] /\ Spares(t, tree')
    <3>1. ASSUME NEW pc, Moves(c, pc) \/ Becomes(c, NoTask)
          PROVE  \E t : task' = [task EXCEPT ![c] = t] /\ Spares(t, tree')
      <4> DEFINE t == [w EXCEPT !.pc = pc]
      <4>1. Spares(t, tree') /\ Spares(NoTask, tree')
        BY <1>0, <2>1 DEF Spares, NoTask, DeleteTasks
      <4> HIDE DEF t
      <4>2. Becomes(c, t) \/ Becomes(c, NoTask)
        BY <3>1 DEF Moves, t
      <4> QED
        BY <4>1, <4>2 DEF Becomes
    <3>2. CASE LockDoomed(c) \/ RunDeletePlan(c) \/ DeleteTheRow(c)
      BY <3>1, <3>2 DEF LockDoomed, RunDeletePlan, DeleteTheRow
    <3>3. CASE NextKid(c)
      <4>1. CASE w.kids = {}
        <5> DEFINE t == [w EXCEPT !.id = w.root, !.pc = "lock", !.force = w.mine, !.slug = w.own]
        <5>1. Spares(t, tree')
          BY <1>0, <2>1 DEF Spares, DeleteTasks
        <5> QED
          BY <3>3, <4>1, <5>1 DEF NextKid, Becomes
      <4>2. CASE w.kids # {}
        <5>1. PICK k \in w.kids :
                Becomes(c, [w EXCEPT !.id = k, !.kids = w.kids \ {k}, !.force = TRUE, !.pc = "read"])
          BY <3>3, <4>2, <2>1 DEF NextKid, DeleteTasks
        <5> DEFINE t == [w EXCEPT !.id = k, !.kids = w.kids \ {k}, !.force = TRUE, !.pc = "read"]
        <5>2. Spares(t, tree')
          BY <1>0, <2>1 DEF Spares, DeleteTasks
        <5> QED
          BY <5>1, <5>2 DEF Becomes
      <4> QED
        BY <4>1, <4>2
    <3>4. CASE ReadSite(c)
      <4> DEFINE i == w.id
                 top == i = w.root
                 read == [w EXCEPT !.slug = rows[i].slug, !.own = IF top THEN rows[i].slug ELSE w.own]
                 t == [read EXCEPT !.pc = IF top /\ ChildrenOf(i) # {} THEN "done" ELSE "lock",
                                  !.kids = IF top THEN ChildrenOf(i) ELSE w.kids]
      <4>1. \/ Becomes(c, NoTask) \/ Moves(c, "done") \/ Becomes(c, t)
        BY <3>4, <2>1 DEF ReadSite, DeleteTasks
      <4>2. top => w.root \notin ChildrenOf(i)
        BY <1>1 DEF ChildrenOf, Ids
      <4>3. Spares(t, tree')
        BY <1>0, <2>1, <4>2 DEF Spares, DeleteTasks
      <4> QED
        BY <3>1, <4>1, <4>3 DEF Becomes
    <3> QED
      BY <1>3, <3>2, <3>3, <3>4
  <2>3. /\ tree' \in [Slugs -> {"absent", "clean", "dirty"}]
        /\ \A s \in Slugs : tree'[s] = "dirty" => tree[s] = "dirty"
    BY <1>1, <1>3 DEF ReadSite, NextKid, LockDoomed, RunDeletePlan, DeleteTheRow
  <2>4. UNCHANGED rows \/ \E i : Dropped(i)
    BY <1>3 DEF ReadSite, NextKid, LockDoomed, RunDeletePlan, DeleteTheRow
  <2>5. \A i \in Ids : rows'[i].parent < i
    BY <2>4, ParentsOlder
  <2> QED
    BY <2>2, <2>3, <2>5, WorkStep
<1> QED
  BY <1>2, <1>3

LEMMA WorkWorktree ==
  ASSUME WorkInv, LockInv', NEW c \in TreeClients,
         \/ AskWorktree(c) \/ InsertParent(c) \/ DryRunEnds(c) \/ LockParent(c) \/ GitSteps(c)
         \/ AddChild(c) \/ UndoWorktree(c) \/ TakeChild(c) \/ LeaveChild(c) \/ EndWorktree(c)
  PROVE  WorkInv'
<1> DEFINE w == task[c]
<1>0. w \in Tasks /\ Spares(w, tree)
  BY DEF WorkInv, LockInv
<1>1. tree \in [Slugs -> {"absent", "clean", "dirty"}] /\ \A i \in Ids : rows[i].parent < i
  BY DEF WorkInv
<1>2. CASE AskWorktree(c)
  <2>1. PICK t : task' = [task EXCEPT ![c] = t] /\ Spares(t, tree')
    <3> DEFINE New(r, b, dry, p, pc) ==
                 [op |-> "worktree", pc |-> pc, slug |-> <<r, b>>, dry |-> dry,
                  made |-> FALSE, parent |-> p, child |-> 0, added |-> FALSE]
    <3>1. \A r, b, dry, p, pc : Spares(New(r, b, dry, p, pc), tree')
      BY DEF Spares
    <3>2. \E r, b, dry, p, pc : Becomes(c, New(r, b, dry, p, pc))
      BY <1>2 DEF AskWorktree, Begins
    <3> QED
      BY <3>1, <3>2 DEF Becomes
  <2>2. UNCHANGED <<rows, tree>>
    BY <1>2 DEF AskWorktree
  <2> QED
    BY <1>1, <2>1, <2>2, WorkStep
<1>3. CASE \/ InsertParent(c) \/ DryRunEnds(c) \/ LockParent(c) \/ GitSteps(c) \/ AddChild(c)
           \/ UndoWorktree(c) \/ TakeChild(c) \/ LeaveChild(c) \/ EndWorktree(c)
  <2>1. w # NoTask /\ w.op = "worktree" /\ w \in WorktreeTasks
    BY <1>0, <1>3 DEF InsertParent, DryRunEnds, LockParent, GitSteps, AddChild, UndoWorktree,
                      TakeChild, LeaveChild, EndWorktree, At, Tasks, DeleteTasks, CloneTasks
  <2> DEFINE Goal == \E t : task' = [task EXCEPT ![c] = t] /\ Spares(t, tree')
  <2>2. Goal
    <3>0. ASSUME NEW t, Becomes(c, t), Spares(t, tree') PROVE Goal
      BY <3>0 DEF Becomes
    <3>1. ASSUME NEW pc, Moves(c, pc), Spares([w EXCEPT !.pc = pc], tree') PROVE Goal
      BY <3>0, <3>1 DEF Moves
    <3>2. Spares(NoTask, tree')
      BY DEF Spares, NoTask
    <3> HIDE DEF Goal
    <3>3. CASE DryRunEnds(c) \/ UndoWorktree(c) \/ EndWorktree(c)
      BY <3>0, <3>2, <3>3 DEF DryRunEnds, UndoWorktree, EndWorktree
    <3>4. CASE LockParent(c)
      <4>1. Spares([w EXCEPT !.pc = "git"], tree')
        BY <1>0, <2>1, <3>4 DEF LockParent, At, Spares, WorktreeTasks
      <4> QED
        BY <3>1, <3>4, <4>1 DEF LockParent
    <3>5. CASE TakeChild(c) \/ LeaveChild(c)
      <4>1. PICK pc \in {"plan", "row", "clone", "done"} : Moves(c, pc)
        BY <3>5 DEF TakeChild, LeaveChild
      <4>2. Spares([w EXCEPT !.pc = pc], tree')
        BY <2>1 DEF Spares, WorktreeTasks
      <4> QED
        BY <3>1, <4>1, <4>2
    <3>6. CASE InsertParent(c)
      <4> DEFINE pc == IF w.dry THEN "done" ELSE "lock"
                 t == [w EXCEPT !.parent = nextId, !.made = TRUE, !.pc = pc]
      <4>1. Spares(t, tree')
        BY <1>0, <2>1, <3>6 DEF InsertParent, At, Spares, WorktreeTasks
      <4>2. Becomes(c, NoTask) \/ Becomes(c, t)
        BY <3>6 DEF InsertParent
      <4> QED
        BY <3>0, <3>2, <4>1, <4>2
    <3>7. CASE GitSteps(c)
      <4> DEFINE t == [w EXCEPT !.added = TRUE, !.pc = "add"]
      <4>1. CASE tree' = [tree EXCEPT ![w.slug] = "clean"] /\ Becomes(c, t)
        <5>1. tree'[w.slug] # "dirty"
          BY <1>1, <2>1, <4>1 DEF WorktreeTasks
        <5>2. Spares(t, tree')
          BY <2>1, <5>1 DEF Spares, WorktreeTasks
        <5> QED
          BY <3>0, <4>1, <5>2
      <4>2. CASE UNCHANGED tree /\ Moves(c, "undo")
        <5>1. Spares([w EXCEPT !.pc = "undo"], tree')
          BY <1>0, <2>1, <3>7, <4>2 DEF GitSteps, At, Spares, WorktreeTasks
        <5> QED
          BY <3>1, <4>2, <5>1
      <4> QED
        BY <3>7, <4>1, <4>2 DEF GitSteps
    <3>8. CASE AddChild(c)
      <4> DEFINE t == [w EXCEPT !.child = nextId, !.pc = "start"]
      <4>1. UNCHANGED tree /\ w.pc = "add"
        BY <3>8 DEF AddChild, At
      <4>2. Spares(t, tree') /\ Spares([w EXCEPT !.pc = "undo"], tree')
        BY <1>0, <2>1, <4>1 DEF Spares, WorktreeTasks
      <4>3. Becomes(c, t) \/ Moves(c, "undo")
        BY <3>8 DEF AddChild
      <4> QED
        BY <3>0, <3>1, <4>2, <4>3
    <3> QED
      BY <1>3, <3>3, <3>4, <3>5, <3>6, <3>7, <3>8
  <2>3. /\ tree' \in [Slugs -> {"absent", "clean", "dirty"}]
        /\ \A s \in Slugs : tree'[s] = "dirty" => tree[s] = "dirty"
    BY <1>1, <1>3 DEF InsertParent, DryRunEnds, LockParent, GitSteps, AddChild, UndoWorktree,
                      TakeChild, LeaveChild, EndWorktree
  <2>4. \/ UNCHANGED rows \/ \E i : Dropped(i)
        \/ \E p \in Nat, s \in Texts : Inserted(p, s) /\ p < nextId
    <3>1. CASE InsertParent(c)
      <4>1. <<w.slug[1]>> \in Texts /\ nextId \in Nat \ {0}
        BY <2>1 DEF WorktreeTasks, Slugs, Texts, WorkInv, LockInv, RowsOK
      <4> QED
        BY <3>1, <4>1 DEF InsertParent
    <3>2. CASE AddChild(c)
      <4>1. w.parent < nextId /\ w.parent \in Nat /\ w.slug \in Texts
        BY <2>1 DEF WorktreeTasks, Texts, WorkInv, LockInv, Younger
      <4> QED
        BY <3>2, <4>1 DEF AddChild
    <3> QED
      BY <1>3, <3>1, <3>2 DEF DryRunEnds, LockParent, GitSteps, UndoWorktree, TakeChild,
                              LeaveChild, EndWorktree
  <2>5. \A i \in Ids : rows'[i].parent < i
    BY <2>4, ParentsOlder
  <2>6. PICK t : task' = [task EXCEPT ![c] = t] /\ Spares(t, tree')
    BY <2>2
  <2> QED
    BY <2>3, <2>5, <2>6, WorkStep
<1> QED
  BY <1>2, <1>3

LEMMA WorkClone ==
  ASSUME WorkInv, LockInv', NEW c \in TreeClients,
         AddTop(c) \/ AskClone(c) \/ LockSource(c) \/ AddClone(c) \/ StartClone(c)
  PROVE  WorkInv'
<1>1. UNCHANGED tree
  BY DEF AddTop, AskClone, LockSource, AddClone, StartClone
<1>2. \/ UNCHANGED rows
      \/ \E p \in Nat, s \in Texts : Inserted(p, s) /\ p < nextId
  <2>1. (\A r \in Remotes : <<r>> \in Texts) /\ nextId \in Nat \ {0}
    BY DEF Slugs, Texts, WorkInv, LockInv, RowsOK
  <2> DEFINE Added == \E p \in Nat, s \in Texts : Inserted(p, s) /\ p < nextId
  <2>2. ASSUME NEW r \in Remotes, Inserted(0, <<r>>) PROVE Added
    BY <2>1, <2>2
  <2> HIDE DEF Added
  <2>3. AddTop(c) \/ AddClone(c) => UNCHANGED rows \/ Added
    BY <2>2 DEF AddTop, AddClone
  <2>4. AskClone(c) \/ LockSource(c) \/ StartClone(c) => UNCHANGED rows
    BY DEF AskClone, LockSource, StartClone
  <2> QED
    BY <2>3, <2>4 DEF Added
<1>3. \A i \in Ids : rows'[i].parent < i
  BY <1>2, ParentsOlder
<1>4. CASE AddTop(c)
  BY <1>1, <1>3, <1>4 DEF AddTop, WorkInv
<1>5. CASE AskClone(c) \/ LockSource(c) \/ AddClone(c) \/ StartClone(c)
  <2> DEFINE Goal == \E t : /\ task' = [task EXCEPT ![c] = t]
                           /\ t.op \notin {"delete", "worktree"}
  <2>3. Goal
    <3>0. ASSUME NEW t, Becomes(c, t), t.op \notin {"delete", "worktree"} PROVE Goal
      BY <3>0 DEF Becomes
    <3> HIDE DEF Goal
    <3>1. CASE AskClone(c)
      <4>1. PICK i \in Ids :
              Becomes(c, [op |-> "clone", pc |-> "lock", parent |-> i, child |-> 0])
        BY <3>1 DEF AskClone, Begins
      <4> QED
        BY <3>0, <4>1
    <3>2. CASE LockSource(c) \/ AddClone(c) \/ StartClone(c)
      <4>1. task[c].op = "clone" /\ task[c] \in CloneTasks
        BY <3>2 DEF LockSource, AddClone, StartClone, At, WorkInv, LockInv, Tasks, WorktreeTasks,
                    DeleteTasks, NoTask
      <4> DEFINE t == [task[c] EXCEPT !.child = nextId, !.pc = "start"]
      <4>2. /\ t.op = "clone" /\ NoTask.op = "none"
            /\ \A pc : [task[c] EXCEPT !.pc = pc].op = "clone"
        BY <4>1 DEF CloneTasks, NoTask
      <4>3. Becomes(c, NoTask) \/ Becomes(c, t) \/ \E pc : Moves(c, pc)
        BY <3>2 DEF LockSource, AddClone, StartClone
      <4> QED
        BY <3>0, <4>2, <4>3 DEF Moves
    <3> QED
      BY <1>5, <3>1, <3>2
  <2>4. PICK t : task' = [task EXCEPT ![c] = t] /\ t.op \notin {"delete", "worktree"}
    BY <2>3
  <2>5. Spares(t, tree')
    BY <2>4 DEF Spares
  <2>6. tree' \in [Slugs -> {"absent", "clean", "dirty"}]
    BY <1>1 DEF WorkInv
  <2> QED
    BY <1>1, <1>3, <2>4, <2>5, <2>6, WorkStep
<1> QED
  BY <1>4, <1>5

LEMMA WorkInvStep == WorkInv /\ [TreeNext]_treeVars => WorkInv'
<1> SUFFICES ASSUME WorkInv, [TreeNext]_treeVars PROVE WorkInv'
  OBVIOUS
<1>1. LockInv'
  BY LockInvStep DEF WorkInv
<1>2. CASE UNCHANGED treeVars
  BY <1>1, <1>2 DEF treeVars, WorkInv
<1>3. CASE TreeCrash
  BY <1>1, <1>3 DEF TreeCrash, WorkInv, Spares, NoTask
<1>4. CASE Edits
  <2>1. PICK s \in Slugs :
          /\ \A c \in TreeClients : At(c, "worktree", "add") \/ At(c, "worktree", "undo")
                                      => task[c].slug # s
          /\ \E x \in {"clean", "dirty"} : tree' = [tree EXCEPT ![s] = x]
    BY <1>4 DEF Edits
  <2>2. UNCHANGED <<rows, task>>
    BY <1>4 DEF Edits
  <2>3. ASSUME NEW c \in TreeClients PROVE Spares(task[c], tree')
    <3>1. Spares(task[c], tree) /\ task[c] \in Tasks
      BY DEF WorkInv, LockInv
    <3>2. task[c].op = "worktree" /\ task[c].pc \in {"add", "undo"}
          => tree'[task[c].slug] = tree[task[c].slug]
      BY <2>1, <3>1 DEF At, NoTask, Tasks, WorktreeTasks, CloneTasks, DeleteTasks, WorkInv
    <3> QED
      BY <3>1, <3>2 DEF Spares
  <2> QED
    BY <1>1, <2>1, <2>2, <2>3 DEF WorkInv
<1>5. ASSUME NEW c \in TreeClients,
             \/ AddTop(c) \/ AskWorktree(c) \/ InsertParent(c) \/ DryRunEnds(c)
             \/ LockParent(c) \/ GitSteps(c) \/ AddChild(c) \/ UndoWorktree(c)
             \/ TakeChild(c) \/ LeaveChild(c) \/ EndWorktree(c)
             \/ AskClone(c) \/ LockSource(c) \/ AddClone(c) \/ StartClone(c)
             \/ AskDelete(c) \/ ReadSite(c) \/ NextKid(c) \/ LockDoomed(c)
             \/ RunDeletePlan(c) \/ DeleteTheRow(c)
      PROVE  WorkInv'
  BY <1>1, <1>5, WorkDelete, WorkWorktree, WorkClone
<1> QED
  BY <1>2, <1>3, <1>4, <1>5 DEF TreeNext

(* Uncommitted work disappears only in a delete that was asked to discard  *)
(* it, or with the parent of its worktree, for any sites and clients       *)
(* (DeleteSiteWithOptions, rollbackGitSteps): the delete plan passes the   *)
(* force it was given to git, and a creation undoes its own worktree only. *)
THEOREM UncommittedWorkIsKept == TreeSpec => WorkIsKept
<1> DEFINE Sanctioned(s) ==
      \E c \in TreeClients : /\ At(c, "delete", "plan") /\ task[c].slug = s
                             /\ task[c].mine \/ task[c].id # task[c].root
           Loss(s) == tree[s] = "dirty" /\ tree'[s] = "absent"
<1>1. WorkInv /\ [TreeNext]_treeVars =>
        [\A s \in Slugs : Loss(s) => Sanctioned(s)]_treeVars
  <2> SUFFICES ASSUME WorkInv, TreeNext, NEW s \in Slugs, Loss(s) PROVE Sanctioned(s)
    OBVIOUS
  <2>1. tree' # tree /\ tree \in [Slugs -> {"absent", "clean", "dirty"}]
    BY DEF WorkInv
  <2>2. \/ Edits
        \/ \E c \in TreeClients : GitSteps(c) \/ UndoWorktree(c) \/ RunDeletePlan(c)
    BY <2>1 DEF TreeNext, TreeCrash, AddTop, AskWorktree, InsertParent, DryRunEnds, LockParent,
                AddChild, TakeChild, LeaveChild, EndWorktree, AskClone, LockSource, AddClone,
                StartClone, AskDelete, ReadSite, NextKid, LockDoomed, DeleteTheRow
  <2>3. ~Edits
    BY <2>1 DEF Edits
  <2>4. ASSUME NEW c \in TreeClients, GitSteps(c) PROVE FALSE
    BY <2>1, <2>4 DEF GitSteps
  <2>5. ASSUME NEW c \in TreeClients, UndoWorktree(c) PROVE FALSE
    <3>1. /\ task[c].op = "worktree" /\ task[c].pc = "undo"
          /\ task[c].added /\ tree' = [tree EXCEPT ![task[c].slug] = "absent"]
      BY <2>1, <2>5 DEF UndoWorktree, At
    <3>2. tree[task[c].slug] # "dirty"
      BY <3>1 DEF WorkInv, Spares
    <3> QED
      BY <2>1, <3>1, <3>2
  <2>6. ASSUME NEW c \in TreeClients, RunDeletePlan(c) PROVE Sanctioned(s)
    <3>1. At(c, "delete", "plan")
      BY <2>6 DEF RunDeletePlan
    <3>2. task[c].slug = s /\ task[c].force
      BY <2>1, <2>6 DEF RunDeletePlan
    <3>3. task[c].mine \/ task[c].id # task[c].root
      BY <3>1, <3>2 DEF WorkInv, Spares, At
    <3> QED
      BY <3>1, <3>2, <3>3
  <2> QED
    BY <2>2, <2>3, <2>4, <2>5, <2>6
<1> QED
  BY <1>1, WorkInvInit, WorkInvStep, PTL DEF TreeSpec, WorkIsKept

(* The table in the terms of its type: what is put in is a row, and what a *)
(* delete or an undo takes out leaves none.                                *)
LEMMA RowIsPut ==
  ASSUME rows \in [Ids -> SiteRow \cup {Gone}], nextId \in 1..(MaxIds + 1),
         NEW p \in 0..MaxIds, NEW s \in Slugs, Inserted(p, s)
  PROVE  rows' \in [Ids -> SiteRow \cup {Gone}] /\ nextId' \in 1..(MaxIds + 1)
  BY SiteTreeAssumption DEF Inserted, SiteRow, Ids

LEMMA RowIsTaken ==
  ASSUME rows \in [Ids -> SiteRow \cup {Gone}], NEW i, Dropped(i)
  PROVE  rows' \in [Ids -> SiteRow \cup {Gone}]
  BY DEF Dropped

(* The table of sites, the ids, the mutexes, the worktrees and what every  *)
(* client is in the middle of stay of their types, for any sites, branches *)
(* and clients: a child's row names a parent that was given an id, since   *)
(* the parent is older (Younger).                                          *)
THEOREM TreeTypeCorrect == TreeSpec => []TreeTypeOK
<1> DEFINE Typed == /\ rows \in [Ids -> SiteRow \cup {Gone}]
                    /\ nextId \in 1..(MaxIds + 1) /\ tasks \in 0..MaxJobs
<1>1. TreeInit => Typed
  BY SiteTreeAssumption DEF TreeInit
<1>2. WorkInv /\ Typed /\ [TreeNext]_treeVars => Typed'
  <2> SUFFICES ASSUME WorkInv, Typed, [TreeNext]_treeVars PROVE Typed'
    OBVIOUS
  <2>1. \A r \in Remotes : <<r>> \in Slugs
    BY DEF Slugs
  <2>2. CASE Edits \/ TreeCrash \/ UNCHANGED treeVars
    BY <2>2 DEF Edits, TreeCrash, treeVars
  <2>3. ASSUME NEW c \in TreeClients, AddTop(c) PROVE Typed'
    BY <2>1, <2>3, RowIsPut, SiteTreeAssumption DEF AddTop
  <2>4. ASSUME NEW c \in TreeClients, AskWorktree(c) \/ AskClone(c) \/ AskDelete(c) PROVE Typed'
    <3>1. AskWorktree(c) => tasks < MaxJobs /\ tasks' = tasks + 1 /\ UNCHANGED <<rows, nextId>>
      BY Zenon DEF AskWorktree, Begins
    <3>2. AskClone(c) \/ AskDelete(c) => tasks < MaxJobs /\ tasks' = tasks + 1 /\ UNCHANGED <<rows, nextId>>
      BY Zenon DEF AskClone, AskDelete, Begins
    <3>3. tasks < MaxJobs /\ tasks' = tasks + 1 /\ UNCHANGED <<rows, nextId>>
      BY <2>4, <3>1, <3>2
    <3> QED
      BY <3>3, SiteTreeAssumption
  <2>5. ASSUME NEW c \in TreeClients, InsertParent(c) PROVE Typed'
    <3>1. task[c] \in WorktreeTasks /\ UNCHANGED tasks
      BY <2>5 DEF InsertParent, At, WorkInv, LockInv, Tasks, CloneTasks, DeleteTasks
    <3>2. <<task[c].slug[1]>> \in Slugs
      BY <2>1, <3>1 DEF WorktreeTasks, Slugs
    <3> QED
      BY <2>5, <3>1, <3>2, RowIsPut, SiteTreeAssumption DEF InsertParent
  <2>6. ASSUME NEW c \in TreeClients, AddChild(c) PROVE Typed'
    <3>1. task[c] \in WorktreeTasks /\ UNCHANGED tasks
      BY <2>6 DEF AddChild, At, WorkInv, LockInv, Tasks, CloneTasks, DeleteTasks
    <3>2. task[c].parent < nextId /\ task[c].parent \in Nat /\ task[c].slug \in Slugs
      BY <2>6, <3>1 DEF AddChild, At, WorkInv, LockInv, Younger, WorktreeTasks
    <3>3. nextId <= MaxIds => task[c].parent \in 0..MaxIds
      BY <3>2, SiteTreeAssumption
    <3> QED
      BY <2>6, <3>1, <3>2, <3>3, RowIsPut DEF AddChild, Inserted
  <2>7. ASSUME NEW c \in TreeClients, AddClone(c) PROVE Typed'
    <3>1. UNCHANGED tasks
      BY <2>7 DEF AddClone
    <3>2. CASE \E r \in Remotes : Inserted(0, <<r>>)
      BY <2>1, <3>1, <3>2, RowIsPut, SiteTreeAssumption
    <3>3. CASE UNCHANGED <<rows, nextId>>
      BY <3>1, <3>3
    <3> QED
      BY <2>7, <3>2, <3>3 DEF AddClone
  <2>8. ASSUME NEW c \in TreeClients, DryRunEnds(c) \/ UndoWorktree(c) PROVE Typed'
    BY <2>8, RowIsTaken DEF DryRunEnds, UndoWorktree
  <2>9. ASSUME NEW c \in TreeClients, DeleteTheRow(c) PROVE Typed'
    BY <2>9, RowIsTaken DEF DeleteTheRow
  <2>10. ASSUME NEW c \in TreeClients,
                \/ LockParent(c) \/ GitSteps(c) \/ TakeChild(c) \/ LeaveChild(c) \/ EndWorktree(c)
                \/ LockSource(c) \/ StartClone(c) \/ ReadSite(c) \/ NextKid(c) \/ LockDoomed(c)
                \/ RunDeletePlan(c)
         PROVE  Typed'
    BY <2>10 DEF LockParent, GitSteps, TakeChild, LeaveChild, EndWorktree, LockSource, StartClone,
                 ReadSite, NextKid, LockDoomed, RunDeletePlan
  <2> QED
    BY <2>2, <2>3, <2>4, <2>5, <2>6, <2>7, <2>8, <2>9, <2>10 DEF TreeNext
<1>3. WorkInv /\ Typed => TreeTypeOK
  BY DEF WorkInv, LockInv, TreeTypeOK, Holders
<1> QED
  BY <1>1, <1>2, <1>3, WorkInvInit, WorkInvStep, PTL DEF TreeSpec

-----------------------------------------------------------------------------
(* A site's database and its copies.                                       *)

(* What a migration holds at each of its steps, and, for one that nobody   *)
(* disturbed, how that is tied to the row's image, the running container,  *)
(* the volume and the snapshot files.                                      *)
RequestOK(r) ==
  r.op = "migrate" =>
    /\ ~r.skip /\ r.pc \notin {"boot", "snap"} => r.snap \in Snap
    /\ r.pc \in {"snap", "ask", "load"} => ~r.skip

AloneOK(r, image, on, vol, files) ==
  r.op = "migrate" /\ r.alone =>
    /\ r.pc \in {"stop", "flip"} /\ ~r.skip => r.snap \in files /\ r.snap.tab = vol.tab
    /\ r.pc = "reboot" => vol = [by |-> Fresh, tab |-> Blank]
    /\ r.pc \in {"reboot", "ask", "load", "down"} => image = r.target
    /\ r.pc \in {"ask", "load", "down"} => on = r.target /\ vol.by = r.target
    /\ r.pc \in {"ask", "load"} => vol.tab = Blank
    /\ r.pc = "down" => vol.tab = IF r.skip THEN Blank ELSE r.snap.tab

Volumes == [by : Images \cup {Fresh}, tab : Tabs]
Outcomes == {"done", "failed", "checksum", "migrated"}

DataInv ==
  /\ DataTypeOK
  /\ \A u \in Users : RequestOK(rq[u]) /\ AloneOK(rq[u], row.image, up, volume, snaps)

(* u's request becomes r; a migration of anybody else is alone no more.    *)
Acts(u, r) ==
  /\ DOMAIN rq' = Users /\ rq'[u] = r
  /\ \A v \in Users \ {u} : rq'[v] = IF rq[v].op = "migrate" THEN [rq[v] EXCEPT !.alone = FALSE] ELSE rq[v]

LEMMA RequestKinds ==
  ASSUME NEW r \in Requests
  PROVE  /\ r.op \in {"idle", "snapshot", "restore", "import", "migrate"}
         /\ (r.op = "idle" => r = Idle) /\ (r.op = "snapshot" => r \in SnapshotRq)
         /\ (r.op = "restore" => r \in RestoreRq) /\ (r.op = "import" => r \in ImportRq)
         /\ (r.op = "migrate" => r \in MigrateRq)
  BY DEF Requests, Idle, SnapshotRq, RestoreRq, ImportRq, MigrateRq

LEMMA DisturbedRq ==
  ASSUME NEW r \in MigrateRq, RequestOK(r)
  PROVE  LET q == [r EXCEPT !.alone = FALSE]
         IN q \in MigrateRq /\ RequestOK(q) /\ q.op = "migrate" /\ ~q.alone
<1> DEFINE q == [r EXCEPT !.alone = FALSE]
<1>1. q \in MigrateRq /\ q.pc = r.pc /\ q.skip = r.skip /\ q.snap = r.snap
  BY DEF MigrateRq
<1>2. q.op = "migrate" /\ ~q.alone
  BY DEF MigrateRq
<1> QED
  BY <1>1, <1>2 DEF RequestOK

LEMMA GoesActs == ASSUME NEW u \in Users, NEW r, Goes(u, r) PROVE Acts(u, r)
  BY DEF Goes, Acts, Disturbed

LEMMA StaysActs == ASSUME NEW u \in Users, rq[u] = Idle, rq' = Disturbed(u) PROVE Acts(u, Idle)
  BY DEF Acts, Disturbed, Idle

(* What a step by u has to establish: the types, and what its own request  *)
(* is tied to.                                                             *)
LEMMA DataStep ==
  ASSUME DataInv, NEW u \in Users, NEW r \in Requests, Acts(u, r),
         row' \in Row, up' \in Images \cup {Off}, volume' \in Volumes, snaps' \subseteq Snap,
         second' = second, past' \subseteq Tabs, asked' \in 0..MaxAsked, told' \in Outcomes,
         RequestOK(r), AloneOK(r, row'.image, up', volume', snaps')
  PROVE  DataInv'
<1>1. ASSUME NEW v \in Users, v # u
      PROVE  /\ rq'[v] \in Requests /\ RequestOK(rq'[v])
             /\ rq'[v].op = "migrate" => ~rq'[v].alone
  <2>1. rq[v] \in Requests /\ RequestOK(rq[v])
    BY <1>1 DEF DataInv, DataTypeOK
  <2>2. CASE rq[v].op = "migrate"
    <3>1. rq'[v] = [rq[v] EXCEPT !.alone = FALSE] /\ rq[v] \in MigrateRq
      BY <1>1, <2>1, <2>2, RequestKinds DEF Acts
    <3> QED
      BY <2>1, <3>1, DisturbedRq DEF Requests
  <2>3. CASE rq[v].op # "migrate"
    BY <1>1, <2>1, <2>3 DEF Acts
  <2> QED
    BY <2>2, <2>3
<1>2. rq'[u] = r /\ DOMAIN rq' = Users
  BY DEF Acts
<1>3. \A v \in Users : rq'[v] \in Requests
  BY <1>1, <1>2
<1>4. DataTypeOK'
  BY <1>2, <1>3 DEF DataInv, DataTypeOK, Volumes, Outcomes
<1>5. \A v \in Users : RequestOK(rq'[v]) /\ AloneOK(rq'[v], row'.image, up', volume', snaps')
  BY <1>1, <1>2 DEF AloneOK
<1> QED
  BY <1>4, <1>5 DEF DataInv

(* A request that ends ties nothing.                                       *)
LEMMA DataEnds ==
  ASSUME DataInv, NEW u \in Users, Acts(u, Idle),
         row' \in Row, up' \in Images \cup {Off}, volume' \in Volumes, snaps' \subseteq Snap,
         second' = second, past' \subseteq Tabs, asked' \in 0..MaxAsked, told' \in Outcomes
  PROVE  DataInv'
<1>1. Idle \in Requests /\ RequestOK(Idle) /\ AloneOK(Idle, row'.image, up', volume', snaps')
  BY DEF Idle, Requests, RequestOK, AloneOK
<1> QED
  BY <1>1, DataStep

LEMMA DataTypes ==
  ASSUME DataInv
  PROVE  /\ row \in Row /\ up \in Images \cup {Off} /\ volume \in Volumes /\ volume.tab \in Tabs
         /\ snaps \subseteq Snap /\ past \subseteq Tabs /\ asked \in 0..MaxAsked /\ told \in Outcomes
         /\ \A u \in Users : rq[u] \in Requests
  BY DEF DataInv, DataTypeOK, Volumes, Outcomes

(* A snapshot holds the tables there are, its file lies in the directory,  *)
(* and takes the place of another only within one second of it.            *)
LEMMA FiledSnapshots ==
  ASSUME DataInv, NEW site \in Row, NEW label \in Labels, NEW s \in Dumped(site, label)
  PROVE  /\ s \in Snap /\ s.tab = volume.tab /\ up # Off /\ Filed(s) \subseteq Snap /\ s \in Filed(s)
         /\ ~SameSecond => snaps \subseteq Filed(s)
<1>1. /\ s \in [label : {label}, at : {second}, image : {site.image}, tab : {volume.tab}, sum : SidecarOf]
      /\ up # Off /\ (SameSecond \/ \A x \in snaps : Name(x) # Name(s))
  BY DEF Dumped
<1>2. s \in Snap /\ s.tab = volume.tab
  BY <1>1, DataTypes DEF DataInv, DataTypeOK, Snap, Row, SidecarOf, Sums
<1> QED
  BY <1>1, <1>2, DataTypes DEF Filed

LEMMA OverlaidTyped == ASSUME DataInv, NEW dump \in Tabs, NEW part PROVE Overlaid(dump, part) \in Tabs
  BY DataTypes DEF Overlaid, Tabs

(* A dump loaded into an empty database gives the database it was made of. *)
LEMMA CarriedWhole ==
  ASSUME NEW dump \in Tabs, volume.tab = Blank
  PROVE  Overlaid(dump, Carried(dump)) = dump
<1>1. \A t \in Tables : Overlaid(dump, Carried(dump))[t] = dump[t]
  BY DEF Overlaid, Carried, Blank
<1> QED
  BY <1>1 DEF Overlaid, Tabs

LEMMA BlankTyped == Blank \in Tabs
  BY SiteDataAssumption DEF Blank, Tabs

(* The two ways out of a restore: it ran through, or it returned an error. *)
LEMMA RestoreOutcomes ==
  ASSUME DataInv, NEW u \in Users, NEW site \in Row, NEW snap \in Snap, NEW ACTION Done,
         Restored(u, site, snap, Done), UNCHANGED <<asked, row, up, second>>
  PROVE  /\ snaps' \subseteq Snap /\ volume' \in Volumes /\ volume'.by = volume.by /\ past' \subseteq Tabs
         /\ \/ Done /\ volume'.tab = Overlaid(snap.tab, Carried(snap.tab))
            \/ Acts(u, Idle) /\ told' \in {"failed", "checksum"}
<1>1. PICK kept \in {snaps} \cup {Filed(s) : s \in Dumped(site, "pre_restore")} :
        /\ snaps' = kept
        /\ \/ /\ \/ /\ volume' = [volume EXCEPT !.tab = Overlaid(snap.tab, Carried(snap.tab))]
                    /\ Done
                 \/ \E done \in SUBSET Carried(snap.tab) :
                      /\ volume' = [volume EXCEPT !.tab = Overlaid(snap.tab, done)]
                      /\ Returns(u, "failed")
              /\ past' = IF kept # snaps THEN past \cup {volume.tab} ELSE past
           \/ UNCHANGED <<volume, past>> /\ Returns(u, "checksum")
           \/ UNCHANGED <<volume, past>> /\ Returns(u, "failed")
  BY DEF Restored
<1>2. kept \subseteq Snap
  BY <1>1, FiledSnapshots, DataTypes DEF Labels
<1>3. past' \subseteq Tabs
  BY <1>1, DataTypes
<1>4. snap.tab \in Tabs
  BY DEF Snap
<1>5. \A part : /\ [volume EXCEPT !.tab = Overlaid(snap.tab, part)] \in Volumes
                /\ [volume EXCEPT !.tab = Overlaid(snap.tab, part)].by = volume.by
                /\ [volume EXCEPT !.tab = Overlaid(snap.tab, part)].tab = Overlaid(snap.tab, part)
  BY <1>4, OverlaidTyped, DataTypes DEF Volumes
<1>6. volume' \in Volumes /\ volume'.by = volume.by
  BY <1>1, <1>5, DataTypes
<1>7. \/ Done /\ volume'.tab = Overlaid(snap.tab, Carried(snap.tab))
      \/ Returns(u, "failed") \/ Returns(u, "checksum")
  BY <1>1, <1>5
<1> QED
  BY <1>1, <1>2, <1>3, <1>6, <1>7, GoesActs DEF Returns

LEMMA DataInvInit == DataInit => DataInv
<1> SUFFICES ASSUME DataInit PROVE DataInv
  OBVIOUS
<1>1. PICK i \in Images :
        /\ row = [started |-> TRUE, image |-> i] /\ up = i
        /\ volume = [by |-> i, tab |-> [t \in Tables |-> 1]]
        /\ snaps \in {{}} \cup
             {{s} : s \in [label: {"manual"}, at: {0}, image: {i}, tab: {volume.tab}, sum: SidecarOf]}
  BY DEF DataInit
<1>2. volume.tab \in Tabs /\ volume.tab = [t \in Tables |-> 1]
  BY <1>1, SiteDataAssumption DEF Tabs
<1>3. snaps \subseteq Snap
  BY <1>1, <1>2, SiteDataAssumption DEF Snap, Labels, SidecarOf, Sums
<1>4. \A u \in Users : rq[u] = Idle
  BY DEF DataInit
<1> QED
  BY <1>1, <1>2, <1>3, <1>4, SiteDataAssumption
     DEF DataInit, DataInv, DataTypeOK, Row, Requests, Idle, RequestOK, AloneOK

(* Steps of nobody in particular.                                          *)
LEMMA DataOthers ==
  ASSUME DataInv, SiteWrites \/ ClockTicks \/ DbDies \/ SweepSnapshots
  PROVE  DataInv'
<1>1. ASSUME NEW r \in MigrateRq, RequestOK(r) PROVE [r EXCEPT !.alone = FALSE] \in Requests
  BY <1>1, DisturbedRq DEF Requests
<1>2. CASE SiteWrites \/ DbDies
  <2>1. volume' \in Volumes /\ up' \in Images \cup {Off}
    <3>1. CASE SiteWrites
      <4>1. PICK t \in Tables : /\ volume.tab[t] < MaxWrites
                                /\ volume' = [volume EXCEPT !.tab[t] = @ + 1]
        BY <3>1 DEF SiteWrites
      <4>2. volume.tab[t] + 1 \in 0..MaxWrites
        BY <4>1, DataTypes, SiteDataAssumption DEF Tabs
      <4>3. volume'.tab = [volume.tab EXCEPT ![t] = @ + 1] /\ volume'.by = volume.by
        BY <4>1, DataTypes DEF Volumes
      <4>4. volume'.tab \in Tabs
        BY <4>2, <4>3, DataTypes DEF Tabs
      <4>5. volume' \in [by : Images \cup {Fresh}, tab : Tabs]
        BY <4>1, <4>4, DataTypes DEF Volumes
      <4> QED
        BY <3>1, <4>5, DataTypes DEF SiteWrites, Volumes
    <3>2. CASE DbDies
      BY <3>2, DataTypes DEF DbDies
    <3> QED
      BY <1>2, <3>1, <3>2
  <2>2. rq' = [v \in Users |-> IF rq[v].op = "migrate" THEN [rq[v] EXCEPT !.alone = FALSE] ELSE rq[v]]
    BY <1>2 DEF SiteWrites, DbDies
  <2>3. \A v \in Users : /\ rq'[v] \in Requests /\ RequestOK(rq'[v])
                         /\ rq'[v].op = "migrate" => ~rq'[v].alone
    <3> TAKE v \in Users
    <3>1. rq[v] \in Requests /\ RequestOK(rq[v])
      BY DEF DataInv, DataTypeOK
    <3>2. CASE rq[v].op = "migrate"
      BY <1>1, <2>2, <3>1, <3>2, RequestKinds, DisturbedRq
    <3>3. CASE rq[v].op # "migrate"
      BY <2>2, <3>1, <3>3
    <3> QED
      BY <3>2, <3>3
  <2>4. UNCHANGED <<row, snaps, second, told, past, asked>> /\ DOMAIN rq' = Users
    BY <1>2, <2>2 DEF SiteWrites, DbDies
  <2> QED
    BY <2>1, <2>3, <2>4 DEF DataInv, DataTypeOK, AloneOK, Volumes
<1>3. CASE ClockTicks
  BY <1>3, SiteDataAssumption DEF ClockTicks, DataInv, DataTypeOK
<1>4. CASE SweepSnapshots
  <2>1. \A u \in Users : rq[u] = Idle
    BY <1>4 DEF SweepSnapshots
  <2>2. snaps' \subseteq snaps /\ past' \subseteq past
    BY <1>4 DEF SweepSnapshots, Forget, kSubset
  <2> QED
    BY <1>4, <2>1, <2>2 DEF SweepSnapshots, DataInv, DataTypeOK, AloneOK, RequestOK, Idle
<1> QED
  BY <1>2, <1>3, <1>4

(* Everything but the migration.                                           *)
LEMMA BootedTyped ==
  ASSUME DataInv, NEW site \in Row, Booted(site)
  PROVE  row' \in Row /\ up' \in Images \cup {Off} /\ volume' \in Volumes
         /\ row'.image = site.image /\ up' = site.image /\ volume'.by = site.image /\ volume'.tab = volume.tab
  BY DataTypes DEF Booted, Volumes, Row

LEMMA HaltedTyped ==
  ASSUME DataInv, Halted PROVE row' \in Row /\ up' = Off /\ row'.image = row.image
  BY DataTypes DEF Halted, Row

LEMMA AsksTyped ==
  ASSUME DataInv, NEW u \in Users, Asks(u) PROVE asked' \in 0..MaxAsked /\ rq[u] = Idle
  BY DataTypes, SiteDataAssumption DEF Asks

LEMMA DataRequests ==
  ASSUME DataInv, NEW u \in Users,
         \/ Start(u) \/ Stop(u) \/ AskSnapshot(u) \/ TakeSnapshot(u) \/ AskRestore(u) \/ Restore(u)
         \/ AskImport(u) \/ Import(u) \/ ImportRefused(u) \/ Export(u) \/ DeleteSnapshot(u) \/ Crash(u)
  PROVE  DataInv'
<1>1. CASE Start(u) \/ Stop(u)
  <2>1. Acts(u, Idle)
    BY <1>1, StaysActs DEF Start, Stop
  <2>2. row' \in Row /\ up' \in Images \cup {Off} /\ volume' \in Volumes
    BY <1>1, DataTypes, BootedTyped, HaltedTyped DEF Start, Stop
  <2> QED
    BY <1>1, <2>1, <2>2, DataTypes, DataEnds DEF Start, Stop
<1>2. CASE AskSnapshot(u) \/ AskRestore(u) \/ AskImport(u)
  <2>1. PICK r \in Requests : Goes(u, r) /\ r.op # "migrate"
    <3>1. CASE AskSnapshot(u)
      BY <3>1, DataTypes DEF AskSnapshot, Asked, Requests, SnapshotRq
    <3>2. CASE AskRestore(u)
      BY <3>2, DataTypes DEF AskRestore, Requests, RestoreRq
    <3>3. CASE AskImport(u)
      BY <3>3, DataTypes DEF AskImport, Requests, ImportRq
    <3> QED
      BY <1>2, <3>1, <3>2, <3>3
  <2>2. asked' \in 0..MaxAsked
    BY <1>2, AsksTyped DEF AskSnapshot, AskRestore, AskImport
  <2>3. RequestOK(r) /\ AloneOK(r, row'.image, up', volume', snaps')
    BY <2>1 DEF RequestOK, AloneOK
  <2> QED
    BY <1>2, <2>1, <2>2, <2>3, GoesActs, DataTypes, DataStep DEF AskSnapshot, AskRestore, AskImport
<1>3. CASE TakeSnapshot(u)
  <2>1. rq[u].site \in Row
    BY <1>3, DataTypes, RequestKinds DEF TakeSnapshot, SnapshotRq
  <2>2. snaps' \subseteq Snap
    BY <1>3, <2>1, DataTypes, FiledSnapshots DEF TakeSnapshot, Labels
  <2>3. Acts(u, Idle) /\ told' \in Outcomes
    BY <1>3, GoesActs DEF TakeSnapshot, Returns, Outcomes
  <2> QED
    BY <1>3, <2>2, <2>3, DataTypes, DataEnds DEF TakeSnapshot
<1>4. CASE Restore(u)
  <2>1. rq[u].site \in Row /\ rq[u].snap \in Snap
    BY <1>4, DataTypes, RequestKinds DEF Restore, RestoreRq
  <2>2. /\ snaps' \subseteq Snap /\ volume' \in Volumes /\ past' \subseteq Tabs
        /\ Returns(u, "done") \/ (Acts(u, Idle) /\ told' \in {"failed", "checksum"})
    BY <1>4, <2>1, RestoreOutcomes DEF Restore
  <2>3. Acts(u, Idle) /\ told' \in Outcomes
    BY <2>2, GoesActs DEF Returns, Outcomes
  <2> QED
    BY <1>4, <2>2, <2>3, DataTypes, DataEnds DEF Restore
<1>5. CASE Import(u)
  <2>1. rq[u].site \in Row
    BY <1>5, DataTypes, RequestKinds DEF Import, ImportRq
  <2>2. snaps' \subseteq Snap
    BY <1>5, <2>1, DataTypes, FiledSnapshots DEF Import, Labels
  <2>3. past' \subseteq Tabs /\ Acts(u, Idle) /\ told' \in Outcomes
    BY <1>5, DataTypes, GoesActs DEF Import, Returns, Outcomes
  <2>4. volume' \in Volumes
    <3>1. ASSUME NEW part \in SUBSET Tables
          PROVE  [t \in Tables |-> IF t \in part THEN 1 ELSE volume.tab[t]] \in Tabs
      BY DataTypes, SiteDataAssumption DEF Tabs
    <3>2. \/ UNCHANGED volume
          \/ \E part \in SUBSET Tables :
                volume' = [volume EXCEPT !.tab = [t \in Tables |-> IF t \in part THEN 1 ELSE volume.tab[t]]]
      BY <1>5 DEF Import
    <3> QED
      BY <3>1, <3>2, DataTypes DEF Volumes
  <2> QED
    BY <1>5, <2>2, <2>3, <2>4, DataTypes, DataEnds DEF Import
<1>6. CASE ImportRefused(u) \/ Export(u) \/ Crash(u)
  <2>1. Acts(u, Idle) /\ told' \in Outcomes
    BY <1>6, GoesActs DEF ImportRefused, Export, Crash, Returns, Outcomes
  <2> QED
    BY <1>6, <2>1, DataTypes, DataEnds DEF ImportRefused, Export, Crash
<1>7. CASE DeleteSnapshot(u)
  <2>1. Acts(u, Idle) /\ snaps' \subseteq snaps /\ past' \subseteq past
    BY <1>7, StaysActs DEF DeleteSnapshot, Forget
  <2> QED
    BY <1>7, <2>1, DataTypes, DataEnds DEF DeleteSnapshot
<1> QED
  BY <1>1, <1>2, <1>3, <1>4, <1>5, <1>6, <1>7

LEMMA MigrateMoves ==
  ASSUME DataInv, NEW u \in Users, NEW r \in MigrateRq, Goes(u, r), RequestOK(r),
         row' \in Row, up' \in Images \cup {Off}, volume' \in Volumes, snaps' \subseteq Snap,
         second' = second, past' \subseteq Tabs, asked' \in 0..MaxAsked, told' \in Outcomes,
         AloneOK(r, row'.image, up', volume', snaps')
  PROVE  DataInv'
  BY GoesActs, DataStep DEF Requests

(* The migration, from its request to its end.                             *)
LEMMA DataMigration ==
  ASSUME DataInv, NEW u \in Users,
         \/ AskMigrate(u) \/ MigrateBoots(u) \/ MigrateSnapshots(u) \/ MigrateStops(u) \/ MigrateFlips(u)
         \/ MigrateRestarts(u) \/ MigrateAsksRestore(u) \/ MigrateRestores(u) \/ MigrateEnds(u)
  PROVE  DataInv'
<1> DEFINE r == rq[u]
           Types == /\ row' \in Row /\ up' \in Images \cup {Off} /\ volume' \in Volumes /\ snaps' \subseteq Snap
                    /\ second' = second /\ past' \subseteq Tabs /\ asked' \in 0..MaxAsked
<1>1. ASSUME Types, NEW out \in Outcomes, Returns(u, out) PROVE DataInv'
  BY <1>1, GoesActs, DataEnds DEF Returns
<1>2. r \in Requests /\ RequestOK(r) /\ AloneOK(r, row.image, up, volume, snaps)
  BY DEF DataInv, DataTypeOK
<1>3. CASE AskMigrate(u)
  <2>1. PICK target \in Images, skip \in {FALSE, MaySkip} :
          IF target = row.image
          THEN Returns(u, "migrated")
          ELSE /\ Goes(u, [op |-> "migrate", site |-> row, target |-> target,
                           was |-> row.started, skip |-> skip, snap |-> NoSnap,
                           alone |-> TRUE, pc |-> IF ~row.started THEN "boot"
                                                  ELSE IF skip THEN "stop" ELSE "snap"])
               /\ UNCHANGED told
    BY <1>3 DEF AskMigrate
  <2>2. Types
    BY <1>3, AsksTyped, DataTypes DEF AskMigrate
  <2>3. CASE target = row.image
    BY <1>1, <2>1, <2>2, <2>3 DEF Outcomes
  <2>4. CASE target # row.image
    <3> DEFINE pc == IF ~row.started THEN "boot" ELSE IF skip THEN "stop" ELSE "snap"
               q == [op |-> "migrate", site |-> row, target |-> target, was |-> row.started, skip |-> skip,
                     snap |-> NoSnap, alone |-> TRUE, pc |-> pc]
    <3>1. /\ pc \in {"boot", "stop", "snap"} /\ (pc = "snap" => ~skip) /\ (pc = "stop" => skip)
          /\ skip \in BOOLEAN /\ row.started \in BOOLEAN
      BY DataTypes, SiteDataAssumption DEF Row
    <3>2. q \in MigrateRq
      BY <3>1, DataTypes DEF MigrateRq, Pcs
    <3>3. RequestOK(q) /\ AloneOK(q, row'.image, up', volume', snaps')
      BY <3>1 DEF RequestOK, AloneOK
    <3>4. Goes(u, q) /\ UNCHANGED told
      BY <2>1, <2>4
    <3> HIDE DEF q
    <3> QED
      BY <2>2, <3>2, <3>3, <3>4, DataTypes, MigrateMoves
  <2> QED
    BY <2>3, <2>4
<1>4. ASSUME r.op = "migrate" PROVE r \in MigrateRq
  BY <1>2, <1>4, RequestKinds
(* A step to another pc, with the rest of the request as it was.           *)
<1>5. ASSUME r.op = "migrate", NEW pc \in Pcs \ {"enter"}
      PROVE  LET q == [r EXCEPT !.pc = pc] IN
             /\ q \in MigrateRq /\ q.pc = pc /\ q.op = "migrate"
             /\ q.site = r.site /\ q.target = r.target /\ q.was = r.was /\ q.skip = r.skip
             /\ q.snap = r.snap /\ q.alone = r.alone
  BY <1>4, <1>5 DEF MigrateRq
<1>6. CASE MigrateBoots(u)
  <2>1. Types
    BY <1>6, DataTypes, BootedTyped DEF MigrateBoots
  <2>2. CASE Returns(u, "failed")
    BY <1>1, <2>1, <2>2 DEF Outcomes
  <2>3. CASE Booted(row) /\ UNCHANGED told
             /\ Goes(u, [r EXCEPT !.site = row', !.pc = IF r.skip THEN "stop" ELSE "snap"])
    <3> DEFINE pc == IF r.skip THEN "stop" ELSE "snap"
               q == [r EXCEPT !.site = row', !.pc = pc]
    <3>1. r \in MigrateRq /\ pc \in {"stop", "snap"} /\ (pc = "snap" <=> ~r.skip)
      BY <1>4, <1>6 DEF MigrateBoots, MigrateRq
    <3>2. q \in MigrateRq /\ q.pc = pc /\ q.skip = r.skip /\ q.snap = r.snap
      BY <2>1, <3>1 DEF MigrateRq, Pcs
    <3>3. RequestOK(q) /\ AloneOK(q, row'.image, up', volume', snaps')
      BY <3>1, <3>2 DEF RequestOK, AloneOK
    <3> HIDE DEF q
    <3> QED
      BY <2>1, <2>3, <3>2, <3>3, DataTypes, MigrateMoves DEF q
  <2> QED
    BY <1>6, <2>2, <2>3 DEF MigrateBoots
<1>7. CASE MigrateSnapshots(u)
  <2>0. r \in MigrateRq /\ r.pc = "snap" /\ r.site \in Row /\ ~r.skip
    BY <1>2, <1>4, <1>7 DEF MigrateSnapshots, MigrateRq, RequestOK
  <2>1. CASE Returns(u, "failed") /\ snaps' = snaps
    BY <1>1, <1>7, <2>1, DataTypes DEF MigrateSnapshots, Outcomes
  <2>2. ASSUME NEW s \in Dumped(r.site, "pre_migrate"), snaps' = Filed(s), UNCHANGED told,
               Goes(u, [r EXCEPT !.snap = s, !.pc = "stop"])
        PROVE  DataInv'
    <3> DEFINE q == [r EXCEPT !.snap = s, !.pc = "stop"]
    <3>1. s \in Snap /\ s.tab = volume.tab /\ Filed(s) \subseteq Snap /\ s \in Filed(s)
      BY <2>0, FiledSnapshots DEF Labels
    <3>2. q \in MigrateRq /\ q.pc = "stop" /\ q.skip = r.skip /\ q.snap = s
      BY <2>0, <3>1 DEF MigrateRq, Pcs
    <3>3. UNCHANGED <<asked, row, up, volume, second, past>>
      BY <1>7 DEF MigrateSnapshots
    <3>4. RequestOK(q) /\ AloneOK(q, row'.image, up', volume', snaps')
      BY <2>2, <3>1, <3>2, <3>3 DEF RequestOK, AloneOK
    <3> HIDE DEF q
    <3> QED
      BY <2>2, <3>1, <3>2, <3>3, <3>4, DataTypes, MigrateMoves DEF q
  <2> QED
    BY <1>7, <2>1, <2>2 DEF MigrateSnapshots
<1>8. CASE MigrateStops(u)
  <2>0. r.op = "migrate" /\ r.pc = "stop"
    BY <1>8 DEF MigrateStops
  <2>1. Types
    BY <1>8, DataTypes, HaltedTyped DEF MigrateStops
  <2>2. CASE Returns(u, "failed")
    BY <1>1, <2>1, <2>2 DEF Outcomes
  <2>3. CASE Step(u, "flip") /\ UNCHANGED told
    <3> DEFINE q == [r EXCEPT !.pc = "flip"]
    <3>1. /\ q \in MigrateRq /\ q.pc = "flip" /\ q.skip = r.skip /\ q.snap = r.snap /\ q.alone = r.alone
          /\ Goes(u, q)
      BY <1>5, <2>0, <2>3 DEF Step, Pcs
    <3>2. RequestOK(q) /\ AloneOK(q, row'.image, up', volume', snaps')
      BY <1>2, <1>8, <2>0, <3>1 DEF RequestOK, AloneOK, MigrateStops
    <3> HIDE DEF q
    <3> QED
      BY <2>1, <2>3, <3>1, <3>2, DataTypes, MigrateMoves
  <2> QED
    BY <1>8, <2>2, <2>3 DEF MigrateStops
<1>9. CASE MigrateFlips(u)
  <2>0. r \in MigrateRq /\ r.op = "migrate" /\ r.pc = "flip"
    BY <1>4, <1>9 DEF MigrateFlips
  <2>1. CASE UNCHANGED <<volume, row, past>> /\ Returns(u, "failed")
    BY <1>1, <1>9, <2>1, DataTypes DEF MigrateFlips, Outcomes
  <2>2. CASE /\ volume' = [by |-> Fresh, tab |-> Blank]
             /\ past' = IF r.alone /\ ~r.skip THEN past \cup {volume.tab} ELSE past
             /\ \/ /\ row' = [r.site EXCEPT !.image = r.target]
                   /\ Step(u, "reboot") /\ UNCHANGED told
                \/ UNCHANGED row /\ Returns(u, "failed")
    <3>1. row' = [r.site EXCEPT !.image = r.target] => row' \in Row /\ row'.image = r.target
      BY <2>0 DEF MigrateRq, Row
    <3>2. volume' \in Volumes /\ past' \subseteq Tabs
      BY <2>2, BlankTyped, DataTypes DEF Volumes
    <3>3. Types
      BY <1>9, <2>2, <3>1, <3>2, DataTypes DEF MigrateFlips
    <3>4. CASE Returns(u, "failed")
      BY <1>1, <3>3, <3>4 DEF Outcomes
    <3>5. CASE row' = [r.site EXCEPT !.image = r.target] /\ Step(u, "reboot") /\ UNCHANGED told
      <4> DEFINE q == [r EXCEPT !.pc = "reboot"]
      <4>1. /\ q \in MigrateRq /\ q.pc = "reboot" /\ q.skip = r.skip /\ q.snap = r.snap /\ q.target = r.target
            /\ Goes(u, q)
        BY <1>5, <2>0, <3>5 DEF Step, Pcs
      <4>2. RequestOK(q)
        BY <1>2, <2>0, <4>1 DEF RequestOK
      <4>3. AloneOK(q, row'.image, up', volume', snaps')
        BY <2>2, <3>1, <3>5, <4>1 DEF AloneOK
      <4> HIDE DEF q
      <4> QED
        BY <3>3, <3>5, <4>1, <4>2, <4>3, DataTypes, MigrateMoves
    <3> QED
      BY <2>2, <3>4, <3>5
  <2> QED
    BY <1>9, <2>1, <2>2 DEF MigrateFlips
<1>10. CASE MigrateRestarts(u)
  <2>0. r \in MigrateRq /\ r.op = "migrate" /\ r.pc = "reboot"
    BY <1>4, <1>10 DEF MigrateRestarts
  <2>1. Types
    BY <1>10, DataTypes, BootedTyped DEF MigrateRestarts
  <2>2. CASE Returns(u, "failed")
    BY <1>1, <2>1, <2>2 DEF Outcomes
  <2>3. CASE Booted(row) /\ UNCHANGED told /\ Step(u, IF r.skip THEN "down" ELSE "ask")
    <3> DEFINE pc == IF r.skip THEN "down" ELSE "ask"
               q == [r EXCEPT !.pc = pc]
    <3>0. pc \in Pcs \ {"enter"} /\ pc \in {"down", "ask"} /\ (pc = "down" <=> r.skip)
      BY <2>0 DEF Pcs, MigrateRq
    <3> HIDE DEF pc
    <3>1. /\ q \in MigrateRq /\ q.pc = pc /\ q.skip = r.skip /\ q.snap = r.snap /\ q.target = r.target
          /\ q.alone = r.alone
      BY <1>5, <2>0, <3>0
    <3>2. RequestOK(q)
      BY <1>2, <2>0, <3>0, <3>1 DEF RequestOK
    <3>3. row'.image = row.image /\ up' = row.image /\ volume'.by = row.image /\ volume'.tab = volume.tab
      BY <2>3, DataTypes, BootedTyped
    <3>4. AloneOK(q, row'.image, up', volume', snaps')
      BY <1>2, <2>0, <3>0, <3>1, <3>3 DEF AloneOK
    <3>5. Goes(u, q)
      BY <2>3 DEF Step, pc
    <3> HIDE DEF q
    <3> QED
      BY <2>1, <2>3, <3>1, <3>2, <3>4, <3>5, DataTypes, MigrateMoves
  <2> QED
    BY <1>10, <2>2, <2>3 DEF MigrateRestarts
<1>11. CASE MigrateAsksRestore(u)
  <2>0. r \in MigrateRq /\ r.op = "migrate" /\ r.pc = "ask"
    BY <1>4, <1>11 DEF MigrateAsksRestore
  <2>1. Types
    BY <1>11, DataTypes DEF MigrateAsksRestore
  <2>2. CASE Returns(u, "failed")
    BY <1>1, <2>1, <2>2 DEF Outcomes
  <2>3. CASE Goes(u, [r EXCEPT !.pc = "load", !.site = row]) /\ UNCHANGED told
    <3> DEFINE q == [r EXCEPT !.pc = "load", !.site = row]
    <3>1. /\ q \in MigrateRq /\ q.pc = "load" /\ q.skip = r.skip /\ q.snap = r.snap /\ q.target = r.target
          /\ q.alone = r.alone
      BY <2>0, DataTypes DEF MigrateRq, Pcs
    <3>2. RequestOK(q) /\ AloneOK(q, row'.image, up', volume', snaps')
      BY <1>2, <1>11, <2>0, <3>1 DEF RequestOK, AloneOK, MigrateAsksRestore
    <3> HIDE DEF q
    <3> QED
      BY <2>1, <2>3, <3>1, <3>2, DataTypes, MigrateMoves DEF q
  <2> QED
    BY <1>11, <2>2, <2>3 DEF MigrateAsksRestore
<1>12. CASE MigrateRestores(u)
  <2>0. /\ r \in MigrateRq /\ r.op = "migrate" /\ r.pc = "load"
        /\ ~r.skip /\ r.snap \in Snap /\ r.snap.tab \in Tabs /\ r.site \in Row
    BY <1>2, <1>4, <1>12 DEF MigrateRestores, RequestOK, MigrateRq, Snap
  <2>1. /\ snaps' \subseteq Snap /\ volume' \in Volumes /\ volume'.by = volume.by /\ past' \subseteq Tabs
        /\ \/ Step(u, "down") /\ UNCHANGED told /\ volume'.tab = Overlaid(r.snap.tab, Carried(r.snap.tab))
           \/ Acts(u, Idle) /\ told' \in {"failed", "checksum"}
    <3>1. UNCHANGED <<asked, row, up, second>> /\ Restored(u, r.site, r.snap, Step(u, "down") /\ UNCHANGED told)
      BY <1>12 DEF MigrateRestores
    <3> QED
      BY <2>0, <3>1, RestoreOutcomes
  <2>2. Types
    BY <1>12, <2>1, DataTypes DEF MigrateRestores
  <2>3. CASE Acts(u, Idle) /\ told' \in {"failed", "checksum"}
    BY <2>2, <2>3, DataEnds DEF Outcomes
  <2>4. CASE Step(u, "down") /\ UNCHANGED told /\ volume'.tab = Overlaid(r.snap.tab, Carried(r.snap.tab))
    <3> DEFINE q == [r EXCEPT !.pc = "down"]
    <3>1. /\ q \in MigrateRq /\ q.pc = "down" /\ q.skip = r.skip /\ q.snap = r.snap /\ q.target = r.target
          /\ q.alone = r.alone /\ Goes(u, q)
      BY <1>5, <2>0, <2>4 DEF Step, Pcs
    <3>2. RequestOK(q)
      BY <1>2, <2>0, <3>1 DEF RequestOK
    <3>3. volume.tab = Blank => volume'.tab = r.snap.tab
      BY <2>0, <2>4, CarriedWhole
    <3>4. AloneOK(q, row'.image, up', volume', snaps')
      BY <1>2, <1>12, <2>0, <2>1, <3>1, <3>3 DEF AloneOK, MigrateRestores
    <3> HIDE DEF q
    <3> QED
      BY <2>2, <2>4, <3>1, <3>2, <3>4, DataTypes, MigrateMoves
  <2> QED
    BY <2>1, <2>3, <2>4
<1>13. CASE MigrateEnds(u)
  <2>1. Types
    BY <1>13, DataTypes, HaltedTyped DEF MigrateEnds
  <2> QED
    BY <1>1, <1>13, <2>1 DEF MigrateEnds, Outcomes
<1> QED
  BY <1>3, <1>6, <1>7, <1>8, <1>9, <1>10, <1>11, <1>12, <1>13

LEMMA DataInvStep == DataInv /\ [DataNext]_dataVars => DataInv'
<1>1. DataInv /\ UNCHANGED dataVars => DataInv'
  BY DEF dataVars, DataInv, DataTypeOK
<1> QED
  BY <1>1, DataOthers, DataRequests, DataMigration DEF DataNext

(* The row, the container, the volume, the files and every client's        *)
(* request stay of their types.                                            *)
THEOREM DataTypeCorrect == DataSpec => []DataTypeOK
<1>1. DataInv => DataTypeOK
  BY DEF DataInv
<1> QED
  BY <1>1, DataInvInit, DataInvStep, PTL DEF DataSpec

(* A snapshot adds the live tables to the copies, and takes none away when *)
(* its name is new.                                                        *)
LEMMA FiledCopies ==
  ASSUME ~SameSecond, DataInv, NEW site \in Row, NEW label \in Labels, NEW s \in Dumped(site, label)
  PROVE  /\ volume.tab # Blank /\ Filed(s) # snaps
         /\ {x.tab : x \in Filed(s)} = {x.tab : x \in snaps} \cup {volume.tab}
<1>1. /\ s.tab = volume.tab /\ s \in Filed(s) /\ snaps \subseteq Filed(s)
  BY FiledSnapshots
<1>2. volume.tab # Blank /\ \A x \in snaps : Name(x) # Name(s)
  BY DEF Dumped
<1>3. Filed(s) = snaps \cup {s}
  BY <1>1, <1>2 DEF Filed
<1>4. s \notin snaps
  BY <1>2
<1> QED
  BY <1>1, <1>2, <1>3, <1>4

LEMMA RestoreIsSafe ==
  ASSUME ~SameSecond, DataInv, NEW u \in Users, NEW site \in Row, NEW snap \in Snap, NEW ACTION Done,
         Restored(u, site, snap, Done)
  PROVE  [Safe!Next]_Safe!vars
<1> DEFINE copies == {x.tab : x \in snaps}
<1>1. PICK kept \in {snaps} \cup {Filed(s) : s \in Dumped(site, "pre_restore")} :
        /\ snaps' = kept
        /\ \/ /\ snap \in kept
              /\ \E done \in SUBSET Carried(snap.tab) :
                   volume' = [volume EXCEPT !.tab = Overlaid(snap.tab, done)]
              /\ past' = IF kept # snaps THEN past \cup {volume.tab} ELSE past
           \/ UNCHANGED <<volume, past>>
  BY DEF Restored
<1>2. \/ kept = snaps
      \/ /\ kept # snaps /\ volume.tab # Blank
         /\ {x.tab : x \in kept} = copies \cup {volume.tab}
  BY <1>1, FiledCopies DEF Labels
<1>3. CASE UNCHANGED <<volume, past>>
  <2>1. CASE kept = snaps
    BY <1>1, <1>3, <2>1 DEF Safe!vars
  <2>2. CASE kept # snaps
    <3>1. Safe!Copy
      BY <1>1, <1>2, <1>3, <2>2 DEF Safe!Copy, Safe!Blank, Blank
    <3> QED
      BY <3>1 DEF Safe!Next
  <2> QED
    BY <2>1, <2>2
<1>4. ASSUME NEW done \in SUBSET Carried(snap.tab), snap \in kept,
             volume' = [volume EXCEPT !.tab = Overlaid(snap.tab, done)],
             past' = IF kept # snaps THEN past \cup {volume.tab} ELSE past
      PROVE  Safe!Restore
  <2>1. Safe!Saved \/ Safe!Unsaved
    BY <1>1, <1>2, <1>4 DEF Safe!Saved, Safe!Unsaved, Safe!Blank, Blank
  <2>2. snap.tab \in {x.tab : x \in snaps'}
    BY <1>1, <1>4
  <2>3. done \in SUBSET {t \in Tables : snap.tab[t] # 0}
    BY <1>4 DEF Carried
  <2>4. volume'.tab = [t \in Tables |-> IF t \in done THEN snap.tab[t] ELSE volume.tab[t]]
    BY <1>4, DataTypes DEF Overlaid, Volumes
  <2> QED
    BY <2>1, <2>2, <2>3, <2>4 DEF Safe!Restore
<1> QED
  BY <1>1, <1>3, <1>4 DEF Safe!Next

LEMMA ImportIsSafe ==
  ASSUME ~SameSecond, DataInv, NEW u \in Users, Import(u)
  PROVE  [Safe!Next]_Safe!vars
<1> DEFINE copies == {x.tab : x \in snaps}
<1>1. rq[u].site \in Row /\ rq[u].skip \in BOOLEAN
  BY DataTypes, RequestKinds DEF Import, ImportRq
<1>2. PICK kept \in IF rq[u].skip THEN {snaps} ELSE {Filed(s) : s \in Dumped(rq[u].site, "pre_import")} :
        /\ snaps' = kept
        /\ \/ /\ \E done \in SUBSET Tables :
                   volume' = [volume EXCEPT !.tab = [t \in Tables |-> IF t \in done THEN 1 ELSE @[t]]]
              /\ past' = IF rq[u].skip THEN past ELSE past \cup {volume.tab}
           \/ UNCHANGED <<volume, past>>
  BY DEF Import
<1>3. \/ rq[u].skip /\ kept = snaps
      \/ /\ ~rq[u].skip /\ volume.tab # Blank
         /\ {x.tab : x \in kept} = copies \cup {volume.tab}
  BY <1>1, <1>2, FiledCopies DEF Labels
<1>4. CASE UNCHANGED <<volume, past>>
  <2>1. CASE kept = snaps
    BY <1>2, <1>4, <2>1 DEF Safe!vars
  <2>2. CASE kept # snaps
    <3>1. Safe!Copy
      BY <1>2, <1>3, <1>4, <2>2 DEF Safe!Copy, Safe!Blank, Blank
    <3> QED
      BY <3>1 DEF Safe!Next
  <2> QED
    BY <2>1, <2>2
<1>5. ASSUME NEW done \in SUBSET Tables,
             volume' = [volume EXCEPT !.tab = [t \in Tables |-> IF t \in done THEN 1 ELSE @[t]]],
             past' = IF rq[u].skip THEN past ELSE past \cup {volume.tab}
      PROVE  Safe!Import
  <2>1. Safe!Saved \/ Safe!Unsaved
    BY <1>2, <1>3, <1>5 DEF Safe!Saved, Safe!Unsaved, Safe!Blank, Blank
  <2>2. volume'.tab = [t \in Tables |-> IF t \in done THEN 1 ELSE volume.tab[t]]
    BY <1>5, DataTypes DEF Volumes
  <2> QED
    BY <2>1, <2>2 DEF Safe!Import
<1> QED
  BY <1>2, <1>4, <1>5 DEF Safe!Next

(* What goes of the directory goes of the copies, but for the tables that  *)
(* another file holds too.                                                 *)
LEMMA ForgettingIsSafe ==
  ASSUME NEW lost \in SUBSET snaps, snaps' = snaps \ lost, Forget(lost), volume' = volume
  PROVE  Safe!Forget
<1> DEFINE dropped == {s.tab : s \in lost}
<1>1. dropped \in SUBSET {s.tab : s \in snaps}
  OBVIOUS
<1>2. /\ {s.tab : s \in snaps} \ dropped \subseteq {s.tab : s \in snaps'}
      /\ {s.tab : s \in snaps'} \in SUBSET {s.tab : s \in snaps}
  OBVIOUS
<1>3. past' = past \ dropped
  BY DEF Forget
<1> QED
  BY <1>1, <1>2, <1>3 DEF Safe!Forget

LEMMA SnapshotIsSafe ==
  ASSUME ~SameSecond, DataInv, NEW site \in Row, NEW label \in Labels,
         \/ \E s \in Dumped(site, label) : snaps' = Filed(s)
         \/ snaps' = snaps,
         UNCHANGED <<volume, past>>
  PROVE  [Safe!Next]_Safe!vars
<1>1. CASE snaps' = snaps
  BY <1>1 DEF Safe!vars
<1>2. ASSUME NEW s \in Dumped(site, label), snaps' = Filed(s) PROVE Safe!Copy
  BY <1>2, FiledCopies DEF Safe!Copy, Safe!Blank, Blank
<1> QED
  BY <1>1, <1>2 DEF Safe!Next

LEMMA SafeStep ==
  ASSUME ~SameSecond, DataInv, [DataNext]_dataVars
  PROVE  [Safe!Next]_Safe!vars
<1>1. ASSUME volume'.tab = volume.tab, UNCHANGED <<snaps, past>> PROVE UNCHANGED Safe!vars
  BY <1>1 DEF Safe!vars
<1>2. ASSUME SiteWrites PROVE Safe!Write
  <2>1. PICK t \in Tables : volume' = [volume EXCEPT !.tab[t] = @ + 1]
    BY <1>2 DEF SiteWrites
  <2>2. volume'.tab = [volume.tab EXCEPT ![t] = @ + 1] /\ UNCHANGED <<snaps, past>>
    BY <1>2, <2>1, DataTypes DEF SiteWrites, Volumes
  <2> QED
    BY <2>2 DEF Safe!Write
<1>3. ASSUME SweepSnapshots PROVE Safe!Forget
  <2>1. PICK kept \in kSubset(Keep, snaps) : snaps' = kept /\ Forget(snaps \ kept)
    BY <1>3 DEF SweepSnapshots
  <2>2. snaps \ kept \in SUBSET snaps /\ snaps' = snaps \ (snaps \ kept) /\ volume' = volume
    BY <1>3, <2>1 DEF kSubset, SweepSnapshots
  <2> QED
    BY <2>1, <2>2, ForgettingIsSafe
<1>4. ASSUME NEW u \in Users, DeleteSnapshot(u) PROVE Safe!Forget
  <2>1. PICK s \in snaps : snaps' = snaps \ {s} /\ Forget({s}) /\ volume' = volume
    BY <1>4 DEF DeleteSnapshot
  <2> QED
    BY <2>1, ForgettingIsSafe
<1>5. ASSUME NEW u \in Users, TakeSnapshot(u) PROVE [Safe!Next]_Safe!vars
  <2>1. rq[u].site \in Row
    BY <1>5, DataTypes, RequestKinds DEF TakeSnapshot, SnapshotRq
  <2>2. /\ (\E s \in Dumped(rq[u].site, "manual") : snaps' = Filed(s)) \/ snaps' = snaps
        /\ UNCHANGED <<volume, past>>
    BY <1>5 DEF TakeSnapshot
  <2> QED
    BY <2>1, <2>2, SnapshotIsSafe DEF Labels
<1>6. ASSUME NEW u \in Users, MigrateSnapshots(u) PROVE [Safe!Next]_Safe!vars
  <2>1. rq[u].site \in Row
    BY <1>6, DataTypes, RequestKinds DEF MigrateSnapshots, MigrateRq
  <2>2. /\ (\E s \in Dumped(rq[u].site, "pre_migrate") : snaps' = Filed(s)) \/ snaps' = snaps
        /\ UNCHANGED <<volume, past>>
    BY <1>6 DEF MigrateSnapshots
  <2> QED
    BY <2>1, <2>2, SnapshotIsSafe DEF Labels
<1>7. ASSUME NEW u \in Users, Restore(u) PROVE [Safe!Next]_Safe!vars
  <2>1. rq[u].site \in Row /\ rq[u].snap \in Snap
    BY <1>7, DataTypes, RequestKinds DEF Restore, RestoreRq
  <2> QED
    BY <1>7, <2>1, RestoreIsSafe DEF Restore
<1>8. ASSUME NEW u \in Users, MigrateRestores(u) PROVE [Safe!Next]_Safe!vars
  <2>1. rq[u].site \in Row /\ rq[u].snap \in Snap
    <3>1. rq[u] \in MigrateRq /\ RequestOK(rq[u]) /\ rq[u].pc = "load"
      BY <1>8, DataTypes, RequestKinds DEF MigrateRestores, DataInv
    <3> QED
      BY <3>1 DEF RequestOK, MigrateRq
  <2> QED
    BY <1>8, <2>1, RestoreIsSafe DEF MigrateRestores
<1>9. ASSUME NEW u \in Users, MigrateFlips(u) PROVE [Safe!Next]_Safe!vars
  <2>1. CASE UNCHANGED <<volume, past>>
    BY <1>1, <1>9, <2>1 DEF MigrateFlips
  <2>2. CASE /\ volume' = [by |-> Fresh, tab |-> Blank]
             /\ past' = IF rq[u].alone /\ ~rq[u].skip THEN past \cup {volume.tab} ELSE past
    <3>1. rq[u].alone /\ ~rq[u].skip => volume.tab \in {s.tab : s \in snaps}
      <4>1. AloneOK(rq[u], row.image, up, volume, snaps)
        BY DEF DataInv
      <4> QED
        BY <1>9, <4>1 DEF AloneOK, MigrateFlips
    <3>2. volume'.tab = Blank /\ snaps' = snaps
      BY <1>9, <2>2 DEF MigrateFlips
    <3>3. Safe!Wipe
      BY <2>2, <3>1, <3>2 DEF Safe!Wipe, Safe!Blank, Blank
    <3> QED
      BY <3>3 DEF Safe!Next
  <2> QED
    BY <1>9, <2>1, <2>2 DEF MigrateFlips
<1>10. ASSUME \E u \in Users :
                \/ Start(u) \/ Stop(u) \/ AskSnapshot(u) \/ AskRestore(u) \/ AskImport(u) \/ ImportRefused(u)
                \/ Export(u) \/ AskMigrate(u) \/ MigrateBoots(u) \/ MigrateStops(u) \/ MigrateRestarts(u)
                \/ MigrateAsksRestore(u) \/ MigrateEnds(u) \/ Crash(u)
       PROVE  volume'.tab = volume.tab /\ UNCHANGED <<snaps, past>>
  <2>1. \A i : [volume EXCEPT !.by = i].tab = volume.tab
    BY DataTypes DEF Volumes
  <2> QED
    BY <1>10, <2>1 DEF Start, Stop, AskSnapshot, AskRestore, AskImport, ImportRefused, Export, AskMigrate,
       MigrateBoots, MigrateStops, MigrateRestarts, MigrateAsksRestore, MigrateEnds, Crash, Booted
<1>11. ASSUME ClockTicks \/ DbDies \/ UNCHANGED dataVars
       PROVE  volume'.tab = volume.tab /\ UNCHANGED <<snaps, past>>
  BY <1>11 DEF ClockTicks, DbDies, dataVars
<1> QED
  BY <1>1, <1>2, <1>3, <1>4, <1>5, <1>6, <1>7, <1>8, <1>9, <1>10, <1>11, ImportIsSafe DEF DataNext, Safe!Next

(* Seen from its tables alone, a site's data is SafeTables: what a restore,*)
(* an import, a migration and the deletion of snapshots do, in whatever    *)
(* order clients interleave them, to the live tables, to their copies and  *)
(* to what was destroyed (sites/snapshot.go, import.go, migrate.go).       *)
THEOREM DataIsSafe == ~SameSecond => (DataSpec => KeepsTablesSafe)
<1> SUFFICES ASSUME ~SameSecond PROVE DataSpec => Safe!Spec
  BY DEF KeepsTablesSafe
<1>1. DataInit => Safe!Init
  <2> SUFFICES ASSUME DataInit PROVE Safe!Init
    OBVIOUS
  <2>1. PICK i \in Images :
          /\ volume = [by |-> i, tab |-> [t \in Tables |-> 1]]
          /\ snaps \in {{}} \cup {{s} : s \in [label : {"manual"}, at : {0}, image : {i},
                                               tab : {volume.tab}, sum : SidecarOf]}
    BY DEF DataInit
  <2>2. volume.tab \in [Tables -> Nat] /\ {s.tab : s \in snaps} \subseteq {volume.tab}
    BY <2>1
  <2> QED
    BY <2>2 DEF Safe!Init, DataInit
<1>2. DataInv /\ [DataNext]_dataVars => [Safe!Next]_Safe!vars
  BY SafeStep
<1> QED
  BY <1>1, <1>2, DataInvInit, DataInvStep, PTL DEF DataSpec, Safe!Spec

(* What SafeTables promises: what was destroyed with a copy at hand is in a *)
(* copy.                                                                   *)
LEMMA SafeIsRecoverable == KeepsTablesSafe => []Recoverable
<1> DEFINE copies == {s.tab : s \in snaps}
<1>1. (past \subseteq copies) <=> Recoverable
  BY DEF Recoverable
<1>2. Safe!Init => past \subseteq copies
  BY DEF Safe!Init
<1>3. past \subseteq copies /\ [Safe!Next]_Safe!vars => (past \subseteq copies)'
  <2> SUFFICES ASSUME past \subseteq copies, [Safe!Next]_Safe!vars PROVE past' \subseteq copies'
    OBVIOUS
  <2>1. ASSUME Safe!Saved \/ Safe!Unsaved PROVE past' \subseteq copies'
    BY <2>1 DEF Safe!Saved, Safe!Unsaved
  <2>2. CASE Safe!Write \/ Safe!Copy \/ Safe!Wipe
    BY <2>2 DEF Safe!Write, Safe!Copy, Safe!Wipe
  <2>3. CASE Safe!Restore \/ Safe!Import
    BY <2>1, <2>3 DEF Safe!Restore, Safe!Import
  <2>4. CASE Safe!Forget
    BY <2>4 DEF Safe!Forget
  <2>5. CASE UNCHANGED Safe!vars
    BY <2>5 DEF Safe!vars
  <2> QED
    BY <2>2, <2>3, <2>4, <2>5 DEF Safe!Next
<1> QED
  BY <1>1, <1>2, <1>3, PTL DEF KeepsTablesSafe, Safe!Spec

(* When two snapshots with one label never fall in one second, so that no  *)
(* file takes another's name, the tables that a restore, an import or an   *)
(* undisturbed migration destroyed are in a snapshot for as long as nobody *)
(* deletes it: RestoreSnapshot, ImportDB and MigrateEngine.                *)
THEOREM DestroyedTablesAreKept == ~SameSecond => (DataSpec => []Recoverable)
BY DataIsSafe, SafeIsRecoverable

(* Only the last step of a migration answers "migrated" and ends a request *)
(* that was there.                                                         *)
LEMMA MigrationAnswers ==
  ASSUME DataInv, NEW u \in Users, [DataNext]_dataVars,
         rq[u].op = "migrate", told' = "migrated", rq'[u] = Idle, rq[u].pc = "down", rq[u].alone
  PROVE  /\ row'.image = rq[u].target /\ volume'.by = rq[u].target
         /\ volume'.tab = IF rq[u].skip THEN Blank ELSE rq[u].snap.tab
         /\ rq[u].was => up' = rq[u].target
<1>1. AloneOK(rq[u], row.image, up, volume, snaps)
  BY DEF DataInv
<1>2. MigrateEnds(u)
  <2>1. rq[u] \in MigrateRq /\ rq[u] # Idle /\ rq'[u].op = "idle"
    BY DataTypes, RequestKinds DEF Idle
  <2>2. rq'[u] # rq[u]
    BY <2>1 DEF Idle
  <2>3. ASSUME NEW v \in Users, v # u PROVE \A r : ~Acts(v, r)
    <3>1. [rq[u] EXCEPT !.alone = FALSE].op = "migrate"
      BY <2>1 DEF MigrateRq
    <3> QED
      BY <2>1, <2>3, <3>1 DEF Acts
  <2>4. ASSUME NEW v \in Users, NEW r PROVE ~(Goes(v, r) /\ v # u)
    BY <2>3, GoesActs
  <2>5. ~(SiteWrites \/ DbDies \/ ClockTicks \/ SweepSnapshots \/ UNCHANGED dataVars)
    <3>1. [rq[u] EXCEPT !.alone = FALSE].op = "migrate"
      BY <2>1 DEF MigrateRq
    <3> QED
      BY <2>1, <2>2, <3>1 DEF SiteWrites, DbDies, ClockTicks, SweepSnapshots, dataVars, DataInv, DataTypeOK
  <2>6. ASSUME NEW v \in Users,
               \/ Start(v) \/ Stop(v) \/ DeleteSnapshot(v)
        PROVE  FALSE
    <3>1. rq[v] = Idle /\ rq' = Disturbed(v)
      BY <2>6 DEF Start, Stop, DeleteSnapshot
    <3>2. v # u
      BY <2>1, <3>1
    <3> QED
      BY <2>3, <3>1, <3>2, StaysActs
  <2>7. ASSUME NEW v \in Users,
               \/ AskSnapshot(v) \/ TakeSnapshot(v) \/ AskRestore(v) \/ Restore(v) \/ AskImport(v) \/ Import(v)
               \/ ImportRefused(v) \/ Export(v) \/ AskMigrate(v) \/ MigrateBoots(v) \/ MigrateSnapshots(v)
               \/ MigrateStops(v) \/ MigrateFlips(v) \/ MigrateRestarts(v) \/ MigrateAsksRestore(v)
               \/ MigrateRestores(v) \/ MigrateEnds(v) \/ Crash(v)
        PROVE  v = u
    BY <2>4, <2>7
       DEF AskSnapshot, TakeSnapshot, AskRestore, Restore, Restored, AskImport, Import, ImportRefused, Export,
           AskMigrate, MigrateBoots, MigrateSnapshots, MigrateStops, MigrateFlips, MigrateRestarts,
           MigrateAsksRestore, MigrateRestores, MigrateEnds, Crash, Returns, Step
  <2>8. ~(\/ AskSnapshot(u) \/ TakeSnapshot(u) \/ AskRestore(u) \/ Restore(u) \/ AskImport(u) \/ Import(u)
          \/ ImportRefused(u) \/ Export(u) \/ AskMigrate(u) \/ MigrateBoots(u) \/ MigrateSnapshots(u)
          \/ MigrateStops(u) \/ MigrateFlips(u) \/ MigrateRestarts(u) \/ MigrateAsksRestore(u)
          \/ MigrateRestores(u) \/ Crash(u))
    BY <2>1 DEF AskSnapshot, TakeSnapshot, AskRestore, Restore, Restored, AskImport, Import, ImportRefused, Export,
           AskMigrate, MigrateBoots, MigrateSnapshots, MigrateStops, MigrateFlips, MigrateRestarts,
           MigrateAsksRestore, MigrateRestores, Crash, Returns, Asks, Idle
  <2> QED
    BY <2>5, <2>6, <2>7, <2>8 DEF DataNext
<1> QED
  BY <1>1, <1>2, HaltedTyped DEF MigrateEnds, AloneOK

(* A migration that nobody disturbed and that returns without an error has *)
(* moved the site to the image asked for with the tables of its snapshot   *)
(* (none if it was asked to skip that), and a running site runs: every     *)
(* step of MigrateEngine, whatever other clients do before and after.      *)
THEOREM UndisturbedMigrationIsWhole == DataSpec => MigrationIsWhole
<1>1. DataInv /\ [DataNext]_dataVars
        => [\A u \in Users :
              rq[u].op = "migrate" /\ told' = "migrated" /\ rq'[u] = Idle
                /\ rq[u].pc = "down" /\ rq[u].alone
              => /\ row'.image = rq[u].target
                 /\ volume'.by = rq[u].target
                 /\ volume'.tab = IF rq[u].skip THEN Blank ELSE rq[u].snap.tab
                 /\ rq[u].was => up' = rq[u].target]_dataVars
  BY MigrationAnswers
<1> QED
  BY <1>1, DataInvInit, DataInvStep, PTL DEF DataSpec, MigrationIsWhole

-----------------------------------------------------------------------------
(* Managed files.                                                          *)

(* The user's text is none of a bundle's.                                  *)
LEMMA OwnIsNew == Own \in Nat /\ Own \notin Contents /\ Own # Absent
<1>1. \E n \in Contents : \A m \in Contents : m <= n
  BY FilesAssumption
<1> DEFINE top == CHOOSE n \in Contents : \A m \in Contents : m <= n
<1>2. top \in Contents /\ \A m \in Contents : m <= top
  BY <1>1
<1>3. Own = 1 + top
  BY DEF Own
<1> HIDE DEF top
<1> QED
  BY <1>2, <1>3, FilesAssumption DEF Absent

(* A file counted as the user's holds his text or has lost its marker, so  *)
(* neither reconciliation nor WriteIfManaged finds it one to write.        *)
FilesInv ==
  /\ FilesTypeOK
  /\ \A f \in Assets : f \in edited => onDisk[f] = Own
  /\ \A g \in SiteFiles : g \in edited => sfile[g] # Absent /\ ~marked[g]
  /\ \A w \in FileWriters : writer[w].at # "-" => writer[w].f \in SiteFiles
  /\ EditsAreKept

LEMMA FilesInvInit == FilesInit => FilesInv
  BY FilesAssumption
     DEF FilesInit, FilesInv, FilesTypeOK, EditsAreKept, NoLook, NoWriter, Files, OwnText, Absent

(* What the running program writes into a bundled file is a content of the *)
(* bundle, and it changes the files of no site.                            *)
LEMMA FilesAsset ==
  ASSUME FilesInv, NEW f \in Assets, Look(f) \/ PutAsset(f) \/ EditAsset(f)
  PROVE  FilesInv'
<1> USE DEF FilesInv, FilesTypeOK, EditsAreKept
<1>1. Bundle[version][f] \in Contents
  BY DEF Contents, Versions
<1>2. f \notin SiteFiles /\ f \in Files
  BY FilesAssumption DEF Files
<1>3. CASE Look(f)
  <2>1. Verdict(f, Bundle[version][f]) = "write" => f \notin edited
    BY <1>1, OwnIsNew DEF Verdict
  <2>2. look' \in [f : Assets \cup {"-"}, own : BOOLEAN] /\ look'.own = FALSE
    <3>1. \/ look' = NoLook
          \/ f \notin edited /\ look' = [f |-> f, own |-> f \in edited]
      BY <1>3, <2>1 DEF Look
    <3>2. f \notin edited => (f \in edited) = FALSE
      OBVIOUS
    <3>3. CASE look' = NoLook
      BY <3>3 DEF NoLook
    <3>4. CASE f \notin edited /\ look' = [f |-> f, own |-> FALSE]
      BY <3>4
    <3> QED
      BY <3>1, <3>2, <3>3, <3>4
  <2>3. next' \in [Assets -> Contents \cup {Absent}] /\ walk' \subseteq Assets /\ merge' \subseteq Assets
    BY <1>1, <1>3 DEF Look, NextHash
  <2> QED
    BY <1>3, <2>2, <2>3 DEF Look, siteVars
<1>4. CASE PutAsset(f)
  BY <1>1, <1>2, <1>4 DEF PutAsset, NoLook, siteVars
<1>5. CASE EditAsset(f)
  BY <1>2, <1>5, FilesAssumption DEF EditAsset, siteVars
<1> QED
  BY <1>3, <1>4, <1>5

LEMMA FilesManaged ==
  ASSUME FilesInv, NEW w \in FileWriters,
         ReadManaged(w) \/ PutManaged(w) \/ \E g \in SiteFiles : BeginWrite(w, g)
  PROVE  FilesInv'
<1> USE DEF FilesInv, FilesTypeOK, EditsAreKept
<1> DEFINE Written == [f : SiteFiles \cup {"-"}, data : 0..MaxData, own : BOOLEAN, saw : 0..OwnText,
                       at : {"-", "read", "write"}]
<1>1. /\ writer \in [FileWriters -> Written] /\ writer[w] \in Written
      /\ writer[w].at # "-" => writer[w].f \in SiteFiles
      /\ NoWriter \in Written /\ NoWriter.at = "-"
  <2>1. MaxData \in Nat /\ 0 \in 0..MaxData /\ 0 \in 0..OwnText
    BY FilesAssumption DEF OwnText
  <2> QED
    BY <2>1 DEF NoWriter
<1>2. ASSUME NEW x \in Written, writer' = [writer EXCEPT ![w] = x],
             x.at # "-" => x.f \in SiteFiles, x.at = "write" => ~x.own
      PROVE  /\ writer' \in [FileWriters -> Written]
             /\ \A v \in FileWriters : /\ writer'[v].at # "-" => writer'[v].f \in SiteFiles
                                       /\ writer'[v].at = "write" => ~writer'[v].own
  BY <1>1, <1>2
<1>3. CASE ReadManaged(w)
  <2> DEFINE g == writer[w].f
             x == IF MayWrite(w, g) THEN [writer[w] EXCEPT !.at = "write", !.own = g \in edited, !.saw = sfile[g]]
                  ELSE NoWriter
  <2>1. g \in SiteFiles /\ sfile[g] \in 0..OwnText
    BY <1>1, <1>3 DEF ReadManaged
  <2>2. MayWrite(w, g) => g \notin edited
    BY <2>1 DEF MayWrite
  <2>3. x \in Written /\ (x.at # "-" => x.f \in SiteFiles) /\ (x.at = "write" => ~x.own)
    <3>1. (g \in edited) \in BOOLEAN
      OBVIOUS
    <3>2. CASE MayWrite(w, g)
      <4>1. x = [f |-> g, data |-> writer[w].data, own |-> g \in edited, saw |-> sfile[g], at |-> "write"]
        BY <1>1, <3>2
      <4>2. ~x.own
        BY <2>2, <3>2, <4>1
      <4> QED
        BY <1>1, <2>1, <3>1, <4>1, <4>2
    <3>3. CASE ~MayWrite(w, g)
      BY <1>1, <3>3
    <3> QED
      BY <3>2, <3>3
  <2>4. writer' = [writer EXCEPT ![w] = x]
    BY <1>1, <1>3 DEF ReadManaged
  <2> HIDE DEF x
  <2> QED
    BY <1>2, <1>3, <2>3, <2>4 DEF ReadManaged, assetVars
<1>4. CASE PutManaged(w)
  <2>1. writer' = [writer EXCEPT ![w] = NoWriter]
    BY <1>4 DEF PutManaged
  <2>2. writer[w].f \in SiteFiles /\ writer[w].f \notin Assets /\ writer[w].data \in 0..OwnText
    BY <1>1, <1>4, FilesAssumption DEF PutManaged, OwnText
  <2> QED
    <3>1. /\ writer' \in [FileWriters -> Written]
          /\ \A v \in FileWriters : /\ writer'[v].at # "-" => writer'[v].f \in SiteFiles
                                    /\ writer'[v].at = "write" => ~writer'[v].own
      BY <1>1, <1>2, <2>1
    <3>2. /\ sfile' \in [SiteFiles -> 0..OwnText] /\ marked' \in [SiteFiles -> BOOLEAN]
          /\ edited' \subseteq edited /\ \A f \in Assets : f \in edited' <=> f \in edited
          /\ \A g \in SiteFiles : g \in edited' => sfile'[g] = sfile[g] /\ marked'[g] = marked[g]
      BY <1>4, <2>2 DEF PutManaged
    <3> QED
      BY <1>4, <3>1, <3>2 DEF PutManaged, assetVars
<1>5. ASSUME NEW g \in SiteFiles, BeginWrite(w, g)
      PROVE  FilesInv'
  <2> DEFINE x == [NoWriter EXCEPT !.f = g, !.data = siteRow, !.at = "read"]
  <2>1. x \in Written /\ x.f = g /\ x.at = "read"
    <3>1. siteRow \in 0..MaxData /\ 0 \in 0..OwnText
      BY FilesAssumption DEF OwnText
    <3> QED
      BY <1>1, <3>1
  <2>2. writer' = [writer EXCEPT ![w] = x]
    BY <1>5 DEF BeginWrite
  <2> HIDE DEF x
  <2> QED
    BY <1>2, <1>5, <2>1, <2>2 DEF BeginWrite, assetVars
<1> QED
  BY <1>3, <1>4, <1>5

LEMMA FilesInvStep == FilesInv /\ [FilesNext]_fileVars => FilesInv'
<1> SUFFICES ASSUME FilesInv, [FilesNext]_fileVars PROVE FilesInv'
  OBVIOUS
<1> USE DEF FilesInv, FilesTypeOK, EditsAreKept
<1>1. CASE StartApp
  BY <1>1 DEF StartApp, siteVars
<1>2. CASE SaveState
  BY <1>2 DEF SaveState, siteVars
<1>3. CASE LoseState
  BY <1>3 DEF LoseState, siteVars
<1>4. CASE EndApp
  <2>1. look' \in [f : Assets \cup {"-"}, own : BOOLEAN] /\ look'.own = FALSE
    BY <1>4 DEF EndApp, NoLook
  <2>2. 0 \in 0..MaxData /\ 0 \in 0..OwnText
    BY FilesAssumption DEF OwnText
  <2> QED
    BY <1>4, <2>1, <2>2 DEF EndApp, NoWriter
<1>5. CASE ChangeRow
  BY <1>5, FilesAssumption DEF ChangeRow, assetVars
<1>6. ASSUME NEW g \in SiteFiles, EditManaged(g)
      PROVE  FilesInv'
  <2>1. g \notin Assets /\ g \in Files /\ OwnText \in 0..OwnText /\ OwnText # Absent
    BY FilesAssumption DEF Files, OwnText, Absent
  <2>2. PICK c \in {sfile[g], OwnText, Absent} :
            /\ sfile' = [sfile EXCEPT ![g] = c] /\ marked' = [marked EXCEPT ![g] = FALSE]
            /\ \/ c # Absent /\ edited' = edited \cup {g}
               \/ edited' = edited \ {g}
    BY <1>6, <2>1 DEF EditManaged
  <2>3. sfile' \in [SiteFiles -> 0..OwnText] /\ marked' \in [SiteFiles -> BOOLEAN] /\ edits' \in 0..MaxEdits
    BY <1>6, <2>1, <2>2, FilesAssumption DEF EditManaged, Absent
  <2> QED
    BY <1>6, <2>1, <2>2, <2>3 DEF EditManaged, assetVars
<1>7. CASE UNCHANGED fileVars
  BY <1>7 DEF fileVars
<1> QED
  BY <1>1, <1>2, <1>3, <1>4, <1>5, <1>6, <1>7, FilesAsset, FilesManaged DEF FilesNext

(* A file the user made his own is kept whatever versions of the program   *)
(* start, save their table or lose it, and whichever operations rewrite    *)
(* the files of a site: assets.go Reconcile and genmark.WriteIfManaged.    *)
THEOREM OwnFilesAreKept == FilesSpec => []EditsAreKept
<1>1. FilesInv => EditsAreKept
  BY DEF FilesInv
<1> QED
  BY <1>1, FilesInvInit, FilesInvStep, PTL DEF FilesSpec

(* The files, the table of hashes, the walk of a start and what a writer   *)
(* of a site's file holds stay of their types, for any assets and versions *)
(* (Reconcile, saveState and WriteIfManaged).                              *)
THEOREM FilesTypeCorrect == FilesSpec => []FilesTypeOK
<1>1. FilesInv => FilesTypeOK
  BY DEF FilesInv
<1> QED
  BY <1>1, FilesInvInit, FilesInvStep, PTL DEF FilesSpec

-----------------------------------------------------------------------------
(* The hooks of a site and the counts of their runs.                       *)

(* A row the runner will accept; the fields are named because updates keep *)
(* the record and change some of them.                                     *)
RowOK(h) == {"kind", "event", "pos", "on"} \subseteq DOMAIN h /\ HookValid(h)

(* A task of the panel that adds a hook adds one the editor has validated. *)
HookTaskOK(w) == {"n", "op", "ids", "rows"} \subseteq DOMAIN w /\ (w.op = "add" => HookValid(w.hook))

Counted(r) == r.ok + r.bad + r.skip
RunFields == {"n", "list", "strict", "busy", "ok", "bad", "skip"}

(* A run has counted no hook twice, and has one left while one executes.   *)
RunOK(r) ==
  /\ DOMAIN r = RunFields
  /\ r.ok \in Nat /\ r.bad \in Nat /\ r.skip \in Nat /\ Len(r.list) \in Nat
  /\ Counted(r) <= Len(r.list)
  /\ r.busy => Counted(r) < Len(r.list)
  /\ \A i \in 1..Len(r.list) : HookValid(r.list[i])

ViewOK(v) ==
  /\ DOMAIN v = {"running", "summary"}
  /\ v.summary # NoSummary => v.summary.total = v.summary.ok + v.summary.bad + v.summary.skip

RowsAreValid == IsFiniteSet(hookRows) /\ \A h \in hookRows : RowOK(h)
TasksAreValid == \A w \in hookWork : HookTaskOK(w)
RunsAreValid == DOMAIN hookRun = HookSites /\ \A s \in HookSites : hookRun[s] # NoRun => RunOK(hookRun[s])
ViewsAreValid == DOMAIN hookView = HookSites /\ \A s \in HookSites : ViewOK(hookView[s])
HookInv == RowsAreValid /\ TasksAreValid /\ RunsAreValid /\ ViewsAreValid

LEMMA HookInvInit == HooksInit => HookInv
<1> SUFFICES ASSUME HooksInit PROVE HookInv
  OBVIOUS
<1>1. RowsAreValid /\ TasksAreValid
  BY FS_EmptySet DEF HooksInit, RowsAreValid, TasksAreValid
<1>2. RunsAreValid
  BY DEF HooksInit, RunsAreValid
<1>3. ViewsAreValid
  BY DEF HooksInit, ViewsAreValid, ViewOK
<1> QED
  BY <1>1, <1>2, <1>3 DEF HookInv

-----------------------------------------------------------------------------
(* The table keeps only rows that were validated.                          *)
LEMMA RowsOfSet ==
  ASSUME RowsAreValid, NEW S \in SUBSET hookRows
  PROVE  IsFiniteSet(S) /\ Cardinality(S) \in Nat /\ \A h \in S : RowOK(h)
  BY FS_Subset, FS_CardinalityType DEF RowsAreValid

LEMMA RowsMapped ==
  ASSUME RowsAreValid, NEW T, NEW f \in [hookRows -> T],
         hookRows' = {f[g] : g \in hookRows}, \A g \in hookRows : RowOK(f[g])
  PROVE  RowsAreValid'
<1>1. f \in Surjection(hookRows, hookRows')
  BY DEF Surjection
<1>2. IsFiniteSet(hookRows')
  BY <1>1, FS_Surjection DEF RowsAreValid
<1> QED
  BY <1>2 DEF RowsAreValid

LEMMA RowChanged ==
  ASSUME NEW g, NEW k, NEW b, RowOK(g), HookValid([kind |-> k, event |-> g.event])
  PROVE  RowOK([g EXCEPT !.kind = k, !.on = b])
  BY DEF RowOK, HookValid

LEMMA RowMoved ==
  ASSUME NEW g, NEW n, RowOK(g)
  PROVE  RowOK([g EXCEPT !.pos = n])
  BY DEF RowOK, HookValid

LEMMA AddKeepsRows ==
  ASSUME RowsAreValid, NEW h, HookValid(h), hookRows' = AddedHook(h)
  PROVE  RowsAreValid'
<1>1. PICK i, n : hookRows' = hookRows \cup {[id |-> i, site |-> h.site, event |-> h.event,
                                             kind |-> h.kind, on |-> h.on, pos |-> n]}
  BY Zenon DEF AddedHook
<1> DEFINE x == [id |-> i, site |-> h.site, event |-> h.event, kind |-> h.kind, on |-> h.on, pos |-> n]
<1>2. RowOK(x)
  BY DEF RowOK, HookValid
<1>3. hookRows' = hookRows \cup {x}
  BY <1>1
<1> HIDE DEF x
<1>4. IsFiniteSet(hookRows')
  BY <1>3, FS_AddElement DEF RowsAreValid
<1> QED
  BY <1>2, <1>3, <1>4 DEF RowsAreValid

LEMMA UpdateKeepsRows ==
  ASSUME RowsAreValid, NEW h, HookValid(h), hookRows' = UpdatedHook(h)
  PROVE  RowsAreValid'
<1> DEFINE f == [g \in hookRows |-> IF Matches(h, g) THEN [g EXCEPT !.kind = h.kind, !.on = h.on] ELSE g]
<1>1. ASSUME NEW g \in hookRows PROVE RowOK(f[g])
  <2>1. RowOK(g)
    BY DEF RowsAreValid
  <2>2. CASE Matches(h, g)
    <3>1. HookValid([kind |-> h.kind, event |-> g.event])
      BY <2>2 DEF HookValid, Matches
    <3>2. f[g] = [g EXCEPT !.kind = h.kind, !.on = h.on]
      BY <2>2
    <3>3. RowOK([g EXCEPT !.kind = h.kind, !.on = h.on])
      BY <2>1, <3>1, RowChanged
    <3> QED
      BY <3>2, <3>3
  <2>3. CASE ~Matches(h, g)
    BY <2>1, <2>3
  <2> QED
    BY <2>2, <2>3
<1>2. hookRows' = {f[g] : g \in hookRows}
  BY Zenon DEF UpdatedHook
<1>3. f \in [hookRows -> {f[g] : g \in hookRows}]
  OBVIOUS
<1> HIDE DEF f
<1> QED
  BY <1>1, <1>2, <1>3, RowsMapped

LEMMA ReorderKeepsRows ==
  ASSUME RowsAreValid, NEW s, NEW e, NEW ids, hookRows' = Reordered(s, e, ids)
  PROVE  RowsAreValid'
<1> DEFINE p(g) == CHOOSE n \in 0..(Len(ids) - 1) : ids[n + 1] = g.id
           f == [g \in hookRows |-> IF g.site = s /\ g.event = e THEN [g EXCEPT !.pos = p(g)] ELSE g]
<1>1. ASSUME NEW g \in hookRows PROVE RowOK(f[g])
  <2>1. RowOK(g)
    BY DEF RowsAreValid
  <2> HIDE DEF p
  <2>2. RowOK([g EXCEPT !.pos = p(g)])
    BY <2>1, RowMoved
  <2>3. f[g] = IF g.site = s /\ g.event = e THEN [g EXCEPT !.pos = p(g)] ELSE g
    BY Zenon
  <2> QED
    BY <2>1, <2>2, <2>3
<1>2. hookRows' = {f[g] : g \in hookRows}
  BY Zenon DEF Reordered
<1>3. f \in [hookRows -> {f[g] : g \in hookRows}]
  BY Zenon
<1> HIDE DEF f
<1> QED
  BY <1>1, <1>2, <1>3, RowsMapped

(* What a run reads is a list of valid rows.                               *)
LEMMA ListedAreValid ==
  ASSUME RowsAreValid, NEW s, NEW e, NEW list \in ListHooksByEvent(s, e)
  PROVE  Len(list) \in Nat /\ \A i \in 1..Len(list) : HookValid(list[i])
<1> DEFINE H == {h \in HooksOf(s) : h.event = e}
<1>1. H \in SUBSET hookRows
  BY DEF HooksOf
<1>2. list \in [1..Cardinality(H) -> H]
  BY DEF ListHooksByEvent, InOrder, SetToSeqs
<1> HIDE DEF H
<1>3. Cardinality(H) \in Nat /\ \A h \in H : HookValid(h)
  BY <1>1, RowsOfSet DEF RowOK
<1>4. list \in Seq(H) /\ Len(list) = Cardinality(H)
  BY <1>2, <1>3
<1> QED
  BY <1>2, <1>3, <1>4

-----------------------------------------------------------------------------
LEMMA ViewSet ==
  ASSUME ViewsAreValid, NEW s, NEW v, ViewOK(v), hookView' = [hookView EXCEPT ![s] = v]
  PROVE  ViewsAreValid'
  BY DEF ViewsAreValid

LEMMA ViewRuns ==
  ASSUME ViewsAreValid, NEW s, NEW i, hookView' = [hookView EXCEPT ![s].running = i]
  PROVE  ViewsAreValid'
<1>1. ASSUME NEW v, ViewOK(v) PROVE ViewOK([v EXCEPT !.running = i])
  BY <1>1 DEF ViewOK
<1> QED
  BY <1>1 DEF ViewsAreValid

LEMMA Announced == \A i : ViewOK([running |-> i, summary |-> NoSummary])
  BY DEF ViewOK

LEMMA AllCounted ==
  ASSUME ViewsAreValid, NEW s, NEW r, Len(r.list) = Counted(r), AllDone(s, r)
  PROVE  ViewsAreValid'
<1> DEFINE v == [running |-> 0, summary |-> [total |-> Len(r.list), ok |-> r.ok, bad |-> r.bad,
                                              skip |-> r.skip]]
<1>1. ViewOK(v)
  BY DEF ViewOK, Counted
<1>2. hookView' = [hookView EXCEPT ![s] = v]
  BY DEF AllDone
<1> HIDE DEF v
<1> QED
  BY <1>1, <1>2, ViewSet

LEMMA RunSet ==
  ASSUME RunsAreValid, NEW s, NEW r, r # NoRun => RunOK(r), hookRun' = [hookRun EXCEPT ![s] = r]
  PROVE  RunsAreValid'
  BY DEF RunsAreValid

LEMMA WorkPut ==
  ASSUME TasksAreValid, NEW S \in SUBSET hookWork, NEW w, HookTaskOK(w), hookWork' \in {S, S \cup {w}}
  PROVE  TasksAreValid'
  BY DEF TasksAreValid

LEMMA WorkGoesOn ==
  ASSUME TasksAreValid, NEW w \in hookWork, NEW op, op # "add", WorkGoes(w, op)
  PROVE  TasksAreValid'
<1>1. HookTaskOK([w EXCEPT !.op = op])
  BY DEF TasksAreValid, HookTaskOK
<1> QED
  BY <1>1, WorkPut DEF WorkGoes

LEMMA WorkEnds ==
  ASSUME TasksAreValid, NEW w \in hookWork, Ends(w)
  PROVE  TasksAreValid'
  BY DEF TasksAreValid, Ends

LEMMA WorkBegins ==
  ASSUME TasksAreValid, NEW op, NEW h, op = "add" => HookValid(h), Spawn(Task(op, h))
  PROVE  TasksAreValid'
<1>1. PICK n : hookWork' = hookWork \cup {[Task(op, h) EXCEPT !.n = n]}
  BY Zenon DEF Spawn
<1>2. HookTaskOK([Task(op, h) EXCEPT !.n = n])
  BY DEF HookTaskOK, Task
<1> QED
  BY <1>1, <1>2, WorkPut

-----------------------------------------------------------------------------
(* The hook a run stands at is one of its list, and valid.                 *)
LEMMA NextIsValid ==
  ASSUME NEW r, RunOK(r), Rest(r) > 0
  PROVE  HookValid(r.list[r.ok + r.bad + r.skip + 1]) /\ Counted(r) < Len(r.list)
<1>1. /\ r.ok \in Nat /\ r.bad \in Nat /\ r.skip \in Nat /\ Len(r.list) \in Nat
      /\ \A i \in 1..Len(r.list) : HookValid(r.list[i])
  BY DEF RunOK
<1>2. Len(r.list) - r.ok - r.bad - r.skip > 0
  BY DEF Rest
<1>3. r.ok + r.bad + r.skip + 1 \in 1..Len(r.list) /\ Counted(r) < Len(r.list)
  BY <1>1, <1>2 DEF Counted
<1> QED
  BY <1>1, <1>3

LEMMA RestSkipped ==
  ASSUME NEW r, RunOK(r)
  PROVE  LET q == [r EXCEPT !.skip = @ + Rest(r)] IN Len(q.list) = Counted(q)
<1> DEFINE q == [r EXCEPT !.skip = @ + Rest(r)]
<1>1. q.ok = r.ok /\ q.bad = r.bad /\ q.skip = r.skip + Rest(r) /\ q.list = r.list
  BY DEF RunOK, RunFields
<1>2. r.ok \in Nat /\ r.bad \in Nat /\ r.skip \in Nat /\ Len(r.list) \in Nat
  BY DEF RunOK
<1> HIDE DEF q
<1>3. Len(q.list) = Counted(q)
  BY <1>1, <1>2 DEF Counted, Rest
<1> QED
  BY <1>3 DEF q

(* The task of the hook under way has ended: one more is counted.          *)
LEMMA OneCounted ==
  ASSUME NEW r, RunOK(r), r.busy, NEW good \in BOOLEAN
  PROVE  RunOK(IF good THEN [r EXCEPT !.busy = FALSE, !.ok = @ + 1]
               ELSE [r EXCEPT !.busy = FALSE, !.bad = @ + 1])
<1>1. /\ r.ok \in Nat /\ r.bad \in Nat /\ r.skip \in Nat /\ Len(r.list) \in Nat
      /\ Counted(r) < Len(r.list) /\ DOMAIN r = RunFields
      /\ \A i \in 1..Len(r.list) : HookValid(r.list[i])
  BY DEF RunOK
<1>2. CASE good
  <2> DEFINE q == [r EXCEPT !.busy = FALSE, !.ok = @ + 1]
  <2>1. /\ q.ok = r.ok + 1 /\ q.bad = r.bad /\ q.skip = r.skip /\ q.list = r.list
        /\ DOMAIN q = RunFields /\ q.busy = FALSE
    BY <1>1 DEF RunFields
  <2> HIDE DEF q
  <2>2. RunOK(q)
    BY <1>1, <2>1 DEF RunOK, Counted
  <2> QED
    BY <1>2, <2>2 DEF q
<1>3. CASE ~good
  <2> DEFINE q == [r EXCEPT !.busy = FALSE, !.bad = @ + 1]
  <2>1. /\ q.ok = r.ok /\ q.bad = r.bad + 1 /\ q.skip = r.skip /\ q.list = r.list
        /\ DOMAIN q = RunFields /\ q.busy = FALSE
    BY <1>1 DEF RunFields
  <2> HIDE DEF q
  <2>2. RunOK(q)
    BY <1>1, <2>1 DEF RunOK, Counted
  <2> QED
    BY <1>3, <2>2 DEF q
<1> QED
  BY <1>2, <1>3

LEMMA BeginKeepsCounts ==
  ASSUME HookInv, NEW s \in HookSites, NEW e, BeginRun(s, e)
  PROVE  RunsAreValid' /\ ViewsAreValid'
<1>1. PICK list \in ListHooksByEvent(s, e) :
         LET r == [n |-> 1, list |-> list, strict |-> FailOn(s), busy |-> FALSE,
                   ok |-> 0, bad |-> 0, skip |-> 0]
         IN IF list = << >> THEN AllDone(s, r) /\ UNCHANGED hookRun
            ELSE hookRun' = [hookRun EXCEPT ![s] = r] /\ UNCHANGED hookView
  BY Zenon DEF BeginRun
<1>2. Len(list) \in Nat /\ \A i \in 1..Len(list) : HookValid(list[i])
  BY ListedAreValid DEF HookInv
<1> DEFINE r == [n |-> 1, list |-> list, strict |-> FailOn(s), busy |-> FALSE,
                 ok |-> 0, bad |-> 0, skip |-> 0]
<1>3. RunOK(r)
  BY <1>2 DEF RunOK, Counted, RunFields
<1>4. r.list = list /\ Counted(r) = 0
  BY DEF Counted
<1>5. IF list = << >> THEN AllDone(s, r) /\ UNCHANGED hookRun
      ELSE hookRun' = [hookRun EXCEPT ![s] = r] /\ UNCHANGED hookView
  BY <1>1
<1> HIDE DEF r
<1>6. CASE list = << >>
  <2>1. Len(r.list) = Counted(r)
    BY <1>4, <1>6
  <2>2. ViewsAreValid'
    BY <1>5, <1>6, <2>1, AllCounted DEF HookInv
  <2> QED
    BY <1>5, <1>6, <2>2 DEF HookInv, RunsAreValid
<1>7. CASE list # << >>
  <2>1. RunsAreValid'
    BY <1>3, <1>5, <1>7, RunSet DEF HookInv
  <2> QED
    BY <1>5, <1>7, <2>1 DEF HookInv, ViewsAreValid
<1> QED
  BY <1>6, <1>7

LEMMA StopKeepsCounts ==
  ASSUME HookInv, NEW s, NEW r, Len(r.list) = Counted(r), Stops(s, r)
  PROVE  RunsAreValid' /\ ViewsAreValid'
<1>1. ViewsAreValid'
  BY AllCounted DEF Stops, HookInv
<1>2. RunsAreValid'
  BY RunSet DEF Stops, HookInv
<1> QED
  BY <1>1, <1>2

LEMMA SkipKeepsCounts ==
  ASSUME HookInv, NEW s \in HookSites, SkipHook(s)
  PROVE  RunsAreValid'
<1> DEFINE r == hookRun[s]
           q == [hookRun[s] EXCEPT !.skip = @ + 1]
<1>1. RunOK(r) /\ Rest(r) > 0 /\ ~r.busy
  BY DEF SkipHook, Between, HookInv, RunsAreValid
<1>2. Counted(r) < Len(r.list)
  BY <1>1, NextIsValid
<1>3. /\ q.ok = r.ok /\ q.bad = r.bad /\ q.skip = r.skip + 1 /\ q.list = r.list
      /\ DOMAIN q = RunFields /\ q.busy = r.busy
  BY <1>1 DEF RunOK, RunFields
<1>4. hookRun' = [hookRun EXCEPT ![s] = q]
  BY DEF SkipHook, RunGoes
<1> HIDE DEF q, r
<1>5. RunOK(q)
  BY <1>1, <1>2, <1>3 DEF RunOK, Counted
<1> QED
  BY <1>4, <1>5, RunSet DEF HookInv

(* A run meets no row it has to refuse: this is where a strict run would   *)
(* end without counting the hooks after it.                                *)
LEMMA StartKeepsCounts ==
  ASSUME HookInv, NEW s \in HookSites, StartHook(s)
  PROVE  RunsAreValid' /\ ViewsAreValid'
<1> DEFINE r == hookRun[s]
           q == [hookRun[s] EXCEPT !.busy = TRUE]
           v == [running |-> NextHook(s).id, summary |-> NoSummary]
<1>1. RunOK(r) /\ Rest(r) > 0
  BY DEF StartHook, Between, HookInv, RunsAreValid
<1>2. HookValid(r.list[r.ok + r.bad + r.skip + 1]) /\ Counted(r) < Len(r.list)
  BY <1>1, NextIsValid
<1>3. HookValid(NextHook(s))
  BY <1>2 DEF NextHook
<1>4. hookRun' = [hookRun EXCEPT ![s] = q] /\ hookView' = [hookView EXCEPT ![s] = v]
  BY <1>3 DEF StartHook, RunGoes
<1>5. /\ q.ok = r.ok /\ q.bad = r.bad /\ q.skip = r.skip /\ q.list = r.list
      /\ DOMAIN q = RunFields
  BY <1>1 DEF RunOK, RunFields
<1>6. ViewOK(v)
  BY Announced
<1> HIDE DEF q, r, v
<1>7. RunOK(q)
  BY <1>1, <1>2, <1>5 DEF RunOK, Counted
<1>8. RunsAreValid'
  BY <1>4, <1>7, RunSet DEF HookInv
<1>9. ViewsAreValid'
  BY <1>4, <1>6, ViewSet DEF HookInv
<1> QED
  BY <1>8, <1>9

LEMMA DoneKeepsCounts ==
  ASSUME HookInv, NEW s \in HookSites, NEW good \in BOOLEAN, DoneHook(s, good)
  PROVE  RunsAreValid' /\ ViewsAreValid'
<1> DEFINE r == IF good THEN [hookRun[s] EXCEPT !.busy = FALSE, !.ok = @ + 1]
                ELSE [hookRun[s] EXCEPT !.busy = FALSE, !.bad = @ + 1]
           q == [r EXCEPT !.skip = @ + Rest(r)]
<1>1. RunOK(r)
  BY OneCounted DEF DoneHook, HookInv, RunsAreValid
<1>2. Len(q.list) = Counted(q)
  <2> HIDE DEF r
  <2> QED
    BY <1>1, RestSkipped
<1>3. IF ~good /\ r.strict THEN Stops(s, q)
      ELSE RunGoes(s, r) /\ hookView' = [hookView EXCEPT ![s].running = 0]
  BY DEF DoneHook
<1> HIDE DEF r, q
<1>4. CASE ~good /\ r.strict
  BY <1>2, <1>3, <1>4, StopKeepsCounts
<1>5. CASE ~(~good /\ r.strict)
  <2>1. RunsAreValid'
    BY <1>1, <1>3, <1>5, RunSet DEF HookInv, RunGoes
  <2>2. ViewsAreValid'
    BY <1>3, <1>5, ViewRuns DEF HookInv
  <2> QED
    BY <2>1, <2>2
<1> QED
  BY <1>4, <1>5

LEMMA CancelKeepsCounts ==
  ASSUME HookInv, NEW s \in HookSites, CancelRun(s)
  PROVE  RunsAreValid' /\ ViewsAreValid'
<1> DEFINE q == [hookRun[s] EXCEPT !.skip = @ + Rest(hookRun[s])]
<1>1. RunOK(hookRun[s])
  BY DEF CancelRun, Between, HookInv, RunsAreValid
<1>2. Len(q.list) = Counted(q)
  BY <1>1, RestSkipped
<1>3. Stops(s, q)
  BY DEF CancelRun
<1> HIDE DEF q
<1> QED
  BY <1>2, <1>3, StopKeepsCounts

LEMMA EndKeepsCounts ==
  ASSUME HookInv, NEW s \in HookSites, EndRun(s)
  PROVE  RunsAreValid' /\ ViewsAreValid'
<1> DEFINE r == hookRun[s]
<1>1. RunOK(r) /\ Rest(r) = 0 /\ Stops(s, r)
  BY DEF EndRun, Between, HookInv, RunsAreValid
<1> HIDE DEF r
<1>2. r.ok \in Nat /\ r.bad \in Nat /\ r.skip \in Nat /\ Len(r.list) \in Nat
  BY <1>1 DEF RunOK
<1>3. Len(r.list) - r.ok - r.bad - r.skip = 0
  BY <1>1 DEF Rest
<1>4. Len(r.list) = Counted(r)
  BY ONLY <1>2, <1>3 DEF Counted
<1> QED
  BY <1>1, <1>4, StopKeepsCounts

-----------------------------------------------------------------------------
LEMMA WriteKeepsHooks ==
  ASSUME HookInv, NEW w \in hookWork, WriteHook(w)
  PROVE  RowsAreValid' /\ TasksAreValid'
<1>1. ASSUME Ends(w), UNCHANGED hookRows PROVE RowsAreValid' /\ TasksAreValid'
  BY <1>1, WorkEnds DEF HookInv, RowsAreValid
<1>2. ASSUME RowsAreValid', WorkGoes(w, "list") PROVE RowsAreValid' /\ TasksAreValid'
  BY <1>2, WorkGoesOn DEF HookInv
<1>3. CASE w.op = "add" /\ CanAdd /\ hookRows' = AddedHook(w.hook) /\ WorkGoes(w, "list")
  <2>1. HookValid(w.hook)
    BY <1>3 DEF HookInv, TasksAreValid, HookTaskOK
  <2> QED
    BY <1>2, <1>3, <2>1, AddKeepsRows DEF HookInv
<1>4. CASE /\ w.op = "update" /\ HookValid(w.hook) /\ \E g \in hookRows : Matches(w.hook, g)
           /\ hookRows' = UpdatedHook(w.hook) /\ WorkGoes(w, "list")
  BY <1>2, <1>4, UpdateKeepsRows DEF HookInv
<1>5. CASE w.op = "delete" /\ hookRows' = DeletedHook(w.hook.id) /\ WorkGoes(w, "list")
  <2>1. hookRows' \in SUBSET hookRows
    BY <1>5 DEF DeletedHook
  <2>2. RowsAreValid'
    BY <2>1, FS_Subset DEF HookInv, RowsAreValid
  <2> QED
    BY <1>2, <1>5, <2>2
<1>6. CASE /\ w.op = "reorder" /\ SameHooks(w.site, w.hook.event, w.ids)
           /\ hookRows' = Reordered(w.site, w.hook.event, w.ids) /\ WorkGoes(w, "list")
  BY <1>2, <1>6, ReorderKeepsRows DEF HookInv
<1> QED
  BY <1>1, <1>3, <1>4, <1>5, <1>6 DEF WriteHook

(* The goroutines that only move on.                                       *)
LEMMA MoveKeepsHooks ==
  ASSUME HookInv, NEW w \in hookWork, PlanMove(w)
  PROVE  HookInv'
<1>1. ASSUME NEW ids, hookWork' = (hookWork \ {w}) \cup {[w EXCEPT !.op = "reorder", !.ids = ids]}
      PROVE  TasksAreValid'
  <2>1. HookTaskOK([w EXCEPT !.op = "reorder", !.ids = ids])
    BY DEF HookInv, TasksAreValid, HookTaskOK
  <2> QED
    BY <1>1, <2>1, WorkPut DEF HookInv
<1>2. Ends(w) \/ \E ids : hookWork' = (hookWork \ {w}) \cup {[w EXCEPT !.op = "reorder", !.ids = ids]}
  BY Zenon DEF PlanMove
<1>3. TasksAreValid'
  BY <1>1, <1>2, WorkEnds DEF HookInv
<1> QED
  BY <1>3 DEF PlanMove, HookInv, RowsAreValid, RunsAreValid, ViewsAreValid

LEMMA ListKeepsHooks ==
  ASSUME HookInv, NEW w \in hookWork, ListRows(w)
  PROVE  HookInv'
<1>1. HookTaskOK([w EXCEPT !.op = "store", !.rows = HooksOf(w.site)])
  BY DEF HookInv, TasksAreValid, HookTaskOK
<1>2. TasksAreValid'
  BY <1>1, WorkPut DEF ListRows, HookInv
<1> QED
  BY <1>2 DEF ListRows, HookInv, RowsAreValid, RunsAreValid, ViewsAreValid

LEMMA OneHookKeeps ==
  ASSUME HookInv, NEW w \in hookWork, StartOne(w) \/ DoneOne(w)
  PROVE  TasksAreValid' /\ ViewsAreValid'
<1>1. TasksAreValid'
  BY WorkGoesOn, WorkEnds DEF StartOne, DoneOne, HookInv
<1>2. CASE hookView' = [hookView EXCEPT ![w.site] = [running |-> w.hook.id, summary |-> NoSummary]]
  BY <1>1, <1>2, Announced, ViewSet DEF HookInv
<1>3. CASE hookView' = [hookView EXCEPT ![w.site].running = 0]
  BY <1>1, <1>3, ViewRuns DEF HookInv
<1>4. CASE hookView' = hookView
  BY <1>1, <1>4 DEF HookInv, ViewsAreValid
<1> QED
  BY <1>2, <1>3, <1>4 DEF StartOne, DoneOne

LEMMA ClickKeepsHooks ==
  ASSUME HookInv, ClickRow
  PROVE  TasksAreValid' /\ ViewsAreValid'
<1>1. PICK h \in Shown :
         \/ Spawn(Task("update", [h EXCEPT !.on = ~@])) /\ UNCHANGED hookView
         \/ Spawn(Task("delete", h)) /\ UNCHANGED hookView
         \/ Spawn(Task("move", h)) /\ UNCHANGED hookView
         \/ /\ Spawn(Task("run", h))
            /\ hookView' = [hookView EXCEPT ![h.site] = [running |-> h.id, summary |-> NoSummary]]
  BY Zenon DEF ClickRow
<1>2. TasksAreValid'
  <2>1. TasksAreValid
    BY DEF HookInv
  <2>2. ASSUME NEW op \in {"update", "delete", "move", "run"}, NEW x, Spawn(Task(op, x))
        PROVE  TasksAreValid'
    BY <2>1, <2>2, WorkBegins
  <2> QED
    BY <1>1, <2>2
<1>3. CASE UNCHANGED hookView
  BY <1>2, <1>3 DEF HookInv, ViewsAreValid
<1>4. CASE hookView' = [hookView EXCEPT ![h.site] = [running |-> h.id, summary |-> NoSummary]]
  BY <1>2, <1>4, Announced, ViewSet DEF HookInv
<1> QED
  BY <1>1, <1>3, <1>4

LEMMA SubmitKeepsHooks ==
  ASSUME HookInv, SubmitEditor
  PROVE  TasksAreValid'
<1>1. PICK h : HookValid(h) /\ Spawn(Task(IF h.id = 0 THEN "add" ELSE "update", h))
  BY Zenon DEF SubmitEditor
<1> QED
  BY <1>1, WorkBegins DEF HookInv

LEMMA HookInvStep == HookInv /\ [HooksNext]_hookVars => HookInv'
<1> SUFFICES ASSUME HookInv, [HooksNext]_hookVars PROVE HookInv'
  OBVIOUS
<1> DEFINE Rows == hookRows' = hookRows
           Work == hookWork' = hookWork
           Run == hookRun' = hookRun
           View == hookView' = hookView
<1>0. /\ Rows => RowsAreValid'
      /\ Work => TasksAreValid'
      /\ Run => RunsAreValid'
      /\ View => ViewsAreValid'
  BY DEF HookInv, RowsAreValid, TasksAreValid, RunsAreValid, ViewsAreValid
<1>1. CASE ToggleFail \/ OpenEditor \/ CloseEditor \/ (\E s \in HookSites : ShowSite(s))
  BY <1>0, <1>1 DEF ToggleFail, OpenEditor, CloseEditor, ShowSite, HookInv
<1>2. CASE SubmitEditor
  <2>1. Rows /\ Run /\ View
    BY <1>2 DEF SubmitEditor
  <2> QED
    BY <1>0, <1>2, <2>1, SubmitKeepsHooks DEF HookInv
<1>3. CASE ClickRow
  <2>1. Rows /\ Run
    BY <1>3 DEF ClickRow
  <2> QED
    BY <1>0, <1>3, <2>1, ClickKeepsHooks DEF HookInv
<1>4. ASSUME NEW w \in hookWork, WriteHook(w)
      PROVE  HookInv'
  <2>1. Run /\ View
    BY <1>4 DEF WriteHook
  <2> QED
    BY <1>0, <1>4, <2>1, WriteKeepsHooks DEF HookInv
<1>5. ASSUME NEW w \in hookWork, PlanMove(w) \/ ListRows(w)
      PROVE  HookInv'
  BY <1>5, MoveKeepsHooks, ListKeepsHooks
<1>6. ASSUME NEW w \in hookWork, StoreRows(w)
      PROVE  HookInv'
  <2>1. TasksAreValid'
    BY <1>6, WorkEnds DEF StoreRows, HookInv
  <2> QED
    BY <1>0, <1>6, <2>1 DEF StoreRows, HookInv
<1>7. ASSUME NEW w \in hookWork, StartOne(w) \/ DoneOne(w)
      PROVE  HookInv'
  <2>1. Rows /\ Run
    BY <1>7 DEF StartOne, DoneOne
  <2> QED
    BY <1>0, <1>7, <2>1, OneHookKeeps DEF HookInv
<1>8. ASSUME NEW s \in HookSites, CancelRun(s) \/ StartHook(s) \/ EndRun(s)
      PROVE  HookInv'
  <2>1. Rows /\ Work
    BY <1>8 DEF CancelRun, StartHook, EndRun
  <2>2. RunsAreValid' /\ ViewsAreValid'
    BY <1>8, CancelKeepsCounts, StartKeepsCounts, EndKeepsCounts
  <2> QED
    BY <1>0, <2>1, <2>2 DEF HookInv
<1>9. ASSUME NEW s \in HookSites, SkipHook(s)
      PROVE  HookInv'
  <2>1. Rows /\ Work /\ View
    BY <1>9 DEF SkipHook
  <2> QED
    BY <1>0, <1>9, <2>1, SkipKeepsCounts DEF HookInv
<1>10. ASSUME NEW s \in HookSites, ClearView(s)
       PROVE  HookInv'
  <2>1. ViewsAreValid'
    BY <1>10, Announced, ViewSet DEF ClearView, HookInv
  <2> QED
    BY <1>0, <1>10, <2>1 DEF ClearView, HookInv
<1>11. ASSUME NEW s \in HookSites, PurgeHooks(s)
       PROVE  HookInv'
  <2>1. RowsAreValid'
    BY <1>11, FS_Subset DEF PurgeHooks, HookInv, RowsAreValid
  <2> QED
    BY <1>0, <1>11, <2>1 DEF PurgeHooks, HookInv
<1>12. ASSUME NEW s \in HookSites, NEW e \in HookEvents, BeginRun(s, e)
       PROVE  HookInv'
  <2>1. Rows /\ Work
    BY <1>12 DEF BeginRun
  <2> QED
    BY <1>0, <1>12, <2>1, BeginKeepsCounts DEF HookInv
<1>13. ASSUME NEW s \in HookSites, NEW good \in BOOLEAN, DoneHook(s, good)
       PROVE  HookInv'
  <2>1. Rows /\ Work
    BY <1>13 DEF DoneHook
  <2> QED
    BY <1>0, <1>13, <2>1, DoneKeepsCounts DEF HookInv
<1>14. CASE UNCHANGED hookVars
  BY <1>0, <1>14 DEF hookVars, HookInv
<1> QED
  BY <1>1, <1>2, <1>3, <1>4, <1>5, <1>6, <1>7, <1>8, <1>9, <1>10, <1>11, <1>12, <1>13, <1>14
     DEF HooksNext

(* The summary the GUI shows of a run adds up to the hooks the run read,   *)
(* for any hooks, events and edits of the panel while it goes: Runner.Run  *)
(* with AddHook, UpdateHook, ReorderHooks and DeleteHook under it.         *)
THEOREM RunSummariesAddUp == HooksSpec => []SummariesAddUp
<1>1. HookInv => SummariesAddUp
  BY DEF HookInv, ViewsAreValid, ViewOK, SummariesAddUp
<1> QED
  BY <1>1, HookInvInit, HookInvStep, PTL DEF HooksSpec

-----------------------------------------------------------------------------
(* The types of the hooks' table, of the panel and of its goroutines.  Ids  *)
(* are distinct wherever rows are kept: a reorder names each row once, and  *)
(* so gives each of them a position.                                        *)
EditedHook == [id : HookIds \cup {0}, site : HookSites, event : HookEvents, pos : Nat,
               kind : HookKinds \cup {"exec", "exec-host"}, on : BOOLEAN]
OneIdEach(S) == \A g, h \in S : g.id = h.id => g = h
HookTable(S) == S \subseteq HookRow /\ OneIdEach(S)
Listing(q) == Len(q) \in Nat /\ DOMAIN q = 1..Len(q) /\ \A i, j \in 1..Len(q) : i # j => q[i] # q[j]
HookTaskTyped(w) ==
  /\ DOMAIN w = {"n", "op", "site", "hook", "ids", "rows"}
  /\ w.op \in WorkOps /\ w.site \in HookSites /\ w.hook \in EditedHook
  /\ w.op \in {"add", "update"} => w.hook.kind \in HookKinds
  /\ HookTable(w.rows)
  /\ w.op = "reorder" => Listing(w.ids)
PanelTyped(p) ==
  /\ DOMAIN p = {"site", "loaded", "rows", "fail", "failLoaded", "draft"}
  /\ p.site \in HookSites /\ HookTable(p.rows)
  /\ p.draft # NoHook => p.draft \in EditedHook
TableTyped == HookTable(hookRows)
WorkTyped == \A w \in hookWork : HookTaskTyped(w)
FlagTyped == failFlag \in [HookSites \cup {"global"} -> {"unset", "on", "off"}]
CountTyped == hookCount \in 0..(MaxHookWork + MaxHookRuns)
HookTypes == TableTyped /\ WorkTyped /\ PanelTyped(hookPanel) /\ FlagTyped /\ CountTyped

LEMMA HookTypesInit == HooksInit => HookTypes
<1> SUFFICES ASSUME HooksInit PROVE HookTypes
  OBVIOUS
<1>1. TableTyped /\ WorkTyped
  BY DEF HooksInit, TableTyped, WorkTyped, HookTable, OneIdEach
<1>2. PanelTyped(hookPanel)
  BY DEF HooksInit, PanelTyped, HookTable, OneIdEach
<1>3. FlagTyped
  BY DEF HooksInit, FlagTyped
<1>4. CountTyped
  BY HooksAssumption DEF HooksInit, CountTyped
<1> QED
  BY <1>1, <1>2, <1>3, <1>4 DEF HookTypes

LEMMA TableOfSet ==
  ASSUME NEW T, HookTable(T), NEW S \in SUBSET T
  PROVE  HookTable(S)
  BY DEF HookTable, OneIdEach

LEMMA RowIsEdited == ASSUME NEW h \in HookRow PROVE h \in EditedHook
  BY DEF HookRow, EditedHook

(* An id is left while there are fewer rows than ids.                      *)
LEMMA IdIsLeft ==
  ASSUME RowsAreValid, TableTyped, CanAdd
  PROVE  \E i \in HookIds : \A g \in hookRows : g.id # i
<1> DEFINE used == {g.id : g \in hookRows}
           f == [g \in hookRows |-> g.id]
<1>1. f \in Surjection(hookRows, used)
  BY DEF Surjection
<1> HIDE DEF f
<1>2. IsFiniteSet(used) /\ Cardinality(used) <= Cardinality(hookRows)
  BY <1>1, FS_Surjection DEF RowsAreValid
<1>3. /\ Cardinality(used) \in Nat /\ Cardinality(hookRows) \in Nat /\ Cardinality(HookIds) \in Nat
      /\ Cardinality(hookRows) < Cardinality(HookIds)
  BY <1>2, HooksAssumption, FS_CardinalityType DEF RowsAreValid, CanAdd
<1>4. ~(HookIds \subseteq used)
  <2> HIDE DEF used
  <2> QED
    BY <1>2, <1>3, FS_Subset
<1> QED
  BY <1>4

LEMMA PlacesAreFinite ==
  ASSUME RowsAreValid, TableTyped, NEW S \in SUBSET hookRows
  PROVE  /\ {g.pos : g \in S} \in SUBSET Nat /\ IsFiniteSet({g.pos : g \in S})
         /\ S # {} => {g.pos : g \in S} # {}
<1> DEFINE f == [g \in S |-> g.pos]
           places == {g.pos : g \in S}
<1>1. IsFiniteSet(S) /\ \A g \in S : g.pos \in Nat
  BY RowsOfSet DEF TableTyped, HookTable, HookRow
<1>2. f \in Surjection(S, places)
  BY DEF Surjection
<1>3. places \in SUBSET Nat /\ (S # {} => places # {})
  BY <1>1
<1> HIDE DEF f, places
<1>4. IsFiniteSet(places)
  BY <1>1, <1>2, FS_Surjection
<1> QED
  BY <1>3, <1>4 DEF places

LEMMA AddedHookIsTyped ==
  ASSUME RowsAreValid, TableTyped, CanAdd, NEW h \in EditedHook, h.kind \in HookKinds,
         hookRows' = AddedHook(h)
  PROVE  TableTyped'
<1> DEFINE peers == {g \in HooksOf(h.site) : g.event = h.event}
           places == {g.pos : g \in peers}
           id == CHOOSE i \in HookIds : \A g \in hookRows : g.id # i
           pos == IF peers = {} THEN 0 ELSE Max(places) + 1
           x == [id |-> id, site |-> h.site, event |-> h.event, kind |-> h.kind, on |-> h.on,
                 pos |-> pos]
<1>1. id \in HookIds /\ \A g \in hookRows : g.id # id
  BY IdIsLeft
<1>2. pos \in Nat
  <2>1. peers \in SUBSET hookRows
    BY DEF HooksOf
  <2>2. places \in SUBSET Nat /\ IsFiniteSet(places) /\ (peers # {} => places # {})
    BY <2>1, PlacesAreFinite
  <2> HIDE DEF places, peers
  <2>3. peers # {} => Max(places) \in Nat
    BY <2>2, GreatestExists
  <2> QED
    BY <2>3
<1>3. hookRows' = hookRows \cup {x}
  BY DEF AddedHook
<1> HIDE DEF id, pos
<1>4. x \in HookRow /\ x.id = id
  BY <1>1, <1>2 DEF HookRow, EditedHook
<1> HIDE DEF x
<1> QED
  BY <1>1, <1>3, <1>4 DEF TableTyped, HookTable, OneIdEach

LEMMA MappedTable ==
  ASSUME TableTyped, NEW f, hookRows' = {f[g] : g \in hookRows},
         \A g \in hookRows : f[g] \in HookRow /\ f[g].id = g.id
  PROVE  TableTyped'
  BY DEF TableTyped, HookTable, OneIdEach

LEMMA UpdatedHookIsTyped ==
  ASSUME TableTyped, NEW h \in EditedHook, h.kind \in HookKinds, hookRows' = UpdatedHook(h)
  PROVE  TableTyped'
<1> DEFINE f == [g \in hookRows |-> IF Matches(h, g) THEN [g EXCEPT !.kind = h.kind, !.on = h.on] ELSE g]
<1>1. ASSUME NEW g \in hookRows PROVE f[g] \in HookRow /\ f[g].id = g.id
  <2>1. g \in HookRow /\ h.on \in BOOLEAN
    BY DEF TableTyped, HookTable, EditedHook
  <2>2. [g EXCEPT !.kind = h.kind, !.on = h.on] \in HookRow
        /\ [g EXCEPT !.kind = h.kind, !.on = h.on].id = g.id
    BY <2>1 DEF HookRow
  <2>3. f[g] = IF Matches(h, g) THEN [g EXCEPT !.kind = h.kind, !.on = h.on] ELSE g
    BY Zenon
  <2> HIDE DEF f
  <2> QED
    BY <2>1, <2>2, <2>3
<1>2. hookRows' = {f[g] : g \in hookRows}
  BY Zenon DEF UpdatedHook
<1> HIDE DEF f
<1> QED
  BY <1>1, <1>2, MappedTable

(* A list of as many ids as the event has rows, all different and all of   *)
(* them the event's, leaves none of its rows out.                          *)
LEMMA ListingIsWhole ==
  ASSUME NEW ids, Listing(ids), NEW H, IsFiniteSet(H), Len(ids) = Cardinality(H),
         ToSet(ids) \subseteq H
  PROVE  \A x \in H : \E n \in 0..(Len(ids) - 1) : ids[n + 1] = x
<1> DEFINE f == [i \in 1..Len(ids) |-> ids[i]]
<1>1. \A i \in 1..Len(ids) : ids[i] \in H
  BY DEF ToSet, Listing
<1>2. f \in Injection(1..Len(ids), H)
  BY <1>1 DEF Injection, IsInjective, Listing
<1>3. Cardinality(1..Len(ids)) = Len(ids)
  BY FS_Interval DEF Listing
<1> HIDE DEF f
<1>4. f \in Surjection(1..Len(ids), H)
  BY <1>2, <1>3, FS_Injection
<1>5. ASSUME NEW x \in H PROVE \E n \in 0..(Len(ids) - 1) : ids[n + 1] = x
  <2>1. PICK i \in 1..Len(ids) : f[i] = x
    BY <1>4 DEF Surjection
  <2>2. ids[i] = x /\ i - 1 \in 0..(Len(ids) - 1) /\ (i - 1) + 1 = i
    BY <2>1 DEF f, Listing
  <2> QED
    BY <2>2
<1> QED
  BY <1>5

LEMMA EachIsListed ==
  ASSUME RowsAreValid, NEW s, NEW e, NEW ids, Listing(ids), SameHooks(s, e, ids),
         NEW g \in hookRows, g.site = s, g.event = e
  PROVE  \E n \in 0..(Len(ids) - 1) : ids[n + 1] = g.id
<1> DEFINE mine == {h \in HooksOf(s) : h.event = e}
           have == {h.id : h \in mine}
           k == [h \in mine |-> h.id]
<1>1. Len(ids) = Cardinality(have) /\ ToSet(ids) \subseteq have
  BY Zenon DEF SameHooks
<1>2. IsFiniteSet(have)
  <2>1. IsFiniteSet(mine)
    BY RowsOfSet DEF HooksOf
  <2>2. k \in Surjection(mine, have)
    BY DEF Surjection
  <2> HIDE DEF k, mine
  <2> QED
    BY <2>1, <2>2, FS_Surjection
<1>3. \A x \in have : \E n \in 0..(Len(ids) - 1) : ids[n + 1] = x
  <2> HIDE DEF have
  <2> QED
    BY <1>1, <1>2, ListingIsWhole
<1>4. g.id \in have
  BY DEF HooksOf
<1> QED
  BY <1>3, <1>4

LEMMA ReorderedIsTyped ==
  ASSUME RowsAreValid, TableTyped, NEW s, NEW e, NEW ids, Listing(ids), SameHooks(s, e, ids),
         hookRows' = Reordered(s, e, ids)
  PROVE  TableTyped'
<1> DEFINE p(g) == CHOOSE n \in 0..(Len(ids) - 1) : ids[n + 1] = g.id
           f == [g \in hookRows |-> IF g.site = s /\ g.event = e THEN [g EXCEPT !.pos = p(g)] ELSE g]
<1>1. ASSUME NEW g \in hookRows, g.site = s, g.event = e PROVE p(g) \in Nat
  <2>1. \E n \in 0..(Len(ids) - 1) : ids[n + 1] = g.id
    BY <1>1, EachIsListed
  <2>2. p(g) \in 0..(Len(ids) - 1)
    BY <2>1, Zenon
  <2> HIDE DEF p
  <2> QED
    BY <2>2 DEF Listing
<1>2. ASSUME NEW g \in hookRows PROVE f[g] \in HookRow /\ f[g].id = g.id
  <2> HIDE DEF p
  <2>1. f[g] = IF g.site = s /\ g.event = e THEN [g EXCEPT !.pos = p(g)] ELSE g
    BY Zenon
  <2>2. g \in HookRow
    BY DEF TableTyped, HookTable
  <2>3. p(g) \in Nat => [g EXCEPT !.pos = p(g)] \in HookRow /\ [g EXCEPT !.pos = p(g)].id = g.id
    BY <2>2 DEF HookRow
  <2> HIDE DEF f
  <2> QED
    BY <1>1, <2>1, <2>2, <2>3
<1>3. hookRows' = {f[g] : g \in hookRows}
  BY Zenon DEF Reordered
<1> HIDE DEF f
<1> QED
  BY <1>2, <1>3, MappedTable

(* The goroutines begin and go on with what the panel and the table hold.  *)
LEMMA WorkAdded ==
  ASSUME WorkTyped, NEW S \in SUBSET hookWork, NEW w, HookTaskTyped(w), hookWork' \in {S, S \cup {w}}
  PROVE  WorkTyped'
  BY DEF WorkTyped

LEMMA SpawnTyped ==
  ASSUME HookTypes, NEW op \in WorkOps \ {"reorder"}, NEW h \in EditedHook,
         op \in {"add", "update"} => h.kind \in HookKinds, Spawn(Task(op, h))
  PROVE  WorkTyped' /\ CountTyped'
<1>1. PICK n : hookWork' = hookWork \cup {[Task(op, h) EXCEPT !.n = n]}
  BY Zenon DEF Spawn
<1> DEFINE w == [Task(op, h) EXCEPT !.n = n]
<1>2. HookTaskTyped(w)
  BY DEF Task, HookTaskTyped, HookTypes, PanelTyped, HookTable, OneIdEach
<1>3. hookWork' = hookWork \cup {w}
  BY <1>1
<1> HIDE DEF w
<1>4. WorkTyped'
  BY <1>2, <1>3, WorkAdded DEF HookTypes
<1>5. CountTyped'
  BY HooksAssumption DEF Spawn, HookTypes, CountTyped
<1> QED
  BY <1>4, <1>5

LEMMA WorkGoesTyped ==
  ASSUME WorkTyped, NEW w \in hookWork, NEW op \in WorkOps \ {"add", "update", "reorder"}, WorkGoes(w, op)
  PROVE  WorkTyped'
<1>1. HookTaskTyped([w EXCEPT !.op = op])
  BY DEF WorkTyped, HookTaskTyped
<1> QED
  BY <1>1, WorkAdded DEF WorkGoes

LEMMA WorkEndsTyped ==
  ASSUME WorkTyped, NEW w \in hookWork, Ends(w)
  PROVE  WorkTyped'
  BY DEF WorkTyped, Ends

(* What a move plans names each row of the panel's event once.             *)
LEMMA PlannedIsListing ==
  ASSUME NEW R, HookTable(R), IsFiniteSet(R), NEW q \in InOrder(R), NEW i \in DOMAIN q, NEW j \in DOMAIN q
  PROVE  Listing([n \in DOMAIN q |-> Swapped(q, i, j)[n].id])
<1> DEFINE D == 1..Cardinality(R)
           z == Swapped(q, i, j)
           ids == [n \in DOMAIN q |-> z[n].id]
<1>1. Cardinality(R) \in Nat
  BY FS_CardinalityType
<1>2. q \in [D -> R] /\ \A m, n \in D : m # n => q[m] # q[n]
  BY DEF InOrder, SetToSeqs
<1>3. DOMAIN q = D /\ DOMAIN z = D /\ \A n \in D : z[n] = q[IF n = i THEN j ELSE IF n = j THEN i ELSE n]
  BY <1>2 DEF Swapped
<1> HIDE DEF z
<1>4. \A m, n \in D : m # n => z[m] # z[n] /\ z[m] \in R /\ z[n] \in R
  BY <1>2, <1>3
<1>5. DOMAIN ids = D /\ \A m, n \in D : m # n => ids[m] # ids[n]
  BY <1>3, <1>4 DEF HookTable, OneIdEach
<1>6. ids \in Seq({ids[n] : n \in D}) /\ Len(ids) = Cardinality(R)
  BY <1>1, <1>3
<1> HIDE DEF ids
<1>7. Listing(ids)
  BY <1>1, <1>5, <1>6 DEF Listing
<1> QED
  BY <1>7 DEF ids, z

LEMMA TableIsFinite == ASSUME NEW S, HookTable(S) PROVE IsFiniteSet(S)
<1> DEFINE f == [g \in S |-> g.id]
<1>1. f \in Injection(S, HookIds)
  BY DEF Injection, IsInjective, HookTable, OneIdEach, HookRow
<1> HIDE DEF f
<1> QED
  BY <1>1, HooksAssumption, FS_Injection

-----------------------------------------------------------------------------
(* A write of a goroutine keeps the table; what follows keeps the others.  *)
LEMMA WriteTyped ==
  ASSUME HookInv, HookTypes, NEW w \in hookWork, WriteHook(w)
  PROVE  TableTyped' /\ WorkTyped'
<1>0. HookTaskTyped(w) /\ RowsAreValid /\ TableTyped /\ WorkTyped
  BY DEF HookTypes, WorkTyped, HookInv
<1>1. WorkTyped'
  <2>1. Ends(w) \/ WorkGoes(w, "list")
    BY DEF WriteHook
  <2>2. "list" \in WorkOps \ {"add", "update", "reorder"}
    BY DEF WorkOps
  <2> QED
    BY <1>0, <2>1, <2>2, WorkGoesTyped, WorkEndsTyped
<1>2. ASSUME w.op = "add", CanAdd, hookRows' = AddedHook(w.hook) PROVE TableTyped'
  BY <1>0, <1>2, AddedHookIsTyped DEF HookTaskTyped
<1>3. ASSUME w.op = "update", hookRows' = UpdatedHook(w.hook) PROVE TableTyped'
  BY <1>0, <1>3, UpdatedHookIsTyped DEF HookTaskTyped
<1>4. ASSUME hookRows' = DeletedHook(w.hook.id) PROVE TableTyped'
  BY <1>0, <1>4, TableOfSet DEF DeletedHook, TableTyped, HookTable, OneIdEach
<1>5. ASSUME w.op = "reorder", SameHooks(w.site, w.hook.event, w.ids),
             hookRows' = Reordered(w.site, w.hook.event, w.ids)
      PROVE  TableTyped'
  BY <1>0, <1>5, ReorderedIsTyped DEF HookTaskTyped
<1>6. ASSUME hookRows' = hookRows PROVE TableTyped'
  BY <1>0, <1>6 DEF TableTyped
<1> QED
  BY <1>1, <1>2, <1>3, <1>4, <1>5, <1>6 DEF WriteHook

LEMMA PlanTyped ==
  ASSUME HookTypes, NEW w \in hookWork, PlanMove(w)
  PROVE  WorkTyped'
<1> DEFINE R == {h \in hookPanel.rows : h.event = w.hook.event}
           I(q, i, j) == [n \in DOMAIN q |-> Swapped(q, i, j)[n].id]
<1>0. HookTaskTyped(w) /\ WorkTyped
  BY DEF HookTypes, WorkTyped
<1>1. HookTable(R) /\ IsFiniteSet(R)
  <2>1. HookTable(R)
    BY DEF HookTypes, PanelTyped, HookTable, OneIdEach
  <2> HIDE DEF R
  <2> QED
    BY <2>1, TableIsFinite
<1>2. Ends(w) \/ \E q \in InOrder(R) : \E i, j \in DOMAIN q :
        hookWork' = (hookWork \ {w}) \cup {[w EXCEPT !.op = "reorder", !.ids = I(q, i, j)]}
  <2>1. PICK q \in InOrder(R) :
          LET at == {n \in DOMAIN q : q[n].id = w.hook.id}
          IN \/ \E i \in at, d \in {-1, 1} :
                  /\ i + d \in DOMAIN q
                  /\ hookWork' = (hookWork \ {w}) \cup {[w EXCEPT !.op = "reorder",
                        !.ids = [n \in DOMAIN q |-> Swapped(q, i, i + d)[n].id]]}
             \/ (\A i \in at : {i - 1, i + 1} \ DOMAIN q # {}) /\ Ends(w)
    BY Zenon DEF PlanMove
  <2>2. Ends(w) \/ \E i \in DOMAIN q, d \in {-1, 1} :
                  /\ i + d \in DOMAIN q
                  /\ hookWork' = (hookWork \ {w}) \cup {[w EXCEPT !.op = "reorder", !.ids = I(q, i, i + d)]}
    BY <2>1, Zenon
  <2> HIDE DEF I, R
  <2> QED
    BY <2>2, Zenon
<1>3. ASSUME NEW q \in InOrder(R), NEW i \in DOMAIN q, NEW j \in DOMAIN q,
             hookWork' = (hookWork \ {w}) \cup {[w EXCEPT !.op = "reorder", !.ids = I(q, i, j)]}
      PROVE  WorkTyped'
  <2>1. Listing(I(q, i, j))
    <3> HIDE DEF R
    <3> QED
      BY <1>1, PlannedIsListing
  <2> HIDE DEF I
  <2>2. HookTaskTyped([w EXCEPT !.op = "reorder", !.ids = I(q, i, j)])
    BY <1>0, <2>1 DEF HookTaskTyped, WorkOps
  <2> QED
    BY <1>0, <1>3, <2>2, WorkAdded
<1> HIDE DEF I, R
<1> QED
  BY <1>0, <1>2, <1>3, WorkEndsTyped

LEMMA GoroutineTyped ==
  ASSUME HookTypes, NEW w \in hookWork, ListRows(w) \/ StoreRows(w) \/ StartOne(w) \/ DoneOne(w)
  PROVE  WorkTyped' /\ PanelTyped(hookPanel)'
<1>0. HookTaskTyped(w) /\ WorkTyped /\ PanelTyped(hookPanel)
  BY DEF HookTypes, WorkTyped
<1>1. CASE ListRows(w)
  <2>1. HookTable(HooksOf(w.site))
    BY DEF HookTypes, TableTyped, HookTable, OneIdEach, HooksOf
  <2>2. HookTaskTyped([w EXCEPT !.op = "store", !.rows = HooksOf(w.site)])
    BY <1>0, <2>1 DEF HookTaskTyped, WorkOps
  <2> QED
    BY <1>0, <1>1, <2>2, WorkAdded DEF ListRows
<1>2. CASE StoreRows(w)
  <2>1. PanelTyped([hookPanel EXCEPT !.loaded = w.site, !.rows = w.rows])
    BY <1>0 DEF PanelTyped, HookTaskTyped
  <2> QED
    BY <1>0, <1>2, <2>1, WorkEndsTyped DEF StoreRows
<1>3. CASE StartOne(w) \/ DoneOne(w)
  <2>1. "task" \in WorkOps \ {"add", "update", "reorder"}
    BY DEF WorkOps
  <2> QED
    BY <1>0, <1>3, <2>1, WorkGoesTyped, WorkEndsTyped DEF StartOne, DoneOne
<1> QED
  BY <1>1, <1>2, <1>3

(* What the user does with the panel.                                      *)
LEMMA ShowTyped ==
  ASSUME HookTypes, NEW s \in HookSites, ShowSite(s)
  PROVE  PanelTyped(hookPanel)'
<1>1. HookTable(HooksOf(s)) /\ PanelTyped(hookPanel)
  BY DEF HookTypes, TableTyped, HookTable, OneIdEach, HooksOf
<1> DEFINE listed == IF hookPanel.loaded # s THEN HooksOf(s) ELSE hookPanel.rows
           fails == IF hookPanel.failLoaded THEN hookPanel.fail ELSE FailOn(s)
<1>2. hookPanel' = [hookPanel EXCEPT !.site = s, !.loaded = s, !.rows = listed, !.fail = fails,
                                     !.failLoaded = TRUE]
  BY <1>1 DEF ShowSite, PanelTyped
<1>3. HookTable(listed)
  BY <1>1 DEF PanelTyped
<1> HIDE DEF listed, fails
<1> QED
  BY <1>1, <1>2, <1>3 DEF PanelTyped

LEMMA ShownAreEdited ==
  ASSUME HookTypes, NEW h \in Shown
  PROVE  h \in HookRow /\ h \in EditedHook
<1>1. h \in HookRow
  BY DEF Shown, HookTypes, PanelTyped, HookTable
<1> QED
  BY <1>1, RowIsEdited

LEMMA OpenTyped ==
  ASSUME HookTypes, OpenEditor
  PROVE  PanelTyped(hookPanel)'
<1>0. PanelTyped(hookPanel)
  BY DEF HookTypes
<1>1. PICK x \in EditedHook : hookPanel' = [hookPanel EXCEPT !.draft = x]
  <2>1. CASE \E e \in HookEvents : hookPanel' = [hookPanel EXCEPT !.draft =
               [id |-> 0, site |-> hookPanel.site, event |-> e, pos |-> 0,
                kind |-> DefaultKind(e), on |-> TRUE]]
    <3>1. PICK e \in HookEvents : hookPanel' = [hookPanel EXCEPT !.draft =
               [id |-> 0, site |-> hookPanel.site, event |-> e, pos |-> 0,
                kind |-> DefaultKind(e), on |-> TRUE]]
      BY <2>1
    <3>2. DefaultKind(e) \in {"exec", "exec-host"}
      BY DEF DefaultKind
    <3>3. [id |-> 0, site |-> hookPanel.site, event |-> e, pos |-> 0,
           kind |-> DefaultKind(e), on |-> TRUE] \in EditedHook
      BY <1>0, <3>2 DEF EditedHook, PanelTyped
    <3> QED
      BY <3>1, <3>3
  <2>2. CASE \E h \in Shown : hookPanel' = [hookPanel EXCEPT !.draft = h]
    BY <2>2, ShownAreEdited
  <2> QED
    BY <2>1, <2>2 DEF OpenEditor
<1> QED
  BY <1>0, <1>1 DEF PanelTyped

LEMMA SubmitTyped ==
  ASSUME HookTypes, SubmitEditor
  PROVE  WorkTyped' /\ CountTyped' /\ PanelTyped(hookPanel)'
<1>1. PICK e \in HookEvents, k \in HookKinds, on \in BOOLEAN :
        LET h == [hookPanel.draft EXCEPT !.event = e, !.kind = k, !.on = on]
        IN HookValid(h) /\ Spawn(Task(IF h.id = 0 THEN "add" ELSE "update", h))
  BY Zenon DEF SubmitEditor
<1> DEFINE h == [hookPanel.draft EXCEPT !.event = e, !.kind = k, !.on = on]
<1>2. hookPanel.draft \in EditedHook
  BY DEF SubmitEditor, HookTypes, PanelTyped
<1>3. h \in EditedHook /\ h.kind \in HookKinds
  BY <1>2 DEF EditedHook
<1>4. Spawn(Task(IF h.id = 0 THEN "add" ELSE "update", h))
  BY <1>1
<1> HIDE DEF h
<1>5. WorkTyped' /\ CountTyped'
  <2>1. "add" \in WorkOps \ {"reorder"} /\ "update" \in WorkOps \ {"reorder"}
    BY DEF WorkOps
  <2>2. CASE h.id = 0
    BY <1>3, <1>4, <2>1, <2>2, SpawnTyped
  <2>3. CASE h.id # 0
    BY <1>3, <1>4, <2>1, <2>3, SpawnTyped
  <2> QED
    BY <2>2, <2>3
<1>6. PanelTyped([hookPanel EXCEPT !.draft = NoHook])
  BY DEF HookTypes, PanelTyped
<1> QED
  BY <1>5, <1>6 DEF SubmitEditor

LEMMA ClickTyped ==
  ASSUME HookTypes, ClickRow
  PROVE  WorkTyped' /\ CountTyped'
<1>1. PICK h \in Shown :
         \/ Spawn(Task("update", [h EXCEPT !.on = ~@]))
         \/ \E op \in {"delete", "move", "run"} : Spawn(Task(op, h))
  BY Zenon DEF ClickRow
<1>2. h \in HookRow /\ h \in EditedHook
  BY ShownAreEdited
<1>3. [h EXCEPT !.on = ~@] \in EditedHook /\ [h EXCEPT !.on = ~@].kind \in HookKinds
  BY <1>2 DEF EditedHook, HookRow
<1>4. "update" \in WorkOps \ {"reorder"} /\ {"delete", "move", "run"} \subseteq WorkOps \ {"reorder", "add", "update"}
  BY DEF WorkOps
<1>5. CASE Spawn(Task("update", [h EXCEPT !.on = ~@]))
  BY <1>3, <1>4, <1>5, SpawnTyped
<1>6. ASSUME NEW op \in {"delete", "move", "run"}, Spawn(Task(op, h)) PROVE WorkTyped' /\ CountTyped'
  BY <1>2, <1>4, <1>6, SpawnTyped
<1> QED
  BY <1>1, <1>5, <1>6

LEMMA ToggleTyped ==
  ASSUME HookTypes, ToggleFail
  PROVE  FlagTyped' /\ PanelTyped(hookPanel)'
<1>1. FlagTyped /\ PanelTyped(hookPanel)
  BY DEF HookTypes
<1>2. FlagTyped'
  BY <1>1 DEF ToggleFail, FlagTyped
<1>3. PanelTyped([hookPanel EXCEPT !.fail = ~@])
  BY <1>1 DEF PanelTyped
<1> QED
  BY <1>2, <1>3 DEF ToggleFail

LEMMA HookTypesStep == HookInv /\ HookTypes /\ [HooksNext]_hookVars => HookTypes'
<1> SUFFICES ASSUME HookInv, HookTypes, [HooksNext]_hookVars PROVE HookTypes'
  OBVIOUS
<1> DEFINE Rows == hookRows' = hookRows
           Work == hookWork' = hookWork
           Panel == hookPanel' = hookPanel
           Flag == failFlag' = failFlag
           Count == hookCount' = hookCount
<1>0. /\ Rows => TableTyped'
      /\ Work => WorkTyped'
      /\ Panel => PanelTyped(hookPanel)'
      /\ Flag => FlagTyped'
      /\ Count => CountTyped'
  BY DEF HookTypes, TableTyped, WorkTyped, FlagTyped, CountTyped
<1>1. CASE ToggleFail
  <2>1. Rows /\ Work /\ Count
    BY <1>1 DEF ToggleFail
  <2> QED
    BY <1>0, <1>1, <2>1, ToggleTyped DEF HookTypes
<1>2. CASE OpenEditor
  <2>1. Rows /\ Work /\ Flag /\ Count
    BY <1>2 DEF OpenEditor
  <2> QED
    BY <1>0, <1>2, <2>1, OpenTyped DEF HookTypes
<1>3. CASE CloseEditor
  <2>1. Rows /\ Work /\ Flag /\ Count /\ hookPanel' = [hookPanel EXCEPT !.draft = NoHook]
    BY <1>3 DEF CloseEditor
  <2>2. PanelTyped([hookPanel EXCEPT !.draft = NoHook])
    BY DEF HookTypes, PanelTyped
  <2> QED
    BY <1>0, <2>1, <2>2 DEF HookTypes
<1>4. CASE SubmitEditor
  <2>1. Rows /\ Flag
    BY <1>4 DEF SubmitEditor
  <2> QED
    BY <1>0, <1>4, <2>1, SubmitTyped DEF HookTypes
<1>5. CASE ClickRow
  <2>1. Rows /\ Flag /\ Panel
    BY <1>5 DEF ClickRow
  <2> QED
    BY <1>0, <1>5, <2>1, ClickTyped DEF HookTypes
<1>6. ASSUME NEW s \in HookSites, ShowSite(s) PROVE HookTypes'
  <2>1. Rows /\ Work /\ Flag /\ Count
    BY <1>6 DEF ShowSite
  <2> QED
    BY <1>0, <1>6, <2>1, ShowTyped DEF HookTypes
<1>7. ASSUME NEW w \in hookWork, WriteHook(w) PROVE HookTypes'
  <2>1. Flag /\ Panel /\ Count
    BY <1>7 DEF WriteHook
  <2> QED
    BY <1>0, <1>7, <2>1, WriteTyped DEF HookTypes
<1>8. ASSUME NEW w \in hookWork, PlanMove(w) PROVE HookTypes'
  <2>1. Rows /\ Flag /\ Panel /\ Count
    BY <1>8 DEF PlanMove
  <2> QED
    BY <1>0, <1>8, <2>1, PlanTyped DEF HookTypes
<1>9. ASSUME NEW w \in hookWork, ListRows(w) \/ StoreRows(w) \/ StartOne(w) \/ DoneOne(w)
      PROVE  HookTypes'
  <2>1. Rows /\ Flag /\ Count
    BY <1>9 DEF ListRows, StoreRows, StartOne, DoneOne
  <2> QED
    BY <1>0, <1>9, <2>1, GoroutineTyped DEF HookTypes
<1>10. ASSUME NEW s \in HookSites, NEW good, CancelRun(s) \/ SkipHook(s) \/ StartHook(s) \/ EndRun(s)
                                             \/ ClearView(s) \/ DoneHook(s, good)
       PROVE  HookTypes'
  <2>1. Rows /\ Work /\ Flag /\ Panel /\ Count
    BY <1>10 DEF CancelRun, SkipHook, StartHook, EndRun, ClearView, DoneHook
  <2> QED
    BY <1>0, <2>1 DEF HookTypes
<1>11. ASSUME NEW s \in HookSites, PurgeHooks(s) PROVE HookTypes'
  <2>1. Work /\ Flag /\ Panel /\ Count /\ hookRows' \in SUBSET hookRows
    BY <1>11 DEF PurgeHooks
  <2>2. TableTyped'
    BY <2>1, TableOfSet DEF HookTypes, TableTyped
  <2> QED
    BY <1>0, <2>1, <2>2 DEF HookTypes
<1>12. ASSUME NEW s \in HookSites, NEW e, BeginRun(s, e) PROVE HookTypes'
  <2>1. Rows /\ Work /\ Flag /\ Panel
    BY <1>12 DEF BeginRun
  <2>2. CountTyped'
    BY <1>12, HooksAssumption DEF BeginRun, HookTypes, CountTyped
  <2> QED
    BY <1>0, <2>1, <2>2 DEF HookTypes
<1>13. CASE UNCHANGED hookVars
  BY <1>0, <1>13 DEF hookVars, HookTypes
<1> QED
  BY <1>1, <1>2, <1>3, <1>4, <1>5, <1>6, <1>7, <1>8, <1>9, <1>10, <1>11, <1>12, <1>13 DEF HooksNext

(* The table, the settings, the panel and its goroutines stay of their     *)
(* types, for any sites, events and commands: AddHook finds an id and a    *)
(* position while it can add, and a list ReorderHooks accepts, planned by  *)
(* runMove from rows read long before, leaves no hook without a position.  *)
THEOREM HooksTypeCorrect == HooksSpec => []HooksTypeOK
<1>1. HooksInit => HookInv /\ HookTypes
  BY HookInvInit, HookTypesInit
<1>2. (HookInv /\ HookTypes) /\ [HooksNext]_hookVars => (HookInv /\ HookTypes)'
  BY HookInvStep, HookTypesStep
<1>3. HookTypes => HooksTypeOK
  BY DEF HookTypes, TableTyped, WorkTyped, HookTaskTyped, PanelTyped, HookTable, FlagTyped, CountTyped,
         HooksTypeOK
<1> QED
  BY <1>1, <1>2, <1>3, PTL DEF HooksSpec

-----------------------------------------------------------------------------
(* Positions.  A hook is added behind its rivals, an update leaves it where *)
(* it is, and a reorder gives each a place of its own.                      *)
LEMMA AddKeepsPlaces ==
  ASSUME RowsAreValid, TableTyped, OnePlaceEach, NEW h, hookRows' = AddedHook(h)
  PROVE  OnePlaceEach'
<1> DEFINE peers == {g \in HooksOf(h.site) : g.event = h.event}
           places == {g.pos : g \in peers}
           id == CHOOSE i \in HookIds : \A g \in hookRows : g.id # i
           pos == IF peers = {} THEN 0 ELSE Max(places) + 1
           x == [id |-> id, site |-> h.site, event |-> h.event, kind |-> h.kind, on |-> h.on,
                 pos |-> pos]
<1>1. hookRows' = hookRows \cup {x}
  BY DEF AddedHook
<1>2. x.site = h.site /\ x.event = h.event /\ x.pos = pos
  <2> HIDE DEF id, pos
  <2> QED
    OBVIOUS
<1>3. ASSUME NEW g \in hookRows, Rivals(g, x) PROVE g.pos # pos
  <2>1. g \in peers /\ g.pos \in places
    BY <1>2, <1>3 DEF Rivals, HooksOf
  <2>2. peers \in SUBSET hookRows
    BY DEF HooksOf
  <2>3. places \in SUBSET Nat /\ IsFiniteSet(places)
    BY <2>2, PlacesAreFinite
  <2> HIDE DEF peers, places
  <2>4. Max(places) \in places /\ \A p \in places : Max(places) >= p
    BY <2>1, <2>3, GreatestExists
  <2>5. pos = Max(places) + 1 /\ Max(places) \in Nat /\ g.pos \in Nat /\ Max(places) >= g.pos
    BY <2>1, <2>3, <2>4
  <2> HIDE DEF pos
  <2> QED
    BY <2>5
<1> HIDE DEF x, pos
<1> QED
  BY <1>1, <1>2, <1>3 DEF OnePlaceEach, Rivals

LEMMA UpdateKeepsPlaces ==
  ASSUME TableTyped, OnePlaceEach, NEW h \in EditedHook, h.kind \in HookKinds, hookRows' = UpdatedHook(h)
  PROVE  OnePlaceEach'
<1> DEFINE f == [g \in hookRows |-> IF Matches(h, g) THEN [g EXCEPT !.kind = h.kind, !.on = h.on] ELSE g]
<1>1. ASSUME NEW g \in hookRows
      PROVE  f[g].site = g.site /\ f[g].event = g.event /\ f[g].pos = g.pos
  <2>1. g \in HookRow
    BY DEF TableTyped, HookTable
  <2>2. LET z == [g EXCEPT !.kind = h.kind, !.on = h.on]
        IN  z.site = g.site /\ z.event = g.event /\ z.pos = g.pos
    BY <2>1 DEF HookRow
  <2>3. f[g] = IF Matches(h, g) THEN [g EXCEPT !.kind = h.kind, !.on = h.on] ELSE g
    BY Zenon
  <2> HIDE DEF f
  <2> QED
    BY <2>2, <2>3
<1>2. hookRows' = {f[g] : g \in hookRows}
  BY Zenon DEF UpdatedHook
<1> HIDE DEF f
<1> QED
  BY <1>1, <1>2 DEF OnePlaceEach, Rivals

(* A reorder renumbers all the rows of its event, each by its own place in *)
(* the list.                                                               *)
LEMMA ReorderKeepsPlaces ==
  ASSUME RowsAreValid, TableTyped, OnePlaceEach, NEW s, NEW e, NEW ids, Listing(ids),
         SameHooks(s, e, ids), hookRows' = Reordered(s, e, ids)
  PROVE  OnePlaceEach'
<1> DEFINE p(g) == CHOOSE n \in 0..(Len(ids) - 1) : ids[n + 1] = g.id
           Mine(g) == g.site = s /\ g.event = e
           f == [g \in hookRows |-> IF g.site = s /\ g.event = e THEN [g EXCEPT !.pos = p(g)] ELSE g]
<1>1. ASSUME NEW g \in hookRows, Mine(g) PROVE ids[p(g) + 1] = g.id
  <2>1. \E n \in 0..(Len(ids) - 1) : ids[n + 1] = g.id
    BY <1>1, EachIsListed
  <2> QED
    BY <2>1, Zenon
<1>2. ASSUME NEW g \in hookRows
      PROVE  /\ f[g].site = g.site /\ f[g].event = g.event
             /\ f[g].pos = IF Mine(g) THEN p(g) ELSE g.pos
  <2> HIDE DEF p
  <2>1. g \in HookRow
    BY DEF TableTyped, HookTable
  <2>2. LET z == [g EXCEPT !.pos = p(g)]
        IN  z.site = g.site /\ z.event = g.event /\ z.pos = p(g)
    BY <2>1 DEF HookRow
  <2>3. f[g] = IF g.site = s /\ g.event = e THEN [g EXCEPT !.pos = p(g)] ELSE g
    BY Zenon
  <2> HIDE DEF f
  <2> QED
    BY <2>2, <2>3
<1>3. hookRows' = {f[g] : g \in hookRows}
  BY Zenon DEF Reordered
<1> HIDE DEF f, p
<1>4. ASSUME NEW g \in hookRows, NEW h \in hookRows, Rivals(f[g], f[h]), f[g].pos = f[h].pos
      PROVE  f[g] = f[h]
  <2>1. Rivals(g, h)
    BY <1>2, <1>4 DEF Rivals
  <2>2. CASE Mine(g)
    <3>1. Mine(h) /\ p(g) = p(h)
      BY <1>2, <1>4, <2>1, <2>2 DEF Rivals
    <3>2. g.id = h.id
      BY <1>1, <2>2, <3>1
    <3>3. g = h
      BY <3>2 DEF TableTyped, HookTable, OneIdEach
    <3> QED
      BY <3>3
  <2>3. CASE ~Mine(g)
    <3>1. ~Mine(h) /\ g.pos = h.pos
      BY <1>2, <1>4, <2>1, <2>3 DEF Rivals
    <3> QED
      BY <2>1, <3>1 DEF OnePlaceEach
  <2> QED
    BY <2>2, <2>3
<1> QED
  BY <1>3, <1>4 DEF OnePlaceEach

LEMMA OnePlaceStep ==
  ASSUME HookInv, HookTypes, OnePlaceEach, [HooksNext]_hookVars
  PROVE  OnePlaceEach'
<1>0. RowsAreValid /\ TableTyped
  BY DEF HookInv, HookTypes
<1>1. ASSUME hookRows' \in SUBSET hookRows PROVE OnePlaceEach'
  BY <1>1 DEF OnePlaceEach
<1>2. ASSUME NEW w \in hookWork, WriteHook(w) PROVE OnePlaceEach'
  <2>0. HookTaskTyped(w)
    BY DEF HookTypes, WorkTyped
  <2>1. ASSUME hookRows' = AddedHook(w.hook) PROVE OnePlaceEach'
    BY <1>0, <2>1, AddKeepsPlaces
  <2>2. ASSUME w.op = "update", hookRows' = UpdatedHook(w.hook) PROVE OnePlaceEach'
    BY <1>0, <2>0, <2>2, UpdateKeepsPlaces DEF HookTaskTyped
  <2>3. ASSUME hookRows' = DeletedHook(w.hook.id) PROVE OnePlaceEach'
    BY <1>1, <2>3 DEF DeletedHook
  <2>4. ASSUME w.op = "reorder", SameHooks(w.site, w.hook.event, w.ids),
               hookRows' = Reordered(w.site, w.hook.event, w.ids)
        PROVE  OnePlaceEach'
    BY <1>0, <2>0, <2>4, ReorderKeepsPlaces DEF HookTaskTyped
  <2> QED
    BY <1>1, <1>2, <2>1, <2>2, <2>3, <2>4 DEF WriteHook
<1>3. ASSUME NEW s \in HookSites, PurgeHooks(s) PROVE OnePlaceEach'
  BY <1>1, <1>3 DEF PurgeHooks
<1>4. CASE \/ ToggleFail \/ OpenEditor \/ SubmitEditor \/ CloseEditor \/ ClickRow \/ UNCHANGED hookVars
  BY <1>1, <1>4 DEF ToggleFail, OpenEditor, SubmitEditor, CloseEditor, ClickRow, hookVars
<1>5. ASSUME NEW w \in hookWork, PlanMove(w) \/ ListRows(w) \/ StoreRows(w) \/ StartOne(w) \/ DoneOne(w)
      PROVE  OnePlaceEach'
  BY <1>1, <1>5 DEF PlanMove, ListRows, StoreRows, StartOne, DoneOne
<1>6. ASSUME NEW s \in HookSites, NEW e, NEW good,
             \/ ShowSite(s) \/ CancelRun(s) \/ SkipHook(s) \/ StartHook(s) \/ EndRun(s) \/ ClearView(s)
             \/ BeginRun(s, e) \/ DoneHook(s, good)
      PROVE  OnePlaceEach'
  BY <1>1, <1>6 DEF ShowSite, CancelRun, SkipHook, StartHook, EndRun, ClearView, BeginRun, DoneHook
<1> QED
  BY <1>2, <1>3, <1>4, <1>5, <1>6 DEF HooksNext

(* No write of AddHook, UpdateHook and ReorderHooks meets the constraint   *)
(* of the table, for any sites, events and edits of a stale panel.         *)
THEOREM PositionsAreUnique == HooksSpec => []OnePlaceEach
<1>1. HooksInit => HookInv /\ HookTypes /\ OnePlaceEach
  BY HookInvInit, HookTypesInit DEF HooksInit, OnePlaceEach
<1>2. (HookInv /\ HookTypes /\ OnePlaceEach) /\ [HooksNext]_hookVars
        => (HookInv /\ HookTypes /\ OnePlaceEach)'
  BY HookInvStep, HookTypesStep, OnePlaceStep
<1> QED
  BY <1>1, <1>2, PTL DEF HooksSpec

==============================================================================
