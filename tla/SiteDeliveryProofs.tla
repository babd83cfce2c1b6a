------------------------- MODULE SiteDeliveryProofs -------------------------
(***************************************************************************)
(* What a start and a delete deliver, for every set of sites, clients and  *)
(* images: each step of a plan does its part of the site (InForce says     *)
(* which parts are done at which step), and nobody else touches a part     *)
(* before the plan reports, because the clients inside their mutexes work  *)
(* on different slugs (Exclusive, in SiteLifecycleProofs).  And how the    *)
(* table agrees with the containers when calls on one site do not overlap  *)
(* (InSync says what a request's copy has of its row).                     *)
(***************************************************************************)
EXTENDS SiteLifecycleProofs

(* A start about to report success.                                        *)
Reports(c) == pc[c] = "post" /\ job[c].kind = "start"

Making == {"create", "blind"}

Created == {"ready", "stamp", "route", "commit", "save"}

StartUp(c) ==
  /\ (pc[c] \in {"net", "marker"} \union Making \union Created \/ Reports(c))
     /\ Id(c) \notin UserOwned =>
       wplan[Id(c)] = (loc[c].lan /\ Id(c) \notin Unlisted)
  /\ pc[c] \in {"marker"} \union Making \union Created \/ Reports(c) =>
       net[Slug(c)]
  /\ pc[c] \in Created \/ Reports(c) =>
       ctr[Slug(c)] = "running" /\ image[Slug(c)] = loc[c].ver
  /\ pc[c] \in {"commit", "save"} \/ Reports(c) =>
       route[Slug(c)] \in RoutesFor(loc[c])

TakenDown(c) ==
  /\ pc[c] \in {"dRoute", "dNet", "dPurge", "dRow"} =>
       ctr[Slug(c)] = "absent" /\ image[Slug(c)] = NoImage
  /\ pc[c] \in {"dNet", "dPurge", "dRow"} => route[Slug(c)] = "none"
  /\ pc[c] \in {"dPurge", "dRow"} => ~net[Slug(c)]
  /\ pc[c] = "dRow" /\ job[c].on =>
       data[Slug(c)] = NoImage /\ marker[Slug(c)] = NoImage

(* The other methods that end in "post" are no starts.                     *)
Elsewhere ==
  {"stop", "unroute", "stopSave", "lanRow", "lanConf", "lanRoute", "lanDone",
   "lanUndoRoute", "lanUndoState", "refConf", "refRoute", "vCheck",
   "vRemove", "vSave"}

InForce(c) ==
  /\ StartUp(c)
  /\ TakenDown(c)
  /\ pc[c] \in Elsewhere => job[c].kind # "start"

Delivered == \A c \in Clients : InForce(c)

DInv == TypeInv /\ Holding /\ OneOwner /\ Delivered

-----------------------------------------------------------------------------
(* EnsureWPConfig writes the file of its own site, unless it is the        *)
(* user's.                                                                 *)
LEMMA OwnConfig ==
  ASSUME TypeInv, NEW c \in Clients, NEW b \in BOOLEAN
  PROVE  /\ \A i \in Ids : i # Id(c) => ConfigFor(c, b)[i] = wplan[i]
         /\ Id(c) \in Ids /\ Id(c) \notin UserOwned =>
              ConfigFor(c, b)[Id(c)] = (b /\ Id(c) \notin Unlisted)
  BY DEF ConfigFor, TypeInv, TypeOK

(* A step of Work changes Docker and the route for its own slug and        *)
(* wp-config for its own site; the one method without a mutex, neither.    *)
LEMMA WorkTouchesItsOwn ==
  ASSUME TypeInv, NEW c \in Clients, Work(c)
  PROVE  /\ \A s \in Slugs : s # Slug(c) =>
              /\ ctr'[s] = ctr[s] /\ image'[s] = image[s] /\ net'[s] = net[s]
              /\ route'[s] = route[s] /\ data'[s] = data[s]
              /\ marker'[s] = marker[s]
         /\ \A i \in Ids : i # Id(c) => wplan'[i] = wplan[i]
         /\ ~Busy(c) => UNCHANGED world
  <1>0. /\ ctr \in [Slugs -> Ctr] /\ net \in [Slugs -> BOOLEAN]
        /\ image \in [Slugs -> Images \union {NoImage}]
        /\ route \in [Slugs -> Route] /\ wplan \in [Ids -> BOOLEAN]
        /\ data \in [Slugs -> Images \union {NoImage}]
        /\ marker \in [Slugs -> Images \union {NoImage}]
    BY DEF TypeInv, TypeOK
  <1>7. \A b \in BOOLEAN, i \in Ids :
          i # Id(c) => ConfigFor(c, b)[i] = wplan[i]
    BY OwnConfig
  <1>8. pc[c] # "idle" => loc[c].lan \in BOOLEAN /\ job[c].on \in BOOLEAN
    BY JobFields DEF TypeInv, Serving, Row
  <1> USE <1>0 DEF Busy, world, docker
  <1>1. CASE SharedStep(c)
    BY <1>1, <1>7, <1>8 DEF SharedStep, Prepare, PrepareFails, RegisterRoute,
       RefreshFails, Refused, Finish, SaveFails
  <1>2. CASE StartStep(c)
    <2>1. CASE CreateFails(c)
      BY <2>1 DEF CreateFails
    <2>2. CASE StartUnwinds(c)
      BY <2>2 DEF StartUnwinds
    <2>3. CASE StartFailsEarly(c)
      BY <2>3 DEF StartFailsEarly
    <2> QED
      BY <1>2, <2>1, <2>2, <2>3 DEF StartStep, EnsureNetwork, CheckMarker,
         CreateContainers, WaitReady, WriteMarker, StartCommits, SaveStarted
  <1>3. CASE StopStep(c)
    BY <1>3 DEF StopStep, StopContainers, StopRemovesRoute, StopFails,
       SaveStopped
  <1>4. CASE DeleteStep(c)
    BY <1>4 DEF DeleteStep, DeleteStops, DeleteRemoves, DeleteRemovesRoute,
       DeleteRemovesNetwork, DeletePurges, DeletePlanFails, DeleteRow
  <1>5. CASE LanStep(c)
    BY <1>5, <1>7, <1>8 DEF LanStep, LanSavesRow, LanWritesConfig,
       LanConfigFails, LanRegistersRoute, LanRouteFails, LanCommits,
       LanUndoesRoute, LanUndoesState
  <1>6. CASE SettingsStep(c)
    BY <1>6 DEF SettingsStep, VersionsCheck, VersionsRefused,
       VersionsRemovesContainers, SaveVersions, SetSPXEnabled,
       SetPublishDBPort
  <1> QED
    BY <1>1, <1>2, <1>3, <1>4, <1>5, <1>6 DEF Work

(* The client itself: each step of a plan adds its part and keeps the      *)
(* parts of the steps before it.                                           *)
LEMMA WorkDelivers ==
  ASSUME TypeInv, NEW c \in Clients, InForce(c), Work(c)
  PROVE  InForce(c)'
  <1>0. /\ ctr \in [Slugs -> Ctr] /\ net \in [Slugs -> BOOLEAN]
        /\ image \in [Slugs -> Images \union {NoImage}]
        /\ route \in [Slugs -> Route] /\ wplan \in [Ids -> BOOLEAN]
        /\ data \in [Slugs -> Images \union {NoImage}]
        /\ marker \in [Slugs -> Images \union {NoImage}]
        /\ pc \in [Clients -> Pc] /\ job \in [Clients -> Job \union {NoJob}]
        /\ loc \in [Clients -> Row \union {NoRow}]
    BY DEF TypeInv, TypeOK
  <1>1. CASE pc'[c] = "idle"
    BY <1>1 DEF InForce, StartUp, TakenDown, Reports, Making, Created, Elsewhere
  <1>2. CASE pc'[c] # "idle"
    <2>1. Moves(c)
      BY <1>0, <1>2, WorkShape DEF Shape, Release, Return
    <2>2. /\ job[c] \in Job /\ loc[c] \in Row /\ job' = job
          /\ Id(c)' = Id(c) /\ Slug(c)' = Slug(c)
      BY <2>1 DEF Moves, Busy, TypeInv, Serving, Id, Slug
    <2>3. Slug(c) \in Slugs /\ Id(c) \in Ids
      BY <2>2, JobFields, SlugsOfIds DEF Slug, Id
    <2>4. /\ loc'[c].lan = loc[c].lan /\ loc'[c].ver = loc[c].ver
          /\ RoutesFor(loc'[c]) = RoutesFor(loc[c])
      BY <1>0, <2>1, <2>2 DEF Moves, Salted, Row, RoutesFor
    <2> USE <1>0, <2>2, <2>3, <2>4
        DEF InForce, StartUp, TakenDown, Reports, Making, Created, Elsewhere, Goto,
            world, docker
    <2>5. CASE SharedStep(c)
      <3>1. CASE Prepare(c)
        <4>1. loc[c].lan \in BOOLEAN
          BY DEF Row
        <4>2. Id(c) \notin UserOwned =>
                wplan'[Id(c)] = (loc[c].lan /\ Id(c) \notin Unlisted)
          BY <3>1, <4>1, OwnConfig DEF Prepare
        <4> QED
          BY <3>1, <4>2 DEF Prepare
      <3>2. CASE RegisterRoute(c)
        BY <3>2 DEF RegisterRoute
      <3> QED
        BY <1>2, <2>5, <3>1, <3>2 DEF SharedStep, PrepareFails, RefreshFails,
           Refused, Finish, SaveFails, Release, Return
    <2>6. CASE StartStep(c)
      <3>1. CASE EnsureNetwork(c)
        BY <3>1 DEF EnsureNetwork
      <3>2. CASE CreateContainers(c)
        BY <3>2 DEF CreateContainers
      <3>3. CASE CheckMarker(c) \/ WaitReady(c) \/ StartCommits(c)
        BY <3>3 DEF CheckMarker, WaitReady, StartCommits
      <3>4. CASE WriteMarker(c)
        BY <3>4 DEF WriteMarker
      <3>5. CASE SaveStarted(c)
        BY <3>5 DEF SaveStarted
      <3> QED
        BY <1>2, <2>6, <3>1, <3>2, <3>3, <3>4, <3>5 DEF StartStep,
           StartFailsEarly, CreateFails, StartUnwinds, Release, Return
    <2>7. CASE StopStep(c)
      BY <1>2, <2>7 DEF StopStep, StopContainers, StopRemovesRoute,
         StopFails, SaveStopped, Release, Return
    <2>8. CASE DeleteStep(c)
      <3>1. CASE DeleteStops(c) \/ DeleteRemoves(c) \/ DeletePlanFails(c)
        BY <3>1 DEF DeleteStops, DeleteRemoves, DeletePlanFails
      <3>2. CASE DeleteRemovesRoute(c)
        BY <3>2 DEF DeleteRemovesRoute
      <3>3. CASE DeleteRemovesNetwork(c)
        BY <3>3 DEF DeleteRemovesNetwork
      <3>4. CASE DeletePurges(c)
        BY <3>4 DEF DeletePurges
      <3> QED
        BY <1>2, <2>8, <3>1, <3>2, <3>3, <3>4 DEF DeleteStep, DeleteRow,
           Release, Return
    <2>9. CASE LanStep(c)
      <3>1. CASE LanWritesConfig(c)
        BY <3>1 DEF LanWritesConfig
      <3>2. CASE LanRegistersRoute(c) \/ LanRouteFails(c) \/ LanUndoesRoute(c)
        BY <3>2 DEF LanRegistersRoute, LanRouteFails, LanUndoesRoute
      <3>3. CASE LanSavesRow(c) \/ LanCommits(c)
        BY <3>3 DEF LanSavesRow, LanCommits
      <3> QED
        BY <1>2, <2>9, <3>1, <3>2, <3>3 DEF LanStep, LanConfigFails,
           LanUndoesState, Release, Return
    <2>10. CASE SettingsStep(c)
      BY <1>2, <2>10 DEF SettingsStep, VersionsCheck, VersionsRefused,
         VersionsRemovesContainers, SaveVersions, SetSPXEnabled,
         SetPublishDBPort, Release, Return
    <2> QED
      BY <2>5, <2>6, <2>7, <2>8, <2>9, <2>10 DEF Work
  <1> QED
    BY <1>1, <1>2

(* The other clients: the step has another slug, or touches nothing.       *)
LEMMA WorkLeavesOthers ==
  ASSUME TypeInv, Holding, OneOwner, NEW c \in Clients, Work(c),
         NEW d \in Clients, d # c, InForce(d)
  PROVE  InForce(d)'
  <1>0. /\ pc \in [Clients -> Pc] /\ job \in [Clients -> Job \union {NoJob}]
        /\ loc \in [Clients -> Row \union {NoRow}]
    BY DEF TypeInv, TypeOK
  <1>1. pc'[d] = pc[d] /\ job'[d] = job[d] /\ loc'[d] = loc[d]
    BY <1>0, WorkShape DEF Shape, Moves, Release, Return
  <1>2. CASE ~Busy(d)
    BY <1>1, <1>2 DEF Busy, InForce, StartUp, TakenDown, Reports, Making, Created,
       Elsewhere
  <1>3. CASE Busy(d)
    <2>1. Slug(d) \in Slugs /\ Id(d) \in Ids
      BY <1>3, JobFields, SlugsOfIds DEF Busy, TypeInv, Serving, Slug, Id
    <2>2. /\ ctr'[Slug(d)] = ctr[Slug(d)] /\ image'[Slug(d)] = image[Slug(d)]
          /\ net'[Slug(d)] = net[Slug(d)] /\ route'[Slug(d)] = route[Slug(d)]
          /\ data'[Slug(d)] = data[Slug(d)]
          /\ marker'[Slug(d)] = marker[Slug(d)]
          /\ wplan'[Id(d)] = wplan[Id(d)]
      <3>1. CASE Busy(c)
        <4>1. Slug(d) # Slug(c)
          BY <1>3, <3>1, Exclusive
        <4>2. Id(d) # Id(c)
          BY <4>1 DEF Slug
        <4> QED
          BY <2>1, <4>1, <4>2, WorkTouchesItsOwn
      <3>2. CASE ~Busy(c)
        BY <3>2, WorkTouchesItsOwn DEF world, docker
      <3> QED
        BY <3>1, <3>2
    <2> QED
      BY <1>1, <2>2 DEF InForce, StartUp, TakenDown, Reports, Making, Created,
         Elsewhere, Slug, Id
  <1> QED
    BY <1>2, <1>3

LEMMA DeliveredStep == DInv /\ [Next]_vars => Delivered'
  <1> SUFFICES ASSUME DInv, [Next]_vars, NEW d \in Clients
               PROVE  InForce(d)'
    BY DEF Delivered
  <1>0. /\ pc \in [Clients -> Pc] /\ job \in [Clients -> Job \union {NoJob}]
        /\ loc \in [Clients -> Row \union {NoRow}]
        /\ TypeInv /\ Holding /\ OneOwner /\ InForce(d)
    BY DEF DInv, Delivered, TypeInv, TypeOK
  <1> USE DEF InForce, StartUp, TakenDown, Reports, Making, Created, Elsewhere
  <1>1. CASE Restart
    BY <1>1 DEF Restart
  <1>2. CASE UNCHANGED <<pc, job, loc, world>>
    BY <1>0, <1>2 DEF world, docker, Slug, Id
  <1>3. ASSUME NEW c \in Clients, Begin(c) PROVE InForce(d)'
    <2>1. UNCHANGED world
      BY <1>3 DEF Begin
    <2>2. CASE d = c
      BY <1>0, <1>3, <2>2 DEF Begin, Goto
    <2>3. CASE d # c
      <3>1. pc'[d] = pc[d] /\ job'[d] = job[d] /\ loc'[d] = loc[d]
        BY <1>0, <1>3, <2>3 DEF Begin, Goto
      <3> QED
        BY <1>0, <2>1, <3>1 DEF world, docker, Slug, Id
    <2> QED
      BY <2>2, <2>3
  <1>4. ASSUME NEW c \in Clients, Acquire(c) PROVE InForce(d)'
    <2>1. UNCHANGED <<job, loc, world>>
      BY <1>4 DEF Acquire
    <2>2. CASE d = c
      <3>1. job[c].kind \in AllKinds /\ job[c].kind # "publish"
        BY <1>0, <1>4, JobFields DEF Acquire, TypeInv, Serving
      <3>2. pc'[d] = FirstStep[job[c].kind]
        BY <1>0, <1>4, <2>2 DEF Acquire, Goto
      <3>3. /\ pc'[d] \in {"prep", "dStop", "spx"} \union Elsewhere
            /\ job[c].kind = "start" => pc'[d] = "prep"
        BY <3>1, <3>2 DEF FirstStep, AllKinds
      <3> QED
        BY <2>1, <2>2, <3>3
    <2>3. CASE d # c
      <3>1. pc'[d] = pc[d]
        BY <1>0, <1>4, <2>3 DEF Acquire, Goto
      <3> QED
        BY <1>0, <2>1, <3>1 DEF world, docker, Slug, Id
    <2> QED
      BY <2>2, <2>3
  <1>5. ASSUME NEW c \in Clients, Work(c) PROVE InForce(d)'
    <2>1. CASE d = c
      BY <1>0, <1>5, <2>1, WorkDelivers
    <2>2. CASE d # c
      BY <1>0, <1>5, <2>2, WorkLeavesOthers
    <2> QED
      BY <2>1, <2>2
  <1>6. ASSUME NEW i \in Ids, AddSite(i) PROVE InForce(d)'
    BY <1>2, <1>6 DEF AddSite, request
  <1>7. CASE UNCHANGED vars
    BY <1>2, <1>7 DEF vars, request
  <1> QED
    BY <1>1, <1>3, <1>4, <1>5, <1>6, <1>7 DEF Next

LEMMA DInvHolds ==
  ASSUME DuplicateNames = FALSE
  PROVE  Spec => []DInv
  <1>1. Init => DInv
    <2> SUFFICES ASSUME Init PROVE DInv
      OBVIOUS
    <2>1. Holding /\ OneOwner
      BY DEF Init, Holding, Busy, OneOwner, Live
    <2>2. Delivered
      BY DEF Init, Delivered, InForce, StartUp, TakenDown, Reports, Making, Created,
         Elsewhere
    <2> QED
      BY <2>1, <2>2, InitTypes DEF DInv
  <1>2. DInv /\ [Next]_vars => DInv'
    BY TypeStep, HoldingStep, OneOwnerStep, DeliveredStep DEF DInv
  <1> QED
    BY <1>1, <1>2, PTL DEF Spec

(* A start that reports success has its containers running from the row's  *)
(* image, its network, its route and its wp-config, for any sites, clients *)
(* and faults, as long as names are not reused while in use (StartSite).   *)
THEOREM StartsDeliver ==
  ASSUME DuplicateNames = FALSE
  PROVE  Spec => []StartDelivers
  <1>1. DInv => StartDelivers
    BY DEF DInv, Delivered, InForce, StartUp, Reports, StartDelivers
  <1> QED
    BY <1>1, DInvHolds, PTL

(* A delete whose plan failed nowhere has left nothing in Docker and no    *)
(* route when its row goes, and no volume if that was asked for            *)
(* (DeleteSiteWithOptions).                                                *)
THEOREM DeletesDeliver ==
  ASSUME DuplicateNames = FALSE
  PROVE  Spec => []DeleteDelivers
  <1>1. DInv => DeleteDelivers
    BY DEF DInv, Delivered, InForce, TakenDown, DeleteDelivers
  <1> QED
    BY <1>1, DInvHolds, PTL

-----------------------------------------------------------------------------
(* The table against Docker, when no two calls are made on one site at     *)
(* once: a call then works from the row as it is.                          *)

NoOverlap ==
  \A c, d \in Clients : c # d /\ job[c] # NoJob /\ job[d] # NoJob => Id(c) # Id(d)

(* A single client is never in its own way.                                *)
LEMMA OneClientAlone == ASSUME \A c, d \in Clients : c = d PROVE NoOverlap
  BY DEF NoOverlap

LanPcs == {"lanConf", "lanRoute", "lanDone", "lanUndoRoute", "lanUndoState"}

(* The copy is the row, but for what toggleLAN has saved so far.           *)
InSync(c) ==
  job[c] # NoJob =>
    /\ row[Id(c)] # NoRow
    /\ pc[c] \in LanPcs => row[Id(c)] = WantLan(c)
    /\ pc[c] \notin LanPcs \union {"post"} => row[Id(c)] = loc[c]

Handed == \A i \in Ids : row[i] # NoRow => i \in born

SyncInv == TypeInv /\ Holding /\ Handed /\ \A c \in Clients : InSync(c)

LEMMA SaltedFields ==
  ASSUME NEW r \in Row, NEW b \in BOOLEAN
  PROVE  /\ r.salted => Salted(r) = r
         /\ Salted([r EXCEPT !.lan = b]) = [Salted(r) EXCEPT !.lan = b]
         /\ Salted(r) \in Row /\ [r EXCEPT !.lan = b] \in Row
         /\ Salted(r).lan = r.lan /\ Salted(r).started = r.started
         /\ [r EXCEPT !.lan = b].lan = b /\ [r EXCEPT !.lan = b].started = r.started
  BY DEF Row, Salted

(* Saving over a row that is there puts the copy in its place.             *)
LEMMA SavedOver ==
  ASSUME TypeInv, NEW c \in Clients, job[c] \in Job, row[Id(c)] # NoRow, NEW r \in Row
  PROVE  /\ Id(c) \in Ids /\ Saved(c, r)[Id(c)] = r
         /\ \A i \in Ids : i # Id(c) => Saved(c, r)[i] = row[i]
         /\ row[Id(c)] = r => WithSalts(c, r)[Id(c)] = Salted(r)
         /\ WithSalts(c, r)[Id(c)] \in {row[Id(c)], Salted(r)}
         /\ \A i \in Ids : i # Id(c) => WithSalts(c, r)[i] = row[i]
<1>1. Id(c) \in Ids
  BY JobFields DEF Id
<1>2. \A x \in Row : /\ Saved(c, x)[Id(c)] = x
                     /\ \A i \in Ids : i # Id(c) => Saved(c, x)[i] = row[i]
  BY <1>1 DEF Saved, TypeInv, TypeOK
<1>3. Salted(r) \in Row /\ (r.salted => Salted(r) = r)
  BY SaltedFields
<1> QED
  BY <1>1, <1>2, <1>3 DEF WithSalts

(* A request works on one row, and leaves it what its copy says.           *)
LEMMA WorkSync ==
  ASSUME SyncInv, NEW c \in Clients, Work(c)
  PROVE  InSync(c)' /\ \A i \in Ids : i # Id(c) => row'[i] = row[i]
<1>0. /\ row \in [Ids -> Row \union {NoRow}] /\ pc \in [Clients -> Pc]
      /\ job \in [Clients -> Job \union {NoJob}] /\ loc \in [Clients -> Row \union {NoRow}]
  BY DEF SyncInv, TypeInv, TypeOK
<1>1. pc[c] # "idle"
  BY WorkShape DEF SyncInv, Shape, Moves, Busy
<1>2. /\ job[c] \in Job /\ loc[c] \in Row /\ job[c] # NoJob /\ job[c].on \in BOOLEAN
      /\ pc[c] = "vSave" => job[c].ver \in Images
  BY <1>1, JobFields, Sentinels DEF SyncInv, TypeInv, Serving
<1> DEFINE i == Id(c)
           r == loc[c]
<1>3. /\ i \in Ids /\ row[i] # NoRow
      /\ pc[c] \in LanPcs => row[i] = WantLan(c)
      /\ pc[c] \notin LanPcs \union {"post"} => row[i] = r
  BY <1>2, JobFields DEF SyncInv, InSync, Id
<1>4. /\ Salted(r) \in Row /\ WantLan(c) \in Row /\ Salted(WantLan(c)) \in Row
      /\ Salted(WantLan(c)) = [Salted(r) EXCEPT !.lan = job[c].on]
      /\ [r EXCEPT !.started = TRUE] \in Row /\ [r EXCEPT !.started = FALSE] \in Row
      /\ [r EXCEPT !.opt = job[c].on] \in Row
      /\ pc[c] = "vSave" => [r EXCEPT !.ver = job[c].ver] \in Row
  <2>1. /\ [r EXCEPT !.started = TRUE] \in Row /\ [r EXCEPT !.started = FALSE] \in Row
        /\ [r EXCEPT !.opt = job[c].on] \in Row
        /\ pc[c] = "vSave" => [r EXCEPT !.ver = job[c].ver] \in Row
    <3>1. \A b \in BOOLEAN, v \in Images :
            /\ [r EXCEPT !.started = b] \in Row /\ [r EXCEPT !.opt = b] \in Row
            /\ [r EXCEPT !.ver = v] \in Row
      BY <1>2, RowUpdates
    <3>2. r.ver \in Images
      BY <1>2 DEF Row
    <3> QED
      BY <1>2, <3>1, <3>2
  <2>2. Salted(r) \in Row /\ WantLan(c) \in Row
    BY <1>2, SaltedFields DEF WantLan
  <2>3. Salted(WantLan(c)) \in Row
    BY <2>2, SaltedFields
  <2>4. Salted(WantLan(c)) = [Salted(r) EXCEPT !.lan = job[c].on]
    BY <1>2, SaltedFields DEF WantLan
  <2> QED
    BY <2>1, <2>2, <2>3, <2>4
<1>5. \A x \in Row : /\ Saved(c, x)[i] = x /\ \A k \in Ids : k # i => Saved(c, x)[k] = row[k]
                     /\ row[i] = x => WithSalts(c, x)[i] = Salted(x)
                     /\ WithSalts(c, x)[i] \in {row[i], Salted(x)}
                     /\ \A k \in Ids : k # i => WithSalts(c, x)[k] = row[k]
  BY <1>2, <1>3, SavedOver DEF SyncInv
<1>6. \A k \in Ids : k # i => row'[k] = row[k]
  <2>1. CASE SharedStep(c)
    BY <1>2, <1>5, <2>1 DEF SharedStep, Prepare, PrepareFails, RegisterRoute, RefreshFails, Refused, Finish,
       SaveFails
  <2>2. CASE StartStep(c)
    BY <1>4, <1>5, <2>2 DEF StartStep, EnsureNetwork, CheckMarker, CreateContainers, StartFailsEarly, CreateFails,
       WaitReady, WriteMarker, StartUnwinds, StartCommits, SaveStarted
  <2>3. CASE StopStep(c)
    BY <1>4, <1>5, <2>3 DEF StopStep, StopContainers, StopRemovesRoute, StopFails, SaveStopped
  <2>4. CASE DeleteStep(c)
    BY <1>0, <2>4 DEF DeleteStep, DeleteStops, DeleteRemoves, DeleteRemovesRoute, DeleteRemovesNetwork,
       DeletePurges, DeletePlanFails, DeleteRow
  <2>5. CASE LanStep(c)
    BY <1>2, <1>4, <1>5, <2>5 DEF LanStep, LanSavesRow, LanWritesConfig, LanConfigFails, LanRegistersRoute,
       LanRouteFails, LanCommits, LanUndoesRoute, LanUndoesState
  <2>6. CASE SettingsStep(c)
    BY <1>4, <1>5, <2>6 DEF SettingsStep, VersionsCheck, VersionsRefused, VersionsRemovesContainers,
       SaveVersions, SetSPXEnabled, SetPublishDBPort
  <2> QED
    BY <2>1, <2>2, <2>3, <2>4, <2>5, <2>6 DEF Work
<1>7. CASE pc'[c] = "idle"
  <2>1. job'[c] = NoJob
    <3>1. SyncInv /\ Shape(c)
      BY WorkShape DEF SyncInv
    <3> QED
      BY <1>0, <1>7, <3>1 DEF Shape, Moves, Release, Return, Busy, BusyPc
  <2> QED
    BY <1>6, <2>1 DEF InSync
<1>8. CASE pc'[c] # "idle"
  <2>1. Moves(c)
    BY <1>0, <1>8, WorkShape DEF SyncInv, Shape, Release, Return
  <2>2. job' = job /\ Id(c)' = i
    BY <2>1 DEF Moves, Id
  <2>3. ~(Release(c) \/ Return(c))
    BY <1>0, <1>8 DEF Release, Return
  <2> USE <1>0, <1>3, <1>6, <2>2 DEF InSync, LanPcs, Goto
  <2>4. CASE SharedStep(c)
    <3>1. CASE Prepare(c)
      BY <1>2, <1>5, <1>4, <3>1, Sentinels DEF Prepare
    <3>2. CASE RegisterRoute(c)
      BY <3>2 DEF RegisterRoute
    <3> QED
      BY <1>6, <2>3, <2>4, <3>1, <3>2 DEF SharedStep, PrepareFails, RefreshFails, Refused, Finish, SaveFails
  <2>5. CASE StartStep(c)
    <3>1. CASE SaveStarted(c)
      <4>1. row'[i] = [r EXCEPT !.started = TRUE]
        BY <1>4, <1>5, <3>1 DEF SaveStarted
      <4> QED
        BY <1>4, <3>1, <4>1, Sentinels DEF SaveStarted
    <3>2. CASE EnsureNetwork(c) \/ CheckMarker(c) \/ CreateContainers(c) \/ WaitReady(c) \/ WriteMarker(c)
               \/ StartCommits(c)
      BY <3>2 DEF EnsureNetwork, CheckMarker, CreateContainers, WaitReady, WriteMarker, StartCommits
    <3> QED
      BY <1>6, <2>3, <2>5, <3>1, <3>2 DEF StartStep, StartFailsEarly, CreateFails, StartUnwinds
  <2>6. CASE StopStep(c)
    <3>1. CASE SaveStopped(c)
      <4>1. row'[i] = [r EXCEPT !.started = FALSE]
        BY <1>4, <1>5, <3>1 DEF SaveStopped
      <4> QED
        BY <1>4, <3>1, <4>1, Sentinels DEF SaveStopped
    <3>2. CASE StopContainers(c) \/ StopRemovesRoute(c)
      BY <3>2 DEF StopContainers, StopRemovesRoute
    <3> QED
      BY <1>6, <2>3, <2>6, <3>1, <3>2 DEF StopStep, StopFails
  <2>7. CASE DeleteStep(c)
    BY <1>6, <2>3, <2>7 DEF DeleteStep, DeleteStops, DeleteRemoves, DeleteRemovesRoute, DeleteRemovesNetwork,
       DeletePurges, DeletePlanFails, DeleteRow
  <2>8. CASE LanStep(c)
    <3>1. CASE LanSavesRow(c)
      <4>1. WantLan(c)' = WantLan(c)
        BY <3>1 DEF LanSavesRow, WantLan
      <4> QED
        BY <1>4, <1>5, <3>1, <4>1, Sentinels DEF LanSavesRow
    <3>2. CASE LanWritesConfig(c)
      <4>1. loc'[c] = Salted(r)
        BY <1>0, <3>2 DEF LanWritesConfig
      <4>2. WantLan(c)' = Salted(WantLan(c))
        BY <1>4, <2>2, <4>1 DEF WantLan
      <4>3. row'[i] = Salted(WantLan(c))
        BY <1>4, <1>5, <3>2 DEF LanWritesConfig
      <4> QED
        BY <1>4, <3>2, <4>2, <4>3, Sentinels DEF LanWritesConfig
    <3>3. CASE LanRegistersRoute(c) \/ LanRouteFails(c) \/ LanCommits(c) \/ LanUndoesRoute(c)
      <4>1. UNCHANGED <<row, loc, job>> /\ pc[c] \in LanPcs /\ pc'[c] \in LanPcs \union {"post"}
        BY <3>3 DEF LanRegistersRoute, LanRouteFails, LanCommits, LanUndoesRoute
      <4> QED
        BY <4>1 DEF WantLan
    <3> QED
      BY <1>6, <2>3, <2>8, <3>1, <3>2, <3>3 DEF LanStep, LanConfigFails, LanUndoesState
  <2>9. CASE SettingsStep(c)
    <3>1. CASE SaveVersions(c)
      BY <1>4, <1>5, <3>1, Sentinels DEF SaveVersions
    <3>2. CASE VersionsCheck(c) \/ VersionsRemovesContainers(c)
      BY <3>2 DEF VersionsCheck, VersionsRemovesContainers
    <3> QED
      BY <1>6, <2>3, <2>9, <3>1, <3>2 DEF SettingsStep, VersionsRefused, SetSPXEnabled, SetPublishDBPort
  <2> QED
    BY <1>6, <2>4, <2>5, <2>6, <2>7, <2>8, <2>9 DEF Work
<1> QED
  BY <1>7, <1>8

LEMMA SyncStep == SyncInv /\ NoOverlap /\ NoOverlap' /\ [Next]_vars => SyncInv'
<1> SUFFICES ASSUME SyncInv, NoOverlap, NoOverlap', [Next]_vars PROVE SyncInv'
  OBVIOUS
<1>0. /\ row \in [Ids -> Row \union {NoRow}] /\ pc \in [Clients -> Pc]
      /\ job \in [Clients -> Job \union {NoJob}] /\ loc \in [Clients -> Row \union {NoRow}]
  BY DEF SyncInv, TypeInv, TypeOK
<1>1. TypeInv' /\ Holding'
  BY TypeStep, HoldingStep DEF SyncInv
<1>2. ASSUME NEW d \in Clients, UNCHANGED <<row, pc[d], job[d], loc[d]>> PROVE InSync(d)'
  BY <1>2 DEF SyncInv, InSync, WantLan, Id
<1>9. Handed'
  <2>1. CASE Restart
    BY <2>1 DEF Restart, SyncInv, Handed
  <2>2. ASSUME NEW k \in Ids, AddSite(k) PROVE Handed'
    BY <1>0, <2>2 DEF AddSite, SyncInv, Handed
  <2>3. ASSUME NEW c \in Clients, Work(c) PROVE Handed'
    BY <2>3, WorkShape, WorkRows DEF SyncInv, Handed
  <2>4. CASE UNCHANGED <<row, born>>
    BY <2>4 DEF SyncInv, Handed
  <2> QED
    BY <2>1, <2>2, <2>3, <2>4 DEF Next, Begin, Acquire, vars
<1> SUFFICES ASSUME NEW d \in Clients PROVE InSync(d)'
  BY <1>1, <1>9 DEF SyncInv
<1>3. CASE Restart
  BY <1>3 DEF Restart, InSync
<1>4. ASSUME NEW k \in Ids, AddSite(k) PROVE InSync(d)'
  <2>1. UNCHANGED <<pc, job, loc>> /\ (job[d] # NoJob => row[Id(d)] # NoRow)
    BY <1>4 DEF AddSite, request, SyncInv, InSync
  <2>2. job[d] # NoJob => Id(d) # k
    BY <1>4, <2>1 DEF AddSite, SyncInv, Handed
  <2> QED
    BY <1>0, <1>4, <2>1, <2>2 DEF AddSite, SyncInv, InSync, WantLan, Id
<1>5. ASSUME NEW c \in Clients, Begin(c) PROVE InSync(d)'
  <2>1. CASE d # c
    BY <1>0, <1>2, <1>5, <2>1 DEF Begin, Goto
  <2>2. CASE d = c
    BY <1>0, <1>5, <2>2 DEF Begin, Goto, InSync, LanPcs, Id
  <2> QED
    BY <2>1, <2>2
<1>6. ASSUME NEW c \in Clients, Acquire(c) PROVE InSync(d)'
  <2>1. CASE d # c
    BY <1>0, <1>2, <1>6, <2>1 DEF Acquire, Goto
  <2>2. CASE d = c
    <3>1. job[c] \in Job /\ job[c].kind \in AllKinds \ {"publish"}
      BY <1>0, <1>6, JobFields DEF Acquire, SyncInv, TypeInv, Serving
    <3>2. pc'[c] \notin LanPcs \union {"post"}
      BY <1>0, <1>6, <3>1 DEF Acquire, Goto, FirstStep, AllKinds, LanPcs
    <3> QED
      BY <1>6, <2>2, <3>2 DEF Acquire, SyncInv, InSync, LanPcs, WantLan, Id
  <2> QED
    BY <2>1, <2>2
<1>7. ASSUME NEW c \in Clients, Work(c) PROVE InSync(d)'
  <2>1. CASE d = c
    BY <1>7, <2>1, WorkSync
  <2>2. CASE d # c
    <3>1. UNCHANGED <<pc[d], job[d], loc[d]>>
      BY <1>0, <1>7, <2>2, WorkShape DEF SyncInv, Shape, Moves, Release, Return
    <3>2. job[c] # NoJob
      BY <1>7, WorkShape, Sentinels DEF SyncInv, TypeInv, Serving, Shape, Moves, Busy
    <3>3. CASE job[d] = NoJob
      BY <3>1, <3>3 DEF InSync
    <3>4. CASE job[d] # NoJob
      <4>1. Id(d) # Id(c) /\ Id(d) \in Ids
        BY <1>0, <2>2, <3>2, <3>4, JobFields DEF NoOverlap, Id
      <4>2. row'[Id(d)] = row[Id(d)]
        BY <1>7, <4>1, WorkSync
      <4> QED
        BY <3>1, <4>2 DEF SyncInv, InSync, WantLan, Id
    <3> QED
      BY <3>3, <3>4
  <2> QED
    BY <2>1, <2>2
<1>8. CASE UNCHANGED vars
  BY <1>2, <1>8 DEF vars, request
<1> QED
  BY <1>3, <1>4, <1>5, <1>6, <1>7, <1>8 DEF Next

LEMMA SyncInit == Init => SyncInv
<1> SUFFICES ASSUME Init PROVE SyncInv
  OBVIOUS
<1> QED
  BY InitTypes DEF Init, SyncInv, InSync, Handed, Holding, Busy

-----------------------------------------------------------------------------
(* Past these steps the site's containers do not run, whatever ran before. *)
DownPcs == {"unroute", "stopSave", "dRemove", "dRoute", "dNet", "dPurge", "dRow", "dRowFailed", "vSave"}

(* What runs belongs to a site there is, and its row says so unless a      *)
(* start has made the containers and not come to its last UPDATE.          *)
RunInv ==
  /\ \A c \in Clients : pc[c] \in DownPcs => ctr[Slug(c)] # "running"
  /\ \A i \in Ids :
       /\ row[i] # NoRow /\ ctr[SlugOf[i]] = "running"
       /\ \A c \in Clients : pc[c] \in Created => Id(c) # i
       => row[i].started
  /\ \A s \in Slugs : ctr[s] = "running" => \E i \in Ids : row[i] # NoRow /\ SlugOf[i] = s

LEMMA WorkRun ==
  ASSUME "store" \notin Faults, SyncInv, NoOverlap, RunInv, NEW c \in Clients, Work(c)
  PROVE  /\ pc'[c] \in DownPcs => ctr'[Slug(c)] # "running"
         /\ ctr'[Slug(c)] = "running" => row'[Id(c)] # NoRow
         /\ ctr'[Slug(c)] = "running" /\ pc'[c] \notin Created => row'[Id(c)].started
<1>0. /\ row \in [Ids -> Row \union {NoRow}] /\ pc \in [Clients -> Pc] /\ ctr \in [Slugs -> Ctr]
      /\ job \in [Clients -> Job \union {NoJob}] /\ loc \in [Clients -> Row \union {NoRow}]
  BY DEF SyncInv, TypeInv, TypeOK
<1>1. pc[c] # "idle"
  BY WorkShape DEF SyncInv, Shape, Moves, Busy
<1>2. /\ job[c] \in Job /\ loc[c] \in Row /\ job[c] # NoJob /\ job[c].on \in BOOLEAN
      /\ pc[c] = "vSave" => job[c].ver \in Images
  BY <1>1, JobFields, Sentinels DEF SyncInv, TypeInv, Serving
<1> DEFINE i == Id(c)
           s == Slug(c)
           r == loc[c]
<1>3. /\ i \in Ids /\ s \in Slugs /\ row[i] # NoRow
      /\ pc[c] \in LanPcs => row[i] = WantLan(c)
      /\ pc[c] \notin LanPcs \union {"post"} => row[i] = r
  BY <1>2, JobFields, SlugsOfIds DEF SyncInv, InSync, Id, Slug
<1>4. /\ pc[c] \in DownPcs => ctr[s] # "running"
      /\ pc[c] \notin Created /\ ctr[s] = "running" => row[i].started
  <2>1. \A d \in Clients : d # c /\ pc[d] \in Created => Id(d) # i
    <3>1. \A d \in Clients : pc[d] \in Created => job[d] # NoJob
      BY Sentinels DEF SyncInv, TypeInv, Serving, Created
    <3> QED
      BY <1>2, <3>1 DEF NoOverlap
  <2> QED
    BY <1>3, <2>1 DEF RunInv, Slug
<1>5. /\ Salted(r) \in Row /\ WantLan(c) \in Row /\ Salted(r).started = r.started
      /\ WantLan(c).started = r.started
  <2>1. r \in Row /\ WantLan(c) = [r EXCEPT !.lan = job[c].on]
    BY <1>2 DEF WantLan
  <2> HIDE DEF r
  <2>2. Salted(r) \in Row /\ Salted(r).started = r.started
    BY <2>1, SaltedFields
  <2>3. [r EXCEPT !.lan = job[c].on] \in Row /\ [r EXCEPT !.lan = job[c].on].started = r.started
    BY <1>2, <2>1 DEF Row
  <2> QED
    BY <2>1, <2>2, <2>3
<1>6. Salted(WantLan(c)).started = r.started
  BY <1>5, SaltedFields
<1>7. \A x \in Row : /\ Saved(c, x)[i] = x
                     /\ WithSalts(c, x)[i] \in {row[i], Salted(x)}
                     /\ Salted(x) \in Row /\ x # NoRow /\ Salted(x) # NoRow
  <2>1. \A x \in Row : Saved(c, x)[i] = x /\ WithSalts(c, x)[i] \in {row[i], Salted(x)}
    BY <1>2, <1>3, SavedOver DEF SyncInv
  <2>2. \A x \in Row : Salted(x) \in Row
    BY SaltedFields
  <2>3. \A x \in Row : x # NoRow
    BY Sentinels
  <2> QED
    BY <2>1, <2>2, <2>3
<1>8. /\ [r EXCEPT !.started = TRUE] \in Row /\ [r EXCEPT !.started = TRUE].started
      /\ [r EXCEPT !.started = FALSE] \in Row
      /\ [r EXCEPT !.opt = job[c].on] \in Row /\ [r EXCEPT !.opt = job[c].on].started = r.started
      /\ pc[c] = "vSave" =>
           [r EXCEPT !.ver = job[c].ver] \in Row /\ [r EXCEPT !.ver = job[c].ver].started = r.started
  BY <1>2 DEF Row
(* The row stays as far as this goes.                                      *)
<1> DEFINE Kept == row'[i] # NoRow /\ row'[i].started = row[i].started
<1>9. CASE Kept /\ UNCHANGED ctr /\ pc[c] \notin Created /\ pc'[c] \notin DownPcs
  BY <1>4, <1>9
<1>10. CASE Kept /\ ctr'[s] # "running"
  BY <1>10
<1>11. CASE Kept /\ UNCHANGED ctr /\ pc[c] \in Created /\ pc'[c] \in Created
  BY <1>11 DEF Created, DownPcs
<1>12. UNCHANGED row => Kept
  BY <1>3
<1> USE DEF Goto
<1>13. ASSUME Release(c) \/ Return(c) PROVE pc'[c] = "idle"
  BY <1>0, <1>13 DEF Release, Return
<1>14. "idle" \notin DownPcs /\ "idle" \notin Created /\ DownPcs \cap Created = {}
       /\ LanPcs \cap (DownPcs \union Created \union {"post"}) = {}
       /\ "post" \notin DownPcs \union Created
  BY DEF DownPcs, Created, LanPcs
<1>15. CASE SharedStep(c)
  <2>1. CASE RegisterRoute(c)
    <3>1. UNCHANGED <<row, ctr>>
      BY <2>1 DEF RegisterRoute, docker
    <3>2. \/ pc[c] = "route" /\ pc'[c] = "commit"
          \/ pc[c] = "refRoute" /\ pc'[c] = "post"
      BY <1>0, <2>1 DEF RegisterRoute
    <3> QED
      BY <1>9, <1>11, <1>12, <1>14, <3>1, <3>2 DEF Created, DownPcs
  <2>2. CASE Prepare(c) \/ PrepareFails(c)
    <3>1. UNCHANGED ctr /\ pc[c] \notin Created /\ pc'[c] \notin DownPcs
      BY <1>0, <1>13, <1>14, <2>2 DEF Prepare, PrepareFails, docker, Created, DownPcs
    <3>2. row[i] = r /\ row'[i] \in {row[i], WithSalts(c, r)[i]}
      BY <1>3, <2>2 DEF Prepare, PrepareFails, LanPcs
    <3>3. Kept
      BY <1>2, <1>3, <1>5, <1>7, <3>2
    <3> QED
      BY <1>9, <3>1, <3>3
  <2>3. CASE RefreshFails(c) \/ Refused(c) \/ Finish(c)
    <3>1. UNCHANGED <<row, ctr>> /\ pc[c] \notin Created /\ pc'[c] = "idle"
      BY <1>13, <2>3 DEF RefreshFails, Refused, Finish, world, docker, Created
    <3> QED
      BY <1>9, <1>12, <1>14, <3>1
  <2> QED
    BY <1>15, <2>1, <2>2, <2>3 DEF SharedStep, SaveFails
<1>16. CASE StartStep(c)
  <2>1. CASE SaveStarted(c)
    BY <1>0, <1>7, <1>8, <1>14, <2>1 DEF SaveStarted
  <2>2. CASE EnsureNetwork(c) \/ CheckMarker(c)
    BY <1>0, <1>9, <1>12, <2>2 DEF EnsureNetwork, CheckMarker, world, docker, Created, DownPcs
  <2>3. CASE CreateContainers(c)
    BY <1>0, <1>3, <2>3 DEF CreateContainers, Created, DownPcs
  <2>4. CASE StartFailsEarly(c)
    BY <1>0, <1>9, <1>12, <1>13, <1>14, <2>4 DEF StartFailsEarly, Created
  <2>5. CASE CreateFails(c)
    <3>1. ctr'[s] \in {ctr[s], "partial"} /\ UNCHANGED row /\ pc[c] \in {"create", "blind"}
      BY <1>0, <1>3, <2>5 DEF CreateFails
    <3>2. pc'[c] = "idle"
      BY <1>13, <2>5 DEF CreateFails
    <3> QED
      BY <1>3, <1>4, <1>14, <3>1, <3>2 DEF Created
  <2>6. CASE WaitReady(c) \/ WriteMarker(c) \/ StartCommits(c)
    BY <1>0, <1>11, <1>12, <2>6 DEF WaitReady, WriteMarker, StartCommits, world, docker, Created
  <2>7. CASE StartUnwinds(c)
    <3>1. ctr'[s] \in {"absent", "partial"} /\ UNCHANGED row
      BY <1>0, <1>3, <2>7 DEF StartUnwinds
    <3> QED
      BY <1>10, <1>12, <3>1
  <2> QED
    BY <1>16, <2>1, <2>2, <2>3, <2>4, <2>5, <2>6, <2>7 DEF StartStep
<1>17. CASE StopStep(c)
  <2>1. CASE SaveStopped(c)
    BY <1>4, <1>0, <1>7, <1>8, <2>1 DEF SaveStopped, world, docker, DownPcs
  <2>2. CASE StopContainers(c) \/ StopRemovesRoute(c)
    <3>1. ctr'[s] # "running" /\ UNCHANGED row
      BY <1>0, <1>3, <1>4, <2>2 DEF StopContainers, StopRemovesRoute, docker, DownPcs
    <3> QED
      BY <1>10, <1>12, <3>1
  <2>3. CASE StopFails(c)
    <3>1. ctr'[s] # "running" /\ UNCHANGED row
      BY <1>0, <1>3, <1>4, <2>3 DEF StopFails, DownPcs
    <3> QED
      BY <1>10, <1>12, <3>1
  <2> QED
    BY <1>17, <2>1, <2>2, <2>3 DEF StopStep
<1>18. CASE DeleteStep(c)
  <2>1. ctr'[s] # "running"
    <3>1. CASE DeleteStops(c) \/ DeleteRemoves(c)
      BY <1>0, <1>3, <3>1 DEF DeleteStops, DeleteRemoves
    <3>2. CASE DeletePlanFails(c)
      BY <1>0, <1>3, <1>4, <3>2 DEF DeletePlanFails, DownPcs
    <3> QED
      BY <1>4, <1>18, <3>1, <3>2 DEF DeleteStep, DeleteRemovesRoute, DeleteRemovesNetwork, DeletePurges, DeleteRow,
         world, docker, DownPcs
  <2> QED
    BY <2>1
<1>19. CASE LanStep(c)
  <2>1. UNCHANGED ctr /\ pc[c] \notin Created /\ pc'[c] \notin DownPcs
    BY <1>0, <1>13, <1>14, <1>19 DEF LanStep, LanSavesRow, LanWritesConfig, LanConfigFails, LanRegistersRoute,
       LanRouteFails, LanCommits, LanUndoesRoute, LanUndoesState, world, docker, Created, DownPcs
  <2>2. row[i] \in Row /\ row[i].started = r.started
    BY <1>0, <1>3, <1>5, <1>19 DEF LanStep, LanSavesRow, LanWritesConfig, LanConfigFails, LanRegistersRoute,
       LanRouteFails, LanCommits, LanUndoesRoute, LanUndoesState, LanPcs
  <2>3. row' = row \/ \E x \in {r, Salted(r), WantLan(c)} : row' = Saved(c, x) \/ row' = WithSalts(c, x)
    BY <1>19 DEF LanStep, LanSavesRow, LanWritesConfig, LanConfigFails, LanRegistersRoute,
       LanRouteFails, LanCommits, LanUndoesRoute, LanUndoesState
  <2>4. Kept
    <3>1. CASE row' = row
      BY <1>12, <3>1
    <3>2. ASSUME NEW x \in {r, Salted(r), WantLan(c)}, row' = Saved(c, x) \/ row' = WithSalts(c, x)
          PROVE  Kept
      <4>1. x \in Row /\ x.started = r.started
        BY <1>2, <1>5, <3>2
      <4>2. Salted(x).started = r.started
        BY <4>1, SaltedFields
      <4>3. row'[i] \in {x, row[i], Salted(x)}
        BY <1>7, <3>2, <4>1
      <4> QED
        BY <1>3, <1>7, <2>2, <4>1, <4>2, <4>3
    <3> QED
      BY <2>3, <3>1, <3>2
  <2> QED
    BY <1>9, <2>1, <2>4
<1>20. CASE SettingsStep(c)
  <2>1. CASE SaveVersions(c)
    BY <1>0, <1>4, <1>7, <1>8, <1>10, <2>1 DEF SaveVersions, world, docker, DownPcs
  <2>2. CASE SetSPXEnabled(c) \/ SetPublishDBPort(c)
    <3>1. row[i] = r /\ row'[i] \in {r, [r EXCEPT !.opt = job[c].on]} /\ UNCHANGED ctr /\ pc[c] \notin Created
      BY <1>3, <1>7, <1>8, <2>2 DEF SetSPXEnabled, SetPublishDBPort, world, docker, LanPcs, Created
    <3>2. pc'[c] = "idle"
      BY <1>13, <2>2 DEF SetSPXEnabled, SetPublishDBPort
    <3> QED
      BY <1>2, <1>7, <1>8, <1>9, <1>14, <3>1, <3>2
  <2>3. CASE VersionsCheck(c) \/ VersionsRefused(c)
    BY <1>0, <1>9, <1>12, <1>13, <1>14, <2>3 DEF VersionsCheck, VersionsRefused, world, docker, Created, DownPcs
  <2>4. CASE VersionsRemovesContainers(c)
    <3>1. ctr'[s] # "running" /\ UNCHANGED row
      BY <1>0, <1>3, <2>4 DEF VersionsRemovesContainers
    <3> QED
      BY <1>10, <1>12, <3>1
  <2> QED
    BY <1>20, <2>1, <2>2, <2>3, <2>4 DEF SettingsStep
<1> QED
  BY <1>15, <1>16, <1>17, <1>18, <1>19, <1>20 DEF Work

LEMMA RunInvStep ==
  ASSUME DuplicateNames = FALSE, "store" \notin Faults, SyncInv, OneOwner, NoOverlap, RunInv, [Next]_vars
  PROVE  RunInv'
<1>0. /\ row \in [Ids -> Row \union {NoRow}] /\ pc \in [Clients -> Pc] /\ ctr \in [Slugs -> Ctr]
      /\ job \in [Clients -> Job \union {NoJob}] /\ loc \in [Clients -> Row \union {NoRow}]
  BY DEF SyncInv, TypeInv, TypeOK
<1>1. CASE Restart
  BY <1>1, SlugsOfIds DEF Restart, RunInv, DownPcs
<1>2. ASSUME NEW k \in Ids, AddSite(k) PROVE RunInv'
  <2>1. /\ \A j \in Ids : SlugOf[j] = SlugOf[k] => row[j] = NoRow
        /\ \A i \in Ids : i # k => row'[i] = row[i]
        /\ UNCHANGED <<pc, job, ctr>> /\ row[k] = NoRow
    BY <1>0, <1>2 DEF AddSite, NameFree, request, world, docker
  <2>2. ctr[SlugOf[k]] # "running"
    BY <2>1, SlugsOfIds DEF RunInv
  <2> QED
    BY <2>1, <2>2 DEF RunInv, Slug, Id
<1>3. ASSUME NEW c \in Clients, Begin(c) PROVE RunInv'
  <2>1. /\ {pc[c], pc'[c]} \cap (Created \union DownPcs) = {} /\ UNCHANGED <<row, ctr>>
        /\ \A d \in Clients : d # c => UNCHANGED <<pc[d], job[d]>>
    BY <1>0, <1>3 DEF Begin, Goto, world, docker, Created, DownPcs
  <2> QED
    BY <2>1 DEF RunInv, Slug, Id
<1>4. ASSUME NEW c \in Clients, Acquire(c) PROVE RunInv'
  <2>1. job[c].kind \in AllKinds \ {"publish"}
    BY <1>0, <1>4, JobFields DEF Acquire, SyncInv, TypeInv, Serving
  <2>2. /\ {pc[c], pc'[c]} \cap (Created \union DownPcs) = {} /\ UNCHANGED <<row, ctr, job>>
        /\ \A d \in Clients : d # c => UNCHANGED pc[d]
    BY <1>0, <1>4, <2>1 DEF Acquire, Goto, FirstStep, AllKinds, world, docker, Created, DownPcs
  <2> QED
    BY <2>2 DEF RunInv, Slug, Id
<1>5. ASSUME NEW c \in Clients, Work(c) PROVE RunInv'
  <2>1. /\ pc'[c] \in DownPcs => ctr'[Slug(c)] # "running"
        /\ ctr'[Slug(c)] = "running" => row'[Id(c)] # NoRow
        /\ ctr'[Slug(c)] = "running" /\ pc'[c] \notin Created => row'[Id(c)].started
    BY <1>5, WorkRun
  <2>2. /\ \A k \in Ids : k # Id(c) => row'[k] = row[k]
        /\ \A s \in Slugs : s # Slug(c) => ctr'[s] = ctr[s]
        /\ ~Busy(c) => UNCHANGED ctr
    BY <1>5, WorkSync, WorkTouchesItsOwn DEF SyncInv, world, docker
  <2>3. /\ job[c] # NoJob /\ Id(c) \in Ids /\ row[Id(c)] # NoRow /\ pc[c] # "idle" /\ Slug(c) \in Slugs
        /\ Id(c) \in Live
    BY <1>5, JobFields, WorkShape, Sentinels, SlugsOfIds
       DEF SyncInv, TypeInv, Serving, Shape, Moves, Busy, InSync, Id, Slug, Live
  <2>4. /\ \A d \in Clients : d # c => UNCHANGED <<pc[d], job[d]>>
        /\ pc'[c] # "idle" => job'[c] = job[c]
    BY <1>0, <1>5, <2>3, WorkShape DEF SyncInv, Shape, Moves, Release, Return
  <2>5. \A k \in Ids : k # Id(c) /\ row[k] # NoRow => SlugOf[k] # Slug(c)
    BY <2>3 DEF OneOwner, Live, Slug
  <2>6. ASSUME NEW d \in Clients, pc'[d] \in DownPcs PROVE ctr'[Slug(d)'] # "running"
    <3>1. CASE d = c
      BY <2>1, <2>4, <2>6, <3>1 DEF Slug, Id, DownPcs
    <3>2. CASE d # c
      <4>1. pc[d] \in DownPcs /\ Slug(d)' = Slug(d) /\ Busy(d) /\ ctr[Slug(d)] # "running"
        BY <2>4, <2>6, <3>2 DEF Slug, Id, RunInv, Busy, DownPcs
      <4>2. Slug(d) \in Slugs
        BY <4>1, JobFields, SlugsOfIds DEF SyncInv, TypeInv, Serving, Busy, Slug, Id
      <4>3. Busy(c) => Slug(d) # Slug(c)
        BY <3>2, <4>1, Exclusive DEF SyncInv
      <4> QED
        BY <2>2, <4>1, <4>2, <4>3
    <3> QED
      BY <3>1, <3>2
  <2>7. ASSUME NEW k \in Ids, row'[k] # NoRow, ctr'[SlugOf[k]] = "running",
               \A d \in Clients : pc'[d] \in Created => Id(d)' # k
        PROVE  row'[k].started
    <3>1. CASE k = Id(c)
      BY <2>1, <2>4, <2>7, <3>1 DEF Id, Slug, Created
    <3>2. CASE k # Id(c)
      <4>1. row'[k] = row[k] /\ SlugOf[k] # Slug(c)
        BY <2>2, <2>5, <2>7, <3>2
      <4>2. \A d \in Clients : pc[d] \in Created => Id(d) # k
        BY <2>4, <2>7, <3>2 DEF Id
      <4> QED
        BY <2>2, <2>7, <4>1, <4>2, SlugsOfIds DEF RunInv
    <3> QED
      BY <3>1, <3>2
  <2>8. ASSUME NEW s \in Slugs, ctr'[s] = "running" PROVE \E i \in Ids : row'[i] # NoRow /\ SlugOf[i] = s
    <3>1. CASE s = Slug(c)
      BY <2>1, <2>3, <2>8, <3>1 DEF Slug
    <3>2. CASE s # Slug(c)
      <4>1. PICK i \in Ids : row[i] # NoRow /\ SlugOf[i] = s
        BY <2>2, <2>8, <3>2 DEF RunInv
      <4>2. i # Id(c)
        BY <3>2, <4>1 DEF Slug
      <4> QED
        BY <2>2, <4>1, <4>2
    <3> QED
      BY <3>1, <3>2
  <2> QED
    BY <2>6, <2>7, <2>8 DEF RunInv
<1>6. CASE UNCHANGED vars
  BY <1>6 DEF vars, request, world, docker, RunInv, Slug, Id
<1> QED
  BY <1>1, <1>2, <1>3, <1>4, <1>5, <1>6 DEF Next

(* When no two calls on one site overlap, no UPDATE fails and a name is    *)
(* not reused while in use, a site whose containers run and whose mutex is *)
(* free is one its row calls started, across failed plans, rollbacks that  *)
(* fail, deletions and restarts: StartSite, StopSite, DeleteSiteWithOptions *)
(* and UpdateSiteVersionsWithEngine.                                       *)
THEOREM RunningSitesAreRecorded ==
  ASSUME DuplicateNames = FALSE, "store" \notin Faults
  PROVE  Spec /\ []NoOverlap => []RunningIsRecorded
<1>1. Init => RunInv /\ OneOwner
  BY SlugsOfIds DEF Init, RunInv, DownPcs, OneOwner, Live
<1>2. SyncInv /\ RunInv => RunningIsRecorded
  <2> SUFFICES ASSUME SyncInv, RunInv, NEW i \in Ids, row[i] # NoRow, lock[i] = Free, ctr[SlugOf[i]] = "running"
               PROVE  row[i].started
    BY DEF RunningIsRecorded
  <2>1. \A c \in Clients : pc[c] \in Created => Id(c) # i
    BY Sentinels DEF SyncInv, Holding, Busy, Created
  <2> QED
    BY <2>1 DEF RunInv
<1>3. SyncInv /\ OneOwner /\ RunInv /\ NoOverlap /\ [Next]_vars => RunInv'
  BY RunInvStep
<1>4. SyncInv /\ OneOwner /\ [Next]_vars => OneOwner'
  BY OneOwnerStep DEF SyncInv
<1> QED
  BY <1>1, <1>2, <1>3, <1>4, SyncInit, SyncStep, PTL DEF Spec
=============================================================================
