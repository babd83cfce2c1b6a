--------------------------- MODULE SiteLifecycle ---------------------------
(***************************************************************************)
(* The per-site lifecycle of internal/sites/sites.go: start, stop, delete, *)
(* the LAN toggle and its refresh, version change and the settings that    *)
(* may change only while a site is stopped, run by concurrent clients (GUI *)
(* goroutines, IPC connections) against one SQLite table and one Docker    *)
(* daemon.  Every method reads its row first, then takes the site's mutex, *)
(* works from that copy, and writes the whole copy back.                   *)
(*                                                                         *)
(* A row is known by its id, which is never used twice; the containers,    *)
(* the network, the volume and the route are known by the slug of the      *)
(* site's name, which a later site may have again.                         *)
(***************************************************************************)
EXTENDS Naturals

CONSTANTS
  Ids,                        \* site ids (uuids)
  Slugs,
  SlugOf,                     \* the slug of each site's name
  Clients,
  Images,                     \* database engines with their versions
  Compat,                     \* <<have, want>> UpgradeAllowed or equal
  Kinds,                      \* the requests clients may make
  Faults,                     \* what may go wrong, a subset of FaultKinds
  UserOwned,                  \* ids whose wp-config is the user's own file
  Unlisted,                   \* ids that never get a LAN whitelist
  DuplicateNames,             \* may two live sites have one slug
  MaxRequests,                \* bound: requests made in a behaviour
  NoRow, NoImage, NoJob, Free

(* plan: a step or hook fails or the context is cancelled; store: an       *)
(* UPDATE or DELETE fails; undo: a rollback action fails; read, write: the *)
(* volume marker cannot be read or written; crash: the process dies.       *)
FaultKinds == {"plan", "store", "undo", "read", "write", "crash"}

AllKinds == {"start", "stop", "delete", "lan", "refresh", "versions",
             "spx", "publish"}

(* The columns that matter here.  `opt' stands for publishDBPort and       *)
(* spxEnabled, `salted' for a non-empty salts column.                      *)
Row == [started : BOOLEAN, lan : BOOLEAN, ver : Images, opt : BOOLEAN,
        salted : BOOLEAN]

(* `on' is the value to set, or DeleteOptions.PurgeVolume.                 *)
Job ==      [kind : {"start", "stop", "refresh"}, id : Ids,
             on : {FALSE}, ver : {NoImage}]
       \union [kind : {"delete", "lan", "spx", "publish"}, id : Ids,
             on : BOOLEAN, ver : {NoImage}]
       \union [kind : {"versions"}, id : Ids, on : {FALSE}, ver : Images]

ASSUME SlugsOfIds == SlugOf \in [Ids -> Slugs]
ASSUME CompatReflexive ==
  /\ Compat \subseteq Images \X Images
  /\ \A i \in Images : <<i, i>> \in Compat
ASSUME Switches ==
  /\ Kinds \subseteq AllKinds
  /\ Faults \subseteq FaultKinds
  /\ UserOwned \subseteq Ids /\ Unlisted \subseteq Ids
  /\ DuplicateNames \in BOOLEAN
  /\ MaxRequests \in Nat
ASSUME Sentinels ==
  /\ NoRow \notin Row /\ NoImage \notin Images
  /\ NoJob \notin Job /\ Free \notin Clients

VARIABLES
  row,                        \* the sites table
  born,                       \* ids handed out so far
  lock,                       \* siteLocks: the holder of each site's mutex
  pc, job, loc,               \* each client: where, what for, its copy of row
  begun,                      \* requests made
  ctr,                        \* the four service containers of a slug
  image,                      \* the database container's image
  net,                        \* the site network exists
  route,                      \* the router's file for the slug
  data,                       \* what last wrote the data volume
  marker,                     \* the volume marker
  wplan                       \* wp-config-locorum.php has the LAN whitelist

request == <<pc, job, loc>>
docker  == <<ctr, image, net, data, marker>>
world   == <<docker, route, wplan>>
vars    == <<row, born, lock, request, begun, world>>

Ctr   == {"absent", "stopped", "running", "partial"}
Route == {"none", "local", "lan"}
Pc    == {"idle", "queued", "post",
          "prep", "net", "marker", "create", "blind", "ready", "stamp", "route",
          "commit", "save",
          "stop", "unroute", "stopSave",
          "dStop", "dRemove", "dRoute", "dNet", "dPurge", "dRow",
          "dRowFailed",
          "lanRow", "lanConf", "lanRoute", "lanDone", "lanUndoRoute",
          "lanUndoState",
          "refConf", "refRoute", "vCheck", "vRemove", "vSave", "spx", "pub"}

(* Where a request goes once it holds its site's mutex.                    *)
FirstStep == [start |-> "prep", stop |-> "stop", delete |-> "dStop",
              lan |-> "lanRow", refresh |-> "refConf",
              versions |-> "vCheck", spx |-> "spx"]

-----------------------------------------------------------------------------
(* Helpers.                                                                *)

Id(c)   == job[c].id
Slug(c) == SlugOf[Id(c)]

Goto(c, p) == pc' = [pc EXCEPT ![c] = p]

Return(c) ==
  /\ pc' = [pc EXCEPT ![c] = "idle"]
  /\ job' = [job EXCEPT ![c] = NoJob]
  /\ loc' = [loc EXCEPT ![c] = NoRow]

(* The deferred mu.Unlock.                                                 *)
Release(c) ==
  /\ Return(c)
  /\ lock' = [lock EXCEPT ![Id(c)] = Free]

(* UPDATE sites SET <every column> WHERE id = ?: no row, no effect and no  *)
(* error.                                                                  *)
Saved(c, r) ==
  IF row[Id(c)] = NoRow THEN row ELSE [row EXCEPT ![Id(c)] = r]

Salted(r) == [r EXCEPT !.salted = TRUE]

(* ensureSalts saves the copy the first time a site needs its salts.       *)
WithSalts(c, r) == IF r.salted THEN row ELSE Saved(c, Salted(r))

(* The LAN host is left out of the route while the machine has no LAN      *)
(* address, or the settings no LAN domain.                                 *)
RoutesFor(r) == IF r.lan THEN {"lan", "local"} ELSE {"local"}

(* wp-config-locorum.php as EnsureWPConfig leaves it: a file without       *)
(* Locorum's signature is not touched, and that is no error; a subdomain   *)
(* multisite has an empty whitelist.                                       *)
ConfigFor(c, lan) ==
  IF Id(c) \in UserOwned THEN wplan
  ELSE [wplan EXCEPT ![Id(c)] = lan /\ Id(c) \notin Unlisted]

WantLan(c) == [loc[c] EXCEPT !.lan = job[c].on]

(* RemoveNetworksByLabel of a site network, the containers in state k:     *)
(* whether it is still there.  Docker refuses while a container runs.      *)
NetAfterRemove(k) ==
  IF k = "running" THEN {TRUE}
  ELSE IF k = "partial" \/ "undo" \in Faults THEN BOOLEAN
  ELSE {FALSE}

MarkerAllows(c) ==
  \/ marker[Slug(c)] = NoImage
  \/ <<marker[Slug(c)], loc[c].ver>> \in Compat

-----------------------------------------------------------------------------
Init ==
  /\ row = [i \in Ids |-> NoRow]
  /\ born = {}
  /\ lock = [i \in Ids |-> Free]
  /\ pc = [c \in Clients |-> "idle"]
  /\ job = [c \in Clients |-> NoJob]
  /\ loc = [c \in Clients |-> NoRow]
  /\ begun = 0
  /\ ctr = [s \in Slugs |-> "absent"]
  /\ image = [s \in Slugs |-> NoImage]
  /\ net = [s \in Slugs |-> FALSE]
  /\ route = [s \in Slugs |-> "none"]
  /\ data = [s \in Slugs |-> NoImage]
  /\ marker = [s \in Slugs |-> NoImage]
  /\ wplan = [i \in Ids |-> FALSE]

(* Nothing in the code keeps two sites from having one slug; unless        *)
(* DuplicateNames, the users do.                                           *)
NameFree(i) ==
  \/ DuplicateNames
  \/ /\ \A j \in Ids : SlugOf[j] = SlugOf[i] => row[j] = NoRow
     /\ \A c \in Clients : job[c] # NoJob => Slug(c) # SlugOf[i]

AddSite(i) ==
  /\ i \notin born /\ NameFree(i)
  /\ born' = born \union {i}
  /\ \E v \in Images :
       row' = [row EXCEPT ![i] =
         [started |-> FALSE, lan |-> FALSE, ver |-> v, opt |-> FALSE,
          salted |-> FALSE]]
  /\ UNCHANGED <<lock, request, begun, world>>

(* A method is called: it reads the row, and makes the checks it makes     *)
(* before it takes the mutex.  SetPublishDBPort takes none.                *)
Begin(c) ==
  /\ pc[c] = "idle" /\ begun < MaxRequests
  /\ begun' = begun + 1
  /\ \E j \in Job :
       /\ j.kind \in Kinds
       /\ row[j.id] # NoRow
       /\ j.kind = "refresh" => row[j.id].lan
       /\ j.kind \in {"versions", "publish"} => ~row[j.id].started
       /\ job' = [job EXCEPT ![c] = j]
       /\ loc' = [loc EXCEPT ![c] = row[j.id]]
       /\ Goto(c, IF j.kind = "publish" THEN "pub" ELSE "queued")
  /\ UNCHANGED <<row, born, lock, world>>

(* Mutation of Acquire: the mutex is not waited for.                       *)
AcquireHeld(c) ==
  /\ pc[c] = "queued"
  /\ lock' = [lock EXCEPT ![Id(c)] = c]
  /\ Goto(c, FirstStep[job[c].kind])
  /\ UNCHANGED <<row, born, job, loc, begun, world>>

Acquire(c) ==
  /\ pc[c] = "queued" /\ lock[Id(c)] = Free
  /\ lock' = [lock EXCEPT ![Id(c)] = c]
  /\ Goto(c, FirstStep[job[c].kind])
  /\ UNCHANGED <<row, born, job, loc, begun, world>>

(* Mutation of Refused: this return misses the unlock.                      *)
RefusedKeepsLock(c) ==
  /\ pc[c] \in {"prep", "stop", "dStop", "lanRow", "refConf", "vRemove"}
  /\ "plan" \in Faults
  /\ Return(c)
  /\ UNCHANGED <<row, born, lock, begun, world>>

(* A strict pre-hook fails, or no LAN address is found: nothing is done.   *)
Refused(c) ==
  /\ pc[c] \in {"prep", "stop", "dStop", "lanRow", "refConf", "vRemove"}
  /\ "plan" \in Faults
  /\ Release(c)
  /\ UNCHANGED <<row, born, begun, world>>

(* What follows the save (core install, notifications, post-hooks) may     *)
(* fail, and changes nothing.                                              *)
Finish(c) ==
  /\ pc[c] = "post"
  /\ Release(c)
  /\ UNCHANGED <<row, born, begun, world>>

(* The UPDATE that ends a request fails.                                   *)
SaveFails(c) ==
  /\ pc[c] \in {"save", "stopSave", "vSave", "lanRow"}
  /\ "store" \in Faults
  /\ Release(c)
  /\ UNCHANGED <<row, born, begun, world>>

-----------------------------------------------------------------------------
(* StartSite.                                                              *)

(* EnsureWPConfig, for StartSite and RefreshLAN.                           *)
Prepare(c) ==
  /\ pc[c] \in {"prep", "refConf"}
  /\ row' = WithSalts(c, loc[c])
  /\ loc' = [loc EXCEPT ![c] = Salted(loc[c])]
  /\ wplan' = ConfigFor(c, loc[c].lan)
  /\ Goto(c, IF pc[c] = "prep" THEN "net" ELSE "refRoute")
  /\ UNCHANGED <<born, lock, job, begun, docker, route>>

PrepareFails(c) ==
  /\ pc[c] \in {"prep", "refConf"}
  /\ "plan" \in Faults
  /\ \E saved, written \in BOOLEAN :
       /\ written => saved
       /\ row' = IF saved THEN WithSalts(c, loc[c]) ELSE row
       /\ wplan' = IF written THEN ConfigFor(c, loc[c].lan) ELSE wplan
  /\ Release(c)
  /\ UNCHANGED <<born, begun, docker, route>>

(* ensure-network and ensure-volume.                                       *)
EnsureNetwork(c) ==
  /\ pc[c] = "net"
  /\ net' = [net EXCEPT ![Slug(c)] = TRUE]
  /\ Goto(c, "marker")
  /\ UNCHANGED <<row, born, lock, job, loc, begun, ctr, image, data, marker,
                 route, wplan>>

(* Mutation of CheckMarker: the comparison is dropped.                     *)
CheckMarkerNever(c) ==
  /\ pc[c] = "marker"
  /\ Goto(c, "create")
  /\ UNCHANGED <<row, born, lock, job, loc, begun, world>>

(* A marker that cannot be read or decoded does not stop the start, which  *)
(* goes on without the comparison.                                         *)
CheckMarker(c) ==
  /\ pc[c] = "marker"
  /\ \/ MarkerAllows(c) /\ Goto(c, "create")
     \/ "read" \in Faults /\ Goto(c, "blind")
  /\ UNCHANGED <<row, born, lock, job, loc, begun, world>>

(* Mutation of CreateContainers: a container that exists is kept as it is. *)
CreateMissingContainers(c) ==
  /\ pc[c] \in {"create", "blind"}
  /\ ctr' = [ctr EXCEPT ![Slug(c)] = "running"]
  /\ image' = [image EXCEPT ![Slug(c)] = IF @ = NoImage THEN loc[c].ver ELSE @]
  /\ data' = [data EXCEPT ![Slug(c)] = image'[Slug(c)]]
  /\ Goto(c, "ready")
  /\ UNCHANGED <<row, born, lock, job, loc, begun, net, marker, route, wplan>>

(* pull-images, chown, create-containers.  EnsureContainer recreates the   *)
(* database container unless it was made from the same image.              *)
CreateContainers(c) ==
  /\ pc[c] \in {"create", "blind"}
  /\ ctr' = [ctr EXCEPT ![Slug(c)] = "running"]
  /\ image' = [image EXCEPT ![Slug(c)] = loc[c].ver]
  /\ data' = [data EXCEPT ![Slug(c)] = loc[c].ver]
  /\ Goto(c, "ready")
  /\ UNCHANGED <<row, born, lock, job, loc, begun, net, marker, route, wplan>>

(* Until create-containers has succeeded, the rollback is the network's.   *)
StartFailsEarly(c) ==
  /\ \/ pc[c] \in {"net", "marker"} /\ "plan" \in Faults
     \/ pc[c] = "marker" /\ ~MarkerAllows(c)
  /\ \/ \E n \in NetAfterRemove(ctr[Slug(c)]) :
            net' = [net EXCEPT ![Slug(c)] = n]
     \/ pc[c] = "net" /\ UNCHANGED net
  /\ Release(c)
  /\ UNCHANGED <<row, born, begun, ctr, image, data, marker, route, wplan>>

(* The containers are made in parallel; a failure leaves any of them, and  *)
(* a step that failed is not rolled back.                                  *)
CreateFails(c) ==
  /\ pc[c] \in {"create", "blind"} /\ "plan" \in Faults
  /\ \E k \in {ctr[Slug(c)], "partial"},
        i \in {image[Slug(c)], NoImage, loc[c].ver},
        d \in {data[Slug(c)], loc[c].ver} :
       /\ k = "partial" \/ (i = image[Slug(c)] /\ d = data[Slug(c)])
       /\ d # data[Slug(c)] => i = loc[c].ver
       /\ ctr' = [ctr EXCEPT ![Slug(c)] = k]
       /\ image' = [image EXCEPT ![Slug(c)] = i]
       /\ data' = [data EXCEPT ![Slug(c)] = d]
       /\ \E n \in NetAfterRemove(k) :
            net' = [net EXCEPT ![Slug(c)] = n]
  /\ Release(c)
  /\ UNCHANGED <<row, born, begun, marker, route, wplan>>

WaitReady(c) ==
  /\ pc[c] = "ready"
  /\ Goto(c, "stamp")
  /\ UNCHANGED <<row, born, lock, job, loc, begun, world>>

(* A failed write is logged and swallowed.                                 *)
WriteMarker(c) ==
  /\ pc[c] = "stamp"
  /\ \/ marker' = [marker EXCEPT ![Slug(c)] = loc[c].ver]
     \/ "write" \in Faults /\ UNCHANGED marker
  /\ Goto(c, "route")
  /\ UNCHANGED <<row, born, lock, job, loc, begun, ctr, image, net, data,
                 route, wplan>>

RegisterRoute(c) ==
  /\ pc[c] \in {"route", "refRoute"}
  /\ \E t \in RoutesFor(loc[c]) : route' = [route EXCEPT ![Slug(c)] = t]
  /\ Goto(c, IF pc[c] = "route" THEN "commit" ELSE "post")
  /\ UNCHANGED <<row, born, lock, job, loc, begun, docker, wplan>>

(* RefreshLAN is no plan: a failed upsert may leave its file.              *)
RefreshFails(c) ==
  /\ pc[c] = "refRoute" /\ "plan" \in Faults
  /\ \/ UNCHANGED route
     \/ \E t \in RoutesFor(loc[c]) : route' = [route EXCEPT ![Slug(c)] = t]
  /\ Release(c)
  /\ UNCHANGED <<row, born, begun, docker, wplan>>

(* Rollback once create-containers has succeeded: the containers, then the *)
(* network; the route only if register-routes had succeeded too.  A failed *)
(* removal is logged.                                                      *)
StartUnwinds(c) ==
  /\ pc[c] \in {"ready", "stamp", "route", "commit"} /\ "plan" \in Faults
  /\ \/ pc[c] = "commit" /\ route' = [route EXCEPT ![Slug(c)] = "none"]
     \/ pc[c] = "route"
        /\ \E t \in RoutesFor(loc[c]) :
             route' = [route EXCEPT ![Slug(c)] = t]
     \/ (pc[c] = "commit" => "undo" \in Faults) /\ UNCHANGED route
  /\ \E k \in {"absent"} \union IF "undo" \in Faults THEN {"partial"} ELSE {} :
       /\ ctr' = [ctr EXCEPT ![Slug(c)] = k]
       /\ image' = [image EXCEPT ![Slug(c)] =
                      IF k = "absent" THEN NoImage ELSE @]
       /\ \E n \in NetAfterRemove(k) :
            net' = [net EXCEPT ![Slug(c)] = n]
  /\ Release(c)
  /\ UNCHANGED <<row, born, begun, data, marker, wplan>>

(* Run's last look at the context.                                         *)
StartCommits(c) ==
  /\ pc[c] = "commit"
  /\ Goto(c, "save")
  /\ UNCHANGED <<row, born, lock, job, loc, begun, world>>

(* Mutation of SaveStarted: the flag is set and not saved.                 *)
SaveStartedNot(c) ==
  /\ pc[c] = "save"
  /\ Goto(c, "post")
  /\ UNCHANGED <<row, born, lock, job, loc, begun, world>>

SaveStarted(c) ==
  /\ pc[c] = "save"
  /\ row' = Saved(c, [loc[c] EXCEPT !.started = TRUE])
  /\ Goto(c, "post")
  /\ UNCHANGED <<born, lock, job, loc, begun, world>>

-----------------------------------------------------------------------------
(* StopSite.                                                               *)

StopContainers(c) ==
  /\ pc[c] = "stop"
  /\ ctr' = [ctr EXCEPT ![Slug(c)] = IF @ = "absent" THEN @ ELSE "stopped"]
  /\ Goto(c, "unroute")
  /\ UNCHANGED <<row, born, lock, job, loc, begun, image, net, data, marker,
                 route, wplan>>

StopRemovesRoute(c) ==
  /\ pc[c] = "unroute"
  /\ route' = [route EXCEPT ![Slug(c)] = "none"]
  /\ Goto(c, "stopSave")
  /\ UNCHANGED <<row, born, lock, job, loc, begun, docker, wplan>>

(* Nothing is rolled back, and the row keeps Started.                      *)
StopFails(c) ==
  /\ pc[c] \in {"stop", "unroute", "stopSave"} /\ "plan" \in Faults
  /\ ctr' = [ctr EXCEPT ![Slug(c)] =
               IF pc[c] = "stop" /\ @ = "running" THEN "partial" ELSE @]
  /\ Release(c)
  /\ UNCHANGED <<row, born, begun, image, net, data, marker, route, wplan>>

SaveStopped(c) ==
  /\ pc[c] = "stopSave"
  /\ row' = Saved(c, [loc[c] EXCEPT !.started = FALSE])
  /\ Goto(c, "post")
  /\ UNCHANGED <<born, lock, job, loc, begun, world>>

-----------------------------------------------------------------------------
(* DeleteSiteWithOptions, for a site without worktree children.            *)

DeleteStops(c) ==
  /\ pc[c] = "dStop"
  /\ ctr' = [ctr EXCEPT ![Slug(c)] = IF @ = "absent" THEN @ ELSE "stopped"]
  /\ Goto(c, "dRemove")
  /\ UNCHANGED <<row, born, lock, job, loc, begun, image, net, data, marker,
                 route, wplan>>

DeleteRemoves(c) ==
  /\ pc[c] = "dRemove"
  /\ ctr' = [ctr EXCEPT ![Slug(c)] = "absent"]
  /\ image' = [image EXCEPT ![Slug(c)] = NoImage]
  /\ Goto(c, "dRoute")
  /\ UNCHANGED <<row, born, lock, job, loc, begun, net, data, marker, route,
                 wplan>>

(* Mutation of DeleteRemovesRoute: the step is left out of the plan.       *)
DeleteKeepsRoute(c) ==
  /\ pc[c] = "dRoute"
  /\ Goto(c, "dNet")
  /\ UNCHANGED <<row, born, lock, job, loc, begun, world>>

(* remove-routes and remove-site-configs.                                  *)
DeleteRemovesRoute(c) ==
  /\ pc[c] = "dRoute"
  /\ route' = [route EXCEPT ![Slug(c)] = "none"]
  /\ Goto(c, "dNet")
  /\ UNCHANGED <<row, born, lock, job, loc, begun, docker, wplan>>

DeleteRemovesNetwork(c) ==
  /\ pc[c] = "dNet"
  /\ ctr[Slug(c)] # "running"
  /\ net' = [net EXCEPT ![Slug(c)] = FALSE]
  /\ Goto(c, IF job[c].on THEN "dPurge" ELSE "dRow")
  /\ UNCHANGED <<row, born, lock, job, loc, begun, ctr, image, data, marker,
                 route, wplan>>

(* Docker refuses to remove a volume a container has.                      *)
DeletePurges(c) ==
  /\ pc[c] = "dPurge"
  /\ image[Slug(c)] = NoImage
  /\ data' = [data EXCEPT ![Slug(c)] = NoImage]
  /\ marker' = [marker EXCEPT ![Slug(c)] = NoImage]
  /\ Goto(c, "dRow")
  /\ UNCHANGED <<row, born, lock, job, loc, begun, ctr, image, net, route,
                 wplan>>

(* The failed plan skips its later steps; the row is deleted all the same. *)
DeletePlanFails(c) ==
  /\ pc[c] \in {"dStop", "dRemove", "dRoute", "dNet", "dPurge", "dRow"}
  /\ \/ "plan" \in Faults
     \/ pc[c] = "dNet" /\ ctr[Slug(c)] = "running"
     \/ pc[c] = "dPurge" /\ image[Slug(c)] # NoImage
  /\ ctr' = [ctr EXCEPT ![Slug(c)] =
               IF pc[c] = "dStop" /\ @ = "running" THEN "partial" ELSE @]
  /\ \/ UNCHANGED image
     \/ pc[c] = "dRemove" /\ image' = [image EXCEPT ![Slug(c)] = NoImage]
  /\ Goto(c, "dRowFailed")
  /\ UNCHANGED <<row, born, lock, job, loc, begun, net, data, marker, route,
                 wplan>>

DeleteRow(c) ==
  /\ pc[c] \in {"dRow", "dRowFailed"}
  /\ \/ row' = [row EXCEPT ![Id(c)] = NoRow]
     \/ "store" \in Faults /\ UNCHANGED row
  /\ Release(c)
  /\ UNCHANGED <<born, begun, world>>

-----------------------------------------------------------------------------
(* toggleLAN.  The copy keeps the previous value: WantLan(c) is the copy   *)
(* with the flag flipped.                                                  *)

(* apply-lan-state saves the row, then regenerates wp-config.              *)
LanSavesRow(c) ==
  /\ pc[c] = "lanRow"
  /\ row' = Saved(c, WantLan(c))
  /\ Goto(c, "lanConf")
  /\ UNCHANGED <<born, lock, job, loc, begun, world>>

LanWritesConfig(c) ==
  /\ pc[c] = "lanConf"
  /\ row' = WithSalts(c, WantLan(c))
  /\ loc' = [loc EXCEPT ![c] = Salted(loc[c])]
  /\ wplan' = ConfigFor(c, job[c].on)
  /\ Goto(c, "lanRoute")
  /\ UNCHANGED <<born, lock, job, begun, docker, route>>

(* The step reverts what it did itself, as well as it can.                 *)
LanConfigFails(c) ==
  /\ pc[c] = "lanConf" /\ "plan" \in Faults
  /\ \/ \E r \in {loc[c], Salted(loc[c])} : row' = Saved(c, r)
     \/ "store" \in Faults /\ row' \in {row, WithSalts(c, WantLan(c))}
  /\ wplan' = ConfigFor(c, loc[c].lan) \/ UNCHANGED wplan
  /\ Release(c)
  /\ UNCHANGED <<born, begun, docker, route>>

LanRegistersRoute(c) ==
  /\ pc[c] = "lanRoute"
  /\ \E t \in RoutesFor(WantLan(c)) : route' = [route EXCEPT ![Slug(c)] = t]
  /\ Goto(c, "lanDone")
  /\ UNCHANGED <<row, born, lock, job, loc, begun, docker, wplan>>

LanRouteFails(c) ==
  /\ pc[c] = "lanRoute" /\ "plan" \in Faults
  /\ \/ UNCHANGED route
     \/ \E t \in RoutesFor(WantLan(c)) :
          route' = [route EXCEPT ![Slug(c)] = t]
  /\ Goto(c, "lanUndoState")
  /\ UNCHANGED <<row, born, lock, job, loc, begun, docker, wplan>>

LanCommits(c) ==
  /\ pc[c] = "lanDone"
  /\ \/ Goto(c, "post")
     \/ "plan" \in Faults /\ Goto(c, "lanUndoRoute")
  /\ UNCHANGED <<row, born, lock, job, loc, begun, world>>

(* Rollback runs in reverse: this Undo computes the route while the copy   *)
(* still has the new value.                                                *)
LanUndoesRoute(c) ==
  /\ pc[c] = "lanUndoRoute"
  /\ \E t \in RoutesFor(WantLan(c)) : route' = [route EXCEPT ![Slug(c)] = t]
  /\ Goto(c, "lanUndoState")
  /\ UNCHANGED <<row, born, lock, job, loc, begun, docker, wplan>>

LanUndoesState(c) ==
  /\ pc[c] = "lanUndoState"
  /\ \/ /\ row' = Saved(c, loc[c])
        /\ \/ wplan' = ConfigFor(c, loc[c].lan)
           \/ "undo" \in Faults /\ UNCHANGED wplan
     \/ "store" \in Faults /\ UNCHANGED <<row, wplan>>
  /\ Release(c)
  /\ UNCHANGED <<born, begun, docker, route>>

-----------------------------------------------------------------------------
(* UpdateSiteVersionsWithEngine, SetSPXEnabled, SetPublishDBPort.          *)

(* PHP or Redis may change while the database stays as it is.              *)
VersionsCheck(c) ==
  /\ pc[c] = "vCheck"
  /\ <<loc[c].ver, job[c].ver>> \in Compat
  /\ Goto(c, "vRemove")
  /\ UNCHANGED <<row, born, lock, job, loc, begun, world>>

VersionsRefused(c) ==
  /\ pc[c] = "vCheck"
  /\ job[c].ver = loc[c].ver \/ <<loc[c].ver, job[c].ver>> \notin Compat
  /\ Release(c)
  /\ UNCHANGED <<row, born, begun, world>>

(* A container that cannot be removed is logged and left.                  *)
VersionsRemovesContainers(c) ==
  /\ pc[c] = "vRemove"
  /\ \/ /\ ctr' = [ctr EXCEPT ![Slug(c)] = "absent"]
        /\ image' = [image EXCEPT ![Slug(c)] = NoImage]
     \/ /\ "plan" \in Faults
        /\ ctr' = [ctr EXCEPT ![Slug(c)] =
                     IF @ = "running" THEN "partial" ELSE @]
        /\ \/ UNCHANGED image
           \/ image' = [image EXCEPT ![Slug(c)] = NoImage]
  /\ Goto(c, "vSave")
  /\ UNCHANGED <<row, born, lock, job, loc, begun, net, data, marker, route,
                 wplan>>

SaveVersions(c) ==
  /\ pc[c] = "vSave"
  /\ row' = Saved(c, [loc[c] EXCEPT !.ver = job[c].ver])
  /\ Goto(c, "post")
  /\ UNCHANGED <<born, lock, job, loc, begun, world>>

(* Started is looked at under the mutex, in the copy made before it.       *)
SetSPXEnabled(c) ==
  /\ pc[c] = "spx"
  /\ IF loc[c].started
     THEN UNCHANGED row
     ELSE \/ row' = Saved(c, [loc[c] EXCEPT !.opt = job[c].on])
          \/ "store" \in Faults /\ UNCHANGED row
  /\ Release(c)
  /\ UNCHANGED <<born, begun, world>>

SetPublishDBPort(c) ==
  /\ pc[c] = "pub"
  /\ \/ row' = Saved(c, [loc[c] EXCEPT !.opt = job[c].on])
     \/ "store" \in Faults /\ UNCHANGED row
  /\ Return(c)
  /\ UNCHANGED <<born, lock, begun, world>>

-----------------------------------------------------------------------------
(* The process dies and the next one starts: Initialize removes every      *)
(* labelled container and network and the router's stale site files, and   *)
(* ReconcileState marks every row stopped.  Volumes and files stay.        *)
Restart ==
  /\ "crash" \in Faults
  /\ row' = [i \in Ids |-> IF row[i] = NoRow THEN NoRow
                           ELSE [row[i] EXCEPT !.started = FALSE]]
  /\ lock' = [i \in Ids |-> Free]
  /\ pc' = [c \in Clients |-> "idle"]
  /\ job' = [c \in Clients |-> NoJob]
  /\ loc' = [c \in Clients |-> NoRow]
  /\ ctr' = [s \in Slugs |-> "absent"]
  /\ image' = [s \in Slugs |-> NoImage]
  /\ net' = [s \in Slugs |-> FALSE]
  /\ route' = [s \in Slugs |-> "none"]
  /\ UNCHANGED <<born, begun, data, marker, wplan>>

StartStep(c) ==
  \/ EnsureNetwork(c) \/ CheckMarker(c) \/ CreateContainers(c)
  \/ StartFailsEarly(c) \/ CreateFails(c) \/ WaitReady(c) \/ WriteMarker(c)
  \/ StartUnwinds(c) \/ StartCommits(c) \/ SaveStarted(c)

StopStep(c) ==
  \/ StopContainers(c) \/ StopRemovesRoute(c) \/ StopFails(c)
  \/ SaveStopped(c)

DeleteStep(c) ==
  \/ DeleteStops(c) \/ DeleteRemoves(c) \/ DeleteRemovesRoute(c)
  \/ DeleteRemovesNetwork(c) \/ DeletePurges(c) \/ DeletePlanFails(c)
  \/ DeleteRow(c)

LanStep(c) ==
  \/ LanSavesRow(c) \/ LanWritesConfig(c) \/ LanConfigFails(c)
  \/ LanRegistersRoute(c) \/ LanRouteFails(c) \/ LanCommits(c)
  \/ LanUndoesRoute(c) \/ LanUndoesState(c)

SettingsStep(c) ==
  \/ VersionsCheck(c) \/ VersionsRefused(c) \/ VersionsRemovesContainers(c)
  \/ SaveVersions(c) \/ SetSPXEnabled(c) \/ SetPublishDBPort(c)

SharedStep(c) ==
  \/ Prepare(c) \/ PrepareFails(c) \/ RegisterRoute(c) \/ RefreshFails(c)
  \/ Refused(c) \/ Finish(c) \/ SaveFails(c)

(* What a request does between taking its mutex and returning.             *)
Work(c) ==
  \/ SharedStep(c) \/ StartStep(c) \/ StopStep(c) \/ DeleteStep(c)
  \/ LanStep(c) \/ SettingsStep(c)

Next ==
  \/ Restart
  \/ \E i \in Ids : AddSite(i)
  \/ \E c \in Clients : Begin(c) \/ Acquire(c) \/ Work(c)

Spec == Init /\ [][Next]_vars

(* A request that holds its mutex runs on; the Go mutex hands over to the  *)
(* longest waiter once it has starved for a millisecond.                   *)
FairSpec ==
  Spec /\ \A c \in Clients : WF_vars(Work(c)) /\ SF_vars(Acquire(c))

-----------------------------------------------------------------------------
(* Properties.                                                             *)

(* Every variable keeps its type.                                          *)
TypeOK ==
  /\ row \in [Ids -> Row \union {NoRow}]
  /\ born \subseteq Ids
  /\ lock \in [Ids -> Clients \union {Free}]
  /\ pc \in [Clients -> Pc]
  /\ job \in [Clients -> Job \union {NoJob}]
  /\ loc \in [Clients -> Row \union {NoRow}]
  /\ begun \in Nat
  /\ ctr \in [Slugs -> Ctr]
  /\ image \in [Slugs -> Images \union {NoImage}]
  /\ net \in [Slugs -> BOOLEAN]
  /\ route \in [Slugs -> Route]
  /\ data \in [Slugs -> Images \union {NoImage}]
  /\ marker \in [Slugs -> Images \union {NoImage}]
  /\ wplan \in [Ids -> BOOLEAN]

(* A start that could not read its marker is about to boot the database.   *)
V == INSTANCE VolumeGuard
       WITH unread <- {Slug(c) : c \in {d \in Clients : pc[d] = "blind"}}

(* The volume marker does its work: whatever starts, stops, deletions,     *)
(* version changes, name reuse and crashes happen, a database container is *)
(* made over a volume with a marker its image cannot read only by a start  *)
(* whose own read of it failed; a marker is written only by the image that *)
(* is on the volume and wrote its data last, and goes only together with   *)
(* the data (EnsureMarkerStep, WriteMarkerStep, PurgeVolumeStep).          *)
GuardsVolume == V!Spec

(* When StartSite reports success, the site it read is up: containers of   *)
(* its database image, its network, a route that leaves out no more than   *)
(* the LAN host, and a wp-config with the whitelist unless the user has    *)
(* taken the file over, whatever the other clients were doing meanwhile.   *)
StartDelivers ==
  \A c \in Clients :
    pc[c] = "post" /\ job[c].kind = "start" =>
      /\ ctr[Slug(c)] = "running" /\ image[Slug(c)] = loc[c].ver
      /\ net[Slug(c)]
      /\ route[Slug(c)] \in RoutesFor(loc[c])
      /\ Id(c) \notin UserOwned =>
           wplan[Id(c)] = (loc[c].lan /\ Id(c) \notin Unlisted)

(* A delete plan that failed nowhere leaves nothing of the site but, unless*)
(* it was to be purged, its volume; the row goes last.                     *)
DeleteDelivers ==
  \A c \in Clients :
    pc[c] = "dRow" =>
      /\ ctr[Slug(c)] = "absent" /\ image[Slug(c)] = NoImage
      /\ ~net[Slug(c)]
      /\ route[Slug(c)] = "none"
      /\ job[c].on => data[Slug(c)] = NoImage /\ marker[Slug(c)] = NoImage

(* A site whose containers run is one the table calls started.             *)
RunningIsRecorded ==
  \A i \in Ids :
    row[i] # NoRow /\ lock[i] = Free /\ ctr[SlugOf[i]] = "running" =>
      row[i].started

(* Every call that waits for a site's mutex returns.                       *)
RequestsReturn ==
  \A c \in Clients : pc[c] = "queued" ~> pc[c] = "idle"

(* sites.go:70-71: "siteLocks serialises lifecycle calls per site": when no*)
(* call is running on a site that is gone, neither are its containers.     *)
GoneIsDown ==
  \A i \in Ids :
    row[i] = NoRow /\ lock[i] = Free => ctr[SlugOf[i]] = "absent"

=============
