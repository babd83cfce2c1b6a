------------------------------- MODULE Engine -------------------------------
(* The Docker engine wrapper (internal/docker) under the bring-up that uses *)
(* it most: one start of a site brings its network up, pulls its images and *)
(* ensures, starts and awaits its containers, one goroutine a role, while   *)
(* the daemon restarts, containers die, a reset wipes every labelled object *)
(* and a create of a process that crashed takes effect late. Each action is *)
(* one call to the daemon.                                                  *)
EXTENDS FiniteSets, Naturals

CONSTANTS
  Roles,        \* the containers of the site, among DOMAIN Specs below
  Wishes,       \* fields of the site's row that may change
  MaxWishes,    \* bound on their changes
  Daemons,      \* bound on the daemon's restarts
  EngineFaults  \* subset of {"exit", "wipe", "crash", "snapshotter", "start"}

ASSUME EngineAssumption == Roles # {} /\ MaxWishes \in Nat /\ Daemons \in Nat

VARIABLES
  row,       \* the site's row, a counter per field
  up,        \* the daemon answers
  restarts,
  net,       \* the site's network exists
  ctr,       \* each role's container, NoCtr for none
  pulled,    \* roles whose image is present
  late,      \* creates of a crashed process the daemon has yet to carry out
  wipe,      \* the reset: "-" or "ctrs"
  doomed,    \* containers it has listed and will remove by ID
  stage,     \* the start: "idle", "net", "pull", "create", "wait", "undo", "up" or "failed"
  undo,      \* steps to roll back: subset of {"net", "ctrs"}
  pc,        \* each role's goroutine in the phase
  try,       \* its attempt in withRetry; try["net"] for the network
  spoiled    \* ghost: since the start began someone else has changed its containers or stopped the daemon

engineVars == <<row, up, restarts, net, ctr, pulled, late, wipe, doomed, stage, undo, pc, try, spoiled>>
dockerVars == <<up, restarts, net, ctr, pulled, late>>
wipeVars == <<wipe, doomed>>
startVars == <<stage, undo, pc, try, spoiled>>

(* What each builder puts into the hash and what it joins: the fields of    *)
(* the row its spec depends on. The password is an EnvSecret, whose value   *)
(* the hash leaves out.                                                     *)
WebSpec == {"webServer"}
PHPSpec == {"phpVersion", "domain", "spx"}
RedisSpec == {"redisVersion"}
DatabaseSpec == {"dbEngine", "publish"}
Specs == [web |-> WebSpec, php |-> PHPSpec, redis |-> RedisSpec, database |-> DatabaseSpec]

(* Mutation of ConfigHash: the hash covers settings the role does not use. *)
MutantHash(r) == row

ConfigHash(r) == [f \in Specs[r] \cap Wishes |-> row[f]]
Built(r) == [hash |-> ConfigHash(r), st |-> "created"]      \* the hash is stamped on its labels

NoCtr == [hash |-> <<>>, st |-> "none"]
States == {"created", "starting", "healthy", "exited"}      \* a failing probe counts as an exit
Running == {"starting", "healthy"}
Ended == {"ok", "err"}

EngineTypeOK ==
  /\ row \in [Wishes -> 0..MaxWishes] /\ up \in BOOLEAN /\ restarts \in 0..Daemons /\ net \in BOOLEAN
  /\ \A r \in Roles : ctr[r] = NoCtr \/ ctr[r].st \in States
  /\ pulled \subseteq Roles /\ (\A l \in late : l.r \in Roles) /\ doomed \subseteq Roles
  /\ wipe \in {"-", "ctrs"}
  /\ stage \in {"idle", "net", "pull", "create", "wait", "undo", "up", "failed"} /\ undo \subseteq {"net", "ctrs"}
  /\ pc \in [Roles -> {"idle", "pull", "inspect", "drift", "make", "clash", "start", "poll", "undo"} \cup Ended]
  /\ try \in [Roles \cup {"net"} -> 1..5] /\ spoiled \in BOOLEAN

EngineInit ==
  /\ row = [f \in Wishes |-> 0] /\ up = TRUE /\ restarts = 0
  /\ net = FALSE /\ ctr = [r \in Roles |-> NoCtr] /\ pulled = {} /\ late = {}
  /\ wipe = "-" /\ doomed = {}
  /\ stage = "idle" /\ undo = {} /\ pc = [r \in Roles |-> "idle"] /\ try = [r \in Roles \cup {"net"} |-> 1] /\ spoiled = FALSE

-----------------------------------------------------------------------------
(* Docker and everyone else. *)
Remove(r) == ctr' = [ctr EXCEPT ![r] = NoCtr]
Spoil == spoiled' = TRUE /\ UNCHANGED <<stage, undo, pc, try>>

DaemonStops ==      \* RestartNo: what ran has exited when the daemon is back
  /\ up /\ restarts < Daemons /\ up' = FALSE /\ restarts' = restarts + 1
  /\ ctr' = [r \in Roles |-> IF ctr[r].st \in Running THEN [ctr[r] EXCEPT !.st = "exited"] ELSE ctr[r]]
  /\ Spoil /\ UNCHANGED <<row, net, pulled, late, wipeVars>>
DaemonStarts ==
  /\ ~up /\ up' = TRUE
  /\ UNCHANGED <<row, restarts, net, ctr, pulled, late, wipeVars, startVars>>

Probe(r) ==      \* the health check's verdict, or the process's end
  /\ up /\ ctr[r].st \in Running
  /\ \/ ctr[r].st # "healthy" /\ ctr' = [ctr EXCEPT ![r].st = "healthy"] /\ UNCHANGED startVars
     \/ "exit" \in EngineFaults /\ ctr' = [ctr EXCEPT ![r].st = "exited"] /\ Spoil
  /\ UNCHANGED <<row, up, restarts, net, pulled, late, wipeVars>>

ChangeWish(f) ==      \* the row changes only while nobody holds the site's mutex
  /\ stage \in {"idle", "up", "failed"} /\ row[f] < MaxWishes
  /\ row' = [row EXCEPT ![f] = @ + 1]
  /\ UNCHANGED <<dockerVars, wipeVars, startVars>>

Crash ==
  /\ "crash" \in EngineFaults /\ stage \notin {"idle", "up", "failed"}
  /\ late' = {[r |-> r, c |-> Built(r)] : r \in {x \in Roles : pc[x] = "make"}}
  /\ stage' = "idle" /\ pc' = [r \in Roles |-> "idle"] /\ undo' = {} /\ spoiled' = FALSE
  /\ UNCHANGED <<row, up, restarts, net, ctr, pulled, wipeVars, try>>
Land ==      \* the create of a process that is gone
  /\ up
  /\ \E l \in late :
       /\ late' = late \ {l}
       /\ ctr' = IF ctr[l.r] = NoCtr THEN [ctr EXCEPT ![l.r] = l.c] ELSE ctr
  /\ Spoil /\ UNCHANGED <<row, up, restarts, net, pulled, wipeVars>>

(* WipeLabelled: list, then remove each by ID, then the networks; one with  *)
(* running containers cannot be removed and ends the reset.                 *)
BeginWipe ==
  /\ "wipe" \in EngineFaults /\ wipe = "-" /\ up
  /\ wipe' = "ctrs" /\ doomed' = {r \in Roles : ctr[r] # NoCtr}
  /\ UNCHANGED <<row, dockerVars, startVars>>
WipeOne(r) ==
  /\ wipe = "ctrs" /\ r \in doomed
  /\ IF up THEN Remove(r) /\ doomed' = doomed \ {r} /\ UNCHANGED wipe
     ELSE wipe' = "-" /\ doomed' = {} /\ UNCHANGED ctr
  /\ Spoil /\ UNCHANGED <<row, up, restarts, net, pulled, late>>
WipeNets ==
  /\ wipe = "ctrs" /\ doomed = {} /\ wipe' = "-"
  /\ net' = (net /\ (~up \/ \E r \in Roles : ctr[r].st \in Running))
  /\ Spoil /\ UNCHANGED <<row, up, restarts, ctr, pulled, late, doomed>>

-----------------------------------------------------------------------------
(* Mutation of Last: the attempts have no end.                             *)
MutantLast(class) == 6

(* withRetry: the classes, their last attempts and what each does between.  *)
Last(class) == CASE class = "daemon" -> 5 [] class = "snapshotter" -> 3 [] OTHER -> 2
GoTo(r, p) == pc' = [pc EXCEPT ![r] = p] /\ try' = [try EXCEPT ![r] = 1]
Again(r, class, p) ==
  IF try[r] >= Last(class) THEN GoTo(r, "err")
  ELSE pc' = [pc EXCEPT ![r] = p] /\ try' = [try EXCEPT ![r] = IF @ < 5 THEN @ + 1 ELSE @]

(* The daemon is away: from a step's call to look first, which is not tried *)
(* again, or, gone since, from the call itself.                             *)
Away(r, p) == Again(r, "daemon", p) \/ (try[r] = 1 /\ GoTo(r, "err"))

(* errgroup: the first error cancels the context of the others. *)
Cancelled == \E r \in Roles : pc[r] = "err"
GiveUp(r) ==
  /\ stage \in {"pull", "create", "wait"} /\ pc[r] \notin Ended /\ Cancelled
  /\ GoTo(r, "err")
  /\ UNCHANGED <<row, dockerVars, wipeVars, stage, undo, spoiled>>

Pull(r) ==
  /\ stage = "pull" /\ pc[r] = "pull"
  /\ IF ~up THEN Away(r, "pull") /\ UNCHANGED pulled
     ELSE \/ pulled' = pulled \cup {r} /\ GoTo(r, "ok")
          \/ "snapshotter" \in EngineFaults /\ r \notin pulled /\ Again(r, "snapshotter", "pull") /\ UNCHANGED pulled
  /\ UNCHANGED <<row, up, restarts, net, ctr, late, wipeVars, stage, undo, spoiled>>

(* EnsureContainer. *)
Inspect(r) ==
  /\ stage = "create" /\ pc[r] = "inspect"
  /\ GoTo(r, IF ~up THEN "err" ELSE IF ctr[r] = NoCtr THEN "make"
             ELSE IF ctr[r].hash = ConfigHash(r) THEN "start" ELSE "drift")
  /\ UNCHANGED <<row, dockerVars, wipeVars, stage, undo, spoiled>>
Drift(r) ==
  /\ stage = "create" /\ pc[r] = "drift"
  /\ IF up THEN Remove(r) /\ GoTo(r, "make") ELSE GoTo(r, "err") /\ UNCHANGED ctr
  /\ doomed' = IF up THEN doomed \ {r} ELSE doomed
  /\ UNCHANGED <<row, up, restarts, net, pulled, late, wipe, stage, undo, spoiled>>
Make(r) ==
  /\ stage = "create" /\ pc[r] = "make"
  /\ IF ~up THEN Again(r, "daemon", "make") /\ UNCHANGED ctr
     ELSE IF ctr[r] # NoCtr THEN pc' = [pc EXCEPT ![r] = "clash"] /\ UNCHANGED <<ctr, try>>
     ELSE ctr' = [ctr EXCEPT ![r] = Built(r)] /\ GoTo(r, "start")
  /\ UNCHANGED <<row, up, restarts, net, pulled, late, wipeVars, stage, undo, spoiled>>
Clash(r) ==      \* the recovery: whatever holds the name goes, then one more attempt
  /\ stage = "create" /\ pc[r] = "clash"
  /\ IF up THEN Remove(r) /\ doomed' = doomed \ {r} ELSE UNCHANGED <<ctr, doomed>>
  /\ Again(r, "name", "make")
  /\ UNCHANGED <<row, up, restarts, net, pulled, late, wipe, stage, undo, spoiled>>

(* StartContainer, which needs the network it was created on. *)
Start(r) ==
  /\ stage = "create" /\ pc[r] = "start"
  /\ IF ~up THEN Away(r, "start") /\ UNCHANGED ctr
     ELSE IF ctr[r] = NoCtr THEN GoTo(r, "err") /\ UNCHANGED ctr
     ELSE IF ctr[r].st \in Running THEN GoTo(r, "ok") /\ UNCHANGED ctr
     ELSE \/ net /\ GoTo(r, "ok") /\ ctr' = [ctr EXCEPT ![r].st = "starting"]
          \/ (~net \/ "start" \in EngineFaults) /\ GoTo(r, "err") /\ UNCHANGED ctr
  /\ UNCHANGED <<row, up, restarts, net, pulled, late, wipeVars, stage, undo, spoiled>>

(* WaitReady: every service of a site has a health check; while it is       *)
(* starting the wait goes on until its deadline.                            *)
Poll(r) ==
  /\ stage = "wait" /\ pc[r] = "poll"
  /\ GoTo(r, IF up /\ ctr[r].st = "healthy" THEN "ok" ELSE "err")
  /\ UNCHANGED <<row, dockerVars, wipeVars, stage, undo, spoiled>>

-----------------------------------------------------------------------------
(* The start's phases. *)
Enter(p, at) == stage' = p /\ pc' = [r \in Roles |-> at] /\ try' = [x \in Roles \cup {"net"} |-> 1]

BeginStart ==
  /\ stage \in {"idle", "up", "failed"} /\ Enter("net", "idle") /\ undo' = {} /\ spoiled' = FALSE
  /\ UNCHANGED <<row, dockerVars, wipeVars>>

EnsureNetwork ==
  /\ stage = "net"
  /\ IF up THEN net' = TRUE /\ undo' = {"net"} /\ Enter("pull", "pull")
     ELSE /\ \/ try["net"] < Last("daemon") /\ try' = [try EXCEPT !["net"] = @ + 1] /\ UNCHANGED <<stage, pc>>
             \/ try["net"] \in {1, Last("daemon")} /\ Enter("failed", "idle")
          /\ UNCHANGED <<net, undo>>
  /\ UNCHANGED <<row, up, restarts, ctr, pulled, late, wipeVars, spoiled>>

(* Mutation of AllEnded: the plan goes on with the first role that is      *)
(* done.                                                                   *)
MutantAllEnded == \E r \in Roles : pc[r] \in Ended

AllEnded == \A r \in Roles : pc[r] \in Ended      \* g.Wait
NextPhase ==
  /\ stage \in {"pull", "create", "wait"} /\ AllEnded
  /\ IF Cancelled THEN Enter("undo", IF "ctrs" \in undo THEN "undo" ELSE "idle") /\ UNCHANGED undo
     ELSE CASE stage = "pull" -> Enter("create", "inspect") /\ UNCHANGED undo
            [] stage = "create" -> Enter("wait", "poll") /\ undo' = undo \cup {"ctrs"}
            [] stage = "wait" -> Enter("up", "idle") /\ undo' = {}
  /\ UNCHANGED <<row, dockerVars, wipeVars, spoiled>>

(* The steps that had succeeded are undone: CreateContainersStep.Rollback   *)
(* removes every role's container and only logs what fails, then            *)
(* EnsureNetworkStep.Rollback removes the network if nothing runs on it.    *)
Undo(r) ==
  /\ stage = "undo" /\ pc[r] = "undo" /\ pc' = [pc EXCEPT ![r] = "idle"]
  /\ IF up THEN Remove(r) /\ doomed' = doomed \ {r} ELSE UNCHANGED <<ctr, doomed>>
  /\ UNCHANGED <<row, up, restarts, net, pulled, late, wipe, stage, undo, try, spoiled>>
UndoNetwork ==
  /\ stage = "undo" /\ \A r \in Roles : pc[r] = "idle"
  /\ stage' = "failed" /\ undo' = {}
  /\ net' = (net /\ (~up \/ \E r \in Roles : ctr[r].st \in Running))
  /\ UNCHANGED <<row, up, restarts, ctr, pulled, late, wipeVars, pc, try, spoiled>>

RoleSteps(r) ==
  GiveUp(r) \/ Pull(r) \/ Inspect(r) \/ Drift(r) \/ Make(r) \/ Clash(r) \/ Start(r) \/ Poll(r) \/ Undo(r)

EngineNext ==
  \/ DaemonStops \/ DaemonStarts \/ Land \/ Crash \/ BeginWipe \/ WipeNets
  \/ \E r \in Roles : Probe(r) \/ WipeOne(r) \/ RoleSteps(r)
  \/ \E f \in Wishes : ChangeWish(f)
  \/ BeginStart \/ EnsureNetwork \/ NextPhase \/ UndoNetwork
EngineFair ==
  /\ \A r \in Roles : WF_engineVars(RoleSteps(r))
  /\ WF_engineVars(EnsureNetwork) /\ WF_engineVars(NextPhase) /\ WF_engineVars(UndoNetwork)
EngineSpec == EngineInit /\ [][EngineNext]_engineVars /\ EngineFair

-----------------------------------------------------------------------------
(* specs.go:171-184: only a change of what its spec depends on replaces a   *)
(* container: one whose hash still fits is kept by every start that goes     *)
(* through undisturbed, over crashes, upgrades and a new password.          *)
FittingContainersStay ==
  [][\A r \in Roles :
       ctr[r] # NoCtr /\ (\A f \in Specs[r] \cap Wishes : ctr[r].hash[f] = row[f]) /\ pc[r] = "drift" /\ ~spoiled
         => ctr'[r] # NoCtr]_engineVars

(* Whatever failed starts, crashes and resets have left behind, a start that *)
(* goes through undisturbed leaves every container running, healthy, on its  *)
(* network and in the shape of its row (engine_container.go:21-24).         *)
StartedAsAsked ==
  [][stage = "wait" /\ stage' = "up" /\ ~spoiled =>
       net /\ \A r \in Roles : ctr[r].st = "healthy" /\ \A f \in Specs[r] \cap Wishes : ctr[r].hash[f] = row[f]]_engineVars

(* sites.go:538-541: a start is "rolled back on failure": one that failed,  *)
(* undisturbed but for the error, has left none of its containers running.  *)
FailedStartLeavesNothing ==
  stage = "failed" /\ ~spoiled => \A r \in Roles : ctr[r].st \notin Running

(* retry.go:29-33: retries are bounded, so that every start comes to an end  *)
(* however often the daemon goes away and even when it never comes back.    *)
StartsEnd == [](stage = "net" => <>(stage \in {"idle", "up", "failed"}))
=============================================================================
