# Locorum in TLA+

Locorum is a Go desktop application that runs local WordPress sites in Docker. The same
binary is a GUI, a headless daemon (`locorum daemon`), a command line and an MCP server; one process
owns the machine's Docker resources, the others talk to it over a Unix socket. This directory
models the parts of it in which several actors, failures and crashes meet, checks the models with
TLC on small instances, and proves their main properties with TLAPS for every instance.

Contents: [system](#the-system) · [modules](#modules) · [correspondence](#how-the-modules-correspond-to-the-code)
· [runs](#runs) · [fairness and environment](#fairness-and-environment) · [proofs](#proofs)
· [divergences](#where-code-and-comments-differ) · [not modelled](#not-modelled) · [plan](#plan)

Checking: `tlc -config Rpc.cfg MCRpc` (each run's module is in the table below), `tlapm RpcProofs.tla`. The
longest runs (`Live`, `Sites`, `Gui`) visit up to three million states and take one to three minutes on two cores.
`PROJECT.json` has the full index: components, runs, mutations, the source lines of every
definition, hazards and theorems.

## The system

| Component (`internal/` unless said) | State it keeps | Operations | What makes it hard | What makes it correct |
|---|---|---|---|---|
| Plan runner, `orch/plan.go` | `Result`: status of each step, `FinalError`, `RolledBack` | `Run`, `rollbackPrior` | a step fails half-way, a rollback fails, the context ends between two steps, the plan is run again | all or nothing; whatever is left behind is reported |
| Site lifecycle, `sites/sites.go` | `siteLocks`; rows in SQLite; containers, network, volume and route of each slug; wp-config | start, stop, delete, LAN toggle and refresh, versions, settings, restart of the process | a row is read before the mutex is taken; four services that can each fail; leftovers of earlier runs; a crash anywhere | a successful start or delete delivers what it says; what runs is recorded; every request returns |
| Lifecycle steps, `sites/sitesteps` | volume marker | `EnsureMarkerStep`, `WriteMarkerStep`, container, network and route steps with rollbacks | the marker is written long after the data | an image the marker forbids is not put on the volume |
| Snapshots, engine migration, import, export, `sites/snapshot.go`, `migrate.go`, `import.go` | dump files with checksums, volume, row | snapshot, restore, delete, sweep, the phases of `MigrateEngine`, import with filters | checks made before the mutex, phases that release it, a failure after the old volume is gone | what a restore, import or migration destroyed is still in a snapshot; a migration that returns has moved the tables |
| Worktrees and clones, `sites/worktree.go`, `git` | parent and child rows, git worktrees | create, delete with cascade, clone | two sites' mutexes at once; the user edits the checkout meanwhile | no deadlock; uncommitted work is not lost |
| Ownership, `daemon/lock.go`, `daemon_setup.go`, `main.go`, `app` | `owner.lock`, `owner.lock.info`, the socket path, labelled containers | `Acquire`, `Release`, `Listen`, `Initialize`, `Shutdown` | takeover of a stale lock, unlink against open, crashes, a GUI beside a daemon | one owner, unless a lock operation hits another's files; it can be found |
| IPC client, `daemon/client.go` | `pending` map, `closed`, one response channel per Call | `EnsureDaemon`, `Call`, `readLoop`, `shutdown`, `Close` | Calls of many goroutines on one connection, contexts that end, `Close` against `readLoop` | what a Call returns is true of its own request, and nothing stays registered |
| IPC server, `daemon/server.go` | connections, `shutdownCh` | `Serve`, `handleConn`, `dispatch`, `Shutdown` | shutdown with requests in the socket, a peer that is gone | one request at a time, at most one after shutdown |
| Router and TLS, `router/traefik`, `tls` | one file per route, a map, certificates, the container | boot with its sweep, `UpsertSite`, `RemoveSite`, `UpsertService`, `EnsureCert` | a crash between certificate, file and map; operations beside a boot | a file's certificate is there; no route of an earlier process survives the sweep |
| Docker wrapper, `docker` | containers with a spec hash, networks, images | `EnsureContainer`, pulls, readiness, retries, `WipeLabelled`, log streams | the daemon restarts, containers die, a late create, a reset beside a start | idempotent by spec hash; what is reported up is up; every start ends |
| Hooks, `hooks`, `storage/hooks.go`, `ui/hookspanel.go` | hook rows with positions, the runs | CRUD and moves from the panel, `Runner.Run`, `RunOne` | a run beside edits, cancellation, three failure modes | the counts a run reports add up |
| Generated files, `assets`, `genmark` | bundled files with a hash table, marked files | `Reconcile`, `WriteIfManaged` | the user edits the same files; the table is lost | his edits are kept |
| Health, `health` | snapshot, budgets, breaker, inflight flags | batches of the ticker and of Re-check, remediations, close | overlapping batches publish in any order | nothing says "running" for ever; one remediation at a time |
| Activity and audit, `sites/activity.go`, `storage/activity.go` | table with retention, `lifecycle.log`, two GUI caches | `recordActivity`, loads, callback | loads cross recordings | a cache is the head of the table |
| GUI, `ui`, `main.go` | site list, banners, toasts with their seen set, describe cache, pairing card, log viewer | buttons, callbacks and the goroutines they start | every click is a goroutine that outlives its frame | what is shown is what is, once all is calm and but for the ways the code does leave it behind |
| CLI, MCP, configuration, updates, platform | see `PROJECT.json` | | mostly rendering, parsing and I/O | |

Interactions. GUI goroutines and the server's connections call the site manager; each method builds a
plan and hands it to the plan runner, whose steps call Docker, the router and the engine's marker; the
method writes the row when the plan has succeeded, tells the GUI by a callback and records an activity row. Which
process may do so is settled by the owner lock before the server listens. CLI and MCP reach the owner by
`EnsureDaemon`, then `Call`; the MCP server's HTTP handlers are concurrent Calls on one client.

## Modules

| Module | Role |
|---|---|
| `OrchPlan`, `OrchPlanProofs` | the plan runner, with cancellation, failing steps and rollbacks, and repeated runs; theorems |
| `Saga` | what the plan runner promises: a transaction undone strictly in reverse; `OrchPlan` implements it |
| `SiteLifecycle` | the lifecycle methods of the site manager over rows, containers, network, volume, route and wp-config |
| `VolumeGuard` | what the volume marker promises; `SiteLifecycle` implements it |
| `SiteLifecycleProofs`, `SiteDeliveryProofs`, `MCSiteLifecycle` | theorems, those on what a start and a delete deliver and on the row against what runs apart; values for TLC |
| `Ownership`, `OwnershipProofs`, `MCOwnership` | owner lock, socket, GUI and daemon processes, CLIs; theorems; values for TLC |
| `Rpc`, `RpcProofs`, `MCRpc` | one IPC connection: concurrent Calls, `readLoop`, `shutdown`, `handleConn`; theorems; values for TLC |
| `RemoteCall` | what a caller may conclude from what Call returns; `Rpc` implements it |
| `Engine` | the Docker wrapper under the start of one site |
| `LogStream` | log viewer, `StreamLogs` and the two pumps of a stream |
| `MCLive`, `LiveProofs` | composes `OrchPlan`, `Engine` and `LogStream`: what must come to an end; theorems of `Engine` and `LogStream` |
| `SiteData`, `DbEngine` | one site's database and all that copies or overwrites it; the two engines' version rules and filters |
| `SafeTables` | what snapshots, restores, imports and migrations promise of a site's tables and their copies; `SiteData` implements it |
| `SiteTree` | worktree sites, clones, cascading delete |
| `Hooks` | hook table, runner, panel |
| `Traefik` | routes, certificates, router container, boot |
| `ManagedFiles` | bundled assets and marked files |
| `MCSites`, `SitesProofs` | composes the five modules before it; theorems of `SiteTree`, `Traefik`, `SiteData`, `ManagedFiles` and `Hooks` |
| `GuiSites`, `Banners`, `Toasts`, `ActivityFeed`, `DescribeCache`, `CaPairing` | the site list and its buttons; error and notice banners; toasts; activity caches; description cache; pairing card |
| `Health` | the health runner, its checks, breaker and executor |
| `MCGui`, `GuiProofs` | composes the seven modules before it; theorems of each of them |

The abstract modules (`Saga`, `VolumeGuard`, `RemoteCall`, `SafeTables`) say nothing of mutexes, rollbacks, channels
or Docker. Each is instantiated in the detailed module with a refinement mapping, checked as a PROPERTY
and proved.

`MCSites`, `MCLive` and `MCGui` put modules side by side that share no variable. Their product would add only
interleavings of steps that cannot see one another, and multiply the states; so a variable
`component`, chosen in the initial state, says which part runs, and the state space is the sum of the parts. What one part needs
of another is in its own module as what the other may do to it: a lifecycle plan appears in `SiteLifecycle` as the
steps of that plan with their rollbacks (what `OrchPlan` says of any plan), in `Engine` as the start of one site with its rollback,
in `ActivityFeed` as its outcome, and a daemon in `Ownership` as containers that are up or not.

## How the modules correspond to the code

**OrchPlan.** `phase`, `cur` are where `Run` is; `status`, `errored`, `finalError`, `rolledBack` are
`Result`; the callbacks are not modelled. `effect` is what the steps did to
the world: nothing, part or all. A rollback that returns nil has taken the effect away in a `Thorough` step and may have left all or part of it in
any other: `CreateContainersStep` logs what it could not remove, `EnsureVolumeStep` keeps the volume, `PullImagesStep` and a `FuncStep` without
`Undo` do nothing (`sitesteps.go`). `effect` survives a run, since the caller may run the plan again (`RunAgain`),
and `reported` and `committed` remember what earlier Results said. One action per branch of the loop:
`SkipStep`, `StartStep`, `ApplySucceeds`, `ApplyFails` (which marks the rest skipped), `LoopEnds` (a
context cancelled by then fails the plan even after its last step), `RollbackStep` and
`RollbackEnds` (its loop passes over what is not Succeeded). A panic is an error of the step.

**SiteLifecycle.** A row is known by its id, which is never used twice, everything in Docker by the slug.
Row: `started`, `lan`, `ver` (engine and version), `opt` (SPX or published DB port), `salted`
(salts generated). `ctr` stands for the four service containers: absent, stopped, running, or partial
(any of them). `image` and `data` are the database container's image and what last wrote the volume. A route has the LAN host
only while the machine has a LAN address (`RoutesFor`); a wp-config without Locorum's signature is left alone (`UserOwned`), and that of a subdomain
multisite has no whitelist (`Unlisted`). A start whose marker cannot be read goes on without the comparison (`blind`).
A request is `Begin` (reads the row, makes the checks made before the mutex), `Acquire` (the mutex), one
action per step of its plan with a failing twin that has the plan's rollback, `Save...` (the whole-row
UPDATE of the request's copy, with no effect and no error when the row is gone) and `Finish`. A method
with several writes that may fail separately has an action for each (`LanSavesRow`,
`LanWritesConfig`, ...). `Restart` is a crash or an orderly end at any point followed by `Initialize` and `ReconcileState`: requests
vanish, containers are wiped, rows are marked stopped.

**Ownership.** One step is one system call or one call of App. The lock file is two things: `file` is what
the path names, `fd[p]` what a process has open, for a file that was unlinked lives on and `flock` belongs to it. `info`
is the process that wrote `owner.lock.info`, `sock` who bound the socket path, `up` the processes whose
containers are up. Reading the pid (`ReadOwner`) and probing it (`OwnerAlive`, `OwnerStale`) are two steps, and the probe tells only whether some
process has that number: with the fault `recycle` it finds a dead writer alive. `crossed` is history: a lock operation has removed a live owner's
lock or info file, or locked a file that was no longer at the path. A daemon goes open, lock, (stale: read, probe, unlink, reopen, relock), write, bind,
wipe, bring up, run, close, release (stale: no pid, or nobody has it). A GUI initialises first and locks after (`Launch`, `Wipe`,
`BringUp`, then `Open`), may retry after a failed initialisation, may close its window while that runs
(`QuitEarly`), and wipes once more at its end. `EnsureDaemon` of a CLI is dial, spawn, poll.

**Rpc.** `pc[k]` is where a Call is: registered, in `writeFrame`, about to select, parked in its select,
leaving (its outcome is settled, the deferred delete is not done), returned. `mu` is held across a
step only by the writer, since a write to a full socket blocks with it. `Select` and `Park` are apart because a
select that is reached with several cases ready takes any of them, and one that is parked is woken by the
first; the runtime gives a message to a parked receiver directly, so `closeCh`, closed before the
response channels, always wakes a parked Call first. `readLoop` decodes, looks up under the mutex
(`Route`) and sends outside it (`Send`); `shutdown` swaps the map under the mutex (`Shutdown`) and closes
channels (`CloseChannel`) and connection (`CloseConn`) outside it. The server
takes a frame up (`Scan`), handles it inline and writes the response (`Reply`), then looks at
`shutdownCh`. `handled` and `late` are history: requests taken up, and those taken up since
Shutdown. A receive from a closed response channel yields a nil `*Response` that is dereferenced, and a
send on one panics: `crashed`. The Go HTTP server recovers a panic of an MCP handler's own Call,
so there only that request dies; in the CLI, the stdio MCP server and `readLoop` nothing does.

**SiteData.** A database is a map from tables to how many writes they hold (0: absent); an image is an engine with a version; a dump
is the tables it carries. Each stretch of code under the site's mutex is one action, and the row it works on was read before
(`AskSnapshot`, `TakeSnapshot`; `AskRestore`, `Restore`). `MigrateEngine` is the sequence `AskMigrate`, `MigrateBoots`,
`MigrateSnapshots`, `MigrateStops`, `MigrateFlips`, `MigrateRestarts`, `MigrateAsksRestore`, `MigrateRestores`, `MigrateEnds`,
between which other clients act. `rq[u].alone` is history: nobody else has touched the site since this migration
began; `past` holds tables destroyed after their safety snapshot. `DbEngine` has the pure rules: `Resolve`, version order,
`UpgradeAllowed` of each engine, what the filters drop.

**SiteTree.** Ids are handed out in order, so the younger site has the greater one; `held[i]` is the holder of a site's mutex, a sequence of
at most one. A creation is `AskWorktree`, `LockParent`, `GitSteps`, `AddChild` with `UndoWorktree`, then the child's own
mutex (`TakeChild`) for its start. A delete reads the children before it takes any mutex (`ReadSite`, `NextKid`), locks and
runs their plans one after the other, the parent's last. `Edits` is the user who dirties a worktree at any moment.

**Hooks.** `hookRun` is the run of a lifecycle event under the site's mutex, `hookWork` the panel's goroutines, `hookView` what
the GUI shows. The failure modes are `failFlag` of the site and of all; a cancelled run skips the rest (`SkipHook`).

**Traefik.** A route is its file (`rfile`, the hosts it names, and `rtls`), its certificate (`cert`, `fits`), its entry in the map of the
process (`known`) and what the running container has loaded (`loaded`). An upsert is certificate, key, file, map, wait (`Upsert`,
`EnsureCert`, `InstallKey`, `WriteRoute`, `EnterRoute`, `RouteSeen` or `RouteTimesOut`), a removal the reverse. The boot is `Wipe`,
`InspectRouter`, `SweepFiles`, `SweepMap`, `WriteConfig`, `CreateRouter`, `RouterReady` and the services' upserts; nothing keeps a
site's operation from running beside it. `Watch` is Traefik re-reading the directory.

**ManagedFiles.** A start is a walk over the assets (`Look`, `PutAsset`) and `SaveState`, which may be lost. `hashes` is the table of what was
written, `own` in a writer's hands tells whether the file was the user's when it was read.

**Engine.** Each action is one call to the daemon; `pc[r]` is the role's goroutine inside a phase of the start (pull, create, wait), `try` its
attempt in `withRetry`. Most calls are retried while the daemon is away; the look at
images, networks and containers that comes before the first retry is not, and fails at once (`Away`). `late` are creates of a crashed process that the daemon carries out afterwards; `doomed` the containers a reset has
listed and removes by id. `spoiled` is history: since the start began someone else touched its containers or the daemon went away.

**LogStream.** A stream is one `StreamLogs` with two pumps and two bounded channels; a record of `streams` has where it is, what it sent and
what its channels hold. The viewer cancels the stream it leaves and forgets it; `ring` keeps each line with its stream.

**Health.** `batch[b]` is where a `runBatch` is: publishing "running" (load, store, notify), its checks, collating, publishing the end.
Load and store of the atomic snapshot are separate steps, as in `publishRunning`. `breaker` is that of the disk check, `worker` and
`guard` are the executor's goroutines and inflight flags. Time is abstracted to cooldowns that elapse (`TimePasses`).

**GuiSites.** A click starts a job. A job on one row reads the row (`GetRow`), waits for the site's mutex, writes that copy with its change
(`SaveRow`) and hands it to `UpdateSite` under the mutex (`Push`); a start whose installation fails and a LAN toggle that is undone write and hand
over nothing (`LoseRow`), a LAN refresh hands over its copy and writes nothing, and `UpdatePublicDir` takes no mutex. A job that adds or removes a
row, and the reconciliation at start, read the whole table and hand it to `SetSites` (`ReadTable`, `SetSites`). `astray` is history: the list was
left behind in one of the ways the comment of `CalmListIsTheTable` names by their lines.

**Banners, Toasts, ActivityFeed, DescribeCache, CaPairing.** One action per critical section of the state's mutex. `Banners`: the error with
its button, the notice with its installers. `Toasts`: publishers walk a snapshot finding by finding (`Walk`), the
first-fire window is a goroutine (`ClearFirstFire`), the seen set is saved twice, a process ends by `Exit`, `Quit` or a kill. `ActivityFeed`:
a plan's outcome goes to the log, the table, the callback (`WriteAuditLog`, `AppendActivity`, `OnActivityAppended`); loads read and set in two
steps; `overlap` is history. `DescribeCache`: an entry, its loads (`Describe`, `Store`), writers that change a site
and announce it (`Change`, `Invalidate`), and the changes nobody announces, of snapshots, the sweep, hooks and the reconciliation (`ChangeSilently`);
`told` and `missed` are history.
`CaPairing`: a boot is check, bind, enter, in three sections of the panel's mutex, then a watcher.

The lines behind each definition are in `PROJECT.json` under `map`. Definitions whose comment begins
"Mutation of" are not part of the model: each is a plausible bug in one definition, and putting it in
that definition's place breaks the property it is listed with.

## Runs

Every property is listed with a mutation that violates it under the same configuration.

| Run | Module | Bounds | What it shows |
|---|---|---|---|
| `Live` | `MCLive` | a plan of 4 steps, 2 of them `Thorough`, run twice; 2 containers, one change of the row, one restart of the daemon, every fault; 2 feeds, 2 streams, 2 lines, 2 attaches | Result tells the truth (`AllOrNothing`), what a plan leaves of a `Thorough` step is reported (`NoSilentResidue`), the plan is a `Saga`; containers that fit stay (`FittingContainersStay`), a start that says up is up (`StartedAsAsked`), every start ends (`StartsEnd`); lines come once and in order (`LinesInOrder`), a stream that was left gives its goroutines back (`LeftStreamsEnd`) |
| `LifecycleOneUser` | `MCSiteLifecycle` | 1 client, 5 requests of all 8 kinds, 2 successive sites of one name, one with a wp-config of the user's own, 2 images, every fault but a failing row | `StartDelivers`, `GuardsVolume`, `RunningIsRecorded` over failures, unreadable and unwritten markers, leftovers, name reuse and crashes between any two steps |
| `LifecycleTwoUsers` | `MCSiteLifecycle` | 2 clients, 3 requests of 5 kinds, plan, row and marker-write failures, a site without a whitelist | `StartDelivers`, `DeleteDelivers` under interleaving, and that every request that waits for the mutex returns (`RequestsReturn`) |
| `LifecycleSerialised` | `MCSiteLifecycle` | 2 clients, a start and a delete, no faults | **violated**: `GoneIsDown`, see below |
| `Owners` | `MCOwnership` | 2 daemons, a GUI, a CLI, 3 lock files, every interleaving of the system calls and every fault | `OwnerInfoIsHonest`; two owners only after a lock operation has hit one (`OwnersCross`); a daemon that runs is found (`DaemonIsFound`) |
| `OwnersTakeover` | `MCOwnership` | 2 daemons, no faults | **violated**: `OneOwner` |
| `OwnersGui` | `MCOwnership` | a daemon and a GUI, no faults | **violated**: `OnlyOwnerWipes` |
| `Rpc` | `MCRpc` | 3 Calls, one frame of room each way, every event | `PendingIsInFlight`, `OneAfterShutdown`, `ImplementsRemoteCall` |
| `RpcCloses` | `MCRpc` | 2 Calls, `Close` | **violated**: `NeverPanics` |
| `Sites` | `MCSites` | data: 2 users, 2 engines, 1 table, 2 snapshots, 2 requests; tree: 2 clients, 3 sites, 4 operations; hooks: 1 site, 2 events, 2 hooks, 2 runs; router: 2 sites, a service, 2 operations; files: 3 releases, 1 asset, 1 site file | `Recoverable`, `MigrationIsWhole`, `KeepsTablesSafe`; `LocksDescend`, `WorkIsKept`; `SummariesAddUp`; `TlsRouteHasItsCert`, `NoStrayRoutes`; `EditsAreKept` |
| `SnapshotRestores` | `MCSites` | as `Sites` | **violated**: `IntactRestores` |
| `Gui` | `MCGui` | list: 2 sites, 2 jobs; banners: 4 errors, 3 installs; toasts: 2 keys, 2 publishers, 2 runs of the program; health: 3 batches, 1 check; feed: 1 site, 3 plans; cache: 1 site, 2 writers, 3 changes, 4 loads; pairing: 2 sites, 3 boots | `CalmListIsTheTable`, `BusyMeansInstalling`, `ToastsAreKept`, `QuietWhenIdle`, `CalmCacheIsTheHead`, `RestIsFresh`, `RegisteredIsShown` |

One configuration beside these shows why an assumption is made and ends with a counterexample of its own: `GuiRefreshes.cfg` (`MCGui`:
`InvalidatedIsRefreshed`, which is `RestIsFresh` without its exception). Every module has a type invariant (`TypeOK`, `DataTypeOK`, `CacheTypeOK`, ...), and it is
proved for each of them. Two more invariants are only proved, and hold when they are added to `Sites.cfg`: `NobodyWaitsInACircle` and
`OnePlaceEach`.

Why the bounds are enough. Each is the least at which the case a property is about can happen, and one more: two runs of a plan, since a re-run meets what
the first left; four steps, two of each kind of rollback; two successive sites of one name and five requests, since old data under a new site takes a
start, a delete, a new row and two more starts; three requests of two clients, one that overtakes and one that meets what is left; two daemons, a GUI and
three lock files, since a file that was unlinked is still locked while another takes its place and a third is opened; three Calls on a channel of one
frame, so that one is written, one waits and one is on its way back; one site, three changes and four loads in the description cache, so that a load may be
older than two announcements. What does not depend on bounds is proved.

## Fairness and environment

Safety properties need no fairness. Three specifications have some, for three properties.

* `RequestsReturn` (`SiteLifecycle!FairSpec`): a request that holds its mutex goes on (WF of `Work`), and one that waits gets the mutex if it is free again
  and again (SF of `Acquire`): Go's mutex hands over to a waiter that has starved for a millisecond. The first says that calls to Docker, the
  router and the disk return, with or without an error. Not all of them have a deadline (a pull, a chown container and a hook may run as long as they like), and a
  call that never returns blocks its site for ever; what the run shows is that nothing else does.
* `StartsEnd` (`EngineFair`): a role's goroutine, the network step and `g.Wait` go on. Attempts are counted (`withRetry`, at most five), readiness has its own
  deadline, and a daemon that is away makes a call fail at once. No fairness is asked of the daemon, of a container's health or of a reset.
* `LeftStreamsEnd` (`LogFair`): the goroutines of a stream go on where they are not blocked. Nothing is asked of containers, nor of the viewer.

Environment. `DuplicateNames = FALSE` and `SameSecond = FALSE` say that users keep the names of live sites apart and that no two snapshots of a site are taken within
a second; the code ensures neither, and containers, volumes, routes and files are named by them. `UserOwned` and `Unlisted` are any sets of sites. Crashes
lose memory and keep files, rows, containers and volumes. The faults of a run are in its `Faults` constants, by the names the modules list.

## Proofs

Checked by TLAPS with SMT, Zenon and the LS4 temporal prover; nothing is left unproved. Each leaf is small enough for a tenth
of the provers' usual time limit (`tlapm --stretch 0.1`).

| Theorem | Statement | Assumes |
|---|---|---|
| `OrchPlanProofs!TypeCorrect`, `InvariantHolds` | type correctness; the inductive invariant | naturals `N`, `MaxRuns` |
| `OrchPlanProofs!ResultIsTrue`, `ResidueIsReported` | `AllOrNothing`, `NoSilentResidue` | |
| `OrchPlanProofs!PlanIsASaga` | `OrchPlan` implements `Saga` | |
| `SiteLifecycleProofs!TypeCorrect` | type correctness | constants' sanity |
| `SiteLifecycleProofs!InvariantHolds`, `VolumeIsGuarded` | mutual exclusion per slug and agreement of copy, image and marker; `SiteLifecycle` implements `VolumeGuard`, under every fault | `DuplicateNames = FALSE` |
| `SiteDeliveryProofs!StartsDeliver`, `DeletesDeliver` | `StartDelivers`, `DeleteDelivers`, under every fault | `DuplicateNames = FALSE` |
| `SiteDeliveryProofs!RunningSitesAreRecorded` | under `[]NoOverlap`, `RunningIsRecorded` | `DuplicateNames = FALSE`, no `store` fault |
| `OwnershipProofs!TypeCorrect`, `InfoIsHonest` | types; `OwnerInfoIsHonest`, under every interleaving and fault | |
| `OwnershipProofs!OwnersCrossHolds`, `DaemonIsFoundHolds` | `OwnersCross`, `DaemonIsFound`, under every interleaving and fault | |
| `RpcProofs!TypeCorrect`, `PendingDoesNotLeak`, `ShutdownDrains` | types; `PendingIsInFlight`; `OneAfterShutdown` | |
| `RpcProofs!ConnectionIsARemoteCall` | `Rpc` implements `RemoteCall` | |
| `SitesProofs!MutexesDescend`, `UncommittedWorkIsKept`, `TreeTypeCorrect` | `LocksDescend`; `WorkIsKept`, under every fault; types | natural `MaxIds`, `MaxJobs` |
| `SitesProofs!NoCircleOfMutexes` | `NobodyWaitsInACircle`: of any set of waiting clients one waits for a mutex that nobody of the set holds | natural `MaxIds`, `MaxJobs` |
| `SitesProofs!CertificatesOutliveFiles`, `SweptRoutesAreOurs` | `TlsRouteHasItsCert`, `NoStrayRoutes`, under every fault | |
| `SitesProofs!RouterTypeCorrect` | types, and that the count of routers a boot waits for can be reached | finitely many sites, a sequence of services, a natural bound |
| `SitesProofs!DataTypeCorrect`, `UndisturbedMigrationIsWhole` | types; `MigrationIsWhole`, for any users, images, tables and snapshots | natural bounds |
| `SitesProofs!DataIsSafe`, `DestroyedTablesAreKept` | `SiteData` implements `SafeTables` (`KeepsTablesSafe`); `Recoverable` | `SameSecond = FALSE` |
| `SitesProofs!OwnFilesAreKept`, `FilesTypeCorrect` | `EditsAreKept`, under every fault; types | the releases have a last content |
| `SitesProofs!RunSummariesAddUp` | `SummariesAddUp` | hook ids are naturals |
| `SitesProofs!HooksTypeCorrect`, `PositionsAreUnique` | types; `OnePlaceEach`: no two hooks of a site and event share a position | finitely many hook ids, natural bounds |
| `LiveProofs!LogTypeCorrect`, `LinesArriveInOrder` | types; `LinesInOrder` | positive capacities |
| `LiveProofs!EngineTypeCorrect`, `FittingContainersAreKept`, `StartsBringUpWhatIsAsked` | types; `FittingContainersStay`, `StartedAsAsked`, under every fault | some role, natural bounds |
| `GuiProofs!ListTypeCorrect`, `CalmListIsRight` | types; `CalmListIsTheTable` | some site |
| `GuiProofs!CalmCachesAreTheHead`, `FeedTypeCorrect` | `CalmCacheIsTheHead`, for any retention and caps; types, which bound each cache by its view's cap | a cap is positive and at most the retention, natural bounds |
| `GuiProofs!CacheInvariant`, `CacheTypeCorrect`, `DescriptionsAreFresh`, `LoadingFlagIsTrue` | the inductive invariant; types; `RestIsFresh`; one load per site, and a flag that says so | "-" is not a site; natural bounds |
| `GuiProofs!BusyNoticeIsInstalling`, `BannersTypeCorrect` | `BusyMeansInstalling`; types | |
| `GuiProofs!IdleIsQuiet`, `OneRemediationAtATime`, `HealthTypeCorrect` | `QuietWhenIdle`; `GuardIsHeld`, that an inflight flag is up exactly while one remediation is under way; types | positive bounds, the worlds are among those a check can find |
| `GuiProofs!ToastsStay`, `ToastsTypeCorrect` | `ToastsAreKept`; types | some key |
| `GuiProofs!RunningServerIsShown`, `PairingTypeCorrect` | `RegisteredIsShown`; types | some site |

Theorems about owners need no assumption because their properties say until when they hold: `OwnersTakeover` shows that `OneOwner` without `~crossed`
does not, `OwnersGui` that `DaemonIsFound` cannot promise a daemon its containers once a GUI has been started. `NoOverlap` says that no two calls are
made on one site at the same time; the code does not ensure it (a stop that read its row before a LAN toggle writes the old flag back, see below), so
`RunningSitesAreRecorded` has it as a hypothesis on the behaviour and not as an assumption on a constant. A single client meets it by itself
(`OneClientAlone`), and run `LifecycleOneUser` has one.
The caps of `CalmCacheIsTheHead` are 5 and 200 in the code (`state.go`), the retention 200 (`storage/activity.go:73`).

The arguments.

* *Plan runner.* `AllOrNothing` speaks of finished runs only. The invariant says what is so in the loop and while undoing:
  the Succeeded steps are a prefix `1..k` of the plan (below `cur`), every step in force has its full
  effect, and a `Thorough` step that has some effect and is not in force was reported.
* *Lifecycle.* `Holding` (a client past `Acquire` holds its site's mutex) and `OneOwner` (with distinct names, one live site
  or pending request per slug) give mutual exclusion per slug, although the code locks per id; hence what
  `CheckMarker` found is still so at `create`, and the image made from the request's copy is still there, on data it wrote, at `stamp`
  (`Checked`). Each step then maps to `Boot`, `Stamp`, `TearDown`, `TearDownAll`, `Purge` or a stutter; the starts at `blind` are `unread`.
* *Delivery.* The invariant says, per step of a plan, which part of the world is in force once the step is done and no step before it
  failed (the network, then the containers, then the route); the exclusion per slug keeps every other request from touching it before the
  outcome is recorded.
* *Ownership.* Three invariants, each built on the one before. `Honest`: where a process must and cannot have the
  lock, and that a live process that wrote the info file has it (the info file goes first in `Release`). `Orderly`, until a lock operation has
  hit a live owner: whoever has the lock has it on the file at the path, and its name is in the info file. `Served`: the socket of a daemon past
  `Listen` is at the path, and before the first GUI its containers are up.
* *Connection.* A request is in the socket once and before it is handled, and only when its Call has sent it (`OnItsWay`); an
  answer anywhere (socket, `readLoop`, channel, outcome) is to a handled request (`Answered`); an outcome is settled
  exactly when the Call leaves its select (`Told`). `LastOne` ties the one late request to a connection that is about to end.
  Sequences in the socket are handled by two lemmas: what is written joins the set of what is there, what
  is read leaves it.

* *Sites' mutexes.* `LocksDescend` alone is not inductive: it says nothing of a client that holds but does not wait yet. `LockInv` adds
  what a client may hold at each point of its operation (`MayHold`) and that a child is younger than the site it was made for (`Younger`), because the
  parent was in the table before the child got its id. So whoever waits with a mutex in hand waits for a younger site's. `NoCircleOfMutexes` draws the conclusion without induction: of a set of clients that wait, take the
  one that waits for the greatest site; its holder, if in the set, would wait for a greater one.
* *Uncommitted work.* `WorkInv` adds to `LockInv` what a delete and a creation must be to spare it (`Spares`): a delete at the site it was asked for is
  forced only if it was asked to be, its children are other sites (a parent is older than its child), and a creation undoes only a worktree it added
  itself, which nobody works in before the creation is over. Only those two operations remove a worktree.
* *Routes.* `CertInv`: an upsert that has its certificate still has it when it writes the file, since the operations on one route exclude each
  other; a removal deletes the certificate only after the file. `StrayInv` ties the sweep to the password of the admin API: a router that accepts this
  process's password was made by it, after a sweep, so the boot may skip the sweep only then.
* *Descriptions.* The invariant speaks of loads in flight: at most one for each site whose flag is up, and what one has read is no older than what was announced,
  unless the announcement met it (`missed`); a load begun after an announcement reads that change or a later one.
* *Health.* `QuietInv` gives every "running" a debtor: if the snapshot says so, some batch has yet to store its end; if the panel says so, some batch has yet to
  notify; and what a batch holds for those steps says idle (`Honest`). The last debtor pays both.
* *Toasts and pairing.* A toast that popped up in this run is marked as seen first, so it is in one place only; a pairing server that is down was asked to end, so the
  server that registered last and was not asked is up and no watcher clears it.

* *Row and containers.* `SyncInv`: without overlap the copy a call works from is the row, but for what `toggleLAN` has saved so far, so no
  whole-row UPDATE undoes anything. `RunInv`: what runs belongs to a
  row, and that row says so unless a start has made the containers and not come to its last UPDATE (`Created`); past the step that takes them down they do not run (`DownPcs`).
* *Migration and snapshots.* `AloneOK` says, for each phase of a migration that nobody disturbed, what it has behind it: before the volume goes its snapshot holds the tables,
  then the volume is blank, then the row names the target, then the database of the new image runs on it, at the end it holds what the snapshot held. An action of
  anybody else makes it disturbed (`Acts`), so each phase needs only its own predecessor. 
* *Tables.* `DataIsSafe` maps `live` to the volume's tables, `copies` to the tables of the snapshot files and `gone` to `past`. A snapshot is `Copy`, or with the overwrite it
  precedes `Restore` or `Import` (the same stretch under the mutex); it adds a copy and takes none away, because without two snapshots of one second no file takes another's name. The flip of a
  migration is `Wipe`, and counts on a copy only where `AloneOK` says that there is one. `Recoverable` is an invariant of `SafeTables`, so it holds of `SiteData`.
* *Files.* `FilesInv`: a bundled file counted as the user's holds his text, which is in no release; a site's file counted as his has lost its marker. Neither the walk of a start nor
  `WriteIfManaged` writes over such a file, whatever the hash table says.
* *Hooks.* `HookInv`: every row in the table, in the panel's tasks and in a run's list was validated, so a run refuses none; the counts of a run never exceed its
  list, and are less while a hook executes, since the executing one is not counted yet. The list is in the order of positions (`InOrder`) and keeps its length
  whatever the panel does meanwhile. That the order is the only one is `PositionsAreUnique`: a new hook goes past the greatest position of its event, and the list a reorder writes, planned from rows
  read long before, is accepted only if it names each row of the event once, so each gets a place of its own.
  `UNIQUE(site_id, event, position)` (`migrations/20260427000001_add_site_hooks.up.sql`) therefore never refuses a write.
* *List of sites.* `ListInv`: unless the list was left behind (`astray`), a row on its way to it is the row as it is, a whole table on its way is the table, and the list lags only where one is on its way. So when nothing is, they agree.
* *Activity caches.* `FeedInv`: the rows of a site are distinct and each of the places 1..n is taken by one of them (`Placed`, which stands in for an induction over the sorted
  sequence: a sequence with its i-th row at place i is the sorted one). A new row is the newest unless the clock was set back (`stepped`), so putting it in front and cutting at the cap is the head
  of the trimmed table; a load that no recording overlapped has read that table.
* *Log lines.* `StreamInv`: along a stream, what was sent, what is in the channel and what a pump has in hand are sorted for each output, each wholly before the next, and all older than what is still to be
  read from the container's log; on resuming the position is past what was seen.
* *Bring-up of containers.* `EngineInv`: while nobody has disturbed a start, a role's goroutine that drops a container has found another hash on it, one that starts it has
  found or made one that fits, and one that is done runs it (`RoleOK`). A container that fits therefore never gets to the drop, and a start that has come to its end has all of them up.

Only model-checked: liveness (`RequestsReturn`, `StartsEnd`, `LeftStreamsEnd`), which is out of this prover's
reach. Every invariant, action property and refinement that a passing run checks is also proved.

## Where code and comments differ

Five have a run that TLC ends with a counterexample:

* **A start outlives a delete** (`LifecycleSerialised`). `StartSite` reads the row, waits for the mutex and does not look
  again; queued behind a delete it starts the deleted site's containers, and its UPDATE touches no row
  (`sites.go:70`, "siteLocks serialises lifecycle calls per site").
* **Two takeovers succeed** (`OwnersTakeover`). An Acquire that fails to lock between another's `flock` and its `writeOwnerInfo` reads no pid, takes
  the lock for stale, removes it by path (`lock.go:226`) and locks a new file (`lock.go:187`, "two simultaneous takeovers can't both succeed").
  `Release`, which unlinks in steps, and a second takeover of a dead owner's lock open the same gap.
* **A GUI wipes a daemon's containers** (`OwnersGui`). `main.go:250` initialises, which removes every labelled container, before line 262 asks for the lock
  (`lock.go:8-12`, "exactly one process holds the lock").
* **Close panics a Call** (`RpcCloses`). `shutdown` closes both `closeCh` and the response channels, and a Call that reaches its select after that may take the
  latter and use a nil response (`client.go:215-216`, "pending Calls return \"connection closed\"").
* **An intact snapshot is refused** (`SnapshotRestores`). `snapshot.go:183-192` hashes the dump before it is compressed, `verifyChecksum`
  (`snapshot.go:639-665`) the compressed file, so "Restore verifies before importing" (`snapshot.go:127-128`) refuses what nobody touched.

The properties below are stated in the modules, next to the words they come from, and are no part of a passing run: added to
the configuration named, TLC finds each violated.

| Property (configuration) | What the code says of itself | What it does |
|---|---|---|
| `RetriggerFinishes` (`Sites.cfg`, PROPERTY) | `migrate.go:43`: the user can re-trigger the migration to finish it | the row already names the target, so the second call returns nil with an empty database |
| `ChildHasParent` (`Sites.cfg`) | worktree migration, lines 15-17: orphans only in a hand-edited database | a worktree added while its parent is being deleted is an orphan |
| `UpsertedIsServed` (`Sites.cfg`, PROPERTY, without `crash`) | `router.go:28-30`: returns once the new routes are observable | the wait counts routers, another site's satisfies it; a retry after a timeout does not wait |
| `UntouchedFollowBundle` (`Sites.cfg`) | `assets.go:13-16`, `app.go:348-349`: missing state is treated as a match | an upgrade after a lost table leaves the old file for good |
| `ToggleTurnsTheSetting` (`Sites.cfg`, PROPERTY, two `HookSites`) | the toggle turns the site's setting, `hookspanel.go:486-496` | the flag loaded for another site is what a click turns |
| `RingIsTheSelection` (`Live.cfg`) | `logviewer.go:43-44`: switching cancels the current stream | lines of the old stream that are in its channel are appended to the new one's |
| `ResumesWhereItLeft` (`Live.cfg`, `MaxWritten = 3`, `MaxTurns = 2`) | `sites.go:1391-1395`: resumes from the last seen timestamp | the two outputs share one timestamp, so the slower one loses lines |
| `FailedStartLeavesNothing` (`Live.cfg`) | `sites.go:538-541`: rolled back on failure | containers made by the step that failed stay |
| `RecentIsFresh` (`Gui.cfg`) | `sitedetail.go:615-617`: the callback keeps the recent rows fresh | a row recorded while the load runs is lost or doubled |
| `InvalidatedIsRefreshed` (`GuiRefreshes.cfg`) | `describecache.go:91`: marks stale and triggers a refresh | an invalidation that meets a load does neither |
| `NotSharedBetweenSites` (`Gui.cfg`) | `accesspanel.go:46-47`: switching sites stops a pending server | one whose start is still on its way appears on the next site's card |
| `QrEncodesTheUrl` (`Gui.cfg`, PROPERTY) | `accesspanel.go:45`: the server's URL is rendered as a QR code | the image of the first server is kept for the second (`accesspanel.go:453-463`) |
| `OneInstallAtATime` (`Gui.cfg`) | `state.go:1081-1083`: false when one is already in flight | an earlier installer's end clears the flag of a later one |
| `ErrorsAreNotSwallowed` (`Gui.cfg`) | `state.go:625`: an 8-second auto-dismiss | an action that ends late clears the newer error |
| `NoToastTwice` (`Gui.cfg`) | `main.go:177-178`: no toast again for what was seen on a previous run | a run that ends by the blocker's Quit does not save the seen set |
| `GenerationGrows` (`Gui.cfg`, PROPERTY) | `check.go:192`: a monotonic counter | overlapping batches publish in either order |

Others met while modelling; the models contain them, no property is about them.

Lifecycle and plan:
`plan.go:134-136` announces skipped steps according to its comment, lines 137-139 only mark them (the model has no callbacks);
`sites.go:953-955`: the undo of `upsert-route` runs before the undo that restores `LanEnabled`;
`sites.go:1120`, `:905`: a stop that read its row before a LAN toggle writes the old flag back, and a wp-config that could not be written leaves row and whitelist apart;
`sites.go:1606`, `:1630`: "for a stopped site" is checked before the mutex and not after it; `UpdatePublicDir` and `SetPublishDBPort` do not take it;
`sites.go:1283-1298` deletes the row even when the delete plan failed, `activity.go:58` says a failed delete keeps it;
`sitesteps.go:170-185`: containers made before one of them failed stay;
`sitesteps/marker.go:19`: "fresh volumes (no marker file)": a volume whose first start failed has data and no marker.

Connection and ownership:
`client.go:222`, `:250`: `EnsureDaemon` spawns "if none is running", but a socket file that a dead daemon left makes it fail;
`server.go:169`: "After the timeout, remaining connections are closed": they are left open;
`server.go:219-222`: handlers run inline with the reader, so a peer that leaves is noticed only afterwards;
`client.go:85`: a Call in `writeFrame` does not return when its context ends. With both directions of the socket full the writer holds
the mutex and waits for the server, the server waits for `readLoop`, and `readLoop` for the mutex; it takes
2 * `Capacity` + 3 outstanding Calls, five with `Capacity = 1` and more than the run has, and large frames. There is therefore no property that every Call returns.

Data and worktrees:
`MigrateEngine` writes `Started = TRUE` from its stale copy; MySQL's `UpgradeAllowed` lets the version fall within a major; the import filters lack a rule for `SQL_LOG_BIN`
and `RestoreSnapshot` applies none; `cloneDBFromParent` snapshots the child without the child's mutex (`worktree.go:380`); a
failing `git worktree add` is not undone; a delete drops the row even when the worktree stays; snapshots are swept only at a start (`main.go:276`).

Router and TLS:
the "HTTP-only" fallback of `traefik.go:233-237` does not exist; `Router.Stop`'s promise of files that stay (`router.go:24-25`) is undone by the sweep; a certificate is
renamed into place before its key, so a crash leaves a pair that does not match and is reused; `initDone` is never read; services' files are not swept.

Docker and logs:
`EnsureNetwork` never returns the id it found (`engine_network.go:43-44`); a second name conflict removes the container and then fails; attempts end at five whatever
the budget; `WipeLabelled` cannot remove a network in use; a full channel blocks the sender although `streamChannelBuf` says the oldest lines are dropped; the
attempt counter of a stream is never reset; a line over 1 MB ends it; Clear while paused unfreezes.

Hooks, health, files:
an early error of `RunHookNow` leaves its spinner; concurrent moves overwrite each other's order; a check's cadence is never read (`runner.go:40-41`); "only one batch at a time" is
not so (`runner.go:181`); a suspended check's findings vanish; one outage is counted by every overlapping batch; a half-open breaker admits several trials; `SubmitAction` after
`Close` may start; `Reconcile` records the embedded hash also when the write failed.

GUI:
`SelectedSite` returns a pointer into the slice that `UpdateSite` writes; a whole-table emission may overwrite a newer row; `RefreshLAN` hands over a row it read before the mutex
(`sites.go:816-849`); a start whose WordPress installation fails and an undone LAN toggle change the row and tell nobody; snapshots, hooks, the sweep and the reconciliation invalidate no description; the end of a clone closes whichever clone
dialog is open; Retry may start two initialisations, and a site may be started from the list while one wipes; two starts of the pairing server may both pass the check, and the first
then runs unseen until its ten minutes end; `Stop` blocks the frame for up to two seconds under the panel's mutex; a clock that is set back makes retention trim the new row.

## Not modelled

Windows (`LockFileEx`, named pipes); what Docker, git, mkcert and the database engines do inside; the parameters and results of the
IPC methods and their scope gates (a refused request is an answer like any other); argument parsing and output of the command line and of MCP; configuration and settings, which have one writer at
a time; redaction and log rotation; the update check; schema migrations, a library's. Of the GUI, layout and the panels that only
draw or forward a click (settings, version editor, profiling, worktree form, import and snapshot lists). In the modelled parts: `pull-images` and `chown` in
`SiteLifecycle` are ways for a plan to fail, SPX seeding and multisite set-up not there at all; the accept loop is left out, since
connections share nothing but `shutdownCh`; the order of the global services at start-up; `RemoveService`, `Router.Stop`, `Drop`, `ImportDB` and `configyaml.Reconcile`,
which have no callers. Data races in the Go sense (the pointer of `SelectedSite`) are described above and not modelled.

Hazards known and without a property, beside those `PROJECT.json` lists with a note: the callbacks that do not announce skipped steps (`plan.go:138`), the order of the LAN toggle's undo
(`sites.go:956`), a CLI that finds a dead daemon's socket (`client.go:248`), several trials of a half-open breaker (`breaker.go:52`), containers made by a failing
step (`sitesteps.go:170`) or left by a rollback that only logs (`sitesteps.go:186`), a wait for a route that times out after the write (`traefik.go:257`), retention by wall clock (`activity.go:121`). The models contain these behaviours but the first.

## Plan

1. `SiteTree` joined with `SiteData`: the snapshot a new child's database is given, taken without the child's mutex.
2. `Rpc` with several connections and `Server.Shutdown`'s deadline against `wg.Wait`.
3. The settings table and the panels that write it, if they come to have more than one writer.
4. Snapshots of one second (`SameSecond`) in `SafeTables`: which copy is lost when two share a name.
