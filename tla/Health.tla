------------------------------ MODULE Health -------------------------------
(* The system-health runner (internal/health): batches of checks begun by the
   ticker and by the GUI's Re-check buttons, the snapshot they publish, the
   toasts and the panel fed from it, the circuit breaker of the disk check and
   the executor of remediations.  A finding is its key [id, sev]; wall-clock
   time is abstracted to cooldowns that elapse.                              *)
EXTENDS Integers, FiniteSets
CONSTANTS HealthChecks, Host, HealthWorlds, Clickers, CheckSlots, ActionIds, ActionSlots,
          MaxBatches, MaxSubmits
ASSUME HealthAssumption == {CheckSlots, ActionSlots, MaxBatches, MaxSubmits} \subseteq Nat \ {0}

MaxFailures == 3   \* of the disk check's breaker
SuspendTrips == 3  \* suspendBudgetTrips
Tickers == {"loop"}
Batches == Tickers \cup Clickers
NoBatch == [pc |-> <<"none">>]

VARIABLES world,      \* Docker and the disk, as they are
          snap,       \* the published snapshot
          shown,      \* the GUI's copy of it
          trips,      \* over-budget runs in a row, of each check
          suspended,  \* checks that sit a cycle out
          batch,      \* the runBatch calls under way
          pings,      \* failed pings in a row
          breaker,    \* the disk check's circuit breaker
          worker,     \* the executor's goroutine for a finding's action
          guard,      \* its inflight flags
          loop,       \* the runner: off, on, closing, closed
          batches, submits  \* bounds
healthVars == <<world, snap, shown, trips, suspended, batch, pings, breaker,
                worker, guard, loop, batches, submits>>
actionVars == <<worker, guard, submits>>
checkVars == <<trips, suspended, pings, breaker>>

Worlds == [docker: {"up", "down", "hung"}, free: {"unknown", "fine", "low", "full"},
           port: {"free", "router", "other"}]
ASSUME WorldsAssumption == HealthWorlds \subseteq Worlds
Severities == {"info", "warn", "blocker"}
Finding(id, sev) == {[id |-> id, sev |-> sev]}
Findings == [id: HealthChecks \cup {"check-failed", "disk-check-skipped"}, sev: Severities]

-----------------------------------------------------------------------------
(* The checks.                                                               *)
\* Which checks the bundle registers for this host.
Bundled(c) ==
  CASE c = "rosetta" -> TRUE
    [] c \in {"wsl-mnt-c", "windows-longpath"} -> Host.sites
    [] c \in {"docker-down", "docker-old", "disk-low", "port-conflict",
              "provider-virtiofs"} -> Host.engine
    [] c = "mkcert-missing" -> Host.tls

\* Checks of the host.  Only WSL's mounted drives and Windows' long paths count.
RosettaFindings == IF Host.rosetta THEN Finding("rosetta", "blocker") ELSE {}
PathFindings(c) ==
  CASE c = "wsl-mnt-c" /\ Host.mntc -> Finding(c, "warn")
    [] c = "windows-longpath" /\ Host.long -> Finding(c, IF Host.longPaths THEN "warn" ELSE "blocker")
    [] OTHER -> {}
MkcertFindings == IF Host.trusted THEN {} ELSE Finding("mkcert-missing", "warn")
\* Checks that ask Docker about itself say nothing when it does not answer.
DaemonFindings(c) ==
  CASE c = "docker-old" /\ world.docker = "up" /\ Host.old -> Finding(c, "warn")
    [] c = "provider-virtiofs" /\ world.docker = "up" /\ Host.desktop -> Finding(c, "info")
    [] OTHER -> {}
\* A port that is taken is somebody else's unless Docker says the router runs.
PortFindings(c) == IF world.port = "free" \/ (world.port = "router" /\ world.docker = "up")
                   THEN {} ELSE Finding(c, "warn")
\* Two failed pings in a row are a blocker.
PingFindings == IF world.docker # "up" /\ pings >= 1 THEN Finding("docker-down", "blocker") ELSE {}

BreakerState(b) == IF b.failures < MaxFailures THEN "closed"
                   ELSE IF b.cooled THEN "half-open" ELSE "open"
Allow(b) == BreakerState(b) # "open"
OnFailure(b) == [failures |-> IF b.failures > MaxFailures THEN b.failures ELSE b.failures + 1,
                 cooled |-> FALSE]
OnSuccess == [failures |-> 0, cooled |-> FALSE]
\* The space on the host's disk counts first; Docker's answer, which the
\* breaker may have forbidden to ask for, only when the host's does not.
DiskFindings(asked) ==
  CASE world.free = "full" -> Finding("disk-low", "blocker")
    [] world.free = "low" -> Finding("disk-low", "warn")
    [] world.free \notin {"full", "low"} /\ ~asked -> Finding("disk-check-skipped", "info")
    [] world.free = "unknown" /\ asked /\ world.docker # "up" -> Finding("check-failed", "warn")
    [] OTHER -> {}
FindingsOf(c, asked) ==
  CASE c = "docker-down" -> PingFindings
    [] c = "disk-low" -> DiskFindings(asked)
    [] c = "port-conflict" -> PortFindings(c)
    [] c = "rosetta" -> RosettaFindings
    [] c = "mkcert-missing" -> MkcertFindings
    [] OTHER -> PathFindings(c) \cup DaemonFindings(c)

-----------------------------------------------------------------------------
HealthInit ==
  /\ world \in HealthWorlds
  /\ snap = [found |-> {}, running |-> FALSE, gen |-> 0] /\ shown = snap
  /\ trips = [c \in HealthChecks |-> 0] /\ suspended = {}
  /\ batch = [b \in Batches |-> NoBatch] /\ pings = 0
  /\ breaker = [failures |-> 0, cooled |-> FALSE]
  /\ worker = [i \in ActionIds |-> [queued |-> 0, running |-> 0, leaving |-> 0]]
  /\ guard = [i \in ActionIds |-> FALSE]
  /\ loop = "off" /\ batches = 0 /\ submits = 0

Phases == {"on", "pub", "off"}
HealthTypeOK ==
  /\ world \in Worlds
  /\ \A s \in {snap, shown} : s.found \subseteq Findings /\ s.running \in BOOLEAN /\ s.gen \in Nat
  /\ trips \in [HealthChecks -> 0..SuspendTrips] /\ suspended \subseteq HealthChecks
  /\ \A b \in Batches : batch[b] # NoBatch =>
       batch[b].pc \in (Phases \X {"load", "store", "notify"}) \cup {<<"checks">>}
  /\ pings \in 0..2 /\ breaker.failures \in 0..(MaxFailures + 1)
  /\ guard \in [ActionIds -> BOOLEAN] /\ loop \in {"off", "on", "closing", "draining", "closed"}

(* A batch.                                                                  *)
BeginBatch(b) ==
  /\ batch[b] = NoBatch /\ batches < MaxBatches /\ batches' = batches + 1
  /\ b \in Tickers => loop = "on"
  /\ b \in Clickers => ~shown.running \/ \E f \in shown.found : f.sev = "blocker"
  /\ batch' = [batch EXCEPT ![b] = [pc |-> <<"on", "load">>, wait |-> {}, busy |-> {},
                                    asked |-> FALSE, got |-> {}, late |-> {}, ran |-> {},
                                    copy |-> snap]]
  /\ UNCHANGED <<world, snap, shown, checkVars, actionVars, loop>>

\* Mutation of LoadSnap: a batch that ends beside another leaves the flag to it.
MutantLoadSnap(b) ==
  /\ \E p \in Phases : batch[b].pc = <<p, "load">>
  /\ LET p == batch[b].pc[1]
     IN batch' = [batch EXCEPT ![b].pc = <<p, "store">>,
           ![b].copy = IF p = "pub"
                       THEN [found |-> batch[b].got, running |-> FALSE, gen |-> snap.gen + 1]
                       ELSE [snap EXCEPT !.running = p = "on" \/ \E o \in Batches \ {b} :
                                                                batch[o] # NoBatch]]
  /\ UNCHANGED <<world, snap, shown, checkVars, actionVars, loop, batches>>

\* publishRunning(true), publish and publishRunning(false): the snapshot is
\* loaded, a changed copy is stored, and the subscriber is called with it.
LoadSnap(b) ==
  /\ \E p \in Phases : batch[b].pc = <<p, "load">>
  /\ LET p == batch[b].pc[1]
     IN batch' = [batch EXCEPT ![b].pc = <<p, "store">>,
           ![b].copy = IF p = "pub"
                       THEN [found |-> batch[b].got, running |-> FALSE, gen |-> snap.gen + 1]
                       ELSE [snap EXCEPT !.running = (p = "on")]]
  /\ UNCHANGED <<world, snap, shown, checkVars, actionVars, loop, batches>>
StoreSnap(b) ==
  /\ \E p \in Phases : batch[b].pc = <<p, "store">>
  /\ snap' = batch[b].copy
  /\ batch' = [batch EXCEPT ![b].pc = <<@[1], "notify">>]
  /\ UNCHANGED <<world, shown, checkVars, actionVars, loop, batches>>
\* After the first of them the checks that are not suspended are begun.
Notify(b) ==
  /\ \E p \in Phases : batch[b].pc = <<p, "notify">>
  /\ shown' = batch[b].copy
  /\ batch' = [batch EXCEPT ![b] =
       CASE @.pc[1] = "on" -> [@ EXCEPT !.pc = <<"checks">>,
                  !.wait = {c \in HealthChecks : Bundled(c)} \ suspended]
         [] @.pc[1] = "pub" -> [@ EXCEPT !.pc = <<"off", "load">>]
         [] OTHER -> NoBatch]
  /\ UNCHANGED <<world, snap, checkVars, actionVars, loop, batches>>

Running(b) == IF batch[b] = NoBatch THEN 0 ELSE Cardinality(batch[b].busy)
Free == CheckSlots - Running("loop") -
        Cardinality(UNION {IF batch[b] = NoBatch THEN {} ELSE {b} \X batch[b].busy : b \in Clickers})
Cancelled(b) == b \in Tickers /\ loop # "on"

\* A check's goroutine gets its slot, or gives up with the batch's context.
StartCheck(b, c) ==
  /\ batch[b] # NoBatch /\ c \in batch[b].wait
  /\ \/ /\ Free > 0
        /\ batch' = [batch EXCEPT ![b].wait = @ \ {c}, ![b].busy = @ \cup {c},
                        ![b].asked = IF c = "disk-low" THEN Allow(breaker) ELSE @]
     \/ Cancelled(b) /\ batch' = [batch EXCEPT ![b].wait = @ \ {c}]
  /\ UNCHANGED <<world, snap, shown, checkVars, actionVars, loop, batches>>

\* The check returns: in time, or late when Docker hangs.  A cancelled one
\* fails, and so does the disk check when neither side could be read.
EndCheck(b, c) ==
  /\ batch[b] # NoBatch /\ c \in batch[b].busy
  /\ LET asks == c \notin {"rosetta", "wsl-mnt-c", "windows-longpath", "mkcert-missing"}
                 /\ (c = "disk-low" => batch[b].asked)
         down == world.docker # "up" \/ Cancelled(b)
     IN /\ batch' = [batch EXCEPT ![b].busy = @ \ {c}, ![b].ran = @ \cup {c},
              ![b].got = @ \cup FindingsOf(c, batch[b].asked),
              ![b].late = IF asks /\ world.docker = "hung" THEN @ \cup {c} ELSE @]
        /\ pings' = IF c = "docker-down" THEN IF down THEN (IF pings = 2 THEN 2 ELSE pings + 1) ELSE 0
                    ELSE pings
        /\ breaker' = IF c = "disk-low" /\ asks
                      THEN IF down THEN OnFailure(breaker) ELSE OnSuccess
                      ELSE breaker
  /\ UNCHANGED <<world, snap, shown, trips, suspended, actionVars, loop, batches>>

\* Every check is back: recordBudget for each, then publish.
CollateBatch(b) ==
  /\ batch[b] # NoBatch /\ batch[b].pc = <<"checks">>
  /\ batch[b].wait = {} /\ batch[b].busy = {}
  /\ LET late == batch[b].late
         over == {c \in late : trips[c] + 1 >= SuspendTrips}
     IN /\ trips' = [c \in HealthChecks |-> IF c \in over \/ c \in batch[b].ran \ late THEN 0
                                            ELSE IF c \in late THEN trips[c] + 1 ELSE trips[c]]
        /\ suspended' = suspended \cup over
  /\ batch' = [batch EXCEPT ![b].pc = <<"pub", "load">>]
  /\ UNCHANGED <<world, snap, shown, pings, breaker, actionVars, loop, batches>>

\* The cadence and the breaker's hour go by; Docker and the disk change.
TimePasses ==
  /\ \/ /\ suspended # {} /\ suspended' = {} /\ UNCHANGED breaker
     \/ /\ BreakerState(breaker) = "open" /\ breaker' = [breaker EXCEPT !.cooled = TRUE]
        /\ UNCHANGED suspended
  /\ UNCHANGED <<world, snap, shown, trips, batch, pings, actionVars, loop, batches>>
WorldChanges ==
  /\ \E w \in HealthWorlds : w # world /\ world' = w
  /\ UNCHANGED <<snap, shown, checkVars, batch, actionVars, loop, batches>>

(* The executor of remediations, and Start and Close.                        *)
StartLoop == /\ loop = "off" /\ loop' = "on"
             /\ UNCHANGED <<world, snap, shown, checkVars, batch, actionVars, batches>>
\* Close cancels the loop and waits for it, then closes the executor and waits
\* for its goroutines.
CloseRunner ==
  /\ \/ loop = "off" /\ loop' = "draining"
     \/ loop = "on" /\ loop' = "closing"
     \/ loop = "closing" /\ (\A b \in Tickers : batch[b] = NoBatch) /\ loop' = "draining"
     \/ /\ loop = "draining" /\ loop' = "closed"
        /\ \A i \in ActionIds : worker[i].queued + worker[i].running + worker[i].leaving = 0
  /\ UNCHANGED <<world, snap, shown, checkVars, batch, actionVars, batches>>

\* SubmitAction: ErrAlreadyRunning when the flag is up.
Submit(i) ==
  /\ submits < MaxSubmits /\ submits' = submits + 1
  /\ IF guard[i] THEN UNCHANGED <<guard, worker>>
     ELSE guard' = [guard EXCEPT ![i] = TRUE] /\ worker' = [worker EXCEPT ![i].queued = @ + 1]
  /\ UNCHANGED <<world, snap, shown, checkVars, batch, loop, batches>>
Slots == {t \in ActionIds \X {"running", "leaving"} \X (1..MaxSubmits) : t[3] <= worker[t[1]][t[2]]}
\* With the executor closed the select may still find a slot.
StartAction(i) ==
  /\ worker[i].queued > 0
  /\ \/ /\ Cardinality(Slots) < ActionSlots
        /\ worker' = [worker EXCEPT ![i].queued = @ - 1, ![i].running = @ + 1]
        /\ UNCHANGED guard
     \/ /\ loop \in {"draining", "closed"}
        /\ worker' = [worker EXCEPT ![i].queued = @ - 1]
        /\ guard' = [guard EXCEPT ![i] = FALSE]
  /\ UNCHANGED <<world, snap, shown, checkVars, batch, loop, batches, submits>>
\* The action's end lowers the flag; the slot is given back after it.
EndAction(i) ==
  /\ \/ /\ worker[i].running > 0 /\ guard' = [guard EXCEPT ![i] = FALSE]
        /\ worker' = [worker EXCEPT ![i].running = @ - 1, ![i].leaving = @ + 1]
     \/ /\ worker[i].leaving > 0 /\ worker' = [worker EXCEPT ![i].leaving = @ - 1]
        /\ UNCHANGED guard
  /\ UNCHANGED <<world, snap, shown, checkVars, batch, loop, batches, submits>>

HealthNext ==
  \/ \E b \in Batches :
       \/ BeginBatch(b) \/ LoadSnap(b) \/ StoreSnap(b) \/ Notify(b) \/ CollateBatch(b)
       \/ \E c \in HealthChecks : StartCheck(b, c) \/ EndCheck(b, c)
  \/ TimePasses \/ WorldChanges \/ StartLoop \/ CloseRunner
  \/ \E i \in ActionIds : Submit(i) \/ StartAction(i) \/ EndAction(i)
HealthSpec == HealthInit /\ [][HealthNext]_healthVars
-----------------------------------------------------------------------------
\* When no batch is under way neither the snapshot nor the panel says one is:
\* however the loads, stores and calls of overlapping batches fall, the last of
\* each is one that says idle, and Re-check is offered again.
QuietWhenIdle ==
  (\A b \in Batches : batch[b] = NoBatch) => ~snap.running /\ ~shown.running

\* A finding's inflight flag is up exactly while one goroutine has yet to run
\* or to finish its remediation: never two at once, and never a flag that
\* refuses the next click for good, the executor's close included.
GuardIsHeld ==
  \A i \in ActionIds : worker[i].queued + worker[i].running = IF guard[i] THEN 1 ELSE 0

\* Snapshot.Generation, as check.go has it: a monotonic counter.
GenerationGrows == [][snap'.gen >= snap.gen]_healthVars
=============================================================================
