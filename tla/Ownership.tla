----------------------------- MODULE Ownership -----------------------------
(***************************************************************************)
(* Which process owns the machine's Docker resources: owner.lock           *)
(* (internal/daemon/lock.go), the IPC socket (transport_unix.go,           *)
(* client.go) and the start and the end of the two kinds of process that   *)
(* compete for them (daemon_setup.go, main.go, internal/app/app.go), on a  *)
(* POSIX host.  A step is one system call, or one call of App.             *)
(*                                                                         *)
(* A lock file that is removed lives on while a process has it open, so    *)
(* the path and the file are two things: `file' is what the path names,    *)
(* fd[p] what p has open, and flock belongs to the file.                   *)
(***************************************************************************)
CONSTANTS
  Procs,                      \* GUI and daemon processes, by pid
  Guis,                       \* the ones with a window
  Clis,                       \* CLI invocations, clients of a daemon
  Files,                      \* lock files (inodes); one per process is enough
  Faults,                     \* what may go wrong, a subset of FaultKinds
  None

(* crash: the process is killed; info: the owner info cannot be written;   *)
(* listen: the socket cannot be bound or its mode set; init: Docker is     *)
(* down or a port is taken; recycle: the pid of a process that is gone may *)
(* be that of another program by now.                                      *)
FaultKinds == {"crash", "info", "listen", "init", "recycle"}

ASSUME OwnersAreDistinct ==
  Guis \subseteq Procs /\ None \notin Procs /\ None \notin Files
ASSUME OwnershipSwitches == Faults \subseteq FaultKinds

VARIABLES
  pc,                         \* each process: where it is
  file,                       \* the lock file at the path
  fd,                         \* the lock file each process has open
  flocked,                    \* the processes that have the lock of their fd
  info,                       \* who wrote owner.lock.info
  seen,                       \* the owner each refused process has read there
  crossed,                    \* history: a lock operation hit a live owner
  sock,                       \* the process that bound the socket at the path
  up,                         \* the processes whose containers are up
  window,                     \* each GUI: its window, closed early or in order
  cli                         \* each CLI: where EnsureDaemon is

disk == <<file, fd, flocked, info, seen, crossed>>
vars == <<pc, disk, sock, up, window, cli>>

Acquiring == {"lock", "check", "probe", "unlinkFile", "unlinkInfo",
              "reopen", "relock", "write"}
Releasing == {"relInfo", "relFile", "relLock"}

Pc == Acquiring \union Releasing \union
      {"off", "open", "unlinkSock", "bind", "wipe", "bringUp", "initFailed",
       "run", "close", "lastWipe", "gone"}

Cli == {"idle", "spawn", "poll", "connected", "failed"}

Alive(p) == pc[p] \notin {"off", "gone"}

(* processAlive of the pid that was read: kill(pid, 0) tells whether some  *)
(* process has it, and not which.                                          *)
ProcessAlive(p) ==
  seen[p] # None /\ (Alive(seen[p]) \/ "recycle" \in Faults)

(* No pid, or nobody has it.                                               *)
ProcessGone(p) == seen[p] # None => ~Alive(seen[p])

(* The process that wrote the info file still runs.                        *)
WriterLives == info # None /\ Alive(info)

(* From a successful finishAcquire to the start of Release.                *)
Owns(p) == p \in flocked /\ pc[p] \notin Acquiring \union Releasing

(* Its listener accepts.                                                   *)
Serves(p) ==
  /\ sock = p
  /\ pc[p] \in {"wipe", "bringUp", "run", "close", "lastWipe"}

Goto(p, l) == pc' = [pc EXCEPT ![p] = l]

(* open(O_CREATE).                                                         *)
OpenFile(p) ==
  /\ IF file = None
     THEN \E i \in Files \ {fd[q] : q \in Procs} : file' = i
     ELSE UNCHANGED file
  /\ fd' = [fd EXCEPT ![p] = file']

(* close, or the end of the process: flock goes with the descriptor.       *)
CloseFile(p) ==
  /\ fd' = [fd EXCEPT ![p] = None]
  /\ flocked' = flocked \ {p}

Lockable(p) == \A q \in flocked : fd[q] # fd[p]

-----------------------------------------------------------------------------
Init ==
  /\ pc = [p \in Procs |-> "off"]
  /\ file = None
  /\ fd = [p \in Procs |-> None]
  /\ flocked = {}
  /\ info = None
  /\ seen = [p \in Procs |-> None]
  /\ crossed = FALSE
  /\ sock = None
  /\ up = {}
  /\ window = [p \in Procs |-> "open"]
  /\ cli = [k \in Clis |-> "idle"]

(* The user starts the application, or `locorum daemon'.  A daemon takes   *)
(* the lock first; a GUI initialises Docker first.                         *)
Launch(p) ==
  /\ pc[p] = "off"
  /\ Goto(p, IF p \in Guis THEN "wipe" ELSE "open")
  /\ UNCHANGED <<disk, sock, up, window, cli>>

(* Acquire.                                                                *)
Open(p) ==
  /\ pc[p] = "open"
  /\ OpenFile(p)
  /\ Goto(p, "lock")
  /\ UNCHANGED <<flocked, info, seen, crossed, sock, up, window, cli>>

(* Mutation of Flock: the lock is taken whoever has it.                    *)
FlockBlindly(p) ==
  /\ pc[p] \in {"lock", "relock"}
  /\ flocked' = flocked \union {p}
  /\ crossed' = (crossed \/ fd[p] # file)
  /\ Goto(p, "write")
  /\ UNCHANGED <<file, fd, info, seen, sock, up, window, cli>>

(* The file may have gone from its path since it was opened.               *)
Flock(p) ==
  /\ pc[p] \in {"lock", "relock"} /\ Lockable(p)
  /\ flocked' = flocked \union {p}
  /\ crossed' = (crossed \/ fd[p] # file)
  /\ Goto(p, "write")
  /\ UNCHANGED <<file, fd, info, seen, sock, up, window, cli>>

FlockFails(p) ==
  /\ pc[p] = "lock" /\ ~Lockable(p)
  /\ Goto(p, "check")
  /\ UNCHANGED <<disk, sock, up, window, cli>>

(* A GUI goes on without the lock, a daemon exits.                         *)
Refuse(p) ==
  /\ CloseFile(p)
  /\ Goto(p, IF p \in Guis THEN "run" ELSE "gone")

ReadOwner(p) ==
  /\ pc[p] = "check"
  /\ seen' = [seen EXCEPT ![p] = info]
  /\ CloseFile(p)
  /\ Goto(p, "probe")
  /\ UNCHANGED <<file, info, crossed, sock, up, window, cli>>

(* ErrLocked.                                                              *)
OwnerAlive(p) ==
  /\ pc[p] = "probe" /\ ProcessAlive(p)
  /\ seen' = [seen EXCEPT ![p] = None]
  /\ Refuse(p)
  /\ UNCHANGED <<file, info, crossed, sock, up, window, cli>>

OwnerStale(p) ==
  /\ pc[p] = "probe" /\ ProcessGone(p)
  /\ seen' = [seen EXCEPT ![p] = None]
  /\ Goto(p, "unlinkFile")
  /\ UNCHANGED <<file, fd, flocked, info, crossed, sock, up, window, cli>>

(* By path: it may be the file of a process that has its lock.             *)
RemoveStaleFile(p) ==
  /\ pc[p] = "unlinkFile"
  /\ file' = None
  /\ crossed' = (crossed \/ \E q \in flocked : fd[q] = file)
  /\ Goto(p, "unlinkInfo")
  /\ UNCHANGED <<fd, flocked, info, seen, sock, up, window, cli>>

(* And the info may be that of a process that runs.                        *)
RemoveStaleInfo(p) ==
  /\ pc[p] = "unlinkInfo"
  /\ info' = None
  /\ crossed' = (crossed \/ WriterLives)
  /\ Goto(p, "reopen")
  /\ UNCHANGED <<file, fd, flocked, seen, sock, up, window, cli>>

Reopen(p) ==
  /\ pc[p] = "reopen"
  /\ OpenFile(p)
  /\ Goto(p, "relock")
  /\ UNCHANGED <<flocked, info, seen, crossed, sock, up, window, cli>>

RelockFails(p) ==
  /\ pc[p] = "relock" /\ ~Lockable(p)
  /\ Refuse(p)
  /\ UNCHANGED <<file, info, seen, crossed, sock, up, window, cli>>

(* finishAcquire.                                                          *)
WriteInfo(p) ==
  /\ pc[p] = "write"
  /\ info' = p
  /\ Goto(p, "unlinkSock")
  /\ UNCHANGED <<file, fd, flocked, seen, crossed, sock, up, window, cli>>

WriteInfoFails(p) ==
  /\ pc[p] = "write" /\ "info" \in Faults
  /\ Refuse(p)
  /\ UNCHANGED <<file, info, seen, crossed, sock, up, window, cli>>

-----------------------------------------------------------------------------
(* Listen: the leftover socket is removed without a look, then a new one   *)
(* is bound.                                                               *)
RemoveStaleSocket(p) ==
  /\ pc[p] = "unlinkSock"
  /\ sock' = None
  /\ Goto(p, "bind")
  /\ UNCHANGED <<disk, up, window, cli>>

Bind(p) ==
  /\ pc[p] = "bind" /\ sock = None
  /\ sock' = p
  /\ Goto(p, IF p \in Guis THEN "run" ELSE "wipe")
  /\ UNCHANGED <<disk, up, window, cli>>

BindFails(p) ==
  /\ pc[p] = "bind"
  /\ sock # None \/ "listen" \in Faults
  /\ Goto(p, "relInfo")
  /\ UNCHANGED <<disk, sock, up, window, cli>>

(* App.Initialize: WipeLabelled, then BringUpGlobals.                      *)
Wipe(p) ==
  /\ pc[p] = "wipe"
  /\ up' = {}
  /\ Goto(p, "bringUp")
  /\ UNCHANGED <<disk, sock, window, cli>>

BringUp(p) ==
  /\ pc[p] = "bringUp"
  /\ up' = up \union {p}
  /\ Goto(p, IF p \in Guis THEN "open" ELSE "run")
  /\ UNCHANGED <<disk, sock, window, cli>>

(* A GUI shows the error and lets the user retry; a daemon calls os.Exit,  *)
(* which runs no deferred call.                                            *)
InitFails(p) ==
  /\ pc[p] \in {"wipe", "bringUp"} /\ "init" \in Faults
  /\ IF p \in Guis
     THEN Goto(p, "initFailed") /\ UNCHANGED <<fd, flocked>>
     ELSE Goto(p, "gone") /\ CloseFile(p)
  /\ UNCHANGED <<file, info, seen, crossed, sock, up, window, cli>>

RetryInit(p) ==
  /\ pc[p] = "initFailed"
  /\ Goto(p, "wipe")
  /\ UNCHANGED <<disk, sock, up, window, cli>>

-----------------------------------------------------------------------------
(* The end.  A daemon wipes, closes its server and releases the lock; a    *)
(* GUI closes its server, releases the lock and wipes.                     *)

(* The user closes the window, or the daemon gets a signal.                *)
Quit(p) ==
  /\ pc[p] \in {"run", "initFailed"} /\ window[p] = "open"
  /\ Goto(p, IF p \in Guis /\ p \in flocked THEN "close" ELSE "lastWipe")
  /\ window' = [window EXCEPT ![p] = "closed"]
  /\ UNCHANGED <<disk, sock, up, cli>>

(* The window is closed while initFunc still runs: no lock is seen, App is *)
(* shut down, and the process exits wherever initFunc has got by then.     *)
QuitEarly(p) ==
  /\ p \in Guis /\ window[p] = "open"
  /\ pc[p] \in Acquiring \union {"open", "unlinkSock", "bind", "wipe", "bringUp"}
  /\ window' = [window EXCEPT ![p] = "early"]
  /\ up' = {}
  /\ UNCHANGED <<pc, disk, sock, cli>>

ExitEarly(p) ==
  /\ window[p] = "early"
  /\ pc[p] \in Acquiring \union {"open", "unlinkSock", "bind", "wipe", "bringUp",
                              "initFailed", "run"}
  /\ Goto(p, "gone")
  /\ CloseFile(p)
  /\ UNCHANGED <<file, info, seen, crossed, sock, up, window, cli>>

(* App.Shutdown.                                                           *)
LastWipe(p) ==
  /\ pc[p] = "lastWipe"
  /\ up' = {} \/ ("init" \in Faults /\ UNCHANGED up)
  /\ IF p \in flocked
     THEN Goto(p, "close") /\ UNCHANGED <<fd, flocked>>
     ELSE Goto(p, "gone") /\ CloseFile(p)
  /\ UNCHANGED <<file, info, seen, crossed, sock, window, cli>>

(* Server.Shutdown: closing the listener unlinks the path, whoever bound   *)
(* it.                                                                     *)
CloseServer(p) ==
  /\ pc[p] = "close"
  /\ sock' = None
  /\ Goto(p, "relInfo")
  /\ UNCHANGED <<disk, up, window, cli>>

(* Mutation of RemoveInfo: Release leaves the info file.                   *)
RemoveInfoNot(p) ==
  /\ pc[p] = "relInfo"
  /\ Goto(p, "relFile")
  /\ UNCHANGED <<disk, sock, up, window, cli>>

(* Release.                                                                *)
RemoveInfo(p) ==
  /\ pc[p] = "relInfo"
  /\ info' = None
  /\ Goto(p, "relFile")
  /\ UNCHANGED <<file, fd, flocked, seen, crossed, sock, up, window, cli>>

RemoveFile(p) ==
  /\ pc[p] = "relFile"
  /\ file' = None
  /\ Goto(p, "relLock")
  /\ UNCHANGED <<fd, flocked, info, seen, crossed, sock, up, window, cli>>

(* What follows: a GUI whose Listen failed goes on, one that quits wipes.  *)
Unlock(p) ==
  /\ pc[p] = "relLock"
  /\ CloseFile(p)
  /\ Goto(p, IF p \notin Guis THEN "gone"
             ELSE IF window[p] = "closed" THEN "lastWipe" ELSE "run")
  /\ UNCHANGED <<file, info, seen, crossed, sock, up, window, cli>>

(* SIGKILL, a power cut, a panic: nothing is cleaned up.                   *)
Crash(p) ==
  /\ "crash" \in Faults /\ Alive(p)
  /\ Goto(p, "gone")
  /\ CloseFile(p)
  /\ UNCHANGED <<file, info, seen, crossed, sock, up, window, cli>>

-----------------------------------------------------------------------------
(* EnsureDaemon.                                                           *)

(* A socket file without a listener refuses the connection, which is not   *)
(* ErrNoDaemon.                                                            *)
FirstDial(k) ==
  /\ cli[k] = "idle"
  /\ cli' = [cli EXCEPT ![k] =
       IF sock = None THEN "spawn"
       ELSE IF Serves(sock) THEN "connected" ELSE "failed"]
  /\ UNCHANGED <<pc, disk, sock, up, window>>

SpawnDaemon(k) ==
  /\ cli[k] = "spawn"
  /\ \E p \in Procs \ Guis : pc[p] = "off" /\ Goto(p, "open")
  /\ cli' = [cli EXCEPT ![k] = "poll"]
  /\ UNCHANGED <<disk, sock, up, window>>

Redial(k) ==
  /\ cli[k] = "poll"
  /\ \/ sock # None /\ Serves(sock) /\ cli' = [cli EXCEPT ![k] = "connected"]
     \/ cli' = [cli EXCEPT ![k] = "failed"]
  /\ UNCHANGED <<pc, disk, sock, up, window>>

-----------------------------------------------------------------------------
Acquire(p) ==
  \/ Open(p) \/ Flock(p) \/ FlockFails(p) \/ ReadOwner(p) \/ OwnerAlive(p)
  \/ OwnerStale(p) \/ RemoveStaleFile(p) \/ RemoveStaleInfo(p)
  \/ Reopen(p) \/ RelockFails(p) \/ WriteInfo(p) \/ WriteInfoFails(p)

Start(p) ==
  \/ Launch(p) \/ RemoveStaleSocket(p) \/ Bind(p) \/ BindFails(p)
  \/ Wipe(p) \/ BringUp(p) \/ InitFails(p) \/ RetryInit(p)

Finish(p) ==
  \/ Quit(p) \/ QuitEarly(p) \/ ExitEarly(p) \/ LastWipe(p) \/ CloseServer(p) \/ RemoveInfo(p)
  \/ RemoveFile(p) \/ Unlock(p)

EnsureDaemon(k) == FirstDial(k) \/ SpawnDaemon(k) \/ Redial(k)

Next ==
  \/ \E p \in Procs : Acquire(p) \/ Start(p) \/ Finish(p) \/ Crash(p)
  \/ \E k \in Clis : EnsureDaemon(k)

Spec == Init /\ [][Next]_vars

-----------------------------------------------------------------------------
(* Properties.                                                             *)

(* Every variable keeps its type, and a lock is on a file that is open.    *)
TypeOK ==
  /\ pc \in [Procs -> Pc]
  /\ file \in Files \union {None}
  /\ fd \in [Procs -> Files \union {None}]
  /\ flocked \subseteq {p \in Procs : fd[p] # None}
  /\ info \in Procs \union {None}
  /\ seen \in [Procs -> Procs \union {None}]
  /\ crossed \in BOOLEAN
  /\ sock \in Procs \union {None}
  /\ up \subseteq Procs
  /\ window \in [Procs -> {"open", "early", "closed"}]
  /\ cli \in [Clis -> Cli]

(* The info file outlives its writer only where the writer was killed:     *)
(* whatever Acquires, Releases, crashes and failed writes interleave, the  *)
(* process that wrote it either is gone or has the lock on its file, so a  *)
(* refusal can name a process that has let go only by a pid that was       *)
(* recycled, or because the process let go between the read and the probe  *)
(* (Acquire, Release).                                                     *)
OwnerInfoIsHonest == WriterLives => info \in flocked

(* Two processes own the machine only after one of them has removed the    *)
(* lock or info file of the other, or locked a file that had gone from its *)
(* path: Acquires that meet each other, Releases, crashes and recycled     *)
(* pids make two owners in no other way (Acquire, Release).                *)
OwnersCross == ~crossed => \A p, q \in Procs : Owns(p) /\ Owns(q) => p = q

(* Until that has happened, a daemon that runs is the one everybody finds: *)
(* the lock path, the info file and the socket are its own, whatever       *)
(* earlier processes left behind and however many CLIs spawn daemons at    *)
(* once; and so are the containers, while no GUI has been started.         *)
DaemonIsFound ==
  \A p \in Procs \ Guis :
    ~crossed /\ pc[p] = "run" =>
      /\ p \in flocked /\ fd[p] = file /\ info = p
      /\ Serves(p)
      /\ (\A g \in Guis : pc[g] = "off") => p \in up

(* lock.go:187-188: "The takeover is OS-atomic via flock(LOCK_EX|LOCK_NB), *)
(* so two simultaneous takeovers can't both succeed".                      *)
OneOwner == \A p, q \in Procs : Owns(p) /\ Owns(q) => p = q

(* lock.go:8-12: "Two processes both calling app.Initialize would          *)
(* race-delete each other's Docker resources [...]  Instead, exactly one   *)
(* process holds the lock and runs the daemon goroutines": the owner's     *)
(* containers go only by a step of its own.                                *)
OnlyOwnerWipes ==
  [][\A p \in Procs :
       Owns(p) /\ p \in up /\ p \notin up' =>
         <<pc[p], window[p]>>' # <<pc[p], window[p]>>]_vars

=============
