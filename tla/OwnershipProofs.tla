-------------------------- MODULE OwnershipProofs --------------------------
(***************************************************************************)
(* Proofs about Ownership.  Three invariants, each built on the one before *)
(* it: what holds of every interleaving (Honest); what holds of the owners *)
(* until a lock operation has hit one of them (Orderly); what holds then   *)
(* of the daemons among them (Served).                                     *)
(***************************************************************************)
EXTENDS Ownership, TLAPS

(* The states of a process that a GUI reaches without the lock, a daemon   *)
(* only with it.                                                           *)
Docker == {"wipe", "bringUp", "run", "lastWipe"}

(* A process that tries the lock has a file open; only a GUI survives a    *)
(* failed Initialize.                                                      *)
Opened == \A p \in Procs :
  /\ pc[p] \in {"lock", "check", "relock"} => fd[p] # None
  /\ pc[p] = "initFailed" => p \in Guis

(* Where a process must have the lock, and where it cannot have it.        *)
MustHold(p) == \/ pc[p] \in Releasing \union {"write", "unlinkSock", "bind",
                                              "close"}
               \/ p \notin Guis /\ pc[p] \in Docker
CannotHold(p) ==
  \/ pc[p] \in (Acquiring \ {"write"}) \union {"off", "open", "gone"}
  \/ p \in Guis /\ pc[p] \in {"wipe", "bringUp", "initFailed", "lastWipe"}

Locked == \A p \in Procs : /\ MustHold(p) => p \in flocked
                           /\ CannotHold(p) => p \notin flocked

(* flock: a file has one holder.                                           *)
Distinct == \A p, q \in flocked : fd[p] = fd[q] => p = q

(* The info file names a live writer only between its write and its        *)
(* removal.                                                                *)
Named ==
  /\ info # None => pc[info] # "off"
  /\ WriterLives => /\ info \in flocked
                    /\ pc[info] \notin Acquiring \union {"relFile", "relLock"}

Honest == TypeOK /\ Opened /\ Locked /\ Distinct /\ Named

LEMMA HonestInit == Init => Honest
BY OwnersAreDistinct
DEF Init, Honest, TypeOK, Opened, Locked, MustHold, CannotHold, Distinct, Named,
    WriterLives, Alive, Pc, Cli, Acquiring, Releasing, Docker

(* open() leaves a file at the path and hands it over.                     *)
LEMMA OpenFileOpens ==
  ASSUME TypeOK, NEW p \in Procs, OpenFile(p)
  PROVE  /\ file' \in Files /\ file' # None
         /\ fd' = [fd EXCEPT ![p] = file']
         /\ file # None => file' = file
BY OwnersAreDistinct DEF TypeOK, OpenFile

LEMMA HonestNext == Honest /\ [Next]_vars => Honest'
<1> SUFFICES ASSUME Honest, [Next]_vars PROVE Honest'
    OBVIOUS
<1> USE OwnersAreDistinct
    DEF Honest, TypeOK, Opened, Locked, MustHold, CannotHold, Distinct, Named, WriterLives,
        Alive, Pc, Cli, Acquiring, Releasing, Docker, Goto, disk
<1>1. ASSUME NEW p \in Procs, Acquire(p) PROVE Honest'
  <2>1. CASE Open(p)
    BY <2>1, OpenFileOpens DEF Open
  <2>2. CASE Flock(p)
    BY <2>2 DEF Flock, Lockable
  <2>3. CASE FlockFails(p)
    BY <2>3 DEF FlockFails
  <2>12. CASE ReadOwner(p)
    BY <2>12 DEF ReadOwner, CloseFile
  <2>4. CASE OwnerAlive(p)
    BY <2>4 DEF OwnerAlive, Refuse, CloseFile
  <2>5. CASE OwnerStale(p)
    BY <2>5 DEF OwnerStale
  <2>6. CASE RemoveStaleFile(p)
    BY <2>6 DEF RemoveStaleFile
  <2>7. CASE RemoveStaleInfo(p)
    BY <2>7 DEF RemoveStaleInfo
  <2>8. CASE Reopen(p)
    BY <2>8, OpenFileOpens DEF Reopen
  <2>9. CASE RelockFails(p)
    BY <2>9 DEF RelockFails, Refuse, CloseFile
  <2>10. CASE WriteInfo(p)
    BY <2>10 DEF WriteInfo
  <2>11. CASE WriteInfoFails(p)
    BY <2>11 DEF WriteInfoFails, Refuse, CloseFile
  <2> QED
    BY <1>1, <2>1, <2>2, <2>3, <2>4, <2>5, <2>6, <2>7, <2>8, <2>9, <2>10, <2>11,
       <2>12
    DEF Acquire
<1>2. ASSUME NEW p \in Procs, Start(p) PROVE Honest'
  <2>1. CASE Launch(p)
    BY <2>1 DEF Launch
  <2>2. CASE RemoveStaleSocket(p)
    BY <2>2 DEF RemoveStaleSocket
  <2>3. CASE Bind(p)
    BY <2>3 DEF Bind
  <2>4. CASE BindFails(p)
    BY <2>4 DEF BindFails
  <2>5. CASE Wipe(p)
    BY <2>5 DEF Wipe
  <2>6. CASE BringUp(p)
    BY <2>6 DEF BringUp
  <2>7. CASE InitFails(p)
    BY <2>7 DEF InitFails, CloseFile
  <2>8. CASE RetryInit(p)
    BY <2>8 DEF RetryInit
  <2> QED
    BY <1>2, <2>1, <2>2, <2>3, <2>4, <2>5, <2>6, <2>7, <2>8 DEF Start
<1>3. ASSUME NEW p \in Procs, Finish(p) PROVE Honest'
  <2>1. CASE Quit(p)
    BY <2>1 DEF Quit
  <2>2. CASE QuitEarly(p)
    BY <2>2 DEF QuitEarly
  <2>3. CASE ExitEarly(p)
    BY <2>3 DEF ExitEarly, CloseFile
  <2>4. CASE LastWipe(p)
    BY <2>4 DEF LastWipe, CloseFile
  <2>5. CASE CloseServer(p)
    BY <2>5 DEF CloseServer
  <2>6. CASE RemoveInfo(p)
    BY <2>6 DEF RemoveInfo
  <2>7. CASE RemoveFile(p)
    BY <2>7 DEF RemoveFile
  <2>8. CASE Unlock(p)
    BY <2>8 DEF Unlock, CloseFile
  <2> QED
    BY <1>3, <2>1, <2>2, <2>3, <2>4, <2>5, <2>6, <2>7, <2>8 DEF Finish
<1>4. ASSUME NEW p \in Procs, Crash(p) PROVE Honest'
  BY <1>4 DEF Crash, CloseFile
<1>5. ASSUME NEW k \in Clis, EnsureDaemon(k) PROVE Honest'
  <2>1. CASE FirstDial(k)
    BY <2>1 DEF FirstDial
  <2>2. CASE SpawnDaemon(k)
    BY <2>2 DEF SpawnDaemon
  <2>3. CASE Redial(k)
    BY <2>3 DEF Redial
  <2> QED
    BY <1>5, <2>1, <2>2, <2>3 DEF EnsureDaemon
<1>6. CASE UNCHANGED vars
  BY <1>6 DEF vars
<1> QED
  BY <1>1, <1>2, <1>3, <1>4, <1>5, <1>6 DEF Next


(* Type correctness, for any processes, CLIs and faults.                   *)
THEOREM TypeCorrect == Spec => []TypeOK
<1>1. Honest => TypeOK
  BY DEF Honest
<1> QED
  BY HonestInit, HonestNext, <1>1, PTL DEF Spec

(* Whatever processes race, and wherever they die, the writer of the info  *)
(* file is gone or has the lock (Acquire, Release).                        *)
THEOREM InfoIsHonest == Spec => []OwnerInfoIsHonest
<1>1. Honest => OwnerInfoIsHonest
  BY DEF Honest, Named, OwnerInfoIsHonest
<1> QED
  BY HonestInit, HonestNext, <1>1, PTL DEF Spec

-----------------------------------------------------------------------------
(* The owners, until a lock operation hits one of them.                    *)

(* A lock is on the file at the path, until its holder removes that.       *)
AtPath == \A p \in flocked : pc[p] # "relLock" => fd[p] = file

Announced == \A p \in Procs : Owns(p) => info = p

Orderly == Honest /\ (crossed \/ (AtPath /\ Announced))

LEMMA OrderlyInit == Init => Orderly
<1> SUFFICES ASSUME Init PROVE Orderly
  OBVIOUS
<1> QED
  BY HonestInit DEF Init, Orderly, AtPath, Announced, Owns

(* Of the processes whose file is still there, one at most has the lock.   *)
LEMMA OneHolder ==
  ASSUME Honest, AtPath, NEW p \in flocked, NEW q \in flocked,
         pc[p] # "relLock", pc[q] # "relLock"
  PROVE  p = q
BY DEF Honest, Distinct, AtPath

LEMMA OrderlyNext == Orderly /\ [Next]_vars => Orderly'
<1> SUFFICES ASSUME Orderly, [Next]_vars, ~crossed'
             PROVE (AtPath /\ Announced)'
  BY HonestNext DEF Orderly
<1>0. Honest /\ Honest' /\ TypeOK
  BY HonestNext DEF Orderly, Honest
<1> DEFINE Rest == AtPath /\ Announced
<1> USE OwnersAreDistinct, <1>0
    DEF TypeOK, Opened, Locked, MustHold, CannotHold, WriterLives,
        Alive, Pc, Acquiring, Releasing, Docker, Goto, disk,
        AtPath, Announced, Owns
<1>7. crossed = FALSE => Rest
  BY DEF Orderly
<1>8. crossed = FALSE =>
        \A p, q \in flocked : pc[p] # "relLock" /\ pc[q] # "relLock" => p = q
  BY <1>7, OneHolder
<1>9. Opened /\ Locked
  BY DEF Honest
<1> USE <1>7, <1>8, <1>9
<1>1. ASSUME NEW p \in Procs, Acquire(p) PROVE Rest'
  <2>1. CASE Open(p)
    BY <2>1, OpenFileOpens DEF Open
  <2>2. CASE Flock(p)
    <3>1. crossed = FALSE /\ fd[p] = file
      BY <2>2 DEF Flock
    <3> QED
      BY <2>2, <3>1 DEF Flock
  <2>3. CASE FlockFails(p)
    BY <2>3 DEF FlockFails
  <2>4. CASE ReadOwner(p)
    BY <2>4 DEF ReadOwner, CloseFile
  <2>5. CASE OwnerAlive(p)
    BY <2>5 DEF OwnerAlive, Refuse, CloseFile
  <2>6. CASE OwnerStale(p)
    BY <2>6 DEF OwnerStale
  <2>7. CASE RemoveStaleFile(p)
    BY <2>7 DEF RemoveStaleFile
  <2>8. CASE RemoveStaleInfo(p)
    <3>1. crossed = FALSE /\ ~WriterLives
      BY <2>8 DEF RemoveStaleInfo
    <3>2. \A q \in Procs : ~Owns(q)
      BY <3>1
    <3> QED
      BY <2>8, <3>1, <3>2 DEF RemoveStaleInfo
  <2>9. CASE Reopen(p)
    BY <2>9, OpenFileOpens DEF Reopen
  <2>10. CASE RelockFails(p)
    BY <2>10 DEF RelockFails, Refuse, CloseFile
  <2>11. CASE WriteInfo(p)
    BY <2>11 DEF WriteInfo
  <2>12. CASE WriteInfoFails(p)
    BY <2>12 DEF WriteInfoFails, Refuse, CloseFile
  <2> QED
    BY <1>1, <2>1, <2>2, <2>3, <2>4, <2>5, <2>6, <2>7, <2>8, <2>9, <2>10,
       <2>11, <2>12 DEF Acquire
<1>2. ASSUME NEW p \in Procs, Start(p) PROVE Rest'
  <2>1. CASE Launch(p)
    BY <2>1 DEF Launch
  <2>2. CASE RemoveStaleSocket(p)
    BY <2>2 DEF RemoveStaleSocket
  <2>3. CASE Bind(p)
    BY <2>3 DEF Bind
  <2>4. CASE BindFails(p)
    BY <2>4 DEF BindFails
  <2>5. CASE Wipe(p)
    BY <2>5 DEF Wipe
  <2>6. CASE BringUp(p)
    BY <2>6 DEF BringUp
  <2>7. CASE InitFails(p)
    BY <2>7 DEF InitFails, CloseFile
  <2>8. CASE RetryInit(p)
    BY <2>8 DEF RetryInit
  <2> QED
    BY <1>2, <2>1, <2>2, <2>3, <2>4, <2>5, <2>6, <2>7, <2>8 DEF Start
<1>3. ASSUME NEW p \in Procs, Finish(p) PROVE Rest'
  <2>1. CASE Quit(p)
    BY <2>1 DEF Quit
  <2>2. CASE QuitEarly(p)
    BY <2>2 DEF QuitEarly
  <2>3. CASE ExitEarly(p)
    BY <2>3 DEF ExitEarly, CloseFile
  <2>4. CASE LastWipe(p)
    BY <2>4 DEF LastWipe, CloseFile
  <2>5. CASE CloseServer(p)
    BY <2>5 DEF CloseServer
  <2>6. CASE RemoveInfo(p)
    BY <2>6 DEF RemoveInfo
  <2>7. CASE RemoveFile(p)
    BY <2>7 DEF RemoveFile
  <2>8. CASE Unlock(p)
    BY <2>8 DEF Unlock, CloseFile
  <2> QED
    BY <1>3, <2>1, <2>2, <2>3, <2>4, <2>5, <2>6, <2>7, <2>8 DEF Finish
<1>4. ASSUME NEW p \in Procs, Crash(p) PROVE Rest'
  BY <1>4 DEF Crash, CloseFile
<1>5. ASSUME NEW k \in Clis, EnsureDaemon(k) PROVE Rest'
  BY <1>5 DEF EnsureDaemon, FirstDial, SpawnDaemon, Redial
<1>6. CASE UNCHANGED vars
  BY <1>6 DEF vars
<1> QED
  BY <1>1, <1>2, <1>3, <1>4, <1>5, <1>6 DEF Next

(* Two owners come about only by a takeover that removes the files of the  *)
(* first, or a lock of a file that is no longer at its path, for any       *)
(* number of daemons, GUIs and CLIs and every fault (Acquire, Release).    *)
THEOREM OwnersCrossHolds == Spec => []OwnersCross
<1>1. Orderly => OwnersCross
  BY DEF Orderly, Announced, OwnersCross
<1> QED
  BY OrderlyInit, OrderlyNext, <1>1, PTL DEF Spec

-----------------------------------------------------------------------------
(* The daemons.                                                            *)

NoGui == \A g \in Guis : pc[g] = "off"

Serving == \A p \in Procs \ Guis :
  /\ pc[p] \in Docker \union {"close"} => sock = p
  /\ NoGui /\ pc[p] = "run" => p \in up

Served == Orderly /\ (crossed \/ Serving)

LEMMA ServedInit == Init => Served
<1> SUFFICES ASSUME Init PROVE Served
  OBVIOUS
<1> QED
  BY OrderlyInit DEF Init, Served, Serving, Docker

LEMMA ServedNext == Served /\ [Next]_vars => Served'
<1> SUFFICES ASSUME Served, [Next]_vars, ~crossed' PROVE Serving'
  BY OrderlyNext DEF Served
<1> DEFINE Rest == Serving
<1>0. Orderly /\ Honest /\ TypeOK /\ Opened /\ Locked
  BY DEF Served, Orderly, Honest
<1> USE OwnersAreDistinct, <1>0
    DEF TypeOK, Opened, Locked, MustHold, CannotHold, Pc, Acquiring, Releasing, Docker,
        Goto, disk, Serving, NoGui
<1>7. crossed = FALSE => Serving
  BY DEF Served
<1>8. crossed = FALSE =>
        \A p, q \in flocked : pc[p] # "relLock" /\ pc[q] # "relLock" => p = q
  BY OneHolder DEF Orderly
<1> USE <1>7, <1>8
<1>1. ASSUME NEW p \in Procs, Acquire(p) PROVE Rest'
  <2>1. CASE Open(p)
    BY <2>1, OpenFileOpens DEF Open
  <2>2. CASE Flock(p)
    BY <2>2 DEF Flock
  <2>3. CASE FlockFails(p)
    BY <2>3 DEF FlockFails
  <2>4. CASE ReadOwner(p)
    BY <2>4 DEF ReadOwner, CloseFile
  <2>5. CASE OwnerAlive(p)
    BY <2>5 DEF OwnerAlive, Refuse, CloseFile
  <2>6. CASE OwnerStale(p)
    BY <2>6 DEF OwnerStale
  <2>7. CASE RemoveStaleFile(p)
    BY <2>7 DEF RemoveStaleFile
  <2>8. CASE RemoveStaleInfo(p)
    BY <2>8 DEF RemoveStaleInfo
  <2>9. CASE Reopen(p)
    BY <2>9, OpenFileOpens DEF Reopen
  <2>10. CASE RelockFails(p)
    BY <2>10 DEF RelockFails, Refuse, CloseFile
  <2>11. CASE WriteInfo(p)
    BY <2>11 DEF WriteInfo
  <2>12. CASE WriteInfoFails(p)
    BY <2>12 DEF WriteInfoFails, Refuse, CloseFile
  <2> QED
    BY <1>1, <2>1, <2>2, <2>3, <2>4, <2>5, <2>6, <2>7, <2>8, <2>9, <2>10,
       <2>11, <2>12 DEF Acquire
<1>2. ASSUME NEW p \in Procs, Start(p) PROVE Rest'
  <2>1. CASE Launch(p)
    BY <2>1 DEF Launch
  <2>2. CASE RemoveStaleSocket(p)
    BY <2>2 DEF RemoveStaleSocket
  <2>3. CASE Bind(p)
    BY <2>3 DEF Bind
  <2>4. CASE BindFails(p)
    BY <2>4 DEF BindFails
  <2>5. CASE Wipe(p)
    BY <2>5 DEF Wipe
  <2>6. CASE BringUp(p)
    BY <2>6 DEF BringUp
  <2>7. CASE InitFails(p)
    BY <2>7 DEF InitFails, CloseFile
  <2>8. CASE RetryInit(p)
    BY <2>8 DEF RetryInit
  <2> QED
    BY <1>2, <2>1, <2>2, <2>3, <2>4, <2>5, <2>6, <2>7, <2>8 DEF Start
<1>3. ASSUME NEW p \in Procs, Finish(p) PROVE Rest'
  <2>1. CASE Quit(p)
    BY <2>1 DEF Quit
  <2>2. CASE QuitEarly(p)
    BY <2>2 DEF QuitEarly
  <2>3. CASE ExitEarly(p)
    BY <2>3 DEF ExitEarly, CloseFile
  <2>4. CASE LastWipe(p)
    BY <2>4 DEF LastWipe, CloseFile
  <2>5. CASE CloseServer(p)
    BY <2>5 DEF CloseServer
  <2>6. CASE RemoveInfo(p)
    BY <2>6 DEF RemoveInfo
  <2>7. CASE RemoveFile(p)
    BY <2>7 DEF RemoveFile
  <2>8. CASE Unlock(p)
    BY <2>8 DEF Unlock, CloseFile
  <2> QED
    BY <1>3, <2>1, <2>2, <2>3, <2>4, <2>5, <2>6, <2>7, <2>8 DEF Finish
<1>4. ASSUME NEW p \in Procs, Crash(p) PROVE Rest'
  BY <1>4 DEF Crash, CloseFile
<1>5. ASSUME NEW k \in Clis, EnsureDaemon(k) PROVE Rest'
  BY <1>5 DEF EnsureDaemon, FirstDial, SpawnDaemon, Redial
<1>6. CASE UNCHANGED vars
  BY <1>6 DEF vars
<1> QED
  BY <1>1, <1>2, <1>3, <1>4, <1>5, <1>6 DEF Next

(* A daemon that runs is the one everybody finds, beside any number of     *)
(* other daemons, GUIs and CLIs that spawn daemons, and after any crashes  *)
(* and failures, until a lock operation has hit a live owner               *)
(* (startDaemonServices, Acquire, Listen, Initialize).                     *)
THEOREM DaemonIsFoundHolds == Spec => []DaemonIsFound
<1>1. Served => DaemonIsFound
  BY DEF Served, Serving, NoGui, Orderly, Honest, Locked, MustHold, AtPath,
         Announced, Owns, Docker, Acquiring, Releasing, Serves, DaemonIsFound
<1> QED
  BY ServedInit, ServedNext, <1>1, PTL DEF Spec

=============================================================================
