------------------------ MODULE SiteLifecycleProofs ------------------------
(***************************************************************************)
(* Proofs about SiteLifecycle for every set of sites, clients and images.  *)
(* The argument: a client past Acquire holds its site's mutex (Holding);   *)
(* while names are distinct, no other site or pending request has its slug *)
(* (OneOwner); so nobody else touches the volume between the check of its  *)
(* marker, the start of the database and the write of the marker           *)
(* (Checked).                                                              *)
(***************************************************************************)
EXTENDS SiteLifecycle, TLAPS

Busy(c) == pc[c] \notin {"idle", "queued", "pub"}

BusyPc == Pc \ {"idle", "queued", "pub"}

(* A client that is serving a request has the request and a row.           *)
Serving ==
  \A c \in Clients :
    IF pc[c] = "idle" THEN job[c] = NoJob
    ELSE /\ job[c] \in Job /\ loc[c] \in Row
         /\ pc[c] = "queued" => job[c].kind # "publish"
         /\ pc[c] \in {"vCheck", "vRemove", "vSave"} => job[c].ver \in Images

Holding == \A c \in Clients : Busy(c) => lock[Id(c)] = c

Live == {i \in Ids : row[i] # NoRow
                     \/ \E c \in Clients : pc[c] # "idle" /\ Id(c) = i}

OneOwner == \A i, j \in Live : SlugOf[i] = SlugOf[j] => i = j

Checked ==
  \A c \in Clients :
    /\ pc[c] = "create" => MarkerAllows(c)
    /\ pc[c] \in {"ready", "stamp"} =>
         image[Slug(c)] = loc[c].ver /\ data[Slug(c)] = loc[c].ver

TypeInv == TypeOK /\ Serving

IInv == TypeInv /\ Holding /\ OneOwner /\ Checked

(* What any step of Work does to the requests: move on, release, or (the   *)
(* one method without a mutex) return.                                     *)
Moves(c) ==
  /\ Busy(c)
  /\ \E p \in BusyPc :
       /\ pc' = [pc EXCEPT ![c] = p]
       /\ p \in {"vCheck", "vRemove", "vSave"} => pc[c] \in {"vCheck", "vRemove"}
  /\ loc' \in {loc, [loc EXCEPT ![c] = Salted(loc[c])]}
  /\ UNCHANGED <<job, lock>>

Shape(c) ==
  \/ Moves(c)
  \/ Busy(c) /\ Release(c)
  \/ pc[c] = "pub" /\ Return(c) /\ UNCHANGED lock

-----------------------------------------------------------------------------
(* Rows.                                                                   *)

LEMMA RowUpdates ==
  ASSUME NEW r \in Row, NEW b \in BOOLEAN, NEW v \in Images
  PROVE  /\ [r EXCEPT !.started = b] \in Row
         /\ [r EXCEPT !.lan = b] \in Row
         /\ [r EXCEPT !.opt = b] \in Row
         /\ [r EXCEPT !.ver = v] \in Row
         /\ Salted(r) \in Row
  BY DEF Row, Salted

LEMMA JobFields ==
  ASSUME NEW j \in Job
  PROVE  /\ j.id \in Ids /\ j.on \in BOOLEAN
         /\ j.kind \in AllKinds
         /\ j.kind = "versions" => j.ver \in Images
  BY DEF Job, AllKinds

(* Saving a row writes one row that exists, or nothing.                    *)
LEMMA SavedRow ==
  ASSUME TypeInv, NEW c \in Clients, job[c] \in Job, NEW r \in Row
  PROVE  /\ Saved(c, r) \in [Ids -> Row \union {NoRow}]
         /\ \A i \in Ids : row[i] = NoRow => Saved(c, r)[i] = NoRow
  BY JobFields DEF TypeInv, TypeOK, Saved, Id

LEMMA WithSaltsRow ==
  ASSUME TypeInv, NEW c \in Clients, job[c] \in Job, NEW r \in Row
  PROVE  /\ WithSalts(c, r) \in [Ids -> Row \union {NoRow}]
         /\ \A i \in Ids : row[i] = NoRow => WithSalts(c, r)[i] = NoRow
  <1>1. Salted(r) \in Row
    BY DEF Row, Salted
  <1> QED
    BY <1>1, SavedRow DEF TypeInv, TypeOK, WithSalts

-----------------------------------------------------------------------------
(* The steps of Work, one fact at a time.                                  *)

(* Every step of Work moves its client on or ends its request.             *)
LEMMA WorkShape ==
  ASSUME TypeInv, NEW c \in Clients, Work(c)
  PROVE  Shape(c) /\ UNCHANGED <<born, begun>>
  <1> USE DEF Shape, Moves, Busy, BusyPc, Pc, Goto
  <1>1. CASE SharedStep(c)
    BY <1>1 DEF SharedStep, Prepare, PrepareFails, RegisterRoute,
       RefreshFails, Refused, Finish, SaveFails
  <1>2. CASE StartStep(c)
    BY <1>2 DEF StartStep, EnsureNetwork, CheckMarker, CreateContainers,
       StartFailsEarly, CreateFails, WaitReady, WriteMarker, StartUnwinds,
       StartCommits, SaveStarted, world, docker
  <1>3. CASE StopStep(c)
    BY <1>3 DEF StopStep, StopContainers, StopRemovesRoute, StopFails,
       SaveStopped
  <1>4. CASE DeleteStep(c)
    BY <1>4 DEF DeleteStep, DeleteStops, DeleteRemoves, DeleteRemovesRoute,
       DeleteRemovesNetwork, DeletePurges, DeletePlanFails, DeleteRow
  <1>5. CASE LanStep(c)
    BY <1>5 DEF LanStep, LanSavesRow, LanWritesConfig, LanConfigFails,
       LanRegistersRoute, LanRouteFails, LanCommits, LanUndoesRoute,
       LanUndoesState
  <1>6. CASE SettingsStep(c)
    BY <1>6 DEF SettingsStep, VersionsCheck, VersionsRefused,
       VersionsRemovesContainers, SaveVersions, SetSPXEnabled,
       SetPublishDBPort
  <1> QED
    BY <1>1, <1>2, <1>3, <1>4, <1>5, <1>6 DEF Work

(* Every step of Work keeps the table well-typed, and none creates a row.  *)
LEMMA WorkRows ==
  ASSUME TypeInv, NEW c \in Clients, Work(c)
  PROVE  /\ row' \in [Ids -> Row \union {NoRow}]
         /\ \A i \in Ids : row[i] = NoRow => row'[i] = NoRow
  <1>0. row \in [Ids -> Row \union {NoRow}]
    BY DEF TypeInv, TypeOK
  <1>1. CASE pc[c] = "idle"
    BY <1>1, WorkShape DEF Shape, Moves, Busy
  <1>2. CASE pc[c] # "idle"
    <2>1. /\ job[c] \in Job /\ loc[c] \in Row
          /\ pc[c] = "vSave" => job[c].ver \in Images
          /\ job[c].on \in BOOLEAN
      BY <1>2, JobFields DEF TypeInv, Serving
    <2>2. WantLan(c) \in Row /\ Salted(loc[c]) \in Row
      BY <2>1 DEF WantLan, Row, Salted
    <2>3. CASE SharedStep(c)
      BY <2>3, <2>1, <2>2, <1>0, WithSaltsRow DEF SharedStep, Prepare,
         PrepareFails, RegisterRoute, RefreshFails, Refused, Finish, SaveFails
    <2>4. CASE StartStep(c)
      <3>1. [loc[c] EXCEPT !.started = TRUE] \in Row
        BY <2>1 DEF Row
      <3> QED
        BY <2>4, <2>1, <3>1, <1>0, SavedRow DEF StartStep, EnsureNetwork,
           CheckMarker, CreateContainers, StartFailsEarly, CreateFails,
           WaitReady, WriteMarker, StartUnwinds, StartCommits, SaveStarted
    <2>5. CASE StopStep(c)
      <3>1. [loc[c] EXCEPT !.started = FALSE] \in Row
        BY <2>1 DEF Row
      <3> QED
        BY <2>5, <2>1, <3>1, <1>0, SavedRow DEF StopStep, StopContainers,
           StopRemovesRoute, StopFails, SaveStopped
    <2>6. CASE DeleteStep(c)
      BY <2>6, <1>0 DEF DeleteStep, DeleteStops, DeleteRemoves,
         DeleteRemovesRoute, DeleteRemovesNetwork, DeletePurges,
         DeletePlanFails, DeleteRow
    <2>7. CASE LanStep(c)
      BY <2>7, <2>1, <2>2, <1>0, SavedRow, WithSaltsRow DEF LanStep,
         LanSavesRow, LanWritesConfig, LanConfigFails, LanRegistersRoute,
         LanRouteFails, LanCommits, LanUndoesRoute, LanUndoesState
    <2>8. CASE SettingsStep(c)
      <3>1. [loc[c] EXCEPT !.opt = job[c].on] \in Row
        BY <2>1 DEF Row
      <3>2. pc[c] = "vSave" => [loc[c] EXCEPT !.ver = job[c].ver] \in Row
        BY <2>1 DEF Row
      <3> QED
        BY <2>8, <2>1, <3>1, <3>2, <1>0, SavedRow DEF SettingsStep,
           VersionsCheck, VersionsRefused, VersionsRemovesContainers,
           SaveVersions, SetSPXEnabled, SetPublishDBPort
    <2> QED
      BY <2>3, <2>4, <2>5, <2>6, <2>7, <2>8 DEF Work
  <1> QED
    BY <1>1, <1>2

(* What an assignment to one entry leaves of a function's type.            *)
LEMMA Updated ==
  ASSUME NEW S, NEW T, NEW f \in [S -> T], NEW x, NEW v \in T
  PROVE  [f EXCEPT ![x] = v] \in [S -> T]
  OBVIOUS

WorldOK ==
  /\ ctr \in [Slugs -> Ctr]
  /\ image \in [Slugs -> Images \union {NoImage}]
  /\ net \in [Slugs -> BOOLEAN]
  /\ route \in [Slugs -> Route]
  /\ data \in [Slugs -> Images \union {NoImage}]
  /\ marker \in [Slugs -> Images \union {NoImage}]
  /\ wplan \in [Ids -> BOOLEAN]

(* Every step of Work keeps what it does to Docker, the router and the     *)
(* files well-typed.                                                       *)
LEMMA WorkWorld ==
  ASSUME TypeInv, NEW c \in Clients, Work(c)
  PROVE  WorldOK'
  <1>0. WorldOK
    BY DEF TypeInv, TypeOK, WorldOK
  <1>1. CASE pc[c] = "idle"
    BY <1>1, WorkShape DEF Shape, Moves, Busy
  <1>2. CASE pc[c] # "idle"
    <2>1. /\ job[c] \in Job /\ loc[c] \in Row
          /\ job[c].on \in BOOLEAN /\ job[c].id \in Ids
      BY <1>2, JobFields DEF TypeInv, Serving
    <2>2. loc[c].ver \in Images /\ loc[c].lan \in BOOLEAN
      BY <2>1 DEF Row
    <2>3. /\ \A r : RoutesFor(r) \subseteq Route
          /\ \A b \in BOOLEAN : ConfigFor(c, b) \in [Ids -> BOOLEAN]
      BY <1>0, Switches DEF RoutesFor, ConfigFor, WorldOK, Route
    <2>4. \A k : \A n \in NetAfterRemove(k) : n \in BOOLEAN
      BY DEF NetAfterRemove
    <2> USE <1>0, <2>1, <2>2 DEF WorldOK, Ctr, Route
    <2>5. CASE SharedStep(c)
      <3>1. CASE Prepare(c) \/ PrepareFails(c)
        <4>1. wplan' \in {wplan, ConfigFor(c, loc[c].lan)}
          BY <3>1 DEF Prepare, PrepareFails
        <4> QED
          BY <2>3, <3>1, <4>1 DEF Prepare, PrepareFails, docker
      <3>2. CASE RegisterRoute(c) \/ RefreshFails(c)
        <4>1. \/ UNCHANGED route
              \/ \E t \in Route : route' = [route EXCEPT ![Slug(c)] = t]
          BY <2>3, <3>2 DEF RegisterRoute, RefreshFails
        <4> QED
          BY <3>2, <4>1 DEF RegisterRoute, RefreshFails, docker
      <3> QED
        BY <2>5, <3>1, <3>2 DEF SharedStep, Refused, Finish, SaveFails,
           world, docker
    <2>6. CASE StartStep(c)
      <3>1. CASE EnsureNetwork(c) \/ StartFailsEarly(c)
        <4>1. \E n \in BOOLEAN : net' = [net EXCEPT ![Slug(c)] = n]
                                 \/ net' = net
          BY <3>1, <2>4 DEF EnsureNetwork, StartFailsEarly
        <4> QED
          BY <3>1, <4>1 DEF EnsureNetwork, StartFailsEarly
      <3>2. CASE CheckMarker(c) \/ WaitReady(c) \/ StartCommits(c)
                 \/ SaveStarted(c)
        BY <3>2 DEF CheckMarker, WaitReady, StartCommits, SaveStarted, world,
           docker
      <3>3. CASE CreateContainers(c) \/ WriteMarker(c)
        BY <3>3 DEF CreateContainers, WriteMarker
      <3>4. CASE CreateFails(c)
        <4>1. \E n \in BOOLEAN : net' = [net EXCEPT ![Slug(c)] = n]
          BY <3>4, <2>4 DEF CreateFails
        <4>2. \E k \in Ctr : ctr' = [ctr EXCEPT ![Slug(c)] = k]
          <5>1. ctr[Slug(c)] \in Ctr
            BY SlugsOfIds DEF Slug, Id
          <5> QED
            BY <3>4, <5>1 DEF CreateFails
        <4>3. \E i \in Images \union {NoImage} :
                image' = [image EXCEPT ![Slug(c)] = i]
          <5>1. image[Slug(c)] \in Images \union {NoImage}
            BY SlugsOfIds DEF Slug, Id
          <5> QED
            BY <3>4, <5>1 DEF CreateFails
        <4>4. \E d \in Images \union {NoImage} :
                data' = [data EXCEPT ![Slug(c)] = d]
          <5>1. data[Slug(c)] \in Images \union {NoImage}
            BY SlugsOfIds DEF Slug, Id
          <5> QED
            BY <3>4, <5>1 DEF CreateFails
        <4>5. UNCHANGED <<marker, route, wplan>>
          BY <3>4 DEF CreateFails
        <4>6. ctr' \in [Slugs -> Ctr] /\ net' \in [Slugs -> BOOLEAN]
          BY <4>1, <4>2, Updated
        <4>7. /\ image' \in [Slugs -> Images \union {NoImage}]
              /\ data' \in [Slugs -> Images \union {NoImage}]
          BY <4>3, <4>4, Updated
        <4> QED
          BY <1>0, <4>5, <4>6, <4>7
      <3>5. CASE StartUnwinds(c)
        <4>1. net' \in [Slugs -> BOOLEAN]
          <5>1. \E n \in BOOLEAN : net' = [net EXCEPT ![Slug(c)] = n]
            BY <3>5, <2>4 DEF StartUnwinds
          <5> QED
            BY <5>1, Updated
        <4>2. ctr' \in [Slugs -> Ctr]
          <5>1. \E k \in Ctr : ctr' = [ctr EXCEPT ![Slug(c)] = k]
            BY <3>5 DEF StartUnwinds
          <5> QED
            BY <5>1, Updated
        <4>3. image' \in [Slugs -> Images \union {NoImage}]
          <5>1. image' = image \/ image' = [image EXCEPT ![Slug(c)] = NoImage]
            BY <3>5 DEF StartUnwinds
          <5> QED
            BY <5>1, Updated
        <4>4. route' \in [Slugs -> Route]
          <5>1. route' = route
                \/ \E r \in Route : route' = [route EXCEPT ![Slug(c)] = r]
            BY <3>5, <2>3 DEF StartUnwinds
          <5> QED
            BY <5>1, Updated
        <4>5. UNCHANGED <<data, marker, wplan>>
          BY <3>5 DEF StartUnwinds
        <4> QED
          BY <4>1, <4>2, <4>3, <4>4, <4>5
      <3> QED
        BY <2>6, <3>1, <3>2, <3>3, <3>4, <3>5 DEF StartStep
    <2>7. CASE StopStep(c)
      BY <2>7 DEF StopStep, StopContainers, StopRemovesRoute, StopFails,
         SaveStopped, world, docker
    <2>8. CASE DeleteStep(c)
      BY <2>8 DEF DeleteStep, DeleteStops, DeleteRemoves, DeleteRemovesRoute,
         DeleteRemovesNetwork, DeletePurges, DeletePlanFails, DeleteRow,
         world, docker
    <2>9. CASE LanStep(c)
      <3>1. CASE LanWritesConfig(c) \/ LanConfigFails(c) \/ LanUndoesState(c)
        <4>1. wplan' \in {wplan, ConfigFor(c, loc[c].lan),
                          ConfigFor(c, job[c].on)}
          BY <3>1 DEF LanWritesConfig, LanConfigFails, LanUndoesState
        <4>2. UNCHANGED <<ctr, image, net, data, marker, route>>
          BY <3>1 DEF LanWritesConfig, LanConfigFails, LanUndoesState, docker
        <4> QED
          BY <2>3, <4>1, <4>2
      <3>2. CASE LanRegistersRoute(c) \/ LanRouteFails(c) \/ LanUndoesRoute(c)
        <4>1. \/ UNCHANGED route
              \/ \E t \in Route : route' = [route EXCEPT ![Slug(c)] = t]
          BY <2>3, <3>2 DEF LanRegistersRoute, LanRouteFails, LanUndoesRoute
        <4> QED
          BY <3>2, <4>1 DEF LanRegistersRoute, LanRouteFails, LanUndoesRoute,
             docker
      <3> QED
        BY <2>9, <3>1, <3>2 DEF LanStep, LanSavesRow, LanCommits, world, docker
    <2>10. CASE SettingsStep(c)
      BY <2>10 DEF SettingsStep, VersionsCheck, VersionsRefused,
         VersionsRemovesContainers, SaveVersions, SetSPXEnabled,
         SetPublishDBPort, world, docker
    <2> QED
      BY <2>5, <2>6, <2>7, <2>8, <2>9, <2>10 DEF Work
  <1> QED
    BY <1>1, <1>2

-----------------------------------------------------------------------------
(* Type correctness.                                                       *)

(* A step of Work leaves every client with a request it may have.          *)
LEMMA WorkServing ==
  ASSUME TypeInv, NEW c \in Clients, Work(c)
  PROVE  /\ lock' \in [Ids -> Clients \union {Free}]
         /\ pc' \in [Clients -> Pc]
         /\ job' \in [Clients -> Job \union {NoJob}]
         /\ loc' \in [Clients -> Row \union {NoRow}]
         /\ Serving'
  <1>0. /\ lock \in [Ids -> Clients \union {Free}]
        /\ pc \in [Clients -> Pc]
        /\ job \in [Clients -> Job \union {NoJob}]
        /\ loc \in [Clients -> Row \union {NoRow}]
        /\ Serving
    BY DEF TypeInv, TypeOK
  <1>1. Shape(c)
    BY WorkShape
  <1>2. CASE Moves(c)
    <2>1. loc[c] \in Row /\ pc[c] # "idle"
      BY <1>0, <1>2 DEF Moves, Serving, Busy
    <2>2. Salted(loc[c]) \in Row
      BY <2>1 DEF Row, Salted
    <2>3. PICK p \in BusyPc :
            /\ pc' = [pc EXCEPT ![c] = p]
            /\ p \in {"vCheck", "vRemove", "vSave"} =>
                 pc[c] \in {"vCheck", "vRemove"}
      BY <1>2 DEF Moves
    <2>4. lock' = lock /\ job' = job
          /\ loc' \in {loc, [loc EXCEPT ![c] = Salted(loc[c])]}
      BY <1>2 DEF Moves
    <2>5. p \in Pc /\ p # "idle" /\ p # "queued"
      BY DEF BusyPc
    <2>6. loc' \in [Clients -> Row \union {NoRow}] /\ loc'[c] \in Row
          /\ \A d \in Clients : d # c => loc'[d] = loc[d]
      BY <1>0, <2>1, <2>2, <2>4
    <2>7. pc' \in [Clients -> Pc] /\ pc'[c] = p
          /\ \A d \in Clients : d # c => pc'[d] = pc[d]
      BY <1>0, <2>3, <2>5
    <2> QED
      BY <1>0, <2>1, <2>3, <2>4, <2>5, <2>6, <2>7 DEF Serving
  <1>3. CASE Busy(c) /\ Release(c)
    <2>1. Id(c) \in Ids
      BY <1>0, <1>3, JobFields DEF Serving, Busy, Id
    <2> QED
      BY <1>0, <1>3, <2>1 DEF Release, Return, Serving, Pc
  <1>4. CASE pc[c] = "pub" /\ Return(c) /\ UNCHANGED lock
    BY <1>0, <1>4 DEF Return, Serving, Pc
  <1> QED
    BY <1>1, <1>2, <1>3, <1>4 DEF Shape

LEMMA InitTypes == Init => TypeInv
  <1> SUFFICES ASSUME Init PROVE TypeInv
    OBVIOUS
  <1> USE DEF Init
  <1>1. Serving
    BY DEF Serving
  <1>2. WorldOK
    BY DEF WorldOK, Ctr, Route
  <1>3. row \in [Ids -> Row \union {NoRow}] /\ born \subseteq Ids /\ begun \in Nat
    OBVIOUS
  <1>4. /\ lock \in [Ids -> Clients \union {Free}]
        /\ pc \in [Clients -> Pc]
        /\ job \in [Clients -> Job \union {NoJob}]
        /\ loc \in [Clients -> Row \union {NoRow}]
    BY DEF Pc
  <1> QED
    BY <1>1, <1>2, <1>3, <1>4 DEF TypeInv, TypeOK, WorldOK

LEMMA TypeStep == TypeInv /\ [Next]_vars => TypeInv'
  <1> SUFFICES ASSUME TypeInv, [Next]_vars PROVE TypeInv'
    OBVIOUS
  <1> USE DEF TypeInv
  <1>1. CASE Restart
    <2>1. row' \in [Ids -> Row \union {NoRow}]
      <3>1. \A r \in Row : [r EXCEPT !.started = FALSE] \in Row
        BY DEF Row
      <3> QED
        BY <1>1, <3>1 DEF Restart, TypeOK
    <2>2. WorldOK'
      BY <1>1 DEF Restart, TypeOK, WorldOK, Ctr, Route
    <2>3. /\ lock' \in [Ids -> Clients \union {Free}]
          /\ pc' \in [Clients -> Pc]
          /\ job' \in [Clients -> Job \union {NoJob}]
          /\ loc' \in [Clients -> Row \union {NoRow}]
      BY <1>1 DEF Restart, Pc
    <2>4. Serving'
      BY <1>1 DEF Restart, Serving
    <2>5. born' \subseteq Ids /\ begun' \in Nat
      BY <1>1 DEF Restart, TypeOK
    <2> QED
      BY <2>1, <2>2, <2>3, <2>4, <2>5 DEF TypeOK, WorldOK
  <1>2. ASSUME NEW i \in Ids, AddSite(i) PROVE TypeInv'
    <2>1. UNCHANGED <<lock, pc, job, loc, begun, ctr, image, net, route, data,
                      marker, wplan>>
      BY <1>2 DEF AddSite, request, world, docker
    <2>2. row' \in [Ids -> Row \union {NoRow}] /\ born' \subseteq Ids
      <3>1. PICK v \in Images : row' = [row EXCEPT ![i] =
              [started |-> FALSE, lan |-> FALSE, ver |-> v, opt |-> FALSE,
               salted |-> FALSE]]
        BY <1>2 DEF AddSite
      <3>2. [started |-> FALSE, lan |-> FALSE, ver |-> v, opt |-> FALSE,
             salted |-> FALSE] \in Row
        BY DEF Row
      <3> QED
        BY <1>2, <3>1, <3>2 DEF AddSite, TypeOK
    <2>3. Serving'
      BY <2>1 DEF Serving
    <2> QED
      BY <2>1, <2>2, <2>3 DEF TypeOK
  <1>3. ASSUME NEW c \in Clients, Begin(c) PROVE TypeInv'
    <2>1. UNCHANGED <<row, born, lock, ctr, image, net, route, data, marker,
                      wplan>>
      BY <1>3 DEF Begin, world, docker
    <2>2. PICK j \in Job :
            /\ row[j.id] # NoRow
            /\ job' = [job EXCEPT ![c] = j]
            /\ loc' = [loc EXCEPT ![c] = row[j.id]]
            /\ pc' = [pc EXCEPT ![c] =
                 IF j.kind = "publish" THEN "pub" ELSE "queued"]
      BY <1>3 DEF Begin, Goto
    <2>3. j.id \in Ids /\ row[j.id] \in Row
      BY <2>2, JobFields DEF TypeOK
    <2>4. pc' \in [Clients -> Pc] /\ job' \in [Clients -> Job \union {NoJob}]
          /\ loc' \in [Clients -> Row \union {NoRow}]
      BY <2>2, <2>3 DEF TypeOK, Pc
    <2>5. Serving'
      BY <2>2, <2>3 DEF TypeOK, Serving
    <2>6. begun' \in Nat
      BY <1>3 DEF Begin, TypeOK
    <2> QED
      BY <2>1, <2>4, <2>5, <2>6 DEF TypeOK
  <1>4. ASSUME NEW c \in Clients, Acquire(c) PROVE TypeInv'
    <2>1. UNCHANGED <<row, born, job, loc, begun, ctr, image, net, route, data,
                      marker, wplan>>
      BY <1>4 DEF Acquire, world, docker
    <2>2. /\ job[c] \in Job /\ job[c].id \in Ids /\ job[c].kind # "publish"
          /\ job[c].kind \in AllKinds
          /\ job[c].kind = "versions" => job[c].ver \in Images
      BY <1>4, JobFields DEF Acquire, Serving
    <2>3. /\ FirstStep[job[c].kind] \in Pc \ {"idle", "queued"}
          /\ FirstStep[job[c].kind] \in {"vCheck", "vRemove", "vSave"} =>
               job[c].kind = "versions"
      BY <2>2 DEF FirstStep, AllKinds, Pc
    <2>4. lock' = [lock EXCEPT ![Id(c)] = c]
          /\ pc' = [pc EXCEPT ![c] = FirstStep[job[c].kind]]
      BY <1>4 DEF Acquire, Goto
    <2>5. lock' \in [Ids -> Clients \union {Free}] /\ pc' \in [Clients -> Pc]
      BY <2>2, <2>3, <2>4 DEF TypeOK, Id
    <2>6. Serving'
      BY <1>4, <2>1, <2>2, <2>3, <2>4 DEF Serving, TypeOK, Acquire
    <2> QED
      BY <2>1, <2>5, <2>6 DEF TypeOK
  <1>5. ASSUME NEW c \in Clients, Work(c) PROVE TypeInv'
    <2>1. born' = born /\ begun' = begun
      BY <1>5, WorkShape
    <2> QED
      BY <1>5, <2>1, WorkRows, WorkWorld, WorkServing DEF TypeOK, WorldOK
  <1>6. CASE UNCHANGED vars
    BY <1>6 DEF vars, request, world, docker, TypeOK, Serving
  <1> QED
    BY <1>1, <1>2, <1>3, <1>4, <1>5, <1>6 DEF Next

(* Every variable keeps its type, whatever the clients do and whatever     *)
(* fails: in particular a request past its first read always has a row and *)
(* every saved row is a whole row.                                         *)
THEOREM TypeCorrect == Spec => []TypeOK
  <1>1. TypeInv => TypeOK
    BY DEF TypeInv
  <1> QED
    BY InitTypes, TypeStep, <1>1, PTL DEF Spec

-----------------------------------------------------------------------------
(* Mutual exclusion.                                                       *)

(* A step of Work takes no mutex and gives up only the one it holds.       *)
LEMMA WorkHolding ==
  ASSUME TypeInv, Holding, NEW c \in Clients, Work(c)
  PROVE  Holding'
  <1>0. /\ lock \in [Ids -> Clients \union {Free}]
        /\ pc \in [Clients -> Pc]
        /\ job \in [Clients -> Job \union {NoJob}]
    BY DEF TypeInv, TypeOK
  <1>1. CASE Moves(c)
    BY <1>0, <1>1 DEF Moves, Holding, Busy, Id
  <1>2. CASE Busy(c) /\ Release(c)
    BY <1>0, <1>2 DEF Release, Return, Holding, Busy, Id
  <1>3. CASE pc[c] = "pub" /\ Return(c) /\ UNCHANGED lock
    BY <1>0, <1>3 DEF Return, Holding, Busy, Id
  <1> QED
    BY <1>1, <1>2, <1>3, WorkShape DEF Shape

LEMMA HoldingStep == TypeInv /\ Holding /\ [Next]_vars => Holding'
  <1> SUFFICES ASSUME TypeInv, Holding, [Next]_vars PROVE Holding'
    OBVIOUS
  <1>0. /\ lock \in [Ids -> Clients \union {Free}]
        /\ pc \in [Clients -> Pc]
        /\ job \in [Clients -> Job \union {NoJob}]
    BY DEF TypeInv, TypeOK
  <1>1. CASE Restart
    BY <1>1 DEF Restart, Holding, Busy
  <1>2. ASSUME NEW i \in Ids, AddSite(i) PROVE Holding'
    BY <1>2 DEF AddSite, request, Holding, Busy, Id
  <1>3. ASSUME NEW c \in Clients, Begin(c) PROVE Holding'
    <2>1. PICK p \in {"pub", "queued"} : pc' = [pc EXCEPT ![c] = p]
      BY <1>3 DEF Begin, Goto
    <2>2. PICK j : job' = [job EXCEPT ![c] = j]
      BY <1>3 DEF Begin
    <2> QED
      BY <1>0, <1>3, <2>1, <2>2 DEF Begin, Holding, Busy, Id
  <1>4. ASSUME NEW c \in Clients, Acquire(c) PROVE Holding'
    <2>1. job[c].id \in Ids
      BY <1>4, JobFields DEF Acquire, TypeInv, Serving
    <2>2. \A d \in Clients : Busy(d) => lock[Id(d)] # Free
      BY Sentinels DEF Holding
    <2> QED
      BY <1>0, <1>4, <2>1, <2>2 DEF Acquire, Goto, Holding, Busy, Id
  <1>5. ASSUME NEW c \in Clients, Work(c) PROVE Holding'
    BY <1>5, WorkHolding
  <1>6. CASE UNCHANGED vars
    BY <1>6 DEF vars, request, Holding, Busy, Id
  <1> QED
    BY <1>1, <1>2, <1>3, <1>4, <1>5, <1>6 DEF Next

(* Without duplicate names a slug has at most one live site; requests only *)
(* outlive their row or end with it.                                       *)
LEMMA OneOwnerStep ==
  ASSUME DuplicateNames = FALSE, TypeInv, OneOwner, [Next]_vars
  PROVE  OneOwner'
  <1>0. /\ row \in [Ids -> Row \union {NoRow}]
        /\ pc \in [Clients -> Pc]
        /\ job \in [Clients -> Job \union {NoJob}]
        /\ Serving /\ Serving'
    BY TypeStep DEF TypeInv, TypeOK
  <1>1. CASE Live' \subseteq Live
    BY <1>1 DEF OneOwner
  <1>2. CASE Restart
    BY <1>1, <1>2 DEF Restart, Live
  <1>3. ASSUME NEW i \in Ids, AddSite(i) PROVE OneOwner'
    <2>1. UNCHANGED <<pc, job>> /\ \A j \in Ids : j # i => row'[j] = row[j]
      BY <1>0, <1>3 DEF AddSite, request
    <2>2. Live' \subseteq Live \union {i}
      BY <2>1 DEF Live, Id
    <2>3. \A j \in Live : SlugOf[j] = SlugOf[i] => j = i
      BY <1>0, <1>3, Sentinels DEF AddSite, NameFree, Live, Slug, Id, Serving
    <2> QED
      BY <2>2, <2>3 DEF OneOwner
  <1>4. ASSUME NEW c \in Clients, Begin(c) PROVE OneOwner'
    <2>1. PICK j \in Job :
            /\ row[j.id] # NoRow
            /\ job' = [job EXCEPT ![c] = j]
            /\ \E p : pc' = [pc EXCEPT ![c] = p]
      BY <1>4 DEF Begin, Goto
    <2>2. row' = row /\ pc[c] = "idle"
      BY <1>4 DEF Begin
    <2>3. Live' \subseteq Live
      BY <1>0, <2>1, <2>2 DEF Live, Id
    <2> QED
      BY <1>1, <2>3
  <1>5. ASSUME NEW c \in Clients, Acquire(c) PROVE OneOwner'
    <2>1. Live' \subseteq Live
      BY <1>0, <1>5 DEF Acquire, Goto, Live, Id
    <2> QED
      BY <1>1, <2>1
  <1>6. ASSUME NEW c \in Clients, Work(c) PROVE OneOwner'
    <2>1. \A i \in Ids : row[i] = NoRow => row'[i] = NoRow
      BY <1>6, WorkRows
    <2>2. \A d \in Clients :
            pc'[d] # "idle" => pc[d] # "idle" /\ job'[d] = job[d]
      <3>1. CASE Moves(c)
        BY <1>0, <3>1 DEF Moves, Busy
      <3>2. CASE Return(c)
        BY <1>0, <3>2 DEF Return
      <3> QED
        BY <1>6, <3>1, <3>2, WorkShape DEF Shape, Release
    <2>3. Live' \subseteq Live
      BY <2>1, <2>2 DEF Live, Id
    <2> QED
      BY <1>1, <2>3
  <1>7. CASE UNCHANGED vars
    <2>1. Live' \subseteq Live
      BY <1>7 DEF vars, request, Live, Id
    <2> QED
      BY <1>1, <2>1
  <1> QED
    BY <1>2, <1>3, <1>4, <1>5, <1>6, <1>7 DEF Next

(* Two clients inside their mutexes work on different slugs.               *)
LEMMA Exclusive ==
  ASSUME TypeInv, Holding, OneOwner, NEW c \in Clients, NEW d \in Clients,
         Busy(c), Busy(d), c # d
  PROVE  Slug(c) # Slug(d)
  <1>1. job[c] \in Job /\ job[d] \in Job
    BY DEF TypeInv, Serving, Busy
  <1>2. Id(c) \in Live /\ Id(d) \in Live
    BY <1>1, JobFields DEF Live, Id, Busy
  <1>3. lock[Id(c)] = c /\ lock[Id(d)] = d
    BY DEF Holding
  <1> QED
    BY <1>2, <1>3 DEF OneOwner, Slug

-----------------------------------------------------------------------------
(* The marker.                                                             *)

(* A step of Work touches the image, the data and the marker of its own    *)
(* slug only, and those only inside the mutex.                             *)
LEMMA WorkFrame ==
  ASSUME TypeInv, NEW c \in Clients, Work(c)
  PROVE  /\ \A s \in Slugs : s # Slug(c) =>
              image'[s] = image[s] /\ data'[s] = data[s] /\ marker'[s] = marker[s]
         /\ ~Busy(c) => UNCHANGED <<image, data, marker>>
  <1>0. /\ image \in [Slugs -> Images \union {NoImage}]
        /\ data \in [Slugs -> Images \union {NoImage}]
        /\ marker \in [Slugs -> Images \union {NoImage}]
    BY DEF TypeInv, TypeOK
  <1> USE <1>0 DEF Busy, world, docker
  <1>1. CASE SharedStep(c)
    BY <1>1 DEF SharedStep, Prepare, PrepareFails, RegisterRoute,
       RefreshFails, Refused, Finish, SaveFails
  <1>2. CASE StartStep(c)
    <2>1. CASE CreateFails(c)
      BY <2>1 DEF CreateFails
    <2>2. CASE StartUnwinds(c)
      BY <2>2 DEF StartUnwinds
    <2> QED
      BY <1>2, <2>1, <2>2 DEF StartStep, EnsureNetwork, CheckMarker,
         CreateContainers, StartFailsEarly, WaitReady, WriteMarker,
         StartCommits, SaveStarted
  <1>3. CASE StopStep(c)
    BY <1>3 DEF StopStep, StopContainers, StopRemovesRoute, StopFails,
       SaveStopped
  <1>4. CASE DeleteStep(c)
    BY <1>4 DEF DeleteStep, DeleteStops, DeleteRemoves, DeleteRemovesRoute,
       DeleteRemovesNetwork, DeletePurges, DeletePlanFails, DeleteRow
  <1>5. CASE LanStep(c)
    BY <1>5 DEF LanStep, LanSavesRow, LanWritesConfig, LanConfigFails,
       LanRegistersRoute, LanRouteFails, LanCommits, LanUndoesRoute,
       LanUndoesState
  <1>6. CASE SettingsStep(c)
    BY <1>6 DEF SettingsStep, VersionsCheck, VersionsRefused,
       VersionsRemovesContainers, SaveVersions, SetSPXEnabled,
       SetPublishDBPort
  <1> QED
    BY <1>1, <1>2, <1>3, <1>4, <1>5, <1>6 DEF Work

(* The slugs whose start goes on without having read the marker.           *)
Unread == {Slug(c) : c \in {d \in Clients : pc[d] = "blind"}}

LEMMA UnreadSlugs == ASSUME TypeInv PROVE Unread \subseteq Slugs
  BY JobFields, SlugsOfIds DEF TypeInv, Serving, Unread, Slug, Id

(* What a step of Work does to the volume of its slug is something the     *)
(* abstract guard allows, or nothing.                                      *)
LEMMA WorkVolume ==
  ASSUME TypeInv, Checked, NEW c \in Clients, Work(c)
  PROVE  \/ UNCHANGED <<image, data, marker>>
         \/ \E s \in Slugs : \/ \E i \in Images : V!Boot(s, i)
                             \/ V!Stamp(s) \/ V!TearDown(s) \/ V!Purge(s)
  <1>0. /\ image \in [Slugs -> Images \union {NoImage}]
        /\ data \in [Slugs -> Images \union {NoImage}]
        /\ marker \in [Slugs -> Images \union {NoImage}]
    BY DEF TypeInv, TypeOK
  <1>1. CASE pc[c] \in {"idle", "pub"}
    BY <1>1, WorkFrame DEF Busy
  <1>2. CASE pc[c] \notin {"idle", "pub"}
    <2>1. job[c] \in Job /\ loc[c] \in Row
      BY <1>2 DEF TypeInv, Serving
    <2>2. loc[c].ver \in Images /\ Slug(c) \in Slugs
      BY <2>1, JobFields, SlugsOfIds DEF Row, Slug, Id
    <2>3. pc[c] \in {"create", "blind"} =>
            \/ Slug(c) \in {Slug(d) : d \in {d \in Clients : pc[d] = "blind"}}
            \/ V!Readable(Slug(c), loc[c].ver)
      BY DEF Checked, MarkerAllows, V!Readable
    <2>4. \/ UNCHANGED <<image, data, marker>>
          \/ V!TearDown(Slug(c))
          \/ V!Boot(Slug(c), loc[c].ver)
          \/ V!Stamp(Slug(c))
          \/ V!Purge(Slug(c))
      <3> USE <1>0, <2>2 DEF world, docker
      <3>1. CASE SharedStep(c)
        BY <3>1 DEF SharedStep, Prepare, PrepareFails, RegisterRoute,
           RefreshFails, Refused, Finish, SaveFails
      <3>2. CASE StartStep(c)
        <4>1. CASE CreateContainers(c)
          BY <2>3, <4>1 DEF CreateContainers, V!Boot
        <4>2. CASE CreateFails(c)
          <5>1. PICK i \in {image[Slug(c)], NoImage, loc[c].ver},
                     d \in {data[Slug(c)], loc[c].ver} :
                  /\ image' = [image EXCEPT ![Slug(c)] = i]
                  /\ data' = [data EXCEPT ![Slug(c)] = d]
                  /\ d # data[Slug(c)] => i = loc[c].ver
            BY <4>2 DEF CreateFails
          <5>2. marker' = marker /\ pc[c] \in {"create", "blind"}
            BY <4>2 DEF CreateFails
          <5>3. d = data[Slug(c)] => data' = data
            BY <5>1
          <5>4. CASE i = loc[c].ver
            BY <2>3, <5>1, <5>2, <5>3, <5>4 DEF V!Boot
          <5>5. CASE i # loc[c].ver
            BY <5>1, <5>2, <5>3, <5>5 DEF V!TearDown
          <5> QED
            BY <5>4, <5>5
        <4>3. CASE WriteMarker(c)
          BY <4>3, Sentinels DEF WriteMarker, Checked, V!Stamp
        <4>4. CASE StartUnwinds(c)
          <5>1. PICK k : image' = [image EXCEPT ![Slug(c)] =
                  IF k = "absent" THEN NoImage ELSE @]
            BY <4>4 DEF StartUnwinds
          <5>2. UNCHANGED <<data, marker>>
            BY <4>4 DEF StartUnwinds
          <5> QED
            BY <5>1, <5>2 DEF V!TearDown
        <4> QED
          BY <3>2, <4>1, <4>2, <4>3, <4>4 DEF StartStep, EnsureNetwork,
             CheckMarker, StartFailsEarly, WaitReady, StartCommits,
             SaveStarted
      <3>3. CASE StopStep(c)
        BY <3>3 DEF StopStep, StopContainers, StopRemovesRoute, StopFails,
           SaveStopped
      <3>4. CASE DeleteStep(c)
        BY <3>4 DEF DeleteStep, DeleteStops, DeleteRemoves,
           DeleteRemovesRoute, DeleteRemovesNetwork, DeletePurges,
           DeletePlanFails, DeleteRow, V!TearDown, V!Purge
      <3>5. CASE LanStep(c)
        BY <3>5 DEF LanStep, LanSavesRow, LanWritesConfig, LanConfigFails,
           LanRegistersRoute, LanRouteFails, LanCommits, LanUndoesRoute,
           LanUndoesState
      <3>6. CASE SettingsStep(c)
        BY <3>6 DEF SettingsStep, VersionsCheck, VersionsRefused,
           VersionsRemovesContainers, SaveVersions, SetSPXEnabled,
           SetPublishDBPort, V!TearDown
      <3> QED
        BY <3>1, <3>2, <3>3, <3>4, <3>5, <3>6 DEF Work
    <2> QED
      BY <2>2, <2>4
  <1> QED
    BY <1>1, <1>2

(* The check, the start and the stamp of one start see one marker.         *)
LEMMA WorkChecked ==
  ASSUME IInv, NEW c \in Clients, Work(c)
  PROVE  Checked'
  <1>0. /\ image \in [Slugs -> Images \union {NoImage}]
        /\ data \in [Slugs -> Images \union {NoImage}]
        /\ marker \in [Slugs -> Images \union {NoImage}]
        /\ pc \in [Clients -> Pc]
        /\ loc \in [Clients -> Row \union {NoRow}]
        /\ job \in [Clients -> Job \union {NoJob}]
        /\ TypeInv /\ Serving /\ Checked /\ Holding /\ OneOwner
    BY DEF IInv, TypeInv, TypeOK
  <1>1. ASSUME NEW d \in Clients, d # c
        PROVE  /\ pc'[d] = "create" => MarkerAllows(d)'
               /\ pc'[d] \in {"ready", "stamp"} =>
                    image'[Slug(d)'] = loc'[d].ver /\ data'[Slug(d)'] = loc'[d].ver
    <2>1. pc'[d] = pc[d] /\ job'[d] = job[d] /\ loc'[d] = loc[d]
      BY <1>0, <1>1, WorkShape DEF Shape, Moves, Release, Return
    <2>2. CASE pc[d] \in {"create", "ready", "stamp"}
      <3>1. Slug(d) \in Slugs
        BY <1>0, <2>2, JobFields, SlugsOfIds DEF Serving, Slug, Id
      <3>2. /\ image'[Slug(d)] = image[Slug(d)] /\ data'[Slug(d)] = data[Slug(d)]
            /\ marker'[Slug(d)] = marker[Slug(d)]
        <4>1. CASE ~Busy(c)
          BY <1>0, <4>1, WorkFrame
        <4>2. CASE Busy(c)
          BY <1>0, <1>1, <2>2, <3>1, <4>2, WorkFrame, Exclusive DEF Busy
        <4> QED
          BY <4>1, <4>2
      <3> QED
        BY <1>0, <2>1, <2>2, <3>2 DEF Checked, MarkerAllows, Slug, Id
    <2>3. CASE pc[d] \notin {"create", "ready", "stamp"}
      BY <2>1, <2>3
    <2> QED
      BY <2>2, <2>3
  <1>2. CASE CheckMarker(c)
    BY <1>0, <1>1, <1>2 DEF CheckMarker, Goto, world, docker, Checked,
       MarkerAllows, Slug, Id
  <1>3. CASE CreateContainers(c)
    <2>1. Slug(c) \in Slugs
      BY <1>0, <1>3, JobFields, SlugsOfIds DEF CreateContainers, Serving,
         Slug, Id
    <2>2. pc'[c] = "ready" /\ loc' = loc /\ job' = job
          /\ image'[Slug(c)] = loc[c].ver /\ data'[Slug(c)] = loc[c].ver
      BY <1>0, <1>3, <2>1 DEF CreateContainers, Goto
    <2> QED
      BY <1>1, <2>2 DEF Checked, MarkerAllows, Slug, Id
  <1>4. CASE WaitReady(c)
    BY <1>0, <1>1, <1>4 DEF WaitReady, Goto, world, docker, Checked,
       MarkerAllows, Slug, Id
  <1>5. CASE ~(CheckMarker(c) \/ CreateContainers(c) \/ WaitReady(c))
    <2>1. pc'[c] \notin {"create", "ready", "stamp"}
      <3> USE <1>0, <1>5 DEF Goto, Release, Return
      <3>1. CASE SharedStep(c)
        BY <3>1 DEF SharedStep, Prepare, PrepareFails, RegisterRoute,
           RefreshFails, Refused, Finish, SaveFails
      <3>2. CASE StartStep(c)
        BY <3>2 DEF StartStep, EnsureNetwork, StartFailsEarly, CreateFails,
           WriteMarker, StartUnwinds, StartCommits, SaveStarted
      <3>3. CASE StopStep(c)
        BY <3>3 DEF StopStep, StopContainers, StopRemovesRoute, StopFails,
           SaveStopped
      <3>4. CASE DeleteStep(c)
        BY <3>4 DEF DeleteStep, DeleteStops, DeleteRemoves,
           DeleteRemovesRoute, DeleteRemovesNetwork, DeletePurges,
           DeletePlanFails, DeleteRow
      <3>5. CASE LanStep(c)
        BY <3>5 DEF LanStep, LanSavesRow, LanWritesConfig, LanConfigFails,
           LanRegistersRoute, LanRouteFails, LanCommits, LanUndoesRoute,
           LanUndoesState
      <3>6. CASE SettingsStep(c)
        BY <3>6 DEF SettingsStep, VersionsCheck, VersionsRefused,
           VersionsRemovesContainers, SaveVersions, SetSPXEnabled,
           SetPublishDBPort
      <3> QED
        BY <3>1, <3>2, <3>3, <3>4, <3>5, <3>6 DEF Work
    <2> QED
      BY <1>1, <2>1 DEF Checked
  <1> QED
    BY <1>2, <1>3, <1>4, <1>5

LEMMA CheckedStep ==
  ASSUME IInv, [Next]_vars
  PROVE  Checked'
  <1>0. /\ pc \in [Clients -> Pc]
        /\ loc \in [Clients -> Row \union {NoRow}]
        /\ job \in [Clients -> Job \union {NoJob}]
        /\ Checked
    BY DEF IInv, TypeInv, TypeOK
  <1>1. CASE Restart
    BY <1>1 DEF Restart, Checked
  <1>2. ASSUME NEW i \in Ids, AddSite(i) PROVE Checked'
    BY <1>0, <1>2 DEF AddSite, request, world, docker, Checked, MarkerAllows,
       Slug, Id
  <1>3. ASSUME NEW c \in Clients, Begin(c) PROVE Checked'
    <2>1. PICK p \in {"pub", "queued"} : pc' = [pc EXCEPT ![c] = p]
      BY <1>3 DEF Begin, Goto
    <2>2. /\ \A d \in Clients : d # c => job'[d] = job[d] /\ loc'[d] = loc[d]
          /\ image' = image /\ data' = data /\ marker' = marker
      BY <1>0, <1>3 DEF Begin, world, docker
    <2> QED
      BY <1>0, <2>1, <2>2 DEF Checked, MarkerAllows, Slug, Id
  <1>4. ASSUME NEW c \in Clients, Acquire(c) PROVE Checked'
    <2>1. job[c].kind \in AllKinds /\ job[c].kind # "publish"
      BY <1>4, JobFields DEF Acquire, IInv, TypeInv, Serving
    <2>2. FirstStep[job[c].kind] \notin {"create", "ready", "stamp"}
      BY <2>1 DEF FirstStep, AllKinds
    <2> QED
      BY <1>0, <1>4, <2>2 DEF Acquire, Goto, world, docker, Checked,
         MarkerAllows, Slug, Id
  <1>5. ASSUME NEW c \in Clients, Work(c) PROVE Checked'
    BY <1>5, WorkChecked
  <1>6. CASE UNCHANGED vars
    BY <1>0, <1>6 DEF vars, request, world, docker, Checked, MarkerAllows,
       Slug, Id
  <1> QED
    BY <1>1, <1>2, <1>3, <1>4, <1>5, <1>6 DEF Next

LEMMA InitInv == Init => IInv
  <1> SUFFICES ASSUME Init PROVE IInv
    OBVIOUS
  <1>1. Holding /\ Checked
    BY DEF Init, Holding, Checked, Busy
  <1>2. OneOwner
    BY DEF Init, OneOwner, Live
  <1> QED
    BY <1>1, <1>2, InitTypes DEF IInv

(* One start at a time checks, boots and stamps a volume: the mutex of the *)
(* one site that has the slug is held from Acquire to the return, for any  *)
(* number of sites, clients and images and every fault, as long as names   *)
(* are not reused while in use (StartSite).                                *)
THEOREM InvariantHolds ==
  ASSUME DuplicateNames = FALSE
  PROVE  Spec => []IInv
  <1>1. IInv /\ [Next]_vars => IInv'
    BY TypeStep, HoldingStep, OneOwnerStep, CheckedStep DEF IInv
  <1> QED
    BY <1>1, InitInv, PTL DEF Spec

LEMMA VolumeStep ==
  ASSUME IInv, IInv', [Next]_vars
  PROVE  [V!Next]_(V!vars)
  <1>0. Unread' \in SUBSET Slugs
    BY JobFields, SlugsOfIds DEF IInv, TypeInv, Serving, Unread, Slug, Id
  <1>1. CASE Restart
    BY <1>0, <1>1 DEF Restart, V!Next, V!TearDownAll, V!vars, Unread
  <1>2. ASSUME NEW c \in Clients, Work(c)
        PROVE  [V!Next]_(V!vars)
    BY <1>0, <1>2, WorkVolume DEF IInv, V!Next, V!vars, V!volume, Unread
  <1>3. CASE ~Restart /\ ~(\E c \in Clients : Work(c))
    <2>1. UNCHANGED <<image, data, marker>>
      BY <1>3 DEF Next, AddSite, Begin, Acquire, vars, world, docker
    <2> QED
      BY <1>0, <2>1 DEF V!Next, V!vars, V!volume, Unread
  <1> QED
    BY <1>1, <1>2, <1>3

(* The lifecycle implements the volume guard, under every fault: a database *)
(* container is made over a volume with a marker its image cannot read only *)
(* by a start whose own read of it failed, a marker is written only by the *)
(* image that is on the volume and wrote its data last, and goes only with *)
(* the data (EnsureMarkerStep, CreateContainersStep, WriteMarkerStep,      *)
(* PurgeVolumeStep).                                                       *)
THEOREM VolumeIsGuarded ==
  ASSUME DuplicateNames = FALSE
  PROVE  Spec => GuardsVolume
  <1>1. Init => V!Init
    BY DEF Init, V!Init
  <1>2. IInv /\ IInv' /\ [Next]_vars => [V!Next]_(V!vars)
    BY VolumeStep
  <1> QED
    BY <1>1, <1>2, InvariantHolds, PTL
    DEF Spec, GuardsVolume, V!Spec

=============================================================================
