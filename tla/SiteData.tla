------------------------------ MODULE SiteData ------------------------------
(* The database of one site and everything that copies it or overwrites it:
   snapshots, restores, imports, exports, the retention sweep and the engine
   migration (internal/sites snapshot.go, migrate.go, import.go, export.go over
   internal/dbengine).  Each stretch of code that runs under the site's mutex
   is one action; the row it uses was read before the mutex was taken, and
   other clients act in between.  A database is a map from tables to how many
   writes they hold (0: the table is absent), an image stands for an engine and
   its version, a dump for the tables it carries.                            *)
EXTENDS Naturals, FiniteSets, FiniteSetsExt, DbEngine
CONSTANTS Users, Images, Tables,
          MaxWrites,    \* bound on the writes of a table
          MaxSecond,    \* bound on the clock
          MaxAsked,     \* bound on the requests made
          MaxSnaps,     \* bound on the files in the snapshots directory
          SameSecond,   \* may two snapshots with one label fall in one second
          MaySkip,      \* may a migration be asked to skip its snapshot
          Keep          \* SnapshotRetentionPolicy.MaxPerSite
ASSUME SiteDataAssumption ==
  /\ MaxWrites \in Nat \ {0} /\ MaxSecond \in Nat /\ MaxSnaps \in Nat /\ MaxAsked \in Nat /\ Keep \in Nat
  /\ SameSecond \in BOOLEAN /\ MaySkip \in BOOLEAN

VARIABLES row,      \* the site's row: Started, and DBEngine with DBVersion
          up,       \* the image the running database container was made from
          volume,   \* which image last opened the data volume, and its tables
          snaps,    \* the files of ~/.locorum/snapshots
          second,   \* the clock, at the resolution of a file name
          rq,       \* the request each client is in the middle of
          asked,    \* history: how many requests were made
          told,     \* what the last request to end returned
          past      \* history: tables destroyed after a safety snapshot of them
dataVars == <<row, up, volume, snaps, second, rq, asked, told, past>>

Off == [engine |-> "off", version |-> << >>]
Fresh == [engine |-> "none", version |-> << >>]
Blank == [t \in Tables |-> 0]
Tabs == [Tables -> 0..MaxWrites]
Labels == {"manual", "pre_restore", "pre_import", "pre_migrate"}
Sums == {"none", "ofDump", "ofFile"}
Snap == [label: Labels, at: 0..MaxSecond, image: Images, tab: Tabs, sum: Sums]
NoSnap == [label |-> "none"]
Row == [started: BOOLEAN, image: Images]
Idle == [op |-> "idle"]
Pcs == {"enter", "boot", "snap", "stop", "flip", "reboot", "ask", "load", "down"}

\* What each client's call holds on its stack: the row it read, and what it
\* was asked for.
SnapshotRq == [op: {"snapshot"}, pc: {"enter"}, site: Row]
RestoreRq == [op: {"restore"}, pc: {"enter"}, site: Row, snap: Snap]
ImportRq == [op: {"import"}, pc: {"enter"}, site: Row, skip: BOOLEAN]
MigrateRq == [op: {"migrate"}, pc: Pcs \ {"enter"}, site: Row, target: Images, was: BOOLEAN,
              skip: BOOLEAN, snap: Snap \cup {NoSnap}, alone: BOOLEAN]
Requests == {Idle} \cup SnapshotRq \cup RestoreRq \cup ImportRq \cup MigrateRq

DataTypeOK ==
  /\ row \in Row
  /\ up \in Images \cup {Off}
  /\ volume \in [by: Images \cup {Fresh}, tab: Tabs]
  /\ snaps \subseteq Snap
  /\ second \in 0..MaxSecond
  /\ DOMAIN rq = Users /\ \A u \in Users : rq[u] \in Requests
  /\ past \subseteq Tabs /\ asked \in 0..MaxAsked
  /\ told \in {"done", "failed", "checksum", "migrated"}

\* writeChecksum is given the digest of what the engine wrote, before the
\* compressor; when the sidecar cannot be written the snapshot stays without.
SidecarOf == {"ofDump", "none"}

DataInit ==
  /\ \E i \in Images :
       /\ row = [started |-> TRUE, image |-> i] /\ up = i
       /\ volume = [by |-> i, tab |-> [t \in Tables |-> 1]]
       \* from an earlier session there may be a snapshot
       /\ snaps \in {{}} \cup
            {{s} : s \in [label: {"manual"}, at: {0}, image: {i},
                         tab: {volume.tab}, sum: SidecarOf]}
  /\ second = 0 /\ past = {}
  /\ rq = [u \in Users |-> Idle] /\ asked = 0 /\ told = "done"

-----------------------------------------------------------------------------
(* Files, dumps and sidecars.                                                *)

\* buildSnapshotName: one site, so label, second and image make the name.
Name(s) == <<s.label, s.at, s.image>>

\* os.Rename puts the finished file in place of one with the same name.
Filed(s) == {x \in snaps : Name(x) # Name(s)} \cup {s}

\* verifyChecksum digests the file as it lies on disk, compressed.
Verifies(s) == s.sum \in {"none", "ofFile"}

\* snapshotLocked: the dump comes from the running container, the name from
\* the row its caller read.  Any step before the rename may fail, which leaves
\* no file and returns an error; the pre-snapshot hook can refuse too.
Dumped(site, label) ==
  {s \in [label: {label}, at: {second}, image: {site.image},
          tab: {volume.tab}, sum: SidecarOf] :
      /\ up # Off
      /\ volume.tab # Blank
      /\ SameSecond \/ \A x \in snaps : Name(x) # Name(s)
      /\ Cardinality(Filed(s)) <= MaxSnaps}

\* Mutation of Overlaid: the dump is made without --add-drop-table, so its rows
\* join those of a table that is there.
MutantOverlaid(dump, done) ==
  [t \in Tables |-> IF t \in done THEN volume.tab[t] + dump[t] ELSE volume.tab[t]]

\* Engine.Restore pipes the dump into the server: a table of the dump is
\* dropped and made again, any other stays.  On an error what ran so far stays.
Overlaid(dump, done) ==
  [t \in Tables |-> IF t \in done THEN dump[t] ELSE volume.tab[t]]
Carried(dump) == {t \in Tables : dump[t] # 0}

-----------------------------------------------------------------------------
(* Dumps that come from outside (import.go, import_filters.go).              *)

\* importFilters of internal/sites, which every dump goes through whatever the
\* engine is; it has no rule for SQL_LOG_BIN.
ImportDrops == {"createdb", "use", "sandbox"}
Filtered(lines) == Streamed(lines, ImportDrops)

\* decompressedReader picks by the file name's end, first match first; only an
\* uncompressed file is sniffed for a SQL header.
Readable(ext, entries, sql) ==
  \/ ext \in {"gz", "bz2", "tar.gz", "tar.bz2"}
  \/ ext = "zip" /\ entries = 1
  \/ ext \in {"sql", "dump", ""} /\ sql
Extensions == {"sql", "gz", "zip", "xz", "tar.gz"}

\* prepareDump: read, filter, and refuse a result with no SQL left.
Prepared(ext, entries, sql, lines) ==
  Readable(ext, entries, sql) /\ Filtered(lines) # {}

-----------------------------------------------------------------------------
(* Any step by somebody else than u ends u's claim to have been alone.       *)
Disturbed(u) ==
  [v \in Users |-> IF v # u /\ rq[v].op = "migrate"
                   THEN [rq[v] EXCEPT !.alone = FALSE] ELSE rq[v]]
Goes(u, r) == rq' = [Disturbed(u) EXCEPT ![u] = r]
Returns(u, out) == Goes(u, Idle) /\ told' = out

\* WordPress itself writes to the database while the site is up.
SiteWrites ==
  /\ up # Off
  /\ \E t \in Tables : /\ volume.tab[t] < MaxWrites
                       /\ volume' = [volume EXCEPT !.tab[t] = @ + 1]
  /\ rq' = [v \in Users |-> IF rq[v].op = "migrate"
                            THEN [rq[v] EXCEPT !.alone = FALSE] ELSE rq[v]]
  /\ UNCHANGED <<asked, row, up, snaps, second, told, past>>

ClockTicks == /\ second < MaxSecond /\ second' = second + 1
              /\ UNCHANGED <<asked, row, up, volume, snaps, rq, told, past>>

\* StartSite and StopSite, whose own steps SiteLifecycle models: the volume's
\* marker decides which image may open it.
Opens(i) == volume.by = Fresh \/ CompareMarker(volume.by, i)
Booted(site) == /\ Opens(site.image)
                /\ up' = site.image /\ volume' = [volume EXCEPT !.by = site.image]
                /\ row' = [site EXCEPT !.started = TRUE]
Halted == up' = Off /\ row' = [row EXCEPT !.started = FALSE]

Start(u) == /\ rq[u] = Idle /\ up = Off /\ Booted(row)
            /\ rq' = Disturbed(u) /\ UNCHANGED <<asked, snaps, second, told, past>>
Stop(u) == /\ rq[u] = Idle /\ Halted
           /\ rq' = Disturbed(u) /\ UNCHANGED <<asked, volume, snaps, second, told, past>>

\* The container dies, or the machine does: the row does not learn of it.
DbDies == /\ up # Off /\ up' = Off
          /\ rq' = [v \in Users |-> IF rq[v].op = "migrate"
                                    THEN [rq[v] EXCEPT !.alone = FALSE] ELSE rq[v]]
          /\ UNCHANGED <<asked, row, volume, snaps, second, told, past>>

-----------------------------------------------------------------------------
(* Snapshot, Restore, Import, Export: the part before the mutex, then the
   part under it.                                                            *)
Asks(u) == rq[u] = Idle /\ asked < MaxAsked /\ asked' = asked + 1
Asked(op) == [op |-> op, pc |-> "enter", site |-> row]

AskSnapshot(u) ==
  /\ Asks(u) /\ row.started
  /\ Goes(u, Asked("snapshot"))
  /\ UNCHANGED <<row, up, volume, snaps, second, told, past>>

TakeSnapshot(u) ==
  /\ rq[u].op = "snapshot"
  /\ \/ \E s \in Dumped(rq[u].site, "manual") :
          snaps' = Filed(s) /\ Returns(u, "done")
     \/ snaps' = snaps /\ Returns(u, "failed")
  /\ UNCHANGED <<asked, row, up, volume, second, past>>

\* RestoreSnapshot before the mutex: running, and made by the row's image.
AskRestore(u) ==
  /\ Asks(u) /\ row.started
  /\ \E s \in snaps : /\ s.image = row.image
                      /\ Goes(u, [op |-> "restore", pc |-> "enter",
                                  site |-> row, snap |-> s])
  /\ UNCHANGED <<row, up, volume, snaps, second, told, past>>

\* Under the mutex: the pre_restore snapshot may fail and is then only logged;
\* a sidecar that does not verify, or a file deleted meanwhile, refuses before
\* the database is touched; the server may fail half way through.
Restored(u, site, snap, Done) ==
  \E kept \in {snaps} \cup {Filed(s) : s \in Dumped(site, "pre_restore")} :
    /\ snaps' = kept
    /\ \/ /\ Verifies(snap) /\ snap \in kept /\ up # Off
          /\ \/ /\ volume' = [volume EXCEPT
                                !.tab = Overlaid(snap.tab, Carried(snap.tab))]
                /\ Done
             \/ \E done \in SUBSET Carried(snap.tab) :
                  /\ volume' = [volume EXCEPT !.tab = Overlaid(snap.tab, done)]
                  /\ Returns(u, "failed")
          /\ past' = IF kept # snaps THEN past \cup {volume.tab} ELSE past
       \/ ~Verifies(snap) /\ UNCHANGED <<volume, past>> /\ Returns(u, "checksum")
       \/ /\ up = Off \/ snap \notin kept
          /\ UNCHANGED <<volume, past>> /\ Returns(u, "failed")

Restore(u) ==
  /\ rq[u].op = "restore"
  /\ Restored(u, rq[u].site, rq[u].snap, Returns(u, "done"))
  /\ UNCHANGED <<asked, row, up, second>>

AskImport(u) ==
  /\ Asks(u) /\ row.started
  /\ \E skip \in BOOLEAN : Goes(u, [op |-> "import", pc |-> "enter",
                                    site |-> row, skip |-> skip])
  /\ UNCHANGED <<row, up, volume, snaps, second, told, past>>

\* What `wp db import` and the search-replace after it leave: any tables of the
\* dump, in part when it fails half way; the plan's undo removes only the file.
Import(u) ==
  /\ rq[u].op = "import"
  /\ \E kept \in IF rq[u].skip THEN {snaps}
                ELSE {Filed(s) : s \in Dumped(rq[u].site, "pre_import")} :
     /\ snaps' = kept
     /\ \E ext \in Extensions, lines \in {{}, {{"use"}}, {{"definer"}}} :
        IF Prepared(ext, 1, TRUE, lines) /\ up # Off
        THEN /\ \E done \in SUBSET Tables :
                  volume' = [volume EXCEPT !.tab =
                               [t \in Tables |-> IF t \in done THEN 1 ELSE @[t]]]
             /\ past' = IF rq[u].skip THEN past ELSE past \cup {volume.tab}
             /\ \E out \in {"done", "failed"} : Returns(u, out)
        ELSE UNCHANGED <<volume, past>> /\ Returns(u, "failed")
  /\ UNCHANGED <<asked, row, up, second>>

\* Mutation of ImportRefused: the failed pre_import snapshot is only logged.
MutantImportRefused(u) ==
  /\ rq[u].op = "import" /\ ~rq[u].skip
  /\ IF up # Off
     THEN /\ volume' = [volume EXCEPT !.tab = [t \in Tables |-> 1]]
          /\ past' = past \cup {volume.tab} /\ Returns(u, "done")
     ELSE UNCHANGED <<volume, past>> /\ Returns(u, "failed")
  /\ UNCHANGED <<asked, row, up, snaps, second>>

\* The pre_import snapshot fails: the import is refused and nothing changes.
ImportRefused(u) ==
  /\ rq[u].op = "import" /\ ~rq[u].skip
  /\ Returns(u, "failed")
  /\ UNCHANGED <<asked, row, up, volume, snaps, second, past>>

\* ExportSite reads the database and the files and writes neither.
Export(u) ==
  /\ rq[u] = Idle
  /\ \E out \in (IF up = Off THEN {"failed"} ELSE {"done", "failed"}) :
        Returns(u, out)
  /\ UNCHANGED <<asked, row, up, volume, snaps, second, past>>

\* DeleteSnapshot takes no mutex.  What it deletes on purpose is no loss.
Forget(gone) == past' = past \ {s.tab : s \in gone}
DeleteSnapshot(u) ==
  /\ rq[u] = Idle
  /\ \E s \in snaps : snaps' = snaps \ {s} /\ Forget({s})
  /\ rq' = Disturbed(u)
  /\ UNCHANGED <<asked, row, up, volume, second, told>>

\* SweepSnapshots at start-up keeps the newest; equal times in any order.
SweepSnapshots ==
  /\ Keep > 0 /\ Cardinality(snaps) > Keep
  /\ \A u \in Users : rq[u] = Idle
  /\ \E kept \in kSubset(Keep, snaps) :
        /\ \A s \in kept, x \in snaps \ kept : s.at >= x.at
        /\ snaps' = kept /\ Forget(snaps \ kept)
  /\ UNCHANGED <<asked, row, up, volume, second, rq, told>>

-----------------------------------------------------------------------------
(* MigrateEngine.                                                            *)
Step(u, pc) == Goes(u, [rq[u] EXCEPT !.pc = pc])

\* A target the row already names is answered at once.
AskMigrate(u) ==
  /\ Asks(u)
  /\ \E target \in Images, skip \in {FALSE, MaySkip} :
       IF target = row.image
       THEN Returns(u, "migrated")
       ELSE /\ Goes(u, [op |-> "migrate", site |-> row, target |-> target,
                        was |-> row.started, skip |-> skip, snap |-> NoSnap,
                        alone |-> TRUE, pc |-> IF ~row.started THEN "boot"
                                               ELSE IF skip THEN "stop" ELSE "snap"])
            /\ UNCHANGED told
  /\ UNCHANGED <<row, up, volume, snaps, second, past>>

\* A stopped site is started for its snapshot, and its row read again.
MigrateBoots(u) ==
  /\ rq[u].op = "migrate" /\ rq[u].pc = "boot"
  /\ \/ /\ Booted(row) /\ UNCHANGED told
        /\ Goes(u, [rq[u] EXCEPT !.site = row',
                                 !.pc = IF rq[u].skip THEN "stop" ELSE "snap"])
     \/ UNCHANGED <<row, up, volume>> /\ Returns(u, "failed")
  /\ UNCHANGED <<asked, snaps, second, past>>

MigrateSnapshots(u) ==
  /\ rq[u].op = "migrate" /\ rq[u].pc = "snap"
  /\ \/ \E s \in Dumped(rq[u].site, "pre_migrate") :
          /\ snaps' = Filed(s) /\ UNCHANGED told
          /\ Goes(u, [rq[u] EXCEPT !.snap = s, !.pc = "stop"])
     \/ snaps' = snaps /\ Returns(u, "failed")
  /\ UNCHANGED <<asked, row, up, volume, second, past>>

MigrateStops(u) ==
  /\ rq[u].op = "migrate" /\ rq[u].pc = "stop"
  /\ \/ Halted /\ Step(u, "flip") /\ UNCHANGED told
     \/ UNCHANGED <<row, up>> /\ Returns(u, "failed")
  /\ UNCHANGED <<asked, volume, snaps, second, past>>

\* Docker removes no volume that a container uses; otherwise it is gone, and
\* the row read before the stop is written with the new image.
MigrateFlips(u) ==
  /\ rq[u].op = "migrate" /\ rq[u].pc = "flip"
  /\ \/ /\ up = Off
        /\ volume' = [by |-> Fresh, tab |-> Blank]
        /\ past' = IF rq[u].alone /\ ~rq[u].skip
                   THEN past \cup {volume.tab} ELSE past
        /\ \/ /\ row' = [rq[u].site EXCEPT !.image = rq[u].target]
              /\ Step(u, "reboot") /\ UNCHANGED told
           \/ UNCHANGED row /\ Returns(u, "failed")
     \/ UNCHANGED <<volume, row, past>> /\ Returns(u, "failed")
  /\ UNCHANGED <<asked, up, snaps, second>>

MigrateRestarts(u) ==
  /\ rq[u].op = "migrate" /\ rq[u].pc = "reboot"
  /\ \/ /\ Booted(row) /\ UNCHANGED told
        /\ Step(u, IF rq[u].skip THEN "down" ELSE "ask")
     \/ UNCHANGED <<row, up, volume>> /\ Returns(u, "failed")
  /\ UNCHANGED <<asked, snaps, second, past>>

\* RestoreSnapshot again, this time without the comparison of images.
MigrateAsksRestore(u) ==
  /\ rq[u].op = "migrate" /\ rq[u].pc = "ask"
  /\ IF row.started
     THEN Goes(u, [rq[u] EXCEPT !.pc = "load", !.site = row]) /\ UNCHANGED told
     ELSE Returns(u, "failed")
  /\ UNCHANGED <<asked, row, up, volume, snaps, second, past>>

\* Mutation of MigrateRestores: the error of the restore is only logged.
MutantMigrateRestores(u) ==
  /\ rq[u].op = "migrate" /\ rq[u].pc = "load"
  /\ \/ Restored(u, rq[u].site, rq[u].snap, Step(u, "down") /\ UNCHANGED told)
     \/ UNCHANGED <<volume, snaps, past, told>> /\ Step(u, "down")
  /\ UNCHANGED <<asked, row, up, second>>

MigrateRestores(u) ==
  /\ rq[u].op = "migrate" /\ rq[u].pc = "load"
  /\ Restored(u, rq[u].site, rq[u].snap, Step(u, "down") /\ UNCHANGED told)
  /\ UNCHANGED <<asked, row, up, second>>

\* A site that was stopped is stopped again; a failure of that is only logged.
MigrateEnds(u) ==
  /\ rq[u].op = "migrate" /\ rq[u].pc = "down"
  /\ IF rq[u].was THEN UNCHANGED <<up, row>> ELSE Halted \/ UNCHANGED <<up, row>>
  /\ Returns(u, "migrated")
  /\ UNCHANGED <<asked, volume, snaps, second, past>>

\* The program ends under a request: nothing of it is taken up again.
Crash(u) == /\ rq[u] # Idle /\ Returns(u, "failed")
            /\ UNCHANGED <<asked, row, up, volume, snaps, second, past>>

DataNext ==
  \/ SiteWrites \/ ClockTicks \/ DbDies \/ SweepSnapshots
  \/ \E u \in Users :
       \/ Start(u) \/ Stop(u) \/ AskSnapshot(u) \/ TakeSnapshot(u)
       \/ AskRestore(u) \/ Restore(u) \/ AskImport(u) \/ Import(u)
       \/ ImportRefused(u) \/ Export(u) \/ DeleteSnapshot(u)
       \/ AskMigrate(u) \/ MigrateBoots(u) \/ MigrateSnapshots(u)
       \/ MigrateStops(u) \/ MigrateFlips(u) \/ MigrateRestarts(u)
       \/ MigrateAsksRestore(u) \/ MigrateRestores(u) \/ MigrateEnds(u)
       \/ Crash(u)

DataSpec == DataInit /\ [][DataNext]_dataVars

-----------------------------------------------------------------------------
(* What the code promises.                                                   *)

\* Tables that a restore, an import or an undisturbed migration destroyed after
\* its safety snapshot are still in a snapshot file, unless that file was
\* deleted or swept on purpose ("so the user can roll back", import.go:44).
Recoverable == \A tab \in past : \E s \in snaps : s.tab = tab

\* Of the tables alone, and with at most one snapshot of a label in a second,
\* all the operations together are SafeTables: no table is live that was not
\* written, imported or in a snapshot, and Recoverable follows from it.
Safe == INSTANCE SafeTables WITH live <- volume.tab,
                                 copies <- {s.tab : s \in snaps}, gone <- past
KeepsTablesSafe == Safe!Spec

\* A migration nobody disturbed, when it returns without an error, has moved
\* the site to the target image with the tables it held, and a site that was
\* running is running (migrate.go:29-40).
MigrationIsWhole ==
  [][\A u \in Users :
       rq[u].op = "migrate" /\ told' = "migrated" /\ rq'[u] = Idle
         /\ rq[u].pc = "down" /\ rq[u].alone
       => /\ row'.image = rq[u].target
          /\ volume'.by = rq[u].target
          /\ volume'.tab = IF rq[u].skip THEN Blank ELSE rq[u].snap.tab
          /\ rq[u].was => up' = rq[u].target]_dataVars

\* "Restore verifies before importing" (snapshot.go:127): a snapshot nobody
\* touched since it was written is never refused for its checksum.
IntactRestores == told # "checksum"

\* "The user can re-trigger MigrateEngine from the snapshot to finish the
\* migration" (migrate.go:43): a migration that returns without an error does
\* not leave an empty database.
RetriggerFinishes ==
  [][told' = "migrated" /\ told # "migrated" => volume'.tab # Blank]_dataVars
=============================================================================
