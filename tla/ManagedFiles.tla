--------------------------- MODULE ManagedFiles ---------------------------
(* Files Locorum writes where its user may write too. Bundled assets under *)
(* ~/.locorum/config are reconciled on every start (app.SetupFilesystem,   *)
(* internal/assets); the files of a site (wp-config.php, config.yaml, the  *)
(* auto-login plugin) are rewritten by its operations through              *)
(* genmark.WriteIfManaged. The user edits, deletes and restores either at  *)
(* any moment, and the process may die at any step.                        *)
EXTENDS FiniteSets, Naturals

CONSTANTS
  Assets,       \* bundled files
  Bundle,       \* Bundle[v][f]: the content of f in version v of the program
  SiteFiles,    \* generated files of one site
  FileWriters,  \* operations of the site that may run at once
  MaxData,      \* bound on the changes of the site's row
  MaxEdits,     \* bound on the user's edits
  FileFaults    \* subset of {"write", "save", "crash"}

Versions == DOMAIN Bundle
Absent == 0
Contents == {Bundle[v][f] : v \in Versions, f \in Assets}
Own == 1 + CHOOSE n \in Contents : \A m \in Contents : m <= n     \* a text of the user's

(* The bundle is finite, and a file of it is none of a site's. *)
ASSUME FilesAssumption ==
  /\ Contents \subseteq Nat \ {Absent} /\ \E n \in Contents : \A m \in Contents : m <= n
  /\ Assets \cap SiteFiles = {} /\ MaxData \in Nat \ {0} /\ MaxEdits \in Nat

VARIABLES
  version,    \* the program's version
  stage,      \* "off", "setup" (the walk), "save" or "run"
  onDisk,       \* the content of each asset
  hashes,     \* asset_hashes.json, Absent for no entry
  next,       \* the table Reconcile is building
  walk,       \* assets still to visit
  look,       \* the asset being written, with whether it was the user's when it was read
  merge,      \* assets reported as needing a merge by hand
  edited,     \* ghost: files whose content is the user's
  siteRow,        \* the site's row, as a counter of its changes
  sfile,      \* the site's files: Absent, the row they were rendered from, or the user's text
  marked,     \* whether the file carries the marker
  writer,     \* the operations writing site files
  edits       \* edits so far

fileVars == <<version, stage, onDisk, hashes, next, walk, look, merge, edited, siteRow, sfile, marked, writer, edits>>
assetVars == <<version, stage, onDisk, hashes, next, walk, look, merge>>
siteVars == <<siteRow, sfile, marked, writer>>

Files == Assets \cup SiteFiles
NoLook == [f |-> "-", own |-> FALSE]
NoWriter == [f |-> "-", data |-> 0, own |-> FALSE, saw |-> 0, at |-> "-"]
OwnText == MaxData + 1

FilesTypeOK ==
  /\ version \in Versions /\ stage \in {"off", "setup", "save", "run"}
  /\ onDisk \in [Assets -> Contents \cup {Absent, Own}]
  /\ hashes \in [Assets -> Contents \cup {Absent}] /\ next \in [Assets -> Contents \cup {Absent}]
  /\ walk \subseteq Assets /\ merge \subseteq Assets /\ edited \subseteq Files
  /\ look \in [f : Assets \cup {"-"}, own : BOOLEAN]
  /\ siteRow \in 1..MaxData /\ sfile \in [SiteFiles -> 0..OwnText] /\ marked \in [SiteFiles -> BOOLEAN]
  /\ writer \in [FileWriters -> [f : SiteFiles \cup {"-"}, data : 0..MaxData, own : BOOLEAN, saw : 0..OwnText,
                                 at : {"-", "read", "write"}]]
  /\ edits \in 0..MaxEdits

FilesInit ==
  /\ version \in Versions /\ stage = "off"
  /\ onDisk = [f \in Assets |-> Absent] /\ hashes = [f \in Assets |-> Absent] /\ next = hashes
  /\ walk = {} /\ look = NoLook /\ merge = {} /\ edited = {}
  /\ siteRow = 1 /\ sfile = [g \in SiteFiles |-> Absent] /\ marked = [g \in SiteFiles |-> FALSE]
  /\ writer = [w \in FileWriters |-> NoWriter] /\ edits = 0

(* A version of the program starts and loads the table. *)
StartApp ==
  /\ stage = "off"
  /\ version' \in Versions
  /\ stage' = "setup" /\ walk' = Assets /\ next' = [f \in Assets |-> Absent] /\ merge' = {}
  /\ UNCHANGED <<onDisk, hashes, look, edited, siteVars, edits>>

(* Reconcile reads one file: missing or unchanged since the last start, it  *)
(* is to be written; equal to the bundle, it is left; else it is the user's *)
(* to merge.                                                                *)
Verdict(f, embed) ==
  CASE onDisk[f] = Absent    -> "write"
    [] onDisk[f] = embed     -> "no-op"
    [] onDisk[f] = hashes[f] -> "write"
    [] OTHER               -> "merge"

(* Mutation of NextHash: a kept file is recorded with the hash it has.     *)
MutantHashOfDisk(f) == onDisk[f]

NextHash(f) == Bundle[version][f]
Look(f) ==
  /\ stage = "setup" /\ look = NoLook /\ f \in walk
  /\ walk' = walk \ {f} /\ next' = [next EXCEPT ![f] = NextHash(f)]
  /\ look' = IF Verdict(f, Bundle[version][f]) = "write" THEN [f |-> f, own |-> f \in edited] ELSE NoLook
  /\ merge' = IF Verdict(f, Bundle[version][f]) = "merge" THEN merge \cup {f} ELSE merge
  /\ UNCHANGED <<version, stage, onDisk, hashes, edited, siteVars, edits>>

(* WriteAtomic renames the new content over whatever is there by then; a    *)
(* failure is kept in the report and the walk goes on.                      *)
PutAsset(f) ==
  /\ stage = "setup" /\ look.f = f
  /\ \/ onDisk' = [onDisk EXCEPT ![f] = Bundle[version][f]] /\ edited' = edited \ {f}
     \/ "write" \in FileFaults /\ UNCHANGED <<onDisk, edited>>
  /\ look' = NoLook
  /\ UNCHANGED <<version, stage, hashes, next, walk, merge, siteVars, edits>>

(* SaveState, whose failure is only logged. *)
SaveState ==
  /\ stage = "setup" /\ walk = {} /\ look = NoLook
  /\ \/ hashes' = next
     \/ "save" \in FileFaults /\ UNCHANGED hashes
  /\ stage' = "run"
  /\ UNCHANGED <<version, onDisk, next, walk, look, merge, edited, siteVars, edits>>

(* LoadState finds nothing it can read. *)
LoseState ==
  /\ stage = "off" /\ "save" \in FileFaults
  /\ hashes' = [f \in Assets |-> Absent]
  /\ UNCHANGED <<version, stage, onDisk, next, walk, look, merge, edited, siteVars, edits>>

(* The process ends, in its own time or not. *)
EndApp ==
  /\ stage = "run" \/ (stage = "setup" /\ "crash" \in FileFaults)
  /\ stage' = "off" /\ look' = NoLook /\ walk' = {}
  /\ writer' = [w \in FileWriters |-> NoWriter]
  /\ UNCHANGED <<version, onDisk, hashes, next, merge, edited, siteRow, sfile, marked, edits>>

(* The user edits, deletes or puts back a bundled file. *)
EditAsset(f) ==
  /\ edits < MaxEdits
  /\ \E c \in Contents \cup {Absent, Own} :
       /\ c # onDisk[f] /\ onDisk' = [onDisk EXCEPT ![f] = c]
       /\ edited' = IF c = Own THEN edited \cup {f} ELSE edited \ {f}
  /\ edits' = edits + 1
  /\ UNCHANGED <<version, stage, hashes, next, walk, look, merge, siteVars>>

-----------------------------------------------------------------------------
(* An operation changes the site's row, or a start regenerates the files of *)
(* the row it read; Render takes the copy of the row the operation holds.   *)
ChangeRow ==
  /\ stage = "run" /\ siteRow < MaxData /\ siteRow' = siteRow + 1
  /\ UNCHANGED <<assetVars, edited, sfile, marked, writer, edits>>

BeginWrite(w, g) ==
  /\ stage = "run" /\ writer[w] = NoWriter
  /\ writer' = [writer EXCEPT ![w] = [NoWriter EXCEPT !.f = g, !.data = siteRow, !.at = "read"]]
  /\ UNCHANGED <<assetVars, edited, siteRow, sfile, marked, edits>>

(* WriteIfManaged: equal bytes and files without the marker are left alone. *)
MayWrite(w, g) == sfile[g] = Absent \/ (sfile[g] # writer[w].data /\ marked[g])
ReadManaged(w) ==
  /\ writer[w].at = "read"
  /\ LET g == writer[w].f IN
     writer' = [writer EXCEPT ![w] = IF MayWrite(w, g) THEN [@ EXCEPT !.at = "write", !.own = g \in edited, !.saw = sfile[g]]
                                     ELSE NoWriter]
  /\ UNCHANGED <<assetVars, edited, siteRow, sfile, marked, edits>>

(* writeAtomicNoCheck: the rename is the commit point. *)
PutManaged(w) ==
  /\ writer[w].at = "write"
  /\ LET g == writer[w].f IN
     \/ /\ sfile' = [sfile EXCEPT ![g] = writer[w].data] /\ marked' = [marked EXCEPT ![g] = TRUE]
        /\ edited' = edited \ {g}
     \/ "write" \in FileFaults /\ UNCHANGED <<sfile, marked, edited>>
  /\ writer' = [writer EXCEPT ![w] = NoWriter]
  /\ UNCHANGED <<assetVars, siteRow, edits>>

(* The user takes a file over by removing the marker line, with or without  *)
(* other changes, or deletes it.                                            *)
EditManaged(g) ==
  /\ edits < MaxEdits /\ sfile[g] # Absent
  /\ \/ /\ \E c \in {sfile[g], OwnText} : sfile' = [sfile EXCEPT ![g] = c]
        /\ marked' = [marked EXCEPT ![g] = FALSE] /\ edited' = edited \cup {g}
     \/ /\ sfile' = [sfile EXCEPT ![g] = Absent]
        /\ marked' = [marked EXCEPT ![g] = FALSE] /\ edited' = edited \ {g}
  /\ edits' = edits + 1
  /\ UNCHANGED <<assetVars, siteRow, writer>>

FilesNext ==
  \/ StartApp \/ SaveState \/ LoseState \/ EndApp \/ ChangeRow
  \/ \E f \in Assets : Look(f) \/ PutAsset(f) \/ EditAsset(f)
  \/ \E w \in FileWriters : ReadManaged(w) \/ PutManaged(w) \/ \E g \in SiteFiles : BeginWrite(w, g)
  \/ \E g \in SiteFiles : EditManaged(g)
FilesSpec == FilesInit /\ [][FilesNext]_fileVars

-----------------------------------------------------------------------------
(* assets.go:166-176 and genmark.go:20-33: a file the user had made his own    *)
(* when the program looked at it is never written over, whatever versions,  *)
(* failed saves and crashes came before. (What he saves between the look    *)
(* and the rename is lost.)                                                 *)
EditsAreKept ==
  /\ look.own = FALSE
  /\ \A w \in FileWriters : writer[w].at = "write" => ~writer[w].own

(* A bundled file that no user touched follows the bundle: once the start   *)
(* has gone through, it is the running version's. assets.go:13-16: "Missing  *)
(* state [...] is treated as 'every disk file matches the previous embed'"; *)
(* app.go:348-349 says the same of a table that could not be saved.         *)
UntouchedFollowBundle ==
  stage = "run" /\ edits = 0 => \A f \in Assets : onDisk[f] = Bundle[version][f]
=============================================================================
