------------------------------ MODULE GuiSites ------------------------------
(***************************************************************************)
(* The site list of the GUI and the buttons that act on it                 *)
(* (internal/ui/state.go, sitedetail.go, ui.go, clonemodal.go, the start   *)
(* up in main.go, and the two callbacks of internal/sites/sites.go).       *)
(*                                                                         *)
(* Every click starts a goroutine, a job here.  A job on one row reads the *)
(* row before it waits for the site's mutex, writes that copy back with    *)
(* its change, and hands it to UpdateSite while it has the mutex; the      *)
(* public directory is changed without the mutex, and the refresh of the   *)
(* LAN route hands its copy over without writing it.  A job that adds or   *)
(* removes a row, and the reconciliation at start, read the whole table    *)
(* under no mutex and hand it to SetSites.  A loader fills the list before *)
(* Docker is up.                                                           *)
(***************************************************************************)
EXTENDS Naturals, FiniteSets

CONSTANTS GuiNames,    \* the sites
          MaxActs,     \* bound: jobs of a run
          GuiFaults    \* what may fail: "init", "row"

ASSUME GuiAssumption ==
  GuiNames # {} /\ MaxActs \in Nat /\ GuiFaults \subseteq {"init", "row"}

None == "none"
Acts == 1 .. MaxActs
Loader == MaxActs + 1
Starter == MaxActs + 2
Jobs == 1 .. MaxActs + 2

Rows == {"absent", "stopped", "running"}
NoList == [s \in GuiNames |-> "absent"]

VARIABLES
  rows,      \* the sites table
  list,      \* UIState.sites
  jobs,      \* the goroutines
  failed,    \* initError
  dialog,    \* deleteTargetID, deletePurgeVolume; the tick box of the dialog
  cloning,   \* cloneTargetID and cloneLoading
  flags,     \* siteToggling and siteLanToggling
  astray     \* the list was left behind in one of the ways below (ghost)

screenVars == <<rows, list, jobs, failed, dialog, cloning, flags, astray>>

(* Jobs on one row: the five of the site's page, and the edits of a stopped *)
(* site: its versions and profiling, and its public directory.             *)
RowJobs == {"start", "stop", "lan", "refresh", "edit", "dir"}

Job(kind, s, pc) == [kind |-> kind, site |-> s, pc |-> pc, table |-> NoList]
NoJob == Job("none", None, "gone")

GuiTypeOK ==
  /\ {rows, list} \subseteq [GuiNames -> Rows]
  /\ jobs \in
       [Jobs -> [kind : RowJobs \cup {"none", "ended", "load", "init", "clone",
                                      "delete", "purge", "create"},
                 site : GuiNames \cup {None},
                 pc : {"retry", "run", "get", "write", "push", "read", "set",
                       "flag", "gone"},
                 table : [GuiNames -> Rows]]]
  /\ failed \in BOOLEAN
  /\ dialog \in [site : GuiNames \cup {None}, purge : BOOLEAN, box : BOOLEAN]
  /\ cloning \in [site : GuiNames \cup {None}, busy : BOOLEAN]
  /\ flags \in [toggling : SUBSET GuiNames, lan : SUBSET GuiNames]
  /\ astray \in BOOLEAN

GuiInit ==
  /\ rows \in [GuiNames -> Rows]
  /\ list = NoList
  /\ jobs = [j \in Jobs |-> IF j = Loader THEN Job("load", None, "read")
                            ELSE IF j = Starter THEN Job("init", None, "run")
                            ELSE NoJob]
  /\ failed = FALSE
  /\ dialog = [site |-> None, purge |-> FALSE, box |-> FALSE]
  /\ cloning = [site |-> None, busy |-> FALSE]
  /\ flags = [toggling |-> {}, lan |-> {}]
  /\ astray = FALSE

-----------------------------------------------------------------------------
(* Clicks.  The page of a failed start has no button but Retry.            *)

Listed(s) == list[s] # "absent" /\ ~failed

(* go func: a job slot is used once.                                       *)
Go(job) ==
  \E j \in Acts : /\ jobs[j] = NoJob /\ \A o \in 1 .. j - 1 : jobs[o] # NoJob
                  /\ jobs' = [jobs EXCEPT ![j] = job]

(* The buttons look at the listed row, not at the flag.                    *)
ClickStartOrStop(s) ==
  /\ Listed(s)
  /\ Go(Job(IF list[s] = "running" THEN "stop" ELSE "start", s, "get"))
  /\ flags' = [flags EXCEPT !.toggling = @ \cup {s}]
  /\ UNCHANGED <<rows, list, failed, dialog, cloning, astray>>

(* The toggle and the refresh of the LAN route share their flag.           *)
ClickLan(s) ==
  /\ Listed(s) /\ s \notin flags.lan
  /\ \E kind \in {"lan", "refresh"} : Go(Job(kind, s, "get"))
  /\ flags' = [flags EXCEPT !.lan = @ \cup {s}]
  /\ UNCHANGED <<rows, list, failed, dialog, cloning, astray>>

(* Save, on the pages of a stopped site: no flag is raised.                *)
ClickEdit(s) ==
  /\ Listed(s) /\ list[s] = "stopped"
  /\ \E kind \in {"edit", "dir"} : Go(Job(kind, s, "get"))
  /\ UNCHANGED <<rows, list, failed, dialog, cloning, flags, astray>>

OpenClone(s) ==
  /\ Listed(s) /\ cloning.site = None
  /\ cloning' = [cloning EXCEPT !.site = s]
  /\ UNCHANGED <<rows, list, jobs, failed, dialog, flags, astray>>

(* Escape closes the dialog of a clone that runs.                          *)
CancelClone ==
  /\ cloning.site # None
  /\ cloning' = [cloning EXCEPT !.site = None]
  /\ UNCHANGED <<rows, list, jobs, failed, dialog, flags, astray>>

ConfirmClone ==
  /\ cloning.site # None /\ ~cloning.busy
  /\ Go(Job("clone", cloning.site, "write"))
  /\ cloning' = [cloning EXCEPT !.busy = TRUE]
  /\ UNCHANGED <<rows, list, failed, dialog, flags, astray>>

CreateSite ==
  /\ ~failed
  /\ Go(Job("create", None, "write"))
  /\ UNCHANGED <<rows, list, failed, dialog, cloning, flags, astray>>

ShowDeleteConfirm(s) ==
  /\ Listed(s) /\ dialog.site = None
  /\ dialog' = [dialog EXCEPT !.site = s, !.purge = FALSE]
  /\ UNCHANGED <<rows, list, jobs, failed, cloning, flags, astray>>

TickPurge ==
  /\ dialog.site # None
  /\ dialog' = [dialog EXCEPT !.purge = ~dialog.box, !.box = ~dialog.box]
  /\ UNCHANGED <<rows, list, jobs, failed, cloning, flags, astray>>

(* DismissDeleteConfirm and ClearDeleteConfirm, with the tick box reset.   *)
Closed(d) == [site |-> None, purge |-> FALSE, box |-> FALSE]

CancelDelete ==
  /\ dialog.site # None
  /\ dialog' = Closed(dialog)
  /\ UNCHANGED <<rows, list, jobs, failed, cloning, flags, astray>>

ConfirmDelete ==
  /\ dialog.site # None
  /\ Go(Job(IF dialog.purge THEN "purge" ELSE "delete", dialog.site, "write"))
  /\ dialog' = Closed(dialog)
  /\ UNCHANGED <<rows, list, failed, cloning, flags, astray>>

(* Retry: the error goes away in the goroutine, not in the click.          *)
ClickRetry ==
  /\ failed
  /\ Go(Job("init", None, "retry"))
  /\ UNCHANGED <<rows, list, failed, dialog, cloning, flags, astray>>

-----------------------------------------------------------------------------
(* Jobs.                                                                   *)

At(j, kinds, pc) == jobs[j].kind \in kinds /\ jobs[j].pc = pc
To(j, pc) ==
  jobs' = [jobs EXCEPT ![j] = CASE pc = "gone" -> Job("ended", None, "gone")
                                [] pc = "flag" -> Job(@.kind, @.site, "flag")
                                [] OTHER       -> [@ EXCEPT !.pc = pc]]

(* A table or a row that has not reached the list.                         *)
Reading == \E j \in Jobs : jobs[j].pc = "set"
Pushing == \E j \in Jobs : jobs[j].pc = "push"

Overtakes(new) == Reading /\ new # rows
Writes(new) == rows' = new /\ astray' = (astray \/ Overtakes(new))

(* Mutation of Held: the mutex is released before the callback.            *)
MutantHeld(s) == FALSE

(* The site's mutex, held from the write to the callback.                  *)
Held(s) == \E j \in Jobs : jobs[j].site = s
                           /\ \/ At(j, RowJobs \ {"dir"}, "push")
                              \/ At(j, {"delete", "purge"}, "read")
                              \/ At(j, {"delete", "purge"}, "set")

Copy(j) == jobs[j].table[jobs[j].site]
Leave(j) == To(j, IF jobs[j].kind \in {"edit", "dir"} THEN "gone" ELSE "flag")

(* GetSite.  An edit is for a stopped site.                                *)
GetRow(j) ==
  LET s == jobs[j].site
  IN  /\ At(j, RowJobs, "get")
      /\ \/ /\ rows[s] # "absent"
            /\ jobs[j].kind \in {"edit", "dir"} => rows[s] = "stopped"
            /\ jobs' = [jobs EXCEPT ![j].pc = "write",
                                    ![j].table = [@ EXCEPT ![s] = rows[s]]]
         \/ Leave(j)
      /\ UNCHANGED <<rows, list, failed, dialog, cloning, flags, astray>>

(* The whole copy, with the job's change; a refresh writes nothing.  The   *)
(* update of a row that is gone changes none.                              *)
NewRow(j) ==
  CASE jobs[j].kind = "start" -> "running"
    [] jobs[j].kind = "stop" -> "stopped"
    [] OTHER -> Copy(j)
Saved(j) ==
  IF jobs[j].kind = "refresh" THEN rows
  ELSE [rows EXCEPT ![jobs[j].site] = IF @ = "absent" THEN @ ELSE NewRow(j)]

(* A row on its way to the list, of a job that does not keep the other out.*)
Passing(j) == \E i \in Jobs : /\ jobs[i].pc = "push" /\ jobs[i].site = jobs[j].site
                             /\ "dir" \in {jobs[i].kind, jobs[j].kind}

(* What is handed over is not the row: a copy older than the row.          *)
Stale(j) == Saved(j)[jobs[j].site] \notin {"absent", NewRow(j)}

SaveRow(j) ==
  LET s == jobs[j].site
  IN  /\ At(j, RowJobs, "write") /\ (jobs[j].kind # "dir" => ~Held(s))
      /\ rows' = Saved(j)
      /\ jobs' = [jobs EXCEPT ![j].pc = "push",
                              ![j].table = [@ EXCEPT ![s] = NewRow(j)]]
      /\ astray' = (\/ astray \/ Overtakes(Saved(j)) \/ Stale(j)
                    \/ Passing(j) /\ Saved(j) # rows)
      /\ UNCHANGED <<list, failed, dialog, cloning, flags>>

(* The job fails: before it wrote, or, a start whose installation of       *)
(* WordPress fails and a LAN toggle that is undone, after it.  There is no *)
(* callback.                                                               *)
LoseRow(j) ==
  /\ At(j, RowJobs, "write") /\ (jobs[j].kind # "dir" => ~Held(jobs[j].site))
  /\ Leave(j)
  /\ \/ UNCHANGED <<rows, astray>>
     \/ /\ jobs[j].kind \in {"start", "lan"}
        /\ rows' = Saved(j) /\ astray' = (astray \/ Saved(j) # rows)
  /\ UNCHANGED <<list, failed, dialog, cloning, flags>>

(* UpdateSite: a row that is not listed is not added.                      *)
Updated(s, row) == [list EXCEPT ![s] = IF @ = "absent" THEN @ ELSE row]

Push(j) ==
  LET s == jobs[j].site
  IN  /\ At(j, RowJobs, "push")
      /\ list' = Updated(s, Copy(j))
      /\ Leave(j)
      /\ UNCHANGED <<rows, failed, dialog, cloning, flags, astray>>

(* The flag is lowered by whichever job ends first.                        *)
LowerFlag(j) ==
  /\ At(j, RowJobs, "flag")
  /\ To(j, "gone")
  /\ flags' = IF jobs[j].kind \in {"lan", "refresh"}
              THEN [flags EXCEPT !.lan = @ \ {jobs[j].site}]
              ELSE [flags EXCEPT !.toggling = @ \ {jobs[j].site}]
  /\ UNCHANGED <<rows, list, failed, dialog, cloning, astray>>

(* A row is added, by the form or as the copy of another, under an id that *)
(* nothing refers to.                                                      *)
Unused(s) == /\ rows[s] = "absent" /\ list[s] = "absent"
             /\ s \notin {dialog.site, cloning.site}
             /\ \A j \in Jobs : jobs[j].site # s /\ jobs[j].table[s] = "absent"

AddRow(j) ==
  /\ At(j, {"create", "clone"}, "write")
  /\ \/ \E s \in GuiNames :
          /\ Unused(s)
          /\ jobs[j].kind = "clone" => rows[jobs[j].site] # "absent"
          /\ Writes([rows EXCEPT ![s] = "stopped"])
          /\ To(j, "read")
     \/ To(j, IF jobs[j].kind = "clone" THEN "flag" ELSE "gone")
        /\ UNCHANGED <<rows, astray>>
  /\ UNCHANGED <<list, failed, dialog, cloning, flags>>

DropRow(j) ==
  /\ At(j, {"delete", "purge"}, "write") /\ ~Held(jobs[j].site)
  /\ \/ Writes([rows EXCEPT ![jobs[j].site] = "absent"]) /\ To(j, "read")
     \/ To(j, "gone") /\ UNCHANGED <<rows, astray>>
  /\ UNCHANGED <<list, failed, dialog, cloning, flags>>

(* GetSites, in emitSitesUpdate or in the loader; the loader may come late.*)
ReadTable(j) ==
  /\ jobs[j].pc = "read"
  /\ jobs' = [jobs EXCEPT ![j].pc = "set",
                ![j].table = IF jobs[j].kind = "load"
                             THEN [s \in GuiNames |->
                                     IF rows[s] = "absent" THEN "absent" ELSE "stopped"]
                             ELSE rows]
  /\ astray' = (astray \/ (jobs[j].kind = "load" /\ ~At(Starter, {"init"}, "run")))
  /\ UNCHANGED <<rows, list, failed, dialog, cloning, flags>>

(* SetSites.  A clone that succeeded closes the clone dialog, whoever      *)
(* opened it.                                                              *)
SetSites(j) ==
  /\ jobs[j].pc = "set"
  /\ list' = jobs[j].table
  /\ cloning' = IF jobs[j].kind = "clone" THEN [cloning EXCEPT !.site = None] ELSE cloning
  /\ To(j, IF jobs[j].kind = "clone" THEN "flag" ELSE "gone")
  /\ UNCHANGED <<rows, failed, dialog, flags, astray>>

LowerClone(j) ==
  /\ At(j, {"clone"}, "flag")
  /\ cloning' = [cloning EXCEPT !.busy = FALSE]
  /\ To(j, "gone")
  /\ UNCHANGED <<rows, list, failed, dialog, flags, astray>>

ClearInitError(j) ==
  /\ At(j, {"init"}, "retry")
  /\ failed' = FALSE
  /\ To(j, "run")
  /\ UNCHANGED <<rows, list, dialog, cloning, flags, astray>>

(* Initialize, then ReconcileState: every row is written stopped, row by   *)
(* row in the code, under no mutex; a failed write is logged.              *)
Initialise(j) ==
  /\ At(j, {"init"}, "run")
  /\ \/ /\ "init" \in GuiFaults /\ failed' = TRUE /\ To(j, "gone")
        /\ UNCHANGED <<rows, astray>>
     \/ /\ \E stay \in SUBSET (IF "row" \in GuiFaults THEN GuiNames ELSE {}) :
             LET new == [s \in GuiNames |-> IF rows[s] = "running" /\ s \notin stay
                                             THEN "stopped" ELSE rows[s]]
             IN  /\ rows' = new
                 /\ astray' = (astray \/ Overtakes(new) \/ Pushing
                                   \/ \E s \in stay : rows[s] = "running")
        /\ To(j, "read") /\ UNCHANGED failed
  /\ UNCHANGED <<list, dialog, cloning, flags>>

GuiNext ==
  \/ \E s \in GuiNames : ClickStartOrStop(s) \/ ClickLan(s) \/ ClickEdit(s)
                         \/ OpenClone(s) \/ ShowDeleteConfirm(s)
  \/ CancelClone \/ ConfirmClone \/ CreateSite \/ TickPurge \/ CancelDelete
  \/ ConfirmDelete \/ ClickRetry
  \/ \E j \in Jobs :
       \/ GetRow(j) \/ SaveRow(j) \/ LoseRow(j) \/ Push(j) \/ LowerFlag(j) \/ AddRow(j) \/ DropRow(j)
       \/ ReadTable(j) \/ SetSites(j) \/ LowerClone(j) \/ ClearInitError(j)
       \/ Initialise(j)

GuiSpec == GuiInit /\ [][GuiNext]_screenVars
-----------------------------------------------------------------------------
(* Properties.                                                             *)

(* Once every goroutine has ended the list shows the table: the updates of *)
(* one row arrive in the order of the writes, because the callback runs    *)
(* under the site's mutex (sites.go:652, 967, 1126, 1306, 1681), and a     *)
(* table is read after the row it is read for.  But not where a row was    *)
(* written while a read of the whole table was on its way (ui.go:86,       *)
(* sites.go:1327); where a row changed and nothing told the list (a start  *)
(* whose installation failed, 640-645, an undone LAN toggle, 915-943, a    *)
(* reconciliation that could not write, 1352); where RefreshLAN handed     *)
(* over a row that has changed since it read it (817, 847); where the      *)
(* public directory, 1710-1720, or the reconciliation, which take no       *)
(* mutex, met another row on its way; or where the loader came after the   *)
(* initialisation.                                                         *)
CalmListIsTheTable ==
  (\A j \in Jobs : jobs[j].pc = "gone") /\ ~failed /\ ~astray => list = rows
=============================================================================
