------------------------------- MODULE Hooks -------------------------------
(* Lifecycle hooks: the table (internal/storage hooks.go), the runner
   (internal/hooks) with the SiteManager's two ways into it, and the GUI's
   panel, whose writes and runs are goroutines that outlive the frame that
   began them.  Commands, services, users and the environment are abstracted
   to whether the task runs in a container; HookValid keeps their rules.     *)
EXTENDS Integers, Sequences, FiniteSets, FiniteSetsExt, SequencesExt
CONSTANTS HookSites, HookEvents, HookIds, HookKinds, MaxHookWork, MaxHookRuns
ASSUME HooksAssumption == /\ HookIds \in SUBSET Nat /\ IsFiniteSet(HookIds)
                          /\ {MaxHookWork, MaxHookRuns} \subseteq Nat

NoHook == [id |-> 0]
NoRun == [n |-> 0]
NoSummary == [total |-> -1]
HookRow == [id: HookIds, site: HookSites, event: HookEvents, pos: Nat,
            kind: HookKinds, on: BOOLEAN]

VARIABLES hookRows,   \* the site_hooks table, a set of rows
          failFlag,   \* the fail-on-error setting of each site and of all
          hookPanel,  \* the GUI's hooks panel
          hookWork,   \* its goroutines
          hookRun,    \* the run of a lifecycle event under a site's mutex
          hookView,   \* what the GUI shows of a site's hooks
          hookCount   \* bound: goroutines and runs begun
hookVars == <<hookRows, failFlag, hookPanel, hookWork, hookRun, hookView, hookCount>>

Containers == {"exec", "wp-cli"}
\* Events of this set fire while the site has no containers.
AllowsContainerTasks(e) ==
  e \notin {"pre-start", "post-stop", "pre-delete", "post-delete", "pre-snapshot",
            "post-snapshot", "pre-restore-snapshot", "post-restore-snapshot",
            "pre-import-site", "post-import-site"}
\* Hook.Validate, before a row is written and again before it is run.
HookValid(h) ==
  /\ h.kind \in {"exec", "exec-host", "wp-cli"}
  /\ h.kind \in Containers => AllowsContainerTasks(h.event)
DefaultKind(e) == IF AllowsContainerTasks(e) THEN "exec" ELSE "exec-host"

-----------------------------------------------------------------------------
(* The table.  Each operation is one transaction.                            *)
HooksOf(s) == {h \in hookRows : h.site = s}
\* ORDER BY position: rows of one position come in any order.
InOrder(H) ==
  {q \in SetToSeqs(H) : \A i, j \in DOMAIN q : i < j => q[i].pos <= q[j].pos}
ListHooksByEvent(s, e) == InOrder({h \in HooksOf(s) : h.event = e})

AddedHook(h) ==
  LET peers == {g \in HooksOf(h.site) : g.event = h.event}
      id    == CHOOSE i \in HookIds : \A g \in hookRows : g.id # i
  IN hookRows \cup {[id |-> id, site |-> h.site, event |-> h.event, kind |-> h.kind,
                     on |-> h.on,
                     pos |-> IF peers = {} THEN 0 ELSE Max({g.pos : g \in peers}) + 1]}
CanAdd == Cardinality(hookRows) < Cardinality(HookIds)

\* The row is found by id, site and event together.
Matches(h, g) == g.id = h.id /\ g.site = h.site /\ g.event = h.event
UpdatedHook(h) == {IF Matches(h, g) THEN [g EXCEPT !.kind = h.kind, !.on = h.on] ELSE g :
                     g \in hookRows}
DeletedHook(i) == {g \in hookRows : g.id # i}

\* ReorderHooks refuses a list that does not name the event's rows exactly.
SameHooks(s, e, ids) ==
  LET have == {g.id : g \in {h \in HooksOf(s) : h.event = e}}
  IN Len(ids) = Cardinality(have) /\ ToSet(ids) \subseteq have
Reordered(s, e, ids) ==
  {IF g.site = s /\ g.event = e
   THEN [g EXCEPT !.pos = CHOOSE n \in 0..(Len(ids) - 1) : ids[n + 1] = g.id]
   ELSE g : g \in hookRows}

-----------------------------------------------------------------------------
HooksInit ==
  /\ hookRows = {}
  /\ \E g \in {"unset", "on"} :
       failFlag = [s \in HookSites \cup {"global"} |-> IF s = "global" THEN g ELSE "unset"]
  /\ \E s \in HookSites :
       hookPanel = [site |-> s, loaded |-> "none", rows |-> {}, fail |-> FALSE,
                    failLoaded |-> FALSE, draft |-> NoHook]
  /\ hookWork = {} /\ hookRun = [s \in HookSites |-> NoRun]
  /\ hookView = [s \in HookSites |-> [running |-> 0, summary |-> NoSummary]]
  /\ hookCount = 0

WorkOps == {"add", "update", "delete", "move", "reorder", "list", "store", "run", "task"}
HooksTypeOK ==
  /\ hookRows \subseteq HookRow
  /\ failFlag \in [HookSites \cup {"global"} -> {"unset", "on", "off"}]
  /\ hookPanel.site \in HookSites /\ hookPanel.rows \subseteq HookRow
  /\ \A w \in hookWork : w.op \in WorkOps
  /\ hookCount \in 0..(MaxHookWork + MaxHookRuns)

(* The panel, on the GUI's goroutine.                                        *)
FailOn(s) == (IF failFlag[s] # "unset" THEN failFlag[s] ELSE failFlag["global"]) = "on"

\* ensureLoaded of a frame.  reload has set loadedID when loadFailFlag looks at
\* it, so the flag is loaded for the first site the panel shows, and stays.
ShowSite(s) ==
  /\ hookPanel.loaded # s \/ hookPanel.site # s
  /\ hookPanel' = [hookPanel EXCEPT !.site = s, !.loaded = s,
        !.rows = IF hookPanel.loaded # s THEN HooksOf(s) ELSE @,
        !.fail = IF hookPanel.failLoaded THEN @ ELSE FailOn(s), !.failLoaded = TRUE]
  /\ UNCHANGED <<hookRows, failFlag, hookWork, hookRun, hookView, hookCount>>

ToggleFail ==
  /\ hookPanel.failLoaded
  /\ hookPanel' = [hookPanel EXCEPT !.fail = ~@]
  /\ failFlag' = [failFlag EXCEPT ![hookPanel.site] = IF hookPanel.fail THEN "off" ELSE "on"]
  /\ UNCHANGED <<hookRows, hookWork, hookRun, hookView, hookCount>>

Shown == {h \in hookPanel.rows : hookPanel.loaded = hookPanel.site}
Spawn(w) == /\ hookCount < MaxHookWork + MaxHookRuns
            /\ Cardinality(hookWork) < MaxHookWork
            /\ LET n == CHOOSE i \in 1..MaxHookWork : \A v \in hookWork : v.n # i
               IN hookWork' = hookWork \cup {[w EXCEPT !.n = n]}
            /\ hookCount' = hookCount + 1
Task(op, h) == [n |-> 0, op |-> op, site |-> hookPanel.site, hook |-> h,
                ids |-> << >>, rows |-> {}]

\* "Add hook" of an event, or "Edit" of a row.
OpenEditor ==
  /\ hookPanel.draft = NoHook /\ hookPanel.failLoaded
  /\ \/ \E e \in HookEvents :
          hookPanel' = [hookPanel EXCEPT !.draft =
             [id |-> 0, site |-> hookPanel.site, event |-> e, pos |-> 0,
              kind |-> DefaultKind(e), on |-> TRUE]]
     \/ \E h \in Shown : hookPanel' = [hookPanel EXCEPT !.draft = h]
  /\ UNCHANGED <<hookRows, failFlag, hookWork, hookRun, hookView, hookCount>>

\* Save: the form's event, kind and flag may all differ from the row's; a click
\* on a kind the event does not allow was refused, and assemble validates.
SubmitEditor ==
  /\ hookPanel.draft # NoHook
  /\ \E e \in HookEvents, k \in HookKinds, on \in BOOLEAN :
       LET h == [hookPanel.draft EXCEPT !.event = e, !.kind = k, !.on = on]
       IN HookValid(h) /\ Spawn(Task(IF h.id = 0 THEN "add" ELSE "update", h))
  /\ hookPanel' = [hookPanel EXCEPT !.draft = NoHook]
  /\ UNCHANGED <<hookRows, failFlag, hookRun, hookView>>

CloseEditor ==
  /\ hookPanel.draft # NoHook /\ hookPanel' = [hookPanel EXCEPT !.draft = NoHook]
  /\ UNCHANGED <<hookRows, failFlag, hookWork, hookRun, hookView, hookCount>>

\* The buttons of a row: its checkbox, Delete (confirmed), the arrows and Run.
ClickRow ==
  /\ \E h \in Shown :
       \/ Spawn(Task("update", [h EXCEPT !.on = ~@])) /\ UNCHANGED hookView
       \/ Spawn(Task("delete", h)) /\ UNCHANGED hookView
       \/ Spawn(Task("move", h)) /\ UNCHANGED hookView
       \/ /\ Spawn(Task("run", h))
          /\ hookView' = [hookView EXCEPT ![h.site] = [running |-> h.id, summary |-> NoSummary]]
  /\ UNCHANGED <<hookRows, failFlag, hookPanel, hookRun>>

(* The panel's goroutines.                                                   *)
WorkGoes(w, op) == hookWork' = (hookWork \ {w}) \cup {[w EXCEPT !.op = op]}
Ends(w) == hookWork' = hookWork \ {w}

\* A write: refused, or followed by the reload.  An update whose row is not
\* there is ErrHookNotFound, and ends without one; a delete is content.
WriteHook(w) ==
  /\ \/ w.op = "add" /\ CanAdd /\ hookRows' = AddedHook(w.hook) /\ WorkGoes(w, "list")
     \/ w.op = "add" /\ ~CanAdd /\ Ends(w) /\ UNCHANGED hookRows
     \/ /\ w.op = "update" /\ HookValid(w.hook) /\ \E g \in hookRows : Matches(w.hook, g)
        /\ hookRows' = UpdatedHook(w.hook) /\ WorkGoes(w, "list")
     \/ /\ w.op = "update" /\ ~\E g \in hookRows : Matches(w.hook, g)
        /\ Ends(w) /\ UNCHANGED hookRows
     \/ w.op = "delete" /\ hookRows' = DeletedHook(w.hook.id) /\ WorkGoes(w, "list")
     \/ /\ w.op = "reorder" /\ SameHooks(w.site, w.hook.event, w.ids)
        /\ hookRows' = Reordered(w.site, w.hook.event, w.ids) /\ WorkGoes(w, "list")
     \/ /\ w.op = "reorder" /\ ~SameHooks(w.site, w.hook.event, w.ids)
        /\ Ends(w) /\ UNCHANGED hookRows
  /\ UNCHANGED <<failFlag, hookPanel, hookRun, hookView, hookCount>>

\* runMove takes the order from the panel's groups, as loaded by now: the row
\* may have left them, or have reached their end.
Swapped(q, i, j) == [n \in DOMAIN q |-> q[IF n = i THEN j ELSE IF n = j THEN i ELSE n]]
PlanMove(w) ==
  /\ w.op = "move"
  /\ \E q \in InOrder({h \in hookPanel.rows : h.event = w.hook.event}) :
     LET at == {n \in DOMAIN q : q[n].id = w.hook.id}
     IN \/ \E i \in at, d \in {-1, 1} :
             /\ i + d \in DOMAIN q
             /\ hookWork' = (hookWork \ {w}) \cup {[w EXCEPT !.op = "reorder",
                   !.ids = [n \in DOMAIN q |-> Swapped(q, i, i + d)[n].id]]}
        \/ (\A i \in at : {i - 1, i + 1} \ DOMAIN q # {}) /\ Ends(w)
  /\ UNCHANGED <<hookRows, failFlag, hookPanel, hookRun, hookView, hookCount>>

\* reload: the list is read before the panel's mutex is taken.
ListRows(w) ==
  /\ w.op = "list"
  /\ hookWork' = (hookWork \ {w}) \cup {[w EXCEPT !.op = "store", !.rows = HooksOf(w.site)]}
  /\ UNCHANGED <<hookRows, failFlag, hookPanel, hookRun, hookView, hookCount>>
StoreRows(w) ==
  /\ w.op = "store" /\ Ends(w)
  /\ hookPanel' = [hookPanel EXCEPT !.loaded = w.site, !.rows = w.rows]
  /\ UNCHANGED <<hookRows, failFlag, hookRun, hookView, hookCount>>

\* RunHookNow, with the row as the panel knew it: the task runs, or the runner
\* refuses (the environment says skip, the site is gone, the row is invalid).
\* It takes no mutex and fires no OnAllDone.
StartOne(w) ==
  /\ w.op = "run"
  /\ \/ /\ HookValid(w.hook) /\ WorkGoes(w, "task")
        /\ hookView' = [hookView EXCEPT ![w.site] = [running |-> w.hook.id, summary |-> NoSummary]]
     \/ Ends(w) /\ UNCHANGED hookView
  /\ UNCHANGED <<hookRows, failFlag, hookPanel, hookRun, hookCount>>
DoneOne(w) ==
  /\ w.op = "task" /\ Ends(w)
  /\ hookView' = [hookView EXCEPT ![w.site].running = 0]
  /\ UNCHANGED <<hookRows, failFlag, hookPanel, hookRun, hookCount>>

-----------------------------------------------------------------------------
(* Runner.Run for an event of a site's lifecycle.                            *)
AllDone(s, r) ==
  hookView' = [hookView EXCEPT ![s] = [running |-> 0,
     summary |-> [total |-> Len(r.list), ok |-> r.ok, bad |-> r.bad, skip |-> r.skip]]]
Rest(r) == Len(r.list) - r.ok - r.bad - r.skip

BeginRun(s, e) ==
  /\ hookRun[s] = NoRun /\ hookCount < MaxHookWork + MaxHookRuns
  /\ hookCount' = hookCount + 1
  /\ \E list \in ListHooksByEvent(s, e) :
     LET r == [n |-> 1, list |-> list, strict |-> FailOn(s), busy |-> FALSE,
               ok |-> 0, bad |-> 0, skip |-> 0]
     IN IF list = << >> THEN AllDone(s, r) /\ UNCHANGED hookRun
        ELSE hookRun' = [hookRun EXCEPT ![s] = r] /\ UNCHANGED hookView
  /\ UNCHANGED <<hookRows, failFlag, hookPanel, hookWork>>

Between(s) == hookRun[s] # NoRun /\ ~hookRun[s].busy
NextHook(s) == hookRun[s].list[hookRun[s].ok + hookRun[s].bad + hookRun[s].skip + 1]
Stops(s, r) == AllDone(s, r) /\ hookRun' = [hookRun EXCEPT ![s] = NoRun]
RunGoes(s, r) == hookRun' = [hookRun EXCEPT ![s] = r]

\* The context is looked at before each hook.
CancelRun(s) ==
  /\ Between(s) /\ Rest(hookRun[s]) > 0
  /\ Stops(s, [hookRun[s] EXCEPT !.skip = @ + Rest(hookRun[s])])
  /\ UNCHANGED <<hookRows, failFlag, hookPanel, hookWork, hookCount>>

SkipHook(s) ==
  /\ Between(s) /\ Rest(hookRun[s]) > 0 /\ ~NextHook(s).on
  /\ RunGoes(s, [hookRun[s] EXCEPT !.skip = @ + 1])
  /\ UNCHANGED <<hookRows, failFlag, hookPanel, hookWork, hookView, hookCount>>

\* taskFromHook refuses an invalid row; a strict run then ends, and leaves the
\* hooks after it out of its counts.
StartHook(s) ==
  /\ Between(s) /\ Rest(hookRun[s]) > 0 /\ NextHook(s).on
  /\ LET bad == [hookRun[s] EXCEPT !.bad = @ + 1]
     IN IF HookValid(NextHook(s))
        THEN /\ RunGoes(s, [hookRun[s] EXCEPT !.busy = TRUE])
             /\ hookView' = [hookView EXCEPT ![s] = [running |-> NextHook(s).id,
                                                     summary |-> NoSummary]]
        ELSE IF bad.strict THEN Stops(s, bad)
        ELSE RunGoes(s, bad) /\ hookView' = [hookView EXCEPT ![s].running = 0]
  /\ UNCHANGED <<hookRows, failFlag, hookPanel, hookWork, hookCount>>

\* Mutation of DoneHook: a strict run that stops leaves the rest uncounted.
MutantDoneHook(s, good) ==
  /\ hookRun[s] # NoRun /\ hookRun[s].busy
  /\ LET r == IF good THEN [hookRun[s] EXCEPT !.busy = FALSE, !.ok = @ + 1]
              ELSE [hookRun[s] EXCEPT !.busy = FALSE, !.bad = @ + 1]
     IN IF ~good /\ r.strict THEN Stops(s, r)
        ELSE RunGoes(s, r) /\ hookView' = [hookView EXCEPT ![s].running = 0]
  /\ UNCHANGED <<hookRows, failFlag, hookPanel, hookWork, hookCount>>

\* The task's end: its exit code, its error or its five minutes.
DoneHook(s, good) ==
  /\ hookRun[s] # NoRun /\ hookRun[s].busy
  /\ LET r == IF good THEN [hookRun[s] EXCEPT !.busy = FALSE, !.ok = @ + 1]
              ELSE [hookRun[s] EXCEPT !.busy = FALSE, !.bad = @ + 1]
     IN IF ~good /\ r.strict THEN Stops(s, [r EXCEPT !.skip = @ + Rest(r)])
        ELSE RunGoes(s, r) /\ hookView' = [hookView EXCEPT ![s].running = 0]
  /\ UNCHANGED <<hookRows, failFlag, hookPanel, hookWork, hookCount>>

EndRun(s) == /\ Between(s) /\ Rest(hookRun[s]) = 0 /\ Stops(s, hookRun[s])
             /\ UNCHANGED <<hookRows, failFlag, hookPanel, hookWork, hookCount>>

\* The GUI's Clear, and DeleteHooksForSite under the deletion of a site.
ClearView(s) == /\ hookView' = [hookView EXCEPT ![s] = [running |-> 0, summary |-> NoSummary]]
                /\ hookView' # hookView
                /\ UNCHANGED <<hookRows, failFlag, hookPanel, hookWork, hookRun, hookCount>>
PurgeHooks(s) == /\ HooksOf(s) # {} /\ hookRun[s] = NoRun /\ hookRows' = hookRows \ HooksOf(s)
                 /\ UNCHANGED <<failFlag, hookPanel, hookWork, hookRun, hookView, hookCount>>

HooksNext ==
  \/ ToggleFail \/ OpenEditor \/ SubmitEditor \/ CloseEditor \/ ClickRow
  \/ \E w \in hookWork : WriteHook(w) \/ PlanMove(w) \/ ListRows(w) \/ StoreRows(w)
                         \/ StartOne(w) \/ DoneOne(w)
  \/ \E s \in HookSites :
       \/ ShowSite(s) \/ CancelRun(s) \/ SkipHook(s) \/ StartHook(s)
       \/ EndRun(s) \/ ClearView(s) \/ PurgeHooks(s)
       \/ \E e \in HookEvents : BeginRun(s, e)
       \/ \E good \in BOOLEAN : DoneHook(s, good)
HooksSpec == HooksInit /\ [][HooksNext]_hookVars
-----------------------------------------------------------------------------
\* The counts a run reports add up to the hooks it read, however it ended.  The
\* runner's own bookkeeping does not give this when a row is refused: it takes
\* the validation of every write.
SummariesAddUp ==
  \A s \in HookSites : LET m == hookView[s].summary
                       IN m # NoSummary => m.total = m.ok + m.bad + m.skip

\* The toggle of the panel turns the setting of the site it shows: what the
\* run of that site's hooks does is reversed by a click.
ToggleTurnsTheSetting ==
  [][\A s \in HookSites : failFlag'[s] # failFlag[s] =>
       FailOn(s)' # FailOn(s)]_hookVars

\* No two hooks of one event of a site have the same position: the table's
\* UNIQUE(site_id, event, position) refuses no write of AddHook or ReorderHooks,
\* and the order in which a run takes the hooks is the only one.
Rivals(g, h) == g.site = h.site /\ g.event = h.event
OnePlaceEach == \A g, h \in hookRows : Rivals(g, h) /\ g.pos = h.pos => g = h
=============================================================================
