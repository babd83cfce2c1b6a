------------------------------ MODULE SiteTree ------------------------------
(* Worktree sites, clones and the cascading delete (internal/sites worktree.go
   and the delete and clone of sites.go, over internal/git).  A top-level site
   owns a checkout of a repository; a worktree site is a child row with a git
   worktree of that checkout.  Ids are numbers handed out in order, so that the
   younger site has the greater one; 0 stands for "no site".                 *)
EXTENDS Naturals, Sequences, FiniteSets
CONSTANTS TreeClients, Remotes, Branches, MaxIds, MaxJobs, TreeFaults
ASSUME SiteTreeAssumption == MaxIds \in Nat /\ MaxJobs \in Nat

Ids == 1..MaxIds
Gone == [parent |-> 0, slug |-> << >>]
\* WorktreeSlug of a child is a hash of its parent's slug, branch and place.
Slugs == {<<r>> : r \in Remotes} \cup {<<r, b>> : r \in Remotes, b \in Branches}
SiteRow == [parent: 0..MaxIds, slug: Slugs]
NoTask == [op |-> "none"]

VARIABLES rows,     \* the sites table
          nextId,   \* the next id
          held,     \* who holds a site's mutex, a sequence of at most one
          tree,     \* the worktree directory of a slug: absent, clean, dirty
          task,     \* what each client is in the middle of
          tasks     \* history: how many operations were begun
treeVars == <<rows, nextId, held, tree, task, tasks>>

TreePcs == {"insert", "lock", "git", "add", "start", "clone", "undo", "done",
            "read", "plan", "row"}
\* What each call holds on its stack: a worktree creation, a clone, a delete.
Texts == {<< >>} \cup Slugs
WorktreeTasks ==
  [op : {"worktree"}, pc : TreePcs, slug : Slugs, dry : BOOLEAN, made : BOOLEAN,
   parent : Nat, child : Nat, added : BOOLEAN]
CloneTasks == [op : {"clone"}, pc : TreePcs, parent : Nat, child : Nat]
DeleteTasks ==
  [op : {"delete"}, pc : TreePcs, id : Nat, root : Nat, force : BOOLEAN, mine : BOOLEAN,
   slug : Texts, own : Texts, kids : SUBSET Ids]
Tasks == WorktreeTasks \cup CloneTasks \cup DeleteTasks \cup {NoTask}

TreeTypeOK ==
  /\ rows \in [Ids -> SiteRow \cup {Gone}]
  /\ nextId \in 1..(MaxIds + 1)
  /\ held \in [Ids -> {<< >>} \cup {<<c>> : c \in TreeClients}]
  /\ tree \in [Slugs -> {"absent", "clean", "dirty"}]
  /\ task \in [TreeClients -> Tasks]
  /\ tasks \in 0..MaxJobs

TreeInit == /\ rows = [i \in Ids |-> Gone] /\ nextId = 1
            /\ held = [i \in Ids |-> << >>]
            /\ tree = [s \in Slugs |-> "absent"]
            /\ task = [c \in TreeClients |-> NoTask] /\ tasks = 0

Exists(i) == i \in Ids /\ rows[i] # Gone
TopLevel(s) == {i \in Ids : rows[i] # Gone /\ rows[i].parent = 0 /\ rows[i].slug = s}
ChildrenOf(i) == {j \in Ids : rows[j] # Gone /\ rows[j].parent = i}

\* storage AddSite: the table refuses neither a slug nor a name twice.
Inserted(parent, slug) ==
  /\ nextId <= MaxIds
  /\ rows' = [rows EXCEPT ![nextId] = [parent |-> parent, slug |-> slug]]
  /\ nextId' = nextId + 1
Dropped(i) == rows' = [rows EXCEPT ![i] = Gone]

Becomes(c, t) == task' = [task EXCEPT ![c] = t]
Moves(c, pc) == Becomes(c, [task[c] EXCEPT !.pc = pc])
Begins(c, t) == /\ task[c] = NoTask /\ tasks < MaxJobs
                /\ tasks' = tasks + 1 /\ Becomes(c, t)
At(c, op, pc) == task[c] # NoTask /\ task[c].op = op /\ task[c].pc = pc
Fault(f) == f \in TreeFaults

\* siteMutex(id).Lock and Unlock.
Locks(c, i) == held[i] = << >> /\ held' = [held EXCEPT ![i] = <<c>>]
Unlocks(i) == held' = [held EXCEPT ![i] = << >>]

-----------------------------------------------------------------------------
\* AddSite: a conventional site.
AddTop(c) == /\ task[c] = NoTask /\ tasks < MaxJobs /\ tasks' = tasks + 1
             /\ \E r \in Remotes : Inserted(0, <<r>>)
             /\ UNCHANGED <<held, tree, task>>

(* CreateWorktreeSite.                                                       *)

\* resolveOrCreateParent looks for the parent among the rows it reads first;
\* without one it makes a stub, unless the caller named the parent.
AskWorktree(c) ==
  /\ \E r \in Remotes, b \in Branches, dry \in BOOLEAN, named \in BOOLEAN :
       LET found == TopLevel(<<r>>)
           Asked(p, pc) == [op |-> "worktree", pc |-> pc, slug |-> <<r, b>>,
                            dry |-> dry, made |-> FALSE, parent |-> p,
                            child |-> 0, added |-> FALSE]
       IN \/ \E p \in found : Begins(c, Asked(p, IF dry THEN "done" ELSE "lock"))
          \/ found = {} /\ ~named /\ Begins(c, Asked(0, "insert"))
  /\ UNCHANGED <<rows, nextId, held, tree>>

InsertParent(c) ==
  /\ At(c, "worktree", "insert")
  /\ \/ /\ Inserted(0, <<task[c].slug[1]>>)
        /\ Becomes(c, [task[c] EXCEPT !.parent = nextId, !.made = TRUE,
                         !.pc = IF task[c].dry THEN "done" ELSE "lock"])
     \/ Becomes(c, NoTask) /\ UNCHANGED <<rows, nextId>>
  /\ UNCHANGED <<held, tree, tasks>>

\* A dry run ends by taking its stub out again, whoever uses it by now.
DryRunEnds(c) ==
  /\ At(c, "worktree", "done") /\ task[c].dry
  /\ IF task[c].made THEN Dropped(task[c].parent) ELSE UNCHANGED rows
  /\ Becomes(c, NoTask) /\ UNCHANGED <<nextId, held, tree, tasks>>

LockParent(c) ==
  /\ At(c, "worktree", "lock") /\ Locks(c, task[c].parent) /\ Moves(c, "git")
  /\ UNCHANGED <<rows, nextId, tree, tasks>>

\* ensure-checkout, then ensure-worktree: git refuses a path that is there.  A
\* step that failed is not undone.
GitSteps(c) ==
  /\ At(c, "worktree", "git")
  /\ LET s == task[c].slug
     IN \/ /\ tree[s] = "absent"
           /\ tree' = [tree EXCEPT ![s] = "clean"]
           /\ Becomes(c, [task[c] EXCEPT !.added = TRUE, !.pc = "add"])
        \/ /\ tree[s] # "absent" \/ Fault("git")
           /\ UNCHANGED tree /\ Moves(c, "undo")
  /\ UNCHANGED <<rows, nextId, held, tasks>>

AddChild(c) ==
  /\ At(c, "worktree", "add")
  /\ \/ /\ Inserted(task[c].parent, task[c].slug)
        /\ Becomes(c, [task[c] EXCEPT !.child = nextId, !.pc = "start"])
     \/ Moves(c, "undo") /\ UNCHANGED <<rows, nextId>>
  /\ UNCHANGED <<held, tree, tasks>>

\* Mutation of UndoWorktree: the directory goes whoever added it.
MutantUndoWorktree(c) ==
  /\ At(c, "worktree", "undo")
  /\ tree' = [tree EXCEPT ![task[c].slug] = "absent"]
  /\ IF task[c].made THEN Dropped(task[c].parent) ELSE UNCHANGED rows
  /\ Unlocks(task[c].parent) /\ Becomes(c, NoTask)
  /\ UNCHANGED <<nextId, tasks>>

\* rollbackGitSteps, then the stub parent, then the deferred unlock.
UndoWorktree(c) ==
  /\ At(c, "worktree", "undo")
  /\ tree' = IF task[c].added THEN [tree EXCEPT ![task[c].slug] = "absent"] ELSE tree
  /\ IF task[c].made THEN Dropped(task[c].parent) ELSE UNCHANGED rows
  /\ Unlocks(task[c].parent) /\ Becomes(c, NoTask)
  /\ UNCHANGED <<nextId, tasks>>

\* StartSite, and after it RestoreSnapshot of cloneDBFromParent, take the
\* child's mutex while the parent's is held.  A child that cannot be started is
\* left as it is for the user to look at.
TakeChild(c) ==
  /\ \E pc \in {"start", "clone"} : At(c, "worktree", pc)
  /\ Locks(c, task[c].child) /\ Moves(c, IF task[c].pc = "start" THEN "plan" ELSE "row")
  /\ UNCHANGED <<rows, nextId, tree, tasks>>

LeaveChild(c) ==
  /\ \E pc \in {"plan", "row"} : At(c, "worktree", pc)
  /\ Unlocks(task[c].child)
  /\ \E pc \in (IF task[c].pc = "plan" THEN {"clone", "done"} ELSE {"done"}) : Moves(c, pc)
  /\ UNCHANGED <<rows, nextId, tree, tasks>>

EndWorktree(c) ==
  /\ At(c, "worktree", "done") /\ ~task[c].dry
  /\ Unlocks(task[c].parent) /\ Becomes(c, NoTask)
  /\ UNCHANGED <<rows, nextId, tree, tasks>>

-----------------------------------------------------------------------------
(* CloneSite: a top-level copy, started under the source's mutex.            *)
AskClone(c) ==
  /\ \E i \in Ids : Exists(i) /\ Begins(c, [op |-> "clone", pc |-> "lock",
                                            parent |-> i, child |-> 0])
  /\ UNCHANGED <<rows, nextId, held, tree>>

LockSource(c) ==
  /\ At(c, "clone", "lock") /\ Locks(c, task[c].parent) /\ Moves(c, "add")
  /\ UNCHANGED <<rows, nextId, tree, tasks>>

AddClone(c) ==
  /\ At(c, "clone", "add")
  /\ \/ /\ \E r \in Remotes : Inserted(0, <<r>>)
        /\ Becomes(c, [task[c] EXCEPT !.child = nextId, !.pc = "start"])
     \/ Moves(c, "done") /\ UNCHANGED <<rows, nextId>>
  /\ UNCHANGED <<held, tree, tasks>>

StartClone(c) ==
  /\ \/ At(c, "clone", "start") /\ Locks(c, task[c].child) /\ Moves(c, "plan")
     \/ At(c, "clone", "plan") /\ Unlocks(task[c].child) /\ Moves(c, "done")
     \/ At(c, "clone", "done") /\ Unlocks(task[c].parent) /\ Becomes(c, NoTask)
  /\ UNCHANGED <<rows, nextId, tree, tasks>>

-----------------------------------------------------------------------------
(* DeleteSiteWithOptions.  todo is the recursion: the children that were read,
   then the site itself; a child is always forced.                           *)
AskDelete(c) ==
  /\ \E i \in Ids, force \in BOOLEAN :
       /\ Exists(i)
       /\ Begins(c, [op |-> "delete", pc |-> "read", id |-> i, root |-> i,
                     force |-> force, mine |-> force, slug |-> << >>, own |-> << >>, kids |-> {}])
  /\ UNCHANGED <<rows, nextId, held, tree>>

\* A site that is gone is skipped.  A dirty worktree refuses an unforced
\* delete; the children are read before any mutex is taken.
ReadSite(c) ==
  /\ At(c, "delete", "read")
  /\ LET i == task[c].id
         top == i = task[c].root
         row == [task[c] EXCEPT !.slug = rows[i].slug,
                                !.own = IF top THEN rows[i].slug ELSE @]
     IN IF ~Exists(i) THEN IF top THEN Becomes(c, NoTask) ELSE Moves(c, "done")
        ELSE IF top /\ rows[i].parent # 0 /\ ~task[c].mine /\ tree[rows[i].slug] = "dirty"
        THEN Becomes(c, NoTask)
        ELSE Becomes(c, [row EXCEPT !.pc = IF top /\ ChildrenOf(i) # {}
                                           THEN "done" ELSE "lock",
                           !.kids = IF top THEN ChildrenOf(i) ELSE @])
  /\ UNCHANGED <<rows, nextId, held, tree, tasks>>

\* The next child of the cascade, and after the last of them the site itself.
NextKid(c) ==
  /\ At(c, "delete", "done")
  /\ IF task[c].kids = {}
     THEN Becomes(c, [task[c] EXCEPT !.id = task[c].root, !.pc = "lock",
                        !.force = task[c].mine, !.slug = task[c].own])
     ELSE \E k \in task[c].kids :
            Becomes(c, [task[c] EXCEPT !.id = k, !.kids = @ \ {k},
                          !.force = TRUE, !.pc = "read"])
  /\ UNCHANGED <<rows, nextId, held, tree, tasks>>

LockDoomed(c) ==
  /\ At(c, "delete", "lock") /\ Locks(c, task[c].id) /\ Moves(c, "plan")
  /\ UNCHANGED <<rows, nextId, tree, tasks>>

\* The delete plan ends with the worktree; git keeps a dirty one unless forced.
\* The pre-delete hook can refuse before it, which ends this delete.
RunDeletePlan(c) ==
  /\ At(c, "delete", "plan")
  /\ LET s == task[c].slug
     IN \/ /\ Len(s) = 2 /\ (tree[s] = "dirty" => task[c].force)
           /\ tree' = [tree EXCEPT ![s] = "absent"]
           /\ Moves(c, "row") /\ UNCHANGED held
        \/ /\ Len(s) # 2 \/ tree[s] = "dirty" \/ Fault("git")
           /\ UNCHANGED tree /\ Moves(c, "row") /\ UNCHANGED held
        \/ /\ Fault("hook") /\ UNCHANGED tree /\ Unlocks(task[c].id)
           /\ IF task[c].id = task[c].root THEN Becomes(c, NoTask) ELSE Moves(c, "done")
  /\ UNCHANGED <<rows, nextId, tasks>>

\* Mutation of DeleteTheRow: a child's mutex is kept until the cascade ends.
MutantDeleteTheRow(c) ==
  /\ At(c, "delete", "row") /\ Dropped(task[c].id)
  /\ IF task[c].id = task[c].root THEN Unlocks(task[c].id) /\ Becomes(c, NoTask)
     ELSE UNCHANGED held /\ Moves(c, "done")
  /\ UNCHANGED <<nextId, tree, tasks>>

\* The row goes even when the plan failed.  A child that could not be deleted
\* is logged and does not stop the cascade.
DeleteTheRow(c) ==
  /\ At(c, "delete", "row")
  /\ \/ Dropped(task[c].id)
     \/ Fault("store") /\ UNCHANGED rows
  /\ Unlocks(task[c].id)
  /\ IF task[c].id = task[c].root THEN Becomes(c, NoTask) ELSE Moves(c, "done")
  /\ UNCHANGED <<nextId, tree, tasks>>

-----------------------------------------------------------------------------
\* The user works in a worktree, and commits; not in one still being created.
Edits == /\ \E s \in Slugs \ {task[c].slug : c \in {c \in TreeClients :
                                \E pc \in {"add", "undo"} : At(c, "worktree", pc)}} :
                             \/ tree[s] = "clean" /\ tree' = [tree EXCEPT ![s] = "dirty"]
                             \/ tree[s] = "dirty" /\ tree' = [tree EXCEPT ![s] = "clean"]
         /\ UNCHANGED <<rows, nextId, held, task, tasks>>

\* The process ends: rows and worktrees stay, mutexes and operations do not.
TreeCrash == /\ Fault("crash") /\ task # [c \in TreeClients |-> NoTask]
             /\ held' = [i \in Ids |-> << >>]
             /\ task' = [c \in TreeClients |-> NoTask]
             /\ UNCHANGED <<rows, nextId, tree, tasks>>

TreeNext ==
  \/ Edits \/ TreeCrash
  \/ \E c \in TreeClients :
       \/ AddTop(c) \/ AskWorktree(c) \/ InsertParent(c) \/ DryRunEnds(c)
       \/ LockParent(c) \/ GitSteps(c) \/ AddChild(c) \/ UndoWorktree(c)
       \/ TakeChild(c) \/ LeaveChild(c) \/ EndWorktree(c)
       \/ AskClone(c) \/ LockSource(c) \/ AddClone(c) \/ StartClone(c)
       \/ AskDelete(c) \/ ReadSite(c) \/ NextKid(c) \/ LockDoomed(c)
       \/ RunDeletePlan(c) \/ DeleteTheRow(c)

TreeSpec == TreeInit /\ [][TreeNext]_treeVars

-----------------------------------------------------------------------------
\* The mutex a client waits for.
Wants(c) == IF task[c] = NoTask THEN 0
            ELSE IF task[c].pc = "lock" /\ task[c].op = "delete" THEN task[c].id
            ELSE IF task[c].pc = "lock" THEN task[c].parent
            ELSE IF task[c].op # "delete" /\ task[c].pc \in {"start", "clone"}
            THEN task[c].child ELSE 0

\* Nobody waits for a mutex while holding one of a younger site, so the clients
\* that hold one site and take another (worktree.go:196, sites.go:737,1211)
\* never wait for one another in a circle.
LocksDescend ==
  \A c \in TreeClients, i \in Ids :
     Wants(c) # 0 /\ held[i] = <<c>> => i < Wants(c)

\* What follows from it: of any set of clients, one waits for nobody among them.
WaitsFor(c, d) == Wants(c) \in Ids /\ held[Wants(c)] = <<d>>
NobodyWaitsInACircle ==
  \A W \in SUBSET TreeClients : W # {} => \E c \in W : \A d \in W : ~WaitsFor(c, d)

\* Uncommitted work disappears only in a delete that was asked to discard it,
\* or with the parent (ErrWorktreeDirty): not in an unforced delete whose check
\* came before the edit, and not when a failed creation is rolled back.
WorkIsKept ==
  [][\A s \in Slugs : tree[s] = "dirty" /\ tree'[s] = "absent" =>
       \E c \in TreeClients : /\ At(c, "delete", "plan") /\ task[c].slug = s
                              /\ task[c].mine \/ task[c].id # task[c].root]_treeVars

\* "DeleteSite for a parent site purges its worktree-children first; orphaned
\* rows [are] from a hand-edited DB" (the worktree migration, lines 15-17).
ChildHasParent == \A i \in Ids : Exists(i) /\ rows[i].parent # 0 => Exists(rows[i].parent)
=============================================================================
