---------------------------- MODULE ActivityFeed ----------------------------
(* The activity rows of the sites: SiteManager.recordActivity writes one row *)
(* per plan outcome (after a line of lifecycle.log), the table keeps the     *)
(* newest rows of each site, and the GUI's two caches (the overview's recent *)
(* rows and the Activity tab's full list) are filled by background loads and *)
(* kept fresh by the OnActivityAppended callback.                            *)
EXTENDS FiniteSets, Naturals, Sequences

CONSTANTS
  FeedSites,    \* sites
  Retention,    \* rows the table keeps of a site (200 in the code)
  RecentMax,    \* rows the recent cache keeps (5)
  FullMax,      \* rows the full cache keeps (200)
  AuditMax,     \* records lifecycle.log holds when it is rotated (10 MiB)
  MaxPlans,     \* bound on the plans run
  MaxClock,     \* bound on the wall clock
  MaxLoads,     \* bound on the loads the GUI starts
  FeedFaults    \* what may go wrong: "clock", "insert", "read", "rotate"

\* The caches hold no more rows of a site than the table does.
ASSUME FeedAssumption ==
  /\ Retention \in Nat \ {0} /\ AuditMax \in Nat \ {0}
  /\ RecentMax \in 1..Retention /\ FullMax \in 1..Retention
  /\ {MaxPlans, MaxClock} \subseteq Nat

VARIABLES
  exists,       \* exists[s]: the row of s is in the sites table
  run,          \* run[s]: the plan of s: its name, phase, result and completion instant
  clock,
  stepped,      \* the clock was set back at least once
  plans,        \* plans begun
  lastId,       \* the last row id given out (AUTOINCREMENT)
  table,        \* table[s]: the rows of s in activity_events
  audit,        \* lifecycle.log and lifecycle.log.1
  cache,        \* cache[v][s]: the rows the GUI holds, newest first
  filled,       \* filled[v][s]: a load of that cache has completed
  overlap,      \* overlap[v][s]: a row was recorded while a load was under way
  wanted,        \* the site whose recent rows were asked for last
  frame,        \* the site a frame found without full rows
  loads         \* the loads the GUI started

planVars == <<exists, run, clock, stepped, plans, lastId, table, audit>>
listVars == <<cache, filled, overlap, wanted, frame, loads>>
feedVars == <<planVars, listVars>>

Views == {"recent", "full"}
CacheMax(v) == IF v = "recent" THEN RecentMax ELSE FullMax
NoRow == [id |-> 0, time |-> 0]
NoPlan == [plan |-> "-", phase |-> "idle", ok |-> TRUE, time |-> 0, row |-> NoRow]
NoLoad == [view |-> "-", site |-> "-", at |-> "unused", rows |-> <<>>]

FeedTypeOK ==
  /\ exists \in [FeedSites -> BOOLEAN] /\ clock \in 0..MaxClock /\ lastId \in 0..MaxPlans
  /\ \A s \in FeedSites :
       /\ run[s].plan \in {"-", "start", "delete"}
       /\ run[s].phase \in {"idle", "running", "done", "audited", "inserted", "told"}
       /\ \A v \in Views : Len(cache[v][s]) <= CacheMax(v)
  /\ \A i \in 1..MaxLoads : loads[i].at \in {"unused", "read", "set", "end"}
  /\ wanted \in FeedSites \cup {"-"} /\ frame \in FeedSites \cup {"-"}

FeedInit ==
  /\ exists = [s \in FeedSites |-> TRUE] /\ run = [s \in FeedSites |-> NoPlan]
  /\ clock = 0 /\ stepped = FALSE /\ plans = 0 /\ lastId = 0
  /\ table = [s \in FeedSites |-> {}]
  /\ audit = [log |-> <<>>, old |-> <<>>]
  /\ cache = [v \in Views |-> [s \in FeedSites |-> <<>>]]
  /\ filled = [v \in Views |-> [s \in FeedSites |-> FALSE]] /\ overlap = filled
  /\ wanted = "-" /\ frame = "-" /\ loads = [i \in 1..MaxLoads |-> NoLoad]

-----------------------------------------------------------------------------
(* The table. *)
Newer(r, q) == r.time > q.time \/ (r.time = q.time /\ r.id > q.id)
NewestRows(n, rows) == {r \in rows : Cardinality({q \in rows : Newer(q, r)}) < n}
Place(r, rows) == 1 + Cardinality({q \in rows : Newer(q, r)})
NewestFirst(rows) == [i \in 1..Cardinality(rows) |-> CHOOSE r \in rows : Place(r, rows) = i]

Trimmed(rows) == NewestRows(Retention, rows)
TableAfter(rows, r) == Trimmed(rows \cup {r})
GetActivity(s, limit) == NewestFirst(NewestRows(limit, table[s]))

-----------------------------------------------------------------------------
(* lifecycle.log: rotated, when it is full, before the next record. *)
Appended(a, s) == [a EXCEPT !.log = Append(@, s)]
Rotated(a) == [log |-> <<>>, old |-> a.log]
AuditAfter(a, s) == Appended(IF Len(a.log) >= AuditMax THEN Rotated(a) ELSE a, s)

-----------------------------------------------------------------------------
(* A plan of a site: runPlan, under the site's mutex. *)
Advance(s, phase) == run' = [run EXCEPT ![s].phase = phase]

BeginRun(s) ==
  /\ run[s].phase = "idle" /\ exists[s] /\ plans < MaxPlans /\ plans' = plans + 1
  /\ \E p \in {"start", "delete"}, ok \in BOOLEAN :
       run' = [run EXCEPT ![s] = [NoPlan EXCEPT !.plan = p, !.phase = "running", !.ok = ok, !.time = clock]]
  /\ UNCHANGED <<exists, clock, stepped, lastId, table, audit, listVars>>

EndRun(s) ==
  /\ run[s].phase = "running"
  /\ Advance(s, "done")
  /\ UNCHANGED <<exists, clock, stepped, plans, lastId, table, audit, listVars>>

(* A rotation that fails is logged, and the record goes to the full file. *)
WriteAuditLog(s) ==
  /\ run[s].phase = "done"
  /\ audit' \in {AuditAfter(audit, s)} \cup (IF "rotate" \in FeedFaults THEN {Appended(audit, s)} ELSE {})
  /\ Advance(s, "audited")
  /\ UNCHANGED <<exists, clock, stepped, plans, lastId, table, listVars>>

LoadsOf(v, s) == {i \in 1..MaxLoads : loads[i].view = v /\ loads[i].site = s /\ loads[i].at \in {"read", "set"}}
Overlapped(s) ==
  [v \in Views |-> [t \in FeedSites |-> overlap[v][t] \/ (t = s /\ LoadsOf(v, t) # {})]]

(* The insert and the trim are one transaction; a failed one is only logged. *)
AppendActivity(s) ==
  /\ run[s].phase = "audited"
  /\ LET r == [id |-> lastId + 1, time |-> run[s].time] IN
     \/ /\ lastId' = lastId + 1 /\ overlap' = Overlapped(s)
        /\ table' = [table EXCEPT ![s] = TableAfter(@, r)]
        /\ run' = [run EXCEPT ![s].phase = "inserted", ![s].row = r]
     \/ /\ "insert" \in FeedFaults
        /\ Advance(s, "told") /\ UNCHANGED <<lastId, overlap, table>>
  /\ UNCHANGED <<exists, clock, stepped, plans, audit, cache, filled, wanted, frame, loads>>

(* Mutation of Prepended: the new row goes to the end of the list.         *)
MutantPrepended(seq, r, limit) == SubSeq(seq, IF Len(seq) >= limit THEN 2 ELSE 1, Len(seq)) \o <<r>>

Prepended(seq, r, limit) == <<r>> \o SubSeq(seq, 1, IF Len(seq) >= limit THEN limit - 1 ELSE Len(seq))

(* UIState.AppendActivity: the full cache only once it was loaded. *)
OnActivityAppended(s) ==
  /\ run[s].phase = "inserted"
  /\ cache' = [v \in Views |-> [t \in FeedSites |->
        IF t = s /\ (v = "recent" \/ filled[v][t]) THEN Prepended(cache[v][t], run[s].row, CacheMax(v))
        ELSE cache[v][t]]]
  /\ overlap' = Overlapped(s)
  /\ Advance(s, "told")
  /\ UNCHANGED <<exists, clock, stepped, plans, lastId, table, audit, filled, wanted, frame, loads>>

(* A delete that succeeded removes the site's row, and its activity with it. *)
Return(s) ==
  /\ run[s].phase = "told"
  /\ IF run[s].plan = "delete" /\ run[s].ok
     THEN /\ exists' = [exists EXCEPT ![s] = FALSE]
          /\ table' = [table EXCEPT ![s] = {}]
     ELSE UNCHANGED <<exists, table>>
  /\ run' = [run EXCEPT ![s] = NoPlan]
  /\ UNCHANGED <<clock, stepped, plans, lastId, audit, listVars>>

(* A row's time is the plan's start on the wall clock plus its duration, *)
(* which the monotonic clock measures.                                   *)
TickClock ==
  /\ clock < MaxClock /\ clock' = clock + 1
  /\ run' = [s \in FeedSites |-> IF run[s].phase = "running" /\ run[s].time < MaxClock
                                 THEN [run[s] EXCEPT !.time = @ + 1] ELSE run[s]]
  /\ UNCHANGED <<exists, stepped, plans, lastId, table, audit, listVars>>

SetClockBack ==
  /\ "clock" \in FeedFaults /\ clock > 0 /\ ~stepped
  /\ clock' = 0 /\ stepped' = TRUE
  /\ UNCHANGED <<exists, run, plans, lastId, table, audit, listVars>>

-----------------------------------------------------------------------------
(* The GUI. A load reads the table and then sets the cache. *)
StartLoad(v, s) ==
  \E i \in 1..MaxLoads :
    /\ loads[i].at = "unused" /\ \A j \in 1..(i - 1) : loads[j].at # "unused"
    /\ loads' = [loads EXCEPT ![i] = [view |-> v, site |-> s, at |-> "read", rows |-> <<>>]]
    /\ overlap' = [overlap EXCEPT ![v][s] = @ \/ run[s].phase = "inserted"]

(* ensureRecentActivityLoaded: once per switch to a site. *)
ShowOverview(s) ==
  /\ exists[s] /\ wanted # s /\ wanted' = s
  /\ StartLoad("recent", s)
  /\ UNCHANGED <<planVars, cache, filled, frame>>

(* ActivityTab.Layout finds no full rows, and then calls kickLoad. *)
PaintActivity(s) ==
  /\ exists[s] /\ frame = "-" /\ ~filled["full"][s] /\ frame' = s
  /\ UNCHANGED <<planVars, cache, filled, overlap, wanted, loads>>

KickLoad ==
  /\ frame # "-" /\ frame' = "-"
  /\ IF LoadsOf("full", frame) = {} THEN StartLoad("full", frame) ELSE UNCHANGED <<overlap, loads>>
  /\ UNCHANGED <<planVars, cache, filled, wanted>>

ReadRows(i) ==
  /\ loads[i].at = "read"
  /\ \/ loads' = [loads EXCEPT ![i].at = "set", ![i].rows = GetActivity(loads[i].site, CacheMax(loads[i].view))]
     \/ "read" \in FeedFaults /\ loads' = [loads EXCEPT ![i].at = "end"]
  /\ UNCHANGED <<planVars, cache, filled, overlap, wanted, frame>>

(* SetActivityRecent, SetActivityFull: the rows read replace the rows held. *)
SetRows(i) ==
  /\ loads[i].at = "set"
  /\ LET l == loads[i] IN
     /\ cache' = [cache EXCEPT ![l.view][l.site] = l.rows]
     /\ filled' = [filled EXCEPT ![l.view][l.site] = TRUE]
  /\ loads' = [loads EXCEPT ![i].at = "end"]
  /\ UNCHANGED <<planVars, overlap, wanted, frame>>

FeedNext ==
  \/ \E s \in FeedSites :
       \/ BeginRun(s) \/ EndRun(s) \/ WriteAuditLog(s) \/ AppendActivity(s) \/ OnActivityAppended(s) \/ Return(s)
       \/ ShowOverview(s) \/ PaintActivity(s)
  \/ TickClock \/ SetClockBack \/ KickLoad
  \/ \E i \in 1..MaxLoads : ReadRows(i) \/ SetRows(i)

FeedSpec == FeedInit /\ [][FeedNext]_feedVars

-----------------------------------------------------------------------------
(* A cache whose loads no recording overlapped is the head of the table, in  *)
(* the table's order, whatever mixture of loads and callbacks built it       *)
(* (UIState.SetActivityRecent, SetActivityFull, AppendActivity). It is not   *)
(* so after the clock was set back, and not while a row is between its       *)
(* commit and its callback.                                                  *)
CalmCacheIsTheHead ==
  \A s \in FeedSites, v \in Views :
    exists[s] /\ filled[v][s] /\ ~overlap[v][s] /\ ~stepped /\ run[s].phase # "inserted"
      => cache[v][s] = GetActivity(s, CacheMax(v))

(* sitedetail.go says the callback keeps the recent rows fresh after their   *)
(* one load; a row recorded while the load runs is lost or shown twice.      *)
RecentIsFresh ==
  \A s \in FeedSites :
    exists[s] /\ filled["recent"][s] /\ ~stepped /\ run[s].phase # "inserted" /\ LoadsOf("recent", s) = {}
      => cache["recent"][s] = GetActivity(s, RecentMax)
=============================================================================
