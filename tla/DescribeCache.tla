--------------------------- MODULE DescribeCache ---------------------------
(* ui.DescribeCache: one cached SiteDescription per site, loaded by          *)
(* background goroutines. Get asks for it on every frame; SiteManager.       *)
(* Describe reads the row, the hooks, the snapshots and, when asked, the     *)
(* published database port. A plan, and an operation that hands its row to   *)
(* OnSiteUpdated, call Invalidate after the change. Snapshots taken,         *)
(* deleted or swept, hooks, and the rows the reconciliation writes change    *)
(* what a description shows and call nothing.                                *)
EXTENDS Naturals

CONSTANTS
  Described,    \* sites
  Writers,      \* operations that change a site and then tell the GUI
  MaxVersion,   \* bound on the changes of one site
  MaxFetches,   \* bound on the loads
  CacheFaults   \* "describe": a description may fail or time out

ASSUME CacheAssumption == "-" \notin Described /\ MaxVersion \in Nat /\ MaxFetches \in Nat

VARIABLES
  version,      \* version[s]: how often what a description of s shows changed
  writer,       \* writer[w]: the site w changed and has not announced, or "-"
  entry,        \* entry[s]: the cache's entry
  fetches,      \* the load goroutines
  told,         \* told[s]: the version of s when a change was last announced (ghost)
  missed        \* missed[s]: a load had read s when Invalidate came, or failed (ghost)

cacheVars == <<version, writer, entry, fetches, told, missed>>

Absent == [known |-> FALSE, loading |-> FALSE, has |-> FALSE, ver |-> 0, port |-> FALSE]
Unborn == [site |-> "-", at |-> "unused", ver |-> 0, port |-> FALSE]
Fetches == 1..MaxFetches

CacheTypeOK ==
  /\ version \in [Described -> 0..MaxVersion] /\ writer \in [Writers -> Described \cup {"-"}]
  /\ told \in [Described -> 0..MaxVersion] /\ missed \in [Described -> BOOLEAN]
  /\ entry \in [Described -> [known : BOOLEAN, loading : BOOLEAN, has : BOOLEAN, ver : 0..MaxVersion, port : BOOLEAN]]
  /\ fetches \in [Fetches -> [site : Described \cup {"-"}, at : {"unused", "describe", "store", "failed", "end"},
                              ver : 0..MaxVersion, port : BOOLEAN]]

CacheInit ==
  /\ version = [s \in Described |-> 0] /\ writer = [w \in Writers |-> "-"]
  /\ entry = [s \in Described |-> Absent] /\ fetches = [i \in Fetches |-> Unborn]
  /\ told = [s \in Described |-> 0] /\ missed = [s \in Described |-> FALSE]

InFlight(s) == {i \in Fetches : fetches[i].site = s /\ fetches[i].at \in {"describe", "store", "failed"}}

-----------------------------------------------------------------------------
(* The site changes: an operation writes the row, and then calls back. *)
Change(w, s) ==
  /\ writer[w] = "-" /\ version[s] < MaxVersion
  /\ version' = [version EXCEPT ![s] = @ + 1] /\ writer' = [writer EXCEPT ![w] = s]
  /\ UNCHANGED <<entry, fetches, told, missed>>

(* The site changes and nobody is told. *)
ChangeSilently(s) ==
  /\ version[s] < MaxVersion /\ version' = [version EXCEPT ![s] = @ + 1]
  /\ UNCHANGED <<writer, entry, fetches, told, missed>>

Begun(e) == [known |-> TRUE, loading |-> TRUE, has |-> e.has, ver |-> e.ver, port |-> e.port]

Spawn(s, port) ==
  /\ \E i \in Fetches :
       /\ fetches[i].at = "unused" /\ \A j \in Fetches : j < i => fetches[j].at # "unused"
       /\ fetches' = [fetches EXCEPT ![i] = [site |-> s, at |-> "describe", ver |-> 0, port |-> port]]
  /\ entry' = [entry EXCEPT ![s] = Begun(@)]
  /\ missed' = [missed EXCEPT ![s] = FALSE]

(* Mutation of Reloads: a second load is started beside the one under way. *)
MutantReloads(e) == e.known

(* A load is started unless one is under way: nothing notes that the one    *)
(* under way may have read the site before the change.                      *)
Reloads(e) == e.known /\ ~e.loading

Invalidate(w) ==
  /\ writer[w] # "-" /\ writer' = [writer EXCEPT ![w] = "-"]
  /\ LET s == writer[w] IN
     IF Reloads(entry[s])
     THEN Spawn(s, entry[s].port)
     ELSE /\ missed' = [missed EXCEPT ![s] = @ \/ \E i \in InFlight(s) : fetches[i].at = "store"]
          /\ UNCHANGED <<entry, fetches>>
  /\ told' = [told EXCEPT ![writer[w]] = version[writer[w]]]
  /\ UNCHANGED version

NeedsLoad(e, port) == ~e.loading /\ (~e.has \/ (port /\ ~e.port))

(* A frame of the site's page; the Database tab asks for the port too. *)
Get(s, port) ==
  /\ ~entry[s].known \/ NeedsLoad(entry[s], port)
  /\ IF NeedsLoad(entry[s], port)
     THEN Spawn(s, port)
     ELSE entry' = [entry EXCEPT ![s].known = TRUE] /\ UNCHANGED <<fetches, missed>>
  /\ UNCHANGED <<version, writer, told>>

Describe(i) ==
  /\ fetches[i].at = "describe"
  /\ \/ fetches' = [fetches EXCEPT ![i].at = "store", ![i].ver = version[fetches[i].site]]
     \/ "describe" \in CacheFaults /\ fetches' = [fetches EXCEPT ![i].at = "failed"]
  /\ UNCHANGED <<version, writer, entry, told, missed>>

(* A load that failed leaves the description it would have replaced. *)
Store(i) ==
  /\ fetches[i].at \in {"store", "failed"}
  /\ LET f == fetches[i] IN
     IF f.at = "store"
     THEN /\ entry' = [entry EXCEPT ![f.site] =
                [known |-> TRUE, loading |-> FALSE, has |-> TRUE, ver |-> f.ver, port |-> f.port]]
          /\ UNCHANGED missed
     ELSE /\ entry' = [entry EXCEPT ![f.site].known = TRUE, ![f.site].loading = FALSE]
          /\ missed' = [missed EXCEPT ![f.site] = TRUE]
  /\ fetches' = [fetches EXCEPT ![i].at = "end"]
  /\ UNCHANGED <<version, writer, told>>

CacheNext ==
  \/ \E w \in Writers : Invalidate(w) \/ \E s \in Described : Change(w, s)
  \/ \E s \in Described : ChangeSilently(s)
  \/ \E s \in Described, port \in BOOLEAN : Get(s, port)
  \/ \E i \in Fetches : Describe(i) \/ Store(i)

CacheSpec == CacheInit /\ [][CacheNext]_cacheVars

-----------------------------------------------------------------------------
(* One load per site at a time, and the flag that says so never sticks:      *)
(* frames, callbacks and finishing loads all write it (DescribeCache.Get,    *)
(* Invalidate, load).                                                        *)
LoadingIsTrue ==
  \A s \in Described : /\ \A i, j \in InFlight(s) : i = j
                      /\ entry[s].loading <=> InFlight(s) # {}

(* A description at rest shows every change that was announced (ui.go:86-91, *)
(* 102-107), unless the announcement met a load that had already read the    *)
(* site, which Invalidate drops (describecache.go:100-103), or the load      *)
(* failed: loads of one site never finish out of order, and an invalidation  *)
(* of an entry nobody holds is made good by the next frame's load. A change  *)
(* that is not announced shows with the next load, whenever that is.         *)
RestIsFresh ==
  \A s \in Described :
    entry[s].has /\ ~entry[s].loading /\ ~missed[s] => entry[s].ver >= told[s]

(* describecache.go:91 says that Invalidate marks the entry stale and        *)
(* triggers a refresh; one that meets a load under way does neither, and,    *)
(* though no load fails, the entry stays behind what was announced.          *)
InvalidatedIsRefreshed ==
  \A s \in Described :
    entry[s].has /\ ~entry[s].loading /\ CacheFaults = {} => entry[s].ver >= told[s]
=============================================================================
