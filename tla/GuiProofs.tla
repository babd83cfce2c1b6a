------------------------------ MODULE GuiProofs ------------------------------
(***************************************************************************)
(* Proofs about the user interface: the describe cache, for any sites,     *)
(* writers and loads; the notice of the local CA, for any number of        *)
(* installers; the health runner, for any checks, batches and actions; the *)
(* toasts, for any keys; the pairing card, for any sites and boots; the    *)
(* list of sites, for any sites, clicks and faults; the activity caches,   *)
(* for any sites, retention and loads.                                     *)
(***************************************************************************)
EXTENDS DescribeCache, Banners, Health, Toasts, CaPairing, GuiSites,
        ActivityFeed, FiniteSetTheorems, TLAPS

-----------------------------------------------------------------------------
(* The describe cache.                                                     *)

Live(i) == fetches[i].at \in {"describe", "store", "failed"}

(* A load under way is the only one of its site and the flag says so, and  *)
(* the one that has read has read every change announced, or something has *)
(* noted that it has not.                                                  *)
CacheInv ==
  /\ CacheTypeOK
  /\ \A i \in Fetches : Live(i) => fetches[i].site \in Described
  /\ \A i, j \in Fetches : Live(i) /\ Live(j) /\ fetches[i].site = fetches[j].site => i = j
  /\ \A s \in Described :
       entry[s].loading <=> \E i \in Fetches : Live(i) /\ fetches[i].site = s
  /\ \A s \in Described : entry[s].loading \/ entry[s].has => entry[s].known
  /\ \A i \in Fetches, s \in Described :
       fetches[i].at = "store" /\ fetches[i].site = s /\ ~missed[s] => fetches[i].ver >= told[s]
  /\ \A s \in Described : told[s] <= version[s]
  /\ RestIsFresh

LEMMA CacheInvInit == CacheInit => CacheInv
  <1> SUFFICES ASSUME CacheInit PROVE CacheInv
    OBVIOUS
  <1>1. CacheTypeOK
    BY CacheAssumption DEF CacheInit, CacheTypeOK, Absent, Unborn, Fetches
  <1>2. \A i \in Fetches : ~Live(i)
    BY DEF CacheInit, Live, Unborn
  <1>3. \A s \in Described : ~entry[s].loading /\ ~entry[s].has
    BY DEF CacheInit, Absent
  <1> QED
    BY <1>1, <1>2, <1>3 DEF CacheInv, RestIsFresh, Live, CacheInit

(* A load that is spawned for an idle site is the site's only one.         *)
LEMMA SpawnStep ==
  ASSUME CacheInv, NEW s \in Described, NEW port \in BOOLEAN, Spawn(s, port), ~entry[s].loading,
         UNCHANGED version,
         writer' \in [Writers -> Described \cup {"-"}],
         told' \in [Described -> 0..MaxVersion], told'[s] \in {told[s], version[s]},
         \A t \in Described \ {s} : told'[t] = told[t]
  PROVE  CacheInv'
  <1>1. PICK i \in Fetches :
          /\ fetches[i].at = "unused"
          /\ fetches' = [fetches EXCEPT ![i] = [site |-> s, at |-> "describe", ver |-> 0, port |-> port]]
          /\ entry' = [entry EXCEPT ![s] = [known |-> TRUE, loading |-> TRUE, has |-> entry[s].has,
                                            ver |-> entry[s].ver, port |-> entry[s].port]]
          /\ missed' = [missed EXCEPT ![s] = FALSE]
    BY DEF Spawn, Begun
  <1>2. CacheTypeOK'
    BY <1>1, CacheAssumption DEF CacheInv, CacheTypeOK, Fetches
  <1>3. /\ Live(i)' /\ fetches'[i].site = s /\ fetches'[i].at = "describe"
        /\ \A j \in Fetches \ {i} : fetches'[j] = fetches[j]
    BY <1>1 DEF CacheInv, CacheTypeOK, Live
  <1>4. /\ entry'[s].loading /\ entry'[s].known /\ entry'[s].has = entry[s].has
        /\ \A t \in Described \ {s} : entry'[t] = entry[t] /\ missed'[t] = missed[t]
    BY <1>1 DEF CacheInv, CacheTypeOK
  <1>5. /\ \A t \in Described \ {s} : told'[t] = told[t]
        /\ \A t \in Described : told'[t] <= version'[t]
    BY CacheAssumption DEF CacheInv, CacheTypeOK
  <1>6. \A j \in Fetches : Live(j) => fetches[j].site # s
    BY DEF CacheInv
  <1>7. \A j \in Fetches \ {i} : Live(j)' <=> Live(j)
    BY <1>3 DEF Live
  <1>8. /\ \A j \in Fetches : Live(j)' => fetches'[j].site \in Described
        /\ \A j, k \in Fetches :
             Live(j)' /\ Live(k)' /\ fetches'[j].site = fetches'[k].site => j = k
    BY <1>3, <1>6, <1>7 DEF CacheInv
  <1>9. \A t \in Described :
          entry'[t].loading <=> \E j \in Fetches : Live(j)' /\ fetches'[j].site = t
    BY <1>1, <1>3, <1>4, <1>6, <1>7 DEF CacheInv, Live
  <1>10. \A t \in Described : entry'[t].loading \/ entry'[t].has => entry'[t].known
    BY <1>4 DEF CacheInv
  <1>11. \A j \in Fetches, t \in Described :
           fetches'[j].at = "store" /\ fetches'[j].site = t /\ ~missed'[t]
             => fetches'[j].ver >= told'[t]
    <2> SUFFICES ASSUME NEW j \in Fetches, NEW t \in Described, fetches'[j].at = "store",
                        fetches'[j].site = t, ~missed'[t]
                 PROVE  fetches'[j].ver >= told'[t]
      OBVIOUS
    <2>1. j # i /\ fetches'[j] = fetches[j] /\ Live(j)
      BY <1>3 DEF Live
    <2> QED
      BY <2>1, <1>4, <1>5, <1>6 DEF CacheInv
  <1>12. RestIsFresh'
    BY <1>4, <1>5 DEF CacheInv, RestIsFresh
  <1> QED
    BY <1>2, <1>5, <1>8, <1>9, <1>10, <1>11, <1>12 DEF CacheInv, Live

LEMMA CacheInvStep == CacheInv /\ [CacheNext]_cacheVars => CacheInv'
  <1> SUFFICES ASSUME CacheInv, [CacheNext]_cacheVars PROVE CacheInv'
    OBVIOUS
  <1>1. ASSUME NEW s \in Described, ChangeSilently(s) \/ \E w \in Writers : Change(w, s)
        PROVE  CacheInv'
    <2>1. /\ version[s] < MaxVersion /\ version' = [version EXCEPT ![s] = @ + 1]
          /\ writer' \in [Writers -> Described \cup {"-"}]
          /\ UNCHANGED <<entry, fetches, told, missed>>
      BY <1>1 DEF ChangeSilently, Change, CacheInv, CacheTypeOK
    <2>2. CacheTypeOK'
      BY <2>1, CacheAssumption DEF CacheInv, CacheTypeOK
    <2>3. \A t \in Described : told'[t] <= version'[t]
      BY <2>1, CacheAssumption DEF CacheInv, CacheTypeOK
    <2>4. RestIsFresh'
      BY <2>1 DEF CacheInv, RestIsFresh
    <2>5. \A i \in Fetches : Live(i)' <=> Live(i)
      BY <2>1 DEF Live
    <2> QED
      BY <2>1, <2>2, <2>3, <2>4, <2>5 DEF CacheInv
  <1>2. ASSUME NEW w \in Writers, Invalidate(w) PROVE CacheInv'
    <2>1. PICK s \in Described :
            /\ s = writer[w] /\ version' = version
            /\ told' = [told EXCEPT ![writer[w]] = version[writer[w]]]
            /\ writer' \in [Writers -> Described \cup {"-"}]
      <3>1. writer[w] \in Described /\ writer' = [writer EXCEPT ![w] = "-"]
        BY <1>2 DEF Invalidate, CacheInv, CacheTypeOK
      <3>2. writer' \in [Writers -> Described \cup {"-"}]
        BY <3>1 DEF CacheInv, CacheTypeOK
      <3> QED
        BY <1>2, <3>1, <3>2 DEF Invalidate
    <2>2. /\ told' \in [Described -> 0..MaxVersion] /\ told'[s] = version[s]
          /\ \A t \in Described \ {s} : told'[t] = told[t]
          /\ \A t \in Described : told'[t] <= version'[t]
      BY <2>1, CacheAssumption DEF CacheInv, CacheTypeOK
    <2>3. CASE Reloads(entry[s])
      <3>1. Spawn(s, entry[s].port) /\ ~entry[s].loading /\ entry[s].port \in BOOLEAN
        BY <1>2, <2>1, <2>3 DEF Invalidate, Reloads, CacheInv, CacheTypeOK
      <3> QED
        BY <2>1, <2>2, <3>1, SpawnStep
    <2>4. CASE ~Reloads(entry[s])
      <3>1. /\ missed' = [missed EXCEPT ![s] = @ \/ \E i \in InFlight(s) : fetches[i].at = "store"]
            /\ UNCHANGED <<entry, fetches>>
        BY <1>2, <2>1, <2>4 DEF Invalidate
      <3>2. CacheTypeOK'
        BY <2>1, <2>2, <3>1, CacheAssumption DEF CacheInv, CacheTypeOK
      <3>3. /\ \A t \in Described \ {s} : missed'[t] = missed[t]
            /\ ~missed'[s] => \A i \in Fetches : ~(fetches[i].at = "store" /\ fetches[i].site = s)
        <4>1. /\ missed'[s] = (missed[s] \/ \E i \in InFlight(s) : fetches[i].at = "store")
              /\ \A t \in Described \ {s} : missed'[t] = missed[t]
          BY <3>1 DEF CacheInv, CacheTypeOK
        <4>2. \A i \in Fetches : fetches[i].at = "store" /\ fetches[i].site = s => i \in InFlight(s)
          BY DEF InFlight
        <4> QED
          BY <4>1, <4>2, Zenon
      <3>4. entry[s].loading \/ ~entry[s].has
        BY <2>4 DEF CacheInv, Reloads
      <3>5. RestIsFresh'
        BY <2>2, <3>1, <3>3, <3>4 DEF CacheInv, RestIsFresh
      <3>6. \A i \in Fetches : Live(i)' <=> Live(i)
        BY <3>1 DEF Live
      <3>7. \A i \in Fetches, t \in Described :
              fetches'[i].at = "store" /\ fetches'[i].site = t /\ ~missed'[t]
                => fetches'[i].ver >= told'[t]
        BY <2>2, <3>1, <3>3 DEF CacheInv
      <3> QED
        BY <2>2, <3>1, <3>2, <3>5, <3>6, <3>7 DEF CacheInv
    <2> QED
      BY <2>3, <2>4
  <1>3. ASSUME NEW s \in Described, NEW port \in BOOLEAN, Get(s, port) PROVE CacheInv'
    <2>1. CASE NeedsLoad(entry[s], port)
      <3>1. Spawn(s, port) /\ ~entry[s].loading /\ UNCHANGED <<version, writer, told>>
        BY <1>3, <2>1 DEF Get, NeedsLoad
      <3>2. /\ told' \in [Described -> 0..MaxVersion] /\ told' = told
            /\ writer' \in [Writers -> Described \cup {"-"}]
        BY <3>1 DEF CacheInv, CacheTypeOK
      <3> QED
        BY <3>1, <3>2, SpawnStep
    <2>2. CASE ~NeedsLoad(entry[s], port)
      <3>1. ~entry[s].known /\ entry[s].has
        BY <1>3, <2>2 DEF Get, NeedsLoad, CacheInv
      <3> QED
        BY <3>1 DEF CacheInv
    <2> QED
      BY <2>1, <2>2
  <1>4. ASSUME NEW i \in Fetches, Describe(i) PROVE CacheInv'
    <2>1. /\ fetches[i].at = "describe" /\ UNCHANGED <<version, writer, entry, told, missed>>
          /\ \/ fetches' = [fetches EXCEPT ![i].at = "store", ![i].ver = version[fetches[i].site]]
             \/ fetches' = [fetches EXCEPT ![i].at = "failed"]
      BY <1>4 DEF Describe
    <2>2. fetches[i].site \in Described
      BY <2>1 DEF CacheInv, Live
    <2>3. /\ fetches'[i].site = fetches[i].site /\ fetches'[i].at \in {"store", "failed"}
          /\ fetches'[i].at = "store" => fetches'[i].ver = version[fetches[i].site]
          /\ \A j \in Fetches \ {i} : fetches'[j] = fetches[j]
      BY <2>1 DEF CacheInv, CacheTypeOK
    <2>4. CacheTypeOK'
      <3>1. version[fetches[i].site] \in 0..MaxVersion
        BY <2>2 DEF CacheInv, CacheTypeOK
      <3>2. fetches' \in [Fetches -> [site : Described \cup {"-"},
                                     at : {"unused", "describe", "store", "failed", "end"},
                                     ver : 0..MaxVersion, port : BOOLEAN]]
        BY <2>1, <3>1 DEF CacheInv, CacheTypeOK
      <3> QED
        BY <2>1, <3>2 DEF CacheInv, CacheTypeOK
    <2>5. \A j \in Fetches : (Live(j)' <=> Live(j)) /\ fetches'[j].site = fetches[j].site
      BY <2>1, <2>3 DEF Live
    <2>6. version[fetches[i].site] >= told[fetches[i].site]
      BY <2>2, CacheAssumption DEF CacheInv, CacheTypeOK
    <2>7. RestIsFresh'
      BY <2>1 DEF CacheInv, RestIsFresh
    <2>8. \A j \in Fetches, t \in Described :
            fetches'[j].at = "store" /\ fetches'[j].site = t /\ ~missed'[t]
              => fetches'[j].ver >= told'[t]
      BY <2>1, <2>3, <2>6 DEF CacheInv
    <2> QED
      BY <2>1, <2>4, <2>5, <2>7, <2>8 DEF CacheInv
  <1>5. ASSUME NEW i \in Fetches, Store(i) PROVE CacheInv'
    <2>1. /\ fetches[i].at \in {"store", "failed"} /\ UNCHANGED <<version, writer, told>>
          /\ fetches' = [fetches EXCEPT ![i].at = "end"]
      BY <1>5 DEF Store
    <2>2. PICK s \in Described : s = fetches[i].site /\ Live(i)
      BY <2>1 DEF CacheInv, Live
    <2>3. /\ fetches'[i].at = "end"
          /\ \A j \in Fetches \ {i} : fetches'[j] = fetches[j]
      BY <2>1 DEF CacheInv, CacheTypeOK
    <2>4. ~Live(i)' /\ \A j \in Fetches \ {i} : (Live(j)' <=> Live(j)) /\ (Live(j) => fetches[j].site # s)
      BY <2>2, <2>3 DEF CacheInv, Live
    <2>5. PICK e \in [known : BOOLEAN, loading : BOOLEAN, has : BOOLEAN, ver : 0..MaxVersion,
                      port : BOOLEAN], m \in BOOLEAN :
            /\ e.known /\ ~e.loading
            /\ entry' = [entry EXCEPT ![s] = e] /\ missed' = [missed EXCEPT ![s] = m]
            /\ ~m => ~missed[s] /\ fetches[i].at = "store" /\ e.ver = fetches[i].ver
      <3>1. CASE fetches[i].at = "store"
        <4> DEFINE e == [known |-> TRUE, loading |-> FALSE, has |-> TRUE,
                         ver |-> fetches[i].ver, port |-> fetches[i].port]
        <4>1. entry' = [entry EXCEPT ![s] = e] /\ missed' = missed
          BY <1>5, <2>2, <3>1 DEF Store
        <4>2. missed' = [missed EXCEPT ![s] = missed[s]] /\ missed[s] \in BOOLEAN
          BY <2>2, <4>1 DEF CacheInv, CacheTypeOK
        <4>3. e \in [known : BOOLEAN, loading : BOOLEAN, has : BOOLEAN, ver : 0..MaxVersion, port : BOOLEAN]
          BY DEF CacheInv, CacheTypeOK
        <4> QED
          BY <3>1, <4>1, <4>2, <4>3
      <3>2. CASE fetches[i].at # "store"
        <4> DEFINE e == [entry[s] EXCEPT !.known = TRUE, !.loading = FALSE]
        <4>1. entry' = [entry EXCEPT ![s] = e] /\ missed' = [missed EXCEPT ![s] = TRUE]
          BY <1>5, <2>2, <3>2 DEF Store, CacheInv, CacheTypeOK
        <4>2. entry[s] \in [known : BOOLEAN, loading : BOOLEAN, has : BOOLEAN, ver : 0..MaxVersion, port : BOOLEAN]
          BY <2>2 DEF CacheInv, CacheTypeOK
        <4>3. /\ e \in [known : BOOLEAN, loading : BOOLEAN, has : BOOLEAN, ver : 0..MaxVersion, port : BOOLEAN]
              /\ e.known /\ ~e.loading
          BY <4>2
        <4> QED
          BY <4>1, <4>3
      <3> QED
        BY <3>1, <3>2
    <2>6. /\ \A t \in Described \ {s} : entry'[t] = entry[t] /\ missed'[t] = missed[t]
          /\ entry'[s] = e
          /\ ~missed'[s] => ~missed[s] /\ fetches[i].at = "store" /\ e.ver = fetches[i].ver
      BY <2>2, <2>5 DEF CacheInv, CacheTypeOK
    <2>7. CacheTypeOK'
      BY <2>1, <2>2, <2>5 DEF CacheInv, CacheTypeOK
    <2>8. RestIsFresh'
      BY <2>1, <2>2, <2>5, <2>6 DEF CacheInv, RestIsFresh
    <2>9. \A t \in Described :
            entry'[t].loading <=> \E j \in Fetches : Live(j)' /\ fetches'[j].site = t
      BY <2>3, <2>4, <2>5, <2>6, <2>2 DEF CacheInv
    <2>10. \A j \in Fetches, t \in Described :
            fetches'[j].at = "store" /\ fetches'[j].site = t /\ ~missed'[t]
              => fetches'[j].ver >= told'[t]
      BY <2>1, <2>3, <2>4, <2>6 DEF CacheInv, Live
    <2>11. \A t \in Described : entry'[t].loading \/ entry'[t].has => entry'[t].known
      BY <2>5, <2>6 DEF CacheInv
    <2>12. /\ \A j \in Fetches : Live(j)' => fetches'[j].site \in Described
           /\ \A j, k \in Fetches :
                Live(j)' /\ Live(k)' /\ fetches'[j].site = fetches'[k].site => j = k
      BY <2>3, <2>4 DEF CacheInv
    <2> QED
      BY <2>1, <2>7, <2>8, <2>9, <2>10, <2>11, <2>12 DEF CacheInv
  <1>6. CASE UNCHANGED cacheVars
    BY <1>6 DEF cacheVars, CacheInv, CacheTypeOK, RestIsFresh, Live
  <1> QED
    BY <1>1, <1>2, <1>3, <1>4, <1>5, <1>6 DEF CacheNext

(* The invariant of the describe cache, for any sites, writers and loads:  *)
(* DescribeCache.Get, Invalidate and load.                                 *)
THEOREM CacheInvariant == CacheSpec => []CacheInv
  BY CacheInvInit, CacheInvStep, PTL DEF CacheSpec

(* The entries, the loads under way and what the writers have announced    *)
(* stay of their types, for any sites, writers and loads.                  *)
THEOREM CacheTypeCorrect == CacheSpec => []CacheTypeOK
<1>1. CacheInv => CacheTypeOK
  BY DEF CacheInv
<1> QED
  BY <1>1, CacheInvariant, PTL

(* A description at rest shows every change that was announced, unless the *)
(* load failed or had read the site when the announcement came, for any    *)
(* number of sites and goroutines, and whatever changes unannounced.       *)
THEOREM DescriptionsAreFresh == CacheSpec => []RestIsFresh
<1>1. CacheInv => RestIsFresh
  BY DEF CacheInv
<1> QED
  BY <1>1, CacheInvariant, PTL

(* A site is loaded by one goroutine at a time, and its loading flag says  *)
(* so exactly as long as one is.                                           *)
THEOREM LoadingFlagIsTrue == CacheSpec => []LoadingIsTrue
<1>1. CacheInv => LoadingIsTrue
  <2> SUFFICES ASSUME CacheInv, NEW s \in Described
               PROVE  /\ \A i, j \in InFlight(s) : i = j
                      /\ entry[s].loading <=> InFlight(s) # {}
    BY DEF LoadingIsTrue
  <2>1. \A i : i \in InFlight(s) <=> i \in Fetches /\ Live(i) /\ fetches[i].site = s
    BY DEF InFlight, Live
  <2> QED
    BY <2>1 DEF CacheInv
<1> QED
  BY <1>1, CacheInvariant, PTL

-----------------------------------------------------------------------------
(* The notice of the local CA.                                             *)

(* However often its button is used and whatever fails, a notice that says *)
(* "working" has an installer that will write it: a dead button is not     *)
(* left behind (TriggerNoticeAction and refreshTLSNotice).                 *)
THEOREM BusyNoticeIsInstalling == BannersSpec => []BusyMeansInstalling
<1> DEFINE Pcs == {"idle", "install", "ask", "write", "unbusy", "gone"}
           Inv == /\ installer \in [Installs \cup {Boot} -> [pc : Pcs, told : BOOLEAN]]
                  /\ trusted \in BOOLEAN
                  /\ BusyMeansInstalling
<1>1. BannersInit => Inv
  BY DEF BannersInit, BusyMeansInstalling
<1>2. Inv /\ [BannersNext]_bannerVars => Inv'
  <2> SUFFICES ASSUME Inv, [BannersNext]_bannerVars PROVE Inv'
    OBVIOUS
  <2> USE DEF BusyMeansInstalling
  <2>1. CASE RaiseError \/ Expire \/ TriggerErrorAction \/ ActionClears
    BY <2>1 DEF RaiseError, Expire, TriggerErrorAction, ActionClears
  <2>2. CASE TriggerNoticeAction
    BY <2>2 DEF TriggerNoticeAction, Moves
  <2>3. ASSUME NEW i \in Installs, InstallCA(i) PROVE Inv'
    <3>1. /\ trusted' \in BOOLEAN /\ UNCHANGED notice
          /\ installer' = [installer EXCEPT ![i].pc = "ask"]
      BY <2>3 DEF InstallCA, Moves, AfterInstall
    <3> QED
      BY <3>1
  <2>4. ASSUME NEW i \in Installs, Unbusy(i) PROVE Inv'
    <3>1. installer' = [installer EXCEPT ![i].pc = "gone"] /\ UNCHANGED trusted
      BY <2>4 DEF Unbusy, Moves
    <3>2. notice' = [notice EXCEPT !.busy = FALSE] /\ installer[i].pc = "unbusy"
      BY <2>4 DEF Unbusy
    <3>3. notice'.busy => notice.busy
      BY <3>2
    <3> QED
      BY <3>1, <3>2, <3>3
  <2>5. ASSUME NEW i \in Installs \cup {Boot}, AskStatus(i) PROVE Inv'
    <3>1. PICK trust \in BOOLEAN :
            installer' = [installer EXCEPT ![i] = [pc |-> "write", told |-> trust]]
      BY <2>5 DEF AskStatus
    <3>2. installer[i].pc = "ask" /\ UNCHANGED <<notice, trusted>>
      BY <2>5 DEF AskStatus
    <3> QED
      BY <3>1, <3>2
  <2>6. ASSUME NEW i \in Installs \cup {Boot}, WriteNotice(i) PROVE Inv'
    BY <2>6 DEF WriteNotice, Moves
  <2>7. CASE UNCHANGED bannerVars
    BY <2>7 DEF bannerVars
  <2> QED
    BY <2>1, <2>2, <2>3, <2>4, <2>5, <2>6, <2>7 DEF BannersNext
<1>3. Inv => BusyMeansInstalling
  OBVIOUS
<1> QED
  BY <1>1, <1>2, <1>3, PTL DEF BannersSpec

(* The error banner, the notice, the installers and what has been read stay*)
(* of their types, for any number of errors and installers: no error is    *)
(* shown, acted on or gone that was not raised (SurfaceError, SetNotice).  *)
THEOREM BannersTypeCorrect == BannersSpec => []BannersTypeOK
<1> DEFINE Pcs == {"idle", "install", "ask", "write", "unbusy", "gone"}
<1>1. BannersInit => BannersTypeOK
  BY BannerAssumption DEF BannersInit, BannersTypeOK, NoError
<1>2. BannersTypeOK /\ [BannersNext]_bannerVars => BannersTypeOK'
  <2> SUFFICES ASSUME BannersTypeOK, [BannersNext]_bannerVars PROVE BannersTypeOK'
    OBVIOUS
  <2> DEFINE ErrorsOK == /\ error \in [msg : 0 .. MaxErrors, act : BOOLEAN, busy : BOOLEAN]
                         /\ raised \in 0 .. MaxErrors /\ acting \in 0 .. MaxErrors
                         /\ read \subseteq 1 .. MaxErrors
             NoticeOK == /\ notice \in [shown : BOOLEAN, busy : BOOLEAN] /\ trusted \in BOOLEAN
                         /\ installer \in [Installs \cup {Boot} -> [pc : Pcs, told : BOOLEAN]]
  <2>1. ErrorsOK /\ NoticeOK
    BY DEF BannersTypeOK
  <2>2. ErrorsOK' /\ NoticeOK' => BannersTypeOK'
    BY DEF BannersTypeOK
  <2>3. ASSUME NEW act \in BOOLEAN, Raise(act), UNCHANGED acting PROVE ErrorsOK'
    <3>1. raised + 1 \in 0 .. MaxErrors /\ error.msg \in 0 .. MaxErrors
      BY <2>1, <2>3, BannerAssumption DEF Raise
    <3>2. /\ raised' = raised + 1 /\ read' = read \cup ({error.msg} \ {0})
          /\ error' = [msg |-> raised + 1, act |-> act, busy |-> FALSE]
      BY <2>3 DEF Raise, WithError
    <3>3. error' \in [msg : 0 .. MaxErrors, act : BOOLEAN, busy : BOOLEAN]
      BY <3>1, <3>2
    <3>4. read' \subseteq 1 .. MaxErrors
      <4>1. error.msg # 0 => error.msg \in 1 .. MaxErrors
        BY ONLY <3>1, BannerAssumption
      <4>2. read \subseteq 1 .. MaxErrors
        BY <2>1
      <4> QED
        BY ONLY <3>2, <4>1, <4>2
    <3> QED
      BY <2>1, <2>3, <3>1, <3>2, <3>3, <3>4
  <2>4. ASSUME UNCHANGED <<error, raised, acting, read>> PROVE ErrorsOK'
    BY <2>1, <2>4
  <2>5. ASSUME UNCHANGED <<notice, trusted, installer>> PROVE NoticeOK'
    BY <2>1, <2>5
  <2>6. CASE RaiseError
    BY <2>2, <2>3, <2>5, <2>6 DEF RaiseError
  <2>7. CASE Expire \/ TriggerErrorAction \/ ActionClears
    <3>1. error' \in {NoError, [error EXCEPT !.busy = TRUE]} /\ raised' = raised
          /\ acting' \in {acting, error.msg, 0} /\ read' \subseteq read \cup ({error.msg, acting} \ {0})
      BY <2>7 DEF Expire, TriggerErrorAction, ActionClears
    <3>2. ErrorsOK'
      <4>1. error.msg \in 0 .. MaxErrors /\ 0 \in 0 .. MaxErrors /\ acting \in 0 .. MaxErrors
        BY <2>1, BannerAssumption
      <4>2. error' \in [msg : 0 .. MaxErrors, act : BOOLEAN, busy : BOOLEAN]
        <5>1. CASE error' = NoError
          BY <4>1, <5>1 DEF NoError
        <5>2. CASE error' = [error EXCEPT !.busy = TRUE]
          BY <2>1, <5>2
        <5> QED
          BY <3>1, <5>1, <5>2
      <4>3. read' \subseteq 1 .. MaxErrors
        BY <2>1, <3>1, <4>1, BannerAssumption
      <4> QED
        BY <2>1, <3>1, <4>1, <4>2, <4>3
    <3> QED
      BY <2>2, <2>5, <2>7, <3>2 DEF Expire, TriggerErrorAction, ActionClears
  <2>8. ASSUME NEW i \in Installs \cup {Boot}, NEW pc \in Pcs, Moves(i, pc)
        PROVE  installer' \in [Installs \cup {Boot} -> [pc : Pcs, told : BOOLEAN]]
    BY <2>1, <2>8 DEF Moves
  <2>9. CASE TriggerNoticeAction
    <3>1. notice' = [notice EXCEPT !.busy = TRUE] /\ \E i \in Installs : Moves(i, "install")
      BY <2>9 DEF TriggerNoticeAction
    <3>2. NoticeOK'
      BY <2>1, <2>8, <2>9, <3>1 DEF TriggerNoticeAction
    <3> QED
      BY <2>2, <2>4, <2>9, <3>2 DEF TriggerNoticeAction
  <2>10. ASSUME NEW i \in Installs, InstallCA(i) PROVE BannersTypeOK'
    <3>1. Moves(i, "ask") /\ trusted' \in {trusted, TRUE} /\ UNCHANGED <<notice, acting>>
      BY <2>10 DEF InstallCA, AfterInstall
    <3>2. NoticeOK'
      BY <2>1, <2>8, <3>1
    <3>3. ErrorsOK'
      BY <2>3, <2>4, <2>10, <3>1 DEF InstallCA
    <3> QED
      BY <2>2, <3>2, <3>3
  <2>11. ASSUME NEW i \in Installs \cup {Boot}, AskStatus(i) PROVE BannersTypeOK'
    <3>1. PICK trust \in BOOLEAN : installer' = [installer EXCEPT ![i] = [pc |-> "write", told |-> trust]]
      BY <2>1, <2>11 DEF AskStatus
    <3>2. NoticeOK'
      BY <2>1, <2>11, <3>1 DEF AskStatus
    <3> QED
      BY <2>2, <2>4, <2>11, <3>2 DEF AskStatus
  <2>12. ASSUME NEW i \in Installs \cup {Boot}, WriteNotice(i) PROVE BannersTypeOK'
    <3>1. installer[i].told \in BOOLEAN
      BY <2>1
    <3>2. notice' \in [shown : BOOLEAN, busy : BOOLEAN] /\ \E pc \in {"gone", "unbusy"} : Moves(i, pc)
      BY <2>12, <3>1 DEF WriteNotice
    <3>3. NoticeOK'
      BY <2>1, <2>8, <2>12, <3>2 DEF WriteNotice
    <3> QED
      BY <2>2, <2>4, <2>12, <3>3 DEF WriteNotice
  <2>13. ASSUME NEW i \in Installs, Unbusy(i) PROVE BannersTypeOK'
    <3>1. notice' = [notice EXCEPT !.busy = FALSE] /\ Moves(i, "gone")
      BY <2>13 DEF Unbusy
    <3>2. NoticeOK'
      BY <2>1, <2>8, <2>13, <3>1 DEF Unbusy
    <3> QED
      BY <2>2, <2>4, <2>13, <3>2 DEF Unbusy
  <2>14. CASE UNCHANGED bannerVars
    BY <2>2, <2>4, <2>5, <2>14 DEF bannerVars
  <2> QED
    BY <2>6, <2>7, <2>9, <2>10, <2>11, <2>12, <2>13, <2>14 DEF BannersNext
<1> QED
  BY <1>1, <1>2, PTL DEF BannersSpec

-----------------------------------------------------------------------------
(* The health runner.                                                      *)

(* One remediation of a finding at a time, and its flag never sticks, for  *)
(* any actions, slots and clicks and through Close (executor.go).          *)
THEOREM OneRemediationAtATime == HealthSpec => []GuardIsHeld
<1> DEFINE Inv == /\ worker \in [ActionIds -> [queued : Nat, running : Nat, leaving : Nat]]
                  /\ guard \in [ActionIds -> BOOLEAN]
                  /\ GuardIsHeld
<1>1. HealthInit => Inv
  BY DEF HealthInit, GuardIsHeld
<1>2. Inv /\ [HealthNext]_healthVars => Inv'
  <2> SUFFICES ASSUME Inv, [HealthNext]_healthVars PROVE Inv'
    OBVIOUS
  <2> USE DEF GuardIsHeld
  <2>1. ASSUME UNCHANGED <<worker, guard>> PROVE Inv'
    BY <2>1
  <2> DEFINE Counts == [queued : Nat, running : Nat, leaving : Nat]
             Up(i, k) == worker'[i].queued + worker'[i].running = k
  <2>2. ASSUME NEW i \in ActionIds, worker' \in [ActionIds -> Counts],
               \A j \in ActionIds \ {i} : worker'[j] = worker[j],
               \/ guard' = [guard EXCEPT ![i] = TRUE] /\ Up(i, 1)
               \/ guard' = [guard EXCEPT ![i] = FALSE] /\ Up(i, 0)
               \/ guard' = guard /\ Up(i, worker[i].queued + worker[i].running)
        PROVE  Inv'
    <3>1. GuardIsHeld'
      BY <2>2
    <3>2. guard' \in [ActionIds -> BOOLEAN]
      BY <2>2
    <3> QED
      BY <2>2, <3>1, <3>2
  <2>3. ASSUME NEW i \in ActionIds, Submit(i) PROVE Inv'
    <3>1. CASE guard[i]
      BY <2>1, <2>3, <3>1 DEF Submit
    <3>2. CASE ~guard[i]
      <4>1. /\ worker' = [worker EXCEPT ![i].queued = @ + 1]
            /\ guard' = [guard EXCEPT ![i] = TRUE]
        BY <2>3, <3>2 DEF Submit
      <4>2. worker[i].queued + worker[i].running = 0
        BY <3>2
      <4>3. worker' \in [ActionIds -> Counts] /\ Up(i, 1)
        BY <4>1, <4>2
      <4>4. \A j \in ActionIds \ {i} : worker'[j] = worker[j]
        BY <4>1
      <4> QED
        BY <4>1, <4>3, <4>4, <2>2
    <3> QED
      BY <3>1, <3>2
  <2>4. ASSUME NEW i \in ActionIds, StartAction(i) \/ EndAction(i) PROVE Inv'
    <3> DEFINE Moved(q, r, l) ==
          worker' = [worker EXCEPT ![i] = [queued |-> worker[i].queued + q,
                                           running |-> worker[i].running + r,
                                           leaving |-> worker[i].leaving + l]]
    <3>1. \/ worker[i].queued > 0 /\ Moved(-1, 1, 0) /\ guard' = guard
          \/ worker[i].queued > 0 /\ Moved(-1, 0, 0) /\ guard' = [guard EXCEPT ![i] = FALSE]
          \/ worker[i].running > 0 /\ Moved(0, -1, 1) /\ guard' = [guard EXCEPT ![i] = FALSE]
          \/ worker[i].leaving > 0 /\ Moved(0, 0, -1) /\ guard' = guard
      BY <2>4 DEF StartAction, EndAction
    <3>2. worker[i].queued + worker[i].running <= 1
      OBVIOUS
    <3>3. worker' \in [ActionIds -> Counts] /\ \A j \in ActionIds \ {i} : worker'[j] = worker[j]
      <4> DEFINE e(q, r, l) == [queued |-> worker[i].queued + q, running |-> worker[i].running + r,
                                leaving |-> worker[i].leaving + l]
      <4>1. worker[i].queued > 0 => e(-1, 1, 0) \in Counts /\ e(-1, 0, 0) \in Counts
        OBVIOUS
      <4>2. worker[i].running > 0 => e(0, -1, 1) \in Counts
        OBVIOUS
      <4>3. worker[i].leaving > 0 => e(0, 0, -1) \in Counts
        OBVIOUS
      <4>4. \E f \in Counts : worker' = [worker EXCEPT ![i] = f]
        BY <3>1, <4>1, <4>2, <4>3
      <4> QED
        BY <4>4
    <3>4. \/ guard' = [guard EXCEPT ![i] = FALSE] /\ Up(i, 0)
          \/ guard' = guard /\ Up(i, worker[i].queued + worker[i].running)
      BY <3>1, <3>2
    <3> QED
      BY <3>3, <3>4, <2>2
  <2>5. ASSUME NEW b \in Batches,
               \/ BeginBatch(b) \/ LoadSnap(b) \/ StoreSnap(b) \/ Notify(b) \/ CollateBatch(b)
               \/ \E c \in HealthChecks : StartCheck(b, c) \/ EndCheck(b, c)
        PROVE  Inv'
    BY <2>1, <2>5 DEF BeginBatch, LoadSnap, StoreSnap, Notify, CollateBatch, StartCheck, EndCheck,
                      actionVars
  <2>6. CASE TimePasses \/ WorldChanges \/ StartLoop \/ CloseRunner
    BY <2>1, <2>6 DEF TimePasses, WorldChanges, StartLoop, CloseRunner, actionVars
  <2>7. CASE UNCHANGED healthVars
    BY <2>1, <2>7 DEF healthVars
  <2> QED
    BY <2>3, <2>4, <2>5, <2>6, <2>7 DEF HealthNext
<1>3. Inv => GuardIsHeld
  OBVIOUS
<1> QED
  BY <1>1, <1>2, <1>3, PTL DEF HealthSpec

Snaps == [found : SUBSET Findings, running : BOOLEAN, gen : Nat]
Pcs == (Phases \X {"load", "store", "notify"}) \cup {<<"checks">>}
UnderWay == [pc : Pcs, wait : SUBSET HealthChecks, busy : SUBSET HealthChecks, asked : BOOLEAN,
             got : SUBSET Findings, late : SUBSET HealthChecks, ran : SUBSET HealthChecks, copy : Snaps]

HealthTypes ==
  /\ batch \in [Batches -> UnderWay \cup {NoBatch}]
  /\ snap \in Snaps /\ shown \in Snaps

(* What the batches under way still owe the snapshot and the panel: a      *)
(* batch that made one say "running" has yet to write its end.             *)
OwesStore(r) == r.pc \in {<<"on", "notify">>, <<"checks">>, <<"pub", "load">>, <<"pub", "store">>}
OwesNotify(r) == r.pc \in {<<"checks">>, <<"pub", "load">>, <<"pub", "store">>, <<"pub", "notify">>}
Honest(r) == r.pc \in {"pub", "off"} \X {"store", "notify"} => ~r.copy.running

QuietInv ==
  /\ \A b \in Batches : Honest(batch[b])
  /\ snap.running => \E b \in Batches : OwesStore(batch[b])
  /\ shown.running => \E b \in Batches : OwesNotify(batch[b])

LEMMA FindingsTyped ==
  ASSUME NEW c \in HealthChecks, NEW reads \in BOOLEAN
  PROVE  FindingsOf(c, reads) \subseteq Findings
<1> DEFINE Ids == HealthChecks \cup {"check-failed", "disk-check-skipped"}
<1>1. \A id \in Ids, sev \in Severities : Finding(id, sev) \subseteq Findings
  BY DEF Finding, Findings
<1>2. /\ {"info", "warn", "blocker"} = Severities
      /\ {c, "check-failed", "disk-check-skipped"} \subseteq Ids
  BY DEF Severities
<1> HIDE DEF Ids
<1>3. c = "docker-down" => PingFindings \subseteq Findings
  BY <1>1, <1>2 DEF PingFindings
<1>4. c = "disk-low" => DiskFindings(reads) \subseteq Findings
  BY <1>1, <1>2 DEF DiskFindings
<1>5. PortFindings(c) \subseteq Findings
  BY <1>1, <1>2 DEF PortFindings
<1>6. c = "rosetta" => RosettaFindings \subseteq Findings
  BY <1>1, <1>2 DEF RosettaFindings
<1>7. c = "mkcert-missing" => MkcertFindings \subseteq Findings
  BY <1>1, <1>2 DEF MkcertFindings
<1>8. PathFindings(c) \subseteq Findings /\ DaemonFindings(c) \subseteq Findings
  BY <1>1, <1>2 DEF PathFindings, DaemonFindings
<1> QED
  BY <1>3, <1>4, <1>5, <1>6, <1>7, <1>8 DEF FindingsOf

(* A step that gives batch b the record e and keeps what b owed.           *)
LEMMA QuietStep ==
  ASSUME HealthTypes, QuietInv, NEW b \in Batches, NEW e \in UnderWay \cup {NoBatch},
         batch' = [batch EXCEPT ![b] = e], Honest(e), snap' \in Snaps, shown' \in Snaps,
         \/ snap' = snap /\ (OwesStore(batch[b]) => OwesStore(e))
         \/ snap'.running => OwesStore(e),
         \/ shown' = shown /\ (OwesNotify(batch[b]) => OwesNotify(e))
         \/ shown'.running => OwesNotify(e)
  PROVE  HealthTypes' /\ QuietInv'
<1>1. HealthTypes'
  BY DEF HealthTypes
<1>2. batch'[b] = e /\ \A o \in Batches \ {b} : batch'[o] = batch[o]
  BY DEF HealthTypes
<1>3. \A o \in Batches : Honest(batch[o])'
  BY <1>2 DEF QuietInv, Honest
<1>4. snap'.running => \E o \in Batches : OwesStore(batch'[o])
  BY <1>2 DEF QuietInv
<1>5. shown'.running => \E o \in Batches : OwesNotify(batch'[o])
  BY <1>2 DEF QuietInv
<1> QED
  BY <1>1, <1>3, <1>4, <1>5 DEF QuietInv, OwesStore, OwesNotify

(* Each batch under way still owes the writes that end it.                 *)
LEMMA QuietInvariant == HealthSpec => [](HealthTypes /\ QuietInv)
<1> DEFINE Inv == HealthTypes /\ QuietInv
<1>1. HealthInit => Inv
  BY DEF HealthInit, HealthTypes, QuietInv, Honest, Snaps, NoBatch, Findings
<1>2. Inv /\ [HealthNext]_healthVars => Inv'
  <2> SUFFICES ASSUME HealthTypes, QuietInv, [HealthNext]_healthVars PROVE HealthTypes' /\ QuietInv'
    OBVIOUS
  <2>1. ASSUME UNCHANGED <<snap, shown, batch>> PROVE HealthTypes' /\ QuietInv'
    BY <2>1 DEF HealthTypes, QuietInv, Honest, OwesStore, OwesNotify
  <2>2. ASSUME NEW b \in Batches, BeginBatch(b) PROVE HealthTypes' /\ QuietInv'
    <3> DEFINE e == [pc |-> <<"on", "load">>, wait |-> {}, busy |-> {}, asked |-> FALSE, got |-> {},
                     late |-> {}, ran |-> {}, copy |-> snap]
    <3>1. batch' = [batch EXCEPT ![b] = e] /\ batch[b] = NoBatch /\ UNCHANGED <<snap, shown>>
      BY <2>2 DEF BeginBatch
    <3>2. e \in UnderWay /\ Honest(e)
      BY DEF UnderWay, Pcs, Phases, Honest, HealthTypes
    <3>3. ~OwesStore(batch[b]) /\ ~OwesNotify(batch[b])
      BY <3>1 DEF OwesStore, OwesNotify, NoBatch
    <3> QED
      BY <3>1, <3>2, <3>3, QuietStep DEF HealthTypes
  <2>3. ASSUME NEW b \in Batches, LoadSnap(b) PROVE HealthTypes' /\ QuietInv'
    <3>1. PICK p \in Phases : batch[b].pc = <<p, "load">>
      BY <2>3 DEF LoadSnap
    <3> DEFINE copy == IF p = "pub" THEN [found |-> batch[b].got, running |-> FALSE, gen |-> snap.gen + 1]
                       ELSE [snap EXCEPT !.running = (p = "on")]
               e == [batch[b] EXCEPT !.pc = <<p, "store">>, !.copy = copy]
    <3>2. batch[b] \in UnderWay
      BY <3>1 DEF HealthTypes, NoBatch
    <3>3. batch' = [batch EXCEPT ![b] = e] /\ UNCHANGED <<snap, shown>>
      <4>1. batch[b].pc[1] = p
        BY <3>1
      <4>2. batch' = [batch EXCEPT ![b].pc = <<p, "store">>, ![b].copy = copy]
        BY <2>3, <4>1 DEF LoadSnap
      <4> HIDE DEF copy
      <4> QED
        BY <2>3, <4>2 DEF LoadSnap
    <3>4. copy \in Snaps /\ (copy.running => p = "on")
      <4>1. CASE p = "pub"
        <5>1. copy = [found |-> batch[b].got, running |-> FALSE, gen |-> snap.gen + 1]
          BY <4>1
        <5> QED
          BY <3>2, <5>1 DEF HealthTypes, Snaps, UnderWay
      <4>2. CASE p # "pub"
        <5>1. copy = [snap EXCEPT !.running = (p = "on")]
          BY <4>2
        <5>2. (p = "on") \in BOOLEAN
          OBVIOUS
        <5>3. CASE p = "on"
          <6>1. copy = [snap EXCEPT !.running = TRUE]
            BY <5>1, <5>3
          <6> QED
            BY <5>3, <6>1 DEF HealthTypes, Snaps
        <5>4. CASE p # "on"
          <6>1. copy = [snap EXCEPT !.running = FALSE]
            BY <5>1, <5>4
          <6> QED
            BY <5>4, <6>1 DEF HealthTypes, Snaps
        <5> QED
          BY <5>3, <5>4
      <4> QED
        BY <4>1, <4>2
    <3>5. /\ e \in UnderWay /\ e.pc = <<p, "store">> /\ e.copy = copy
      <4> HIDE DEF copy
      <4> QED
        BY <3>2, <3>4 DEF UnderWay, Pcs
    <3>6. Honest(e) /\ (OwesStore(batch[b]) => OwesStore(e)) /\ (OwesNotify(batch[b]) => OwesNotify(e))
      BY <3>1, <3>4, <3>5 DEF Honest, OwesStore, OwesNotify, Phases
    <3> QED
      BY <3>3, <3>5, <3>6, QuietStep DEF HealthTypes
  <2>4. ASSUME NEW b \in Batches, StoreSnap(b) PROVE HealthTypes' /\ QuietInv'
    <3>1. PICK p \in Phases : batch[b].pc = <<p, "store">>
      BY <2>4 DEF StoreSnap
    <3> DEFINE e == [batch[b] EXCEPT !.pc = <<p, "notify">>]
    <3>2. batch[b] \in UnderWay
      BY <3>1 DEF HealthTypes, NoBatch
    <3>3. batch' = [batch EXCEPT ![b] = e] /\ shown' = shown /\ snap' = batch[b].copy
      <4>1. batch[b].pc[1] = p
        BY <3>1
      <4> QED
        BY <2>4, <4>1 DEF StoreSnap
    <3>4. e \in UnderWay /\ e.pc = <<p, "notify">> /\ e.copy = batch[b].copy /\ e.copy \in Snaps
      BY <3>2 DEF UnderWay, Pcs
    <3>5. p # "on" => ~batch[b].copy.running
      <4>1. p # "on" => <<p, "store">> \in {"pub", "off"} \X {"store", "notify"}
        BY DEF Phases
      <4>2. Honest(batch[b])
        BY DEF QuietInv
      <4> QED
        BY <3>1, <4>1, <4>2 DEF Honest
    <3>6. /\ Honest(e) /\ (snap'.running => OwesStore(e))
          /\ OwesNotify(batch[b]) => OwesNotify(e)
      BY <3>1, <3>3, <3>4, <3>5 DEF Honest, OwesStore, OwesNotify, Phases
    <3> QED
      BY <3>3, <3>4, <3>6, QuietStep DEF HealthTypes
  <2>5. ASSUME NEW b \in Batches, Notify(b) PROVE HealthTypes' /\ QuietInv'
    <3>1. PICK p \in Phases : batch[b].pc = <<p, "notify">>
      BY <2>5 DEF Notify
    <3> DEFINE W == {c \in HealthChecks : Bundled(c)} \ suspended
               e == IF p = "on" THEN [batch[b] EXCEPT !.pc = <<"checks">>, !.wait = W]
                    ELSE IF p = "pub" THEN [batch[b] EXCEPT !.pc = <<"off", "load">>] ELSE NoBatch
    <3>2. batch[b] \in UnderWay
      BY <3>1 DEF HealthTypes, NoBatch
    <3>3. W \subseteq HealthChecks
      OBVIOUS
    <3>4. batch' = [batch EXCEPT ![b] = e] /\ snap' = snap /\ shown' = batch[b].copy
      <4>1. batch[b].pc[1] = p
        BY <3>1
      <4>2. shown' = batch[b].copy /\ snap' = snap
        BY <2>5 DEF Notify
      <4>3. p \in {"on", "pub", "off"}
        BY DEF Phases
      <4>4. p = "on" => batch' = [batch EXCEPT ![b] = [@ EXCEPT !.pc = <<"checks">>, !.wait = W]]
        BY <2>5, <4>1 DEF Notify
      <4>5. p = "pub" => batch' = [batch EXCEPT ![b] = [@ EXCEPT !.pc = <<"off", "load">>]]
        BY <2>5, <4>1 DEF Notify
      <4>6. p = "off" => batch' = [batch EXCEPT ![b] = NoBatch]
        BY <2>5, <4>1 DEF Notify
      <4> HIDE DEF W
      <4> QED
        BY <4>2, <4>3, <4>4, <4>5, <4>6
    <3>5. /\ p = "on" => e \in UnderWay /\ e.pc = <<"checks">>
          /\ p = "pub" => e \in UnderWay /\ e.pc = <<"off", "load">>
          /\ p = "off" => e = NoBatch /\ e.pc = <<"none">>
      <4> HIDE DEF W
      <4>1. p = "on" => e \in UnderWay /\ e.pc = <<"checks">>
        BY <3>2, <3>3 DEF UnderWay, Pcs
      <4>2. p = "pub" => e \in UnderWay /\ e.pc = <<"off", "load">>
        BY <3>2 DEF UnderWay, Pcs, Phases
      <4> QED
        BY <4>1, <4>2 DEF NoBatch
    <3>6. p # "on" => ~batch[b].copy.running
      <4>1. p # "on" => <<p, "notify">> \in {"pub", "off"} \X {"store", "notify"}
        BY DEF Phases
      <4>2. Honest(batch[b])
        BY DEF QuietInv
      <4> QED
        BY <3>1, <4>1, <4>2 DEF Honest
    <3>7. batch[b].copy \in Snaps
      BY <3>2 DEF UnderWay
    <3>8. e \in UnderWay \cup {NoBatch}
      BY <3>5 DEF Phases
    <3> HIDE DEF e
    <3>9. /\ Honest(e) /\ (shown'.running => OwesNotify(e))
          /\ OwesStore(batch[b]) => OwesStore(e)
      BY <3>1, <3>4, <3>5, <3>6 DEF Honest, OwesStore, OwesNotify, Phases
    <3> QED
      BY <3>4, <3>7, <3>8, <3>9, QuietStep DEF HealthTypes
  <2>6. ASSUME NEW b \in Batches, NEW c \in HealthChecks, StartCheck(b, c)
        PROVE  HealthTypes' /\ QuietInv'
    <3>1. batch[b] \in UnderWay
      BY <2>6 DEF StartCheck, HealthTypes
    <3>2. Allow(breaker) \in BOOLEAN
      BY DEF Allow
    <3>3. PICK e \in UnderWay : /\ batch' = [batch EXCEPT ![b] = e]
                                /\ e.pc = batch[b].pc /\ e.copy = batch[b].copy
      <4>1. CASE batch' = [batch EXCEPT ![b].wait = @ \ {c}]
        <5> DEFINE e == [batch[b] EXCEPT !.wait = @ \ {c}]
        <5>1. e \in UnderWay /\ e.pc = batch[b].pc /\ e.copy = batch[b].copy
          BY <3>1 DEF UnderWay
        <5> QED
          BY <4>1, <5>1
      <4>2. CASE batch' = [batch EXCEPT ![b].wait = @ \ {c}, ![b].busy = @ \cup {c},
                                        ![b].asked = IF c = "disk-low" THEN Allow(breaker) ELSE @]
        <5> DEFINE e == [batch[b] EXCEPT !.wait = @ \ {c}, !.busy = @ \cup {c},
                                        !.asked = IF c = "disk-low" THEN Allow(breaker) ELSE @]
        <5>1. e \in UnderWay /\ e.pc = batch[b].pc /\ e.copy = batch[b].copy
          BY <3>1, <3>2 DEF UnderWay
        <5> QED
          BY <4>2, <5>1
      <4> QED
        BY <2>6, <4>1, <4>2 DEF StartCheck
    <3>4. UNCHANGED <<snap, shown>>
      BY <2>6 DEF StartCheck
    <3>5. Honest(e) /\ (OwesStore(batch[b]) => OwesStore(e)) /\ (OwesNotify(batch[b]) => OwesNotify(e))
      BY <3>3 DEF QuietInv, Honest, OwesStore, OwesNotify
    <3> QED
      BY <3>3, <3>4, <3>5, QuietStep DEF HealthTypes
  <2>7. ASSUME NEW b \in Batches, NEW c \in HealthChecks, EndCheck(b, c)
        PROVE  HealthTypes' /\ QuietInv'
    <3>1. batch[b] \in UnderWay
      BY <2>7 DEF EndCheck, HealthTypes
    <3>2. FindingsOf(c, batch[b].asked) \subseteq Findings
      BY <3>1, FindingsTyped DEF UnderWay
    <3>3. PICK e \in UnderWay : /\ batch' = [batch EXCEPT ![b] = e]
                                /\ e.pc = batch[b].pc /\ e.copy = batch[b].copy
      <4>1. PICK late \in {batch[b].late, batch[b].late \cup {c}} :
              batch' = [batch EXCEPT ![b].busy = @ \ {c}, ![b].ran = @ \cup {c},
                          ![b].got = @ \cup FindingsOf(c, batch[b].asked), ![b].late = late]
        BY <2>7 DEF EndCheck
      <4> DEFINE F == FindingsOf(c, batch[b].asked)
                 e == [batch[b] EXCEPT !.busy = @ \ {c}, !.ran = @ \cup {c},
                          !.got = @ \cup F, !.late = late]
      <4>2. late \subseteq HealthChecks
        BY <3>1 DEF UnderWay
      <4>3. batch' = [batch EXCEPT ![b] = e]
        BY <4>1
      <4>4. e \in UnderWay /\ e.pc = batch[b].pc /\ e.copy = batch[b].copy
        <5>1. F \subseteq Findings
          BY <3>2
        <5> HIDE DEF F
        <5> QED
          BY <3>1, <4>2, <5>1 DEF UnderWay
      <4> QED
        BY <4>3, <4>4
    <3>4. UNCHANGED <<snap, shown>>
      BY <2>7 DEF EndCheck
    <3>5. Honest(e) /\ (OwesStore(batch[b]) => OwesStore(e)) /\ (OwesNotify(batch[b]) => OwesNotify(e))
      BY <3>3 DEF QuietInv, Honest, OwesStore, OwesNotify
    <3> QED
      BY <3>3, <3>4, <3>5, QuietStep DEF HealthTypes
  <2>8. ASSUME NEW b \in Batches, CollateBatch(b) PROVE HealthTypes' /\ QuietInv'
    <3> DEFINE e == [batch[b] EXCEPT !.pc = <<"pub", "load">>]
    <3>1. batch[b] \in UnderWay /\ batch[b].pc = <<"checks">>
      BY <2>8 DEF CollateBatch, HealthTypes
    <3>2. batch' = [batch EXCEPT ![b] = e] /\ UNCHANGED <<snap, shown>>
      BY <2>8 DEF CollateBatch
    <3>3. e \in UnderWay /\ e.pc = <<"pub", "load">>
      BY <3>1 DEF UnderWay, Pcs, Phases
    <3>4. Honest(e) /\ OwesStore(e) /\ OwesNotify(e)
      BY <3>3 DEF Honest, OwesStore, OwesNotify
    <3> QED
      BY <3>2, <3>3, <3>4, QuietStep DEF HealthTypes
  <2>9. CASE TimePasses \/ WorldChanges \/ StartLoop \/ CloseRunner
    BY <2>1, <2>9 DEF TimePasses, WorldChanges, StartLoop, CloseRunner
  <2>10. ASSUME NEW i \in ActionIds, Submit(i) \/ StartAction(i) \/ EndAction(i)
         PROVE  HealthTypes' /\ QuietInv'
    BY <2>1, <2>10 DEF Submit, StartAction, EndAction
  <2>11. CASE UNCHANGED healthVars
    BY <2>1, <2>11 DEF healthVars
  <2> QED
    BY <2>2, <2>3, <2>4, <2>5, <2>6, <2>7, <2>8, <2>9, <2>10, <2>11 DEF HealthNext
<1> QED
  BY <1>1, <1>2, PTL DEF HealthSpec

(* When no batch is under way neither the snapshot nor the panel says one  *)
(* is, for any number of overlapping batches (runBatch, publishRunning).   *)
THEOREM IdleIsQuiet == HealthSpec => []QuietWhenIdle
<1>1. HealthTypes /\ QuietInv => QuietWhenIdle
  BY DEF QuietInv, QuietWhenIdle, HealthTypes, Snaps, OwesStore, OwesNotify, NoBatch
<1> QED
  BY <1>1, QuietInvariant, PTL
(* What the checks keep between batches: the trips stay under the limit    *)
(* that suspends a check, the breaker's failures under its own.            *)
ChecksTyped ==
  /\ world \in Worlds
  /\ trips \in [HealthChecks -> 0..SuspendTrips] /\ suspended \subseteq HealthChecks
  /\ pings \in 0..2 /\ breaker \in [failures : 0..(MaxFailures + 1), cooled : BOOLEAN]
  /\ guard \in [ActionIds -> BOOLEAN] /\ loop \in {"off", "on", "closing", "draining", "closed"}

LEMMA ChecksTypedStep == HealthTypes /\ ChecksTyped /\ [HealthNext]_healthVars => ChecksTyped'
<1> SUFFICES ASSUME HealthTypes, ChecksTyped, [HealthNext]_healthVars PROVE ChecksTyped'
  OBVIOUS
<1>1. ASSUME UNCHANGED <<world, checkVars, guard, loop>> PROVE ChecksTyped'
  BY <1>1 DEF ChecksTyped, checkVars
<1>2. ASSUME NEW b \in Batches, BeginBatch(b) \/ LoadSnap(b) \/ StoreSnap(b) \/ Notify(b)
      PROVE  ChecksTyped'
  BY <1>1, <1>2 DEF BeginBatch, LoadSnap, StoreSnap, Notify, actionVars
<1>3. ASSUME NEW b \in Batches, NEW c \in HealthChecks, StartCheck(b, c) PROVE ChecksTyped'
  BY <1>1, <1>3 DEF StartCheck, actionVars
<1>4. ASSUME NEW b \in Batches, NEW c \in HealthChecks, EndCheck(b, c) PROVE ChecksTyped'
  <2>1. pings' \in 0..2
    <3>1. pings' \in {pings, 0, 2} \/ (pings # 2 /\ pings' = pings + 1)
      BY <1>4 DEF EndCheck
    <3>2. pings \in 0..2
      BY DEF ChecksTyped
    <3> QED
      BY ONLY <3>1, <3>2
  <2>2. breaker' \in [failures : 0..(MaxFailures + 1), cooled : BOOLEAN]
    <3>1. breaker' \in {breaker, OnFailure(breaker), OnSuccess}
      BY <1>4 DEF EndCheck
    <3>2. breaker \in [failures : 0..(MaxFailures + 1), cooled : BOOLEAN]
      BY DEF ChecksTyped
    <3>3. OnFailure(breaker) \in [failures : 0..(MaxFailures + 1), cooled : BOOLEAN]
      BY ONLY <3>2 DEF OnFailure, MaxFailures
    <3>4. OnSuccess \in [failures : 0..(MaxFailures + 1), cooled : BOOLEAN]
      BY ONLY DEF OnSuccess, MaxFailures
    <3> QED
      BY ONLY <3>1, <3>2, <3>3, <3>4
  <2> QED
    BY <1>4, <2>1, <2>2 DEF ChecksTyped, EndCheck, actionVars
<1>5. ASSUME NEW b \in Batches, CollateBatch(b) PROVE ChecksTyped'
  <2> DEFINE late == batch[b].late
             over == {c \in late : trips[c] + 1 >= SuspendTrips}
  <2>1. batch[b] # NoBatch /\ batch[b] \in UnderWay
    BY <1>5 DEF CollateBatch, HealthTypes
  <2>2. late \subseteq HealthChecks
    BY <2>1 DEF UnderWay
  <2>3. /\ trips' = [c \in HealthChecks |-> IF c \in over \/ c \in batch[b].ran \ late THEN 0
                                            ELSE IF c \in late THEN trips[c] + 1 ELSE trips[c]]
        /\ suspended' = suspended \cup over
    BY <1>5 DEF CollateBatch
  <2>4. suspended' \subseteq HealthChecks
    BY <2>2, <2>3 DEF ChecksTyped
  <2> DEFINE n(c) == IF c \in over \/ c \in batch[b].ran \ late THEN 0
                     ELSE IF c \in late THEN trips[c] + 1 ELSE trips[c]
  <2>5. ASSUME NEW c \in HealthChecks PROVE n(c) \in 0..SuspendTrips
    <3>1. trips[c] \in 0..SuspendTrips
      BY DEF ChecksTyped
    <3>2. c \in late /\ c \notin over => trips[c] + 1 < SuspendTrips
      BY <3>1 DEF SuspendTrips
    <3> HIDE DEF late, over
    <3> QED
      BY <3>1, <3>2 DEF SuspendTrips
  <2>6. trips' = [c \in HealthChecks |-> n(c)]
    BY <2>3
  <2> HIDE DEF n
  <2>7. trips' \in [HealthChecks -> 0..SuspendTrips]
    BY <2>5, <2>6
  <2> QED
    BY <1>5, <2>4, <2>7 DEF ChecksTyped, CollateBatch, actionVars
<1>6. CASE TimePasses
  <2>1. CASE suspended' = {} /\ breaker' = breaker
    BY <1>6, <2>1 DEF ChecksTyped, TimePasses, actionVars
  <2>2. CASE breaker' = [breaker EXCEPT !.cooled = TRUE] /\ suspended' = suspended
    BY <1>6, <2>2 DEF ChecksTyped, TimePasses, actionVars
  <2> QED
    BY <1>6, <2>1, <2>2 DEF TimePasses
<1>7. CASE WorldChanges \/ StartLoop \/ CloseRunner
  <2>1. world' \in Worlds
    BY <1>7, WorldsAssumption DEF WorldChanges, StartLoop, CloseRunner, ChecksTyped
  <2>2. loop' \in {"off", "on", "closing", "draining", "closed"}
    BY <1>7 DEF WorldChanges, StartLoop, CloseRunner, ChecksTyped
  <2>3. UNCHANGED <<checkVars, guard>>
    BY <1>7 DEF WorldChanges, StartLoop, CloseRunner, actionVars
  <2> QED
    BY <2>1, <2>2, <2>3 DEF ChecksTyped, checkVars
<1>8. ASSUME NEW i \in ActionIds, Submit(i) \/ StartAction(i) \/ EndAction(i) PROVE ChecksTyped'
  <2>1. guard' = guard \/ \E up \in BOOLEAN : guard' = [guard EXCEPT ![i] = up]
    BY <1>8 DEF Submit, StartAction, EndAction
  <2>2. guard' \in [ActionIds -> BOOLEAN]
    BY <2>1 DEF ChecksTyped
  <2> QED
    BY <1>8, <2>2 DEF Submit, StartAction, EndAction, ChecksTyped, checkVars
<1>9. CASE UNCHANGED healthVars
  BY <1>1, <1>9 DEF healthVars, checkVars, actionVars
<1> QED
  BY <1>2, <1>3, <1>4, <1>5, <1>6, <1>7, <1>8, <1>9 DEF HealthNext

(* The published snapshot and the panel's copy, the batches, the breaker   *)
(* and the executor's flags stay of their types: a suspended check does    *)
(* not trip again, and findings are ones the bundle can make, for any      *)
(* checks, worlds and clicks (recordBudget, breaker.go, runBatch).         *)
THEOREM HealthTypeCorrect == HealthSpec => []HealthTypeOK
<1>1. HealthInit => ChecksTyped
  BY WorldsAssumption DEF HealthInit, ChecksTyped, SuspendTrips, MaxFailures
<1>2. HealthTypes /\ ChecksTyped => HealthTypeOK
  <2> SUFFICES ASSUME HealthTypes, ChecksTyped PROVE HealthTypeOK
    OBVIOUS
  <2>1. \A s \in {snap, shown} : s.found \subseteq Findings /\ s.running \in BOOLEAN /\ s.gen \in Nat
    BY DEF HealthTypes, Snaps
  <2>2. \A b \in Batches : batch[b] # NoBatch =>
          batch[b].pc \in (Phases \X {"load", "store", "notify"}) \cup {<<"checks">>}
    BY DEF HealthTypes, UnderWay, Pcs
  <2> QED
    BY <2>1, <2>2 DEF ChecksTyped, HealthTypeOK
<1> QED
  BY <1>1, <1>2, ChecksTypedStep, QuietInvariant, PTL DEF HealthSpec

-----------------------------------------------------------------------------
(* Toasts.                                                                 *)

(* What pops up in a run is marked as seen first.                          *)
ToastsInv == ToastsAreKept /\ (Alive => popped \subseteq seen)

LEMMA ToastsInvariant == ToastsSpec => []ToastsInv
<1>1. ToastsInit => ToastsInv
  BY DEF ToastsInit, ToastsInv, ToastsAreKept, Alive
<1>2. ToastsInv /\ [ToastsNext]_toastVars => ToastsInv'
  <2> SUFFICES ASSUME ToastsInv, [ToastsNext]_toastVars PROVE ToastsInv'
    OBVIOUS
  <2> USE DEF ToastsInv, ToastsAreKept, Alive
  <2>1. CASE StartRun \/ CloseWindow
    BY <2>1 DEF StartRun, CloseWindow
  <2>2. CASE ClearFirstFire \/ PersistAfterFirst
    BY <2>2 DEF ClearFirstFire, PersistAfterFirst
  <2>3. CASE Exit \/ Quit
    BY <2>3 DEF Exit, Quit, Ended
  <2>4. ASSUME NEW p \in Publishers, Publish(p) PROVE ToastsInv'
    BY <2>4 DEF Publish
  <2>5. ASSUME NEW p \in Publishers, Walk(p) PROVE ToastsInv'
    <3>1. PICK k \in walking[p] :
            /\ seen' = Marked(k)
            /\ IF ShouldToast(k)
               THEN floating' = floating \cup {k} /\ popped' = popped \cup {k}
               ELSE UNCHANGED <<floating, popped>>
      BY <2>5 DEF Walk
    <3>2. Alive /\ UNCHANGED <<phase, history, dismissed>>
      BY <2>5 DEF Walk
    <3>3. ShouldToast(k) => k \notin floating \cup history \cup dismissed
      BY <3>2 DEF ShouldToast
    <3> QED
      BY <3>1, <3>2, <3>3 DEF Marked
  <2>6. CASE ToastExpires
    BY <2>6 DEF ToastExpires, Promoted
  <2>7. CASE Dismiss
    BY <2>7 DEF Dismiss
  <2>8. CASE UNCHANGED toastVars
    BY <2>8 DEF toastVars
  <2> QED
    BY <2>1, <2>2, <2>3, <2>4, <2>5, <2>6, <2>7, <2>8 DEF ToastsNext
<1> QED
  BY <1>1, <1>2, PTL DEF ToastsSpec

(* A toast that popped up is floating, in the history or was dismissed, in *)
(* one of them only, for any keys and overlapping snapshots: a key is      *)
(* marked before it pops up, and never pops up again in that run           *)
(* (HealthShouldToast, promoteExpired).                                    *)
THEOREM ToastsStay == ToastsSpec => []ToastsAreKept
<1>1. ToastsInv => ToastsAreKept
  BY DEF ToastsInv
<1> QED
  BY <1>1, ToastsInvariant, PTL

(* The sets of keys and the stages of the process, its first-fire window   *)
(* and its publishers stay of their types, for any keys and publishers.    *)
THEOREM ToastsTypeCorrect == ToastsSpec => []ToastsTypeOK
<1> DEFINE Key(S) == S \subseteq Keys
           Typed == /\ runs \in 0 .. MaxRuns /\ phase \in {"down", "open", "closing"}
                    /\ timer \in {"first", "clearing", "done"}
                    /\ Key(seen) /\ Key(saved) /\ Key(floating) /\ Key(history)
                    /\ Key(dismissed) /\ Key(popped) /\ Key(before)
                    /\ walking \in [Publishers -> SUBSET Keys]
<1>1. ToastsInit => Typed
  BY ToastAssumption DEF ToastsInit, Quiet
<1>2. Typed /\ [ToastsNext]_toastVars => Typed'
  <2> SUFFICES ASSUME Typed, [ToastsNext]_toastVars PROVE Typed'
    OBVIOUS
  <2>1. CASE StartRun
    BY <2>1, ToastAssumption DEF StartRun, Quiet
  <2>2. CASE ClearFirstFire \/ PersistAfterFirst \/ CloseWindow
    BY <2>2 DEF ClearFirstFire, PersistAfterFirst, CloseWindow, Persist
  <2>3. CASE Exit \/ Quit
    BY <2>3 DEF Exit, Quit, Ended, Persist
  <2>4. ASSUME NEW p \in Publishers, Publish(p) PROVE Typed'
    BY <2>4 DEF Publish
  <2>5. ASSUME NEW p \in Publishers, Walk(p) PROVE Typed'
    BY <2>5 DEF Walk, Marked
  <2>6. CASE ToastExpires
    BY <2>6 DEF ToastExpires, Promoted
  <2>7. CASE Dismiss
    BY <2>7 DEF Dismiss
  <2>8. CASE UNCHANGED toastVars
    BY <2>8 DEF toastVars
  <2> QED
    BY <2>1, <2>2, <2>3, <2>4, <2>5, <2>6, <2>7, <2>8 DEF ToastsNext
<1>3. Typed => ToastsTypeOK
  BY DEF ToastsTypeOK
<1> QED
  BY <1>1, <1>2, <1>3, PTL DEF ToastsSpec

-----------------------------------------------------------------------------
(* The pairing card.                                                       *)

(* A server that is down was asked to end.                                 *)
PairingInv ==
  /\ PairingTypeOK
  /\ \A b \in Boots : server[b] = "down" => b \in asked
  /\ RegisteredIsShown

LEMMA PairingInvariant == PairingSpec => []PairingInv
<1> USE DEF NoBoot, PairingInv
<1>1. PairingInit => PairingInv
  BY DEF PairingInit, PairingTypeOK, RegisteredIsShown
<1>2. PairingInv /\ [PairingNext]_pairingVars => PairingInv'
  <2> SUFFICES ASSUME PairingInv, [PairingNext]_pairingVars PROVE PairingInv'
    OBVIOUS
  <2> USE DEF PairingTypeOK, RegisteredIsShown
  <2>1. CASE SwitchTab \/ \E s \in PanelSites : SelectPanel(s)
    <3>1. /\ selected' \in PanelSites
          /\ UNCHANGED <<panel, drawn, qr, starter, server, watcher, asked, latest, owner>>
      BY <2>1 DEF SwitchTab, SelectPanel
    <3>2. tab' = ~tab \/ tab' = tab
      BY <2>1, Zenon DEF SwitchTab, SelectPanel
    <3>3. tab' \in BOOLEAN
      BY <3>2
    <3> QED
      BY <3>1, <3>3
  <2>2. CASE StartPairing
    BY <2>2 DEF StartPairing
  <2>3. CASE StopPairing
    BY <2>3 DEF StopPairing, Cleared, Stopped
  <2>4. CASE Draw
    <3>1. CASE MovedAway
      BY <2>4, <3>1 DEF Draw, Cleared, Stopped, MovedAway
    <3>2. CASE ~MovedAway
      BY <2>4, <3>2 DEF Draw
    <3> QED
      BY <3>1, <3>2
  <2>5. CASE ShowQr
    <3>1. QrFor(drawn) \in Boots \cup {NoBoot} /\ NoBoot \in Boots \cup {NoBoot}
      BY DEF QrFor
    <3> QED
      BY <2>5, <3>1 DEF ShowQr
  <2>6. ASSUME NEW b \in Boots, Check(b) \/ Bind(b) PROVE PairingInv'
    BY <2>6 DEF Check, Bind
  <2>7. ASSUME NEW b \in Boots, Enter(b) PROVE PairingInv'
    BY <2>7 DEF Enter
  <2>8. ASSUME NEW b \in Boots, Watch(b) PROVE PairingInv'
    BY <2>8 DEF Watch, AfterDone, Cleared
  <2>9. ASSUME NEW b \in Boots, Lapse(b) PROVE PairingInv'
    BY <2>9 DEF Lapse, Lapses, Stopped
  <2>10. CASE UNCHANGED pairingVars
    BY <2>10 DEF pairingVars
  <2> QED
    BY <2>1, <2>2, <2>3, <2>4, <2>5, <2>6, <2>7, <2>8, <2>9, <2>10 DEF PairingNext
<1> QED
  BY <1>1, <1>2, PTL DEF PairingSpec

(* A pairing server that nobody asked to stop keeps the card it entered    *)
(* last, for any boots and sites: whatever ended was asked to end, so the  *)
(* watcher of another server has no claim on the card (accesspanel.go).    *)
THEOREM RunningServerIsShown == PairingSpec => []RegisteredIsShown
<1>1. PairingInv => RegisteredIsShown
  BY DEF PairingInv
<1> QED
  BY <1>1, PairingInvariant, PTL

(* The card, the servers, their starters and their watchers stay of their  *)
(* types, for any sites and boots.                                         *)
THEOREM PairingTypeCorrect == PairingSpec => []PairingTypeOK
<1>1. PairingInv => PairingTypeOK
  BY DEF PairingInv
<1> QED
  BY <1>1, PairingInvariant, PTL

-----------------------------------------------------------------------------
(* The list of sites.                                                      *)

TableJobs == {"load", "init", "create", "clone", "delete", "purge"}

(* A job on a row has the id of a site, and after GetSite a copy of a row.  *)
JobOK(job) ==
  /\ job.pc \in {"get", "write", "push"} /\ job.kind # "create" => job.site \in GuiNames
  /\ job.pc \in {"get", "push"} => job.kind \in RowJobs
  /\ job.pc = "write" /\ job.kind \in RowJobs => job.table[job.site] # "absent"
  /\ job.pc \in {"read", "set"} => job.kind \in TableJobs
JobsOK == \A j \in Jobs : JobOK(jobs[j])

(* A reconciliation is owed; a whole table is still to reach the list.     *)
OwesInit == failed \/ \E j \in Jobs : At(j, {"init"}, "run")
Refilling ==
  OwesInit \/ \E j \in Jobs : jobs[j].pc \in {"read", "set"} /\ jobs[j].kind # "load"

AllStopped(r) == [s \in GuiNames |-> IF r[s] = "absent" THEN "absent" ELSE "stopped"]

PushesAreTrue ==
  \A j \in Jobs : jobs[j].pc = "push" => rows[jobs[j].site] \in {"absent", Copy(j)}
TablesAreTrue ==
  \A j \in Jobs : jobs[j].pc = "set" =>
    IF jobs[j].kind = "load"
    THEN jobs[j].table = AllStopped(rows) /\ (OwesInit \/ jobs[j].table = rows)
    ELSE jobs[j].table = rows
ListLags ==
  Refilling \/ \A s \in GuiNames :
    \/ list[s] = rows[s]
    \/ /\ list[s] # "absent" /\ rows[s] # "absent"
       /\ \E j \in Jobs : jobs[j].pc = "push" /\ jobs[j].site = s

(* Unless a read was astray, what is on its way to the list is the      *)
(* table, and the list differs from the table only where a row is on its   *)
(* way or while a whole table is.                                          *)
ListInv ==
  /\ GuiTypeOK
  /\ JobsOK
  /\ ~astray => PushesAreTrue /\ TablesAreTrue /\ ListLags

JobRecords ==
  [kind : RowJobs \cup {"none", "ended", "load", "init", "clone", "delete", "purge", "create"},
   site : GuiNames \cup {None},
   pc : {"retry", "run", "get", "write", "push", "read", "set", "flag", "gone"},
   table : [GuiNames -> Rows]]

LEMMA NewJobTyped ==
  ASSUME NEW kind \in RowJobs \cup {"none", "ended", "load", "init", "clone", "delete", "purge",
                                        "create"},
         NEW s \in GuiNames \cup {None},
         NEW pc \in {"retry", "run", "get", "write", "push", "read", "set", "flag", "gone"}
  PROVE  /\ Job(kind, s, pc) \in JobRecords
         /\ Job(kind, s, pc).pc = pc /\ Job(kind, s, pc).site = s /\ Job(kind, s, pc).kind = kind
  BY DEF Job, NoList, Rows, JobRecords

LEMMA ListInvInit == GuiInit => ListInv
  <1> SUFFICES ASSUME GuiInit PROVE ListInv
    OBVIOUS
  <1> USE GuiAssumption
  <1>1. Loader \in Jobs /\ Starter \in Jobs /\ Loader # Starter
    BY DEF Loader, Starter, Jobs
  <1>2. /\ jobs \in [Jobs -> JobRecords]
        /\ jobs[Starter].pc = "run" /\ jobs[Starter].kind = "init"
        /\ \A j \in Jobs : /\ jobs[j].pc \in {"read", "run", "gone"}
                           /\ jobs[j].pc = "read" => jobs[j].kind = "load"
    BY <1>1, NewJobTyped DEF GuiInit, NoJob, RowJobs
  <1>3. GuiTypeOK
    <2>1. rows \in [GuiNames -> Rows] /\ list \in [GuiNames -> Rows]
      BY DEF GuiInit, NoList, Rows
    <2>2. jobs \in [Jobs -> JobRecords]
      BY <1>2
    <2>3. /\ dialog \in [site : GuiNames \cup {None}, purge : BOOLEAN, box : BOOLEAN]
          /\ cloning \in [site : GuiNames \cup {None}, busy : BOOLEAN]
          /\ flags \in [toggling : SUBSET GuiNames, lan : SUBSET GuiNames]
      BY DEF GuiInit
    <2>4. failed \in BOOLEAN /\ astray \in BOOLEAN
      BY DEF GuiInit
    <2> QED
      BY ONLY <2>1, <2>2, <2>3, <2>4 DEF GuiTypeOK, JobRecords
  <1>4. JobsOK
    BY <1>2 DEF JobsOK, JobOK, TableJobs
  <1>5. PushesAreTrue /\ TablesAreTrue /\ ListLags
    BY <1>1, <1>2 DEF PushesAreTrue, TablesAreTrue, ListLags, Refilling, OwesInit, At
  <1> QED
    BY <1>3, <1>4, <1>5 DEF ListInv

(* A job that neither brings nor takes a row or a table.                   *)
LEMMA IdleJobStep ==
  ASSUME ListInv, NEW j \in Jobs, NEW job \in JobRecords,
         jobs' = [jobs EXCEPT ![j] = job],
         jobs[j].pc \notin {"run", "push", "read", "set"},
         job.pc \notin {"run", "push", "read", "set"}, JobOK(job),
         UNCHANGED <<rows, list, failed, astray>>
  PROVE  /\ jobs' \in [Jobs -> JobRecords] /\ JobsOK'
         /\ ~astray' => PushesAreTrue' /\ TablesAreTrue' /\ ListLags'
  <1>1. /\ jobs \in [Jobs -> JobRecords] /\ jobs' \in [Jobs -> JobRecords] /\ jobs'[j] = job
        /\ \A i \in Jobs : i # j => jobs'[i] = jobs[i]
    BY DEF ListInv, GuiTypeOK, JobRecords
  <1>2. JobsOK'
    BY <1>1 DEF ListInv, JobsOK
  <1>3. ASSUME ~astray' PROVE PushesAreTrue' /\ TablesAreTrue' /\ ListLags'
    <2>1. PushesAreTrue /\ TablesAreTrue /\ ListLags
      BY <1>3 DEF ListInv
    <2>2. OwesInit' <=> OwesInit
      BY <1>1 DEF OwesInit, At
    <2>3. PushesAreTrue'
      BY <1>1, <2>1 DEF PushesAreTrue, Copy
    <2>4. TablesAreTrue'
      BY <1>1, <2>1, <2>2 DEF TablesAreTrue, AllStopped
    <2>5. Refilling => Refilling'
      BY <1>1, <2>2 DEF Refilling
    <2>6. ASSUME NEW i \in Jobs, jobs[i].pc = "push" PROVE jobs'[i] = jobs[i]
      BY <1>1, <2>6
    <2>7. ListLags'
      BY <1>1, <2>1, <2>5, <2>6 DEF ListLags
    <2> QED
      BY <2>3, <2>4, <2>7
  <1> QED
    BY <1>1, <1>2, <1>3

(* A click starts a job that has still to write, or one that retries.      *)
LEMMA ClickStep ==
  ASSUME ListInv, NEW job \in JobRecords, Go(job),
         job.pc \in {"get", "write", "retry"}, JobOK(job),
         UNCHANGED <<rows, list, failed, astray>>
  PROVE  /\ jobs' \in [Jobs -> JobRecords] /\ JobsOK'
         /\ ~astray' => PushesAreTrue' /\ TablesAreTrue' /\ ListLags'
  <1>1. PICK j \in Acts : jobs[j] = NoJob /\ jobs' = [jobs EXCEPT ![j] = job]
    BY DEF Go
  <1>2. j \in Jobs
    BY <1>1, GuiAssumption DEF Acts, Jobs
  <1>3. jobs[j].pc = "gone"
    BY <1>1 DEF NoJob, Job
  <1> QED
    BY <1>1, <1>2, <1>3, IdleJobStep

LEMMA EndedJob ==
  ASSUME ListInv, NEW j \in Jobs, NEW pc \in {"write", "flag", "gone", "read", "run"}, To(j, pc)
  PROVE  \E job \in JobRecords :
           /\ jobs' = [jobs EXCEPT ![j] = job]
           /\ job.pc = pc
           /\ pc # "gone" => job.kind = jobs[j].kind /\ job.site = jobs[j].site
  <1>1. /\ jobs[j] \in JobRecords
        /\ jobs[j].site \in GuiNames \cup {None}
        /\ jobs[j].kind \in RowJobs \cup {"none", "ended", "load", "init", "clone", "delete",
                                           "purge", "create"}
    BY DEF ListInv, GuiTypeOK, JobRecords
  <1>2. CASE pc = "gone"
    <2> DEFINE job == Job("ended", None, "gone")
    <2>1. job \in JobRecords /\ job.pc = "gone"
      BY NewJobTyped
    <2>2. jobs' = [jobs EXCEPT ![j] = job]
      BY <1>2 DEF To
    <2> QED
      BY <1>2, <2>1, <2>2
  <1>3. CASE pc = "flag"
    <2> DEFINE job == Job(jobs[j].kind, jobs[j].site, "flag")
    <2>1. job \in JobRecords /\ job.pc = "flag" /\ job.kind = jobs[j].kind /\ job.site = jobs[j].site
      BY <1>1, NewJobTyped
    <2>2. jobs' = [jobs EXCEPT ![j] = job]
      BY <1>3 DEF To
    <2> QED
      BY <1>3, <2>1, <2>2
  <1>4. CASE pc \notin {"flag", "gone"}
    <2> DEFINE job == [jobs[j] EXCEPT !.pc = pc]
    <2>1. job \in JobRecords /\ job.pc = pc /\ job.kind = jobs[j].kind /\ job.site = jobs[j].site
      BY <1>1 DEF JobRecords
    <2>2. jobs' = [jobs EXCEPT ![j] = job]
      BY <1>4 DEF To
    <2> QED
      BY <2>1, <2>2
  <1> QED
    BY <1>2, <1>3, <1>4

LEMMA LeftJob ==
  ASSUME ListInv, NEW j \in Jobs, Leave(j)
  PROVE  \E job \in JobRecords :
           jobs' = [jobs EXCEPT ![j] = job] /\ job.pc \in {"flag", "gone"} /\ JobOK(job)
  <1>1. PICK pc \in {"flag", "gone"} : To(j, pc)
    BY DEF Leave
  <1>2. PICK job \in JobRecords : jobs' = [jobs EXCEPT ![j] = job] /\ job.pc = pc
    BY <1>1, EndedJob
  <1> QED
    BY <1>2 DEF JobOK

LEMMA GetRowStep ==
  ASSUME ListInv, NEW j \in Jobs, GetRow(j)
  PROVE  /\ jobs' \in [Jobs -> JobRecords] /\ JobsOK'
         /\ ~astray' => PushesAreTrue' /\ TablesAreTrue' /\ ListLags'
  <1> DEFINE s == jobs[j].site
             copied == [jobs[j].table EXCEPT ![s] = rows[s]]
  <1>1. /\ jobs \in [Jobs -> JobRecords] /\ rows \in [GuiNames -> Rows]
        /\ jobs[j] \in JobRecords /\ jobs[j].table \in [GuiNames -> Rows]
    BY DEF ListInv, GuiTypeOK, JobRecords
  <1>2. jobs[j].pc = "get" /\ jobs[j].kind \in RowJobs /\ s \in GuiNames
    BY DEF GetRow, At, ListInv, JobsOK, JobOK, RowJobs
  <1>3. UNCHANGED <<rows, list, failed, astray>>
    BY DEF GetRow
  <1>4. CASE Leave(j)
    BY <1>2, <1>3, <1>4, LeftJob, IdleJobStep
  <1>5. CASE /\ rows[s] # "absent"
             /\ jobs' = [jobs EXCEPT ![j].pc = "write", ![j].table = [@ EXCEPT ![s] = rows[s]]]
    <2> DEFINE job == [[jobs[j] EXCEPT !.pc = "write"] EXCEPT !.table = copied]
    <2>1. copied \in [GuiNames -> Rows] /\ copied[s] = rows[s]
      BY <1>1, <1>2
    <2>2. /\ job \in JobRecords /\ job.pc = "write" /\ job.kind = jobs[j].kind /\ job.site = s
          /\ job.table = copied
      BY <1>1, <2>1 DEF JobRecords
    <2>3. jobs' = [jobs EXCEPT ![j] = job]
      BY <1>1, <1>5 DEF JobRecords
    <2>4. JobOK(job)
      BY <1>2, <1>5, <2>1, <2>2 DEF JobOK
    <2> HIDE DEF job
    <2> QED
      BY <1>2, <1>3, <2>2, <2>3, <2>4, IdleJobStep
  <1> QED
    BY <1>4, <1>5 DEF GetRow

(* What a job saves: its row, where there is one.                          *)
LEMMA SavedRow ==
  ASSUME ListInv, NEW j \in Jobs, At(j, RowJobs, "write")
  PROVE  /\ jobs[j].site \in GuiNames /\ NewRow(j) \in Rows \ {"absent"}
         /\ Saved(j) \in [GuiNames -> Rows]
         /\ Saved(j)[jobs[j].site] \in {rows[jobs[j].site], NewRow(j)}
         /\ Saved(j)[jobs[j].site] = "absent" <=> rows[jobs[j].site] = "absent"
         /\ \A x \in GuiNames \ {jobs[j].site} : Saved(j)[x] = rows[x]
  <1>1. /\ jobs[j].site \in GuiNames /\ Copy(j) # "absent" /\ Copy(j) \in Rows
        /\ rows \in [GuiNames -> Rows]
    BY DEF ListInv, GuiTypeOK, JobsOK, JobOK, At, RowJobs, Copy
  <1>2. NewRow(j) \in Rows \ {"absent"}
    BY <1>1 DEF NewRow, Rows
  <1> QED
    BY <1>1, <1>2 DEF Saved

LEMMA SaveRowStep ==
  ASSUME ListInv, NEW j \in Jobs, SaveRow(j)
  PROVE  ListInv'
  <1> DEFINE s == jobs[j].site
             v == NewRow(j)
  <1>1. jobs \in [Jobs -> JobRecords] /\ rows \in [GuiNames -> Rows] /\ list \in [GuiNames -> Rows]
    BY DEF ListInv, GuiTypeOK, JobRecords
  <1>2. jobs[j].pc = "write" /\ jobs[j].kind \in RowJobs /\ At(j, RowJobs, "write")
    BY DEF SaveRow, At
  <1>3. /\ s \in GuiNames /\ v \in Rows \ {"absent"} /\ rows' \in [GuiNames -> Rows]
        /\ rows'[s] \in {rows[s], v} /\ (rows'[s] = "absent" <=> rows[s] = "absent")
        /\ \A x \in GuiNames \ {s} : rows'[x] = rows[x]
    BY <1>2, SavedRow DEF SaveRow
  <1>4. PICK job \in JobRecords :
          /\ jobs' = [jobs EXCEPT ![j] = job]
          /\ job.pc = "push" /\ job.kind = jobs[j].kind /\ job.site = s /\ job.table[s] = v
    <2> DEFINE job == [[jobs[j] EXCEPT !.pc = "push"] EXCEPT !.table = [jobs[j].table EXCEPT ![s] = v]]
    <2>1. jobs[j] \in JobRecords /\ jobs[j].table \in [GuiNames -> Rows]
      BY <1>1 DEF JobRecords
    <2>2. [jobs[j].table EXCEPT ![s] = v] \in [GuiNames -> Rows] /\ [jobs[j].table EXCEPT ![s] = v][s] = v
      BY <1>3, <2>1
    <2>3. /\ job \in JobRecords /\ job.pc = "push" /\ job.kind = jobs[j].kind /\ job.site = s
          /\ job.table = [jobs[j].table EXCEPT ![s] = v]
      BY <2>1, <2>2 DEF JobRecords
    <2>4. jobs' = [jobs EXCEPT ![j] = job]
      BY <1>1, <2>1 DEF SaveRow, JobRecords
    <2> QED
      BY <2>2, <2>3, <2>4
  <1>5. /\ jobs' \in [Jobs -> JobRecords] /\ jobs'[j] = job
        /\ \A i \in Jobs : i # j => jobs'[i] = jobs[i]
    BY <1>1, <1>4
  <1>6. GuiTypeOK'
    <2>1. UNCHANGED <<list, failed, dialog, cloning, flags>> /\ GuiTypeOK
      BY DEF SaveRow, ListInv
    <2>2. astray' \in BOOLEAN
      BY <2>1 DEF SaveRow, Overtakes, Reading, Stale, Passing, GuiTypeOK
    <2>3. {rows', list'} \subseteq [GuiNames -> Rows]
      BY <1>1, <1>3, <2>1
    <2> QED
      BY <1>5, <2>1, <2>2, <2>3 DEF GuiTypeOK, JobRecords
  <1>7. JobsOK'
    BY <1>2, <1>3, <1>4, <1>5 DEF ListInv, JobsOK, JobOK
  <1>8. ASSUME ~astray' PROVE PushesAreTrue' /\ TablesAreTrue' /\ ListLags'
    <2>1. /\ ~astray /\ (Reading => rows' = rows) /\ rows'[s] \in {"absent", v}
          /\ (rows' # rows => ~Passing(j))
      BY <1>8, Zenon DEF SaveRow, Overtakes, Stale
    <2>2. PushesAreTrue /\ TablesAreTrue /\ ListLags /\ list' = list
      BY <2>1 DEF ListInv, SaveRow
    <2>3. ASSUME NEW i \in Jobs, i # j, jobs[i].pc = "push", jobs[i].site = s
          PROVE  rows' = rows
      <3>1. jobs[i].kind \in RowJobs
        BY <2>3 DEF ListInv, JobsOK, JobOK
      <3>2. CASE "dir" \in {jobs[i].kind, jobs[j].kind}
        BY <2>1, <2>3, <3>2 DEF Passing
      <3>3. CASE "dir" \notin {jobs[i].kind, jobs[j].kind}
        BY <2>3, <3>1, <3>3 DEF SaveRow, Held, At
      <3> QED
        BY <3>2, <3>3
    <2>4. PushesAreTrue'
      <3> SUFFICES ASSUME NEW i \in Jobs, jobs'[i].pc = "push"
                   PROVE  rows'[jobs'[i].site] \in {"absent", jobs'[i].table[jobs'[i].site]}
        BY DEF PushesAreTrue, Copy
      <3>1. CASE i = j
        BY <1>4, <1>5, <2>1, <3>1
      <3>2. CASE i # j
        <4>1. jobs'[i] = jobs[i] /\ jobs[i].pc = "push" /\ jobs[i].site \in GuiNames
          BY <1>5, <3>2 DEF ListInv, JobsOK, JobOK, RowJobs
        <4>2. rows[jobs[i].site] \in {"absent", jobs[i].table[jobs[i].site]}
          BY <2>2, <4>1 DEF PushesAreTrue, Copy
        <4>3. rows'[jobs[i].site] = rows[jobs[i].site]
          BY <1>3, <2>3, <3>2, <4>1
        <4> QED
          BY <4>1, <4>2, <4>3
      <3> QED
        BY <3>1, <3>2
    <2>5. OwesInit' <=> OwesInit
      BY <1>2, <1>4, <1>5 DEF OwesInit, At, SaveRow
    <2>6. TablesAreTrue'
      <3> SUFFICES ASSUME NEW i \in Jobs, jobs'[i].pc = "set"
                   PROVE  IF jobs'[i].kind = "load"
                          THEN jobs'[i].table = AllStopped(rows') /\ (OwesInit' \/ jobs'[i].table = rows')
                          ELSE jobs'[i].table = rows'
        BY DEF TablesAreTrue, AllStopped
      <3>1. i # j /\ jobs'[i] = jobs[i]
        BY <1>4, <1>5
      <3>2. rows' = rows
        BY <2>1, <3>1 DEF Reading
      <3> QED
        BY <2>2, <2>5, <3>1, <3>2 DEF TablesAreTrue
    <2>7. ASSUME ~Refilling' PROVE ~Refilling
      BY <1>2, <1>4, <1>5, <2>5, <2>7 DEF Refilling
    <2>8. ListLags'
      <3> SUFFICES ASSUME ~Refilling', NEW x \in GuiNames
                   PROVE  \/ list'[x] = rows'[x]
                          \/ /\ list'[x] # "absent" /\ rows'[x] # "absent"
                             /\ \E i \in Jobs : jobs'[i].pc = "push" /\ jobs'[i].site = x
        BY DEF ListLags
      <3>1. \/ list[x] = rows[x]
            \/ /\ list[x] # "absent" /\ rows[x] # "absent"
               /\ \E i \in Jobs : jobs[i].pc = "push" /\ jobs[i].site = x
        BY <2>2, <2>7 DEF ListLags
      <3>2. CASE x = s
        BY <1>3, <1>4, <1>5, <2>2, <3>1, <3>2
      <3>3. CASE x # s
        <4>1. \A i \in Jobs : jobs[i].pc = "push" => jobs'[i] = jobs[i]
          BY <1>2, <1>5
        <4> QED
          BY <1>3, <2>2, <3>1, <3>3, <4>1
      <3> QED
        BY <3>2, <3>3
    <2> QED
      BY <2>4, <2>6, <2>8
  <1> QED
    BY <1>6, <1>7, <1>8 DEF ListInv

LEMMA LoseRowStep ==
  ASSUME ListInv, NEW j \in Jobs, LoseRow(j)
  PROVE  ListInv'
  <1>1. /\ jobs \in [Jobs -> JobRecords] /\ rows \in [GuiNames -> Rows] /\ list \in [GuiNames -> Rows]
        /\ astray \in BOOLEAN
    BY DEF ListInv, GuiTypeOK, JobRecords
  <1>2. jobs[j].pc = "write" /\ At(j, RowJobs, "write")
    BY DEF LoseRow, At
  <1>3. PICK job \in JobRecords :
          jobs' = [jobs EXCEPT ![j] = job] /\ job.pc \in {"flag", "gone"} /\ JobOK(job)
    BY LeftJob DEF LoseRow
  <1>4. jobs' \in [Jobs -> JobRecords] /\ JobsOK'
    BY <1>1, <1>3 DEF ListInv, JobsOK
  <1>5. rows' \in [GuiNames -> Rows] /\ astray' \in BOOLEAN
    BY <1>1, <1>2, SavedRow DEF LoseRow
  <1>6. GuiTypeOK'
    BY <1>1, <1>4, <1>5 DEF ListInv, GuiTypeOK, JobRecords, LoseRow
  <1>7. ASSUME ~astray' PROVE PushesAreTrue' /\ TablesAreTrue' /\ ListLags'
    <2>1. UNCHANGED <<rows, astray>>
      BY <1>1, <1>7, Zenon DEF LoseRow
    <2> QED
      BY <1>2, <1>3, <1>7, <2>1, IdleJobStep DEF LoseRow
  <1> QED
    BY <1>4, <1>6, <1>7 DEF ListInv

LEMMA PushStep ==
  ASSUME ListInv, NEW j \in Jobs, Push(j)
  PROVE  ListInv'
  <1> DEFINE s == jobs[j].site
  <1>1. /\ jobs \in [Jobs -> JobRecords] /\ rows \in [GuiNames -> Rows] /\ list \in [GuiNames -> Rows]
        /\ jobs[j].table \in [GuiNames -> Rows]
    BY DEF ListInv, GuiTypeOK, JobRecords
  <1>2. jobs[j].pc = "push" /\ s \in GuiNames
    BY DEF Push, At, ListInv, JobsOK, JobOK, RowJobs
  <1>3. PICK job \in JobRecords : jobs' = [jobs EXCEPT ![j] = job] /\ job.pc \in {"flag", "gone"} /\ JobOK(job)
    BY LeftJob DEF Push
  <1>4. /\ jobs' \in [Jobs -> JobRecords] /\ jobs'[j] = job
        /\ \A i \in Jobs : i # j => jobs'[i] = jobs[i]
    BY <1>1, <1>3
  <1>5. /\ list' \in [GuiNames -> Rows]
        /\ list'[s] = IF list[s] = "absent" THEN "absent" ELSE jobs[j].table[s]
        /\ \A x \in GuiNames : x # s => list'[x] = list[x]
    BY <1>1, <1>2 DEF Push, Updated, Copy
  <1>6. GuiTypeOK'
    BY <1>4, <1>5 DEF ListInv, GuiTypeOK, JobRecords, Push
  <1>7. JobsOK'
    BY <1>3, <1>4 DEF ListInv, JobsOK
  <1>8. ASSUME ~astray' PROVE PushesAreTrue' /\ TablesAreTrue' /\ ListLags'
    <2>1. PushesAreTrue /\ TablesAreTrue /\ ListLags /\ rows' = rows
      BY <1>8 DEF ListInv, Push
    <2>2. OwesInit' <=> OwesInit
      BY <1>2, <1>3, <1>4 DEF OwesInit, At, Push
    <2>3. PushesAreTrue'
      BY <1>3, <1>4, <2>1 DEF PushesAreTrue, Copy
    <2>4. TablesAreTrue'
      BY <1>3, <1>4, <2>1, <2>2 DEF TablesAreTrue, AllStopped
    <2>5. ASSUME ~Refilling' PROVE ~Refilling
      BY <1>2, <1>3, <1>4, <2>2, <2>5 DEF Refilling
    <2>6. ListLags'
      <3> SUFFICES ASSUME ~Refilling', NEW x \in GuiNames
                   PROVE  \/ list'[x] = rows'[x]
                          \/ /\ list'[x] # "absent" /\ rows'[x] # "absent"
                             /\ \E i \in Jobs : jobs'[i].pc = "push" /\ jobs'[i].site = x
        BY DEF ListLags
      <3>1. \/ list[x] = rows[x]
            \/ /\ list[x] # "absent" /\ rows[x] # "absent"
               /\ \E i \in Jobs : jobs[i].pc = "push" /\ jobs[i].site = x
        BY <2>1, <2>5 DEF ListLags
      <3>2. CASE x = s
        <4>1. rows[s] \in {"absent", jobs[j].table[s]}
          BY <1>2, <2>1 DEF PushesAreTrue, Copy
        <4> QED
          BY <1>5, <2>1, <3>1, <3>2, <4>1
      <3>3. CASE x # s
        BY <1>4, <1>5, <2>1, <3>1, <3>3
      <3> QED
        BY <3>2, <3>3
    <2> QED
      BY <2>3, <2>4, <2>6
  <1> QED
    BY <1>6, <1>7, <1>8 DEF ListInv

(* A job has changed the table and goes on to read it.                     *)
LEMMA RefillStep ==
  ASSUME ListInv, NEW j \in Jobs, To(j, "read"),
         jobs[j].pc \in {"write", "run"}, jobs[j].kind \in TableJobs \ {"load"},
         rows' \in [GuiNames -> Rows], astray' \in BOOLEAN,
         ~astray' => ~astray /\ (Reading => rows' = rows),
         ~astray' => \A i \in Jobs : jobs[i].pc = "push" =>
                        rows'[jobs[i].site] \in {"absent", rows[jobs[i].site]},
         ~astray' /\ jobs[j].pc = "run" /\ Reading => AllStopped(rows) = rows,
         UNCHANGED <<list, failed, dialog, cloning, flags>>
  PROVE  ListInv'
  <1>1. PICK job \in JobRecords :
          jobs' = [jobs EXCEPT ![j] = job] /\ job.pc = "read" /\ job.kind = jobs[j].kind
    BY EndedJob
  <1>2. jobs \in [Jobs -> JobRecords]
    BY DEF ListInv, GuiTypeOK, JobRecords
  <1>3. /\ jobs' \in [Jobs -> JobRecords] /\ jobs'[j] = job
        /\ \A i \in Jobs : i # j => jobs'[i] = jobs[i]
    BY <1>1, <1>2
  <1>4. GuiTypeOK'
    BY <1>3 DEF ListInv, GuiTypeOK, JobRecords
  <1>5. JobsOK'
    BY <1>1, <1>3 DEF ListInv, JobsOK, JobOK
  <1>6. ASSUME ~astray' PROVE PushesAreTrue' /\ TablesAreTrue' /\ ListLags'
    <2>1. PushesAreTrue /\ TablesAreTrue /\ (Reading => rows' = rows)
      BY <1>6 DEF ListInv
    <2>2. PushesAreTrue'
      BY <1>1, <1>3, <1>6, <2>1 DEF PushesAreTrue, Copy
    <2>3. jobs[j].pc # "run" /\ OwesInit => OwesInit'
      BY <1>3 DEF OwesInit, At
    <2>4. TablesAreTrue'
      <3> SUFFICES ASSUME NEW i \in Jobs, jobs'[i].pc = "set"
                   PROVE  IF jobs'[i].kind = "load"
                          THEN jobs'[i].table = AllStopped(rows') /\ (OwesInit' \/ jobs'[i].table = rows')
                          ELSE jobs'[i].table = rows'
        BY DEF TablesAreTrue, AllStopped
      <3>1. i # j /\ jobs'[i] = jobs[i]
        BY <1>1, <1>3
      <3>2. Reading /\ rows' = rows
        BY <2>1, <3>1 DEF Reading
      <3>3. jobs[j].pc = "run" => AllStopped(rows) = rows
        BY <1>6, <3>2
      <3> QED
        BY <2>1, <2>3, <3>1, <3>2, <3>3 DEF TablesAreTrue
    <2>5. ListLags'
      BY <1>1, <1>3 DEF ListLags, Refilling
    <2> QED
      BY <2>2, <2>4, <2>5
  <1> QED
    BY <1>4, <1>5, <1>6 DEF ListInv

LEMMA AddRowStep ==
  ASSUME ListInv, NEW j \in Jobs, AddRow(j)
  PROVE  ListInv'
  <1>1. rows \in [GuiNames -> Rows] /\ astray \in BOOLEAN
    BY DEF ListInv, GuiTypeOK
  <1>2. jobs[j].pc = "write" /\ jobs[j].kind \in {"create", "clone"}
    BY DEF AddRow, At
  <1>3. ASSUME NEW pc \in {"flag", "gone"}, To(j, pc), UNCHANGED <<rows, astray>> PROVE ListInv'
    <2>1. PICK job \in JobRecords : jobs' = [jobs EXCEPT ![j] = job] /\ job.pc = pc /\ JobOK(job)
      BY <1>3, EndedJob DEF JobOK
    <2>2. /\ jobs' \in [Jobs -> JobRecords] /\ JobsOK'
          /\ ~astray' => PushesAreTrue' /\ TablesAreTrue' /\ ListLags'
      BY <1>2, <1>3, <2>1, IdleJobStep DEF AddRow
    <2> QED
      BY <1>3, <2>2 DEF ListInv, GuiTypeOK, JobRecords, AddRow
  <1>4. ASSUME NEW s \in GuiNames, Unused(s),
               Writes([rows EXCEPT ![s] = "stopped"]), To(j, "read")
        PROVE  ListInv'
    <2>1. rows' \in [GuiNames -> Rows] /\ astray' \in BOOLEAN
      BY <1>1, <1>4 DEF Writes, Rows, Overtakes, Reading
    <2>2. ~astray' => ~astray /\ (Reading => rows' = rows)
      BY <1>4, Zenon DEF Writes, Overtakes
    <2>3. \A i \in Jobs : jobs[i].pc = "push" => rows'[jobs[i].site] = rows[jobs[i].site]
      <3> SUFFICES ASSUME NEW i \in Jobs, jobs[i].pc = "push"
                   PROVE  rows'[jobs[i].site] = rows[jobs[i].site]
        OBVIOUS
      <3>1. jobs[i].site \in GuiNames /\ jobs[i].site # s
        BY <1>4 DEF ListInv, JobsOK, JobOK, RowJobs, Unused
      <3> QED
        BY <1>1, <1>4, <3>1 DEF Writes
    <2> QED
      BY <1>2, <1>4, <2>1, <2>2, <2>3, RefillStep DEF AddRow, TableJobs
  <1>5. CASE \E s \in GuiNames : Unused(s) /\ Writes([rows EXCEPT ![s] = "stopped"]) /\ To(j, "read")
    BY <1>4, <1>5
  <1>6. CASE To(j, IF jobs[j].kind = "clone" THEN "flag" ELSE "gone") /\ UNCHANGED <<rows, astray>>
    BY <1>3, <1>6
  <1> QED
    BY <1>5, <1>6 DEF AddRow

LEMMA DropRowStep ==
  ASSUME ListInv, NEW j \in Jobs, DropRow(j)
  PROVE  ListInv'
  <1> DEFINE s == jobs[j].site
  <1>1. rows \in [GuiNames -> Rows] /\ astray \in BOOLEAN
    BY DEF ListInv, GuiTypeOK
  <1>2. jobs[j].pc = "write" /\ jobs[j].kind \in {"delete", "purge"} /\ s \in GuiNames
    BY DEF DropRow, At, ListInv, JobsOK, JobOK
  <1>3. CASE To(j, "gone") /\ UNCHANGED <<rows, astray>>
    <2>1. PICK job \in JobRecords : jobs' = [jobs EXCEPT ![j] = job] /\ job.pc = "gone" /\ JobOK(job)
      BY <1>3, EndedJob DEF JobOK
    <2>2. /\ jobs' \in [Jobs -> JobRecords] /\ JobsOK'
          /\ ~astray' => PushesAreTrue' /\ TablesAreTrue' /\ ListLags'
      BY <1>2, <1>3, <2>1, IdleJobStep DEF DropRow
    <2> QED
      BY <1>3, <2>2 DEF ListInv, GuiTypeOK, JobRecords, DropRow
  <1>4. CASE Writes([rows EXCEPT ![s] = "absent"]) /\ To(j, "read")
    <2>1. rows' \in [GuiNames -> Rows] /\ astray' \in BOOLEAN
      BY <1>1, <1>4 DEF Writes, Rows, Overtakes, Reading
    <2>2. ~astray' => ~astray /\ (Reading => rows' = rows)
      BY <1>4, Zenon DEF Writes, Overtakes
    <2>3. \A i \in Jobs : jobs[i].pc = "push" => rows'[jobs[i].site] \in {"absent", rows[jobs[i].site]}
      BY <1>1, <1>2, <1>4 DEF Writes, ListInv, JobsOK, JobOK, RowJobs
    <2> QED
      BY <1>2, <1>4, <2>1, <2>2, <2>3, RefillStep DEF DropRow, TableJobs
  <1> QED
    BY <1>3, <1>4 DEF DropRow

LEMMA InitialiseStep ==
  ASSUME ListInv, NEW j \in Jobs, Initialise(j)
  PROVE  ListInv'
  <1>1. rows \in [GuiNames -> Rows] /\ astray \in BOOLEAN /\ jobs \in [Jobs -> JobRecords]
    BY DEF ListInv, GuiTypeOK, JobRecords
  <1>2. jobs[j].pc = "run" /\ jobs[j].kind = "init"
    BY DEF Initialise, At
  <1>3. CASE failed' = TRUE /\ To(j, "gone") /\ UNCHANGED <<rows, astray>>
    <2>1. PICK job \in JobRecords : jobs' = [jobs EXCEPT ![j] = job] /\ job.pc = "gone"
      BY <1>3, EndedJob
    <2>2. /\ jobs' \in [Jobs -> JobRecords] /\ jobs'[j] = job
          /\ \A i \in Jobs : i # j => jobs'[i] = jobs[i]
      BY <1>1, <2>1
    <2>3. GuiTypeOK'
      BY <1>3, <2>2 DEF ListInv, GuiTypeOK, JobRecords, Initialise
    <2>4. JobsOK'
      BY <2>1, <2>2 DEF ListInv, JobsOK, JobOK
    <2>5. OwesInit' /\ Refilling'
      BY <1>3 DEF OwesInit, Refilling
    <2>6. ASSUME ~astray' PROVE PushesAreTrue' /\ TablesAreTrue' /\ ListLags'
      <3>1. PushesAreTrue /\ TablesAreTrue /\ rows' = rows
        BY <1>3, <2>6 DEF ListInv
      <3>2. PushesAreTrue'
        BY <2>1, <2>2, <3>1 DEF PushesAreTrue, Copy
      <3>3. TablesAreTrue'
        BY <2>1, <2>2, <2>5, <3>1 DEF TablesAreTrue, AllStopped
      <3> QED
        BY <2>5, <3>2, <3>3 DEF ListLags
    <2> QED
      BY <2>3, <2>4, <2>6 DEF ListInv
  <1>4. ASSUME NEW stay \in SUBSET GuiNames,
               rows' = [s \in GuiNames |-> IF rows[s] = "running" /\ s \notin stay THEN "stopped" ELSE rows[s]],
               astray' = (astray \/ Overtakes(rows') \/ Pushing \/ \E s \in stay : rows[s] = "running"),
               To(j, "read"), UNCHANGED failed
        PROVE  ListInv'
    <2>1. rows' \in [GuiNames -> Rows]
      BY <1>1, <1>4 DEF Rows
    <2>2. astray' \in BOOLEAN
      BY <1>1, <1>4 DEF Overtakes, Reading, Pushing
    <2>3. ASSUME ~astray'
          PROVE  ~astray /\ (Reading => rows' = rows) /\ ~Pushing /\ \A s \in stay : rows[s] # "running"
      BY <1>4, <2>3, Zenon DEF Overtakes
    <2>4. ~astray' => \A i \in Jobs : jobs[i].pc = "push" => rows'[jobs[i].site] = rows[jobs[i].site]
      BY <2>3 DEF Pushing
    <2>5. ASSUME ~astray', Reading PROVE AllStopped(rows) = rows
      <3>1. \A s \in GuiNames : rows[s] # "running"
        BY <1>4, <2>3, <2>5
      <3> QED
        BY <1>1, <3>1 DEF AllStopped, Rows
    <2> QED
      BY <1>2, <1>4, <2>1, <2>2, <2>3, <2>4, <2>5, RefillStep DEF Initialise, TableJobs
  <1>5. CASE \E stay \in SUBSET (IF "row" \in GuiFaults THEN GuiNames ELSE {}) :
               /\ rows' = [s \in GuiNames |-> IF rows[s] = "running" /\ s \notin stay THEN "stopped" ELSE rows[s]]
               /\ astray' = (astray \/ Overtakes(rows') \/ Pushing \/ \E s \in stay : rows[s] = "running")
               /\ To(j, "read") /\ UNCHANGED failed
    <2>1. PICK stay \in SUBSET (IF "row" \in GuiFaults THEN GuiNames ELSE {}) :
               /\ rows' = [s \in GuiNames |-> IF rows[s] = "running" /\ s \notin stay THEN "stopped" ELSE rows[s]]
               /\ astray' = (astray \/ Overtakes(rows') \/ Pushing \/ \E s \in stay : rows[s] = "running")
               /\ To(j, "read") /\ UNCHANGED failed
      BY <1>5
    <2>2. stay \in SUBSET GuiNames
      OBVIOUS
    <2> QED
      BY <1>4, <2>1, <2>2
  <1>6. \/ failed' = TRUE /\ To(j, "gone") /\ UNCHANGED <<rows, astray>>
        \/ \E stay \in SUBSET (IF "row" \in GuiFaults THEN GuiNames ELSE {}) :
               /\ rows' = [s \in GuiNames |-> IF rows[s] = "running" /\ s \notin stay THEN "stopped" ELSE rows[s]]
               /\ astray' = (astray \/ Overtakes(rows') \/ Pushing \/ \E s \in stay : rows[s] = "running")
               /\ To(j, "read") /\ UNCHANGED failed
    BY DEF Initialise
  <1> QED
    BY <1>3, <1>5, <1>6

LEMMA ReadTableStep ==
  ASSUME ListInv, NEW j \in Jobs, ReadTable(j)
  PROVE  ListInv'
  <1> DEFINE whole == IF jobs[j].kind = "load" THEN AllStopped(rows) ELSE rows
             job == [[jobs[j] EXCEPT !.pc = "set"] EXCEPT !.table = whole]
  <1>1. /\ jobs \in [Jobs -> JobRecords] /\ rows \in [GuiNames -> Rows] /\ astray \in BOOLEAN
        /\ jobs[j] \in JobRecords /\ jobs[j].pc = "read"
    BY DEF ListInv, GuiTypeOK, JobRecords, ReadTable
  <1>2. whole \in [GuiNames -> Rows]
    BY <1>1 DEF AllStopped, Rows
  <1>3. /\ job \in JobRecords /\ job.pc = "set" /\ job.table = whole
        /\ job.kind = jobs[j].kind /\ job.site = jobs[j].site
    BY <1>1, <1>2 DEF JobRecords
  <1>4. jobs' = [jobs EXCEPT ![j] = job]
    BY <1>1 DEF ReadTable, JobRecords, AllStopped
  <1> HIDE DEF job
  <1>5. /\ jobs' \in [Jobs -> JobRecords] /\ jobs'[j] = job
        /\ \A i \in Jobs : i # j => jobs'[i] = jobs[i]
    BY <1>1, <1>3, <1>4
  <1>6. astray' \in BOOLEAN
    BY <1>1 DEF ReadTable
  <1>7. GuiTypeOK'
    BY <1>5, <1>6 DEF ListInv, GuiTypeOK, JobRecords, ReadTable
  <1>8. JobsOK'
    BY <1>1, <1>3, <1>5 DEF ListInv, JobsOK, JobOK
  <1>9. ASSUME ~astray' PROVE PushesAreTrue' /\ TablesAreTrue' /\ ListLags'
    <2>1. ~astray /\ (jobs[j].kind = "load" => At(Starter, {"init"}, "run"))
      BY <1>9, Zenon DEF ReadTable
    <2>2. PushesAreTrue /\ TablesAreTrue /\ ListLags /\ rows' = rows /\ list' = list
      BY <2>1 DEF ListInv, ReadTable
    <2>3. PushesAreTrue'
      BY <1>3, <1>5, <2>2 DEF PushesAreTrue, Copy
    <2>4. OwesInit' <=> OwesInit
      BY <1>1, <1>3, <1>5 DEF OwesInit, At, ReadTable
    <2>5. jobs[j].kind = "load" => OwesInit
      BY <2>1, GuiAssumption DEF OwesInit, Jobs, Starter
    <2>6. TablesAreTrue'
      <3> SUFFICES ASSUME NEW i \in Jobs, jobs'[i].pc = "set"
                   PROVE  IF jobs'[i].kind = "load"
                          THEN jobs'[i].table = AllStopped(rows') /\ (OwesInit' \/ jobs'[i].table = rows')
                          ELSE jobs'[i].table = rows'
        BY DEF TablesAreTrue, AllStopped
      <3>1. CASE i = j
        BY <1>3, <1>5, <2>2, <2>4, <2>5, <3>1
      <3>2. CASE i # j
        BY <1>5, <2>2, <2>4, <3>2 DEF TablesAreTrue
      <3> QED
        BY <3>1, <3>2
    <2>7. Refilling => Refilling'
      BY <1>1, <1>3, <1>5, <2>4 DEF Refilling
    <2>8. \A i \in Jobs : jobs[i].pc = "push" => jobs'[i] = jobs[i]
      BY <1>1, <1>5
    <2>9. ListLags'
      BY <2>2, <2>7, <2>8 DEF ListLags
    <2> QED
      BY <2>3, <2>6, <2>9
  <1> QED
    BY <1>7, <1>8, <1>9 DEF ListInv

LEMMA SetSitesStep ==
  ASSUME ListInv, NEW j \in Jobs, SetSites(j)
  PROVE  ListInv'
  <1>1. /\ jobs \in [Jobs -> JobRecords] /\ rows \in [GuiNames -> Rows]
        /\ jobs[j].table \in [GuiNames -> Rows] /\ jobs[j].pc = "set"
        /\ cloning \in [site : GuiNames \cup {None}, busy : BOOLEAN]
    BY DEF ListInv, GuiTypeOK, JobRecords, SetSites
  <1>2. PICK job \in JobRecords : jobs' = [jobs EXCEPT ![j] = job] /\ job.pc \in {"flag", "gone"}
    BY EndedJob DEF SetSites
  <1>3. /\ jobs' \in [Jobs -> JobRecords] /\ jobs'[j] = job
        /\ \A i \in Jobs : i # j => jobs'[i] = jobs[i]
    BY <1>1, <1>2
  <1>4. cloning' \in [site : GuiNames \cup {None}, busy : BOOLEAN]
    BY <1>1 DEF SetSites
  <1>5. GuiTypeOK'
    BY <1>1, <1>3, <1>4 DEF ListInv, GuiTypeOK, JobRecords, SetSites
  <1>6. JobsOK'
    BY <1>2, <1>3 DEF ListInv, JobsOK, JobOK
  <1>7. ASSUME ~astray' PROVE PushesAreTrue' /\ TablesAreTrue' /\ ListLags'
    <2>1. /\ PushesAreTrue /\ TablesAreTrue /\ rows' = rows
          /\ list' = jobs[j].table /\ failed' = failed
      BY <1>7 DEF ListInv, SetSites
    <2>2. OwesInit' <=> OwesInit
      BY <1>1, <1>2, <1>3, <2>1 DEF OwesInit, At
    <2>3. PushesAreTrue'
      BY <1>2, <1>3, <2>1 DEF PushesAreTrue, Copy
    <2>4. TablesAreTrue'
      BY <1>2, <1>3, <2>1, <2>2 DEF TablesAreTrue, AllStopped
    <2>5. OwesInit \/ list' = rows'
      BY <1>1, <2>1 DEF TablesAreTrue
    <2>6. ListLags'
      BY <2>2, <2>5 DEF ListLags, Refilling
    <2> QED
      BY <2>3, <2>4, <2>6
  <1> QED
    BY <1>5, <1>6, <1>7 DEF ListInv

LEMMA ClearInitErrorStep ==
  ASSUME ListInv, NEW j \in Jobs, ClearInitError(j)
  PROVE  ListInv'
  <1>1. /\ jobs \in [Jobs -> JobRecords] /\ jobs[j].pc = "retry" /\ jobs[j].kind = "init"
    BY DEF ListInv, GuiTypeOK, JobRecords, ClearInitError, At
  <1>2. PICK job \in JobRecords :
          jobs' = [jobs EXCEPT ![j] = job] /\ job.pc = "run" /\ job.kind = jobs[j].kind
    BY EndedJob DEF ClearInitError
  <1>3. /\ jobs' \in [Jobs -> JobRecords] /\ jobs'[j] = job
        /\ \A i \in Jobs : i # j => jobs'[i] = jobs[i]
    BY <1>1, <1>2
  <1>4. GuiTypeOK' /\ JobsOK'
    <2>1. GuiTypeOK'
      BY <1>3 DEF ListInv, GuiTypeOK, JobRecords, ClearInitError
    <2>2. JobsOK'
      BY <1>2, <1>3 DEF ListInv, JobsOK, JobOK
    <2> QED
      BY <2>1, <2>2
  <1>5. OwesInit' /\ Refilling'
    BY <1>1, <1>2, <1>3 DEF OwesInit, Refilling, At
  <1>6. ASSUME ~astray' PROVE PushesAreTrue' /\ TablesAreTrue' /\ ListLags'
    <2>1. PushesAreTrue /\ TablesAreTrue /\ rows' = rows
      BY <1>6 DEF ListInv, ClearInitError
    <2>2. PushesAreTrue'
      BY <1>2, <1>3, <2>1 DEF PushesAreTrue, Copy
    <2>3. TablesAreTrue'
      BY <1>2, <1>3, <1>5, <2>1 DEF TablesAreTrue, AllStopped
    <2> QED
      BY <1>5, <2>2, <2>3 DEF ListLags
  <1> QED
    BY <1>4, <1>6 DEF ListInv

LEMMA ListInvStep == ListInv /\ [GuiNext]_screenVars => ListInv'
  <1> SUFFICES ASSUME ListInv, [GuiNext]_screenVars PROVE ListInv'
    OBVIOUS
  <1>1. /\ jobs \in [Jobs -> JobRecords] /\ list \in [GuiNames -> Rows] /\ rows \in [GuiNames -> Rows]
        /\ failed \in BOOLEAN /\ astray \in BOOLEAN
        /\ dialog \in [site : GuiNames \cup {None}, purge : BOOLEAN, box : BOOLEAN]
        /\ cloning \in [site : GuiNames \cup {None}, busy : BOOLEAN]
        /\ flags \in [toggling : SUBSET GuiNames, lan : SUBSET GuiNames]
    BY DEF ListInv, GuiTypeOK, JobRecords
  (* Jobs that neither bring nor take a row or a table. *)
  <1>2. ASSUME /\ jobs' \in [Jobs -> JobRecords] /\ JobsOK'
               /\ ~astray' => PushesAreTrue' /\ TablesAreTrue' /\ ListLags',
               UNCHANGED <<rows, list, failed, astray>>,
               dialog' \in [site : GuiNames \cup {None}, purge : BOOLEAN, box : BOOLEAN],
               cloning' \in [site : GuiNames \cup {None}, busy : BOOLEAN],
               flags' \in [toggling : SUBSET GuiNames, lan : SUBSET GuiNames]
        PROVE  ListInv'
    BY <1>1, <1>2 DEF ListInv, GuiTypeOK, JobRecords
  <1>3. ASSUME UNCHANGED <<rows, list, jobs, failed, astray>>
        PROVE  /\ jobs' \in [Jobs -> JobRecords] /\ JobsOK'
               /\ ~astray' => PushesAreTrue' /\ TablesAreTrue' /\ ListLags'
    BY <1>1, <1>3 DEF ListInv, JobsOK, JobOK, PushesAreTrue, Copy, TablesAreTrue, AllStopped, ListLags, Refilling,
                      OwesInit, At
  <1>4. ASSUME NEW s \in GuiNames, ClickStartOrStop(s) PROVE ListInv'
    <2> DEFINE job == Job(IF list[s] = "running" THEN "stop" ELSE "start", s, "get")
    <2>1. job \in JobRecords /\ job.pc = "get" /\ JobOK(job)
      BY NewJobTyped DEF JobOK, RowJobs
    <2>2. Go(job)
      BY <1>4 DEF ClickStartOrStop
    <2> HIDE DEF job
    <2>3. flags' \in [toggling : SUBSET GuiNames, lan : SUBSET GuiNames]
      BY <1>1, <1>4 DEF ClickStartOrStop
    <2> QED
      BY <1>1, <1>2, <1>4, <2>1, <2>2, <2>3, ClickStep DEF ClickStartOrStop
  <1>5. ASSUME NEW s \in GuiNames, ClickLan(s) \/ ClickEdit(s) PROVE ListInv'
    <2>1. flags' \in [toggling : SUBSET GuiNames, lan : SUBSET GuiNames]
      BY <1>1, <1>5 DEF ClickLan, ClickEdit
    <2>2. PICK kind \in {"lan", "refresh", "edit", "dir"} : Go(Job(kind, s, "get"))
      BY <1>5 DEF ClickLan, ClickEdit
    <2> DEFINE job == Job(kind, s, "get")
    <2>3. job \in JobRecords /\ job.pc = "get" /\ JobOK(job)
      <3>1. kind \in RowJobs
        BY DEF RowJobs
      <3>2. job \in JobRecords /\ job.pc = "get" /\ job.site = s /\ job.kind = kind
        BY <3>1, NewJobTyped
      <3> QED
        BY <3>1, <3>2 DEF JobOK
    <2>4. Go(job)
      BY <2>2
    <2> HIDE DEF job
    <2> QED
      BY <1>1, <1>2, <1>5, <2>1, <2>3, <2>4, ClickStep DEF ClickLan, ClickEdit
  <1>6. ASSUME NEW s \in GuiNames, OpenClone(s) PROVE ListInv'
    BY <1>1, <1>2, <1>3, <1>6 DEF OpenClone
  <1>7. ASSUME NEW s \in GuiNames, ShowDeleteConfirm(s) PROVE ListInv'
    <2>1. dialog' \in [site : GuiNames \cup {None}, purge : BOOLEAN, box : BOOLEAN]
      BY <1>1, <1>7 DEF ShowDeleteConfirm
    <2> QED
      BY <1>1, <1>2, <1>3, <1>7, <2>1 DEF ShowDeleteConfirm
  <1>8. CASE CancelClone
    BY <1>1, <1>2, <1>3, <1>8 DEF CancelClone
  <1>9. CASE ConfirmClone
    <2>1. cloning' \in [site : GuiNames \cup {None}, busy : BOOLEAN]
      BY <1>1, <1>9 DEF ConfirmClone
    <2>2. cloning.site \in GuiNames
      BY <1>1, <1>9 DEF ConfirmClone
    <2> DEFINE job == Job("clone", cloning.site, "write")
    <2>3. job \in JobRecords /\ job.pc = "write" /\ JobOK(job)
      BY <2>2, NewJobTyped DEF JobOK, RowJobs
    <2>4. Go(job)
      BY <1>9 DEF ConfirmClone
    <2> HIDE DEF job
    <2> QED
      BY <1>1, <1>2, <1>9, <2>1, <2>2, <2>3, <2>4, ClickStep DEF ConfirmClone
  <1>10. CASE CreateSite
    <2> DEFINE job == Job("create", None, "write")
    <2>1. job \in JobRecords /\ job.pc = "write" /\ JobOK(job)
      BY NewJobTyped DEF JobOK, RowJobs
    <2>2. Go(job)
      BY <1>10 DEF CreateSite
    <2> HIDE DEF job
    <2> QED
      BY <1>1, <1>2, <1>10, <2>1, <2>2, ClickStep DEF CreateSite
  <1>11. CASE TickPurge
    <2>1. dialog' \in [site : GuiNames \cup {None}, purge : BOOLEAN, box : BOOLEAN]
      BY <1>1, <1>11 DEF TickPurge
    <2> QED
      BY <1>1, <1>2, <1>3, <1>11, <2>1 DEF TickPurge
  <1>12. CASE CancelDelete
    BY <1>1, <1>2, <1>3, <1>12 DEF CancelDelete, Closed
  <1>13. CASE ConfirmDelete
    <2> DEFINE job == Job(IF dialog.purge THEN "purge" ELSE "delete", dialog.site, "write")
    <2>1. dialog.site \in GuiNames
      BY <1>1, <1>13 DEF ConfirmDelete
    <2>2. job \in JobRecords /\ job.pc = "write" /\ JobOK(job)
      BY <2>1, NewJobTyped DEF JobOK, RowJobs
    <2>3. Go(job)
      BY <1>13 DEF ConfirmDelete
    <2> HIDE DEF job
    <2> QED
      BY <1>1, <1>2, <1>13, <2>1, <2>2, <2>3, ClickStep DEF ConfirmDelete, Closed
  <1>14. CASE ClickRetry
    <2> DEFINE job == Job("init", None, "retry")
    <2>1. job \in JobRecords /\ job.pc = "retry" /\ JobOK(job)
      BY NewJobTyped DEF JobOK
    <2>2. Go(job)
      BY <1>14 DEF ClickRetry
    <2> HIDE DEF job
    <2> QED
      BY <1>1, <1>2, <1>14, <2>1, <2>2, ClickStep DEF ClickRetry
  <1>15. ASSUME NEW j \in Jobs, LowerFlag(j) PROVE ListInv'
    <2>1. jobs[j].pc = "flag" /\ To(j, "gone")
      BY <1>15 DEF LowerFlag, At
    <2>2. PICK job \in JobRecords : jobs' = [jobs EXCEPT ![j] = job] /\ job.pc = "gone" /\ JobOK(job)
      BY <2>1, EndedJob DEF JobOK
    <2>3. flags' \in [toggling : SUBSET GuiNames, lan : SUBSET GuiNames]
      BY <1>1, <1>15 DEF LowerFlag
    <2> QED
      BY <1>1, <1>2, <1>15, <2>1, <2>2, <2>3, IdleJobStep DEF LowerFlag
  <1>16. ASSUME NEW j \in Jobs, LowerClone(j) PROVE ListInv'
    <2>1. jobs[j].pc = "flag" /\ To(j, "gone")
      BY <1>16 DEF LowerClone, At
    <2>2. PICK job \in JobRecords : jobs' = [jobs EXCEPT ![j] = job] /\ job.pc = "gone" /\ JobOK(job)
      BY <2>1, EndedJob DEF JobOK
    <2>3. cloning' \in [site : GuiNames \cup {None}, busy : BOOLEAN]
      BY <1>1, <1>16 DEF LowerClone
    <2> QED
      BY <1>1, <1>2, <1>16, <2>1, <2>2, <2>3, IdleJobStep DEF LowerClone
  <1>17. ASSUME NEW j \in Jobs, GetRow(j) PROVE ListInv'
    BY <1>1, <1>2, <1>17, GetRowStep DEF GetRow
  <1>18. CASE UNCHANGED screenVars
    BY <1>1, <1>2, <1>3, <1>18 DEF screenVars
  <1> QED
    BY <1>4, <1>5, <1>6, <1>7, <1>8, <1>9, <1>10, <1>11, <1>12, <1>13, <1>14, <1>15, <1>16, <1>17,
       <1>18, SaveRowStep, LoseRowStep, PushStep, AddRowStep, DropRowStep, ReadTableStep, SetSitesStep,
       ClearInitErrorStep, InitialiseStep
    DEF GuiNext

(* The list is typed as the table is: every job it runs is one of its      *)
(* kinds, and what it shows is a state a site can be in.                   *)
THEOREM ListTypeCorrect == GuiSpec => []GuiTypeOK
  <1>1. ListInv => GuiTypeOK
    BY DEF ListInv
  <1> QED
    BY <1>1, ListInvInit, ListInvStep, PTL DEF GuiSpec

(* Once every goroutine has ended the list shows the table, but for the    *)
(* ways a list is left behind that CalmListIsTheTable names: the copy a    *)
(* job hands over was saved, or is the row, under the site's mutex         *)
(* (sites.go:652, 967, 1126, 1306, 1681), and the callbacks that add or    *)
(* remove a row read the table after the write.                            *)
THEOREM CalmListIsRight == GuiSpec => []CalmListIsTheTable
  <1>1. ListInv => CalmListIsTheTable
    <2> SUFFICES ASSUME ListInv, \A j \in Jobs : jobs[j].pc = "gone", ~failed, ~astray
                 PROVE  list = rows
      BY DEF CalmListIsTheTable
    <2>1. ListLags /\ list \in [GuiNames -> Rows] /\ rows \in [GuiNames -> Rows]
      BY DEF ListInv, GuiTypeOK
    <2>2. \A s \in GuiNames : list[s] = rows[s]
      BY <2>1 DEF ListLags, Refilling, OwesInit, At
    <2> QED
      BY <2>1, <2>2
  <1> QED
    BY <1>1, ListInvInit, ListInvStep, PTL DEF GuiSpec

-----------------------------------------------------------------------------
(* The activity caches.                                                    *)
FeedRow == [id : Nat, time : Nat]

(* Rows of a table: finitely many, no two of one id.                       *)
RowSet(T) == IsFiniteSet(T) /\ T \subseteq FeedRow /\ \A p, q \in T : p.id = q.id => p = q
NewerThan(q, T) == {x \in T : Newer(x, q)}
(* Every place of the order is taken.                                      *)
Placed(T) == \A i \in 1..Cardinality(T) : \E q \in T : Place(q, T) = i
TopRows(n, T) == NewestFirst(NewestRows(n, T))
Smaller(a, b) == IF a <= b THEN a ELSE b

LEMMA NewerIsAnOrder ==
  /\ \A x \in FeedRow : ~Newer(x, x)
  /\ \A x, y, z \in FeedRow : Newer(x, y) /\ Newer(y, z) => Newer(x, z)
  /\ \A x, y \in FeedRow : x.id # y.id => Newer(x, y) \/ Newer(y, x)
  BY DEF Newer, FeedRow

LEMMA CountIsPlace ==
  ASSUME NEW T, RowSet(T), NEW q
  PROVE  /\ IsFiniteSet(NewerThan(q, T)) /\ Cardinality(NewerThan(q, T)) \in Nat
         /\ Place(q, T) = Cardinality(NewerThan(q, T)) + 1
         /\ Place(q, T) \in Nat \ {0}
<1>1. IsFiniteSet(NewerThan(q, T))
  BY FS_Subset DEF RowSet, NewerThan
<1>2. Cardinality(NewerThan(q, T)) \in Nat
  BY <1>1, FS_CardinalityType
<1>3. Place(q, T) = 1 + Cardinality(NewerThan(q, T))
  BY DEF Place, NewerThan
<1> QED
  BY <1>1, <1>2, <1>3

LEMMA PlacesAreInRange ==
  ASSUME NEW T, RowSet(T), NEW q \in T
  PROVE  Place(q, T) \in 1..Cardinality(T)
<1>1. NewerThan(q, T) \subseteq T \ {q}
  BY NewerIsAnOrder DEF NewerThan, RowSet
<1>2. IsFiniteSet(T \ {q}) /\ Cardinality(T \ {q}) = Cardinality(T) - 1
  BY FS_RemoveElement DEF RowSet
<1>3. Cardinality(NewerThan(q, T)) <= Cardinality(T \ {q})
  BY <1>1, <1>2, FS_Subset
<1>4. Cardinality(T) \in Nat
  BY FS_CardinalityType DEF RowSet
<1> QED
  BY <1>2, <1>3, <1>4, CountIsPlace

LEMMA NewerComesBefore ==
  ASSUME NEW T, RowSet(T), NEW p \in T, NEW q \in T, Newer(p, q)
  PROVE  Place(p, T) < Place(q, T)
<1>1. NewerThan(p, T) \cup {p} \subseteq NewerThan(q, T) /\ p \notin NewerThan(p, T)
  BY NewerIsAnOrder DEF NewerThan, RowSet
<1>2. Cardinality(NewerThan(p, T) \cup {p}) = Cardinality(NewerThan(p, T)) + 1
  BY <1>1, CountIsPlace, FS_AddElement
<1>3. Cardinality(NewerThan(p, T) \cup {p}) <= Cardinality(NewerThan(q, T))
  BY <1>1, CountIsPlace, FS_Subset
<1> QED
  BY <1>2, <1>3, CountIsPlace

LEMMA OnePlaceOneRow ==
  ASSUME NEW T, RowSet(T), NEW p \in T, NEW q \in T, Place(p, T) = Place(q, T)
  PROVE  p = q
<1> SUFFICES ASSUME p # q PROVE FALSE
  OBVIOUS
<1>1. Newer(p, q) \/ Newer(q, p)
  BY NewerIsAnOrder DEF RowSet
<1>2. Place(p, T) \in Nat /\ Place(q, T) \in Nat
  BY CountIsPlace
<1> QED
  BY <1>1, <1>2, NewerComesBefore

(* The newest rows of a table: the rows of the first places, each at the   *)
(* place it had.                                                           *)
LEMMA NewestAreFirst ==
  ASSUME NEW T, RowSet(T), NEW n \in Nat
  PROVE  NewestRows(n, T) = {q \in T : Place(q, T) <= n}
<1>1. \A q : Cardinality({x \in T : Newer(x, q)}) \in Nat /\ Place(q, T) = 1 + Cardinality({x \in T : Newer(x, q)})
  BY CountIsPlace DEF Place, NewerThan
<1>2. \A q : Cardinality({x \in T : Newer(x, q)}) < n <=> Place(q, T) <= n
  BY <1>1
<1> QED
  BY <1>2, Zenon DEF NewestRows

LEMMA NewestAreRows ==
  ASSUME NEW T, RowSet(T), NEW n \in Nat
  PROVE  RowSet(NewestRows(n, T)) /\ NewestRows(n, T) \subseteq T
<1>1. NewestRows(n, T) \in SUBSET T
  BY DEF NewestRows
<1> QED
  BY <1>1, FS_Subset DEF RowSet

LEMMA NewestKeepPlaces ==
  ASSUME NEW T, RowSet(T), NEW n \in Nat, NEW q \in NewestRows(n, T)
  PROVE  Place(q, NewestRows(n, T)) = Place(q, T)
<1> DEFINE A == NewestRows(n, T)
<1>1. A = {x \in T : Place(x, T) <= n}
  BY NewestAreFirst
<1>2. q \in T /\ Place(q, T) <= n
  BY <1>1
<1>3. NewerThan(q, A) = NewerThan(q, T)
  <2>1. NewerThan(q, A) \subseteq NewerThan(q, T)
    BY <1>1 DEF NewerThan
  <2>2. ASSUME NEW x \in NewerThan(q, T) PROVE x \in A
    <3>1. x \in T /\ Newer(x, q)
      BY DEF NewerThan
    <3>2. Place(x, T) < Place(q, T) /\ Place(x, T) \in Nat /\ Place(q, T) \in Nat
      BY <1>2, <3>1, NewerComesBefore, CountIsPlace
    <3> QED
      BY <1>1, <1>2, <3>1, <3>2
  <2> QED
    BY <2>1, <2>2 DEF NewerThan
<1>4. RowSet(A)
  BY NewestAreRows
<1> HIDE DEF A
<1>5. Place(q, A) = Place(q, T)
  BY <1>3, <1>4, CountIsPlace
<1> QED
  BY <1>5 DEF A

LEMMA CountOfNewest ==
  ASSUME NEW T, RowSet(T), Placed(T), NEW n \in Nat
  PROVE  Cardinality(NewestRows(n, T)) = Smaller(n, Cardinality(T))
<1> DEFINE A == NewestRows(n, T)
           m == Smaller(n, Cardinality(T))
           f == [q \in A |-> Place(q, T)]
<1>1. A = {q \in T : Place(q, T) <= n} /\ RowSet(A)
  BY NewestAreFirst, NewestAreRows
<1>2. Cardinality(T) \in Nat
  BY FS_CardinalityType DEF RowSet
<1>3. m \in Nat
  BY <1>2 DEF Smaller
<1>4. \A q \in A : Place(q, T) \in 1..m
  BY <1>1, <1>2, PlacesAreInRange DEF Smaller
<1>5. \A i \in 1..m : \E q \in A : Place(q, T) = i
  BY <1>1, <1>2 DEF Placed, Smaller
<1>6. \A p, q \in A : Place(p, T) = Place(q, T) => p = q
  BY <1>1, OnePlaceOneRow
<1> HIDE DEF A, m
<1>7. f \in Bijection(A, 1..m)
  <2>1. f \in [A -> 1..m] /\ \A q \in A : f[q] = Place(q, T)
    BY <1>4
  <2> HIDE DEF f
  <2>2. f \in Injection(A, 1..m)
    BY <1>6, <2>1 DEF Injection, IsInjective
  <2>3. f \in Surjection(A, 1..m)
    BY <1>5, <2>1 DEF Surjection
  <2> QED
    BY <2>2, <2>3 DEF Bijection
<1>8. Cardinality(1..m) = Cardinality(A)
  BY <1>1, <1>7, FS_Bijection DEF ExistsBijection, RowSet
<1>9. Cardinality(1..m) = m
  BY <1>3, FS_Interval
<1> QED
  BY <1>8, <1>9 DEF A, m

LEMMA NewestArePlaced ==
  ASSUME NEW T, RowSet(T), Placed(T), NEW n \in Nat
  PROVE  Placed(NewestRows(n, T))
<1> DEFINE A == NewestRows(n, T)
<1>1. A = {q \in T : Place(q, T) <= n} /\ Cardinality(A) = Smaller(n, Cardinality(T))
  BY NewestAreFirst, CountOfNewest
<1>2. Cardinality(T) \in Nat
  BY FS_CardinalityType DEF RowSet
<1>3. \A q \in A : Place(q, A) = Place(q, T)
  BY NewestKeepPlaces
<1> HIDE DEF A
<1>4. ASSUME NEW i \in 1..Cardinality(A) PROVE \E q \in A : Place(q, A) = i
  <2>1. i \in 1..Cardinality(T) /\ i <= n
    BY <1>1, <1>2 DEF Smaller
  <2>2. PICK q \in T : Place(q, T) = i
    BY <2>1 DEF Placed
  <2> QED
    BY <1>1, <1>3, <2>1, <2>2
<1>5. Placed(A)
  BY <1>4 DEF Placed
<1> QED
  BY <1>5 DEF A

(* NewestFirst is the list of the rows in their places, and the only one.  *)
LEMMA ListOfRows ==
  ASSUME NEW A, RowSet(A), Placed(A)
  PROVE  /\ NewestFirst(A) \in Seq(A) /\ Len(NewestFirst(A)) = Cardinality(A)
         /\ Cardinality(A) \in Nat
         /\ \A i \in 1..Cardinality(A) : NewestFirst(A)[i] \in A /\ Place(NewestFirst(A)[i], A) = i
<1>1. Cardinality(A) \in Nat
  BY FS_CardinalityType DEF RowSet
<1>2. ASSUME NEW i \in 1..Cardinality(A)
      PROVE  NewestFirst(A)[i] \in A /\ Place(NewestFirst(A)[i], A) = i
  <2>1. NewestFirst(A)[i] = CHOOSE q \in A : Place(q, A) = i
    BY <1>2 DEF NewestFirst
  <2>2. \E q \in A : Place(q, A) = i
    BY <1>2 DEF Placed
  <2> QED
    BY <2>1, <2>2, Zenon
<1>3. NewestFirst(A) \in [1..Cardinality(A) -> A]
  BY <1>2 DEF NewestFirst
<1>4. NewestFirst(A) \in Seq(A) /\ Len(NewestFirst(A)) = Cardinality(A)
  BY <1>1, <1>3
<1> QED
  BY <1>1, <1>2, <1>4

LEMMA OneListOfRows ==
  ASSUME NEW A, RowSet(A), Placed(A), NEW S, NEW q \in Seq(S), Len(q) = Cardinality(A),
         \A i \in 1..Len(q) : q[i] \in A /\ Place(q[i], A) = i
  PROVE  q = NewestFirst(A)
<1>1. \A i \in 1..Len(q) : q[i] = NewestFirst(A)[i]
  BY ListOfRows, OnePlaceOneRow
<1>2. NewestFirst(A) \in Seq(A) /\ Len(NewestFirst(A)) = Len(q)
  BY ListOfRows
<1> QED
  BY <1>1, <1>2

-----------------------------------------------------------------------------
(* A row newer than the table's goes before them.                          *)
LEMMA NewestFits ==
  ASSUME NEW T, RowSet(T), Placed(T), NEW r \in FeedRow,
         \A q \in T : Newer(r, q) /\ q.id # r.id
  PROVE  /\ RowSet(T \cup {r}) /\ Placed(T \cup {r})
         /\ Cardinality(T \cup {r}) = Cardinality(T) + 1
         /\ Place(r, T \cup {r}) = 1
         /\ \A q \in T : Place(q, T \cup {r}) = Place(q, T) + 1
<1> DEFINE U == T \cup {r}
<1>1. r \notin T
  OBVIOUS
<1>2. RowSet(U) /\ Cardinality(U) = Cardinality(T) + 1
  BY <1>1, FS_AddElement DEF RowSet
<1>3. Place(r, U) = 1
  <2>1. \A q \in T : ~Newer(q, r)
    BY NewerIsAnOrder DEF RowSet
  <2>2. NewerThan(r, U) = {}
    BY <2>1, NewerIsAnOrder DEF NewerThan
  <2>3. Cardinality(NewerThan(r, U)) = 0
    BY <2>2, FS_EmptySet
  <2> HIDE DEF U
  <2> QED
    BY <1>2, <2>3, CountIsPlace
<1>4. ASSUME NEW q \in T PROVE Place(q, U) = Place(q, T) + 1
  <2>1. NewerThan(q, U) = NewerThan(q, T) \cup {r} /\ r \notin NewerThan(q, T)
    BY <1>1 DEF NewerThan
  <2>2. Cardinality(NewerThan(q, U)) = Cardinality(NewerThan(q, T)) + 1
    <3>1. IsFiniteSet(NewerThan(q, T)) /\ Cardinality(NewerThan(q, T)) \in Nat
      BY CountIsPlace
    <3> QED
      BY <2>1, <3>1, FS_AddElement
  <2> HIDE DEF U
  <2> QED
    BY <1>2, <2>2, CountIsPlace
<1>5. Placed(U)
  <2>1. Cardinality(T) \in Nat
    BY FS_CardinalityType DEF RowSet
  <2>2. ASSUME NEW i \in 1..Cardinality(U), i # 1
        PROVE  \E q \in U : Place(q, U) = i
    <3>1. i - 1 \in 1..Cardinality(T)
      BY <1>2, <2>1, <2>2
    <3>2. PICK q \in T : Place(q, T) = i - 1
      BY <3>1 DEF Placed
    <3>3. Place(q, U) = i
      BY <1>4, <3>2
    <3> QED
      BY <3>3
  <2> QED
    BY <1>3, <2>2 DEF Placed
<1> QED
  BY <1>2, <1>3, <1>4, <1>5

(* The head of a trimmed table is the head of the table.                   *)
LEMMA TrimKeepsTheHead ==
  ASSUME NEW T, RowSet(T), Placed(T), NEW k \in Nat, NEW n \in Nat, n <= k
  PROVE  NewestRows(n, NewestRows(k, T)) = NewestRows(n, T)
<1> DEFINE A == NewestRows(k, T)
<1>1. A = {q \in T : Place(q, T) <= k} /\ RowSet(A)
  BY NewestAreFirst, NewestAreRows
<1>2. \A q \in A : Place(q, A) = Place(q, T)
  BY NewestKeepPlaces
<1>3. \A q \in T : Place(q, T) \in Nat
  BY CountIsPlace
<1> HIDE DEF A
<1>4. NewestRows(n, A) = {q \in A : Place(q, A) <= n}
  BY <1>1, NewestAreFirst
<1>5. NewestRows(n, T) = {q \in T : Place(q, T) <= n}
  BY NewestAreFirst
<1>6. {q \in A : Place(q, A) <= n} = {q \in T : Place(q, T) <= n}
  BY <1>1, <1>2, <1>3
<1> QED
  BY <1>4, <1>5, <1>6 DEF A

(* What the callback does to a cache is what a load would have read.       *)
LEMMA PrependIsTheHead ==
  ASSUME NEW T, RowSet(T), Placed(T), NEW r \in FeedRow,
         \A q \in T : Newer(r, q) /\ q.id # r.id,
         NEW n \in Nat \ {0}
  PROVE  Prepended(TopRows(n, T), r, n) = TopRows(n, T \cup {r})
<1> DEFINE U == T \cup {r}
           A == NewestRows(n, T)
           B == NewestRows(n, U)
           a == NewestFirst(A)
           S == Prepended(a, r, n)
<1>1. /\ RowSet(U) /\ Placed(U) /\ Cardinality(U) = Cardinality(T) + 1
      /\ Place(r, U) = 1 /\ \A q \in T : Place(q, U) = Place(q, T) + 1
  BY NewestFits
<1>2. /\ RowSet(A) /\ Placed(A) /\ Cardinality(A) = Smaller(n, Cardinality(T)) /\ A \subseteq T
      /\ \A q \in A : Place(q, A) = Place(q, T)
  BY NewestAreRows, NewestArePlaced, CountOfNewest, NewestKeepPlaces
<1>3. /\ RowSet(B) /\ Placed(B) /\ Cardinality(B) = Smaller(n, Cardinality(U))
      /\ B = {q \in U : Place(q, U) <= n}
      /\ \A q \in B : Place(q, B) = Place(q, U)
  <2> HIDE DEF U
  <2> QED
    BY <1>1, NewestAreRows, NewestArePlaced, CountOfNewest, NewestKeepPlaces, NewestAreFirst
<1>4. Cardinality(T) \in Nat /\ r \in U /\ T \subseteq U
  BY FS_CardinalityType DEF RowSet
<1> HIDE DEF U, A, B
<1>5. /\ a \in Seq(A) /\ Len(a) = Cardinality(A)
      /\ \A i \in 1..Cardinality(A) : a[i] \in A /\ Place(a[i], A) = i
  BY <1>2, ListOfRows
<1> DEFINE m == IF Len(a) >= n THEN n - 1 ELSE Len(a)
<1>6. m \in Nat /\ m <= Len(a) /\ m + 1 = Cardinality(B)
  BY <1>1, <1>2, <1>3, <1>4, <1>5 DEF Smaller
<1>7. S = <<r>> \o SubSeq(a, 1, m)
  BY DEF Prepended
<1> HIDE DEF a, m, S
<1>8. /\ SubSeq(a, 1, m) \in Seq(A) /\ Len(SubSeq(a, 1, m)) = m
      /\ \A i \in 1..m : SubSeq(a, 1, m)[i] = a[i]
  BY <1>5, <1>6
<1>9. <<r>> \in Seq(A \cup {r}) /\ Len(<<r>>) = 1 /\ <<r>>[1] = r
  OBVIOUS
<1>10. SubSeq(a, 1, m) \in Seq(A \cup {r})
  BY <1>8
<1>11. /\ S \in Seq(A \cup {r}) /\ Len(S) = m + 1 /\ S[1] = r
       /\ \A i \in 2..(m + 1) : S[i] = a[i - 1]
  BY <1>6, <1>7, <1>8, <1>9, <1>10
<1>12. ASSUME NEW i \in 1..Len(S) PROVE S[i] \in B /\ Place(S[i], B) = i
  <2>1. CASE i = 1
    BY <1>1, <1>3, <1>4, <1>11, <2>1
  <2>2. CASE i # 1
    <3>1. i \in 2..(m + 1) /\ i - 1 \in 1..Cardinality(A)
      BY <1>5, <1>6, <1>11, <1>12, <2>2
    <3>2. S[i] = a[i - 1] /\ a[i - 1] \in A /\ Place(a[i - 1], A) = i - 1
      BY <1>5, <1>11, <3>1
    <3>3. S[i] \in U /\ Place(S[i], U) = i
      BY <1>1, <1>2, <1>4, <3>1, <3>2
    <3>4. i <= n
      BY <1>3, <1>4, <1>1, <1>6, <3>1 DEF Smaller
    <3> QED
      BY <1>3, <3>3, <3>4
  <2> QED
    BY <2>1, <2>2
<1>13. S = NewestFirst(B)
  BY <1>3, <1>6, <1>11, <1>12, OneListOfRows
<1> QED
  BY <1>13 DEF S, a, A, B, U, TopRows

-----------------------------------------------------------------------------
RunPhases == {"idle", "running", "done", "audited", "inserted", "told"}
Unrecorded == {"running", "done", "audited"}
FeedRun == [plan : {"-", "start", "delete"}, phase : RunPhases, ok : BOOLEAN, time : Nat, row : FeedRow]
LoadTypeOK(l) ==
  /\ DOMAIN l = {"view", "site", "at", "rows"} /\ l.at \in {"unused", "read", "set", "end"}
  /\ l.at # "unused" => l.view \in Views /\ l.site \in FeedSites

FeedTypes ==
  /\ exists \in [FeedSites -> BOOLEAN] /\ stepped \in BOOLEAN /\ clock \in Nat /\ lastId \in Nat
  /\ run \in [FeedSites -> FeedRun] /\ table \in [FeedSites -> SUBSET FeedRow]
  /\ DOMAIN cache = Views /\ \A v \in Views : DOMAIN cache[v] = FeedSites
  /\ filled \in [Views -> [FeedSites -> BOOLEAN]] /\ overlap \in [Views -> [FeedSites -> BOOLEAN]]
  /\ DOMAIN loads = 1..MaxLoads /\ \A i \in 1..MaxLoads : LoadTypeOK(loads[i])
  /\ frame \in FeedSites \cup {"-"}

(* The rows of a site, and the plan that is to record the next one, which  *)
(* will be the newest unless the clock is set back.                        *)
TableOK(T, r, now, last) ==
  /\ RowSet(T) /\ Placed(T)
  /\ \A q \in T : q.id <= last /\ q.time <= now
  /\ r.phase \in Unrecorded => r.time <= now /\ \A q \in T : q.time <= r.time

(* A cache is the head of the table, or the callback makes it that.        *)
CacheOK(v, s) ==
  exists[s] /\ filled[v][s] /\ ~overlap[v][s] =>
    IF run[s].phase = "inserted"
    THEN Prepended(cache[v][s], run[s].row, CacheMax(v)) = TopRows(CacheMax(v), table[s])
    ELSE cache[v][s] = TopRows(CacheMax(v), table[s])

(* A load that no recording overlapped has read the rows of the table.     *)
LoadOK(i, v, s) ==
  i \in LoadsOf(v, s) /\ exists[s] /\ ~overlap[v][s] =>
    /\ run[s].phase # "inserted"
    /\ loads[i].at = "set" => loads[i].rows = TopRows(CacheMax(v), table[s])

TablesOK == \A s \in FeedSites : TableOK(table[s], run[s], clock, lastId)
CachesOK == \A v \in Views, s \in FeedSites : CacheOK(v, s)
LoadsOK == \A i \in 1..MaxLoads, v \in Views, s \in FeedSites : LoadOK(i, v, s)
FeedInv == FeedTypes /\ (~stepped => TablesOK /\ CachesOK /\ LoadsOK)

LEMMA EmptyTableOK ==
  ASSUME NEW r, NEW now, NEW last, r.phase \notin Unrecorded
  PROVE  TableOK({}, r, now, last)
<1>1. RowSet({}) /\ Cardinality({}) = 0
  BY FS_EmptySet DEF RowSet
<1>2. Placed({})
  BY <1>1 DEF Placed
<1> QED
  BY <1>1, <1>2 DEF TableOK

LEMMA FeedInvInit == FeedInit => FeedInv
<1> SUFFICES ASSUME FeedInit PROVE FeedInv
  OBVIOUS
<1>1. FeedTypes
  BY DEF FeedInit, FeedTypes, FeedRun, FeedRow, RunPhases, NoPlan, NoRow, NoLoad, LoadTypeOK
<1>2. TablesOK
  BY EmptyTableOK DEF FeedInit, TablesOK, NoPlan, Unrecorded
<1>3. CachesOK
  BY DEF FeedInit, CachesOK, CacheOK
<1>4. LoadsOK
  BY DEF FeedInit, LoadsOK, LoadOK, LoadsOf, NoLoad
<1> QED
  BY <1>1, <1>2, <1>3, <1>4 DEF FeedInv

LEMMA CacheMaxBound == \A v \in Views : CacheMax(v) \in Nat \ {0} /\ CacheMax(v) <= Retention /\ Retention \in Nat
  BY FeedAssumption DEF CacheMax, Views

(* A plan records its row: the table stays in order, and the callback will *)
(* give a cache that holds the head of the table the head of the new one.  *)
LEMMA RecordKeepsTable ==
  ASSUME NEW T \in SUBSET FeedRow, NEW r \in FeedRun, NEW now \in Nat, NEW last \in Nat,
         TableOK(T, r, now, last), r.phase \in Unrecorded,
         NEW x, x = [id |-> last + 1, time |-> r.time], NEW q, q.phase \notin Unrecorded
  PROVE  /\ TableOK(TableAfter(T, x), q, now, last + 1)
         /\ \A v \in Views : Prepended(TopRows(CacheMax(v), T), x, CacheMax(v))
                               = TopRows(CacheMax(v), TableAfter(T, x))
<1>1. x \in FeedRow /\ x.id = last + 1 /\ x.time = r.time
  BY DEF FeedRow, FeedRun
<1>2. RowSet(T) /\ Placed(T)
  BY DEF TableOK
<1>3. \A y \in T : Newer(x, y) /\ y.id # x.id
  BY <1>1 DEF TableOK, Newer, FeedRow, FeedRun
<1> DEFINE U == T \cup {x}
           A == NewestRows(Retention, U)
<1>4. RowSet(U) /\ Placed(U)
  BY <1>1, <1>2, <1>3, NewestFits
<1>5. RowSet(A) /\ Placed(A) /\ A \subseteq U
  <2> HIDE DEF U
  <2> QED
    BY <1>4, NewestAreRows, NewestArePlaced, CacheMaxBound, FeedAssumption
<1>6. A = TableAfter(T, x)
  BY DEF TableAfter, Trimmed
<1>7. \A y \in U : y.id <= last + 1 /\ y.time <= now
  BY <1>1 DEF TableOK, FeedRow, FeedRun
<1>8. TableOK(A, q, now, last + 1)
  <2> HIDE DEF U, A
  <2> QED
    BY <1>5, <1>7 DEF TableOK
<1>9. ASSUME NEW v \in Views
      PROVE  Prepended(TopRows(CacheMax(v), T), x, CacheMax(v)) = TopRows(CacheMax(v), A)
  <2> DEFINE n == CacheMax(v)
  <2>1. n \in Nat \ {0} /\ n \in Nat /\ n <= Retention /\ Retention \in Nat
    BY CacheMaxBound
  <2> HIDE DEF n
  <2>2. Prepended(TopRows(n, T), x, n) = TopRows(n, U)
    BY <1>1, <1>2, <1>3, <2>1, PrependIsTheHead
  <2>3. NewestRows(n, A) = NewestRows(n, U)
    <3> HIDE DEF U
    <3> QED
      BY <1>4, <2>1, TrimKeepsTheHead
  <2>4. TopRows(n, A) = TopRows(n, U)
    BY <2>3 DEF TopRows
  <2> QED
    BY <2>2, <2>4 DEF n
<1> HIDE DEF A
<1> QED
  BY <1>6, <1>8, <1>9

-----------------------------------------------------------------------------
(* A step that announces and commits nothing of a site.                    *)
NoRecord(s) ==
  /\ exists'[s] => exists[s]
  /\ table'[s] = table[s]
  /\ run'[s].phase = "inserted" <=> run[s].phase = "inserted"
  /\ run'[s].phase = "inserted" => run'[s].row = run[s].row

LEMMA QuietCache ==
  ASSUME NEW v \in Views, NEW s \in FeedSites, CacheOK(v, s), NoRecord(s),
         filled'[v][s] => filled[v][s], cache'[v][s] = cache[v][s], ~overlap'[v][s] => ~overlap[v][s]
  PROVE  CacheOK(v, s)'
  BY DEF CacheOK, NoRecord

LEMMA QuietLoad ==
  ASSUME NEW i, NEW v \in Views, NEW s \in FeedSites, LoadOK(i, v, s), NoRecord(s),
         ~overlap'[v][s] => ~overlap[v][s],
         i \in LoadsOf(v, s)' => /\ i \in LoadsOf(v, s)
                                 /\ loads'[i].at = "set" => loads[i].at = "set" /\ loads'[i].rows = loads[i].rows
  PROVE  LoadOK(i, v, s)'
  BY DEF LoadOK, NoRecord

(* Only the plan of s moves, and it neither begins to record nor ends to.  *)
LEMMA PlanStep ==
  ASSUME FeedTypes, NEW s \in FeedSites, NEW r \in FeedRun, run' = [run EXCEPT ![s] = r]
  PROVE  /\ run' \in [FeedSites -> FeedRun] /\ run'[s] = r
         /\ \A t \in FeedSites \ {s} : run'[t] = run[t]
  BY DEF FeedTypes

LEMMA StillStep ==
  ASSUME FeedInv, FeedTypes', stepped => stepped', \A s \in FeedSites : NoRecord(s),
         UNCHANGED <<cache, filled, overlap, loads>>, ~stepped' /\ TablesOK => TablesOK'
  PROVE  FeedInv'
<1> SUFFICES ASSUME ~stepped' PROVE TablesOK' /\ CachesOK' /\ LoadsOK'
  BY DEF FeedInv
<1>1. TablesOK /\ CachesOK /\ LoadsOK
  BY DEF FeedInv
<1>2. ASSUME NEW v \in Views, NEW s \in FeedSites PROVE CacheOK(v, s)'
  BY <1>1, QuietCache DEF CachesOK
<1>3. ASSUME NEW i \in 1..MaxLoads, NEW v \in Views, NEW s \in FeedSites PROVE LoadOK(i, v, s)'
  <2>1. i \in LoadsOf(v, s)' <=> i \in LoadsOf(v, s)
    BY DEF LoadsOf
  <2> QED
    BY <1>1, <2>1, QuietLoad DEF LoadsOK
<1> QED
  BY <1>1, <1>2, <1>3 DEF CachesOK, LoadsOK

LEMMA BeginRunKeepsFeed ==
  ASSUME FeedInv, NEW s \in FeedSites, BeginRun(s)
  PROVE  FeedInv'
<1>1. PICK p \in {"start", "delete"}, ok \in BOOLEAN :
         run' = [run EXCEPT ![s] = [NoPlan EXCEPT !.plan = p, !.phase = "running", !.ok = ok, !.time = clock]]
  BY DEF BeginRun
<1> DEFINE r == [NoPlan EXCEPT !.plan = p, !.phase = "running", !.ok = ok, !.time = clock]
<1>2. r \in FeedRun /\ r.phase = "running" /\ r.time = clock
  BY DEF FeedInv, FeedTypes, FeedRun, RunPhases, NoPlan, NoRow, FeedRow
<1>3. run' = [run EXCEPT ![s] = r]
  BY <1>1
<1> HIDE DEF r
<1>4. /\ run' \in [FeedSites -> FeedRun] /\ run'[s] = r
      /\ \A t \in FeedSites \ {s} : run'[t] = run[t]
  BY <1>2, <1>3, PlanStep DEF FeedInv
<1>5. FeedTypes'
  BY <1>4 DEF FeedInv, FeedTypes, BeginRun, listVars
<1>6. \A t \in FeedSites : NoRecord(t)
  BY <1>2, <1>4 DEF NoRecord, BeginRun
<1>7. TablesOK => TablesOK'
  <2>1. clock <= clock
    BY DEF FeedInv, FeedTypes
  <2> QED
    BY <1>2, <1>4, <2>1 DEF TablesOK, TableOK, BeginRun
<1> QED
  BY <1>5, <1>6, <1>7, StillStep DEF BeginRun, listVars

LEMMA AdvanceKeepsFeed ==
  ASSUME FeedInv, NEW s \in FeedSites, NEW ph \in RunPhases, Advance(s, ph),
         run[s].phase # "inserted", ph # "inserted",
         run[s].phase \in Unrecorded \/ ph \notin Unrecorded,
         UNCHANGED <<exists, clock, stepped, lastId, table, listVars>>
  PROVE  FeedInv'
<1> DEFINE r == [run[s] EXCEPT !.phase = ph]
<1>1. run[s] \in FeedRun
  BY DEF FeedInv, FeedTypes
<1>2. r \in FeedRun /\ r.phase = ph /\ r.time = run[s].time
  BY <1>1 DEF FeedRun
<1>3. run' = [run EXCEPT ![s] = r]
  BY DEF Advance
<1> HIDE DEF r
<1>4. /\ run' \in [FeedSites -> FeedRun] /\ run'[s] = r
      /\ \A t \in FeedSites \ {s} : run'[t] = run[t]
  BY <1>2, <1>3, PlanStep DEF FeedInv
<1>5. FeedTypes'
  BY <1>4 DEF FeedInv, FeedTypes, listVars
<1>6. \A t \in FeedSites : NoRecord(t)
  BY <1>2, <1>4 DEF NoRecord
<1>7. TablesOK => TablesOK'
  BY <1>2, <1>4 DEF TablesOK, TableOK
<1> QED
  BY <1>5, <1>6, <1>7, StillStep DEF listVars

LEMMA ReturnKeepsFeed ==
  ASSUME FeedInv, NEW s \in FeedSites, Return(s)
  PROVE  FeedInv'
<1>1. NoPlan \in FeedRun /\ NoPlan.phase = "idle"
  BY DEF FeedRun, NoPlan, NoRow, FeedRow, RunPhases
<1>2. /\ run' \in [FeedSites -> FeedRun] /\ run'[s] = NoPlan
      /\ \A t \in FeedSites \ {s} : run'[t] = run[t]
  BY <1>1, PlanStep DEF Return, FeedInv
<1>3. /\ exists' \in [FeedSites -> BOOLEAN] /\ table' \in [FeedSites -> SUBSET FeedRow]
      /\ \A t \in FeedSites \ {s} : exists'[t] = exists[t] /\ table'[t] = table[t]
      /\ \/ exists'[s] = FALSE /\ table'[s] = {}
         \/ exists'[s] = exists[s] /\ table'[s] = table[s]
  BY DEF Return, FeedInv, FeedTypes
<1>4. FeedTypes'
  BY <1>2, <1>3 DEF FeedInv, FeedTypes, Return, listVars
<1> SUFFICES ASSUME ~stepped' PROVE TablesOK' /\ CachesOK' /\ LoadsOK'
  BY <1>4 DEF FeedInv
<1>5. TablesOK /\ CachesOK /\ LoadsOK
  BY DEF FeedInv, Return
<1>6. run[s].phase = "told"
  BY DEF Return
<1>7. TablesOK'
  <2>1. TableOK(table'[s], run'[s], clock', lastId')
    BY <1>1, <1>2, <1>3, <1>5, EmptyTableOK DEF TablesOK, TableOK, Unrecorded, Return
  <2> QED
    BY <1>2, <1>3, <1>5, <2>1 DEF TablesOK, Return
<1>8. ASSUME NEW t \in FeedSites PROVE exists'[t] => NoRecord(t)
  BY <1>1, <1>2, <1>3, <1>6 DEF NoRecord
<1>9. CachesOK'
  BY <1>5, <1>8 DEF CachesOK, CacheOK, NoRecord, Return, listVars
<1>10. LoadsOK'
  BY <1>5, <1>8 DEF LoadsOK, LoadOK, LoadsOf, NoRecord, Return, listVars
<1> QED
  BY <1>7, <1>9, <1>10

LEMMA TickKeepsFeed ==
  ASSUME FeedInv, TickClock
  PROVE  FeedInv'
<1>1. ASSUME NEW s \in FeedSites
      PROVE  /\ run'[s] \in FeedRun /\ run'[s].phase = run[s].phase /\ run'[s].row = run[s].row
             /\ run'[s].time \in {run[s].time, run[s].time + 1}
  <2>1. run[s] \in FeedRun
    BY DEF FeedInv, FeedTypes
  <2>2. run'[s] = [run[s] EXCEPT !.time = @ + 1] \/ run'[s] = run[s]
    BY DEF TickClock
  <2>3. run[s].time + 1 \in Nat
    BY <2>1 DEF FeedRun
  <2> QED
    BY <2>1, <2>2, <2>3 DEF FeedRun
<1>2. DOMAIN run' = FeedSites /\ run' = [s \in FeedSites |-> run'[s]]
  BY DEF TickClock
<1>3. run' \in [FeedSites -> FeedRun] /\ clock' \in Nat /\ clock' = clock + 1
  BY <1>1, <1>2 DEF TickClock, FeedInv, FeedTypes
<1>4. FeedTypes'
  BY <1>3 DEF FeedInv, FeedTypes, TickClock, listVars
<1>5. \A s \in FeedSites : NoRecord(s)
  BY <1>1 DEF NoRecord, TickClock
<1>6. TablesOK => TablesOK'
  <2> SUFFICES ASSUME TablesOK, NEW s \in FeedSites PROVE TableOK(table[s], run'[s], clock + 1, lastId)
    BY <1>3 DEF TablesOK, TickClock
  <2>1. TableOK(table[s], run[s], clock, lastId) /\ run[s] \in FeedRun /\ table[s] \subseteq FeedRow /\ clock \in Nat
    BY DEF TablesOK, FeedInv, FeedTypes
  <2>2. run[s].time \in Nat /\ \A q \in table[s] : q.time \in Nat
    BY <2>1 DEF FeedRun, FeedRow
  <2> QED
    BY <1>1, <2>1, <2>2 DEF TableOK
<1> QED
  BY <1>4, <1>5, <1>6, StillStep DEF TickClock, listVars

LEMMA SetBackKeepsFeed ==
  ASSUME FeedInv, SetClockBack
  PROVE  FeedInv'
  BY DEF FeedInv, FeedTypes, SetClockBack, listVars

-----------------------------------------------------------------------------
LEMMA OverlapsGrow ==
  ASSUME FeedTypes, NEW s \in FeedSites, overlap' = Overlapped(s)
  PROVE  /\ overlap' \in [Views -> [FeedSites -> BOOLEAN]]
         /\ \A v \in Views, t \in FeedSites : overlap[v][t] => overlap'[v][t]
         /\ \A v \in Views : LoadsOf(v, s) # {} => overlap'[v][s]
  BY DEF FeedTypes, Overlapped

LEMMA RecordKeepsFeed ==
  ASSUME FeedInv, NEW s \in FeedSites, AppendActivity(s), lastId' = lastId + 1,
         overlap' = Overlapped(s)
  PROVE  FeedInv'
<1> DEFINE x == [id |-> lastId + 1, time |-> run[s].time]
           r == [run[s] EXCEPT !.phase = "inserted", !.row = x]
<1>1. /\ run[s] \in FeedRun /\ run[s].phase = "audited" /\ table[s] \in SUBSET FeedRow
      /\ lastId \in Nat /\ clock \in Nat
  BY DEF AppendActivity, FeedInv, FeedTypes
<1>2. table' = [table EXCEPT ![s] = TableAfter(@, x)] /\ run' = [run EXCEPT ![s].phase = "inserted", ![s].row = x]
  <2>1. lastId' # lastId
    BY <1>1
  <2> QED
    BY <2>1 DEF AppendActivity
<1>3. x \in FeedRow
  BY <1>1 DEF FeedRun, FeedRow
<1>4. r \in FeedRun /\ r.phase = "inserted" /\ r.row = x
  <2> HIDE DEF x
  <2> QED
    BY <1>1, <1>3 DEF FeedRun, RunPhases
<1>5. run' = [run EXCEPT ![s] = r]
  BY <1>2 DEF FeedInv, FeedTypes
<1>6. TableAfter(table[s], x) \in SUBSET FeedRow
  <2> HIDE DEF x
  <2> QED
    BY <1>1, <1>3 DEF TableAfter, Trimmed, NewestRows
<1>7. /\ table' \in [FeedSites -> SUBSET FeedRow] /\ table'[s] = TableAfter(table[s], x)
      /\ \A t \in FeedSites \ {s} : table'[t] = table[t]
  <2> HIDE DEF x
  <2> QED
    BY <1>2, <1>6 DEF FeedInv, FeedTypes
<1>8. x = [id |-> lastId + 1, time |-> run[s].time]
  OBVIOUS
<1> HIDE DEF x, r
<1>9. /\ run' \in [FeedSites -> FeedRun] /\ run'[s] = r
      /\ \A t \in FeedSites \ {s} : run'[t] = run[t]
  BY <1>4, <1>5, PlanStep DEF FeedInv
<1>10. /\ overlap' \in [Views -> [FeedSites -> BOOLEAN]]
       /\ \A v \in Views, t \in FeedSites : overlap[v][t] => overlap'[v][t]
       /\ \A v \in Views : LoadsOf(v, s) # {} => overlap'[v][s]
  BY OverlapsGrow DEF FeedInv
<1>11. UNCHANGED <<exists, clock, stepped, cache, filled, frame, loads>>
  BY DEF AppendActivity
<1>12. FeedTypes'
  BY <1>1, <1>7, <1>9, <1>10, <1>11 DEF FeedInv, FeedTypes
<1> SUFFICES ASSUME ~stepped' PROVE TablesOK' /\ CachesOK' /\ LoadsOK'
  BY <1>12 DEF FeedInv
<1>13. TablesOK /\ CachesOK /\ LoadsOK
  BY <1>11 DEF FeedInv
<1>14. /\ TableOK(table'[s], r, clock, lastId + 1)
       /\ \A v \in Views : Prepended(TopRows(CacheMax(v), table[s]), x, CacheMax(v))
                             = TopRows(CacheMax(v), table'[s])
  <2>1. TableOK(table[s], run[s], clock, lastId)
    BY <1>13 DEF TablesOK
  <2>2. run[s].phase \in Unrecorded /\ r.phase \notin Unrecorded
    BY <1>1, <1>4 DEF Unrecorded
  <2> QED
    BY <1>1, <1>7, <1>8, <2>1, <2>2, RecordKeepsTable
<1>15. TablesOK'
  <2>1. ASSUME NEW t \in FeedSites \ {s} PROVE TableOK(table[t], run[t], clock, lastId + 1)
    <3>1. TableOK(table[t], run[t], clock, lastId) /\ table[t] \subseteq FeedRow
      BY <1>13 DEF TablesOK, FeedInv, FeedTypes
    <3>2. \A q \in table[t] : q.id <= lastId + 1
      BY <1>1, <3>1 DEF TableOK, FeedRow
    <3> QED
      BY <3>1, <3>2 DEF TableOK
  <2> QED
    BY <1>7, <1>9, <1>11, <1>14, <2>1 DEF TablesOK
<1>16. ASSUME NEW t \in FeedSites \ {s} PROVE NoRecord(t)
  BY <1>7, <1>9, <1>11 DEF NoRecord
<1>17. CachesOK'
  <2>1. ASSUME NEW v \in Views PROVE CacheOK(v, s)'
    <3>1. CacheOK(v, s)
      BY <1>13 DEF CachesOK
    <3> QED
      BY <1>1, <1>4, <1>9, <1>10, <1>11, <1>14, <3>1 DEF CacheOK
  <2>2. ASSUME NEW v \in Views, NEW t \in FeedSites \ {s} PROVE CacheOK(v, t)'
    BY <1>10, <1>11, <1>13, <1>16, QuietCache DEF CachesOK
  <2> QED
    BY <2>1, <2>2 DEF CachesOK
<1>18. LoadsOK'
  <2>1. \A v \in Views, t \in FeedSites : LoadsOf(v, t)' = LoadsOf(v, t)
    BY <1>11 DEF LoadsOf
  <2>2. ASSUME NEW i \in 1..MaxLoads, NEW v \in Views PROVE LoadOK(i, v, s)'
    BY <1>10, <2>1 DEF LoadOK
  <2>3. ASSUME NEW i \in 1..MaxLoads, NEW v \in Views, NEW t \in FeedSites \ {s} PROVE LoadOK(i, v, t)'
    BY <1>10, <1>11, <1>13, <1>16, <2>1, QuietLoad DEF LoadsOK
  <2> QED
    BY <2>2, <2>3 DEF LoadsOK
<1> QED
  BY <1>15, <1>17, <1>18

LEMMA AnnounceKeepsFeed ==
  ASSUME FeedInv, NEW s \in FeedSites, OnActivityAppended(s)
  PROVE  FeedInv'
<1> DEFINE r == [run[s] EXCEPT !.phase = "told"]
<1>1. run[s] \in FeedRun /\ run[s].phase = "inserted"
  BY DEF OnActivityAppended, FeedInv, FeedTypes
<1>2. r \in FeedRun /\ r.phase = "told"
  BY <1>1 DEF FeedRun, RunPhases
<1>3. run' = [run EXCEPT ![s] = r]
  BY DEF OnActivityAppended, Advance
<1> HIDE DEF r
<1>4. /\ run' \in [FeedSites -> FeedRun] /\ run'[s] = r
      /\ \A t \in FeedSites \ {s} : run'[t] = run[t]
  BY <1>2, <1>3, PlanStep DEF FeedInv
<1>5. /\ DOMAIN cache' = Views /\ \A v \in Views : DOMAIN cache'[v] = FeedSites
      /\ \A v \in Views, t \in FeedSites :
           cache'[v][t] = IF t = s /\ (v = "recent" \/ filled[v][t])
                          THEN Prepended(cache[v][t], run[s].row, CacheMax(v)) ELSE cache[v][t]
  BY DEF OnActivityAppended
<1>6. /\ overlap' \in [Views -> [FeedSites -> BOOLEAN]]
      /\ \A v \in Views, t \in FeedSites : overlap[v][t] => overlap'[v][t]
      /\ \A v \in Views : LoadsOf(v, s) # {} => overlap'[v][s]
  BY OverlapsGrow DEF FeedInv, OnActivityAppended
<1>7. UNCHANGED <<exists, clock, stepped, lastId, table, filled, frame, loads>>
  BY DEF OnActivityAppended
<1>8. FeedTypes'
  BY <1>4, <1>5, <1>6, <1>7 DEF FeedInv, FeedTypes
<1> SUFFICES ASSUME ~stepped' PROVE TablesOK' /\ CachesOK' /\ LoadsOK'
  BY <1>8 DEF FeedInv
<1>9. TablesOK /\ CachesOK /\ LoadsOK
  BY <1>7 DEF FeedInv
<1>10. TablesOK'
  BY <1>2, <1>4, <1>7, <1>9 DEF TablesOK, TableOK, Unrecorded
<1>11. ASSUME NEW t \in FeedSites \ {s} PROVE NoRecord(t)
  BY <1>4, <1>7 DEF NoRecord
<1>12. CachesOK'
  <2>1. ASSUME NEW v \in Views PROVE CacheOK(v, s)'
    <3>1. CacheOK(v, s)
      BY <1>9 DEF CachesOK
    <3> QED
      BY <1>1, <1>2, <1>4, <1>5, <1>6, <1>7, <3>1 DEF CacheOK
  <2>2. ASSUME NEW v \in Views, NEW t \in FeedSites \ {s} PROVE CacheOK(v, t)'
    <3>1. cache'[v][t] = cache[v][t]
      BY <1>5
    <3> QED
      BY <1>6, <1>7, <1>9, <1>11, <3>1, QuietCache DEF CachesOK
  <2> QED
    BY <2>1, <2>2 DEF CachesOK
<1>13. LoadsOK'
  <2>1. \A v \in Views, t \in FeedSites : LoadsOf(v, t)' = LoadsOf(v, t)
    BY <1>7 DEF LoadsOf
  <2>2. ASSUME NEW i \in 1..MaxLoads, NEW v \in Views PROVE LoadOK(i, v, s)'
    BY <1>6, <2>1 DEF LoadOK
  <2>3. ASSUME NEW i \in 1..MaxLoads, NEW v \in Views, NEW t \in FeedSites \ {s} PROVE LoadOK(i, v, t)'
    BY <1>6, <1>7, <1>9, <1>11, <2>1, QuietLoad DEF LoadsOK
  <2> QED
    BY <2>2, <2>3 DEF LoadsOK
<1> QED
  BY <1>10, <1>12, <1>13

-----------------------------------------------------------------------------
(* Nothing happens to the plans.                                           *)
LEMMA StillTables ==
  ASSUME FeedInv, UNCHANGED planVars
  PROVE  /\ ~stepped' => ~stepped /\ TablesOK /\ CachesOK /\ LoadsOK /\ TablesOK'
         /\ \A s \in FeedSites : NoRecord(s)
  BY DEF FeedInv, planVars, TablesOK, NoRecord

LEMMA StartLoadKeepsFeed ==
  ASSUME FeedInv, NEW v \in Views, NEW s \in FeedSites, StartLoad(v, s),
         UNCHANGED <<planVars, cache, filled>>, frame' \in FeedSites \cup {"-"}
  PROVE  FeedInv'
<1>1. PICK i \in 1..MaxLoads :
         loads' = [loads EXCEPT ![i] = [view |-> v, site |-> s, at |-> "read", rows |-> <<>>]]
  BY DEF StartLoad
<1>2. overlap' = [overlap EXCEPT ![v][s] = @ \/ run[s].phase = "inserted"]
  BY DEF StartLoad
<1> DEFINE l == [view |-> v, site |-> s, at |-> "read", rows |-> <<>>]
<1>3. LoadTypeOK(l) /\ l.at = "read" /\ l.view = v /\ l.site = s
  BY DEF LoadTypeOK
<1> HIDE DEF l
<1>4. /\ DOMAIN loads' = 1..MaxLoads /\ loads'[i] = l
      /\ \A j \in (1..MaxLoads) \ {i} : loads'[j] = loads[j]
  BY <1>1 DEF FeedInv, FeedTypes, l
<1>5. /\ overlap' \in [Views -> [FeedSites -> BOOLEAN]]
      /\ overlap'[v][s] = (overlap[v][s] \/ run[s].phase = "inserted")
      /\ \A u \in Views, t \in FeedSites : overlap[u][t] => overlap'[u][t]
  BY <1>2 DEF FeedInv, FeedTypes
<1>6. FeedTypes'
  BY <1>3, <1>4, <1>5 DEF FeedInv, FeedTypes, planVars
<1> SUFFICES ASSUME ~stepped' PROVE TablesOK' /\ CachesOK' /\ LoadsOK'
  BY <1>6 DEF FeedInv
<1>7. TablesOK /\ CachesOK /\ LoadsOK /\ TablesOK' /\ \A t \in FeedSites : NoRecord(t)
  BY StillTables
<1>8. CachesOK'
  BY <1>5, <1>7, QuietCache DEF CachesOK
<1>9. ASSUME NEW j \in (1..MaxLoads) \ {i}, NEW u \in Views, NEW t \in FeedSites PROVE LoadOK(j, u, t)'
  <2>1. j \in LoadsOf(u, t)' <=> j \in LoadsOf(u, t)
    BY <1>4 DEF LoadsOf
  <2> QED
    BY <1>4, <1>5, <1>7, <2>1, QuietLoad DEF LoadsOK
<1>10. ASSUME NEW u \in Views, NEW t \in FeedSites PROVE LoadOK(i, u, t)'
  <2>1. i \in LoadsOf(u, t)' => u = v /\ t = s
    BY <1>3, <1>4 DEF LoadsOf
  <2> QED
    BY <1>3, <1>4, <1>5, <2>1 DEF LoadOK, planVars
<1>11. LoadsOK'
  BY <1>9, <1>10 DEF LoadsOK
<1> QED
  BY <1>7, <1>8, <1>11

LEMMA AskKeepsFeed ==
  ASSUME FeedInv, (\E s \in FeedSites : ShowOverview(s) \/ PaintActivity(s)) \/ KickLoad
  PROVE  FeedInv'
<1>1. ASSUME NEW s \in FeedSites, ShowOverview(s) PROVE FeedInv'
  <2>1. "recent" \in Views /\ frame' \in FeedSites \cup {"-"}
    BY <1>1 DEF Views, ShowOverview, FeedInv, FeedTypes
  <2> QED
    BY <1>1, <2>1, StartLoadKeepsFeed DEF ShowOverview
<1>2. ASSUME UNCHANGED <<planVars, cache, filled, overlap, loads>>, frame' \in FeedSites \cup {"-"}
      PROVE  FeedInv'
  <2>1. FeedTypes' /\ (stepped => stepped') /\ \A s \in FeedSites : NoRecord(s)
    BY <1>2, StillTables DEF FeedInv, FeedTypes, planVars
  <2>2. ~stepped' => TablesOK'
    BY <1>2, StillTables
  <2> QED
    BY <1>2, <2>1, <2>2, StillStep
<1>3. ASSUME NEW s \in FeedSites, PaintActivity(s) PROVE FeedInv'
  BY <1>2, <1>3 DEF PaintActivity
<1>4. CASE KickLoad
  <2>1. "full" \in Views /\ frame \in FeedSites /\ frame' = "-"
    BY <1>4 DEF Views, KickLoad, FeedInv, FeedTypes
  <2>2. CASE LoadsOf("full", frame) = {}
    BY <1>4, <2>1, <2>2, StartLoadKeepsFeed DEF KickLoad
  <2>3. CASE LoadsOf("full", frame) # {}
    BY <1>2, <1>4, <2>1, <2>3 DEF KickLoad
  <2> QED
    BY <2>2, <2>3
<1> QED
  BY <1>1, <1>3, <1>4

LEMMA ReadKeepsFeed ==
  ASSUME FeedInv, NEW i \in 1..MaxLoads, ReadRows(i)
  PROVE  FeedInv'
<1> DEFINE l == loads[i]
<1>1. LoadTypeOK(l) /\ l.at = "read" /\ l.view \in Views /\ l.site \in FeedSites
  BY DEF FeedInv, FeedTypes, ReadRows, LoadTypeOK
<1>2. PICK m : /\ loads' = [loads EXCEPT ![i] = m] /\ LoadTypeOK(m) /\ m.view = l.view /\ m.site = l.site
               /\ \/ m.at = "set" /\ m.rows = TopRows(CacheMax(l.view), table[l.site])
                  \/ m.at = "end"
  <2>1. CASE loads' = [loads EXCEPT ![i].at = "end"]
    <3>1. loads' = [loads EXCEPT ![i] = [l EXCEPT !.at = "end"]]
      BY <2>1
    <3> DEFINE x == [l EXCEPT !.at = "end"]
    <3>2. LoadTypeOK(x) /\ x.at = "end" /\ x.view = l.view /\ x.site = l.site
      BY <1>1 DEF LoadTypeOK
    <3> HIDE DEF x, l
    <3>3. loads' = [loads EXCEPT ![i] = x]
      BY <3>1 DEF x
    <3> QED
      BY <3>2, <3>3
  <2>2. CASE loads' = [loads EXCEPT ![i].at = "set", ![i].rows = GetActivity(loads[i].site, CacheMax(loads[i].view))]
    <3> DEFINE g == GetActivity(l.site, CacheMax(l.view))
    <3>1. g = TopRows(CacheMax(l.view), table[l.site])
      BY DEF GetActivity, TopRows
    <3> DEFINE x == [l EXCEPT !.at = "set", !.rows = g]
    <3>2. loads' = [loads EXCEPT ![i] = x]
      BY <2>2 DEF FeedInv, FeedTypes
    <3> HIDE DEF g
    <3>3. LoadTypeOK(x) /\ x.at = "set" /\ x.view = l.view /\ x.site = l.site /\ x.rows = g
      BY <1>1 DEF LoadTypeOK
    <3> HIDE DEF x, l
    <3> QED
      BY <3>1, <3>2, <3>3
  <2> QED
    BY <2>1, <2>2 DEF ReadRows
<1>3. /\ DOMAIN loads' = 1..MaxLoads /\ loads'[i] = m
      /\ \A j \in (1..MaxLoads) \ {i} : loads'[j] = loads[j]
  BY <1>2 DEF FeedInv, FeedTypes
<1>4. UNCHANGED <<planVars, cache, filled, overlap, frame>>
  BY DEF ReadRows
<1>5. FeedTypes'
  BY <1>2, <1>3, <1>4 DEF FeedInv, FeedTypes, planVars
<1> SUFFICES ASSUME ~stepped' PROVE TablesOK' /\ CachesOK' /\ LoadsOK'
  BY <1>5 DEF FeedInv
<1>6. TablesOK /\ CachesOK /\ LoadsOK /\ TablesOK' /\ \A t \in FeedSites : NoRecord(t)
  BY <1>4, StillTables
<1>7. CachesOK'
  BY <1>4, <1>6, QuietCache DEF CachesOK
<1>8. ASSUME NEW j \in (1..MaxLoads) \ {i}, NEW u \in Views, NEW t \in FeedSites PROVE LoadOK(j, u, t)'
  <2>1. j \in LoadsOf(u, t)' <=> j \in LoadsOf(u, t)
    BY <1>3 DEF LoadsOf
  <2> QED
    BY <1>3, <1>4, <1>6, <2>1, QuietLoad DEF LoadsOK
<1>9. ASSUME NEW u \in Views, NEW t \in FeedSites PROVE LoadOK(i, u, t)'
  <2>1. i \in LoadsOf(u, t)' => m.view = u /\ m.site = t /\ i \in LoadsOf(u, t)
    BY <1>1, <1>2, <1>3 DEF LoadsOf
  <2>2. LoadOK(i, u, t)
    BY <1>6 DEF LoadsOK
  <2> QED
    BY <1>2, <1>3, <1>4, <2>1, <2>2 DEF LoadOK, planVars
<1>10. LoadsOK'
  BY <1>8, <1>9 DEF LoadsOK
<1> QED
  BY <1>6, <1>7, <1>10

LEMMA SetKeepsFeed ==
  ASSUME FeedInv, NEW i \in 1..MaxLoads, SetRows(i)
  PROVE  FeedInv'
<1> DEFINE l == loads[i]
           m == [l EXCEPT !.at = "end"]
<1>1. LoadTypeOK(l) /\ l.at = "set" /\ l.view \in Views /\ l.site \in FeedSites
  BY DEF FeedInv, FeedTypes, SetRows, LoadTypeOK
<1>2. LoadTypeOK(m) /\ m.at = "end"
  BY <1>1 DEF LoadTypeOK
<1>3. /\ cache' = [cache EXCEPT ![l.view][l.site] = l.rows]
      /\ filled' = [filled EXCEPT ![l.view][l.site] = TRUE]
      /\ loads' = [loads EXCEPT ![i] = m]
      /\ UNCHANGED <<planVars, overlap, frame>>
  BY DEF SetRows
<1> HIDE DEF m
<1>4. /\ DOMAIN loads' = 1..MaxLoads /\ loads'[i] = m
      /\ \A j \in (1..MaxLoads) \ {i} : loads'[j] = loads[j]
  BY <1>3 DEF FeedInv, FeedTypes
<1>5. /\ DOMAIN cache' = Views /\ \A v \in Views : DOMAIN cache'[v] = FeedSites
      /\ filled' \in [Views -> [FeedSites -> BOOLEAN]]
      /\ cache'[l.view][l.site] = l.rows
      /\ \A v \in Views, s \in FeedSites :
           (v # l.view \/ s # l.site) => cache'[v][s] = cache[v][s] /\ filled'[v][s] = filled[v][s]
  BY <1>1, <1>3 DEF FeedInv, FeedTypes
<1>6. FeedTypes'
  BY <1>2, <1>3, <1>4, <1>5 DEF FeedInv, FeedTypes, planVars
<1> SUFFICES ASSUME ~stepped' PROVE TablesOK' /\ CachesOK' /\ LoadsOK'
  BY <1>6 DEF FeedInv
<1>7. TablesOK /\ CachesOK /\ LoadsOK /\ TablesOK' /\ \A t \in FeedSites : NoRecord(t)
  BY <1>3, StillTables
<1>8. ASSUME NEW v \in Views, NEW s \in FeedSites, v = l.view, s = l.site PROVE CacheOK(v, s)'
  <2>1. LoadOK(i, v, s) /\ i \in LoadsOf(v, s)
    BY <1>1, <1>7, <1>8 DEF LoadsOK, LoadsOf
  <2>2. exists[s] /\ ~overlap[v][s] => run[s].phase # "inserted" /\ l.rows = TopRows(CacheMax(v), table[s])
    BY <1>1, <2>1 DEF LoadOK
  <2>3. cache'[v][s] = l.rows /\ UNCHANGED <<exists, run, table, overlap>>
    BY <1>3, <1>5, <1>8 DEF planVars
  <2> HIDE DEF l
  <2> QED
    BY <2>2, <2>3 DEF CacheOK
<1>9. ASSUME NEW v \in Views, NEW s \in FeedSites, v # l.view \/ s # l.site PROVE CacheOK(v, s)'
  <2>1. CacheOK(v, s) /\ NoRecord(s) /\ cache'[v][s] = cache[v][s] /\ filled'[v][s] = filled[v][s]
        /\ overlap' = overlap
    BY <1>3, <1>5, <1>7, <1>9 DEF CachesOK
  <2> QED
    BY <2>1, QuietCache
<1>10. CachesOK'
  <2> HIDE DEF l
  <2>1. ASSUME NEW v \in Views, NEW s \in FeedSites PROVE CacheOK(v, s)'
    BY <1>8, <1>9
  <2> QED
    BY <2>1 DEF CachesOK
<1>11. ASSUME NEW j \in 1..MaxLoads, NEW u \in Views, NEW t \in FeedSites PROVE LoadOK(j, u, t)'
  <2>1. j \in LoadsOf(u, t)' => j # i /\ j \in LoadsOf(u, t)
    BY <1>2, <1>4 DEF LoadsOf
  <2> QED
    BY <1>3, <1>4, <1>7, <2>1, QuietLoad DEF LoadsOK
<1>12. LoadsOK'
  BY <1>11 DEF LoadsOK
<1> QED
  BY <1>7, <1>10, <1>12

LEMMA FeedInvStep == FeedInv /\ [FeedNext]_feedVars => FeedInv'
<1> SUFFICES ASSUME FeedInv, [FeedNext]_feedVars PROVE FeedInv'
  OBVIOUS
<1>1. ASSUME NEW s \in FeedSites, BeginRun(s) \/ Return(s) \/ OnActivityAppended(s) PROVE FeedInv'
  BY <1>1, BeginRunKeepsFeed, ReturnKeepsFeed, AnnounceKeepsFeed
<1>2. ASSUME NEW s \in FeedSites, EndRun(s) \/ WriteAuditLog(s) PROVE FeedInv'
  BY <1>2, AdvanceKeepsFeed DEF EndRun, WriteAuditLog, RunPhases, Unrecorded
<1>3. ASSUME NEW s \in FeedSites, AppendActivity(s) PROVE FeedInv'
  <2>1. CASE lastId' = lastId + 1 /\ overlap' = Overlapped(s)
    BY <1>3, <2>1, RecordKeepsFeed
  <2>2. CASE Advance(s, "told") /\ UNCHANGED <<lastId, overlap, table>>
    <3>1. /\ run[s].phase = "audited"
          /\ UNCHANGED <<exists, clock, stepped, plans, audit, cache, filled, wanted, frame, loads>>
      BY <1>3 DEF AppendActivity
    <3> QED
      BY <2>2, <3>1, AdvanceKeepsFeed DEF RunPhases, Unrecorded, listVars
  <2> QED
    BY <1>3, <2>1, <2>2 DEF AppendActivity
<1>4. CASE TickClock \/ SetClockBack
  BY <1>4, TickKeepsFeed, SetBackKeepsFeed
<1>5. CASE (\E s \in FeedSites : ShowOverview(s) \/ PaintActivity(s)) \/ KickLoad
  BY <1>5, AskKeepsFeed
<1>6. ASSUME NEW i \in 1..MaxLoads, ReadRows(i) \/ SetRows(i) PROVE FeedInv'
  BY <1>6, ReadKeepsFeed, SetKeepsFeed
<1>7. CASE UNCHANGED feedVars
  BY <1>7 DEF feedVars, planVars, listVars, FeedInv, FeedTypes, TablesOK, CachesOK, CacheOK, LoadsOK, LoadOK, LoadsOf
<1> QED
  BY <1>1, <1>2, <1>3, <1>4, <1>5, <1>6, <1>7 DEF FeedNext

(* Once its first load has completed, a cache that no recording overlapped *)
(* is the head of the table of its site, whatever mixture of loads and     *)
(* callbacks built it, for any sites, retention and caps: AppendActivity's *)
(* trim and prependCap agree.                                              *)
THEOREM CalmCachesAreTheHead == FeedSpec => []CalmCacheIsTheHead
<1>1. FeedInv => CalmCacheIsTheHead
  BY DEF FeedInv, CachesOK, CacheOK, CalmCacheIsTheHead, GetActivity, TopRows
<1> QED
  BY <1>1, FeedInvInit, FeedInvStep, PTL DEF FeedSpec

-----------------------------------------------------------------------------
(* The order of finitely many rows leaves no place empty: the places are   *)
(* as many as the rows, and no two rows share one.                         *)
LEMMA RowsArePlaced ==
  ASSUME NEW T, RowSet(T)
  PROVE  Placed(T)
<1> DEFINE f == [q \in T |-> Place(q, T)]
           n == Cardinality(T)
<1>1. n \in Nat
  BY FS_CardinalityType DEF RowSet
<1>2. f \in Injection(T, 1..n)
  <2>1. f \in [T -> 1..n] /\ \A q \in T : f[q] = Place(q, T)
    BY PlacesAreInRange
  <2> HIDE DEF f
  <2>2. \A p, q \in T : f[p] = f[q] => p = q
    BY <2>1, OnePlaceOneRow
  <2> QED
    BY <2>1, <2>2 DEF Injection, IsInjective
<1>3. IsFiniteSet(1..n) /\ Cardinality(1..n) = n
  BY <1>1, FS_Interval
<1> HIDE DEF f
<1>4. f \in Surjection(T, 1..n)
  BY <1>2, <1>3, FS_Injection
<1>5. \A i \in 1..n : \E q \in T : f[q] = i
  BY <1>4 DEF Surjection
<1> QED
  BY <1>5 DEF Placed, f

LEMMA TopRowsFit ==
  ASSUME NEW T, RowSet(T), NEW n \in Nat
  PROVE  TopRows(n, T) \in Seq(FeedRow) /\ Len(TopRows(n, T)) <= n
<1> DEFINE A == NewestRows(n, T)
<1>1. RowSet(A) /\ Placed(A)
  BY NewestAreRows, RowsArePlaced
<1>2. Cardinality(A) = Smaller(n, Cardinality(T))
  BY CountOfNewest, RowsArePlaced
<1>3. Cardinality(T) \in Nat
  BY FS_CardinalityType DEF RowSet
<1> HIDE DEF A
<1>4. NewestFirst(A) \in Seq(A) /\ Len(NewestFirst(A)) = Cardinality(A) /\ A \subseteq FeedRow
  BY <1>1, ListOfRows DEF RowSet
<1>5. NewestFirst(A) \in Seq(FeedRow)
  BY <1>4
<1>6. Len(NewestFirst(A)) <= n
  BY <1>2, <1>3, <1>4 DEF Smaller
<1> QED
  BY <1>5, <1>6 DEF TopRows, A

LEMMA PrependedFits ==
  ASSUME NEW q \in Seq(FeedRow), NEW r \in FeedRow, NEW n \in Nat \ {0}, Len(q) <= n
  PROVE  Prepended(q, r, n) \in Seq(FeedRow) /\ Len(Prepended(q, r, n)) <= n
<1> DEFINE m == IF Len(q) >= n THEN n - 1 ELSE Len(q)
           p == SubSeq(q, 1, m)
<1>1. m \in 0..Len(q) /\ m + 1 <= n /\ m \in Nat
  OBVIOUS
<1> HIDE DEF m
<1>2. p \in Seq(FeedRow) /\ Len(p) = m
  BY <1>1
<1>3. <<r>> \in Seq(FeedRow) /\ Len(<<r>>) = 1
  OBVIOUS
<1>4. Prepended(q, r, n) = <<r>> \o p
  BY DEF Prepended, m
<1> HIDE DEF p
<1>5. <<r>> \o p \in Seq(FeedRow) /\ Len(<<r>> \o p) = 1 + m
  BY <1>2, <1>3
<1> QED
  BY <1>1, <1>4, <1>5

-----------------------------------------------------------------------------
(* The plans that have yet to record their row hold an id back: what was   *)
(* given out and what is to come is no more than the plans begun.          *)
Recording == {s \in FeedSites : run[s].phase \in Unrecorded}
IdsOK ==
  /\ plans \in 0..MaxPlans /\ IsFiniteSet(Recording)
  /\ Cardinality(Recording) + lastId <= plans

(* The rows of a table have ids of their own, and a cache or a load that   *)
(* has read holds no more of them than its view shows.                     *)
Fits(q, v) == q \in Seq(FeedRow) /\ Len(q) <= CacheMax(v)
RowsOK ==
  /\ \A s \in FeedSites : RowSet(table[s]) /\ \A q \in table[s] : q.id <= lastId
  /\ \A v \in Views, s \in FeedSites : Fits(cache[v][s], v)
  /\ \A i \in 1..MaxLoads : loads[i].at = "set" => Fits(loads[i].rows, loads[i].view)
  /\ clock \in 0..MaxClock /\ wanted \in FeedSites \cup {"-"}

LEMMA IdsStay ==
  ASSUME FeedTypes, IdsOK, UNCHANGED lastId, plans' = plans, Recording' \subseteq Recording
  PROVE  IdsOK'
<1>1. IsFiniteSet(Recording') /\ Cardinality(Recording') <= Cardinality(Recording)
  BY FS_Subset DEF IdsOK
<1>2. Cardinality(Recording) \in Nat /\ Cardinality(Recording') \in Nat
  BY <1>1, FS_CardinalityType DEF IdsOK
<1> QED
  BY <1>1, <1>2, FeedAssumption DEF IdsOK, FeedTypes

LEMMA IdsStep ==
  ASSUME FeedTypes, FeedTypes', IdsOK, [FeedNext]_feedVars
  PROVE  IdsOK'
<1>0. Cardinality(Recording) \in Nat /\ MaxPlans \in Nat /\ lastId \in Nat /\ plans \in Nat
  BY FS_CardinalityType, FeedAssumption DEF IdsOK, FeedTypes
<1>1. ASSUME UNCHANGED <<run, plans, lastId>> PROVE IdsOK'
  BY <1>1, IdsStay DEF Recording
<1>2. ASSUME NEW s \in FeedSites, BeginRun(s) PROVE IdsOK'
  <2>1. /\ plans' = plans + 1 /\ plans < MaxPlans /\ lastId' = lastId /\ run[s].phase = "idle"
        /\ \A t \in FeedSites \ {s} : run'[t] = run[t]
    BY <1>2 DEF BeginRun, FeedTypes
  <2>2. Recording' \subseteq Recording \cup {s}
    BY <2>1 DEF Recording
  <2>3. IsFiniteSet(Recording \cup {s}) /\ Cardinality(Recording \cup {s}) <= Cardinality(Recording) + 1
    <3>1. IsFiniteSet(Recording)
      BY DEF IdsOK
    <3> QED
      BY ONLY <1>0, <3>1, FS_AddElement
  <2>4. /\ IsFiniteSet(Recording') /\ Cardinality(Recording') <= Cardinality(Recording \cup {s})
        /\ Cardinality(Recording') \in Nat /\ Cardinality(Recording \cup {s}) \in Nat
    BY <2>2, <2>3, FS_Subset, FS_CardinalityType
  <2> QED
    BY <1>0, <2>1, <2>3, <2>4 DEF IdsOK
<1>3. ASSUME NEW s \in FeedSites, NEW ph \in RunPhases, Advance(s, ph), UNCHANGED <<plans, lastId>>,
             run[s].phase \in Unrecorded \/ ph \notin Unrecorded
      PROVE  IdsOK'
  <2>1. \A t \in FeedSites : run'[t].phase \in Unrecorded => run[t].phase \in Unrecorded
    BY <1>3 DEF Advance, FeedTypes, FeedRun
  <2> QED
    BY <1>3, <2>1, IdsStay DEF Recording
<1>4. ASSUME NEW s \in FeedSites, EndRun(s) \/ WriteAuditLog(s) \/ OnActivityAppended(s) PROVE IdsOK'
  BY <1>3, <1>4 DEF EndRun, WriteAuditLog, OnActivityAppended, RunPhases, Unrecorded
<1>5. ASSUME NEW s \in FeedSites, AppendActivity(s) PROVE IdsOK'
  <2>1. CASE Advance(s, "told") /\ lastId' = lastId
    BY <1>3, <1>5, <2>1 DEF AppendActivity, RunPhases, Unrecorded
  <2>2. CASE lastId' = lastId + 1 /\ \E r : run' = [run EXCEPT ![s].phase = "inserted", ![s].row = r]
    <3>1. plans' = plans /\ run[s].phase = "audited"
      BY <1>5 DEF AppendActivity
    <3>2. run'[s].phase = "inserted" /\ \A t \in FeedSites \ {s} : run'[t] = run[t]
      BY <2>2 DEF FeedTypes, FeedRun
    <3>3. Recording' = Recording \ {s} /\ s \in Recording
      BY <3>1, <3>2 DEF Recording, Unrecorded
    <3>4. IsFiniteSet(Recording') /\ Cardinality(Recording') = Cardinality(Recording) - 1
      BY <3>3, FS_RemoveElement DEF IdsOK
    <3> QED
      BY <1>0, <2>2, <3>1, <3>4 DEF IdsOK
  <2> QED
    BY <1>5, <2>1, <2>2 DEF AppendActivity
<1>6. ASSUME NEW s \in FeedSites, Return(s) PROVE IdsOK'
  <2>1. run' = [run EXCEPT ![s] = NoPlan] /\ plans' = plans /\ lastId' = lastId
    BY <1>6 DEF Return
  <2>2. \A t \in FeedSites : run'[t].phase \in Unrecorded => run[t].phase \in Unrecorded
    BY <2>1 DEF FeedTypes, NoPlan, Unrecorded
  <2> QED
    BY <2>1, <2>2, IdsStay DEF Recording
<1>7. CASE TickClock
  <2>1. \A t \in FeedSites : run'[t] \in {run[t], [run[t] EXCEPT !.time = @ + 1]}
    BY <1>7 DEF TickClock
  <2>2. \A t \in FeedSites : run'[t].phase = run[t].phase
    <3> TAKE t \in FeedSites
    <3>1. run[t] \in FeedRun
      BY DEF FeedTypes
    <3>2. [run[t] EXCEPT !.time = @ + 1].phase = run[t].phase
      BY <3>1 DEF FeedRun
    <3> QED
      BY <2>1, <3>2
  <2> QED
    BY <1>7, <2>2, IdsStay DEF Recording, TickClock
<1>8. CASE SetClockBack \/ KickLoad \/ (\E s \in FeedSites : ShowOverview(s) \/ PaintActivity(s))
  BY <1>1, <1>8 DEF SetClockBack, KickLoad, ShowOverview, PaintActivity, planVars
<1>9. CASE (\E i \in 1..MaxLoads : ReadRows(i) \/ SetRows(i)) \/ UNCHANGED feedVars
  BY <1>1, <1>9 DEF ReadRows, SetRows, planVars, feedVars
<1> QED
  BY <1>2, <1>4, <1>5, <1>6, <1>7, <1>8, <1>9 DEF FeedNext

LEMMA TablesStep ==
  ASSUME FeedTypes, RowsOK, [FeedNext]_feedVars, NEW s \in FeedSites
  PROVE  RowSet(table'[s]) /\ \A q \in table'[s] : q.id <= lastId'
<1>0. RowSet(table[s]) /\ lastId \in Nat /\ \A q \in table[s] : q.id <= lastId
  BY DEF RowsOK, FeedTypes
<1>1. CASE UNCHANGED <<table, lastId>>
  BY <1>0, <1>1
<1>2. ASSUME NEW t \in FeedSites, Return(t) PROVE RowSet(table'[s]) /\ \A q \in table'[s] : q.id <= lastId'
  <2>1. table'[s] \in {table[s], {}} /\ lastId' = lastId
    BY <1>2 DEF Return, FeedTypes
  <2>2. RowSet({})
    BY FS_EmptySet DEF RowSet
  <2> QED
    BY <1>0, <2>1, <2>2
<1>3. ASSUME NEW t \in FeedSites, AppendActivity(t), lastId' = lastId + 1
      PROVE  RowSet(table'[s]) /\ \A q \in table'[s] : q.id <= lastId'
  <2> DEFINE r == [id |-> lastId + 1, time |-> run[t].time]
             U == table[s] \cup {r}
  <2>1. table'[s] = table[s] \/ table'[s] = Trimmed(U)
    BY <1>0, <1>3 DEF AppendActivity, FeedTypes, TableAfter
  <2>2. r \in FeedRow /\ r.id = lastId + 1
    BY <1>0 DEF FeedTypes, FeedRun, FeedRow
  <2> HIDE DEF r
  <2>3. RowSet(U) /\ \A q \in U : q.id <= lastId + 1
    <3>1. IsFiniteSet(U)
      BY <1>0, FS_AddElement DEF RowSet
    <3>2. \A q \in table[s] : q.id \in Nat /\ q.id # r.id /\ q.id <= lastId + 1
      BY <1>0, <2>2 DEF RowSet, FeedRow
    <3>3. \A q \in U : q.id <= lastId + 1
      BY <1>0, <2>2, <3>2
    <3>4. \A p, q \in U : p.id = q.id => p = q
      BY <1>0, <2>2, <3>2 DEF RowSet
    <3> QED
      BY <1>0, <2>2, <3>1, <3>3, <3>4 DEF RowSet
  <2> HIDE DEF U
  <2>4. RowSet(Trimmed(U)) /\ Trimmed(U) \subseteq U
    BY <2>3, NewestAreRows, FeedAssumption DEF Trimmed
  <2>5. \A q \in table[s] : q.id <= lastId + 1
    BY <1>0 DEF RowSet, FeedRow
  <2> QED
    BY <1>0, <1>3, <2>1, <2>3, <2>4, <2>5
<1>4. ASSUME NEW t \in FeedSites, BeginRun(t) \/ EndRun(t) \/ WriteAuditLog(t) \/ OnActivityAppended(t)
                                  \/ ShowOverview(t) \/ PaintActivity(t)
      PROVE  UNCHANGED <<table, lastId>>
  BY <1>4 DEF BeginRun, EndRun, WriteAuditLog, OnActivityAppended, ShowOverview, PaintActivity, planVars
<1>5. CASE TickClock \/ SetClockBack \/ KickLoad \/ (\E i \in 1..MaxLoads : ReadRows(i) \/ SetRows(i))
            \/ UNCHANGED feedVars
  BY <1>1, <1>5 DEF TickClock, SetClockBack, KickLoad, ReadRows, SetRows, planVars, feedVars
<1>6. ASSUME NEW t \in FeedSites, AppendActivity(t), lastId' = lastId PROVE UNCHANGED <<table, lastId>>
  BY <1>0, <1>6 DEF AppendActivity
<1>7. ASSUME NEW t \in FeedSites, AppendActivity(t) PROVE lastId' \in {lastId, lastId + 1}
  BY <1>7 DEF AppendActivity
<1> QED
  BY <1>1, <1>2, <1>3, <1>4, <1>5, <1>6, <1>7 DEF FeedNext

LEMMA ViewsStep ==
  ASSUME FeedTypes, RowsOK, [FeedNext]_feedVars, NEW v \in Views, NEW s \in FeedSites
  PROVE  Fits(cache'[v][s], v)
<1>0. Fits(cache[v][s], v)
  BY DEF RowsOK
<1>1. CASE UNCHANGED cache
  BY <1>0, <1>1
<1>2. ASSUME NEW t \in FeedSites, OnActivityAppended(t) PROVE Fits(cache'[v][s], v)
  <2>1. cache'[v][s] \in {cache[v][s], Prepended(cache[v][s], run[t].row, CacheMax(v))}
    BY <1>2 DEF OnActivityAppended
  <2>2. run[t].row \in FeedRow
    BY DEF FeedTypes, FeedRun
  <2>3. Fits(Prepended(cache[v][s], run[t].row, CacheMax(v)), v)
    BY <1>0, <2>2, PrependedFits, CacheMaxBound DEF Fits
  <2> QED
    BY <1>0, <2>1, <2>3
<1>3. ASSUME NEW i \in 1..MaxLoads, SetRows(i) PROVE Fits(cache'[v][s], v)
  <2>1. /\ cache' = [cache EXCEPT ![loads[i].view][loads[i].site] = loads[i].rows]
        /\ loads[i].at = "set"
    BY <1>3 DEF SetRows
  <2>2. cache'[v][s] = IF v = loads[i].view /\ s = loads[i].site THEN loads[i].rows ELSE cache[v][s]
    BY <2>1 DEF FeedTypes
  <2> QED
    BY <1>0, <2>1, <2>2 DEF RowsOK
<1>4. ASSUME NEW t \in FeedSites, BeginRun(t) \/ EndRun(t) \/ WriteAuditLog(t) \/ AppendActivity(t)
                                  \/ Return(t) \/ ShowOverview(t) \/ PaintActivity(t)
      PROVE  UNCHANGED cache
  BY <1>4 DEF BeginRun, EndRun, WriteAuditLog, AppendActivity, Return, ShowOverview, PaintActivity, listVars
<1>5. CASE TickClock \/ SetClockBack \/ KickLoad \/ (\E i \in 1..MaxLoads : ReadRows(i)) \/ UNCHANGED feedVars
  BY <1>1, <1>5 DEF TickClock, SetClockBack, KickLoad, ReadRows, listVars, feedVars
<1> QED
  BY <1>1, <1>2, <1>3, <1>4, <1>5 DEF FeedNext

LEMMA LoadsStep ==
  ASSUME FeedTypes, RowsOK, [FeedNext]_feedVars, NEW i \in 1..MaxLoads, loads'[i].at = "set"
  PROVE  Fits(loads'[i].rows, loads'[i].view)
<1> USE DEF FeedTypes
<1>0. loads[i].at = "set" => Fits(loads[i].rows, loads[i].view)
  BY DEF RowsOK
<1>1. CASE loads'[i] = loads[i]
  BY <1>0, <1>1
<1>2. ASSUME NEW w, NEW s, StartLoad(w, s) PROVE loads'[i] = loads[i]
  <2>1. PICK j \in 1..MaxLoads : loads' = [loads EXCEPT ![j] = [view |-> w, site |-> s, at |-> "read", rows |-> <<>>]]
    BY <1>2 DEF StartLoad
  <2> QED
    BY <2>1
<1>3. ASSUME NEW j \in 1..MaxLoads, ReadRows(j) PROVE Fits(loads'[i].rows, loads'[i].view)
  <2>1. CASE j # i \/ loads' = [loads EXCEPT ![j].at = "end"]
    <3>1. loads'[i] = loads[i]
      <4>1. LoadTypeOK(loads[j])
        OBVIOUS
      <4>2. loads' = [loads EXCEPT ![j].at = "end"] => loads'[j].at = "end"
        BY <4>1 DEF LoadTypeOK
      <4> QED
        BY <1>3, <2>1, <4>2 DEF ReadRows
    <3> QED
      BY <1>1, <3>1
  <2>2. CASE j = i /\ loads' = [loads EXCEPT ![i].at = "set", ![i].rows = GetActivity(loads[i].site, CacheMax(loads[i].view))]
    <3>1. LoadTypeOK(loads[i]) /\ loads[i].at = "read"
      BY <1>3, <2>2 DEF ReadRows
    <3>2. loads[i].view \in Views /\ loads[i].site \in FeedSites
      BY <3>1 DEF LoadTypeOK
    <3> DEFINE g == GetActivity(loads[i].site, CacheMax(loads[i].view))
    <3>3. g = TopRows(CacheMax(loads[i].view), table[loads[i].site])
      BY DEF GetActivity, TopRows
    <3>4. Fits(g, loads[i].view)
      BY <3>2, <3>3, TopRowsFit, CacheMaxBound DEF RowsOK, Fits
    <3> HIDE DEF g
    <3>5. loads'[i].rows = g /\ loads'[i].view = loads[i].view
      BY <2>2, <3>1 DEF LoadTypeOK, g
    <3> QED
      BY <3>4, <3>5
  <2> QED
    BY <1>3, <2>1, <2>2 DEF ReadRows
<1>4. ASSUME NEW j \in 1..MaxLoads, SetRows(j) PROVE loads'[i] = loads[i]
  <2>1. LoadTypeOK(loads[j]) /\ loads' = [loads EXCEPT ![j].at = "end"]
    BY <1>4 DEF SetRows
  <2> QED
    BY <2>1 DEF LoadTypeOK
<1>5. ASSUME NEW t \in FeedSites, BeginRun(t) \/ EndRun(t) \/ WriteAuditLog(t) \/ AppendActivity(t)
                                  \/ OnActivityAppended(t) \/ Return(t) \/ PaintActivity(t)
      PROVE  loads' = loads
  BY <1>5 DEF BeginRun, EndRun, WriteAuditLog, AppendActivity, OnActivityAppended, Return, PaintActivity, listVars
<1>6. CASE TickClock \/ SetClockBack \/ UNCHANGED feedVars
  BY <1>1, <1>6 DEF TickClock, SetClockBack, listVars, feedVars
<1>7. CASE KickLoad
  BY <1>1, <1>2, <1>7 DEF KickLoad
<1>8. ASSUME NEW t \in FeedSites, ShowOverview(t) PROVE loads'[i] = loads[i]
  BY <1>2, <1>8 DEF ShowOverview
<1> QED
  BY <1>1, <1>3, <1>4, <1>5, <1>6, <1>7, <1>8 DEF FeedNext

LEMMA ClockStep ==
  ASSUME RowsOK, [FeedNext]_feedVars
  PROVE  clock' \in 0..MaxClock /\ wanted' \in FeedSites \cup {"-"}
<1>0. clock \in 0..MaxClock /\ wanted \in FeedSites \cup {"-"} /\ MaxClock \in Nat
  BY FeedAssumption DEF RowsOK
<1>1. CASE TickClock \/ SetClockBack
  BY <1>0, <1>1 DEF TickClock, SetClockBack, listVars
<1>2. ASSUME NEW s \in FeedSites,
             BeginRun(s) \/ EndRun(s) \/ WriteAuditLog(s) \/ AppendActivity(s) \/ OnActivityAppended(s)
               \/ Return(s) \/ PaintActivity(s)
      PROVE  UNCHANGED <<clock, wanted>>
  BY <1>2 DEF BeginRun, EndRun, WriteAuditLog, AppendActivity, OnActivityAppended, Return, PaintActivity,
              listVars, planVars
<1>3. ASSUME NEW s \in FeedSites, ShowOverview(s) PROVE clock' = clock /\ wanted' = s
  BY <1>3 DEF ShowOverview, planVars
<1>4. CASE KickLoad \/ (\E i \in 1..MaxLoads : ReadRows(i) \/ SetRows(i)) \/ UNCHANGED feedVars
  BY <1>0, <1>4 DEF KickLoad, ReadRows, SetRows, planVars, listVars, feedVars
<1> QED
  BY <1>0, <1>1, <1>2, <1>3, <1>4 DEF FeedNext

(* The plans, the table's ids and the loads stay of their types, and the   *)
(* GUI's caches within their caps, for any sites, retention, caps, loads   *)
(* and clock: an id goes only to a plan that was begun, and a list that is *)
(* loaded, or grown by a row at a time, is never longer than its view      *)
(* shows (AppendActivity's trim, GetActivity's limit, prependCap).         *)
THEOREM FeedTypeCorrect == FeedSpec => []FeedTypeOK
<1> DEFINE Inv == FeedInv /\ IdsOK /\ RowsOK
<1>1. FeedInit => Inv
  <2> SUFFICES ASSUME FeedInit PROVE IdsOK /\ RowsOK
    BY FeedInvInit
  <2>1. Recording = {}
    BY DEF FeedInit, Recording, NoPlan, Unrecorded
  <2>2. IdsOK
    BY <2>1, FS_EmptySet, FeedAssumption DEF FeedInit, IdsOK
  <2>3. RowSet({})
    BY FS_EmptySet DEF RowSet
  <2>4. \A v \in Views : Fits(<<>>, v)
    BY CacheMaxBound DEF Fits
  <2> QED
    BY <2>2, <2>3, <2>4, FeedAssumption DEF FeedInit, RowsOK, NoLoad
<1>2. Inv /\ [FeedNext]_feedVars => Inv'
  <2> SUFFICES ASSUME FeedInv, IdsOK, RowsOK, [FeedNext]_feedVars PROVE Inv'
    OBVIOUS
  <2>1. FeedInv' /\ FeedTypes /\ FeedTypes'
    BY FeedInvStep DEF FeedInv
  <2>2. IdsOK'
    BY <2>1, IdsStep
  <2>3. RowsOK'
    BY <2>1, TablesStep, ViewsStep, LoadsStep, ClockStep DEF RowsOK, Fits
  <2> QED
    BY <2>1, <2>2, <2>3
<1>3. Inv => FeedTypeOK
  <2> SUFFICES ASSUME FeedTypes, IdsOK, RowsOK PROVE FeedTypeOK
    BY DEF FeedInv
  <2>1. lastId \in 0..MaxPlans
    <3>1. Cardinality(Recording) \in Nat
      BY FS_CardinalityType DEF IdsOK
    <3> QED
      BY <3>1, FeedAssumption DEF IdsOK, FeedTypes
  <2>2. \A s \in FeedSites : /\ run[s].plan \in {"-", "start", "delete"}
                             /\ run[s].phase \in RunPhases
    BY DEF FeedTypes, FeedRun
  <2>3. \A i \in 1..MaxLoads : loads[i].at \in {"unused", "read", "set", "end"}
    BY DEF FeedTypes, LoadTypeOK
  <2> QED
    BY <2>1, <2>2, <2>3 DEF FeedTypeOK, FeedTypes, RowsOK, Fits, RunPhases
<1> QED
  BY <1>1, <1>2, <1>3, PTL DEF FeedSpec
=============================================================================
