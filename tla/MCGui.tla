------------------------------- MODULE MCGui -------------------------------
(***************************************************************************)
(* The parts of the user interface and what feeds it, for TLC: the list of *)
(* sites, the banners, the health runner and its toasts, the activity      *)
(* feed, the describe cache and the pairing card.  They share no variable, *)
(* so a behaviour of one beside the others is a behaviour of its own: the  *)
(* state space is their sum, and component is the part that runs.          *)
(***************************************************************************)
EXTENDS GuiSites, Banners, Toasts, Health, ActivityFeed, DescribeCache,
        CaPairing, TLC

CONSTANTS ga, gb

(* A Windows host with mkcert, whose Docker may hang and whose disk fills. *)
SomeHost ==
  [rosetta |-> FALSE, mntc |-> TRUE, long |-> FALSE, longPaths |-> FALSE,
   trusted |-> TRUE, old |-> FALSE, desktop |-> TRUE, sites |-> TRUE,
   engine |-> TRUE, tls |-> TRUE]
TwoWorlds == {[docker |-> "up", free |-> "fine", port |-> "router"],
              [docker |-> "hung", free |-> "low", port |-> "router"]}

GuiSymmetry == Permutations({ga, gb})

VARIABLE component
screen == <<screenVars, bannerVars, toastVars, healthVars>>
panels == <<feedVars, cacheVars, pairingVars>>

GuiPartsInit ==
  /\ component \in {"list", "banners", "toasts", "health", "actions",
                    "feed", "cache", "pairing"}
  /\ GuiInit /\ BannersInit /\ ToastsInit /\ HealthInit
  /\ FeedInit /\ CacheInit /\ PairingInit
  /\ component # "list" => rows = NoList
  /\ component # "banners" => trusted
  /\ component \notin {"health", "actions"} => world.docker = "up"
  /\ component # "pairing" => selected = CHOOSE s \in PanelSites : TRUE

(* The health runner's batches and its executor of remediations meet only  *)
(* in its close, so each is looked at beside a resting other.              *)
GuiPartsNext ==
  /\ \/ /\ UNCHANGED panels
        /\ \/ /\ component = "list" /\ GuiNext
              /\ UNCHANGED <<bannerVars, toastVars, healthVars>>
           \/ /\ component = "banners" /\ BannersNext
              /\ UNCHANGED <<screenVars, toastVars, healthVars>>
           \/ /\ component = "toasts" /\ ToastsNext
              /\ UNCHANGED <<screenVars, bannerVars, healthVars>>
           \/ /\ component = "health" /\ HealthNext /\ UNCHANGED actionVars
              /\ UNCHANGED <<screenVars, bannerVars, toastVars>>
           \/ /\ component = "actions" /\ HealthNext
              /\ UNCHANGED <<world, snap, shown, checkVars, batch, batches>>
              /\ UNCHANGED <<screenVars, bannerVars, toastVars>>
     \/ /\ UNCHANGED screen
        /\ \/ /\ component = "feed" /\ FeedNext
              /\ UNCHANGED <<cacheVars, pairingVars>>
           \/ /\ component = "cache" /\ CacheNext
              /\ UNCHANGED <<feedVars, pairingVars>>
           \/ /\ component = "pairing" /\ PairingNext
              /\ UNCHANGED <<feedVars, cacheVars>>
  /\ UNCHANGED component

guiPartsVars == <<component, screen, panels>>
GuiPartsSpec == GuiPartsInit /\ [][GuiPartsNext]_guiPartsVars

============================================================================
