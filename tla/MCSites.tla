------------------------------ MODULE MCSites ------------------------------
(***************************************************************************)
(* The parts the site manager keeps beside its lifecycle, for TLC: a       *)
(* site's database and its copies, the tree of worktree sites, lifecycle   *)
(* hooks, the router and the managed files.  They share no variable, so a  *)
(* behaviour of one beside the others is a behaviour of its own: the state *)
(* space is their sum, and component is the part that runs.                *)
(***************************************************************************)
EXTENDS SiteData, SiteTree, Hooks, Traefik, ManagedFiles, TLC

CONSTANTS u1, u2, posts

TwoEngines == {[engine |-> "mysql", version |-> <<8, 0>>],
               [engine |-> "mariadb", version |-> <<11, 4>>]}
MailService == <<"mail">>
ThreeReleases == <<("a" :> 1), ("a" :> 2), ("a" :> 3)>>
UserSymmetry == Permutations({u1, u2})

VARIABLE component
sitesVars == <<component, dataVars, treeVars, hookVars, routerVars, fileVars>>

(* A part that does not run has one of its initial states.  Each engine is *)
(* closed to the other (CompareMarker), so it does not matter which of the *)
(* two the site has first.                                                 *)
SitesInit ==
  /\ component \in {"data", "tree", "hooks", "router", "files"}
  /\ DataInit /\ TreeInit /\ HooksInit /\ RouterInit /\ FilesInit
  /\ row.image.engine = "mysql"
  /\ component # "data" => snaps = {}
  /\ component # "hooks" => failFlag["global"] = "unset"
  /\ component # "router" => mkcert = "none"
  /\ component # "files" => version = 1

SitesNext ==
  \/ /\ component = "data" /\ DataNext
     /\ UNCHANGED <<component, treeVars, hookVars, routerVars, fileVars>>
  \/ /\ component = "tree" /\ TreeNext
     /\ UNCHANGED <<component, dataVars, hookVars, routerVars, fileVars>>
  \/ /\ component = "hooks" /\ HooksNext
     /\ UNCHANGED <<component, dataVars, treeVars, routerVars, fileVars>>
  \/ /\ component = "router" /\ RouterNext
     /\ UNCHANGED <<component, dataVars, treeVars, hookVars, fileVars>>
  \/ /\ component = "files" /\ FilesNext
     /\ UNCHANGED <<component, dataVars, treeVars, hookVars, routerVars>>

SitesSpec == SitesInit /\ [][SitesNext]_sitesVars

============================================================================
