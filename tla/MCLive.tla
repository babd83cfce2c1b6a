------------------------------- MODULE MCLive ------------------------------
(***************************************************************************)
(* What has to come to an end, for TLC: a plan, the bring-up of a site's   *)
(* containers on Docker, and the log streams of containers that come and   *)
(* go.  They share no variable, so a behaviour of one beside the others is *)
(* a behaviour of its own, and component is the part that runs.  The other *)
(* two are at rest: nobody has asked anything of them yet, so fairness     *)
(* asks no step of them.                                                   *)
(***************************************************************************)
EXTENDS OrchPlan, Engine, LogStream

VARIABLE component
liveVars == <<component, vars, engineVars, logVars>>

LiveInit ==
  /\ component \in {"plan", "engine", "logs"}
  /\ Init /\ EngineInit /\ LogInit

LiveNext ==
  \/ /\ component = "plan" /\ Next
     /\ UNCHANGED <<component, engineVars, logVars>>
  \/ /\ component = "engine" /\ EngineNext
     /\ UNCHANGED <<component, vars, logVars>>
  \/ /\ component = "logs" /\ LogNext
     /\ UNCHANGED <<component, vars, engineVars>>

LiveSpec == LiveInit /\ [][LiveNext]_liveVars
            /\ EngineFair /\ LogFair
============================================================================
