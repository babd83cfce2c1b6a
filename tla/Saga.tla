-------------------------------- MODULE Saga --------------------------------
(***************************************************************************)
(* What internal/orch promises the lifecycle code that uses it: a plan is  *)
(* run as a single transaction.  Steps come into force one after the other *)
(* and the plan commits with all of them in force; or it is abandoned, and *)
(* the steps in force are then given up strictly in reverse order until    *)
(* none is left.  Nothing else is ever visible: no step is skipped over on *)
(* the way in, and an abandoned plan never resumes.                        *)
(***************************************************************************)
EXTENDS Naturals

CONSTANT N                    \* number of steps of the plan, a natural number

VARIABLES
  inForce,                    \* the steps whose effect the plan answers for
  outcome                     \* how far the transaction has got

sagaVars == <<inForce, outcome>>

Outcomes == {"open", "undoing", "committed", "aborted"}

Init ==
  /\ inForce = {}
  /\ outcome = "open"

(* The next step of the plan takes effect. *)
Extend ==
  /\ outcome = "open"
  /\ \E i \in 1..N : inForce = 1..(i-1) /\ inForce' = 1..i
  /\ UNCHANGED outcome

Commit ==
  /\ outcome = "open"
  /\ inForce = 1..N
  /\ outcome' = "committed"
  /\ UNCHANGED inForce

Abandon ==
  /\ outcome = "open"
  /\ outcome' = "undoing"
  /\ UNCHANGED inForce

(* The most recent step still in force is given up. *)
Undo ==
  /\ outcome = "undoing"
  /\ \E i \in 1..N : inForce = 1..i /\ inForce' = 1..(i-1)
  /\ UNCHANGED outcome

Abort ==
  /\ outcome = "undoing"
  /\ inForce = {}
  /\ outcome' = "aborted"
  /\ UNCHANGED inForce

(* A plan that ended may be run again, as a new transaction. *)
Again ==
  /\ outcome \in {"committed", "aborted"}
  /\ outcome' = "open"
  /\ inForce' = {}

Next == Extend \/ Commit \/ Abandon \/ Undo \/ Abort \/ Again

Spec == Init /\ [][Next]_sagaVars
=============================================================================
