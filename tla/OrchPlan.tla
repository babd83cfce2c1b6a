------------------------------ MODULE OrchPlan ------------------------------
(***************************************************************************)
(* The plan runner of internal/orch/plan.go: Run and rollbackPrior.  Every *)
(* site lifecycle method is one such plan.  Run executes the steps in      *)
(* order on one goroutine; the context can be cancelled from another one   *)
(* at any moment, and both Apply and Rollback of a step may fail (a panic  *)
(* is turned into an error by safeApply and safeRollback, so it is not a   *)
(* case of its own).  `effect' is what the steps did to the world; it is   *)
(* the one part that survives a run, because a plan may be run again.  The *)
(* steps are not alike in how they roll back: some undo what they did or   *)
(* return the error (EnsureNetworkStep), others return nil whatever is     *)
(* left, on purpose (EnsureVolumeStep), because they only log the error    *)
(* (CreateContainersStep) or because they have no undo (PullImagesStep).   *)
(***************************************************************************)
EXTENDS Naturals, FiniteSets

CONSTANTS
  N,                          \* number of steps in the plan
  Thorough,                   \* the steps whose Rollback undoes them or fails
  MaxRuns                     \* bound: how often the plan is run

ASSUME PlanBounds == N \in Nat /\ MaxRuns \in Nat /\ Thorough \subseteq 1..N

Steps == 1..N

VARIABLES
  phase,                      \* where Run is: the loop, rollbackPrior, returned
  cur,                        \* the loop index i
  status,                     \* Result.Steps[i].Status
  errored,                    \* the steps with Result.Steps[i].Error # nil
  finalError,                 \* Result.FinalError
  rolledBack,                 \* Result.RolledBack
  cancelled,                  \* ctx.Err() # nil
  effect,                     \* what each step has done to the world
  reported,                   \* steps some Result of this plan blamed
  committed,                  \* some run of this plan succeeded
  runs                        \* runs started

vars == <<phase, cur, status, errored, finalError, rolledBack, cancelled,
          effect, reported, committed, runs>>

Status == {"pending", "running", "succeeded", "failed", "rolled-back",
           "skipped"}

(* The loop of rollbackPrior passes over every step that is not Succeeded, *)
(* so the next one it undoes is the last Succeeded one.                    *)
InForce == {i \in Steps : status[i] = "succeeded"}

LastInForce(i) == i \in InForce /\ \A j \in InForce : j <= i

Init ==
  /\ phase = "loop"
  /\ cur = 1
  /\ status = [i \in Steps |-> "pending"]
  /\ errored = {}
  /\ finalError = "nil"
  /\ rolledBack = FALSE
  /\ cancelled = FALSE
  /\ effect = [i \in Steps |-> "none"]
  /\ reported = {}
  /\ committed = FALSE
  /\ runs = 1

(* The caller's context is cancelled (the user closes the modal, the       *)
(* daemon shuts down); Run notices at its next check.                      *)
Cancel ==
  /\ phase \in {"loop", "rollback"}
  /\ ~cancelled
  /\ cancelled' = TRUE
  /\ UNCHANGED <<phase, cur, status, errored, finalError, rolledBack,
                 effect, reported, committed, runs>>

(* A step the loop reaches after the cancellation. *)
SkipStep ==
  /\ phase = "loop" /\ cur \in Steps
  /\ status[cur] = "pending" /\ cancelled
  /\ status' = [status EXCEPT ![cur] = "skipped"]
  /\ errored' = errored \union {cur}
  /\ cur' = cur + 1
  /\ UNCHANGED <<phase, finalError, rolledBack, cancelled,
                 effect, reported, committed, runs>>

StartStep ==
  /\ phase = "loop" /\ cur \in Steps
  /\ status[cur] = "pending" /\ ~cancelled
  /\ status' = [status EXCEPT ![cur] = "running"]
  /\ UNCHANGED <<phase, cur, errored, finalError, rolledBack, cancelled,
                 effect, reported, committed, runs>>

ApplySucceeds ==
  /\ phase = "loop" /\ cur \in Steps /\ status[cur] = "running"
  /\ status' = [status EXCEPT ![cur] = "succeeded"]
  /\ effect' = [effect EXCEPT ![cur] = "full"]
  /\ cur' = cur + 1
  /\ UNCHANGED <<phase, errored, finalError, rolledBack, cancelled,
                 reported, committed, runs>>

(* Apply returns an error or panics, having done nothing, something or     *)
(* all of its work; every later step is marked Skipped at once.            *)
ApplyFails ==
  /\ phase = "loop" /\ cur \in Steps /\ status[cur] = "running"
  /\ \E left \in {effect[cur], "partial", "full"} :
       effect' = [effect EXCEPT ![cur] = left]
  /\ status' = [i \in Steps |-> IF i < cur THEN status[i]
                                ELSE IF i = cur THEN "failed" ELSE "skipped"]
  /\ errored' = errored \union {cur}
  /\ reported' = reported \union {cur}
  /\ finalError' = "step"
  /\ phase' = "rollback"
  /\ UNCHANGED <<cur, rolledBack, cancelled, committed, runs>>

(* Mutation of LoopEnds: no check of the context after the last step. *)
LoopEndsUnchecked ==
  /\ phase = "loop" /\ cur = N + 1
  /\ phase' = "done"
  /\ committed' = TRUE
  /\ UNCHANGED <<cur, status, errored, finalError, rolledBack, cancelled,
                 effect, reported, runs>>

(* The loop ends.  A context that is cancelled by then fails the plan even *)
(* if every step succeeded.                                                *)
LoopEnds ==
  /\ phase = "loop" /\ cur = N + 1
  /\ \/ /\ ~cancelled
        /\ phase' = "done"
        /\ committed' = TRUE
        /\ UNCHANGED finalError
     \/ /\ cancelled
        /\ phase' = "rollback"
        /\ finalError' = "cancelled"
        /\ UNCHANGED committed
  /\ UNCHANGED <<cur, status, errored, rolledBack, cancelled,
                 effect, reported, runs>>

(* Mutation of RollbackStep: the loop runs from the first step upwards. *)
RollbackForwards ==
  /\ phase = "rollback"
  /\ \E i \in InForce :
       /\ \A j \in InForce : i <= j
       /\ status' = [status EXCEPT ![i] = "rolled-back"]
       /\ effect' = [effect EXCEPT ![i] = "none"]
  /\ rolledBack' = TRUE
  /\ UNCHANGED <<phase, cur, errored, finalError, cancelled, reported,
                 committed, runs>>

(* Mutation of RollbackStep: the error of a rollback is only logged. *)
RollbackLogsOnly ==
  /\ phase = "rollback"
  /\ \E i \in Steps :
       /\ LastInForce(i)
       /\ status' = [status EXCEPT ![i] = "rolled-back"]
       /\ \E left \in {"none", "partial", "full"} :
            effect' = [effect EXCEPT ![i] = left]
  /\ rolledBack' = TRUE
  /\ UNCHANGED <<phase, cur, errored, finalError, cancelled, reported,
                 committed, runs>>

(* One turn of rollbackPrior.  Its context is detached from the caller's,  *)
(* so a cancellation does not stop it, and an error does not either: the   *)
(* status becomes rolled-back in both cases, and Error tells them apart.   *)
(* A nil error means that the effect is gone only of a thorough step.      *)
RollbackStep ==
  /\ phase = "rollback"
  /\ \E i \in Steps :
       /\ LastInForce(i)
       /\ status' = [status EXCEPT ![i] = "rolled-back"]
       /\ \/ /\ \E left \in {"none", "partial", "full"} :
                  /\ i \in Thorough => left = "none"
                  /\ effect' = [effect EXCEPT ![i] = left]
             /\ UNCHANGED <<errored, reported>>
          \/ /\ \E left \in {"none", "partial", "full"} :
                  effect' = [effect EXCEPT ![i] = left]
             /\ errored' = errored \union {i}
             /\ reported' = reported \union {i}
  /\ rolledBack' = TRUE
  /\ UNCHANGED <<phase, cur, finalError, cancelled, committed, runs>>

RollbackEnds ==
  /\ phase = "rollback"
  /\ InForce = {}
  /\ phase' = "done"
  /\ UNCHANGED <<cur, status, errored, finalError, rolledBack, cancelled,
                 effect, reported, committed, runs>>

(* The caller runs the plan again, in the world the last run left. *)
RunAgain ==
  /\ phase = "done" /\ runs < MaxRuns
  /\ phase' = "loop"
  /\ cur' = 1
  /\ status' = [i \in Steps |-> "pending"]
  /\ errored' = {}
  /\ finalError' = "nil"
  /\ rolledBack' = FALSE
  /\ cancelled' = FALSE
  /\ runs' = runs + 1
  /\ UNCHANGED <<effect, reported, committed>>

Step ==
  \/ SkipStep \/ StartStep \/ ApplySucceeds \/ ApplyFails
  \/ LoopEnds \/ RollbackStep \/ RollbackEnds

Next == Cancel \/ Step \/ RunAgain

Spec == Init /\ [][Next]_vars

-----------------------------------------------------------------------------
(* The type invariant.                                                     *)
TypeOK ==
  /\ phase \in {"loop", "rollback", "done"}
  /\ cur \in 1..(N + 1)
  /\ status \in [Steps -> Status]
  /\ errored \subseteq Steps
  /\ finalError \in {"nil", "step", "cancelled"}
  /\ rolledBack \in BOOLEAN
  /\ cancelled \in BOOLEAN
  /\ effect \in [Steps -> {"none", "partial", "full"}]
  /\ reported \subseteq Steps
  /\ committed \in BOOLEAN
  /\ runs \in Nat

(* The Result Run returns tells the caller the truth: a nil FinalError     *)
(* means every step is in force, any other one that the plan answers for   *)
(* none any more; RolledBack says whether a rollback fired, and a step     *)
(* error blames a failed step.                                             *)
(* StartSite writes Started = true on nothing but this FinalError.         *)
AllOrNothing ==
  phase = "done" =>
    /\ finalError = "nil" =>
         \A i \in Steps : status[i] = "succeeded" /\ effect[i] = "full"
    /\ finalError # "nil" => InForce = {}
    /\ finalError = "step" <=> \E i \in Steps : status[i] = "failed"
    /\ rolledBack <=> \E i \in Steps : status[i] = "rolled-back"

(* The runner itself leaves nothing behind in silence: as long as no run   *)
(* of the plan succeeded, what is still in the world of a step that undoes *)
(* itself or fails to belongs to a step that the Result of this run or of  *)
(* an earlier one reported an error for.  Of the other steps anything may  *)
(* be left with no error in any Result.                                    *)
NoSilentResidue ==
  phase = "done" /\ ~committed =>
    \A i \in Thorough : effect[i] # "none" => i \in reported

SagaOutcome ==
  CASE phase = "loop" -> "open"
    [] phase = "rollback" -> "undoing"
    [] phase = "done" /\ finalError = "nil" -> "committed"
    [] OTHER -> "aborted"

S == INSTANCE Saga WITH inForce <- InForce, outcome <- SagaOutcome

(* Run implements the transaction of module Saga, the Succeeded steps being *)
(* the ones in force: they only ever grow in plan order and are given up    *)
(* strictly in reverse (rollbackPrior), a step is never undone while a      *)
(* later one that may rest on it is in force, and an abandoned plan neither *)
(* resumes nor commits.                                                     *)
ImplementsSaga == S!Spec
=============================================================================
