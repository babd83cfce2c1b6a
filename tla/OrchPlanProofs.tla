--------------------------- MODULE OrchPlanProofs ---------------------------
(***************************************************************************)
(* Proofs about OrchPlan, for plans of every length: its type invariant,   *)
(* the truth of the Result, the absence of silent residue, and the         *)
(* refinement of Saga.                                                     *)
(***************************************************************************)
EXTENDS OrchPlan, TLAPS

THEOREM TypeCorrect == Spec => []TypeOK
<1>1. Init => TypeOK
  <2> SUFFICES ASSUME Init PROVE TypeOK
    OBVIOUS
  <2>1. errored \subseteq Steps /\ reported \subseteq Steps
    BY DEF Init
  <2>2. status \in [Steps -> Status] /\ effect \in [Steps -> {"none", "partial", "full"}]
    BY DEF Init, Status
  <2>3. cur \in 1..(N + 1) /\ runs \in Nat
    BY PlanBounds DEF Init
  <2> QED
    BY <2>1, <2>2, <2>3 DEF Init, TypeOK
<1>2. TypeOK /\ [Next]_vars => TypeOK'
  <2> SUFFICES ASSUME TypeOK, [Next]_vars PROVE TypeOK'
    OBVIOUS
  <2> USE PlanBounds DEF TypeOK, Steps, Status
  <2>1. CASE Cancel
    BY <2>1 DEF Cancel
  <2>2. CASE SkipStep
    BY <2>2 DEF SkipStep
  <2>3. CASE StartStep
    BY <2>3 DEF StartStep
  <2>4. CASE ApplySucceeds
    BY <2>4 DEF ApplySucceeds
  <2>5. CASE ApplyFails
    BY <2>5 DEF ApplyFails
  <2>6. CASE LoopEnds
    BY <2>6 DEF LoopEnds
  <2>7. CASE RollbackStep
    <3>1. PICK i \in Steps :
            /\ status' = [status EXCEPT ![i] = "rolled-back"]
            /\ \E e \in {"none", "partial", "full"} :
                 effect' = [effect EXCEPT ![i] = e]
            /\ errored' \in {errored, errored \union {i}}
            /\ reported' \in {reported, reported \union {i}}
      BY <2>7 DEF RollbackStep
    <3>2. status' \in [Steps -> Status]
      BY <3>1
    <3>3. errored' \subseteq Steps /\ reported' \subseteq Steps
      BY <3>1
    <3>4. effect' \in [Steps -> {"none", "partial", "full"}]
      BY <3>1
    <3>5. UNCHANGED <<phase, cur, finalError, cancelled, committed, runs>>
          /\ rolledBack' = TRUE
      BY <2>7 DEF RollbackStep
    <3> QED
      BY <3>2, <3>3, <3>4, <3>5
  <2>8. CASE RollbackEnds
    BY <2>8 DEF RollbackEnds
  <2>9. CASE RunAgain
    <3>1. /\ errored' \subseteq Steps
          /\ reported' \subseteq Steps
      BY <2>9 DEF RunAgain
    <3>2. status' \in [Steps -> Status]
      BY <2>9 DEF RunAgain
    <3>3. cur' \in 1..(N + 1) /\ runs' \in Nat
      BY <2>9 DEF RunAgain
    <3> QED
      BY <2>9, <3>1, <3>2, <3>3 DEF RunAgain
  <2>10. CASE UNCHANGED vars
    BY <2>10 DEF vars
  <2> QED
    BY <2>1, <2>2, <2>3, <2>4, <2>5, <2>6, <2>7, <2>8, <2>9, <2>10
    DEF Next, Step
<1> QED
  BY <1>1, <1>2, PTL DEF Spec

-----------------------------------------------------------------------------
(* What the loop knows about the steps around its index.                   *)
LoopInv ==
  phase = "loop" =>
    /\ finalError = "nil" /\ ~rolledBack
    /\ \A i \in Steps : i < cur => status[i] \in {"succeeded", "skipped"}
    /\ \A i \in Steps : i > cur => status[i] = "pending"
    /\ cur \in Steps => status[cur] \in {"pending", "running"}
    /\ ~cancelled \/ (cur \in Steps /\ status[cur] = "running") =>
         \A i \in Steps : i < cur => status[i] = "succeeded"

(* The steps in force are always a prefix of the plan.                     *)
PrefixInForce == \E k \in 0..N : InForce = 1..k

(* The bookkeeping of the Result, and what it says of the world.           *)
ResultInv ==
  /\ phase = "rollback" => finalError # "nil"
  /\ phase # "loop" => \A i \in Steps : status[i] \notin {"pending", "running"}
  /\ phase = "done" =>
       /\ finalError = "nil" => committed /\ \A i \in Steps : status[i] = "succeeded"
       /\ finalError # "nil" => InForce = {}
  /\ finalError = "step" <=> \E i \in Steps : status[i] = "failed"
  /\ rolledBack <=> \E i \in Steps : status[i] = "rolled-back"
  /\ \A i \in Steps : status[i] = "succeeded" => effect[i] = "full"
  /\ ~committed =>
       \A i \in Thorough : effect[i] # "none" =>
         i \in reported \/ status[i] = "succeeded"

IInv == LoopInv /\ PrefixInForce /\ ResultInv

LEMMA InitIInv == Init => IInv
<1> SUFFICES ASSUME Init PROVE IInv
  OBVIOUS
<1>1. LoopInv /\ ResultInv
  BY PlanBounds DEF Init, LoopInv, ResultInv, InForce, Steps
<1>2. InForce = 1..0
  BY PlanBounds DEF Init, InForce, Steps
<1> QED
  BY <1>1, <1>2, PlanBounds DEF IInv, PrefixInForce

(* A step that leaves every status that matters alone keeps the prefix.    *)
LEMMA SameInForce ==
  ASSUME PrefixInForce, InForce' = InForce
  PROVE  PrefixInForce'
BY DEF PrefixInForce

(* The last step in force is the end of the prefix.                        *)
LEMMA LastIsEnd ==
  ASSUME NEW k \in 0..N, InForce = 1..k, NEW i \in Steps, LastInForce(i)
  PROVE  i = k
<1>1. k \in InForce
  BY PlanBounds DEF LastInForce, Steps
<1> QED
  BY <1>1, PlanBounds DEF LastInForce, Steps

LEMMA NextIInv == TypeOK /\ IInv /\ [Next]_vars => IInv'
<1> SUFFICES ASSUME TypeOK, IInv, [Next]_vars PROVE IInv'
  OBVIOUS
<1> USE PlanBounds
<1>1. CASE Cancel
  <2>1. InForce' = InForce
    BY <1>1 DEF Cancel, InForce
  <2>2. LoopInv' /\ ResultInv'
    BY <1>1, <2>1 DEF Cancel, IInv, LoopInv, ResultInv, TypeOK, Steps
  <2> QED
    BY <2>1, <2>2, SameInForce DEF IInv
<1>2. CASE SkipStep
  <2>1. InForce' = InForce
    BY <1>2 DEF SkipStep, InForce, TypeOK, Steps
  <2>2. LoopInv'
    BY <1>2 DEF SkipStep, IInv, LoopInv, TypeOK, Steps
  <2>3. ResultInv'
    BY <1>2 DEF SkipStep, IInv, ResultInv, TypeOK, Steps
  <2> QED
    BY <2>1, <2>2, <2>3, SameInForce DEF IInv
<1>3. CASE StartStep
  <2>1. InForce' = InForce
    BY <1>3 DEF StartStep, InForce, TypeOK, Steps
  <2>2. LoopInv'
    BY <1>3 DEF StartStep, IInv, LoopInv, TypeOK, Steps
  <2>3. ResultInv'
    BY <1>3 DEF StartStep, IInv, ResultInv, TypeOK, Steps
  <2> QED
    BY <2>1, <2>2, <2>3, SameInForce DEF IInv
<1>4. CASE ApplySucceeds
  <2>1. InForce' = 1..cur
    BY <1>4 DEF ApplySucceeds, IInv, LoopInv, InForce, TypeOK, Steps
  <2>2. LoopInv'
    BY <1>4 DEF ApplySucceeds, IInv, LoopInv, TypeOK, Steps
  <2>3. ResultInv'
    BY <1>4 DEF ApplySucceeds, IInv, ResultInv, LoopInv, TypeOK, Steps
  <2>4. PrefixInForce'
    BY <1>4, <2>1 DEF ApplySucceeds, PrefixInForce, Steps
  <2> QED
    BY <2>2, <2>3, <2>4 DEF IInv
<1>5. CASE ApplyFails
  <2>1. InForce' = InForce
    BY <1>5 DEF ApplyFails, IInv, LoopInv, InForce, TypeOK, Steps
  <2>2. LoopInv'
    BY <1>5 DEF ApplyFails, LoopInv
  <2>3. ResultInv'
    BY <1>5 DEF ApplyFails, IInv, ResultInv, LoopInv, TypeOK, Steps
  <2> QED
    BY <2>1, <2>2, <2>3, SameInForce DEF IInv
<1>6. CASE LoopEnds
  <2>1. InForce' = InForce
    BY <1>6 DEF LoopEnds, InForce
  <2>2. LoopInv'
    BY <1>6 DEF LoopEnds, LoopInv
  <2>3. ResultInv'
    BY <1>6 DEF LoopEnds, IInv, ResultInv, LoopInv, TypeOK, Steps
  <2> QED
    BY <2>1, <2>2, <2>3, SameInForce DEF IInv
<1>7. CASE RollbackStep
  <2>1. PICK i \in Steps : /\ LastInForce(i)
                           /\ status' = [status EXCEPT ![i] = "rolled-back"]
    BY <1>7 DEF RollbackStep
  <2>2. PICK k \in 0..N : InForce = 1..k
    BY DEF IInv, PrefixInForce
  <2>3. i = k
    BY <2>1, <2>2, LastIsEnd
  <2>4. InForce' = 1..(k-1)
    BY <2>1, <2>2, <2>3 DEF InForce, TypeOK, Steps
  <2>5. PrefixInForce'
    <3>1. k - 1 \in 0..N
      BY <2>3 DEF Steps
    <3> QED
      BY <2>4, <3>1 DEF PrefixInForce
  <2>6. LoopInv'
    BY <1>7 DEF RollbackStep, LoopInv
  <2>7. ResultInv'
    <3>1. /\ UNCHANGED <<phase, cur, finalError, cancelled, committed, runs>>
          /\ rolledBack' = TRUE
          /\ phase = "rollback"
          /\ \A j \in Thorough : effect'[j] # "none" =>
               j \in reported' \/ (j # i /\ effect[j] # "none")
          /\ \A j \in Steps \ {i} : effect'[j] = effect[j]
          /\ reported \subseteq reported'
      <4>1. PICK j \in Steps :
              /\ status' = [status EXCEPT ![j] = "rolled-back"]
              /\ \E left \in {"none", "partial", "full"} :
                   /\ effect' = [effect EXCEPT ![j] = left]
                   /\ \/ /\ j \in Thorough => left = "none"
                         /\ reported' = reported
                      \/ reported' = reported \union {j}
              /\ LastInForce(j)
        BY <1>7 DEF RollbackStep
      <4>2. j = k
        BY <4>1, <2>2, LastIsEnd
      <4>3. i = j
        BY <2>3, <4>2
      <4> QED
        BY <1>7, <4>1, <4>3 DEF RollbackStep, TypeOK, Steps
    <3>2. status[i] = "succeeded"
      BY <2>1 DEF LastInForce, InForce
    <3> QED
      BY <2>1, <3>1, <3>2 DEF IInv, ResultInv, TypeOK, Steps
  <2> QED
    BY <2>5, <2>6, <2>7 DEF IInv
<1>8. CASE RollbackEnds
  <2>1. InForce' = InForce
    BY <1>8 DEF RollbackEnds, InForce
  <2>2. LoopInv' /\ ResultInv'
    BY <1>8, <2>1 DEF RollbackEnds, IInv, LoopInv, ResultInv, TypeOK, Steps
  <2> QED
    BY <2>1, <2>2, SameInForce DEF IInv
<1>9. CASE RunAgain
  <2>1. InForce' = 1..0
    BY <1>9 DEF RunAgain, InForce, Steps
  <2>2. LoopInv'
    BY <1>9 DEF RunAgain, LoopInv, Steps
  <2>3. ResultInv'
    BY <1>9 DEF RunAgain, IInv, ResultInv, InForce, TypeOK, Steps
  <2> QED
    BY <2>1, <2>2, <2>3 DEF IInv, PrefixInForce
<1>10. CASE UNCHANGED vars
  <2>1. InForce' = InForce
    BY <1>10 DEF vars, InForce
  <2>2. LoopInv' /\ ResultInv'
    BY <1>10, <2>1 DEF vars, IInv, LoopInv, ResultInv
  <2> QED
    BY <2>1, <2>2, SameInForce DEF IInv
<1> QED
  BY <1>1, <1>2, <1>3, <1>4, <1>5, <1>6, <1>7, <1>8, <1>9, <1>10
  DEF Next, Step

THEOREM InvariantHolds == Spec => []IInv
BY InitIInv, NextIInv, TypeCorrect, PTL DEF Spec

(* The Result of Run is the truth about the plan, for every plan length.   *)
THEOREM ResultIsTrue == Spec => []AllOrNothing
<1>1. TypeOK /\ IInv => AllOrNothing
  BY DEF IInv, ResultInv, AllOrNothing
<1> QED
  BY <1>1, InvariantHolds, TypeCorrect, PTL

(* Whatever an unsuccessful plan leaves in the world of a step that undoes *)
(* itself or fails to, some Result blamed, for any division of the steps   *)
(* into such and others (rollbackPrior).                                   *)
THEOREM ResidueIsReported == Spec => []NoSilentResidue
<1>1. IInv => NoSilentResidue
  BY PlanBounds DEF IInv, ResultInv, InForce, NoSilentResidue, Steps
<1> QED
  BY <1>1, InvariantHolds, PTL

(* The runner implements the all-or-nothing transaction.                   *)
THEOREM PlanIsASaga == Spec => ImplementsSaga
<1>1. Init => S!Init
  BY PlanBounds DEF Init, S!Init, InForce, SagaOutcome, Steps
<1>2. TypeOK /\ IInv /\ IInv' /\ [Next]_vars => [S!Next]_(S!sagaVars)
  <2> SUFFICES ASSUME TypeOK, IInv, IInv', [Next]_vars
               PROVE  [S!Next]_(S!sagaVars)
    OBVIOUS
  <2> USE PlanBounds
  <2>1. CASE Cancel \/ SkipStep \/ StartStep \/ UNCHANGED vars
    <3>1. InForce' = InForce
      BY <2>1 DEF Cancel, SkipStep, StartStep, vars, InForce, TypeOK, Steps
    <3>2. SagaOutcome' = SagaOutcome
      BY <2>1 DEF Cancel, SkipStep, StartStep, vars, SagaOutcome
    <3> QED
      BY <3>1, <3>2 DEF S!sagaVars
  <2>2. CASE ApplySucceeds
    <3>1. InForce = 1..(cur-1) /\ InForce' = 1..cur
      BY <2>2 DEF ApplySucceeds, IInv, LoopInv, InForce, TypeOK, Steps
    <3>2. SagaOutcome = "open" /\ SagaOutcome' = "open"
      BY <2>2 DEF ApplySucceeds, SagaOutcome
    <3>3. S!Extend
      BY <2>2, <3>1, <3>2 DEF ApplySucceeds, S!Extend, Steps
    <3> QED
      BY <3>3 DEF S!Next
  <2>3. CASE ApplyFails
    <3>1. InForce' = InForce
      BY <2>3 DEF ApplyFails, IInv, LoopInv, InForce, TypeOK, Steps
    <3>2. SagaOutcome = "open" /\ SagaOutcome' = "undoing"
      BY <2>3 DEF ApplyFails, SagaOutcome
    <3> QED
      BY <3>1, <3>2 DEF S!Next, S!Abandon
  <2>4. CASE LoopEnds
    <3>1. InForce' = InForce /\ SagaOutcome = "open"
      BY <2>4 DEF LoopEnds, InForce, SagaOutcome
    <3>2. CASE cancelled
      <4>1. SagaOutcome' = "undoing"
        BY <2>4, <3>2 DEF LoopEnds, SagaOutcome
      <4> QED
        BY <3>1, <4>1 DEF S!Next, S!Abandon
    <3>3. CASE ~cancelled
      <4>1. SagaOutcome' = "committed"
        BY <2>4, <3>3 DEF LoopEnds, SagaOutcome, IInv, LoopInv
      <4>2. InForce = 1..N
        BY <2>4, <3>3 DEF LoopEnds, IInv, LoopInv, InForce, Steps
      <4> QED
        BY <3>1, <4>1, <4>2 DEF S!Next, S!Commit
    <3> QED
      BY <3>2, <3>3
  <2>5. CASE RollbackStep
    <3>1. PICK i \in Steps : /\ LastInForce(i)
                             /\ status' = [status EXCEPT ![i] = "rolled-back"]
      BY <2>5 DEF RollbackStep
    <3>2. PICK k \in 0..N : InForce = 1..k
      BY DEF IInv, PrefixInForce
    <3>3. i = k
      BY <3>1, <3>2, LastIsEnd
    <3>4. InForce = 1..i /\ InForce' = 1..(i-1)
      BY <3>1, <3>2, <3>3 DEF InForce, TypeOK, Steps
    <3>5. SagaOutcome = "undoing" /\ SagaOutcome' = "undoing"
      BY <2>5 DEF RollbackStep, SagaOutcome
    <3>6. S!Undo
      BY <3>4, <3>5 DEF S!Undo, Steps
    <3> QED
      BY <3>6 DEF S!Next
  <2>6. CASE RollbackEnds
    <3>1. InForce = {} /\ InForce' = {}
      BY <2>6 DEF RollbackEnds, InForce
    <3>2. SagaOutcome = "undoing" /\ SagaOutcome' = "aborted"
      BY <2>6 DEF RollbackEnds, SagaOutcome, IInv, ResultInv
    <3> QED
      BY <3>1, <3>2 DEF S!Next, S!Abort
  <2>7. CASE RunAgain
    <3>1. InForce' = {}
      BY <2>7 DEF RunAgain, InForce, Steps
    <3>2. SagaOutcome \in {"committed", "aborted"} /\ SagaOutcome' = "open"
      BY <2>7 DEF RunAgain, SagaOutcome
    <3> QED
      BY <3>1, <3>2 DEF S!Next, S!Again
  <2> QED
    BY <2>1, <2>2, <2>3, <2>4, <2>5, <2>6, <2>7 DEF Next, Step
<1> QED
  BY <1>1, <1>2, InvariantHolds, TypeCorrect, PTL
  DEF Spec, ImplementsSaga, S!Spec
=============================================================================
