----------------------------- MODULE RpcProofs -----------------------------
(***************************************************************************)
(* Proofs about module Rpc, for any number of Calls, any capacity of the   *)
(* socket and any events: the pending map, the shutdown of the server, and *)
(* that a connection implements RemoteCall.                                *)
(***************************************************************************)
EXTENDS Rpc, TLAPS, SequenceTheorems

-----------------------------------------------------------------------------
(* Frames in a direction of the socket.                                    *)

Held(s) == {s[i] : i \in 1..Len(s)}

Distinct(s) == \A i, j \in 1..Len(s) : s[i] = s[j] => i = j

LEMMA EmptyHolds == <<>> \in Seq(Calls) /\ Held(<<>>) = {} /\ Distinct(<<>>)
BY DEF Held, Distinct

(* What is written joins what is there.                                    *)
LEMMA AppendHolds ==
  ASSUME NEW s \in Seq(Calls), NEW k \in Calls
  PROVE  /\ Append(s, k) \in Seq(Calls)
         /\ Held(Append(s, k)) = Held(s) \union {k}
         /\ Distinct(s) /\ k \notin Held(s) => Distinct(Append(s, k))
<1> DEFINE t == Append(s, k)
<1>1. /\ t \in Seq(Calls) /\ Len(t) = Len(s) + 1 /\ Len(s) \in Nat
      /\ \A i \in 1..Len(s) : t[i] = s[i]
      /\ t[Len(s) + 1] = k
  OBVIOUS
<1> HIDE DEF t
<1>2. Held(t) = Held(s) \union {k}
  <2>1. \A i \in 1..Len(t) : i \in 1..Len(s) \/ i = Len(s) + 1
    BY <1>1
  <2>2. \A i \in 1..Len(s) : i \in 1..Len(t)
    BY <1>1
  <2>3. Len(s) + 1 \in 1..Len(t)
    BY <1>1
  <2> QED
    BY <1>1, <2>1, <2>2, <2>3 DEF Held
<1>3. ASSUME Distinct(s), k \notin Held(s) PROVE Distinct(t)
  BY <1>1, <1>3 DEF Held, Distinct
<1> QED
  BY <1>1, <1>2, <1>3 DEF t

(* What is read is there no more.                                          *)
LEMMA TailHolds ==
  ASSUME NEW s \in Seq(Calls), s # <<>>
  PROVE  /\ Head(s) \in Calls /\ Head(s) \in Held(s)
         /\ Tail(s) \in Seq(Calls)
         /\ Held(Tail(s)) \subseteq Held(s)
         /\ Distinct(s) => Distinct(Tail(s)) /\ Head(s) \notin Held(Tail(s))
<1>1. /\ Head(s) \in Calls /\ Tail(s) \in Seq(Calls)
      /\ Len(Tail(s)) = Len(s) - 1 /\ Len(s) \in Nat /\ Len(s) > 0
      /\ \A i \in 1..Len(Tail(s)) : Tail(s)[i] = s[i + 1]
  BY HeadTailProperties, EmptySeq
<1>2. Head(s) = s[1]
  OBVIOUS
<1>3. \A i \in 1..Len(Tail(s)) : i + 1 \in 1..Len(s)
  BY <1>1
<1> QED
  BY <1>1, <1>2, <1>3 DEF Held, Distinct

-----------------------------------------------------------------------------
(* The invariant.                                                          *)

(* A Call has an outcome from the moment it leaves its select.             *)
Told == \A k \in Calls : pc[k] \in {"leaving", "returned"} <=>
                           outcome[k] # "none"

(* Only requests that were taken up are answered.                          *)
Answered ==
  /\ Held(responses) \subseteq handled
  /\ reader \in {"route", "send"} => incoming \in handled
  /\ server = "handle" => serving \in handled
  /\ \A k \in Calls : respCh[k] = "full" \/ outcome[k] = "answer" =>
       k \in handled

(* A request is on its way, or was taken up, only if its Call has sent it; *)
(* and it is on its way once.                                              *)
OnItsWay ==
  /\ \A k \in Calls : k \in handled \union Held(requests) =>
       /\ pc[k] \notin {"idle", "registered", "writing"}
       /\ outcome[k] # "unsent"
  /\ Distinct(requests)
  /\ Held(requests) \intersect handled = {}

(* A connection that took up a request after the shutdown ends with it.    *)
LastOne ==
  /\ OneAfterShutdown
  /\ late # {} => shut /\ server \in {"handle", "gone"}

RpcInv ==
  TypeOK /\ Told /\ Answered /\ OnItsWay /\ LastOne /\ PendingIsInFlight

LEMMA RpcInit == Init => RpcInv
<1> SUFFICES ASSUME Init PROVE RpcInv
  OBVIOUS
<1> QED
  BY EmptyHolds, RpcConstants
  DEF Init, RpcInv, TypeOK, Told, Answered, OnItsWay, LastOne,
      OneAfterShutdown, PendingIsInFlight, Pc, Outcome, Channel

LEMMA RpcNext == RpcInv /\ [Next]_vars => RpcInv'
<1> SUFFICES ASSUME RpcInv, [Next]_vars PROVE RpcInv'
  OBVIOUS
<1>0. requests \in Seq(Calls) /\ responses \in Seq(Calls)
  BY DEF RpcInv, TypeOK
<1> USE RpcConstants
    DEF RpcInv, TypeOK, Told, Answered, OnItsWay, LastOne,
        OneAfterShutdown, PendingIsInFlight, Pc, Outcome, Channel,
        client, ending, reading, daemon, wire, Leaves, Panic
<1>1. ASSUME NEW k \in Calls, Register(k) PROVE RpcInv'
  <2>1. TypeOK'
    BY <1>1 DEF Register
  <2>2. Told'
    BY <1>1 DEF Register
  <2>3. Answered'
    BY <1>1 DEF Register
  <2>4. OnItsWay'
    BY <1>1 DEF Register
  <2>5. LastOne'
    BY <1>1 DEF Register
  <2>6. PendingIsInFlight'
    BY <1>1 DEF Register
  <2> QED
    BY <2>1, <2>2, <2>3, <2>4, <2>5, <2>6
<1>2. ASSUME NEW k \in Calls, CallStep(k) PROVE RpcInv'
  <2>1. CASE LockWriter(k)
    <3>1. TypeOK'
      BY <2>1 DEF LockWriter
    <3>2. Told'
      BY <2>1 DEF LockWriter
    <3>3. Answered'
      BY <2>1 DEF LockWriter
    <3>4. OnItsWay'
      BY <2>1 DEF LockWriter
    <3>5. LastOne'
      BY <2>1 DEF LockWriter
    <3>6. PendingIsInFlight'
      BY <2>1 DEF LockWriter
    <3> QED
      BY <3>1, <3>2, <3>3, <3>4, <3>5, <3>6
  <2>2. CASE Write(k)
    <3>0. /\ Append(requests, k) \in Seq(Calls)
          /\ Held(Append(requests, k)) = Held(requests) \union {k}
          /\ k \notin Held(requests) => Distinct(Append(requests, k))
      BY <1>0, AppendHolds
    <3>a. /\ pc[k] = "writing" /\ mu' = Nobody
          /\ UNCHANGED <<ctxDone, pending, respCh, ending, reading, daemon,
                         responses>>
      BY <2>2 DEF Write
    <3>b. CASE Leaves(k, "unsent") /\ UNCHANGED requests
      <4>1. TypeOK'
        BY <3>a, <3>b
      <4>2. Told' /\ Answered' /\ LastOne' /\ PendingIsInFlight'
        BY <3>a, <3>b
      <4>3. OnItsWay'
        BY <3>a, <3>b
      <4> QED
        BY <4>1, <4>2, <4>3
    <3>c. CASE /\ requests' = Append(requests, k)
               /\ pc' = [pc EXCEPT ![k] = "sent"]
               /\ UNCHANGED outcome
      <4>1. TypeOK'
        BY <3>a, <3>c, <3>0
      <4>2. Told' /\ Answered' /\ LastOne' /\ PendingIsInFlight'
        BY <3>a, <3>c
      <4>3. OnItsWay'
        BY <3>a, <3>c, <3>0
      <4> QED
        BY <4>1, <4>2, <4>3
    <3> QED
      BY <2>2, <3>b, <3>c DEF Write
  <2>3. CASE Select(k)
    <3>1. TypeOK'
      <4>1. CASE Panic
        <5>1. UNCHANGED <<daemon, wire>>
          BY <2>3 DEF Select
        <5>2. /\ crashed' \in BOOLEAN /\ conn' \in BOOLEAN
              /\ UNCHANGED <<pc, outcome, ctxDone, pending, respCh, mu, closed,
                             reader, incoming, drainer, draining>>
          BY <4>1
        <5>3. UNCHANGED <<requests, responses, server, serving, shut, handled,
                         late>>
          BY <5>1
        <5> HIDE DEF Panic, Told, Answered, OnItsWay, LastOne, Pc, Outcome,
                     Channel, client, ending, reading, daemon, wire
        <5> QED
          BY <5>2, <5>3
      <4>2. CASE ~Panic
        BY <2>3, <4>2 DEF Select
      <4> QED
        BY <4>1, <4>2
    <3>2. Told'
      BY <2>3 DEF Select
    <3>3. Answered'
      BY <2>3 DEF Select
    <3>4. OnItsWay'
      BY <2>3 DEF Select
    <3>5. LastOne'
      BY <2>3 DEF Select
    <3>6. PendingIsInFlight'
      BY <2>3 DEF Select
    <3> QED
      BY <3>1, <3>2, <3>3, <3>4, <3>5, <3>6
  <2>4. CASE Park(k)
    BY <2>4 DEF Park
  <2>5. CASE Leave(k)
    BY <2>5 DEF Leave
  <2> QED
    BY <1>2, <2>1, <2>2, <2>3, <2>4, <2>5 DEF CallStep
<1>3. ASSUME NEW k \in Calls, Cancel(k) PROVE RpcInv'
  <2>1. TypeOK'
    BY <1>3 DEF Cancel
  <2>2. Told'
    BY <1>3 DEF Cancel
  <2>3. Answered'
    BY <1>3 DEF Cancel
  <2>4. OnItsWay'
    BY <1>3 DEF Cancel
  <2>5. LastOne'
    BY <1>3 DEF Cancel
  <2>6. PendingIsInFlight'
    BY <1>3 DEF Cancel
  <2> QED
    BY <2>1, <2>2, <2>3, <2>4, <2>5, <2>6
<1>4. CASE ReaderStep
  <2>1. CASE Decode
    BY <2>1, <1>0, TailHolds DEF Decode
  <2>2. CASE DecodeFails
    BY <2>2 DEF DecodeFails
  <2>3. CASE Route
    BY <2>3 DEF Route
  <2>4. CASE Send
    <3>1. TypeOK'
      <4>1. incoming \in Calls
        BY <2>4 DEF Send
      <4>2. CASE Panic
        BY <2>4, <4>2 DEF Send
      <4>3. CASE respCh[incoming] # "closed"
        BY <2>4, <4>1, <4>3 DEF Send
      <4> QED
        BY <2>4, <4>2, <4>3 DEF Send
    <3>2. Told'
      BY <2>4 DEF Send
    <3>3. Answered'
      BY <2>4 DEF Send
    <3>4. OnItsWay'
      BY <2>4 DEF Send
    <3>5. LastOne'
      BY <2>4 DEF Send
    <3>6. PendingIsInFlight'
      BY <2>4 DEF Send
    <3> QED
      BY <3>1, <3>2, <3>3, <3>4, <3>5, <3>6
  <2>5. CASE ReaderEnds
    BY <2>5 DEF ReaderEnds
  <2> QED
    BY <1>4, <2>1, <2>2, <2>3, <2>4, <2>5 DEF ReaderStep
<1>5. ASSUME NEW who \in {"reader", "closer"}, Shutdown(who) PROVE RpcInv'
  <2>1. TypeOK'
    BY <1>5 DEF Shutdown
  <2>2. Told'
    BY <1>5 DEF Shutdown
  <2>3. Answered'
    BY <1>5 DEF Shutdown
  <2>4. OnItsWay'
    BY <1>5 DEF Shutdown
  <2>5. LastOne'
    BY <1>5 DEF Shutdown
  <2>6. PendingIsInFlight'
    BY <1>5 DEF Shutdown
  <2> QED
    BY <2>1, <2>2, <2>3, <2>4, <2>5, <2>6
<1>6. CASE CloseChannel
  BY <1>6 DEF CloseChannel
<1>7. CASE CloseConn
  <2>1. TypeOK'
    BY <1>7 DEF CloseConn
  <2>2. Told'
    BY <1>7 DEF CloseConn
  <2>3. Answered'
    BY <1>7 DEF CloseConn
  <2>4. OnItsWay'
    BY <1>7 DEF CloseConn
  <2>5. LastOne'
    BY <1>7 DEF CloseConn
  <2>6. PendingIsInFlight'
    BY <1>7 DEF CloseConn
  <2> QED
    BY <2>1, <2>2, <2>3, <2>4, <2>5, <2>6
<1>8. CASE ServerStep
  <2>1. CASE Scan
    BY <2>1, <1>0, TailHolds DEF Scan
  <2>2. CASE Reply
    <3>0. /\ serving \in Calls =>
               /\ Append(responses, serving) \in Seq(Calls)
               /\ Held(Append(responses, serving)) =
                    Held(responses) \union {serving}
          /\ server = "handle" => serving \in Calls
      BY <1>0, AppendHolds
    <3>1. TypeOK'
      <4>1. /\ requests' \in Seq(Calls) /\ responses' \in Seq(Calls)
            /\ serving' = Nobody /\ server' \in {"scan", "gone"}
        BY <2>2, <3>0, EmptyHolds DEF Reply
      <4>2. UNCHANGED <<client, mu, ending, reading, shut, handled, late>>
        BY <2>2 DEF Reply
      <4> QED
        BY <4>1, <4>2
    <3>2. Told'
      BY <2>2, <3>0, EmptyHolds DEF Reply
    <3>3. Answered'
      BY <2>2, <3>0, EmptyHolds DEF Reply
    <3>4. OnItsWay'
      BY <2>2, <3>0, EmptyHolds DEF Reply
    <3>5. LastOne'
      BY <2>2, <3>0, EmptyHolds DEF Reply
    <3>6. PendingIsInFlight'
      BY <2>2, <3>0, EmptyHolds DEF Reply
    <3> QED
      BY <3>1, <3>2, <3>3, <3>4, <3>5, <3>6
  <2>3. CASE ScanEnds
    BY <2>3 DEF ScanEnds
  <2> QED
    BY <1>8, <2>1, <2>2, <2>3 DEF ServerStep
<1>9. CASE ServerShutdown
  BY <1>9 DEF ServerShutdown
<1>10. CASE Die
  BY <1>10, EmptyHolds DEF Die
<1>11. CASE UNCHANGED vars
  BY <1>11 DEF vars
<1> QED
  BY <1>1, <1>2, <1>3, <1>4, <1>5, <1>6, <1>7, <1>8, <1>9, <1>10, <1>11
  DEF Next, ShutdownStep

(* Type correctness of both ends of a connection.                          *)
THEOREM TypeCorrect == Spec => []TypeOK
<1>1. RpcInv => TypeOK
  BY DEF RpcInv
<1> QED
  BY RpcInit, RpcNext, <1>1, PTL DEF Spec

(* The pending map holds Calls that are under way and no other, so that    *)
(* cancelled Calls do not pile up in it.                                   *)
THEOREM PendingDoesNotLeak == Spec => []PendingIsInFlight
<1>1. RpcInv => PendingIsInFlight
  BY DEF RpcInv
<1> QED
  BY RpcInit, RpcNext, <1>1, PTL DEF Spec

(* After Server.Shutdown a connection takes up one more request at most.   *)
THEOREM ShutdownDrains == Spec => []OneAfterShutdown
<1>1. RpcInv => OneAfterShutdown
  BY DEF RpcInv, LastOne
<1> QED
  BY RpcInit, RpcNext, <1>1, PTL DEF Spec

-----------------------------------------------------------------------------
(* The connection implements RemoteCall.                                   *)

State == [k \in Calls |-> CallState(k)]

LEMMA InitMaps == Init => R!Init
BY DEF Init, R!Init, CallState

LEMMA StepStutters ==
  ASSUME pc' = pc, outcome' = outcome, handled' = handled
  PROVE  UNCHANGED R!callVars
BY DEF R!callVars, CallState

(* A step of one Call that changes nobody else's state.                    *)
LEMMA StepOfOne ==
  ASSUME NEW k \in Calls, RpcInv,
         \E p \in Pc : pc' = [pc EXCEPT ![k] = p],
         \E o \in Outcome : outcome' = [outcome EXCEPT ![k] = o]
  PROVE  State' = [State EXCEPT ![k] = CallState(k)']
<1>1. \A j \in Calls : j # k => pc'[j] = pc[j] /\ outcome'[j] = outcome[j]
  BY DEF RpcInv, TypeOK
<1>2. \A j \in Calls : j # k => CallState(j)' = CallState(j)
  BY <1>1 DEF CallState
<1> QED
  BY <1>2 DEF State

LEMMA StepMaps == RpcInv /\ [Next]_vars => [R!Next]_(R!callVars)
<1> SUFFICES ASSUME RpcInv, [Next]_vars PROVE R!Next \/ UNCHANGED R!callVars
  OBVIOUS
<1> USE DEF RpcInv, TypeOK
<1>0. /\ pc \in [Calls -> Pc] /\ outcome \in [Calls -> Outcome]
      /\ Told /\ OnItsWay /\ Answered
  OBVIOUS
<1>1. ASSUME NEW k \in Calls, pc' = [pc EXCEPT ![k] = "registered"],
             pc[k] = "idle", outcome' = outcome, handled' = handled
      PROVE  R!Next
  <2>1. State' = [State EXCEPT ![k] = CallState(k)']
    BY <1>0, <1>1, StepOfOne DEF Pc, Outcome
  <2>2. CallState(k) = "new" /\ CallState(k)' = "open"
    BY <1>0, <1>1 DEF CallState, Told, Pc, Outcome
  <2> QED
    BY <1>1, <2>1, <2>2 DEF R!Next, R!Ask, State
<1>2. ASSUME NEW k \in Calls, NEW p \in {"leaving", "returned"},
             pc' = [pc EXCEPT ![k] = p],
             outcome' = [outcome EXCEPT ![k] = "unsent"],
             pc[k] \in {"idle", "registered", "writing"}, handled' = handled
      PROVE  R!Next
  <2>1. State' = [State EXCEPT ![k] = CallState(k)']
    BY <1>0, <1>2, StepOfOne DEF Pc, Outcome
  <2>2. CallState(k) \in {"new", "open"} /\ CallState(k)' = "unsent"
    BY <1>0, <1>2 DEF CallState, Told, Pc, Outcome
  <2>3. k \notin handled
    BY <1>0, <1>2 DEF OnItsWay
  <2> QED
    BY <1>2, <2>1, <2>2, <2>3 DEF R!Next, R!NotSent, State
<1>3. ASSUME NEW k \in Calls, Leaves(k, "answer"), k \in handled,
             pc[k] \in {"sent", "parked"}, handled' = handled
      PROVE  R!Next
  <2>1. State' = [State EXCEPT ![k] = CallState(k)']
    BY <1>0, <1>3, StepOfOne DEF Pc, Outcome, Leaves
  <2>2. CallState(k) = "open" /\ CallState(k)' = "answered"
    BY <1>0, <1>3 DEF CallState, Told, Pc, Outcome, Leaves
  <2> QED
    BY <1>3, <2>1, <2>2 DEF R!Next, R!Answer, State
<1>4. ASSUME NEW k \in Calls, NEW o \in {"closed", "cancelled"}, Leaves(k, o),
             pc[k] \in {"sent", "parked"}, handled' = handled
      PROVE  R!Next
  <2>1. State' = [State EXCEPT ![k] = CallState(k)']
    BY <1>0, <1>4, StepOfOne DEF Pc, Outcome, Leaves
  <2>2. CallState(k) = "open" /\ CallState(k)' = "unsure"
    BY <1>0, <1>4 DEF CallState, Told, Pc, Outcome, Leaves
  <2>3. {k} \in SUBSET {j \in Calls : State[j] = "open"}
    BY <2>2 DEF State
  <2>4. State' = [j \in Calls |-> IF j \in {k} THEN "unsure" ELSE State[j]]
    BY <2>1, <2>2 DEF State
  <2> QED
    BY <1>4, <2>3, <2>4 DEF R!Next, R!GiveUp, State
<1>5. ASSUME NEW k \in Calls, pc' = [pc EXCEPT ![k] = "returned"],
             pc[k] = "leaving", outcome' = outcome, handled' = handled
      PROVE  UNCHANGED R!callVars
  <2>1. State' = [State EXCEPT ![k] = CallState(k)']
    BY <1>0, <1>5, StepOfOne DEF Pc, Outcome
  <2>2. CallState(k)' = CallState(k)
    BY <1>0, <1>5 DEF CallState
  <2> QED
    BY <1>5, <2>1, <2>2 DEF R!callVars, State
<1>6. ASSUME NEW k \in Calls, NEW p \in {"writing", "sent", "parked"},
             pc' = [pc EXCEPT ![k] = p],
             pc[k] \in {"registered", "writing", "sent"},
             outcome' = outcome, handled' = handled
      PROVE  UNCHANGED R!callVars
  <2>1. State' = [State EXCEPT ![k] = CallState(k)']
    BY <1>0, <1>6, StepOfOne DEF Pc, Outcome
  <2>2. CallState(k)' = CallState(k)
    BY <1>0, <1>6 DEF CallState
  <2> QED
    BY <1>6, <2>1, <2>2 DEF R!callVars, State
<1>7. ASSUME NEW k \in Calls, Register(k) PROVE R!Next
  BY <1>7, <1>1, <1>2 DEF Register, daemon
<1>8. ASSUME NEW k \in Calls, CallStep(k)
      PROVE  R!Next \/ UNCHANGED R!callVars
  <2>1. CASE LockWriter(k)
    BY <2>1, <1>2, <1>6 DEF LockWriter, Leaves, daemon
  <2>2. CASE Write(k)
    BY <2>2, <1>2, <1>6 DEF Write, Leaves, daemon
  <2>3. CASE Select(k)
    <3>1. CASE Panic
      BY <2>3, <3>1, StepStutters DEF Select, Panic, client, daemon
    <3>2. CASE respCh[k] = "full" /\ Leaves(k, "answer")
      BY <2>3, <3>2, <1>0, <1>3 DEF Select, daemon, Answered
    <3>3. CASE Leaves(k, "closed") \/ Leaves(k, "cancelled")
      BY <2>3, <3>3, <1>4 DEF Select, daemon
    <3> QED
      BY <2>3, <3>1, <3>2, <3>3 DEF Select
  <2>4. CASE Park(k)
    BY <2>4, <1>6 DEF Park, daemon
  <2>5. CASE Leave(k)
    BY <2>5, <1>5 DEF Leave, daemon
  <2> QED
    BY <1>8, <2>1, <2>2, <2>3, <2>4, <2>5 DEF CallStep
<1>9. ASSUME NEW k \in Calls, Cancel(k)
      PROVE  R!Next \/ UNCHANGED R!callVars
  BY <1>9, <1>4, StepStutters DEF Cancel, daemon
<1>10. CASE ReaderStep
  <2>1. CASE Send
    <3>1. CASE Panic
      BY <2>1, <3>1, StepStutters DEF Send, Panic, client, daemon
    <3>2. CASE pc[incoming] = "parked" /\ Leaves(incoming, "answer")
      <4>1. incoming \in handled /\ incoming \in Calls
        BY <2>1, <1>0 DEF Send, Answered
      <4> QED
        BY <2>1, <3>2, <4>1, <1>3 DEF Send, daemon
    <3>3. CASE UNCHANGED <<pc, outcome>>
      BY <2>1, <3>3, StepStutters DEF Send, daemon
    <3> QED
      BY <2>1, <3>1, <3>2, <3>3 DEF Send
  <2>2. CASE Decode \/ DecodeFails \/ Route \/ ReaderEnds
    BY <2>2, StepStutters
    DEF Decode, DecodeFails, Route, ReaderEnds, client, daemon
  <2> QED
    BY <1>10, <2>1, <2>2 DEF ReaderStep
<1>11. ASSUME NEW who \in {"reader", "closer"}, Shutdown(who)
       PROVE  R!Next
  <2> DEFINE waiting == {k \in Calls : pc[k] = "parked"}
  <2>1. \A k \in waiting : State[k] = "open" /\ State'[k] = "unsure"
    BY <1>0, <1>11 DEF Shutdown, State, CallState, Told
  <2>2. \A k \in Calls \ waiting : State'[k] = State[k]
    BY <1>0, <1>11 DEF Shutdown, State, CallState
  <2>3. waiting \in SUBSET {k \in Calls : State[k] = "open"}
    BY <2>1
  <2>4. State' = [k \in Calls |-> IF k \in waiting THEN "unsure" ELSE State[k]]
    BY <2>1, <2>2 DEF State
  <2>5. handled' = handled
    BY <1>11 DEF Shutdown, daemon
  <2> QED
    BY <2>3, <2>4, <2>5 DEF R!Next, R!GiveUp, State
<1>12. CASE CloseChannel \/ CloseConn
  BY <1>12, StepStutters DEF CloseChannel, CloseConn, client, daemon
<1>13. CASE Scan
  <2> DEFINE k == Head(requests)
  <2>1. k \in Calls /\ k \in Held(requests)
    BY <1>13, TailHolds DEF Scan
  <2>2. k \notin handled /\ CallState(k) \in {"open", "unsure"}
    BY <1>0, <2>1 DEF OnItsWay, CallState, Outcome, Answered
  <2>3. State' = State /\ handled' = handled \union {k}
    BY <1>13 DEF Scan, client, State, CallState
  <2> QED
    BY <2>1, <2>2, <2>3 DEF R!Next, R!Handle, State
<1>14. CASE Reply \/ ScanEnds \/ ServerShutdown \/ Die
  BY <1>14, StepStutters
  DEF Reply, ScanEnds, ServerShutdown, Die, client
<1>15. CASE UNCHANGED vars
  BY <1>15, StepStutters DEF vars, client, daemon
<1> QED
  BY <1>7, <1>8, <1>9, <1>10, <1>11, <1>12, <1>13, <1>14, <1>15
  DEF Next, ShutdownStep, ServerStep

(* Whatever Call returns is true of its own request: answered requests were*)
(* taken up, unsent ones never are, and none is taken up twice.            *)
THEOREM ConnectionIsARemoteCall == Spec => ImplementsRemoteCall
<1>1. Init => R!Init
  BY InitMaps
<1>2. RpcInv /\ [Next]_vars => [R!Next]_(R!callVars)
  BY StepMaps
<1> QED
  BY RpcInit, RpcNext, <1>1, <1>2, PTL DEF Spec, ImplementsRemoteCall, R!Spec

=============================================================================
