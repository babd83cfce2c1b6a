----------------------------- MODULE RemoteCall -----------------------------
(***************************************************************************)
(* What a caller of the IPC client may conclude from what Call returns     *)
(* (internal/daemon/client.go), without connections, frames or mutexes: a  *)
(* request is handled at most once; an answer means it was handled; a      *)
(* request the client says it could not send never is; and a caller that   *)
(* gave up knows nothing, for the daemon may handle the request later.     *)
(***************************************************************************)
CONSTANT Calls

VARIABLES
  state,                      \* each call, as its caller sees it
  handled                     \* the calls the daemon has taken up

callVars == <<state, handled>>

States == {"new", "open", "answered", "unsent", "unsure"}

Init ==
  /\ state = [k \in Calls |-> "new"]
  /\ handled = {}

Ask(k) ==
  /\ state[k] = "new"
  /\ state' = [state EXCEPT ![k] = "open"]
  /\ UNCHANGED handled

Handle(k) ==
  /\ state[k] \in {"open", "unsure"} /\ k \notin handled
  /\ handled' = handled \union {k}
  /\ UNCHANGED state

Answer(k) ==
  /\ state[k] = "open" /\ k \in handled
  /\ state' = [state EXCEPT ![k] = "answered"]
  /\ UNCHANGED handled

NotSent(k) ==
  /\ state[k] \in {"new", "open"} /\ k \notin handled
  /\ state' = [state EXCEPT ![k] = "unsent"]
  /\ UNCHANGED handled

(* The connection is closed under the callers, or the context of one ends. *)
GiveUp ==
  /\ \E some \in SUBSET {k \in Calls : state[k] = "open"} :
       state' = [k \in Calls |-> IF k \in some THEN "unsure" ELSE state[k]]
  /\ UNCHANGED handled

Next ==
  \/ GiveUp
  \/ \E k \in Calls : Ask(k) \/ Handle(k) \/ Answer(k) \/ NotSent(k)

Spec == Init /\ [][Next]_callVars

=============================================================================
