-------------------------------- MODULE Rpc --------------------------------
(***************************************************************************)
(* One IPC connection: the Client of internal/daemon/client.go, whose Call *)
(* is used by concurrent goroutines (the HTTP handlers of the MCP server), *)
(* its readLoop and its shutdown, and handleConn of internal/daemon/       *)
(* server.go at the other end.                                             *)
(*                                                                         *)
(* A socket holds a bounded number of frames in each direction, and a      *)
(* write to a full one blocks; writeFrame blocks with the client's mutex   *)
(* in its hand.  Every other critical section is short and is one step.    *)
(***************************************************************************)
EXTENDS Naturals, Sequences

CONSTANTS
  Calls,                      \* the Calls made, by the id nextID gives them
  Capacity,                   \* frames a direction of the socket holds
  Events,                     \* what may happen, a subset of EventKinds
  Nobody

(* cancel: the context of a Call ends; close: Client.Close; shutdown:      *)
(* Server.Shutdown; die: the daemon exits.                                 *)
EventKinds == {"cancel", "close", "shutdown", "die"}

ASSUME RpcConstants ==
  /\ Nobody \notin Calls
  /\ Capacity \in Nat \ {0}
  /\ Events \subseteq EventKinds

VARIABLES
  pc,                         \* each Call: where it is
  outcome,                    \* what it returns
  ctxDone,                    \* the Calls whose context has ended
  mu,                         \* the writer that holds Client.mu
  pending,                    \* Client.pending, nil being the empty map
  respCh,                     \* each Call's response channel
  closed,                     \* Client.closed, and closeCh
  reader, incoming,           \* readLoop: where it is, the response it has
  drainer, draining,          \* who runs shutdown, the channels it has left
  conn,                       \* the client's end is open
  crashed,                    \* the client's process has panicked
  requests, responses,        \* the two directions of the socket
  server, serving,            \* handleConn: where it is, its request
  shut,                       \* shutdownCh is closed
  handled, late               \* requests dispatched; those since then

client   == <<pc, outcome, ctxDone, pending, respCh>>
ending   == <<closed, drainer, draining, conn, crashed>>
reading  == <<reader, incoming>>
daemon   == <<server, serving, shut, handled, late>>
wire     == <<requests, responses>>
vars     == <<client, mu, ending, reading, daemon, wire>>

Pc      == {"idle", "registered", "writing", "sent", "parked", "leaving",
            "returned"}
Outcome == {"none", "answer", "unsent", "closed", "cancelled"}
Channel == {"empty", "full", "closed"}

-----------------------------------------------------------------------------
Init ==
  /\ pc = [k \in Calls |-> "idle"]
  /\ outcome = [k \in Calls |-> "none"]
  /\ ctxDone = {}
  /\ mu = Nobody
  /\ pending = {}
  /\ respCh = [k \in Calls |-> "empty"]
  /\ closed = FALSE
  /\ reader = "decode" /\ incoming = Nobody
  /\ drainer = "none" /\ draining = {}
  /\ conn = TRUE
  /\ crashed = FALSE
  /\ requests = <<>> /\ responses = <<>>
  /\ server = "scan" /\ serving = Nobody
  /\ shut = FALSE
  /\ handled = {} /\ late = {}

(* A panic: the process is gone, and its end of the socket with it.        *)
Panic ==
  /\ crashed' = TRUE
  /\ conn' = FALSE
  /\ UNCHANGED <<client, mu, closed, drainer, draining, reading>>

-----------------------------------------------------------------------------
(* Call.                                                                   *)

Leaves(k, o) ==
  /\ pc' = [pc EXCEPT ![k] = "leaving"]
  /\ outcome' = [outcome EXCEPT ![k] = o]

Register(k) ==
  /\ ~crashed /\ pc[k] = "idle" /\ mu = Nobody
  /\ \/ /\ closed
        /\ pc' = [pc EXCEPT ![k] = "returned"]
        /\ outcome' = [outcome EXCEPT ![k] = "unsent"]
        /\ UNCHANGED pending
     \/ /\ ~closed
        /\ pc' = [pc EXCEPT ![k] = "registered"]
        /\ pending' = pending \union {k}
        /\ UNCHANGED outcome
  /\ UNCHANGED <<ctxDone, mu, respCh, ending, reading, daemon, wire>>

(* writeFrame takes the mutex again.                                       *)
LockWriter(k) ==
  /\ ~crashed /\ pc[k] = "registered" /\ mu = Nobody
  /\ \/ /\ closed
        /\ Leaves(k, "unsent")
        /\ UNCHANGED mu
     \/ /\ ~closed
        /\ mu' = k
        /\ pc' = [pc EXCEPT ![k] = "writing"]
        /\ UNCHANGED outcome
  /\ UNCHANGED <<ctxDone, pending, respCh, ending, reading, daemon, wire>>

(* Mutation of Write: the write is tried again before it is given up.      *)
WriteAgain(k) ==
  /\ ~crashed /\ pc[k] = "writing"
  /\ \/ /\ server = "gone"
        /\ Leaves(k, "unsent")
        /\ UNCHANGED requests
     \/ /\ server # "gone" /\ Len(requests) < Capacity
        /\ requests' = Append(requests, k)
        /\ \/ pc' = [pc EXCEPT ![k] = "sent"] /\ UNCHANGED outcome
           \/ Leaves(k, "unsent")
  /\ mu' = Nobody
  /\ UNCHANGED <<ctxDone, pending, respCh, ending, reading, daemon,
                 responses>>

(* Encode blocks while the socket is full, and fails once the other end is *)
(* closed.                                                                 *)
Write(k) ==
  /\ ~crashed /\ pc[k] = "writing"
  /\ \/ /\ server = "gone"
        /\ Leaves(k, "unsent")
        /\ UNCHANGED requests
     \/ /\ server # "gone" /\ Len(requests) < Capacity
        /\ requests' = Append(requests, k)
        /\ pc' = [pc EXCEPT ![k] = "sent"]
        /\ UNCHANGED outcome
  /\ mu' = Nobody
  /\ UNCHANGED <<ctxDone, pending, respCh, ending, reading, daemon,
                 responses>>

(* The select, when a case is ready as it is reached.  A closed respCh     *)
(* yields a nil response, which is dereferenced.                           *)
Select(k) ==
  /\ ~crashed /\ pc[k] = "sent"
  /\ \/ /\ \/ respCh[k] = "full" /\ Leaves(k, "answer")
           \/ closed /\ Leaves(k, "closed")
           \/ k \in ctxDone /\ Leaves(k, "cancelled")
        /\ UNCHANGED <<ctxDone, mu, pending, respCh, ending, reading>>
     \/ respCh[k] = "closed" /\ Panic
  /\ UNCHANGED <<daemon, wire>>

(* The select, when no case is: the first one to become ready wakes it.    *)
Park(k) ==
  /\ ~crashed /\ pc[k] = "sent"
  /\ respCh[k] = "empty" /\ ~closed /\ k \notin ctxDone
  /\ pc' = [pc EXCEPT ![k] = "parked"]
  /\ UNCHANGED <<outcome, ctxDone, mu, pending, respCh, ending, reading,
                 daemon, wire>>

(* Mutation of Leave: no deferred delete.                                  *)
LeaveRegistered(k) ==
  /\ ~crashed /\ pc[k] = "leaving" /\ mu = Nobody
  /\ pc' = [pc EXCEPT ![k] = "returned"]
  /\ UNCHANGED <<outcome, ctxDone, mu, pending, respCh, ending, reading,
                 daemon, wire>>

(* The deferred delete.                                                    *)
Leave(k) ==
  /\ ~crashed /\ pc[k] = "leaving" /\ mu = Nobody
  /\ pc' = [pc EXCEPT ![k] = "returned"]
  /\ pending' = pending \ {k}
  /\ UNCHANGED <<outcome, ctxDone, mu, respCh, ending, reading, daemon, wire>>

Cancel(k) ==
  /\ "cancel" \in Events
  /\ ~crashed /\ pc[k] \notin {"idle", "returned"} /\ k \notin ctxDone
  /\ ctxDone' = ctxDone \union {k}
  /\ \/ pc[k] = "parked" /\ Leaves(k, "cancelled")
     \/ pc[k] # "parked" /\ UNCHANGED <<pc, outcome>>
  /\ UNCHANGED <<mu, pending, respCh, ending, reading, daemon, wire>>

-----------------------------------------------------------------------------
(* readLoop.                                                               *)

(* Frames that are there are read even from a closed socket.               *)
Decode ==
  /\ ~crashed /\ reader = "decode" /\ responses # <<>>
  /\ incoming' = Head(responses)
  /\ responses' = Tail(responses)
  /\ reader' = "route"
  /\ UNCHANGED <<client, mu, ending, daemon, requests>>

DecodeFails ==
  /\ ~crashed /\ reader = "decode"
  /\ ~conn \/ (server = "gone" /\ responses = <<>>)
  /\ reader' = "shutdown"
  /\ UNCHANGED <<client, mu, ending, incoming, daemon, wire>>

(* The lookup, under the mutex; the caller may be gone.                    *)
Route ==
  /\ ~crashed /\ reader = "route" /\ mu = Nobody
  /\ \/ incoming \in pending /\ reader' = "send" /\ UNCHANGED incoming
     \/ incoming \notin pending /\ reader' = "decode" /\ incoming' = Nobody
  /\ UNCHANGED <<client, mu, ending, daemon, wire>>

(* The send, outside the mutex: to a Call that waits in its select, to the *)
(* channel's one place, or to a channel that shutdown has closed.          *)
Send ==
  /\ ~crashed /\ reader = "send"
  /\ \/ respCh[incoming] = "closed" /\ Panic
     \/ /\ respCh[incoming] # "closed"
        /\ \/ /\ pc[incoming] = "parked"
              /\ Leaves(incoming, "answer")
              /\ UNCHANGED respCh
           \/ /\ pc[incoming] # "parked"
              /\ respCh' = [respCh EXCEPT ![incoming] = "full"]
              /\ UNCHANGED <<pc, outcome>>
        /\ reader' = "decode" /\ incoming' = Nobody
        /\ UNCHANGED <<ctxDone, mu, pending, ending>>
  /\ UNCHANGED <<daemon, wire>>

-----------------------------------------------------------------------------
(* shutdown, by readLoop or by Close.                                      *)

Shutdown(who) ==
  /\ ~crashed /\ mu = Nobody /\ ~closed
  /\ \/ who = "reader" /\ reader = "shutdown"
     \/ who = "closer" /\ "close" \in Events
  /\ closed' = TRUE
  /\ pc' = [k \in Calls |-> IF pc[k] = "parked" THEN "leaving" ELSE pc[k]]
  /\ outcome' =
       [k \in Calls |-> IF pc[k] = "parked" THEN "closed" ELSE outcome[k]]
  /\ drainer' = who /\ draining' = pending
  /\ pending' = {}
  /\ UNCHANGED <<ctxDone, respCh, mu, conn, crashed, reading, daemon, wire>>

(* readLoop's own call, when Close was first, and its deferred second one. *)
ReaderEnds ==
  /\ ~crashed /\ reader = "shutdown"
  /\ closed /\ mu = Nobody /\ drainer # "reader"
  /\ reader' = "ended" /\ incoming' = Nobody
  /\ UNCHANGED <<client, mu, ending, daemon, wire>>

CloseChannel ==
  /\ ~crashed
  /\ \E k \in draining :
       /\ respCh' = [respCh EXCEPT ![k] = "closed"]
       /\ draining' = draining \ {k}
  /\ UNCHANGED <<pc, outcome, ctxDone, pending, mu, closed, drainer, conn,
                 crashed, reading, daemon, wire>>

CloseConn ==
  /\ ~crashed /\ drainer # "none" /\ draining = {}
  /\ conn' = FALSE
  /\ drainer' = "none"
  /\ UNCHANGED <<client, mu, closed, draining, crashed, reading, daemon,
                 wire>>

-----------------------------------------------------------------------------
(* handleConn.                                                             *)

(* Mutation of Scan: the line is not consumed.                             *)
ScanAgain ==
  /\ server = "scan" /\ requests # <<>>
  /\ serving' = Head(requests)
  /\ server' = "handle"
  /\ handled' = handled \union {Head(requests)}
  /\ late' = IF shut THEN late \union {Head(requests)} ELSE late
  /\ UNCHANGED <<client, mu, ending, reading, shut, wire>>

(* The next request is taken up; what the client sent before it closed its *)
(* end is still read.                                                      *)
Scan ==
  /\ server = "scan" /\ requests # <<>>
  /\ serving' = Head(requests)
  /\ requests' = Tail(requests)
  /\ server' = "handle"
  /\ handled' = handled \union {Head(requests)}
  /\ late' = IF shut THEN late \union {Head(requests)} ELSE late
  /\ UNCHANGED <<client, mu, ending, reading, shut, responses>>

(* Mutation of Reply: shutdownCh is not looked at.                         *)
ReplyAndScan ==
  /\ server = "handle"
  /\ \/ /\ conn /\ Len(responses) < Capacity
        /\ responses' = Append(responses, serving)
     \/ ~conn /\ UNCHANGED responses
  /\ serving' = Nobody
  /\ server' = "scan"
  /\ UNCHANGED <<client, mu, ending, reading, shut, handled, late, requests>>

(* The handler returns; an error of the write is ignored.                  *)
Reply ==
  /\ server = "handle"
  /\ \/ /\ conn /\ Len(responses) < Capacity
        /\ responses' = Append(responses, serving)
     \/ ~conn /\ UNCHANGED responses
  /\ serving' = Nobody
  /\ \/ shut /\ server' = "gone" /\ requests' = <<>>
     \/ ~shut /\ server' = "scan" /\ UNCHANGED requests
  /\ UNCHANGED <<client, mu, ending, reading, shut, handled, late>>

ScanEnds ==
  /\ server = "scan" /\ requests = <<>> /\ ~conn
  /\ server' = "gone"
  /\ UNCHANGED <<client, mu, ending, reading, serving, shut, handled, late,
                 wire>>

(* A connection that waits for its next request does not see it.           *)
ServerShutdown ==
  /\ "shutdown" \in Events /\ ~shut
  /\ shut' = TRUE
  /\ UNCHANGED <<client, mu, ending, reading, server, serving, handled, late,
                 wire>>

Die ==
  /\ "die" \in Events /\ server # "gone"
  /\ server' = "gone" /\ serving' = Nobody
  /\ requests' = <<>>
  /\ UNCHANGED <<client, mu, ending, reading, shut, handled, late, responses>>

-----------------------------------------------------------------------------
CallStep(k) ==
  LockWriter(k) \/ Write(k) \/ Select(k) \/ Park(k) \/ Leave(k)

ReaderStep == Decode \/ DecodeFails \/ Route \/ Send \/ ReaderEnds

ShutdownStep == Shutdown("reader") \/ CloseChannel \/ CloseConn

ServerStep == Scan \/ Reply \/ ScanEnds

Next ==
  \/ \E k \in Calls : Register(k) \/ CallStep(k) \/ Cancel(k)
  \/ ReaderStep \/ ShutdownStep \/ Shutdown("closer")
  \/ ServerStep \/ ServerShutdown \/ Die

Spec == Init /\ [][Next]_vars

-----------------------------------------------------------------------------
(* Properties.                                                             *)

(* Every variable keeps its type.                                          *)
TypeOK ==
  /\ pc \in [Calls -> Pc]
  /\ outcome \in [Calls -> Outcome]
  /\ ctxDone \subseteq Calls
  /\ mu \in Calls \union {Nobody}
  /\ pending \subseteq Calls
  /\ respCh \in [Calls -> Channel]
  /\ closed \in BOOLEAN
  /\ reader \in {"decode", "route", "send", "shutdown", "ended"}
  /\ incoming \in Calls \union {Nobody}
  /\ drainer \in {"none", "reader", "closer"} /\ draining \subseteq Calls
  /\ conn \in BOOLEAN
  /\ crashed \in BOOLEAN
  /\ requests \in Seq(Calls) /\ responses \in Seq(Calls)
  /\ server \in {"scan", "handle", "gone"}
  /\ serving \in Calls \union {Nobody}
  /\ shut \in BOOLEAN
  /\ handled \subseteq Calls /\ late \subseteq Calls

(* An entry of the pending map belongs to a Call that is still under way:  *)
(* client.go:119-120, "Always remove the pending entry on exit so a        *)
(* cancelled context doesn't leak a channel forever".                      *)
PendingIsInFlight ==
  \A k \in pending : pc[k] \notin {"idle", "returned"}

(* Once Server.Shutdown has been called a connection takes up at most one  *)
(* more request (isShutdown after each dispatch, server.go:257-259).       *)
OneAfterShutdown == \A j, k \in late : j = k

CallState(k) ==
  CASE pc[k] = "idle" -> "new"
    [] outcome[k] = "answer" -> "answered"
    [] outcome[k] = "unsent" -> "unsent"
    [] outcome[k] \in {"closed", "cancelled"} -> "unsure"
    [] OTHER -> "open"

R == INSTANCE RemoteCall WITH state <- [k \in Calls |-> CallState(k)]

(* What Call returns is true of its own request, whatever was cancelled,   *)
(* closed or shut down meanwhile: an answer is to a request the daemon has *)
(* taken up, once, and one that failed with "client is closed" or "send"   *)
(* is never taken up, neither before nor after (Call, client.go:88-147).   *)
ImplementsRemoteCall == R!Spec

(* Client.Close, client.go:215-216: "pending Calls return "connection      *)
(* closed"".                                                               *)
NeverPanics == ~crashed

=============================================================================
