----------------------------- MODULE LogStream -----------------------------
(* The Logs tab: ui.LogViewer holds one stream of one service at a time,   *)
(* SiteManager.StreamLogs keeps it attached over restarts of the container, *)
(* and docker.StreamContainerLogs copies the container's two outputs. Each  *)
(* stream is three goroutines and two bounded channels; switching cancels   *)
(* the stream's context and forgets it. Pausing freezes the text on screen  *)
(* and touches none of this.                                               *)
EXTENDS FiniteSets, Naturals, Sequences

CONSTANTS
  Feeds,       \* the (site, service) pairs the tab can show
  MaxStreams,  \* bound on the streams opened
  MaxWritten,  \* bound on the lines written
  History,     \* lines of history a first attach asks for (100 in the code)
  Attaches,    \* attaches of one stream (6 in the code)
  Capacity,    \* lines a channel holds (1024 and 256)
  RingSize,    \* lines the viewer keeps (5000)
  MaxTurns     \* bound on the starts and stops of the site

ASSUME LogAssumption ==
  /\ Attaches \in Nat \ {0} /\ Capacity \in Nat \ {0} /\ RingSize \in Nat \ {0}
  /\ {MaxStreams, MaxWritten, History, MaxTurns} \subseteq Nat

VARIABLES
  source,      \* each container: "absent", "exited" or "running"
  log,      \* the lines in its log: [n, err], n counting the lines written
  written,
  started,  \* the site's row says started
  turns,    \* starts and stops so far
  sel,      \* the feed the tab is bound to, "-" before the first
  watched,      \* the stream whose cancel function the viewer holds
  streams,  \* what each stream is doing
  ring      \* the viewer's lines, each with its stream

logVars == <<source, log, written, started, turns, sel, watched, streams, ring>>
siteVars == <<source, log, written, started, turns>>
viewVars == <<sel, watched, ring>>

Ids == 1..MaxStreams
Line == [n : 1..MaxWritten, err : BOOLEAN]
Unused == [feed |-> "-", live |-> FALSE, at |-> "unused", left |-> 0, seen |-> FALSE, pos |-> 0,
           hand |-> [e \in BOOLEAN |-> <<>>], chan |-> <<>>, sent |-> <<>>, taken |-> 0]

LogTypeOK ==
  /\ source \in [Feeds -> {"absent", "exited", "running"}] /\ started \in BOOLEAN
  /\ \A f \in Feeds : \A i \in 1..Len(log[f]) : log[f][i] \in Line
  /\ sel \in Feeds \cup {"-"} /\ watched \in Ids \cup {0}
  /\ \A k \in Ids :
       /\ streams[k].feed \in Feeds \cup {"-"} /\ streams[k].live \in BOOLEAN
       /\ streams[k].at \in {"unused", "attach", "read", "sleep", "end"} /\ streams[k].left \in 0..Attaches
       /\ Len(streams[k].chan) <= Capacity /\ streams[k].taken <= Len(streams[k].sent)
       /\ Len(streams[k].sent) - streams[k].taken <= Capacity
  /\ Len(ring) <= RingSize

LogInit ==
  /\ source = [f \in Feeds |-> "running"] /\ log = [f \in Feeds |-> <<>>] /\ written = 0 /\ started = TRUE /\ turns = 0
  /\ sel = "-" /\ watched = 0 /\ streams = [k \in Ids |-> Unused]
  /\ ring = <<>>

-----------------------------------------------------------------------------
(* The site's containers. *)
WriteLine(f) ==
  /\ source[f] = "running" /\ written < MaxWritten /\ written' = written + 1
  /\ \E e \in BOOLEAN : log' = [log EXCEPT ![f] = Append(@, [n |-> written + 1, err |-> e])]
  /\ UNCHANGED <<source, started, turns, streams, viewVars>>

FeedExit(f) ==      \* the process ends; a restart policy may bring it back
  /\ turns < MaxTurns /\ turns' = turns + 1
  /\ source' = [source EXCEPT ![f] = IF @ = "running" THEN "exited" ELSE IF @ = "exited" THEN "running" ELSE @]
  /\ UNCHANGED <<log, written, started, streams, viewVars>>

StopLoggedSite ==
  /\ started /\ turns < MaxTurns /\ turns' = turns + 1
  /\ started' = FALSE
  /\ source' = [f \in Feeds |-> "absent"] /\ log' = [f \in Feeds |-> <<>>]
  /\ UNCHANGED <<written, streams, viewVars>>

-----------------------------------------------------------------------------
(* SiteManager.StreamLogs and docker.StreamContainerLogs. *)
Put(k, s) == streams' = [streams EXCEPT ![k] = s]
Room(q) == Len(q) < Capacity
Out(s) == Len(s.sent) - s.taken

(* Mutation of First: a resumed stream asks for the tail again.            *)
MutantFirst(s) == IF Len(log[s.feed]) > History THEN Len(log[s.feed]) - History ELSE 0

(* Docker shows the last History lines of a new stream and, when resuming, the *)
(* lines written from now on: the request carries since and Tail = "0".     *)
First(s) ==
  IF s.seen THEN Len(log[s.feed])
  ELSE IF Len(log[s.feed]) > History THEN Len(log[s.feed]) - History ELSE 0

Attach(k) ==
  LET s == streams[k] IN
  /\ s.at = "attach"
  /\ IF ~s.live \/ s.left = 0 \/ source[s.feed] = "absent" THEN Put(k, [s EXCEPT !.at = "end"])
     ELSE \/ Put(k, [s EXCEPT !.at = "read", !.left = @ - 1, !.pos = First(s)])
          \/ Room(SubSeq(s.sent, s.taken + 1, Len(s.sent))) /\ Put(k, [s EXCEPT !.at = "sleep", !.left = @ - 1])   \* "[reconnect: ...]"
  /\ UNCHANGED <<siteVars, viewVars>>

(* StdCopy hands the next line to the pump of its output. *)
Demux(k) ==
  LET s == streams[k] IN
  /\ s.at = "read" /\ s.live /\ s.pos < Len(log[s.feed])
  /\ LET l == log[s.feed][s.pos + 1] IN
     /\ s.hand[l.err] = <<>>
     /\ Put(k, [s EXCEPT !.pos = @ + 1, !.hand[l.err] = <<l>>])
  /\ UNCHANGED <<siteVars, viewVars>>

Pump(k, e) ==
  LET s == streams[k] IN
  /\ s.at = "read" /\ s.live /\ s.hand[e] # <<>> /\ Room(s.chan)
  /\ Put(k, [s EXCEPT !.hand[e] = <<>>, !.chan = @ \o s.hand[e]])
  /\ UNCHANGED <<siteVars, viewVars>>

Forward(k) ==
  LET s == streams[k] IN
  /\ s.at = "read" /\ s.chan # <<>> /\ Out(s) < Capacity
  /\ Put(k, [s EXCEPT !.seen = TRUE, !.chan = Tail(@), !.sent = Append(@, Head(s.chan))])
  /\ UNCHANGED <<siteVars, viewVars>>

(* The channel closes once the container is gone and the pumps are dry; a   *)
(* stream of a stopped site ends, another waits a second and attaches again. *)
FeedClosed(s) ==
  /\ source[s.feed] # "running" /\ s.chan = <<>> /\ s.hand = [e \in BOOLEAN |-> <<>>]
  /\ s.pos >= Len(log[s.feed])
Detach(k) ==
  LET s == streams[k] IN
  /\ s.at = "read" /\ s.live /\ FeedClosed(s)
  /\ Put(k, [s EXCEPT !.at = IF started THEN "sleep" ELSE "end"])
  /\ UNCHANGED <<siteVars, viewVars>>

Wake(k) ==
  /\ streams[k].at = "sleep" /\ Put(k, [streams[k] EXCEPT !.at = "attach"])
  /\ UNCHANGED <<siteVars, viewVars>>

(* ctx.Done wins a select: what the channels of docker hold is dropped, what *)
(* StreamLogs has already sent is not.                                      *)
Abandon(k) ==
  /\ streams[k].at \in {"attach", "read", "sleep"} /\ ~streams[k].live
  /\ Put(k, [streams[k] EXCEPT !.at = "end", !.chan = <<>>, !.hand = Unused.hand])
  /\ UNCHANGED <<siteVars, viewVars>>

-----------------------------------------------------------------------------
(* ui.LogViewer. *)
Kept(q) == IF Len(q) > RingSize THEN Tail(q) ELSE q
AppendLine(k) ==      \* the goroutine ranging over the stream
  LET s == streams[k] IN
  /\ Out(s) > 0
  /\ ring' = Kept(Append(ring, [k |-> k, line |-> s.sent[s.taken + 1]]))
  /\ Put(k, [s EXCEPT !.taken = @ + 1])
  /\ UNCHANGED <<siteVars, sel, watched>>

(* Mutation of AllButCancelled: the stream that is left is not cancelled.  *)
MutantCancelled(k) == streams

AllButCancelled(k) == IF k = 0 THEN streams ELSE [streams EXCEPT ![k].live = FALSE]
SelectFeed(f) ==
  /\ f # sel
  /\ \E k \in Ids :
       /\ streams[k] = Unused /\ \A j \in 1..(k - 1) : streams[j] # Unused
       /\ streams' = [AllButCancelled(watched) EXCEPT ![k] = [Unused EXCEPT !.feed = f, !.live = TRUE, !.at = "attach", !.left = Attaches]]
       /\ watched' = k
  /\ sel' = f /\ ring' = <<>>
  /\ UNCHANGED siteVars

Clear ==
  /\ ring # <<>> /\ ring' = <<>>
  /\ UNCHANGED <<siteVars, sel, watched, streams>>

StreamSteps(k) == Attach(k) \/ Demux(k) \/ Forward(k) \/ Detach(k) \/ Wake(k) \/ Abandon(k) \/ AppendLine(k)

LogNext ==
  \/ \E f \in Feeds : WriteLine(f) \/ FeedExit(f) \/ SelectFeed(f)
  \/ StopLoggedSite
  \/ \E k \in Ids : StreamSteps(k) \/ \E e \in BOOLEAN : Pump(k, e)
  \/ Clear
LogFair == \A k \in Ids : WF_logVars(StreamSteps(k)) /\ \A e \in BOOLEAN : WF_logVars(Pump(k, e))
LogSpec == LogInit /\ [][LogNext]_logVars /\ LogFair

-----------------------------------------------------------------------------
(* Over every restart of its container, a stream gives the viewer each line *)
(* of an output at most once and in the order it was written, though the    *)
(* two outputs may overtake one another (engine_logstream.go:81-88: the     *)
(* history is not replayed when resuming).                                  *)
LinesInOrder ==
  \A k \in Ids : LET q == streams[k].sent IN
    \A i, j \in 1..Len(q) : i < j /\ q[i].err = q[j].err => q[i].n < q[j].n

(* A stream the viewer has left comes to its end and gives its goroutines   *)
(* back (logviewer.go:43-44: the streaming context is owned by the viewer). *)
LeftStreamsEnd ==
  \A k \in Ids : [](streams[k] # Unused /\ k # watched => <>(streams[k].at = "end" /\ Out(streams[k]) = 0))

(* sites.go:1391-1395: a reattached stream "resumes from the last seen      *)
(* timestamp": between two lines of one container's output that a stream    *)
(* has sent, it has sent every line.                                        *)
ResumesWhereItLeft ==
  \A k \in Ids : LET s == streams[k] IN
    \A i, j \in 1..Len(s.sent) :
      s.sent[i].err = s.sent[j].err =>
        \A l \in {log[s.feed][x] : x \in 1..Len(log[s.feed])} :
          l.err = s.sent[i].err /\ s.sent[i].n < l.n /\ l.n < s.sent[j].n => \E m \in i..j : s.sent[m] = l

(* logviewer.go:43-44: "switching service or switching site cancels the     *)
(* current stream and starts a new one": the lines on show are the selected *)
(* stream's.                                                                *)
RingIsTheSelection == \A i \in 1..Len(ring) : ring[i].k = watched
=============================================================================
