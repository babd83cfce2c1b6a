----------------------------- MODULE LiveProofs -----------------------------
(***************************************************************************)
(* Proofs about what a running site shows: the stream of its log, for any  *)
(* feeds, capacities and restarts, and the engine wrapper under its start, *)
(* for any roles, settings and faults.                                     *)
(***************************************************************************)
EXTENDS Engine, LogStream, SequenceTheorems, TLAPS

-----------------------------------------------------------------------------
(* The log stream.                                                         *)

Sorted(q) == \A i, j \in 1..Len(q) : i < j /\ q[i].err = q[j].err => q[i].n < q[j].n
Before(q, r) == \A i \in 1..Len(q), j \in 1..Len(r) : q[i].err = r[j].err => q[i].n < r[j].n
UpTo(q, w) == \A i \in 1..Len(q) : q[i].n <= w

(* The lines of a stream on their way: each output's stay in order from    *)
(* the reader's hand through the channels to what it has sent, and they    *)
(* are older than the lines that are still to be read.                     *)
StreamOK(s, lg, w) ==
  /\ Sorted(s.sent) /\ Sorted(s.chan) /\ Before(s.sent, s.chan)
  /\ UpTo(s.sent, w) /\ UpTo(s.chan, w)
  /\ \A e \in BOOLEAN :
       /\ Len(s.hand[e]) <= 1 /\ UpTo(s.hand[e], w)
       /\ \A i \in 1..Len(s.hand[e]) : s.hand[e][i].err = e
       /\ Before(s.sent, s.hand[e]) /\ Before(s.chan, s.hand[e])
  /\ Len(s.chan) <= Capacity /\ s.taken <= Len(s.sent) /\ Len(s.sent) - s.taken <= Capacity
  /\ s.at # "read" => s.chan = <<>> /\ \A e \in BOOLEAN : s.hand[e] = <<>>
  /\ ~s.seen => s.sent = <<>>
  /\ s.at \notin {"unused", "end"} => s.feed \in Feeds
  /\ s.at = "read" =>
       \A x \in 1..Len(lg[s.feed]) : x > s.pos =>
         /\ UpTo(s.sent, lg[s.feed][x].n - 1) /\ UpTo(s.chan, lg[s.feed][x].n - 1)
         /\ \A e \in BOOLEAN : UpTo(s.hand[e], lg[s.feed][x].n - 1)

StreamRecords ==
  [feed : Feeds \cup {"-"}, live : BOOLEAN, at : {"unused", "attach", "read", "sleep", "end"},
   left : 0..Attaches, seen : BOOLEAN, pos : Nat, hand : [BOOLEAN -> Seq(Line)],
   chan : Seq(Line), sent : Seq(Line), taken : Nat]

StreamInv ==
  /\ source \in [Feeds -> {"absent", "exited", "running"}] /\ started \in BOOLEAN /\ written \in 0..MaxWritten
  /\ sel \in Feeds \cup {"-"} /\ watched \in Ids \cup {0}
  /\ ring \in Seq([k : Ids, line : Line]) /\ Len(ring) <= RingSize
  /\ log \in [Feeds -> Seq(Line)]
  /\ \A f \in Feeds : /\ UpTo(log[f], written)
                      /\ \A i, j \in 1..Len(log[f]) : i < j => log[f][i].n < log[f][j].n
  /\ streams \in [Ids -> StreamRecords]
  /\ \A k \in Ids : StreamOK(streams[k], log, written)

LEMMA LineTyped == \A l \in Line : l.n \in Nat /\ l.err \in BOOLEAN
  BY LogAssumption DEF Line

LEMMA QueueFacts ==
  ASSUME NEW q \in Seq(Line), NEW l \in Line
  PROVE  /\ Append(q, l) \in Seq(Line) /\ Len(Append(q, l)) = Len(q) + 1
         /\ \A i \in 1..Len(q) : Append(q, l)[i] = q[i]
         /\ Append(q, l)[Len(q) + 1] = l
         /\ q \o <<l>> = Append(q, l)
         /\ \A i \in 1..Len(q) : q[i] \in Line
  <1>1. /\ Append(q, l) \in Seq(Line) /\ Len(Append(q, l)) = Len(q) + 1
        /\ \A i \in 1..Len(q) : Append(q, l)[i] = q[i]
        /\ Append(q, l)[Len(q) + 1] = l
        /\ \A i \in 1..Len(q) : q[i] \in Line
    BY AppendProperties, ElementOfSeq
  <1>2. q \o <<l>> = Append(q, l)
    BY AppendIsConcat
  <1> QED
    BY <1>1, <1>2

LEMMA TailFacts ==
  ASSUME NEW q \in Seq(Line), q # <<>>
  PROVE  /\ Tail(q) \in Seq(Line) /\ Len(Tail(q)) = Len(q) - 1 /\ Len(q) \in Nat \ {0}
         /\ \A i \in 1..Len(Tail(q)) : i + 1 \in 1..Len(q) /\ Tail(q)[i] = q[i + 1]
         /\ Head(q) = q[1] /\ 1 \in 1..Len(q) /\ Head(q) \in Line
  <1>1. Len(q) \in Nat \ {0}
    BY EmptySeq
  <1>2. /\ Tail(q) \in Seq(Line) /\ Len(Tail(q)) = Len(q) - 1
        /\ \A i \in 1..Len(Tail(q)) : Tail(q)[i] = q[i + 1]
        /\ Head(q) = q[1] /\ Head(q) \in Line
    BY HeadTailProperties, ElementOfSeq
  <1> QED
    BY <1>1, <1>2

(* A line that follows a sorted queue keeps it sorted.                     *)
LEMMA AppendSorted ==
  ASSUME NEW q \in Seq(Line), NEW l \in Line, Sorted(q),
         \A i \in 1..Len(q) : q[i].err = l.err => q[i].n < l.n
  PROVE  Sorted(Append(q, l))
  <1>1. /\ Len(q) \in Nat /\ Len(Append(q, l)) = Len(q) + 1
        /\ \A i \in 1..Len(q) : Append(q, l)[i] = q[i]
        /\ Append(q, l)[Len(q) + 1] = l
    BY QueueFacts, LenProperties
  <1> SUFFICES ASSUME NEW i \in 1..(Len(q) + 1), NEW j \in 1..(Len(q) + 1), i < j,
                      Append(q, l)[i].err = Append(q, l)[j].err
               PROVE  Append(q, l)[i].n < Append(q, l)[j].n
    BY <1>1 DEF Sorted
  <1>2. CASE j = Len(q) + 1
    BY <1>1, <1>2
  <1>3. CASE j # Len(q) + 1
    BY <1>1, <1>3 DEF Sorted
  <1> QED
    BY <1>2, <1>3

LEMMA AppendAfter ==
  ASSUME NEW q \in Seq(Line), NEW l \in Line, NEW r \in Seq(Line), Before(r, q),
         \A i \in 1..Len(r) : r[i].err = l.err => r[i].n < l.n
  PROVE  Before(r, Append(q, l))
  BY QueueFacts, LenProperties DEF Before

LEMMA AppendBefore ==
  ASSUME NEW q \in Seq(Line), NEW l \in Line, NEW r \in Seq(Line), Before(q, r),
         \A i \in 1..Len(r) : r[i].err = l.err => l.n < r[i].n
  PROVE  Before(Append(q, l), r)
  BY QueueFacts, LenProperties DEF Before

LEMMA AppendUpTo ==
  ASSUME NEW q \in Seq(Line), NEW l \in Line, NEW w, UpTo(q, w), l.n <= w
  PROVE  UpTo(Append(q, l), w)
  BY QueueFacts, LenProperties DEF UpTo

LEMMA TailSorted ==
  ASSUME NEW q \in Seq(Line), q # <<>>, Sorted(q)
  PROVE  /\ Sorted(Tail(q))
         /\ \A i \in 1..Len(Tail(q)) : Tail(q)[i].err = Head(q).err => Head(q).n < Tail(q)[i].n
  BY TailFacts DEF Sorted

LEMMA TailAfter ==
  ASSUME NEW q \in Seq(Line), q # <<>>, NEW r, Before(r, q)
  PROVE  Before(r, Tail(q))
  BY TailFacts DEF Before

LEMMA TailBefore ==
  ASSUME NEW q \in Seq(Line), q # <<>>, NEW r, Before(q, r)
  PROVE  Before(Tail(q), r)
  BY TailFacts DEF Before

LEMMA TailUpTo ==
  ASSUME NEW q \in Seq(Line), q # <<>>, NEW w, UpTo(q, w)
  PROVE  UpTo(Tail(q), w)
  BY TailFacts DEF UpTo

LEMMA EmptyQueue ==
  \A q : /\ Sorted(<<>>) /\ Before(<<>>, q) /\ Before(q, <<>>) /\ UpTo(<<>>, q)
         /\ Len(<<>>) = 0 /\ <<>> \in Seq(Line)
  BY DEF Sorted, Before, UpTo

LEMMA OneLine ==
  ASSUME NEW q \in Seq(Line), Len(q) <= 1, q # <<>>
  PROVE  q = <<q[1]>> /\ q[1] \in Line /\ Len(q) = 1
  <1>1. Len(q) \in Nat /\ Len(q) # 0
    BY EmptySeq, LenProperties
  <1>2. Len(q) = 1
    BY <1>1
  <1> QED
    BY <1>2, ElementOfSeq

LEMMA StreamTypes ==
  ASSUME NEW s \in StreamRecords
  PROVE  /\ s.sent \in Seq(Line) /\ s.chan \in Seq(Line) /\ s.hand \in [BOOLEAN -> Seq(Line)]
         /\ \A e \in BOOLEAN : s.hand[e] \in Seq(Line)
         /\ s.pos \in Nat /\ s.taken \in Nat /\ s.left \in 0..Attaches
         /\ Len(s.sent) \in Nat /\ Len(s.chan) \in Nat
  BY LenProperties DEF StreamRecords

LEMMA StreamInvInit == LogInit => StreamInv
  <1> SUFFICES ASSUME LogInit PROVE StreamInv
    OBVIOUS
  <1> USE LogAssumption
  <1>1. Unused \in StreamRecords
    BY EmptyQueue DEF Unused, StreamRecords
  <1>2. StreamOK(Unused, log, written)
    BY EmptyQueue DEF Unused, StreamOK, UpTo
  <1>3. streams \in [Ids -> StreamRecords] /\ \A k \in Ids : StreamOK(streams[k], log, written)
    BY <1>1, <1>2 DEF LogInit
  <1>4. /\ written \in 0..MaxWritten /\ sel \in Feeds \cup {"-"} /\ watched \in Ids \cup {0} /\ started \in BOOLEAN
        /\ source \in [Feeds -> {"absent", "exited", "running"}]
    BY DEF LogInit
  <1>5. ring \in Seq([k : Ids, line : Line]) /\ Len(ring) <= RingSize
    BY DEF LogInit
  <1>6. /\ log \in [Feeds -> Seq(Line)]
        /\ \A f \in Feeds : Len(log[f]) = 0
    BY EmptyQueue DEF LogInit
  <1>7. \A f \in Feeds : /\ UpTo(log[f], written)
                         /\ \A i, j \in 1..Len(log[f]) : i < j => log[f][i].n < log[f][j].n
    BY <1>6 DEF UpTo
  <1> QED
    BY <1>3, <1>4, <1>5, <1>6, <1>7 DEF StreamInv

(* A step of one stream that leaves the site as it is.                     *)
LEMMA StreamPut ==
  ASSUME StreamInv, NEW k \in Ids, NEW s \in StreamRecords, Put(k, s), StreamOK(s, log, written),
         UNCHANGED siteVars, UNCHANGED viewVars
  PROVE  StreamInv'
  <1>1. streams' \in [Ids -> StreamRecords] /\ \A j \in Ids : StreamOK(streams'[j], log, written)
    BY DEF StreamInv, Put
  <1> QED
    BY <1>1 DEF StreamInv, siteVars, viewVars

LEMMA AttachStep ==
  ASSUME StreamInv, NEW k \in Ids, Attach(k)
  PROVE  StreamInv'
  <1> DEFINE s == streams[k]
  <1>1. s \in StreamRecords /\ StreamOK(s, log, written) /\ s.at = "attach"
    BY DEF StreamInv, Attach
  <1>2. s.feed \in Feeds /\ log[s.feed] \in Seq(Line) /\ Len(log[s.feed]) \in Nat
    BY <1>1, LenProperties DEF StreamOK, StreamInv
  <1> HIDE DEF s
  <1>3. CASE Put(k, [s EXCEPT !.at = "end"])
    <2>1. [s EXCEPT !.at = "end"] \in StreamRecords
      BY <1>1 DEF StreamRecords
    <2>2. StreamOK([s EXCEPT !.at = "end"], log, written)
      BY <1>1 DEF StreamOK, StreamRecords
    <2> QED
      BY <1>3, <2>1, <2>2, StreamPut DEF Attach
  <1>4. CASE s.left # 0 /\ Put(k, [s EXCEPT !.at = "sleep", !.left = @ - 1])
    <2> DEFINE r == [s EXCEPT !.at = "sleep", !.left = s.left - 1]
    <2>1. s.left - 1 \in 0..Attaches
      BY <1>1, <1>4, LogAssumption DEF StreamRecords
    <2>2. r \in StreamRecords
      BY <1>1, <2>1 DEF StreamRecords
    <2>3. StreamOK(r, log, written)
      BY <1>1 DEF StreamOK, StreamRecords
    <2>4. Put(k, r)
      BY <1>4
    <2> QED
      BY <2>2, <2>3, <2>4, StreamPut DEF Attach
  <1>5. CASE s.left # 0 /\ Put(k, [s EXCEPT !.at = "read", !.left = @ - 1, !.pos = First(s)])
    <2> DEFINE r == [s EXCEPT !.at = "read", !.left = s.left - 1, !.pos = First(s)]
    <2>1. s.left - 1 \in 0..Attaches
      BY <1>1, <1>5, LogAssumption DEF StreamRecords
    <2>2. First(s) \in Nat /\ (s.seen => First(s) = Len(log[s.feed]))
      BY <1>2, LogAssumption DEF First
    <2>3. r \in StreamRecords
      BY <1>1, <2>1, <2>2 DEF StreamRecords
    <2>4. StreamOK(r, log, written)
      <3>1. /\ r.sent = s.sent /\ r.chan = s.chan /\ r.hand = s.hand /\ r.feed = s.feed /\ r.taken = s.taken
            /\ r.seen = s.seen /\ r.at = "read" /\ r.pos = First(s)
        BY <1>1 DEF StreamRecords
      <3>2. s.chan = <<>> /\ \A e \in BOOLEAN : s.hand[e] = <<>>
        BY <1>1 DEF StreamOK
      <3>3. ASSUME NEW x \in 1..Len(log[s.feed]), x > r.pos
            PROVE  s.sent = <<>>
        BY <1>1, <1>2, <2>2, <3>1, <3>3 DEF StreamOK
      <3>4. \A w : UpTo(<<>>, w)
        BY EmptyQueue
      <3> QED
        BY <1>1, <1>2, <3>1, <3>2, <3>3, <3>4 DEF StreamOK
    <2>5. Put(k, r)
      BY <1>5
    <2> HIDE DEF r
    <2> QED
      BY <2>3, <2>4, <2>5, StreamPut DEF Attach
  <1> QED
    BY <1>3, <1>4, <1>5 DEF Attach, s

LEMMA DemuxStep ==
  ASSUME StreamInv, NEW k \in Ids, Demux(k)
  PROVE  StreamInv'
  <1> DEFINE s == streams[k]
             q == log[s.feed]
             l == q[s.pos + 1]
             one == <<l>>
             h == [s.hand EXCEPT ![l.err] = one]
             r == [s EXCEPT !.pos = s.pos + 1, !.hand = h]
  <1>1. s \in StreamRecords /\ StreamOK(s, log, written) /\ s.at = "read" /\ s.pos < Len(q)
    BY DEF StreamInv, Demux
  <1>2. s.feed \in Feeds
    BY <1>1 DEF StreamOK
  <1>3. /\ q \in Seq(Line) /\ Len(q) \in Nat /\ UpTo(q, written) /\ written \in Nat
        /\ \A i, j \in 1..Len(q) : i < j => q[i].n < q[j].n
    BY <1>2, LenProperties, LogAssumption DEF StreamInv
  <1>4. s.pos + 1 \in 1..Len(q) /\ l \in Line /\ l.n \in Nat /\ l.err \in BOOLEAN
    BY <1>1, <1>3, StreamTypes, ElementOfSeq, LineTyped
  <1>5. s.hand[l.err] = <<>> /\ Put(k, r)
    BY <1>1, <1>4 DEF Demux
  <1>6. UNCHANGED siteVars /\ UNCHANGED viewVars
    BY DEF Demux
  <1> HIDE DEF s, q, l
  <1>7. /\ one \in Seq(Line) /\ Len(one) = 1 /\ one[1] = l
    BY <1>4
  <1> HIDE DEF one
  <1>8. /\ r \in StreamRecords
        /\ r.sent = s.sent /\ r.chan = s.chan /\ r.feed = s.feed /\ r.taken = s.taken /\ r.seen = s.seen
        /\ r.at = "read" /\ r.pos = s.pos + 1
        /\ r.hand[l.err] = one /\ \A e \in BOOLEAN : e # l.err => r.hand[e] = s.hand[e]
    <2>1. /\ h \in [BOOLEAN -> Seq(Line)] /\ h[l.err] = one
          /\ \A e \in BOOLEAN : e # l.err => h[e] = s.hand[e]
      BY <1>1, <1>4, <1>7, StreamTypes
    <2>3. s.pos + 1 \in Nat
      BY <1>1, StreamTypes
    <2> HIDE DEF h
    <2>2. /\ r \in StreamRecords /\ r.hand = h
          /\ r.sent = s.sent /\ r.chan = s.chan /\ r.feed = s.feed /\ r.taken = s.taken /\ r.seen = s.seen
          /\ r.at = "read" /\ r.pos = s.pos + 1
      BY <1>1, <2>1, <2>3 DEF StreamRecords
    <2> QED
      BY <2>1, <2>2
  <1>9. s.sent \in Seq(Line) /\ s.chan \in Seq(Line) /\ Len(s.sent) \in Nat /\ Len(s.chan) \in Nat
    BY <1>1, StreamTypes
  <1>10. UpTo(s.sent, l.n - 1) /\ UpTo(s.chan, l.n - 1)
    <2>1. s.pos + 1 > s.pos
      BY <1>1, StreamTypes
    <2>2. UpTo(s.sent, q[s.pos + 1].n - 1) /\ UpTo(s.chan, q[s.pos + 1].n - 1)
      BY <1>1, <1>4, <2>1 DEF StreamOK, q
    <2> QED
      BY <2>2 DEF l
  <1>11. l.n <= written
    BY <1>3, <1>4 DEF UpTo, l
  <1>12. /\ UpTo(one, written) /\ Before(s.sent, one) /\ Before(s.chan, one)
         /\ \A i \in 1..Len(one) : one[i].err = l.err
    <2>1. \A i \in 1..Len(s.sent) : s.sent[i] \in Line
      BY <1>9, ElementOfSeq
    <2>2. \A i \in 1..Len(s.chan) : s.chan[i] \in Line
      BY <1>9, ElementOfSeq
    <2> QED
      BY <1>4, <1>7, <1>9, <1>10, <1>11, <2>1, <2>2, LineTyped DEF UpTo, Before
  <1>13. \A x \in 1..Len(q) : x > s.pos + 1 => UpTo(one, q[x].n - 1)
    <2> SUFFICES ASSUME NEW x \in 1..Len(q), x > s.pos + 1 PROVE UpTo(one, q[x].n - 1)
      OBVIOUS
    <2>1. q[x].n \in Nat /\ l.n < q[x].n
      BY <1>3, <1>4, ElementOfSeq, LineTyped DEF l
    <2> QED
      BY <1>4, <1>7, <2>1 DEF UpTo
  <1> HIDE DEF r
  <1>14. StreamOK(r, log, written)
    <2>1. \A e \in BOOLEAN :
            /\ Len(r.hand[e]) <= 1 /\ UpTo(r.hand[e], written)
            /\ \A i \in 1..Len(r.hand[e]) : r.hand[e][i].err = e
            /\ Before(r.sent, r.hand[e]) /\ Before(r.chan, r.hand[e])
      <3> TAKE e \in BOOLEAN
      <3>1. CASE e = l.err
        <4>1. r.hand[e] = one /\ Len(one) <= 1
          BY <1>7, <1>8, <3>1
        <4>2. /\ UpTo(one, written) /\ Before(r.sent, one) /\ Before(r.chan, one)
              /\ \A i \in 1..Len(one) : one[i].err = e
          BY <1>8, <1>12, <3>1
        <4> QED
          BY <4>1, <4>2, Zenon
      <3>2. CASE e # l.err
        BY <1>1, <1>8, <3>2 DEF StreamOK
      <3> QED
        BY <3>1, <3>2
    <2>2. \A x \in 1..Len(log[r.feed]) : x > r.pos =>
            /\ UpTo(r.sent, log[r.feed][x].n - 1) /\ UpTo(r.chan, log[r.feed][x].n - 1)
            /\ \A e \in BOOLEAN : UpTo(r.hand[e], log[r.feed][x].n - 1)
      <3> SUFFICES ASSUME NEW x \in 1..Len(q), x > s.pos + 1
                   PROVE  /\ UpTo(s.sent, q[x].n - 1) /\ UpTo(s.chan, q[x].n - 1)
                          /\ \A e \in BOOLEAN : UpTo(r.hand[e], q[x].n - 1)
        BY <1>8 DEF q
      <3>1. x > s.pos
        BY <1>1, <1>3, StreamTypes
      <3>2. /\ UpTo(s.sent, q[x].n - 1) /\ UpTo(s.chan, q[x].n - 1)
            /\ \A e \in BOOLEAN : UpTo(s.hand[e], q[x].n - 1)
        BY <1>1, <3>1 DEF StreamOK, q
      <3> QED
        BY <1>8, <1>13, <3>2
    <2> QED
      BY <1>1, <1>8, <2>1, <2>2 DEF StreamOK
  <1> QED
    BY <1>5, <1>6, <1>8, <1>14, StreamPut

LEMMA PumpStep ==
  ASSUME StreamInv, NEW k \in Ids, NEW e \in BOOLEAN, Pump(k, e)
  PROVE  StreamInv'
  <1> DEFINE s == streams[k]
             l == s.hand[e][1]
             r == [s EXCEPT !.hand = [s.hand EXCEPT ![e] = <<>>], !.chan = Append(s.chan, l)]
  <1>1. /\ s \in StreamRecords /\ StreamOK(s, log, written) /\ s.at = "read"
        /\ s.hand[e] # <<>> /\ Len(s.chan) < Capacity /\ written \in Nat
        /\ UNCHANGED siteVars /\ UNCHANGED viewVars
    BY LogAssumption DEF StreamInv, Pump, Room
  <1>2. /\ s.sent \in Seq(Line) /\ s.chan \in Seq(Line) /\ Len(s.sent) \in Nat /\ Len(s.chan) \in Nat
        /\ \A d \in BOOLEAN : s.hand[d] \in Seq(Line)
    BY <1>1, StreamTypes
  <1>3. s.hand[e] = <<l>> /\ l \in Line /\ Len(s.hand[e]) = 1
    BY <1>1, <1>2, OneLine DEF StreamOK
  <1>4. s.chan \o s.hand[e] = Append(s.chan, l)
    <2> HIDE DEF l
    <2>1. s.chan \o <<l>> = Append(s.chan, l)
      BY <1>2, <1>3, QueueFacts
    <2> QED
      BY <1>3, <2>1
  <1>5. Put(k, r)
    BY <1>1, <1>4 DEF Pump
  <1> HIDE DEF s, l
  <1>6. Append(s.chan, l) \in Seq(Line) /\ Len(Append(s.chan, l)) = Len(s.chan) + 1
    BY <1>2, <1>3, QueueFacts
  <1>7. /\ r \in StreamRecords
        /\ r.sent = s.sent /\ r.chan = Append(s.chan, l) /\ r.feed = s.feed /\ r.taken = s.taken /\ r.seen = s.seen
        /\ r.at = "read" /\ r.pos = s.pos
        /\ r.hand[e] = <<>> /\ \A d \in BOOLEAN : d # e => r.hand[d] = s.hand[d]
    BY <1>1, <1>6, EmptyQueue DEF StreamRecords
  <1> HIDE DEF r
  <1>8. l.n \in Nat /\ l.err = e /\ l.n <= written
    BY <1>1, <1>3, LineTyped DEF StreamOK, UpTo, l
  <1>9. /\ \A i \in 1..Len(s.sent) : s.sent[i].err = l.err => s.sent[i].n < l.n
        /\ \A i \in 1..Len(s.chan) : s.chan[i].err = l.err => s.chan[i].n < l.n
    BY <1>1, <1>3 DEF StreamOK, Before, l
  <1>10. Sorted(r.chan) /\ Before(r.sent, r.chan) /\ UpTo(r.chan, written)
    <2>1. Sorted(s.chan) /\ Before(s.sent, s.chan) /\ UpTo(s.chan, written)
      BY <1>1 DEF StreamOK
    <2>2. Sorted(r.chan)
      BY <1>2, <1>3, <1>7, <1>9, <2>1, AppendSorted
    <2>3. Before(r.sent, r.chan)
      BY <1>2, <1>3, <1>7, <1>9, <2>1, AppendAfter
    <2>4. UpTo(r.chan, written)
      BY <1>2, <1>3, <1>7, <1>8, <2>1, AppendUpTo
    <2> QED
      BY <2>2, <2>3, <2>4
  <1>11. \A d \in BOOLEAN :
           /\ Len(r.hand[d]) <= 1 /\ UpTo(r.hand[d], written)
           /\ \A i \in 1..Len(r.hand[d]) : r.hand[d][i].err = d
           /\ Before(r.sent, r.hand[d]) /\ Before(r.chan, r.hand[d])
    <2> TAKE d \in BOOLEAN
    <2>1. CASE d = e
      BY <1>7, <2>1, EmptyQueue
    <2>2. CASE d # e
      <3>1. \A i \in 1..Len(s.hand[d]) : s.hand[d][i].err # l.err
        BY <1>1, <1>8, <2>2 DEF StreamOK
      <3>2. Before(r.chan, s.hand[d])
        <4>1. Before(s.chan, s.hand[d])
          BY <1>1 DEF StreamOK
        <4> QED
          BY <1>2, <1>3, <1>7, <3>1, <4>1, AppendBefore
      <3> QED
        BY <1>1, <1>7, <2>2, <3>2 DEF StreamOK
    <2> QED
      BY <2>1, <2>2
  <1>12. ASSUME NEW x \in 1..Len(log[s.feed]), x > s.pos
         PROVE  /\ UpTo(r.sent, log[s.feed][x].n - 1) /\ UpTo(r.chan, log[s.feed][x].n - 1)
                /\ \A d \in BOOLEAN : UpTo(r.hand[d], log[s.feed][x].n - 1)
    <2>1. /\ UpTo(s.sent, log[s.feed][x].n - 1) /\ UpTo(s.chan, log[s.feed][x].n - 1)
          /\ \A d \in BOOLEAN : UpTo(s.hand[d], log[s.feed][x].n - 1)
      BY <1>1, <1>12 DEF StreamOK
    <2>2. log[s.feed][x].n - 1 \in Int
      <3>1. log[s.feed] \in Seq(Line)
        BY <1>1 DEF StreamOK, StreamInv
      <3> QED
        BY <3>1, ElementOfSeq, LineTyped
    <2>3. l.n <= log[s.feed][x].n - 1
      BY <1>3, <2>1 DEF UpTo, l
    <2>4. UpTo(r.chan, log[s.feed][x].n - 1)
      BY <1>2, <1>3, <1>7, <2>1, <2>3, AppendUpTo
    <2>5. \A d \in BOOLEAN : UpTo(r.hand[d], log[s.feed][x].n - 1)
      BY <1>7, <2>1, EmptyQueue
    <2> QED
      BY <1>7, <2>1, <2>4, <2>5
  <1>13. StreamOK(r, log, written)
    BY <1>1, <1>2, <1>6, <1>7, <1>10, <1>11, <1>12, LogAssumption DEF StreamOK
  <1> QED
    BY <1>1, <1>5, <1>7, <1>13, StreamPut

LEMMA ForwardStep ==
  ASSUME StreamInv, NEW k \in Ids, Forward(k)
  PROVE  StreamInv'
  <1> DEFINE s == streams[k]
             l == Head(s.chan)
             r == [s EXCEPT !.seen = TRUE, !.chan = Tail(s.chan), !.sent = Append(s.sent, l)]
  <1>1. /\ s \in StreamRecords /\ StreamOK(s, log, written) /\ s.at = "read"
        /\ s.chan # <<>> /\ Len(s.sent) - s.taken < Capacity /\ written \in Nat
        /\ UNCHANGED siteVars /\ UNCHANGED viewVars
    BY LogAssumption DEF StreamInv, Forward, Out
  <1>2. /\ s.sent \in Seq(Line) /\ s.chan \in Seq(Line) /\ Len(s.sent) \in Nat /\ Len(s.chan) \in Nat
        /\ s.taken \in Nat /\ \A d \in BOOLEAN : s.hand[d] \in Seq(Line)
    BY <1>1, StreamTypes
  <1>3. /\ Tail(s.chan) \in Seq(Line) /\ Len(Tail(s.chan)) = Len(s.chan) - 1
        /\ l = s.chan[1] /\ 1 \in 1..Len(s.chan) /\ l \in Line
    BY <1>1, <1>2, TailFacts
  <1>4. Append(s.sent, l) \in Seq(Line) /\ Len(Append(s.sent, l)) = Len(s.sent) + 1
    BY <1>2, <1>3, QueueFacts
  <1>5. Put(k, r)
    BY <1>1 DEF Forward
  <1> HIDE DEF s, l
  <1>6. /\ r \in StreamRecords
        /\ r.sent = Append(s.sent, l) /\ r.chan = Tail(s.chan) /\ r.feed = s.feed /\ r.taken = s.taken
        /\ r.seen = TRUE /\ r.at = "read" /\ r.pos = s.pos /\ r.hand = s.hand
    BY <1>1, <1>3, <1>4 DEF StreamRecords
  <1> HIDE DEF r
  <1>7. l.n \in Nat /\ l.n <= written
    BY <1>1, <1>3, LineTyped DEF StreamOK, UpTo
  <1>8. \A i \in 1..Len(s.sent) : s.sent[i].err = l.err => s.sent[i].n < l.n
    BY <1>1, <1>3 DEF StreamOK, Before
  <1>9. Sorted(r.sent) /\ UpTo(r.sent, written)
    <2>1. Sorted(s.sent) /\ UpTo(s.sent, written)
      BY <1>1 DEF StreamOK
    <2> QED
      BY <1>2, <1>3, <1>6, <1>7, <1>8, <2>1, AppendSorted, AppendUpTo
  <1>10. /\ Sorted(r.chan) /\ UpTo(r.chan, written) /\ Before(s.sent, r.chan)
         /\ \A i \in 1..Len(r.chan) : r.chan[i].err = l.err => l.n < r.chan[i].n
    <2>1. Sorted(s.chan) /\ UpTo(s.chan, written) /\ Before(s.sent, s.chan)
      BY <1>1 DEF StreamOK
    <2> QED
      BY <1>1, <1>2, <1>6, <2>1, TailSorted, TailUpTo, TailAfter DEF l
  <1>11. Before(r.sent, r.chan)
    <2>1. r.chan \in Seq(Line)
      BY <1>3, <1>6
    <2> QED
      <3>1. Before(Append(s.sent, l), r.chan)
        BY <1>2, <1>3, <1>10, <2>1, AppendBefore
      <3> QED
        BY <1>6, <3>1
  <1>12. \A d \in BOOLEAN : Before(r.sent, r.hand[d]) /\ Before(r.chan, r.hand[d])
    <2> TAKE d \in BOOLEAN
    <2>1. Before(s.sent, s.hand[d]) /\ Before(s.chan, s.hand[d])
      BY <1>1 DEF StreamOK
    <2>2. \A i \in 1..Len(s.hand[d]) : s.hand[d][i].err = l.err => l.n < s.hand[d][i].n
      BY <1>3, <2>1 DEF Before
    <2>3. Before(r.sent, r.hand[d])
      <3>1. Before(Append(s.sent, l), s.hand[d])
        BY <1>2, <1>3, <2>1, <2>2, AppendBefore
      <3> QED
        BY <1>6, <3>1
    <2>4. Before(r.chan, r.hand[d])
      BY <1>1, <1>2, <1>6, <2>1, TailBefore
    <2> QED
      BY <2>3, <2>4
  <1>13. ASSUME NEW x \in 1..Len(log[s.feed]), x > s.pos
         PROVE  /\ UpTo(r.sent, log[s.feed][x].n - 1) /\ UpTo(r.chan, log[s.feed][x].n - 1)
                /\ \A d \in BOOLEAN : UpTo(r.hand[d], log[s.feed][x].n - 1)
    <2>1. /\ UpTo(s.sent, log[s.feed][x].n - 1) /\ UpTo(s.chan, log[s.feed][x].n - 1)
          /\ \A d \in BOOLEAN : UpTo(s.hand[d], log[s.feed][x].n - 1)
      BY <1>1, <1>13 DEF StreamOK
    <2>2. log[s.feed][x].n - 1 \in Int
      <3>1. log[s.feed] \in Seq(Line)
        BY <1>1 DEF StreamOK, StreamInv
      <3> QED
        BY <3>1, ElementOfSeq, LineTyped
    <2>3. l.n <= log[s.feed][x].n - 1
      BY <1>3, <2>1 DEF UpTo
    <2>4. UpTo(r.sent, log[s.feed][x].n - 1)
      BY <1>2, <1>3, <1>6, <2>1, <2>3, AppendUpTo
    <2>5. UpTo(r.chan, log[s.feed][x].n - 1)
      BY <1>1, <1>2, <1>6, <2>1, TailUpTo
    <2> QED
      BY <1>6, <2>1, <2>4, <2>5
  <1>14. /\ Len(r.chan) <= Capacity /\ r.taken <= Len(r.sent) /\ Len(r.sent) - r.taken <= Capacity
    <2>1. Len(s.chan) <= Capacity /\ s.taken <= Len(s.sent)
      BY <1>1 DEF StreamOK
    <2>2. Len(s.sent) \in Nat /\ Len(s.chan) \in Nat /\ s.taken \in Nat /\ Capacity \in Nat
      BY <1>2, LogAssumption
    <2>3. Len(r.sent) = Len(s.sent) + 1 /\ Len(r.chan) = Len(s.chan) - 1 /\ r.taken = s.taken
      BY <1>1, <1>2, <1>3, <1>6
    <2>4. Len(s.sent) - s.taken < Capacity
      BY <1>1
    <2> QED
      BY ONLY <2>1, <2>2, <2>3, <2>4
  <1>15. StreamOK(r, log, written)
    BY <1>1, <1>6, <1>9, <1>10, <1>11, <1>12, <1>13, <1>14 DEF StreamOK
  <1> QED
    BY <1>1, <1>5, <1>6, <1>15, StreamPut

(* What a stream does when nothing is on its way through it.               *)
LEMMA RestStep ==
  ASSUME StreamInv, NEW k \in Ids, Detach(k) \/ Wake(k) \/ Abandon(k)
  PROVE  StreamInv'
  <1> DEFINE s == streams[k]
  <1>1. s \in StreamRecords /\ StreamOK(s, log, written)
    BY DEF StreamInv
  <1>2. UNCHANGED siteVars /\ UNCHANGED viewVars
    BY DEF Detach, Wake, Abandon
  <1>3. ASSUME NEW at \in {"attach", "sleep", "end"}, s.at \in {"read", "sleep"}, s.chan = <<>>,
               \A e \in BOOLEAN : s.hand[e] = <<>>, Put(k, [s EXCEPT !.at = at])
        PROVE  StreamInv'
    <2> DEFINE r == [s EXCEPT !.at = at]
    <2>1. /\ r \in StreamRecords /\ r.at = at /\ r.sent = s.sent /\ r.chan = s.chan /\ r.hand = s.hand
          /\ r.seen = s.seen /\ r.taken = s.taken /\ r.feed = s.feed
      BY <1>1 DEF StreamRecords
    <2> HIDE DEF s
    <2>2. StreamOK(r, log, written)
      BY <1>1, <1>3, <2>1 DEF StreamOK
    <2>3. Put(k, r)
      BY <1>3
    <2> HIDE DEF r
    <2> QED
      BY <1>2, <2>1, <2>2, <2>3, StreamPut
  <1>4. CASE Detach(k)
    <2>1. /\ s.at = "read" /\ s.chan = <<>> /\ s.hand = [e \in BOOLEAN |-> <<>>]
          /\ Put(k, [s EXCEPT !.at = IF started THEN "sleep" ELSE "end"])
      BY <1>4 DEF Detach, FeedClosed
    <2>2. \A e \in BOOLEAN : s.hand[e] = <<>>
      BY <2>1
    <2>3. (IF started THEN "sleep" ELSE "end") \in {"attach", "sleep", "end"}
      OBVIOUS
    <2> HIDE DEF s
    <2> QED
      BY <1>3, <2>1, <2>2, <2>3
  <1>5. CASE Wake(k)
    <2>1. s.at = "sleep" /\ Put(k, [s EXCEPT !.at = "attach"])
      BY <1>5 DEF Wake
    <2>2. s.chan = <<>> /\ \A e \in BOOLEAN : s.hand[e] = <<>>
      BY <1>1, <2>1 DEF StreamOK
    <2> HIDE DEF s
    <2> QED
      BY <1>3, <2>1, <2>2
  <1>6. CASE Abandon(k)
    <2> DEFINE r == [s EXCEPT !.at = "end", !.chan = <<>>, !.hand = Unused.hand]
    <2>1. Unused.hand \in [BOOLEAN -> Seq(Line)] /\ \A e \in BOOLEAN : Unused.hand[e] = <<>>
      BY EmptyQueue DEF Unused
    <2>2. /\ r \in StreamRecords /\ r.at = "end" /\ r.sent = s.sent /\ r.chan = <<>> /\ r.hand = Unused.hand
          /\ r.seen = s.seen /\ r.taken = s.taken /\ r.feed = s.feed
      BY <1>1, <2>1, EmptyQueue DEF StreamRecords
    <2>3. Put(k, r)
      BY <1>6 DEF Abandon
    <2> HIDE DEF s, r
    <2>4. \A q : Sorted(<<>>) /\ Before(q, <<>>) /\ UpTo(<<>>, q)
      BY EmptyQueue
    <2>5. \A e \in BOOLEAN :
            /\ Len(r.hand[e]) <= 1 /\ UpTo(r.hand[e], written)
            /\ \A i \in 1..Len(r.hand[e]) : r.hand[e][i].err = e
            /\ Before(r.sent, r.hand[e]) /\ Before(r.chan, r.hand[e])
      BY <2>1, <2>2, <2>4
    <2>6. StreamOK(r, log, written)
      BY <1>1, <2>1, <2>2, <2>4, <2>5, LogAssumption DEF StreamOK
    <2> QED
      BY <1>2, <2>2, <2>3, <2>6, StreamPut
  <1> QED
    BY <1>4, <1>5, <1>6

LEMMA AppendLineStep ==
  ASSUME StreamInv, NEW k \in Ids, AppendLine(k)
  PROVE  StreamInv'
  <1> DEFINE s == streams[k]
             r == [s EXCEPT !.taken = s.taken + 1]
             x == [k |-> k, line |-> s.sent[s.taken + 1]]
             Kind == [k : Ids, line : Line]
  <1>1. /\ s \in StreamRecords /\ StreamOK(s, log, written) /\ Len(s.sent) - s.taken > 0
        /\ ring' = Kept(Append(ring, x)) /\ Put(k, r) /\ UNCHANGED siteVars /\ UNCHANGED <<sel, watched>>
        /\ ring \in Seq(Kind) /\ Len(ring) <= RingSize
    BY DEF StreamInv, AppendLine, Out
  <1> HIDE DEF s
  <1>2. /\ s.sent \in Seq(Line) /\ Len(s.sent) \in Nat /\ s.taken \in Nat /\ s.taken + 1 \in 1..Len(s.sent)
    BY <1>1, StreamTypes
  <1>3. x \in Kind
    BY <1>2, ElementOfSeq
  <1>4. /\ r \in StreamRecords /\ r.taken = s.taken + 1 /\ r.sent = s.sent /\ r.chan = s.chan /\ r.hand = s.hand
        /\ r.at = s.at /\ r.pos = s.pos /\ r.seen = s.seen /\ r.feed = s.feed
    <2>1. s.taken + 1 \in Nat
      BY <1>2
    <2> QED
      BY <1>1, <2>1 DEF StreamRecords
  <1> HIDE DEF r, x, Kind
  <1>5. StreamOK(r, log, written)
    <2>1. r.taken <= Len(r.sent) /\ Len(r.sent) - r.taken <= Capacity
      <3>1. s.taken <= Len(s.sent) /\ Len(s.sent) - s.taken <= Capacity
        BY <1>1 DEF StreamOK
      <3>2. r.taken = s.taken + 1 /\ r.sent = s.sent /\ Capacity \in Nat
        BY <1>4, LogAssumption
      <3> QED
        BY ONLY <1>2, <3>1, <3>2
    <2> QED
      BY <1>1, <1>4, <2>1 DEF StreamOK
  <1>6. /\ Append(ring, x) \in Seq(Kind) /\ Len(Append(ring, x)) = Len(ring) + 1 /\ Len(ring) \in Nat
        /\ Append(ring, x) # <<>>
    BY <1>1, <1>3, AppendProperties, LenProperties
  <1>7. Tail(Append(ring, x)) \in Seq(Kind) /\ Len(Tail(Append(ring, x))) = Len(ring)
    BY <1>6, HeadTailProperties
  <1>8. ring' \in Seq(Kind) /\ Len(ring') <= RingSize
    BY <1>1, <1>6, <1>7, LogAssumption DEF Kept
  <1>9. streams' \in [Ids -> StreamRecords] /\ \A j \in Ids : StreamOK(streams'[j], log, written)
    BY <1>1, <1>4, <1>5 DEF StreamInv, Put
  <1> QED
    BY <1>1, <1>8, <1>9 DEF StreamInv, siteVars, Kind

LEMMA SelectFeedStep ==
  ASSUME StreamInv, NEW f \in Feeds, SelectFeed(f)
  PROVE  StreamInv'
  <1> DEFINE new == [Unused EXCEPT !.feed = f, !.live = TRUE, !.at = "attach", !.left = Attaches]
  <1>1. PICK k \in Ids : streams' = [AllButCancelled(watched) EXCEPT ![k] = new] /\ watched' = k
    BY DEF SelectFeed
  <1>2. /\ new \in StreamRecords /\ new.sent = <<>> /\ new.chan = <<>> /\ new.at = "attach" /\ new.feed = f
        /\ new.taken = 0 /\ new.hand \in [BOOLEAN -> Seq(Line)] /\ \A e \in BOOLEAN : new.hand[e] = <<>>
    <2>1. /\ Unused \in StreamRecords /\ Unused.sent = <<>> /\ Unused.chan = <<>> /\ Unused.taken = 0
          /\ Unused.hand \in [BOOLEAN -> Seq(Line)] /\ \A e \in BOOLEAN : Unused.hand[e] = <<>>
      BY EmptyQueue, LogAssumption DEF Unused, StreamRecords
    <2>2. Attaches \in 0..Attaches
      BY LogAssumption
    <2> QED
      BY <2>1, <2>2 DEF StreamRecords
  <1> HIDE DEF new
  <1>3. StreamOK(new, log, written)
    <2>1. \A q : Sorted(<<>>) /\ Before(q, <<>>) /\ Before(<<>>, q) /\ UpTo(<<>>, q) /\ Len(<<>>) = 0
      BY EmptyQueue
    <2> QED
      BY <1>2, <2>1, LogAssumption DEF StreamOK
  <1>4. /\ AllButCancelled(watched) \in [Ids -> StreamRecords]
        /\ \A j \in Ids : StreamOK(AllButCancelled(watched)[j], log, written)
    <2>1. CASE watched = 0
      BY <2>1 DEF AllButCancelled, StreamInv
    <2>2. CASE watched # 0
      <3> DEFINE r == [streams[watched] EXCEPT !.live = FALSE]
      <3>1. watched \in Ids /\ streams[watched] \in StreamRecords /\ StreamOK(streams[watched], log, written)
        BY <2>2 DEF StreamInv
      <3>2. r \in StreamRecords /\ StreamOK(r, log, written)
        BY <3>1 DEF StreamRecords, StreamOK
      <3>3. AllButCancelled(watched) = [streams EXCEPT ![watched] = r]
        BY <2>2, <3>1 DEF AllButCancelled, StreamInv
      <3> HIDE DEF r
      <3> QED
        BY <3>1, <3>2, <3>3 DEF StreamInv
    <2> QED
      BY <2>1, <2>2
  <1>5. streams' \in [Ids -> StreamRecords] /\ \A j \in Ids : StreamOK(streams'[j], log, written)
    BY <1>1, <1>2, <1>3, <1>4
  <1>6. ring' \in Seq([k : Ids, line : Line]) /\ Len(ring') <= RingSize
    BY LogAssumption DEF SelectFeed
  <1> QED
    BY <1>1, <1>5, <1>6 DEF StreamInv, SelectFeed, siteVars

LEMMA WriteLineStep ==
  ASSUME StreamInv, NEW f \in Feeds, WriteLine(f)
  PROVE  StreamInv'
  <1>1. PICK e \in BOOLEAN : log' = [log EXCEPT ![f] = Append(log[f], [n |-> written + 1, err |-> e])]
    BY DEF WriteLine
  <1> DEFINE l == [n |-> written + 1, err |-> e]
             q == log[f]
  <1>2. /\ written \in Nat /\ MaxWritten \in Nat /\ written + 1 \in 1..MaxWritten /\ written' = written + 1
        /\ q \in Seq(Line) /\ Len(q) \in Nat /\ log \in [Feeds -> Seq(Line)]
    BY LenProperties, LogAssumption DEF StreamInv, WriteLine
  <1>3. l \in Line /\ l.n = written + 1
    BY <1>2 DEF Line
  <1> HIDE DEF l
  <1>4. /\ log' \in [Feeds -> Seq(Line)] /\ log'[f] = Append(q, l)
        /\ \A g \in Feeds : g # f => log'[g] = log[g]
        /\ Len(Append(q, l)) = Len(q) + 1 /\ Append(q, l)[Len(q) + 1] = l
        /\ \A i \in 1..Len(q) : Append(q, l)[i] = q[i] /\ q[i] \in Line
    BY <1>1, <1>2, <1>3, QueueFacts DEF l
  <1>5. \A p \in Seq(Line) : UpTo(p, written) => UpTo(p, written + 1)
    <2> SUFFICES ASSUME NEW p \in Seq(Line), UpTo(p, written), NEW i \in 1..Len(p) PROVE p[i].n <= written + 1
      BY DEF UpTo
    <2>1. p[i].n <= written /\ p[i].n \in Nat
      BY ElementOfSeq, LineTyped DEF UpTo
    <2> QED
      BY <1>2, <2>1
  <1>6. \A g \in Feeds : UpTo(log'[g], written + 1)
    <2> TAKE g \in Feeds
    <2>1. log[g] \in Seq(Line) /\ UpTo(log[g], written)
      BY DEF StreamInv
    <2>2. UpTo(log[g], written + 1)
      BY <1>5, <2>1
    <2>3. UpTo(Append(q, l), written + 1) \/ g # f
      BY <1>2, <1>3, <2>2, AppendUpTo
    <2> QED
      BY <1>4, <2>2, <2>3
  <1>7. \A g \in Feeds : \A i, j \in 1..Len(log'[g]) : i < j => log'[g][i].n < log'[g][j].n
    <2> TAKE g \in Feeds
    <2>1. CASE g # f
      BY <1>4, <2>1 DEF StreamInv
    <2>2. CASE g = f
      <3> SUFFICES ASSUME NEW i \in 1..(Len(q) + 1), NEW j \in 1..(Len(q) + 1), i < j
                   PROVE  Append(q, l)[i].n < Append(q, l)[j].n
        BY <1>4, <2>2
      <3>1. \A x \in 1..Len(q) : q[x].n <= written /\ q[x].n \in Nat
        BY <1>4, LineTyped DEF StreamInv, UpTo
      <3>2. CASE j = Len(q) + 1
        BY <1>2, <1>3, <1>4, <3>1, <3>2
      <3>3. CASE j # Len(q) + 1
        <4>1. i \in 1..Len(q) /\ j \in 1..Len(q)
          BY <1>2, <3>3
        <4>2. q[i].n < q[j].n
          BY <4>1 DEF StreamInv
        <4> QED
          BY <1>4, <4>1, <4>2
      <3> QED
        BY <3>2, <3>3
    <2> QED
      BY <2>1, <2>2
  <1>8. \A k \in Ids : StreamOK(streams[k], log', written + 1)
    <2> TAKE k \in Ids
    <2> DEFINE s == streams[k]
    <2>1. s \in StreamRecords /\ StreamOK(s, log, written)
      BY DEF StreamInv
    <2> HIDE DEF s
    <2>2. s.sent \in Seq(Line) /\ s.chan \in Seq(Line) /\ \A d \in BOOLEAN : s.hand[d] \in Seq(Line)
      BY <2>1, StreamTypes
    <2>3. /\ UpTo(s.sent, written) /\ UpTo(s.chan, written)
          /\ \A d \in BOOLEAN : UpTo(s.hand[d], written)
      BY <2>1 DEF StreamOK
    <2>4. /\ UpTo(s.sent, written + 1) /\ UpTo(s.chan, written + 1)
          /\ \A d \in BOOLEAN : UpTo(s.hand[d], written + 1)
      BY <1>5, <2>2, <2>3
    <2>5. ASSUME s.at = "read", NEW x \in 1..Len(log'[s.feed]), x > s.pos
          PROVE  /\ UpTo(s.sent, log'[s.feed][x].n - 1) /\ UpTo(s.chan, log'[s.feed][x].n - 1)
                 /\ \A d \in BOOLEAN : UpTo(s.hand[d], log'[s.feed][x].n - 1)
      <3>1. s.feed \in Feeds
        BY <2>1, <2>5 DEF StreamOK
      <3>2. CASE s.feed = f /\ x = Len(q) + 1
        <4>1. log'[s.feed][x].n - 1 = written
          <5>1. log'[s.feed][x] = l
            BY <1>4, <3>2
          <5> QED
            BY <1>2, <1>3, <5>1
        <4> QED
          BY <2>3, <4>1
      <3>3. CASE ~(s.feed = f /\ x = Len(q) + 1)
        <4>1. x \in 1..Len(log[s.feed]) /\ log'[s.feed][x] = log[s.feed][x]
          <5>1. CASE s.feed # f
            BY <1>4, <2>5, <3>1, <5>1
          <5>2. CASE s.feed = f
            <6>1. log'[s.feed] = Append(q, l) /\ Len(log'[s.feed]) = Len(q) + 1 /\ x # Len(q) + 1
              BY <1>4, <3>3, <5>2
            <6>2. x \in 1..Len(q)
              BY <1>2, <2>5, <6>1
            <6> QED
              BY <1>4, <5>2, <6>1, <6>2
          <5> QED
            BY <5>1, <5>2
        <4> QED
          BY <2>1, <2>5, <4>1 DEF StreamOK
      <3> QED
        BY <3>2, <3>3
    <2>6. StreamOK(s, log', written + 1)
      BY <2>1, <2>4, <2>5 DEF StreamOK
    <2> QED
      BY <2>6 DEF s
  <1>9. UNCHANGED <<source, started, turns, streams, viewVars>>
    BY DEF WriteLine
  <1> QED
    BY <1>2, <1>4, <1>6, <1>7, <1>8, <1>9 DEF StreamInv, viewVars

LEMMA SiteStops ==
  ASSUME StreamInv, StopLoggedSite
  PROVE  StreamInv'
  <1>1. /\ log' = [f \in Feeds |-> <<>>] /\ UNCHANGED <<written, streams, viewVars>>
        /\ started' = FALSE /\ source' = [f \in Feeds |-> "absent"]
    BY DEF StopLoggedSite
  <1>2. log' \in [Feeds -> Seq(Line)] /\ \A f \in Feeds : log'[f] = <<>>
    BY <1>1, EmptyQueue
  <1>3. \A f \in Feeds : /\ UpTo(log'[f], written)
                         /\ \A i, j \in 1..Len(log'[f]) : i < j => log'[f][i].n < log'[f][j].n
    BY <1>2 DEF UpTo
  <1>4. \A k \in Ids : StreamOK(streams[k], log', written)
    <2> TAKE k \in Ids
    <2>1. StreamOK(streams[k], log, written)
      BY DEF StreamInv
    <2>2. streams[k].at = "read" => log'[streams[k].feed] = <<>>
      BY <1>2, <2>1 DEF StreamOK
    <2>3. streams[k].at = "read" => 1..Len(log'[streams[k].feed]) = {}
      BY <2>2
    <2> QED
      BY <2>1, <2>3 DEF StreamOK
  <1> QED
    BY <1>1, <1>2, <1>3, <1>4 DEF StreamInv, viewVars

LEMMA StreamInvStep == StreamInv /\ [LogNext]_logVars => StreamInv'
  <1> SUFFICES ASSUME StreamInv, [LogNext]_logVars PROVE StreamInv'
    OBVIOUS
  <1>1. ASSUME NEW f \in Feeds, FeedExit(f) PROVE StreamInv'
    <2>1. source' \in [Feeds -> {"absent", "exited", "running"}]
      BY <1>1 DEF FeedExit, StreamInv
    <2> QED
      BY <1>1, <2>1 DEF FeedExit, StreamInv, viewVars
  <1>2. CASE Clear
    <2>1. ring' \in Seq([k : Ids, line : Line]) /\ Len(ring') <= RingSize
      BY <1>2, LogAssumption DEF Clear
    <2> QED
      BY <1>2, <2>1 DEF Clear, StreamInv, siteVars
  <1>3. CASE UNCHANGED logVars
    BY <1>3 DEF logVars, StreamInv
  <1> QED
    BY <1>1, <1>2, <1>3, WriteLineStep, SelectFeedStep, SiteStops, AttachStep, DemuxStep, PumpStep, ForwardStep,
       RestStep, AppendLineStep
    DEF LogNext, StreamSteps

LEMMA StreamInvariant == LogSpec => []StreamInv
  BY StreamInvInit, StreamInvStep, PTL DEF LogSpec

(* The two channels of a stream and the viewer's ring never hold more than *)
(* they are made for, and the viewer never takes a line that was not sent. *)
THEOREM LogTypeCorrect == LogSpec => []LogTypeOK
  <1>1. StreamInv => LogTypeOK
    <2> SUFFICES ASSUME StreamInv PROVE LogTypeOK
      OBVIOUS
    <2>1. \A f \in Feeds : \A i \in 1..Len(log[f]) : log[f][i] \in Line
      BY ElementOfSeq DEF StreamInv
    <2>2. \A k \in Ids :
            /\ streams[k].feed \in Feeds \cup {"-"} /\ streams[k].live \in BOOLEAN
            /\ streams[k].at \in {"unused", "attach", "read", "sleep", "end"} /\ streams[k].left \in 0..Attaches
      BY DEF StreamInv, StreamRecords
    <2>3. \A k \in Ids :
            /\ Len(streams[k].chan) <= Capacity /\ streams[k].taken <= Len(streams[k].sent)
            /\ Len(streams[k].sent) - streams[k].taken <= Capacity
      BY DEF StreamInv, StreamOK
    <2> QED
      BY <2>1, <2>2, <2>3 DEF LogTypeOK, StreamInv
  <1> QED
    BY <1>1, StreamInvariant, PTL

(* Over every restart of its container, a stream gives the viewer each line *)
(* of an output at most once and in the order it was written               *)
(* (engine_logstream.go:81-88: the history is not replayed on resuming).   *)
THEOREM LinesArriveInOrder == LogSpec => []LinesInOrder
  <1>1. StreamInv => LinesInOrder
    BY DEF StreamInv, StreamOK, Sorted, LinesInOrder
  <1> QED
    BY <1>1, StreamInvariant, PTL

-----------------------------------------------------------------------------
(* The engine wrapper.                                                     *)

Creating == {"inspect", "drift", "make", "clash", "start"}
PcsAt == [pull |-> {"pull"}, create |-> Creating, wait |-> {"poll"}]
CtrRecords(r) == {NoCtr} \cup [hash : [Specs[r] \cap Wishes -> Nat], st : States]
Fits(r) == ctr[r] # NoCtr /\ ctr[r].hash = ConfigHash(r)

PhasesOK ==
  \A r \in Roles :
    /\ stage \in {"pull", "create", "wait"} => pc[r] \in PcsAt[stage] \cup Ended
    /\ stage = "undo" => pc[r] \in {"undo", "idle"}
    /\ stage \in {"idle", "net", "up", "failed"} => pc[r] = "idle"
Pcs == {"idle", "pull", "inspect", "drift", "make", "clash", "start", "poll", "undo"} \cup Ended
Phases == {"idle", "net", "pull", "create", "wait", "undo", "up", "failed"}
Tries == [Roles \cup {"net"} -> 1..5]
LatesOK == \A l \in late : /\ l.r \in Roles /\ l.c \in CtrRecords(l.r)
EngineTypes ==
  /\ row \in [Wishes -> 0..MaxWishes] /\ up \in BOOLEAN /\ restarts \in 0..Daemons /\ net \in BOOLEAN
  /\ DOMAIN ctr = Roles /\ \A r \in Roles : ctr[r] \in CtrRecords(r)
  /\ LatesOK
  /\ pulled \subseteq Roles /\ doomed \subseteq Roles /\ wipe \in {"-", "ctrs"}
  /\ stage \in Phases /\ undo \subseteq {"net", "ctrs"}
  /\ pc \in [Roles -> Pcs] /\ try \in Tries /\ spoiled \in BOOLEAN

(* What a role's goroutine has left so far, when nobody has disturbed it:  *)
(* one that drops a container has found another hash on it, one that       *)
(* starts it has found or made one that fits, one that is done runs it.    *)
RoleOK(r) ==
  /\ pc[r] = "drift" => ctr[r] # NoCtr /\ ctr[r].hash # ConfigHash(r)
  /\ pc[r] = "start" => Fits(r)
  /\ stage = "create" /\ pc[r] = "ok" => Fits(r) /\ ctr[r].st \in Running
  /\ stage = "wait" => Fits(r) /\ ctr[r].st \in Running
  /\ stage = "wait" /\ pc[r] = "ok" => ctr[r].st = "healthy"

EngineInv ==
  /\ EngineTypes
  /\ PhasesOK
  /\ ~spoiled /\ stage \in {"pull", "create", "wait"} => net /\ \A r \in Roles : RoleOK(r)

LEMMA EngineInvInit == EngineInit => EngineInv
  <1> SUFFICES ASSUME EngineInit PROVE EngineInv
    OBVIOUS
  <1>1. row \in [Wishes -> 0..MaxWishes] /\ restarts \in 0..Daemons
    BY EngineAssumption DEF EngineInit
  <1>2. DOMAIN ctr = Roles /\ \A r \in Roles : ctr[r] \in CtrRecords(r)
    BY DEF EngineInit, CtrRecords
  <1>3. pc \in [Roles -> Pcs] /\ try \in Tries
    BY DEF EngineInit, Pcs, Tries
  <1>4. EngineTypes
    BY <1>1, <1>2, <1>3 DEF EngineInit, EngineTypes, LatesOK, Phases
  <1> QED
    BY <1>4 DEF EngineInit, EngineInv, PhasesOK

LEMMA CtrTyped ==
  ASSUME EngineInv, NEW r \in Roles
  PROVE  /\ ctr[r] \in CtrRecords(r)
         /\ ctr[r] # NoCtr => ctr[r] \in [hash : [Specs[r] \cap Wishes -> Nat], st : States]
         /\ ConfigHash(r) \in [Specs[r] \cap Wishes -> Nat]
         /\ Built(r) \in CtrRecords(r) /\ Built(r) # NoCtr /\ Built(r).hash = ConfigHash(r)
         /\ \A st \in States : ctr[r] # NoCtr =>
              /\ [ctr[r] EXCEPT !.st = st] \in CtrRecords(r) /\ [ctr[r] EXCEPT !.st = st] # NoCtr
              /\ [ctr[r] EXCEPT !.st = st].hash = ctr[r].hash /\ [ctr[r] EXCEPT !.st = st].st = st
  <1>1. row \in [Wishes -> 0..MaxWishes] /\ ctr[r] \in CtrRecords(r)
    BY DEF EngineInv, EngineTypes
  <1>2. ConfigHash(r) \in [Specs[r] \cap Wishes -> Nat]
    BY <1>1, EngineAssumption DEF ConfigHash
  <1>3. NoCtr.st = "none" /\ "none" \notin States /\ "created" \in States
    BY DEF NoCtr, States
  <1>4. Built(r) \in CtrRecords(r) /\ Built(r) # NoCtr /\ Built(r).hash = ConfigHash(r)
    BY <1>2, <1>3 DEF Built, CtrRecords
  <1>5. ctr[r] # NoCtr => ctr[r] \in [hash : [Specs[r] \cap Wishes -> Nat], st : States]
    BY <1>1 DEF CtrRecords
  <1>6. ASSUME NEW st \in States, ctr[r] # NoCtr
        PROVE  /\ [ctr[r] EXCEPT !.st = st] \in CtrRecords(r) /\ [ctr[r] EXCEPT !.st = st] # NoCtr
               /\ [ctr[r] EXCEPT !.st = st].hash = ctr[r].hash /\ [ctr[r] EXCEPT !.st = st].st = st
    <2>1. /\ [ctr[r] EXCEPT !.st = st] \in [hash : [Specs[r] \cap Wishes -> Nat], st : States]
          /\ [ctr[r] EXCEPT !.st = st].hash = ctr[r].hash /\ [ctr[r] EXCEPT !.st = st].st = st
      BY <1>5, <1>6
    <2> QED
      BY <1>3, <2>1 DEF CtrRecords
  <1> QED
    BY <1>1, <1>2, <1>4, <1>5, <1>6

LEMMA NextTry ==
  ASSUME EngineInv, NEW r \in Roles, NEW p, NEW class, GoTo(r, p) \/ Again(r, class, p)
  PROVE  /\ try' \in Tries
         /\ pc' = [pc EXCEPT ![r] = p] \/ (pc' = [pc EXCEPT ![r] = "err"] /\ ~GoTo(r, p))
  <1>1. try \in Tries
    BY DEF EngineInv, EngineTypes
  <1>2. ASSUME NEW a, GoTo(r, a) PROVE try' \in Tries /\ pc' = [pc EXCEPT ![r] = a]
    BY <1>1, <1>2 DEF GoTo, Tries
  <1>3. ASSUME ~GoTo(r, p), Again(r, class, p), try[r] >= Last(class) PROVE GoTo(r, "err")
    BY <1>3 DEF Again
  <1>4. ASSUME Again(r, class, p), ~(try[r] >= Last(class))
        PROVE  try' \in Tries /\ pc' = [pc EXCEPT ![r] = p]
    <2>1. try' = [try EXCEPT ![r] = IF try[r] < 5 THEN try[r] + 1 ELSE try[r]] /\ pc' = [pc EXCEPT ![r] = p]
      BY <1>4 DEF Again
    <2>2. (IF try[r] < 5 THEN try[r] + 1 ELSE try[r]) \in 1..5
      BY <1>1 DEF Tries
    <2> QED
      BY <1>1, <2>1, <2>2 DEF Tries
  <1> QED
    BY <1>2, <1>3, <1>4

(* A step of one role's goroutine.                                         *)
LEMMA RoleStep ==
  ASSUME EngineInv, NEW r \in Roles, NEW p \in Pcs,
         pc' = [pc EXCEPT ![r] = p], try' \in Tries,
         DOMAIN ctr' = Roles, ctr'[r] \in CtrRecords(r), \A x \in Roles : x # r => ctr'[x] = ctr[x],
         pulled' \subseteq Roles, doomed' \subseteq Roles,
         UNCHANGED <<row, up, restarts, net, late, wipe, stage, undo, spoiled>>,
         \/ stage \in {"pull", "create", "wait"} /\ p \in PcsAt[stage] \cup Ended
         \/ stage = "undo" /\ p = "idle",
         ~spoiled /\ stage \in {"pull", "create", "wait"} => RoleOK(r)'
  PROVE  EngineInv'
  <1>1. pc \in [Roles -> Pcs] /\ pc' \in [Roles -> Pcs] /\ pc'[r] = p /\ \A x \in Roles : x # r => pc'[x] = pc[x]
    BY DEF EngineInv, EngineTypes
  <1>2. \A x \in Roles : ctr'[x] \in CtrRecords(x)
    BY DEF EngineInv, EngineTypes
  <1>3. EngineTypes'
    BY <1>1, <1>2 DEF EngineInv, EngineTypes, LatesOK, CtrRecords
  <1>4. PhasesOK'
    BY <1>1 DEF EngineInv, PhasesOK
  <1>5. ASSUME ~spoiled', stage' \in {"pull", "create", "wait"}
        PROVE  net' /\ \A x \in Roles : RoleOK(x)'
    <2>1. net /\ \A x \in Roles : RoleOK(x)
      BY <1>5 DEF EngineInv
    <2>2. ASSUME NEW x \in Roles, x # r PROVE RoleOK(x)'
      BY <1>1, <2>1, <2>2 DEF RoleOK, Fits, ConfigHash
    <2> QED
      BY <1>5, <2>1, <2>2
  <1> QED
    BY <1>3, <1>4, <1>5 DEF EngineInv

(* A step of someone else.                                                 *)
LEMMA SpoilStep ==
  ASSUME EngineInv, Spoil, UNCHANGED row,
         up' \in BOOLEAN, restarts' \in 0..Daemons, net' \in BOOLEAN,
         DOMAIN ctr' = Roles, \A x \in Roles : ctr'[x] \in CtrRecords(x), late' \subseteq late,
         pulled' \subseteq Roles, doomed' \subseteq Roles, wipe' \in {"-", "ctrs"}
  PROVE  EngineInv'
  BY DEF EngineInv, EngineTypes, PhasesOK, Spoil, LatesOK, CtrRecords

LEMMA OthersStep ==
  ASSUME EngineInv,
         \/ DaemonStops \/ DaemonStarts \/ Land \/ Crash \/ BeginWipe \/ WipeNets
         \/ \E r \in Roles : Probe(r) \/ WipeOne(r)
         \/ \E f \in Wishes : ChangeWish(f)
  PROVE  EngineInv'
  <1>1. /\ EngineTypes /\ PhasesOK /\ DOMAIN ctr = Roles /\ net \in BOOLEAN /\ restarts \in 0..Daemons
        /\ up \in BOOLEAN /\ wipe \in {"-", "ctrs"}
        /\ \A x \in Roles : ctr[x] \in CtrRecords(x)
        /\ pulled \subseteq Roles /\ doomed \subseteq Roles
    BY DEF EngineInv, EngineTypes
  <1>2. \A x \in Roles : NoCtr \in CtrRecords(x)
    BY DEF CtrRecords
  <1>3. \A x \in Roles : ctr[x].st \in Running => ctr[x] # NoCtr
    BY DEF NoCtr, Running
  <1>4. \A x \in Roles : ctr[x].st \in Running => [ctr[x] EXCEPT !.st = "exited"] \in CtrRecords(x)
    BY <1>3, CtrTyped DEF States
  <1>5. CASE DaemonStops
    <2>1. restarts' \in 0..Daemons
      BY <1>1, <1>5, EngineAssumption DEF DaemonStops
    <2>2. DOMAIN ctr' = Roles /\ \A x \in Roles : ctr'[x] \in CtrRecords(x)
      BY <1>1, <1>4, <1>5 DEF DaemonStops
    <2> QED
      BY <1>1, <1>5, <2>1, <2>2, SpoilStep DEF DaemonStops, wipeVars
  <1>6. CASE DaemonStarts
    <2>1. UNCHANGED <<row, net, ctr, late, stage, pc, spoiled, restarts, pulled, undo, try>>
      BY <1>6 DEF DaemonStarts, startVars
    <2>2. up' \in BOOLEAN /\ wipe' \in {"-", "ctrs"} /\ doomed' \subseteq Roles
      BY <1>1, <1>6 DEF DaemonStarts, wipeVars
    <2>3. EngineTypes'
      BY <1>1, <2>1, <2>2 DEF EngineTypes, LatesOK, CtrRecords
    <2>4. PhasesOK' /\ \A r \in Roles : RoleOK(r) => RoleOK(r)'
      BY <1>1, <2>1 DEF PhasesOK, RoleOK, Fits, ConfigHash
    <2> QED
      BY <2>1, <2>3, <2>4 DEF EngineInv
  <1>7. CASE Land
    <2>1. PICK l \in late : late' = late \ {l} /\ ctr' = IF ctr[l.r] = NoCtr THEN [ctr EXCEPT ![l.r] = l.c] ELSE ctr
      BY <1>7 DEF Land
    <2>2. l.r \in Roles /\ l.c \in CtrRecords(l.r)
      BY <1>1 DEF EngineTypes, LatesOK
    <2>3. DOMAIN ctr' = Roles /\ \A x \in Roles : ctr'[x] \in CtrRecords(x)
      BY <1>1, <2>1, <2>2
    <2> QED
      BY <1>1, <1>7, <2>1, <2>3, SpoilStep DEF Land, wipeVars
  <1>8. CASE Crash
    <2>1. /\ late' = {[r |-> r, c |-> Built(r)] : r \in {x \in Roles : pc[x] = "make"}}
          /\ stage' = "idle" /\ pc' = [r \in Roles |-> "idle"] /\ undo' = {} /\ spoiled' = FALSE
          /\ UNCHANGED <<row, up, restarts, net, ctr, pulled, wipeVars, try>>
      BY <1>8 DEF Crash
    <2>2. \A l \in late' : l.r \in Roles /\ l.c \in CtrRecords(l.r)
      <3> SUFFICES ASSUME NEW l \in late' PROVE l.r \in Roles /\ l.c \in CtrRecords(l.r)
        OBVIOUS
      <3>1. PICK r \in Roles : l = [r |-> r, c |-> Built(r)]
        BY <2>1
      <3>2. l.r = r /\ l.c = Built(r)
        BY <3>1
      <3>3. Built(r) \in CtrRecords(r)
        BY CtrTyped
      <3> QED
        BY ONLY <3>2, <3>3
    <2>3. EngineTypes'
      BY <1>1, <2>1, <2>2 DEF EngineTypes, LatesOK, CtrRecords, wipeVars, Pcs, Phases
    <2>4. PhasesOK'
      BY <2>1 DEF PhasesOK
    <2> QED
      BY <2>1, <2>3, <2>4 DEF EngineInv
  <1>9. CASE BeginWipe
    <2>1. UNCHANGED <<row, net, ctr, late, stage, pc, spoiled, restarts, pulled, undo, try>>
      BY <1>9 DEF BeginWipe, dockerVars, startVars
    <2>2. up' \in BOOLEAN /\ wipe' \in {"-", "ctrs"} /\ doomed' \subseteq Roles
      BY <1>1, <1>9 DEF BeginWipe, dockerVars
    <2>3. EngineTypes'
      BY <1>1, <2>1, <2>2 DEF EngineTypes, LatesOK, CtrRecords
    <2>4. PhasesOK' /\ \A r \in Roles : RoleOK(r) => RoleOK(r)'
      BY <1>1, <2>1 DEF PhasesOK, RoleOK, Fits, ConfigHash
    <2> QED
      BY <2>1, <2>3, <2>4 DEF EngineInv
  <1>10. CASE WipeNets
    <2>1. net' \in BOOLEAN
      BY <1>1, <1>10 DEF WipeNets
    <2> QED
      BY <1>1, <1>10, <2>1, SpoilStep DEF WipeNets
  <1>11. ASSUME NEW r \in Roles, Probe(r) PROVE EngineInv'
    <2>1. ctr[r] # NoCtr /\ UNCHANGED <<row, up, restarts, net, pulled, late, wipeVars>>
      BY <1>3, <1>11 DEF Probe
    <2>2. CASE ctr' = [ctr EXCEPT ![r].st = "healthy"] /\ UNCHANGED startVars
      <3>1. /\ ctr'[r] \in CtrRecords(r) /\ ctr'[r] # NoCtr /\ ctr'[r].hash = ctr[r].hash /\ ctr'[r].st = "healthy"
            /\ DOMAIN ctr' = Roles /\ \A x \in Roles : x # r => ctr'[x] = ctr[x]
        <4>1. ctr' = [ctr EXCEPT ![r] = [ctr[r] EXCEPT !.st = "healthy"]]
          BY <2>2
        <4> QED
          BY <1>1, <2>1, <4>1, CtrTyped DEF States
      <3>2. EngineTypes'
        BY <1>1, <2>1, <2>2, <3>1 DEF EngineTypes, LatesOK, CtrRecords, wipeVars, startVars
      <3>3. PhasesOK'
        BY <1>1, <2>2 DEF PhasesOK, startVars
      <3>4. ASSUME ~spoiled', stage' \in {"pull", "create", "wait"}
            PROVE  net' /\ \A x \in Roles : RoleOK(x)'
        <4>1. net /\ \A x \in Roles : RoleOK(x)
          BY <2>2, <3>4 DEF EngineInv, startVars
        <4>2. ASSUME NEW x \in Roles, x # r PROVE RoleOK(x)'
          BY <2>1, <2>2, <3>1, <4>1, <4>2 DEF RoleOK, Fits, ConfigHash, startVars
        <4>3. RoleOK(r)'
          BY <2>1, <2>2, <3>1, <4>1 DEF RoleOK, Fits, ConfigHash, startVars, Running
        <4> QED
          BY <2>1, <4>1, <4>2, <4>3
      <3> QED
        BY <3>2, <3>3, <3>4 DEF EngineInv
    <2>3. CASE ctr' = [ctr EXCEPT ![r].st = "exited"] /\ Spoil
      <3>1. ctr' = [ctr EXCEPT ![r] = [ctr[r] EXCEPT !.st = "exited"]]
        BY <2>3
      <3>2. DOMAIN ctr' = Roles /\ \A x \in Roles : ctr'[x] \in CtrRecords(x)
        BY <1>1, <2>1, <3>1, CtrTyped DEF States
      <3> QED
        BY <1>1, <2>1, <2>3, <3>2, SpoilStep DEF wipeVars
    <2> QED
      BY <1>11, <2>2, <2>3 DEF Probe
  <1>12. ASSUME NEW r \in Roles, WipeOne(r) PROVE EngineInv'
    <2>1. DOMAIN ctr' = Roles /\ \A x \in Roles : ctr'[x] \in CtrRecords(x)
      BY <1>1, <1>2, <1>12 DEF WipeOne, Remove
    <2>2. doomed' \subseteq Roles /\ wipe' \in {"-", "ctrs"}
      BY <1>1, <1>12 DEF WipeOne
    <2> QED
      BY <1>1, <1>12, <2>1, <2>2, SpoilStep DEF WipeOne
  <1>13. ASSUME NEW f \in Wishes, ChangeWish(f) PROVE EngineInv'
    <2>1. row' \in [Wishes -> 0..MaxWishes]
      BY <1>1, <1>13, EngineAssumption DEF ChangeWish, EngineTypes
    <2>2. EngineTypes'
      BY <1>1, <1>13, <2>1 DEF ChangeWish, EngineTypes, LatesOK, CtrRecords, dockerVars, wipeVars, startVars
    <2>3. PhasesOK' /\ stage' \notin {"pull", "create", "wait"}
      BY <1>1, <1>13 DEF ChangeWish, PhasesOK, startVars
    <2> QED
      BY <2>2, <2>3 DEF EngineInv
  <1> QED
    BY <1>5, <1>6, <1>7, <1>8, <1>9, <1>10, <1>11, <1>12, <1>13

LEMMA RemoveFacts ==
  ASSUME EngineInv, NEW r \in Roles, Remove(r)
  PROVE  /\ DOMAIN ctr' = Roles /\ ctr'[r] = NoCtr /\ ctr'[r] \in CtrRecords(r)
         /\ \A x \in Roles : x # r => ctr'[x] = ctr[x]
  BY DEF Remove, EngineInv, EngineTypes, CtrRecords

(* A role's goroutine in its phase, before its containers are awaited.     *)
LEMMA CreatingStep ==
  ASSUME EngineInv, NEW r \in Roles, Inspect(r) \/ Drift(r) \/ Make(r) \/ Clash(r) \/ Start(r)
  PROVE  EngineInv'
  <1>1. /\ stage = "create" /\ DOMAIN ctr = Roles /\ ctr[r] \in CtrRecords(r) /\ pc \in [Roles -> Pcs]
        /\ try \in Tries /\ pulled \subseteq Roles /\ doomed \subseteq Roles
    BY DEF Inspect, Drift, Make, Clash, Start, EngineInv, EngineTypes
  <1>2. /\ UNCHANGED <<row, up, restarts, net, late, wipe, stage, undo, spoiled>>
        /\ pulled' \subseteq Roles /\ doomed' \subseteq Roles
    BY <1>1 DEF Inspect, Drift, Make, Clash, Start, dockerVars, wipeVars
  <1>3. PcsAt["create"] = Creating
    BY DEF PcsAt
  (* The condition on the goroutine that stepped, by where it goes. *)
  <1>4. ASSUME NEW p \in Creating \cup Ended, pc' = [pc EXCEPT ![r] = p], try' \in Tries,
               DOMAIN ctr' = Roles, ctr'[r] \in CtrRecords(r), \A x \in Roles : x # r => ctr'[x] = ctr[x],
               ~spoiled => /\ p = "drift" => ctr'[r] # NoCtr /\ ctr'[r].hash # ConfigHash(r)
                           /\ p \in {"start", "ok"} => ctr'[r] # NoCtr /\ ctr'[r].hash = ConfigHash(r)
                           /\ p = "ok" => ctr'[r].st \in Running
        PROVE  EngineInv'
    <2>1. pc'[r] = p /\ stage' = "create" /\ ConfigHash(r)' = ConfigHash(r)
      BY <1>1, <1>2, <1>4 DEF ConfigHash
    <2>2. ~spoiled => RoleOK(r)'
      BY <1>4, <2>1 DEF RoleOK, Fits
    <2>3. p \in Pcs
      BY DEF Pcs, Creating
    <2> QED
      BY <1>1, <1>2, <1>3, <1>4, <2>2, <2>3, RoleStep
  <1>5. ~spoiled => RoleOK(r)
    BY <1>1 DEF EngineInv
  <1>6. "err" \in Creating \cup Ended /\ "ok" \in Creating \cup Ended /\ Creating \subseteq Creating \cup Ended
    BY DEF Ended
  <1>7. CASE Inspect(r)
    <2> DEFINE p == IF ~up THEN "err" ELSE IF ctr[r] = NoCtr THEN "make"
                    ELSE IF ctr[r].hash = ConfigHash(r) THEN "start" ELSE "drift"
    <2>1. GoTo(r, p) /\ ctr' = ctr
      BY <1>7 DEF Inspect, dockerVars
    <2>2. try' \in Tries /\ pc' = [pc EXCEPT ![r] = p]
      BY <1>1, <2>1 DEF GoTo, Tries
    <2>3. p \in Creating \cup Ended
      BY DEF Creating, Ended
    <2> QED
      BY <1>1, <1>4, <2>1, <2>2, <2>3
  <1>8. CASE Drift(r)
    <2>1. CASE up
      <3>1. Remove(r) /\ GoTo(r, "make")
        BY <1>8, <2>1 DEF Drift
      <3>2. try' \in Tries /\ pc' = [pc EXCEPT ![r] = "make"]
        BY <1>1, <3>1 DEF GoTo, Tries
      <3> QED
        BY <1>4, <3>1, <3>2, RemoveFacts DEF Creating
    <2>2. CASE ~up
      <3>1. ctr' = ctr /\ GoTo(r, "err")
        BY <1>8, <2>2 DEF Drift
      <3>2. try' \in Tries /\ pc' = [pc EXCEPT ![r] = "err"]
        BY <1>1, <3>1 DEF GoTo, Tries
      <3> QED
        BY <1>1, <1>4, <1>6, <3>1, <3>2
    <2> QED
      BY <2>1, <2>2
  <1>9. CASE Make(r)
    <2>1. CASE ~up
      <3>1. Again(r, "daemon", "make") /\ ctr' = ctr
        BY <1>9, <2>1 DEF Make
      <3>2. try' \in Tries /\ \E p \in {"make", "err"} : pc' = [pc EXCEPT ![r] = p]
        BY <3>1, NextTry
      <3> QED
        BY <1>1, <1>4, <3>1, <3>2 DEF Creating, Ended
    <2>2. CASE up /\ ctr[r] # NoCtr
      <3>1. pc' = [pc EXCEPT ![r] = "clash"] /\ UNCHANGED <<ctr, try>>
        BY <1>9, <2>2 DEF Make
      <3> QED
        BY <1>1, <1>4, <3>1 DEF Creating
    <2>3. CASE up /\ ctr[r] = NoCtr
      <3>1. ctr' = [ctr EXCEPT ![r] = Built(r)] /\ GoTo(r, "start")
        BY <1>9, <2>3 DEF Make
      <3>2. try' \in Tries /\ pc' = [pc EXCEPT ![r] = "start"]
        BY <1>1, <3>1 DEF GoTo, Tries
      <3>3. DOMAIN ctr' = Roles /\ ctr'[r] = Built(r) /\ \A x \in Roles : x # r => ctr'[x] = ctr[x]
        BY <1>1, <3>1
      <3> QED
        BY <1>4, <3>2, <3>3, CtrTyped DEF Creating
    <2> QED
      BY <2>1, <2>2, <2>3
  <1>10. CASE Clash(r)
    <2>1. /\ DOMAIN ctr' = Roles /\ ctr'[r] \in CtrRecords(r)
          /\ \A x \in Roles : x # r => ctr'[x] = ctr[x]
      BY <1>1, <1>10, RemoveFacts DEF Clash
    <2>2. Again(r, "name", "make")
      BY <1>10 DEF Clash
    <2>3. try' \in Tries /\ \E p \in {"make", "err"} : pc' = [pc EXCEPT ![r] = p]
      BY <2>2, NextTry
    <2> QED
      BY <1>4, <2>1, <2>3 DEF Creating, Ended
  <1>11. CASE Start(r)
    <2>1. ~spoiled => Fits(r)
      BY <1>5, <1>11 DEF Start, RoleOK
    <2>2. CASE ~up
      <3>1. (Again(r, "daemon", "start") \/ GoTo(r, "err")) /\ ctr' = ctr
        BY <1>11, <2>2 DEF Start, Away
      <3>2. try' \in Tries /\ \E p \in {"start", "err"} : pc' = [pc EXCEPT ![r] = p]
        <4>1. CASE Again(r, "daemon", "start")
          BY <4>1, NextTry
        <4>2. CASE GoTo(r, "err")
          BY <4>2, NextTry
        <4> QED
          BY <3>1, <4>1, <4>2
      <3> QED
        BY <1>1, <1>4, <2>1, <3>1, <3>2 DEF Creating, Ended, Fits
    <2>3. CASE GoTo(r, "err") /\ ctr' = ctr
      <3>1. try' \in Tries /\ pc' = [pc EXCEPT ![r] = "err"]
        BY <1>1, <2>3 DEF GoTo, Tries
      <3> QED
        BY <1>1, <1>4, <1>6, <2>3, <3>1
    <2>4. CASE ctr[r].st \in Running /\ GoTo(r, "ok") /\ ctr' = ctr
      <3>1. try' \in Tries /\ pc' = [pc EXCEPT ![r] = "ok"]
        BY <1>1, <2>4 DEF GoTo, Tries
      <3> QED
        BY <1>1, <1>4, <1>6, <2>1, <2>4, <3>1 DEF Fits
    <2>5. CASE ctr[r] # NoCtr /\ GoTo(r, "ok") /\ ctr' = [ctr EXCEPT ![r].st = "starting"]
      <3>1. try' \in Tries /\ pc' = [pc EXCEPT ![r] = "ok"]
        BY <1>1, <2>5 DEF GoTo, Tries
      <3>2. ctr' = [ctr EXCEPT ![r] = [ctr[r] EXCEPT !.st = "starting"]]
        BY <2>5
      <3>3. /\ DOMAIN ctr' = Roles /\ ctr'[r] = [ctr[r] EXCEPT !.st = "starting"]
            /\ \A x \in Roles : x # r => ctr'[x] = ctr[x]
        BY <1>1, <3>2
      <3>4. "starting" \in States /\ "starting" \in Running
        BY DEF States, Running
      <3>5. /\ ctr'[r] \in CtrRecords(r) /\ ctr'[r] # NoCtr /\ ctr'[r].hash = ctr[r].hash /\ ctr'[r].st \in Running
        <4>1. /\ [ctr[r] EXCEPT !.st = "starting"] \in CtrRecords(r) /\ [ctr[r] EXCEPT !.st = "starting"] # NoCtr
              /\ [ctr[r] EXCEPT !.st = "starting"].hash = ctr[r].hash
              /\ [ctr[r] EXCEPT !.st = "starting"].st = "starting"
          BY <2>5, <3>4, CtrTyped
        <4> QED
          BY <3>3, <3>4, <4>1
      <3> QED
        BY <1>4, <1>6, <2>1, <3>1, <3>3, <3>5 DEF Fits
    <2> QED
      BY <1>11, <2>2, <2>3, <2>4, <2>5 DEF Start
  <1> QED
    BY <1>7, <1>8, <1>9, <1>10, <1>11

(* The goroutines of the other phases, and one that gives up.              *)
LEMMA OtherRoleStep ==
  ASSUME EngineInv, NEW r \in Roles, GiveUp(r) \/ Pull(r) \/ Poll(r) \/ Undo(r)
  PROVE  EngineInv'
  <1>1. /\ DOMAIN ctr = Roles /\ \A x \in Roles : ctr[x] \in CtrRecords(x)
        /\ pc \in [Roles -> Pcs] /\ try \in Tries /\ pulled \subseteq Roles /\ doomed \subseteq Roles
    BY DEF EngineInv, EngineTypes
  <1>2. UNCHANGED <<row, up, restarts, net, late, wipe, undo, spoiled, stage>>
    BY DEF GiveUp, Pull, Poll, Undo, dockerVars, wipeVars
  <1>3. PcsAt["pull"] = {"pull"} /\ PcsAt["wait"] = {"poll"}
    BY DEF PcsAt
  <1>4. ~spoiled /\ stage \in {"pull", "create", "wait"} => RoleOK(r)
    BY DEF EngineInv
  (* A goroutine that has failed, or that has nothing to do with the container. *)
  <1>5. ASSUME NEW p \in {"err", "ok", "pull"}, stage \in {"pull", "create", "wait"},
               p = "pull" => stage = "pull", p = "ok" => stage # "create",
               p = "ok" /\ stage = "wait" => ctr[r].st = "healthy",
               pc' = [pc EXCEPT ![r] = p], try' \in Tries, ctr' = ctr, pulled' \subseteq Roles, doomed' = doomed
        PROVE  EngineInv'
    <2>1. pc'[r] = p /\ p \in Pcs /\ p \in PcsAt[stage] \cup Ended
      BY <1>1, <1>3, <1>5 DEF Pcs, Ended
    <2>2. ~spoiled => RoleOK(r)'
      BY <1>2, <1>4, <1>5, <2>1 DEF RoleOK, Fits, ConfigHash
    <2> QED
      BY <1>1, <1>2, <1>5, <2>1, <2>2, RoleStep
  <1>6. CASE GiveUp(r)
    <2>1. /\ stage \in {"pull", "create", "wait"} /\ GoTo(r, "err") /\ UNCHANGED <<ctr, pulled, doomed>>
      BY <1>6 DEF GiveUp, dockerVars, wipeVars
    <2>2. try' \in Tries /\ pc' = [pc EXCEPT ![r] = "err"]
      BY <1>1, <2>1 DEF GoTo, Tries
    <2> QED
      BY <1>1, <1>5, <2>1, <2>2
  <1>7. CASE Pull(r)
    <2>1. stage = "pull" /\ UNCHANGED <<ctr, doomed>> /\ pulled' \subseteq Roles
      BY <1>1, <1>7 DEF Pull, wipeVars
    <2>2. try' \in Tries /\ \E p \in {"pull", "ok", "err"} : pc' = [pc EXCEPT ![r] = p]
      <3>1. \/ GoTo(r, "ok") \/ GoTo(r, "err")
            \/ Again(r, "daemon", "pull") \/ Again(r, "snapshotter", "pull")
        BY <1>7 DEF Pull, Away
      <3>2. CASE GoTo(r, "ok")
        BY <3>2, NextTry
      <3>3. CASE Again(r, "daemon", "pull")
        BY <3>3, NextTry
      <3>4. CASE Again(r, "snapshotter", "pull")
        BY <3>4, NextTry
      <3>5. CASE GoTo(r, "err")
        BY <3>5, NextTry
      <3> QED
        BY <3>1, <3>2, <3>3, <3>4, <3>5
    <2> QED
      BY <1>5, <2>1, <2>2
  <1>8. CASE Poll(r)
    <2> DEFINE p == IF up /\ ctr[r].st = "healthy" THEN "ok" ELSE "err"
    <2>1. stage = "wait" /\ GoTo(r, p) /\ UNCHANGED <<ctr, pulled, doomed>>
      BY <1>8 DEF Poll, dockerVars, wipeVars
    <2>2. try' \in Tries /\ pc' = [pc EXCEPT ![r] = p]
      BY <1>1, <2>1 DEF GoTo, Tries
    <2> QED
      BY <1>1, <1>5, <2>1, <2>2
  <1>9. CASE Undo(r)
    <2>1. /\ stage = "undo" /\ pc' = [pc EXCEPT ![r] = "idle"] /\ UNCHANGED <<pulled, try>>
          /\ doomed' \subseteq Roles
      BY <1>1, <1>9 DEF Undo
    <2>2. /\ DOMAIN ctr' = Roles /\ ctr'[r] \in CtrRecords(r) /\ \A x \in Roles : x # r => ctr'[x] = ctr[x]
      BY <1>1, <1>9, RemoveFacts DEF Undo
    <2> QED
      BY <1>1, <1>2, <2>1, <2>2, RoleStep DEF Pcs
  <1> QED
    BY <1>6, <1>7, <1>8, <1>9

(* The phases: the network comes first, and a phase is left when each of   *)
(* its goroutines has ended without an error.                              *)
LEMMA PhaseStep ==
  ASSUME EngineInv, BeginStart \/ EnsureNetwork \/ NextPhase \/ UndoNetwork
  PROVE  EngineInv'
  <1>1. /\ EngineTypes /\ PhasesOK /\ net \in BOOLEAN /\ try \in Tries /\ pc \in [Roles -> Pcs] /\ undo \subseteq {"net", "ctrs"}
    BY DEF EngineInv, EngineTypes
  <1>2. UNCHANGED <<row, up, restarts, ctr, pulled, late, wipe, doomed>>
    BY DEF BeginStart, EnsureNetwork, NextPhase, UndoNetwork, dockerVars, wipeVars
  (* A phase is entered. *)
  <1>3. ASSUME NEW p \in Phases, NEW at \in {"idle", "pull", "inspect", "poll", "undo"}, Enter(p, at),
               p \in {"pull", "create", "wait"} => at \in PcsAt[p],
               p = "undo" => at \in {"undo", "idle"},
               p \in {"idle", "net", "up", "failed"} => at = "idle",
               undo' \subseteq {"net", "ctrs"}, net' \in BOOLEAN, spoiled' \in BOOLEAN,
               ~spoiled' /\ p \in {"pull", "create", "wait"} => net',
               ~spoiled' /\ p = "wait" => \A r \in Roles : Fits(r) /\ ctr[r].st \in Running
        PROVE  EngineInv'
    <2>1. /\ stage' = p /\ pc' \in [Roles -> Pcs] /\ \A r \in Roles : pc'[r] = at
          /\ try' \in Tries
      BY <1>3 DEF Enter, Pcs, Tries
    <2>2. EngineTypes'
      BY <1>1, <1>2, <1>3, <2>1 DEF EngineTypes, LatesOK, CtrRecords
    <2>3. PhasesOK'
      BY <1>3, <2>1 DEF PhasesOK
    <2>4. ASSUME ~spoiled', stage' \in {"pull", "create", "wait"}
          PROVE  net' /\ \A r \in Roles : RoleOK(r)'
      <3>1. \A r \in Roles : ConfigHash(r)' = ConfigHash(r) /\ ctr'[r] = ctr[r]
        BY <1>2 DEF ConfigHash
      <3> QED
        BY <1>3, <2>1, <2>4, <3>1 DEF RoleOK, Fits
    <2> QED
      BY <2>2, <2>3, <2>4 DEF EngineInv
  <1>4. /\ PcsAt["pull"] = {"pull"} /\ PcsAt["wait"] = {"poll"} /\ PcsAt["create"] = Creating /\ "inspect" \in Creating
        /\ {"net", "pull", "create", "wait", "undo", "up", "failed"} \subseteq Phases
    BY DEF PcsAt, Creating, Phases
  <1>5. CASE BeginStart
    <2>1. Enter("net", "idle") /\ undo' = {} /\ spoiled' = FALSE /\ net' = net
      BY <1>5 DEF BeginStart, dockerVars
    <2> QED
      BY <1>1, <1>3, <1>4, <2>1
  <1>6. CASE EnsureNetwork
    <2>1. stage = "net" /\ spoiled' = spoiled /\ spoiled \in BOOLEAN
      BY <1>1, <1>6 DEF EnsureNetwork, EngineTypes
    <2>2. CASE net' = TRUE /\ undo' = {"net"} /\ Enter("pull", "pull")
      BY <1>1, <1>3, <1>4, <2>1, <2>2
    <2>3. CASE Enter("failed", "idle") /\ UNCHANGED <<net, undo>>
      BY <1>1, <1>3, <1>4, <2>1, <2>3
    <2>4. CASE /\ try["net"] < Last("daemon") /\ try' = [try EXCEPT !["net"] = @ + 1]
               /\ UNCHANGED <<stage, pc, net, undo>>
      <3>1. try' \in Tries
        BY <1>1, <2>4 DEF Tries, Last
      <3>2. EngineTypes'
        BY <1>1, <1>2, <2>1, <2>4, <3>1 DEF EngineTypes, LatesOK, CtrRecords
      <3>3. PhasesOK'
        BY <1>1, <2>4 DEF PhasesOK
      <3> QED
        BY <2>1, <2>4, <3>2, <3>3 DEF EngineInv
    <2> QED
      BY <1>6, <2>2, <2>3, <2>4 DEF EnsureNetwork
  <1>7. CASE NextPhase
    <2>1. /\ stage \in {"pull", "create", "wait"} /\ \A r \in Roles : pc[r] \in Ended
          /\ UNCHANGED <<net, spoiled>> /\ spoiled \in BOOLEAN /\ net' \in BOOLEAN
          /\ ~spoiled => net /\ \A r \in Roles : RoleOK(r)
      BY <1>1, <1>7 DEF NextPhase, AllEnded, dockerVars, EngineInv, EngineTypes
    <2>2. CASE Enter("undo", IF "ctrs" \in undo THEN "undo" ELSE "idle") /\ UNCHANGED undo
      BY <1>1, <1>3, <1>4, <2>1, <2>2
    <2>3. CASE ~Cancelled
      <3>1. \A r \in Roles : pc[r] = "ok"
        BY <2>1, <2>3 DEF Cancelled, Ended
      <3>2. CASE stage = "pull" /\ Enter("create", "inspect") /\ UNCHANGED undo
        BY <1>1, <1>3, <1>4, <2>1, <3>2
      <3>3. CASE stage = "create" /\ Enter("wait", "poll") /\ undo' = undo \cup {"ctrs"}
        <4>1. ~spoiled => \A r \in Roles : Fits(r) /\ ctr[r].st \in Running
          BY <2>1, <3>1, <3>3 DEF RoleOK
        <4> QED
          BY <1>1, <1>3, <1>4, <2>1, <3>3, <4>1
      <3>4. CASE stage = "wait" /\ Enter("up", "idle") /\ undo' = {}
        BY <1>1, <1>3, <1>4, <2>1, <3>4
      <3> QED
        BY <1>7, <2>1, <2>3, <3>2, <3>3, <3>4 DEF NextPhase
    <2> QED
      BY <1>7, <2>2, <2>3 DEF NextPhase
  <1>8. CASE UndoNetwork
    <2>1. /\ stage' = "failed" /\ undo' = {} /\ net' \in BOOLEAN /\ UNCHANGED <<pc, try, spoiled>>
          /\ \A r \in Roles : pc[r] = "idle"
      BY <1>1, <1>8 DEF UndoNetwork
    <2>2. EngineTypes'
      BY <1>1, <1>2, <2>1 DEF EngineTypes, LatesOK, CtrRecords, Phases
    <2>3. PhasesOK' /\ stage' \notin {"pull", "create", "wait"}
      BY <2>1 DEF PhasesOK
    <2> QED
      BY <2>2, <2>3 DEF EngineInv
  <1> QED
    BY <1>5, <1>6, <1>7, <1>8

LEMMA EngineInvStep == EngineInv /\ [EngineNext]_engineVars => EngineInv'
  <1>1. ASSUME EngineInv, UNCHANGED engineVars PROVE EngineInv'
    <2>1. EngineTypes'
      BY <1>1 DEF engineVars, EngineInv, EngineTypes, LatesOK, CtrRecords
    <2>2. PhasesOK' /\ \A r \in Roles : RoleOK(r) => RoleOK(r)'
      BY <1>1 DEF engineVars, EngineInv, PhasesOK, RoleOK, Fits, ConfigHash
    <2> QED
      BY <1>1, <2>1, <2>2 DEF engineVars, EngineInv
  <1> QED
    BY <1>1, OthersStep, CreatingStep, OtherRoleStep, PhaseStep DEF EngineNext, RoleSteps

LEMMA EngineInvariant == EngineSpec => []EngineInv
  BY EngineInvInit, EngineInvStep, PTL DEF EngineSpec

(* Every goroutine of a start is at one of the calls it makes, every       *)
(* attempt within the most that withRetry makes, every container in a      *)
(* state that Docker reports.                                              *)
THEOREM EngineTypeCorrect == EngineSpec => []EngineTypeOK
  <1>1. EngineInv => EngineTypeOK
    <2> SUFFICES ASSUME EngineInv PROVE EngineTypeOK
      OBVIOUS
    <2>1. \A r \in Roles : ctr[r] = NoCtr \/ ctr[r].st \in States
      BY CtrTyped
    <2> QED
      BY <2>1 DEF EngineInv, EngineTypes, EngineTypeOK, LatesOK, Pcs, Phases, Tries
  <1> QED
    BY <1>1, EngineInvariant, PTL

(* A container whose hash fits its row is kept by every start that goes    *)
(* through undisturbed, over crashes, upgrades and a new password          *)
(* (specs.go:171-184), for any roles, fields and faults.                   *)
THEOREM FittingContainersAreKept == EngineSpec => FittingContainersStay
  <1>1. ASSUME EngineInv, NEW r \in Roles, ctr[r] # NoCtr,
               \A f \in Specs[r] \cap Wishes : ctr[r].hash[f] = row[f], pc[r] = "drift", ~spoiled
        PROVE  FALSE
    <2>1. stage = "create"
      BY <1>1 DEF EngineInv, EngineTypes, PhasesOK, Phases, PcsAt, Creating, Ended
    <2>2. ctr[r].hash # ConfigHash(r)
      BY <1>1, <2>1 DEF EngineInv, RoleOK
    <2>3. ctr[r].hash \in [Specs[r] \cap Wishes -> Nat]
      BY <1>1, CtrTyped
    <2>4. ctr[r].hash = ConfigHash(r)
      BY <1>1, <2>3 DEF ConfigHash
    <2> QED
      BY <2>2, <2>4
  <1>2. EngineInv => [\A r \in Roles :
                        ctr[r] # NoCtr /\ (\A f \in Specs[r] \cap Wishes : ctr[r].hash[f] = row[f])
                          /\ pc[r] = "drift" /\ ~spoiled => ctr'[r] # NoCtr]_engineVars
    BY <1>1
  <1> QED
    BY <1>2, EngineInvariant, PTL DEF FittingContainersStay

(* Whatever failed starts, crashes and resets have left behind, a start    *)
(* that goes through undisturbed leaves every container running, healthy,  *)
(* on its network and in the shape of its row (engine_container.go:21-24). *)
THEOREM StartsBringUpWhatIsAsked == EngineSpec => StartedAsAsked
  <1>1. ASSUME EngineInv, EngineNext, stage = "wait", stage' = "up", ~spoiled
        PROVE  net /\ \A r \in Roles : ctr[r].st = "healthy" /\ \A f \in Specs[r] \cap Wishes : ctr[r].hash[f] = row[f]
    <2>1. net /\ \A r \in Roles : RoleOK(r)
      BY <1>1 DEF EngineInv
    <2>2. NextPhase
      BY <1>1 DEF EngineNext, DaemonStops, DaemonStarts, Land, Crash, BeginWipe, WipeNets, Probe, WipeOne, RoleSteps,
                  GiveUp, Pull, Inspect, Drift, Make, Clash, Start, Poll, Undo, ChangeWish, BeginStart, EnsureNetwork,
                  UndoNetwork, Spoil, startVars, Enter
    <2>3. ~Cancelled /\ \A r \in Roles : pc[r] \in Ended
      BY <1>1, <2>2 DEF NextPhase, AllEnded, Enter
    <2>4. \A r \in Roles : pc[r] = "ok"
      BY <2>3 DEF Cancelled, Ended
    <2>5. \A r \in Roles : ctr[r].st = "healthy" /\ ctr[r].hash = ConfigHash(r)
      BY <1>1, <2>1, <2>4 DEF RoleOK, Fits
    <2>6. \A r \in Roles : \A f \in Specs[r] \cap Wishes : ConfigHash(r)[f] = row[f]
      BY DEF ConfigHash
    <2> QED
      BY <2>1, <2>5, <2>6
  <1>2. EngineInv /\ [EngineNext]_engineVars =>
          [stage = "wait" /\ stage' = "up" /\ ~spoiled =>
             net /\ \A r \in Roles : ctr[r].st = "healthy" /\ \A f \in Specs[r] \cap Wishes : ctr[r].hash[f] = row[f]]_engineVars
    BY <1>1
  <1> QED
    BY <1>2, EngineInvariant, PTL DEF StartedAsAsked, EngineSpec
=============================================================================
