------------------------- MODULE EventStream_proofs -------------------------
(***************************************************************************)
(* Theorems about EventStream, for any number of requests, tablets and     *)
(* events, any depth of the queues and any length of the replay.           *)
(***************************************************************************)
EXTENDS EventStream, Sums, SequenceTheorems, TLAPS

-----------------------------------------------------------------------------
(***************************************************************************)
(* The inductive invariant.                                                *)
(***************************************************************************)

\* A page with its socket; lengths of the log may be any.
Known == Nat \cup {Unread}
Page == [link : {"down", "subscribed", "live"}, after : 0..MaxSeq, replay : Seq(Seqs),
         queue : Seq(Seqs), cursor : 0..MaxSeq, due : BOOLEAN, overlay : BOOLEAN,
         asked : Seq(Known), shown : Nat, seen : SUBSET Seqs, since : Nat, hidden : BOOLEAN,
         newest : {"under way", "shown", "lost"}]

Types ==
  /\ lastSeq \in 0..MaxSeq /\ log \in Seq(Seqs) /\ overlapped \in BOOLEAN
  /\ txn \in [Writers -> Txn]
  /\ tablet \in [Tablets -> Page]
  /\ cut \in [Tablets -> SUBSET Seqs]

\* Numbers are handed out upwards; a request that is not under way has buffered nothing,
\* and what one that committed has buffered is in the log.
Numbered ==
  /\ \A e \in Committed : e <= lastSeq
  /\ \A w \in Writers :
       /\ \A e \in ToSet(txn[w].buffer) : e <= lastSeq
       /\ txn[w].phase = "idle" => txn[w].buffer = <<>>
       /\ txn[w].phase = "committed" => ToSet(txn[w].buffer) \subseteq Committed

\* What a socket is to send is in the log, and its cursor is that of an event; it has
\* nothing to send before it is live but what was published since it subscribed.
Sound(p) ==
  /\ p.seen \cup ToSet(p.replay) \cup ToSet(p.queue) \subseteq Committed
  /\ p.cursor \in Committed \cup {0}
  /\ p.link = "down" => p.queue = <<>>
  /\ p.link # "live" => p.replay = <<>>
  /\ p.link = "subscribed" => p.after = p.cursor

\* No floor plan is longer than the log, and no socket subscribed later than now.
Past(p) ==
  /\ p.since <= Len(log) /\ p.shown <= Len(log)
  /\ \A k \in DOMAIN p.asked : p.asked[k] = Unread \/ p.asked[k] <= Len(log)

\* The newest refetch has the i-th event of the log or is still to read it, unless it is lost.
Covers(p, i) ==
  \/ p.newest = "lost"
  \/ p.newest = "shown" /\ i <= p.shown
  \/ /\ p.newest = "under way"
     /\ p.asked[Len(p.asked)] = Unread \/ i <= p.asked[Len(p.asked)]

\* A connected page with nothing to come, no refetch due and no frame hidden has, or gets with
\* its newest refetch, what was committed since it subscribed and is not still to be published.
Fresh(p) ==
  p.link # "down" /\ p.queue = <<>> /\ p.replay = <<>> /\ ~p.due /\ ~p.hidden =>
    \A i \in DOMAIN log : i > p.since => Covers(p, i) \/ log[i] \in Unpublished

\* Requests that do not overlap: one at a time, whose numbers are above all those before.
OneByOne ==
  /\ \A w, x \in Writers : txn[w].phase # "idle" /\ txn[x].phase # "idle" => w = x
  /\ \A w \in Writers :
       /\ Ascending(txn[w].buffer)
       /\ txn[w].phase = "open" =>
            \A e \in ToSet(txn[w].buffer), d \in Committed : d < e
       /\ txn[w].phase = "committed" =>
            \A e \in ToSet(txn[w].buffer), t \in Tablets :
              \A q \in ToSet(tablet[t].queue) : q < e

\* The events a page is still to be sent: all are ahead of its cursor; on a live socket they
\* are under way, the replay before the queue and both in order.
Owed(p, c) == Committed \ (p.seen \cup c)
CaughtUp(p, c) ==
  /\ \A e \in Owed(p, c) : e > p.cursor
  /\ Ascending(p.replay) /\ Ascending(p.queue)
  /\ p.link = "live" =>
       /\ Owed(p, c) \subseteq ToSet(p.replay) \cup ToSet(p.queue) \cup Unpublished
       /\ \A e \in Owed(p, c) \ ToSet(p.replay) : \A r \in ToSet(p.replay) : r < e

Serial == OneByOne /\ \A t \in Tablets : CaughtUp(tablet[t], cut[t])

Inv ==
  /\ Types /\ Numbered
  /\ \A t \in Tablets : Sound(tablet[t]) /\ Past(tablet[t]) /\ Fresh(tablet[t])
  /\ ~overlapped => Serial

-----------------------------------------------------------------------------
(***************************************************************************)
(* Sequences of numbers.                                                   *)
(***************************************************************************)

\* What two sequences hold, they hold together, and what is ahead of the rest stays so.
LEMMA Joined ==
  ASSUME NEW T \in SUBSET Nat, NEW a \in Seq(T), NEW b \in Seq(T)
  PROVE  /\ a \o b \in Seq(T)
         /\ ToSet(a \o b) = ToSet(a) \cup ToSet(b)
         /\ a \o b = <<>> => a = <<>> /\ b = <<>>
         /\ Ascending(a) /\ Ascending(b) /\ (\A x \in ToSet(a), y \in ToSet(b) : x < y)
              => Ascending(a \o b)
<1>1. PICK s, m, n : s = a \o b /\ m = Len(a) /\ n = Len(b)
  OBVIOUS
<1>2. /\ s \in Seq(T) /\ m \in Nat /\ n \in Nat
      /\ DOMAIN a = 1 .. m /\ DOMAIN b = 1 .. n /\ DOMAIN s = 1 .. m + n
      /\ \A i \in DOMAIN s : s[i] = IF i <= m THEN a[i] ELSE b[i - m]
  BY <1>1
<1>3. \A i \in DOMAIN a : i \in DOMAIN s /\ s[i] = a[i]
  BY <1>2
<1>4. \A i \in DOMAIN b : m + i \in DOMAIN s /\ s[m + i] = b[i]
  BY <1>2
<1>5. \A i \in DOMAIN s : i \in DOMAIN a \/ i - m \in DOMAIN b
  BY <1>2
<1>6. ToSet(s) = ToSet(a) \cup ToSet(b)
  <2>1. ToSet(a) \cup ToSet(b) \subseteq ToSet(s)
    BY <1>3, <1>4 DEF ToSet
  <2>2. ToSet(s) \subseteq ToSet(a) \cup ToSet(b)
    BY <1>2, <1>5 DEF ToSet
  <2> QED
    BY <2>1, <2>2
<1>7. s = <<>> => a = <<>> /\ b = <<>>
  BY <1>2
<1>8. ASSUME Ascending(a), Ascending(b), \A x \in ToSet(a), y \in ToSet(b) : x < y
      PROVE  Ascending(s)
  <2> SUFFICES ASSUME NEW i \in DOMAIN s, NEW j \in DOMAIN s, i < j
               PROVE  s[i] < s[j]
    BY DEF Ascending
  <2>1. i \in Nat /\ j \in Nat
    BY <1>2
  <2>2. CASE j <= m
    BY <1>2, <1>8, <2>1, <2>2 DEF Ascending
  <2>3. CASE i > m
    <3>1. i - m \in DOMAIN b /\ j - m \in DOMAIN b /\ i - m < j - m
      BY <1>2, <2>1, <2>3
    <3>2. s[i] = b[i - m] /\ s[j] = b[j - m]
      BY <1>2, <2>1, <2>3
    <3> QED
      BY <1>8, <3>1, <3>2 DEF Ascending
  <2>4. CASE i <= m /\ j > m
    <3>1. s[i] \in ToSet(a) /\ s[j] \in ToSet(b)
      BY SMTT(30), <1>2, <2>1, <2>4 DEF ToSet
    <3> QED
      BY <1>8, <3>1
  <2> QED
    BY <1>2, <2>1, <2>2, <2>3, <2>4
<1> QED
  BY <1>1, <1>2, <1>6, <1>7, <1>8, Zenon

\* A stretch of a sequence has its elements in its order.
LEMMA Stretch ==
  ASSUME NEW T \in SUBSET Nat, NEW s \in Seq(T), NEW from \in Nat \ {0}, NEW to \in Nat,
         to <= Len(s)
  PROVE  /\ SubSeq(s, from, to) \in Seq(T)
         /\ ToSet(SubSeq(s, from, to)) \subseteq ToSet(s)
         /\ from <= to => SubSeq(s, from, to) # <<>>
         /\ Ascending(s) => Ascending(SubSeq(s, from, to))
<1>0. PICK u, n : u = SubSeq(s, from, to) /\ n = Len(s)
  OBVIOUS
<1>1. /\ u \in Seq(T) /\ n \in Nat /\ DOMAIN s = 1 .. n
      /\ DOMAIN u = 1 .. Len(u) /\ Len(u) = IF from <= to THEN to - from + 1 ELSE 0
      /\ \A i \in DOMAIN u : u[i] = s[from + i - 1]
  BY <1>0
<1>2. \A i \in DOMAIN u : from + i - 1 \in DOMAIN s
  BY <1>1
<1>3. ToSet(u) \subseteq ToSet(s)
  BY <1>1, <1>2 DEF ToSet
<1>4. from <= to => u # <<>>
  BY <1>1
<1>5. Ascending(s) => Ascending(u)
  <2> SUFFICES ASSUME Ascending(s), NEW i \in DOMAIN u, NEW j \in DOMAIN u, i < j
               PROVE  u[i] < u[j]
    BY DEF Ascending
  <2>1. from + i - 1 < from + j - 1
    BY <1>1
  <2> QED
    BY <1>1, <1>2, <2>1 DEF Ascending
<1> QED
  BY <1>0, <1>1, <1>3, <1>4, <1>5

\* The first of an ascending sequence is before the others.
LEMMA HeadFirst ==
  ASSUME NEW T \in SUBSET Nat, NEW s \in Seq(T), s # <<>>
  PROVE  /\ Head(s) \in ToSet(s) /\ Tail(s) \in Seq(T)
         /\ ToSet(s) = {Head(s)} \cup ToSet(Tail(s))
         /\ Ascending(s) => /\ Ascending(Tail(s))
                            /\ \A e \in ToSet(s) \ {Head(s)} : Head(s) < e
<1>0. PICK u, n : u = Tail(s) /\ n = Len(s)
  OBVIOUS
<1>1. /\ u \in Seq(T) /\ n \in Nat \ {0} /\ DOMAIN s = 1 .. n /\ DOMAIN u = 1 .. n - 1
      /\ \A i \in DOMAIN u : u[i] = s[i + 1]
      /\ Head(s) = s[1]
  BY <1>0
<1>2. Head(s) \in ToSet(s)
  BY <1>1 DEF ToSet
<1>3. ToSet(s) = {Head(s)} \cup ToSet(u)
  <2>1. ASSUME NEW i \in DOMAIN s PROVE s[i] \in {Head(s)} \cup ToSet(u)
    <3>1. i = 1 \/ (i - 1 \in DOMAIN u /\ s[i] = u[i - 1])
      BY <1>1
    <3> QED
      BY <1>1, <3>1 DEF ToSet
  <2>2. ASSUME NEW i \in DOMAIN u PROVE u[i] \in ToSet(s)
    <3>1. i + 1 \in DOMAIN s
      BY <1>1
    <3> QED
      BY <1>1, <3>1 DEF ToSet
  <2> QED
    BY <1>2, <2>1, <2>2 DEF ToSet
<1>4. ASSUME Ascending(s) PROVE Ascending(u)
  <2> SUFFICES ASSUME NEW i \in DOMAIN u, NEW j \in DOMAIN u, i < j PROVE u[i] < u[j]
    BY DEF Ascending
  <2>1. i + 1 \in DOMAIN s /\ j + 1 \in DOMAIN s /\ i + 1 < j + 1
    BY <1>1
  <2> QED
    BY <1>1, <1>4, <2>1 DEF Ascending
<1>5. ASSUME Ascending(s), NEW e \in ToSet(s) \ {Head(s)} PROVE Head(s) < e
  <2>1. PICK i \in DOMAIN s : s[i] = e
    BY DEF ToSet
  <2>2. 1 \in DOMAIN s /\ 1 < i
    BY <1>1, <2>1
  <2> QED
    BY <1>1, <1>5, <2>1, <2>2 DEF Ascending
<1> QED
  BY <1>0, <1>1, <1>2, <1>3, <1>4, <1>5

\* The queue after a request's events: the newest of both, in their order, and not empty if
\* there is one.
LEMMA PutAllKeeps ==
  ASSUME EventStreamAssumption, NEW q \in Seq(Seqs), NEW b \in Seq(Seqs)
  PROVE  /\ PutAll(q, b) \in Seq(Seqs)
         /\ ToSet(PutAll(q, b)) \subseteq ToSet(q) \cup ToSet(b)
         /\ q \o b # <<>> => PutAll(q, b) # <<>>
         /\ Ascending(q \o b) => Ascending(PutAll(q, b))
<1>1. PICK all : all = q \o b
  OBVIOUS
<1>2. PICK from : from = IF Len(all) > QueueMax THEN Len(all) - QueueMax + 1 ELSE 1
  OBVIOUS
<1>3. Seqs \in SUBSET Nat
  BY DEF EventStreamAssumption, Seqs
<1>4. all \in Seq(Seqs) /\ ToSet(all) = ToSet(q) \cup ToSet(b)
  BY <1>1, <1>3, Joined
<1>5. Len(all) \in Nat /\ QueueMax \in Nat \ {0}
  BY <1>4 DEF EventStreamAssumption
<1>6. from \in Nat \ {0} /\ (all # <<>> => from <= Len(all))
  <2>1. all # <<>> => 1 <= Len(all)
    BY <1>4, <1>5
  <2> QED
    BY <1>2, <1>5, <2>1
<1>7. PutAll(q, b) = SubSeq(all, from, Len(all))
  BY <1>1, <1>2 DEF PutAll
<1>8. Len(all) <= Len(all)
  BY <1>5
<1>9. PICK to : to = Len(all)
  OBVIOUS
<1>10. /\ SubSeq(all, from, to) \in Seq(Seqs)
       /\ ToSet(SubSeq(all, from, to)) \subseteq ToSet(all)
       /\ from <= to => SubSeq(all, from, to) # <<>>
       /\ Ascending(all) => Ascending(SubSeq(all, from, to))
  BY <1>3, <1>4, <1>5, <1>6, <1>8, <1>9, Stretch
<1> QED
  BY <1>1, <1>4, <1>6, <1>7, <1>9, <1>10

\* EventHub.publish: putting the events of a request one after the other, each time evicting
\* the oldest of a full queue, leaves what PutAll says.
Put(queue, e) == Append(IF Len(queue) = QueueMax THEN Tail(queue) ELSE queue, e)

\* What PutAll leaves in the queue, element by element.
LEMMA PutAllElements ==
  ASSUME EventStreamAssumption, NEW q \in Seq(Seqs), NEW b \in Seq(Seqs),
         NEW k, k = Len(q) + Len(b)
  PROVE  /\ PutAll(q, b) \in Seq(Seqs)
         /\ Len(PutAll(q, b)) = IF k > QueueMax THEN QueueMax ELSE k
         /\ \A i \in 1 .. Len(PutAll(q, b)) :
              PutAll(q, b)[i] = (q \o b)[k - Len(PutAll(q, b)) + i]
<1>1. PICK all, from, n : /\ all = q \o b /\ n = QueueMax
                          /\ from = IF k > n THEN k - n + 1 ELSE 1
  OBVIOUS
<1>2. /\ all \in Seq(Seqs) /\ Len(all) = k /\ k \in Nat /\ n \in Nat \ {0}
      /\ from \in Nat \ {0} /\ from <= k + 1
      /\ k - from + 1 = IF k > n THEN n ELSE k
  <2>1. all \in Seq(Seqs) /\ Len(all) = k
    BY <1>1, ConcatProperties
  <2>2. k \in Nat /\ n \in Nat \ {0}
    BY <1>1 DEF EventStreamAssumption
  <2> QED
    BY <1>1, <2>1, <2>2
<1>3. PICK u : u = SubSeq(all, from, k)
  OBVIOUS
<1>4. PutAll(q, b) = u
  BY <1>1, <1>2, <1>3 DEF PutAll
<1>5. \A i \in from .. k : all[i] \in Seqs
  BY <1>2
<1>6. /\ u \in Seq(Seqs)
      /\ Len(u) = IF from <= k THEN k - from + 1 ELSE 0
      /\ \A i \in 1 .. k - from + 1 : u[i] = all[from + i - 1]
  BY SMTT(30), <1>2, <1>3, <1>5, SubSeqProperties
<1>7. Len(u) = k - from + 1
  BY <1>2, <1>6
<1>8. \A i \in 1 .. Len(u) : from + i - 1 = k - Len(u) + i
  BY <1>2, <1>7
<1>9. Len(u) = IF k > QueueMax THEN QueueMax ELSE k
  BY <1>1, <1>2, <1>7
<1>10. ASSUME NEW i \in 1 .. Len(u) PROVE u[i] = (q \o b)[k - Len(u) + i]
  <2>1. i \in 1 .. k - from + 1
    BY <1>7
  <2>2. u[i] = all[from + i - 1]
    BY <1>6, <2>1
  <2> QED
    BY <1>1, <1>8, <2>2
<1> QED
  BY <1>4, <1>6, <1>9, <1>10

\* No event leaves the queue as it is, and one more is one Put more.
LEMMA PutAllIsPuts ==
  ASSUME EventStreamAssumption, NEW q \in Seq(Seqs), Len(q) <= QueueMax,
         NEW b \in Seq(Seqs), NEW e \in Seqs
  PROVE  /\ PutAll(q, <<>>) = q
         /\ PutAll(q, Append(b, e)) = Put(PutAll(q, b), e)
<1>1. PutAll(q, <<>>) = q
  <2>1. q \o <<>> = q /\ Len(q) \in Nat /\ SubSeq(q, 1, Len(q)) = q
    BY ConcatEmptySeq, SubSeqFull, LenProperties
  <2>2. ~(Len(q) > QueueMax)
    BY <2>1 DEF EventStreamAssumption
  <2> QED
    BY <2>1, <2>2 DEF PutAll
<1>2. PICK all, k, n, u : all = q \o b /\ k = Len(q) + Len(b) /\ n = QueueMax /\ u = PutAll(q, b)
  OBVIOUS
<1>3. k \in Nat /\ n \in Nat \ {0} /\ all \in Seq(Seqs) /\ Len(all) = k
  BY <1>2, ConcatProperties, LenProperties DEF EventStreamAssumption
<1>4. PICK c, more, v : /\ c = Append(b, e) /\ more = q \o c /\ v = PutAll(q, c)
  OBVIOUS
<1>5. c \in Seq(Seqs) /\ Len(q) + Len(c) = k + 1
  BY <1>2, <1>4, AppendProperties, LenProperties
<1>6. more = Append(all, e)
  BY <1>2, <1>4
<1>7. /\ \A i \in 1 .. k : more[i] = all[i]
      /\ more[k + 1] = e
  BY <1>3, <1>6, AppendProperties
<1>8. /\ u \in Seq(Seqs) /\ Len(u) = IF k > n THEN n ELSE k
      /\ \A i \in 1 .. Len(u) : u[i] = all[k - Len(u) + i]
  <2>1. /\ PutAll(q, b) \in Seq(Seqs)
        /\ Len(PutAll(q, b)) = IF k > QueueMax THEN QueueMax ELSE k
        /\ \A i \in 1 .. Len(PutAll(q, b)) :
             PutAll(q, b)[i] = (q \o b)[k - Len(PutAll(q, b)) + i]
    BY <1>2, PutAllElements, Zenon
  <2> QED
    BY <1>2, <2>1
<1>9. /\ v \in Seq(Seqs) /\ Len(v) = IF k + 1 > n THEN n ELSE k + 1
      /\ \A i \in 1 .. Len(v) : v[i] = more[k + 1 - Len(v) + i]
  <2>1. PICK m : m = k + 1
    OBVIOUS
  <2>2. m = Len(q) + Len(c)
    BY <1>5, <2>1
  <2>3. c \in Seq(Seqs)
    BY <1>5
  <2>4. /\ PutAll(q, c) \in Seq(Seqs)
        /\ Len(PutAll(q, c)) = IF m > QueueMax THEN QueueMax ELSE m
        /\ \A i \in 1 .. Len(PutAll(q, c)) :
             PutAll(q, c)[i] = (q \o c)[m - Len(PutAll(q, c)) + i]
    BY <2>2, <2>3, PutAllElements, Zenon
  <2>5. /\ v \in Seq(Seqs) /\ Len(v) = IF m > n THEN n ELSE m
        /\ \A i \in 1 .. Len(v) : v[i] = more[m - Len(v) + i]
    BY <1>2, <1>4, <2>4
  <2> QED
    BY <1>3, <2>1, <2>5
<1>10. PICK x : x = Put(u, e)
  OBVIOUS
<1>11. x = v
  <2>1. CASE Len(u) = n
    <3>1. u # <<>> /\ x = Append(Tail(u), e)
      BY <1>2, <1>3, <1>8, <1>10, <2>1 DEF Put
    <3>2. PICK y : /\ y = Tail(u) /\ y \in Seq(Seqs) /\ Len(y) = n - 1
                   /\ \A i \in 1 .. n - 1 : y[i] = u[i + 1]
      <4>1. /\ Tail(u) \in Seq(Seqs) /\ Len(Tail(u)) = n - 1
            /\ \A i \in 1 .. Len(Tail(u)) : Tail(u)[i] = u[i + 1]
        BY <1>8, <2>1, <3>1, HeadTailProperties
      <4> QED
        BY <4>1
    <3>3. /\ x \in Seq(Seqs) /\ Len(x) = Len(y) + 1
          /\ \A i \in 1 .. Len(y) : x[i] = y[i]
          /\ x[Len(y) + 1] = e
      BY <3>1, <3>2, AppendProperties
    <3>4. Len(x) = n /\ Len(v) = n /\ k >= n
      BY <1>3, <1>8, <1>9, <2>1, <3>2, <3>3
    <3>5. ASSUME NEW i \in 1 .. n PROVE x[i] = v[i]
      <4>1. CASE i = n
        <5>1. x[i] = e /\ v[i] = more[k + 1 - n + n] /\ k + 1 - n + n = k + 1
          BY <1>3, <1>9, <3>2, <3>3, <3>4, <4>1
        <5> QED
          BY <1>7, <5>1
      <4>2. CASE i # n
        <5>1. i \in 1 .. n - 1 /\ i + 1 \in 1 .. n
          BY <1>3, <4>2
        <5>2. x[i] = u[i + 1] /\ u[i + 1] = all[k - n + (i + 1)]
          BY <1>8, <2>1, <3>2, <3>3, <5>1
        <5>3. v[i] = more[k + 1 - n + i]
          BY <1>9, <3>4
        <5>4. k - n + (i + 1) = k + 1 - n + i /\ k + 1 - n + i \in 1 .. k
          BY <1>3, <3>4, <5>1
        <5> QED
          BY <1>7, <5>2, <5>3, <5>4
      <4> QED
        BY <4>1, <4>2
    <3> QED
      BY <1>9, <3>3, <3>4, <3>5, SeqEqual
  <2>2. CASE Len(u) # n
    <3>1. k < n /\ Len(u) = k /\ Len(v) = k + 1 /\ x = Append(u, e)
      BY <1>2, <1>3, <1>8, <1>9, <1>10, <2>2 DEF Put
    <3>2. /\ x \in Seq(Seqs) /\ Len(x) = k + 1
          /\ \A i \in 1 .. k : x[i] = u[i]
          /\ x[k + 1] = e
      BY <1>8, <3>1, AppendProperties
    <3>3. \A i \in 1 .. k : u[i] = all[i]
      <4>1. \A i \in 1 .. k : k - k + i = i
        BY <1>3
      <4> QED
        BY <1>8, <3>1, <4>1
    <3>4. \A i \in 1 .. k + 1 : v[i] = more[i]
      <4>1. \A i \in 1 .. k + 1 : k + 1 - (k + 1) + i = i
        BY <1>3
      <4> QED
        BY <1>9, <3>1, <4>1
    <3>5. \A i \in 1 .. k + 1 : i \in 1 .. k \/ i = k + 1
      BY <1>3
    <3>6. \A i \in 1 .. k + 1 : x[i] = v[i]
      BY <1>7, <3>2, <3>3, <3>4, <3>5
    <3> QED
      BY <1>9, <3>1, <3>2, <3>6, SeqEqual
  <2> QED
    BY <2>1, <2>2
<1> QED
  BY <1>1, <1>2, <1>4, <1>10, <1>11

-----------------------------------------------------------------------------
(***************************************************************************)
(* Every step preserves the invariant: the sockets and the pages.          *)
(***************************************************************************)

\* What is known of the variables.
LEMMA KnownTypes ==
  ASSUME EventStreamAssumption, Types
  PROVE  /\ Seqs \in SUBSET Nat /\ 0 \notin Seqs /\ Committed \subseteq Seqs
         /\ \A t \in Tablets :
              /\ tablet[t] \in Page /\ cut[t] \in SUBSET Seqs
              /\ tablet[t].replay \in Seq(Seqs) /\ tablet[t].queue \in Seq(Seqs)
              /\ tablet[t].cursor \in Nat /\ tablet[t].seen \subseteq Seqs
         /\ \A w \in Writers : txn[w].buffer \in Seq(Seqs)
<1>1. Seqs \in SUBSET Nat /\ 0 \notin Seqs
  BY DEF Seqs, EventStreamAssumption
<1>2. Committed \subseteq Seqs
  BY DEF Types, Committed, ToSet
<1>3. \A t \in Tablets : tablet[t] \in Page /\ cut[t] \in SUBSET Seqs
  BY DEF Types
<1>4. \A p \in Page : /\ p.replay \in Seq(Seqs) /\ p.queue \in Seq(Seqs)
                      /\ p.cursor \in Nat /\ p.seen \subseteq Seqs
  <2> SUFFICES ASSUME NEW p \in Page
               PROVE  /\ p.replay \in Seq(Seqs) /\ p.queue \in Seq(Seqs)
                      /\ p.cursor \in Nat /\ p.seen \subseteq Seqs
    OBVIOUS
  <2>1. p.replay \in Seq(Seqs) /\ p.queue \in Seq(Seqs) /\ p.seen \subseteq Seqs
    BY DEF Page
  <2>2. p.cursor \in 0..MaxSeq
    BY DEF Page
  <2> QED
    BY <2>1, <2>2 DEF EventStreamAssumption
<1>5. \A w \in Writers : txn[w].buffer \in Seq(Seqs)
  BY DEF Types, Txn
<1> QED
  BY <1>1, <1>2, <1>3, <1>4, <1>5

\* A step of one tablet: what is to be shown is shown of its page.
LEMMA PageStep ==
  ASSUME EventStreamAssumption, Inv, NEW t \in Tablets, NEW p \in Page, NEW c \in SUBSET Seqs,
         tablet' = [tablet EXCEPT ![t] = p], cut' = [cut EXCEPT ![t] = c],
         UNCHANGED <<lastSeq, log, txn, overlapped>>,
         ToSet(p.queue) \subseteq ToSet(tablet[t].queue),
         Sound(p), Past(p), Fresh(p), ~overlapped => CaughtUp(p, c)
  PROVE  Inv'
<1>1. /\ tablet'[t] = p /\ cut'[t] = c
      /\ \A s \in Tablets \ {t} : tablet'[s] = tablet[s] /\ cut'[s] = cut[s]
  BY DEF Inv, Types
<1>2. Committed' = Committed /\ Unpublished' = Unpublished
  BY DEF Committed, Unpublished
<1>3. Types'
  BY DEF Inv, Types
<1>4. Numbered'
  BY <1>2 DEF Inv, Numbered
<1>5. ASSUME NEW s \in Tablets
      PROVE  (Sound(tablet[s]) /\ Past(tablet[s]) /\ Fresh(tablet[s]))'
  <2>1. PICK r : r = tablet'[s] /\ Sound(r) /\ Past(r) /\ Fresh(r)
    BY <1>1 DEF Inv
  <2>2. Sound(r)' /\ Past(r)' /\ Fresh(r)'
    BY <1>2, <2>1 DEF Sound, Past, Fresh, Covers
  <2> QED
    BY <2>1, <2>2
<1>6. ASSUME ~overlapped PROVE Serial'
  <2>1. OneByOne'
    <3>1. \A s \in Tablets : ToSet(tablet'[s].queue) \subseteq ToSet(tablet[s].queue)
      BY <1>1
    <3> QED
      BY <1>2, <1>6, <3>1 DEF Inv, Serial, OneByOne
  <2>2. ASSUME NEW s \in Tablets PROVE CaughtUp(tablet[s], cut[s])'
    <3>1. PICK r, d : r = tablet'[s] /\ d = cut'[s] /\ CaughtUp(r, d)
      BY <1>1, <1>6 DEF Inv, Serial
    <3>2. CaughtUp(r, d)'
      BY <1>2, <3>1 DEF CaughtUp, Owed
    <3> QED
      BY <3>1, <3>2
  <2> QED
    BY <2>1, <2>2 DEF Serial
<1> QED
  BY <1>3, <1>4, <1>5, <1>6 DEF Inv

\* A socket subscribes, with nothing to come yet.
LEMMA ConnectStep ==
  ASSUME EventStreamAssumption, Inv, NEW t \in Tablets, Connect(t)
  PROVE  Inv'
<1>1. PICK q \in Page : q = tablet[t]
  BY DEF Inv, Types
<1>2. PICK p : p = [q EXCEPT !.link = "subscribed", !.after = q.cursor, !.since = Len(log)]
  OBVIOUS
<1>3. /\ q.link = "down" /\ tablet' = [tablet EXCEPT ![t] = p]
      /\ UNCHANGED <<lastSeq, log, txn, overlapped, cut>>
  BY <1>1, <1>2 DEF Connect
<1>4. /\ p.link = "subscribed" /\ p.after = q.cursor /\ p.replay = q.replay
      /\ p.queue = q.queue /\ p.cursor = q.cursor /\ p.asked = q.asked
      /\ p.shown = q.shown /\ p.seen = q.seen /\ p.since = Len(log)
  BY <1>1, <1>2 DEF Page
<1>5. p \in Page
  <2>1. Len(log) \in Nat
    BY DEF Inv, Types
  <2> QED
    BY <1>1, <1>2, <2>1 DEF Page
<1>6. Sound(q) /\ Past(q) /\ (~overlapped => CaughtUp(q, cut[t]))
  BY <1>1 DEF Inv, Serial
<1>7. Sound(p)
  BY <1>3, <1>4, <1>6 DEF Sound
<1>8. Past(p) /\ Fresh(p)
  <2>1. DOMAIN log = 1 .. Len(log) /\ Len(log) \in Nat
    BY DEF Inv, Types
  <2> QED
    BY <1>4, <1>6, <2>1 DEF Past, Fresh
<1>9. ~overlapped => CaughtUp(p, cut[t])
  BY <1>4, <1>6 DEF CaughtUp, Owed
<1>10. cut[t] \in SUBSET Seqs /\ cut' = [cut EXCEPT ![t] = cut[t]]
  BY <1>3 DEF Inv, Types
<1> QED
  BY <1>1, <1>3, <1>4, <1>5, <1>7, <1>8, <1>9, <1>10, PageStep

\* The replay: what was missed and is not in it is beyond its limit.
LEMMA CatchUpReadStep ==
  ASSUME EventStreamAssumption, Inv, NEW t \in Tablets, CatchUpRead(t)
  PROVE  Inv'
<1>1. PICK q \in Page : q = tablet[t]
  BY DEF Inv, Types
<1>2. PICK missed, to, replay :
        /\ missed \in SetToSeqs(Missed(q.after)) /\ Ascending(missed)
        /\ to = IF Len(missed) < CatchUp THEN Len(missed) ELSE CatchUp
        /\ replay = SubSeq(missed, 1, to)
        /\ tablet' = [tablet EXCEPT ![t] = [@ EXCEPT !.link = "live", !.replay = replay]]
        /\ cut' = [cut EXCEPT ![t] = @ \cup (ToSet(missed) \ ToSet(replay))]
  BY <1>1 DEF CatchUpRead
<1>3. PICK p : p = [q EXCEPT !.link = "live", !.replay = replay]
  OBVIOUS
<1>4. PICK c : c = cut[t] \cup (ToSet(missed) \ ToSet(replay))
  OBVIOUS
<1>5. /\ q.link = "subscribed" /\ tablet' = [tablet EXCEPT ![t] = p]
      /\ cut' = [cut EXCEPT ![t] = c]
      /\ UNCHANGED <<lastSeq, log, txn, overlapped>>
  BY <1>1, <1>2, <1>3, <1>4 DEF CatchUpRead, Inv, Types
<1>6. /\ p.link = "live" /\ p.after = q.after /\ p.replay = replay
      /\ p.queue = q.queue /\ p.cursor = q.cursor /\ p.due = q.due /\ p.asked = q.asked
      /\ p.shown = q.shown /\ p.seen = q.seen /\ p.since = q.since
      /\ p.hidden = q.hidden /\ p.newest = q.newest
  BY <1>1, <1>3 DEF Page
<1>7. /\ Seqs \in SUBSET Nat /\ Committed \subseteq Seqs /\ Missed(q.after) \subseteq Committed
      /\ cut[t] \subseteq Seqs
  BY KnownTypes DEF Inv, Missed
<1>8. missed \in Seq(Seqs) /\ ToSet(missed) = Missed(q.after)
  <2>1. IsFiniteSet(Missed(q.after))
    <3>1. IsFiniteSet(0 .. MaxSeq) /\ Missed(q.after) \subseteq 0 .. MaxSeq
      <4>1. MaxSeq \in Nat
        BY DEF EventStreamAssumption
      <4>2. IsFiniteSet(0 .. MaxSeq)
        BY <4>1, FS_Interval
      <4>3. Seqs \subseteq 0 .. MaxSeq
        BY <4>1 DEF Seqs
      <4> QED
        BY <1>7, <4>2, <4>3
    <3> QED
      BY <3>1, FS_Subset
  <2>2. missed \in Seq(Missed(q.after)) /\ {missed[k] : k \in DOMAIN missed} = Missed(q.after)
    <3>1. PICK S : S = Missed(q.after) /\ IsFiniteSet(S) /\ missed \in SetToSeqs(S)
      BY <1>2, <2>1
    <3> QED
      BY <3>1, Enumerates
  <2> QED
    BY <1>7, <2>2, SeqMonotonic DEF ToSet
<1>9. /\ replay \in Seq(Seqs) /\ ToSet(replay) \subseteq Missed(q.after) /\ Ascending(replay)
  <2>1. to \in Nat /\ to <= Len(missed)
    BY <1>2, <1>8 DEF EventStreamAssumption
  <2>2. PICK from : from = 1
    OBVIOUS
  <2>3. /\ SubSeq(missed, from, to) \in Seq(Seqs)
        /\ ToSet(SubSeq(missed, from, to)) \subseteq ToSet(missed)
        /\ Ascending(missed) => Ascending(SubSeq(missed, from, to))
    BY <1>7, <1>8, <2>1, <2>2, Stretch
  <2> QED
    BY <1>2, <1>8, <2>2, <2>3
<1>10. p \in Page /\ c \in SUBSET Seqs
  BY <1>1, <1>3, <1>4, <1>7, <1>8, <1>9 DEF Page
<1>11. Sound(q) /\ Past(q) /\ Fresh(q) /\ (~overlapped => CaughtUp(q, cut[t]))
  BY <1>1 DEF Inv, Serial
<1>12. Sound(p)
  BY <1>5, <1>6, <1>7, <1>9, <1>11 DEF Sound
<1>13. Past(p) /\ Fresh(p)
  BY <1>5, <1>6, <1>11 DEF Past, Fresh, Covers, Sound
<1>14. ASSUME ~overlapped PROVE CaughtUp(p, c)
  <2>1. \A e \in Owed(p, c) : e \in Owed(q, cut[t]) /\ e \notin ToSet(missed) \ ToSet(replay)
    BY <1>4, <1>6 DEF Owed
  <2>2. \A e \in Owed(p, c) : e > q.cursor /\ e \in Committed
    BY <1>11, <1>14, <2>1 DEF CaughtUp, Owed
  <2>3. \A e \in Owed(p, c) : e \in ToSet(replay)
    BY <1>5, <1>8, <1>11, <2>1, <2>2 DEF Missed, Sound
  <2> QED
    BY <1>6, <1>9, <1>11, <1>14, <2>2, <2>3 DEF CaughtUp
<1> QED
  BY <1>1, <1>5, <1>6, <1>10, <1>12, <1>13, <1>14, PageStep

\* The next frame: those still owed are beyond it.
LEMMA DeliverStep ==
  ASSUME EventStreamAssumption, Inv, NEW t \in Tablets, Deliver(t)
  PROVE  Inv'
<1>1. PICK q \in Page : q = tablet[t]
  BY DEF Inv, Types
<1>2. PICK e : e = Head(Incoming(t))
  OBVIOUS
<1>3. PICK p : p = [q EXCEPT !.replay = IF @ = <<>> THEN @ ELSE Tail(@),
                             !.queue = IF q.replay = <<>> THEN Tail(@) ELSE @,
                             !.cursor = IF e > @ THEN e ELSE @,
                             !.seen = @ \cup {e},
                             !.due = @ \/ ~q.overlay,
                             !.hidden = @ \/ q.overlay]
  OBVIOUS
<1>4. /\ q.link = "live" /\ tablet' = [tablet EXCEPT ![t] = p]
      /\ Incoming(t) = q.replay \o q.queue /\ Incoming(t) # <<>>
      /\ UNCHANGED <<lastSeq, log, txn, overlapped, cut>>
  BY <1>1, <1>2, <1>3 DEF Deliver, Received, Incoming, Inv, Types
<1>5. /\ p.link = "live" /\ p.after = q.after
      /\ p.replay = (IF q.replay = <<>> THEN q.replay ELSE Tail(q.replay))
      /\ p.queue = (IF q.replay = <<>> THEN Tail(q.queue) ELSE q.queue)
      /\ p.cursor = (IF e > q.cursor THEN e ELSE q.cursor)
      /\ p.due \/ p.hidden
      /\ p.due \in BOOLEAN /\ p.hidden \in BOOLEAN /\ p.overlay = q.overlay
      /\ p.asked = q.asked /\ p.shown = q.shown /\ p.newest = q.newest
      /\ p.seen = q.seen \cup {e} /\ p.since = q.since
      /\ p = [link |-> p.link, after |-> p.after, replay |-> p.replay, queue |-> p.queue,
              cursor |-> p.cursor, due |-> p.due, overlay |-> p.overlay, asked |-> p.asked,
              shown |-> p.shown, seen |-> p.seen, since |-> p.since, hidden |-> p.hidden,
              newest |-> p.newest]
  BY <1>1, <1>3, <1>4 DEF Page
<1>6. /\ q.replay \in Seq(Seqs) /\ q.queue \in Seq(Seqs) /\ q.cursor \in 0..MaxSeq
      /\ q.after \in 0..MaxSeq /\ q.seen \in SUBSET Seqs /\ q.since \in Nat
  BY DEF Page
<1>17. /\ q.overlay \in BOOLEAN /\ q.asked \in Seq(Known) /\ q.shown \in Nat
       /\ q.newest \in {"under way", "shown", "lost"}
  BY DEF Page
<1>7. /\ Seqs \in SUBSET Nat /\ Committed \subseteq Seqs /\ MaxSeq \in Nat
      /\ cut[t] \in SUBSET Seqs
  BY KnownTypes DEF Inv, EventStreamAssumption
<1>8. IF q.replay = <<>>
        THEN q.queue # <<>> /\ e = Head(q.queue)
        ELSE e = Head(q.replay)
  <2>1. CASE q.replay = <<>>
    <3>1. Incoming(t) = q.queue
      BY <1>4, <1>6, <2>1, ConcatEmptySeq
    <3> QED
      BY <1>2, <1>4, <2>1, <3>1
  <2>2. CASE q.replay # <<>>
    <3>1. PICK a, b, s : a = q.replay /\ b = q.queue /\ s = a \o b
      OBVIOUS
    <3>2. a \in Seq(Seqs) /\ b \in Seq(Seqs) /\ a # <<>>
      BY <1>6, <2>2, <3>1
    <3>3. Head(a \o b) = Head(a)
      BY <3>2
    <3> QED
      BY <1>2, <1>4, <2>2, <3>1, <3>3
  <2> QED
    BY <2>1, <2>2
<1>9. /\ e \in ToSet(q.replay) \cup ToSet(q.queue)
      /\ p.replay \in Seq(Seqs) /\ p.queue \in Seq(Seqs)
      /\ ToSet(p.replay) \subseteq ToSet(q.replay) /\ ToSet(p.queue) \subseteq ToSet(q.queue)
      /\ ToSet(q.replay) \cup ToSet(q.queue) = {e} \cup ToSet(p.replay) \cup ToSet(p.queue)
      /\ Ascending(q.replay) => Ascending(p.replay)
      /\ Ascending(q.queue) => Ascending(p.queue)
  <2>0. /\ p.replay = (IF q.replay = <<>> THEN q.replay ELSE Tail(q.replay))
        /\ p.queue = (IF q.replay = <<>> THEN Tail(q.queue) ELSE q.queue)
    BY <1>5
  <2>3. /\ q.replay \in Seq(Seqs) /\ q.queue \in Seq(Seqs)
    BY <1>6
  <2>4. \A u \in Seq(Seqs) :
          u # <<>> => /\ Head(u) \in ToSet(u) /\ Tail(u) \in Seq(Seqs)
                      /\ ToSet(u) = {Head(u)} \cup ToSet(Tail(u))
                      /\ Ascending(u) => Ascending(Tail(u))
    BY <1>7, HeadFirst
  <2>5. ToSet(<<>>) = {}
    BY DEF ToSet
  <2>1. CASE q.replay = <<>>
    BY <1>8, <2>0, <2>1, <2>3, <2>4, <2>5
  <2>2. CASE q.replay # <<>>
    BY <1>8, <2>0, <2>2, <2>3, <2>4
  <2> QED
    BY <2>1, <2>2
<1>10. Sound(q) /\ Past(q) /\ (~overlapped => CaughtUp(q, cut[t]) /\ OneByOne)
  BY <1>1 DEF Inv, Serial
<1>11. e \in Committed /\ e \in Seqs
  BY <1>7, <1>9, <1>10 DEF Sound
<1>12. p \in Page
  <2>1. /\ p.cursor \in 0..MaxSeq /\ p.seen \in SUBSET Seqs /\ p.link \in {"live"}
    <3>1. e \in 0 .. MaxSeq
      BY <1>7, <1>11 DEF Seqs
    <3> QED
      BY <1>5, <1>6, <1>11, <3>1
  <2> QED
    BY <1>5, <1>6, <1>9, <1>17, <2>1 DEF Page
<1>13. Sound(p)
  BY <1>5, <1>9, <1>10, <1>11 DEF Sound
<1>14. Past(p) /\ Fresh(p)
  BY <1>5, <1>10 DEF Past, Fresh
<1>15. ASSUME ~overlapped PROVE CaughtUp(p, cut[t])
  <2>1. Owed(p, cut[t]) = Owed(q, cut[t]) \ {e}
    BY <1>5 DEF Owed
  <2>2. CaughtUp(q, cut[t]) /\ OneByOne
    BY <1>10, <1>15
  <2>3. ASSUME NEW d \in Owed(p, cut[t]) PROVE d > e
    <3>1. d # e /\ d \in ToSet(q.replay) \cup ToSet(q.queue) \cup Unpublished
      BY <1>4, <2>1, <2>2 DEF CaughtUp
    <3>2. CASE q.replay # <<>>
      <4>1. e \in ToSet(q.replay)
        BY <1>6, <1>7, <1>8, <3>2, HeadFirst
      <4>2. CASE d \notin ToSet(q.replay)
        BY <1>4, <2>1, <2>2, <4>1, <4>2, <1>7, <1>11 DEF CaughtUp, Owed
      <4>3. CASE d \in ToSet(q.replay)
        <5>1. e < d
          BY <1>6, <1>7, <1>8, <2>2, <3>1, <3>2, <4>3, HeadFirst DEF CaughtUp
        <5> QED
          BY <1>7, <1>11, <2>1, <5>1 DEF Owed
      <4> QED
        BY <4>2, <4>3
    <3>3. CASE q.replay = <<>>
      <4>1. q.queue # <<>> /\ e = Head(q.queue) /\ ToSet(q.replay) = {}
        BY <1>8, <3>3 DEF ToSet
      <4>2. CASE d \in ToSet(q.queue)
        <5>1. e < d
          BY <1>6, <1>7, <2>2, <3>1, <4>1, <4>2, HeadFirst DEF CaughtUp
        <5> QED
          BY <1>7, <1>11, <2>1, <5>1 DEF Owed
      <4>3. CASE d \in Unpublished
        <5>1. PICK w \in Writers : txn[w].phase = "committed" /\ d \in ToSet(txn[w].buffer)
          BY <4>3 DEF Unpublished
        <5>2. e \in ToSet(tablet[t].queue)
          BY <1>1, <1>6, <1>7, <4>1, HeadFirst
        <5>3. e < d
          BY <2>2, <5>1, <5>2 DEF OneByOne
        <5> QED
          BY <1>7, <1>11, <2>1, <5>3 DEF Owed
      <4> QED
        BY <3>1, <4>1, <4>2, <4>3
    <3> QED
      BY <3>2, <3>3
  <2>4. \A d \in Owed(p, cut[t]) : d > p.cursor
    BY <1>5, <2>1, <2>2, <2>3 DEF CaughtUp
  <2>5. Owed(p, cut[t]) \subseteq ToSet(p.replay) \cup ToSet(p.queue) \cup Unpublished
    BY <1>4, <1>9, <2>1, <2>2 DEF CaughtUp
  <2>6. ASSUME NEW d \in Owed(p, cut[t]) \ ToSet(p.replay), NEW r \in ToSet(p.replay)
        PROVE  r < d
    <3>1. r \in ToSet(q.replay) /\ q.replay # <<>>
      BY <1>5, <1>9, <2>6 DEF ToSet
    <3>2. d \notin ToSet(q.replay)
      <4>1. q.replay \in Seq(Seqs) /\ e = Head(q.replay) /\ p.replay = Tail(q.replay)
        BY <1>5, <1>6, <1>8, <3>1
      <4>2. ToSet(q.replay) = {Head(q.replay)} \cup ToSet(Tail(q.replay))
        BY <1>7, <3>1, <4>1, HeadFirst
      <4> QED
        BY <2>1, <4>1, <4>2
    <3> QED
      BY <1>4, <2>1, <2>2, <3>1, <3>2 DEF CaughtUp
  <2>7. Ascending(p.replay) /\ Ascending(p.queue)
    BY <1>9, <2>2 DEF CaughtUp
  <2> QED
    BY <2>4, <2>5, <2>6, <2>7 DEF CaughtUp
<1>16. cut' = [cut EXCEPT ![t] = cut[t]]
  BY <1>4 DEF Inv, Types
<1> QED
  BY <1>1, <1>4, <1>7, <1>9, <1>12, <1>13, <1>14, <1>15, <1>16, PageStep

\* Neither the socket nor the cursor is touched.
SameSocket(p, q) ==
  /\ p.link = q.link /\ p.after = q.after /\ p.replay = q.replay /\ p.queue = q.queue
  /\ p.cursor = q.cursor /\ p.seen = q.seen /\ p.since = q.since

\* A step of the page that its socket does not see.
LEMMA BoardStep ==
  ASSUME EventStreamAssumption, Inv, NEW t \in Tablets, NEW p \in Page,
         tablet' = [tablet EXCEPT ![t] = p], UNCHANGED <<lastSeq, log, txn, overlapped, cut>>,
         NEW q, q = tablet[t], SameSocket(p, q), Past(p), Fresh(p)
  PROVE  Inv'
<1>1. Sound(q) /\ (~overlapped => CaughtUp(q, cut[t]))
  BY DEF Inv, Serial
<1>2. Sound(p) /\ (~overlapped => CaughtUp(p, cut[t]))
  BY <1>1 DEF SameSocket, Sound, CaughtUp, Owed
<1>3. cut[t] \in SUBSET Seqs /\ cut' = [cut EXCEPT ![t] = cut[t]]
  BY DEF Inv, Types
<1>4. ToSet(p.queue) \subseteq ToSet(tablet[t].queue)
  BY DEF SameSocket
<1> QED
  BY <1>2, <1>3, <1>4, PageStep

\* A modal is shown or hidden.
LEMMA OverlayStep ==
  ASSUME EventStreamAssumption, Inv, NEW t \in Tablets, NEW on \in BOOLEAN,
         tablet' = [tablet EXCEPT ![t].overlay = on],
         UNCHANGED <<lastSeq, log, txn, overlapped, cut>>
  PROVE  Inv'
<1>1. PICK q \in Page : q = tablet[t]
  BY DEF Inv, Types
<1>2. PICK p : p = [q EXCEPT !.overlay = on]
  OBVIOUS
<1>3. p \in Page /\ tablet' = [tablet EXCEPT ![t] = p]
  BY <1>1, <1>2 DEF Page
<1>4. /\ p.link = q.link /\ p.after = q.after /\ p.replay = q.replay /\ p.queue = q.queue
      /\ p.cursor = q.cursor /\ p.due = q.due /\ p.asked = q.asked /\ p.shown = q.shown
      /\ p.seen = q.seen /\ p.since = q.since /\ p.hidden = q.hidden /\ p.newest = q.newest
  BY <1>1, <1>2 DEF Page
<1>5. Past(p) /\ Fresh(p)
  <2>1. Past(q) /\ Fresh(q)
    BY <1>1 DEF Inv
  <2> QED
    BY <1>4, <2>1 DEF Past, Fresh, Covers
<1> QED
  BY <1>1, <1>3, <1>4, <1>5, BoardStep DEF SameSocket

\* A refetch begins: it will read all that is committed.
LEMMA AskStep ==
  ASSUME EventStreamAssumption, Inv, NEW t \in Tablets, NEW r \in Page, Ask(t, r),
         NEW q, q = tablet[t], SameSocket(r, q), r.asked = q.asked, r.shown = q.shown
  PROVE  Inv'
<1>1. PICK asked : asked = Append(r.asked, Unread)
  OBVIOUS
<1>2. PICK p : p = [r EXCEPT !.asked = asked, !.newest = "under way", !.hidden = FALSE]
  OBVIOUS
<1>3. /\ tablet' = [tablet EXCEPT ![t] = p]
      /\ UNCHANGED <<lastSeq, log, txn, overlapped, cut>>
  BY <1>1, <1>2 DEF Ask, Asking
<1>4. r.asked \in Seq(Known) /\ Unread \in Known
  BY DEF Page, Known
<1>5. /\ asked \in Seq(Known) /\ asked[Len(asked)] = Unread
      /\ \A k \in DOMAIN asked : asked[k] = Unread \/ (k \in DOMAIN r.asked /\ asked[k] = r.asked[k])
  BY <1>1, <1>4
<1>6. p \in Page
  BY <1>2, <1>5 DEF Page
<1>7. /\ SameSocket(p, q) /\ p.since = q.since /\ p.shown = q.shown
      /\ p.asked = asked /\ p.newest = "under way"
  BY <1>2 DEF Page, SameSocket
<1>8. Past(p)
  <2>1. Past(q) /\ Len(log) \in Nat
    BY DEF Inv, Types
  <2>2. \A k \in DOMAIN asked : asked[k] = Unread \/ asked[k] <= Len(log)
    BY <1>5, <2>1 DEF Past
  <2> QED
    BY <1>7, <2>1, <2>2 DEF Past
<1>9. Fresh(p)
  BY <1>5, <1>7 DEF Fresh, Covers
<1> QED
  BY <1>3, <1>6, <1>7, <1>8, <1>9, BoardStep

\* The ways a refetch begins.
LEMMA RefetchStep ==
  ASSUME EventStreamAssumption, Inv, NEW t \in Tablets,
         Refresh(t) \/ Poll(t) \/ CloseModal(t)
  PROVE  Inv'
<1>1. PICK q \in Page : q = tablet[t]
  BY DEF Inv, Types
<1>2. PICK due, left, r :
        /\ due \in BOOLEAN /\ left \in BOOLEAN
        /\ r = [q EXCEPT !.due = due, !.overlay = left] /\ Ask(t, r)
  <2>1. CASE Refresh(t)
    <3>1. q.overlay \in BOOLEAN /\ [q EXCEPT !.due = FALSE]
            = [q EXCEPT !.due = FALSE, !.overlay = q.overlay]
      BY DEF Page
    <3> QED
      BY <1>1, <2>1, <3>1 DEF Refresh
  <2>2. CASE Poll(t)
    <3>1. /\ q.due \in BOOLEAN /\ q.overlay \in BOOLEAN
          /\ q = [q EXCEPT !.due = q.due, !.overlay = q.overlay]
      BY DEF Page
    <3> QED
      BY <1>1, <2>2, <3>1 DEF Poll
  <2>3. CASE CloseModal(t)
    <3>1. PICK left \in BOOLEAN : Ask(t, [q EXCEPT !.overlay = left])
      BY <1>1, <2>3 DEF CloseModal
    <3>2. q.due \in BOOLEAN /\ [q EXCEPT !.overlay = left]
            = [q EXCEPT !.due = q.due, !.overlay = left]
      BY DEF Page
    <3> QED
      BY <3>1, <3>2
  <2> QED
    BY <2>1, <2>2, <2>3
<1>3. r \in Page /\ SameSocket(r, q) /\ r.asked = q.asked /\ r.shown = q.shown
  BY <1>2 DEF Page, SameSocket
<1>4. Ask(t, r)
  BY <1>2
<1> QED
  BY <1>1, <1>3, <1>4, AskStep, Zenon

\* The server reads all of the log for a refetch.
LEMMA ReadFloorStep ==
  ASSUME EventStreamAssumption, Inv, NEW t \in Tablets, ReadFloor(t)
  PROVE  Inv'
<1>1. PICK q \in Page : q = tablet[t]
  BY DEF Inv, Types
<1>2. PICK k \in DOMAIN q.asked : tablet' = [tablet EXCEPT ![t].asked[k] = Len(log)]
  BY <1>1 DEF ReadFloor
<1>3. PICK asked : asked = [q.asked EXCEPT ![k] = Len(log)]
  OBVIOUS
<1>4. PICK p : p = [q EXCEPT !.asked = asked]
  OBVIOUS
<1>5. /\ tablet' = [tablet EXCEPT ![t] = p]
      /\ UNCHANGED <<lastSeq, log, txn, overlapped, cut>>
  BY <1>1, <1>2, <1>3, <1>4 DEF ReadFloor, Page, Inv, Types
<1>6. q.asked \in Seq(Known) /\ Len(log) \in Known /\ Len(log) \in Nat
      /\ DOMAIN log = 1 .. Len(log)
  <2>1. q.asked \in Seq(Known)
    BY DEF Page
  <2>2. log \in Seq(Seqs)
    BY DEF Inv, Types
  <2>3. Len(log) \in Nat /\ DOMAIN log = 1 .. Len(log)
    BY <2>2
  <2> QED
    BY <2>1, <2>3 DEF Known
<1>7. /\ asked \in Seq(Known) /\ Len(asked) = Len(q.asked) /\ DOMAIN asked = DOMAIN q.asked
      /\ \A j \in DOMAIN asked : asked[j] = IF j = k THEN Len(log) ELSE q.asked[j]
  <2>1. PICK old, n : old = q.asked /\ n = Len(log) /\ old \in Seq(Known) /\ n \in Known
    BY <1>6
  <2>2. asked = [old EXCEPT ![k] = n] /\ k \in DOMAIN old
    BY <1>2, <1>3, <2>1
  <2>3. asked \in Seq(Known) /\ Len(asked) = Len(old) /\ DOMAIN asked = DOMAIN old
    BY <2>1, <2>2
  <2> QED
    BY <2>1, <2>2, <2>3
<1>8. p \in Page
  BY <1>1, <1>4, <1>7 DEF Page
<1>9. /\ p.link = q.link /\ p.after = q.after /\ p.replay = q.replay /\ p.queue = q.queue
      /\ p.cursor = q.cursor /\ p.due = q.due /\ p.shown = q.shown /\ p.seen = q.seen
      /\ p.since = q.since /\ p.hidden = q.hidden /\ p.newest = q.newest /\ p.asked = asked
  BY <1>1, <1>4 DEF Page
<1>10. Past(q) /\ Fresh(q)
  BY <1>1 DEF Inv
<1>11. Past(p)
  <2>1. \A j \in DOMAIN asked : asked[j] = Unread \/ asked[j] <= Len(log)
    BY <1>6, <1>7, <1>10 DEF Past
  <2> QED
    BY <1>9, <1>10, <2>1 DEF Past
<1>12. Fresh(p)
  <2> SUFFICES ASSUME p.link # "down", p.queue = <<>>, p.replay = <<>>, ~p.due, ~p.hidden,
                      NEW i \in DOMAIN log, i > p.since, log[i] \notin Unpublished
               PROVE  Covers(p, i)
    BY DEF Fresh
  <2>1. Covers(q, i)
    BY <1>9, <1>10 DEF Fresh
  <2>2. CASE Len(q.asked) = k
    <3>1. asked[Len(asked)] = Len(log) /\ i <= Len(log)
      BY <1>2, <1>6, <1>7, <2>2
    <3> QED
      BY <1>9, <2>1, <3>1 DEF Covers
  <2>3. CASE Len(q.asked) # k
    <3>1. asked[Len(asked)] = q.asked[Len(q.asked)]
      <4>1. Len(q.asked) \in DOMAIN q.asked
        BY <1>2, <1>6
      <4> QED
        BY <1>7, <2>3, <4>1
    <3> QED
      BY <1>9, <2>1, <3>1 DEF Covers
  <2> QED
    BY <2>2, <2>3
<1> QED
  BY <1>1, <1>5, <1>8, <1>9, <1>11, <1>12, BoardStep DEF SameSocket

\* Without its k-th element a sequence has the others, and its last one if that is another.
LEMMA Without ==
  ASSUME NEW T, NEW s \in Seq(T), NEW k \in DOMAIN s
  PROVE  /\ RemoveAt(s, k) \in Seq(T)
         /\ \A j \in DOMAIN RemoveAt(s, k) : \E i \in DOMAIN s : RemoveAt(s, k)[j] = s[i]
         /\ k # Len(s) => RemoveAt(s, k)[Len(RemoveAt(s, k))] = s[Len(s)]
<1>1. PICK u, n, a, b : /\ u = RemoveAt(s, k) /\ n = Len(s)
                        /\ a = SubSeq(s, 1, k - 1) /\ b = SubSeq(s, k + 1, n)
  OBVIOUS
<1>2. n \in Nat /\ DOMAIN s = 1 .. n /\ k \in 1 .. n /\ u = a \o b
  BY <1>1 DEF RemoveAt
<1>3. /\ a \in Seq(T) /\ Len(a) = k - 1
      /\ \A j \in 1 .. k - 1 : a[j] = s[j]
  BY <1>1, <1>2
<1>4. /\ b \in Seq(T) /\ Len(b) = n - k
      /\ \A j \in 1 .. n - k : b[j] = s[k + j]
  <2>0. k + 1 \in 1 .. n + 1
    BY <1>2
  <2>1. PICK m \in 1 .. n + 1 : m = k + 1 /\ b = SubSeq(s, m, n)
    BY <1>1, <2>0, Zenon
  <2>2. /\ b \in Seq(T) /\ Len(b) = IF m <= n THEN n - m + 1 ELSE 0
        /\ \A j \in 1 .. n - m + 1 : b[j] = s[m + j - 1]
    <3>1. \A j \in m .. n : s[j] \in T
      BY <1>2, <2>1
    <3> QED
      BY SMTT(30), <1>2, <2>1, <3>1, SubSeqProperties
  <2> QED
    BY <1>2, <2>1, <2>2
<1>5. /\ u \in Seq(T) /\ Len(u) = n - 1 /\ DOMAIN u = 1 .. n - 1
      /\ \A j \in 1 .. n - 1 : u[j] = IF j <= k - 1 THEN a[j] ELSE b[j - (k - 1)]
  <2>1. PICK m \in Nat : m = k - 1 /\ Len(a) = m /\ Len(a) + Len(b) = n - 1
    BY <1>2, <1>3, <1>4
  <2>2. /\ u \in Seq(T) /\ Len(u) = n - 1
        /\ \A j \in 1 .. n - 1 : u[j] = IF j <= m THEN a[j] ELSE b[j - m]
    <3>1. a \in Seq(T) /\ b \in Seq(T) /\ u = a \o b
      BY <1>2, <1>3, <1>4
    <3>2. /\ a \o b \in Seq(T) /\ Len(a \o b) = Len(a) + Len(b)
          /\ \A j \in 1 .. Len(a) + Len(b) :
               (a \o b)[j] = IF j <= Len(a) THEN a[j] ELSE b[j - Len(a)]
      BY <3>1, ConcatProperties, Zenon
    <3> QED
      BY <2>1, <3>1, <3>2
  <2>3. DOMAIN u = 1 .. n - 1
    BY <2>2
  <2> QED
    BY <2>1, <2>2, <2>3
<1>6. ASSUME NEW j \in 1 .. n - 1
      PROVE  u[j] = IF j <= k - 1 THEN s[j] ELSE s[j + 1]
  <2>1. CASE j <= k - 1
    <3>1. j \in 1 .. k - 1
      BY <1>2, <2>1
    <3> QED
      BY <1>3, <1>5, <2>1, <3>1
  <2>2. CASE ~(j <= k - 1)
    <3>1. j - (k - 1) \in 1 .. n - k /\ k + (j - (k - 1)) = j + 1
      BY <1>2, <2>2
    <3>2. b[j - (k - 1)] = s[k + (j - (k - 1))]
      BY <1>4, <3>1
    <3> QED
      BY <1>5, <2>2, <3>1, <3>2
  <2> QED
    BY <2>1, <2>2
<1>7. \A j \in DOMAIN u : \E i \in DOMAIN s : u[j] = s[i]
  <2> SUFFICES ASSUME NEW j \in 1 .. n - 1 PROVE \E i \in DOMAIN s : u[j] = s[i]
    BY <1>5
  <2>1. j \in DOMAIN s /\ j + 1 \in DOMAIN s
    BY <1>2
  <2> QED
    BY <1>6, <2>1
<1>8. ASSUME k # n PROVE u[n - 1] = s[n]
  <2>1. n - 1 \in 1 .. n - 1 /\ ~(n - 1 <= k - 1) /\ n - 1 + 1 = n
    BY <1>2, <1>8
  <2> QED
    BY <1>6, <2>1
<1> QED
  BY <1>1, <1>5, <1>7, <1>8

\* A refetch ends with its answer on the board, or with the board as it was.
LEMMA EndStep ==
  ASSUME EventStreamAssumption, Inv, NEW t \in Tablets, Render(t) \/ FailRefetch(t)
  PROVE  Inv'
<1>1. PICK q \in Page : q = tablet[t]
  BY DEF Inv, Types
<1>2. PICK k, p :
        /\ k \in DOMAIN q.asked /\ tablet' = [tablet EXCEPT ![t] = p]
        /\ (p = Rendered(q, k) /\ q.asked[k] # Unread) \/ p = Failed(q, k)
  <2>1. CASE Render(t)
    <3>1. PICK k \in DOMAIN q.asked : /\ q.asked[k] # Unread
                                      /\ tablet' = [tablet EXCEPT ![t] = Rendered(@, k)]
      BY <1>1, <2>1 DEF Render
    <3>2. tablet' = [tablet EXCEPT ![t] = Rendered(q, k)]
      BY <1>1, <3>1
    <3> QED
      BY <3>1, <3>2
  <2>2. CASE FailRefetch(t)
    <3>1. PICK k \in DOMAIN q.asked : tablet' = [tablet EXCEPT ![t] = Failed(@, k)]
      BY <1>1, <2>2 DEF FailRefetch
    <3>2. tablet' = [tablet EXCEPT ![t] = Failed(q, k)]
      BY <1>1, <3>1
    <3> QED
      BY <3>2
  <2> QED
    BY <2>1, <2>2
<1>3. UNCHANGED <<lastSeq, log, txn, overlapped, cut>>
  BY DEF Render, FailRefetch
<1>4. PICK rest : rest = RemoveAt(q.asked, k)
  OBVIOUS
<1>5. q.asked \in Seq(Known) /\ q.shown \in Nat /\ (q.asked[k] # Unread => q.asked[k] \in Nat)
  <2>1. q.asked \in Seq(Known) /\ q.shown \in Nat
    BY <1>1 DEF Page
  <2> QED
    BY <1>2, <2>1 DEF Known
<1>6. /\ rest \in Seq(Known)
      /\ \A j \in DOMAIN rest : \E i \in DOMAIN q.asked : rest[j] = q.asked[i]
      /\ k # Len(q.asked) => rest[Len(rest)] = q.asked[Len(q.asked)]
  BY <1>2, <1>4, <1>5, Without
<1>7. PICK shown, newest :
        /\ p = [q EXCEPT !.asked = rest, !.shown = shown, !.newest = newest]
        /\ shown \in {q.asked[k], q.shown} /\ shown # Unread
        /\ newest \in {"under way", "shown", "lost"}
        /\ \/ newest = "lost"
           \/ newest = "shown" /\ q.newest = "shown" /\ shown >= q.shown
           \/ newest = "under way" /\ q.newest = "under way" /\ k # Len(q.asked)
           \/ /\ newest = "shown" /\ q.newest = "under way" /\ k = Len(q.asked)
              /\ shown = q.asked[k]
  <2>1. Unread \notin Nat
    BY DEF EventStreamAssumption
  <2>0. q.newest \in {"under way", "shown", "lost"}
    BY DEF Page
  <2>2. CASE p = Failed(q, k)
    <3>1. PICK newest : newest = IF IsNewest(q, k) THEN "lost" ELSE q.newest
      OBVIOUS
    <3>2. p = [q EXCEPT !.asked = rest, !.shown = q.shown, !.newest = newest]
      BY <1>4, <2>2, <3>1 DEF Failed, Page
    <3>3. q.shown >= q.shown
      BY <1>5
    <3> QED
      BY <1>5, <2>0, <2>1, <3>1, <3>2, <3>3 DEF IsNewest
  <2>3. CASE p = Rendered(q, k) /\ q.asked[k] # Unread
    <3>1. PICK newest :
            newest = IF IsNewest(q, k) THEN "shown"
                     ELSE IF q.newest = "shown" /\ q.asked[k] < q.shown THEN "lost"
                     ELSE q.newest
      OBVIOUS
    <3>2. p = [q EXCEPT !.asked = rest, !.shown = q.asked[k], !.newest = newest]
      BY <1>4, <2>3, <3>1 DEF Rendered
    <3>3. ~(q.asked[k] < q.shown) => q.asked[k] >= q.shown
      BY <1>5, <2>3
    <3> QED
      BY <2>0, <2>3, <3>1, <3>2, <3>3 DEF IsNewest
  <2> QED
    BY <1>2, <2>2, <2>3
<1>8. shown \in Nat /\ p \in Page
  <2>1. shown \in Nat
    BY <1>5, <1>7
  <2> QED
    BY <1>1, <1>6, <1>7, <2>1 DEF Page
<1>9. /\ p.link = q.link /\ p.after = q.after /\ p.replay = q.replay /\ p.queue = q.queue
      /\ p.cursor = q.cursor /\ p.due = q.due /\ p.seen = q.seen /\ p.since = q.since
      /\ p.hidden = q.hidden
      /\ p.asked = rest /\ p.shown = shown /\ p.newest = newest
  BY <1>1, <1>7 DEF Page
<1>10. Past(q) /\ Fresh(q)
  BY <1>1 DEF Inv
<1>11. Past(p)
  <2>1. shown <= Len(log)
    BY <1>2, <1>7, <1>10 DEF Past
  <2>2. \A j \in DOMAIN rest : rest[j] = Unread \/ rest[j] <= Len(log)
    BY <1>6, <1>10 DEF Past
  <2> QED
    BY <1>9, <1>10, <2>1, <2>2 DEF Past
<1>12. Fresh(p)
  <2> SUFFICES ASSUME p.link # "down", p.queue = <<>>, p.replay = <<>>, ~p.due, ~p.hidden,
                      NEW i \in DOMAIN log, i > p.since, log[i] \notin Unpublished
               PROVE  Covers(p, i)
    BY DEF Fresh
  <2>1. Covers(q, i)
    BY <1>9, <1>10 DEF Fresh
  <2>2. i \in Nat
    BY DEF Inv, Types
  <2>3. CASE newest = "lost"
    BY <1>9, <2>3 DEF Covers
  <2>4. CASE newest = "shown" /\ q.newest = "shown" /\ shown >= q.shown
    <3>1. i <= q.shown
      BY <2>1, <2>4 DEF Covers
    <3>2. i <= shown
      BY <1>5, <1>8, <2>2, <2>4, <3>1
    <3> QED
      BY <1>9, <2>4, <3>2 DEF Covers
  <2>5. CASE newest = "under way" /\ q.newest = "under way" /\ k # Len(q.asked)
    BY <1>6, <1>9, <2>1, <2>5 DEF Covers
  <2>6. CASE /\ newest = "shown" /\ q.newest = "under way" /\ k = Len(q.asked)
             /\ shown = q.asked[k]
    BY <1>7, <1>9, <2>1, <2>6 DEF Covers
  <2> QED
    BY <1>7, <2>3, <2>4, <2>5, <2>6
<1> QED
  BY <1>1, <1>2, <1>3, <1>8, <1>9, <1>11, <1>12, BoardStep DEF SameSocket

\* A connection breaks.
LEMMA DownPage ==
  ASSUME EventStreamAssumption, Inv, NEW t \in Tablets, NEW p, p = Down(tablet[t])
  PROVE  /\ p \in Page /\ p.link = "down" /\ p.queue = <<>> /\ ToSet(p.queue) = {}
         /\ Sound(p) /\ Past(p) /\ Fresh(p) /\ (~overlapped => CaughtUp(p, cut[t]))
<1>1. PICK q \in Page : q = tablet[t]
  BY DEF Inv, Types
<1>2. p = [q EXCEPT !.link = "down", !.replay = <<>>, !.queue = <<>>]
  BY <1>1 DEF Down
<1>3. /\ p.link = "down" /\ p.after = q.after /\ p.replay = <<>>
      /\ p.queue = <<>> /\ p.cursor = q.cursor /\ p.seen = q.seen
      /\ p.since = q.since /\ p.asked = q.asked /\ p.shown = q.shown
  BY <1>1, <1>2 DEF Page
<1>4. p \in Page
  <2>1. <<>> \in Seq(Seqs)
    OBVIOUS
  <2> QED
    BY <1>1, <1>2, <2>1 DEF Page
<1>5. Sound(q) /\ Past(q) /\ (~overlapped => CaughtUp(q, cut[t]))
  BY <1>1 DEF Inv, Serial
<1>6. ToSet(<<>>) = {} /\ Ascending(<<>>)
  BY DEF ToSet, Ascending
<1>7. Sound(p) /\ Past(p)
  BY <1>3, <1>5, <1>6 DEF Sound, Past
<1>8. ~overlapped => CaughtUp(p, cut[t])
  BY <1>3, <1>5, <1>6 DEF CaughtUp, Owed
<1> QED
  BY <1>3, <1>4, <1>6, <1>7, <1>8 DEF Fresh

\* It does so for one tablet.
LEMMA DropStep ==
  ASSUME EventStreamAssumption, Inv, NEW t \in Tablets, Drop(t)
  PROVE  Inv'
<1>1. PICK p : p = Down(tablet[t])
  OBVIOUS
<1>2. /\ tablet' = [tablet EXCEPT ![t] = p] /\ cut' = [cut EXCEPT ![t] = cut[t]]
      /\ UNCHANGED <<lastSeq, log, txn, overlapped>> /\ cut[t] \in SUBSET Seqs
  BY <1>1 DEF Drop, Inv, Types
<1>3. /\ p \in Page /\ ToSet(p.queue) = {}
      /\ Sound(p) /\ Past(p) /\ Fresh(p) /\ (~overlapped => CaughtUp(p, cut[t]))
  BY <1>1, DownPage
<1> QED
  BY <1>2, <1>3, PageStep

-----------------------------------------------------------------------------
(***************************************************************************)
(* Every step preserves the invariant: the requests.                       *)
(***************************************************************************)

\* A sequence with one more element at its end.
LEMMA OneMore ==
  ASSUME NEW T \in SUBSET Nat, NEW s \in Seq(T), NEW e \in T
  PROVE  /\ Append(s, e) \in Seq(T)
         /\ ToSet(Append(s, e)) = ToSet(s) \cup {e}
         /\ Ascending(s) /\ (\A d \in ToSet(s) : d < e) => Ascending(Append(s, e))
<1>1. PICK u, n : u = Append(s, e) /\ n = Len(s)
  OBVIOUS
<1>2. /\ u \in Seq(T) /\ n \in Nat /\ DOMAIN s = 1 .. n /\ DOMAIN u = 1 .. n + 1
      /\ \A i \in 1 .. n : u[i] = s[i]
      /\ u[n + 1] = e
  BY <1>1
<1>3. \A i \in 1 .. n + 1 : i \in 1 .. n \/ i = n + 1
  BY <1>2
<1>4. n + 1 \in 1 .. n + 1 /\ 1 .. n \subseteq 1 .. n + 1
  BY <1>2
<1>5. ToSet(u) = ToSet(s) \cup {e}
  BY <1>2, <1>3, <1>4 DEF ToSet
<1>6. ASSUME Ascending(s), \A d \in ToSet(s) : d < e PROVE Ascending(u)
  <2> SUFFICES ASSUME NEW i \in DOMAIN u, NEW j \in DOMAIN u, i < j PROVE u[i] < u[j]
    BY DEF Ascending
  <2>1. i \in 1 .. n
    BY <1>2
  <2>2. CASE j \in 1 .. n
    BY <1>2, <1>6, <2>1, <2>2 DEF Ascending
  <2>3. CASE j = n + 1
    BY <1>2, <1>6, <2>1, <2>3 DEF ToSet
  <2> QED
    BY <1>2, <1>3, <2>2, <2>3
<1> QED
  BY <1>1, <1>2, <1>5, <1>6

\* A request takes a step that the log and the tablets do not see.
LEMMA UnseenStep ==
  ASSUME EventStreamAssumption, Inv, UNCHANGED <<log, tablet, cut>>,
         Types', Numbered', Unpublished' = Unpublished,
         ~overlapped' => ~overlapped /\ OneByOne'
  PROVE  Inv'
<1>1. Committed' = Committed
  BY DEF Committed
<1>2. ASSUME NEW t \in Tablets PROVE (Sound(tablet[t]) /\ Past(tablet[t]) /\ Fresh(tablet[t]))'
  BY <1>1 DEF Inv, Sound, Past, Fresh, Covers
<1>3. ASSUME ~overlapped', NEW t \in Tablets PROVE CaughtUp(tablet[t], cut[t])'
  BY <1>1, <1>3 DEF Inv, Serial, CaughtUp, Owed
<1> QED
  BY <1>2, <1>3 DEF Inv, Serial

\* The next number is above all others.
LEMMA RecordEventStep ==
  ASSUME EventStreamAssumption, Inv, NEW w \in Writers, RecordEvent(w)
  PROVE  Inv'
<1>1. PICK b, e, r : /\ b = txn[w].buffer /\ e = lastSeq + 1
                     /\ r = [phase |-> "open", buffer |-> Append(b, e)]
  OBVIOUS
<1>2. /\ txn[w].phase \in {"idle", "open"} /\ lastSeq < MaxSeq /\ lastSeq' = e
      /\ txn' = [txn EXCEPT ![w] = r]
      /\ overlapped' = (overlapped \/ \E x \in Writers \ {w} : txn[x].phase # "idle")
      /\ UNCHANGED <<log, tablet, cut>>
  BY <1>1 DEF RecordEvent, Inv, Types
<1>3. Types /\ Numbered /\ (~overlapped => OneByOne)
  BY DEF Inv, Serial
<1>4. /\ Seqs \in SUBSET Nat /\ Committed \subseteq Seqs /\ b \in Seq(Seqs)
      /\ \A x \in Writers : txn[x].buffer \in Seq(Seqs)
  BY <1>1, <1>3, KnownTypes
<1>5. lastSeq \in Nat /\ e \in Seqs /\ e \in 0..MaxSeq
  BY <1>1, <1>2, <1>3 DEF Types, Seqs, EventStreamAssumption
<1>6. /\ Append(b, e) \in Seq(Seqs) /\ ToSet(Append(b, e)) = ToSet(b) \cup {e}
      /\ Ascending(b) /\ (\A d \in ToSet(b) : d < e) => Ascending(Append(b, e))
  BY <1>4, <1>5, OneMore
<1>7. r \in Txn /\ r.phase = "open" /\ r.buffer = Append(b, e)
  BY <1>1, <1>6 DEF Txn
<1>8. /\ txn'[w] = r
      /\ \A x \in Writers \ {w} : txn'[x] = txn[x]
  BY <1>2, <1>3 DEF Types
<1>9. Types'
  BY <1>2, <1>3, <1>5, <1>7 DEF Types
<1>10. \A d \in Nat : d <= lastSeq => d < e /\ d <= e
  BY <1>1, <1>5
<1>11. ToSet(b) \subseteq Seqs /\ \A x \in Writers : ToSet(txn[x].buffer) \subseteq Seqs
  BY <1>4 DEF ToSet
<1>12. Committed' = Committed
  BY <1>2 DEF Committed
<1>13. Numbered'
  <2>1. \A d \in Committed' : d <= lastSeq'
    BY <1>2, <1>3, <1>4, <1>10, <1>12 DEF Numbered
  <2>2. ASSUME NEW x \in Writers
        PROVE  /\ \A d \in ToSet(txn'[x].buffer) : d <= lastSeq'
               /\ txn'[x].phase = "idle" => txn'[x].buffer = <<>>
               /\ txn'[x].phase = "committed" => ToSet(txn'[x].buffer) \subseteq Committed'
    <3>1. CASE x = w
      <4>1. \A d \in ToSet(b) : d <= e
        BY <1>1, <1>3, <1>4, <1>10, <1>11 DEF Numbered
      <4>2. e <= e
        BY <1>5, <1>4
      <4>3. txn'[x].phase = "open" /\ ToSet(txn'[x].buffer) = ToSet(b) \cup {e}
        BY <1>6, <1>7, <1>8, <3>1
      <4> QED
        BY <1>2, <4>1, <4>2, <4>3
    <3>2. CASE x # w
      BY <1>2, <1>3, <1>4, <1>8, <1>10, <1>11, <1>12, <3>2 DEF Numbered
    <3> QED
      BY <3>1, <3>2
  <2> QED
    BY <2>1, <2>2 DEF Numbered
<1>14. Unpublished' = Unpublished
  <2>1. \A x \in Writers : txn'[x].phase = "committed" <=> txn[x].phase = "committed"
    BY <1>2, <1>7, <1>8
  <2>2. \A x \in Writers : txn[x].phase = "committed" => txn'[x] = txn[x]
    BY <1>2, <1>8
  <2> QED
    BY <2>1, <2>2 DEF Unpublished
<1>15. ASSUME ~overlapped' PROVE ~overlapped /\ OneByOne'
  <2>1. ~overlapped /\ OneByOne /\ \A x \in Writers \ {w} : txn[x].phase = "idle"
    BY <1>2, <1>3, <1>15
  <2>2. \A x \in Writers : txn'[x].phase # "idle" => x = w
    BY <1>8, <2>1
  <2>3. Ascending(r.buffer)
    BY <1>1, <1>3, <1>4, <1>6, <1>7, <1>10, <1>11, <2>1 DEF OneByOne, Numbered
  <2>4. ASSUME NEW f \in ToSet(r.buffer), NEW d \in Committed PROVE d < f
    <3>1. CASE f = e
      BY <1>3, <1>4, <1>10, <3>1 DEF Numbered
    <3>2. CASE f \in ToSet(b)
      <4>1. txn[w].phase = "open"
        BY <1>1, <1>2, <1>3, <3>2 DEF Numbered, ToSet
      <4> QED
        BY <1>1, <2>1, <3>2, <4>1 DEF OneByOne
    <3> QED
      BY <1>6, <1>7, <3>1, <3>2
  <2>5. ASSUME NEW x \in Writers
        PROVE  /\ Ascending(txn'[x].buffer)
               /\ txn'[x].phase = "open" =>
                    \A f \in ToSet(txn'[x].buffer), d \in Committed' : d < f
               /\ txn'[x].phase # "committed"
    <3>1. CASE x = w
      BY <1>7, <1>8, <1>12, <2>3, <2>4, <3>1
    <3>2. CASE x # w
      BY <1>8, <2>1, <3>2 DEF OneByOne
    <3> QED
      BY <3>1, <3>2
  <2> QED
    BY <2>1, <2>2, <2>5 DEF OneByOne
<1> QED
  BY <1>2, <1>9, <1>13, <1>14, <1>15, UnseenStep

\* A rollback forgets what the request recorded.
LEMMA AbortStep ==
  ASSUME EventStreamAssumption, Inv, NEW w \in Writers, Abort(w)
  PROVE  Inv'
<1>1. /\ txn[w].phase = "open" /\ txn' = [txn EXCEPT ![w] = NoTxn]
      /\ UNCHANGED <<lastSeq, log, tablet, overlapped, cut>>
  BY DEF Abort
<1>2. Types /\ Numbered /\ (~overlapped => OneByOne)
  BY DEF Inv, Serial
<1>3. NoTxn \in Txn /\ NoTxn.phase = "idle" /\ NoTxn.buffer = <<>> /\ ToSet(<<>>) = {}
      /\ Ascending(<<>>)
  <2>1. <<>> \in Seq(Seqs)
    OBVIOUS
  <2> QED
    BY <2>1 DEF NoTxn, Txn, ToSet, Ascending
<1>4. txn'[w] = NoTxn /\ \A x \in Writers \ {w} : txn'[x] = txn[x]
  BY <1>1, <1>2 DEF Types
<1>5. Types'
  BY <1>1, <1>2, <1>3 DEF Types
<1>6. Committed' = Committed
  BY <1>1 DEF Committed
<1>7. Numbered'
  BY <1>1, <1>2, <1>3, <1>4, <1>6 DEF Numbered
<1>8. Unpublished' = Unpublished
  <2>1. \A x \in Writers : txn'[x].phase = "committed" <=> txn[x].phase = "committed"
    BY <1>1, <1>3, <1>4
  <2>2. \A x \in Writers : txn[x].phase = "committed" => txn'[x] = txn[x]
    BY <1>1, <1>4
  <2> QED
    BY <2>1, <2>2 DEF Unpublished
<1>9. ASSUME ~overlapped PROVE OneByOne'
  <2>1. OneByOne
    BY <1>2, <1>9
  <2>2. \A x \in Writers : txn'[x].phase # "idle" => txn'[x] = txn[x]
    BY <1>3, <1>4
  <2>3. \A x \in Writers : Ascending(txn'[x].buffer)
    BY <1>3, <1>4, <2>1 DEF OneByOne
  <2> QED
    BY <1>1, <1>6, <2>1, <2>2, <2>3 DEF OneByOne
<1> QED
  BY <1>1, <1>5, <1>7, <1>8, <1>9, UnseenStep

\* What commits is above all that is in the log, and is still to be published.
LEMMA CommitStep ==
  ASSUME EventStreamAssumption, Inv, NEW w \in Writers, Commit(w)
  PROVE  Inv'
<1>1. PICK b, r : b = txn[w].buffer /\ r = [phase |-> "committed", buffer |-> b]
  OBVIOUS
<1>2. Types /\ Numbered /\ (~overlapped => Serial)
  BY DEF Inv
<1>3. /\ txn[w].phase = "open" /\ log' = log \o b /\ txn' = [txn EXCEPT ![w] = r]
      /\ UNCHANGED <<lastSeq, tablet, overlapped, cut>>
  <2>1. PICK x \in Txn : x = txn[w]
    BY <1>2 DEF Types
  <2>2. [x EXCEPT !.phase = "committed"] = r
    BY <1>1, <2>1 DEF Txn
  <2>3. txn' = [txn EXCEPT ![w] = [x EXCEPT !.phase = "committed"]]
    BY <1>2, <2>1 DEF Commit, Types
  <2> QED
    BY <1>1, <2>2, <2>3 DEF Commit
<1>4. /\ Seqs \in SUBSET Nat /\ Committed \subseteq Seqs /\ b \in Seq(Seqs) /\ log \in Seq(Seqs)
      /\ ToSet(b) \subseteq Seqs
  BY <1>1, <1>2, KnownTypes DEF Types, ToSet
<1>5. txn'[w] = r /\ r \in Txn /\ r.phase = "committed" /\ r.buffer = b
      /\ \A x \in Writers \ {w} : txn'[x] = txn[x]
  BY <1>1, <1>2, <1>3, <1>4 DEF Types, Txn
<1>6. log' \in Seq(Seqs) /\ Committed' = Committed \cup ToSet(b)
  BY <1>3, <1>4, Joined DEF Committed
<1>7. Types'
  BY <1>2, <1>3, <1>5, <1>6 DEF Types
<1>8. Numbered'
  BY <1>1, <1>2, <1>3, <1>5, <1>6 DEF Numbered
<1>9. Unpublished' = Unpublished \cup ToSet(b)
  <2>1. \A x \in Writers \ {w} : /\ txn'[x].phase = txn[x].phase
                                 /\ txn'[x].buffer = txn[x].buffer
    BY <1>5
  <2>2. txn[w].phase # "committed" /\ txn'[w].phase = "committed" /\ txn'[w].buffer = b
    BY <1>3, <1>5
  <2>3. \A e : e \in Unpublished' <=>
          \E x \in Writers : txn'[x].phase = "committed" /\ e \in ToSet(txn'[x].buffer)
    BY DEF Unpublished
  <2>4. \A e : e \in Unpublished <=>
          \E x \in Writers : txn[x].phase = "committed" /\ e \in ToSet(txn[x].buffer)
    BY DEF Unpublished
  <2> QED
    BY <2>1, <2>2, <2>3, <2>4
<1>10. \A i \in DOMAIN log' : (i \in DOMAIN log /\ log'[i] = log[i]) \/ log'[i] \in ToSet(b)
  <2>1. PICK l, m, n : l = log' /\ m = Len(log) /\ n = Len(b)
    OBVIOUS
  <2>2. /\ m \in Nat /\ n \in Nat
        /\ DOMAIN b = 1 .. n /\ DOMAIN log = 1 .. m /\ DOMAIN l = 1 .. m + n
        /\ \A i \in DOMAIN l : l[i] = IF i <= m THEN log[i] ELSE b[i - m]
    BY <1>3, <1>4, <2>1
  <2>3. ASSUME NEW i \in DOMAIN l
        PROVE  (i \in DOMAIN log /\ i <= m) \/ (i - m \in DOMAIN b /\ ~(i <= m))
    <3>1. i \in Nat /\ 1 <= i /\ i <= m + n
      BY <2>2
    <3>2. CASE i <= m
      <4>1. i \in 1 .. m
        BY <2>2, <3>1, <3>2
      <4>2. DOMAIN log = 1 .. m
        BY <2>2
      <4> QED
        BY <3>2, <4>1, <4>2
    <3>3. CASE ~(i <= m)
      <4>1. i - m \in 1 .. n
        BY <2>2, <3>1, <3>3
      <4> QED
        BY <2>2, <3>3, <4>1
    <3> QED
      BY <3>2, <3>3
  <2> QED
    BY <2>1, <2>2, <2>3 DEF ToSet
<1>11. ASSUME NEW t \in Tablets PROVE (Sound(tablet[t]) /\ Past(tablet[t]) /\ Fresh(tablet[t]))'
  <2>1. PICK p : p = tablet[t] /\ p = tablet'[t] /\ Sound(p) /\ Past(p) /\ Fresh(p) /\ p \in Page
    BY <1>2, <1>3 DEF Inv, Types
  <2>2. Sound(p)'
    BY <1>6, <2>1 DEF Sound
  <2>3. Fresh(p)'
    BY <1>9, <1>10, <2>1 DEF Fresh, Covers
  <2>4. Past(p)'
    <3>1. PICK m, n : m = Len(log) /\ n = Len(log')
      OBVIOUS
    <3>2. m \in Nat /\ n \in Nat /\ m <= n
      BY <1>3, <1>4, <3>1
    <3>3. /\ p.since \in Nat /\ p.shown \in Nat
          /\ \A k \in DOMAIN p.asked : p.asked[k] = Unread \/ p.asked[k] \in Nat
      <4>1. p.since \in Nat /\ p.shown \in Nat /\ p.asked \in Seq(Known)
        BY <2>1 DEF Page
      <4> QED
        BY <4>1 DEF Known
    <3>4. \A x \in Nat : x <= m => x <= n
      BY <3>2
    <3> QED
      BY <2>1, <3>1, <3>3, <3>4 DEF Past
  <2> QED
    BY <2>1, <2>2, <2>3, <2>4
<1>12. ASSUME ~overlapped PROVE Serial'
  <2>1. OneByOne /\ \A t \in Tablets : CaughtUp(tablet[t], cut[t]) /\ Sound(tablet[t])
    BY <1>2, <1>12 DEF Inv, Serial
  <2>2. \A e \in ToSet(b), d \in Committed : d < e
    BY <1>1, <1>3, <2>1 DEF OneByOne
  <2>3. \A x \in Writers : x # w => txn'[x].phase = "idle"
    BY <1>3, <1>5, <2>1 DEF OneByOne
  <2>4. \A x \in Writers : Ascending(txn'[x].buffer)
    BY <1>1, <1>5, <2>1 DEF OneByOne
  <2>5. OneByOne'
    <3>1. \A x \in Writers : txn'[x].phase # "open"
      BY <1>5, <2>3
    <3>2. \A e \in ToSet(b), t \in Tablets : \A q \in ToSet(tablet'[t].queue) : q < e
      BY <1>3, <2>1, <2>2 DEF Sound
    <3>3. \A x \in Writers : txn'[x].phase # "idle" => x = w
      BY <2>3
    <3> QED
      BY <1>5, <2>4, <3>1, <3>2, <3>3 DEF OneByOne
  <2>6. ASSUME NEW t \in Tablets PROVE CaughtUp(tablet[t], cut[t])'
    <3>1. PICK p, c : /\ p = tablet[t] /\ p = tablet'[t] /\ c = cut[t] /\ c = cut'[t]
                      /\ CaughtUp(p, c) /\ Sound(p) /\ p \in Page
      BY <1>2, <1>3, <2>1 DEF Types
    <3>2. Owed(p, c)' \subseteq Owed(p, c) \cup ToSet(b)
      BY <1>6 DEF Owed
    <3>3. \A e \in ToSet(b) : e > p.cursor /\ \A q \in ToSet(p.replay) : q < e
      <4>1. \A e \in ToSet(b) : e > 0
        BY <1>4 DEF Seqs, EventStreamAssumption
      <4>2. p.cursor \in Nat
          <5>1. p.cursor \in 0..MaxSeq
          BY <3>1 DEF Page
        <5> QED
          BY <5>1 DEF EventStreamAssumption
      <4> QED
        BY <1>4, <2>2, <3>1, <4>1, <4>2 DEF Sound
    <3>4. CaughtUp(p, c)'
      BY <1>9, <3>1, <3>2, <3>3 DEF CaughtUp
    <3> QED
      BY <3>1, <3>4
  <2> QED
    BY <2>5, <2>6 DEF Serial
<1> QED
  BY <1>3, <1>7, <1>8, <1>11, <1>12 DEF Inv

\* Sound, Past, Fresh and CaughtUp of a page when rest is still to be published.
KeptBut(q, c, rest) ==
  /\ q \in Page /\ Sound(q) /\ Past(q) /\ c \in SUBSET Seqs
  /\ q.link # "down" /\ q.queue = <<>> /\ q.replay = <<>> /\ ~q.due /\ ~q.hidden =>
       \A i \in DOMAIN log : i > q.since => Covers(q, i) \/ log[i] \in rest
  /\ ~overlapped =>
       /\ \A e \in Owed(q, c) : e > q.cursor
       /\ Ascending(q.replay) /\ Ascending(q.queue)
       /\ q.link = "live" =>
            /\ Owed(q, c) \subseteq ToSet(q.replay) \cup ToSet(q.queue) \cup rest
            /\ \A e \in Owed(q, c) \ ToSet(q.replay) : \A r \in ToSet(q.replay) : r < e

\* The events of a committed request go to the queue of a connected page: those evicted are
\* cut, and a page that is sent any will refetch.
LEMMA PublishedPage ==
  ASSUME EventStreamAssumption, Inv, NEW w \in Writers, txn[w].phase = "committed",
         NEW t \in Tablets, NEW p \in Page, p = tablet[t], p.link # "down",
         NEW b \in Seq(Seqs), b = txn[w].buffer,
         NEW q, q = [p EXCEPT !.queue = PutAll(@, b)],
         NEW c, c = cut[t] \cup (ToSet(p.queue \o b) \ ToSet(q.queue)),
         NEW rest, Unpublished \subseteq rest \cup ToSet(b)
  PROVE  KeptBut(q, c, rest)
<1>1. Types /\ Numbered /\ Sound(p) /\ Past(p) /\ Fresh(p)
      /\ (~overlapped => OneByOne /\ CaughtUp(p, cut[t]))
  BY DEF Inv, Serial
<1>2. /\ Seqs \in SUBSET Nat /\ Committed \subseteq Seqs /\ p.queue \in Seq(Seqs)
      /\ p.replay \in Seq(Seqs) /\ cut[t] \in SUBSET Seqs
  BY <1>1, KnownTypes
<1>3. PICK old, new : old = p.queue /\ new = PutAll(old, b)
  OBVIOUS
<1>4. /\ q.link = p.link /\ q.after = p.after /\ q.replay = p.replay /\ q.queue = new
      /\ q.cursor = p.cursor /\ q.due = p.due /\ q.asked = p.asked /\ q.shown = p.shown
      /\ q.seen = p.seen /\ q.since = p.since /\ q.hidden = p.hidden /\ q.newest = p.newest
  BY <1>3 DEF Page
<1>5. /\ new \in Seq(Seqs) /\ ToSet(new) \subseteq ToSet(old) \cup ToSet(b)
      /\ old \o b # <<>> => new # <<>>
      /\ Ascending(old \o b) => Ascending(new)
  BY <1>2, <1>3, PutAllKeeps
<1>6. /\ ToSet(old \o b) = ToSet(old) \cup ToSet(b)
      /\ old \o b = <<>> => old = <<>> /\ b = <<>>
      /\ Ascending(old) /\ Ascending(b) /\ (\A x \in ToSet(old), y \in ToSet(b) : x < y)
           => Ascending(old \o b)
  <2>1. PICK T \in SUBSET Nat : T = Seqs /\ old \in Seq(T) /\ b \in Seq(T)
    BY <1>2, <1>3
  <2> QED
    BY <2>1, Joined
<1>7. q \in Page
  BY <1>3, <1>5 DEF Page
<1>8. c \in SUBSET Seqs
  <2>1. ToSet(old) \subseteq Seqs /\ ToSet(b) \subseteq Seqs
    BY <1>2, <1>3 DEF ToSet
  <2> QED
    BY <1>2, <1>3, <1>6, <2>1
<1>9. Sound(q) /\ Past(q)
  <2>1. ToSet(b) \subseteq Committed
    BY <1>1 DEF Numbered
  <2> QED
    BY <1>1, <1>3, <1>4, <1>5, <2>1 DEF Sound, Past
<1>10. ASSUME q.link # "down", q.queue = <<>>, q.replay = <<>>, ~q.due, ~q.hidden
       PROVE  \A i \in DOMAIN log : i > q.since => Covers(q, i) \/ log[i] \in rest
  <2>1. old = <<>> /\ ToSet(b) = {}
    BY <1>4, <1>5, <1>6, <1>10 DEF ToSet
  <2> QED
    BY <1>1, <1>3, <1>4, <1>10, <2>1 DEF Fresh, Covers
<1>11. ASSUME ~overlapped
       PROVE  /\ \A e \in Owed(q, c) : e > q.cursor
              /\ Ascending(q.replay) /\ Ascending(q.queue)
              /\ q.link = "live" =>
                   /\ Owed(q, c) \subseteq ToSet(q.replay) \cup ToSet(q.queue) \cup rest
                   /\ \A e \in Owed(q, c) \ ToSet(q.replay) : \A r \in ToSet(q.replay) : r < e
  <2>1. OneByOne /\ CaughtUp(p, cut[t])
    BY <1>1, <1>11
  <2>2. Owed(q, c) \subseteq Owed(p, cut[t])
    BY <1>4 DEF Owed
  <2>3. Ascending(new)
    <3>1. Ascending(old) /\ Ascending(b)
      BY <1>3, <2>1 DEF CaughtUp, OneByOne
    <3>2. \A x \in ToSet(old), y \in ToSet(b) : x < y
      BY <1>3, <2>1 DEF OneByOne
    <3> QED
      BY <1>5, <1>6, <3>1, <3>2
  <2>4. ASSUME q.link = "live"
        PROVE  Owed(q, c) \subseteq ToSet(q.replay) \cup ToSet(q.queue) \cup rest
    <3>1. Owed(q, c) \subseteq ToSet(p.replay) \cup ToSet(old) \cup ToSet(b) \cup rest
      BY <1>3, <1>4, <2>1, <2>2, <2>4 DEF CaughtUp
    <3>2. \A e \in Owed(q, c) : e \in ToSet(old) \cup ToSet(b) => e \in ToSet(new)
      BY <1>3, <1>4, <1>6 DEF Owed
    <3> QED
      BY <1>4, <3>1, <3>2
  <2> QED
    BY <1>4, <2>1, <2>2, <2>3, <2>4 DEF CaughtUp
<1> QED
  BY <1>7, <1>8, <1>9, <1>10, <1>11 DEF KeptBut

\* They go to all of them at once.
LEMMA PublishStep ==
  ASSUME EventStreamAssumption, Inv, NEW w \in Writers, Publish(w)
  PROVE  Inv'
<1>1. PICK b : b = txn[w].buffer
  OBVIOUS
<1>2. Types /\ Numbered /\ (~overlapped => Serial)
  BY DEF Inv
<1>3. b \in Seq(Seqs)
  BY <1>1, <1>2, KnownTypes
<1>4. /\ txn[w].phase = "committed" /\ txn' = [txn EXCEPT ![w] = NoTxn]
      /\ UNCHANGED <<lastSeq, log, overlapped>>
  BY DEF Publish
<1>5. NoTxn \in Txn /\ NoTxn.phase = "idle" /\ NoTxn.buffer = <<>> /\ ToSet(<<>>) = {}
      /\ Ascending(<<>>)
  <2>1. <<>> \in Seq(Seqs)
    OBVIOUS
  <2> QED
    BY <2>1 DEF NoTxn, Txn, ToSet, Ascending
<1>6. txn'[w] = NoTxn /\ \A x \in Writers \ {w} : txn'[x] = txn[x]
  BY <1>2, <1>4 DEF Types
<1>7. Committed' = Committed
  BY <1>4 DEF Committed
<1>8. Unpublished \subseteq Unpublished' \cup ToSet(b)
  <2>1. \A x \in Writers \ {w} : /\ txn'[x].phase = txn[x].phase
                                 /\ txn'[x].buffer = txn[x].buffer
    BY <1>6
  <2> QED
    BY <1>1, <2>1 DEF Unpublished
<1>9. ASSUME NEW t \in Tablets
      PROVE  \E p \in Page, c \in SUBSET Seqs :
               /\ p = tablet'[t] /\ c = cut'[t]
               /\ (Sound(p) /\ Past(p) /\ Fresh(p))' /\ (~overlapped => CaughtUp(p, c)')
  <2>1. PICK p \in Page : p = tablet[t]
    BY <1>2 DEF Types
  <2>2. /\ Sound(p) /\ Past(p) /\ Fresh(p) /\ cut[t] \in SUBSET Seqs
        /\ ~overlapped => CaughtUp(p, cut[t])
    BY <1>2, <2>1 DEF Inv, Serial, Types
  <2>3. CASE p.link = "down"
    <3>1. tablet'[t] = p /\ cut'[t] = cut[t]
      BY <2>1, <2>3 DEF Publish, Subscribed
    <3>2. (Sound(p) /\ Past(p) /\ Fresh(p))'
      BY <1>4, <1>7, <2>2, <2>3 DEF Sound, Past, Fresh
    <3>3. ~overlapped => CaughtUp(p, cut[t])'
      <4>1. PICK c : c = cut[t] /\ (~overlapped => CaughtUp(p, c))
        BY <2>2
      <4>2. ~overlapped => CaughtUp(p, c)'
        BY <1>7, <2>3, <4>1 DEF CaughtUp, Owed
      <4> QED
        BY <3>1, <4>1, <4>2 DEF CaughtUp, Owed
    <3> QED
      BY <2>2, <3>1, <3>2, <3>3
  <2>4. CASE p.link # "down"
    <3>1. PICK q, c : /\ q = [p EXCEPT !.queue = PutAll(@, b)]
                      /\ c = cut[t] \cup (ToSet(p.queue \o b) \ ToSet(q.queue))
      OBVIOUS
    <3>2. tablet'[t] = q /\ cut'[t] = c
      BY <1>1, <2>1, <2>4, <3>1 DEF Publish, Subscribed
    <3>3. KeptBut(q, c, Unpublished')
      <4>1. PICK rest : rest = Unpublished'
        OBVIOUS
      <4>2. Unpublished \subseteq rest \cup ToSet(b)
        BY <1>8, <4>1
      <4>3. txn[w].phase = "committed"
        BY <1>4
      <4>4. KeptBut(q, c, rest)
        BY <1>1, <1>3, <2>1, <2>4, <3>1, <4>2, <4>3, PublishedPage, Zenon
      <4> QED
        BY <4>1, <4>4
    <3>4. Sound(q)' /\ Past(q)'
      BY <1>4, <1>7, <3>3 DEF Sound, Past, KeptBut
    <3>5. Fresh(q)'
      BY <1>4, <3>3 DEF Fresh, Covers, KeptBut
    <3>6. ~overlapped => CaughtUp(q, c)'
      BY <1>7, <3>3 DEF CaughtUp, Owed, KeptBut
    <3> QED
      BY <3>2, <3>3, <3>4, <3>5, <3>6 DEF KeptBut
  <2> QED
    BY <2>3, <2>4
<1>10. Types'
  <2>1. tablet' \in [Tablets -> Page]
    <3>1. \A t \in Tablets : tablet'[t] \in Page
      BY <1>9
    <3>2. tablet' = [t \in Tablets |-> tablet'[t]]
      BY DEF Publish
    <3> QED
      BY <3>1, <3>2
  <2>2. cut' \in [Tablets -> SUBSET Seqs]
    <3>1. \A t \in Tablets : cut'[t] \in SUBSET Seqs
      BY <1>9
    <3>2. cut' = [t \in Tablets |-> cut'[t]]
      BY DEF Publish
    <3> QED
      BY <3>1, <3>2
  <2> QED
    BY <1>2, <1>4, <1>5, <2>1, <2>2 DEF Types
<1>11. Numbered'
  BY <1>2, <1>4, <1>5, <1>6, <1>7 DEF Numbered
<1>12. \A t \in Tablets : (Sound(tablet[t]) /\ Past(tablet[t]) /\ Fresh(tablet[t]))'
  BY <1>9
<1>13. ASSUME ~overlapped PROVE Serial'
  <2>1. OneByOne
    BY <1>2, <1>13 DEF Serial
  <2>2. \A x \in Writers : txn'[x].phase = "idle"
    BY <1>4, <1>5, <1>6, <2>1 DEF OneByOne
  <2>3. \A x \in Writers : Ascending(txn'[x].buffer)
    BY <1>5, <1>6, <2>1 DEF OneByOne
  <2>4. \A t \in Tablets : CaughtUp(tablet[t], cut[t])'
    BY <1>9, <1>13
  <2> QED
    BY <2>2, <2>3, <2>4 DEF Serial, OneByOne
<1> QED
  BY <1>4, <1>10, <1>11, <1>12, <1>13 DEF Inv

\* A crash: no request is left, and no connection.
LEMMA CrashStep ==
  ASSUME EventStreamAssumption, Inv, Crash
  PROVE  Inv'
<1>1. /\ txn' = [w \in Writers |-> NoTxn] /\ tablet' = [t \in Tablets |-> Down(tablet[t])]
      /\ UNCHANGED <<lastSeq, log, overlapped, cut>>
  BY DEF Crash
<1>2. Types /\ Numbered
  BY DEF Inv
<1>3. NoTxn \in Txn /\ NoTxn.phase = "idle" /\ NoTxn.buffer = <<>> /\ ToSet(<<>>) = {}
      /\ Ascending(<<>>)
  <2>1. <<>> \in Seq(Seqs)
    OBVIOUS
  <2> QED
    BY <2>1 DEF NoTxn, Txn, ToSet, Ascending
<1>4. \A w \in Writers : txn'[w] = NoTxn
  BY <1>1
<1>5. Committed' = Committed
  BY <1>1 DEF Committed
<1>6. ASSUME NEW t \in Tablets
      PROVE  \E p, c :
               /\ p \in Page /\ p = tablet'[t] /\ c = cut'[t]
               /\ (Sound(p) /\ Past(p) /\ Fresh(p))' /\ (~overlapped => CaughtUp(p, c)')
  <2>1. PICK p, c : p = Down(tablet[t]) /\ c = cut[t]
    OBVIOUS
  <2>2. /\ p \in Page /\ p.link = "down" /\ Sound(p) /\ Past(p)
        /\ (~overlapped => CaughtUp(p, c))
    BY <2>1, DownPage
  <2>3. p = tablet'[t] /\ c = cut'[t]
    BY <1>1, <2>1
  <2>4. Sound(p)' /\ Past(p)' /\ Fresh(p)' /\ (~overlapped => CaughtUp(p, c)')
    BY <1>1, <1>5, <2>2 DEF Sound, Past, Fresh, CaughtUp, Owed
  <2> QED
    BY <2>2, <2>3, <2>4
<1>7. Types'
  <2>1. \A t \in Tablets : tablet'[t] \in Page
    BY <1>6
  <2>2. tablet' = [t \in Tablets |-> tablet'[t]]
    BY <1>1
  <2>3. tablet' \in [Tablets -> Page]
    BY <2>1, <2>2
  <2> QED
    BY <1>1, <1>2, <1>3, <2>3 DEF Types
<1>8. Numbered'
  BY <1>1, <1>2, <1>3, <1>4, <1>5 DEF Numbered
<1>9. \A t \in Tablets : (Sound(tablet[t]) /\ Past(tablet[t]) /\ Fresh(tablet[t]))'
  BY <1>6
<1>10. ~overlapped => Serial'
  BY <1>3, <1>4, <1>6 DEF Serial, OneByOne
<1> QED
  BY <1>1, <1>7, <1>8, <1>9, <1>10 DEF Inv

-----------------------------------------------------------------------------
(***************************************************************************)
(* The invariant, and what follows from it.                                *)
(***************************************************************************)

\* Nothing is recorded, and no page is connected.
LEMMA InitInv == EventStreamAssumption /\ Init => Inv
<1> SUFFICES ASSUME EventStreamAssumption, Init PROVE Inv
  OBVIOUS
<1>1. ToSet(<<>>) = {} /\ Ascending(<<>>) /\ <<>> \in Seq(Seqs)
  BY DEF ToSet, Ascending
<1>2. log = <<>> /\ Committed = {} /\ DOMAIN log = {}
  <2>1. log = <<>>
    BY Zenon DEF Init
  <2> QED
    BY <1>1, <2>1 DEF Committed
<1>3. PICK p : p = [link |-> "down", after |-> 0, replay |-> <<>>, queue |-> <<>>, cursor |-> 0,
                    due |-> FALSE, overlay |-> FALSE, asked |-> <<Unread>>, shown |-> 0,
                    seen |-> {}, since |-> 0, hidden |-> FALSE, newest |-> "under way"]
  OBVIOUS
<1>4. p \in Page
  <2>1. <<Unread>> \in Seq(Known)
    BY DEF Known
  <2>2. 0 \in 0..MaxSeq
    BY DEF EventStreamAssumption
  <2> QED
    BY <1>1, <1>3, <2>1, <2>2 DEF Page
<1>5. \A t \in Tablets : tablet[t] = p /\ cut[t] = {}
  BY <1>3 DEF Init
<1>6. \A w \in Writers : txn[w] = NoTxn
  BY DEF Init
<1>7. NoTxn \in Txn /\ NoTxn.phase = "idle" /\ NoTxn.buffer = <<>>
  BY <1>1 DEF NoTxn, Txn
<1>8. Types
  <2>1. tablet \in [Tablets -> Page]
    BY <1>3, <1>4 DEF Init
  <2> QED
    <3>1. txn \in [Writers -> Txn] /\ cut \in [Tablets -> SUBSET Seqs]
      BY <1>7 DEF Init
    <3>2. lastSeq \in 0..MaxSeq /\ log \in Seq(Seqs) /\ overlapped \in BOOLEAN
      <4>1. 0 \in 0..MaxSeq
        BY DEF EventStreamAssumption
      <4> QED
        BY <1>1, <4>1 DEF Init
    <3> QED
      BY <2>1, <3>1, <3>2 DEF Types
<1>9. Numbered
  BY <1>1, <1>2, <1>6, <1>7 DEF Numbered
<1>10. Sound(p) /\ Past(p) /\ Fresh(p)
  <2>1. PICK u : u = <<Unread>>
    OBVIOUS
  <2>2. \A k \in DOMAIN u : u[k] = Unread
    BY <2>1
  <2>3. Len(log) = 0 /\ 0 <= 0
    BY <1>2
  <2> QED
    BY <1>1, <1>3, <2>1, <2>2, <2>3 DEF Sound, Past, Fresh
<1>11. OneByOne
  BY <1>1, <1>6, <1>7 DEF OneByOne
<1>12. CaughtUp(p, {})
  BY <1>1, <1>2, <1>3 DEF CaughtUp, Owed
<1> QED
  BY <1>5, <1>8, <1>9, <1>10, <1>11, <1>12 DEF Inv, Serial

\* Every step keeps the invariant.
LEMMA StepInv == EventStreamAssumption /\ Inv /\ [Next]_vars => Inv'
<1> SUFFICES ASSUME EventStreamAssumption, Inv, [Next]_vars PROVE Inv'
  OBVIOUS
<1>1. CASE UNCHANGED vars
  <2>1. UNCHANGED <<lastSeq, log, txn, tablet, overlapped, cut>>
    BY <1>1 DEF vars
  <2>2. Types' /\ Numbered'
    BY <2>1 DEF Inv, Types, Numbered, Committed
  <2>3. Unpublished' = Unpublished
    BY <2>1 DEF Unpublished
  <2>4. ~overlapped' => ~overlapped /\ OneByOne'
    BY <2>1 DEF Inv, Serial, OneByOne, Committed
  <2> QED
    BY <2>1, <2>2, <2>3, <2>4, UnseenStep
<1>2. ASSUME NEW w \in Writers, RecordEvent(w) PROVE Inv'
  BY <1>2, RecordEventStep
<1>3. ASSUME NEW w \in Writers, Commit(w) PROVE Inv'
  BY <1>3, CommitStep
<1>4. ASSUME NEW w \in Writers, Abort(w) PROVE Inv'
  BY <1>4, AbortStep
<1>5. ASSUME NEW w \in Writers, Publish(w) PROVE Inv'
  BY <1>5, PublishStep
<1>6. ASSUME NEW t \in Tablets, Connect(t) PROVE Inv'
  BY <1>6, ConnectStep
<1>7. ASSUME NEW t \in Tablets, CatchUpRead(t) PROVE Inv'
  BY <1>7, CatchUpReadStep
<1>8. ASSUME NEW t \in Tablets, Deliver(t) PROVE Inv'
  BY <1>8, DeliverStep
<1>9. ASSUME NEW t \in Tablets, Drop(t) PROVE Inv'
  BY <1>9, DropStep
<1>10. ASSUME NEW t \in Tablets, Refresh(t) \/ Poll(t) \/ CloseModal(t) PROVE Inv'
  BY <1>10, RefetchStep
<1>11. ASSUME NEW t \in Tablets, OpenModal(t) PROVE Inv'
  <2>1. TRUE \in BOOLEAN
    OBVIOUS
  <2> QED
    BY <1>11, <2>1, OverlayStep DEF OpenModal
<1>12. ASSUME NEW t \in Tablets, HideModal(t) PROVE Inv'
  <2>1. FALSE \in BOOLEAN
    OBVIOUS
  <2> QED
    BY <1>12, <2>1, OverlayStep DEF HideModal
<1>13. ASSUME NEW t \in Tablets, ReadFloor(t) PROVE Inv'
  BY <1>13, ReadFloorStep
<1>14. ASSUME NEW t \in Tablets, Render(t) \/ FailRefetch(t) PROVE Inv'
  BY <1>14, EndStep
<1>15. CASE Crash
  BY <1>15, CrashStep
<1> QED
  BY <1>1, <1>2, <1>3, <1>4, <1>5, <1>6, <1>7, <1>8, <1>9, <1>10, <1>11, <1>12, <1>13,
     <1>14, <1>15 DEF Next

\* The invariant holds of every behaviour of the board.
THEOREM Invariance == Spec => []Inv
<1>1. EventStreamAssumption
  BY EventStreamAssumption
<1>2. Init => Inv
  BY <1>1, InitInv
<1>3. Inv /\ [Next]_vars => Inv'
  BY <1>1, StepInv
<1> QED
  BY <1>2, <1>3, PTL DEF Spec

\* get_db publishes after the commit: whatever is rolled back or crashes, no tablet was ever
\* sent, or is about to be sent, an event that is not in the log.
THEOREM NeverAPhantom == Spec => []NoPhantom
<1>1. EventStreamAssumption
  BY EventStreamAssumption
<1>2. Inv => NoPhantom
  <2> SUFFICES ASSUME Inv, NEW t \in Tablets
               PROVE  tablet[t].seen \cup ToSet(Incoming(t)) \subseteq Committed
    BY DEF NoPhantom
  <2>1. Sound(tablet[t]) /\ Types
    BY DEF Inv
  <2>2. /\ Seqs \in SUBSET Nat
        /\ tablet[t].replay \in Seq(Seqs) /\ tablet[t].queue \in Seq(Seqs)
    BY <1>1, <2>1, KnownTypes
  <2>3. ToSet(Incoming(t)) = ToSet(tablet[t].replay) \cup ToSet(tablet[t].queue)
    BY <2>2, Joined DEF Incoming
  <2> QED
    BY <2>1, <2>3 DEF Sound
<1> QED
  BY <1>2, Invariance, PTL

\* The cursor of a reconnecting tablet: where requests never overlap it passes no event the
\* tablet did not receive, but for those evicted from its queue or beyond a replay's limit.
THEOREM NeverAGap == Spec => []GapFree
<1>1. EventStreamAssumption
  BY EventStreamAssumption
<1>2. Inv => GapFree
  <2> SUFFICES ASSUME Inv, ~overlapped, NEW t \in Tablets, NEW e \in Gap(t)
               PROVE  e \in cut[t]
    BY DEF GapFree
  <2>1. CaughtUp(tablet[t], cut[t]) /\ Types
    BY DEF Inv, Serial
  <2>2. e \in Committed /\ e <= tablet[t].cursor /\ e \notin tablet[t].seen
    BY DEF Gap
  <2>3. e \in Nat /\ tablet[t].cursor \in Nat
    BY <1>1, <2>1, <2>2, KnownTypes
  <2>4. e \in Owed(tablet[t], cut[t]) => e > tablet[t].cursor
    BY <2>1 DEF CaughtUp
  <2> QED
    BY <2>2, <2>3, <2>4 DEF Owed
<1> QED
  BY <1>2, Invariance, PTL

\* The refetch on every frame: a live page with nothing left to come whose newest refetch was
\* neither lost nor followed by a frame under a modal shows every event committed since it
\* subscribed, whatever was evicted, however requests overlapped and in whatever order
\* refetches were read and answered.
THEOREM AlwaysAFreshBoard == Spec => []LiveBoardFresh
<1>1. Inv => LiveBoardFresh
  <2> SUFFICES ASSUME Inv, NEW t \in Tablets, NEW p, p = tablet[t], Settled(p),
                      Incoming(t) = <<>>, Unpublished = {}
               PROVE  p.shown = Len(log) \/ p.since = Len(log)
    BY DEF LiveBoardFresh
  <2>1. Past(p) /\ Fresh(p) /\ Types
    BY DEF Inv
  <2>2. /\ Seqs \in SUBSET Nat /\ p \in Page
        /\ p.replay \in Seq(Seqs) /\ p.queue \in Seq(Seqs)
    BY EventStreamAssumption, <2>1, KnownTypes
  <2>3. p.replay = <<>> /\ p.queue = <<>>
    BY <2>2, Joined DEF Incoming
  <2>4. p.link # "down" /\ ~p.due /\ ~p.hidden /\ p.newest = "shown"
    BY DEF Settled
  <2>5. PICK n : n = Len(log) /\ n \in Nat /\ DOMAIN log = 1 .. n
    BY <2>1 DEF Types
  <2>6. p.since \in Nat /\ p.shown \in Nat /\ p.since <= n /\ p.shown <= n
    BY <2>1, <2>2, <2>5 DEF Page, Past
  <2>7. ASSUME p.since < n PROVE n <= p.shown
    <3>1. n \in DOMAIN log /\ n > p.since
      BY <2>5, <2>6, <2>7
    <3>2. Covers(p, n)
      BY <2>1, <2>3, <2>4, <3>1 DEF Fresh
    <3> QED
      BY <2>4, <3>2 DEF Covers
  <2> QED
    BY <2>5, <2>6, <2>7
<1> QED
  BY <1>1, Invariance, PTL
=============================================================================
