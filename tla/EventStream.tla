---------------------------- MODULE EventStream ----------------------------
(***************************************************************************)
(* The live floor board of the tablets:                                    *)
(*   services/event_hub.py   record_event, EventHub, fetch_events_since    *)
(*   api/deps.py             get_db (commit, then publish)                 *)
(*   routers/tables.py       floor_ws (subscribe, replay, stream)          *)
(*   pos_static/index.html   the tablet: cursor, refetch, poll, reconnect  *)
(*                                                                         *)
(* An event is its seq, the IDENTITY number its row got at flush.  One     *)
(* store and one server process are modelled.  A tablet never displays an  *)
(* event; it asks for the floor plan, and its board is what had committed  *)
(* when the answer it rendered last was read.                              *)
(***************************************************************************)
EXTENDS Naturals, Sequences, FiniteSets, FiniteSetsExt, SequencesExt

CONSTANTS
  Writers,    \* concurrent requests that record events
  Tablets,
  Unread,     \* what is known of a floor plan that was asked for and not read yet
  QueueMax,   \* _QUEUE_MAXSIZE, the depth of a subscriber's queue
  CatchUp,    \* _CATCHUP_LIMIT, the longest replay
  MaxSeq,     \* bound: events recorded
  MaxDrops,   \* bound: lost connections and crashes
  MaxAsked    \* bound: refetches of a page under way

ASSUME EventStreamAssumption ==
  /\ QueueMax \in Nat \ {0} /\ CatchUp \in Nat \ {0} /\ MaxAsked \in Nat \ {0}
  /\ MaxSeq \in Nat /\ MaxDrops \in Nat /\ Unread \notin Nat

VARIABLES
  lastSeq,    \* last IDENTITY value handed out
  log,        \* order_events, in the order of the commits
  txn,        \* the requests, with the events each buffered
  tablet,     \* the sockets' server side and the tablets' pages
  drops,      \* connections lost and crashes so far
  overlapped, \* history: two requests were under way at the same time
  cut         \* history: events evicted from, or left out of a replay to, a tablet

vars == <<lastSeq, log, txn, tablet, drops, overlapped, cut>>

Seqs == 1..MaxSeq

\* A request between its first event and the end of get_db.
Txn == [phase : {"idle", "open", "committed"}, buffer : Seq(Seqs)]
NoTxn == [phase |-> "idle", buffer |-> <<>>]

\* A floor plan is the length of the log it was read from.
Plans == (0..MaxSeq) \cup {Unread}

\* after is the cursor as sent in the URL, cursor the page's lastSeq, due the debounce timer,
\* overlay a modal over the board, asked the refetches under way in the order they began,
\* shown the floor plan on the board.  History: the frames seen, the events committed (since)
\* when the socket subscribed, whether a frame came under a modal (hidden) since the newest
\* refetch began, and what became of that refetch: lost when it failed or an answer to an
\* earlier one, read before it, was rendered after it.
Tablet == [link : {"down", "subscribed", "live"}, after : 0..MaxSeq, replay : Seq(Seqs),
           queue : Seq(Seqs), cursor : 0..MaxSeq, due : BOOLEAN, overlay : BOOLEAN,
           asked : Seq(Plans), shown : 0..MaxSeq, seen : SUBSET Seqs,
           since : 0..MaxSeq, hidden : BOOLEAN, newest : {"under way", "shown", "lost"}]

Committed == ToSet(log)
Subscribed(t) == tablet[t].link # "down"
Incoming(t) == tablet[t].replay \o tablet[t].queue
Unpublished == UNION {ToSet(txn[w].buffer) : w \in {x \in Writers : txn[x].phase = "committed"}}

\* A page begins by asking for the floor plan.
Init ==
  /\ lastSeq = 0 /\ log = <<>> /\ drops = 0 /\ overlapped = FALSE
  /\ txn = [w \in Writers |-> NoTxn]
  /\ tablet = [t \in Tablets |->
       [link |-> "down", after |-> 0, replay |-> <<>>, queue |-> <<>>, cursor |-> 0,
        due |-> FALSE, overlay |-> FALSE, asked |-> <<Unread>>, shown |-> 0, seen |-> {},
        since |-> 0, hidden |-> FALSE, newest |-> "under way"]]
  /\ cut = [t \in Tablets |-> {}]
-----------------------------------------------------------------------------
(***************************************************************************)
(* The requests.                                                           *)
(***************************************************************************)

\* The flush takes the next number; it is not given back by a rollback.
RecordEvent(w) ==
  /\ txn[w].phase \in {"idle", "open"}
  /\ lastSeq < MaxSeq
  /\ lastSeq' = lastSeq + 1
  /\ txn' = [txn EXCEPT ![w] = [phase |-> "open", buffer |-> Append(@.buffer, lastSeq + 1)]]
  /\ overlapped' = (overlapped \/ \E x \in Writers \ {w} : txn[x].phase # "idle")
  /\ UNCHANGED <<log, tablet, drops, cut>>

\* session.commit() takes effect in the database; its answer is still to come.
Commit(w) ==
  /\ txn[w].phase = "open"
  /\ log' = log \o txn[w].buffer
  /\ txn' = [txn EXCEPT ![w].phase = "committed"]
  /\ UNCHANGED <<lastSeq, tablet, drops, overlapped, cut>>

Abort(w) ==
  /\ txn[w].phase = "open"
  /\ txn' = [txn EXCEPT ![w] = NoTxn]
  /\ UNCHANGED <<lastSeq, log, tablet, drops, overlapped, cut>>

\* EventHub.publish to one queue: each event put into a full queue evicts the oldest
\* one, so the newest QueueMax stay.
PutAll(queue, events) ==
  LET all == queue \o events
  IN  SubSeq(all, IF Len(all) > QueueMax THEN Len(all) - QueueMax + 1 ELSE 1, Len(all))

\* Slip: the buffered events are pushed before the commit.
PublishEarly(w) ==
  /\ txn[w].phase \in {"open", "committed"}
  /\ tablet' = [t \in Tablets |->
       IF Subscribed(t) THEN [tablet[t] EXCEPT !.queue = PutAll(@, txn[w].buffer)]
       ELSE tablet[t]]
  /\ txn' = [txn EXCEPT ![w].buffer = IF txn[w].phase = "open" THEN @ ELSE <<>>,
                        ![w].phase = IF @ = "open" THEN "open" ELSE "idle"]
  /\ UNCHANGED <<lastSeq, log, drops, overlapped, cut>>

\* drain_pending and publish: no await, so one step for all events and sockets.
Publish(w) ==
  /\ txn[w].phase = "committed"
  /\ tablet' = [t \in Tablets |->
       IF Subscribed(t) THEN [tablet[t] EXCEPT !.queue = PutAll(@, txn[w].buffer)]
       ELSE tablet[t]]
  /\ cut' = [t \in Tablets |->
       IF Subscribed(t)
         THEN cut[t] \cup (ToSet(tablet[t].queue \o txn[w].buffer) \ ToSet(tablet'[t].queue))
         ELSE cut[t]]
  /\ txn' = [txn EXCEPT ![w] = NoTxn]
  /\ UNCHANGED <<lastSeq, log, drops, overlapped>>
-----------------------------------------------------------------------------
(***************************************************************************)
(* The sockets and the pages.                                              *)
(***************************************************************************)

\* connectWS with after=lastSeq; floor_ws subscribes before it reads the log.
Connect(t) ==
  /\ tablet[t].link = "down"
  /\ tablet' = [tablet EXCEPT ![t] =
       [@ EXCEPT !.link = "subscribed", !.after = tablet[t].cursor, !.since = Len(log)]]
  /\ UNCHANGED <<lastSeq, log, txn, drops, overlapped, cut>>

\* Slip: the page asks for the event after its cursor and the next one is skipped.
MissedAfterNext(after) == {e \in Committed : e > after + 1}
Missed(after) == {e \in Committed : e > after}

\* Slip: a reconnected socket streams live events only.
StreamOnly(t) ==
  /\ tablet[t].link = "subscribed"
  /\ tablet' = [tablet EXCEPT ![t].link = "live"]
  /\ UNCHANGED <<lastSeq, log, txn, drops, overlapped, cut>>

Ascending(s) == \A i, j \in DOMAIN s : i < j => s[i] < s[j]

\* fetch_events_since: in the order of seq, at most CatchUp of them.
CatchUpRead(t) ==
  /\ tablet[t].link = "subscribed"
  /\ \E missed \in SetToSeqs(Missed(tablet[t].after)) :
       LET replay == SubSeq(missed, 1, IF Len(missed) < CatchUp THEN Len(missed) ELSE CatchUp)
       IN  /\ Ascending(missed)
           /\ tablet' = [tablet EXCEPT ![t] = [@ EXCEPT !.link = "live", !.replay = replay]]
           /\ cut' = [cut EXCEPT ![t] = @ \cup (ToSet(missed) \ ToSet(replay))]
  /\ UNCHANGED <<lastSeq, log, txn, drops, overlapped>>

\* Slip: a frame that is not newer than the cursor is dropped, as the protocol
\* notes of floor_ws describe it, refetch and all.
ReceivedIfNewer(p, e) ==
  [p EXCEPT !.replay = IF @ = <<>> THEN @ ELSE Tail(@),
            !.queue = IF p.replay = <<>> THEN Tail(@) ELSE @,
            !.cursor = IF e > @ THEN e ELSE @,
            !.seen = @ \cup {e},
            !.due = @ \/ (e > p.cursor /\ ~p.overlay),
            !.hidden = @ \/ p.overlay]

\* The next frame, sent and received: the replay first, then the queue.  The page moves its
\* cursor up and, unless a modal is shown, schedules a refetch whatever the frame's number.
Received(p, e) ==
  [p EXCEPT !.replay = IF @ = <<>> THEN @ ELSE Tail(@),
            !.queue = IF p.replay = <<>> THEN Tail(@) ELSE @,
            !.cursor = IF e > @ THEN e ELSE @,
            !.seen = @ \cup {e},
            !.due = @ \/ ~p.overlay,
            !.hidden = @ \/ p.overlay]

Deliver(t) ==
  /\ tablet[t].link = "live"
  /\ Incoming(t) # <<>>
  /\ tablet' = [tablet EXCEPT ![t] = Received(@, Head(Incoming(t)))]
  /\ UNCHANGED <<lastSeq, log, txn, drops, overlapped, cut>>

\* refresh() up to its await.
Asking(p) ==
  [p EXCEPT !.asked = Append(@, Unread), !.newest = "under way", !.hidden = FALSE]

Ask(t, p) ==
  /\ Len(tablet[t].asked) < MaxAsked
  /\ tablet' = [tablet EXCEPT ![t] = Asking(p)]
  /\ UNCHANGED <<lastSeq, log, txn, drops, overlapped, cut>>

\* The debounce timer fires, under a modal as well.
Refresh(t) == tablet[t].due /\ Ask(t, [tablet[t] EXCEPT !.due = FALSE])

\* The poll, every five seconds while the socket is not open and no modal is shown.
Poll(t) == tablet[t].link = "down" /\ ~tablet[t].overlay /\ Ask(t, tablet[t])

OpenModal(t) ==
  /\ tablet' = [tablet EXCEPT ![t].overlay = TRUE]
  /\ UNCHANGED <<lastSeq, log, txn, drops, overlapped, cut>>

\* closeModal asks for the floor plan; another modal may be left on the page.
CloseModal(t) ==
  /\ tablet[t].overlay
  /\ \E left \in BOOLEAN : Ask(t, [tablet[t] EXCEPT !.overlay = left])

\* The sheets of the login and the menu are hidden without closeModal.
HideModal(t) ==
  /\ tablet[t].overlay
  /\ tablet' = [tablet EXCEPT ![t].overlay = FALSE]
  /\ UNCHANGED <<lastSeq, log, txn, drops, overlapped, cut>>

\* The server reads the floor for a refetch.
ReadFloor(t) ==
  /\ \E i \in DOMAIN tablet[t].asked :
       /\ tablet[t].asked[i] = Unread
       /\ tablet' = [tablet EXCEPT ![t].asked[i] = Len(log)]
  /\ UNCHANGED <<lastSeq, log, txn, drops, overlapped, cut>>

IsNewest(p, i) == i = Len(p.asked) /\ p.newest = "under way"

\* The answers arrive in any order, and each is rendered.
Rendered(p, i) ==
  [p EXCEPT !.asked = RemoveAt(@, i),
            !.shown = p.asked[i],
            !.newest = IF IsNewest(p, i) THEN "shown"
                       ELSE IF @ = "shown" /\ p.asked[i] < p.shown THEN "lost" ELSE @]

Render(t) ==
  /\ \E i \in DOMAIN tablet[t].asked :
       /\ tablet[t].asked[i] # Unread
       /\ tablet' = [tablet EXCEPT ![t] = Rendered(@, i)]
  /\ UNCHANGED <<lastSeq, log, txn, drops, overlapped, cut>>

\* The catch of refresh(): a refetch that fails, read or not, leaves the board as it is.
Failed(p, i) ==
  [p EXCEPT !.asked = RemoveAt(@, i), !.newest = IF IsNewest(p, i) THEN "lost" ELSE @]

FailRefetch(t) ==
  /\ \E i \in DOMAIN tablet[t].asked : tablet' = [tablet EXCEPT ![t] = Failed(@, i)]
  /\ UNCHANGED <<lastSeq, log, txn, drops, overlapped, cut>>

Down(p) == [p EXCEPT !.link = "down", !.replay = <<>>, !.queue = <<>>]

\* A connection breaks; frames in the queue or on the wire are gone.
Drop(t) ==
  /\ Subscribed(t)
  /\ drops < MaxDrops
  /\ drops' = drops + 1
  /\ tablet' = [tablet EXCEPT ![t] = Down(@)]
  /\ UNCHANGED <<lastSeq, log, txn, overlapped, cut>>

\* The server process dies: transactions in flight roll back, committed ones are
\* never published, the hub and every socket are gone.
Crash ==
  /\ drops < MaxDrops
  /\ drops' = drops + 1
  /\ txn' = [w \in Writers |-> NoTxn]
  /\ tablet' = [t \in Tablets |-> Down(tablet[t])]
  /\ UNCHANGED <<lastSeq, log, overlapped, cut>>

Next ==
  \/ \E w \in Writers : RecordEvent(w) \/ Commit(w) \/ Abort(w) \/ Publish(w)
  \/ \E t \in Tablets : Connect(t) \/ CatchUpRead(t) \/ Deliver(t) \/ Drop(t)
                          \/ Refresh(t) \/ Poll(t) \/ OpenModal(t) \/ CloseModal(t)
                          \/ HideModal(t) \/ ReadFloor(t) \/ Render(t) \/ FailRefetch(t)
  \/ Crash

\* Requests end, sockets stream, pages run their timers and refetches are answered or fail;
\* nothing makes a request begin, a modal open or close, a connection break or the server crash.
Fairness ==
  /\ \A w \in Writers : WF_vars(Commit(w) \/ Abort(w)) /\ WF_vars(Publish(w))
  /\ \A t \in Tablets : /\ WF_vars(Connect(t)) /\ WF_vars(CatchUpRead(t))
                        /\ WF_vars(Deliver(t)) /\ WF_vars(Refresh(t))
                        /\ WF_vars(ReadFloor(t)) /\ WF_vars(Render(t) \/ FailRefetch(t))

Spec == Init /\ [][Next]_vars
FairSpec == Spec /\ Fairness
-----------------------------------------------------------------------------
\* Every variable has its type; the queue never outgrows its capacity.
TypeOK ==
  /\ lastSeq \in 0..MaxSeq /\ drops \in 0..MaxDrops /\ overlapped \in BOOLEAN
  /\ log \in Seq(Seqs) /\ Len(log) <= lastSeq
  /\ txn \in [Writers -> Txn]
  /\ tablet \in [Tablets -> Tablet]
  /\ \A t \in Tablets : Len(tablet[t].queue) <= QueueMax
  /\ cut \in [Tablets -> SUBSET Seqs]

\* get_db publishes after the commit only: whatever is rolled back or crashes, no
\* tablet is ever sent an event that is not in the log.
NoPhantom == \A t \in Tablets : tablet[t].seen \cup ToSet(Incoming(t)) \subseteq Committed

\* An event that tablet t has moved past without having received it, and that is
\* not under way to it either.
Gap(t) ==
  {e \in Committed : /\ e <= tablet[t].cursor
                     /\ e \notin tablet[t].seen \cup ToSet(Incoming(t))
                     /\ ~(Subscribed(t) /\ e \in Unpublished)}

\* Reconnect cursor: as long as requests do not overlap, a tablet's cursor passes
\* no event it did not receive, through crashes, lost connections and the overlap
\* of replay and live stream, but for those evicted or beyond the replay limit.
GapFree == ~overlapped => \A t \in Tablets : Gap(t) \subseteq cut[t]

\* The refetch on every frame: a live page that has nothing left to come, and whose newest
\* refetch was neither lost nor followed by a frame under a modal, shows every event committed
\* since it subscribed, whatever was evicted from its queue and in whatever order requests
\* committed and published and refetches were read and answered.
Settled(p) == p.link = "live" /\ ~p.due /\ p.newest = "shown" /\ ~p.hidden

LiveBoardFresh ==
  \A t \in Tablets :
    Settled(tablet[t]) /\ Incoming(t) = <<>> /\ Unpublished = {}
      => tablet[t].shown = Len(log) \/ tablet[t].since = Len(log)

\* Where requests do not overlap, a board that is left without modals ends up showing every
\* committed event, without relying on the poll, unless its newest refetch is lost or frames
\* came under a modal since.
BoardCatchesUp ==
  [](~overlapped) =>
    \A t \in Tablets :
      <>[](/\ ~tablet[t].overlay /\ ~tablet[t].hidden /\ tablet[t].newest # "lost")
        => <>[](tablet[t].shown = Len(log))

\* pos_static/index.html: frames under a modal need no refetch, since "closeModal() re-syncs the
\* board on exit": with no modal left and the newest answer rendered, a live board is fresh.
ModalsResync ==
  \A t \in Tablets :
    LET p == tablet[t]
    IN  Settled([p EXCEPT !.hidden = FALSE]) /\ ~p.overlay /\ Incoming(t) = <<>>
          /\ Unpublished = {}
          => p.shown = Len(log) \/ p.since = Len(log)

\* event_hub.py: no event is ever lost, at most it arrives late.
NoEventLost == \A t \in Tablets : Gap(t) = {}
=============================================================================
