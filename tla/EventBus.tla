------------------------------ MODULE EventBus ------------------------------
(***************************************************************************)
(* The publish/subscribe hub of internal/eventbus/eventbus.go.             *)
(*                                                                         *)
(* Publishers (connection handlers of every server) hold b.mu for reading  *)
(* while they offer an event to each subscriber's buffered channel; their  *)
(* channel operations interleave.  Subscribe and the unsubscribe function  *)
(* hold b.mu for writing.  As in sync.RWMutex, one writer at a time        *)
(* announces itself and keeps new readers out, and the readers that it     *)
(* kept waiting get in when it unlocks.                                    *)
(***************************************************************************)
EXTENDS Integers, Sequences, FiniteSets

CONSTANTS Publisher,   \* goroutines that call Publish
          Sub,         \* subscription ids; b.next never reuses one
          BufSize,     \* the bufSize each subscriber asks for
          MaxEvents    \* bound: the events that each publisher publishes

ASSUME BusAssumption == /\ BufSize \in [Sub -> Int]
                        /\ MaxEvents \in [Publisher -> Nat]

VARIABLES
  status,    \* where the owner of a subscription is
  subs,      \* the ids in b.subs
  chan,      \* id -> the events buffered in its channel
  closed,    \* the ids whose channel has been closed
  pc,        \* publisher -> where its Publish is
  cnt,       \* publisher -> its events so far, the one in progress included
  todo,      \* publisher -> the subscribers it has not reached
  cur,       \* publisher -> the one whose channel it found full
  received,  \* id -> the events its subscriber has taken (history)
  late,      \* id -> the events offered to it a whole buffer behind (history)
  lost,      \* id -> the events discarded on a full channel (history)
  panicked   \* a send on, or a close of, a closed channel

pubVars == <<pc, cnt, todo, cur>>
vars    == <<status, subs, chan, closed, pubVars, received, late, lost,
             panicked>>

\* An event is told apart by its publisher and that publisher's count.
Event == [src : Publisher, n : Nat]

EventOf(p) == [src |-> p, n |-> cnt[p]]

\* make(chan Event, bufSize), with the default for a size that is not positive.
Capacity(s) == IF BufSize[s] <= 0 THEN 64 ELSE BufSize[s]

Full(s) == Len(chan[s]) >= Capacity(s)

\* Mutant: Publish copies the map and gives up b.mu before it sends.
Readers_None == {}

\* Who holds b.mu for reading.
Readers == {p \in Publisher : pc[p] \in {"loop", "drop", "retry"}}

\* Who has announced that it will write.
Writers == {s \in Sub : status[s] \in {"joining", "leaving"}}

Init ==
  /\ status = [s \in Sub |-> "new"]
  /\ subs = {}
  /\ chan = [s \in Sub |-> <<>>]
  /\ closed = {}
  /\ pc = [p \in Publisher |-> "idle"]
  /\ cnt = [p \in Publisher |-> 0]
  /\ todo = [p \in Publisher |-> {}]
  /\ cur = [p \in Publisher |-> {}]
  /\ received = [s \in Sub |-> <<>>]
  /\ late = [s \in Sub |-> {}]
  /\ lost = [s \in Sub |-> {}]
  /\ panicked = FALSE

-----------------------------------------------------------------------------
(* Subscribers.                                                            *)

\* Subscribe, and later the unsubscribe function, call b.mu.Lock(), and the
\* writers before them have unlocked.
AskLock(s) ==
  /\ status[s] \in {"new", "on", "off"} /\ Writers = {}
  /\ status' = [status EXCEPT ![s] = IF @ = "new" THEN "joining" ELSE "leaving"]
  /\ UNCHANGED <<subs, chan, closed, pubVars, received, late, lost, panicked>>

\* b.mu.Unlock(): the publishers that wait for b.mu begin to read.
Admit ==
  /\ pc' = [p \in Publisher |-> IF pc[p] = "rlock" THEN "loop" ELSE pc[p]]
  /\ todo' = [p \in Publisher |-> IF pc[p] = "rlock" THEN subs' ELSE todo[p]]

Subscribe(s) ==
  /\ status[s] = "joining" /\ Readers = {}
  /\ status' = [status EXCEPT ![s] = "on"]
  /\ subs' = subs \cup {s}
  /\ Admit
  /\ UNCHANGED <<chan, closed, cnt, cur, received, late, lost, panicked>>

\* The unsubscribe function closes the channel the first time it is called.
Unsubscribe(s) ==
  /\ status[s] = "leaving" /\ Readers = {}
  /\ status' = [status EXCEPT ![s] = "off"]
  /\ subs' = subs \ {s}
  /\ IF s \in subs
     THEN closed' = closed \cup {s} /\ panicked' = (s \in closed)
     ELSE UNCHANGED <<closed, panicked>>
  /\ Admit
  /\ UNCHANGED <<chan, cnt, cur, received, late, lost>>

\* The subscriber takes an event; a closed channel still yields what it holds.
Receive(s) ==
  /\ chan[s] # <<>>
  /\ received' = [received EXCEPT ![s] = Append(@, Head(chan[s]))]
  /\ chan' = [chan EXCEPT ![s] = Tail(@)]
  /\ UNCHANGED <<status, subs, closed, pubVars, late, lost, panicked>>

-----------------------------------------------------------------------------
(* Publish.                                                                *)

AskRLock(p) ==
  /\ pc[p] = "idle" /\ cnt[p] < MaxEvents[p]
  /\ pc' = [pc EXCEPT ![p] = "rlock"]
  /\ cnt' = [cnt EXCEPT ![p] = @ + 1]
  /\ UNCHANGED <<status, subs, chan, closed, todo, cur, received, late, lost,
                 panicked>>

RLock(p) ==
  /\ pc[p] = "rlock" /\ Writers = {}
  /\ pc' = [pc EXCEPT ![p] = "loop"]
  /\ todo' = [todo EXCEPT ![p] = subs]
  /\ UNCHANGED <<status, subs, chan, closed, cnt, cur, received, late, lost,
                 panicked>>

\* A send to a channel with room; on a closed channel it panics.
Send(s, p) ==
  /\ panicked' = (panicked \/ s \in closed)
  /\ chan' = [chan EXCEPT ![s] = Append(@, EventOf(p))]

\* The events that s has been offered and has neither received nor lost.
Backlog(s) == Len(chan[s]) + Cardinality({p \in Publisher : s \in cur[p]})

\* An event offered to a subscriber that is a whole buffer behind is late.
Offer(p, s) ==
  late' = [late EXCEPT ![s] = IF Backlog(s) >= Capacity(s)
                              THEN @ \cup {EventOf(p)} ELSE @]

\* Mutant: room is made without trying to send first.
TrySend_DropsFirst(p, s) ==
  /\ pc[p] = "loop" /\ s \in todo[p]
  /\ Offer(p, s)
  /\ pc' = [pc EXCEPT ![p] = "drop"]
  /\ cur' = [cur EXCEPT ![p] = {s}]
  /\ todo' = [todo EXCEPT ![p] = @ \ {s}]
  /\ UNCHANGED <<status, subs, chan, closed, cnt, received, lost, panicked>>

\* The first select: send, or go on to make room.  The map's order is free.
TrySend(p, s) ==
  /\ pc[p] = "loop" /\ s \in todo[p]
  /\ Offer(p, s)
  /\ todo' = [todo EXCEPT ![p] = @ \ {s}]
  /\ IF Full(s)
     THEN /\ pc' = [pc EXCEPT ![p] = "drop"]
          /\ cur' = [cur EXCEPT ![p] = {s}]
          /\ panicked' = (panicked \/ s \in closed)
          /\ UNCHANGED chan
     ELSE /\ Send(s, p)
          /\ UNCHANGED <<pc, cur>>
  /\ UNCHANGED <<status, subs, closed, cnt, received, lost>>

\* The second select: take the oldest event, if one is left.
DropOldest(p, s) ==
  /\ pc[p] = "drop" /\ s \in cur[p]
  /\ pc' = [pc EXCEPT ![p] = "retry"]
  /\ IF chan[s] = <<>>
     THEN UNCHANGED <<chan, lost>>
     ELSE /\ lost' = [lost EXCEPT ![s] = @ \cup {Head(chan[s])}]
          /\ chan' = [chan EXCEPT ![s] = Tail(@)]
  /\ UNCHANGED <<status, subs, closed, cnt, todo, cur, received, late,
                 panicked>>

\* Mutant: the event is queued whether or not there is room.
Retry_Overfills(p, s) ==
  /\ pc[p] = "retry" /\ s \in cur[p]
  /\ pc' = [pc EXCEPT ![p] = "loop"]
  /\ cur' = [cur EXCEPT ![p] = {}]
  /\ Send(s, p)
  /\ UNCHANGED <<status, subs, closed, cnt, todo, received, late, lost>>

\* Mutant: the retry blocks until there is room.
Retry_Blocks(p, s) ==
  /\ pc[p] = "retry" /\ s \in cur[p] /\ ~ Full(s)
  /\ pc' = [pc EXCEPT ![p] = "loop"]
  /\ cur' = [cur EXCEPT ![p] = {}]
  /\ Send(s, p)
  /\ UNCHANGED <<status, subs, closed, cnt, todo, received, late, lost>>

\* Mutant: the subscriber stays to be reached after a successful retry.
Retry_SendsTwice(p, s) ==
  /\ pc[p] = "retry" /\ s \in cur[p] /\ ~ Full(s)
  /\ pc' = [pc EXCEPT ![p] = "loop"]
  /\ cur' = [cur EXCEPT ![p] = {}]
  /\ todo' = [todo EXCEPT ![p] = @ \cup {s}]
  /\ Send(s, p)
  /\ UNCHANGED <<status, subs, closed, cnt, received, late, lost>>

\* Mutant: after making room, the event is discarded all the same.
Retry_NeverSends(p, s) ==
  /\ pc[p] = "retry" /\ s \in cur[p]
  /\ pc' = [pc EXCEPT ![p] = "loop"]
  /\ cur' = [cur EXCEPT ![p] = {}]
  /\ lost' = [lost EXCEPT ![s] = @ \cup {EventOf(p)}]
  /\ UNCHANGED <<status, subs, chan, closed, cnt, todo, received, late,
                 panicked>>

\* The third select: send, or give the new event up.
Retry(p, s) ==
  /\ pc[p] = "retry" /\ s \in cur[p]
  /\ pc' = [pc EXCEPT ![p] = "loop"]
  /\ cur' = [cur EXCEPT ![p] = {}]
  /\ IF Full(s)
     THEN /\ lost' = [lost EXCEPT ![s] = @ \cup {EventOf(p)}]
          /\ panicked' = (panicked \/ s \in closed)
          /\ UNCHANGED chan
     ELSE /\ Send(s, p)
          /\ UNCHANGED lost
  /\ UNCHANGED <<status, subs, closed, cnt, todo, received, late>>

RUnlock(p) ==
  /\ pc[p] = "loop" /\ todo[p] = {}
  /\ pc' = [pc EXCEPT ![p] = "idle"]
  /\ UNCHANGED <<status, subs, chan, closed, cnt, todo, cur, received, late,
                 lost, panicked>>

PublishStep(p) ==
  \/ RLock(p) \/ RUnlock(p)
  \/ \E s \in Sub : TrySend(p, s) \/ DropOldest(p, s) \/ Retry(p, s)

-----------------------------------------------------------------------------
Next ==
  /\ ~ panicked
  /\ \/ \E s \in Sub : AskLock(s) \/ Subscribe(s) \/ Unsubscribe(s) \/ Receive(s)
     \/ \E p \in Publisher : AskRLock(p) \/ PublishStep(p)

Spec == Init /\ [][Next]_vars

(***************************************************************************)
(* A goroutine that can run is scheduled, and the readers that a writer    *)
(* waits for leave.  No subscriber has to read, to come or to leave, and   *)
(* nobody has to publish.                                                  *)
(***************************************************************************)
Fairness ==
  /\ \A p \in Publisher : WF_vars(~ panicked /\ PublishStep(p))
  /\ \A s \in Sub : WF_vars(~ panicked /\ (Subscribe(s) \/ Unsubscribe(s)))

FairSpec == Spec /\ Fairness

-----------------------------------------------------------------------------
(* Properties.                                                             *)

\* Every variable keeps its type, and no channel exceeds its capacity.
TypeOK ==
  /\ status \in [Sub -> {"new", "joining", "on", "leaving", "off"}]
  /\ subs \subseteq Sub
  /\ chan \in [Sub -> Seq(Event)]
  /\ \A s \in Sub : Len(chan[s]) <= Capacity(s)
  /\ closed \subseteq Sub
  /\ pc \in [Publisher -> {"idle", "rlock", "loop", "drop", "retry"}]
  /\ cnt \in [Publisher -> Nat]
  /\ todo \in [Publisher -> SUBSET Sub]
  /\ cur \in [Publisher -> SUBSET Sub]
  /\ received \in [Sub -> Seq(Event)]
  /\ late \in [Sub -> SUBSET Event]
  /\ lost \in [Sub -> SUBSET Event]
  /\ panicked \in BOOLEAN

\* Publish never sends on a channel that an unsubscribe has closed, and no
\* channel is closed twice, however publishers and leavers interleave.
NeverPanics == ~ panicked

\* What a subscriber has received or has buffered.
Stream(s) == received[s] \o chan[s]

\* A subscriber sees the events of one publisher in the order in which they
\* were published, and none twice, whatever is dropped on the way.
PublisherOrder ==
  \A s \in Sub : \A i, j \in 1 .. Len(Stream(s)) :
    i < j /\ Stream(s)[i].src = Stream(s)[j].src =>
      Stream(s)[i].n < Stream(s)[j].n

\* "if a slow subscriber falls behind, the oldest-pending event is dropped":
\* nothing is discarded but by the offer of an event that came when the
\* subscriber was a whole buffer behind, and one event at most for each such
\* offer.  A reader that lags by less misses nothing, whatever it has lost
\* before and however the publishers that offer to it meet.
LossMeansLag ==
  [][\A s \in Sub : lost'[s] # lost[s] =>
       /\ \E p \in Publisher : s \in cur[p] /\ EventOf(p) \in late[s]
       /\ Cardinality(lost'[s]) <= Cardinality(late'[s])]_vars

\* "It never blocks": every Publish returns though no subscriber reads, and
\* Subscribe and unsubscribe return though publishers hold b.mu in turn and
\* the subscriber itself has stopped reading.
NobodyBlocks ==
  /\ \A p \in Publisher : (pc[p] # "idle") ~> (pc[p] = "idle")
  /\ \A s \in Sub : (status[s] \in {"joining", "leaving"}) ~> (status[s] \in {"on", "off"})

\* Publish gives its own event up only to another publisher: the room that it
\* made is taken, and the newest event in the buffer is not one of its own.
YieldsToOthers ==
  [][\A p \in Publisher, s \in Sub :
       s \in cur[p] /\ pc[p] = "retry" /\ EventOf(p) \in lost'[s] \ lost[s]
         => chan[s] # <<>> /\ chan[s][Len(chan[s])].src # p]_vars

\* "a full subscriber channel has its oldest event dropped to make room":
\* when Publish is done with a subscriber, the new event has been delivered.
NewEventIsDelivered ==
  [][\A p \in Publisher, s \in Sub :
       s \in todo[p] \cup cur[p] /\ s \notin todo'[p] \cup cur'[p]
         => \E i \in 1 .. Len(Stream(s)') : Stream(s)'[i] = EventOf(p)]_vars
=============================================================================
