--------------------------- MODULE EventBusProofs ---------------------------
(***************************************************************************)
(* What EventBus guarantees for any number of publishers, subscribers and  *)
(* events, and any buffer sizes.                                           *)
(***************************************************************************)
EXTENDS EventBus, SequenceTheorems, FiniteSetTheorems, TLAPS

\* Every buffer holds at least one event.
LEMMA CapacityPositive == \A s \in Sub : Capacity(s) \in Nat /\ Capacity(s) > 0
BY BusAssumption DEF Capacity

\* The event in progress is an event.
LEMMA EventOfType ==
  ASSUME TypeOK, NEW p \in Publisher
  PROVE  EventOf(p) \in Event
BY DEF TypeOK, EventOf, Event

\* What a send does to the channels.
LEMMA SendType ==
  ASSUME TypeOK, NEW p \in Publisher, NEW s \in Sub, Send(s, p), ~ Full(s)
  PROVE  /\ chan' \in [Sub -> Seq(Event)]
         /\ \A t \in Sub : Len(chan'[t]) <= Capacity(t)
         /\ panicked' \in BOOLEAN
<1>1. EventOf(p) \in Event
  BY EventOfType
<1>2. /\ chan' = [chan EXCEPT ![s] = Append(chan[s], EventOf(p))]
      /\ chan[s] \in Seq(Event) /\ Len(chan[s]) \in Nat
      /\ Len(chan[s]) < Capacity(s)
  BY CapacityPositive DEF Send, Full, TypeOK
<1>3. Append(chan[s], EventOf(p)) \in Seq(Event)
      /\ Len(Append(chan[s], EventOf(p))) = Len(chan[s]) + 1
  BY <1>1, <1>2
<1>4. \A t \in Sub : Len(chan'[t]) <= Capacity(t)
  BY <1>2, <1>3, CapacityPositive DEF TypeOK
<1>5. QED
  BY <1>2, <1>3, <1>4 DEF Send, TypeOK

\* What taking the oldest event does to the channels.
LEMMA TailType ==
  ASSUME TypeOK, NEW s \in Sub, chan[s] # <<>>,
         chan' = [chan EXCEPT ![s] = Tail(@)]
  PROVE  /\ chan' \in [Sub -> Seq(Event)]
         /\ \A t \in Sub : Len(chan'[t]) <= Capacity(t)
         /\ Head(chan[s]) \in Event
<1>1. chan[s] \in Seq(Event) /\ Len(chan[s]) \in Nat
  BY DEF TypeOK
<1>2. /\ Tail(chan[s]) \in Seq(Event) /\ Len(Tail(chan[s])) = Len(chan[s]) - 1
      /\ Head(chan[s]) \in Event
  BY <1>1
<1>3. \A t \in Sub : Len(chan'[t]) <= Capacity(t)
  BY <1>1, <1>2, CapacityPositive DEF TypeOK
<1>4. QED
  BY <1>2, <1>3 DEF TypeOK

\* Admitting the waiting publishers keeps the types.
LEMMA AdmitType ==
  ASSUME TypeOK, Admit, subs' \subseteq Sub
  PROVE  /\ pc' \in [Publisher -> {"idle", "rlock", "loop", "drop", "retry"}]
         /\ todo' \in [Publisher -> SUBSET Sub]
  BY DEF Admit, TypeOK

\* Every variable of the bus keeps its type, and no channel overflows.
THEOREM TypeCorrect == Spec => []TypeOK
<1>1. Init => TypeOK
  <2> SUFFICES ASSUME Init PROVE TypeOK
    OBVIOUS
  <2>1. \A s \in Sub : Len(chan[s]) <= Capacity(s)
    BY CapacityPositive DEF Init
  <2>2. chan \in [Sub -> Seq(Event)] /\ received \in [Sub -> Seq(Event)]
    BY DEF Init
  <2>3. QED
    BY <2>1, <2>2 DEF Init, TypeOK
<1>2. TypeOK /\ [Next]_vars => TypeOK'
  <2> SUFFICES ASSUME TypeOK, [Next]_vars PROVE TypeOK'
    OBVIOUS
  <2>1. ASSUME NEW s \in Sub, AskLock(s) PROVE TypeOK'
    BY <2>1 DEF AskLock, TypeOK, pubVars
  <2>2. ASSUME NEW s \in Sub, Subscribe(s) \/ Unsubscribe(s) PROVE TypeOK'
    <3>1. CASE Subscribe(s)
      <4>1. subs' \subseteq Sub /\ Admit
        BY <3>1 DEF Subscribe, TypeOK
      <4>2. QED
        BY <3>1, <4>1, AdmitType DEF Subscribe, TypeOK
    <3>2. CASE Unsubscribe(s)
      <4>1. panicked' \in BOOLEAN
        <5>1. CASE s \in subs
          <6>1. panicked' = (s \in closed)
            BY <3>2, <5>1 DEF Unsubscribe
          <6>2. QED
            BY <6>1
        <5>2. CASE s \notin subs
          BY <3>2, <5>2 DEF Unsubscribe, TypeOK
        <5>3. QED
          BY <5>1, <5>2
      <4>2. subs' \subseteq Sub /\ closed' \subseteq Sub
        BY <3>2 DEF Unsubscribe, TypeOK
      <4>3. status' \in [Sub -> {"new", "joining", "on", "leaving", "off"}]
        BY <3>2 DEF Unsubscribe, TypeOK
      <4>4. QED
        BY <3>2, <4>1, <4>2, <4>3, AdmitType DEF Unsubscribe, TypeOK
    <3>3. QED
      BY <2>2, <3>1, <3>2
  <2>3. ASSUME NEW s \in Sub, Receive(s) PROVE TypeOK'
    <3>1. /\ chan' \in [Sub -> Seq(Event)]
          /\ \A t \in Sub : Len(chan'[t]) <= Capacity(t)
          /\ Head(chan[s]) \in Event
      BY <2>3, TailType DEF Receive
    <3>2. received' \in [Sub -> Seq(Event)]
      BY <2>3, <3>1 DEF Receive, TypeOK
    <3>3. QED
      BY <2>3, <3>1, <3>2 DEF Receive, TypeOK, pubVars
  <2>4. ASSUME NEW p \in Publisher, AskRLock(p) \/ RLock(p) \/ RUnlock(p)
        PROVE TypeOK'
    <3>1. CASE AskRLock(p)
      BY <3>1 DEF AskRLock, TypeOK
    <3>2. CASE RLock(p)
      BY <3>2 DEF RLock, TypeOK
    <3>3. CASE RUnlock(p)
      BY <3>3 DEF RUnlock, TypeOK
    <3>4. QED
      BY <2>4, <3>1, <3>2, <3>3
  <2>5. ASSUME NEW p \in Publisher, NEW s \in Sub, TrySend(p, s) PROVE TypeOK'
    <3>1. /\ pc' \in [Publisher -> {"idle", "rlock", "loop", "drop", "retry"}]
          /\ cnt' \in [Publisher -> Nat]
          /\ todo' \in [Publisher -> SUBSET Sub]
          /\ cur' \in [Publisher -> SUBSET Sub]
      <4>1. CASE Full(s)
        <5>1. /\ pc' = [pc EXCEPT ![p] = "drop"] /\ cnt' = cnt
              /\ todo' = [todo EXCEPT ![p] = todo[p] \ {s}]
              /\ cur' = [cur EXCEPT ![p] = {s}]
          BY <2>5, <4>1 DEF TrySend
        <5>2. QED
          BY <5>1 DEF TypeOK
      <4>2. CASE ~ Full(s)
        BY <2>5, <4>2 DEF TrySend, TypeOK
      <4>3. QED
        BY <4>1, <4>2
    <3>0. late' \in [Sub -> SUBSET Event]
      <4>1. late' = [late EXCEPT ![s] = IF Backlog(s) >= Capacity(s)
                                        THEN late[s] \cup {EventOf(p)}
                                        ELSE late[s]]
        BY <2>5 DEF TrySend, Offer
      <4>2. QED
        BY <4>1, EventOfType DEF TypeOK
    <3>2. CASE Full(s)
      BY <2>5, <3>0, <3>1, <3>2 DEF TrySend, TypeOK
    <3>3. CASE ~ Full(s)
      BY <2>5, <3>0, <3>1, <3>3, SendType DEF TrySend, TypeOK
    <3>4. QED
      BY <3>2, <3>3
  <2>6. ASSUME NEW p \in Publisher, NEW s \in Sub, DropOldest(p, s)
        PROVE TypeOK'
    <3>1. /\ pc' \in [Publisher -> {"idle", "rlock", "loop", "drop", "retry"}]
          /\ cnt' \in [Publisher -> Nat]
          /\ todo' \in [Publisher -> SUBSET Sub]
          /\ cur' \in [Publisher -> SUBSET Sub]
      BY <2>6 DEF DropOldest, TypeOK
    <3>2. CASE chan[s] = <<>>
      BY <2>6, <3>1, <3>2 DEF DropOldest, TypeOK
    <3>3. CASE chan[s] # <<>>
      <4>1. lost' \in [Sub -> SUBSET Event]
        <5>1. Head(chan[s]) \in Event
          BY <2>6, <3>3, TailType DEF DropOldest
        <5>2. lost' = [lost EXCEPT ![s] = lost[s] \cup {Head(chan[s])}]
          BY <2>6, <3>3 DEF DropOldest
        <5>3. QED
          BY <5>1, <5>2 DEF TypeOK
      <4>2. /\ chan' \in [Sub -> Seq(Event)]
            /\ \A t \in Sub : Len(chan'[t]) <= Capacity(t)
        BY <2>6, <3>3, TailType DEF DropOldest
      <4>3. QED
        BY <2>6, <3>1, <4>1, <4>2 DEF DropOldest, TypeOK
    <3>4. QED
      BY <3>2, <3>3
  <2>7. ASSUME NEW p \in Publisher, NEW s \in Sub, Retry(p, s) PROVE TypeOK'
    <3>1. /\ pc' \in [Publisher -> {"idle", "rlock", "loop", "drop", "retry"}]
          /\ cnt' \in [Publisher -> Nat]
          /\ todo' \in [Publisher -> SUBSET Sub]
          /\ cur' \in [Publisher -> SUBSET Sub]
      BY <2>7 DEF Retry, TypeOK
    <3>2. CASE Full(s)
      <4>1. lost' \in [Sub -> SUBSET Event] /\ UNCHANGED chan
        <5>1. /\ lost' = [lost EXCEPT ![s] = lost[s] \cup {EventOf(p)}]
              /\ UNCHANGED chan
          BY <2>7, <3>2 DEF Retry
        <5>2. QED
          BY <5>1, EventOfType DEF TypeOK
      <4>2. panicked' \in BOOLEAN
        BY <2>7, <3>2 DEF Retry, TypeOK
      <4>3. QED
        BY <2>7, <3>1, <4>1, <4>2 DEF Retry, TypeOK
    <3>3. CASE ~ Full(s)
      BY <2>7, <3>1, <3>3, SendType DEF Retry, TypeOK
    <3>4. QED
      BY <3>2, <3>3
  <2>8. CASE UNCHANGED vars
    BY <2>8 DEF vars, TypeOK, pubVars
  <2>9. QED
    BY <2>1, <2>2, <2>3, <2>4, <2>5, <2>6, <2>7, <2>8 DEF Next, PublishStep
<1>3. QED
  BY <1>1, <1>2, PTL DEF Spec

-----------------------------------------------------------------------------
(* Nothing is sent on a closed channel.                                    *)

\* Only a publisher that holds b.mu still has subscribers to reach, all of
\* them are registered, and no registered channel is closed.
OpenWhileReading ==
  /\ \A p \in Publisher : /\ p \notin Readers => todo[p] = {} /\ cur[p] = {}
                          /\ pc[p] = "loop" => cur[p] = {}
                          /\ todo[p] \cup cur[p] \subseteq subs
                          /\ todo[p] \cap cur[p] = {}
  /\ closed \cap subs = {}
  /\ \A s \in closed : status[s] \in {"leaving", "off"}
  /\ ~ panicked

\* The read lock keeps what a publisher iterates over registered and open.
LEMMA OpenWhileReadingHolds == Spec => []OpenWhileReading
<1>1. Init => OpenWhileReading
  BY DEF Init, OpenWhileReading
<1>2. TypeOK /\ OpenWhileReading /\ [Next]_vars => OpenWhileReading'
  <2> SUFFICES ASSUME TypeOK, OpenWhileReading, [Next]_vars
               PROVE  OpenWhileReading'
    OBVIOUS
  <2> USE DEF OpenWhileReading, Readers
  <2>1. ASSUME NEW s \in Sub, AskLock(s) PROVE OpenWhileReading'
    BY <2>1 DEF AskLock, TypeOK, pubVars
  <2>2. ASSUME NEW s \in Sub, Subscribe(s) PROVE OpenWhileReading'
    <3>1. /\ subs' = subs \cup {s} /\ status[s] = "joining"
          /\ status' = [status EXCEPT ![s] = "on"]
          /\ UNCHANGED <<closed, cur, panicked>>
      BY <2>2 DEF Subscribe
    <3>2. \A p \in Publisher :
            /\ p \notin Readers /\ todo[p] = {} /\ cur[p] = {}
            /\ (pc'[p] = "loop" /\ todo'[p] = subs') \/ (pc'[p] = pc[p] /\ todo'[p] = {})
      BY <2>2 DEF Subscribe, Admit
    <3>3. QED
      BY <3>1, <3>2 DEF TypeOK
  <2>3. ASSUME NEW s \in Sub, Unsubscribe(s) PROVE OpenWhileReading'
    <3>1. /\ subs' = subs \ {s} /\ cur' = cur
          /\ status' = [status EXCEPT ![s] = "off"]
          /\ \/ s \in subs /\ closed' = closed \cup {s}
             \/ s \notin subs /\ closed' = closed
      BY <2>3 DEF Unsubscribe
    <3> \A p \in Publisher :
          /\ p \notin Readers /\ todo[p] = {} /\ cur[p] = {}
          /\ (pc'[p] = "loop" /\ todo'[p] = subs') \/ (pc'[p] = pc[p] /\ todo'[p] = {})
      BY <2>3 DEF Unsubscribe, Admit
    <3>2. ~ panicked'
      <4>1. CASE s \in subs
        <5>1. s \notin closed
          BY <4>1
        <5>2. QED
          BY <2>3, <4>1, <5>1 DEF Unsubscribe
      <4>2. CASE s \notin subs
        BY <2>3, <4>2 DEF Unsubscribe
      <4>3. QED
        BY <4>1, <4>2
    <3>3. QED
      BY <3>1, <3>2 DEF TypeOK
  <2>4. ASSUME NEW s \in Sub, Receive(s) PROVE OpenWhileReading'
    BY <2>4 DEF Receive, pubVars
  <2>5. ASSUME NEW p \in Publisher, AskRLock(p) \/ RLock(p) \/ RUnlock(p)
        PROVE OpenWhileReading'
    <3>1. CASE AskRLock(p)
      BY <3>1 DEF AskRLock, TypeOK
    <3>2. CASE RLock(p)
      BY <3>2 DEF RLock, TypeOK
    <3>3. CASE RUnlock(p)
      BY <3>3 DEF RUnlock, TypeOK
    <3>4. QED
      BY <2>5, <3>1, <3>2, <3>3
  <2>6. ASSUME NEW p \in Publisher, NEW s \in Sub, TrySend(p, s)
        PROVE OpenWhileReading'
    <3>1. s \in subs /\ s \notin closed
      BY <2>6 DEF TrySend
    <3>2. ~ panicked'
      BY <2>6, <3>1 DEF TrySend, Send
    <3>3. QED
      BY <2>6, <3>1, <3>2 DEF TrySend, TypeOK
  <2>7. ASSUME NEW p \in Publisher, NEW s \in Sub, DropOldest(p, s)
        PROVE OpenWhileReading'
    BY <2>7 DEF DropOldest, TypeOK
  <2>8. ASSUME NEW p \in Publisher, NEW s \in Sub, Retry(p, s)
        PROVE OpenWhileReading'
    <3>1. s \in subs /\ s \notin closed
      BY <2>8 DEF Retry
    <3>2. ~ panicked'
      BY <2>8, <3>1 DEF Retry, Send
    <3>3. QED
      BY <2>8, <3>2 DEF Retry, TypeOK
  <2>9. CASE UNCHANGED vars
    BY <2>9 DEF vars, pubVars
  <2>10. QED
    BY <2>1, <2>2, <2>3, <2>4, <2>5, <2>6, <2>7, <2>8, <2>9
    DEF Next, PublishStep
<1>3. QED
  BY <1>1, <1>2, TypeCorrect, PTL DEF Spec

\* Publish never sends on a closed channel and nothing is closed twice, for
\* any number of publishers and of subscribers coming and going.
THEOREM NeverPanicsHolds == Spec => []NeverPanics
<1>1. OpenWhileReading => NeverPanics
  BY DEF OpenWhileReading, NeverPanics
<1>2. QED
  BY <1>1, OpenWhileReadingHolds, PTL

-----------------------------------------------------------------------------
(* The order of one publisher's events.                                    *)

\* q holds the events of each publisher in the order of their counts.
Ordered(q) == \A i, j \in 1 .. Len(q) :
                i < j /\ q[i].src = q[j].src => q[i].n < q[j].n

\* Publisher p has not offered its event in progress to subscriber s.
NotOffered(p, s) == pc[p] = "rlock" \/ s \in todo[p] \/ s \in cur[p]

\* Every event of q is older than the one its publisher has yet to offer s.
Older(q, s) == \A i \in 1 .. Len(q) :
                 /\ q[i].n <= cnt[q[i].src]
                 /\ NotOffered(q[i].src, s) => q[i].n < cnt[q[i].src]

InOrder(s) == Ordered(Stream(s)) /\ Older(Stream(s), s)

\* Both a subscriber's past and its buffer are sequences of events.
LEMMA StreamType == ASSUME TypeOK, NEW s \in Sub
                    PROVE  Stream(s) \in Seq(Event)
BY DEF TypeOK, Stream

\* Moving the head of q to the end of r keeps their concatenation.
LEMMA MoveHead ==
  ASSUME NEW S, NEW r \in Seq(S), NEW q \in Seq(S), q # <<>>
  PROVE  Append(r, Head(q)) \o Tail(q) = r \o q
<1>1. Len(q) \in Nat \ {0} /\ Head(q) \in S /\ Tail(q) \in Seq(S)
  BY EmptySeq, HeadTailProperties
<1>2. q = <<q[1]>> \o SubSeq(q, 2, Len(q))
  <2>1. 1 \in 1 .. Len(q) /\ Len(q) \in 1 .. Len(q)
    BY <1>1
  <2>2. SubSeq(q, 1, Len(q)) = <<q[1]>> \o SubSeq(q, 1 + 1, Len(q))
    BY <2>1, SubSeqRecursiveFirst
  <2>3. SubSeq(q, 1, Len(q)) = q
    BY SubSeqFull
  <2>4. 1 + 1 = 2
    OBVIOUS
  <2>5. QED
    BY <2>2, <2>3, <2>4
<1>3. q = <<Head(q)>> \o Tail(q)
  <2>1. Tail(q) = SubSeq(q, 2, Len(q))
    BY TailIsSubSeq
  <2>2. Head(q) = q[1]
    OBVIOUS
  <2>3. QED
    BY <1>2, <2>1, <2>2
<1>4. Append(r, Head(q)) = r \o <<Head(q)>>
  BY <1>1, AppendIsConcat
<1>5. <<Head(q)>> \in Seq(S)
  BY <1>1
<1>6. (r \o <<Head(q)>>) \o Tail(q) = r \o (<<Head(q)>> \o Tail(q))
  BY <1>1, <1>5, ConcatAssociative
<1>7. QED
  BY <1>3, <1>4, <1>6

\* Appending to q appends to what q is the end of.
LEMMA AppendAfter ==
  ASSUME NEW S, NEW r \in Seq(S), NEW q \in Seq(S), NEW x \in S
  PROVE  r \o Append(q, x) = Append(r \o q, x)
<1>1. Append(q, x) = q \o <<x>>
  BY AppendIsConcat
<1>2. r \o q \in Seq(S) /\ <<x>> \in Seq(S)
  BY ConcatProperties
<1>3. Append(r \o q, x) = (r \o q) \o <<x>>
  BY <1>2, AppendIsConcat
<1>4. (r \o q) \o <<x>> = r \o (q \o <<x>>)
  BY <1>2, ConcatAssociative
<1>5. QED
  BY <1>1, <1>3, <1>4

\* Dropping the head of q shifts what comes after it by one.
LEMMA DropMiddle ==
  ASSUME NEW S, NEW r \in Seq(S), NEW q \in Seq(S), q # <<>>
  PROVE  /\ Len(r \o Tail(q)) = Len(r \o q) - 1
         /\ \A i \in 1 .. Len(r \o Tail(q)) :
              (r \o Tail(q))[i] = (r \o q)[IF i <= Len(r) THEN i ELSE i + 1]
<1> DEFINE t == Tail(q)
<1>1. /\ Len(q) \in Nat \ {0} /\ Len(r) \in Nat
      /\ t \in Seq(S) /\ Len(t) = Len(q) - 1
      /\ \A i \in 1 .. Len(t) : t[i] = q[i + 1]
  BY EmptySeq, HeadTailProperties, LenProperties
<1> HIDE DEF t
<1>2. /\ Len(r \o t) = Len(r) + Len(t)
      /\ \A i \in 1 .. Len(r) + Len(t) :
           (r \o t)[i] = IF i <= Len(r) THEN r[i] ELSE t[i - Len(r)]
  BY <1>1, ConcatProperties
<1>3. /\ Len(r \o q) = Len(r) + Len(q)
      /\ \A i \in 1 .. Len(r) + Len(q) :
           (r \o q)[i] = IF i <= Len(r) THEN r[i] ELSE q[i - Len(r)]
  BY ConcatProperties
<1>4. ASSUME NEW i \in 1 .. Len(r) + Len(t)
      PROVE  (r \o t)[i] = (r \o q)[IF i <= Len(r) THEN i ELSE i + 1]
  <2>1. CASE i <= Len(r)
    BY <1>1, <1>2, <1>3, <2>1
  <2>2. CASE ~ (i <= Len(r))
    <3>1. i - Len(r) \in 1 .. Len(t) /\ i + 1 \in 1 .. Len(r) + Len(q)
          /\ ~ (i + 1 <= Len(r)) /\ (i + 1) - Len(r) = (i - Len(r)) + 1
      BY <1>1, <2>2
    <3>2. (r \o t)[i] = t[i - Len(r)]
      BY <1>2, <2>2
    <3>3. t[i - Len(r)] = q[(i + 1) - Len(r)]
      BY <1>1, <3>1
    <3>4. (r \o q)[i + 1] = q[(i + 1) - Len(r)]
      BY <1>3, <3>1
    <3>5. QED
      BY <2>2, <3>2, <3>3, <3>4
  <2>3. QED
    BY <2>1, <2>2
<1>5. Len(r \o t) = Len(r \o q) - 1
  BY <1>1, <1>2, <1>3
<1>6. QED
  BY <1>2, <1>4, <1>5 DEF t

\* Taking an event out of the buffer leaves the stream as it is.
LEMMA ReceiveStream ==
  ASSUME TypeOK, NEW s \in Sub, Receive(s)
  PROVE  \A t \in Sub : Stream(t)' = Stream(t)
<1>1. chan[s] \in Seq(Event) /\ received[s] \in Seq(Event) /\ chan[s] # <<>>
  BY DEF Receive, TypeOK
<1>2. Append(received[s], Head(chan[s])) \o Tail(chan[s])
        = received[s] \o chan[s]
  BY <1>1, MoveHead
<1>3. QED
  BY <1>2 DEF Receive, TypeOK, Stream

\* A send puts one event at the end of the stream.
LEMMA SendStream ==
  ASSUME TypeOK, NEW p \in Publisher, NEW s \in Sub, Send(s, p),
         UNCHANGED received
  PROVE  /\ Stream(s)' = Append(Stream(s), EventOf(p))
         /\ \A t \in Sub \ {s} : Stream(t)' = Stream(t)
<1>1. /\ chan[s] \in Seq(Event) /\ received[s] \in Seq(Event)
      /\ EventOf(p) \in Event
  BY EventOfType DEF TypeOK
<1> DEFINE r == received[s]
           q == chan[s]
           x == EventOf(p)
<1> HIDE DEF r, q, x
<1>2. r \in Seq(Event) /\ q \in Seq(Event) /\ x \in Event
  BY <1>1 DEF r, q, x
<1>3. r \o Append(q, x) = Append(r \o q, x)
  BY <1>2, AppendAfter
<1>4. QED
  BY <1>3 DEF Send, TypeOK, Stream, r, q, x

\* Dropping the oldest buffered event takes one event out of the stream.
LEMMA DropStream ==
  ASSUME TypeOK, NEW s \in Sub, chan[s] # <<>>, UNCHANGED received,
         chan' = [chan EXCEPT ![s] = Tail(@)]
  PROVE  /\ Len(Stream(s)') = Len(Stream(s)) - 1
         /\ \A i \in 1 .. Len(Stream(s)') :
              Stream(s)'[i] = Stream(s)[IF i <= Len(received[s]) THEN i ELSE i + 1]
         /\ \A u \in Sub \ {s} : Stream(u)' = Stream(u)
<1>1. chan[s] \in Seq(Event) /\ received[s] \in Seq(Event)
  BY DEF TypeOK
<1>2. /\ Stream(s)' = received[s] \o Tail(chan[s])
      /\ Stream(s) = received[s] \o chan[s]
      /\ \A u \in Sub \ {s} : Stream(u)' = Stream(u)
  BY DEF Stream, TypeOK
<1> DEFINE r == received[s]
           q == chan[s]
<1> HIDE DEF r, q
<1>3. r \in Seq(Event) /\ q \in Seq(Event) /\ q # <<>>
  BY <1>1 DEF r, q
<1>4. /\ Len(r \o Tail(q)) = Len(r \o q) - 1
      /\ \A i \in 1 .. Len(r \o Tail(q)) :
           (r \o Tail(q))[i] = (r \o q)[IF i <= Len(r) THEN i ELSE i + 1]
  BY <1>3, DropMiddle
<1> DEFINE a == r \o Tail(q)
           b == r \o q
<1>5. Stream(s)' = a /\ Stream(s) = b
  BY <1>2 DEF r, q
<1>6. /\ Len(a) = Len(b) - 1
      /\ \A i \in 1 .. Len(a) : a[i] = b[IF i <= Len(r) THEN i ELSE i + 1]
  BY <1>4
<1> HIDE DEF a, b
<1>7. QED
  BY <1>2, <1>5, <1>6 DEF r

\* The events of a stream are events.
LEMMA StreamEvents ==
  ASSUME TypeOK, NEW s \in Sub, NEW i \in 1 .. Len(Stream(s))
  PROVE  /\ Stream(s)[i] \in Event /\ Stream(s)[i].n \in Nat
         /\ Stream(s)[i].src \in Publisher
         /\ cnt[Stream(s)[i].src] \in Nat
<1>1. Stream(s)[i] \in Event
  BY StreamType, ElementOfSeq, Zenon
<1>2. QED
  BY <1>1 DEF Event, TypeOK

\* A stream that stays as it is stays in order, if no publisher comes to
\* owe it an event.
LEMMA KeepStream ==
  ASSUME TypeOK, NEW s \in Sub, InOrder(s),
         Stream(s)' = Stream(s), UNCHANGED cnt,
         \A p \in Publisher : NotOffered(p, s)' => NotOffered(p, s)
  PROVE  InOrder(s)'
<1>1. Ordered(Stream(s)')
  BY DEF InOrder
<1>2. ASSUME NEW i \in 1 .. Len(Stream(s))
      PROVE  /\ Stream(s)[i].n <= cnt'[Stream(s)[i].src]
             /\ NotOffered(Stream(s)[i].src, s)' =>
                  Stream(s)[i].n < cnt'[Stream(s)[i].src]
  BY StreamEvents DEF InOrder, Older
<1>3. QED
  BY <1>1, <1>2 DEF InOrder, Ordered, Older

\* An event that had not been offered goes to the end of a stream in order.
LEMMA GrowStream ==
  ASSUME TypeOK, NEW s \in Sub, NEW p \in Publisher, InOrder(s),
         Stream(s)' = Append(Stream(s), EventOf(p)), UNCHANGED cnt,
         NotOffered(p, s), ~ NotOffered(p, s)',
         \A q \in Publisher : NotOffered(q, s)' => NotOffered(q, s)
  PROVE  InOrder(s)'
<1> DEFINE q == Stream(s)
           e == EventOf(p)
<1>1. /\ Len(Append(q, e)) = Len(q) + 1 /\ Len(q) \in Nat
      /\ \A i \in 1 .. Len(q) : Append(q, e)[i] = q[i]
      /\ Append(q, e)[Len(q) + 1] = e
  BY StreamType, EventOfType, AppendProperties, LenProperties
<1>2. e.src = p /\ e.n = cnt[p] /\ cnt[p] \in Nat
  BY DEF EventOf, TypeOK
<1>3. \A i \in 1 .. Len(q) : /\ q[i].n \in Nat /\ q[i].src \in Publisher
                             /\ cnt[q[i].src] \in Nat
                             /\ q[i].src = p => q[i].n < e.n
  BY <1>2, StreamEvents DEF InOrder, Older
<1>4. \A i, j \in 1 .. Len(q) : i < j /\ q[i].src = q[j].src => q[i].n < q[j].n
  BY DEF InOrder, Ordered
<1>5. \A i \in 1 .. Len(q) : /\ q[i].n <= cnt[q[i].src]
                             /\ NotOffered(q[i].src, s) => q[i].n < cnt[q[i].src]
  BY DEF InOrder, Older
<1> DEFINE z == Append(q, e)
<1>z. /\ Len(z) = Len(q) + 1 /\ Len(q) \in Nat
      /\ \A i \in 1 .. Len(q) : z[i] = q[i]
      /\ z[Len(q) + 1] = e
      /\ Stream(s)' = z
  BY <1>1
<1> HIDE DEF q, e, z
<1>6. Ordered(z)
  <2> SUFFICES ASSUME NEW i \in 1 .. Len(q) + 1, NEW j \in 1 .. Len(q) + 1,
                      i < j, z[i].src = z[j].src
               PROVE  z[i].n < z[j].n
    BY <1>z DEF Ordered
  <2>1. i \in 1 .. Len(q) /\ (j \in 1 .. Len(q) \/ j = Len(q) + 1)
    BY <1>z
  <2>2. CASE j \in 1 .. Len(q)
    BY <1>z, <1>4, <2>1, <2>2
  <2>3. CASE j = Len(q) + 1
    BY <1>z, <1>2, <1>3, <2>1, <2>3
  <2>4. QED
    BY <2>1, <2>2, <2>3
<1>7. ASSUME NEW i \in 1 .. Len(q) + 1, NEW f \in Publisher, f = z[i].src
      PROVE  z[i].n <= cnt[f] /\ (NotOffered(f, s)' => z[i].n < cnt[f])
  <2>1. CASE i \in 1 .. Len(q)
    BY <1>z, <1>3, <1>5, <1>7, <2>1
  <2>2. CASE i = Len(q) + 1
    BY <1>z, <1>2, <1>7, <2>2
  <2>3. QED
    BY <1>z, <2>1, <2>2
<1>8. \A i \in 1 .. Len(q) + 1 : z[i].src \in Publisher
  BY <1>z, <1>2, <1>3
<1>9. Older(Stream(s), s)'
  BY <1>z, <1>7, <1>8 DEF Older
<1>10. QED
  BY <1>z, <1>6, <1>9 DEF InOrder

\* A stream in order stays so when an event is taken out of it.
LEMMA ShrinkStream ==
  ASSUME TypeOK, NEW s \in Sub, InOrder(s), NEW k \in Nat,
         Len(Stream(s)') = Len(Stream(s)) - 1,
         \A i \in 1 .. Len(Stream(s)') :
           Stream(s)'[i] = Stream(s)[IF i <= k THEN i ELSE i + 1],
         UNCHANGED cnt,
         \A p \in Publisher : NotOffered(p, s)' => NotOffered(p, s)
  PROVE  InOrder(s)'
<1> DEFINE q == Stream(s)
           z == Stream(s)'
           g(i) == IF i <= k THEN i ELSE i + 1
<1>1. Len(q) \in Nat /\ Len(z) = Len(q) - 1
  BY StreamType, LenProperties
<1>2. \A i \in 1 .. Len(z) : g(i) \in 1 .. Len(q) /\ z[i] = q[g(i)]
  BY <1>1
<1>3. \A i, j \in 1 .. Len(z) : i < j => g(i) < g(j)
  BY <1>1
<1>4. \A i \in 1 .. Len(q) : /\ q[i].n \in Nat /\ q[i].src \in Publisher
                             /\ cnt[q[i].src] \in Nat
  BY StreamEvents
<1>5. \A i, j \in 1 .. Len(q) : i < j /\ q[i].src = q[j].src => q[i].n < q[j].n
  BY DEF InOrder, Ordered
<1>6. \A i \in 1 .. Len(q) : /\ q[i].n <= cnt[q[i].src]
                             /\ NotOffered(q[i].src, s) => q[i].n < cnt[q[i].src]
  BY DEF InOrder, Older
<1> HIDE DEF q, z, g
<1>7. Ordered(z)
  BY <1>2, <1>3, <1>5 DEF Ordered
<1>8. ASSUME NEW i \in 1 .. Len(z), NEW f \in Publisher, f = z[i].src
      PROVE  z[i].n <= cnt[f] /\ (NotOffered(f, s)' => z[i].n < cnt[f])
  BY <1>2, <1>4, <1>6, <1>8
<1>9. \A i \in 1 .. Len(z) : z[i].src \in Publisher
  BY <1>2, <1>4
<1>10. Older(Stream(s), s)'
  BY <1>8, <1>9 DEF Older, z
<1>11. QED
  BY <1>7, <1>10 DEF InOrder, z

StreamInv == \A s \in Sub : InOrder(s)

\* No step brings a stream out of order.
LEMMA StreamStep ==
  ASSUME TypeOK, OpenWhileReading, StreamInv, [Next]_vars, NEW u \in Sub
  PROVE  InOrder(u)'
<1>0. InOrder(u)
  BY DEF StreamInv
<1>1. ASSUME NEW s \in Sub, AskLock(s) \/ Subscribe(s) \/ Unsubscribe(s)
      PROVE InOrder(u)'
  <2>1. /\ UNCHANGED <<chan, received, cnt, cur>>
        /\ Admit \/ UNCHANGED <<pc, todo>>
    BY <1>1 DEF AskLock, Subscribe, Unsubscribe, pubVars
  <2>2. /\ Stream(u)' = Stream(u)
        /\ \A p \in Publisher : NotOffered(p, u)' => NotOffered(p, u)
    BY <2>1 DEF Stream, NotOffered, Admit, TypeOK
  <2>3. QED
    BY <1>0, <2>1, <2>2, KeepStream
<1>2. ASSUME NEW s \in Sub, Receive(s) PROVE InOrder(u)'
  <2>1. UNCHANGED <<pc, cnt, todo, cur>>
    BY <1>2 DEF Receive, pubVars
  <2>2. \A p \in Publisher : NotOffered(p, u)' = NotOffered(p, u)
    BY <2>1 DEF NotOffered
  <2>3. QED
    BY <1>0, <1>2, <2>1, <2>2, ReceiveStream, KeepStream
<1>3. ASSUME NEW p \in Publisher, AskRLock(p) PROVE InOrder(u)'
  <2> DEFINE q == Stream(u)
  <2>1. /\ Stream(u)' = q
        /\ cnt' = [cnt EXCEPT ![p] = cnt[p] + 1]
        /\ \A f \in Publisher \ {p} : NotOffered(f, u)' => NotOffered(f, u)
    BY <1>3 DEF AskRLock, Stream, NotOffered, TypeOK
  <2>2. \A i \in 1 .. Len(q) : /\ q[i].n \in Nat /\ q[i].src \in Publisher
                               /\ cnt[q[i].src] \in Nat
    BY StreamEvents
  <2>3. \A i \in 1 .. Len(q) :
          /\ q[i].n <= cnt[q[i].src]
          /\ NotOffered(q[i].src, u) => q[i].n < cnt[q[i].src]
    BY <1>0 DEF InOrder, Older
  <2>4. cnt \in [Publisher -> Nat]
    BY DEF TypeOK
  <2> HIDE DEF q
  <2>5. ASSUME NEW i \in 1 .. Len(q), NEW f \in Publisher, f = q[i].src
        PROVE  q[i].n <= cnt'[f] /\ (NotOffered(f, u)' => q[i].n < cnt'[f])
    <3>1. /\ q[i].n \in Nat /\ cnt[f] \in Nat /\ q[i].n <= cnt[f]
          /\ NotOffered(f, u) => q[i].n < cnt[f]
      BY <2>2, <2>3, <2>5
    <3>2. CASE f = p
      <4>1. cnt'[f] = cnt[f] + 1
        BY <2>1, <2>4, <3>2
      <4>2. QED
        BY <3>1, <4>1
    <3>3. CASE f # p
      <4>1. cnt'[f] = cnt[f] /\ (NotOffered(f, u)' => NotOffered(f, u))
        BY <2>1, <2>4, <3>3
      <4>2. QED
        BY <3>1, <4>1
    <3>4. QED
      BY <3>2, <3>3
  <2>6. Older(Stream(u), u)'
    BY <2>1, <2>2, <2>5 DEF Older
  <2>7. QED
    BY <1>0, <2>1, <2>6 DEF InOrder, Ordered, q
<1>4. ASSUME NEW p \in Publisher, RLock(p) \/ RUnlock(p) PROVE InOrder(u)'
  <2>1. Stream(u)' = Stream(u) /\ cnt' = cnt
    BY <1>4 DEF RLock, RUnlock, Stream
  <2>2. \A f \in Publisher : NotOffered(f, u)' => NotOffered(f, u)
    <3>1. CASE RLock(p)
      BY <3>1 DEF RLock, NotOffered, TypeOK
    <3>2. CASE RUnlock(p)
      BY <3>2 DEF RUnlock, NotOffered, TypeOK
    <3>3. QED
      BY <1>4, <3>1, <3>2
  <2>3. QED
    BY <1>0, <2>1, <2>2, KeepStream
<1>5. ASSUME NEW p \in Publisher, NEW s \in Sub, TrySend(p, s)
      PROVE InOrder(u)'
  <2>1. CASE Full(s)
    <3>1. Stream(u)' = Stream(u) /\ cnt' = cnt
      BY <1>5, <2>1 DEF TrySend, Stream
    <3>2. /\ pc' = [pc EXCEPT ![p] = "drop"] /\ cur' = [cur EXCEPT ![p] = {s}]
          /\ todo' = [todo EXCEPT ![p] = todo[p] \ {s}] /\ s \in todo[p]
      BY <1>5, <2>1 DEF TrySend
    <3>3. \A f \in Publisher : NotOffered(f, u)' => NotOffered(f, u)
      BY <3>2 DEF NotOffered, TypeOK
    <3>4. QED
      BY <1>0, <3>1, <3>3, KeepStream
  <2>2. CASE ~ Full(s)
    <3>1. Send(s, p) /\ UNCHANGED <<received, cnt, pc, cur>>
          /\ todo' = [todo EXCEPT ![p] = todo[p] \ {s}] /\ s \in todo[p]
          /\ pc[p] = "loop"
      BY <1>5, <2>2 DEF TrySend
    <3>2. \A f \in Publisher : NotOffered(f, u)' => NotOffered(f, u)
      BY <3>1 DEF NotOffered, TypeOK
    <3>3. NotOffered(p, s) /\ ~ NotOffered(p, s)'
      BY <3>1 DEF NotOffered, TypeOK, OpenWhileReading
    <3>4. CASE u = s
      BY <1>0, <3>1, <3>2, <3>3, <3>4, SendStream, GrowStream
    <3>5. CASE u # s
      BY <1>0, <3>1, <3>2, <3>5, SendStream, KeepStream
    <3>6. QED
      BY <3>4, <3>5
  <2>3. QED
    BY <2>1, <2>2
<1>6. ASSUME NEW p \in Publisher, NEW s \in Sub, DropOldest(p, s)
      PROVE InOrder(u)'
  <2>1. UNCHANGED <<cnt, todo, cur, received>>
        /\ pc[p] = "drop" /\ pc' = [pc EXCEPT ![p] = "retry"]
    BY <1>6 DEF DropOldest
  <2>2. \A f \in Publisher : NotOffered(f, u)' => NotOffered(f, u)
    BY <2>1 DEF NotOffered, TypeOK
  <2>3. CASE chan[s] = <<>>
    BY <1>0, <1>6, <2>1, <2>2, <2>3, KeepStream DEF DropOldest, Stream
  <2>4. CASE chan[s] # <<>>
    <3>1. chan' = [chan EXCEPT ![s] = Tail(@)]
      BY <1>6, <2>4 DEF DropOldest
    <3>2. received[s] \in Seq(Event)
      BY DEF TypeOK
    <3>3. CASE u = s
      <4> DEFINE k == Len(received[s])
      <4>1. k \in Nat
        BY <3>2, LenProperties
      <4>2. /\ Len(Stream(s)') = Len(Stream(s)) - 1
            /\ \A i \in 1 .. Len(Stream(s)') :
                 Stream(s)'[i] = Stream(s)[IF i <= k THEN i ELSE i + 1]
        BY <2>1, <2>4, <3>1, DropStream
      <4> HIDE DEF k
      <4>3. QED
        BY <1>0, <2>1, <2>2, <3>3, <4>1, <4>2, ShrinkStream
    <3>4. CASE u # s
      BY <1>0, <2>1, <2>2, <2>4, <3>1, <3>4, DropStream, KeepStream
    <3>5. QED
      BY <3>3, <3>4
  <2>5. QED
    BY <2>3, <2>4
<1>7. ASSUME NEW p \in Publisher, NEW s \in Sub, Retry(p, s)
      PROVE InOrder(u)'
  <2>1. /\ UNCHANGED <<cnt, todo, received>> /\ pc[p] = "retry" /\ s \in cur[p]
        /\ pc' = [pc EXCEPT ![p] = "loop"] /\ cur' = [cur EXCEPT ![p] = {}]
    BY <1>7 DEF Retry
  <2>2. \A f \in Publisher : NotOffered(f, u)' => NotOffered(f, u)
    BY <2>1 DEF NotOffered, TypeOK
  <2>3. NotOffered(p, s) /\ ~ NotOffered(p, s)'
    BY <2>1 DEF NotOffered, TypeOK, OpenWhileReading
  <2>4. CASE Full(s)
    <3>1. Stream(u)' = Stream(u)
      BY <1>7, <2>4 DEF Retry, Stream
    <3>2. QED
      BY <1>0, <2>1, <2>2, <3>1, KeepStream
  <2>5. CASE ~ Full(s)
    <3>1. Send(s, p)
      BY <1>7, <2>5 DEF Retry
    <3>2. CASE u = s
      BY <1>0, <2>1, <2>2, <2>3, <3>1, <3>2, SendStream, GrowStream
    <3>3. CASE u # s
      BY <1>0, <2>1, <2>2, <3>1, <3>3, SendStream, KeepStream
    <3>4. QED
      BY <3>2, <3>3
  <2>6. QED
    BY <2>4, <2>5
<1>8. CASE UNCHANGED vars
  <2>1. UNCHANGED <<chan, received, pc, cnt, todo, cur>>
    BY <1>8 DEF vars, pubVars
  <2>2. Stream(u)' = Stream(u) /\ \A p \in Publisher : NotOffered(p, u)' = NotOffered(p, u)
    BY <2>1 DEF Stream, NotOffered
  <2>3. QED
    BY <1>0, <2>1, <2>2, KeepStream
<1>9. QED
  BY <1>1, <1>2, <1>3, <1>4, <1>5, <1>6, <1>7, <1>8 DEF Next, PublishStep

\* The streams are in order at all times.
LEMMA StreamInvHolds == Spec => []StreamInv
<1>1. Init => StreamInv
  <2> SUFFICES ASSUME Init, NEW s \in Sub PROVE InOrder(s)
    BY DEF StreamInv
  <2>1. Stream(s) = <<>>
    BY DEF Init, Stream
  <2>2. QED
    BY <2>1 DEF InOrder, Ordered, Older
<1>2. TypeOK /\ OpenWhileReading /\ StreamInv /\ [Next]_vars => StreamInv'
  BY StreamStep DEF StreamInv
<1>3. QED
  BY <1>1, <1>2, TypeCorrect, OpenWhileReadingHolds, PTL DEF Spec

\* Every subscriber sees each publisher's events in the order in which they
\* were published and none twice, however many goroutines publish at once
\* and whatever is dropped.
THEOREM PublisherOrderHolds == Spec => []PublisherOrder
<1>1. StreamInv => PublisherOrder
  BY DEF StreamInv, InOrder, Ordered, PublisherOrder
<1>2. QED
  BY <1>1, StreamInvHolds, PTL

\* The oldest buffered event is where the buffer begins in the stream.
LEMMA HeadInStream ==
  ASSUME TypeOK, NEW s \in Sub, chan[s] # <<>>
  PROVE  /\ Len(received[s]) + 1 \in 1 .. Len(Stream(s))
         /\ Stream(s)[Len(received[s]) + 1] = Head(chan[s])
<1> DEFINE r == received[s]
           c == chan[s]
<1>1. r \in Seq(Event) /\ c \in Seq(Event) /\ c # <<>> /\ Stream(s) = r \o c
  BY DEF TypeOK, Stream
<1> HIDE DEF r, c
<1>2. Len(r) \in Nat /\ Len(c) \in Nat /\ Len(c) > 0 /\ Head(c) = c[1]
  BY <1>1
<1>3. Len(r \o c) = Len(r) + Len(c) /\ (r \o c)[Len(r) + 1] = c[1]
  BY <1>1, <1>2
<1>4. /\ Len(r) + 1 \in 1 .. Len(Stream(s))
      /\ Stream(s)[Len(r) + 1] = Head(c)
  BY <1>1, <1>2, <1>3
<1>5. QED
  BY <1>4 DEF r, c

-----------------------------------------------------------------------------
(* What an event is given up for.                                          *)

\* A publisher makes room in one channel at a time, and if that is full again
\* when it retries, another publisher has filled it.
Refilled ==
  \A p \in Publisher :
    /\ \A s, t \in cur[p] : s = t
    /\ \A s \in cur[p] : pc[p] = "retry" /\ Full(s) =>
         chan[s][Len(chan[s])].src # p

\* A channel from which an event was taken is not full.
LEMMA TakenIsNotFull ==
  ASSUME TypeOK, NEW s \in Sub,
         \/ chan[s] = <<>> /\ chan' = chan
         \/ chan[s] # <<>> /\ chan' = [chan EXCEPT ![s] = Tail(@)]
  PROVE  ~ Full(s)' /\ \A t \in Sub \ {s} : chan'[t] = chan[t]
<1>1. /\ chan[s] \in Seq(Event) /\ Len(chan[s]) \in Nat
      /\ Len(chan[s]) <= Capacity(s)
  BY DEF TypeOK
<1>2. Len(chan'[s]) \in Nat /\ Len(chan'[s]) < Capacity(s)
  <2>1. CASE chan[s] = <<>>
    BY <2>1, CapacityPositive
  <2>2. CASE chan[s] # <<>>
    <3>1. Len(Tail(chan[s])) = Len(chan[s]) - 1 /\ Len(chan[s]) > 0
      BY <1>1, <2>2
    <3>2. chan'[s] = Tail(chan[s])
      BY <2>2 DEF TypeOK
    <3>3. QED
      BY <1>1, <3>1, <3>2, CapacityPositive
  <2>3. QED
    BY <2>1, <2>2
<1>3. ~ Full(s)'
  BY <1>2, CapacityPositive DEF Full, Capacity
<1>4. QED
  BY <1>3 DEF TypeOK

\* What a send appends is the last event.
LEMMA SentIsLast ==
  ASSUME TypeOK, NEW p \in Publisher, NEW s \in Sub, Send(s, p)
  PROVE  /\ chan'[s][Len(chan'[s])].src = p
         /\ \A t \in Sub \ {s} : chan'[t] = chan[t]
<1>1. chan' = [chan EXCEPT ![s] = Append(@, EventOf(p))]
  BY DEF Send
<1>2. chan[s] \in Seq(Event) /\ EventOf(p) \in Event /\ EventOf(p).src = p
  BY EventOfType DEF TypeOK, EventOf
<1>3. chan'[s] = Append(chan[s], EventOf(p))
  BY <1>1 DEF TypeOK
<1>4. Append(chan[s], EventOf(p))[Len(Append(chan[s], EventOf(p)))] = EventOf(p)
  BY <1>2
<1>5. QED
  BY <1>1, <1>2, <1>3, <1>4 DEF TypeOK

\* A send by a publisher that has no retry to come.
LEMMA SentKeepsRefilled ==
  ASSUME TypeOK, Refilled, NEW p \in Publisher, NEW s \in Sub, Send(s, p),
         pc'[p] # "retry",
         \A f \in Publisher : cur'[f] \subseteq cur[f],
         \A f \in Publisher \ {p} : pc'[f] = pc[f]
  PROVE  Refilled'
<1>1. /\ chan'[s][Len(chan'[s])].src = p
      /\ \A t \in Sub \ {s} : chan'[t] = chan[t]
  BY SentIsLast
<1>2. ASSUME NEW f \in Publisher, NEW t \in cur'[f], pc'[f] = "retry", Full(t)'
      PROVE  chan'[t][Len(chan'[t])].src # f
  <2>1. f # p /\ t \in cur[f] /\ t \in Sub /\ pc[f] = "retry"
    BY <1>2 DEF TypeOK
  <2>2. CASE t = s
    BY <1>1, <2>1, <2>2
  <2>3. CASE t # s
    <3>1. chan'[t] = chan[t]
      BY <1>1, <2>1, <2>3
    <3>2. Full(t)
      BY <1>2, <3>1 DEF Full
    <3>3. QED
      BY <2>1, <3>1, <3>2 DEF Refilled
  <2>4. QED
    BY <2>2, <2>3
<1>3. \A f \in Publisher : \A t, u \in cur'[f] : t = u
  BY DEF Refilled
<1>4. QED
  BY <1>2, <1>3 DEF Refilled

\* Room that was made is taken only by another publisher.
LEMMA RefilledHolds == Spec => []Refilled
<1>1. Init => Refilled
  BY DEF Init, Refilled
<1>2. TypeOK /\ OpenWhileReading /\ Refilled /\ [Next]_vars => Refilled'
  <2> SUFFICES ASSUME TypeOK, OpenWhileReading, Refilled, [Next]_vars
               PROVE  Refilled'
    OBVIOUS
  <2>1. ASSUME NEW s \in Sub, AskLock(s) \/ Subscribe(s) \/ Unsubscribe(s)
        PROVE  Refilled'
    <3>1. UNCHANGED <<chan, cur>> /\ (Admit \/ UNCHANGED pc)
      BY <2>1 DEF AskLock, Subscribe, Unsubscribe, pubVars
    <3>2. \A p \in Publisher : pc'[p] = "retry" => pc[p] = "retry"
      BY <3>1 DEF Admit, TypeOK
    <3>3. QED
      BY <3>1, <3>2 DEF Refilled, Full
  <2>2. ASSUME NEW s \in Sub, Receive(s) PROVE Refilled'
    <3>1. /\ chan[s] # <<>> /\ chan' = [chan EXCEPT ![s] = Tail(@)]
          /\ UNCHANGED <<pc, cur>>
      BY <2>2 DEF Receive, pubVars
    <3>2. ~ Full(s)' /\ \A t \in Sub \ {s} : chan'[t] = chan[t]
      BY <3>1, TakenIsNotFull
    <3>3. QED
      BY <3>1, <3>2 DEF Refilled, Full, TypeOK
  <2>3. ASSUME NEW p \in Publisher, AskRLock(p) \/ RLock(p) \/ RUnlock(p)
        PROVE  Refilled'
    BY <2>3 DEF AskRLock, RLock, RUnlock, Refilled, Full, TypeOK
  <2>4. ASSUME NEW p \in Publisher, NEW s \in Sub, TrySend(p, s)
        PROVE  Refilled'
    <3>1. CASE Full(s)
      <4>1. /\ pc' = [pc EXCEPT ![p] = "drop"] /\ chan' = chan
            /\ cur' = [cur EXCEPT ![p] = {s}]
        BY <2>4, <3>1 DEF TrySend
      <4>2. QED
        BY <4>1 DEF Refilled, Full, TypeOK
    <3>2. CASE ~ Full(s)
      <4>1. Send(s, p) /\ UNCHANGED <<pc, cur>> /\ pc[p] = "loop"
        BY <2>4, <3>2 DEF TrySend
      <4>2. QED
        BY <4>1, SentKeepsRefilled
    <3>3. QED
      BY <3>1, <3>2
  <2>5. ASSUME NEW p \in Publisher, NEW s \in Sub, DropOldest(p, s)
        PROVE  Refilled'
    <3>1. /\ pc' = [pc EXCEPT ![p] = "retry"] /\ cur' = cur /\ s \in cur[p]
          /\ \/ chan[s] = <<>> /\ chan' = chan
             \/ chan[s] # <<>> /\ chan' = [chan EXCEPT ![s] = Tail(@)]
      BY <2>5 DEF DropOldest
    <3>2. ~ Full(s)' /\ \A t \in Sub \ {s} : chan'[t] = chan[t]
      BY <3>1, TakenIsNotFull
    <3>3. QED
      BY <3>1, <3>2 DEF Refilled, Full, TypeOK
  <2>6. ASSUME NEW p \in Publisher, NEW s \in Sub, Retry(p, s)
        PROVE  Refilled'
    <3>1. pc' = [pc EXCEPT ![p] = "loop"] /\ cur' = [cur EXCEPT ![p] = {}]
      BY <2>6 DEF Retry
    <3>2. CASE Full(s)
      <4>1. chan' = chan
        BY <2>6, <3>2 DEF Retry
      <4>2. QED
        BY <3>1, <4>1 DEF Refilled, Full, TypeOK
    <3>3. CASE ~ Full(s)
      <4>1. Send(s, p)
        BY <2>6, <3>3 DEF Retry
      <4>2. /\ pc'[p] # "retry"
            /\ \A f \in Publisher : cur'[f] \subseteq cur[f]
            /\ \A f \in Publisher \ {p} : pc'[f] = pc[f]
        BY <3>1 DEF TypeOK
      <4>3. QED
        BY <4>1, <4>2, SentKeepsRefilled
    <3>4. QED
      BY <3>2, <3>3
  <2>7. CASE UNCHANGED vars
    BY <2>7 DEF vars, pubVars, Refilled, Full
  <2>8. QED
    BY <2>1, <2>2, <2>3, <2>4, <2>5, <2>6, <2>7 DEF Next, PublishStep
<1>3. QED
  BY <1>1, <1>2, TypeCorrect, OpenWhileReadingHolds, PTL DEF Spec

\* Publish gives its event up only for one that another publisher has sent
\* since room was made (the default of its third select).
THEOREM YieldsToOthersHolds == Spec => YieldsToOthers
<1> DEFINE Yield == \A p \in Publisher, s \in Sub :
                      s \in cur[p] /\ pc[p] = "retry"
                        /\ EventOf(p) \in lost'[s] \ lost[s]
                      => chan[s] # <<>> /\ chan[s][Len(chan[s])].src # p
<1>1. TypeOK /\ Refilled /\ StreamInv /\ [Next]_vars => Yield
  <2> SUFFICES ASSUME TypeOK, Refilled, StreamInv, [Next]_vars,
                      NEW p \in Publisher, NEW s \in Sub,
                      s \in cur[p], pc[p] = "retry",
                      EventOf(p) \in lost'[s] \ lost[s]
               PROVE  chan[s] # <<>> /\ chan[s][Len(chan[s])].src # p
    OBVIOUS
  <2>1. ASSUME NEW q \in Publisher, NEW t \in Sub, DropOldest(q, t)
        PROVE  FALSE
    <3>1. t = s /\ chan[s] # <<>> /\ EventOf(p) = Head(chan[s])
      <4>1. lost' # lost
        OBVIOUS
      <4>2. chan[t] # <<>> /\ lost' = [lost EXCEPT ![t] = @ \cup {Head(chan[t])}]
        BY <2>1, <4>1 DEF DropOldest
      <4>3. QED
        BY <4>2 DEF TypeOK
    <3>3. /\ Len(received[s]) + 1 \in 1 .. Len(Stream(s))
          /\ Stream(s)[Len(received[s]) + 1] = Head(chan[s])
      BY <3>1, HeadInStream
    <3>4. NotOffered(p, s) /\ EventOf(p).src = p /\ EventOf(p).n = cnt[p]
      BY DEF NotOffered, EventOf
    <3>5. Older(Stream(s), s)
      BY DEF StreamInv, InOrder
    <3>6. EventOf(p).n < cnt[p] /\ cnt[p] \in Nat
      BY <3>1, <3>3, <3>4, <3>5 DEF Older, TypeOK
    <3>7. QED
      BY <3>4, <3>6
  <2>2. ASSUME NEW q \in Publisher, NEW t \in Sub, Retry(q, t)
        PROVE  t = s /\ q = p /\ Full(s)
    <3>1. Full(t) /\ lost' = [lost EXCEPT ![t] = @ \cup {EventOf(q)}]
      BY <2>2 DEF Retry
    <3>2. t = s /\ EventOf(p) = EventOf(q)
      BY <3>1 DEF TypeOK
    <3>3. EventOf(p).src = p /\ EventOf(q).src = q
      BY DEF EventOf
    <3>4. QED
      BY <3>1, <3>2, <3>3
  <2>3. Full(s)
    BY <2>1, <2>2
    DEF Next, PublishStep, AskLock, Subscribe, Unsubscribe, Receive, AskRLock,
        RLock, RUnlock, TrySend, vars
  <2>4. chan[s] # <<>>
    BY <2>3, CapacityPositive DEF Full, TypeOK
  <2>5. QED
    BY <2>3, <2>4 DEF Refilled
<1>2. QED
  BY <1>1, TypeCorrect, RefilledHolds, StreamInvHolds, PTL
  DEF Spec, YieldsToOthers
-----------------------------------------------------------------------------
(* What is lost, and how far behind the subscriber was.                    *)

\* The publishers whose event is offered to s and not yet sent or given up,
\* and those of them that have still to make room.
Offering(s) == {p \in Publisher : s \in cur[p]}
Droppers(s) == {p \in Publisher : s \in cur[p] /\ pc[p] = "drop"}

\* Publisher p will reach s and has not yet.
ToOffer(p, s) == pc[p] = "rlock" \/ s \in todo[p]

\* A lost event is neither one that its publisher has still to send nor one
\* that s has seen; a late one has been offered, and whoever found the buffer
\* of s full offers a late one.
Counted(s) ==
  /\ IsFiniteSet(lost[s]) /\ IsFiniteSet(late[s]) /\ IsFiniteSet(Offering(s))
  /\ \A e \in lost[s] : /\ e.n <= cnt[e.src]
                        /\ NotOffered(e.src, s) => e.n < cnt[e.src]
  /\ \A e \in late[s] : /\ e.n <= cnt[e.src]
                        /\ ToOffer(e.src, s) => e.n < cnt[e.src]
  /\ \A i \in 1 .. Len(Stream(s)) : Stream(s)[i] \notin lost[s]
  /\ \A p \in Offering(s) : EventOf(p) \in late[s]

\* Each late offer pays for one loss.  The late offers not yet charged cover
\* every publisher that will make room, and all of the backlog that exceeds
\* the buffer.
Credit(s) ==
  /\ Cardinality(late[s]) >= Cardinality(lost[s]) + Cardinality(Droppers(s))
  /\ Cardinality(late[s]) + Capacity(s) >= Cardinality(lost[s]) + Backlog(s)

LossInv == \A s \in Sub : Counted(s) /\ Credit(s)

\* A set gains one element.
LEMMA OneMore ==
  ASSUME NEW S, NEW x, IsFiniteSet(S), x \notin S
  PROVE  /\ IsFiniteSet(S \cup {x}) /\ Cardinality(S) \in Nat
         /\ Cardinality(S \cup {x}) = Cardinality(S) + 1
BY FS_AddElement, FS_CardinalityType

\* A set loses one element.
LEMMA OneLess ==
  ASSUME NEW S, NEW x, IsFiniteSet(S), x \in S
  PROVE  /\ IsFiniteSet(S \ {x}) /\ Cardinality(S) \in Nat
         /\ Cardinality(S \ {x}) \in Nat
         /\ Cardinality(S \ {x}) = Cardinality(S) - 1
BY FS_RemoveElement, FS_CardinalityType

\* The terms of Credit are numbers.
LEMMA CreditType ==
  ASSUME TypeOK, NEW s \in Sub, Counted(s)
  PROVE  /\ Len(chan[s]) \in Nat /\ Capacity(s) \in Nat
         /\ Cardinality(lost[s]) \in Nat /\ Cardinality(late[s]) \in Nat
         /\ IsFiniteSet(Droppers(s)) /\ Cardinality(Droppers(s)) \in Nat
         /\ Cardinality(Offering(s)) \in Nat
         /\ Cardinality(Droppers(s)) <= Cardinality(Offering(s))
         /\ Backlog(s) = Len(chan[s]) + Cardinality(Offering(s))
<1>1. Droppers(s) \subseteq Offering(s)
  BY DEF Droppers, Offering
<1>2. /\ IsFiniteSet(Droppers(s))
      /\ Cardinality(Droppers(s)) <= Cardinality(Offering(s))
  BY <1>1, FS_Subset DEF Counted
<1>3. /\ Cardinality(lost[s]) \in Nat /\ Cardinality(late[s]) \in Nat
      /\ Cardinality(Droppers(s)) \in Nat /\ Cardinality(Offering(s)) \in Nat
  BY <1>2, FS_CardinalityType DEF Counted
<1>4. Len(chan[s]) \in Nat /\ Capacity(s) \in Nat
  BY CapacityPositive DEF TypeOK
<1>5. Backlog(s) = Len(chan[s]) + Cardinality(Offering(s))
  BY DEF Backlog, Offering
<1>6. QED
  BY <1>2, <1>3, <1>4, <1>5

\* A publisher that offers to s is about to drop or to retry, so it has not
\* still to offer.
LEMMA OfferingHolds ==
  ASSUME TypeOK, OpenWhileReading, NEW s \in Sub, NEW p \in Offering(s)
  PROVE  pc[p] \in {"drop", "retry"} /\ NotOffered(p, s) /\ p \in Publisher
<1>1. p \in Publisher /\ s \in cur[p]
  BY DEF Offering
<1>2. QED
  BY <1>1 DEF OpenWhileReading, Readers, NotOffered, TypeOK

\* An event that has not been offered is neither seen nor lost.
LEMMA NotOfferedIsNew ==
  ASSUME TypeOK, NEW s \in Sub, InOrder(s), Counted(s),
         NEW p \in Publisher, NotOffered(p, s)
  PROVE  /\ EventOf(p) \notin lost[s]
         /\ \A i \in 1 .. Len(Stream(s)) : Stream(s)[i] # EventOf(p)
<1>1. EventOf(p).src = p /\ EventOf(p).n = cnt[p] /\ cnt[p] \in Nat
  BY DEF EventOf, TypeOK
<1>2. EventOf(p) \notin lost[s]
  BY <1>1 DEF Counted
<1>3. ASSUME NEW i \in 1 .. Len(Stream(s)), Stream(s)[i] = EventOf(p)
      PROVE  FALSE
  BY <1>1, <1>3 DEF InOrder, Older
<1>4. QED
  BY <1>2, <1>3

\* A step that offers s nothing and loses nothing of s.
LEMMA CountedKept ==
  ASSUME TypeOK, NEW s \in Sub, Counted(s),
         lost'[s] = lost[s], late'[s] = late[s], UNCHANGED cnt,
         Offering(s)' \subseteq Offering(s),
         \A p \in Publisher : /\ NotOffered(p, s)' => NotOffered(p, s)
                              /\ ToOffer(p, s)' => ToOffer(p, s),
         \A i \in 1 .. Len(Stream(s)') : Stream(s)'[i] \notin lost[s]
  PROVE  Counted(s)'
<1>1. \A e \in lost[s] \cup late[s] : e.src \in Publisher
  BY DEF TypeOK, Event
<1>2. IsFiniteSet(Offering(s)')
  BY FS_Subset DEF Counted
<1>3. \A p : EventOf(p)' = EventOf(p)
  BY DEF EventOf
<1>4. \A p \in Offering(s)' : EventOf(p)' \in late'[s]
  BY <1>3 DEF Counted
<1>5. /\ \A e \in lost'[s] : /\ e.n <= cnt'[e.src]
                             /\ NotOffered(e.src, s)' => e.n < cnt'[e.src]
      /\ \A e \in late'[s] : /\ e.n <= cnt'[e.src]
                             /\ ToOffer(e.src, s)' => e.n < cnt'[e.src]
  BY <1>1 DEF Counted
<1>6. QED
  BY <1>2, <1>4, <1>5 DEF Counted

\* A step that takes at most an event out of the buffer and ends no offer.
LEMMA CreditKept ==
  ASSUME TypeOK, NEW s \in Sub, Counted(s), Credit(s), TypeOK', Counted(s)',
         lost'[s] = lost[s], late'[s] = late[s],
         Offering(s)' = Offering(s), Droppers(s)' \subseteq Droppers(s),
         Len(chan'[s]) <= Len(chan[s])
  PROVE  Credit(s)'
<1>1. Capacity(s)' = Capacity(s)
  BY DEF Capacity
<1>2. Cardinality(Droppers(s)') <= Cardinality(Droppers(s))
  BY CreditType, FS_Subset
<1>3. Len(chan'[s]) \in Nat /\ Cardinality(Droppers(s)') \in Nat
  <2>1. IsFiniteSet(Droppers(s)')
    BY CreditType, FS_Subset
  <2>2. QED
    BY <2>1, FS_CardinalityType DEF TypeOK
<1>4. Backlog(s)' = Len(chan'[s]) + Cardinality(Offering(s))
  BY DEF Backlog, Offering
<1>5. /\ Cardinality(late[s]) \in Nat /\ Cardinality(lost[s]) \in Nat
      /\ Cardinality(Droppers(s)) \in Nat /\ Cardinality(Offering(s)) \in Nat
      /\ Len(chan[s]) \in Nat /\ Capacity(s) \in Nat
      /\ Backlog(s) = Len(chan[s]) + Cardinality(Offering(s))
  BY CreditType
<1>6. Cardinality(late[s]) >= Cardinality(lost[s]) + Cardinality(Droppers(s)')
  BY <1>2, <1>3, <1>5 DEF Credit
<1>7. Cardinality(late[s]) + Capacity(s) >= Cardinality(lost[s]) + Backlog(s)'
  <2> DEFINE n == Len(chan[s])
             k == Len(chan'[s])
             o == Cardinality(Offering(s))
  <2>a. /\ n \in Nat /\ k \in Nat /\ o \in Nat /\ k <= n
        /\ Backlog(s) = n + o /\ Backlog(s)' = k + o
    BY <1>3, <1>4, <1>5
  <2> HIDE DEF n, k, o
  <2>1. Backlog(s)' <= Backlog(s) /\ Backlog(s)' \in Nat /\ Backlog(s) \in Nat
    BY <2>a
  <2>2. Cardinality(late[s]) + Capacity(s) >= Cardinality(lost[s]) + Backlog(s)
    BY DEF Credit
  <2>3. QED
    BY <1>5, <2>1, <2>2
<1>8. QED
  BY <1>1, <1>6, <1>7 DEF Credit

\* A send shows s one event that it has not lost.
LEMMA SendCounted ==
  ASSUME TypeOK, NEW s \in Sub, NEW p \in Publisher, InOrder(s),
         Counted(s), NotOffered(p, s), Send(s, p), UNCHANGED received
  PROVE  /\ \A i \in 1 .. Len(Stream(s)') : Stream(s)'[i] \notin lost[s]
         /\ Len(chan'[s]) = Len(chan[s]) + 1
<1> DEFINE q == Stream(s)
           e == EventOf(p)
           z == Append(q, e)
<1>1. Stream(s)' = z
  BY SendStream
<1>2. /\ Len(z) = Len(q) + 1 /\ Len(q) \in Nat
      /\ \A i \in 1 .. Len(q) : z[i] = q[i]
      /\ z[Len(q) + 1] = e
  BY StreamType, EventOfType, AppendProperties, LenProperties
<1>3. e \notin lost[s] /\ \A i \in 1 .. Len(q) : q[i] \notin lost[s]
  BY NotOfferedIsNew DEF Counted
<1>4. Len(chan'[s]) = Len(chan[s]) + 1
  <2>1. chan[s] \in Seq(Event) /\ e \in Event
    BY EventOfType DEF TypeOK
  <2>2. chan'[s] = Append(chan[s], e)
    BY DEF Send, TypeOK
  <2>3. QED
    BY <2>1, <2>2
<1> HIDE DEF q, e, z
<1>5. ASSUME NEW i \in 1 .. Len(z) PROVE z[i] \notin lost[s]
  <2>1. i \in 1 .. Len(q) \/ i = Len(q) + 1
    BY <1>2
  <2>2. QED
    BY <1>2, <1>3, <2>1
<1>6. QED
  BY <1>1, <1>4, <1>5

\* What an offer adds to the late events.
LEMMA OfferCounted ==
  ASSUME TypeOK, NEW s \in Sub, NEW p \in Publisher, Counted(s),
         ToOffer(p, s), Offer(p, s)
  PROVE  /\ \/ /\ Backlog(s) < Capacity(s) /\ late'[s] = late[s]
            \/ /\ Backlog(s) >= Capacity(s)
               /\ late'[s] = late[s] \cup {EventOf(p)}
               /\ Cardinality(late'[s]) = Cardinality(late[s]) + 1
         /\ IsFiniteSet(late'[s])
<1>1. EventOf(p).src = p /\ EventOf(p).n = cnt[p] /\ cnt[p] \in Nat
  BY DEF EventOf, TypeOK
<1>2. EventOf(p) \notin late[s]
  BY <1>1 DEF Counted
<1>3. late'[s] = IF Backlog(s) >= Capacity(s)
                 THEN late[s] \cup {EventOf(p)} ELSE late[s]
  BY DEF Offer, TypeOK
<1>4. Backlog(s) \in Nat /\ Capacity(s) \in Nat
  <2>1. /\ Backlog(s) = Len(chan[s]) + Cardinality(Offering(s))
        /\ Len(chan[s]) \in Nat /\ Cardinality(Offering(s)) \in Nat
        /\ Capacity(s) \in Nat
    BY CreditType
  <2>2. QED
    BY <2>1
<1>5. CASE Backlog(s) >= Capacity(s)
  <2>1. late'[s] = late[s] \cup {EventOf(p)}
    BY <1>3, <1>5
  <2>2. IsFiniteSet(late[s])
    BY DEF Counted
  <2>3. /\ IsFiniteSet(late[s] \cup {EventOf(p)})
        /\ Cardinality(late[s] \cup {EventOf(p)}) = Cardinality(late[s]) + 1
    BY <1>2, <2>2, OneMore
  <2>4. QED
    BY <1>5, <2>1, <2>3
<1>6. CASE Backlog(s) < Capacity(s)
  <2>1. ~ (Backlog(s) >= Capacity(s))
    BY <1>4, <1>6
  <2>2. QED
    BY <1>3, <1>6, <2>1 DEF Counted
<1>7. QED
  BY <1>4, <1>5, <1>6

\* The events after an offer are counted as before it.
LEMMA OfferKeepsCounts ==
  ASSUME TypeOK, NEW s \in Sub, NEW p \in Publisher, Counted(s),
         ToOffer(p, s), ~ ToOffer(p, s)', Offer(p, s), UNCHANGED <<lost, cnt>>,
         Offering(s)' \subseteq Offering(s) \cup {p},
         p \in Offering(s)' => Backlog(s) >= Capacity(s),
         \A f \in Publisher : /\ NotOffered(f, s)' => NotOffered(f, s)
                              /\ ToOffer(f, s)' => ToOffer(f, s),
         \A i \in 1 .. Len(Stream(s)') : Stream(s)'[i] \notin lost[s]
  PROVE  Counted(s)'
<1>1. EventOf(p).src = p /\ EventOf(p).n = cnt[p] /\ cnt[p] \in Nat
  BY DEF EventOf, TypeOK
<1>2. /\ late'[s] \subseteq late[s] \cup {EventOf(p)}
      /\ late[s] \subseteq late'[s]
      /\ Backlog(s) >= Capacity(s) => EventOf(p) \in late'[s]
  BY DEF Offer, TypeOK
<1>3. IsFiniteSet(late'[s])
  BY OfferCounted
<1>4. IsFiniteSet(Offering(s)')
  <2>1. IsFiniteSet(Offering(s) \cup {p})
    BY FS_AddElement DEF Counted
  <2>2. QED
    BY <2>1, FS_Subset
<1>5. \A e \in lost[s] \cup late[s] : e.src \in Publisher
  BY DEF TypeOK, Event
<1>6. \A e \in lost'[s] : /\ e.n <= cnt'[e.src]
                          /\ NotOffered(e.src, s)' => e.n < cnt'[e.src]
  BY <1>5 DEF Counted
<1>7. ASSUME NEW e \in late'[s]
      PROVE  e.n <= cnt'[e.src] /\ (ToOffer(e.src, s)' => e.n < cnt'[e.src])
  <2>1. CASE e \in late[s]
    BY <1>5, <2>1 DEF Counted
  <2>2. CASE e = EventOf(p)
    BY <1>1, <2>2
  <2>3. QED
    BY <1>2, <1>7, <2>1, <2>2
<1>8. \A f : EventOf(f)' = EventOf(f)
  BY DEF EventOf
<1>9. \A f \in Offering(s)' : EventOf(f)' \in late'[s]
  <2>1. \A f \in Offering(s) : EventOf(f) \in late'[s]
    BY <1>2 DEF Counted
  <2>2. p \in Offering(s)' => EventOf(p) \in late'[s]
    BY <1>2
  <2>3. QED
    BY <1>8, <2>1, <2>2
<1>10. QED
  BY <1>3, <1>4, <1>6, <1>7, <1>9 DEF Counted

\* The first select: an offer to a full buffer is late, and so is one that
\* finds room while others are still to be served.
LEMMA LossOffer ==
  ASSUME TypeOK, OpenWhileReading, NEW p \in Publisher, NEW s \in Sub,
         InOrder(s), Counted(s), Credit(s), TrySend(p, s)
  PROVE  Counted(s)' /\ Credit(s)'
<1>1. /\ pc[p] = "loop" /\ s \in todo[p] /\ Offer(p, s)
      /\ todo' = [todo EXCEPT ![p] = todo[p] \ {s}]
      /\ UNCHANGED <<cnt, received, lost>>
  BY DEF TrySend
<1>2. ToOffer(p, s) /\ NotOffered(p, s) /\ p \notin Offering(s)
  BY <1>1, OfferingHolds DEF ToOffer, NotOffered
<1>3. /\ Cardinality(late[s]) \in Nat /\ Cardinality(lost[s]) \in Nat
      /\ Cardinality(Droppers(s)) \in Nat /\ Cardinality(Offering(s)) \in Nat
      /\ Len(chan[s]) \in Nat /\ Capacity(s) \in Nat
      /\ Backlog(s) = Len(chan[s]) + Cardinality(Offering(s))
  BY CreditType
<1>4. Capacity(s)' = Capacity(s) /\ lost'[s] = lost[s]
  BY <1>1 DEF Capacity
<1>5. \/ Backlog(s) < Capacity(s) /\ Cardinality(late'[s]) = Cardinality(late[s])
      \/ /\ Backlog(s) >= Capacity(s)
         /\ Cardinality(late'[s]) = Cardinality(late[s]) + 1
  BY <1>1, <1>2, OfferCounted
<1>6. CASE Full(s)
  <2>1. /\ pc' = [pc EXCEPT ![p] = "drop"] /\ cur' = [cur EXCEPT ![p] = {s}]
        /\ UNCHANGED chan
    BY <1>6 DEF TrySend
  <2>2. Stream(s)' = Stream(s)
    BY <1>1, <2>1 DEF Stream
  <2>3. Offering(s)' = Offering(s) \cup {p}
    BY <2>1 DEF Offering, TypeOK
  <2>4. Droppers(s)' = Droppers(s) \cup {p} /\ p \notin Droppers(s)
    BY <1>1, <2>1 DEF Droppers, TypeOK
  <2>5. Len(chan[s]) >= Capacity(s)
    BY <1>6 DEF Full
  <2>6. Backlog(s) >= Capacity(s)
    BY <1>3, <2>5
  <2>7. Counted(s)'
    <3>1. ~ ToOffer(p, s)'
      BY <1>1, <2>1 DEF ToOffer, TypeOK
    <3>2. \A f \in Publisher : /\ NotOffered(f, s)' => NotOffered(f, s)
                               /\ ToOffer(f, s)' => ToOffer(f, s)
      BY <1>1, <2>1 DEF ToOffer, NotOffered, TypeOK
    <3>3. \A i \in 1 .. Len(Stream(s)') : Stream(s)'[i] \notin lost[s]
      BY <2>2 DEF Counted
    <3>4. QED
      BY <1>1, <1>2, <2>3, <2>6, <3>1, <3>2, <3>3, OfferKeepsCounts
  <2>8. /\ Cardinality(Offering(s)') = Cardinality(Offering(s)) + 1
        /\ Cardinality(Droppers(s)') = Cardinality(Droppers(s)) + 1
    BY <1>2, <2>3, <2>4, OneMore, CreditType DEF Counted
  <2>9. Backlog(s)' = Backlog(s) + 1
    <3>1. Backlog(s)' = Len(chan'[s]) + Cardinality(Offering(s)')
      BY DEF Backlog, Offering
    <3>2. chan'[s] = chan[s]
      BY <2>1
    <3>3. Backlog(s)' = Len(chan[s]) + (Cardinality(Offering(s)) + 1)
      BY <2>8, <3>1, <3>2
    <3>4. QED
      BY <1>3, <3>3
  <2>10. Cardinality(late'[s]) = Cardinality(late[s]) + 1
    BY <1>3, <1>5, <2>6
  <2>11. Cardinality(late'[s]) >= Cardinality(lost[s]) + Cardinality(Droppers(s)')
    BY <1>3, <2>8, <2>10 DEF Credit
  <2>12. Cardinality(late'[s]) + Capacity(s) >= Cardinality(lost[s]) + Backlog(s)'
    BY <1>3, <2>9, <2>10 DEF Credit
  <2>13. QED
    BY <1>4, <2>7, <2>11, <2>12 DEF Credit
<1>7. CASE ~ Full(s)
  <2>1. Send(s, p) /\ UNCHANGED <<pc, cur>>
    BY <1>7 DEF TrySend
  <2>2. Offering(s)' = Offering(s) /\ Droppers(s)' = Droppers(s)
    BY <2>1 DEF Offering, Droppers
  <2>3. /\ \A i \in 1 .. Len(Stream(s)') : Stream(s)'[i] \notin lost[s]
        /\ Len(chan'[s]) = Len(chan[s]) + 1
    BY <1>1, <1>2, <2>1, SendCounted
  <2>4. Counted(s)'
    <3>1. ~ ToOffer(p, s)'
      BY <1>1, <2>1 DEF ToOffer, TypeOK
    <3>2. \A f \in Publisher : /\ NotOffered(f, s)' => NotOffered(f, s)
                               /\ ToOffer(f, s)' => ToOffer(f, s)
      BY <1>1, <2>1 DEF ToOffer, NotOffered, TypeOK
    <3>3. Offering(s)' \subseteq Offering(s) \cup {p} /\ p \notin Offering(s)'
      BY <1>2, <2>2
    <3>4. QED
      BY <1>1, <1>2, <2>3, <3>1, <3>2, <3>3, OfferKeepsCounts
  <2>5. Backlog(s)' = Backlog(s) + 1
    <3>1. Backlog(s)' = Len(chan'[s]) + Cardinality(Offering(s)')
      BY DEF Backlog, Offering
    <3>2. QED
      BY <1>3, <2>2, <2>3, <3>1
  <2>6. Cardinality(late'[s]) >= Cardinality(lost[s]) + Cardinality(Droppers(s))
    BY <1>3, <1>5 DEF Credit
  <2>7. Cardinality(late'[s]) + Capacity(s) >= Cardinality(lost[s]) + Backlog(s)'
    <3> DEFINE a == Cardinality(late[s])
               l == Cardinality(lost[s])
               d == Cardinality(Droppers(s))
               b == Backlog(s)
               c == Capacity(s)
    <3>1. a \in Nat /\ l \in Nat /\ d \in Nat /\ b \in Nat /\ c \in Nat
      BY <1>3
    <3>2. a >= l + d /\ a + c >= l + b
      BY DEF Credit
    <3>3. \/ b < c /\ Cardinality(late'[s]) = a
          \/ b >= c /\ Cardinality(late'[s]) = a + 1
      BY <1>5
    <3> HIDE DEF a, l, d, b, c
    <3>4. Cardinality(late'[s]) + c >= l + (b + 1)
      BY <3>1, <3>2, <3>3
    <3>5. QED
      BY <2>5, <3>4 DEF a, l, b, c
  <2>8. QED
    BY <1>4, <2>2, <2>4, <2>6, <2>7 DEF Credit
<1>8. QED
  BY <1>6, <1>7

\* Making room: the oldest event is lost, or the subscriber was quicker.
LEMMA LossDrop ==
  ASSUME TypeOK, OpenWhileReading, NEW p \in Publisher, NEW s \in Sub,
         InOrder(s), Counted(s), Credit(s), DropOldest(p, s)
  PROVE  Counted(s)' /\ Credit(s)'
<1>1. /\ UNCHANGED <<cnt, todo, cur, received, late>>
      /\ pc[p] = "drop" /\ s \in cur[p]
      /\ pc' = [pc EXCEPT ![p] = "retry"]
  BY DEF DropOldest
<1>2. \A f \in Publisher : /\ NotOffered(f, s)' => NotOffered(f, s)
                           /\ ToOffer(f, s)' => ToOffer(f, s)
  BY <1>1 DEF NotOffered, ToOffer, TypeOK
<1>3. /\ p \in Droppers(s) /\ Droppers(s)' = Droppers(s) \ {p}
      /\ Offering(s)' = Offering(s)
  BY <1>1 DEF Droppers, Offering, TypeOK
<1>4. /\ Cardinality(late[s]) \in Nat /\ Cardinality(lost[s]) \in Nat
      /\ Cardinality(Droppers(s)) \in Nat /\ Cardinality(Offering(s)) \in Nat
      /\ Len(chan[s]) \in Nat /\ Capacity(s) \in Nat
      /\ Backlog(s) = Len(chan[s]) + Cardinality(Offering(s))
      /\ IsFiniteSet(Droppers(s))
  BY CreditType
<1>5. Cardinality(Droppers(s)') = Cardinality(Droppers(s)) - 1
  BY <1>3, <1>4, OneLess
<1>6. /\ Capacity(s)' = Capacity(s) /\ late'[s] = late[s]
      /\ Backlog(s)' = Len(chan'[s]) + Cardinality(Offering(s))
  BY <1>1, <1>3 DEF Capacity, Backlog, Offering
<1>7. CASE chan[s] = <<>>
  <2>1. Stream(s)' = Stream(s) /\ lost'[s] = lost[s] /\ chan' = chan
    BY <1>1, <1>7 DEF DropOldest, Stream
  <2>2. \A i \in 1 .. Len(Stream(s)') : Stream(s)'[i] \notin lost[s]
    BY <2>1 DEF Counted
  <2>3. Counted(s)'
    BY <1>1, <1>2, <1>3, <1>6, <2>1, <2>2, CountedKept
  <2>4. Cardinality(late[s]) >= Cardinality(lost[s]) + Cardinality(Droppers(s)')
    BY <1>4, <1>5 DEF Credit
  <2>5. Cardinality(late[s]) + Capacity(s) >= Cardinality(lost[s]) + Backlog(s)'
    BY <1>4, <1>6, <2>1 DEF Credit
  <2>6. QED
    BY <1>6, <2>1, <2>3, <2>4, <2>5 DEF Credit
<1>8. CASE chan[s] # <<>>
  <2> DEFINE q == Stream(s)
             z == Stream(s)'
             k == Len(received[s])
             x == Head(chan[s])
             g(i) == IF i <= k THEN i ELSE i + 1
  <2>1. /\ chan' = [chan EXCEPT ![s] = Tail(@)]
        /\ lost' = [lost EXCEPT ![s] = lost[s] \cup {x}]
    BY <1>8 DEF DropOldest
  <2>2. Len(z) = Len(q) - 1 /\ \A i \in 1 .. Len(z) : z[i] = q[g(i)]
    BY <1>1, <1>8, <2>1, DropStream
  <2>3. Len(q) \in Nat /\ k \in Nat
    BY StreamType, LenProperties DEF TypeOK
  <2>4. k + 1 \in 1 .. Len(q) /\ q[k + 1] = x
    BY <1>8, HeadInStream
  <2>5. lost'[s] = lost[s] \cup {x}
    BY <2>1 DEF TypeOK
  <2>6. \A i \in 1 .. Len(q) : q[i] \notin lost[s] /\ q[i].n \in Nat
    BY StreamEvents DEF Counted
  <2>7. \A i, j \in 1 .. Len(q) : i < j /\ q[i].src = q[j].src => q[i].n < q[j].n
    BY DEF InOrder, Ordered
  <2>8. /\ x.n <= cnt[x.src]
        /\ NotOffered(x.src, s) => x.n < cnt[x.src]
        /\ x.src \in Publisher
    BY <2>4, StreamEvents DEF InOrder, Older
  <2>c. Len(chan'[s]) = Len(chan[s]) - 1
    <3>1. chan[s] \in Seq(Event) /\ chan'[s] = Tail(chan[s])
      BY <2>1 DEF TypeOK
    <3>2. QED
      BY <1>8, <3>1
  <2> HIDE DEF q, z, k, x, g
  <2>9. ASSUME NEW i \in 1 .. Len(q), i # k + 1 PROVE q[i] # x
    <3>1. k + 1 < i \/ i < k + 1
      BY <2>3, <2>9
    <3>2. q[i] = q[k + 1] => FALSE
      BY <2>4, <2>6, <2>7, <3>1
    <3>3. QED
      BY <2>4, <3>2
  <2>10. \A i \in 1 .. Len(z) : g(i) \in 1 .. Len(q) /\ g(i) # k + 1
    BY <2>2, <2>3 DEF g
  <2>11. \A i \in 1 .. Len(z) : z[i] \notin lost[s] \cup {x}
    BY <2>2, <2>6, <2>9, <2>10
  <2>12. x \notin lost[s]
    BY <2>4, <2>6
  <2>13. /\ IsFiniteSet(lost'[s])
         /\ Cardinality(lost'[s]) = Cardinality(lost[s]) + 1
    BY <2>5, <2>12, OneMore DEF Counted
  <2>14. Counted(s)'
    <3>1. \A e \in lost[s] \cup late[s] : e.src \in Publisher
      BY DEF TypeOK, Event
    <3>2. \A e \in lost'[s] : /\ e.n <= cnt'[e.src]
                              /\ NotOffered(e.src, s)' => e.n < cnt'[e.src]
      BY <1>1, <1>2, <2>5, <2>8, <3>1 DEF Counted
    <3>3. \A e \in late'[s] : /\ e.n <= cnt'[e.src]
                              /\ ToOffer(e.src, s)' => e.n < cnt'[e.src]
      BY <1>1, <1>2, <1>6, <3>1 DEF Counted
    <3>4. \A f \in Offering(s)' : EventOf(f)' \in late'[s]
      BY <1>1, <1>3, <1>6 DEF Counted, EventOf
    <3>5. IsFiniteSet(late'[s]) /\ IsFiniteSet(Offering(s)')
      BY <1>3, <1>6 DEF Counted
    <3>6. \A i \in 1 .. Len(Stream(s)') : Stream(s)'[i] \notin lost'[s]
      BY <2>5, <2>11 DEF z
    <3>7. QED
      BY <2>13, <3>2, <3>3, <3>4, <3>5, <3>6 DEF Counted
  <2>15. Cardinality(late[s]) >= Cardinality(lost'[s]) + Cardinality(Droppers(s)')
    BY <1>4, <1>5, <2>13 DEF Credit
  <2>16. Cardinality(late[s]) + Capacity(s) >= Cardinality(lost'[s]) + Backlog(s)'
    <3>1. Backlog(s)' = (Len(chan[s]) - 1) + Cardinality(Offering(s))
      BY <1>6, <2>c
    <3> DEFINE n == Len(chan[s])
               o == Cardinality(Offering(s))
    <3>a. /\ n \in Nat /\ o \in Nat
          /\ Backlog(s) = n + o /\ Backlog(s)' = (n - 1) + o
      BY <1>4, <3>1
    <3> HIDE DEF n, o
    <3>2. Backlog(s)' + 1 = Backlog(s) /\ Backlog(s) \in Nat /\ Backlog(s)' \in Int
      BY <3>a
    <3>3. Cardinality(late[s]) + Capacity(s) >= Cardinality(lost[s]) + Backlog(s)
      BY DEF Credit
    <3>4. QED
      BY <1>4, <2>13, <3>2, <3>3
  <2>17. QED
    BY <1>6, <2>14, <2>15, <2>16 DEF Credit
<1>9. QED
  BY <1>7, <1>8

\* The third select sends, or gives the event up on a buffer that is full
\* again.
LEMMA LossRetry ==
  ASSUME TypeOK, OpenWhileReading, NEW p \in Publisher, NEW s \in Sub,
         InOrder(s), Counted(s), Credit(s), Retry(p, s)
  PROVE  Counted(s)' /\ Credit(s)'
<1>1. /\ UNCHANGED <<cnt, todo, received, late>>
      /\ pc[p] = "retry" /\ s \in cur[p]
      /\ pc' = [pc EXCEPT ![p] = "loop"] /\ cur' = [cur EXCEPT ![p] = {}]
  BY DEF Retry
<1>2. /\ \A f \in Publisher : /\ NotOffered(f, s)' => NotOffered(f, s)
                              /\ ToOffer(f, s)' => ToOffer(f, s)
      /\ NotOffered(p, s) /\ ~ NotOffered(p, s)'
  BY <1>1 DEF NotOffered, ToOffer, TypeOK, OpenWhileReading
<1>3. /\ p \in Offering(s) /\ Offering(s)' = Offering(s) \ {p}
      /\ p \notin Droppers(s) /\ Droppers(s)' = Droppers(s)
  BY <1>1 DEF Offering, Droppers, TypeOK
<1>4. /\ Cardinality(late[s]) \in Nat /\ Cardinality(lost[s]) \in Nat
      /\ Cardinality(Droppers(s)) \in Nat /\ Cardinality(Offering(s)) \in Nat
      /\ Len(chan[s]) \in Nat /\ Capacity(s) \in Nat
      /\ Backlog(s) = Len(chan[s]) + Cardinality(Offering(s))
  BY CreditType
<1>5. /\ IsFiniteSet(Offering(s)')
      /\ Cardinality(Offering(s)') = Cardinality(Offering(s)) - 1
      /\ Cardinality(Offering(s)') \in Nat
  BY <1>3, OneLess DEF Counted
<1>6. /\ Capacity(s)' = Capacity(s) /\ late'[s] = late[s]
      /\ Backlog(s)' = Len(chan'[s]) + Cardinality(Offering(s)')
  BY <1>1 DEF Capacity, Backlog, Offering
<1>7. CASE ~ Full(s)
  <2>1. Send(s, p) /\ UNCHANGED lost
    BY <1>7 DEF Retry
  <2>2. /\ \A i \in 1 .. Len(Stream(s)') : Stream(s)'[i] \notin lost[s]
        /\ Len(chan'[s]) = Len(chan[s]) + 1
    BY <1>1, <1>2, <2>1, SendCounted
  <2>3. Counted(s)'
    <3>1. lost'[s] = lost[s] /\ Offering(s)' \subseteq Offering(s)
      BY <1>3, <2>1
    <3>2. QED
      BY <1>1, <1>2, <1>6, <2>2, <3>1, CountedKept
  <2>4. Backlog(s)' = Backlog(s)
    BY <1>4, <1>5, <1>6, <2>2
  <2>5. QED
    BY <1>3, <1>6, <2>1, <2>3, <2>4 DEF Credit
<1>8. CASE Full(s)
  <2> DEFINE x == EventOf(p)
  <2>1. /\ lost' = [lost EXCEPT ![s] = lost[s] \cup {x}]
        /\ UNCHANGED chan
    BY <1>8 DEF Retry
  <2>2. x \notin lost[s] /\ \A i \in 1 .. Len(Stream(s)) : Stream(s)[i] # x
    BY <1>2, NotOfferedIsNew
  <2>3. Stream(s)' = Stream(s) /\ lost'[s] = lost[s] \cup {x}
    BY <1>1, <2>1 DEF Stream, TypeOK
  <2>4. x.src = p /\ x.n = cnt[p] /\ cnt[p] \in Nat
    BY DEF EventOf, TypeOK
  <2> HIDE DEF x
  <2>5. /\ IsFiniteSet(lost'[s])
        /\ Cardinality(lost'[s]) = Cardinality(lost[s]) + 1
    BY <2>2, <2>3, OneMore DEF Counted
  <2>6. Counted(s)'
    <3>1. \A e \in lost[s] \cup late[s] : e.src \in Publisher
      BY DEF TypeOK, Event
    <3>2. \A e \in lost'[s] : /\ e.n <= cnt'[e.src]
                              /\ NotOffered(e.src, s)' => e.n < cnt'[e.src]
      BY <1>1, <1>2, <2>3, <2>4, <3>1 DEF Counted
    <3>3. \A e \in late'[s] : /\ e.n <= cnt'[e.src]
                              /\ ToOffer(e.src, s)' => e.n < cnt'[e.src]
      BY <1>1, <1>2, <1>6, <3>1 DEF Counted
    <3>4. \A f \in Offering(s)' : EventOf(f)' \in late'[s]
      BY <1>1, <1>3, <1>6 DEF Counted, EventOf
    <3>5. IsFiniteSet(late'[s])
      BY <1>6 DEF Counted
    <3>6. \A i \in 1 .. Len(Stream(s)') : Stream(s)'[i] \notin lost'[s]
      BY <2>2, <2>3 DEF Counted
    <3>7. QED
      BY <1>5, <2>5, <3>2, <3>3, <3>4, <3>5, <3>6 DEF Counted
  <2>7. Len(chan[s]) >= Capacity(s) /\ chan'[s] = chan[s]
    BY <1>8, <2>1 DEF Full
  <2>8. Cardinality(Droppers(s)) <= Cardinality(Offering(s)')
    <3>1. Droppers(s) \subseteq Offering(s)'
      BY <1>3 DEF Droppers, Offering
    <3>2. QED
      BY <1>5, <3>1, FS_Subset
  <2>9. Cardinality(late[s]) >= Cardinality(lost'[s]) + Cardinality(Droppers(s))
    <3>1. Cardinality(late[s]) >= Cardinality(lost[s]) + Cardinality(Offering(s))
      BY <1>4, <2>7 DEF Credit
    <3>2. QED
      BY <1>4, <1>5, <2>5, <2>8, <3>1
  <2>10. Cardinality(late[s]) + Capacity(s) >= Cardinality(lost'[s]) + Backlog(s)'
    <3>1. Backlog(s)' = Len(chan[s]) + Cardinality(Offering(s)')
      BY <1>6, <2>7
    <3> DEFINE n == Len(chan[s])
               o == Cardinality(Offering(s))
               k == Cardinality(Offering(s)')
    <3>a. /\ n \in Nat /\ o \in Nat /\ k \in Nat /\ k = o - 1
          /\ Backlog(s) = n + o /\ Backlog(s)' = n + k
      BY <1>4, <1>5, <3>1
    <3> HIDE DEF n, o, k
    <3>2. Backlog(s)' + 1 = Backlog(s) /\ Backlog(s)' \in Nat
      BY <3>a
    <3>3. QED
      BY <1>4, <2>5, <3>2 DEF Credit
  <2>11. QED
    BY <1>3, <1>6, <2>6, <2>9, <2>10 DEF Credit
<1>9. QED
  BY <1>7, <1>8

\* Every step keeps the counts and the credit.
LEMMA LossStep ==
  ASSUME TypeOK, TypeOK', OpenWhileReading, StreamInv, Refilled, LossInv,
         [Next]_vars, NEW u \in Sub
  PROVE  Counted(u)' /\ Credit(u)'
<1>0. InOrder(u) /\ Counted(u) /\ Credit(u)
  BY DEF StreamInv, LossInv
<1> DEFINE Same == /\ lost'[u] = lost[u] /\ late'[u] = late[u]
                   /\ Offering(u)' = Offering(u)
                   /\ Droppers(u)' \subseteq Droppers(u)
                   /\ Len(chan'[u]) <= Len(chan[u])
                   /\ Stream(u)' = Stream(u) /\ UNCHANGED cnt
                   /\ \A p \in Publisher :
                        /\ NotOffered(p, u)' => NotOffered(p, u)
                        /\ ToOffer(p, u)' => ToOffer(p, u)
<1>s. ASSUME Same PROVE Counted(u)' /\ Credit(u)'
  <2>1. \A i \in 1 .. Len(Stream(u)') : Stream(u)'[i] \notin lost[u]
    BY <1>0, <1>s DEF Counted
  <2>2. Offering(u)' \subseteq Offering(u)
    BY <1>s
  <2>3. Counted(u)'
    BY <1>0, <1>s, <2>1, <2>2, CountedKept
  <2>4. QED
    BY <1>0, <1>s, <2>3, CreditKept
<1>len. Len(chan[u]) \in Nat
  BY DEF TypeOK
<1>1. ASSUME NEW s \in Sub, AskLock(s) \/ Subscribe(s) \/ Unsubscribe(s)
      PROVE  Same
  <2>1. /\ UNCHANGED <<chan, received, cnt, cur, late, lost>>
        /\ Admit \/ UNCHANGED <<pc, todo>>
    BY <1>1 DEF AskLock, Subscribe, Unsubscribe, pubVars
  <2>2. /\ Stream(u)' = Stream(u)
        /\ \A p \in Publisher : /\ NotOffered(p, u)' => NotOffered(p, u)
                                /\ ToOffer(p, u)' => ToOffer(p, u)
    BY <2>1 DEF Stream, NotOffered, ToOffer, Admit, TypeOK
  <2>3. \A p \in Publisher : pc'[p] = "drop" <=> pc[p] = "drop"
    BY <2>1 DEF Admit
  <2>4. Offering(u)' = Offering(u) /\ Droppers(u)' \subseteq Droppers(u)
    BY <2>1, <2>3 DEF Offering, Droppers
  <2>5. QED
    BY <1>len, <2>1, <2>2, <2>4
<1>2. ASSUME NEW s \in Sub, Receive(s) PROVE Same
  <2>1. UNCHANGED <<pc, cnt, todo, cur, late, lost>>
    BY <1>2 DEF Receive, pubVars
  <2>2. \A p \in Publisher : /\ NotOffered(p, u)' = NotOffered(p, u)
                             /\ ToOffer(p, u)' = ToOffer(p, u)
    BY <2>1 DEF NotOffered, ToOffer
  <2>3. Offering(u)' = Offering(u) /\ Droppers(u)' \subseteq Droppers(u)
    BY <2>1 DEF Offering, Droppers
  <2>4. Stream(u)' = Stream(u)
    BY <1>2, ReceiveStream
  <2>5. Len(chan'[u]) <= Len(chan[u])
    <3>1. chan' = [chan EXCEPT ![s] = Tail(chan[s])] /\ chan[s] # <<>>
      BY <1>2 DEF Receive
    <3>2. chan[s] \in Seq(Event)
      BY DEF TypeOK
    <3>3. Len(Tail(chan[s])) = Len(chan[s]) - 1 /\ Len(chan[s]) \in Nat
      BY <3>1, <3>2
    <3>4. QED
      BY <1>len, <3>1, <3>3 DEF TypeOK
  <2>6. QED
    BY <2>1, <2>2, <2>3, <2>4, <2>5
<1>3. ASSUME NEW p \in Publisher, AskRLock(p) PROVE Counted(u)' /\ Credit(u)'
  <2>1. /\ Stream(u)' = Stream(u) /\ UNCHANGED <<chan, late, lost>>
        /\ pc[p] = "idle" /\ pc' = [pc EXCEPT ![p] = "rlock"]
        /\ cnt' = [cnt EXCEPT ![p] = cnt[p] + 1]
        /\ UNCHANGED <<todo, cur>>
    BY <1>3 DEF AskRLock, Stream
  <2>2. \A f \in Publisher \ {p} : /\ NotOffered(f, u)' => NotOffered(f, u)
                                   /\ ToOffer(f, u)' => ToOffer(f, u)
    BY <2>1 DEF NotOffered, ToOffer, TypeOK
  <2>3. Offering(u)' = Offering(u) /\ p \notin Offering(u)
    BY <2>1 DEF Offering, OpenWhileReading, Readers
  <2>4. Droppers(u)' = Droppers(u)
    BY <2>1 DEF Droppers, TypeOK
  <2>5. ASSUME NEW e \in lost[u] \cup late[u]
        PROVE  /\ e.n <= cnt'[e.src]
               /\ ToOffer(e.src, u)' => e.n < cnt'[e.src]
               /\ e \in lost[u] => (NotOffered(e.src, u)' => e.n < cnt'[e.src])
    <3>1. e.src \in Publisher /\ e.n \in Nat /\ cnt[e.src] \in Nat
      BY DEF TypeOK, Event
    <3>2. /\ e.n <= cnt[e.src]
          /\ e \in late[u] => (ToOffer(e.src, u) => e.n < cnt[e.src])
          /\ e \in lost[u] => (NotOffered(e.src, u) => e.n < cnt[e.src])
      BY <1>0 DEF Counted
    <3>3. CASE e.src = p
      <4>1. cnt'[e.src] = cnt[e.src] + 1
        BY <2>1, <3>1, <3>3 DEF TypeOK
      <4>2. QED
        BY <3>1, <3>2, <4>1
    <3>4. CASE e.src # p
      <4>1. cnt'[e.src] = cnt[e.src]
        BY <2>1, <3>1, <3>4 DEF TypeOK
      <4>2. ToOffer(e.src, u) => NotOffered(e.src, u)
        BY DEF ToOffer, NotOffered
      <4>3. QED
        BY <2>2, <3>1, <3>2, <3>4, <4>1, <4>2
    <3>5. QED
      BY <3>3, <3>4
  <2>6. \A f \in Offering(u)' : EventOf(f)' \in late'[u]
    <3>1. ASSUME NEW f \in Offering(u) PROVE EventOf(f)' = EventOf(f)
      <4>1. f \in Publisher /\ f # p
        BY <2>3 DEF Offering
      <4>2. QED
        BY <2>1, <4>1 DEF EventOf, TypeOK
    <3>2. QED
      BY <1>0, <2>1, <2>3, <3>1 DEF Counted
  <2>7. Counted(u)'
    BY <1>0, <2>1, <2>3, <2>5, <2>6 DEF Counted
  <2>8. QED
    BY <1>0, <1>len, <2>1, <2>3, <2>4, <2>7, CreditKept
<1>4. ASSUME NEW p \in Publisher, RLock(p) \/ RUnlock(p) PROVE Same
  <2>1. Stream(u)' = Stream(u) /\ UNCHANGED <<chan, cnt, late, lost>>
    BY <1>4 DEF RLock, RUnlock, Stream
  <2>2. /\ \A f \in Publisher : /\ NotOffered(f, u)' => NotOffered(f, u)
                                /\ ToOffer(f, u)' => ToOffer(f, u)
        /\ Offering(u)' = Offering(u) /\ Droppers(u)' \subseteq Droppers(u)
    <3>1. CASE RLock(p)
      BY <3>1 DEF RLock, NotOffered, ToOffer, Offering, Droppers, TypeOK
    <3>2. CASE RUnlock(p)
      BY <3>2 DEF RUnlock, NotOffered, ToOffer, Offering, Droppers, TypeOK
    <3>3. QED
      BY <1>4, <3>1, <3>2
  <2>3. QED
    BY <1>len, <2>1, <2>2
<1>5. ASSUME NEW p \in Publisher, NEW s \in Sub, TrySend(p, s)
      PROVE  Counted(u)' /\ Credit(u)'
  <2>1. CASE u = s
    BY <1>0, <1>5, <2>1, LossOffer
  <2>2. CASE u # s
    <3>1. /\ UNCHANGED <<cnt, lost, received>> /\ late'[u] = late[u]
          /\ todo' = [todo EXCEPT ![p] = todo[p] \ {s}] /\ pc[p] = "loop"
          /\ \/ pc' = [pc EXCEPT ![p] = "drop"] /\ cur' = [cur EXCEPT ![p] = {s}]
                /\ chan' = chan
             \/ pc' = pc /\ cur' = cur /\ Send(s, p)
      BY <1>5, <2>2 DEF TrySend, Offer, TypeOK
    <3>2. cur[p] = {}
      BY <3>1 DEF OpenWhileReading
    <3>3. /\ Offering(u)' = Offering(u) /\ Droppers(u)' \subseteq Droppers(u)
          /\ \A f \in Publisher : /\ NotOffered(f, u)' => NotOffered(f, u)
                                  /\ ToOffer(f, u)' => ToOffer(f, u)
      <4>1. \A f \in Publisher : /\ u \in cur'[f] <=> u \in cur[f]
                                 /\ u \in todo'[f] => u \in todo[f]
        BY <2>2, <3>1, <3>2 DEF TypeOK
      <4>2. \A f \in Publisher : /\ pc'[f] = "rlock" => pc[f] = "rlock"
                                 /\ f # p => pc'[f] = pc[f]
        BY <3>1 DEF TypeOK
      <4>3. u \notin cur'[p]
        BY <3>2, <4>1
      <4>4. QED
        BY <4>1, <4>2, <4>3 DEF Offering, Droppers, NotOffered, ToOffer
    <3>4. chan'[u] = chan[u]
      BY <2>2, <3>1 DEF Send, TypeOK
    <3>5. Stream(u)' = Stream(u)
      BY <3>1, <3>4 DEF Stream
    <3>6. Same
      BY <1>len, <3>1, <3>3, <3>4, <3>5
    <3>7. QED
      BY <1>s, <3>6
  <2>3. QED
    BY <2>1, <2>2
<1>6. ASSUME NEW p \in Publisher, NEW s \in Sub, DropOldest(p, s)
      PROVE  Counted(u)' /\ Credit(u)'
  <2>1. CASE u = s
    BY <1>0, <1>6, <2>1, LossDrop
  <2>2. CASE u # s
    <3>1. /\ UNCHANGED <<cnt, todo, cur, received, late>>
          /\ s \in cur[p] /\ pc' = [pc EXCEPT ![p] = "retry"]
          /\ chan'[u] = chan[u] /\ lost'[u] = lost[u]
      BY <1>6, <2>2 DEF DropOldest, TypeOK
    <3>2. u \notin cur[p]
      BY <2>2, <3>1 DEF Refilled
    <3>3. /\ Offering(u)' = Offering(u) /\ Droppers(u)' \subseteq Droppers(u)
          /\ \A f \in Publisher : /\ NotOffered(f, u)' => NotOffered(f, u)
                                  /\ ToOffer(f, u)' => ToOffer(f, u)
      BY <1>6, <3>1, <3>2
      DEF DropOldest, Offering, Droppers, NotOffered, ToOffer, TypeOK
    <3>4. Stream(u)' = Stream(u)
      BY <3>1 DEF Stream
    <3>5. Same
      BY <1>len, <3>1, <3>3, <3>4
    <3>6. QED
      BY <1>s, <3>5
  <2>3. QED
    BY <2>1, <2>2
<1>7. ASSUME NEW p \in Publisher, NEW s \in Sub, Retry(p, s)
      PROVE  Counted(u)' /\ Credit(u)'
  <2>1. CASE u = s
    BY <1>0, <1>7, <2>1, LossRetry
  <2>2. CASE u # s
    <3>1. /\ UNCHANGED <<cnt, todo, received, late>> /\ s \in cur[p]
          /\ pc' = [pc EXCEPT ![p] = "loop"] /\ cur' = [cur EXCEPT ![p] = {}]
          /\ chan'[u] = chan[u] /\ lost'[u] = lost[u]
      BY <1>7, <2>2 DEF Retry, Send, TypeOK
    <3>2. u \notin cur[p]
      BY <2>2, <3>1 DEF Refilled
    <3>3. /\ Offering(u)' = Offering(u) /\ Droppers(u)' \subseteq Droppers(u)
          /\ \A f \in Publisher : /\ NotOffered(f, u)' => NotOffered(f, u)
                                  /\ ToOffer(f, u)' => ToOffer(f, u)
      BY <3>1, <3>2 DEF Offering, Droppers, NotOffered, ToOffer, TypeOK
    <3>4. Stream(u)' = Stream(u)
      BY <3>1 DEF Stream
    <3>5. Same
      BY <1>len, <3>1, <3>3, <3>4
    <3>6. QED
      BY <1>s, <3>5
  <2>3. QED
    BY <2>1, <2>2
<1>8. CASE UNCHANGED vars
  <2>1. UNCHANGED <<chan, received, pc, cnt, todo, cur, late, lost>>
    BY <1>8 DEF vars, pubVars
  <2>2. Same
    BY <1>len, <2>1
    DEF Stream, NotOffered, ToOffer, Offering, Droppers
  <2>3. QED
    BY <1>s, <2>2
<1> HIDE DEF Same
<1>9. QED
  BY <1>s, <1>1, <1>2, <1>3, <1>4, <1>5, <1>6, <1>7, <1>8
  DEF Next, PublishStep

\* What is lost is paid for at all times.
LEMMA LossInvHolds == Spec => []LossInv
<1>1. Init => LossInv
  <2> SUFFICES ASSUME Init, NEW s \in Sub PROVE Counted(s) /\ Credit(s)
    BY DEF LossInv
  <2>1. /\ Stream(s) = <<>> /\ lost[s] = {} /\ late[s] = {} /\ chan[s] = <<>>
        /\ Offering(s) = {} /\ Droppers(s) = {}
    BY DEF Init, Stream, Offering, Droppers
  <2>2. Counted(s)
    BY <2>1, FS_EmptySet DEF Counted
  <2>3. Backlog(s) = Len(chan[s]) + Cardinality(Offering(s))
    BY DEF Backlog, Offering
  <2>4. Backlog(s) = 0 /\ Cardinality(late[s]) = 0 /\ Cardinality(lost[s]) = 0
        /\ Cardinality(Droppers(s)) = 0
    BY <2>1, <2>3, FS_EmptySet
  <2>5. QED
    BY <2>2, <2>4, CapacityPositive DEF Credit
<1>2. TypeOK /\ TypeOK' /\ OpenWhileReading /\ StreamInv /\ Refilled /\ LossInv
        /\ [Next]_vars => LossInv'
  BY LossStep DEF LossInv
<1>3. QED
  BY <1>1, <1>2, TypeCorrect, OpenWhileReadingHolds, StreamInvHolds,
     RefilledHolds, PTL DEF Spec

\* An event is discarded only by the offer of an event that came when the
\* subscriber was a whole buffer behind, and no more events are discarded
\* than came so, whatever the buffer's size and however many goroutines
\* publish and meet between the selects of Publish.
THEOREM LossMeansLagHolds == Spec => LossMeansLag
<1> DEFINE Paid == \A s \in Sub : lost'[s] # lost[s] =>
                     /\ \E p \in Publisher : s \in cur[p] /\ EventOf(p) \in late[s]
                     /\ Cardinality(lost'[s]) <= Cardinality(late'[s])
<1>1. TypeOK /\ TypeOK' /\ LossInv /\ LossInv' /\ [Next]_vars => Paid
  <2> SUFFICES ASSUME TypeOK, TypeOK', LossInv, LossInv', [Next]_vars,
                      NEW s \in Sub, lost'[s] # lost[s]
               PROVE  /\ \E p \in Publisher :
                           s \in cur[p] /\ EventOf(p) \in late[s]
                      /\ Cardinality(lost'[s]) <= Cardinality(late'[s])
    OBVIOUS
  <2>1. Counted(s) /\ Counted(s)' /\ Credit(s)'
    BY DEF LossInv
  <2>2. Cardinality(lost'[s]) <= Cardinality(late'[s])
    <3>1. /\ Cardinality(lost[s])' \in Nat /\ Cardinality(late[s])' \in Nat
          /\ Cardinality(Droppers(s))' \in Nat
      <4>1. /\ IsFiniteSet(lost[s])' /\ IsFiniteSet(late[s])'
            /\ IsFiniteSet(Offering(s))'
        BY <2>1 DEF Counted
      <4>2. Droppers(s)' \subseteq Offering(s)'
        BY DEF Droppers, Offering
      <4>3. IsFiniteSet(Droppers(s)')
        BY <4>1, <4>2, FS_Subset
      <4>4. QED
        BY <4>1, <4>3, FS_CardinalityType
    <3>2. Cardinality(late[s])' >= Cardinality(lost[s])' + Cardinality(Droppers(s))'
      BY <2>1 DEF Credit
    <3>3. QED
      BY <3>1, <3>2
  <2>3. ASSUME NEW p \in Publisher, NEW t \in Sub, DropOldest(p, t) \/ Retry(p, t)
        PROVE  s \in cur[p]
    <3>1. /\ t \in cur[p]
          /\ \/ lost' = lost
             \/ \E x : lost' = [lost EXCEPT ![t] = @ \cup {x}]
      <4>1. CASE DropOldest(p, t)
        BY <4>1 DEF DropOldest
      <4>2. CASE Retry(p, t)
        <5>1. CASE Full(t)
          BY <4>2, <5>1 DEF Retry
        <5>2. CASE ~ Full(t)
          BY <4>2, <5>2 DEF Retry
        <5>3. QED
          BY <4>2, <5>1, <5>2 DEF Retry
      <4>3. QED
        BY <2>3, <4>1, <4>2
    <3>2. s = t
      BY <3>1 DEF TypeOK
    <3>3. QED
      BY <3>1, <3>2
  <2>4. \E p \in Publisher : s \in cur[p]
    BY <2>3
    DEF Next, PublishStep, AskLock, Subscribe, Unsubscribe, Receive, AskRLock,
        RLock, RUnlock, TrySend, vars
  <2>5. \E p \in Publisher : s \in cur[p] /\ EventOf(p) \in late[s]
    BY <2>1, <2>4 DEF Counted, Offering
  <2>6. QED
    BY <2>2, <2>5
<1>2. QED
  BY <1>1, TypeCorrect, LossInvHolds, PTL DEF Spec, LossMeansLag
=============================================================================
