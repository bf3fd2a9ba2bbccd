--------------------------- MODULE TftpReadProofs ---------------------------
(***************************************************************************)
(* Proofs about TftpRead, and behind them about TftpCodec, what a session  *)
(* makes of bytes: see README.md for the arguments.                        *)
(***************************************************************************)
EXTENDS TftpRead, TftpCodec, SequenceTheorems, WellFoundedInduction, TLAPS

(* Block numbers wrap at B (65536 for a uint16). *)

\* Two numbers less than B apart that leave the same remainder are one.
LEMMA EqualRemainders ==
  ASSUME NEW B \in Nat \ {0}, NEW a \in Nat, NEW b \in Nat, a <= b, b < a + B,
         a % B = b % B
  PROVE  a = b
<1> DEFINE p == a \div B
           q == b \div B
<1>1. /\ p \in Int /\ q \in Int
      /\ a = (B * p) + (a % B)
      /\ b = (B * q) + (b % B)
  OBVIOUS
<1> HIDE DEF p, q
<1>2. b - a = B * (q - p)
  BY <1>1
<1>3. q - p < 1
  BY <1>1, <1>2
<1>4. q - p > -1
  BY <1>1, <1>2
<1> QED
  BY <1>1, <1>2, <1>3, <1>4

\* Wrapping after each step gives the remainder of the whole.
LEMMA NextRemainder ==
  ASSUME NEW B \in Nat, B > 1, NEW a \in Nat
  PROVE  ((a % B) + 1) % B = (a + 1) % B
<1> DEFINE r == a % B
           q == a \div B
           s == (r + 1) % B
           t == (r + 1) \div B
           u == (a + 1) % B
           v == (a + 1) \div B
<1>1. r \in Int /\ q \in Int /\ a = (B * q) + r
  OBVIOUS
<1>2. s \in Int /\ t \in Int /\ r + 1 = (B * t) + s /\ 0 <= s /\ s < B
  OBVIOUS
<1>3. u \in Int /\ v \in Int /\ a + 1 = (B * v) + u /\ 0 <= u /\ u < B
  OBVIOUS
<1> HIDE DEF r, q, s, t, u, v
<1> DEFINE d == v - t - q
<1>4. d \in Int /\ s - u = B * d
  BY <1>1, <1>2, <1>3
<1> HIDE DEF d
<1>5. d < 1 /\ d > -1
  BY <1>2, <1>3, <1>4
<1>6. s = u
  BY <1>2, <1>3, <1>4, <1>5
<1> QED
  BY <1>6 DEF s, u, r

\* Two numbers less than BlockMod apart that leave the same remainder are one.
LEMMA SameNumber ==
  ASSUME NEW a \in Nat, NEW b \in Nat, a <= b, b < a + BlockMod,
         a % BlockMod = b % BlockMod
  PROVE  a = b
<1>1. BlockMod \in Nat \ {0}
  BY ReadAssumption
<1> QED
  BY <1>1, EqualRemainders

\* The bounds of a remainder.
LEMMA Remainder ==
  ASSUME NEW a \in Nat
  PROVE  a % BlockMod \in Number
BY ReadAssumption DEF Number

\* The block number after a % BlockMod, computed by wrapping, is that of a + 1.
LEMMA NextNumber ==
  ASSUME NEW a \in Nat
  PROVE  ((a % BlockMod) + 1) % BlockMod = (a + 1) % BlockMod
<1>1. BlockMod \in Nat /\ BlockMod > 1
  BY ReadAssumption
<1> QED
  BY <1>1, NextRemainder

-----------------------------------------------------------------------------
(* The inductive invariant.                                                *)

\* Every packet bears the number of its chunk, and none is ahead of its sender.
Numbered ==
  /\ \A m \in toClient : m.type = "DATA" =>
       m.block = m.chunk % BlockMod /\ 0 < m.chunk /\ m.chunk <= pos
  /\ \A m \in toServer : m.type = "ACK" =>
       m.block = m.chunk % BlockMod /\ m.chunk <= Len(copy)

\* The session is at most one chunk ahead of the client, and not ahead at all
\* when it is about to read; its block number is that of its chunk.
InStep ==
  /\ Len(copy) <= pos /\ pos <= Len(copy) + 1
  /\ pc \in {"open", "oack"} => pos = 0
  /\ pc \in {"open", "oack", "head"} =>
       pos = Len(copy) /\ pos < Chunks /\ block = (pos + 1) % BlockMod
  /\ pc = "data" => block = pos % BlockMod
  /\ pc # "ended" => report = "running"
  /\ client = "open" => Len(copy) < Chunks

IInv == TypeOK /\ Numbered /\ InStep /\ CopyIsPrefix /\ CompleteMeansStored

\* The inductive invariant holds initially.
LEMMA InitHolds == Init => IInv
<1> SUFFICES ASSUME Init PROVE IInv
  OBVIOUS
<1>1. BlockMod \in Nat /\ BlockMod > 1 /\ Chunks \in Nat /\ Chunks > 0
  BY ReadAssumption
<1>2. 1 % BlockMod = 1 /\ Len(copy) = 0
  BY <1>1 DEF Init
<1>3. TypeOK
  <2>1. copy \in Seq(1 .. Chunks)
    BY DEF Init
  <2>2. pos \in 0 .. Chunks /\ block \in Number /\ attempt \in 0 .. MaxRetries
    BY <1>1, ReadAssumption DEF Init, Number
  <2>3. QED
    BY <2>1, <2>2, Zenon DEF Init, TypeOK
<1>4. QED
  BY <1>1, <1>2, <1>3
  DEF Init, IInv, Numbered, InStep, CopyIsPrefix, CompleteMeansStored

\* What the invariant gives about a DATA that the client takes: it is the next.
LEMMA TakenIsNext ==
  ASSUME IInv, NEW m \in toClient, Fresh(m), m.type = "DATA",
         m.block = (Len(copy) + 1) % BlockMod
  PROVE  m.chunk = Len(copy) + 1
<1>1. m.chunk \in Nat /\ pos \in Nat /\ Len(copy) \in Nat
  BY DEF IInv, TypeOK, ToClient
<1>2. /\ m.chunk % BlockMod = (Len(copy) + 1) % BlockMod
      /\ m.chunk <= pos /\ pos <= Len(copy) + 1 /\ Len(copy) <= pos
  BY DEF IInv, Numbered, InStep
<1>3. m.chunk <= Len(copy) + 1 /\ Len(copy) + 1 < m.chunk + BlockMod
  BY <1>1, <1>2, ReadAssumption DEF Fresh
<1> DEFINE n == Len(copy) + 1
<1>4. n \in Nat /\ m.chunk % BlockMod = n % BlockMod
      /\ m.chunk <= n /\ n < m.chunk + BlockMod
  BY <1>1, <1>2, <1>3
<1> HIDE DEF n
<1>5. m.chunk = n
  BY <1>1, <1>4, SameNumber
<1>6. QED
  BY <1>5 DEF n

\* What it gives about an ACK that the session accepts: it answers this chunk.
LEMMA AckedIsStored ==
  ASSUME IInv, NEW m \in toServer, Fresh(m), pc = "data", Matches(m)
  PROVE  Len(copy) = pos
<1>1. m.chunk \in Nat /\ pos \in Nat /\ Len(copy) \in Nat
  BY DEF IInv, TypeOK, ToServer
<1>2. /\ m.chunk % BlockMod = pos % BlockMod
      /\ m.chunk <= Len(copy) /\ Len(copy) <= pos
  BY DEF IInv, Numbered, InStep, Matches, WantBlock
<1>3. m.chunk <= pos /\ pos < m.chunk + BlockMod
  BY <1>1, <1>2, ReadAssumption DEF Fresh
<1>4. m.chunk = pos
  BY <1>1, <1>2, <1>3, SameNumber
<1>5. QED
  BY <1>1, <1>2, <1>4

\* The steps of the session that send at most an ERROR.
LEMMA EndingStep ==
  ASSUME IInv, End("silent") \/ End("error") \/ End("aborted"),
         UNCHANGED <<pos, block, cancelled, toServer, client, copy>>,
         attempt' = attempt, waits' \subseteq {"timeout", "stray", "socket"},
         toClient' = toClient
           \/ \E c \in 0 .. Chunks : toClient' = toClient \cup {Packet("ERROR", 0, c)}
  PROVE  IInv'
<1>1. 0 \in Number
  BY ReadAssumption DEF Number
<1>2. \A c \in 0 .. Chunks : Packet("ERROR", 0, c) \in ToClient
                             /\ Packet("ERROR", 0, c).type = "ERROR"
  BY <1>1 DEF Packet, ToClient
<1>3. TypeOK'
  BY <1>2 DEF IInv, TypeOK, End
<1>4. Numbered'
  BY <1>2 DEF IInv, Numbered
<1>5. InStep' /\ CopyIsPrefix' /\ CompleteMeansStored'
  BY DEF IInv, InStep, CopyIsPrefix, CompleteMeansStored, End
<1>6. QED
  BY <1>3, <1>4, <1>5 DEF IInv

\* A step that changes only how far a wait has got, or the context.
LEMMA QuietStep ==
  ASSUME IInv, TypeOK', UNCHANGED <<pc, pos, block, report, toClient, toServer,
                                    client, copy>>
  PROVE  IInv'
BY DEF IInv, Numbered, InStep, CopyIsPrefix, CompleteMeansStored

\* The session's steps keep it.
LEMMA SessionStepHolds == ASSUME IInv, SessionRuns \/ SessionFails PROVE IInv'
<1>n. BlockMod \in Nat /\ BlockMod > 1 /\ Chunks \in Nat /\ MaxRetries \in Nat
      /\ MaxRetries > 0
  BY ReadAssumption
<1>t. TypeOK /\ pos \in Nat /\ Len(copy) \in Nat
  BY DEF IInv, TypeOK
<1>1. CASE Refuse
  <2>1. 0 \in 0 .. Chunks
    BY <1>n
  <2>2. QED
    BY <1>1, <1>t, <2>1, EndingStep DEF Refuse, TypeOK
<1>2. CASE OpenFile
  <2> DEFINE m == Packet("OACK", 0, 0)
  <2>1. m \in ToClient /\ m.type = "OACK"
    BY <1>n DEF Packet, ToClient, Number
  <2>2. toClient' = toClient \/ toClient' = toClient \cup {m}
    BY <1>2 DEF OpenFile, FirstSend
  <2> HIDE DEF m
  <2>3. TypeOK'
    <3>1. attempt' \in 0 .. MaxRetries /\ waits' \subseteq {"timeout", "stray", "socket"}
      <4>1. (attempt' = 1 /\ waits' = {}) \/ UNCHANGED <<attempt, waits>>
        BY <1>2 DEF OpenFile, FirstSend
      <4>2. attempt \in 0 .. MaxRetries /\ waits \subseteq {"timeout", "stray", "socket"}
        BY <1>t DEF TypeOK
      <4>3. CASE attempt' = 1 /\ waits' = {}
        BY <1>n, <4>3
      <4>4. CASE UNCHANGED <<attempt, waits>>
        BY <4>2, <4>4
      <4>5. QED
        BY <4>1, <4>3, <4>4
    <3>2. toClient' \subseteq ToClient /\ pc' \in {"oack", "head"}
          /\ UNCHANGED <<pos, block, report, cancelled, toServer, client, copy>>
      BY <1>2, <1>t, <2>1, <2>2 DEF OpenFile, TypeOK
    <3>3. QED
      BY <1>t, <3>1, <3>2 DEF TypeOK
  <2>4. Numbered'
    BY <1>2, <2>1, <2>2 DEF OpenFile, IInv, Numbered
  <2>5. InStep' /\ CopyIsPrefix' /\ CompleteMeansStored'
    BY <1>2 DEF OpenFile, IInv, InStep, CopyIsPrefix, CompleteMeansStored
  <2>6. QED
    BY <2>3, <2>4, <2>5 DEF IInv
<1>3. CASE ReadBlock
  <2> DEFINE m == Packet("DATA", block, pos + 1)
  <2>1. /\ pos < Chunks /\ pos = Len(copy) /\ block = (pos + 1) % BlockMod
        /\ report = "running"
    BY <1>3 DEF ReadBlock, IInv, InStep
  <2>2. m \in ToClient /\ m.type = "DATA" /\ m.block = block /\ m.chunk = pos + 1
    BY <1>n, <1>t, <2>1 DEF Packet, ToClient, TypeOK
  <2>3. toClient' = toClient \cup {m} /\ pos' = pos + 1 /\ attempt' = 1
        /\ waits' = {} /\ pc' = "data"
        /\ UNCHANGED <<block, report, cancelled, toServer, client, copy>>
    BY <1>3 DEF ReadBlock, FirstSend
  <2> HIDE DEF m
  <2>4. TypeOK'
    BY <1>n, <1>t, <2>1, <2>2, <2>3 DEF TypeOK
  <2>5. Numbered'
    <3>1. ASSUME NEW x \in toClient', x.type = "DATA"
          PROVE  x.block = x.chunk % BlockMod /\ 0 < x.chunk /\ x.chunk <= pos + 1
      <4>1. CASE x = m
        BY <1>t, <2>1, <2>2, <4>1
      <4>2. CASE x \in toClient
        <5>1. x.block = x.chunk % BlockMod /\ 0 < x.chunk /\ x.chunk <= pos
              /\ x.chunk \in Nat
          BY <1>t, <3>1, <4>2 DEF IInv, Numbered, TypeOK, ToClient
        <5>2. QED
          BY <1>t, <5>1
      <4>3. QED
        BY <2>3, <4>1, <4>2
    <3>2. QED
      BY <2>3, <3>1 DEF IInv, Numbered
  <2>6. InStep' /\ CopyIsPrefix' /\ CompleteMeansStored'
    BY <1>t, <2>1, <2>3 DEF IInv, InStep, CopyIsPrefix, CompleteMeansStored
  <2>7. QED
    BY <2>4, <2>5, <2>6 DEF IInv
<1>4. CASE ReadFails
  BY <1>4, <1>t, EndingStep DEF ReadFails, TypeOK
<1>5. CASE HeadCancelled
  BY <1>5, <1>t, EndingStep DEF HeadCancelled, TypeOK
<1>6. ASSUME NEW why \in {"timeout", "stray"}, Again(why),
             UNCHANGED <<pos, block, cancelled, toClient, toServer, client, copy>>
      PROVE IInv'
  <2>1. CASE attempt < MaxRetries
    <3>1. TypeOK'
      BY <1>6, <1>n, <1>t, <2>1 DEF Again, TypeOK
    <3>2. QED
      BY <1>6, <2>1, <3>1, QuietStep DEF Again
  <2>2. CASE ~ (attempt < MaxRetries)
    BY <1>6, <1>t, <2>2, EndingStep DEF Again, TypeOK
  <2>3. QED
    BY <2>1, <2>2
<1>7. CASE ReadTimeout
  BY <1>6, <1>7 DEF ReadTimeout
<1>8. CASE SocketError
  BY <1>8, <1>t, EndingStep DEF SocketError, TypeOK
<1>9. ASSUME NEW m \in toServer, Acked(m) PROVE IInv'
  <2>1. Waiting /\ Fresh(m) /\ Matches(m) /\ pc \in {"oack", "data"}
        /\ UNCHANGED <<pos, attempt, waits, cancelled, toClient, toServer, client, copy>>
    BY <1>9 DEF Acked, Waiting
  <2>2. CASE pc = "oack"
    <3>1. pc' = "head" /\ report' = report /\ block' = block
      BY <1>9, <2>2 DEF Acked
    <3>2. TypeOK'
      BY <1>t, <2>1, <3>1 DEF TypeOK
    <3>3. QED
      BY <2>1, <2>2, <3>1, <3>2
      DEF IInv, Numbered, InStep, CopyIsPrefix, CompleteMeansStored
  <2>3. CASE pc = "data"
    <3>1. Len(copy) = pos
      BY <2>1, <2>3, AckedIsStored
    <3>2. CASE pos = Chunks
      <4>1. pc' = "ended" /\ report' = "complete" /\ block' = block
        BY <1>9, <2>3, <3>2 DEF Acked, End
      <4>2. TypeOK'
        BY <1>t, <2>1, <4>1 DEF TypeOK
      <4>3. QED
        BY <2>1, <3>1, <3>2, <4>1, <4>2
        DEF IInv, Numbered, InStep, CopyIsPrefix, CompleteMeansStored
    <3>3. CASE pos # Chunks
      <4>1. pc' = "head" /\ report' = report /\ block' = (block + 1) % BlockMod
        BY <1>9, <2>3, <3>3 DEF Acked
      <4>2. block = pos % BlockMod
        BY <2>3 DEF IInv, InStep
      <4>3. block' = (pos + 1) % BlockMod
        BY <1>t, <4>1, <4>2, NextNumber
      <4>4. block' \in Number
        BY <1>t, <4>3, Remainder
      <4>5. TypeOK'
        BY <1>t, <2>1, <4>1, <4>4 DEF TypeOK
      <4>6. pos < Chunks
        BY <1>n, <1>t, <3>3 DEF TypeOK
      <4>7. QED
        BY <2>1, <3>1, <4>1, <4>3, <4>5, <4>6
        DEF IInv, Numbered, InStep, CopyIsPrefix, CompleteMeansStored
    <3>4. QED
      BY <3>2, <3>3
  <2>4. QED
    BY <2>1, <2>2, <2>3
<1>10. ASSUME NEW m \in toServer, Stray(m) PROVE IInv'
  BY <1>6, <1>10 DEF Stray
<1>11. QED
  BY <1>1, <1>2, <1>3, <1>4, <1>5, <1>7, <1>8, <1>9, <1>10
  DEF SessionRuns, SessionFails

\* The client's steps keep it.
LEMMA ClientStepHolds == ASSUME IInv, ClientStep PROVE IInv'
<1>n. BlockMod \in Nat /\ BlockMod > 1 /\ Chunks \in Nat
  BY ReadAssumption
<1>t. TypeOK /\ pos \in Nat /\ Len(copy) \in Nat
  BY DEF IInv, TypeOK
<1>c. client = "open" /\ Len(copy) < Chunks
  BY DEF ClientStep, IInv, InStep
<1>1. ASSUME NEW m \in toClient, Fresh(m), TakeOack(m) PROVE IInv'
  <2> DEFINE a == Packet("ACK", 0, 0)
  <2>1. a \in ToServer /\ a.type = "ACK" /\ a.block = 0 /\ a.chunk = 0
    BY <1>n DEF Packet, ToServer, Number
  <2>2. toServer' = toServer \cup {a} /\ copy = <<>>
        /\ UNCHANGED <<serverVars, cancelled, toClient, client, copy>>
    BY <1>1 DEF TakeOack, Answer
  <2>3. 0 % BlockMod = 0 /\ Len(copy) = 0
    BY <1>n, <2>2
  <2> HIDE DEF a
  <2>4. TypeOK'
    BY <1>t, <2>1, <2>2 DEF TypeOK, serverVars
  <2>5. Numbered'
    BY <2>1, <2>2, <2>3 DEF IInv, Numbered, serverVars
  <2>6. QED
    BY <2>2, <2>4, <2>5
    DEF IInv, InStep, CopyIsPrefix, CompleteMeansStored, serverVars
<1>2. ASSUME NEW m \in toClient, Fresh(m), TakeData(m) PROVE IInv'
  <2> DEFINE a == Packet("ACK", m.block, Len(copy) + 1)
  <2>1. m.type = "DATA" /\ m.block = (Len(copy) + 1) % BlockMod
        /\ m.chunk = Len(copy) + 1 /\ m.block \in Number
    BY <1>2, <1>t, TakenIsNext DEF TakeData, TypeOK, ToClient
  <2>2. Len(copy) + 1 <= pos
    BY <2>1 DEF IInv, Numbered
  <2>3. a \in ToServer /\ a.type = "ACK" /\ a.block = m.block /\ a.chunk = Len(copy) + 1
    BY <1>n, <1>t, <1>c, <2>1 DEF Packet, ToServer
  <2>4. toServer' = toServer \cup {a} /\ copy' = Append(copy, Len(copy) + 1)
        /\ UNCHANGED <<serverVars, cancelled, toClient>>
        /\ client' = IF m.chunk = Chunks THEN "done" ELSE "open"
    BY <1>2, <2>1 DEF TakeData, Answer
  <2> HIDE DEF a
  <2>5. copy \in Seq(1 .. Chunks) /\ Len(copy) + 1 \in 1 .. Chunks
    BY <1>n, <1>t, <1>c DEF TypeOK
  <2>6. /\ copy' \in Seq(1 .. Chunks) /\ Len(copy') = Len(copy) + 1
        /\ copy'[Len(copy) + 1] = Len(copy) + 1
        /\ \A i \in 1 .. Len(copy) : copy'[i] = copy[i]
    BY <1>t, <2>4, <2>5
  <2>7. TypeOK'
    BY <1>t, <2>3, <2>4, <2>6 DEF TypeOK, serverVars
  <2>8. Numbered'
    <3>1. ASSUME NEW x \in toServer', x.type = "ACK"
          PROVE  x.block = x.chunk % BlockMod /\ x.chunk <= Len(copy) + 1
      <4>1. CASE x = a
        BY <1>t, <2>1, <2>3, <4>1
      <4>2. CASE x \in toServer
        <5>1. x.block = x.chunk % BlockMod /\ x.chunk <= Len(copy) /\ x.chunk \in Nat
          BY <1>t, <3>1, <4>2 DEF IInv, Numbered, TypeOK, ToServer
        <5>2. QED
          BY <1>t, <5>1
      <4>3. QED
        BY <2>4, <4>1, <4>2
    <3>2. QED
      BY <2>4, <2>6, <3>1 DEF IInv, Numbered, serverVars
  <2>9. InStep'
    <3>1. pc \notin {"open", "oack", "head"}
      BY <1>t, <2>2 DEF IInv, InStep
    <3>2. Len(copy') <= pos /\ pos <= Len(copy') + 1
      BY <1>t, <2>2, <2>6 DEF IInv, InStep
    <3>3. client' = "open" => Len(copy') < Chunks
      BY <1>n, <1>t, <1>c, <2>1, <2>4, <2>6
    <3>4. UNCHANGED <<pc, pos, block, report>>
      BY <2>4 DEF serverVars
    <3>5. QED
      BY <3>1, <3>2, <3>3, <3>4 DEF IInv, InStep
  <2>10. CopyIsPrefix'
    BY <1>t, <2>6 DEF IInv, CopyIsPrefix
  <2>11. CompleteMeansStored'
    BY <1>n, <1>t, <1>c, <2>4, <2>6 DEF IInv, CompleteMeansStored, serverVars
  <2>12. QED
    BY <2>7, <2>8, <2>9, <2>10, <2>11 DEF IInv
<1>3. ASSUME NEW m \in toClient, TakeError(m) PROVE IInv'
  <2>1. TypeOK'
    BY <1>3, <1>t DEF TakeError, TypeOK, serverVars
  <2>2. QED
    BY <1>3, <2>1
    DEF TakeError, IInv, Numbered, InStep, CopyIsPrefix, CompleteMeansStored, serverVars
<1>4. CASE Leave
  <2> DEFINE e == Packet("ERROR", 0, Len(copy))
  <2>1. e \in ToServer /\ e.type = "ERROR"
    BY <1>n, <1>t, <1>c DEF Packet, ToServer, Number
  <2>2. toServer' \subseteq toServer \cup {e}
        /\ client' = "gone" /\ UNCHANGED <<serverVars, cancelled, toClient, copy>>
    BY <1>4 DEF Leave
  <2> HIDE DEF e
  <2>3. TypeOK'
    BY <1>t, <2>1, <2>2 DEF TypeOK, serverVars
  <2>4. Numbered'
    BY <2>1, <2>2 DEF IInv, Numbered, serverVars
  <2>5. QED
    BY <2>2, <2>3, <2>4
    DEF IInv, InStep, CopyIsPrefix, CompleteMeansStored, serverVars
<1>5. QED
  BY <1>1, <1>2, <1>3, <1>4 DEF ClientStep

\* The inductive invariant holds throughout.
LEMMA InvariantHolds == Spec => []IInv
<1>1. Init => IInv
  BY InitHolds
<1>2. IInv /\ [Next]_vars => IInv'
  <2> SUFFICES ASSUME IInv, [Next]_vars PROVE IInv'
    OBVIOUS
  <2>1. CASE SessionRuns \/ SessionFails
    BY <2>1, SessionStepHolds
  <2>2. CASE Cancel
    <3>1. TypeOK'
      BY <2>2 DEF Cancel, IInv, TypeOK, serverVars
    <3>2. QED
      BY <2>2, <3>1, QuietStep DEF Cancel, serverVars
  <2>3. CASE ClientStep
    BY <2>3, ClientStepHolds
  <2>4. CASE UNCHANGED vars
    <3>1. TypeOK'
      BY <2>4 DEF vars, IInv, TypeOK, serverVars
    <3>2. QED
      BY <2>4, <3>1, QuietStep DEF vars, serverVars
  <2>5. QED
    BY <2>1, <2>2, <2>3, <2>4 DEF Next
<1>3. QED
  BY <1>1, <1>2, PTL DEF Spec

\* Every variable of a download keeps its type, for files, block numbers and
\* retry budgets of every size.
THEOREM TypeCorrect == Spec => []TypeOK
<1>1. IInv => TypeOK
  BY DEF IInv
<1>2. QED
  BY <1>1, InvariantHolds, PTL

\* However packets are lost, repeated, delayed and reordered, and however often
\* the block number wraps, what the client has stored is a prefix of the file.
THEOREM CopyIsPrefixHolds == Spec => []CopyIsPrefix
<1>1. IInv => CopyIsPrefix
  BY DEF IInv
<1>2. QED
  BY <1>1, InvariantHolds, PTL

\* A download reported complete has been stored completely.
THEOREM CompleteMeansStoredHolds == Spec => []CompleteMeansStored
<1>1. IInv => CompleteMeansStored
  BY DEF IInv
<1>2. QED
  BY <1>1, InvariantHolds, PTL

\* A step of the session other than the end of a complete transfer leaves the
\* copy alone and reports nothing or a failure.
LEMMA SessionReports ==
  ASSUME IInv, SessionRuns \/ SessionFails
  PROVE  /\ copy' = copy
         /\ report' = report \/ (report = "running" /\ report' # "running")
<1>1. pc # "ended" /\ report = "running"
  BY DEF SessionRuns, SessionFails, Refuse, OpenFile, ReadBlock, ReadFails, HeadCancelled,
         ReadTimeout, SocketError, Acked, Stray, Waiting, IInv, InStep
<1>2. copy' = copy
  BY DEF SessionRuns, SessionFails, Refuse, OpenFile, ReadBlock, ReadFails, HeadCancelled,
         ReadTimeout, SocketError, Acked, Stray
<1>3. QED
  BY <1>1, <1>2

\* A step of the client leaves the report alone and stores the next chunk, or
\* nothing.
LEMMA ClientStores ==
  ASSUME IInv, ClientStep
  PROVE  /\ report' = report
         /\ \/ copy' = copy
            \/ Len(copy) < Chunks /\ copy' = Append(copy, Len(copy) + 1)
<1>1. report' = report
  BY DEF ClientStep, TakeOack, TakeData, TakeError, Leave, serverVars
<1>2. Len(copy) < Chunks
  BY DEF ClientStep, IInv, InStep
<1>3. ASSUME NEW m \in toClient, Fresh(m), TakeData(m)
      PROVE copy' = Append(copy, Len(copy) + 1)
  BY <1>3, TakenIsNext DEF TakeData
<1>4. QED
  BY <1>1, <1>2, <1>3 DEF ClientStep, TakeOack, TakeError, Leave

\* A download implements the abstract transfer: the client's copy only ever
\* grows by the next chunk of the file, and the session's report of a complete
\* transfer comes after the last one.
THEOREM ImplementsTransfer == Spec => TransferSpec
<1> DEFINE r == IF report \in {"running", "complete"} THEN report ELSE "failed"
<1>1. Init => Transfer!Init
  BY DEF Init, Transfer!Init
<1>2. ASSUME IInv, IInv', [Next]_vars
      PROVE  [Transfer!Next]_<<copy, r>>
  <2>1. CASE SessionRuns \/ SessionFails
    <3>1. copy' = copy /\ (report' = report \/ (report = "running" /\ report' # "running"))
      BY <1>2, <2>1, SessionReports
    <3>2. CASE report' = report
      BY <3>1, <3>2
    <3>3. CASE report = "running" /\ report' = "complete"
      <4>1. Len(copy) = Chunks
        BY <1>2, <3>1, <3>3 DEF IInv, CompleteMeansStored
      <4>2. QED
        BY <3>1, <3>3, <4>1 DEF Transfer!Next, Transfer!Report
    <3>4. CASE report = "running" /\ report' \notin {"running", "complete"}
      BY <3>1, <3>4 DEF Transfer!Next, Transfer!Report
    <3>5. QED
      BY <3>1, <3>2, <3>3, <3>4
  <2>2. CASE ClientStep
    BY <1>2, <2>2, ClientStores DEF Transfer!Next, Transfer!Store
  <2>3. CASE Cancel \/ UNCHANGED vars
    BY <2>3 DEF Cancel, vars, serverVars
  <2>4. QED
    BY <1>2, <2>1, <2>2, <2>3 DEF Next
<1>3. QED
  BY <1>1, <1>2, InvariantHolds, PTL DEF Spec, TransferSpec, Transfer!Spec

-----------------------------------------------------------------------------
(***************************************************************************)
(* Induction over the numbers, for sets: the numbers are well founded.     *)
(***************************************************************************)
LEMMA LeastExists ==
  ASSUME NEW S \in SUBSET Nat, S # {}
  PROVE  \E x \in S : \A y \in S : x <= y
<1> DEFINE R == {ss \in Nat \X Nat : ss[1] < ss[2]}
<1>1. IsWellFoundedOn(R, Nat)
  BY NatLessThanWellFounded DEF OpToRel
<1>2. \E x \in S : \A y \in S : <<y, x>> \notin R
  <2> HIDE DEF R
  <2> QED BY <1>1, WFMin
<1>3. \A x, y \in S : <<y, x>> \notin R => x <= y
  OBVIOUS
<1> QED
  BY <1>2, <1>3

\* A set with 0 and with the successor of each of its numbers below n has all to n.
LEMMA CountsUp ==
  ASSUME NEW n \in Nat, NEW S, 0 \in S, \A k \in 0 .. n - 1 : k \in S => k + 1 \in S
  PROVE  \A k \in 0 .. n : k \in S
<1> SUFFICES ASSUME NEW k \in 0 .. n, k \notin S PROVE FALSE
  OBVIOUS
<1> DEFINE Missing == {j \in 0 .. n : j \notin S}
<1>1. PICK m \in Missing : \A j \in Missing : m <= j
  <2>1. Missing \in SUBSET Nat /\ Missing # {}
    OBVIOUS
  <2> HIDE DEF Missing
  <2> QED BY <2>1, LeastExists
<1>2. m \in 1 .. n /\ m \notin S
  OBVIOUS
<1>3. m - 1 \in 0 .. n - 1 /\ m - 1 \notin Missing
  BY <1>1, <1>2
<1>4. m - 1 \in S
  BY <1>3
<1> QED
  BY <1>2, <1>3, <1>4

(***************************************************************************)
(* A function exists whose value at each number is made from the previous  *)
(* one, and one whose value is made from the next two.                     *)
(***************************************************************************)
Upward(n, V, v, step) ==
  \E f \in [0 .. n -> V] : f[0] = v /\ \A k \in 1 .. n : f[k] = step[k][f[k - 1]]

Downward(n, V, v, step) ==
  \E f \in [1 .. n + 2 -> V] :
    /\ f[n + 1] = v /\ f[n + 2] = v
    /\ \A i \in 1 .. n : f[i] = step[i][f[i + 1]][f[i + 2]]

\* From 0 up.
LEMMA UpwardExists ==
  ASSUME NEW n \in Nat, NEW V, NEW v \in V, NEW step \in [1 .. n -> [V -> V]]
  PROVE  Upward(n, V, v, step)
<1> DEFINE S == {m \in Nat : \E f \in [0 .. n -> V] : f[0] = v /\ \A k \in 1 .. m : f[k] = step[k][f[k - 1]]}
<1>1. 0 \in S
  <2> DEFINE f == [k \in 0 .. n |-> v]
  <2>1. f \in [0 .. n -> V] /\ f[0] = v
    OBVIOUS
  <2>2. \A k \in 1 .. 0 : f[k] = step[k][f[k - 1]]
    OBVIOUS
  <2> HIDE DEF f
  <2> QED BY <2>1, <2>2
<1>2. ASSUME NEW m \in 0 .. n - 1, m \in S PROVE m + 1 \in S
  <2>1. PICK f \in [0 .. n -> V] : f[0] = v /\ \A k \in 1 .. m : f[k] = step[k][f[k - 1]]
    BY <1>2
  <2> DEFINE g == [f EXCEPT ![m + 1] = step[m + 1][f[m]]]
  <2>2. step[m + 1][f[m]] \in V
    OBVIOUS
  <2>3. g \in [0 .. n -> V] /\ g[0] = v
    BY <2>1, <2>2
  <2>4. \A k \in 1 .. m + 1 : g[k] = step[k][g[k - 1]]
    BY <2>1, <2>2
  <2> HIDE DEF g
  <2> QED BY <2>3, <2>4
<1>3. n \in S
  <2> HIDE DEF S
  <2>1. \A k \in 0 .. n : k \in S
    BY <1>1, <1>2, CountsUp
  <2> QED BY <2>1
<1> QED
  BY <1>3 DEF Upward

\* From n down to 1.
LEMMA DownwardExists ==
  ASSUME NEW n \in Nat, NEW V, NEW v \in V, NEW step \in [1 .. n -> [V -> [V -> V]]]
  PROVE  Downward(n, V, v, step)
<1> DEFINE Good(f, m) == /\ f[n + 1] = v /\ f[n + 2] = v
                         /\ \A i \in n - m + 1 .. n : f[i] = step[i][f[i + 1]][f[i + 2]]
           S == {m \in Nat : \E f \in [1 .. n + 2 -> V] : Good(f, m)}
<1>1. 0 \in S
  <2> DEFINE f == [k \in 1 .. n + 2 |-> v]
  <2>1. f \in [1 .. n + 2 -> V] /\ Good(f, 0)
    OBVIOUS
  <2> HIDE DEF f
  <2> QED BY <2>1
<1>2. ASSUME NEW m \in 0 .. n - 1, m \in S PROVE m + 1 \in S
  <2>1. PICK f \in [1 .. n + 2 -> V] : Good(f, m)
    BY <1>2
  <2> DEFINE j == n - m
             x == step[j][f[j + 1]][f[j + 2]]
             g == [f EXCEPT ![j] = x]
  <2>2. j \in 1 .. n /\ f[j + 1] \in V /\ f[j + 2] \in V
    OBVIOUS
  <2>3. x \in V
    BY <2>2
  <2>4. g \in [1 .. n + 2 -> V]
    BY <2>3
  <2>5. g[j] = x /\ \A i \in j + 1 .. n + 2 : g[i] = f[i]
    BY <2>2
  <2>6. \A i \in j + 1 .. n : f[i] = step[i][f[i + 1]][f[i + 2]]
    BY <2>1
  <2>8. g[n + 1] = v /\ g[n + 2] = v
    BY <2>1, <2>2, <2>5
  <2>7. \A i \in j .. n : g[i] = step[i][g[i + 1]][g[i + 2]]
    <3>1. g[j] = step[j][g[j + 1]][g[j + 2]]
      <4>1. g[j + 1] = f[j + 1] /\ g[j + 2] = f[j + 2]
        BY <2>2, <2>5
      <4> QED BY <2>5, <4>1
    <3>2. ASSUME NEW i \in j + 1 .. n PROVE g[i] = step[i][g[i + 1]][g[i + 2]]
      <4>1. g[i] = f[i] /\ g[i + 1] = f[i + 1] /\ g[i + 2] = f[i + 2]
        <5> HIDE DEF g
        <5> QED BY <2>2, <2>5
      <4> QED BY <2>6, <4>1
    <3> HIDE DEF g, j
    <3> QED BY <2>2, <3>1, <3>2
  <2>9. n - (m + 1) + 1 = j
    OBVIOUS
  <2>10. Good(g, m + 1)
    <3> HIDE DEF g, j
    <3> QED BY <2>7, <2>8, <2>9
  <2> HIDE DEF g, Good
  <2> QED BY <2>4, <2>10
<1>3. n \in S
  <2> HIDE DEF S
  <2>1. \A k \in 0 .. n : k \in S
    BY <1>1, <1>2, CountsUp
  <2> QED BY <2>1
<1>4. PICK f \in [1 .. n + 2 -> V] : Good(f, n)
  BY <1>3
<1> QED
  BY <1>4 DEF Downward

\* The values from 0 up are in V when each step keeps them there.
LEMMA UpwardTyped ==
  ASSUME NEW n \in Nat, NEW V, NEW T, T[0] \in V, \A k \in 1 .. n : T[k - 1] \in V => T[k] \in V
  PROVE  \A k \in 0 .. n : T[k] \in V
<1> DEFINE S == {k \in Nat : T[k] \in V}
<1>1. 0 \in S
  OBVIOUS
<1>2. \A k \in 0 .. n - 1 : k \in S => k + 1 \in S
  <2> SUFFICES ASSUME NEW k \in 0 .. n - 1, T[k] \in V PROVE T[k + 1] \in V
    OBVIOUS
  <2>1. k + 1 \in 1 .. n /\ (k + 1) - 1 = k
    OBVIOUS
  <2> QED BY <2>1
<1>3. \A k \in 0 .. n : k \in S
  <2> HIDE DEF S
  <2> QED BY <1>1, <1>2, CountsUp
<1> QED
  BY <1>3

\* The bytes that count.
LEMMA BytesAre == NUL \in Byte /\ CR \in Byte /\ LF \in Byte
  BY CodecAssumption

(***************************************************************************)
(* The recursive functions of the model, unfolded.  Expanding is the loop  *)
(* of toNetascii.                                                          *)
(***************************************************************************)
LEMMA ExpandingUnfolds ==
  ASSUME NEW b \in Seq(Byte)
  PROVE  /\ Expanding(b) \in [0 .. Len(b) -> Seq(Byte)]
         /\ Expanding(b)[0] = <<>>
         /\ \A k \in 1 .. Len(b) :
              Expanding(b)[k] = Expanding(b)[k - 1] \o (IF b[k] = LF THEN <<CR, LF>> ELSE <<b[k]>>)
<1> DEFINE N == Len(b)
           V == Seq(Byte)
           v == <<>>
           G(k, c) == c \o (IF b[k] = LF THEN <<CR, LF>> ELSE <<b[k]>>)
           step == [k \in 1 .. N |-> [c \in V |-> G(k, c)]]
           T == Expanding(b)
<1>1. N \in Nat /\ v \in V
  OBVIOUS
<1>2. \A k \in 1 .. N, c \in V : G(k, c) \in V
  <2>1. CR \in Byte /\ LF \in Byte /\ \A k \in 1 .. N : b[k] \in Byte
    BY BytesAre
  <2>2. \A c \in V, x \in Byte : c \o <<CR, LF>> \in V /\ c \o <<x>> \in V
    BY <2>1
  <2> QED BY <2>1, <2>2
<1>3. PICK f \in [0 .. N -> V] : f[0] = v /\ \A k \in 1 .. N : f[k] = G(k, f[k - 1])
  <2> HIDE DEF V, G, N, v
  <2>1. step \in [1 .. N -> [V -> V]]
    BY <1>2
  <2>2. PICK f \in [0 .. N -> V] : f[0] = v /\ \A k \in 1 .. N : f[k] = step[k][f[k - 1]]
    <3> HIDE DEF step
    <3>1. Upward(N, V, v, step)
      BY <1>1, <2>1, UpwardExists
    <3> QED BY <3>1 DEF Upward
  <2>3. \A k \in 1 .. N : f[k - 1] \in V
    BY <1>1
  <2>4. \A k \in 1 .. N : step[k][f[k - 1]] = G(k, f[k - 1])
    BY <2>3
  <2> QED BY <2>2, <2>4
<1>4. f = [k \in 0 .. N |-> IF k = 0 THEN v ELSE G(k, f[k - 1])]
  <2> HIDE DEF V, G, N, v
  <2> QED BY <1>1, <1>3
<1>5. T = [k \in 0 .. N |-> IF k = 0 THEN v ELSE G(k, T[k - 1])]
  BY <1>4 DEF Expanding
<1> HIDE DEF T, G, V, N, v
<1>6. T[0] = v /\ \A k \in 1 .. N : T[k] = G(k, T[k - 1])
  BY <1>1, <1>5
<1>7. \A k \in 0 .. N : T[k] \in V
  BY <1>1, <1>2, <1>6, UpwardTyped
<1>8. T \in [0 .. N -> V]
  BY <1>5, <1>7
<1> QED
  BY <1>6, <1>8 DEF T, G, V, N, v

\* Shrinking, the reference.
LEMMA ShrinkingUnfolds ==
  ASSUME NEW s \in Seq(Byte)
  PROVE  /\ Shrinking(s) \in [0 .. Len(s) -> Seq(Byte)]
         /\ Shrinking(s)[0] = <<>>
         /\ \A k \in 1 .. Len(s) :
              Shrinking(s)[k] = IF Goes(s, k) THEN Shrinking(s)[k - 1] ELSE Append(Shrinking(s)[k - 1], s[k])
<1> DEFINE N == Len(s)
           V == Seq(Byte)
           v == <<>>
           G(k, c) == IF Goes(s, k) THEN c ELSE Append(c, s[k])
           step == [k \in 1 .. N |-> [c \in V |-> G(k, c)]]
           T == Shrinking(s)
<1>1. N \in Nat /\ v \in V
  OBVIOUS
<1>2. \A k \in 1 .. N, c \in V : G(k, c) \in V
  OBVIOUS
<1>3. PICK f \in [0 .. N -> V] : f[0] = v /\ \A k \in 1 .. N : f[k] = G(k, f[k - 1])
  <2> HIDE DEF V, G, N, v
  <2>1. step \in [1 .. N -> [V -> V]]
    BY <1>2
  <2>2. PICK f \in [0 .. N -> V] : f[0] = v /\ \A k \in 1 .. N : f[k] = step[k][f[k - 1]]
    <3> HIDE DEF step
    <3>1. Upward(N, V, v, step)
      BY <1>1, <2>1, UpwardExists
    <3> QED BY <3>1 DEF Upward
  <2>3. \A k \in 1 .. N : f[k - 1] \in V
    BY <1>1
  <2>4. \A k \in 1 .. N : step[k][f[k - 1]] = G(k, f[k - 1])
    BY <2>3
  <2> QED BY <2>2, <2>4
<1>4. f = [k \in 0 .. N |-> IF k = 0 THEN v ELSE G(k, f[k - 1])]
  <2> HIDE DEF V, G, N, v
  <2> QED BY <1>1, <1>3
<1>5. T = [k \in 0 .. N |-> IF k = 0 THEN v ELSE G(k, T[k - 1])]
  BY <1>4 DEF Shrinking
<1> HIDE DEF T, G, V, N, v
<1>6. T[0] = v /\ \A k \in 1 .. N : T[k] = G(k, T[k - 1])
  BY <1>1, <1>5
<1>7. \A k \in 0 .. N : T[k] \in V
  BY <1>1, <1>2, <1>6, UpwardTyped
<1>8. T \in [0 .. N -> V]
  BY <1>5, <1>7
<1> QED
  BY <1>6, <1>8 DEF T, G, V, N, v

\* Joining, the reference.
LEMMA JoiningUnfolds ==
  ASSUME NEW fields \in Seq(Seq(Byte))
  PROVE  /\ Joining(fields) \in [0 .. Len(fields) -> Seq(Byte)]
         /\ Joining(fields)[0] = <<>>
         /\ \A k \in 1 .. Len(fields) :
              Joining(fields)[k] = Joining(fields)[k - 1] \o Append(fields[k], NUL)
<1> DEFINE N == Len(fields)
           V == Seq(Byte)
           v == <<>>
           G(k, c) == c \o Append(fields[k], NUL)
           step == [k \in 1 .. N |-> [c \in V |-> G(k, c)]]
           T == Joining(fields)
<1>1. N \in Nat /\ v \in V
  OBVIOUS
<1>2. \A k \in 1 .. N, c \in V : G(k, c) \in V
  <2>1. NUL \in Byte /\ \A k \in 1 .. N : fields[k] \in V
    BY BytesAre
  <2>2. \A c \in V, x \in V : c \o Append(x, NUL) \in V
    BY <2>1
  <2> QED BY <2>1, <2>2
<1>3. PICK f \in [0 .. N -> V] : f[0] = v /\ \A k \in 1 .. N : f[k] = G(k, f[k - 1])
  <2> HIDE DEF V, G, N, v
  <2>1. step \in [1 .. N -> [V -> V]]
    BY <1>2
  <2>2. PICK f \in [0 .. N -> V] : f[0] = v /\ \A k \in 1 .. N : f[k] = step[k][f[k - 1]]
    <3> HIDE DEF step
    <3>1. Upward(N, V, v, step)
      BY <1>1, <2>1, UpwardExists
    <3> QED BY <3>1 DEF Upward
  <2>3. \A k \in 1 .. N : f[k - 1] \in V
    BY <1>1
  <2>4. \A k \in 1 .. N : step[k][f[k - 1]] = G(k, f[k - 1])
    BY <2>3
  <2> QED BY <2>2, <2>4
<1>4. f = [k \in 0 .. N |-> IF k = 0 THEN v ELSE G(k, f[k - 1])]
  <2> HIDE DEF V, G, N, v
  <2> QED BY <1>1, <1>3
<1>5. T = [k \in 0 .. N |-> IF k = 0 THEN v ELSE G(k, T[k - 1])]
  BY <1>4 DEF Joining
<1> HIDE DEF T, G, V, N, v
<1>6. T[0] = v /\ \A k \in 1 .. N : T[k] = G(k, T[k - 1])
  BY <1>1, <1>5
<1>7. \A k \in 0 .. N : T[k] \in V
  BY <1>1, <1>2, <1>6, UpwardTyped
<1>8. T \in [0 .. N -> V]
  BY <1>5, <1>7
<1> QED
  BY <1>6, <1>8 DEF T, G, V, N, v

\* Splitting, the loop of splitNulTerminated.
LEMMA SplittingUnfolds ==
  ASSUME NEW b \in Seq(Byte)
  PROVE  /\ Splitting(b) \in [0 .. Len(b) -> [fields : Seq(Seq(Byte)), rest : Seq(Byte)]]
         /\ Splitting(b)[0] = [fields |-> <<>>, rest |-> <<>>]
         /\ \A k \in 1 .. Len(b) :
              LET c == Splitting(b)[k - 1] IN
              Splitting(b)[k] = IF b[k] = NUL THEN [fields |-> Append(c.fields, c.rest), rest |-> <<>>]
                                ELSE [fields |-> c.fields, rest |-> Append(c.rest, b[k])]
<1> DEFINE N == Len(b)
           V == [fields : Seq(Seq(Byte)), rest : Seq(Byte)]
           v == [fields |-> <<>>, rest |-> <<>>]
           G(k, c) == IF b[k] = NUL THEN [fields |-> Append(c.fields, c.rest), rest |-> <<>>]
                      ELSE [fields |-> c.fields, rest |-> Append(c.rest, b[k])]
           step == [k \in 1 .. N |-> [c \in V |-> G(k, c)]]
           T == Splitting(b)
<1>1. N \in Nat /\ v \in V
  OBVIOUS
<1>2. \A k \in 1 .. N, c \in V : G(k, c) \in V
  OBVIOUS
<1>3. PICK f \in [0 .. N -> V] : f[0] = v /\ \A k \in 1 .. N : f[k] = G(k, f[k - 1])
  <2> HIDE DEF V, G, N, v
  <2>1. step \in [1 .. N -> [V -> V]]
    BY <1>2
  <2>2. PICK f \in [0 .. N -> V] : f[0] = v /\ \A k \in 1 .. N : f[k] = step[k][f[k - 1]]
    <3> HIDE DEF step
    <3>1. Upward(N, V, v, step)
      BY <1>1, <2>1, UpwardExists
    <3> QED BY <3>1 DEF Upward
  <2>3. \A k \in 1 .. N : f[k - 1] \in V
    BY <1>1
  <2>4. \A k \in 1 .. N : step[k][f[k - 1]] = G(k, f[k - 1])
    BY <2>3
  <2> QED BY <2>2, <2>4
<1>4. f = [k \in 0 .. N |-> IF k = 0 THEN v ELSE G(k, f[k - 1])]
  <2> HIDE DEF V, G, N, v
  <2> QED BY <1>1, <1>3
<1>5. T = [k \in 0 .. N |-> IF k = 0 THEN v ELSE G(k, T[k - 1])]
  BY <1>4 DEF Splitting
<1> HIDE DEF T, G, V, N, v
<1>6. T[0] = v /\ \A k \in 1 .. N : T[k] = G(k, T[k - 1])
  BY <1>1, <1>5
<1>7. \A k \in 0 .. N : T[k] \in V
  BY <1>1, <1>2, <1>6, UpwardTyped
<1>8. T \in [0 .. N -> V]
  BY <1>5, <1>7
<1> QED
  BY <1>6, <1>8 DEF T, G, V, N, v

\* Collapsing, the loop of fromNetascii, by the three branches that it has.
LEMMA CollapsingUnfolds ==
  ASSUME NEW b \in Seq(Byte)
  PROVE  LET N == Len(b)
             F == Collapsing(b)
         IN /\ \A i \in 1 .. N + 1 : F[i].out \in Seq(Byte) /\ F[i].carry \in BOOLEAN
            /\ F[N + 1].out = <<>> /\ F[N + 1].carry = FALSE
            /\ \A i \in 1 .. N :
                 /\ b[i] = CR /\ i = N => F[i].out = <<>> /\ F[i].carry = TRUE
                 /\ b[i] = CR /\ i # N /\ b[i + 1] = LF =>
                      F[i].out = <<LF>> \o F[i + 2].out /\ F[i].carry = F[i + 2].carry
                 /\ ~(b[i] = CR /\ (i = N \/ b[i + 1] = LF)) =>
                      F[i].out = <<b[i]>> \o F[i + 1].out /\ F[i].carry = F[i + 1].carry
<1> DEFINE N == Len(b)
           V == [out : Seq(Byte), carry : BOOLEAN]
           v == [out |-> <<>>, carry |-> FALSE]
           G(i, c, d) == IF b[i] = CR /\ i = N THEN [out |-> <<>>, carry |-> TRUE]
                         ELSE IF b[i] = CR /\ b[i + 1] = LF
                              THEN [out |-> <<LF>> \o d.out, carry |-> d.carry]
                         ELSE [out |-> <<b[i]>> \o c.out, carry |-> c.carry]
           step == [i \in 1 .. N |-> [c \in V |-> [d \in V |-> G(i, c, d)]]]
           T == Collapsing(b)
<1>1. N \in Nat /\ v \in V
  OBVIOUS
<1>2. \A i \in 1 .. N, c \in V, d \in V : G(i, c, d) \in V
  <2>1. LF \in Byte /\ \A i \in 1 .. N : b[i] \in Byte
    BY BytesAre
  <2>2. \A d \in V, x \in Byte : <<x>> \o d.out \in Seq(Byte)
    OBVIOUS
  <2> QED BY <2>1, <2>2
<1>3. PICK f \in [1 .. N + 2 -> V] :
        f[N + 1] = v /\ f[N + 2] = v /\ \A i \in 1 .. N : f[i] = G(i, f[i + 1], f[i + 2])
  <2> HIDE DEF V, G, N, v
  <2>1. step \in [1 .. N -> [V -> [V -> V]]]
    BY <1>2
  <2>2. PICK f \in [1 .. N + 2 -> V] :
          f[N + 1] = v /\ f[N + 2] = v /\ \A i \in 1 .. N : f[i] = step[i][f[i + 1]][f[i + 2]]
    <3> HIDE DEF step
    <3>1. Downward(N, V, v, step)
      BY <1>1, <2>1, DownwardExists
    <3> QED BY <3>1 DEF Downward
  <2>3. \A i \in 1 .. N : f[i + 1] \in V /\ f[i + 2] \in V
    BY <1>1
  <2>4. \A i \in 1 .. N : step[i][f[i + 1]][f[i + 2]] = G(i, f[i + 1], f[i + 2])
    BY <2>3
  <2> QED BY <2>2, <2>4
<1>4. f = [i \in 1 .. N + 2 |-> IF i > N THEN v ELSE G(i, f[i + 1], f[i + 2])]
  <2> HIDE DEF V, G, N, v
  <2>1. \A i \in 1 .. N + 2 : f[i] = IF i > N THEN v ELSE G(i, f[i + 1], f[i + 2])
    BY <1>1, <1>3
  <2> QED BY <2>1
<1>5. T = [i \in 1 .. N + 2 |-> IF i > N THEN v ELSE G(i, T[i + 1], T[i + 2])]
  BY <1>4 DEF Collapsing
<1> HIDE DEF T, G, V, N, v
<1>6. /\ T[N + 1] = v /\ T[N + 2] = v
      /\ \A i \in 1 .. N : T[i] = G(i, T[i + 1], T[i + 2])
  BY <1>1, <1>5
<1>7. \A k \in 0 .. N : T[N - k + 1] \in V /\ T[N - k + 2] \in V
  <2> DEFINE S == {k \in Nat : T[N - k + 1] \in V /\ T[N - k + 2] \in V}
  <2>1. 0 \in S
    BY <1>1, <1>6
  <2>2. ASSUME NEW k \in 0 .. N - 1, k \in S PROVE k + 1 \in S
    <3>1. N - k \in 1 .. N /\ N - (k + 1) + 1 = N - k /\ N - (k + 1) + 2 = N - k + 1
      BY <1>1
    <3>2. T[N - k] = G(N - k, T[N - k + 1], T[N - k + 2])
      BY <1>6, <3>1
    <3>3. T[N - k] \in V
      BY <1>2, <2>2, <3>1, <3>2
    <3> QED BY <2>2, <3>1, <3>3
  <2>3. \A k \in 0 .. N : k \in S
    <3> HIDE DEF S
    <3> QED BY <1>1, <2>1, <2>2, CountsUp
  <2> QED BY <2>3
<1>8. \A i \in 1 .. N + 2 : T[i] \in V
  <2>1. \A i \in 1 .. N + 1 : N - i + 1 \in 0 .. N /\ N - (N - i + 1) + 1 = i
    BY <1>1
  <2>2. \A i \in 1 .. N + 1 : T[i] \in V
    BY <1>7, <2>1
  <2> QED BY <1>1, <1>6, <2>2
<1>9. \A i \in 1 .. N + 1 : T[i].out \in Seq(Byte) /\ T[i].carry \in BOOLEAN
  BY <1>1, <1>8 DEF V
<1>10. T[N + 1].out = <<>> /\ T[N + 1].carry = FALSE
  BY <1>6 DEF v
<1>11. ASSUME NEW i \in 1 .. N
       PROVE  /\ b[i] = CR /\ i = N => T[i].out = <<>> /\ T[i].carry = TRUE
              /\ b[i] = CR /\ i # N /\ b[i + 1] = LF =>
                   T[i].out = <<LF>> \o T[i + 2].out /\ T[i].carry = T[i + 2].carry
              /\ ~(b[i] = CR /\ (i = N \/ b[i + 1] = LF)) =>
                   T[i].out = <<b[i]>> \o T[i + 1].out /\ T[i].carry = T[i + 1].carry
  <2>1. T[i] = G(i, T[i + 1], T[i + 2])
    BY <1>6
  <2>2. CASE b[i] = CR /\ i = N
    BY <2>1, <2>2 DEF G
  <2>3. CASE b[i] = CR /\ i # N /\ b[i + 1] = LF
    BY <2>1, <2>3 DEF G
  <2>4. CASE ~(b[i] = CR /\ (i = N \/ b[i + 1] = LF))
    <3>1. T[i] = [out |-> <<b[i]>> \o T[i + 1].out, carry |-> T[i + 1].carry]
      BY <2>1, <2>4 DEF G
    <3>2. T[i].out = <<b[i]>> \o T[i + 1].out /\ T[i].carry = T[i + 1].carry
      BY <3>1
    <3> QED BY <2>4, <3>2
  <2> QED BY <2>2, <2>3, <2>4
<1> QED
  BY <1>9, <1>10, <1>11 DEF T, N

\* The same from n + 1 down, where a number may need the next two.
LEMMA CountsDown ==
  ASSUME NEW n \in Nat, NEW S, n + 1 \in S,
         \A i \in 1 .. n : i + 1 \in S /\ (i < n => i + 2 \in S) => i \in S
  PROVE  \A i \in 1 .. n + 1 : i \in S
<1> DEFINE U == {k \in Nat : \A i \in n + 1 - k .. n + 1 : i \in S}
<1>1. 0 \in U
  OBVIOUS
<1>2. ASSUME NEW k \in 0 .. n - 1, k \in U PROVE k + 1 \in U
  <2>1. n - k \in 1 .. n /\ (n - k < n => (n - k) + 2 \in n + 1 - k .. n + 1) /\ (n - k) + 1 \in n + 1 - k .. n + 1
    OBVIOUS
  <2>2. \A i \in n + 1 - k .. n + 1 : i \in S
    BY <1>2
  <2>3. n - k \in S
    BY <2>1, <2>2
  <2>4. \A i \in n + 1 - (k + 1) .. n + 1 : i = n - k \/ i \in n + 1 - k .. n + 1
    OBVIOUS
  <2> QED BY <2>2, <2>3, <2>4
<1>3. \A k \in 0 .. n : k \in U
  <2> HIDE DEF U
  <2> QED BY <1>1, <1>2, CountsUp
<1> QED
  BY <1>3

(***************************************************************************)
(* Sequences of bytes: a byte moves from the front of what follows to the  *)
(* end of what precedes.                                                   *)
(***************************************************************************)
LEMMA Regroups ==
  ASSUME NEW c \in Seq(Byte), NEW x \in Byte, NEW r \in Seq(Byte)
  PROVE  c \o (<<x>> \o r) = Append(c, x) \o r
  OBVIOUS

\* Concatenation is associative.
LEMMA Associates ==
  ASSUME NEW x \in Seq(Byte), NEW y \in Seq(Byte), NEW z \in Seq(Byte)
  PROVE  x \o (y \o z) = (x \o y) \o z
  OBVIOUS

(***************************************************************************)
(* fromNetascii on a block, from its i-th byte on, adds to what it has of  *)
(* the stream before that byte what is missing of the stream to the end of *)
(* the block, but for a CR that the next block decides about.              *)
(***************************************************************************)
LEMMA BlockIsCollapsed ==
  ASSUME NEW s \in Seq(Byte), NEW a \in 0 .. Len(s), NEW e \in a .. Len(s)
  PROVE  LET F == Collapsing(SubSeq(s, a + 1, e))
             C == Shrinking(s)
         IN \A i \in 1 .. e - a + 1 :
              /\ F[i].out \in Seq(Byte)
              /\ F[i].carry = (i <= e - a /\ s[e] = CR)
              /\ C[a + i - 1] \o F[i].out = C[IF i <= e - a /\ s[e] = CR THEN e - 1 ELSE e]
<1> DEFINE b == SubSeq(s, a + 1, e)
           n == e - a
           F == Collapsing(b)
           C == Shrinking(s)
           O(i) == F[i].out
           R(i) == F[i].carry
           Kept(i) == i <= n /\ s[e] = CR
           Right(i) == R(i) = Kept(i) /\ C[a + i - 1] \o O(i) = C[IF Kept(i) THEN e - 1 ELSE e]
           S == {i \in Nat : Right(i)}
<1>1. /\ b \in Seq(Byte) /\ Len(b) = n /\ n \in Nat /\ a + n = e /\ a \in Nat /\ e \in Nat
      /\ \A i \in 1 .. n : b[i] = s[a + i]
  OBVIOUS
<1> HIDE DEF b
<1>2. /\ \A i \in 1 .. n + 1 : O(i) \in Seq(Byte) /\ R(i) \in BOOLEAN
      /\ O(n + 1) = <<>> /\ R(n + 1) = FALSE
      /\ \A i \in 1 .. n :
           /\ b[i] = CR /\ i = n => O(i) = <<>> /\ R(i) = TRUE
           /\ b[i] = CR /\ i # n /\ b[i + 1] = LF => O(i) = <<LF>> \o O(i + 2) /\ R(i) = R(i + 2)
           /\ ~(b[i] = CR /\ (i = n \/ b[i + 1] = LF)) => O(i) = <<b[i]>> \o O(i + 1) /\ R(i) = R(i + 1)
  <2>1. LET N == Len(b) IN
        /\ \A i \in 1 .. N + 1 : O(i) \in Seq(Byte) /\ R(i) \in BOOLEAN
        /\ O(N + 1) = <<>> /\ R(N + 1) = FALSE
        /\ \A i \in 1 .. N :
             /\ b[i] = CR /\ i = N => O(i) = <<>> /\ R(i) = TRUE
             /\ b[i] = CR /\ i # N /\ b[i + 1] = LF => O(i) = <<LF>> \o O(i + 2) /\ R(i) = R(i + 2)
             /\ ~(b[i] = CR /\ (i = N \/ b[i + 1] = LF)) => O(i) = <<b[i]>> \o O(i + 1) /\ R(i) = R(i + 1)
    BY <1>1, CollapsingUnfolds
  <2> HIDE DEF O, R, n
  <2> QED BY <1>1, <2>1
<1>3. /\ C \in [0 .. Len(s) -> Seq(Byte)]
      /\ \A k \in 1 .. Len(s) : C[k] = IF Goes(s, k) THEN C[k - 1] ELSE Append(C[k - 1], s[k])
  BY ShrinkingUnfolds
<1>4. CR # LF /\ CR \in Byte /\ LF \in Byte
  BY BytesAre DEF CR, LF
<1> HIDE DEF F, C, O, R, n
<1>5. \A k \in 0 .. Len(s) : C[k] \in Seq(Byte)
  BY <1>3
<1>7. Right(n + 1)
  <2>1. C[e] \o <<>> = C[e]
    BY <1>5
  <2>2. Kept(n + 1) = FALSE
    BY <1>1
  <2>3. a + (n + 1) - 1 = e
    BY <1>1
  <2> HIDE DEF Kept
  <2> QED BY <1>2, <2>1, <2>2, <2>3
<1>8. ASSUME NEW i \in 1 .. n, Right(i + 1), i < n => Right(i + 2) PROVE Right(i)
  <2> DEFINE k == a + i
  <2>1. k \in 1 .. Len(s) /\ k \in 1 .. e /\ k - 1 \in 0 .. Len(s) /\ b[i] = s[k] /\ s[k] \in Byte
    BY <1>1
  <2>2. C[k - 1] \in Seq(Byte) /\ C[k] \in Seq(Byte)
    BY <1>5, <2>1
  <2>6. a + i - 1 = k - 1 /\ a + (i + 1) - 1 = k /\ a + (i + 2) - 1 = k + 1
    BY <1>1
  <2>3. CASE b[i] = CR /\ i = n
    <3>1. O(i) = <<>> /\ R(i) = TRUE
      BY <1>2, <2>3
    <3>2. k = e /\ C[k - 1] \o <<>> = C[k - 1]
      BY <1>1, <2>2, <2>3
    <3>3. Kept(i) = TRUE
      BY <1>1, <2>1, <2>3, <3>2
    <3> HIDE DEF Kept
    <3> QED BY <2>6, <3>1, <3>2, <3>3
  <2>4. CASE b[i] = CR /\ i # n /\ b[i + 1] = LF
    <3>1. i + 1 \in 1 .. n /\ i + 2 \in 1 .. n + 1 /\ k + 1 \in 1 .. Len(s) /\ b[i + 1] = s[k + 1]
      BY <1>1, <2>1, <2>4
    <3>2. O(i) = <<LF>> \o O(i + 2) /\ R(i) = R(i + 2) /\ O(i + 2) \in Seq(Byte)
      BY <1>2, <2>4, <3>1
    <3>3. C[k] = C[k - 1]
      BY <1>3, <2>1, <2>4, <3>1 DEF Goes
    <3>4. C[k + 1] = Append(C[k], LF)
      <4>1. ~Goes(s, k + 1)
        BY <1>4, <2>4, <3>1 DEF Goes
      <4>2. C[k + 1] = IF Goes(s, k + 1) THEN C[(k + 1) - 1] ELSE Append(C[(k + 1) - 1], s[k + 1])
        BY <1>3, <3>1
      <4>3. (k + 1) - 1 = k /\ s[k + 1] = LF
        BY <2>1, <2>4, <3>1
      <4> QED BY <4>1, <4>2, <4>3
    <3>5. C[k - 1] \o (<<LF>> \o O(i + 2)) = Append(C[k - 1], LF) \o O(i + 2)
      BY <1>4, <2>2, <3>2, Regroups
    <3>6. Right(i + 2)
      <4>1. i < n
        BY <1>1, <2>4
      <4> HIDE DEF Right
      <4> QED BY <1>8, <4>1
    <3>7. Kept(i) = Kept(i + 2)
      <4>1. i + 1 = n => s[e] # CR
        <5>1. i + 1 = n => k + 1 = e
          BY <1>1
        <5> QED BY <1>4, <2>4, <3>1, <5>1
      <4> QED BY <1>1, <3>1, <4>1
    <3> HIDE DEF Kept
    <3>8. C[k - 1] \o O(i) = C[k + 1] \o O(i + 2)
      BY <3>2, <3>3, <3>4, <3>5
    <3> QED BY <2>6, <3>2, <3>6, <3>7, <3>8
  <2>5. CASE ~(b[i] = CR /\ (i = n \/ b[i + 1] = LF))
    <3>0. i + 1 \in 1 .. n + 1
      BY <1>1
    <3>1. O(i) = <<b[i]>> \o O(i + 1) /\ R(i) = R(i + 1) /\ O(i + 1) \in Seq(Byte)
      BY <1>2, <2>5, <3>0
    <3>2. ~Goes(s, k)
      <4>1. CASE s[k] # CR
        BY <4>1 DEF Goes
      <4>2. CASE s[k] = CR
        <5>1. i + 1 \in 1 .. n /\ b[i + 1] = s[k + 1] /\ k # Len(s)
          BY <1>1, <2>1, <2>5, <4>2
        <5> QED BY <2>1, <2>5, <4>2, <5>1 DEF Goes
      <4> QED BY <4>1, <4>2
    <3>3. C[k] = Append(C[k - 1], s[k])
      BY <1>3, <2>1, <3>2
    <3>4. C[k - 1] \o (<<s[k]>> \o O(i + 1)) = Append(C[k - 1], s[k]) \o O(i + 1)
      BY <2>1, <2>2, <3>1, Regroups
    <3>5. Kept(i) = Kept(i + 1)
      <4>1. i = n => s[e] # CR
        BY <1>1, <2>1, <2>5
      <4> QED BY <1>1, <4>1
    <3> HIDE DEF Kept
    <3>6. C[k - 1] \o O(i) = C[k] \o O(i + 1)
      BY <2>1, <3>1, <3>3, <3>4
    <3> QED BY <1>8, <2>6, <3>1, <3>5, <3>6
  <2> QED BY <2>3, <2>4, <2>5
<1>9. \A i \in 1 .. n + 1 : Right(i)
  <2> HIDE DEF Right
  <2>1. n + 1 \in S
    BY <1>1, <1>7
  <2>2. ASSUME NEW i \in 1 .. n, i + 1 \in S, i < n => i + 2 \in S PROVE i \in S
    <3>1. i \in Nat /\ Right(i + 1) /\ (i < n => Right(i + 2))
      BY <1>1, <2>2
    <3> QED BY <1>8, <3>1
  <2>3. \A i \in 1 .. n + 1 : i \in S
    <3> HIDE DEF S
    <3> QED BY <1>1, <2>1, <2>2, CountsDown
  <2> QED BY <2>3
<1> QED
  BY <1>2, <1>9 DEF F, C, b, O, R, n

(***************************************************************************)
(* One block of an upload; r is what fromNetascii makes of it.  Only at    *)
(* the end of the text is a block empty.                                   *)
(***************************************************************************)
LEMMA BlockIsStored ==
  ASSUME NEW s \in Seq(Byte), NEW a \in 0 .. Len(s), NEW e \in a .. Len(s), e = a => a = Len(s),
         NEW c \in BOOLEAN, c <=> a > 0 /\ s[a] = CR,
         NEW o, o = Shrinking(s)[IF c THEN a - 1 ELSE a]
  PROVE  LET r == FromNetascii(SubSeq(s, a + 1, e), c)
         IN /\ r.carry = (e > a /\ s[e] = CR)
            /\ o \o r.out = Shrinking(s)[IF e > a /\ s[e] = CR THEN e - 1 ELSE e]
<1> DEFINE b == SubSeq(s, a + 1, e)
           F == Collapsing(b)
           C == Shrinking(s)
           r == FromNetascii(b, c)
           Kept == e > a /\ s[e] = CR
<1>1. a \in Nat /\ e \in Nat /\ Len(s) \in Nat
  OBVIOUS
<1>2. /\ b \in Seq(Byte) /\ Len(b) = e - a
      /\ e > a => b # <<>> /\ b[1] = s[a + 1]
      /\ e = a => b = <<>>
  OBVIOUS
<1>3. /\ C \in [0 .. Len(s) -> Seq(Byte)]
      /\ \A k \in 1 .. Len(s) : C[k] = IF Goes(s, k) THEN C[k - 1] ELSE Append(C[k - 1], s[k])
  BY ShrinkingUnfolds
<1>4. \A i \in 1 .. e - a + 1 :
        /\ F[i].out \in Seq(Byte)
        /\ F[i].carry = (i <= e - a /\ s[e] = CR)
        /\ C[a + i - 1] \o F[i].out = C[IF i <= e - a /\ s[e] = CR THEN e - 1 ELSE e]
  BY BlockIsCollapsed
<1>5. CR # LF /\ CR \in Byte /\ LF \in Byte
  BY BytesAre DEF CR, LF
<1>6. e = a => F[1].out = <<>> /\ F[1].carry = FALSE
  <2>1. F[Len(b) + 1].out = <<>> /\ F[Len(b) + 1].carry = FALSE
    BY <1>2, CollapsingUnfolds
  <2> HIDE DEF F, b
  <2> HIDE DEF Kept
  <2> QED BY <1>1, <1>2, <2>1
<1>7. \A k \in 0 .. Len(s) : C[k] \in Seq(Byte)
  BY <1>3
<1>8. /\ ~c \/ b = <<>> => r = F[1]
      /\ c /\ b # <<>> /\ b[1] = LF => r.out = <<LF>> \o F[2].out /\ r.carry = F[2].carry
      /\ c /\ b # <<>> /\ b[1] # LF => r.out = <<CR>> \o F[1].out /\ r.carry = F[1].carry
  <2> HIDE DEF F, b
  <2>1. r = CASE ~c \/ b = <<>> -> F[1]
              [] c /\ b # <<>> /\ b[1] = LF -> [out |-> <<LF>> \o F[2].out, carry |-> F[2].carry]
              [] c /\ b # <<>> /\ b[1] # LF -> [out |-> <<CR>> \o F[1].out, carry |-> F[1].carry]
    BY DEF FromNetascii, F
  <2>2. c \in BOOLEAN
    OBVIOUS
  <2> HIDE DEF r
  <2> HIDE DEF Kept
  <2> QED BY <2>1, <2>2
<1> HIDE DEF b, F, C, r
<1>9. c => a \in 1 .. Len(s) /\ a - 1 \in 0 .. Len(s) /\ s[a] = CR
  BY <1>1
<1>10. o = C[IF c THEN a - 1 ELSE a]
  BY DEF C
<1>11. ASSUME e = a PROVE r.carry = Kept /\ o \o r.out = C[IF Kept THEN e - 1 ELSE e]
  <2>1. r.out = <<>> /\ r.carry = FALSE
    BY <1>2, <1>6, <1>8, <1>11
  <2>2. c => C[a] = C[a - 1]
    BY <1>3, <1>9, <1>11 DEF Goes
  <2>3. o = C[a] /\ o \in Seq(Byte)
    BY <1>1, <1>7, <1>10, <2>2
  <2>4. o \o <<>> = o
    BY <2>3
  <2>5. Kept = FALSE
    BY <1>1, <1>11
  <2> HIDE DEF Kept
  <2> QED BY <1>11, <2>1, <2>3, <2>4, <2>5
<1>12. ASSUME e > a /\ ~c PROVE r.carry = Kept /\ o \o r.out = C[IF Kept THEN e - 1 ELSE e]
  <2>1. r = F[1] /\ 1 \in 1 .. e - a + 1 /\ a + 1 - 1 = a
    BY <1>1, <1>8, <1>12
  <2>2. /\ F[1].carry = (1 <= e - a /\ s[e] = CR)
        /\ C[a] \o F[1].out = C[IF 1 <= e - a /\ s[e] = CR THEN e - 1 ELSE e]
    BY <1>4, <2>1
  <2>3. (1 <= e - a /\ s[e] = CR) = Kept
    BY <1>1, <1>12
  <2>4. o = C[a]
    BY <1>10, <1>12
  <2> HIDE DEF Kept
  <2> QED BY <2>1, <2>2, <2>3, <2>4
<1>13. ASSUME e > a /\ c /\ b[1] = LF PROVE r.carry = Kept /\ o \o r.out = C[IF Kept THEN e - 1 ELSE e]
  <2>1. /\ a + 1 \in 1 .. Len(s) /\ s[a + 1] = LF /\ 2 \in 1 .. e - a + 1 /\ a + 2 - 1 = a + 1
        /\ (a + 1) - 1 = a /\ a \in 0 .. Len(s)
    BY <1>1, <1>2, <1>13
  <2>2. C[a] = C[a - 1]
    BY <1>3, <1>9, <1>13, <2>1 DEF Goes
  <2>3. C[a + 1] = Append(C[a], LF)
    <3>1. ~Goes(s, a + 1)
      BY <1>5, <2>1 DEF Goes
    <3>2. C[a + 1] = IF Goes(s, a + 1) THEN C[(a + 1) - 1] ELSE Append(C[(a + 1) - 1], s[a + 1])
      BY <1>3, <2>1
    <3> QED BY <2>1, <3>1, <3>2
  <2>4. /\ r.out = <<LF>> \o F[2].out /\ r.carry = F[2].carry
    BY <1>2, <1>8, <1>13
  <2>5. /\ F[2].out \in Seq(Byte)
        /\ F[2].carry = (2 <= e - a /\ s[e] = CR)
        /\ C[a + 1] \o F[2].out = C[IF 2 <= e - a /\ s[e] = CR THEN e - 1 ELSE e]
    BY <1>4, <2>1
  <2>6. (2 <= e - a /\ s[e] = CR) = Kept
    <3>1. e = a + 1 => s[e] # CR
      BY <1>5, <2>1
    <3> QED BY <1>1, <1>13, <3>1
  <2>7. C[a] \o (<<LF>> \o F[2].out) = Append(C[a], LF) \o F[2].out
    BY <1>5, <1>7, <2>1, <2>5, Regroups
  <2>8. o = C[a]
    BY <1>10, <1>13, <2>2
  <2> HIDE DEF Kept
  <2> QED BY <2>3, <2>4, <2>5, <2>6, <2>7, <2>8
<1>14. ASSUME e > a /\ c /\ b[1] # LF PROVE r.carry = Kept /\ o \o r.out = C[IF Kept THEN e - 1 ELSE e]
  <2>1. /\ a # Len(s) /\ s[a + 1] # LF /\ 1 \in 1 .. e - a + 1 /\ a + 1 - 1 = a
    BY <1>1, <1>2, <1>14
  <2>2. C[a] = Append(C[a - 1], CR)
    BY <1>3, <1>9, <1>14, <2>1 DEF Goes
  <2>3. /\ r.out = <<CR>> \o F[1].out /\ r.carry = F[1].carry
    BY <1>2, <1>8, <1>14
  <2>4. /\ F[1].out \in Seq(Byte)
        /\ F[1].carry = (1 <= e - a /\ s[e] = CR)
        /\ C[a] \o F[1].out = C[IF 1 <= e - a /\ s[e] = CR THEN e - 1 ELSE e]
    BY <1>4, <2>1
  <2>5. (1 <= e - a /\ s[e] = CR) = Kept
    BY <1>1, <1>14
  <2>6. C[a - 1] \o (<<CR>> \o F[1].out) = Append(C[a - 1], CR) \o F[1].out
    BY <1>5, <1>7, <1>9, <1>14, <2>4, Regroups
  <2>7. o = C[a - 1]
    BY <1>10, <1>14
  <2> HIDE DEF Kept
  <2> QED BY <2>2, <2>3, <2>4, <2>5, <2>6, <2>7
<1>15. e = a \/ e > a
  BY <1>1
<1> HIDE DEF Kept
<1>16. r.carry = Kept /\ o \o r.out = C[IF Kept THEN e - 1 ELSE e]
  BY <1>11, <1>12, <1>13, <1>14, <1>15
<1> QED
  BY <1>16 DEF Kept, C, r, b

(***************************************************************************)
(* toNetascii of the blocks, one after the other, is toNetascii of all.    *)
(***************************************************************************)
LEMMA BlockIsExpanded ==
  ASSUME NEW s \in Seq(Byte), NEW a \in 0 .. Len(s), NEW e \in a .. Len(s)
  PROVE  Expanding(s)[a] \o ToNetascii(SubSeq(s, a + 1, e)) = Expanding(s)[e]
<1> DEFINE b == SubSeq(s, a + 1, e)
           n == e - a
           E == Expanding(s)
           T == Expanding(b)
           W(c) == IF c = LF THEN <<CR, LF>> ELSE <<c>>
           Right(j) == E[a] \o T[j] = E[a + j]
           S == {j \in Nat : Right(j)}
<1>1. /\ b \in Seq(Byte) /\ Len(b) = n /\ n \in Nat /\ a + n = e /\ a \in Nat /\ Len(s) \in Nat
      /\ \A j \in 1 .. n : b[j] = s[a + j] /\ a + j \in 1 .. Len(s)
  OBVIOUS
<1> HIDE DEF b
<1>2. /\ E \in [0 .. Len(s) -> Seq(Byte)]
      /\ \A k \in 1 .. Len(s) : E[k] = E[k - 1] \o W(s[k])
  BY ExpandingUnfolds
<1>3. /\ T \in [0 .. n -> Seq(Byte)] /\ T[0] = <<>>
      /\ \A j \in 1 .. n : T[j] = T[j - 1] \o W(b[j])
  <2>1. /\ T \in [0 .. Len(b) -> Seq(Byte)] /\ T[0] = <<>>
        /\ \A j \in 1 .. Len(b) : T[j] = T[j - 1] \o W(b[j])
    BY <1>1, ExpandingUnfolds
  <2> HIDE DEF T, W, n
  <2> QED BY <1>1, <2>1
<1>4. \A c \in Byte : W(c) \in Seq(Byte)
  BY BytesAre
<1> HIDE DEF E, T, W, n
<1>5. E[a] \in Seq(Byte) /\ E[a] \o T[0] = E[a]
  BY <1>1, <1>2, <1>3
<1>6. ASSUME NEW j \in 0 .. n - 1, Right(j) PROVE Right(j + 1)
  <2>1. /\ j + 1 \in 1 .. n /\ j \in 0 .. n /\ (j + 1) - 1 = j /\ (a + (j + 1)) - 1 = a + j
        /\ a + (j + 1) \in 1 .. Len(s) /\ b[j + 1] = s[a + (j + 1)] /\ s[a + (j + 1)] \in Byte
    BY <1>1
  <2> DEFINE w == W(b[j + 1])
             k == a + (j + 1)
  <2>2. T[j + 1] = T[j] \o w
    BY <1>3, <2>1
  <2>3. E[k] = E[a + j] \o w
    BY <1>2, <2>1
  <2>4. w \in Seq(Byte) /\ T[j] \in Seq(Byte)
    BY <1>3, <1>4, <2>1
  <2> HIDE DEF w, k
  <2>5. E[a] \o (T[j] \o w) = (E[a] \o T[j]) \o w
    <3> DEFINE x == E[a]
               y == T[j]
    <3>1. x \in Seq(Byte) /\ y \in Seq(Byte)
      BY <1>5, <2>4
    <3> HIDE DEF x, y
    <3>2. x \o (y \o w) = (x \o y) \o w
      BY <2>4, <3>1, Associates
    <3> QED BY <3>2 DEF x, y
  <2> QED BY <1>6, <2>2, <2>3, <2>5 DEF k
<1>7. Right(n)
  <2>1. Right(0)
    <3>1. a + 0 = a
      BY <1>1
    <3> QED BY <1>5, <3>1
  <2> HIDE DEF Right
  <2>0. 0 \in S
    BY <2>1
  <2>2. ASSUME NEW j \in 0 .. n - 1, j \in S PROVE j + 1 \in S
    BY <1>1, <1>6, <2>2
  <2>3. \A j \in 0 .. n : j \in S
    <3> HIDE DEF S
    <3> QED BY <1>1, <2>0, <2>2, CountsUp
  <2> QED BY <1>1, <2>3
<1> QED
  BY <1>1, <1>7 DEF E, T, b, n, ToNetascii

(***************************************************************************)
(* Where each byte of the text is in the netascii of it.                   *)
(***************************************************************************)
LEMMA ExpandedBytes ==
  ASSUME NEW s \in Seq(Byte), NEW k \in 1 .. Len(s)
  PROVE  LET E == Expanding(s)
             o == E[Len(s)]
             p == Len(E[k - 1])
         IN /\ p \in Nat /\ Len(E[k]) <= Len(o)
            /\ s[k] = LF => Len(E[k]) = p + 2 /\ o[p + 1] = CR /\ o[p + 2] = LF
            /\ s[k] # LF => Len(E[k]) = p + 1 /\ o[p + 1] = s[k]
<1> DEFINE N == Len(s)
           E == Expanding(s)
           W(c) == IF c = LF THEN <<CR, LF>> ELSE <<c>>
           Right(j) == Len(E[k]) <= Len(E[k + j]) /\ \A p \in 1 .. Len(E[k]) : E[k + j][p] = E[k][p]
           S == {j \in Nat : Right(j)}
<1>1. N \in Nat /\ k \in Nat /\ N - k \in Nat /\ k + (N - k) = N
  OBVIOUS
<1>2. /\ E \in [0 .. N -> Seq(Byte)]
      /\ \A j \in 1 .. N : E[j] = E[j - 1] \o W(s[j])
  BY ExpandingUnfolds
<1>3. \A c \in Byte : W(c) \in Seq(Byte)
  BY BytesAre
<1>4. \A j \in 0 .. N : E[j] \in Seq(Byte)
  BY <1>2
<1>5. \A j \in 1 .. N : s[j] \in Byte
  OBVIOUS
<1> HIDE DEF N, E, W
<1>6. Right(0)
  BY <1>1, <1>4
<1>7. ASSUME NEW j \in 0 .. N - k - 1, Right(j) PROVE Right(j + 1)
  <2>1. k + (j + 1) \in 1 .. N /\ (k + (j + 1)) - 1 = k + j /\ k + j \in 0 .. N /\ k \in 0 .. N
    BY <1>1 DEF N
  <2>2. E[k + (j + 1)] = E[k + j] \o W(s[k + (j + 1)])
    BY <1>2, <2>1
  <2> DEFINE w == W(s[k + (j + 1)])
             x == E[k + j]
             y == E[k]
  <2>3. w \in Seq(Byte) /\ x \in Seq(Byte) /\ y \in Seq(Byte)
    BY <1>3, <1>4, <1>5, <2>1
  <2>4. Len(y) <= Len(x) /\ \A p \in 1 .. Len(y) : x[p] = y[p]
    BY <1>7
  <2> HIDE DEF w, x, y
  <2>5. Len(y) <= Len(x \o w) /\ \A p \in 1 .. Len(y) : (x \o w)[p] = y[p]
    BY <2>3, <2>4
  <2> QED BY <2>2, <2>5 DEF w, x, y
<1>8. Right(N - k)
  <2> HIDE DEF Right
  <2>1. 0 \in S
    BY <1>6
  <2>2. ASSUME NEW j \in 0 .. N - k - 1, j \in S PROVE j + 1 \in S
    BY <1>1, <1>7, <2>2
  <2>3. \A j \in 0 .. N - k : j \in S
    <3> HIDE DEF S
    <3> QED BY <1>1, <2>1, <2>2, CountsUp
  <2> QED BY <1>1, <2>3
<1> DEFINE o == E[N]
           x == E[k - 1]
           p == Len(x)
<1>9. Len(E[k]) <= Len(o) /\ \A q \in 1 .. Len(E[k]) : o[q] = E[k][q]
  BY <1>1, <1>8
<1>10. E[k] = x \o W(s[k]) /\ x \in Seq(Byte) /\ s[k] \in Byte
  <2>1. k \in 1 .. N /\ k - 1 \in 0 .. N
    BY <1>1 DEF N
  <2> QED BY <1>2, <1>4, <1>5, <2>1
<1> HIDE DEF x, o
<1>11. p \in Nat
  BY <1>10
<1>12. s[k] = LF => Len(E[k]) = p + 2 /\ o[p + 1] = CR /\ o[p + 2] = LF
  <2> SUFFICES ASSUME s[k] = LF PROVE Len(E[k]) = p + 2 /\ o[p + 1] = CR /\ o[p + 2] = LF
    OBVIOUS
  <2>1. E[k] = x \o <<CR, LF>>
    BY <1>10 DEF W
  <2>2. /\ Len(x \o <<CR, LF>>) = p + 2
        /\ (x \o <<CR, LF>>)[p + 1] = CR /\ (x \o <<CR, LF>>)[p + 2] = LF
    BY <1>10, BytesAre
  <2> DEFINE z == E[k]
  <2>3. Len(z) = p + 2 /\ z[p + 1] = CR /\ z[p + 2] = LF
    BY <2>1, <2>2
  <2>4. \A q \in 1 .. Len(z) : o[q] = z[q]
    BY <1>9
  <2> HIDE DEF z, p
  <2> QED BY <1>11, <2>3, <2>4 DEF z
<1>13. s[k] # LF => Len(E[k]) = p + 1 /\ o[p + 1] = s[k]
  <2> SUFFICES ASSUME s[k] # LF PROVE Len(E[k]) = p + 1 /\ o[p + 1] = s[k]
    OBVIOUS
  <2>1. E[k] = x \o <<s[k]>>
    BY <1>10 DEF W
  <2>2. Len(x \o <<s[k]>>) = p + 1 /\ (x \o <<s[k]>>)[p + 1] = s[k]
    BY <1>10
  <2> DEFINE z == E[k]
  <2>3. Len(z) = p + 1 /\ z[p + 1] = s[k]
    BY <2>1, <2>2
  <2>4. \A q \in 1 .. Len(z) : o[q] = z[q]
    BY <1>9
  <2> HIDE DEF z, p
  <2> QED BY <1>11, <2>3, <2>4 DEF z
<1> QED
  BY <1>9, <1>11, <1>12, <1>13 DEF o, x, E, N

(***************************************************************************)
(* What is sent of the first k bytes of a text collapses to them, but for  *)
(* a CR that ends the text.                                                *)
(***************************************************************************)
LEMMA SentIsText ==
  ASSUME NEW s \in Seq(Byte), NEW k \in 0 .. Len(s)
  PROVE  LET E == Expanding(s)
         IN Shrinking(E[Len(s)])[Len(E[k])] =
              IF k = Len(s) /\ k > 0 /\ s[k] = CR THEN SubSeq(s, 1, k - 1) ELSE SubSeq(s, 1, k)
<1> DEFINE N == Len(s)
           E == Expanding(s)
           o == E[N]
           C == Shrinking(o)
           Lost(j) == j = N /\ j > 0 /\ s[j] = CR
           Right(j) == C[Len(E[j])] = IF Lost(j) THEN SubSeq(s, 1, j - 1) ELSE SubSeq(s, 1, j)
           S == {j \in Nat : Right(j)}
<1>1. N \in Nat /\ k \in Nat
  OBVIOUS
<1>2. E \in [0 .. N -> Seq(Byte)] /\ E[0] = <<>>
  BY ExpandingUnfolds
<1>3. o \in Seq(Byte)
  BY <1>1, <1>2
<1> HIDE DEF o
<1>4. /\ C[0] = <<>>
      /\ \A p \in 1 .. Len(o) : C[p] = IF Goes(o, p) THEN C[p - 1] ELSE Append(C[p - 1], o[p])
  BY <1>3, ShrinkingUnfolds
<1>5. \A j \in 1 .. N :
        LET p == Len(E[j - 1])
        IN /\ p \in Nat /\ Len(E[j]) <= Len(o)
           /\ s[j] = LF => Len(E[j]) = p + 2 /\ o[p + 1] = CR /\ o[p + 2] = LF
           /\ s[j] # LF => Len(E[j]) = p + 1 /\ o[p + 1] = s[j]
  BY ExpandedBytes DEF o
<1>6. CR # LF
  BY DEF CR, LF
<1>7. \A j \in 1 .. N : SubSeq(s, 1, j) = Append(SubSeq(s, 1, j - 1), s[j])
  OBVIOUS
<1>8. Len(o) \in Nat /\ Len(E[N]) = Len(o)
  BY <1>3 DEF o
<1> HIDE DEF E, C, N
<1>9. Right(0)
  <2>1. SubSeq(s, 1, 0) = <<>> /\ ~Lost(0)
    BY <1>1
  <2>2. Len(E[0]) = 0
    BY <1>2
  <2> QED BY <1>4, <2>1, <2>2
<1>10. ASSUME NEW j \in 0 .. N - 1, Right(j) PROVE Right(j + 1)
  <2> DEFINE i == j + 1
             p == Len(E[j])
             q == Len(E[i])
  <2>1. i \in 1 .. N /\ i - 1 = j /\ ~Lost(j)
    BY <1>1
  <2>2. C[p] = SubSeq(s, 1, j)
    BY <1>10, <2>1
  <2>3. SubSeq(s, 1, i) = Append(SubSeq(s, 1, j), s[i])
    BY <1>7, <2>1
  <2>4. /\ p \in Nat /\ q <= Len(o)
        /\ s[i] = LF => q = p + 2 /\ o[p + 1] = CR /\ o[p + 2] = LF
        /\ s[i] # LF => q = p + 1 /\ o[p + 1] = s[i]
    BY <1>5, <2>1
  <2>5. i < N => o[q + 1] # LF /\ q < Len(o)
    <3> SUFFICES ASSUME i < N PROVE o[q + 1] # LF /\ q < Len(o)
      OBVIOUS
    <3>1. i + 1 \in 1 .. N /\ (i + 1) - 1 = i
      BY <1>1
    <3> DEFINE r == Len(E[i + 1])
    <3>2. /\ q \in Nat /\ r <= Len(o)
          /\ s[i + 1] = LF => r = q + 2 /\ o[q + 1] = CR /\ o[q + 2] = LF
          /\ s[i + 1] # LF => r = q + 1 /\ o[q + 1] = s[i + 1]
      BY <1>5, <3>1
    <3> HIDE DEF q, r
    <3> QED BY <1>6, <1>8, <3>2
  <2>6. i = N => q = Len(o)
    BY <1>8
  <2> HIDE DEF q, p
  <2>7. CASE s[i] = LF
    <3>1. p + 1 \in 1 .. Len(o) /\ p + 2 \in 1 .. Len(o) /\ (p + 1) - 1 = p /\ (p + 2) - 1 = p + 1 /\ (p + 1) + 1 = p + 2
      BY <1>8, <2>4, <2>7
    <3>2. Goes(o, p + 1) /\ ~Goes(o, p + 2)
      BY <1>6, <2>4, <2>7, <3>1 DEF Goes
    <3>3. C[p + 1] = C[p]
      BY <1>4, <3>1, <3>2
    <3>4. C[p + 2] = Append(C[p], LF)
      BY <1>4, <2>4, <2>7, <3>1, <3>2, <3>3
    <3>5. ~Lost(i)
      BY <1>6, <2>7
    <3> HIDE DEF Lost, i
    <3> QED BY <2>2, <2>3, <2>4, <2>7, <3>4, <3>5 DEF q, i
  <2>8. CASE s[i] # LF
    <3>1. p + 1 \in 1 .. Len(o) /\ (p + 1) - 1 = p /\ q = p + 1 /\ o[p + 1] = s[i]
      BY <1>8, <2>4, <2>8
    <3>2. Goes(o, p + 1) <=> Lost(i)
      <4>1. i < N => ~Goes(o, p + 1)
        BY <1>8, <2>5, <3>1 DEF Goes
      <4>2. i = N => (Goes(o, p + 1) <=> s[i] = CR)
        BY <2>6, <3>1 DEF Goes
      <4>3. i < N \/ i = N
        BY <1>1, <2>1
      <4>4. i > 0
        BY <2>1
      <4> QED BY <1>1, <2>1, <4>1, <4>2, <4>3, <4>4
    <3>3. C[p + 1] = IF Goes(o, p + 1) THEN C[p] ELSE Append(C[p], o[p + 1])
      BY <1>4, <3>1
    <3> HIDE DEF Lost, i
    <3>4. C[q] = IF Lost(i) THEN SubSeq(s, 1, j) ELSE SubSeq(s, 1, i)
      BY <2>2, <2>3, <3>1, <3>2, <3>3
    <3>5. i - 1 = j
      BY <2>1
    <3> QED BY <3>4, <3>5 DEF q, i
  <2> QED BY <2>7, <2>8
<1>11. Right(k)
  <2> HIDE DEF Right
  <2>1. 0 \in S
    BY <1>9
  <2>2. ASSUME NEW j \in 0 .. N - 1, j \in S PROVE j + 1 \in S
    BY <1>1, <1>10, <2>2
  <2>3. \A j \in 0 .. N : j \in S
    <3> HIDE DEF S
    <3> QED BY <1>1, <2>1, <2>2, CountsUp
  <2> QED BY <1>1, <2>3 DEF N
<1> QED
  BY <1>11 DEF C, o, E, N

-----------------------------------------------------------------------------
(***************************************************************************)
(* What holds between two blocks of a text: what has been written is what  *)
(* the text so far collapses to, without a CR that is carried; what has    *)
(* been sent is the text so far in netascii.                               *)
(***************************************************************************)
UploadHolds ==
  task.call = "Upload" =>
    /\ ~done => /\ carry <=> at > 0 /\ task.text[at] = CR
                /\ out = Shrinking(task.text)[IF carry THEN at - 1 ELSE at]
    /\ done => out = Collapsed(task.text)

DownloadHolds ==
  task.call = "Download" =>
    /\ out = Expanding(task.text)[at]
    /\ done => at = Len(task.text)

StreamInv ==
  /\ task \in Tasks /\ carry \in BOOLEAN /\ done \in BOOLEAN
  /\ task.call # "Request" => at \in 0 .. Len(task.text)
  /\ UploadHolds
  /\ DownloadHolds

\* The text and the block size of a transfer.
LEMMA StreamTask ==
  ASSUME task \in Tasks, task.call # "Request"
  PROVE  task.text \in Seq(Byte) /\ task.blksize \in Nat \ {0}
<1>1. task \in [call : {"Download", "Upload"}, text : Texts, blksize : BlockSizes]
  BY DEF Tasks
<1> QED
  BY <1>1, CodecAssumption

\* A block ends within the text; one that is short, or empty, ends it.
LEMMA NextBlock ==
  ASSUME task \in Tasks, task.call # "Request", at \in 0 .. Len(task.text)
  PROVE  /\ EndOfBlock \in at .. Len(task.text)
         /\ EndOfBlock - at < task.blksize => EndOfBlock = Len(task.text)
         /\ EndOfBlock = at => at = Len(task.text) /\ EndOfBlock - at < task.blksize
<1>1. task.blksize \in Nat \ {0} /\ Len(task.text) \in Nat
  BY StreamTask
<1> QED
  BY <1>1 DEF EndOfBlock

\* Nothing has been transferred at the start.
LEMMA StreamInit == CodecInit => StreamInv
<1> SUFFICES ASSUME CodecInit PROVE StreamInv
  OBVIOUS
<1>1. task \in Tasks /\ carry = FALSE /\ done = FALSE /\ at = 0 /\ out = <<>>
  BY DEF CodecInit
<1>2. task.call # "Request" =>
        /\ Len(task.text) \in Nat
        /\ Shrinking(task.text)[0] = <<>> /\ Expanding(task.text)[0] = <<>>
  BY <1>1, StreamTask, ShrinkingUnfolds, ExpandingUnfolds
<1>3. UploadHolds
  BY <1>1, <1>2 DEF UploadHolds
<1>4. DownloadHolds
  BY <1>1, <1>2 DEF DownloadHolds
<1>5. task.call # "Request" => at \in 0 .. Len(task.text)
  BY <1>1, <1>2
<1> QED
  BY <1>1, <1>3, <1>4, <1>5 DEF StreamInv

\* A block of a download.
LEMMA SendBlockHolds == ASSUME StreamInv, SendBlock PROVE StreamInv'
<1> DEFINE e == EndOfBlock
<1>1. /\ task \in Tasks /\ task.call = "Download" /\ task' = task /\ carry' = carry
      /\ carry \in BOOLEAN /\ at \in 0 .. Len(task.text) /\ out = Expanding(task.text)[at]
  BY DEF StreamInv, DownloadHolds, SendBlock, Passes
<1>2. at' = e /\ done' = (e - at < task.blksize) /\ out' = out \o ToNetascii(SubSeq(task.text, at + 1, e))
  BY DEF SendBlock, Passes, Block
<1>3. e \in at .. Len(task.text) /\ (e - at < task.blksize => e = Len(task.text))
  BY <1>1, NextBlock
<1>4. task.text \in Seq(Byte)
  BY <1>1, StreamTask
<1> HIDE DEF e
<1>5. out' = Expanding(task.text)[e]
  BY <1>1, <1>2, <1>3, <1>4, BlockIsExpanded
<1>6. DownloadHolds'
  BY <1>1, <1>2, <1>3, <1>5 DEF DownloadHolds
<1>7. UploadHolds'
  BY <1>1 DEF UploadHolds
<1>8. at' \in 0 .. Len(task'.text) /\ done' \in BOOLEAN
  BY <1>1, <1>2, <1>3
<1> QED
  BY <1>1, <1>6, <1>7, <1>8 DEF StreamInv

\* A block of an upload.
LEMMA ReceiveBlockHolds == ASSUME StreamInv, ReceiveBlock PROVE StreamInv'
<1> DEFINE e == EndOfBlock
           s == task.text
           r == FromNetascii(SubSeq(s, at + 1, e), carry)
           C == Shrinking(s)
           Kept == e > at /\ s[e] = CR
<1>1. /\ task \in Tasks /\ task.call = "Upload" /\ task' = task /\ carry \in BOOLEAN /\ ~done
      /\ at \in 0 .. Len(s)
      /\ carry <=> at > 0 /\ s[at] = CR
      /\ out = C[IF carry THEN at - 1 ELSE at]
  BY DEF StreamInv, UploadHolds, ReceiveBlock, Passes
<1>2. /\ at' = e /\ done' = (e - at < task.blksize)
      /\ out' = out \o r.out /\ carry' = r.carry
  BY DEF ReceiveBlock, Passes, Block
<1>3. /\ e \in at .. Len(s)
      /\ e - at < task.blksize => e = Len(s)
      /\ e = at => at = Len(s) /\ e - at < task.blksize
  BY <1>1, NextBlock
<1>4. s \in Seq(Byte) /\ Len(s) \in Nat
  BY <1>1, StreamTask
<1>5. /\ \A k \in 0 .. Len(s) : C[k] \in Seq(Byte)
      /\ \A k \in 1 .. Len(s) : Goes(s, k) => C[k] = C[k - 1]
  BY <1>4, ShrinkingUnfolds
<1> HIDE DEF e, s, C
<1>6. r.carry = Kept /\ out \o r.out = C[IF Kept THEN e - 1 ELSE e]
  BY <1>1, <1>3, <1>4, BlockIsStored DEF C
<1>7. carry' = Kept /\ out' = C[IF Kept THEN e - 1 ELSE e]
  BY <1>2, <1>6
<1>8. ASSUME ~done' PROVE Kept <=> e > 0 /\ s[e] = CR
  BY <1>1, <1>2, <1>3, <1>4, <1>8
<1>9. ASSUME done' PROVE out' = C[Len(s)]
  <2>1. e = Len(s)
    BY <1>2, <1>3, <1>9
  <2>2. Kept => C[e] = C[e - 1]
    BY <1>1, <1>3, <1>4, <1>5, <2>1 DEF Goes
  <2> QED BY <1>7, <2>1, <2>2
<1>10. UploadHolds'
  <2>1. s' = s
    BY <1>1 DEF s
  <2>2. ~done' => /\ carry' <=> at' > 0 /\ s[at'] = CR
                  /\ out' = C[IF carry' THEN at' - 1 ELSE at']
    <3> HIDE DEF Kept
    <3> QED BY <1>2, <1>7, <1>8
  <2> QED BY <1>1, <1>9, <2>2 DEF UploadHolds, Collapsed, s, C
<1>11. DownloadHolds'
  BY <1>1 DEF DownloadHolds
<1>12. at' \in 0 .. Len(task'.text) /\ done' \in BOOLEAN /\ carry' \in BOOLEAN
  <2>1. at' \in 0 .. Len(s)
    BY <1>1, <1>2, <1>3, <1>4
  <2>2. Kept \in BOOLEAN
    OBVIOUS
  <2> HIDE DEF Kept
  <2>3. done' \in BOOLEAN /\ carry' \in BOOLEAN
    BY <1>2, <1>7, <2>2
  <2> QED BY <1>1, <2>1, <2>3 DEF s
<1> QED
  BY <1>1, <1>10, <1>11, <1>12 DEF StreamInv

\* The invariant of the transfers.
LEMMA StreamInvHolds == CodecSpec => []StreamInv
<1>1. ASSUME StreamInv, [CodecNext]_codecVars PROVE StreamInv'
  <2>1. CASE ReadRequest
    <3>1. task.call = "Request" /\ task' = task /\ carry' = carry /\ done' = TRUE
      BY <2>1 DEF ReadRequest
    <3> QED BY <1>1, <3>1 DEF StreamInv, UploadHolds, DownloadHolds
  <2>2. CASE SendBlock
    BY <1>1, <2>2, SendBlockHolds
  <2>3. CASE ReceiveBlock
    BY <1>1, <2>3, ReceiveBlockHolds
  <2>4. CASE UNCHANGED codecVars
    BY <1>1, <2>4 DEF StreamInv, UploadHolds, DownloadHolds, codecVars
  <2> QED BY <1>1, <2>1, <2>2, <2>3, <2>4 DEF CodecNext
<1> QED
  BY StreamInit, <1>1, PTL DEF CodecSpec

(***************************************************************************)
(* Texts of any length, at any block size: an upload stores what the whole *)
(* stream collapses to, and what a download sends collapses to the text,   *)
(* but for a CR at its end (toNetascii, fromNetascii and the loops of      *)
(* handleRRQ and handleWRQ).                                               *)
(***************************************************************************)
THEOREM TextsAreConverted == CodecSpec => []NetasciiStreams
<1>1. ASSUME StreamInv PROVE NetasciiStreams
  <2>1. task.call = "Upload" /\ done => out = Collapsed(task.text)
    BY <1>1 DEF StreamInv, UploadHolds
  <2>2. ASSUME task.call = "Download", done
        PROVE  Collapsed(out) = IF task.text # <<>> /\ task.text[Len(task.text)] = CR
                                THEN SubSeq(task.text, 1, Len(task.text) - 1) ELSE task.text
    <3> DEFINE s == task.text
    <3>1. s \in Seq(Byte)
      BY <1>1, <2>2, StreamTask DEF StreamInv
    <3>2. out = Expanding(s)[Len(s)]
      BY <1>1, <2>2 DEF StreamInv, DownloadHolds
    <3> HIDE DEF s
    <3>3. /\ Len(s) \in Nat /\ Len(s) \in 0 .. Len(s)
          /\ s # <<>> <=> Len(s) > 0
          /\ SubSeq(s, 1, Len(s)) = s
      BY <3>1
    <3>4. Collapsed(out) = IF Len(s) > 0 /\ s[Len(s)] = CR THEN SubSeq(s, 1, Len(s) - 1) ELSE SubSeq(s, 1, Len(s))
      BY <3>1, <3>2, <3>3, SentIsText DEF Collapsed
    <3>5. Collapsed(out) = IF s # <<>> /\ s[Len(s)] = CR THEN SubSeq(s, 1, Len(s) - 1) ELSE s
      BY <3>3, <3>4
    <3> QED BY <3>5 DEF s
  <2> QED BY <2>1, <2>2 DEF NetasciiStreams
<1> QED
  BY StreamInvHolds, <1>1, PTL

-----------------------------------------------------------------------------
\* Joining one field more adds it and its NUL.
LEMMA JoinedOneMore ==
  ASSUME NEW fs \in Seq(Seq(Byte)), NEW f \in Seq(Byte)
  PROVE  Joined(fs) \in Seq(Byte) /\ Joined(Append(fs, f)) = Joined(fs) \o Append(f, NUL)
<1> DEFINE N == Len(fs)
           gs == Append(fs, f)
           J == Joining(fs)
           G == Joining(gs)
           Right(k) == G[k] = J[k]
           S == {k \in Nat : Right(k)}
<1>1. /\ N \in Nat /\ gs \in Seq(Seq(Byte)) /\ Len(gs) = N + 1
      /\ \A k \in 1 .. N : gs[k] = fs[k]
      /\ gs[N + 1] = f
  OBVIOUS
<1> HIDE DEF gs
<1>2. /\ J \in [0 .. N -> Seq(Byte)] /\ J[0] = <<>>
      /\ \A k \in 1 .. N : J[k] = J[k - 1] \o Append(fs[k], NUL)
  BY JoiningUnfolds
<1>3. /\ G[0] = <<>>
      /\ \A k \in 1 .. N + 1 : G[k] = G[k - 1] \o Append(gs[k], NUL)
  <2>1. /\ G[0] = <<>>
        /\ \A k \in 1 .. Len(gs) : G[k] = G[k - 1] \o Append(gs[k], NUL)
    BY <1>1, JoiningUnfolds
  <2> HIDE DEF G
  <2> QED BY <1>1, <2>1
<1> HIDE DEF J, G, N
<1>4. ASSUME NEW k \in 0 .. N - 1, Right(k) PROVE Right(k + 1)
  <2>1. k + 1 \in 1 .. N /\ k + 1 \in 1 .. N + 1 /\ (k + 1) - 1 = k
    BY <1>1
  <2>2. G[k + 1] = G[k] \o Append(gs[k + 1], NUL)
    BY <1>3, <2>1
  <2>3. J[k + 1] = J[k] \o Append(fs[k + 1], NUL)
    BY <1>2, <2>1
  <2> QED BY <1>1, <1>4, <2>1, <2>2, <2>3
<1>5. G[N] = J[N]
  <2>1. 0 \in S
    BY <1>2, <1>3
  <2> HIDE DEF Right
  <2>2. ASSUME NEW k \in 0 .. N - 1, k \in S PROVE k + 1 \in S
    BY <1>1, <1>4, <2>2
  <2>3. \A k \in 0 .. N : k \in S
    <3> HIDE DEF S
    <3> QED BY <1>1, <2>1, <2>2, CountsUp
  <2>4. Right(N)
    BY <1>1, <2>3
  <2> QED BY <2>4 DEF Right
<1>6. G[N + 1] = G[N] \o Append(f, NUL)
  <2>1. N + 1 \in 1 .. N + 1 /\ (N + 1) - 1 = N
    BY <1>1
  <2> QED BY <1>1, <1>3, <2>1
<1>7. J[N] \in Seq(Byte)
  BY <1>1, <1>2
<1> QED
  BY <1>1, <1>5, <1>6, <1>7 DEF Joined, G, J, gs, N

(***************************************************************************)
(* After i bytes splitNulTerminated has cut off the fields, and left the   *)
(* bytes behind them, without a NUL in either and nothing lost.            *)
(***************************************************************************)
NoNul(f) == \A i \in DOMAIN f : f[i] # NUL

LEMMA SplitSoFar ==
  ASSUME NEW b \in Seq(Byte), NEW i \in 0 .. Len(b)
  PROVE  LET c == Splitting(b)[i]
         IN /\ c.fields \in Seq(Seq(Byte)) /\ c.rest \in Seq(Byte)
            /\ Joined(c.fields) \o c.rest = SubSeq(b, 1, i)
            /\ NoNul(c.rest) /\ \A k \in DOMAIN c.fields : NoNul(c.fields[k])
<1> DEFINE N == Len(b)
           P == Splitting(b)
           F(j) == P[j].fields
           R(j) == P[j].rest
           Right(j) == /\ Joined(F(j)) \o R(j) = SubSeq(b, 1, j)
                       /\ NoNul(R(j)) /\ \A k \in DOMAIN F(j) : NoNul(F(j)[k])
           S == {j \in Nat : Right(j)}
<1>1. N \in Nat /\ i \in 0 .. N
  OBVIOUS
<1>2. /\ \A j \in 0 .. N : F(j) \in Seq(Seq(Byte)) /\ R(j) \in Seq(Byte)
      /\ F(0) = <<>> /\ R(0) = <<>>
      /\ \A j \in 1 .. N :
           /\ b[j] = NUL => F(j) = Append(F(j - 1), R(j - 1)) /\ R(j) = <<>>
           /\ b[j] # NUL => F(j) = F(j - 1) /\ R(j) = Append(R(j - 1), b[j])
  <2>1. /\ P \in [0 .. N -> [fields : Seq(Seq(Byte)), rest : Seq(Byte)]]
        /\ P[0] = [fields |-> <<>>, rest |-> <<>>]
        /\ \A k \in 1 .. N :
             P[k] = IF b[k] = NUL THEN [fields |-> Append(P[k - 1].fields, P[k - 1].rest), rest |-> <<>>]
                    ELSE [fields |-> P[k - 1].fields, rest |-> Append(P[k - 1].rest, b[k])]
    BY SplittingUnfolds
  <2> HIDE DEF P, N
  <2>2. \A j \in 0 .. N : F(j) \in Seq(Seq(Byte)) /\ R(j) \in Seq(Byte)
    BY <2>1
  <2>3. ASSUME NEW j \in 1 .. N, b[j] = NUL
        PROVE  F(j) = Append(F(j - 1), R(j - 1)) /\ R(j) = <<>>
    <3>1. P[j] = [fields |-> Append(P[j - 1].fields, P[j - 1].rest), rest |-> <<>>]
      BY <2>1, <2>3
    <3> QED BY <3>1
  <2>4. ASSUME NEW j \in 1 .. N, b[j] # NUL
        PROVE  F(j) = F(j - 1) /\ R(j) = Append(R(j - 1), b[j])
    <3>1. P[j] = [fields |-> P[j - 1].fields, rest |-> Append(P[j - 1].rest, b[j])]
      BY <2>1, <2>4
    <3> QED BY <3>1
  <2>5. F(0) = <<>> /\ R(0) = <<>>
    BY <2>1
  <2> HIDE DEF F, R
  <2> QED BY <2>2, <2>3, <2>4, <2>5
<1>3. \A j \in 1 .. N : b[j] \in Byte /\ SubSeq(b, 1, j) = Append(SubSeq(b, 1, j - 1), b[j])
  OBVIOUS
<1>9. SubSeq(b, 1, 0) = <<>>
  OBVIOUS
<1> HIDE DEF P, F, R, N
<1>4. Right(0)
  <2>1. Joined(<<>>) = <<>>
    <3>1. <<>> \in Seq(Seq(Byte)) /\ Len(<<>>) = 0
      OBVIOUS
    <3> QED BY <3>1, JoiningUnfolds DEF Joined
  <2>2. NoNul(<<>>)
    BY DEF NoNul
  <2> QED BY <1>2, <1>9, <2>1, <2>2
<1>5. ASSUME NEW j \in 0 .. N - 1, Right(j) PROVE Right(j + 1)
  <2> DEFINE fs == F(j)
             r == R(j)
             x == b[j + 1]
  <2>1. j + 1 \in 1 .. N /\ (j + 1) - 1 = j /\ j \in 0 .. N
    BY <1>1
  <2>2. /\ fs \in Seq(Seq(Byte)) /\ r \in Seq(Byte) /\ x \in Byte
        /\ SubSeq(b, 1, j + 1) = Append(SubSeq(b, 1, j), x)
    BY <1>2, <1>3, <2>1
  <2>3. /\ x = NUL => F(j + 1) = Append(fs, r) /\ R(j + 1) = <<>>
        /\ x # NUL => F(j + 1) = fs /\ R(j + 1) = Append(r, x)
    BY <1>2, <2>1
  <2>4. /\ Joined(fs) \o r = SubSeq(b, 1, j)
        /\ NoNul(r) /\ \A k \in DOMAIN fs : NoNul(fs[k])
    BY <1>5
  <2>5. Joined(fs) \in Seq(Byte) /\ Joined(Append(fs, r)) = Joined(fs) \o Append(r, NUL)
    BY <2>2, JoinedOneMore
  <2> HIDE DEF fs, r, x
  <2>6. /\ Joined(fs) \o Append(r, x) = Append(Joined(fs) \o r, x)
        /\ (Joined(fs) \o Append(r, x)) \o <<>> = Joined(fs) \o Append(r, x)
    BY <2>2, <2>5
  <2>7. CASE x = NUL
    <3>1. \A k \in DOMAIN Append(fs, r) : NoNul(Append(fs, r)[k])
      BY <2>2, <2>4
    <3>2. NoNul(<<>>)
      BY DEF NoNul
    <3>3. Joined(Append(fs, r)) \o <<>> = SubSeq(b, 1, j + 1)
      BY <2>2, <2>4, <2>5, <2>6, <2>7
    <3> QED BY <2>3, <2>7, <3>1, <3>2, <3>3
  <2>8. CASE x # NUL
    <3>1. NoNul(Append(r, x))
      BY <2>2, <2>4, <2>8 DEF NoNul
    <3> QED BY <2>2, <2>3, <2>4, <2>6, <2>8, <3>1
  <2> QED BY <2>7, <2>8
<1>6. Right(i)
  <2> HIDE DEF Right
  <2>1. 0 \in S
    BY <1>4
  <2>2. ASSUME NEW j \in 0 .. N - 1, j \in S PROVE j + 1 \in S
    BY <1>1, <1>5, <2>2
  <2>3. \A j \in 0 .. N : j \in S
    <3> HIDE DEF S
    <3> QED BY <1>1, <2>1, <2>2, CountsUp
  <2> QED BY <1>1, <2>3
<1>7. F(i) \in Seq(Seq(Byte)) /\ R(i) \in Seq(Byte)
  BY <1>1, <1>2
<1> QED
  BY <1>6, <1>7 DEF F, R, P

\* A packet that ends with a NUL is its fields, joined.
LEMMA FieldsAreThePacket ==
  ASSUME NEW b \in Seq(Byte), Terminated(b)
  PROVE  LET f == SplitNulTerminated(b)
         IN f \in Seq(Seq(Byte)) /\ Joined(f) = b /\ \A k \in DOMAIN f : NoNul(f[k])
<1> DEFINE c == Splitting(b)[Len(b)]
           f == c.fields
<1>1. /\ f \in Seq(Seq(Byte))
      /\ Joined(f) \o c.rest = SubSeq(b, 1, Len(b))
      /\ \A k \in DOMAIN f : NoNul(f[k])
  <2>1. Len(b) \in 0 .. Len(b)
    OBVIOUS
  <2> QED BY <2>1, SplitSoFar
<1>2. c.rest = <<>> /\ SubSeq(b, 1, Len(b)) = b
  BY DEF Terminated
<1> HIDE DEF c
<1>3. Joined(f) \in Seq(Byte)
  BY <1>1, JoinedOneMore
<1>4. Joined(f) = b
  BY <1>1, <1>2, <1>3
<1> QED
  BY <1>1, <1>4 DEF c, SplitNulTerminated

(***************************************************************************)
(* The pair that counts: a non-empty set of numbers up to n has a greatest.*)
(***************************************************************************)
LEMMA GreatestExists ==
  ASSUME NEW n \in Nat, NEW S \in SUBSET (1 .. n), S # {}
  PROVE  \E x \in S : \A y \in S : y <= x
<1> DEFINE D == {n - x : x \in S}
<1>1. D \in SUBSET Nat /\ D # {}
  <2>1. \A x \in S : n - x \in Nat
    OBVIOUS
  <2> QED BY <2>1
<1>2. PICK d \in D : \A e \in D : d <= e
  <2> HIDE DEF D
  <2> QED BY <1>1, LeastExists
<1>3. PICK x \in S : d = n - x
  BY <1>2
<1>4. \A y \in S : n - x <= n - y
  BY <1>2, <1>3
<1>5. \A y \in S : y <= x
  BY <1>4
<1> QED
  BY <1>5

\* Offered and Pairs, which look for the last pair of a name in different ways, agree.
LEMMA LastPairCounts ==
  ASSUME NEW f \in Seq(Seq(Byte)), NEW n
  PROVE  Offered(f, n) = IF n \in OptionNames(f) THEN {Atoi(Pairs(f)[n])} ELSE {}
<1> DEFINE Ks == PairsOf(f)
           N == (Len(f) - 2) \div 2
           Names(k) == NamesPair(f, n, k)
           Last1(k) == k \in Ks /\ Names(k) /\ \A j \in Ks : Names(j) => j <= k
           Js == {j \in 3 .. Len(f) - 1 : j % 2 = 1 /\ Lower(f[j]) = n
                    /\ ~\E i \in j + 1 .. Len(f) - 1 : i % 2 = 1 /\ Lower(f[i]) = n}
<1>1. Ks = 1 .. N /\ N \in Int
  BY DEF PairsOf
<1>10. Len(f) \in Nat
  OBVIOUS
<1>2. \A k \in Ks : k \in Int /\ 2 * k + 1 \in 3 .. Len(f) - 1 /\ (2 * k + 1) % 2 = 1
  BY <1>10 DEF PairsOf
<1>11. ASSUME NEW j \in 3 .. Len(f) - 1, j % 2 = 1 PROVE \E k \in Ks : j = 2 * k + 1
  <2> DEFINE k == j \div 2
  <2>1. k \in Int /\ j = 2 * k + 1
    BY <1>11
  <2> HIDE DEF k
  <2>2. k \in 1 .. (Len(f) - 2) \div 2
    BY <1>10, <2>1
  <2> QED BY <2>1, <2>2 DEF PairsOf
<1>3. \A k : Names(k) <=> Lower(f[2 * k + 1]) = n
  BY DEF NamesPair
<1>4. n \in OptionNames(f) <=> \E k \in Ks : Names(k)
  BY <1>3 DEF OptionNames
<1>5. Offered(f, n) = {Atoi(f[j + 1]) : j \in Js}
  BY DEF Offered
<1> HIDE DEF Ks, N, Names
<1>6. \A j : j \in Js <=> \E k : j = 2 * k + 1 /\ Last1(k)
  <2>1. ASSUME NEW k, Last1(k) PROVE 2 * k + 1 \in Js
    <3>1. k \in Int /\ 2 * k + 1 \in 3 .. Len(f) - 1 /\ (2 * k + 1) % 2 = 1 /\ Lower(f[2 * k + 1]) = n
      BY <1>1, <1>2, <1>3, <2>1
    <3>2. ASSUME NEW i \in 2 * k + 2 .. Len(f) - 1, i % 2 = 1, Lower(f[i]) = n PROVE FALSE
      <4>1. i \in 3 .. Len(f) - 1
        BY <3>1
      <4>2. PICK m \in Ks : i = 2 * m + 1
        BY <1>11, <3>2, <4>1
      <4>3. Names(m) /\ m \in Int
        BY <1>1, <1>3, <3>2, <4>2
      <4>4. m <= k
        BY <2>1, <4>3
      <4> QED BY <3>1, <4>2, <4>3, <4>4
    <3>3. (2 * k + 1) + 1 = 2 * k + 2
      BY <3>1
    <3> QED BY <3>1, <3>2, <3>3
  <2>2. ASSUME NEW j \in Js PROVE \E k : j = 2 * k + 1 /\ Last1(k)
    <3>1. PICK k \in Ks : j = 2 * k + 1
      BY <1>11
    <3>2. Names(k) /\ k \in Int
      BY <1>1, <1>3, <3>1
    <3>3. ASSUME NEW m \in Ks, Names(m) PROVE m <= k
      <4>1. 2 * m + 1 \in 3 .. Len(f) - 1 /\ (2 * m + 1) % 2 = 1 /\ Lower(f[2 * m + 1]) = n /\ m \in Int
        BY <1>1, <1>2, <1>3, <3>3
      <4>2. 2 * m + 1 \notin j + 1 .. Len(f) - 1
        BY <4>1
      <4> QED BY <3>1, <3>2, <4>1, <4>2
    <3> QED BY <3>1, <3>2, <3>3
  <2> HIDE DEF Js, Last1
  <2> QED BY <2>1, <2>2
<1>7. \A k, m : Last1(k) /\ Last1(m) => k = m
  BY <1>1
<1>8. CASE n \in OptionNames(f)
  <2> DEFINE S == {k \in Ks : Names(k)}
  <2>1. S \in SUBSET (1 .. N) /\ S # {} /\ N \in Nat
    BY <1>1, <1>4, <1>8
  <2>2. PICK m \in S : \A y \in S : y <= m
    <3> HIDE DEF S
    <3> QED BY <2>1, GreatestExists
  <2>3. Last1(m)
    BY <2>2
  <2>4. Pairs(f)[n] = f[2 * m + 2]
    <3>1. Pairs(f)[n] = f[2 * (CHOOSE k \in Ks : Names(k) /\ \A j \in Ks : Names(j) => j <= k) + 2]
      BY <1>8 DEF Pairs, Ks, Names
    <3> DEFINE c == CHOOSE k \in Ks : Names(k) /\ \A j \in Ks : Names(j) => j <= k
    <3>2. Last1(c)
      BY <2>3
    <3> HIDE DEF Last1
    <3>3. c = m
      BY <1>7, <2>3, <3>2
    <3> QED BY <3>1, <3>3
  <2>5. Js = {2 * m + 1}
    <3> HIDE DEF Js, Last1
    <3> QED BY <1>6, <1>7, <2>3
  <2>6. (2 * m + 1) + 1 = 2 * m + 2
    BY <1>1, <2>2
  <2> HIDE DEF Js
  <2> QED BY <1>5, <1>8, <2>4, <2>5, <2>6
<1>9. CASE n \notin OptionNames(f)
  <2>1. Js = {}
    <3>1. \A k : ~Last1(k)
      BY <1>4, <1>9
    <3> HIDE DEF Js, Last1
    <3> QED BY <1>6, <3>1
  <2> HIDE DEF Js
  <2> QED BY <1>5, <1>9, <2>1
<1> QED
  BY <1>8, <1>9

(***************************************************************************)
(* negotiateOptions, option by option.                                     *)
(***************************************************************************)
LEMMA OptionsNegotiated ==
  ASSUME NEW options, NEW cfg, cfg.maxBlksize \in 8 .. LargestBlksize, NEW fileSize
  PROVE  LET n       == NegotiateOptions(options, cfg, fileSize)
             Val(o)  == Atoi(options[o])
             Asks(o) == o \in DOMAIN options
         IN /\ DOMAIN n.oack \subseteq {"blksize", "timeout", "tsize"}
            /\ IF "blksize" \in DOMAIN n.oack
               THEN /\ n.oack["blksize"] = n.blksize /\ n.blksize \in 8 .. cfg.maxBlksize
                    /\ Asks("blksize") /\ n.blksize <= Val("blksize")
               ELSE n.blksize = DefaultBlksize
            /\ IF "timeout" \in DOMAIN n.oack
               THEN n.oack["timeout"] = n.timeout /\ Asks("timeout") /\ n.timeout = Val("timeout")
               ELSE n.timeout = cfg.timeout
            /\ "tsize" \in DOMAIN n.oack <=> Asks("tsize")
<1> DEFINE Val(o)   == Atoi(options[o])
           Asks(o)  == o \in DOMAIN options
           blk      == Asks("blksize") /\ Val("blksize") \in 8 .. LargestBlksize
           tmo      == Asks("timeout") /\ Val("timeout") \in 1 .. 255
           size     == IF fileSize = 0 /\ Val("tsize") >= 0 THEN Val("tsize") ELSE fileSize
           blksize  == IF blk THEN Clamp(Val("blksize"), cfg.maxBlksize) ELSE DefaultBlksize
           timeout  == IF tmo THEN Val("timeout") ELSE cfg.timeout
           answered == {n \in DOMAIN options : (n = "blksize" /\ blk) \/ (n = "timeout" /\ tmo) \/ n = "tsize"}
           oack     == [n \in answered |->
                          CASE n = "blksize" -> blksize [] n = "timeout" -> timeout [] n = "tsize" -> size]
           n        == NegotiateOptions(options, cfg, fileSize)
<1>1. n.blksize = blksize /\ n.timeout = timeout /\ n.oack = oack
  <2>1. n = [blksize |-> blksize, timeout |-> timeout, oack |-> oack]
    BY DEF NegotiateOptions
  <2> HIDE DEF n, blksize, timeout, oack
  <2> QED BY <2>1
<1>2. /\ "blksize" \in answered <=> blk
      /\ "timeout" \in answered <=> tmo
      /\ "tsize" \in answered <=> Asks("tsize")
      /\ answered \subseteq {"blksize", "timeout", "tsize"}
  <2> HIDE DEF Val
  <2> QED OBVIOUS
<1>3. blk => blksize \in 8 .. cfg.maxBlksize /\ blksize <= Val("blksize")
  <2> SUFFICES ASSUME blk PROVE blksize \in 8 .. cfg.maxBlksize /\ blksize <= Val("blksize")
    OBVIOUS
  <2> DEFINE v == Val("blksize")
             m == cfg.maxBlksize
  <2>1. v \in 8 .. LargestBlksize /\ m \in 8 .. LargestBlksize /\ blksize = Clamp(v, m)
    OBVIOUS
  <2> HIDE DEF v, m, blksize
  <2>2. blksize \in 8 .. m /\ blksize <= v
    BY <2>1 DEF Clamp
  <2> QED BY <2>2 DEF v, m
<1>4. /\ ~blk => blksize = DefaultBlksize
      /\ tmo => timeout = Val("timeout")
      /\ ~tmo => timeout = cfg.timeout
  OBVIOUS
<1>5. DOMAIN oack = answered
  OBVIOUS
<1>6. "blksize" \in answered => oack["blksize"] = blksize
  <2> HIDE DEF blksize, timeout, size, answered
  <2> QED OBVIOUS
<1>7. "timeout" \in answered => oack["timeout"] = timeout
  <2> HIDE DEF blksize, timeout, size, answered
  <2> QED OBVIOUS
<1>8. (blk => Asks("blksize")) /\ (tmo => Asks("timeout"))
  OBVIOUS
<1> HIDE DEF n, blk, tmo, blksize, timeout, answered, oack
<1> QED
  BY <1>1, <1>2, <1>3, <1>4, <1>5, <1>6, <1>7, <1>8 DEF n

(***************************************************************************)
(* What the session goes on with is the outcome of the request.            *)
(***************************************************************************)
Outcome ==
  LET r == ParseRequest(task.op, task.packet) IN
  IF ~r.ok THEN Malformed
  ELSE [ok |-> TRUE, req |-> r,
        n |-> NegotiateOptions(r.options, task.cfg, IF task.op = "RRQ" THEN task.size ELSE 0)]

AnswerInv == task \in Tasks /\ (task.call = "Request" /\ done => answer = Outcome)

\* The invariant of the requests.
LEMMA AnswerInvHolds == CodecSpec => []AnswerInv
<1>1. CodecInit => AnswerInv
  BY DEF CodecInit, AnswerInv
<1>2. ASSUME AnswerInv, [CodecNext]_codecVars PROVE AnswerInv'
  <2>1. CASE ReadRequest
    BY <1>2, <2>1 DEF ReadRequest, AnswerInv, Outcome
  <2>2. CASE SendBlock
    BY <1>2, <2>2 DEF SendBlock, Passes, AnswerInv
  <2>3. CASE ReceiveBlock
    BY <1>2, <2>3 DEF ReceiveBlock, Passes, AnswerInv
  <2>4. CASE UNCHANGED codecVars
    BY <1>2, <2>4 DEF codecVars, AnswerInv, Outcome
  <2> QED BY <1>2, <2>1, <2>2, <2>3, <2>4 DEF CodecNext
<1> QED
  BY <1>1, <1>2, PTL DEF CodecSpec

(***************************************************************************)
(* Any request, any options in any order and any settings the              *)
(* configuration allows: the fields are the packet cut at its NULs, and    *)
(* the session goes on with what was offered or something more             *)
(* conservative, which is what it acknowledges (parseRequest,              *)
(* negotiateOptions).                                                      *)
(***************************************************************************)
THEOREM RequestsAreConservative == CodecSpec => []NegotiationIsConservative
<1>1. ASSUME AnswerInv PROVE NegotiationIsConservative
  <2> SUFFICES ASSUME task.call = "Request", done, answer.ok
               PROVE  NegotiationIsConservative
    BY DEF NegotiationIsConservative
  <2> DEFINE r == ParseRequest(task.op, task.packet)
             size == IF task.op = "RRQ" THEN task.size ELSE 0
             n == NegotiateOptions(r.options, task.cfg, size)
             f == SplitNulTerminated(task.packet)
  <2>1. task.packet \in Seq(Byte) /\ task.cfg.maxBlksize \in 8 .. LargestBlksize
    <3>1. task \in [call : {"Request"}, op : {"RRQ", "WRQ", "other"}, packet : Packets, cfg : Settings, size : FileSizes]
      BY <1>1 DEF AnswerInv, Tasks
    <3> QED BY <3>1, CodecAssumption
  <2>2. r.ok /\ answer.n = n
    <3>1. answer = Outcome
      BY <1>1 DEF AnswerInv
    <3> HIDE DEF r, n
    <3>2. Outcome = IF ~r.ok THEN Malformed ELSE [ok |-> TRUE, req |-> r, n |-> n]
      BY DEF Outcome, r, n
    <3> QED BY <3>1, <3>2 DEF Malformed
  <2>3. Terminated(task.packet) /\ r.options = Pairs(f)
    BY <2>2 DEF ParseRequest
  <2>4. f \in Seq(Seq(Byte)) /\ Joined(f) = task.packet /\ \A k \in DOMAIN f : NoNul(f[k])
    BY <2>1, <2>3, FieldsAreThePacket
  <2>5. DOMAIN Pairs(f) = OptionNames(f)
    BY DEF Pairs
  <2>6. \A o : Offered(f, o) = IF o \in OptionNames(f) THEN {Atoi(Pairs(f)[o])} ELSE {}
    BY <2>4, LastPairCounts
  <2> HIDE DEF f, n, r
  <2>7. LET Val(o)  == Atoi(Pairs(f)[o])
            Asks(o) == o \in OptionNames(f)
        IN /\ DOMAIN n.oack \subseteq {"blksize", "timeout", "tsize"}
           /\ IF "blksize" \in DOMAIN n.oack
              THEN /\ n.oack["blksize"] = n.blksize /\ n.blksize \in 8 .. task.cfg.maxBlksize
                   /\ Asks("blksize") /\ n.blksize <= Val("blksize")
              ELSE n.blksize = DefaultBlksize
           /\ IF "timeout" \in DOMAIN n.oack
              THEN n.oack["timeout"] = n.timeout /\ Asks("timeout") /\ n.timeout = Val("timeout")
              ELSE n.timeout = task.cfg.timeout
           /\ "tsize" \in DOMAIN n.oack <=> Asks("tsize")
    BY <2>1, <2>3, <2>5, OptionsNegotiated DEF n
  <2>8. \A k \in DOMAIN f : \A i \in DOMAIN f[k] : f[k][i] # NUL
    BY <2>4 DEF NoNul
  <2>9. IF "blksize" \in DOMAIN n.oack
        THEN /\ n.oack["blksize"] = n.blksize /\ n.blksize \in 8 .. task.cfg.maxBlksize
             /\ \A v \in Offered(f, "blksize") : n.blksize <= v
             /\ Offered(f, "blksize") # {}
        ELSE n.blksize = DefaultBlksize
    BY <2>6, <2>7
  <2>10. IF "timeout" \in DOMAIN n.oack
         THEN n.oack["timeout"] = n.timeout /\ Offered(f, "timeout") = {n.timeout}
         ELSE n.timeout = task.cfg.timeout
    BY <2>6, <2>7
  <2>11. "tsize" \in DOMAIN n.oack <=> Offered(f, "tsize") # {}
    BY <2>6, <2>7
  <2> QED BY <2>2, <2>4, <2>7, <2>8, <2>9, <2>10, <2>11 DEF NegotiationIsConservative, f
<1> QED
  BY AnswerInvHolds, <1>1, PTL
=============================================================================
