-------------------------- MODULE TftpWriteProofs --------------------------
(***************************************************************************)
(* Proofs about an upload by one session (TftpWrite), for files, block     *)
(* numbers and packet lifetimes of every size: what is reported complete,  *)
(* or acknowledged to the end, is on disk, and the session implements      *)
(* FileTransfer.  With a second session for the same request none of this  *)
(* holds, so Session = {w} throughout.                                     *)
(***************************************************************************)
EXTENDS TftpWrite, SequenceTheorems, TLAPS

(* Block numbers wrap at B (65536 for a uint16). *)

\* Two numbers less than B apart that leave the same remainder are one.
LEMMA EqualRemainders ==
  ASSUME NEW B \in Nat \ {0}, NEW a \in Nat, NEW b \in Nat, a <= b, b < a + B,
         a % B = b % B
  PROVE  a = b
<1> DEFINE p == a \div B
           q == b \div B
<1>1. /\ p \in Int /\ q \in Int
      /\ a = (B * p) + (a % B)
      /\ b = (B * q) + (b % B)
  OBVIOUS
<1> HIDE DEF p, q
<1>2. b - a = B * (q - p)
  BY <1>1
<1>3. q - p < 1
  BY <1>1, <1>2
<1>4. q - p > -1
  BY <1>1, <1>2
<1> QED
  BY <1>1, <1>2, <1>3, <1>4

\* Wrapping after each step gives the remainder of the whole.
LEMMA NextRemainder ==
  ASSUME NEW B \in Nat, B > 1, NEW a \in Nat
  PROVE  ((a % B) + 1) % B = (a + 1) % B
<1> DEFINE r == a % B
           q == a \div B
           s == (r + 1) % B
           t == (r + 1) \div B
           u == (a + 1) % B
           v == (a + 1) \div B
<1>1. r \in Int /\ q \in Int /\ a = (B * q) + r
  OBVIOUS
<1>2. s \in Int /\ t \in Int /\ r + 1 = (B * t) + s /\ 0 <= s /\ s < B
  OBVIOUS
<1>3. u \in Int /\ v \in Int /\ a + 1 = (B * v) + u /\ 0 <= u /\ u < B
  OBVIOUS
<1> HIDE DEF r, q, s, t, u, v
<1> DEFINE d == v - t - q
<1>4. d \in Int /\ s - u = B * d
  BY <1>1, <1>2, <1>3
<1> HIDE DEF d
<1>5. d < 1 /\ d > -1
  BY <1>2, <1>3, <1>4
<1>6. s = u
  BY <1>2, <1>3, <1>4, <1>5
<1> QED
  BY <1>6 DEF s, u, r

\* The number before that of a + 1, computed by wrapping, is that of a.
LEMMA PreviousRemainder ==
  ASSUME NEW B \in Nat, B > 1, NEW a \in Nat
  PROVE  (((a + 1) % B) + B - 1) % B = a % B
<1> DEFINE r == (a + 1) % B
           q == (a + 1) \div B
           s == (r + B - 1) % B
           t == (r + B - 1) \div B
           u == a % B
           v == a \div B
<1>1. r \in Int /\ q \in Int /\ a + 1 = (B * q) + r /\ 0 <= r
  OBVIOUS
<1>2. s \in Int /\ t \in Int /\ r + B - 1 = (B * t) + s /\ 0 <= s /\ s < B
  BY <1>1
<1>3. u \in Int /\ v \in Int /\ a = (B * v) + u /\ 0 <= u /\ u < B
  OBVIOUS
<1> HIDE DEF r, q, s, t, u, v
<1> DEFINE d == v + 1 - t - q
<1>4. d \in Int /\ s - u = B * d
  BY <1>1, <1>2, <1>3
<1> HIDE DEF d
<1>5. d < 1 /\ d > -1
  BY <1>2, <1>3, <1>4
<1>6. s = u
  BY <1>2, <1>3, <1>4, <1>5
<1> QED
  BY <1>6 DEF s, u, r

\* The constants as the proofs use them.
LEMMA Constants ==
  /\ BlockMod \in Nat /\ BlockMod > 1 /\ Chunks \in Nat /\ Chunks > 0 /\ Lifetime \in Nat
  /\ 0 \in Number /\ 1 \in Number /\ 0 \in 0 .. Chunks
BY WriteAssumption DEF Number

\* The number of a chunk, and those after and before it.
LEMMA NumberTyped == ASSUME NEW c \in Nat PROVE c % BlockMod \in Number
BY WriteAssumption DEF Number

LEMMA FirstNumbers == 0 % BlockMod = 0 /\ 1 % BlockMod = 1
BY WriteAssumption

LEMMA NextNumber ==
  ASSUME NEW c \in Nat
  PROVE  ((c % BlockMod) + 1) % BlockMod = (c + 1) % BlockMod
BY Constants, NextRemainder

LEMMA PreviousNumber ==
  ASSUME NEW c \in Nat
  PROVE  (((c + 1) % BlockMod) + BlockMod - 1) % BlockMod = c % BlockMod
BY Constants, PreviousRemainder

\* Two chunks less than BlockMod apart with the same number are one.
LEMMA SameNumber ==
  ASSUME NEW a \in Nat, NEW b \in Nat, a <= b, b < a + BlockMod,
         a % BlockMod = b % BlockMod
  PROVE  a = b
<1>1. BlockMod \in Nat \ {0}
  BY Constants
<1> QED
  BY <1>1, EqualRemainders

\* Writing at the end of the file appends to it.
LEMMA WriteAppends ==
  ASSUME NEW f \in Seq(0 .. Chunks), NEW c \in 0 .. Chunks
  PROVE  /\ WriteAt(f, Len(f), c) = Append(f, c)
         /\ WriteAt(f, Len(f), c) \in Seq(0 .. Chunks)
<1> DEFINE g == WriteAt(f, Len(f), c)
<1>1. g = [i \in 1 .. Len(f) + 1 |-> IF i = Len(f) + 1 THEN c ELSE f[i]]
  BY DEF WriteAt
<1>2. g \in Seq(0 .. Chunks) /\ Len(g) = Len(f) + 1
  <2>0. f \in [1 .. Len(f) -> 0 .. Chunks]
    BY LenProperties, Zenon
  <2>1. Len(f) + 1 \in Nat
    OBVIOUS
  <2>2. \A i \in 1 .. Len(f) + 1 : i # Len(f) + 1 => i \in 1 .. Len(f)
    BY <2>1
  <2>3. g \in [1 .. Len(f) + 1 -> 0 .. Chunks]
    BY <1>1, <2>0, <2>1, <2>2, Zenon
  <2> HIDE DEF g
  <2>4. g \in Seq(0 .. Chunks)
    BY <2>1, <2>3, SeqDef
  <2>5. 1 .. Len(g) = 1 .. Len(f) + 1 /\ Len(g) \in Nat
    BY <2>3, <2>4, LenProperties
  <2> QED BY <2>1, <2>4, <2>5
<1>3. Append(f, c) \in Seq(0 .. Chunks) /\ Len(Append(f, c)) = Len(f) + 1
  OBVIOUS
<1>4. \A i \in 1 .. Len(f) + 1 : Append(f, c)[i] = IF i = Len(f) + 1 THEN c ELSE f[i]
  OBVIOUS
<1>5. \A i \in 1 .. Len(f) + 1 : g[i] = Append(f, c)[i]
  BY <1>1, <1>4
<1> HIDE DEF g
<1>6. g = Append(f, c)
  BY <1>2, <1>3, <1>5, SeqEqual
<1> QED
  BY <1>2, <1>6 DEF g

-----------------------------------------------------------------------------
(***************************************************************************)
(* The inductive invariant.  Every packet bears the number of its chunk    *)
(* and none is ahead of its sender; the session is at most one chunk ahead *)
(* of the client; the file is what the session has written.                *)
(***************************************************************************)
Numbered(w) ==
  /\ \A m \in toServer : m.type = "DATA" =>
       m.block = m.chunk % BlockMod /\ 0 < m.chunk /\ m.chunk <= acked + 1
  /\ \A m \in toClient : m.type = "ACK" =>
       m.block = m.chunk % BlockMod /\ m.chunk <= offset[w]

InStep(w) ==
  /\ acked <= offset[w] /\ offset[w] <= acked + 1
  /\ pc[w] \in {"none", "open"} => offset[w] = 0
  /\ pc[w] # "ended" => report[w] = "running" /\ expected[w] = (offset[w] + 1) % BlockMod
  /\ report[w] = "complete" => offset[w] = Chunks
  /\ client = "asking" => acked = 0
  /\ client = "sending" => acked < Chunks /\ peer = {w}
  /\ client = "done" => acked = Chunks

Stored(w) == Len(file) = offset[w] /\ FileIsPrefix

IInv(w) == TypeOK /\ Numbered(w) /\ InStep(w) /\ Stored(w)

LEMMA InitHolds == ASSUME NEW w, Session = {w}, Init PROVE IInv(w)
<1>1. TypeOK
  <2>1. 1 \in Number /\ 0 \in 0 .. Chunks /\ file \in Seq(0 .. Chunks)
    BY Constants DEF Init
  <2> QED BY <2>1 DEF Init, TypeOK, Reports
<1>2. Numbered(w) /\ InStep(w)
  BY Constants, FirstNumbers DEF Init, Numbered, InStep
<1>3. Stored(w)
  BY DEF Init, Stored, FileIsPrefix
<1> QED
  BY <1>1, <1>2, <1>3 DEF IInv

\* A DATA that the session takes for the next one is the next one.
LEMMA NextIsNext ==
  ASSUME NEW w, Session = {w}, IInv(w), NEW m \in toServer,
         Gets(w, m, "DATA"), m.block = expected[w]
  PROVE  m.chunk = offset[w] + 1 /\ acked = offset[w]
<1>1. /\ m.chunk \in Nat /\ offset[w] \in Nat /\ acked \in Nat
      /\ m.end = w /\ m.type = "DATA" /\ m.chunk + Lifetime >= offset[w]
  BY DEF IInv, TypeOK, ToServer, Gets, Fresh
<1>2. /\ m.chunk % BlockMod = (offset[w] + 1) % BlockMod
      /\ m.chunk <= acked + 1 /\ acked <= offset[w]
  BY <1>1 DEF IInv, Numbered, InStep, Gets, Reading
<1> DEFINE n == offset[w] + 1
<1>3. /\ n \in Nat /\ m.chunk <= n /\ n < m.chunk + BlockMod
      /\ m.chunk % BlockMod = n % BlockMod
  BY <1>1, <1>2, WriteAssumption
<1> HIDE DEF n
<1>4. m.chunk = n
  BY <1>1, <1>3, SameNumber
<1> QED
  BY <1>1, <1>2, <1>4 DEF n

\* An ACK that the client takes for its chunk answers this chunk.
LEMMA AckIsForThis ==
  ASSUME NEW w, Session = {w}, IInv(w), NEW m \in toClient, Fresh(m), TakeAck(m)
  PROVE  offset[w] = acked + 1
<1>1. /\ m.chunk \in Nat /\ offset[w] \in Nat /\ acked \in Nat
      /\ m.end = w /\ m.type = "ACK" /\ m.chunk + Lifetime >= offset[w]
  BY DEF IInv, TypeOK, ToClient, TakeAck, Fresh
<1>2. /\ m.chunk % BlockMod = (acked + 1) % BlockMod
      /\ m.chunk <= offset[w] /\ offset[w] <= acked + 1 /\ acked <= offset[w]
  BY <1>1 DEF IInv, Numbered, InStep, TakeAck
<1> DEFINE n == acked + 1
<1>3. /\ n \in Nat /\ m.chunk <= n /\ n < m.chunk + BlockMod
      /\ m.chunk % BlockMod = n % BlockMod
  BY <1>1, <1>2, WriteAssumption
<1> HIDE DEF n
<1>4. m.chunk = n
  BY <1>1, <1>3, SameNumber
<1> QED
  BY <1>1, <1>2, <1>4 DEF n

-----------------------------------------------------------------------------
(***************************************************************************)
(* Steps of the session that write nothing: it goes on, or ends without a  *)
(* complete upload, and may say again what it has.                         *)
(***************************************************************************)
GoesOn(w) ==
  \/ UNCHANGED <<pc, report>>
  \/ pc[w] = "none" /\ Goto(w, "open")
  \/ pc[w] # "ended" /\ \E l \in {"head", "read", "again"} : Goto(w, l)
  \/ pc[w] # "ended" /\ \E r \in {"error", "aborted", "silent"} : End(w, r)

SaysKnown(w) ==
  /\ toClient' \subseteq ToClient
  /\ \A m \in toClient' \ toClient : m.type = "ACK" =>
       m.block = m.chunk % BlockMod /\ m.chunk <= offset[w]

LEMMA QuietStep ==
  ASSUME NEW w, Session = {w}, IInv(w),
         UNCHANGED <<expected, offset, file, toServer, clientVars>>,
         cancelled' \in BOOLEAN, first' \in [Session -> BOOLEAN],
         GoesOn(w), SaysKnown(w)
  PROVE  IInv(w)'
<1>1. TypeOK'
  BY DEF IInv, TypeOK, GoesOn, SaysKnown, Goto, End, Reports, clientVars
<1>2. Numbered(w)'
  BY DEF IInv, Numbered, SaysKnown, clientVars
<1>3. InStep(w)'
  BY DEF IInv, TypeOK, InStep, GoesOn, Goto, End, clientVars
<1>4. Stored(w)'
  BY DEF IInv, Stored, FileIsPrefix
<1> QED
  BY <1>1, <1>2, <1>3, <1>4 DEF IInv

LEMMA ReplyTyped ==
  ASSUME NEW w, Session = {w}, TypeOK, NEW t \in {"OACK", "ACK", "ERROR"}, NEW b \in Number,
         NEW c \in 0 .. Chunks, Reply(Packet(t, w, b, c))
  PROVE  /\ toClient' \subseteq ToClient
         /\ \A m \in toClient' \ toClient : m.type = t /\ m.block = b /\ m.chunk = c
BY DEF TypeOK, Reply, Packet, ToClient

LEMMA QuietSteps ==
  ASSUME NEW w, Session = {w}, IInv(w),
         \/ Accept(w) \/ Refuse(w) \/ LoopHead(w) \/ ReadTimeout(w) \/ GetsIllegal(w) \/ Cancel
         \/ \E m \in toServer : GetsError(w, m) \/ GetsOther(w, m) \/ WriteFails(w, m)
  PROVE  IInv(w)'
<1>0. offset[w] \in 0 .. Chunks /\ TypeOK
  BY DEF IInv, TypeOK
<1>1. toClient' = toClient => SaysKnown(w)
  BY <1>0 DEF SaysKnown, TypeOK
<1>2. CASE Accept(w)
  <2>1. GoesOn(w)
    BY <1>2 DEF GoesOn, Accept
  <2> QED BY <1>0, <1>1, <1>2, <2>1, QuietStep DEF Accept, TypeOK
<1>3. CASE Refuse(w)
  <2>1. GoesOn(w)
    BY <1>3 DEF GoesOn, Refuse
  <2>2. SaysKnown(w)
    BY <1>0, <1>3, Constants, ReplyTyped DEF SaysKnown, Refuse
  <2> QED BY <1>0, <1>3, <2>1, <2>2, QuietStep DEF Refuse, TypeOK
<1>4. CASE LoopHead(w)
  <2>1. GoesOn(w)
    BY <1>4 DEF GoesOn, LoopHead
  <2> QED BY <1>0, <1>1, <1>4, <2>1, QuietStep DEF LoopHead, TypeOK
<1>5. CASE ReadTimeout(w)
  <2>1. GoesOn(w)
    BY <1>5 DEF GoesOn, ReadTimeout, Reading
  <2> QED BY <1>0, <1>1, <1>5, <2>1, QuietStep DEF ReadTimeout, TypeOK
<1>6. CASE Cancel
  <2>1. GoesOn(w)
    BY <1>6 DEF GoesOn, Cancel, sessionVars
  <2> QED BY <1>0, <1>1, <1>6, <2>1, QuietStep DEF Cancel, sessionVars, TypeOK
<1>7. ASSUME NEW m \in toServer, GetsError(w, m) PROVE IInv(w)'
  <2>1. GoesOn(w)
    BY <1>7 DEF GoesOn, GetsError, Gets, Reading
  <2> QED BY <1>0, <1>1, <1>7, <2>1, QuietStep DEF GetsError, TypeOK
<1>8. ASSUME NEW m \in toServer, GetsOther(w, m) PROVE IInv(w)'
  <2>1. expected[w] = (offset[w] + 1) % BlockMod
    BY <1>8 DEF IInv, InStep, GetsOther, Gets, Reading
  <2>2. (expected[w] + BlockMod - 1) % BlockMod = offset[w] % BlockMod
    BY <1>0, <2>1, PreviousNumber
  <2>3. Reply(Packet("ACK", w, offset[w] % BlockMod, offset[w]))
    BY <1>8, <2>2 DEF GetsOther
  <2>4. offset[w] % BlockMod \in Number
    BY <1>0, NumberTyped
  <2>5. SaysKnown(w)
    <3>1. /\ toClient' \subseteq ToClient
          /\ \A p \in toClient' \ toClient :
               p.type = "ACK" /\ p.block = offset[w] % BlockMod /\ p.chunk = offset[w]
      BY <1>0, <2>3, <2>4, ReplyTyped
    <3> QED BY <1>0, <3>1 DEF SaysKnown
  <2>6. GoesOn(w)
    BY <1>8 DEF GoesOn, GetsOther, Gets, Reading
  <2> QED BY <1>0, <1>8, <2>5, <2>6, QuietStep DEF GetsOther, TypeOK
<1>9. ASSUME NEW m \in toServer, WriteFails(w, m) PROVE IInv(w)'
  <2>1. SaysKnown(w)
    BY <1>0, <1>9, Constants, ReplyTyped DEF SaysKnown, WriteFails
  <2>2. GoesOn(w)
    BY <1>9 DEF GoesOn, WriteFails, Gets, Reading
  <2> QED BY <1>0, <1>9, <2>1, <2>2, QuietStep DEF WriteFails, TypeOK
<1>10. CASE GetsIllegal(w)
  <2>1. SaysKnown(w)
    BY <1>0, <1>10, Constants, ReplyTyped DEF SaysKnown, GetsIllegal
  <2>2. GoesOn(w)
    BY <1>10 DEF GoesOn, GetsIllegal, Reading
  <2> QED BY <1>0, <1>10, <2>1, <2>2, QuietStep DEF GetsIllegal, TypeOK
<1> QED
  BY <1>2, <1>3, <1>4, <1>5, <1>6, <1>7, <1>8, <1>9, <1>10

(***************************************************************************)
(* os.Create finds nothing to truncate: no other session has written.      *)
(***************************************************************************)
LEMMA CreateHolds ==
  ASSUME NEW w, Session = {w}, IInv(w), Create(w)
  PROVE  IInv(w)' /\ file' = file
<1>1. TypeOK /\ offset[w] = 0
  BY DEF IInv, InStep, Create
<1>2. file' = file
  BY <1>1 DEF IInv, TypeOK, Stored, Create
<1>3. SaysKnown(w)
  <2>1. PICK t \in {"OACK", "ACK"} : Reply(Packet(t, w, 0, 0))
    BY DEF Create
  <2>2. /\ toClient' \subseteq ToClient
        /\ \A m \in toClient' \ toClient : m.block = 0 /\ m.chunk = 0
    BY <1>1, <2>1, Constants, ReplyTyped
  <2> QED BY <1>1, <2>2, FirstNumbers DEF SaysKnown
<1>4. GoesOn(w)
  BY DEF GoesOn, Create
<1> QED
  BY <1>1, <1>2, <1>3, <1>4, QuietStep DEF Create, TypeOK

(***************************************************************************)
(* The next chunk is written and acknowledged.                             *)
(***************************************************************************)
LEMMA NextHolds ==
  ASSUME NEW w, Session = {w}, IInv(w), NEW m \in toServer, GetsNext(w, m)
  PROVE  IInv(w)' /\ file' = Append(file, Len(file) + 1) /\ Len(file) < Chunks
<1>0. /\ TypeOK /\ m.chunk \in 0 .. Chunks /\ m.block \in Number
      /\ offset[w] \in 0 .. Chunks /\ acked \in 0 .. Chunks /\ Len(file) = offset[w]
      /\ pc[w] # "ended" /\ report[w] = "running" /\ w \in Session
  BY DEF IInv, TypeOK, ToServer, Stored, InStep, GetsNext, Gets, Reading
<1>i. InStep(w)
  BY DEF IInv
<1>1. m.chunk = offset[w] + 1 /\ acked = offset[w]
  BY NextIsNext DEF GetsNext
<1>2. m.block = (offset[w] + 1) % BlockMod
  BY <1>0 DEF IInv, InStep, GetsNext
<1>3. offset' = [offset EXCEPT ![w] = m.chunk] /\ offset'[w] = m.chunk
  BY <1>0, <1>1 DEF GetsNext, TypeOK
<1>4. file' = Append(file, m.chunk) /\ file' \in Seq(0 .. Chunks)
  BY <1>0, WriteAppends DEF GetsNext, TypeOK
<1>5. /\ toClient' \subseteq ToClient
      /\ \A r \in toClient' \ toClient : r.type = "ACK" /\ r.block = m.block /\ r.chunk = m.chunk
  BY <1>0, <1>1, ReplyTyped DEF GetsNext
<1>6. (expected[w] + 1) % BlockMod = (offset[w] + 2) % BlockMod
  <2>1. expected[w] = (offset[w] + 1) % BlockMod
    BY <1>2 DEF GetsNext
  <2>2. offset[w] + 1 \in Nat /\ (offset[w] + 1) + 1 = offset[w] + 2
    BY <1>0
  <2> QED BY <2>1, <2>2, NextNumber
<1>7. (offset[w] + 2) % BlockMod \in Number
  <2>1. offset[w] + 2 \in Nat
    BY <1>0
  <2> QED BY <2>1, NumberTyped
<1>8. ASSUME m.chunk = Chunks PROVE TypeOK' /\ InStep(w)'
  <2>1. TypeOK'
    BY <1>0, <1>3, <1>4, <1>5, <1>8 DEF GetsNext, TypeOK, End, Reports, clientVars
  <2>2. /\ pc'[w] = "ended" /\ report'[w] = "complete" /\ acked' = acked /\ client' = client
        /\ peer' = peer
    BY <1>0, <1>1, <1>8 DEF GetsNext, IInv, InStep, TypeOK, End, clientVars
  <2>3. InStep(w)'
    BY <1>0, <1>1, <1>3, <1>8, <2>2, <1>i DEF InStep
  <2> QED BY <2>1, <2>3
<1>9. ASSUME m.chunk # Chunks PROVE TypeOK' /\ InStep(w)'
  <2>1. TypeOK'
    BY <1>0, <1>3, <1>4, <1>5, <1>6, <1>7, <1>9 DEF GetsNext, TypeOK, Goto, clientVars
  <2>2. expected'[w] = (offset'[w] + 1) % BlockMod
    BY <1>0, <1>1, <1>3, <1>6, <1>9 DEF GetsNext, TypeOK
  <2>3. pc'[w] = "head" /\ report' = report /\ acked' = acked /\ client' = client /\ peer' = peer
    BY <1>0, <1>9 DEF GetsNext, TypeOK, Goto, clientVars
  <2>4. InStep(w)'
    BY <1>0, <1>1, <1>3, <1>9, <2>2, <2>3, <1>i DEF InStep
  <2> QED BY <2>1, <2>4
<1>10. TypeOK' /\ InStep(w)'
  BY <1>8, <1>9
<1>11. Numbered(w)'
  <2>1. toServer' = toServer /\ acked' = acked
    BY DEF GetsNext, clientVars
  <2>2. ASSUME NEW r \in toClient, r.type = "ACK"
        PROVE  r.block = r.chunk % BlockMod /\ r.chunk <= offset'[w]
    <3>1. r.block = r.chunk % BlockMod /\ r.chunk <= offset[w] /\ r.chunk \in Nat
      BY <2>2 DEF IInv, Numbered, TypeOK, ToClient
    <3> QED BY <1>0, <1>1, <1>3, <3>1
  <2>3. ASSUME NEW r \in toClient' \ toClient
        PROVE  r.block = r.chunk % BlockMod /\ r.chunk <= offset'[w]
    BY <1>0, <1>1, <1>2, <1>3, <1>5
  <2> QED BY <2>1, <2>2, <2>3 DEF IInv, Numbered
<1>12. Stored(w)'
  BY <1>0, <1>1, <1>3, <1>4 DEF IInv, Stored, FileIsPrefix, TypeOK
<1>13. IInv(w)'
  BY <1>10, <1>11, <1>12 DEF IInv
<1>14. m.chunk = Len(file) + 1 /\ Len(file) < Chunks
  BY <1>0, <1>1, Constants
<1> QED
  BY <1>4, <1>13, <1>14

-----------------------------------------------------------------------------
(***************************************************************************)
(* Steps of the client.                                                    *)
(***************************************************************************)
LEMMA ChunkSent ==
  ASSUME NEW w, Session = {w}, TypeOK, NEW c \in 1 .. Chunks, SendChunk(w, c)
  PROVE  /\ toServer' \subseteq ToServer
         /\ \A m \in toServer' \ toServer : m.block = m.chunk % BlockMod /\ m.chunk = c
<1>1. c % BlockMod \in Number /\ c \in 0 .. Chunks
  BY Constants, NumberTyped
<1> QED
  BY <1>1 DEF TypeOK, SendChunk, Packet, ToServer

LEMMA ClientHolds == ASSUME NEW w, Session = {w}, IInv(w), ClientStep PROVE IInv(w)'
<1>0. /\ TypeOK /\ acked \in 0 .. Chunks /\ Chunks \in Nat /\ Chunks > 0 /\ w \in Session
      /\ UNCHANGED <<sessionVars, file, cancelled, toClient>>
  BY Constants DEF IInv, TypeOK, ClientStep, TakeReply, TakeAck, TakeError, TakeForeign, Leave
<1>1. Stored(w)'
  BY <1>0 DEF IInv, Stored, FileIsPrefix, sessionVars
<1>2. ASSUME NEW m \in toClient, TakeReply(m) PROVE IInv(w)'
  <2>1. m.end = w /\ acked = 0 /\ acked' = 0
    BY <1>0, <1>2 DEF IInv, TypeOK, ToClient, InStep, TakeReply
  <2>2. /\ toServer' \subseteq ToServer
        /\ \A p \in toServer' \ toServer : p.block = p.chunk % BlockMod /\ p.chunk = 1
    BY <1>0, <1>2, <2>1, ChunkSent DEF TakeReply
  <2>3. TypeOK' /\ InStep(w)'
    BY <1>0, <1>2, <2>1, <2>2 DEF IInv, TypeOK, InStep, TakeReply, sessionVars
  <2>4. Numbered(w)'
    BY <1>0, <2>1, <2>2 DEF IInv, Numbered, sessionVars
  <2> QED BY <1>1, <2>3, <2>4 DEF IInv
<1>3. ASSUME NEW m \in toClient, Fresh(m), TakeAck(m) PROVE IInv(w)'
  <2>1. m.end = w /\ offset[w] = acked + 1 /\ acked < Chunks /\ acked' = acked + 1 /\ offset' = offset
    BY <1>0, <1>3, AckIsForThis DEF IInv, TypeOK, ToClient, InStep, TakeAck, sessionVars
  <2>2. /\ toServer' \subseteq ToServer
        /\ \A p \in toServer' \ toServer : p.block = p.chunk % BlockMod /\ p.chunk = acked + 2
    <3>1. CASE acked + 1 = Chunks
      BY <1>0, <1>3, <3>1 DEF TakeAck, TypeOK
    <3>2. CASE acked + 1 # Chunks
      <4>1. acked + 2 \in 1 .. Chunks
        BY <1>0, <2>1, <3>2
      <4> QED BY <1>0, <1>3, <2>1, <3>2, <4>1, ChunkSent DEF TakeAck
    <3> QED BY <3>1, <3>2
  <2>3. TypeOK' /\ InStep(w)'
    BY <1>0, <1>3, <2>1, <2>2 DEF IInv, TypeOK, InStep, TakeAck, sessionVars
  <2>4. Numbered(w)'
    <3>1. \A p \in toServer : p.type = "DATA" => p.block = p.chunk % BlockMod /\ 0 < p.chunk /\ p.chunk <= acked' + 1
      BY <1>0, <2>1 DEF IInv, Numbered, TypeOK, ToServer
    <3> QED BY <1>0, <2>1, <2>2, <3>1 DEF IInv, Numbered
  <2> QED BY <1>1, <2>3, <2>4 DEF IInv
<1>4. ASSUME NEW m \in toClient, TakeError(m) PROVE IInv(w)'
  <2>1. TypeOK' /\ InStep(w)' /\ Numbered(w)'
    BY <1>0, <1>4 DEF IInv, TypeOK, InStep, Numbered, TakeError, sessionVars
  <2> QED BY <1>1, <2>1 DEF IInv
<1>5. ASSUME NEW m \in toClient, TakeForeign(m) PROVE FALSE
  BY <1>0, <1>5 DEF IInv, TypeOK, ToClient, InStep, TakeForeign
<1>6. CASE Leave
  <2>1. \A p \in toServer' \ toServer : p \in ToServer /\ p.type = "ERROR"
    <3>1. 0 \in Number
      BY Constants
    <3> QED BY <1>0, <1>6, <3>1 DEF Leave, TypeOK, Packet, ToServer
  <2>2. TypeOK' /\ InStep(w)' /\ Numbered(w)'
    BY <1>0, <1>6, <2>1 DEF IInv, TypeOK, InStep, Numbered, Leave, sessionVars
  <2> QED BY <1>1, <2>2 DEF IInv
<1> QED
  BY <1>2, <1>3, <1>4, <1>5, <1>6 DEF ClientStep

LEMMA StepHolds == ASSUME NEW w, Session = {w}, IInv(w), [Next]_vars PROVE IInv(w)'
<1>1. CASE \E s \in Session : Accept(s) \/ SessionStep(s)
  BY <1>1, QuietSteps, CreateHolds, NextHolds DEF SessionStep
<1>2. CASE Cancel
  BY <1>2, QuietSteps
<1>3. CASE ClientStep
  BY <1>3, ClientHolds
<1>4. CASE UNCHANGED vars
  BY <1>4 DEF vars, sessionVars, clientVars, IInv, TypeOK, Numbered, InStep, Stored, FileIsPrefix
<1> QED
  BY <1>1, <1>2, <1>3, <1>4 DEF Next

LEMMA InvariantHolds == ASSUME NEW w, Session = {w} PROVE Spec => []IInv(w)
<1>1. IInv(w) /\ [Next]_vars => IInv(w)'
  BY StepHolds
<1>2. Init => IInv(w)
  BY InitHolds
<1> QED
  BY <1>1, <1>2, PTL DEF Spec

-----------------------------------------------------------------------------
\* Type correctness of an upload by one session.
THEOREM TypeCorrect == ASSUME NEW w, Session = {w} PROVE Spec => []TypeOK
<1>1. IInv(w) => TypeOK
  BY DEF IInv
<1> QED
  BY <1>1, InvariantHolds, PTL

\* An upload that the session has reported complete is on disk, whole.
THEOREM CompleteMeansWrittenHolds ==
  ASSUME NEW w, Session = {w} PROVE Spec => []CompleteMeansWritten
<1>1. IInv(w) => CompleteMeansWritten
  BY DEF IInv, InStep, Stored, CompleteMeansWritten, Written
<1> QED
  BY <1>1, InvariantHolds, PTL

\* A client whose last block is acknowledged can rely on the file being whole.
THEOREM DoneMeansWrittenHolds ==
  ASSUME NEW w, Session = {w} PROVE Spec => []DoneMeansWritten
<1>1. IInv(w) => DoneMeansWritten
  BY Constants DEF IInv, TypeOK, InStep, Stored, DoneMeansWritten, Written
<1> QED
  BY <1>1, InvariantHolds, PTL

\* What a step that does not write does to the file and to the report.
LEMMA ReportsOnce ==
  ASSUME NEW w, Session = {w}, IInv(w), Next, ~\E m \in toServer : GetsNext(w, m)
  PROVE  /\ file' = file
         /\ \/ report' = report
            \/ report[w] = "running" /\ report'[w] \in {"error", "aborted", "silent"}
<1>1. w \in Session /\ report \in [Session -> Reports]
  BY DEF IInv, TypeOK
<1>2. CASE \E s \in Session : Accept(s) \/ SessionStep(s)
  <2>1. pc[w] # "ended" /\ report[w] = "running"
    BY <1>2 DEF IInv, InStep, SessionStep, Accept, Refuse, Create, LoopHead, ReadTimeout, GetsIllegal, GetsError,
       GetsOther, WriteFails, Gets, Reading
  <2>2. file' = file
    <3>1. CASE Create(w)
      BY <3>1 DEF IInv, TypeOK, InStep, Stored, Create
    <3>2. CASE ~Create(w)
      BY <1>2, <3>2 DEF SessionStep, Accept, Refuse, LoopHead, ReadTimeout, GetsIllegal, GetsError, GetsOther, WriteFails
    <3> QED BY <3>1, <3>2
  <2>3. report' = report \/ report'[w] \in {"error", "aborted", "silent"}
    BY <1>1, <1>2 DEF SessionStep, Accept, Refuse, Create, LoopHead, ReadTimeout, GetsIllegal, GetsError,
       GetsOther, WriteFails, Goto, End
  <2> QED BY <2>1, <2>2, <2>3
<1>3. CASE Cancel \/ ClientStep
  BY <1>3 DEF Cancel, ClientStep, TakeReply, TakeAck, TakeError, TakeForeign, Leave, sessionVars
<1> QED
  BY <1>2, <1>3 DEF Next

\* The upload implements the abstract transfer: the file only grows by the
\* client's next chunk, and "complete" is reported with the last one.
THEOREM ImplementsTransfer ==
  ASSUME NEW w, Session = {w} PROVE Spec => TransferSpec
<1> DEFINE r == CASE \E s \in Session : report[s] = "complete" -> "complete"
                  [] \A s \in Session : report[s] = "running" -> "running"
                  [] OTHER -> "failed"
           q == IF report[w] \in {"complete", "running"} THEN report[w] ELSE "failed"
<1>1. r = q /\ r' = q'
  OBVIOUS
<1>2. Init => file = <<>> /\ q = "running"
  BY DEF Init
<1>3. ASSUME IInv(w), IInv(w)', [Next]_vars PROVE [Transfer!Next]_<<file, q>>
  <2>1. ASSUME NEW m \in toServer, GetsNext(w, m) PROVE Transfer!Next
    <3>1. /\ file' = Append(file, Len(file) + 1) /\ Len(file) < Chunks /\ Stored(w)' /\ TypeOK /\ w \in Session
          /\ InStep(w) /\ InStep(w)'
      BY <1>3, <2>1, NextHolds DEF IInv
    <3>2. report[w] = "running"
      BY <2>1, <3>1 DEF InStep, GetsNext, Gets, Reading
    <3>3. report' = report \/ report'[w] = "complete"
      BY <2>1, <3>1 DEF GetsNext, End, Goto, TypeOK
    <3>4. report'[w] = "complete" => Len(file') = Chunks
      BY <3>1 DEF InStep, Stored
    <3> QED
      BY <3>1, <3>2, <3>3, <3>4 DEF Transfer!Next, Transfer!Store, Transfer!Report
  <2>2. CASE Next /\ ~\E m \in toServer : GetsNext(w, m)
    <3>1. /\ file' = file
          /\ \/ report' = report
             \/ report[w] = "running" /\ report'[w] \in {"error", "aborted", "silent"}
      BY <1>3, <2>2, ReportsOnce
    <3> QED
      BY <3>1 DEF Transfer!Next, Transfer!Report
  <2>3. CASE UNCHANGED vars
    BY <2>3 DEF vars, sessionVars
  <2> QED
    BY <1>3, <2>1, <2>2, <2>3
<1>4. Init => Transfer!Init
  BY <1>1, <1>2 DEF Transfer!Init
<1>5. IInv(w) /\ IInv(w)' /\ [Next]_vars => [Transfer!Next]_<<file, r>>
  BY <1>1, <1>3
<1> QED
  BY <1>4, <1>5, InvariantHolds, PTL DEF Spec, TransferSpec, Transfer!Spec
=============================================================================
