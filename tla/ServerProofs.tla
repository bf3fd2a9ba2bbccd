------------------------- MODULE ServerProofs -------------------------
(***************************************************************************)
(* Proofs about the servers.  ServerDrain, for any number of clients: type *)
(* correctness, and that a graceful stop of the syslog server refuses no   *)
(* line.  SyslogLines, for any lines of any length: where Parse splits     *)
(* them.  ServedPaths, for any paths over any file systems: which of them  *)
(* SafeJoin returns.                                                       *)
(***************************************************************************)
EXTENDS ServerDrain, SyslogLines, ServedPaths, FiniteSetTheorems, WellFoundedInduction, TLAPS

RunOK ==
  /\ target \in {"syslog", "sftp", "webui"} /\ order \in {"replace", "run", "alone"}
  /\ ctx \in BOOLEAN /\ sd \in {"none", "called", "waiting", "returned"} /\ due \in BOOLEAN

\* The type invariant, at the start, after the steps of each server, and after any step.
LEMMA TypeInit == Init => TypeOK
<1> SUFFICES ASSUME Init PROVE TypeOK
  OBVIOUS
<1>1. RunOK
  BY DEF Init, RunOK
<1>2. G!SyslogTypeOK
  BY DEF Init, G!SyslogInit, G!SyslogTypeOK
<1>3. F!SftpTypeOK
  BY DEF Init, F!SftpInit, F!SftpTypeOK
<1>4. W!WebTypeOK
  BY DEF Init, W!WebInit, W!WebTypeOK
<1> QED
  BY <1>1, <1>2, <1>3, <1>4 DEF RunOK, TypeOK

-----------------------------------------------------------------------------
(***************************************************************************)
(* The steps of each server.                                               *)
(***************************************************************************)
LEMMA LineHandled ==
  ASSUME gStore \in BOOLEAN, gRefused \in BOOLEAN, G!HandleLine
  PROVE  /\ gRefused' \in BOOLEAN
         /\ gStore => gRefused' = gRefused
         /\ gRefused' => gRefused \/ ~gStore
<1>1. gRefused' = (gRefused \/ ~gStore)
  BY DEF G!HandleLine
<1> QED
  BY <1>1, Zenon

LEMMA TypeSyslog == ASSUME TypeOK, SyslogStep(G!SyslogNext) PROVE TypeOK'
<1>0. G!SyslogTypeOK /\ RunOK
  BY DEF TypeOK, RunOK
<1>1. F!SftpTypeOK' /\ W!WebTypeOK'
  BY DEF TypeOK, SyslogStep, sftp, web, F!SftpTypeOK, W!WebTypeOK
<1>2. CASE G!StartStep \/ G!CtxClosesUDP \/ G!CtxClosesTCP
  <2>1. G!SyslogTypeOK' /\ RunOK'
    BY <1>0, <1>2 DEF SyslogStep, RunOK, G!SyslogTypeOK, G!StartStep, G!StartUDP, G!StartTCP, G!StartJoins,
       G!CtxClosesUDP, G!CtxClosesTCP, G!DropQueue, G!run
  <2> QED BY <1>1, <2>1 DEF TypeOK, RunOK
<1>3. CASE G!UdpRead \/ G!UdpEnds \/ G!Register \/ G!AcceptEnds
  <2>1. CASE G!Register
    <3>1. gHeld \in Conn
      BY <1>0, <2>1 DEF G!SyslogTypeOK, G!Register
    <3>2. gConns' \subseteq Conn /\ gLate' \subseteq Conn /\ gHandler' \in [Conn -> {"none", "scan", "line", "done"}]
      BY <1>0, <2>1, <3>1 DEF G!SyslogTypeOK, G!Register
    <3>3. G!SyslogTypeOK' /\ RunOK'
      BY <1>0, <2>1, <3>2 DEF SyslogStep, RunOK, G!SyslogTypeOK, G!Register, G!run
    <3> QED BY <1>1, <3>3 DEF TypeOK, RunOK
  <2>2. CASE G!UdpRead \/ G!UdpEnds \/ G!AcceptEnds
    <3>1. G!SyslogTypeOK' /\ RunOK'
      BY <1>0, <2>2 DEF SyslogStep, RunOK, G!SyslogTypeOK, G!UdpRead, G!UdpEnds, G!AcceptEnds, G!run
    <3> QED BY <1>1, <3>1 DEF TypeOK, RunOK
  <2> QED BY <1>3, <2>1, <2>2
<1>7. CASE G!UdpLine
  <2>1. gRefused' \in BOOLEAN
    BY <1>0, <1>7, LineHandled DEF G!SyslogTypeOK, G!UdpLine
  <2>2. G!SyslogTypeOK' /\ RunOK'
    BY <1>0, <1>7, <2>1 DEF SyslogStep, RunOK, G!SyslogTypeOK, G!UdpLine, G!run
  <2> QED BY <1>1, <2>2 DEF TypeOK, RunOK
<1>4. CASE G!ShutdownStep
  <2>1. CASE G!ShutdownCloses
    <3>1. gEarly' \in BOOLEAN
      <4>1. gEarly' = (gStart \in {"begin", "udp"})
        BY <2>1 DEF G!ShutdownCloses
      <4>2. CASE gStart \in {"begin", "udp"}
        BY <4>1, <4>2
      <4>3. CASE gStart \notin {"begin", "udp"}
        BY <4>1, <4>3
      <4> QED BY <4>2, <4>3
    <3>2. G!CloseAll(gConns) \in [Conn -> {"out", "queued", "up", "left", "closed"}]
      BY <1>0 DEF G!SyslogTypeOK, G!CloseAll
    <3>3. gLink' \in [Conn -> {"out", "queued", "up", "left", "closed"}]
      BY <2>1, <3>2 DEF G!ShutdownCloses, G!DropQueue
    <3>4. G!SyslogTypeOK' /\ RunOK'
      BY <1>0, <2>1, <3>1, <3>3 DEF SyslogStep, RunOK, G!SyslogTypeOK, G!ShutdownCloses, G!Close
    <3> QED BY <1>1, <3>4 DEF TypeOK, RunOK
  <2>2. CASE G!ShutdownReturns
    <3>1. /\ gStore' = FALSE /\ sd' = "returned" /\ UNCHANGED <<target, order, ctx, due>>
          /\ UNCHANGED <<gStart, gUdp, gLis, gUdpLoop, gAccLoop, gHeld, gLink, gConns, gHandler, gEarly, gLate, gRefused>>
      BY <2>2 DEF SyslogStep, G!ShutdownReturns
    <3>2. gStore' \in BOOLEAN
      BY <3>1, Zenon
    <3>3. RunOK'
      BY <1>0, <3>1 DEF RunOK
    <3>4. G!SyslogTypeOK'
      BY <1>0, <3>1, <3>2, Zenon DEF G!SyslogTypeOK
    <3> QED BY <1>1, <3>3, <3>4 DEF TypeOK, RunOK
  <2> QED BY <1>4, <2>1, <2>2 DEF G!ShutdownStep
<1>5. ASSUME NEW c \in Conn, G!Accept(c) \/ G!Connect(c) \/ G!Leave(c) PROVE TypeOK'
  <2>1. G!SyslogTypeOK' /\ RunOK'
    BY <1>0, <1>5 DEF SyslogStep, RunOK, G!SyslogTypeOK, G!Accept, G!Connect, G!Leave, G!run
  <2> QED BY <1>1, <2>1 DEF TypeOK, RunOK
<1>6. ASSUME NEW c \in Conn, G!Scan(c) \/ G!HandlerStep(c) PROVE TypeOK'
  <2>1. gRefused' \in BOOLEAN
    BY <1>0, <1>6, LineHandled DEF G!SyslogTypeOK, G!Scan, G!HandlerStep, G!TcpLine, G!ScanEnds
  <2>2. G!SyslogTypeOK' /\ RunOK'
    BY <1>0, <1>6, <2>1 DEF SyslogStep, RunOK, G!SyslogTypeOK, G!Scan, G!HandlerStep, G!TcpLine, G!ScanEnds,
       G!EndConn, G!CloseAll, G!run
  <2> QED BY <1>1, <2>2 DEF TypeOK, RunOK
<1> QED
  BY <1>2, <1>3, <1>4, <1>5, <1>6, <1>7 DEF SyslogStep, G!SyslogNext

LEMMA TypeSftp == ASSUME TypeOK, SftpStep(F!SftpNext) PROVE TypeOK'
<1>0. F!SftpTypeOK /\ RunOK
  BY DEF TypeOK, RunOK
<1>1. G!SyslogTypeOK' /\ W!WebTypeOK'
  BY DEF TypeOK, SftpStep, syslog, web, G!SyslogTypeOK, W!WebTypeOK
<1>2. CASE F!Listen \/ F!AcceptEnds \/ F!StartReturnsNil \/ F!CtxCloses \/ F!ShutdownStep
  <2>1. F!SftpTypeOK' /\ RunOK'
    BY <1>0, <1>2 DEF SftpStep, RunOK, F!SftpTypeOK, F!Listen, F!AcceptEnds, F!StartReturnsNil, F!CtxCloses,
       F!ShutdownStep, F!ShutdownCloses, F!ShutdownReturns, F!CloseLis, F!run, F!mine
  <2> QED BY <1>1, <2>1 DEF TypeOK, RunOK
<1>3. ASSUME NEW c \in Conn, F!Accept(c) \/ F!Handshake(c) \/ F!Connect(c) \/ F!Leave(c) PROVE TypeOK'
  <2>1. F!SftpTypeOK' /\ RunOK'
    BY <1>0, <1>3 DEF SftpStep, RunOK, F!SftpTypeOK, F!Accept, F!Handshake, F!Connect, F!Leave, F!Hangup, F!run
  <2> QED BY <1>1, <2>1 DEF TypeOK, RunOK
<1>4. ASSUME NEW c \in Conn, F!HandlerStep(c) PROVE TypeOK'
  <2>1. F!SftpTypeOK' /\ RunOK'
    BY <1>0, <1>4 DEF SftpStep, RunOK, F!SftpTypeOK, F!HandlerStep, F!HandshakeBreaks, F!HandlerCancelled,
       F!ChannelsEnd, F!HandlerJoins, F!Hangup, F!run
  <2> QED BY <1>1, <2>1 DEF TypeOK, RunOK
<1>5. ASSUME NEW c \in Conn, F!ServeEnds(c) \/ F!OpenChannel(c) \/ F!Subsystem(c) \/ F!ClientEndsSession(c)
      PROVE TypeOK'
  <2>1. F!SftpTypeOK' /\ RunOK'
    BY <1>0, <1>5 DEF SftpStep, RunOK, F!SftpTypeOK, F!ServeEnds, F!OpenChannel, F!Subsystem,
       F!ClientEndsSession, F!run
  <2> QED BY <1>1, <2>1 DEF TypeOK, RunOK
<1> QED
  BY <1>2, <1>3, <1>4, <1>5 DEF SftpStep, F!SftpNext

LEMMA TypeWeb == ASSUME TypeOK, WebStep(W!WebNext) PROVE TypeOK'
<1>1. G!SyslogTypeOK' /\ F!SftpTypeOK'
  BY DEF TypeOK, WebStep, syslog, sftp, G!SyslogTypeOK, F!SftpTypeOK
<1>0. W!WebTypeOK /\ RunOK /\ UNCHANGED <<target, order>> /\ W!WebNext
  BY DEF TypeOK, RunOK, WebStep
<1>2. W!WebTypeOK' /\ RunOK'
  <2>1. CASE W!StartStep \/ W!FiveSeconds
    BY <1>0, <2>1 DEF RunOK, W!WebTypeOK, W!StartStep, W!Listen, W!StartCancelled, W!ServeReturns, W!StartClosed,
       W!FiveSeconds, W!run
  <2>2. CASE W!ShutdownStep
    BY <1>0, <2>2 DEF RunOK, W!WebTypeOK, W!ShutdownStep, W!ShutdownCloses, W!ShutdownReturns, W!mine
  <2>3. ASSUME NEW c \in Conn, W!OpenStream(c) \/ W!LeaveStream(c) PROVE W!WebTypeOK' /\ RunOK'
    BY <1>0, <2>3 DEF RunOK, W!WebTypeOK, W!OpenStream, W!LeaveStream, W!run
  <2> QED BY <1>0, <2>1, <2>2, <2>3 DEF W!WebNext
<1> QED
  BY <1>1, <1>2 DEF TypeOK, RunOK

LEMMA TypeNext == TypeOK /\ [Next]_vars => TypeOK'
<1> SUFFICES ASSUME TypeOK, [Next]_vars PROVE TypeOK'
  OBVIOUS
<1>1. CASE CallShutdown \/ Cancel \/ Deadline \/ UNCHANGED vars
  <2>1. RunOK'
    BY <1>1 DEF TypeOK, RunOK, CallShutdown, Cancel, Deadline, vars, run
  <2>2. UNCHANGED <<syslog, sftp, web>>
    BY <1>1 DEF CallShutdown, Cancel, Deadline, vars
  <2> QED
    BY <2>1, <2>2 DEF TypeOK, RunOK, syslog, sftp, web, G!SyslogTypeOK, F!SftpTypeOK, W!WebTypeOK
<1> QED
  BY <1>1, TypeSyslog, TypeSftp, TypeWeb DEF Next

\* Type correctness of the three servers and their callers, for any clients.
THEOREM TypeCorrect == Spec => []TypeOK
<1> QED
  BY TypeInit, TypeNext, PTL DEF Spec

-----------------------------------------------------------------------------
(***************************************************************************)
(* When no goroutine is left and none will be started, no line is read any *)
(* more: a handler comes only from a connection that the accept loop       *)
(* holds, and the loops only from a Start that has not opened its sockets. *)
(***************************************************************************)
Quiet ==
  /\ gUdpLoop \in {"none", "done"} /\ gAccLoop # "accept" /\ gHeld = NoConn
  /\ \A c \in Conn : gHandler[c] \in {"none", "done"}

(***************************************************************************)
(* The accept loop is what holds a connection.  Shutdown is past its lock  *)
(* only with the sockets opened, or early; the store is closed only then,  *)
(* and unless the deadline has passed, when everything is quiet.           *)
(***************************************************************************)
StoreInv ==
  /\ TypeOK
  /\ target # "syslog" => gStore /\ ~gRefused
  /\ gHeld # NoConn => gAccLoop = "accept"
  /\ target = "syslog" /\ sd \in {"waiting", "returned"} => gEarly \/ gStart \notin {"begin", "udp"}
  /\ gRefused => ~gStore
  /\ ~gStore => sd = "returned" /\ (due \/ gEarly \/ Quiet)
  /\ RefusedOnlyAtDeadline

\* The invariant of the store, at the start and after any step.
LEMMA StoreInit == Init => StoreInv
<1> SUFFICES ASSUME Init PROVE StoreInv
  OBVIOUS
<1>1. TypeOK
  BY TypeInit
<1> QED
  BY <1>1 DEF Init, G!SyslogInit, StoreInv, RefusedOnlyAtDeadline

\* A drained server is quiet.
LEMMA DrainedIsQuiet == ASSUME StoreInv, G!Drained PROVE Quiet
BY DEF StoreInv, TypeOK, G!SyslogTypeOK, G!Drained, G!Running, Quiet

\* What each step of the syslog server does about the store.
LEMMA StoreSyslog == ASSUME StoreInv, SyslogStep(G!SyslogNext) PROVE StoreInv'
<1>0. TypeOK' /\ TypeOK /\ target = "syslog" /\ target' = target
  BY TypeSyslog DEF StoreInv, SyslogStep
<1>1. CASE G!StartStep \/ G!CtxClosesUDP \/ G!CtxClosesTCP
  BY <1>0, <1>1 DEF StoreInv, Quiet, RefusedOnlyAtDeadline, G!StartStep, G!StartUDP, G!StartTCP, G!StartJoins,
     G!CtxClosesUDP, G!CtxClosesTCP, G!run
<1>b. gStore \in BOOLEAN /\ gRefused \in BOOLEAN /\ gHandler \in [Conn -> {"none", "scan", "line", "done"}]
  BY <1>0 DEF TypeOK, G!SyslogTypeOK
<1>2. CASE G!UdpRead \/ G!UdpEnds \/ G!AcceptEnds
  BY <1>0, <1>2 DEF StoreInv, Quiet, RefusedOnlyAtDeadline, G!UdpRead, G!UdpEnds, G!AcceptEnds, G!run
<1>7. CASE G!UdpLine
  <2>1. ~Quiet
    BY <1>7 DEF Quiet, G!UdpLine
  <2>2. gRefused' => gRefused \/ ~gStore
    BY <1>b, <1>7, LineHandled DEF G!UdpLine
  <2> QED
    BY <1>0, <1>7, <2>1, <2>2 DEF StoreInv, RefusedOnlyAtDeadline, G!UdpLine, G!run
<1>3. CASE G!Register
  BY <1>0, <1>3 DEF StoreInv, Quiet, RefusedOnlyAtDeadline, G!Register, G!run
<1>4. CASE G!ShutdownStep
  <2>1. CASE G!ShutdownCloses
    <3>1. gStore /\ ~gRefused /\ gStore' = gStore /\ gRefused' = gRefused
      BY <2>1 DEF StoreInv, G!ShutdownCloses
    <3>2. gEarly' \/ gStart' \notin {"begin", "udp"}
      BY <2>1 DEF G!ShutdownCloses
    <3> QED
      BY <1>0, <2>1, <3>1, <3>2 DEF StoreInv, RefusedOnlyAtDeadline, G!ShutdownCloses
  <2>2. CASE G!ShutdownReturns
    <3>1. due \/ Quiet
      BY <2>2, DrainedIsQuiet DEF G!ShutdownReturns
    <3> QED BY <1>0, <2>2, <3>1 DEF StoreInv, Quiet, RefusedOnlyAtDeadline, G!ShutdownReturns
  <2> QED BY <1>4, <2>1, <2>2 DEF G!ShutdownStep
<1>5. ASSUME NEW c \in Conn, G!Accept(c) \/ G!Connect(c) \/ G!Leave(c) PROVE StoreInv'
  BY <1>0, <1>5 DEF StoreInv, Quiet, RefusedOnlyAtDeadline, G!Accept, G!Connect, G!Leave, G!run
<1>6. ASSUME NEW c \in Conn, G!Scan(c) \/ G!HandlerStep(c) PROVE StoreInv'
  <2>1. gHandler[c] \in {"scan", "line"}
    BY <1>6 DEF G!Scan, G!HandlerStep, G!TcpLine, G!ScanEnds
  <2>2. ~Quiet
    BY <2>1 DEF Quiet
  <2>3. gRefused' => gRefused \/ ~gStore
    BY <1>b, <1>6, LineHandled DEF G!Scan, G!HandlerStep, G!TcpLine, G!ScanEnds
  <2>4. UNCHANGED <<target, ctx, sd, due, gHeld, gAccLoop, gStart, gStore, gEarly>>
    BY <1>0, <1>6 DEF G!Scan, G!HandlerStep, G!TcpLine, G!ScanEnds, G!run
  <2> QED
    BY <1>0, <2>2, <2>3, <2>4 DEF StoreInv, RefusedOnlyAtDeadline
<1> QED
  BY <1>1, <1>2, <1>3, <1>4, <1>5, <1>6, <1>7 DEF SyslogStep, G!SyslogNext

LEMMA StoreNext == StoreInv /\ [Next]_vars => StoreInv'
<1> SUFFICES ASSUME StoreInv, [Next]_vars PROVE StoreInv'
  OBVIOUS
<1>0. TypeOK'
  BY TypeNext DEF StoreInv
<1>1. CASE CallShutdown \/ Cancel \/ Deadline \/ UNCHANGED vars
  BY <1>0, <1>1 DEF StoreInv, Quiet, RefusedOnlyAtDeadline, CallShutdown, Cancel, Deadline, vars, run, syslog
<1>2. CASE SftpStep(F!SftpNext) \/ WebStep(W!WebNext)
  <2>1. target \in {"sftp", "webui"} /\ UNCHANGED <<target, syslog>>
    BY <1>2 DEF SftpStep, WebStep
  <2> QED
    BY <1>0, <2>1 DEF StoreInv, Quiet, RefusedOnlyAtDeadline, syslog
<1> QED
  BY <1>1, <1>2, StoreSyslog DEF Next

\* A graceful stop of the syslog server closes the store after the last line,
\* for any number of clients: a line is refused only after Shutdown's deadline,
\* or when Shutdown came before Start had opened its sockets.
THEOREM GracefulStopKeepsLines == Spec => []RefusedOnlyAtDeadline
<1>1. StoreInv => RefusedOnlyAtDeadline
  BY DEF StoreInv
<1> QED
  BY <1>1, StoreInit, StoreNext, PTL DEF Spec

-----------------------------------------------------------------------------
(***************************************************************************)
(* Every non-empty set of numbers has a least one, from the                *)
(* well-foundedness of the natural numbers.                                *)
(***************************************************************************)
LEMMA LeastExists ==
  ASSUME NEW S \in SUBSET Nat, S # {}
  PROVE  Least(S) \in S /\ \A y \in S : Least(S) <= y
<1> DEFINE R == {ss \in Nat \X Nat : ss[1] < ss[2]}
<1>1. IsWellFoundedOn(R, Nat)
  BY NatLessThanWellFounded DEF OpToRel
<1>2. \E x \in S : \A y \in S : <<y, x>> \notin R
  <2> HIDE DEF R
  <2> QED BY <1>1, WFMin
<1>3. \A x, y \in S : <<y, x>> \notin R => x <= y
  OBVIOUS
<1>4. \E x \in S : \A y \in S : x <= y
  BY <1>2, <1>3
<1> QED
  BY <1>4 DEF Least

\* A set that has each number up to n when it has those above it, has all.
LEMMA CountsDown ==
  ASSUME NEW n \in Nat, NEW S, \A i \in 0 .. n : i + 1 .. n \subseteq S => i \in S
  PROVE  0 .. n \subseteq S
<1> SUFFICES ASSUME NEW k \in 0 .. n, k \notin S PROVE FALSE
  OBVIOUS
<1> DEFINE Missing == {j \in 0 .. n : n - j \notin S}
<1>1. PICK m \in Missing : \A j \in Missing : m <= j
  <2>1. n - k \in Missing
    OBVIOUS
  <2>2. Missing \subseteq Nat
    OBVIOUS
  <2> HIDE DEF Missing
  <2>3. Missing \in SUBSET Nat /\ Missing # {}
    BY <2>1, <2>2
  <2> QED BY <2>3, LeastExists
<1>2. n - m \in 0 .. n /\ n - m \notin S
  BY <1>1
<1>3. \A i \in n - m + 1 .. n : i \in S
  <2> SUFFICES ASSUME NEW i \in n - m + 1 .. n, i \notin S PROVE FALSE
    OBVIOUS
  <2>1. n - i \in Missing /\ n - i < m
    BY <1>1, <1>2
  <2> QED BY <1>1, <2>1
<1> QED
  BY <1>2, <1>3

(***************************************************************************)
(* A function exists whose value at each number is made from its values at *)
(* larger ones.                                                            *)
(***************************************************************************)
Falling(n, V, step) ==
  \E f \in [0 .. n -> V] : \A i \in 0 .. n : f[i] = step[i][f]

\* Going down from n, a function that is right from m + 1 on is made right at m.
LEMMA FallingExists ==
  ASSUME NEW n \in Nat, NEW V, V # {}, NEW step \in [0 .. n -> [[0 .. n -> V] -> V]],
         \A i \in 0 .. n : \A f, g \in [0 .. n -> V] :
            (\A j \in i + 1 .. n : f[j] = g[j]) => step[i][f] = step[i][g]
  PROVE  Falling(n, V, step)
<1> DEFINE Good(m) == \E f \in [0 .. n -> V] : \A i \in m .. n : f[i] = step[i][f]
           S == {m \in 0 .. n : Good(m)}
<1>1. ASSUME NEW m \in 0 .. n, m + 1 .. n \subseteq S PROVE m \in S
  <2>1. PICK f \in [0 .. n -> V] : \A i \in m + 1 .. n : f[i] = step[i][f]
    <3>1. CASE m = n
      <4>1. PICK v \in V : TRUE
        OBVIOUS
      <4>2. [i \in 0 .. n |-> v] \in [0 .. n -> V]
        OBVIOUS
      <4>3. m + 1 .. n = {}
        BY <3>1
      <4> QED BY <4>2, <4>3
    <3>2. CASE m < n
      <4>1. m + 1 \in m + 1 .. n
        BY <3>2
      <4>2. m + 1 \in S
        <5> HIDE DEF S
        <5> QED BY <1>1, <4>1
      <4> QED BY <4>2
    <3> QED BY <3>1, <3>2
  <2> DEFINE g == [f EXCEPT ![m] = step[m][f]]
  <2>2. step[m][f] \in V
    OBVIOUS
  <2>3. g \in [0 .. n -> V] /\ g[m] = step[m][f] /\ \A i \in 0 .. n : i # m => g[i] = f[i]
    BY <2>2
  <2> HIDE DEF g
  <2>4. ASSUME NEW i \in m .. n PROVE g[i] = step[i][g]
    <3>1. \A j \in i + 1 .. n : g[j] = f[j]
      BY <2>3
    <3>2. i \in 0 .. n
      OBVIOUS
    <3>3. step[i][g] = step[i][f]
      BY <2>3, <3>1, <3>2
    <3>4. g[i] = step[i][f]
      BY <2>1, <2>3
    <3> QED BY <3>3, <3>4
  <2>5. Good(m)
    BY <2>3, <2>4
  <2> HIDE DEF Good
  <2> QED BY <2>5
<1>2. 0 \in S
  <2> HIDE DEF S
  <2>1. \A i \in 0 .. n : i + 1 .. n \subseteq S => i \in S
    BY <1>1
  <2>2. 0 .. n \subseteq S
    BY <2>1, CountsDown
  <2> QED BY <2>2
<1> QED
  BY <1>2 DEF Falling

-----------------------------------------------------------------------------
(***************************************************************************)
(* Backslashes: a character is escaped when the one before it is a         *)
(* backslash that is not.                                                  *)
(***************************************************************************)
LEMMA EscapedFirst ==
  ASSUME NEW s, NEW from \in Nat
  PROVE  ~Escaped(s, from, from)
  BY DEF Escaped

\* The next one is escaped just when the one before it is a backslash that is not.
LEMMA EscapedNext ==
  ASSUME NEW s, NEW from \in Nat, NEW k \in Nat, k >= from
  PROVE  Escaped(s, from, k + 1) <=> s[k] = "backslash" /\ ~Escaped(s, from, k)
<1> DEFINE All(j, l) == \A i \in j .. l - 1 : s[i] = "backslash"
           First(j) == j = from \/ s[j - 1] # "backslash"
<1>1. ASSUME NEW j \in from .. k + 1, (k + 1 - j) % 2 = 1, All(j, k + 1), First(j)
      PROVE  s[k] = "backslash" /\ ~Escaped(s, from, k)
  <2>1. j \in from .. k /\ k \in j .. (k + 1) - 1
    BY <1>1
  <2>2. s[k] = "backslash"
    BY <1>1, <2>1
  <2>3. ASSUME NEW l \in from .. k, (k - l) % 2 = 1, All(l, k), First(l) PROVE FALSE
    <3>1. CASE l = j
      BY <1>1, <2>3, <3>1, <2>1
    <3>2. CASE j < l
      <4>1. l - 1 \in j .. k + 1 - 1 /\ l # from
        BY <3>2, <2>1, <2>3
      <4> QED BY <1>1, <2>3, <4>1
    <3>3. CASE l < j
      <4>1. j - 1 \in l .. k - 1 /\ j # from
        BY <3>3, <2>1, <2>3
      <4> QED BY <1>1, <2>3, <4>1
    <3> QED BY <3>1, <3>2, <3>3, <2>1
  <2>4. ~Escaped(s, from, k)
    BY <2>3 DEF Escaped
  <2> QED BY <2>2, <2>4
<1>2. ASSUME s[k] = "backslash", ~Escaped(s, from, k)
      PROVE  \E j \in from .. k + 1 : (k + 1 - j) % 2 = 1 /\ All(j, k + 1) /\ First(j)
  <2> DEFINE Run == {j \in from .. k : All(j, k + 1)}
  <2>1. PICK j \in Run : \A i \in Run : j <= i
    <3>1. k \in Run
      BY <1>2
    <3>2. Run \subseteq Nat
      OBVIOUS
    <3> HIDE DEF Run
    <3>3. Run \in SUBSET Nat /\ Run # {}
      BY <3>1, <3>2
    <3> QED BY <3>3, LeastExists
  <2>2. j \in from .. k /\ All(j, k + 1)
    BY <2>1
  <2>3. First(j)
    <3> SUFFICES ASSUME j # from, s[j - 1] = "backslash" PROVE FALSE
      OBVIOUS
    <3>1. j - 1 \in from .. k
      BY <2>2
    <3>2. All(j - 1, k + 1)
      BY <2>2
    <3>3. j - 1 \in Run
      BY <3>1, <3>2
    <3> HIDE DEF Run
    <3> QED BY <2>1, <2>2, <3>3
  <2>4. (k + 1 - j) % 2 = 1
    <3> SUFFICES ASSUME (k + 1 - j) % 2 # 1 PROVE FALSE
      OBVIOUS
    <3>1. (k - j) % 2 = 1
      BY <2>2
    <3>2. All(j, k)
      BY <2>2
    <3> QED BY <1>2, <2>2, <2>3, <3>1, <3>2 DEF Escaped
  <2> QED BY <2>2, <2>3, <2>4
<1> QED
  BY <1>1, <1>2 DEF Escaped

(***************************************************************************)
(* Whether the quotes so far are open: the next character matters when it  *)
(* is a quote that is not escaped.                                         *)
(***************************************************************************)
Open(s, from, k) == Cardinality(QuotesBefore(s, from, k)) % 2 = 1

\* No quote is open where an element begins.
LEMMA OpenFirst ==
  ASSUME NEW s, NEW from \in Nat
  PROVE  Open(s, from, from) <=> FALSE
<1>1. QuotesBefore(s, from, from) = {}
  BY DEF QuotesBefore
<1>2. Cardinality({}) = 0
  BY FS_EmptySet
<1> QED
  BY <1>1, <1>2 DEF Open

\* Only a quote that is not escaped opens or closes.
LEMMA OpenNext ==
  ASSUME NEW s, NEW from \in Nat, NEW k \in Nat, k >= from
  PROVE  /\ Cardinality(QuotesBefore(s, from, k)) \in Nat
         /\ Open(s, from, k + 1) <=>
              IF s[k] = "quote" /\ ~Escaped(s, from, k) THEN ~Open(s, from, k) ELSE Open(s, from, k)
<1> DEFINE Q == QuotesBefore(s, from, k)
           n == Cardinality(Q)
<1>1. IsFiniteSet(Q)
  <2>1. IsFiniteSet(from .. k - 1)
    BY FS_Interval
  <2>2. Q \subseteq from .. k - 1
    BY DEF QuotesBefore
  <2> QED BY <2>1, <2>2, FS_Subset
<1>2. n \in Nat
  BY <1>1, FS_CardinalityType
<1>3. CASE s[k] = "quote" /\ ~Escaped(s, from, k)
  <2>1. QuotesBefore(s, from, k + 1) = Q \cup {k} /\ k \notin Q
    BY <1>3 DEF QuotesBefore
  <2>2. Cardinality(Q \cup {k}) = n + 1
    BY <1>1, <2>1, FS_AddElement
  <2>3. (n + 1) % 2 = 1 <=> n % 2 # 1
    BY <1>2
  <2> QED BY <1>2, <1>3, <2>1, <2>2, <2>3 DEF Open
<1>4. CASE ~(s[k] = "quote" /\ ~Escaped(s, from, k))
  <2>1. QuotesBefore(s, from, k + 1) = Q
    BY <1>4 DEF QuotesBefore
  <2> QED BY <1>2, <1>4, <2>1 DEF Open
<1> QED
  BY <1>3, <1>4

-----------------------------------------------------------------------------
(***************************************************************************)
(* The recursive functions of SyslogParse, unfolded: the inner loop of     *)
(* splitStructuredData,                                                    *)
(***************************************************************************)
ScanStep(s, i, f, q) ==
  IF i >= Len(s) THEN i
  ELSE IF s[i + 1] = "backslash" THEN f[i + 2][q]
  ELSE IF s[i + 1] = "quote" THEN f[i + 1][1 - q]
  ELSE IF s[i + 1] = "]" /\ q = 0 THEN i + 1
  ELSE f[i + 1][q]

\* Scanning is what its equation says: each value is made from larger indexes.
LEMMA ScanningUnfolds ==
  ASSUME NEW s \in Seq(Token)
  PROVE  \A i \in 0 .. Len(s) + 1, q \in {0, 1} :
           /\ Scanning(s)[i][q] = ScanStep(s, i, Scanning(s), q)
           /\ Scanning(s)[i][q] \in i .. Len(s) + 1
<1> DEFINE N == Len(s)
           n == N + 1
           V == [{0, 1} -> 0 .. n]
           Cut(i, f) == [q \in {0, 1} |-> ScanStep(s, i, f, q)]
           step == [i \in 0 .. n |-> [f \in [0 .. n -> V] |-> Cut(i, f)]]
           E == Scanning(s)
<1>1. N \in Nat /\ n \in Nat
  OBVIOUS
<1>2. V # {}
  <2>1. [q \in {0, 1} |-> 0] \in V
    OBVIOUS
  <2> QED BY <2>1
<1>3. ASSUME NEW i \in 0 .. n, NEW f, \A j \in i + 1 .. n : f[j] \in [{0, 1} -> j .. n]
      PROVE  \A q \in {0, 1} : ScanStep(s, i, f, q) \in i .. n
  <2> SUFFICES ASSUME NEW q \in {0, 1} PROVE ScanStep(s, i, f, q) \in i .. n
    OBVIOUS
  <2>1. CASE i >= N
    BY <2>1 DEF ScanStep
  <2>2. CASE i < N
    <3>1. i + 1 \in i + 1 .. n /\ i + 2 \in i + 1 .. n
      BY <2>2
    <3>2. f[i + 1] \in [{0, 1} -> i + 1 .. n] /\ f[i + 2] \in [{0, 1} -> i + 2 .. n]
      BY <1>3, <3>1
    <3>3. \A x \in {0, 1} : f[i + 1][x] \in i .. n /\ f[i + 2][x] \in i .. n
      BY <3>2
    <3>4. q \in {0, 1} /\ 1 - q \in {0, 1}
      OBVIOUS
    <3>5. f[i + 1][q] \in i .. n /\ f[i + 1][1 - q] \in i .. n /\ f[i + 2][q] \in i .. n /\ i + 1 \in i .. n
      BY <2>2, <3>3, <3>4
    <3> QED BY <2>2, <3>5 DEF ScanStep
  <2> QED BY <2>1, <2>2
<1>4. \E f : f = [i \in 0 .. n |-> Cut(i, f)]
  <2>1. ASSUME NEW i \in 0 .. n, NEW f \in [0 .. n -> V] PROVE Cut(i, f) \in V
    <3>1. ASSUME NEW q \in {0, 1} PROVE ScanStep(s, i, f, q) \in 0 .. n
      <4>1. CASE i >= N
        BY <4>1 DEF ScanStep
      <4>2. CASE i < N
        <5>1. i + 1 \in 0 .. n /\ i + 2 \in 0 .. n
          BY <4>2
        <5>2. f[i + 1] \in V /\ f[i + 2] \in V
          <6> HIDE DEF V, n
          <6> QED BY <5>1
        <5>3. \A x \in {0, 1} : f[i + 1][x] \in 0 .. n /\ f[i + 2][x] \in 0 .. n
          BY <5>2
        <5>4. q \in {0, 1} /\ 1 - q \in {0, 1}
          OBVIOUS
        <5>5. f[i + 1][q] \in 0 .. n /\ f[i + 1][1 - q] \in 0 .. n /\ f[i + 2][q] \in 0 .. n
          BY <5>3, <5>4
        <5> QED BY <4>2, <5>1, <5>5 DEF ScanStep
      <4> QED BY <4>1, <4>2
    <3> QED BY <3>1
  <2>2. ASSUME NEW i \in 0 .. n, NEW f \in [0 .. n -> V], NEW g \in [0 .. n -> V], \A j \in i + 1 .. n : f[j] = g[j]
        PROVE  Cut(i, f) = Cut(i, g)
    <3>1. ASSUME NEW q \in {0, 1} PROVE ScanStep(s, i, f, q) = ScanStep(s, i, g, q)
      <4>1. CASE i >= N
        BY <4>1 DEF ScanStep
      <4>2. CASE i < N
        <5>1. f[i + 1] = g[i + 1] /\ f[i + 2] = g[i + 2]
          BY <2>2, <4>2
        <5> QED BY <5>1 DEF ScanStep
      <4> QED BY <4>1, <4>2
    <3> QED BY <3>1
  <2> HIDE DEF Cut, V, n
  <2>3. step \in [0 .. n -> [[0 .. n -> V] -> V]]
    BY <2>1
  <2>4. \A i \in 0 .. n : \A f, g \in [0 .. n -> V] :
          (\A j \in i + 1 .. n : f[j] = g[j]) => step[i][f] = step[i][g]
    BY <2>2
  <2>5. Falling(n, V, step)
    <3> HIDE DEF step
    <3> QED BY <1>1, <1>2, <2>3, <2>4, FallingExists
  <2>6. PICK f \in [0 .. n -> V] : \A i \in 0 .. n : f[i] = step[i][f]
    BY <2>5 DEF Falling
  <2>7. \A i \in 0 .. n : f[i] = Cut(i, f)
    BY <2>6
  <2> QED BY <2>7
<1>5. E = [i \in 0 .. n |-> Cut(i, E)]
  BY <1>4 DEF Scanning, ScanStep
<1>6. \A i \in 0 .. n : E[i] = Cut(i, E)
  <2> HIDE DEF E, Cut, n
  <2> QED BY <1>5
<1> HIDE DEF E
<1>7. 0 .. n \subseteq {i \in 0 .. n : E[i] \in [{0, 1} -> i .. n]}
  <2> DEFINE S == {i \in 0 .. n : E[i] \in [{0, 1} -> i .. n]}
  <2>1. ASSUME NEW i \in 0 .. n, i + 1 .. n \subseteq S PROVE i \in S
    <3>1. \A q \in {0, 1} : ScanStep(s, i, E, q) \in i .. n
      BY <1>3, <2>1
    <3>2. Cut(i, E) \in [{0, 1} -> i .. n]
      BY <3>1
    <3> QED BY <1>6, <3>2
  <2> HIDE DEF S
  <2>2. 0 .. n \subseteq S
    BY <1>1, <2>1, CountsDown
  <2> QED BY <2>2 DEF S
<1>8. ASSUME NEW i \in 0 .. n, NEW q \in {0, 1} PROVE E[i][q] = ScanStep(s, i, E, q) /\ E[i][q] \in i .. n
  <2>1. E[i] = Cut(i, E) /\ E[i] \in [{0, 1} -> i .. n]
    BY <1>6, <1>7
  <2> HIDE DEF n
  <2> QED BY <2>1
<1> QED
  BY <1>8 DEF E

\* Where an element may end.
LEMMA ClosingAt ==
  ASSUME NEW s \in Seq(Token), NEW from \in Nat, NEW k \in from .. Len(s)
  PROVE  k \in Closing(s, from) <=> s[k] = "]" /\ ~Escaped(s, from, k) /\ ~Open(s, from, k)
<1>1. Cardinality(QuotesBefore(s, from, k)) \in Nat
  <2>1. k \in Nat /\ k >= from
    OBVIOUS
  <2> QED BY <2>1, OpenNext
<1>2. Cardinality(QuotesBefore(s, from, k)) % 2 = 0 <=> ~Open(s, from, k)
  BY <1>1 DEF Open
<1> QED
  BY <1>2 DEF Closing

\* No character from the beginning of an element to the i-th ends it.
Unclosed(s, from, i, q) ==
  /\ ~Escaped(s, from, i + 1)
  /\ Open(s, from, i + 1) <=> q = 1
  /\ \A k \in from .. i : k \notin Closing(s, from)

(***************************************************************************)
(* The inner loop ends an element where the reference does, unless a       *)
(* backslash carries it past the text.                                     *)
(***************************************************************************)
LEMMA ElementEnds ==
  ASSUME NEW s \in Seq(Token), NEW from \in 1 .. Len(s), Element(s, from) <= Len(s)
  PROVE  Element(s, from) = ElementEnd(s, from + 1)
<1> DEFINE N == Len(s)
           n == N + 1
           f == from + 1
           E == Scanning(s)
           end == ElementEnd(s, f)
           Right(i) == \A q \in {0, 1} : Unclosed(s, f, i, q) /\ E[i][q] <= N => E[i][q] = end
           S == {i \in 0 .. n : i >= from => Right(i)}
<1>1. N \in Nat /\ n \in Nat /\ f \in Nat /\ from \in Nat
  OBVIOUS
<1>2. \A i \in 0 .. n, q \in {0, 1} : E[i][q] = ScanStep(s, i, E, q) /\ E[i][q] \in i .. n
  BY ScanningUnfolds
<1>3. Closing(s, f) \in SUBSET Nat /\ \A k \in Closing(s, f) : k \in f .. N
  BY DEF Closing
<1> HIDE DEF E
<1>4. ASSUME NEW i \in 0 .. n, i + 1 .. n \subseteq S, i >= from, NEW q \in {0, 1},
             Unclosed(s, f, i, q), E[i][q] <= N
      PROVE  E[i][q] = end
  <2> DEFINE k == i + 1
  <2>1. i \in 0 .. N
    BY <1>2, <1>4
  <2>2. CASE i = N
    <3>1. Closing(s, f) = {}
      BY <1>3, <1>4, <2>2 DEF Unclosed
    <3>2. E[i][q] = N
      BY <1>2, <2>2 DEF ScanStep
    <3> QED BY <3>1, <3>2 DEF ElementEnd
  <2> SUFFICES ASSUME i < N PROVE E[i][q] = end
    BY <2>1, <2>2
  <2>3. k \in f .. N /\ k \in Nat /\ k >= f /\ k + 1 \in Nat /\ k + 1 >= f
    BY <1>4
  <2>4. ~Escaped(s, f, k) /\ (Open(s, f, k) <=> q = 1)
    BY <1>4 DEF Unclosed
  <2>5. Escaped(s, f, k + 1) <=> s[k] = "backslash"
    BY <1>1, <2>3, <2>4, EscapedNext
  <2>6. Open(s, f, k + 1) <=> IF s[k] = "quote" THEN ~Open(s, f, k) ELSE Open(s, f, k)
    BY <1>1, <2>3, <2>4, OpenNext
  <2>7. k \in Closing(s, f) <=> s[k] = "]" /\ q = 0
    BY <1>1, <2>3, <2>4, ClosingAt
  <2>8. E[i][q] = ScanStep(s, i, E, q)
    BY <1>2
  <2>9. ASSUME NEW j \in i + 1 .. n, NEW x \in {0, 1}, Unclosed(s, f, j, x), E[i][q] = E[j][x]
        PROVE  E[i][q] = end
    <3>1. j \in S /\ j >= from
      BY <1>4, <2>9
    <3> QED BY <1>4, <2>9, <3>1
  <2>10. CASE s[k] = "backslash"
    <3>1. E[i][q] = E[i + 2][q]
      BY <2>8, <2>10 DEF ScanStep
    <3>2. CASE i + 2 = n
      <4>1. E[n][q] \in n .. n
        <5>1. n \in 0 .. n
          BY <1>1
        <5> HIDE DEF n
        <5> QED BY <1>2, <5>1
      <4> QED BY <1>1, <1>4, <3>1, <3>2, <4>1
    <3>3. CASE i + 2 < n
      <4>1. k + 1 \in f .. N
        BY <3>3, <1>4
      <4>2. Escaped(s, f, k + 1)
        BY <2>5, <2>10
      <4>3. ~Escaped(s, f, (k + 1) + 1) /\ (Open(s, f, (k + 1) + 1) <=> Open(s, f, k + 1))
        <5>1. ~Escaped(s, f, (k + 1) + 1)
          <6> HIDE DEF k, f
          <6> QED BY <1>1, <2>3, <4>2, EscapedNext
        <5>2. Open(s, f, (k + 1) + 1) <=> Open(s, f, k + 1)
          <6> HIDE DEF k, f
          <6> QED BY <1>1, <2>3, <4>2, OpenNext
        <5> QED BY <5>1, <5>2
      <4>4. k + 1 \notin Closing(s, f)
        BY <1>1, <4>1, <4>2, ClosingAt
      <4>5. Unclosed(s, f, i + 2, q)
        <5>1. (k + 1) + 1 = (i + 2) + 1
          OBVIOUS
        <5>2. \A l \in f .. i + 2 : l \in f .. i \/ l = k \/ l = k + 1
          BY <2>3
        <5>3. \A l \in f .. i + 2 : l \notin Closing(s, f)
          BY <1>4, <2>7, <2>10, <4>4, <5>2 DEF Unclosed
        <5> QED BY <2>4, <2>6, <2>10, <4>3, <5>1, <5>3 DEF Unclosed
      <4>6. i + 2 \in i + 1 .. n
        BY <3>3
      <4> QED BY <2>9, <3>1, <4>5, <4>6
    <3> QED BY <3>2, <3>3
  <2>11. CASE s[k] = "quote"
    <3>1. E[i][q] = E[i + 1][1 - q]
      BY <2>8, <2>11 DEF ScanStep
    <3>2. Unclosed(s, f, i + 1, 1 - q)
      <4>1. \A l \in f .. i + 1 : l \in f .. i \/ l = k
        BY <2>3
      <4>2. \A l \in f .. i + 1 : l \notin Closing(s, f)
        BY <1>4, <2>7, <2>11, <4>1 DEF Unclosed
      <4>3. q = 1 <=> 1 - q # 1
        OBVIOUS
      <4> QED BY <2>4, <2>5, <2>6, <2>11, <4>2, <4>3 DEF Unclosed
    <3>3. i + 1 \in i + 1 .. n /\ 1 - q \in {0, 1}
      OBVIOUS
    <3> QED BY <2>9, <3>1, <3>2, <3>3
  <2>12. CASE s[k] = "]" /\ q = 0
    <3>1. E[i][q] = k
      BY <2>8, <2>12 DEF ScanStep
    <3>2. k \in Closing(s, f) /\ \A l \in Closing(s, f) : k <= l
      BY <1>3, <1>4, <2>7, <2>12 DEF Unclosed
    <3>3. Least(Closing(s, f)) \in Closing(s, f) /\ Least(Closing(s, f)) <= k
      BY <1>3, <3>2, LeastExists
    <3>4. Least(Closing(s, f)) = k
      BY <1>3, <3>2, <3>3
    <3> QED BY <3>1, <3>2, <3>4 DEF ElementEnd
  <2>13. CASE s[k] # "backslash" /\ s[k] # "quote" /\ ~(s[k] = "]" /\ q = 0)
    <3>1. E[i][q] = E[i + 1][q]
      BY <2>8, <2>13 DEF ScanStep
    <3>2. Unclosed(s, f, i + 1, q)
      <4>1. \A l \in f .. i + 1 : l \in f .. i \/ l = k
        BY <2>3
      <4>2. \A l \in f .. i + 1 : l \notin Closing(s, f)
        BY <1>4, <2>7, <2>13, <4>1 DEF Unclosed
      <4> QED BY <2>4, <2>5, <2>6, <2>13, <4>2 DEF Unclosed
    <3>3. i + 1 \in i + 1 .. n
      OBVIOUS
    <3> QED BY <2>9, <3>1, <3>2, <3>3
  <2> QED BY <2>10, <2>11, <2>12, <2>13
<1>5. 0 .. n \subseteq S
  <2>1. \A i \in 0 .. n : i + 1 .. n \subseteq S => i \in S
    BY <1>4
  <2> HIDE DEF S
  <2> QED BY <1>1, <2>1, CountsDown
<1>6. Right(from)
  BY <1>5
<1>7. Unclosed(s, f, from, 0)
  <2>1. ~Escaped(s, f, f) /\ ~Open(s, f, f)
    BY <1>1, EscapedFirst, OpenFirst
  <2> QED BY <2>1 DEF Unclosed
<1>8. Element(s, from) = E[from][0]
  BY DEF Element, E
<1> QED
  BY <1>6, <1>7, <1>8

\* An element ends behind its first bracket, or with the text.
LEMMA ElementRange ==
  ASSUME NEW s \in Seq(Token), NEW from \in 1 .. Len(s)
  PROVE  Element(s, from) \in from .. Len(s) + 1 /\ ElementEnd(s, from + 1) \in from .. Len(s)
<1>1. Element(s, from) \in from .. Len(s) + 1
  <2>1. from \in 0 .. Len(s) + 1 /\ 0 \in {0, 1}
    OBVIOUS
  <2> QED BY <2>1, ScanningUnfolds DEF Element
<1>2. ElementEnd(s, from + 1) \in from .. Len(s)
  <2>1. CASE Closing(s, from + 1) = {}
    BY <2>1 DEF ElementEnd
  <2>2. CASE Closing(s, from + 1) # {}
    <3>1. Closing(s, from + 1) \in SUBSET Nat /\ \A k \in Closing(s, from + 1) : k \in from + 1 .. Len(s)
      BY DEF Closing
    <3>2. Least(Closing(s, from + 1)) \in Closing(s, from + 1)
      BY <2>2, <3>1, LeastExists
    <3> QED BY <2>2, <3>1, <3>2 DEF ElementEnd
  <2> QED BY <2>1, <2>2
<1> QED
  BY <1>1, <1>2

(***************************************************************************)
(* the outer loop,                                                         *)
(***************************************************************************)
LEMMA ElementsUnfold ==
  ASSUME NEW s \in Seq(Token)
  PROVE  \A i \in 0 .. Len(s) + 1 :
           /\ Elements(s)[i] = IF i < Len(s) /\ s[i + 1] = "[" THEN Elements(s)[Element(s, i + 1)] ELSE i
           /\ Elements(s)[i] \in i .. Len(s) + 1
<1> DEFINE N == Len(s)
           n == N + 1
           V == 0 .. n
           Cut(i, f) == IF i < N /\ s[i + 1] = "[" THEN f[Element(s, i + 1)] ELSE i
           step == [i \in 0 .. n |-> [f \in [0 .. n -> V] |-> Cut(i, f)]]
           C == Elements(s)
<1>1. N \in Nat /\ n \in Nat /\ V # {}
  OBVIOUS
<1>2. \A i \in 0 .. n : i < N => Element(s, i + 1) \in i + 1 .. n
  <2> SUFFICES ASSUME NEW i \in 0 .. n, i < N PROVE Element(s, i + 1) \in i + 1 .. n
    OBVIOUS
  <2>1. i + 1 \in 1 .. Len(s)
    OBVIOUS
  <2> QED BY <2>1, ElementRange
<1>3. \E f : f = [i \in 0 .. n |-> Cut(i, f)]
  <2>1. ASSUME NEW i \in 0 .. n, NEW f \in [0 .. n -> V] PROVE Cut(i, f) \in V
    <3>1. i < N => Element(s, i + 1) \in 0 .. n
      BY <1>2
    <3> QED BY <3>1
  <2>2. ASSUME NEW i \in 0 .. n, NEW f \in [0 .. n -> V], NEW g \in [0 .. n -> V], \A j \in i + 1 .. n : f[j] = g[j]
        PROVE  Cut(i, f) = Cut(i, g)
    BY <1>2, <2>2
  <2> HIDE DEF Cut, V, n
  <2>3. step \in [0 .. n -> [[0 .. n -> V] -> V]]
    BY <2>1
  <2>4. \A i \in 0 .. n : \A f, g \in [0 .. n -> V] :
          (\A j \in i + 1 .. n : f[j] = g[j]) => step[i][f] = step[i][g]
    BY <2>2
  <2>5. Falling(n, V, step)
    <3> HIDE DEF step
    <3> QED BY <1>1, <2>3, <2>4, FallingExists
  <2>6. PICK f \in [0 .. n -> V] : \A i \in 0 .. n : f[i] = step[i][f]
    BY <2>5 DEF Falling
  <2>7. \A i \in 0 .. n : f[i] = Cut(i, f)
    BY <2>6
  <2> QED BY <2>7
<1>4. C = [i \in 0 .. n |-> Cut(i, C)]
  BY <1>3 DEF Elements
<1>5. \A i \in 0 .. n : C[i] = Cut(i, C)
  <2> HIDE DEF C, Cut, n
  <2> QED BY <1>4
<1> HIDE DEF C
<1> DEFINE S == {i \in 0 .. n : C[i] \in i .. n}
<1>6. 0 .. n \subseteq S
  <2>1. ASSUME NEW i \in 0 .. n, i + 1 .. n \subseteq S PROVE i \in S
    <3>1. CASE i < N /\ s[i + 1] = "["
      <4>1. C[Element(s, i + 1)] \in Element(s, i + 1) .. n /\ Element(s, i + 1) \in i + 1 .. n
        BY <1>2, <2>1, <3>1
      <4> QED BY <1>5, <3>1, <4>1
    <3>2. CASE ~(i < N /\ s[i + 1] = "[")
      BY <1>5, <3>2
    <3> QED BY <3>1, <3>2
  <2> HIDE DEF S
  <2> QED BY <1>1, <2>1, CountsDown
<1> QED
  BY <1>5, <1>6 DEF C

(***************************************************************************)
(* and the reference.                                                      *)
(***************************************************************************)
LEMMA DataEndsUnfold ==
  ASSUME NEW s \in Seq(Token)
  PROVE  \A i \in 0 .. Len(s) :
           DataEnds(s)[i] = IF i < Len(s) /\ s[i + 1] = "[" THEN DataEnds(s)[ElementEnd(s, i + 2)] ELSE i
<1> DEFINE n == Len(s)
           V == 0 .. n
           Cut(i, f) == IF i < n /\ s[i + 1] = "[" THEN f[ElementEnd(s, i + 2)] ELSE i
           step == [i \in 0 .. n |-> [f \in [0 .. n -> V] |-> Cut(i, f)]]
           D == DataEnds(s)
<1>1. n \in Nat /\ V # {}
  <2>1. 0 \in V /\ n \in Nat
    OBVIOUS
  <2> HIDE DEF V
  <2> QED BY <2>1
<1>2. \A i \in 0 .. n : i < n => ElementEnd(s, i + 2) \in i + 1 .. n
  <2> SUFFICES ASSUME NEW i \in 0 .. n, i < n PROVE ElementEnd(s, i + 2) \in i + 1 .. n
    OBVIOUS
  <2>1. i + 1 \in 1 .. Len(s) /\ (i + 1) + 1 = i + 2
    OBVIOUS
  <2>2. ElementEnd(s, (i + 1) + 1) \in i + 1 .. Len(s)
    BY <2>1, ElementRange
  <2> QED BY <2>1, <2>2
<1>3. \E f : f = [i \in 0 .. n |-> Cut(i, f)]
  <2>1. ASSUME NEW i \in 0 .. n, NEW f \in [0 .. n -> V] PROVE Cut(i, f) \in V
    <3>1. i < n => ElementEnd(s, i + 2) \in 0 .. n
      BY <1>2
    <3> QED BY <3>1
  <2>2. ASSUME NEW i \in 0 .. n, NEW f \in [0 .. n -> V], NEW g \in [0 .. n -> V], \A j \in i + 1 .. n : f[j] = g[j]
        PROVE  Cut(i, f) = Cut(i, g)
    BY <1>2, <2>2
  <2> HIDE DEF Cut, V, n
  <2>3. step \in [0 .. n -> [[0 .. n -> V] -> V]]
    BY <2>1
  <2>4. \A i \in 0 .. n : \A f, g \in [0 .. n -> V] :
          (\A j \in i + 1 .. n : f[j] = g[j]) => step[i][f] = step[i][g]
    BY <2>2
  <2>5. Falling(n, V, step)
    <3> HIDE DEF step
    <3> QED BY <1>1, <2>3, <2>4, FallingExists
  <2>6. PICK f \in [0 .. n -> V] : \A i \in 0 .. n : f[i] = step[i][f]
    BY <2>5 DEF Falling
  <2>7. \A i \in 0 .. n : f[i] = Cut(i, f)
    BY <2>6
  <2> QED BY <2>7
<1>4. D = [i \in 0 .. n |-> Cut(i, D)]
  BY <1>3 DEF DataEnds
<1> HIDE DEF D
<1> QED
  BY <1>4 DEF D

(***************************************************************************)
(* The cursor that does not leave the text is where the data ends.         *)
(***************************************************************************)
LEMMA CursorAtDataEnd ==
  ASSUME NEW s \in Seq(Token), Cursor(s) <= Len(s)
  PROVE  DataEnd(s) = Cursor(s)
<1> DEFINE n == Len(s)
           C == Elements(s)
           D == DataEnds(s)
           S == {i \in 0 .. n : C[i] <= n => D[i] = C[i]}
<1>1. n \in Nat
  OBVIOUS
<1>2. ASSUME NEW i \in 0 .. n, i + 1 .. n \subseteq S PROVE i \in S
  <2> SUFFICES ASSUME C[i] <= n PROVE D[i] = C[i]
    OBVIOUS
  <2>1. i \in 0 .. Len(s) + 1
    OBVIOUS
  <2>2. CASE i < n /\ s[i + 1] = "["
    <3> DEFINE e == Element(s, i + 1)
    <3>1. i + 1 \in 1 .. Len(s) /\ (i + 1) + 1 = i + 2
      BY <2>2
    <3>2. e \in i + 1 .. Len(s) + 1
      BY <3>1, ElementRange
    <3>3. C[i] = C[e] /\ D[i] = D[ElementEnd(s, i + 2)]
      BY <2>1, <2>2, ElementsUnfold, DataEndsUnfold
    <3>4. e <= n
      <4>1. C[e] \in e .. Len(s) + 1
        BY <3>2, ElementsUnfold
      <4> QED BY <3>2, <3>3, <4>1
    <3>5. e = ElementEnd(s, i + 2)
      BY <3>1, <3>4, ElementEnds
    <3>6. e \in S
      BY <1>2, <3>2, <3>4
    <3> QED BY <3>3, <3>5, <3>6
  <2>3. CASE ~(i < n /\ s[i + 1] = "[")
    BY <2>1, <2>3, ElementsUnfold, DataEndsUnfold
  <2> QED BY <2>2, <2>3
<1>3. 0 .. n \subseteq S
  <2>1. \A i \in 0 .. n : i + 1 .. n \subseteq S => i \in S
    BY <1>2
  <2> HIDE DEF S
  <2> QED BY <1>1, <2>1, CountsDown
<1> QED
  BY <1>1, <1>3 DEF DataEnd, Cursor

-----------------------------------------------------------------------------
(***************************************************************************)
(* What Parse cuts off a line is always its beginning.                     *)
(***************************************************************************)
LEMMA FromIs ==
  ASSUME NEW s \in Seq(Token), NEW i \in 1 .. Len(s) + 1
  PROVE  /\ From(s, i) \in Seq(Token) /\ Len(From(s, i)) = Len(s) - i + 1
         /\ \A k \in 1 .. Len(s) - i + 1 : From(s, i)[k] = s[i + k - 1]
         /\ EndOf(s, From(s, i))
<1>1. From(s, i) \in Seq(Token) /\ Len(From(s, i)) = Len(s) - i + 1
  BY DEF From
<1>2. \A k \in 1 .. Len(s) - i + 1 : From(s, i)[k] = s[i + k - 1]
  BY DEF From
<1>3. EndOf(s, From(s, i))
  BY DEF EndOf
<1> QED
  BY <1>1, <1>2, <1>3

\* The whole and nothing are ends of a sequence.
LEMMA FromOne ==
  ASSUME NEW s \in Seq(Token)
  PROVE  From(s, 1) = s /\ EndOf(s, s) /\ EndOf(s, <<>>)
<1>1. From(s, 1) = s
  BY DEF From
<1>2. From(s, Len(s) + 1) = <<>>
  BY DEF From
<1>3. 1 \in 1 .. Len(s) + 1 /\ Len(s) + 1 \in 1 .. Len(s) + 1
  OBVIOUS
<1> QED
  BY <1>1, <1>2, <1>3 DEF EndOf

\* The end of an end is an end.
LEMMA EndOfEnd ==
  ASSUME NEW s \in Seq(Token), NEW t, NEW u, EndOf(s, t), EndOf(t, u)
  PROVE  t \in Seq(Token) /\ u \in Seq(Token) /\ EndOf(s, u)
<1>1. PICK i \in 1 .. Len(s) + 1 : t = From(s, i)
  BY DEF EndOf
<1>2. t \in Seq(Token) /\ Len(t) = Len(s) - i + 1
  BY <1>1, FromIs
<1>3. PICK j \in 1 .. Len(t) + 1 : u = From(t, j)
  BY DEF EndOf
<1>4. i + j - 1 \in 1 .. Len(s) + 1
  BY <1>2
<1>5. u = From(s, i + j - 1)
  <2> DEFINE v == From(s, i + j - 1)
  <2>1. u \in Seq(Token) /\ Len(u) = Len(t) - j + 1 /\ \A k \in 1 .. Len(u) : u[k] = t[j + k - 1]
    BY <1>2, <1>3, FromIs
  <2>2. v \in Seq(Token) /\ Len(v) = Len(s) - (i + j - 1) + 1 /\ \A k \in 1 .. Len(v) : v[k] = s[(i + j - 1) + k - 1]
    BY <1>4, FromIs
  <2>3. \A k \in 1 .. Len(t) : t[k] = s[i + k - 1]
    BY <1>1, <1>2, FromIs
  <2> HIDE DEF v
  <2>4. Len(u) = Len(v)
    BY <1>2, <2>1, <2>2
  <2>5. ASSUME NEW k \in 1 .. Len(u) PROVE u[k] = v[k]
    <3>1. j + k - 1 \in 1 .. Len(t) /\ i + (j + k - 1) - 1 = (i + j - 1) + k - 1
      BY <2>1, <1>2
    <3>2. u[k] = s[i + (j + k - 1) - 1]
      BY <2>1, <2>3, <3>1
    <3> QED BY <2>2, <2>4, <3>1, <3>2
  <2>6. u = v
    BY <2>1, <2>2, <2>4, <2>5
  <2> QED BY <2>6 DEF v
<1>6. u \in Seq(Token)
  BY <1>2, <1>3, FromIs
<1> QED
  BY <1>2, <1>4, <1>5, <1>6 DEF EndOf

\* strings.IndexByte.
LEMMA IndexOfIs ==
  ASSUME NEW s \in Seq(Token), NEW c
  PROVE  /\ IndexOf(s, c) \in 0 .. Len(s)
         /\ IndexOf(s, c) > 0 => s[IndexOf(s, c)] = c
<1> DEFINE is == {i \in DOMAIN s : s[i] = c}
<1>1. CASE is = {}
  BY <1>1 DEF IndexOf
<1>2. CASE is # {}
  <2>1. \A i \in is : i \in 1 .. Len(s) /\ s[i] = c
    OBVIOUS
  <2>2. IndexOf(s, c) = Least(is)
    BY <1>2 DEF IndexOf
  <2> HIDE DEF is
  <2>3. is \in SUBSET Nat
    BY <2>1
  <2>4. Least(is) \in is
    BY <1>2, <2>3, LeastExists
  <2> QED BY <2>1, <2>2, <2>4
<1> QED
  BY <1>1, <1>2

\* strings.TrimPrefix and strings.TrimLeft.
LEMMA TrimPrefixEnds ==
  ASSUME NEW s \in Seq(Token), NEW c
  PROVE  /\ EndOf(s, TrimPrefix(s, c))
         /\ \E g \in {<<>>, <<c>>} : s = g \o TrimPrefix(s, c)
<1>1. CASE s # <<>> /\ Head(s) = c
  <2>1. TrimPrefix(s, c) = From(s, 2) /\ 2 \in 1 .. Len(s) + 1
    BY <1>1 DEF TrimPrefix, From
  <2>2. s = <<c>> \o Tail(s)
    BY <1>1
  <2>3. TrimPrefix(s, c) = Tail(s)
    BY <1>1 DEF TrimPrefix
  <2> QED BY <2>1, <2>2, <2>3, FromIs
<1>2. CASE ~(s # <<>> /\ Head(s) = c)
  <2>1. TrimPrefix(s, c) = s
    BY <1>2 DEF TrimPrefix
  <2>2. s = <<>> \o s
    OBVIOUS
  <2> QED BY <2>1, <2>2, FromOne
<1> QED
  BY <1>1, <1>2

\* Cutting off all of a character leaves an end.
LEMMA TrimLeftEnds ==
  ASSUME NEW s \in Seq(Token), NEW c
  PROVE  EndOf(s, TrimLeft(s, c))
<1> DEFINE is == {i \in DOMAIN s : s[i] # c}
<1>1. CASE is = {}
  <2>1. TrimLeft(s, c) = <<>>
    BY <1>1 DEF TrimLeft
  <2> QED BY <2>1, FromOne
<1>2. CASE is # {}
  <2>1. \A i \in is : i \in 1 .. Len(s) + 1 /\ i \in Nat
    OBVIOUS
  <2>2. TrimLeft(s, c) = From(s, Least(is))
    BY <1>2 DEF TrimLeft
  <2> HIDE DEF is
  <2>3. is \in SUBSET Nat
    BY <2>1
  <2>4. Least(is) \in is
    BY <1>2, <2>3, LeastExists
  <2> QED BY <2>1, <2>2, <2>4, FromIs
<1> QED
  BY <1>1, <1>2

(***************************************************************************)
(* splitNSpaceFields: what is behind the fields is the end of the line.    *)
(***************************************************************************)
LEMMA SplitTail ==
  ASSUME NEW s \in Seq(Token), NEW n \in Nat
  PROVE  EndOf(s, SplitNSpaceFields(s, n).tail)
<1> DEFINE V == [ok : BOOLEAN, fields : Seq(Seq(Token)), tail : Seq(Token)]
           v == [ok |-> TRUE, fields |-> <<>>, tail |-> s]
           Cut(c) == [ok     |-> c.ok /\ IndexOf(c.tail, " ") > 0,
                    fields |-> Append(c.fields, SubSeq(c.tail, 1, IndexOf(c.tail, " ") - 1)),
                    tail   |-> From(c.tail, IndexOf(c.tail, " ") + 1)]
           After == CHOOSE f : f = [k \in 0 .. n |-> IF k = 0 THEN v ELSE Cut(f[k - 1])]
           step == [i \in 0 .. n |-> [f \in [0 .. n -> V] |-> IF i = n THEN v ELSE Cut(f[i + 1])]]
<1>1. v \in V /\ V # {}
  <2>1. <<>> \in Seq(Seq(Token)) /\ s \in Seq(Token) /\ TRUE \in BOOLEAN
    OBVIOUS
  <2>2. v \in V
    BY <2>1
  <2> HIDE DEF V, v
  <2> QED BY <2>2
<1>2. ASSUME NEW c \in V PROVE Cut(c) \in V
  <2> DEFINE sp == IndexOf(c.tail, " ")
  <2>1. c.tail \in Seq(Token) /\ c.fields \in Seq(Seq(Token))
    OBVIOUS
  <2>2. sp \in 0 .. Len(c.tail)
    BY <2>1, IndexOfIs
  <2> HIDE DEF sp
  <2>3. SubSeq(c.tail, 1, sp - 1) \in Seq(Token)
    BY <2>1, <2>2
  <2>4. From(c.tail, sp + 1) \in Seq(Token)
    <3>1. sp + 1 \in 1 .. Len(c.tail) + 1
      BY <2>1, <2>2
    <3> QED BY <2>1, <3>1, FromIs
  <2>5. Append(c.fields, SubSeq(c.tail, 1, sp - 1)) \in Seq(Seq(Token))
    BY <2>1, <2>3
  <2>6. (c.ok /\ sp > 0) \in BOOLEAN
    OBVIOUS
  <2> QED BY <2>4, <2>5, <2>6 DEF sp
<1>3. \E f : f = [k \in 0 .. n |-> IF k = 0 THEN v ELSE Cut(f[k - 1])]
  <2> HIDE DEF V, v, Cut
  <2>1. step \in [0 .. n -> [[0 .. n -> V] -> V]]
    BY <1>1, <1>2
  <2>2. \A i \in 0 .. n : \A f, g \in [0 .. n -> V] :
          (\A j \in i + 1 .. n : f[j] = g[j]) => step[i][f] = step[i][g]
    OBVIOUS
  <2>3. PICK h \in [0 .. n -> V] : \A i \in 0 .. n : h[i] = step[i][h]
    <3>1. Falling(n, V, step)
      <4> HIDE DEF step
      <4> QED BY <1>1, <2>1, <2>2, FallingExists
    <3> QED BY <3>1 DEF Falling
  <2>4. \A i \in 0 .. n : h[i] = IF i = n THEN v ELSE Cut(h[i + 1])
    BY <2>3
  <2> HIDE DEF step
  <2> DEFINE f == [k \in 0 .. n |-> h[n - k]]
  <2>5. ASSUME NEW k \in 0 .. n PROVE f[k] = IF k = 0 THEN v ELSE Cut(f[k - 1])
    <3>1. n - k \in 0 .. n /\ f[k] = h[n - k]
      OBVIOUS
    <3>2. CASE k = 0
      BY <2>4, <3>1, <3>2
    <3>3. CASE k # 0
      <4>1. k - 1 \in 0 .. n /\ n - (k - 1) = (n - k) + 1 /\ n - k # n
        BY <3>3
      <4>2. f[k - 1] = h[(n - k) + 1]
        BY <4>1
      <4> QED BY <2>4, <3>1, <3>3, <4>1, <4>2
    <3> QED BY <3>2, <3>3
  <2>6. f = [k \in 0 .. n |-> IF k = 0 THEN v ELSE Cut(f[k - 1])]
    BY <2>5
  <2> QED BY <2>6
<1>4. After = [k \in 0 .. n |-> IF k = 0 THEN v ELSE Cut(After[k - 1])]
  <2> HIDE DEF V, v, Cut
  <2> QED BY <1>3
<1>5. SplitNSpaceFields(s, n) = After[n]
  BY DEF SplitNSpaceFields
<1> HIDE DEF After, Cut
<1> DEFINE S == {i \in 0 .. n : EndOf(s, After[n - i].tail)}
<1>6. ASSUME NEW i \in 0 .. n, i + 1 .. n \subseteq S PROVE i \in S
  <2>1. CASE i = n
    <3>1. n - i = 0 /\ After[0] = v
      BY <1>4, <2>1
    <3>2. After[n - i].tail = s
      BY <3>1
    <3> QED BY <3>2, FromOne
  <2>2. CASE i < n
    <3>1. i + 1 \in S /\ n - (i + 1) = (n - i) - 1 /\ n - i \in 0 .. n /\ n - i # 0
      BY <1>6, <2>2
    <3> DEFINE c == After[n - (i + 1)]
    <3>2. EndOf(s, c.tail)
      BY <3>1
    <3>3. After[n - i] = Cut(c)
      BY <1>4, <3>1
    <3> DEFINE t == c.tail
               sp == IndexOf(t, " ")
    <3>4. After[n - i].tail = From(t, sp + 1)
      <4>1. Cut(c).tail = From(c.tail, IndexOf(c.tail, " ") + 1)
        BY DEF Cut
      <4> HIDE DEF c
      <4> QED BY <3>3, <4>1
    <3> HIDE DEF t, c
    <3>5. t \in Seq(Token)
      BY <3>2, FromOne, EndOfEnd DEF t
    <3>6. sp \in 0 .. Len(t)
      BY <3>5, IndexOfIs
    <3> HIDE DEF sp
    <3>7. sp + 1 \in 1 .. Len(t) + 1
      BY <3>5, <3>6
    <3>8. EndOf(t, From(t, sp + 1))
      BY <3>5, <3>7, FromIs
    <3>9. EndOf(s, From(t, sp + 1))
      BY <3>2, <3>8, EndOfEnd DEF t
    <3> QED BY <3>4, <3>9
  <2> QED BY <2>1, <2>2
<1>7. 0 \in S
  <2> HIDE DEF S
  <2>1. \A i \in 0 .. n : i + 1 .. n \subseteq S => i \in S
    BY <1>6
  <2>2. 0 .. n \subseteq S
    BY <2>1, CountsDown
  <2> QED BY <2>2
<1>8. n - 0 = n
  OBVIOUS
<1> QED
  BY <1>5, <1>7, <1>8

\* Concatenation.
LEMMA Concatenated ==
  ASSUME NEW Alphabet, NEW x \in Seq(Alphabet), NEW y \in Seq(Alphabet)
  PROVE  /\ x \o y \in Seq(Alphabet) /\ Len(x \o y) = Len(x) + Len(y)
         /\ \A k \in 1 .. Len(x) : (x \o y)[k] = x[k]
         /\ \A k \in Len(x) + 1 .. Len(x) + Len(y) : (x \o y)[k] = y[k - Len(x)]
  OBVIOUS

\* Sequences of one length with the same elements are one.
LEMMA SameSequence ==
  ASSUME NEW Alphabet, NEW x \in Seq(Alphabet), NEW y \in Seq(Alphabet), Len(x) = Len(y), \A k \in 1 .. Len(x) : x[k] = y[k]
  PROVE  x = y
  OBVIOUS

\* A sequence is its beginning and its end.
LEMMA CutApart ==
  ASSUME NEW s \in Seq(Token), NEW i \in 0 .. Len(s)
  PROVE  /\ SubSeq(s, 1, i) \in Seq(Token) /\ Len(SubSeq(s, 1, i)) = i
         /\ s = SubSeq(s, 1, i) \o From(s, i + 1)
<1> DEFINE a == SubSeq(s, 1, i)
           b == From(s, i + 1)
<1>1. a \in Seq(Token) /\ Len(a) = i /\ \A k \in 1 .. i : a[k] = s[k]
  OBVIOUS
<1>2. i + 1 \in 1 .. Len(s) + 1
  OBVIOUS
<1>3. b \in Seq(Token) /\ Len(b) = Len(s) - i /\ \A k \in 1 .. Len(s) - i : b[k] = s[(i + 1) + k - 1]
  <2>1. Len(s) - (i + 1) + 1 = Len(s) - i
    OBVIOUS
  <2> QED BY <1>2, <2>1, FromIs
<1> HIDE DEF a, b
<1>4. a \o b \in Seq(Token) /\ Len(a \o b) = Len(s)
  <2>1. Len(a \o b) = Len(a) + Len(b) /\ a \o b \in Seq(Token)
    BY <1>1, <1>3, Concatenated
  <2>2. Len(s) \in Nat
    OBVIOUS
  <2> QED BY <1>1, <1>3, <2>1, <2>2
<1>5. ASSUME NEW k \in 1 .. Len(s) PROVE (a \o b)[k] = s[k]
  <2>1. CASE k <= i
    <3>1. k \in 1 .. Len(a)
      BY <1>1, <2>1
    <3>2. (a \o b)[k] = a[k]
      BY <1>1, <1>3, <3>1, Concatenated
    <3> QED BY <1>1, <3>1, <3>2
  <2>2. CASE k > i
    <3>1. k - i \in 1 .. Len(s) - i /\ (i + 1) + (k - i) - 1 = k
      BY <2>2
    <3>2. (a \o b)[k] = b[k - i]
      <4>1. k \in Len(a) + 1 .. Len(a) + Len(b)
        BY <1>1, <1>3, <2>2
      <4> QED BY <1>1, <1>3, <4>1, Concatenated
    <3> QED BY <1>3, <3>1, <3>2
  <2>3. k <= i \/ k > i
    OBVIOUS
  <2> QED BY <2>1, <2>2, <2>3, Zenon
<1>6. s = a \o b
  BY <1>4, <1>5, SameSequence
<1> QED
  BY <1>1, <1>6 DEF a, b

\* Sequences over a smaller alphabet, and those of no and one element.
LEMMA Fits ==
  ASSUME NEW Alphabet, NEW x \in Seq(Token), Token \subseteq Alphabet
  PROVE  x \in Seq(Alphabet)
<1>1. \A k \in 1 .. Len(x) : x[k] \in Token
  OBVIOUS
<1>2. \A k \in 1 .. Len(x) : x[k] \in Alphabet
  BY <1>1
<1> QED BY <1>2

LEMMA Short ==
  ASSUME NEW Alphabet, NEW c \in Alphabet
  PROVE  <<>> \in Seq(Alphabet) /\ <<c>> \in Seq(Alphabet)
  OBVIOUS

\* Two short ones after each other.
LEMMA Pairs ==
  ASSUME NEW a, NEW b
  PROVE  /\ <<>> \o <<b>> = <<b>> /\ <<a>> \o <<>> = <<a>>
         /\ <<a>> \o <<b>> = <<a, b>>
<1>1. PICK Alphabet : a \in Alphabet /\ b \in Alphabet
  <2>1. a \in {a, b} /\ b \in {a, b}
    OBVIOUS
  <2> QED BY <2>1, Zenon
<1> DEFINE y == <<a>> \o <<b>>
           z == <<a, b>>
<1>2. y \in Seq(Alphabet) /\ z \in Seq(Alphabet)
  <2>1. <<a>> \in Seq(Alphabet) /\ <<b>> \in Seq(Alphabet)
    BY <1>1
  <2> QED BY <1>1, <2>1
<1>3. Len(y) = 2 /\ y[1] = a /\ y[2] = b
  OBVIOUS
<1>4. Len(z) = 2 /\ z[1] = a /\ z[2] = b
  OBVIOUS
<1>5. y = z
  <2> HIDE DEF y, z
  <2>1. Len(y) = Len(z) /\ \A k \in 1 .. Len(y) : y[k] = z[k]
    BY <1>3, <1>4
  <2> QED BY <1>2, <2>1
<1>6. <<>> \o <<b>> = <<b>>
  OBVIOUS
<1>7. <<a>> \o <<>> = <<a>>
  OBVIOUS
<1> QED BY <1>5, <1>6, <1>7

(***************************************************************************)
(* What is between the data and the text: at most a blank, then a BOM.     *)
(***************************************************************************)
Behind(s, t, c)         == \E g \in {<<>>, <<c>>} : s = g \o t
Separated(s, data, msg) == \E g \in {<<>>, <<" ">>} : s = data \o g \o msg
Gapped(s, data, text)   == \E gap \in {<<>>, <<" ">>, <<"BOM">>, <<" ", "BOM">>} : s = data \o gap \o text

\* A blank behind the data is between the data and the message.
LEMMA BehindData ==
  ASSUME NEW s, NEW data \in Seq(Token), NEW rest, NEW msg \in Seq(Token)
  PROVE  s = data \o rest /\ Behind(rest, msg, " ") => Separated(s, data, msg)
<1>1. PICK Alphabet : Token \subseteq Alphabet /\ " " \in Alphabet /\ "BOM" \in Alphabet
  <2>1. Token \subseteq Token \cup {" ", "BOM"}
    OBVIOUS
  <2>2. " " \in Token \cup {" ", "BOM"} /\ "BOM" \in Token \cup {" ", "BOM"}
    OBVIOUS
  <2> QED BY <2>1, <2>2, Zenon
<1>2. \A z \in Seq(Token) : z \in Seq(Alphabet)
  BY <1>1, Fits
<1>3. <<>> \in Seq(Alphabet) /\ <<" ">> \in Seq(Alphabet)
  BY <1>1, Short
<1>4. \A b \in {<<>>, <<" ">>} : b \in Seq(Alphabet)
  BY <1>3
<1>5. SUFFICES ASSUME s = data \o rest, NEW g, g \in {<<>>, <<" ">>}, rest = g \o msg
               PROVE  s = data \o g \o msg
  BY DEF Behind, Separated
<1>6. data \in Seq(Alphabet) /\ msg \in Seq(Alphabet) /\ g \in Seq(Alphabet)
  BY <1>2, <1>4, <1>5
<1>7. data \o (g \o msg) = (data \o g) \o msg
  BY <1>6
<1>8. s = data \o (g \o msg)
  BY <1>5, Zenon
<1> QED BY <1>7, <1>8, Zenon

\* With the BOM before the text it makes the gap.
LEMMA Gap ==
  ASSUME NEW s, NEW data \in Seq(Token), NEW msg, NEW text \in Seq(Token)
  PROVE  Separated(s, data, msg) /\ Behind(msg, text, "BOM") => Gapped(s, data, text)
<1>1. PICK Alphabet : Token \subseteq Alphabet /\ " " \in Alphabet /\ "BOM" \in Alphabet
  <2>1. Token \subseteq Token \cup {" ", "BOM"}
    OBVIOUS
  <2>2. " " \in Token \cup {" ", "BOM"} /\ "BOM" \in Token \cup {" ", "BOM"}
    OBVIOUS
  <2> QED BY <2>1, <2>2, Zenon
<1>2. \A z \in Seq(Token) : z \in Seq(Alphabet)
  BY <1>1, Fits
<1>3. <<>> \in Seq(Alphabet) /\ <<" ">> \in Seq(Alphabet) /\ <<"BOM">> \in Seq(Alphabet)
  BY <1>1, Short
<1>4. \A b \in {<<>>, <<" ">>}, c \in {<<>>, <<"BOM">>} : b \in Seq(Alphabet) /\ c \in Seq(Alphabet)
  BY <1>3
<1>5. SUFFICES ASSUME NEW g, g \in {<<>>, <<" ">>}, s = data \o g \o msg,
                      NEW h, h \in {<<>>, <<"BOM">>}, msg = h \o text
               PROVE  g \o h \in {<<>>, <<" ">>, <<"BOM">>, <<" ", "BOM">>} /\ s = data \o (g \o h) \o text
  BY DEF Behind, Separated, Gapped
<1>6. data \in Seq(Alphabet) /\ text \in Seq(Alphabet) /\ g \in Seq(Alphabet) /\ h \in Seq(Alphabet)
  BY <1>2, <1>4, <1>5
<1>7. data \o g \in Seq(Alphabet)
  BY <1>6
<1>8. (data \o g) \o (h \o text) = ((data \o g) \o h) \o text
  BY <1>6, <1>7
<1>9. data \o (g \o h) = (data \o g) \o h
  BY <1>6
<1>10. s = (data \o g) \o (h \o text)
  BY <1>5, Zenon
<1>11. g \o h \in {<<>>, <<" ">>, <<"BOM">>, <<" ", "BOM">>}
  <2>1. <<>> \o <<>> = <<>>
    OBVIOUS
  <2>2. /\ <<" ">> \o <<>> = <<" ">> /\ <<>> \o <<"BOM">> = <<"BOM">>
        /\ <<" ">> \o <<"BOM">> = <<" ", "BOM">>
    BY Pairs
  <2>3. (g = <<>> \/ g = <<" ">>) /\ (h = <<>> \/ h = <<"BOM">>)
    BY <1>5, Zenon
  <2> QED BY <2>1, <2>2, <2>3, Zenon
<1> QED BY <1>8, <1>9, <1>10, <1>11, Zenon

(***************************************************************************)
(* splitStructuredData cuts its text in two, but for one space, at the end *)
(* of the data.                                                            *)
(***************************************************************************)
LEMMA DataSplit ==
  ASSUME NEW s \in Seq(Token), ~SplitStructuredData(s).panics
  PROVE  LET d == SplitStructuredData(s)
         IN /\ EndOf(s, d.msg)
            /\ d.sd # <<>> => /\ Separated(s, d.sd, d.msg)
                              /\ d.sd \in Seq(Token) /\ DataEnd(s) = Len(d.sd)
<1> DEFINE d == SplitStructuredData(s)
           i == Cursor(s)
<1>1. CASE StartsWith(s, <<"-", " ">>)
  <2>1. d.sd = <<>> /\ d.msg = From(s, 3)
    BY <1>1 DEF SplitStructuredData
  <2>2. 3 \in 1 .. Len(s) + 1
    <3>1. Len(<<"-", " ">>) = 2
      OBVIOUS
    <3>2. Len(<<"-", " ">>) <= Len(s)
      BY <1>1, Zenon DEF StartsWith
    <3>3. Len(s) \in Nat /\ 2 <= Len(s)
      BY <3>1, <3>2
    <3> QED BY <3>3
  <2> QED BY <2>1, <2>2, FromIs
<1>2. CASE s = <<"-">>
  <2>1. ~StartsWith(s, <<"-", " ">>)
    BY <1>2 DEF StartsWith
  <2>2. d.sd = <<>> /\ d.msg = <<>>
    BY <1>2, <2>1 DEF SplitStructuredData
  <2> QED BY <2>2, FromOne
<1>3. CASE ~StartsWith(s, <<"-", " ">>) /\ s # <<"-">> /\ ~StartsWith(s, <<"[">>)
  <2>1. d.sd = <<>> /\ d.msg = s
    BY <1>3 DEF SplitStructuredData
  <2> QED BY <2>1, FromOne
<1>4. CASE ~StartsWith(s, <<"-", " ">>) /\ s # <<"-">> /\ StartsWith(s, <<"[">>)
  <2>1. i \in 0 .. Len(s) + 1
    BY ElementsUnfold DEF Cursor
  <2>2. i <= Len(s)
    <3> SUFFICES ASSUME i > Len(s) PROVE FALSE
      BY <2>1
    <3>1. d.panics = TRUE
      BY <1>4 DEF SplitStructuredData
    <3> QED BY <3>1
  <2>3. d.sd = SubSeq(s, 1, i) /\ d.msg = TrimPrefix(From(s, i + 1), " ")
    BY <1>4, <2>1, <2>2 DEF SplitStructuredData
  <2> DEFINE rest == From(s, i + 1)
  <2>4. rest \in Seq(Token) /\ EndOf(s, rest)
    <3>1. i + 1 \in 1 .. Len(s) + 1
      BY <2>1, <2>2
    <3> QED BY <3>1, FromIs
  <2>5. SubSeq(s, 1, i) \in Seq(Token) /\ Len(SubSeq(s, 1, i)) = i /\ s = SubSeq(s, 1, i) \o rest
    <3>1. i \in 0 .. Len(s)
      BY <2>1, <2>2
    <3> HIDE DEF i
    <3> QED BY <3>1, CutApart
  <2> HIDE DEF rest, i
  <2>6. EndOf(s, TrimPrefix(rest, " "))
    <3>1. EndOf(rest, TrimPrefix(rest, " "))
      BY <2>4, TrimPrefixEnds
    <3> QED BY <2>4, <3>1, EndOfEnd
  <2>7. Behind(rest, TrimPrefix(rest, " "), " ")
    BY <2>4, TrimPrefixEnds DEF Behind
  <2>8. DataEnd(s) = i
    BY <2>2, CursorAtDataEnd DEF i
  <2> DEFINE m == TrimPrefix(rest, " ")
             data == SubSeq(s, 1, i)
  <2>9. Separated(s, data, m)
    <3>1. m \in Seq(Token) /\ data \in Seq(Token) /\ s = data \o rest /\ Behind(rest, m, " ")
      BY <2>4, <2>5, <2>6, <2>7, EndOfEnd, FromOne
    <3> HIDE DEF m, data
    <3> QED BY <3>1, BehindData
  <2> QED BY <2>3, <2>5, <2>6, <2>8, <2>9 DEF rest, i
<1> QED
  BY <1>1, <1>2, <1>3, <1>4

-----------------------------------------------------------------------------
(***************************************************************************)
(* What a message must be for a line: the property, on what is parsed.     *)
(***************************************************************************)
SplitCleanly(l, m) ==
  m.format # "error" /\ ~m.panics =>
    /\ EndOf(l, m.text)
    /\ m.sd # <<>> => \E gap \in {<<>>, <<" ">>, <<"BOM">>, <<" ", "BOM">>} :
         LET tail == m.sd \o gap \o m.text IN
         EndOf(l, tail) /\ DataEnd(tail) = Len(m.sd)

\* Of a shorter line, also of the line.
LEMMA OfTheWhole ==
  ASSUME NEW l \in Seq(Token), NEW rest, EndOf(l, rest), NEW m, SplitCleanly(rest, m)
  PROVE  SplitCleanly(l, m)
<1> SUFFICES ASSUME m.format # "error", ~m.panics
             PROVE  /\ EndOf(l, m.text)
                    /\ m.sd # <<>> => \E gap \in {<<>>, <<" ">>, <<"BOM">>, <<" ", "BOM">>} :
                         /\ EndOf(l, m.sd \o gap \o m.text)
                         /\ DataEnd(m.sd \o gap \o m.text) = Len(m.sd)
  BY DEF SplitCleanly
<1>1. EndOf(rest, m.text)
  BY DEF SplitCleanly
<1>2. EndOf(l, m.text)
  BY <1>1, EndOfEnd
<1>3. ASSUME m.sd # <<>>
      PROVE  \E gap \in {<<>>, <<" ">>, <<"BOM">>, <<" ", "BOM">>} :
               /\ EndOf(l, m.sd \o gap \o m.text)
               /\ DataEnd(m.sd \o gap \o m.text) = Len(m.sd)
  <2>1. PICK gap \in {<<>>, <<" ">>, <<"BOM">>, <<" ", "BOM">>} :
               /\ EndOf(rest, m.sd \o gap \o m.text)
               /\ DataEnd(m.sd \o gap \o m.text) = Len(m.sd)
    BY <1>3 DEF SplitCleanly
  <2>2. EndOf(l, m.sd \o gap \o m.text)
    BY <2>1, EndOfEnd
  <2> QED BY <2>1, <2>2
<1> QED
  BY <1>2, <1>3

\* The fields of RFC 5424 that the data and the text are in.
LEMMA DataIsClean ==
  ASSUME NEW s \in Seq(Token), NEW m,
         m.sd = SplitStructuredData(s).sd, m.panics = SplitStructuredData(s).panics,
         m.text = TrimPrefix(SplitStructuredData(s).msg, "BOM")
  PROVE  SplitCleanly(s, m)
<1> DEFINE d == SplitStructuredData(s)
           msg == d.msg
           data == d.sd
           text == TrimPrefix(msg, "BOM")
<1> SUFFICES ASSUME ~d.panics PROVE SplitCleanly(s, m)
  BY DEF SplitCleanly
<1>1. EndOf(s, msg) /\ (data # <<>> => /\ Separated(s, data, msg)
                                     /\ data \in Seq(Token) /\ DataEnd(s) = Len(data))
  BY DataSplit
<1>2. m.text = text /\ m.sd = data
  OBVIOUS
<1> HIDE DEF d, msg, data
<1>3. msg \in Seq(Token)
  BY <1>1, FromOne, EndOfEnd
<1>4. EndOf(msg, text) /\ Behind(msg, text, "BOM")
  BY <1>3, TrimPrefixEnds DEF Behind
<1> HIDE DEF text
<1>5. EndOf(s, text) /\ text \in Seq(Token)
  BY <1>1, <1>3, <1>4, EndOfEnd
<1>6. ASSUME data # <<>> PROVE Gapped(s, data, text)
  BY <1>1, <1>4, <1>5, <1>6, Gap
<1>7. EndOf(s, s)
  BY FromOne
<1>8. ASSUME data # <<>>
      PROVE  \E gap \in {<<>>, <<" ">>, <<"BOM">>, <<" ", "BOM">>} :
               EndOf(s, data \o gap \o text) /\ DataEnd(data \o gap \o text) = Len(data)
  <2>1. PICK gap : gap \in {<<>>, <<" ">>, <<"BOM">>, <<" ", "BOM">>} /\ s = data \o gap \o text
    BY <1>6, <1>8 DEF Gapped
  <2> QED BY <1>1, <1>7, <1>8, <2>1, Zenon
<1> QED
  BY <1>2, <1>5, <1>8, Zenon DEF SplitCleanly

\* RFC 5424.
LEMMA Split5424 ==
  ASSUME NEW rest \in Seq(Token)
  PROVE  SplitCleanly(rest, ParseRFC5424(rest))
<1> DEFINE body == From(rest, IndexOf(rest, " ") + 1)
           f == SplitNSpaceFields(body, 5)
           m == ParseRFC5424(rest)
           s == f.tail
<1>1. CASE ~f.ok
  <2>1. m = Failed
    BY <1>1 DEF ParseRFC5424
  <2>2. m.format = "error"
    BY <2>1 DEF Failed
  <2>3. ASSUME NEW e, e.format = "error" PROVE SplitCleanly(rest, e)
    BY <2>3 DEF SplitCleanly
  <2> HIDE DEF m
  <2> QED BY <2>2, <2>3, Zenon DEF m
<1>2. CASE f.ok
  <2>1. EndOf(rest, s) /\ s \in Seq(Token)
    <3>1. IndexOf(rest, " ") + 1 \in 1 .. Len(rest) + 1
      <4> DEFINE sp == IndexOf(rest, " ")
      <4>1. sp \in 0 .. Len(rest)
        BY IndexOfIs, Zenon
      <4> HIDE DEF sp
      <4>2. sp + 1 \in 1 .. Len(rest) + 1
        BY <4>1
      <4> QED BY <4>2 DEF sp
    <3>2. body \in Seq(Token) /\ EndOf(rest, body)
      BY <3>1, FromIs
    <3> HIDE DEF body
    <3>3. EndOf(body, s)
      BY <3>2, SplitTail
    <3> HIDE DEF f
    <3> QED BY <3>2, <3>3, EndOfEnd
  <2>2. m.sd = SplitStructuredData(s).sd /\ m.panics = SplitStructuredData(s).panics
        /\ m.text = TrimPrefix(SplitStructuredData(s).msg, "BOM")
    BY <1>2 DEF ParseRFC5424
  <2> HIDE DEF m, s
  <2>3. SplitCleanly(s, m)
    BY <2>1, <2>2, DataIsClean, Zenon
  <2> QED BY <2>1, <2>3, OfTheWhole, Zenon DEF m
<1> QED
  BY <1>1, <1>2

\* RFC 3164.
LEMMA Split3164 ==
  ASSUME NEW rest0 \in Seq(Token)
  PROVE  SplitCleanly(rest0, ParseRFC3164(rest0))
<1> DEFINE rest  == TrimLeft(rest0, " ")
           r     == TrimLeft(From(rest, 2), " ")
           sp    == IndexOf(r, " ")
           body  == IF sp > 1 THEN From(r, sp + 1) ELSE r
           colon == IndexOf(body, ":")
           text  == TrimPrefix(From(body, colon + 1), " ")
           m     == ParseRFC3164(rest0)
<1>1. EndOf(rest0, rest) /\ rest \in Seq(Token)
  <2>1. EndOf(rest0, rest)
    BY TrimLeftEnds
  <2> HIDE DEF rest
  <2> QED BY <2>1, FromOne, EndOfEnd
<1>2. m.sd = <<>>
  BY DEF ParseRFC3164
<1>3. CASE ~StartsWith(rest, <<"stamp">>)
  <2>1. m.text = rest
    BY <1>3 DEF ParseRFC3164
  <2> HIDE DEF m, rest
  <2>2. SplitCleanly(rest0, m)
    BY <1>1, <1>2, <2>1 DEF SplitCleanly
  <2> QED BY <2>2 DEF m
<1>4. CASE StartsWith(rest, <<"stamp">>)
  <2>1. m.text = IF colon <= 1 THEN body ELSE text
    BY <1>4 DEF ParseRFC3164
  <2>2. EndOf(rest, From(rest, 2)) /\ From(rest, 2) \in Seq(Token)
    <3> HIDE DEF rest
    <3>1. 2 \in 1 .. Len(rest) + 1
      <4>1. Len(<<"stamp">>) = 1
        OBVIOUS
      <4>2. Len(<<"stamp">>) <= Len(rest)
        BY <1>4, Zenon DEF StartsWith
      <4>3. Len(rest) \in Nat
        BY <1>1
      <4> QED BY <4>1, <4>2, <4>3
    <3> QED BY <1>1, <3>1, FromIs
  <2>3. EndOf(From(rest, 2), r)
    <3> HIDE DEF rest
    <3> QED BY <2>2, TrimLeftEnds
  <2> HIDE DEF m, rest, r
  <2>4. EndOf(rest0, r) /\ r \in Seq(Token)
    <3>1. EndOf(rest, r) /\ r \in Seq(Token)
      BY <1>1, <2>2, <2>3, EndOfEnd
    <3> QED BY <1>1, <3>1, EndOfEnd
  <2>5. EndOf(r, From(r, sp + 1))
    <3>1. sp \in 0 .. Len(r)
      BY <2>4, IndexOfIs, Zenon
    <3> HIDE DEF sp
    <3>2. sp + 1 \in 1 .. Len(r) + 1
      BY <2>4, <3>1
    <3> QED BY <2>4, <3>2, FromIs
  <2>6. EndOf(r, r)
    BY <2>4, FromOne
  <2>7. EndOf(r, body)
    BY <2>5, <2>6
  <2> HIDE DEF body
  <2>8. EndOf(rest0, body) /\ body \in Seq(Token)
    BY <2>4, <2>7, EndOfEnd
  <2>9. EndOf(body, From(body, colon + 1))
    <3>1. colon \in 0 .. Len(body)
      BY <2>8, IndexOfIs, Zenon
    <3> HIDE DEF colon
    <3>2. colon + 1 \in 1 .. Len(body) + 1
      BY <2>8, <3>1
    <3> QED BY <2>8, <3>2, FromIs
  <2>10. EndOf(rest0, text)
    <3> DEFINE tail == From(body, colon + 1)
    <3>1. EndOf(rest0, tail) /\ tail \in Seq(Token)
      BY <2>8, <2>9, EndOfEnd
    <3> HIDE DEF tail, colon
    <3>2. EndOf(tail, TrimPrefix(tail, " "))
      BY <3>1, TrimPrefixEnds
    <3> QED BY <3>1, <3>2, EndOfEnd DEF tail
  <2>11. EndOf(rest0, m.text)
    BY <2>1, <2>8, <2>10
  <2>12. SplitCleanly(rest0, m)
    BY <1>2, <2>11 DEF SplitCleanly
  <2> QED BY <2>12 DEF m
<1> QED
  BY <1>3, <1>4

(***************************************************************************)
(* Parse.                                                                  *)
(***************************************************************************)
LEMMA ParseSplit ==
  ASSUME NEW raw0 \in Seq(Token)
  PROVE  SplitCleanly(raw0, Parse(raw0))
<1> DEFINE raw  == TrimPrefix(raw0, "BOM")
           end  == IndexOf(raw, ">")
           pri  == Number(SubSeq(raw, 2, end - 1))
           rest == From(raw, end + 1)
           plain == [format |-> "unstructured", host |-> <<>>, app |-> <<>>, proc |-> <<>>, sd |-> <<>>,
                     text |-> raw, panics |-> FALSE]
<1>1. EndOf(raw0, raw) /\ raw \in Seq(Token)
  <2>1. EndOf(raw0, raw)
    BY TrimPrefixEnds
  <2> HIDE DEF raw
  <2> QED BY <2>1, FromOne, EndOfEnd
<1>2. \/ Parse(raw0) = plain
      \/ Parse(raw0) = Failed
      \/ Parse(raw0) = ParseRFC5424(rest)
      \/ Parse(raw0) = ParseRFC3164(rest)
  BY DEF Parse
<1> HIDE DEF raw
<1>3. EndOf(raw0, rest) /\ rest \in Seq(Token)
  <2>1. end \in 0 .. Len(raw)
    BY <1>1, IndexOfIs, Zenon
  <2> HIDE DEF end
  <2>2. end + 1 \in 1 .. Len(raw) + 1
    BY <1>1, <2>1
  <2>3. EndOf(raw, rest)
    BY <1>1, <2>2, FromIs
  <2> QED BY <1>1, <2>3, EndOfEnd
<1>4. SplitCleanly(raw0, plain)
  <2>1. plain.text = raw /\ plain.sd = <<>>
    OBVIOUS
  <2> HIDE DEF plain
  <2> QED BY <1>1, <2>1 DEF SplitCleanly
<1>5. SplitCleanly(raw0, Failed)
  <2>1. Failed.format = "error"
    BY DEF Failed
  <2> QED BY <2>1 DEF SplitCleanly
<1> HIDE DEF rest, plain
<1>6. SplitCleanly(rest, ParseRFC5424(rest)) /\ SplitCleanly(rest, ParseRFC3164(rest))
  BY <1>3, Split5424, Split3164
<1>7. SplitCleanly(raw0, ParseRFC5424(rest)) /\ SplitCleanly(raw0, ParseRFC3164(rest))
  BY <1>3, <1>6, OfTheWhole
<1> QED
  BY <1>2, <1>4, <1>5, <1>7

LineInv == line \in Seq(Token) /\ (parsed => SplitCleanly(line, message))

(***************************************************************************)
(* Every line is split where its structured data ends, and what is behind  *)
(* it is the end of the line (Server.handleLine and Parse).                *)
(***************************************************************************)
THEOREM LinesAreSplitCleanly == LineSpec => []ParseSplitsCleanly
<1>1. LineInit => LineInv
  BY LineAssumption DEF LineInit, LineInv
<1>2. LineInv /\ [HandleLine]_lineVars => LineInv'
  <2> SUFFICES ASSUME LineInv, [HandleLine]_lineVars PROVE LineInv'
    OBVIOUS
  <2>1. CASE HandleLine
    <3>1. line \in Seq(Token) /\ line' = line
      BY <2>1 DEF LineInv, HandleLine
    <3>2. SplitCleanly(line, Failed)
      BY DEF SplitCleanly, Failed
    <3>3. SplitCleanly(line, Parse(line))
      BY <3>1, ParseSplit
    <3>4. message' = Failed \/ message' = Parse(line)
      BY <2>1 DEF HandleLine
    <3>5. SplitCleanly(line', message')
      BY <3>1, <3>2, <3>3, <3>4
    <3> QED BY <3>1, <3>5 DEF LineInv
  <2>2. CASE UNCHANGED lineVars
    BY <2>2 DEF LineInv, lineVars, SplitCleanly
  <2> QED BY <2>1, <2>2
<1>3. LineInv => ParseSplitsCleanly
  BY DEF LineInv, ParseSplitsCleanly, SplitCleanly
<1> QED
  BY <1>1, <1>2, <1>3, PTL DEF LineSpec

-----------------------------------------------------------------------------
(***************************************************************************)
(* A function exists whose value at each number is made from the one       *)
(* before it.                                                              *)
(***************************************************************************)
Rising(n, V, v, step) ==
  \E f \in [0 .. n -> V] : \A k \in 0 .. n : f[k] = IF k = 0 THEN v ELSE step[k][f[k - 1]]

LEMMA RisingExists ==
  ASSUME NEW n \in Nat, NEW V, NEW v \in V, NEW step \in [1 .. n -> [V -> V]]
  PROVE  Rising(n, V, v, step)
<1> DEFINE back == [i \in 0 .. n |-> [h \in [0 .. n -> V] |-> IF i = n THEN v ELSE step[n - i][h[i + 1]]]]
<1>1. back \in [0 .. n -> [[0 .. n -> V] -> V]]
  <2>1. ASSUME NEW i \in 0 .. n, NEW h \in [0 .. n -> V]
        PROVE  (IF i = n THEN v ELSE step[n - i][h[i + 1]]) \in V
    <3>1. CASE i = n
      BY <3>1
    <3>2. CASE i # n
      <4>1. n - i \in 1 .. n /\ i + 1 \in 0 .. n
        BY <3>2
      <4> QED BY <3>2, <4>1
    <3> QED BY <3>1, <3>2
  <2> QED BY <2>1
<1>2. \A i \in 0 .. n : \A f, g \in [0 .. n -> V] :
        (\A j \in i + 1 .. n : f[j] = g[j]) => back[i][f] = back[i][g]
  OBVIOUS
<1>3. PICK h \in [0 .. n -> V] : \A i \in 0 .. n : h[i] = back[i][h]
  <2>1. Falling(n, V, back)
    <3> HIDE DEF back
    <3> QED BY <1>1, <1>2, FallingExists
  <2> QED BY <2>1 DEF Falling
<1>4. \A i \in 0 .. n : h[i] = IF i = n THEN v ELSE step[n - i][h[i + 1]]
  BY <1>3
<1> HIDE DEF back
<1> DEFINE f == [k \in 0 .. n |-> h[n - k]]
<1>5. f \in [0 .. n -> V]
  OBVIOUS
<1>6. ASSUME NEW k \in 0 .. n PROVE f[k] = IF k = 0 THEN v ELSE step[k][f[k - 1]]
  <2>1. n - k \in 0 .. n /\ f[k] = h[n - k]
    OBVIOUS
  <2>2. CASE k = 0
    BY <1>4, <2>1, <2>2
  <2>3. CASE k # 0
    <3>1. k - 1 \in 0 .. n /\ n - (k - 1) = (n - k) + 1 /\ n - k # n /\ n - (n - k) = k
      BY <2>3
    <3>2. f[k - 1] = h[(n - k) + 1]
      BY <3>1
    <3> QED BY <1>4, <2>1, <2>3, <3>1, <3>2
  <2> QED BY <2>2, <2>3
<1> HIDE DEF f
<1> QED
  BY <1>5, <1>6 DEF Rising

\* What holds at 0 and goes on to the next number holds up to n.
LEMMA CountsUp ==
  ASSUME NEW n \in Nat, NEW S, 0 \in S, \A i \in 0 .. n : i < n /\ i \in S => i + 1 \in S
  PROVE  0 .. n \subseteq S
<1> SUFFICES ASSUME NEW k \in 0 .. n, k \notin S PROVE FALSE
  OBVIOUS
<1> DEFINE M == {j \in 0 .. n : j \notin S}
<1>1. M \in SUBSET Nat /\ M # {}
  OBVIOUS
<1>2. Least(M) \in M /\ \A y \in M : Least(M) <= y
  <2> HIDE DEF M
  <2> QED BY <1>1, LeastExists
<1>3. PICK m \in M : \A y \in M : m <= y
  BY <1>2
<1>4. m # 0 /\ m - 1 \in 0 .. n /\ m - 1 < n
  BY <1>3
<1>5. m - 1 \in S
  BY <1>3, <1>4
<1> QED
  BY <1>3, <1>4, <1>5

-----------------------------------------------------------------------------
\* Cutting paths.
LEMMA PathCut ==
  ASSUME NEW p \in Seq(Segment), NEW i \in 0 .. Len(p)
  PROVE  /\ SubSeq(p, 1, i) \in Seq(Segment) /\ Len(SubSeq(p, 1, i)) = i
         /\ SubSeq(p, i + 1, Len(p)) \in Seq(Segment) /\ Len(SubSeq(p, i + 1, Len(p))) = Len(p) - i
         /\ p = SubSeq(p, 1, i) \o SubSeq(p, i + 1, Len(p))
<1> DEFINE a == SubSeq(p, 1, i)
           b == SubSeq(p, i + 1, Len(p))
<1>1. a \in Seq(Segment) /\ Len(a) = i /\ \A k \in 1 .. i : a[k] = p[k]
  OBVIOUS
<1>2. b \in Seq(Segment) /\ Len(b) = Len(p) - i
  OBVIOUS
<1>3. \A k \in 1 .. Len(p) - i : b[k] = p[i + k]
  OBVIOUS
<1> HIDE DEF a, b
<1>4. a \o b \in Seq(Segment) /\ Len(a \o b) = Len(p)
  <2>1. a \o b \in Seq(Segment) /\ Len(a \o b) = Len(a) + Len(b)
    BY <1>1, <1>2, Concatenated
  <2> QED BY <1>1, <1>2, <2>1
<1>5. ASSUME NEW k \in 1 .. Len(p) PROVE (a \o b)[k] = p[k]
  <2>1. CASE k <= i
    <3>1. k \in 1 .. Len(a)
      BY <1>1, <2>1
    <3> QED BY <1>1, <1>2, <3>1, Concatenated
  <2>2. CASE k > i
    <3>1. k - i \in 1 .. Len(p) - i /\ i + (k - i) = k
      BY <2>2
    <3>2. (a \o b)[k] = b[k - i]
      <4>1. k \in Len(a) + 1 .. Len(a) + Len(b)
        BY <1>1, <1>2, <2>2
      <4> QED BY <1>1, <1>2, <4>1, Concatenated
    <3> QED BY <1>3, <3>1, <3>2
  <2>3. k <= i \/ k > i
    OBVIOUS
  <2> QED BY <2>1, <2>2, <2>3, Zenon
<1>6. p = a \o b
  BY <1>4, <1>5, SameSequence
<1> QED
  BY <1>1, <1>2, <1>6 DEF a, b

\* Cutting a path that goes on does not touch what it goes on with.
LEMMA CutBefore ==
  ASSUME NEW p \in Seq(Segment), NEW r \in Seq(Segment), NEW i \in 0 .. Len(p)
  PROVE  /\ p \o r \in Seq(Segment) /\ Len(p \o r) = Len(p) + Len(r)
         /\ SubSeq(p \o r, 1, i) = SubSeq(p, 1, i)
         /\ SubSeq(p \o r, i + 1, Len(p \o r)) = SubSeq(p, i + 1, Len(p)) \o r
<1>1. p \o r \in Seq(Segment) /\ Len(p \o r) = Len(p) + Len(r)
  OBVIOUS
<1>2. SubSeq(p \o r, 1, i) = SubSeq(p, 1, i)
  OBVIOUS
<1>3. SubSeq(p \o r, i + 1, Len(p \o r)) = SubSeq(p, i + 1, Len(p)) \o r
  <2> DEFINE a == SubSeq(p \o r, i + 1, Len(p \o r))
             b == SubSeq(p, i + 1, Len(p))
  <2>1. a \in Seq(Segment) /\ Len(a) = Len(p) + Len(r) - i
    BY <1>1
  <2>2. \A k \in 1 .. Len(a) : a[k] = (p \o r)[i + k]
    <3> DEFINE q == p \o r
    <3>1. q \in Seq(Segment) /\ i \in 0 .. Len(q)
      BY <1>1
    <3> HIDE DEF q
    <3>2. \A k \in 1 .. Len(SubSeq(q, i + 1, Len(q))) : SubSeq(q, i + 1, Len(q))[k] = q[i + k]
      BY <3>1
    <3> QED BY <3>2 DEF q
  <2>3. b \in Seq(Segment) /\ Len(b) = Len(p) - i /\ \A k \in 1 .. Len(b) : b[k] = p[i + k]
    BY PathCut
  <2> HIDE DEF a, b
  <2>4. b \o r \in Seq(Segment) /\ Len(b \o r) = Len(a)
    <3>1. b \o r \in Seq(Segment) /\ Len(b \o r) = Len(b) + Len(r)
      BY <2>3, Concatenated
    <3> QED BY <2>1, <2>3, <3>1
  <2>5. ASSUME NEW k \in 1 .. Len(a) PROVE a[k] = (b \o r)[k]
    <3>1. CASE k <= Len(b)
      <4>1. (b \o r)[k] = b[k] /\ b[k] = p[i + k]
        BY <2>3, <3>1
      <4>2. i + k \in 1 .. Len(p)
        BY <2>3, <3>1
      <4>3. (p \o r)[i + k] = p[i + k]
        BY <4>2
      <4> QED BY <2>2, <4>1, <4>3
    <3>2. CASE k > Len(b)
      <4>1. (b \o r)[k] = r[k - Len(b)]
        <5>1. k \in Len(b) + 1 .. Len(b) + Len(r)
          BY <2>1, <2>3, <3>2
        <5> QED BY <2>3, <5>1, Concatenated
      <4>2. i + k \in Len(p) + 1 .. Len(p) + Len(r) /\ i + k - Len(p) = k - Len(b)
        BY <2>1, <2>3, <3>2
      <4>3. (p \o r)[i + k] = r[i + k - Len(p)]
        BY <4>2
      <4> QED BY <2>2, <4>1, <4>2, <4>3
    <3> QED BY <2>1, <2>3, <3>1, <3>2
  <2>6. a = b \o r
    <3> DEFINE d == b \o r
    <3>1. d \in Seq(Segment) /\ Len(d) = Len(a) /\ \A k \in 1 .. Len(a) : a[k] = d[k]
      BY <2>4, <2>5
    <3> HIDE DEF d
    <3>2. a = d
      BY <2>1, <3>1, SameSequence
    <3> QED BY <3>2 DEF d
  <2> QED BY <2>6 DEF a, b
<1> QED
  BY <1>1, <1>2, <1>3

\* One name more.
LEMMA NextName ==
  ASSUME NEW p \in Seq(Segment), NEW r \in Seq(Segment), r # <<>>
  PROVE  /\ Len(p) + 1 \in 1 .. Len(p \o r)
         /\ SubSeq(p \o r, 1, Len(p) + 1) = Append(p, r[1])
<1>1. p \o r \in Seq(Segment) /\ Len(p \o r) = Len(p) + Len(r) /\ Len(r) > 0
  OBVIOUS
<1> DEFINE a == SubSeq(p \o r, 1, Len(p) + 1)
           b == Append(p, r[1])
<1>2. a \in Seq(Segment) /\ Len(a) = Len(p) + 1 /\ \A k \in 1 .. Len(p) + 1 : a[k] = (p \o r)[k]
  BY <1>1
<1>3. r[1] \in Segment
  BY <1>1
<1>4. b \in Seq(Segment) /\ Len(b) = Len(p) + 1
  BY <1>3
<1>5. \A k \in 1 .. Len(p) + 1 : b[k] = IF k <= Len(p) THEN p[k] ELSE r[1]
  OBVIOUS
<1>6. \A k \in 1 .. Len(p) + 1 : (p \o r)[k] = IF k <= Len(p) THEN p[k] ELSE r[1]
  BY <1>1
<1> HIDE DEF a, b
<1>7. \A k \in 1 .. Len(p) + 1 : a[k] = b[k]
  BY <1>2, <1>5, <1>6
<1>8. a = b
  BY <1>2, <1>4, <1>7, SameSequence
<1> QED
  BY <1>1, <1>8 DEF a, b

(***************************************************************************)
(* The file systems there are.                                             *)
(***************************************************************************)
IsTree(fs) == DOMAIN fs \subseteq Seq(Segment) /\ \A p \in DOMAIN fs : fs[p] \in Node

\* What there can be at a path.
LEMMA Kinds ==
  ASSUME NEW fs, IsTree(fs), NEW p
  PROVE  /\ Kind(fs, p) \in {"dir", "file", "link", "none"}
         /\ Kind(fs, p) = "link" => fs[p].to \in Seq(Segment)
<1>1. CASE p = <<>>
  BY <1>1 DEF Kind
<1>2. CASE p # <<>> /\ p \notin DOMAIN fs
  BY <1>2 DEF Kind
<1>3. CASE p # <<>> /\ p \in DOMAIN fs
  <2>1. Kind(fs, p) = fs[p].kind
    BY <1>3 DEF Kind
  <2>2. fs[p] \in Node
    BY <1>3 DEF IsTree
  <2>3. fs[p].kind \in {"dir", "file", "link"} /\ (fs[p].kind = "link" => fs[p].to \in Seq(Segment))
    BY <2>2 DEF Node
  <2> QED BY <2>1, <2>3
<1> QED
  BY <1>1, <1>2, <1>3

\* Where a walk stops.
AllDirs(fs, p) == \A i \in 1 .. Len(p) : Kind(fs, SubSeq(p, 1, i)) = "dir"

LEMMA StopIs ==
  ASSUME NEW fs, NEW p \in Seq(Segment)
  PROVE  \/ AllDirs(fs, p) /\ Stop(fs, p) = 0
         \/ ~AllDirs(fs, p) /\ Stop(fs, p) \in 1 .. Len(p) /\ IsStop(fs, p, Stop(fs, p))
<1>1. CASE AllDirs(fs, p)
  BY <1>1 DEF AllDirs, Stop
<1>2. CASE ~AllDirs(fs, p)
  <2> DEFINE M == {i \in 1 .. Len(p) : Kind(fs, SubSeq(p, 1, i)) # "dir"}
  <2>1. M \in SUBSET Nat /\ M # {}
    BY <1>2 DEF AllDirs
  <2>2. Least(M) \in M /\ \A y \in M : Least(M) <= y
    <3> HIDE DEF M
    <3> QED BY <2>1, LeastExists
  <2>3. PICK m \in M : \A y \in M : m <= y
    BY <2>2
  <2>4. m \in 1 .. Len(p) /\ IsStop(fs, p, m)
    <3>1. \A j \in 1 .. m - 1 : j \in 1 .. Len(p) /\ j \notin M
      BY <2>3
    <3>2. \A j \in 1 .. m - 1 : Kind(fs, SubSeq(p, 1, j)) = "dir"
      BY <3>1
    <3> QED BY <2>3, <3>2 DEF IsStop
  <2>5. Stop(fs, p) = CHOOSE i \in 1 .. Len(p) : IsStop(fs, p, i)
    BY <1>2 DEF Stop, AllDirs
  <2> QED BY <1>2, <2>4, <2>5
<1> QED
  BY <1>1, <1>2

\* There is one place where a walk stops.
LEMMA StopIsOnly ==
  ASSUME NEW fs, NEW p \in Seq(Segment), NEW i \in 1 .. Len(p), IsStop(fs, p, i)
  PROVE  Stop(fs, p) = i /\ ~AllDirs(fs, p)
<1> DEFINE m == Stop(fs, p)
<1>1. ~AllDirs(fs, p)
  BY DEF AllDirs, IsStop
<1>2. m \in 1 .. Len(p) /\ IsStop(fs, p, m)
  BY <1>1, StopIs
<1> HIDE DEF m
<1>3. ~(m < i)
  <2> SUFFICES ASSUME m < i PROVE FALSE
    OBVIOUS
  <2>1. m \in 1 .. i - 1
    BY <1>2
  <2> QED BY <1>2, <2>1 DEF IsStop
<1>4. ~(i < m)
  <2> SUFFICES ASSUME i < m PROVE FALSE
    OBVIOUS
  <2>1. i \in 1 .. m - 1
    BY <1>2
  <2> QED BY <1>2, <2>1 DEF IsStop
<1> QED
  BY <1>1, <1>2, <1>3, <1>4 DEF m

\* A walk that gets to its end is in a directory.
LEMMA AllDirsIs ==
  ASSUME NEW fs, NEW p \in Seq(Segment), AllDirs(fs, p)
  PROVE  Stop(fs, p) = 0 /\ StopKind(fs, p) = "dir" /\ Kind(fs, p) = "dir" /\ Follow(fs, p) = p
<1>1. Stop(fs, p) = 0
  BY StopIs
<1>2. SubSeq(p, 1, 0) = <<>>
  OBVIOUS
<1>3. StopKind(fs, p) = "dir"
  BY <1>1, <1>2 DEF StopKind, Kind
<1>4. Kind(fs, p) = "dir"
  <2>1. CASE p = <<>>
    BY <2>1 DEF Kind
  <2>2. CASE p # <<>>
    <3>1. Len(p) \in 1 .. Len(p) /\ SubSeq(p, 1, Len(p)) = p
      BY <2>2
    <3> QED BY <3>1 DEF AllDirs
  <2> QED BY <2>1, <2>2
<1>5. Follow(fs, p) = p
  BY <1>3 DEF Follow
<1> QED
  BY <1>1, <1>3, <1>4, <1>5

\* One that does not, stops where it does in any path that goes on.
LEMMA StopBehind ==
  ASSUME NEW fs, NEW p \in Seq(Segment), NEW r \in Seq(Segment), ~AllDirs(fs, p)
  PROVE  /\ Stop(fs, p) \in 1 .. Len(p) /\ StopKind(fs, p) # "dir"
         /\ ~AllDirs(fs, p \o r) /\ Stop(fs, p \o r) = Stop(fs, p)
         /\ StopKind(fs, p \o r) = StopKind(fs, p)
<1> DEFINE m == Stop(fs, p)
<1>1. m \in 1 .. Len(p) /\ IsStop(fs, p, m)
  BY StopIs
<1>2. StopKind(fs, p) # "dir"
  BY <1>1 DEF IsStop, StopKind
<1> HIDE DEF m
<1>3. p \o r \in Seq(Segment) /\ m \in 1 .. Len(p \o r)
  <2>1. Len(p \o r) = Len(p) + Len(r) /\ p \o r \in Seq(Segment) /\ Len(r) \in Nat /\ Len(p) \in Nat
    BY Concatenated
  <2> QED BY <1>1, <2>1
<1>4. \A i \in 1 .. m : SubSeq(p \o r, 1, i) = SubSeq(p, 1, i)
  <2> TAKE i \in 1 .. m
  <2>1. i \in 0 .. Len(p)
    BY <1>1
  <2> QED BY <2>1, CutBefore
<1>5. IsStop(fs, p \o r, m)
  <2> DEFINE q == p \o r
  <2>1. \A i \in 1 .. m : SubSeq(q, 1, i) = SubSeq(p, 1, i)
    BY <1>4
  <2>2. m \in 1 .. m /\ \A j \in 1 .. m - 1 : j \in 1 .. m
    BY <1>1
  <2> HIDE DEF q
  <2>3. Kind(fs, SubSeq(q, 1, m)) # "dir"
    BY <1>1, <2>1, <2>2 DEF IsStop
  <2>4. \A j \in 1 .. m - 1 : Kind(fs, SubSeq(q, 1, j)) = "dir"
    BY <1>1, <2>1, <2>2 DEF IsStop
  <2>5. IsStop(fs, q, m)
    BY <2>3, <2>4 DEF IsStop
  <2> QED BY <2>5 DEF q
<1>6. ~AllDirs(fs, p \o r) /\ Stop(fs, p \o r) = m
  <2> DEFINE q == p \o r
  <2> HIDE DEF q
  <2>1. q \in Seq(Segment) /\ m \in 1 .. Len(q) /\ IsStop(fs, q, m)
    BY <1>3, <1>5 DEF q
  <2>2. ~AllDirs(fs, q) /\ Stop(fs, q) = m
    BY <2>1, StopIsOnly
  <2> QED BY <2>2 DEF q
<1>7. StopKind(fs, p \o r) = StopKind(fs, p)
  <2>1. SubSeq(p \o r, 1, m) = SubSeq(p, 1, m)
    BY <1>1, <1>4
  <2> QED BY <1>6, <2>1 DEF StopKind, m
<1> QED
  BY <1>1, <1>2, <1>6, <1>7 DEF m

\* Behind directories a walk stops at a name that does not exist.
LEMMA StopMissing ==
  ASSUME NEW fs, NEW p \in Seq(Segment), NEW r \in Seq(Segment), AllDirs(fs, p),
         r # <<>>, Kind(fs, Append(p, r[1])) = "none"
  PROVE  ~AllDirs(fs, p \o r) /\ StopKind(fs, p \o r) = "none" /\ Follow(fs, p \o r) = p \o r
<1> DEFINE q == p \o r
           m == Len(p) + 1
<1>1. q \in Seq(Segment)
  BY Concatenated
<1>2. m \in 1 .. Len(q) /\ SubSeq(q, 1, m) = Append(p, r[1])
  BY NextName
<1>3. \A i \in 1 .. m - 1 : Kind(fs, SubSeq(q, 1, i)) = "dir"
  <2> TAKE i \in 1 .. m - 1
  <2>1. i \in 0 .. Len(p) /\ i \in 1 .. Len(p)
    OBVIOUS
  <2>2. SubSeq(q, 1, i) = SubSeq(p, 1, i)
    BY <2>1, CutBefore
  <2> QED BY <2>1, <2>2 DEF AllDirs
<1> HIDE DEF q, m
<1>4. IsStop(fs, q, m)
  BY <1>2, <1>3 DEF IsStop
<1>5. Stop(fs, q) = m /\ ~AllDirs(fs, q)
  BY <1>1, <1>2, <1>4, StopIsOnly
<1>6. StopKind(fs, q) = "none"
  BY <1>2, <1>5 DEF StopKind
<1>7. Follow(fs, q) = q
  BY <1>6 DEF Follow
<1> QED
  BY <1>5, <1>6, <1>7 DEF q

\* Following a link gives a path, and keeps what the path goes on with.
LEMMA FollowIs ==
  ASSUME NEW fs, IsTree(fs), NEW p \in Seq(Segment)
  PROVE  Follow(fs, p) \in Seq(Segment)
<1>1. CASE StopKind(fs, p) # "link"
  BY <1>1 DEF Follow
<1>2. CASE StopKind(fs, p) = "link"
  <2> DEFINE i == Stop(fs, p)
             to == fs[SubSeq(p, 1, i)].to
             b == SubSeq(p, i + 1, Len(p))
  <2>1. i \in 0 .. Len(p)
    BY StopIs
  <2>2. to \in Seq(Segment)
    BY <1>2, Kinds DEF StopKind
  <2>3. b \in Seq(Segment)
    <3> HIDE DEF i
    <3> QED BY <2>1, PathCut
  <2>4. Follow(fs, p) = to \o b
    BY <1>2 DEF Follow
  <2> HIDE DEF to, b
  <2>5. to \o b \in Seq(Segment)
    BY <2>2, <2>3, Concatenated
  <2> QED BY <2>4, <2>5
<1> QED
  BY <1>1, <1>2

\* Paths are put together in any order.
LEMMA PathsAssociate ==
  ASSUME NEW x \in Seq(Segment), NEW y \in Seq(Segment), NEW z \in Seq(Segment)
  PROVE  (x \o y) \o z = x \o (y \o z)
  OBVIOUS

\* A walk that stops before the end follows the same link however the path goes on.
LEMMA FollowAlong ==
  ASSUME NEW fs, IsTree(fs), NEW p \in Seq(Segment), NEW r \in Seq(Segment), ~AllDirs(fs, p)
  PROVE  Follow(fs, p \o r) = Follow(fs, p) \o r
<1>1. /\ Stop(fs, p) \in 1 .. Len(p)
      /\ Stop(fs, p \o r) = Stop(fs, p) /\ StopKind(fs, p \o r) = StopKind(fs, p)
  BY StopBehind
<1>2. CASE StopKind(fs, p) # "link"
  <2>1. Follow(fs, p) = p
    BY <1>2 DEF Follow
  <2>2. Follow(fs, p \o r) = p \o r
    BY <1>1, <1>2 DEF Follow
  <2> QED BY <2>1, <2>2
<1>3. CASE StopKind(fs, p) = "link"
  <2> DEFINE i == Stop(fs, p)
             a == SubSeq(p, 1, i)
             to == fs[a].to
             b == SubSeq(p, i + 1, Len(p))
  <2>1. i \in 0 .. Len(p)
    BY <1>1
  <2>2. to \in Seq(Segment)
    BY <1>3, Kinds DEF StopKind
  <2>3. b \in Seq(Segment)
    <3> HIDE DEF i
    <3> QED BY <2>1, PathCut
  <2>4. Follow(fs, p) = to \o b
    BY <1>3 DEF Follow
  <2>5. Follow(fs, p \o r) = fs[SubSeq(p \o r, 1, i)].to \o SubSeq(p \o r, i + 1, Len(p \o r))
    BY <1>1, <1>3 DEF Follow
  <2>6. SubSeq(p \o r, 1, i) = a /\ SubSeq(p \o r, i + 1, Len(p \o r)) = b \o r
    <3> HIDE DEF i
    <3> QED BY <2>1, CutBefore
  <2>7. Follow(fs, p \o r) = to \o (b \o r)
    BY <2>5, <2>6
  <2> HIDE DEF to, b
  <2>8. (to \o b) \o r = to \o (b \o r)
    BY <2>2, <2>3, PathsAssociate
  <2> QED BY <2>4, <2>7, <2>8
<1> QED
  BY <1>2, <1>3

(***************************************************************************)
(* Following as it is defined.                                             *)
(***************************************************************************)
LEMMA FollowingUnfold ==
  ASSUME NEW fs, IsTree(fs), NEW p \in Seq(Segment)
  PROVE  /\ Following(fs, p) \in [0 .. MaxLinks -> Seq(Segment)]
         /\ Following(fs, p)[0] = p
         /\ \A n \in 1 .. MaxLinks : Following(fs, p)[n] = Follow(fs, Following(fs, p)[n - 1])
<1> DEFINE V == Seq(Segment)
           step == [n \in 1 .. MaxLinks |-> [q \in V |-> Follow(fs, q)]]
           Q == CHOOSE f : f = [n \in 0 .. MaxLinks |-> IF n = 0 THEN p ELSE Follow(fs, f[n - 1])]
<1>1. step \in [1 .. MaxLinks -> [V -> V]]
  BY FollowIs
<1>2. PICK f \in [0 .. MaxLinks -> V] :
        \A n \in 0 .. MaxLinks : f[n] = IF n = 0 THEN p ELSE step[n][f[n - 1]]
  <2>1. p \in V /\ MaxLinks \in Nat
    BY LinksAssumption
  <2>2. Rising(MaxLinks, V, p, step)
    <3> HIDE DEF step, V
    <3> QED BY <1>1, <2>1, RisingExists
  <2> QED BY <2>2 DEF Rising
<1>3. \A n \in 0 .. MaxLinks : f[n] = IF n = 0 THEN p ELSE Follow(fs, f[n - 1])
  <2> TAKE n \in 0 .. MaxLinks
  <2>1. f[n] = IF n = 0 THEN p ELSE step[n][f[n - 1]]
    BY <1>2
  <2>2. n # 0 => n - 1 \in 0 .. MaxLinks /\ n \in 1 .. MaxLinks
    BY LinksAssumption
  <2>3. n # 0 => step[n][f[n - 1]] = Follow(fs, f[n - 1])
    BY <2>2
  <2> QED BY <2>1, <2>3
<1> HIDE DEF step, V
<1>4. f = [n \in 0 .. MaxLinks |-> IF n = 0 THEN p ELSE Follow(fs, f[n - 1])]
  BY <1>3
<1>5. Q = [n \in 0 .. MaxLinks |-> IF n = 0 THEN p ELSE Follow(fs, Q[n - 1])]
  BY <1>4
<1>6. Following(fs, p) = Q
  BY DEF Following
<1> HIDE DEF Q
<1>7. \A n \in 0 .. MaxLinks : Q[n] = IF n = 0 THEN p ELSE Follow(fs, Q[n - 1])
  BY <1>5
<1>8. Q[0] = p /\ \A n \in 1 .. MaxLinks : Q[n] = Follow(fs, Q[n - 1])
  BY <1>7, LinksAssumption
<1>9. Q \in [0 .. MaxLinks -> V]
  <2> DEFINE S == {n \in 0 .. MaxLinks : Q[n] \in V}
  <2>1. 0 \in S
    BY <1>8, LinksAssumption DEF V
  <2>2. \A n \in 0 .. MaxLinks : n < MaxLinks /\ n \in S => n + 1 \in S
    <3> SUFFICES ASSUME NEW n \in 0 .. MaxLinks, n < MaxLinks, n \in S PROVE n + 1 \in S
      OBVIOUS
    <3>1. n + 1 \in 1 .. MaxLinks /\ (n + 1) - 1 = n
      BY LinksAssumption
    <3>2. Q[n + 1] = Follow(fs, Q[n])
      BY <1>8, <3>1
    <3>3. Q[n + 1] \in V
      BY <3>2, FollowIs DEF V
    <3> QED BY <3>1, <3>3
  <2>3. 0 .. MaxLinks \subseteq S
    <3> HIDE DEF S
    <3> QED BY <2>1, <2>2, CountsUp, LinksAssumption
  <2>4. \A n \in 0 .. MaxLinks : Q[n] \in V
    BY <2>3
  <2> QED BY <1>5, <2>4
<1> QED
  BY <1>6, <1>8, <1>9 DEF V

\* Where links have led to a directory, they lead no further.
LEMMA Settles ==
  ASSUME NEW fs, IsTree(fs), NEW p \in Seq(Segment), NEW n \in 0 .. MaxLinks,
         AllDirs(fs, Following(fs, p)[n])
  PROVE  Resolved(fs, p) = Following(fs, p)[n]
<1> DEFINE Q == Following(fs, p)
           S == {m \in 0 .. MaxLinks : m >= n => Q[m] = Q[n]}
<1>1. Q \in [0 .. MaxLinks -> Seq(Segment)] /\ \A m \in 1 .. MaxLinks : Q[m] = Follow(fs, Q[m - 1])
  BY FollowingUnfold
<1>2. AllDirs(fs, Q[n])
  OBVIOUS
<1> HIDE DEF Q
<1>3. Q[n] \in Seq(Segment)
  BY <1>1
<1>4. Follow(fs, Q[n]) = Q[n]
  BY <1>2, <1>3, AllDirsIs
<1>5. 0 \in S
  BY LinksAssumption
<1>6. \A m \in 0 .. MaxLinks : m < MaxLinks /\ m \in S => m + 1 \in S
  <2> SUFFICES ASSUME NEW m \in 0 .. MaxLinks, m < MaxLinks, m \in S, m + 1 >= n PROVE Q[m + 1] = Q[n]
    BY LinksAssumption
  <2>1. m + 1 \in 1 .. MaxLinks /\ (m + 1) - 1 = m
    BY LinksAssumption
  <2>2. CASE m + 1 = n
    BY <2>2
  <2>3. CASE m >= n
    BY <1>1, <1>4, <2>1, <2>3
  <2> QED BY <2>2, <2>3, LinksAssumption
<1>7. MaxLinks \in S
  <2>1. 0 .. MaxLinks \subseteq S
    <3> HIDE DEF S
    <3> QED BY <1>5, <1>6, CountsUp, LinksAssumption
  <2> QED BY <2>1, LinksAssumption
<1>8. Q[MaxLinks] = Q[n]
  BY <1>7, LinksAssumption
<1> QED
  BY <1>8 DEF Q, Resolved

\* A path leads to a path.
LEMMA ResolvedIs ==
  ASSUME NEW fs, IsTree(fs), NEW p \in Seq(Segment)
  PROVE  Resolved(fs, p) \in Seq(Segment)
  BY FollowingUnfold, LinksAssumption DEF Resolved

(***************************************************************************)
(* The names behind a path are no part of where it leads, unless it leads  *)
(* to a directory that has them.                                           *)
(***************************************************************************)
LEMMA ResolvedAlong ==
  ASSUME NEW fs, IsTree(fs), NEW p \in Seq(Segment), NEW r \in Seq(Segment),
         \/ ~AllDirs(fs, Resolved(fs, p))
         \/ r # <<>> /\ Kind(fs, Append(Resolved(fs, p), r[1])) = "none"
  PROVE  Resolved(fs, p \o r) = Resolved(fs, p) \o r
<1> DEFINE pr == p \o r
           Q == Following(fs, p)
           R == Following(fs, pr)
           S == {n \in 0 .. MaxLinks : R[n] = Q[n] \o r}
<1>1. pr \in Seq(Segment)
  BY Concatenated
<1> HIDE DEF pr
<1>2. /\ Q \in [0 .. MaxLinks -> Seq(Segment)] /\ Q[0] = p
      /\ \A n \in 1 .. MaxLinks : Q[n] = Follow(fs, Q[n - 1])
  BY FollowingUnfold
<1>3. R[0] = pr /\ \A n \in 1 .. MaxLinks : R[n] = Follow(fs, R[n - 1])
  BY <1>1, FollowingUnfold
<1>4. \A n \in 0 .. MaxLinks : AllDirs(fs, Q[n]) => Resolved(fs, p) = Q[n]
  <2> SUFFICES ASSUME NEW n \in 0 .. MaxLinks, AllDirs(fs, Following(fs, p)[n])
               PROVE  Resolved(fs, p) = Following(fs, p)[n]
    OBVIOUS
  <2> QED BY Settles
<1> HIDE DEF Q, R
<1>5. 0 \in S
  BY <1>2, <1>3, LinksAssumption DEF pr
<1>6. \A n \in 0 .. MaxLinks : n < MaxLinks /\ n \in S => n + 1 \in S
  <2> SUFFICES ASSUME NEW n \in 0 .. MaxLinks, n < MaxLinks, n \in S PROVE n + 1 \in S
    OBVIOUS
  <2>1. n + 1 \in 1 .. MaxLinks /\ n + 1 \in 0 .. MaxLinks /\ (n + 1) - 1 = n /\ R[n] = Q[n] \o r
    BY LinksAssumption
  <2>2. Q[n] \in Seq(Segment) /\ Q[n + 1] = Follow(fs, Q[n]) /\ R[n + 1] = Follow(fs, R[n])
    BY <1>2, <1>3, <2>1
  <2>3. CASE ~AllDirs(fs, Q[n])
    <3>1. Follow(fs, Q[n] \o r) = Follow(fs, Q[n]) \o r
      BY <2>2, <2>3, FollowAlong
    <3> QED BY <2>1, <2>2, <3>1
  <2>4. CASE AllDirs(fs, Q[n])
    <3>1. Resolved(fs, p) = Q[n]
      BY <1>4, <2>4
    <3>2. r # <<>> /\ Kind(fs, Append(Q[n], r[1])) = "none"
      BY <2>4, <3>1
    <3>3. Follow(fs, Q[n] \o r) = Q[n] \o r
      BY <2>2, <2>4, <3>2, StopMissing
    <3>4. Follow(fs, Q[n]) = Q[n]
      BY <2>2, <2>4, AllDirsIs
    <3> QED BY <2>1, <2>2, <3>3, <3>4
  <2> QED BY <2>3, <2>4
<1>7. MaxLinks \in S
  <2>1. 0 .. MaxLinks \subseteq S
    <3> HIDE DEF S
    <3> QED BY <1>5, <1>6, CountsUp, LinksAssumption
  <2> QED BY <2>1, LinksAssumption
<1>8. R[MaxLinks] = Q[MaxLinks] \o r
  BY <1>7
<1> QED
  BY <1>8 DEF Q, R, pr, Resolved

(***************************************************************************)
(* How a walk ends.                                                        *)
(***************************************************************************)
LEMMA OutcomeIs ==
  ASSUME NEW fs, IsTree(fs), NEW p \in Seq(Segment), NEW q, q = Resolved(fs, p)
  PROVE  /\ Outcome(fs, p) \in {"found", "missing", "loop", "not a directory"}
         /\ Outcome(fs, p) = "missing" <=> StopKind(fs, q) = "none"
         /\ Outcome(fs, p) = "loop" <=> StopKind(fs, q) = "link"
         /\ Outcome(fs, p) = "not a directory" <=> StopKind(fs, q) = "file" /\ Stop(fs, q) # Len(q)
         /\ AllDirs(fs, q) => Outcome(fs, p) = "found" /\ Kind(fs, q) = "dir"
         /\ Outcome(fs, p) = "found" /\ ~AllDirs(fs, q) =>
              StopKind(fs, q) = "file" /\ Stop(fs, q) = Len(q) /\ Kind(fs, q) = "file"
<1>1. q \in Seq(Segment)
  BY ResolvedIs
<1>2. StopKind(fs, q) \in {"dir", "file", "link", "none"}
  BY Kinds DEF StopKind
<1>3. AllDirs(fs, q) => StopKind(fs, q) = "dir" /\ Kind(fs, q) = "dir"
  BY <1>1, AllDirsIs
<1>4. ~AllDirs(fs, q) => StopKind(fs, q) # "dir"
  BY <1>1, StopIs DEF StopKind, IsStop
<1>5. StopKind(fs, q) = "file" /\ Stop(fs, q) = Len(q) => Kind(fs, q) = "file"
  <2>1. SubSeq(q, 1, Len(q)) = q
    BY <1>1
  <2> QED BY <2>1 DEF StopKind
<1>6. /\ StopKind(fs, q) = "dir"  => Outcome(fs, p) = "found"
      /\ StopKind(fs, q) = "none" => Outcome(fs, p) = "missing"
      /\ StopKind(fs, q) = "link" => Outcome(fs, p) = "loop"
      /\ StopKind(fs, q) = "file" => Outcome(fs, p) = IF Stop(fs, q) = Len(q) THEN "found" ELSE "not a directory"
  BY DEF Outcome
<1> QED
  BY <1>2, <1>3, <1>4, <1>5, <1>6

\* A walk that has failed fails in the same way however the path goes on;
\* one that has found a file fails when the path goes on.
LEMMA OutcomeAlong ==
  ASSUME NEW fs, IsTree(fs), NEW p \in Seq(Segment), NEW r \in Seq(Segment), ~AllDirs(fs, Resolved(fs, p))
  PROVE  /\ Outcome(fs, p) # "found" => Outcome(fs, p \o r) = Outcome(fs, p)
         /\ Outcome(fs, p) = "found" /\ r # <<>> => Outcome(fs, p \o r) = "not a directory"
<1> DEFINE q == Resolved(fs, p)
           pr == p \o r
           qr == q \o r
<1>1. q \in Seq(Segment)
  BY ResolvedIs
<1>2. Resolved(fs, pr) = qr
  BY ResolvedAlong
<1>3. ~AllDirs(fs, q) /\ q = Resolved(fs, p)
  OBVIOUS
<1> HIDE DEF q
<1>4. /\ Stop(fs, q) \in 1 .. Len(q) /\ StopKind(fs, q) # "dir"
      /\ Stop(fs, qr) = Stop(fs, q) /\ StopKind(fs, qr) = StopKind(fs, q)
  BY <1>1, <1>3, StopBehind
<1>5. Len(qr) = Len(q) + Len(r) /\ Len(q) \in Nat /\ Len(r) \in Nat /\ (r # <<>> => Len(r) > 0)
  BY <1>1, Concatenated
<1>6. pr \in Seq(Segment)
  BY Concatenated
<1> HIDE DEF qr, pr
<1>7. Stop(fs, q) # Len(q) => Stop(fs, qr) # Len(qr)
  BY <1>4, <1>5
<1>8. r # <<>> => Stop(fs, qr) # Len(qr)
  BY <1>4, <1>5
<1>9. /\ Outcome(fs, p) \in {"found", "missing", "loop", "not a directory"}
      /\ Outcome(fs, p) = "missing" <=> StopKind(fs, q) = "none"
      /\ Outcome(fs, p) = "loop" <=> StopKind(fs, q) = "link"
      /\ Outcome(fs, p) = "not a directory" <=> StopKind(fs, q) = "file" /\ Stop(fs, q) # Len(q)
      /\ Outcome(fs, p) = "found" /\ ~AllDirs(fs, q) => StopKind(fs, q) = "file" /\ Stop(fs, q) = Len(q)
  BY <1>3, OutcomeIs
<1>10. /\ Outcome(fs, pr) = "missing" <=> StopKind(fs, qr) = "none"
       /\ Outcome(fs, pr) = "loop" <=> StopKind(fs, qr) = "link"
       /\ Outcome(fs, pr) = "not a directory" <=> StopKind(fs, qr) = "file" /\ Stop(fs, qr) # Len(qr)
  BY <1>2, <1>6, OutcomeIs
<1>11. Outcome(fs, p) # "found" => Outcome(fs, pr) = Outcome(fs, p)
  BY <1>4, <1>7, <1>9, <1>10
<1>12. Outcome(fs, p) = "found" /\ r # <<>> => Outcome(fs, pr) = "not a directory"
  BY <1>3, <1>4, <1>8, <1>9, <1>10
<1> QED
  BY <1>11, <1>12 DEF pr

\* A name that a directory does not have is missing, with all behind it.
LEMMA OutcomeMissing ==
  ASSUME NEW fs, IsTree(fs), NEW p \in Seq(Segment), NEW r \in Seq(Segment), AllDirs(fs, Resolved(fs, p)),
         r # <<>>, Kind(fs, Append(Resolved(fs, p), r[1])) = "none"
  PROVE  Outcome(fs, p \o r) = "missing" /\ Resolved(fs, p \o r) = Resolved(fs, p) \o r
<1>1. Resolved(fs, p \o r) = Resolved(fs, p) \o r
  BY ResolvedAlong
<1>2. StopKind(fs, Resolved(fs, p) \o r) = "none"
  BY ResolvedIs, StopMissing
<1>3. p \o r \in Seq(Segment)
  BY Concatenated
<1>4. Outcome(fs, p \o r) = "missing"
  <2> DEFINE pr == p \o r
             qr == Resolved(fs, p) \o r
  <2>1. pr \in Seq(Segment) /\ qr = Resolved(fs, pr) /\ StopKind(fs, qr) = "none"
    BY <1>1, <1>2, <1>3
  <2> HIDE DEF pr, qr
  <2>2. Outcome(fs, pr) = "missing"
    BY <2>1, OutcomeIs
  <2> QED BY <2>2 DEF pr
<1> QED
  BY <1>1, <1>4

\* "/" is there.
LEMMA SlashIs ==
  ASSUME NEW fs, IsTree(fs)
  PROVE  Resolved(fs, <<>>) = <<>> /\ Outcome(fs, <<>>) = "found" /\ Lstat(fs, <<>>) = "ok"
<1> DEFINE e == <<>>
<1>1. e \in Seq(Segment) /\ AllDirs(fs, e)
  BY DEF AllDirs
<1>2. 0 \in 0 .. MaxLinks
  BY LinksAssumption
<1>3. Lstat(fs, e) = "ok"
  BY DEF Lstat
<1> HIDE DEF e
<1>4. Following(fs, e)[0] = e
  BY <1>1, FollowingUnfold
<1>5. AllDirs(fs, Following(fs, e)[0])
  BY <1>1, <1>4
<1>6. Resolved(fs, e) = e
  BY <1>1, <1>2, <1>4, <1>5, Settles
<1>7. Outcome(fs, e) = "found"
  BY <1>1, <1>6, OutcomeIs
<1> QED
  BY <1>3, <1>6, <1>7 DEF e

\* What there is at the next name.
LEMMA LstatNext ==
  ASSUME NEW fs, IsTree(fs), NEW p \in Seq(Segment), NEW name \in Segment
  PROVE  LET to == Append(Resolved(fs, p), name) IN
         /\ Lstat(fs, Append(p, name)) = "error" =>
              Outcome(fs, Append(p, name)) \in {"not a directory", "loop"}
         /\ Lstat(fs, Append(p, name)) = "not exist" /\ Outcome(fs, p) = "found" =>
              AllDirs(fs, Resolved(fs, p)) /\ Kind(fs, to) = "none"
<1> DEFINE q == Resolved(fs, p)
           pn == Append(p, name)
           why == Outcome(fs, p)
<1>1. pn # <<>> /\ Front(pn) = p /\ Last(pn) = name
  BY DEF Front, Last
<1>2. pn = p \o <<name>> /\ <<name>> \in Seq(Segment) /\ <<name>> # <<>>
  OBVIOUS
<1>3. Lstat(fs, pn) = CASE why = "missing" -> "not exist"
                        [] why \in {"not a directory", "loop"} -> "error"
                        [] why = "found" -> IF Kind(fs, q) = "file" THEN "error"
                                            ELSE IF Kind(fs, Append(q, name)) = "none" THEN "not exist" ELSE "ok"
  <2> HIDE DEF pn
  <2> QED BY <1>1 DEF Lstat
<1>4. /\ why \in {"found", "missing", "loop", "not a directory"}
      /\ AllDirs(fs, q) => why = "found" /\ Kind(fs, q) = "dir"
      /\ why = "found" /\ ~AllDirs(fs, q) => Kind(fs, q) = "file"
  BY OutcomeIs
<1>5. /\ ~AllDirs(fs, q) /\ why # "found" => Outcome(fs, pn) = why
      /\ ~AllDirs(fs, q) /\ why = "found" => Outcome(fs, pn) = "not a directory"
  <2> DEFINE t == <<name>>
  <2>1. pn = p \o t /\ t \in Seq(Segment) /\ t # <<>>
    BY <1>2
  <2> SUFFICES ASSUME ~AllDirs(fs, q)
               PROVE  /\ why # "found" => Outcome(fs, pn) = why
                      /\ why = "found" => Outcome(fs, pn) = "not a directory"
    OBVIOUS
  <2> HIDE DEF t, pn
  <2>2. /\ why # "found" => Outcome(fs, p \o t) = why
        /\ why = "found" => Outcome(fs, p \o t) = "not a directory"
    BY <2>1, OutcomeAlong
  <2> QED BY <2>1, <2>2
<1> HIDE DEF q, pn, why
<1>6. Lstat(fs, pn) = "error" => Outcome(fs, pn) \in {"not a directory", "loop"}
  <2>1. CASE why = "missing"
    BY <1>3, <2>1
  <2>2. CASE why \in {"not a directory", "loop"}
    BY <1>4, <1>5, <2>2
  <2>3. CASE why = "found"
    <3>1. Lstat(fs, pn) = "error" => Kind(fs, q) = "file"
      BY <1>3, <2>3
    <3> QED BY <1>4, <1>5, <2>3, <3>1
  <2> QED BY <1>4, <2>1, <2>2, <2>3
<1>7. Lstat(fs, pn) = "not exist" /\ why = "found" => Kind(fs, q) # "file" /\ Kind(fs, Append(q, name)) = "none"
  BY <1>3
<1> QED
  BY <1>4, <1>6, <1>7 DEF q, pn, why

\* Some numbers up to n, one at least, have a greatest.
LEMMA GreatestExists ==
  ASSUME NEW n \in Nat, NEW S \in SUBSET (0 .. n), S # {}
  PROVE  \E k \in S : \A i \in S : i <= k
<1> DEFINE M == {j \in 0 .. n : n - j \in S}
<1>1. M \in SUBSET Nat /\ M # {}
  <2>1. PICK i \in S : TRUE
    OBVIOUS
  <2>2. n - i \in M
    BY <2>1
  <2>3. \A j \in M : j \in Nat
    OBVIOUS
  <2> HIDE DEF M
  <2> QED BY <2>2, <2>3
<1>2. Least(M) \in M /\ \A y \in M : Least(M) <= y
  <2> HIDE DEF M
  <2> QED BY <1>1, LeastExists
<1>3. PICK j \in M : \A y \in M : j <= y
  BY <1>2
<1>4. ASSUME NEW i \in S PROVE i <= n - j
  <2>1. n - i \in M /\ i \in 0 .. n /\ j \in 0 .. n
    OBVIOUS
  <2>2. j <= n - i
    BY <1>3, <2>1
  <2> HIDE DEF M
  <2> QED BY <2>1, <2>2
<1> QED
  BY <1>3, <1>4

\* The name at the end.
LEMMA FrontLast ==
  ASSUME NEW p \in Seq(Segment), p # <<>>
  PROVE  \E f \in Seq(Segment), l \in Segment : p = Append(f, l)
<1> DEFINE f == SubSeq(p, 1, Len(p) - 1)
           l == p[Len(p)]
           g == Append(f, l)
<1>1. f \in Seq(Segment) /\ Len(f) = Len(p) - 1 /\ \A i \in 1 .. Len(p) - 1 : f[i] = p[i]
  <2>1. Len(p) - 1 \in 0 .. Len(p)
    OBVIOUS
  <2>2. f \in Seq(Segment) /\ Len(f) = Len(p) - 1
    BY <2>1, PathCut
  <2>3. \A i \in 1 .. Len(p) - 1 : f[i] = p[i]
    OBVIOUS
  <2> QED BY <2>2, <2>3
<1>2. l \in Segment
  OBVIOUS
<1> HIDE DEF f
<1>3. g \in Seq(Segment) /\ Len(g) = Len(p) /\ g[Len(p)] = l /\ \A i \in 1 .. Len(p) - 1 : g[i] = f[i]
  BY <1>1, <1>2
<1>4. ASSUME NEW i \in 1 .. Len(p) PROVE g[i] = p[i]
  <2> HIDE DEF g
  <2>1. CASE i = Len(p)
    BY <1>3, <2>1
  <2>2. CASE i # Len(p)
    <3>1. i \in 1 .. Len(p) - 1
      BY <2>2
    <3> QED BY <1>1, <1>3, <3>1
  <2> QED BY <2>1, <2>2
<1>5. p = g
  <2> HIDE DEF g
  <2> QED BY <1>3, <1>4, SameSequence
<1> QED
  BY <1>1, <1>2, <1>5

\* resolveExisting comes to a name that exists.
LEMMA ExistingIs ==
  ASSUME NEW fs, IsTree(fs), NEW p \in Seq(Segment)
  PROVE  /\ Existing(fs, p) \in 0 .. Len(p)
         /\ Lstat(fs, SubSeq(p, 1, Existing(fs, p))) # "not exist"
         /\ \A i \in Existing(fs, p) + 1 .. Len(p) : Lstat(fs, SubSeq(p, 1, i)) = "not exist"
<1> DEFINE n == Len(p)
           Here(i) == Lstat(fs, SubSeq(p, 1, i)) # "not exist"
           H == {i \in 0 .. n : Here(i)}
<1>1. 0 \in H
  <2>1. SubSeq(p, 1, 0) = <<>>
    OBVIOUS
  <2>2. Lstat(fs, <<>>) # "not exist"
    BY SlashIs
  <2>3. Here(0)
    BY <2>1, <2>2, Zenon
  <2> HIDE DEF Here
  <2> QED BY <2>3
<1>2. PICK k \in H : \A i \in H : i <= k
  <2>1. H \subseteq 0 .. n
    <3> HIDE DEF Here, n
    <3> QED OBVIOUS
  <2>2. n \in Nat
    OBVIOUS
  <2> HIDE DEF H, n
  <2> QED BY <1>1, <2>1, <2>2, GreatestExists
<1>3. k \in 0 .. n /\ Here(k)
  OBVIOUS
<1>4. ASSUME NEW i \in k + 1 .. n PROVE ~Here(i)
  <2> HIDE DEF Here
  <2>1. i \in 0 .. n /\ ~(i <= k)
    BY <1>3
  <2> QED BY <1>2, <2>1
<1> DEFINE Only(j) == Here(j) /\ \A i \in j + 1 .. n : ~Here(i)
<1>5. Existing(fs, p) = CHOOSE j \in 0 .. n : Only(j)
  BY DEF Existing
<1>6. Only(k)
  BY <1>3, <1>4
<1>7. Existing(fs, p) \in 0 .. n /\ Only(Existing(fs, p))
  <2> HIDE DEF Only
  <2> QED BY <1>3, <1>5, <1>6
<1> QED
  BY <1>7

(***************************************************************************)
(* resolveExisting succeeds where it should, and then says where the path  *)
(* leads.                                                                  *)
(***************************************************************************)
Sound(fs, p) == Outcome(fs, p) \in {"found", "missing"} /\ ~Dangling(fs, p)

LEMMA ResolvesSoundly ==
  ASSUME NEW fs, IsTree(fs), NEW p \in Seq(Segment)
  PROVE  /\ ~ResolveExisting(fs, p).err <=> Sound(fs, p)
         /\ Sound(fs, p) => ResolveExisting(fs, p).path = Resolved(fs, p)
<1> DEFINE n == Len(p)
           k == Existing(fs, p)
           c == SubSeq(p, 1, k)
           r == SubSeq(p, k + 1, n)
<1>0. k \in 0 .. n /\ n \in Nat
  <2>1. k \in 0 .. n
    BY ExistingIs
  <2>2. n \in Nat
    OBVIOUS
  <2> QED BY <2>1, <2>2
<1>1. Lstat(fs, c) # "not exist" /\ \A i \in k + 1 .. n : Lstat(fs, SubSeq(p, 1, i)) = "not exist"
  BY ExistingIs
<1>2. ResolveExisting(fs, p) = [err |-> Lstat(fs, c) = "error" \/ Outcome(fs, c) # "found", path |-> Resolved(fs, c) \o r]
  BY DEF ResolveExisting
<1> HIDE DEF k
<1>3. c \in Seq(Segment) /\ Len(c) = k /\ r \in Seq(Segment) /\ Len(r) = n - k /\ p = c \o r
  BY <1>0, PathCut
\* The beginnings of the path up to there.
<1>5. \A j \in 0 .. k : \E t \in Seq(Segment) : c = SubSeq(p, 1, j) \o t /\ SubSeq(p, 1, j) \in Seq(Segment)
  <2> SUFFICES ASSUME NEW j \in 0 .. k PROVE \E t \in Seq(Segment) : c = SubSeq(p, 1, j) \o t /\ SubSeq(p, 1, j) \in Seq(Segment)
    OBVIOUS
  <2>1. SubSeq(c, 1, j) \in Seq(Segment) /\ SubSeq(c, j + 1, Len(c)) \in Seq(Segment)
        /\ c = SubSeq(c, 1, j) \o SubSeq(c, j + 1, Len(c))
    <3> HIDE DEF c
    <3> QED BY <1>3, PathCut
  <2>2. SubSeq(p, 1, j) = SubSeq(c, 1, j)
    <3> HIDE DEF c, r
    <3>1. j \in 0 .. Len(c)
      BY <1>3
    <3>2. SubSeq(c \o r, 1, j) = SubSeq(c, 1, j)
      BY <1>3, <3>1, CutBefore
    <3> QED BY <1>3, <3>2
  <2> QED BY <2>1, <2>2
\* The first name that is missing.
<1>6. r # <<>> => r[1] \in Segment /\ Lstat(fs, Append(c, r[1])) = "not exist"
  <2> SUFFICES ASSUME r # <<>> PROVE r[1] \in Segment /\ Lstat(fs, Append(c, r[1])) = "not exist"
    OBVIOUS
  <2> HIDE DEF c, r
  <2>1. r[1] \in Segment
    BY <1>3
  <2>2. SubSeq(p, 1, k + 1) = Append(c, r[1])
    BY <1>3, NextName
  <2>3. Len(r) > 0
    BY <1>3
  <2>4. k + 1 \in k + 1 .. n
    <3>1. n - k > 0
      BY <1>3, <2>3
    <3> HIDE DEF n
    <3> QED BY <1>0, <3>1
  <2> QED BY <1>1, <2>1, <2>2, <2>4
\* The last name that exists.
<1>7. Lstat(fs, c) = "error" => Outcome(fs, c) \in {"not a directory", "loop"}
  <2>1. CASE c = <<>>
    BY <2>1, SlashIs
  <2>2. CASE c # <<>>
    <3> HIDE DEF c
    <3>1. PICK f \in Seq(Segment), l \in Segment : c = Append(f, l)
      BY <1>3, <2>2, FrontLast
    <3> QED BY <3>1, LstatNext
  <2> QED BY <2>1, <2>2
<1>8. Lstat(fs, c) \in {"ok", "error"} /\ (k = 0 => Outcome(fs, c) = "found")
  <2>1. Lstat(fs, c) \in {"ok", "error", "not exist"}
    <3>1. CASE c = <<>>
      BY <3>1, SlashIs
    <3>2. CASE c # <<>>
      <4> HIDE DEF c
      <4>1. Front(c) \in Seq(Segment)
        BY <1>3, <3>2 DEF Front
      <4>2. Outcome(fs, Front(c)) \in {"found", "missing", "loop", "not a directory"}
        BY <4>1, OutcomeIs
      <4> QED BY <3>2, <4>2 DEF Lstat
    <3> QED BY <3>1, <3>2
  <2>2. k = 0 => c = <<>>
    OBVIOUS
  <2> HIDE DEF c
  <2> QED BY <1>1, <2>1, <2>2, SlashIs
<1>9. Outcome(fs, c) \in {"found", "missing", "loop", "not a directory"}
  BY <1>3, OutcomeIs
<1>10. Dangling(fs, p) <=> \E j \in 1 .. n : Lstat(fs, SubSeq(p, 1, j)) = "ok" /\ Outcome(fs, SubSeq(p, 1, j)) = "missing"
  BY DEF Dangling
<1> HIDE DEF r, n
<1>11. ASSUME Lstat(fs, c) # "error", Outcome(fs, c) = "found"
       PROVE  Sound(fs, p) /\ Resolved(fs, p) = Resolved(fs, c) \o r
  <2>1. Outcome(fs, p) \in {"found", "missing"} /\ Resolved(fs, p) = Resolved(fs, c) \o r
    <3> HIDE DEF c
    <3>1. CASE r = <<>>
      <4>1. p = c /\ Resolved(fs, c) \o r = Resolved(fs, c)
        BY <1>3, <3>1, ResolvedIs
      <4> QED BY <1>11, <4>1
    <3>2. CASE r # <<>>
      <4>1. AllDirs(fs, Resolved(fs, c)) /\ Kind(fs, Append(Resolved(fs, c), r[1])) = "none"
        BY <1>3, <1>6, <1>11, <3>2, LstatNext
      <4>2. Outcome(fs, c \o r) = "missing" /\ Resolved(fs, c \o r) = Resolved(fs, c) \o r
        BY <1>3, <3>2, <4>1, OutcomeMissing
      <4> QED BY <1>3, <4>2
    <3> QED BY <3>1, <3>2
  <2>2. ~Dangling(fs, p)
    <3> SUFFICES ASSUME NEW j \in 1 .. n, Lstat(fs, SubSeq(p, 1, j)) = "ok", Outcome(fs, SubSeq(p, 1, j)) = "missing"
                 PROVE  FALSE
      BY <1>10
    <3>1. j \in 0 .. k
      <4>1. j \notin k + 1 .. n
        BY <1>1
      <4> QED BY <1>0, <4>1
    <3> DEFINE b == SubSeq(p, 1, j)
    <3>2. PICK t \in Seq(Segment) : c = b \o t /\ b \in Seq(Segment)
      BY <1>5, <3>1
    <3>3. Outcome(fs, b) = "missing"
      OBVIOUS
    <3> HIDE DEF b, c
    <3>4. ~AllDirs(fs, Resolved(fs, b))
      BY <3>2, <3>3, OutcomeIs
    <3>5. Outcome(fs, b \o t) = "missing"
      BY <3>2, <3>3, <3>4, OutcomeAlong
    <3> QED BY <1>11, <3>2, <3>5
  <2> QED BY <2>1, <2>2 DEF Sound
<1>12. ASSUME Sound(fs, p) PROVE Lstat(fs, c) # "error" /\ Outcome(fs, c) = "found"
  <2>1. Outcome(fs, p) \in {"found", "missing"} /\ ~Dangling(fs, p)
    BY <1>12 DEF Sound
  <2>2. Outcome(fs, c) \notin {"not a directory", "loop"}
    <3> SUFFICES ASSUME Outcome(fs, c) \in {"not a directory", "loop"} PROVE FALSE
      OBVIOUS
    <3> HIDE DEF c
    <3>1. ~AllDirs(fs, Resolved(fs, c))
      BY <1>3, OutcomeIs
    <3>2. Outcome(fs, c \o r) = Outcome(fs, c)
      BY <1>3, <3>1, OutcomeAlong
    <3> QED BY <1>3, <2>1, <3>2
  <2>3. Lstat(fs, c) = "ok"
    BY <1>7, <1>8, <2>2
  <2>4. Outcome(fs, c) # "missing"
    <3> SUFFICES ASSUME Outcome(fs, c) = "missing" PROVE FALSE
      OBVIOUS
    <3>1. k # 0
      BY <1>8
    <3>2. k \in 1 .. n
      BY <1>0, <3>1
    <3> QED BY <1>10, <2>1, <2>3, <3>2
  <2> QED BY <1>9, <2>2, <2>3, <2>4
<1>4. ResolveExisting(fs, p).err <=> Lstat(fs, c) = "error" \/ Outcome(fs, c) # "found"
  <2> DEFINE e == Lstat(fs, c) = "error" \/ Outcome(fs, c) # "found"
             x == Resolved(fs, c) \o r
  <2>1. ResolveExisting(fs, p) = [err |-> e, path |-> x]
    BY <1>2
  <2> HIDE DEF e, x
  <2>2. ResolveExisting(fs, p).err = e
    BY <2>1
  <2> QED BY <2>2 DEF e
<1>13. /\ ~ResolveExisting(fs, p).err <=> Lstat(fs, c) # "error" /\ Outcome(fs, c) = "found"
       /\ ResolveExisting(fs, p).path = Resolved(fs, c) \o r
  BY <1>2, <1>4
<1> HIDE DEF c
<1> QED
  BY <1>11, <1>12, <1>13, Zenon

(***************************************************************************)
(* A cleaned path is a path.                                               *)
(***************************************************************************)
\* One segment of it.
LEMMA CleanStepIs ==
  ASSUME NEW rooted, NEW out \in Seq(Segment), NEW seg \in Segment
  PROVE  CleanStep(rooted, out, seg) \in Seq(Segment)
<1>1. out # <<>> => Front(out) \in Seq(Segment)
  BY DEF Front
<1>2. Append(out, seg) \in Seq(Segment)
  OBVIOUS
<1>3. ".." \in Segment
  BY PathAssumption
<1>4. Append(out, "..") \in Seq(Segment)
  BY <1>3
<1> QED
  BY <1>1, <1>2, <1>4, Zenon DEF CleanStep

\* All its segments.
LEMMA CleanIs ==
  ASSUME NEW rooted, NEW segs \in Seq(Segment)
  PROVE  Clean(rooted, segs) \in Seq(Segment)
<1> DEFINE n == Len(segs)
           V == Seq(Segment)
           step == [k \in 1 .. n |-> [out \in V |-> CleanStep(rooted, out, segs[k])]]
           C == CHOOSE f : f = [k \in 0 .. n |-> IF k = 0 THEN <<>> ELSE CleanStep(rooted, f[k - 1], segs[k])]
<1>1. n \in Nat /\ \A k \in 1 .. n : segs[k] \in Segment
  OBVIOUS
<1>2. <<>> \in V
  OBVIOUS
<1>3. \A k \in 1 .. n : \A out \in V : CleanStep(rooted, out, segs[k]) \in V
  BY <1>1, CleanStepIs
<1> HIDE DEF n, V
<1>4. step \in [1 .. n -> [V -> V]]
  BY <1>3
<1>5. PICK f \in [0 .. n -> V] : \A k \in 0 .. n : f[k] = IF k = 0 THEN <<>> ELSE step[k][f[k - 1]]
  <2>1. Rising(n, V, <<>>, step)
    <3> HIDE DEF step
    <3> QED BY <1>1, <1>2, <1>4, RisingExists
  <2> QED BY <2>1 DEF Rising
<1>6. \A k \in 0 .. n : f[k] = IF k = 0 THEN <<>> ELSE CleanStep(rooted, f[k - 1], segs[k])
  <2> TAKE k \in 0 .. n
  <2>1. f[k] = IF k = 0 THEN <<>> ELSE step[k][f[k - 1]]
    BY <1>5
  <2>2. k # 0 => k - 1 \in 0 .. n /\ k \in 1 .. n
    BY <1>1
  <2>3. k # 0 => step[k][f[k - 1]] = CleanStep(rooted, f[k - 1], segs[k])
    BY <2>2
  <2> QED BY <2>1, <2>3
<1> HIDE DEF step
<1>7. f = [k \in 0 .. n |-> IF k = 0 THEN <<>> ELSE CleanStep(rooted, f[k - 1], segs[k])]
  BY <1>6
<1>8. C = [k \in 0 .. n |-> IF k = 0 THEN <<>> ELSE CleanStep(rooted, C[k - 1], segs[k])]
  BY <1>7
<1>9. Clean(rooted, segs) = C[n]
  BY DEF Clean, n
<1> HIDE DEF C
<1>10. \A k \in 0 .. n : C[k] = IF k = 0 THEN <<>> ELSE CleanStep(rooted, C[k - 1], segs[k])
  BY <1>8
<1> DEFINE S == {k \in 0 .. n : C[k] \in V}
<1>11. 0 \in S
  <2>1. 0 \in 0 .. n
    BY <1>1
  <2>2. C[0] = <<>>
    BY <1>10, <2>1
  <2> QED BY <1>2, <2>1, <2>2, Zenon
<1>12. \A k \in 0 .. n : k < n /\ k \in S => k + 1 \in S
  <2> SUFFICES ASSUME NEW k \in 0 .. n, k < n, k \in S PROVE k + 1 \in S
    OBVIOUS
  <2>1. k + 1 \in 1 .. n /\ k + 1 \in 0 .. n /\ k + 1 # 0 /\ (k + 1) - 1 = k
    BY <1>1
  <2>2. C[k + 1] = CleanStep(rooted, C[k], segs[k + 1])
    BY <1>10, <2>1
  <2>3. C[k + 1] \in V
    BY <1>3, <2>1, <2>2
  <2> QED BY <2>1, <2>3
<1>13. n \in S
  <2>1. 0 .. n \subseteq S
    <3> HIDE DEF S
    <3> QED BY <1>1, <1>11, <1>12, CountsUp
  <2> QED BY <1>1, <2>1
<1> QED
  BY <1>9, <1>13 DEF V

\* What SafeJoin returns does what it should, for every path there can be.
LEMMA JoinConfines ==
  ASSUME NEW fs \in FileSystems, NEW rooted, NEW segs \in Segments, NEW res, res = SafeJoin(fs, Root, rooted, segs)
  PROVE  res.ok <=> /\ IsPrefix(Root, res.path) /\ IsPrefix(Root, Resolved(fs, res.path))
                    /\ Sound(fs, res.path)
<1> DEFINE p == Join(Root, Clean(rooted, segs))
           r == ResolveExisting(fs, p)
           ok == IsWithinRoot(Root, p) /\ ~r.err /\ IsWithinRoot(Root, r.path)
<1>1. IsTree(fs)
  BY PathAssumption DEF IsTree
<1>2. p \in Seq(Segment)
  <2>1. Clean(rooted, segs) \in Seq(Segment)
    BY CleanIs, PathAssumption
  <2>2. Root \o Clean(rooted, segs) \in Seq(Segment)
    BY <2>1, Concatenated, PathAssumption
  <2> QED BY <2>2, CleanIs DEF Join
<1>3. res = [ok |-> ok, path |-> p]
  BY DEF SafeJoin
<1> HIDE DEF p
<1>4. /\ ~r.err <=> Sound(fs, p)
      /\ Sound(fs, p) => r.path = Resolved(fs, p)
  BY <1>1, <1>2, ResolvesSoundly
<1> HIDE DEF r
<1>5. ok <=> IsPrefix(Root, p) /\ IsPrefix(Root, Resolved(fs, p)) /\ Sound(fs, p)
  BY <1>4 DEF IsWithinRoot
<1> HIDE DEF ok
<1>6. res.ok = ok /\ res.path = p
  BY <1>3
<1> QED
  BY <1>5, <1>6

(***************************************************************************)
(* Every path that SafeJoin returns leads into the served directory, and   *)
(* it refuses none that does.                                              *)
(***************************************************************************)
JoinInv == path \in Paths /\ (joined => place = SafeJoin(path.fs, Root, path.rooted, path.segs))

THEOREM SafeJoinIsConfining == JoinSpec => []SafeJoinConfines
<1>1. JoinInit => JoinInv
  BY DEF JoinInit, JoinInv
<1>2. JoinInv /\ [RunSafeJoin]_joinVars => JoinInv'
  <2> SUFFICES ASSUME JoinInv, [RunSafeJoin]_joinVars PROVE JoinInv'
    OBVIOUS
  <2>1. CASE RunSafeJoin
    BY <2>1 DEF RunSafeJoin, JoinInv
  <2>2. CASE UNCHANGED joinVars
    BY <2>2 DEF joinVars, JoinInv
  <2> QED BY <2>1, <2>2
<1>3. JoinInv => SafeJoinConfines
  <2> SUFFICES ASSUME JoinInv, joined PROVE SafeJoinConfines
    BY DEF SafeJoinConfines
  <2>1. path.fs \in FileSystems /\ path.segs \in Segments
    BY DEF JoinInv, Paths
  <2>2. place = SafeJoin(path.fs, Root, path.rooted, path.segs)
    BY DEF JoinInv
  <2>3. place.ok <=> /\ IsPrefix(Root, place.path) /\ IsPrefix(Root, Resolved(path.fs, place.path))
                     /\ Sound(path.fs, place.path)
    BY <2>1, <2>2, JoinConfines
  <2> QED BY <2>3 DEF SafeJoinConfines, Sound
<1> QED
  BY <1>1, <1>2, <1>3, PTL DEF JoinSpec
=============================================================================
