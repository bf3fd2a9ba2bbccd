---------------------------- MODULE ServerDrain ----------------------------
(***************************************************************************)
(* One of the servers, run and stopped the way its callers do it:          *)
(*   "replace"  Supervisor.Replace and Remove: Shutdown with a deadline,   *)
(*              then cancel (internal/server/server.go, 129-137, 158-179); *)
(*   "run"      Supervisor.Run: the context is cancelled, then Shutdown    *)
(*              (202-231);                                                 *)
(*   "alone"    a caller that cancels the context and relies on Start.     *)
(* Whatever the order, runEntry cancels the context of an attempt once its *)
(* Start has returned (259-261).                                           *)
(***************************************************************************)
EXTENDS FiniteSets

CONSTANTS Conn, Denied, NoConn

ASSUME DrainAssumption == Denied \subseteq Conn /\ NoConn \notin Conn

VARIABLES
  target,   \* the server that runs
  order,    \* the way it is stopped
  ctx,      \* the context of Start is done
  sd,       \* the call of Shutdown: "none", "called", "waiting", "returned"
  due,      \* its deadline has passed
  gStart, gUdp, gLis, gUdpLoop, gAccLoop, gHeld, gLink, gConns, gHandler, gStore, gEarly, gLate, gRefused,
  fStart, fLis, fDown, fLink, fHandler, fSess,
  wStart, wLis, wStreams, wLate

run    == <<ctx, sd, due>>
syslog == <<gStart, gUdp, gLis, gUdpLoop, gAccLoop, gHeld, gLink, gConns, gHandler, gStore, gEarly, gLate, gRefused>>
sftp   == <<fStart, fLis, fDown, fLink, fHandler, fSess>>
web    == <<wStart, wLis, wStreams, wLate>>
vars   == <<target, order, run, syslog, sftp, web>>

G == INSTANCE SyslogServer WITH
       start <- gStart, udp <- gUdp, lis <- gLis, udpLoop <- gUdpLoop, accLoop <- gAccLoop,
       held <- gHeld, link <- gLink, tcpConns <- gConns, handler <- gHandler, store <- gStore,
       early <- gEarly, late <- gLate, refused <- gRefused
F == INSTANCE SftpServer WITH
       start <- fStart, lis <- fLis, shuttingDown <- fDown, link <- fLink,
       handler <- fHandler, sess <- fSess
W == INSTANCE WebServer WITH
       Client <- Conn, start <- wStart, lis <- wLis, streams <- wStreams, late <- wLate

TypeOK ==
  /\ target \in {"syslog", "sftp", "webui"} /\ order \in {"replace", "run", "alone"}
  /\ ctx \in BOOLEAN /\ sd \in {"none", "called", "waiting", "returned"} /\ due \in BOOLEAN
  /\ G!SyslogTypeOK /\ F!SftpTypeOK /\ W!WebTypeOK

Init ==
  /\ target \in {"syslog", "sftp", "webui"}
  /\ order \in {"replace", "run", "alone"}
  /\ ctx = FALSE /\ sd = "none" /\ due = FALSE
  /\ G!SyslogInit /\ F!SftpInit /\ W!WebInit

(***************************************************************************)
(* The result of Start.                                                    *)
(***************************************************************************)
StartPc  == CASE target = "syslog" -> gStart [] target = "sftp" -> fStart [] target = "webui" -> wStart
Returned == StartPc \in {"returned", "failed"}

CallShutdown ==
  /\ sd = "none"
  /\ order = "replace" \/ (order = "run" /\ ctx)
  /\ sd' = "called"
  /\ UNCHANGED <<target, order, ctx, due, syslog, sftp, web>>

Cancel ==
  /\ ~ctx
  /\ order \in {"run", "alone"} \/ sd = "returned" \/ Returned
  /\ ctx' = TRUE
  /\ UNCHANGED <<target, order, sd, due, syslog, sftp, web>>

Deadline ==
  /\ sd = "waiting" /\ ~due
  /\ due' = TRUE
  /\ UNCHANGED <<target, order, ctx, sd, syslog, sftp, web>>

SyslogStep(A) == A /\ target = "syslog" /\ UNCHANGED <<target, order, sftp, web>>
SftpStep(A)   == A /\ target = "sftp" /\ UNCHANGED <<target, order, syslog, web>>
WebStep(A)    == A /\ target = "webui" /\ UNCHANGED <<target, order, syslog, sftp>>

Next ==
  \/ CallShutdown \/ Cancel \/ Deadline
  \/ SyslogStep(G!SyslogNext)
  \/ SftpStep(F!SftpNext)
  \/ WebStep(W!WebNext)

(***************************************************************************)
(* Every goroutine that can go on does, timers fire, Shutdown is called    *)
(* after a cancelled context and the context cancelled after Shutdown;     *)
(* nothing is assumed of the clients, or that anybody begins to stop the   *)
(* server.                                                                 *)
(***************************************************************************)
Fairness ==
  /\ WF_vars(ctx /\ CallShutdown) /\ WF_vars((sd = "returned" \/ Returned) /\ Cancel) /\ WF_vars(Deadline)
  /\ WF_vars(SyslogStep(G!StartStep)) /\ WF_vars(SyslogStep(G!CtxClosesUDP))
  /\ WF_vars(SyslogStep(G!CtxClosesTCP)) /\ WF_vars(SyslogStep(G!UdpStep))
  /\ WF_vars(SyslogStep(G!AcceptStep)) /\ WF_vars(SyslogStep(G!ShutdownStep))
  /\ WF_vars(SftpStep(F!StartStep)) /\ WF_vars(SftpStep(F!CtxCloses)) /\ WF_vars(SftpStep(F!ShutdownStep))
  /\ WF_vars(WebStep(W!StartStep)) /\ WF_vars(WebStep(W!FiveSeconds)) /\ WF_vars(WebStep(W!ShutdownStep))
  /\ \A c \in Conn :
       /\ WF_vars(SyslogStep(G!HandlerStep(c)))
       /\ WF_vars(SftpStep(F!HandlerStep(c))) /\ WF_vars(SftpStep(F!ServeEnds(c)))

Spec == Init /\ [][Next]_vars /\ Fairness

-----------------------------------------------------------------------------
(***************************************************************************)
(* The contract of Server.Start (internal/server/server.go, 20-24): once   *)
(* its context is done Start returns, unless it waits for ever for one of  *)
(* the clients that SyslogHung and SftpHung describe.                      *)
(***************************************************************************)
Hung         == G!SyslogHung \/ F!SftpHung
StartReturns == ctx ~> (Returned \/ []Hung)

(***************************************************************************)
(* A line that the syslog server has read is refused by its store only     *)
(* when Shutdown ran into its deadline, or was called before Start had     *)
(* opened the sockets: a graceful stop closes the store after the last     *)
(* line.                                                                   *)
(***************************************************************************)
RefusedOnlyAtDeadline == gRefused => due \/ gEarly

(***************************************************************************)
(* After Start has returned, also with an error, the sockets come free for *)
(* the next attempt or the replacement, and no SFTP session serves on.     *)
(***************************************************************************)
LeavesNothingBehind ==
  Returned ~> /\ gUdp # "open" /\ gLis # "open" /\ fLis # "open" /\ wLis # "open"
              /\ \A c \in Conn : fSess[c] # "serving"

(***************************************************************************)
(* The contract as it is written: "return once ctx is done", and "Start    *)
(* must not depend on Shutdown also being called".                         *)
(***************************************************************************)
StartReturnsOnceDone == ctx ~> Returned
=============================================================================
