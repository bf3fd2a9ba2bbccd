---------------------------- MODULE SyslogServer ----------------------------
(***************************************************************************)
(* Start and Shutdown of the syslog server (internal/syslogsrv/server.go): *)
(* the UDP loop, the TCP accept loop, a handler for each connection, the   *)
(* goroutines that wait for the context, and the store they write to.      *)
(* Clients connect, send lines, stay silent or leave as they like.         *)
(*                                                                         *)
(* ctx, sd and due belong to whoever runs the server: the context of Start *)
(* is cancelled, how far the call of Shutdown is, its deadline has passed. *)
(***************************************************************************)
EXTENDS FiniteSets

CONSTANTS
  Conn,     \* the TCP connections that clients may open
  Denied,   \* those from an address that the access list does not allow
  NoConn    \* the accept loop holds no connection

VARIABLES
  ctx, sd, due,
  start,     \* how far Start is
  udp, lis,  \* s.udpConn and s.tcpLis
  udpLoop,   \* "read", "line" while it handles a datagram, "done"
  accLoop,   \* "accept", "done"
  held,      \* the connection it has accepted and not registered yet
  link,      \* link[c]: "out", "queued", "up", "left" by the client, "closed" by the server
  tcpConns,  \* s.tcpConns
  handler,   \* handler[c]: handleTCPConn
  store,     \* s.store is open
  early,     \* Shutdown was called before Start had opened both sockets (history)
  late,      \* connections registered after Shutdown closed the others (history)
  refused    \* a line was read and s.store.Write failed (history)

run  == <<ctx, sd, due>>
mine == <<start, udp, lis, udpLoop, accLoop, held, link, tcpConns, handler, store, early, late, refused>>

SyslogTypeOK ==
  /\ start \in {"begin", "udp", "serving", "joining", "returned", "failed"}
  /\ udp \in {"none", "open", "closed"} /\ lis \in {"none", "open", "closed"}
  /\ udpLoop \in {"none", "read", "line", "done"} /\ accLoop \in {"none", "accept", "done"}
  /\ held \in Conn \cup {NoConn}
  /\ link \in [Conn -> {"out", "queued", "up", "left", "closed"}]
  /\ tcpConns \subseteq Conn /\ late \subseteq Conn
  /\ handler \in [Conn -> {"none", "scan", "line", "done"}]
  /\ store \in BOOLEAN /\ early \in BOOLEAN /\ refused \in BOOLEAN

SyslogInit ==
  /\ start = "begin"
  /\ udp = "none" /\ lis = "none" /\ udpLoop = "none" /\ accLoop = "none"
  /\ held = NoConn
  /\ link = [c \in Conn |-> "out"]
  /\ tcpConns = {} /\ late = {}
  /\ handler = [c \in Conn |-> "none"]
  /\ store = TRUE /\ early = FALSE /\ refused = FALSE

Close(sock)   == IF sock = "open" THEN "closed" ELSE sock
CloseAll(cs)  == [c \in Conn |-> IF c \in cs /\ link[c] = "up" THEN "closed" ELSE link[c]]
Running(loop) == loop \notin {"none", "done"}

(***************************************************************************)
(* s.wg is zero.                                                           *)
(***************************************************************************)
Drained ==
  /\ ~Running(udpLoop) /\ ~Running(accLoop)
  /\ \A c \in Conn : ~Running(handler[c])

-----------------------------------------------------------------------------
(***************************************************************************)
(* Start.  Either address may be left out of the configuration.  When the  *)
(* TCP listener cannot be opened Start returns an error and leaves the UDP *)
(* loop to the cancelled context.                                          *)
(***************************************************************************)
StartUDP ==
  /\ start = "begin"
  /\ \/ start' = "udp" /\ udp' = "open" /\ udpLoop' = "read"
     \/ start' \in {"udp", "failed"} /\ UNCHANGED <<udp, udpLoop>>
  /\ UNCHANGED <<run, lis, accLoop, held, link, tcpConns, handler, store, early, late, refused>>

StartTCP ==
  /\ start = "udp"
  /\ \/ start' = "serving" /\ lis' = "open" /\ accLoop' = "accept"
     \/ start' \in {"serving", "failed"} /\ UNCHANGED <<lis, accLoop>>
  /\ UNCHANGED <<run, udp, udpLoop, held, link, tcpConns, handler, store, early, late, refused>>

StartJoins ==
  /\ \/ start = "serving" /\ ctx /\ start' = "joining"
     \/ start = "joining" /\ Drained /\ start' = "returned"
  /\ UNCHANGED <<run, udp, lis, udpLoop, accLoop, held, link, tcpConns, handler, store, early, late, refused>>

(***************************************************************************)
(* The goroutines on ctx.Done.  A queue of connections goes with its       *)
(* listener.                                                               *)
(***************************************************************************)
DropQueue(l) == [c \in Conn |-> IF l[c] = "queued" THEN "closed" ELSE l[c]]

CtxClosesUDP ==
  /\ ctx /\ udp = "open"
  /\ udp' = "closed"
  /\ UNCHANGED <<run, start, lis, udpLoop, accLoop, held, link, tcpConns, handler, store, early, late, refused>>

CtxClosesTCP ==
  /\ ctx /\ lis = "open"
  /\ lis' = "closed" /\ link' = DropQueue(link)
  /\ UNCHANGED <<run, start, udp, udpLoop, accLoop, held, tcpConns, handler, store, early, late, refused>>

-----------------------------------------------------------------------------
(***************************************************************************)
(* handleLine: the line goes to the store and to the bus.                  *)
(***************************************************************************)
HandleLine == refused' = (refused \/ ~store)

(***************************************************************************)
(* The UDP loop.  A failing read ends it when the context is done and is   *)
(* repeated at once otherwise, also on a socket that is closed.            *)
(***************************************************************************)
UdpRead ==
  /\ udpLoop = "read" /\ udp = "open"
  /\ udpLoop' = "line"
  /\ UNCHANGED <<run, start, udp, lis, accLoop, held, link, tcpConns, handler, store, early, late, refused>>

UdpLine ==
  /\ udpLoop = "line"
  /\ HandleLine
  /\ udpLoop' = "read"
  /\ UNCHANGED <<run, start, udp, lis, accLoop, held, link, tcpConns, handler, store, early, late>>

UdpEnds ==
  /\ udpLoop = "read" /\ ctx
  /\ udpLoop' = "done"
  /\ UNCHANGED <<run, start, udp, lis, accLoop, held, link, tcpConns, handler, store, early, late, refused>>

(***************************************************************************)
(* The accept loop: a connection is held between Accept and the lock under *)
(* which it is registered and its handler started.  Accept may fail for a  *)
(* moment on an open listener, too.                                        *)
(***************************************************************************)
Accept(c) ==
  /\ accLoop = "accept" /\ held = NoConn /\ lis = "open" /\ link[c] = "queued"
  /\ link' = [link EXCEPT ![c] = IF c \in Denied THEN "closed" ELSE "up"]
  /\ held' = IF c \in Denied THEN NoConn ELSE c
  /\ UNCHANGED <<run, start, udp, lis, udpLoop, accLoop, tcpConns, handler, store, early, late, refused>>

Register ==
  /\ held # NoConn
  /\ tcpConns' = tcpConns \cup {held}
  /\ handler' = [handler EXCEPT ![held] = "scan"]
  /\ late' = IF sd \in {"waiting", "returned"} THEN late \cup {held} ELSE late
  /\ held' = NoConn
  /\ UNCHANGED <<run, start, udp, lis, udpLoop, accLoop, link, store, early, refused>>

AcceptEnds ==
  /\ accLoop = "accept" /\ held = NoConn /\ ctx
  /\ accLoop' = "done"
  /\ UNCHANGED <<run, start, udp, lis, udpLoop, held, link, tcpConns, handler, store, early, late, refused>>

(***************************************************************************)
(* handleTCPConn: the scanner blocks until there is a line or the          *)
(* connection has ended, gives up at a line that is too long for it, and   *)
(* the context is looked at only after a line.                             *)
(***************************************************************************)
EndConn(c) ==
  /\ handler' = [handler EXCEPT ![c] = "done"]
  /\ link' = CloseAll({c})
  /\ tcpConns' = tcpConns \ {c}

Scan(c) ==
  /\ handler[c] = "scan" /\ link[c] = "up"
  /\ \/ EndConn(c)
     \/ ~ctx /\ handler' = [handler EXCEPT ![c] = "line"] /\ UNCHANGED <<link, tcpConns>>
  /\ UNCHANGED <<run, start, udp, lis, udpLoop, accLoop, held, store, early, late, refused>>

TcpLine(c) ==
  /\ handler[c] = "line"
  /\ HandleLine
  /\ handler' = [handler EXCEPT ![c] = "scan"]
  /\ UNCHANGED <<run, start, udp, lis, udpLoop, accLoop, held, link, tcpConns, store, early, late>>

ScanEnds(c) ==
  /\ handler[c] = "scan" /\ link[c] \in {"left", "closed"}
  /\ EndConn(c)
  /\ UNCHANGED <<run, start, udp, lis, udpLoop, accLoop, held, store, early, late, refused>>

-----------------------------------------------------------------------------
(***************************************************************************)
(* Shutdown: the sockets and the registered connections are closed under   *)
(* s.mu; then it waits for s.wg or its deadline and closes the store.      *)
(***************************************************************************)
ShutdownCloses_KeepsConns ==
  /\ sd = "called"
  /\ udp' = Close(udp) /\ lis' = Close(lis)
  /\ link' = IF lis = "open" THEN DropQueue(link) ELSE link
  /\ sd' = "waiting"
  /\ early' = (start \in {"begin", "udp"})
  /\ UNCHANGED <<ctx, due, start, udpLoop, accLoop, held, tcpConns, handler, store, late, refused>>

ShutdownCloses ==
  /\ sd = "called"
  /\ udp' = Close(udp) /\ lis' = Close(lis)
  /\ link' = IF lis = "open" THEN DropQueue(CloseAll(tcpConns)) ELSE CloseAll(tcpConns)
  /\ sd' = "waiting"
  /\ early' = (start \in {"begin", "udp"})
  /\ UNCHANGED <<ctx, due, start, udpLoop, accLoop, held, tcpConns, handler, store, late, refused>>

ShutdownReturns_AtOnce ==
  /\ sd = "waiting"
  /\ store' = FALSE /\ sd' = "returned"
  /\ UNCHANGED <<ctx, due, start, udp, lis, udpLoop, accLoop, held, link, tcpConns, handler, early, late, refused>>

ShutdownReturns ==
  /\ sd = "waiting" /\ (Drained \/ due)
  /\ store' = FALSE /\ sd' = "returned"
  /\ UNCHANGED <<ctx, due, start, udp, lis, udpLoop, accLoop, held, link, tcpConns, handler, early, late, refused>>

-----------------------------------------------------------------------------
(***************************************************************************)
(* The clients.                                                            *)
(***************************************************************************)
Connect(c) ==
  /\ link[c] = "out" /\ lis = "open"
  /\ link' = [link EXCEPT ![c] = "queued"]
  /\ UNCHANGED <<run, start, udp, lis, udpLoop, accLoop, held, tcpConns, handler, store, early, late, refused>>

Leave(c) ==
  /\ link[c] = "up"
  /\ link' = [link EXCEPT ![c] = "left"]
  /\ UNCHANGED <<run, start, udp, lis, udpLoop, accLoop, held, tcpConns, handler, store, early, late, refused>>

(***************************************************************************)
(* What each goroutine is sure to do; a read or an Accept that fails on an *)
(* open socket is possible only.                                           *)
(***************************************************************************)
StartStep    == StartUDP \/ StartTCP \/ StartJoins
UdpStep      == UdpLine \/ (udp = "closed" /\ UdpEnds)
AcceptStep   == (\E c \in Conn : Accept(c)) \/ Register \/ (lis = "closed" /\ AcceptEnds)
HandlerStep(c) == TcpLine(c) \/ ScanEnds(c)
ShutdownStep == ShutdownCloses \/ ShutdownReturns

SyslogNext ==
  \/ StartStep \/ CtxClosesUDP \/ CtxClosesTCP
  \/ UdpRead \/ UdpLine \/ UdpEnds \/ Register \/ AcceptEnds \/ ShutdownStep
  \/ \E c \in Conn : Accept(c) \/ Scan(c) \/ HandlerStep(c) \/ Connect(c) \/ Leave(c)

(***************************************************************************)
(* A connection that nobody will close: its client stays, sends nothing,   *)
(* and either Shutdown has not been called or the connection came too late *)
(* for it.                                                                 *)
(***************************************************************************)
SyslogHung ==
  \E c \in Conn : handler[c] = "scan" /\ link[c] = "up" /\ (sd = "none" \/ c \in late)
=============================================================================
