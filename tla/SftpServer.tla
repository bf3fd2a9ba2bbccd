----------------------------- MODULE SftpServer -----------------------------
(***************************************************************************)
(* Start and Shutdown of the SFTP server (internal/sftp/server.go) with    *)
(* its connections (internal/sftp/session.go): the SSH handshake, the loop *)
(* over the channels a client opens, and the session that waits for the    *)
(* request of the sftp subsystem before it serves.                         *)
(* ctx, sd and due belong to whoever runs the server.                      *)
(***************************************************************************)
EXTENDS FiniteSets

CONSTANTS
  Conn,     \* the connections that clients may open, with one session each
  Denied    \* those from an address that the access list does not allow

VARIABLES
  ctx, sd, due,
  start,         \* how far Start, with its accept loop, is
  lis,           \* s.listener
  shuttingDown,  \* s.shuttingDown
  link,          \* link[c]: "out", "queued", "up", "left" by the client, "closed" by the server
  handler,       \* handler[c]: handleConn
  sess           \* sess[c]: serveSession

run  == <<ctx, sd, due>>
mine == <<start, lis, shuttingDown, link, handler, sess>>

SftpTypeOK ==
  /\ start \in {"begin", "accept", "joining", "returned", "failed"}
  /\ lis \in {"none", "open", "closed"} /\ shuttingDown \in BOOLEAN
  /\ link \in [Conn -> {"out", "queued", "up", "left", "closed"}]
  /\ handler \in [Conn -> {"none", "handshake", "select", "wait", "done"}]
  /\ sess \in [Conn -> {"none", "awaiting", "serving", "done"}]

SftpInit ==
  /\ start = "begin" /\ lis = "none" /\ shuttingDown = FALSE
  /\ link = [c \in Conn |-> "out"]
  /\ handler = [c \in Conn |-> "none"]
  /\ sess = [c \in Conn |-> "none"]

Down(c)    == link[c] \in {"left", "closed"}
Hangup(c)  == link' = [link EXCEPT ![c] = IF @ = "up" THEN "closed" ELSE @]
CloseLis   == /\ lis' = IF lis = "open" THEN "closed" ELSE lis
              /\ link' = [c \in Conn |-> IF lis = "open" /\ link[c] = "queued" THEN "closed" ELSE link[c]]
Drained    == \A c \in Conn : handler[c] \in {"none", "done"}

-----------------------------------------------------------------------------
(***************************************************************************)
(* Start up to the accept loop: the host key is loaded or created, the     *)
(* listener opened; either may fail.                                       *)
(***************************************************************************)
Listen ==
  /\ start = "begin"
  /\ \/ start' = "accept" /\ lis' = "open"
     \/ start' = "failed" /\ UNCHANGED lis
  /\ UNCHANGED <<run, shuttingDown, link, handler, sess>>

CtxCloses ==
  /\ ctx /\ lis = "open"
  /\ shuttingDown' = TRUE
  /\ CloseLis
  /\ UNCHANGED <<run, start, handler, sess>>

Accept(c) ==
  /\ start = "accept" /\ lis = "open" /\ link[c] = "queued"
  /\ link' = [link EXCEPT ![c] = IF c \in Denied THEN "closed" ELSE "up"]
  /\ handler' = [handler EXCEPT ![c] = IF c \in Denied THEN @ ELSE "handshake"]
  /\ UNCHANGED <<run, start, lis, shuttingDown, sess>>

(***************************************************************************)
(* Accept fails (for a moment, or because the listener is closed) and the  *)
(* server is stopping; then Start waits for the handlers.                  *)
(***************************************************************************)
AcceptEnds ==
  /\ start = "accept" /\ (ctx \/ shuttingDown)
  /\ start' = "joining"
  /\ UNCHANGED <<run, lis, shuttingDown, link, handler, sess>>

StartReturnsNil ==
  /\ start = "joining" /\ Drained
  /\ start' = "returned"
  /\ UNCHANGED <<run, lis, shuttingDown, link, handler, sess>>

-----------------------------------------------------------------------------
(***************************************************************************)
(* handleConn.  ssh.NewServerConn has no deadline: it returns when the     *)
(* client has authenticated, has failed to, or is gone.                    *)
(***************************************************************************)
Handshake(c) ==
  /\ handler[c] = "handshake" /\ link[c] = "up"
  /\ \/ handler' = [handler EXCEPT ![c] = "select"] /\ UNCHANGED link
     \/ handler' = [handler EXCEPT ![c] = "done"] /\ Hangup(c)
  /\ UNCHANGED <<run, start, lis, shuttingDown, sess>>

HandshakeBreaks(c) ==
  /\ handler[c] = "handshake" /\ Down(c)
  /\ handler' = [handler EXCEPT ![c] = "done"]
  /\ UNCHANGED <<run, start, lis, shuttingDown, link, sess>>

OpenChannel(c) ==
  /\ handler[c] = "select" /\ link[c] = "up" /\ sess[c] = "none"
  /\ sess' = [sess EXCEPT ![c] = "awaiting"]
  /\ UNCHANGED <<run, start, lis, shuttingDown, link, handler>>

HandlerCancelled_LeavesOpen(c) ==
  /\ handler[c] = "select" /\ ctx
  /\ handler' = [handler EXCEPT ![c] = "done"]
  /\ UNCHANGED <<run, start, lis, shuttingDown, link, sess>>

HandlerCancelled(c) ==
  /\ handler[c] = "select" /\ ctx
  /\ handler' = [handler EXCEPT ![c] = "done"]
  /\ Hangup(c)
  /\ UNCHANGED <<run, start, lis, shuttingDown, sess>>

ChannelsEnd(c) ==
  /\ handler[c] = "select" /\ Down(c)
  /\ handler' = [handler EXCEPT ![c] = "wait"]
  /\ UNCHANGED <<run, start, lis, shuttingDown, link, sess>>

HandlerJoins(c) ==
  /\ handler[c] = "wait" /\ sess[c] \in {"none", "done"}
  /\ handler' = [handler EXCEPT ![c] = "done"]
  /\ UNCHANGED <<run, start, lis, shuttingDown, link, sess>>

(***************************************************************************)
(* serveSession.  Nothing but the request of the subsystem ends the wait   *)
(* for it: when the channel goes first, the goroutine that reads the       *)
(* requests ends without a word.                                           *)
(***************************************************************************)
Subsystem(c) ==
  /\ sess[c] = "awaiting" /\ link[c] = "up"
  /\ sess' = [sess EXCEPT ![c] = "serving"]
  /\ UNCHANGED <<run, start, lis, shuttingDown, link, handler>>

ClientEndsSession(c) ==
  /\ sess[c] = "serving" /\ link[c] = "up"
  /\ sess' = [sess EXCEPT ![c] = "done"]
  /\ UNCHANGED <<run, start, lis, shuttingDown, link, handler>>

ServeEnds(c) ==
  /\ sess[c] = "serving" /\ Down(c)
  /\ sess' = [sess EXCEPT ![c] = "done"]
  /\ UNCHANGED <<run, start, lis, shuttingDown, link, handler>>

-----------------------------------------------------------------------------
(***************************************************************************)
(* Shutdown.                                                               *)
(***************************************************************************)
ShutdownCloses ==
  /\ sd = "called"
  /\ shuttingDown' = TRUE
  /\ CloseLis
  /\ sd' = "waiting"
  /\ UNCHANGED <<ctx, due, start, handler, sess>>

ShutdownReturns ==
  /\ sd = "waiting" /\ (Drained \/ due)
  /\ sd' = "returned"
  /\ UNCHANGED <<ctx, due, mine>>

Connect(c) ==
  /\ link[c] = "out" /\ lis = "open"
  /\ link' = [link EXCEPT ![c] = "queued"]
  /\ UNCHANGED <<run, start, lis, shuttingDown, handler, sess>>

Leave(c) ==
  /\ link[c] = "up"
  /\ link' = [link EXCEPT ![c] = "left"]
  /\ UNCHANGED <<run, start, lis, shuttingDown, handler, sess>>

(***************************************************************************)
(* What each goroutine is sure to do; an Accept that fails on an open      *)
(* listener is possible only.                                              *)
(***************************************************************************)
StartStep      == Listen \/ (\E c \in Conn : Accept(c)) \/ (lis = "closed" /\ AcceptEnds) \/ StartReturnsNil
HandlerStep(c) == HandshakeBreaks(c) \/ HandlerCancelled(c) \/ ChannelsEnd(c) \/ HandlerJoins(c)
ShutdownStep   == ShutdownCloses \/ ShutdownReturns

SftpNext ==
  \/ Listen \/ AcceptEnds \/ StartReturnsNil \/ CtxCloses \/ ShutdownStep
  \/ \E c \in Conn :
       \/ Accept(c) \/ HandlerStep(c) \/ ServeEnds(c)
       \/ Handshake(c) \/ OpenChannel(c) \/ Subsystem(c) \/ ClientEndsSession(c)
       \/ Connect(c) \/ Leave(c)

(***************************************************************************)
(* What Start may wait for without end: a client that keeps the connection *)
(* and never finishes its handshake, or one that has left a session behind *)
(* which never asked for the subsystem.                                    *)
(***************************************************************************)
SftpHung ==
  \E c \in Conn : \/ handler[c] = "handshake" /\ link[c] = "up"
                  \/ handler[c] = "wait" /\ sess[c] = "awaiting"
=============================================================================
