----------------------------- MODULE WebServer -----------------------------
(***************************************************************************)
(* Start and Shutdown of the web console (internal/webui/server.go), which *)
(* wrap net/http: its Shutdown closes the listener, makes Serve return,    *)
(* and waits for the requests that run, of which an event stream           *)
(* (handleEventsSSE) ends only when its client leaves.                     *)
(* ctx, sd and due belong to whoever runs the server.                      *)
(***************************************************************************)
EXTENDS FiniteSets

CONSTANT Client

VARIABLES
  ctx, sd, due,
  start,     \* how far Start is
  lis,       \* the listener; s.httpSrv is nil until it is open
  streams,   \* clients whose event stream is served
  late       \* the five seconds of Start's own shutdown have passed

run  == <<ctx, sd, due>>
mine == <<start, lis, streams, late>>

WebTypeOK ==
  /\ start \in {"begin", "serving", "closing", "returned", "failed"}
  /\ lis \in {"none", "open", "closed"}
  /\ streams \subseteq Client /\ late \in BOOLEAN

WebInit == start = "begin" /\ lis = "none" /\ streams = {} /\ late = FALSE

Listen ==
  /\ start = "begin"
  /\ \/ start' = "serving" /\ lis' = "open"
     \/ start' = "failed" /\ UNCHANGED lis
  /\ UNCHANGED <<run, streams, late>>

(***************************************************************************)
(* The select of Start: the context is done, or Serve has returned because *)
(* Shutdown closed the listener.                                           *)
(***************************************************************************)
StartCancelled ==
  /\ start = "serving" /\ ctx
  /\ start' = "closing" /\ lis' = "closed"
  /\ UNCHANGED <<run, streams, late>>

ServeReturns ==
  /\ start = "serving" /\ lis = "closed"
  /\ start' = "returned"
  /\ UNCHANGED <<run, lis, streams, late>>

FiveSeconds ==
  /\ start = "closing" /\ ~late
  /\ late' = TRUE
  /\ UNCHANGED <<run, start, lis, streams>>

StartClosed ==
  /\ start = "closing" /\ (streams = {} \/ late)
  /\ start' = "returned"
  /\ UNCHANGED <<run, lis, streams, late>>

(***************************************************************************)
(* Shutdown, which does nothing before Start has built s.httpSrv.          *)
(***************************************************************************)
ShutdownCloses ==
  /\ sd = "called"
  /\ \/ lis = "none" /\ sd' = "returned" /\ UNCHANGED lis
     \/ lis # "none" /\ sd' = "waiting" /\ lis' = "closed"
  /\ UNCHANGED <<ctx, due, start, streams, late>>

ShutdownReturns ==
  /\ sd = "waiting" /\ (streams = {} \/ due)
  /\ sd' = "returned"
  /\ UNCHANGED <<ctx, due, mine>>

OpenStream(c) ==
  /\ lis = "open" /\ c \notin streams
  /\ streams' = streams \cup {c}
  /\ UNCHANGED <<run, start, lis, late>>

LeaveStream(c) ==
  /\ c \in streams
  /\ streams' = streams \ {c}
  /\ UNCHANGED <<run, start, lis, late>>

StartStep    == Listen \/ StartCancelled \/ ServeReturns \/ StartClosed
ShutdownStep == ShutdownCloses \/ ShutdownReturns

WebNext ==
  \/ StartStep \/ FiveSeconds \/ ShutdownStep
  \/ \E c \in Client : OpenStream(c) \/ LeaveStream(c)
=============================================================================
