----------------------------- MODULE Supervisor -----------------------------
(***************************************************************************)
(* The supervisor of internal/server/server.go: it runs one goroutine      *)
(* (runEntry) per registered server, restarts a server whose Start failed, *)
(* and lets other goroutines (the callbacks of config.Watcher) swap or     *)
(* remove a server while it runs.                                          *)
(*                                                                         *)
(* A server instance is a member of Inst.  An entry of the code is created *)
(* by Add for one instance and never shared, so the instance that created  *)
(* it also names the entry.  Every critical section of the code (s.mu or   *)
(* e.mu) is one action; what happens between two critical sections is      *)
(* another one.                                                            *)
(***************************************************************************)
EXTENDS Naturals, FiniteSets

CONSTANTS Name,        \* server names: "ftp", "tftp", "syslog", "webui"
          Inst,        \* server instances, each built once
          NameOf,      \* the Name() of each instance
          Caller,      \* goroutines that call Replace and Remove
          Removable,   \* the names that a reload may disable
          EarlyCalls,  \* may a call begin before Run has begun?
          MaxCrashes,  \* bound: how often Start fails, over all servers
          None         \* nil

ASSUME InstAssumption == /\ NameOf \in [Inst -> Name]
                         /\ None \notin Inst
                         /\ Removable \subseteq Name
ASSUME BoundAssumption == MaxCrashes \in Nat /\ EarlyCalls \in BOOLEAN

VARIABLES
  entries,     \* s.entries: name -> entry, None when not registered
  removed,     \* the entries that Remove has unregistered (history)
  running,     \* s.running
  used,        \* the instances built so far
  esrv,        \* entry -> e.srv
  att,         \* entry -> number of the attempt e.cancel and e.attemptDone
               \* belong to, 0 while they are nil
  cancelled,   \* entry -> has that attempt's own context been cancelled?
  rpc,         \* entry -> where its runEntry goroutine is
  rsrv,        \* entry -> runEntry's local srv, None unless in its Start
  stopReq,     \* listening instances on which Shutdown has been called
  crashes,     \* failed Starts so far
  parentDone,  \* has the context given to Run been cancelled?
  runPc,       \* where Run is
  wg,          \* the entries Run's WaitGroup counts
  toStop,      \* entries whose server Run has still to read
  runStop,     \* instances Run has still to shut down
  call,        \* caller -> its Replace or Remove in progress
  panicked     \* has Add panicked?

entryVars == <<esrv, att, cancelled, rpc, rsrv, stopReq, crashes>>
runVars   == <<parentDone, runPc, wg, toStop, runStop>>
vars      == <<entries, removed, running, used, entryVars, runVars, call,
               panicked>>

EntryPc == {"none", "head", "begin", "starting", "serving",
            "retNil", "retErr", "backoff", "exited"}
CallPc  == {"idle", "add", "swap", "capture", "shutdown", "cancel", "join"}

\* A call in progress: the server to install, the entry found, s.running as
\* it was read with it, and e.srv and the attempt captured under e.mu.
CallRec == [pc : CallPc, srv : Inst \cup {None}, ent : Inst \cup {None},
            run : BOOLEAN, old : Inst \cup {None}, att : Nat]
Call == {r \in CallRec : /\ r.pc \in {"add", "swap"} => r.srv # None
                         /\ r.pc = "capture" => r.srv = None
                         /\ r.pc \notin {"idle", "add"} => r.ent # None}

Idle == [pc |-> "idle", srv |-> None, ent |-> None,
         run |-> FALSE, old |-> None, att |-> 0]

\* Start has been called for the entry's attempt and has not returned.
Up(e) == rpc[e] \in {"starting", "serving"}

\* Mutant: the attempt's context is made from context.Background().
CtxDone_NotAChild(e) == cancelled[e]

\* The context of the entry's attempt is a child of the one given to Run.
CtxDone(e) == parentDone \/ cancelled[e]

Registered == {entries[n] : n \in Name} \ {None}

\* newRunFunc has added the servers that the configuration enables.
Init ==
  /\ entries \in {f \in [Name -> Inst \cup {None}] :
                    \A n \in Name : f[n] # None => NameOf[f[n]] = n}
  /\ removed = {}
  /\ running = FALSE
  /\ used = Registered
  /\ esrv = [e \in Inst |-> IF e \in Registered THEN e ELSE None]
  /\ att = [e \in Inst |-> 0]
  /\ cancelled = [e \in Inst |-> FALSE]
  /\ rpc = [e \in Inst |-> "none"]
  /\ rsrv = [e \in Inst |-> None]
  /\ stopReq = {}
  /\ crashes = 0
  /\ parentDone = FALSE
  /\ runPc = "init"
  /\ wg = {} /\ toStop = {} /\ runStop = {}
  /\ call = [c \in Caller |-> Idle]
  /\ panicked = FALSE

-----------------------------------------------------------------------------
(* runEntry: the goroutine that drives one entry.                          *)

Goto(e, from, to) == rpc[e] = from /\ rpc' = [rpc EXCEPT ![e] = to]

\* The test of parentCtx at the head of the loop.
HeadCheck(e) ==
  /\ Goto(e, "head", IF parentDone THEN "exited" ELSE "begin")
  /\ UNCHANGED <<entries, removed, running, used, esrv, att, cancelled, rsrv,
                 stopReq, crashes, runVars, call, panicked>>

\* Under e.mu: read e.srv and publish the new attempt's cancel and done.
BeginAttempt(e) ==
  /\ Goto(e, "begin", "starting")
  /\ rsrv' = [rsrv EXCEPT ![e] = esrv[e]]
  /\ att' = [att EXCEPT ![e] = @ + 1]
  /\ cancelled' = [cancelled EXCEPT ![e] = FALSE]
  /\ UNCHANGED <<entries, removed, running, used, esrv, stopReq, crashes,
                 runVars, call, panicked>>

\* Start has bound its listener.
Listen(e) ==
  /\ Goto(e, "starting", "serving")
  /\ stopReq' = stopReq \ {rsrv[e]}
  /\ UNCHANGED <<entries, removed, running, used, esrv, att, cancelled, rsrv,
                 crashes, runVars, call, panicked>>

\* Start returns; runEntry cancels the attempt's context and closes done.
StartReturns(e, to) ==
  /\ rpc' = [rpc EXCEPT ![e] = to]
  /\ cancelled' = [cancelled EXCEPT ![e] = TRUE]
  /\ rsrv' = [rsrv EXCEPT ![e] = None]
  /\ stopReq' = stopReq \ {rsrv[e]}
  /\ UNCHANGED <<entries, removed, running, used, esrv, att, runVars, call,
                 panicked>>

\* Start fails to bind, or meets an unrecoverable error.
StartFails(e) ==
  /\ Up(e)
  /\ crashes < MaxCrashes
  /\ crashes' = crashes + 1
  /\ StartReturns(e, "retErr")

\* "Implementations must stop listening and return once ctx is done".
StartDrains(e) ==
  /\ rpc[e] = "serving" /\ CtxDone(e)
  /\ UNCHANGED crashes
  /\ StartReturns(e, "retNil")

\* Shutdown alone ends the Start of the FTP, SFTP and web servers.
StartStopped(e) ==
  /\ rpc[e] = "serving" /\ rsrv[e] \in stopReq
  /\ UNCHANGED crashes
  /\ StartReturns(e, "retNil")

\* err == nil: exit on shutdown, or when the NAME is no longer registered.
AfterNil(e) ==
  /\ Goto(e, "retNil", IF parentDone \/ entries[NameOf[e]] = None
                       THEN "exited" ELSE "head")
  /\ UNCHANGED <<entries, removed, running, used, esrv, att, cancelled, rsrv,
                 stopReq, crashes, runVars, call, panicked>>

\* Mutant: a crash ends the goroutine instead of starting a backoff.
AfterErr_GivesUp(e) ==
  /\ Goto(e, "retErr", "exited")
  /\ UNCHANGED <<entries, removed, running, used, esrv, att, cancelled, rsrv,
                 stopReq, crashes, runVars, call, panicked>>

\* err # nil: exit on shutdown, else wait.  How long the backoff lasts (one
\* second, doubled each time, at most 30) is left out: it is only a delay.
AfterErr(e) ==
  /\ Goto(e, "retErr", IF parentDone THEN "exited" ELSE "backoff")
  /\ UNCHANGED <<entries, removed, running, used, esrv, att, cancelled, rsrv,
                 stopReq, crashes, runVars, call, panicked>>

BackoffExpires(e) ==
  /\ Goto(e, "backoff", "head")
  /\ UNCHANGED <<entries, removed, running, used, esrv, att, cancelled, rsrv,
                 stopReq, crashes, runVars, call, panicked>>

BackoffAborted(e) ==
  /\ parentDone
  /\ Goto(e, "backoff", "exited")
  /\ UNCHANGED <<entries, removed, running, used, esrv, att, cancelled, rsrv,
                 stopReq, crashes, runVars, call, panicked>>

EntryStep(e) ==
  \/ HeadCheck(e) \/ BeginAttempt(e) \/ Listen(e)
  \/ StartDrains(e) \/ AfterNil(e) \/ AfterErr(e) \/ BackoffExpires(e)

-----------------------------------------------------------------------------
(* Replace, Add and Remove, called by the watcher's callbacks.             *)

\* The process ends soon after Run has returned.
MayCall(c) ==
  /\ call[c] = Idle
  /\ runPc # "returned"
  /\ EarlyCalls \/ runPc # "init"

\* Mutant: a name that is not registered is treated as one that is.
ReplaceLookup_NoExistsCheck(c, i) ==
  /\ MayCall(c)
  /\ i \in Inst \ used
  /\ used' = used \cup {i}
  /\ call' = [call EXCEPT ![c] =
                [Idle EXCEPT !.pc = "swap", !.srv = i,
                             !.ent = entries[NameOf[i]], !.run = running]]
  /\ UNCHANGED <<entries, removed, running, entryVars, runVars, panicked>>

\* Replace under s.mu: look the name up, read s.running.
ReplaceLookup(c, i) ==
  /\ MayCall(c)
  /\ i \in Inst \ used
  /\ used' = used \cup {i}
  /\ LET e == entries[NameOf[i]]
     IN call' = [call EXCEPT ![c] =
                   IF e = None
                   THEN [Idle EXCEPT !.pc = "add", !.srv = i]
                   ELSE [Idle EXCEPT !.pc = "swap", !.srv = i, !.ent = e,
                                     !.run = running]]
  /\ UNCHANGED <<entries, removed, running, entryVars, runVars, panicked>>

\* Mutant: Add overwrites an entry it should have refused.
Add_NoExistsCheck(c) ==
  /\ call[c].pc = "add"
  /\ LET i == call[c].srv
     IN /\ entries' = [entries EXCEPT ![NameOf[i]] = i]
        /\ esrv' = [esrv EXCEPT ![i] = i]
        /\ rpc' = IF running THEN [rpc EXCEPT ![i] = "head"] ELSE rpc
        /\ call' = [call EXCEPT ![c] = Idle]
  /\ UNCHANGED <<removed, running, used, att, cancelled, rsrv, stopReq,
                 crashes, runVars, panicked>>

\* Replace found no entry and calls Add, which takes s.mu anew.
Add(c) ==
  /\ call[c].pc = "add"
  /\ LET i == call[c].srv
         n == NameOf[i]
     IN \/ /\ entries[n] # None
           /\ panicked' = TRUE
           /\ UNCHANGED <<entries, esrv, rpc, call>>
        \/ /\ entries[n] = None
           /\ entries' = [entries EXCEPT ![n] = i]
           /\ esrv' = [esrv EXCEPT ![i] = i]
           /\ rpc' = IF running THEN [rpc EXCEPT ![i] = "head"] ELSE rpc
           /\ call' = [call EXCEPT ![c] = Idle]
           /\ UNCHANGED panicked
  /\ UNCHANGED <<removed, running, used, att, cancelled, rsrv, stopReq,
                 crashes, runVars>>

\* What follows the capture of e.srv, e.cancel and e.attemptDone under e.mu:
\* nothing if no attempt has begun, else Shutdown, cancel() and <-done.
StopAfterCapture(c, e) ==
  call' = [call EXCEPT ![c] =
             IF att[e] = 0 THEN Idle
             ELSE [@ EXCEPT !.pc = "shutdown", !.old = esrv[e], !.att = att[e]]]

\* Mutant: Replace returns without stopping the old server.
ReplaceSwap_LeavesOld(c) ==
  /\ call[c].pc = "swap"
  /\ esrv' = [esrv EXCEPT ![call[c].ent] = call[c].srv]
  /\ call' = [call EXCEPT ![c] = Idle]
  /\ UNCHANGED <<entries, removed, running, used, att, cancelled, rpc, rsrv,
                 stopReq, crashes, runVars, panicked>>

\* Replace under e.mu: swap the server, and capture the old attempt if the
\* supervisor was running when the entry was looked up.
ReplaceSwap(c) ==
  /\ call[c].pc = "swap"
  /\ LET e == call[c].ent
     IN /\ esrv' = [esrv EXCEPT ![e] = call[c].srv]
        /\ IF call[c].run THEN StopAfterCapture(c, e)
                          ELSE call' = [call EXCEPT ![c] = Idle]
  /\ UNCHANGED <<entries, removed, running, used, att, cancelled, rpc, rsrv,
                 stopReq, crashes, runVars, panicked>>

\* Remove under s.mu: delete the name.
RemoveLookup(c, n) ==
  /\ MayCall(c)
  /\ n \in Removable
  /\ entries[n] # None
  /\ entries' = [entries EXCEPT ![n] = None]
  /\ removed' = removed \cup {entries[n]}
  /\ call' = [call EXCEPT ![c] = [Idle EXCEPT !.pc = "capture",
                                              !.ent = entries[n]]]
  /\ UNCHANGED <<running, used, entryVars, runVars, panicked>>

\* stopCurrentAttempt under e.mu.
RemoveCapture(c) ==
  /\ call[c].pc = "capture"
  /\ StopAfterCapture(c, call[c].ent)
  /\ UNCHANGED <<entries, removed, running, used, entryVars, runVars,
                 panicked>>

\* Shutdown of an instance that listens asks its Start to stop; it finds
\* nothing to stop in one that does not.
ShutdownEffect(i) ==
  stopReq' = IF \E e \in Inst : rpc[e] = "serving" /\ rsrv[e] = i
             THEN stopReq \cup {i} ELSE stopReq

\* oldSrv.Shutdown, from its call to its return or its deadline.
CallShutdown(c) ==
  /\ call[c].pc = "shutdown"
  /\ ShutdownEffect(call[c].old)
  /\ call' = [call EXCEPT ![c].pc = "cancel"]
  /\ UNCHANGED <<entries, removed, running, used, esrv, att, cancelled, rpc,
                 rsrv, crashes, runVars, panicked>>

\* Mutant: the graceful Shutdown is trusted to end Start.
CallCancel_Forgotten(c) ==
  /\ call[c].pc = "cancel"
  /\ call' = [call EXCEPT ![c].pc = "join"]
  /\ UNCHANGED <<entries, removed, running, used, entryVars, runVars,
                 panicked>>

\* cancel() of the captured attempt, which may have ended long ago.
CallCancel(c) ==
  /\ call[c].pc = "cancel"
  /\ cancelled' = [cancelled EXCEPT ![call[c].ent] =
                     @ \/ att[call[c].ent] = call[c].att]
  /\ call' = [call EXCEPT ![c].pc = "join"]
  /\ UNCHANGED <<entries, removed, running, used, esrv, att, rpc, rsrv,
                 stopReq, crashes, runVars, panicked>>

\* Mutant: the call returns without waiting for done.
CallJoin_NoWait(c) ==
  /\ call[c].pc = "join"
  /\ call' = [call EXCEPT ![c] = Idle]
  /\ UNCHANGED <<entries, removed, running, used, entryVars, runVars,
                 panicked>>

\* <-done: the captured attempt has returned.
CallJoin(c) ==
  /\ call[c].pc = "join"
  /\ att[call[c].ent] # call[c].att \/ ~ Up(call[c].ent)
  /\ call' = [call EXCEPT ![c] = Idle]
  /\ UNCHANGED <<entries, removed, running, used, entryVars, runVars,
                 panicked>>

CallStep(c) ==
  \/ Add(c) \/ ReplaceSwap(c) \/ RemoveCapture(c)
  \/ CallShutdown(c) \/ CallCancel(c) \/ CallJoin(c)

-----------------------------------------------------------------------------
(* Run, in the goroutine that main starts.                                 *)

\* Under s.mu: publish s.running, snapshot the entries; spawn runEntry.
RunStart ==
  /\ runPc = "init"
  /\ runPc' = "wait"
  /\ running' = TRUE
  /\ wg' = Registered
  /\ rpc' = [e \in Inst |-> IF e \in Registered THEN "head" ELSE rpc[e]]
  /\ UNCHANGED <<entries, removed, used, esrv, att, cancelled, rsrv, stopReq,
                 crashes, parentDone, toStop, runStop, call, panicked>>

\* The native window is closed.
ParentCancel ==
  /\ ~ parentDone
  /\ parentDone' = TRUE
  /\ UNCHANGED <<entries, removed, running, used, entryVars, runPc, wg, toStop,
                 runStop, call, panicked>>

\* After <-ctx.Done(), under s.mu: snapshot the entries, clear s.running.
RunCollect ==
  /\ runPc = "wait" /\ parentDone
  /\ runPc' = "stopping"
  /\ running' = FALSE
  /\ toStop' = Registered
  /\ UNCHANGED <<entries, removed, used, entryVars, parentDone, wg, runStop,
                 call, panicked>>

\* Under e.mu: read the server to shut down.
RunReadSrv(e) ==
  /\ e \in toStop
  /\ toStop' = toStop \ {e}
  /\ runStop' = runStop \cup {esrv[e]}
  /\ UNCHANGED <<entries, removed, running, used, entryVars, parentDone, runPc,
                 wg, call, panicked>>

RunShutdown(i) ==
  /\ i \in runStop
  /\ runStop' = runStop \ {i}
  /\ ShutdownEffect(i)
  /\ UNCHANGED <<entries, removed, running, used, esrv, att, cancelled, rpc,
                 rsrv, crashes, parentDone, runPc, wg, toStop, call, panicked>>

\* shutdownWG.Wait() and wg.Wait().
RunReturn ==
  /\ runPc = "stopping" /\ toStop = {} /\ runStop = {}
  /\ \A e \in wg : rpc[e] = "exited"
  /\ runPc' = "returned"
  /\ UNCHANGED <<entries, removed, running, used, entryVars, parentDone, wg,
                 toStop, runStop, call, panicked>>

RunStep ==
  \/ RunStart \/ RunCollect \/ RunReturn
  \/ \E e \in Inst : RunReadSrv(e) \/ RunShutdown(e)

-----------------------------------------------------------------------------
Next ==
  /\ ~ panicked
  /\ \/ \E e \in Inst : \/ EntryStep(e) \/ StartFails(e)
                        \/ StartStopped(e) \/ BackoffAborted(e)
     \/ \E c \in Caller : \/ \E i \in Inst : ReplaceLookup(c, i)
                          \/ \E n \in Name : RemoveLookup(c, n)
                          \/ CallStep(c)
     \/ RunStep
     \/ ParentCancel

Spec == Init /\ [][Next]_vars

(***************************************************************************)
(* Every goroutine that can run is scheduled by the Go runtime, a backoff  *)
(* timer fires, and a Start whose context is done returns (the contract of *)
(* the Server interface).  Nothing forces a crash, a reload, or the window *)
(* to close, and a Shutdown without a cancelled context does not force     *)
(* Start to return.                                                        *)
(***************************************************************************)
Fairness ==
  /\ \A e \in Inst : WF_vars(~ panicked /\ EntryStep(e))
  /\ \A c \in Caller : WF_vars(~ panicked /\ CallStep(c))
  /\ WF_vars(~ panicked /\ RunStep)

FairSpec == Spec /\ Fairness
-----------------------------------------------------------------------------
(* Properties.                                                             *)

\* Every variable keeps its type (the fields of Supervisor and entry, the
\* locals of Replace, Remove, Run and runEntry).
TypeOK ==
  /\ entries \in [Name -> Inst \cup {None}]
  /\ removed \subseteq Inst
  /\ running \in BOOLEAN
  /\ used \subseteq Inst
  /\ esrv \in [Inst -> Inst \cup {None}]
  /\ att \in [Inst -> Nat]
  /\ cancelled \in [Inst -> BOOLEAN]
  /\ rpc \in [Inst -> EntryPc]
  /\ rsrv \in [Inst -> Inst \cup {None}]
  /\ stopReq \subseteq Inst \cup {None}
  /\ crashes \in 0 .. MaxCrashes
  /\ parentDone \in BOOLEAN
  /\ runPc \in {"init", "wait", "stopping", "returned"}
  /\ wg \subseteq Inst
  /\ toStop \subseteq Inst
  /\ runStop \subseteq Inst \cup {None}
  /\ call \in [Caller -> Call]
  /\ panicked \in BOOLEAN

\* A server that has been swapped out keeps running only while somebody is
\* about to stop it: its context is done, or a Replace or Remove that
\* captured this very attempt has not reached its cancel() yet.  This is
\* what swapping e.srv and capturing e.cancel under one e.mu is for.
StaleIsBeingStopped ==
  \A e \in Inst : Up(e) /\ rsrv[e] # esrv[e] =>
    \/ CtxDone(e)
    \/ \E c \in Caller : /\ call[c].pc \in {"shutdown", "cancel"}
                         /\ call[c].ent = e
                         /\ call[c].att = att[e]

\* When a Replace that had to stop an attempt returns, the server it
\* replaced is not running, in whatever order other Replaces, crashes and
\* restarts came between its capture and its <-done.
ReplacedIsDown ==
  [][\A c \in Caller :
       call[c].pc = "join" /\ call[c].srv # None /\ call'[c].pc = "idle"
         => \A e \in Inst : ~ (Up(e)' /\ rsrv'[e] = call[c].old)]_vars

\* At most one entry of a name runs, those apart that Remove has unregistered:
\* two servers never compete for one listening address, even when several
\* reloads enable a server at once.
OneServerPerName ==
  \A e, f \in Inst \ removed :
    Up(e) /\ Up(f) /\ NameOf[e] = NameOf[f] => e = f

\* Every Replace and Remove returns (or the process has panicked): waiting
\* for the old attempt never blocks a reload for ever.
CallsReturn ==
  \A c \in Caller : (call[c].pc # "idle") ~> (call[c].pc = "idle" \/ panicked)

\* While the supervisor runs, a registered entry comes to serve the newest
\* server given to Replace, whatever other servers do, unless it is removed.
LatestServes ==
  \A e \in Inst :
    (runPc = "wait" /\ entries[NameOf[e]] = e) ~>
      \/ rpc[e] = "serving" /\ rsrv[e] = esrv[e]
      \/ entries[NameOf[e]] # e \/ parentDone \/ panicked

\* Once its context is cancelled, Run returns: no server, backoff or hot
\* swap in progress keeps the process from ending.
ShutdownCompletes == parentDone ~> (runPc = "returned" \/ panicked)

-----------------------------------------------------------------------------
(* What comments of server.go say, and the code does not do.               *)

\* "Remove stops and unregisters a server": when it has returned, nothing
\* of the entry it removed runs, unless the name has been added again.
RemovedIsDown ==
  \A e \in Inst :
    Up(e) /\ entries[NameOf[e]] = None =>
      \E c \in Caller : call[c].ent = e /\ call[c].srv = None

\* "If no server is registered under that name yet, Replace behaves like
\* Add": it never makes the program panic.
ReplaceNeverPanics == ~ panicked
=============================================================================
