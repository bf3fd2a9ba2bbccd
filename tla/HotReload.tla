----------------------------- MODULE HotReload -----------------------------
(***************************************************************************)
(* From a saved configuration file to the servers that run: config.Save    *)
(* and the settings handler of the web console, the watcher with its       *)
(* debounce timer (internal/config/watch.go), and the reload callback of   *)
(* cmd/dodaemon/main.go, which compares the new configuration with liveCfg *)
(* and calls Remove, Replace or UpdateConfig service by service.           *)
(*                                                                         *)
(* A configuration is abstracted to what the callback tells apart: per     *)
(* service, whether it is on, the part of its settings that needs a fresh  *)
(* instance when it changes ("addr": for ftp its listener, passive ports,  *)
(* TLS and allowlist, for webui its listener) and the rest.  The section   *)
(* of sftp is the whole FTP section.  Supervisor is seen from its caller:  *)
(* the registration changes first, the call returns later (module          *)
(* Supervisor is about what happens in between).                           *)
(***************************************************************************)
EXTENDS Naturals, FiniteSets

CONSTANTS
  Service,      \* the services, "ftp", "sftp", "tftp", "syslog" and "webui"
  Rank,         \* the order in which the callback goes through them
  Updatable,    \* those that take new settings while they run: ftp and webui
  MayFail,      \* those whose New can return an error: ftp and syslog
  Web,          \* the service whose settings handler saves configurations
  Addr, Rest,   \* the values of the two parts of a service's settings
  Config,       \* the valid configurations that may be saved
  Default,      \* what Load makes of an empty file
  Empty,        \* the content of a file that os.WriteFile has truncated
  Broken,       \* a content that the watcher or the callback rejects
  Boot,         \* the instances that main builds before the watcher runs
  None,         \* no instance
  MaxReloads    \* bound on the file-system events, hence on the reloads

Settings == [on : BOOLEAN, addr : Addr, rest : Rest]
Reload   == 1 .. MaxReloads
Inst     == Reload \cup {Boot}

ASSUME ConfigAssumption ==
  /\ Config \subseteq [Service -> Settings]
  /\ Default \in Config
  /\ Empty \notin Config /\ Broken \notin Config /\ Empty # Broken
ASSUME ServiceAssumption ==
  /\ Rank \in [Service -> Nat]
  /\ \A s, t \in Service : Rank[s] = Rank[t] => s = t
  /\ Updatable \subseteq Service /\ MayFail \subseteq Service /\ Web \in Updatable
ASSUME InstAssumption ==
  MaxReloads \in Nat /\ Boot \notin 1 .. MaxReloads /\ None \notin Inst

(***************************************************************************)
(* UI is who saves by config.Save: the web console and the native window.  *)
(***************************************************************************)
UI == {"web", "native"}

VARIABLES
  file,        \* the content of the configuration file
  saver,       \* saver[u]: how far u is with a save, and of what
  watch,       \* "off" until Watcher.Run watches the directory, "stopped" after it
  events,      \* events that Watcher.Run has not received yet
  notices,     \* events that the saves begun so far raise (for the bound only)
  armed,       \* the debounce timer runs
  pc,          \* pc[r]: how far the r-th call of reload is
  cfg,         \* cfg[r]: its newCfg and oldCfg
  todo,        \* todo[r]: the services it has still to deal with
  liveCfg,     \* the variable of that name
  ptr,         \* ftpSrv, sftpSrv, tftpSrv, syslogSrv, webSrv
  reg,         \* the instance that Supervisor has registered
  served,      \* the settings it runs with
  failed,      \* services whose last rebuild failed (history)
  missed,      \* the file changed while nobody watched (history)
  overlapped   \* a reload began while another ran (history)

saves   == <<file, saver, notices, missed>>
watcher == <<watch, events, armed>>
reloads == <<pc, cfg, todo, liveCfg, ptr, failed, overlapped>>
vars    == <<saves, watcher, reloads, reg, served>>

Off      == [on |-> FALSE, addr |-> CHOOSE a \in Addr : TRUE, rest |-> CHOOSE x \in Rest : TRUE]
Idle     == [pc |-> "idle", cfg |-> Default, by |-> None]
Usable(f) == f # Broken

(***************************************************************************)
(* Load starts from Default and lets the file override it, so a file that  *)
(* has been truncated and not yet written is a valid configuration.        *)
(***************************************************************************)
Load(f) == IF f = Empty THEN Default ELSE f

Active == {r \in Reload : pc[r] \in {"load", "switch", "call"}}

TypeOK ==
  /\ file \in Config \cup {Empty, Broken}
  /\ saver \in [UI -> [pc : {"idle", "write", "store"}, cfg : Config, by : Inst \cup {None}]]
  /\ watch \in {"off", "on", "stopped"}
  /\ events \in Nat /\ notices \in 0 .. MaxReloads /\ armed \in BOOLEAN
  /\ pc \in [Reload -> {"none", "load", "switch", "call", "done"}]
  /\ cfg \in [Reload -> [new : Config, old : Config]]
  /\ todo \in [Reload -> SUBSET Service]
  /\ liveCfg \in Config
  /\ ptr \in [Service -> Inst \cup {None}] /\ reg \in [Service -> Inst \cup {None}]
  /\ served \in [Service -> Settings]
  /\ failed \in SUBSET Service
  /\ missed \in BOOLEAN /\ overlapped \in BOOLEAN

(***************************************************************************)
(* newRunFunc up to the watcher: the file has been loaded and every        *)
(* enabled server built and added.                                         *)
(***************************************************************************)
Init ==
  /\ liveCfg \in Config
  /\ file = liveCfg
  /\ saver = [u \in UI |-> Idle]
  /\ watch = "off" /\ events = 0 /\ notices = 0 /\ armed = FALSE
  /\ pc = [r \in Reload |-> "none"]
  /\ cfg = [r \in Reload |-> [new |-> Default, old |-> Default]]
  /\ todo = [r \in Reload |-> {}]
  /\ ptr = [s \in Service |-> IF liveCfg[s].on THEN Boot ELSE None]
  /\ reg = ptr
  /\ served = [s \in Service |-> IF liveCfg[s].on THEN liveCfg[s] ELSE Off]
  /\ failed = {} /\ missed = FALSE /\ overlapped = FALSE

-----------------------------------------------------------------------------
(***************************************************************************)
(* Saving.  Every change of the file is an event for the watcher, if it    *)
(* watches already.                                                        *)
(***************************************************************************)
Notify ==
  /\ events' = IF watch = "on" THEN events + 1 ELSE events
  /\ missed' = (missed \/ watch = "off")

(***************************************************************************)
(* config.Save is os.WriteFile, which truncates the file and then writes   *)
(* it.  The web console's handler is a method of the running instance.     *)
(***************************************************************************)
SaveBegin(u) ==
  /\ saver[u].pc = "idle"
  /\ u = "web" => reg[Web] # None
  /\ notices + 2 <= MaxReloads /\ notices' = notices + 2
  /\ \E c \in Config : saver' = [saver EXCEPT ![u] = [pc |-> "write", cfg |-> c, by |-> reg[Web]]]
  /\ file' = Empty
  /\ Notify
  /\ UNCHANGED <<watch, armed, reloads, reg, served>>

(***************************************************************************)
(* A write that finds the other's text in the file overwrites its          *)
(* beginning only: what is left may not parse.                             *)
(***************************************************************************)
SaveWrite(u) ==
  /\ saver[u].pc = "write"
  /\ file' \in {saver[u].cfg} \cup (IF file = Empty THEN {} ELSE {Broken})
  /\ saver' = [saver EXCEPT ![u] = IF u = "web" THEN [@ EXCEPT !.pc = "store"] ELSE Idle]
  /\ Notify
  /\ UNCHANGED <<notices, watch, armed, reloads, reg, served>>

(***************************************************************************)
(* The write fails, at once or after a part of the text: the handler       *)
(* returns the error and the file stays truncated or broken.               *)
(***************************************************************************)
SaveFails(u) ==
  /\ saver[u].pc = "write"
  /\ saver' = [saver EXCEPT ![u] = Idle]
  /\ \/ UNCHANGED <<file, events, missed>>
     \/ file' = Broken /\ Notify
  /\ UNCHANGED <<notices, watch, armed, reloads, reg, served>>

(***************************************************************************)
(* The handler's s.cfg.Store and s.acl.Store: the web server that took the *)
(* request applies the settings at once, its listener apart.               *)
(***************************************************************************)
SaveStore(u) ==
  /\ saver[u].pc = "store"
  /\ saver' = [saver EXCEPT ![u] = Idle]
  /\ served' = IF saver[u].by = reg[Web]
                 THEN [served EXCEPT ![Web].rest = saver[u].cfg[Web].rest] ELSE served
  /\ UNCHANGED <<file, notices, missed, watcher, reloads, reg>>

(***************************************************************************)
(* An editor replaces the file by any text.                                *)
(***************************************************************************)
Edit ==
  /\ notices < MaxReloads /\ notices' = notices + 1
  /\ file' \in Config \cup {Broken}
  /\ Notify
  /\ UNCHANGED <<saver, watch, armed, reloads, reg, served>>

-----------------------------------------------------------------------------
(***************************************************************************)
(* The watcher: fsw.Add, the event loop with its debounce, the context.    *)
(***************************************************************************)
WatchBegins ==
  /\ watch = "off"
  /\ watch' \in {"on", "stopped"}
  /\ UNCHANGED <<saves, events, armed, reloads, reg, served>>

HandleEvent ==
  /\ watch = "on" /\ events > 0
  /\ events' = events - 1
  /\ armed' = TRUE
  /\ UNCHANGED <<saves, watch, reloads, reg, served>>

WatchEnds ==
  /\ watch = "on"
  /\ watch' = "stopped"
  /\ armed' = FALSE
  /\ UNCHANGED <<saves, events, reloads, reg, served>>

(***************************************************************************)
(* The timer calls reload in a goroutine of its own, at least 300 ms after *)
(* the event and after the call before it.  Timing assumption: only what   *)
(* waits for a server to stop takes that long, so by then no handler is    *)
(* between its write and its store, and an earlier reload has ended or     *)
(* waits in Remove or Replace.                                             *)
(***************************************************************************)
RestIsPrompt ==
  /\ \A u \in UI : saver[u].pc # "store"
  /\ \A r \in Reload : pc[r] \notin {"load", "switch"}

TimerFires ==
  /\ armed
  /\ RestIsPrompt
  /\ armed' = FALSE
  /\ \E r \in Reload :
       /\ pc[r] = "none" /\ \A q \in Reload : q < r => pc[q] # "none"
       /\ pc' = [pc EXCEPT ![r] = "load"]
  /\ overlapped' = (overlapped \/ Active # {})
  /\ UNCHANGED <<saves, watch, events, cfg, todo, liveCfg, ptr, failed, reg, served>>

-----------------------------------------------------------------------------
(***************************************************************************)
(* reload(r): Load, and the callback up to its first switch.               *)
(***************************************************************************)
LoadFile_NoCheck(r) ==
  /\ pc[r] = "load"
  /\ cfg' = [cfg EXCEPT ![r] = [new |-> Load(file), old |-> liveCfg]]
  /\ todo' = [todo EXCEPT ![r] = Service]
  /\ pc' = [pc EXCEPT ![r] = "switch"]
  /\ UNCHANGED <<saves, watcher, liveCfg, ptr, failed, overlapped, reg, served>>

LoadFile(r) ==
  /\ pc[r] = "load"
  /\ IF Usable(file)
       THEN /\ cfg' = [cfg EXCEPT ![r] = [new |-> Load(file), old |-> liveCfg]]
            /\ todo' = [todo EXCEPT ![r] = Service]
            /\ pc' = [pc EXCEPT ![r] = "switch"]
       ELSE /\ pc' = [pc EXCEPT ![r] = "done"]
            /\ UNCHANGED <<cfg, todo>>
  /\ UNCHANGED <<saves, watcher, liveCfg, ptr, failed, overlapped, reg, served>>

AtSwitch(r, s) ==
  /\ pc[r] = "switch" /\ s \in todo[r]
  /\ \A t \in todo[r] : Rank[s] <= Rank[t]

New(r, s) == cfg[r].new[s]
Old(r, s) == cfg[r].old[s]

(***************************************************************************)
(* The conditions of the cases: a service that has UpdateConfig is rebuilt *)
(* for some changes only, the others for any.                              *)
(***************************************************************************)
Disables(r, s) == ~New(r, s).on /\ ptr[s] # None

Rebuilds_AnyChange(r, s) == New(r, s).on /\ (ptr[s] = None \/ Old(r, s) # New(r, s))

Rebuilds(r, s) ==
  /\ New(r, s).on
  /\ \/ ptr[s] = None
     \/ IF s \in Updatable THEN Old(r, s).addr # New(r, s).addr ELSE Old(r, s) # New(r, s)

Updates(r, s) == s \in Updatable /\ New(r, s).on /\ ptr[s] # None /\ ~Rebuilds(r, s)

CallRemove(r, s) ==
  /\ AtSwitch(r, s) /\ Disables(r, s)
  /\ reg' = [reg EXCEPT ![s] = None]
  /\ served' = [served EXCEPT ![s] = Off]
  /\ failed' = failed \ {s}
  /\ pc' = [pc EXCEPT ![r] = "call"]
  /\ UNCHANGED <<saves, watcher, cfg, todo, liveCfg, ptr, overlapped>>

(***************************************************************************)
(* Replace of a name that is not registered is Add, which does not wait.   *)
(***************************************************************************)
CallAdd(r, s) ==
  /\ AtSwitch(r, s) /\ Rebuilds(r, s) /\ reg[s] = None
  /\ reg' = [reg EXCEPT ![s] = r]
  /\ served' = [served EXCEPT ![s] = New(r, s)]
  /\ failed' = failed \ {s}
  /\ ptr' = [ptr EXCEPT ![s] = r]
  /\ todo' = [todo EXCEPT ![r] = @ \ {s}]
  /\ UNCHANGED <<saves, watcher, pc, cfg, liveCfg, overlapped>>

CallReplace(r, s) ==
  /\ AtSwitch(r, s) /\ Rebuilds(r, s) /\ reg[s] # None
  /\ reg' = [reg EXCEPT ![s] = r]
  /\ served' = [served EXCEPT ![s] = New(r, s)]
  /\ failed' = failed \ {s}
  /\ pc' = [pc EXCEPT ![r] = "call"]
  /\ UNCHANGED <<saves, watcher, cfg, todo, liveCfg, ptr, overlapped>>

BuildFails(r, s) ==
  /\ AtSwitch(r, s) /\ Rebuilds(r, s) /\ s \in MayFail
  /\ failed' = failed \cup {s}
  /\ todo' = [todo EXCEPT ![r] = @ \ {s}]
  /\ UNCHANGED <<saves, watcher, pc, cfg, liveCfg, ptr, overlapped, reg, served>>

(***************************************************************************)
(* UpdateConfig reaches the instance that the variable holds, which is     *)
(* the registered one unless another reload has replaced it meanwhile.     *)
(***************************************************************************)
CallUpdate(r, s) ==
  /\ AtSwitch(r, s) /\ Updates(r, s)
  /\ served' = IF ptr[s] = reg[s] THEN [served EXCEPT ![s].rest = New(r, s).rest] ELSE served
  /\ todo' = [todo EXCEPT ![r] = @ \ {s}]
  /\ UNCHANGED <<saves, watcher, pc, cfg, liveCfg, ptr, failed, overlapped, reg>>

NothingToDo_IfEnabled(r, s) ==
  /\ AtSwitch(r, s)
  /\ New(r, s).on /\ ~Rebuilds(r, s) /\ ~Updates(r, s)
  /\ todo' = [todo EXCEPT ![r] = @ \ {s}]
  /\ UNCHANGED <<saves, watcher, pc, cfg, liveCfg, ptr, failed, overlapped, reg, served>>

NothingToDo(r, s) ==
  /\ AtSwitch(r, s)
  /\ ~Disables(r, s) /\ ~Rebuilds(r, s) /\ ~Updates(r, s)
  /\ todo' = [todo EXCEPT ![r] = @ \ {s}]
  /\ UNCHANGED <<saves, watcher, pc, cfg, liveCfg, ptr, failed, overlapped, reg, served>>

(***************************************************************************)
(* Remove or Replace returns and the callback sets the variable.           *)
(***************************************************************************)
CallReturns(r, s) ==
  /\ pc[r] = "call" /\ s \in todo[r]
  /\ \A t \in todo[r] : Rank[s] <= Rank[t]
  /\ ptr' = [ptr EXCEPT ![s] = IF New(r, s).on THEN r ELSE None]
  /\ todo' = [todo EXCEPT ![r] = @ \ {s}]
  /\ pc' = [pc EXCEPT ![r] = "switch"]
  /\ UNCHANGED <<saves, watcher, cfg, liveCfg, failed, overlapped, reg, served>>

ReloadEnds_ForgetsLive(r) ==
  /\ pc[r] = "switch" /\ todo[r] = {}
  /\ pc' = [pc EXCEPT ![r] = "done"]
  /\ cfg' = [cfg EXCEPT ![r] = [new |-> Default, old |-> Default]]
  /\ UNCHANGED <<saves, watcher, todo, liveCfg, ptr, failed, overlapped, reg, served>>

ReloadEnds(r) ==
  /\ pc[r] = "switch" /\ todo[r] = {}
  /\ liveCfg' = cfg[r].new
  /\ pc' = [pc EXCEPT ![r] = "done"]
  /\ cfg' = [cfg EXCEPT ![r] = [new |-> Default, old |-> Default]]
  /\ UNCHANGED <<saves, watcher, todo, ptr, failed, overlapped, reg, served>>

ServiceStep(r, s) ==
  \/ CallRemove(r, s) \/ CallAdd(r, s) \/ CallReplace(r, s) \/ BuildFails(r, s)
  \/ CallUpdate(r, s) \/ NothingToDo(r, s) \/ CallReturns(r, s)

ReloadStep(r) == LoadFile(r) \/ (\E s \in Service : ServiceStep(r, s)) \/ ReloadEnds(r)

Next ==
  \/ \E u \in UI : SaveBegin(u) \/ SaveWrite(u) \/ SaveFails(u) \/ SaveStore(u)
  \/ Edit
  \/ WatchBegins \/ HandleEvent \/ WatchEnds \/ TimerFires
  \/ \E r \in Reload : ReloadStep(r)

Spec == Init /\ [][Next]_vars

(***************************************************************************)
(* Goroutines are scheduled, timers fire, and Supervisor's calls return    *)
(* (its property CallsReturn).  Nobody has to save, the watcher may fail.  *)
(***************************************************************************)
Fairness ==
  /\ \A u \in UI : WF_vars(SaveWrite(u) \/ SaveFails(u) \/ SaveStore(u))
  /\ WF_vars(HandleEvent) /\ WF_vars(TimerFires) /\ WF_vars(WatchBegins)
  /\ \A r \in Reload : WF_vars(ReloadStep(r))

FairSpec == Spec /\ Fairness

-----------------------------------------------------------------------------
(***************************************************************************)
(* Properties.                                                             *)
(***************************************************************************)
Settled ==
  /\ watch = "on" /\ events = 0 /\ ~armed /\ Active = {}
  /\ \A u \in UI : saver[u].pc = "idle"

Serves(s, c) ==
  IF c[s].on THEN reg[s] # None /\ served[s] = c[s] ELSE reg[s] = None

Applied ==
  IF Usable(file)
    THEN \A s \in Service \ failed : Serves(s, Load(file))
    ELSE \A s \in Service \ (failed \cup {Web}) : Serves(s, liveCfg)

(***************************************************************************)
(* Once every event has been handled and no two reloads have overlapped,   *)
(* each service runs exactly as the file says, or, when the file is        *)
(* broken, as the last configuration that was loaded (the web console,     *)
(* which also applies what it saves itself, apart).  Excepted is a service *)
(* whose rebuild failed, and a change made before the watcher watched.     *)
(***************************************************************************)
SettledMeansApplied == Settled /\ ~missed /\ ~overlapped => Applied

(***************************************************************************)
(* The same though reloads overlap, as the plan's atomic application of a  *)
(* validated configuration would have it.  Not so: the restart buttons     *)
(* save "off" and 400 ms later "on"; while the first reload still waits in *)
(* Remove, the second sees the old liveCfg and the old variable and finds  *)
(* nothing to do.                                                          *)
(***************************************************************************)
LastSaveWins == Settled /\ ~missed => Applied

(***************************************************************************)
(* A running server is replaced only by one with other settings, and ftp   *)
(* and webui only if what cannot be changed while they run has changed:    *)
(* user and permission changes drop no connection.                         *)
(***************************************************************************)
NeedlessRestart(s) ==
  /\ reg[s] # None /\ reg'[s] # None /\ reg'[s] # reg[s]
  /\ ~overlapped /\ s \notin failed
  /\ IF s \in Updatable THEN served'[s].addr = served[s].addr ELSE served'[s] = served[s]

NoNeedlessRestart == [][\A s \in Service : ~NeedlessRestart(s)]_vars

(***************************************************************************)
(* When the saves cease, every event is handled and every reload ends.     *)
(***************************************************************************)
Settles == watch = "on" ~> Settled \/ watch = "stopped"
=============================================================================
