-------------------------- MODULE HotReloadProofs --------------------------
(***************************************************************************)
(* That the servers come to run as the configuration file says, for any    *)
(* services, configurations and number of reloads.                         *)
(***************************************************************************)
EXTENDS HotReload, TLAPS

(***************************************************************************)
(* The inductive invariant.  Reloads that do not overlap run one at a      *)
(* time; every service follows liveCfg until the reload has dealt with it  *)
(* and the new configuration from then on.  The settings that the web      *)
(* console stores itself are accounted for apart: Holds leaves them out.   *)
(***************************************************************************)
Applying == {r \in Reload : pc[r] \in {"switch", "call"}}
First(r, s) == \A t \in todo[r] : Rank[s] <= Rank[t]
InCall(r, s) == pc[r] = "call" /\ s \in todo[r] /\ First(r, s)

Holds(s, c) ==
  IF c[s].on
    THEN /\ reg[s] # None
         /\ served[s].on /\ served[s].addr = c[s].addr
         /\ s # Web => served[s].rest = c[s].rest
    ELSE reg[s] = None

Follows(s, c) == ptr[s] = reg[s] /\ (s \notin failed => Holds(s, c))

OneAtATime == \A q, r \in Active : q = r

Between == Applying = {} => \A s \in Service : Follows(s, liveCfg)

Within ==
  \A r \in Applying :
    /\ cfg[r].old = liveCfg
    /\ \A s \in todo[r] : ~InCall(r, s) => Follows(s, liveCfg)
    /\ \A s \in Service \ todo[r] : Follows(s, cfg[r].new)
    /\ \A s \in todo[r] : InCall(r, s) =>
         /\ reg[s] = (IF cfg[r].new[s].on THEN r ELSE None)
         /\ s \notin failed => Holds(s, cfg[r].new)

(***************************************************************************)
(* What the file says is on its way: an event, the timer or a reload that  *)
(* has yet to read it.  Otherwise it has been read.                        *)
(***************************************************************************)
Pending == events > 0 \/ armed \/ \E r \in Reload : pc[r] = "load"
UpToDate == watch # "stopped" /\ ~missed /\ ~Pending /\ Usable(file)
RestOK(c) == Web \notin failed /\ c[Web].on => served[Web].rest = c[Web].rest

StorePending ==
  \A u \in UI : saver[u].pc = "store" /\ watch # "stopped" /\ ~missed => events > 0 \/ armed

Fresh ==
  UpToDate =>
    /\ Applying = {} => liveCfg = Load(file) /\ RestOK(liveCfg)
    /\ \A r \in Applying :
         /\ cfg[r].new = Load(file)
         /\ Web \notin todo[r] \/ InCall(r, Web) => RestOK(cfg[r].new)

IInv ==
  /\ TypeOK
  /\ StorePending
  /\ ~overlapped => OneAtATime /\ Between /\ Within /\ Fresh

-----------------------------------------------------------------------------
\* The settings of a service that does not run are settings.
LEMMA OffType == Off \in Settings
<1>1. Default[Web] \in Settings
  BY ConfigAssumption, ServiceAssumption
<1>2. Default[Web].addr \in Addr /\ Default[Web].rest \in Rest
  BY <1>1 DEF Settings
<1>3. (CHOOSE a \in Addr : TRUE) \in Addr /\ (CHOOSE x \in Rest : TRUE) \in Rest
  BY <1>2, Zenon
<1>4. QED
  BY <1>3 DEF Off, Settings

\* What Load makes of a file that is not broken is a configuration.
LEMMA LoadType ==
  ASSUME NEW f \in Config \cup {Empty, Broken}, Usable(f)
  PROVE  Load(f) \in Config
BY ConfigAssumption DEF Usable, Load

\* The types hold when main has built the first servers.
LEMMA TypeInit == Init => TypeOK
<1>. SUFFICES ASSUME Init PROVE TypeOK
  OBVIOUS
<1>. USE ConfigAssumption, ServiceAssumption, InstAssumption
<1>1. file \in Config \cup {Empty, Broken} /\ liveCfg \in Config
  BY DEF Init
<1>2. saver \in [UI -> [pc : {"idle", "write", "store"}, cfg : Config, by : Inst \cup {None}]]
  BY DEF Init, Idle
<1>3. ptr \in [Service -> Inst \cup {None}] /\ reg \in [Service -> Inst \cup {None}]
  BY DEF Init, Inst
<1>4. served \in [Service -> Settings]
  BY <1>1, OffType DEF Init
<1>5. cfg \in [Reload -> [new : Config, old : Config]]
  BY DEF Init
<1>6. notices \in 0 .. MaxReloads /\ events \in Nat
  BY DEF Init
<1>7. pc \in [Reload -> {"none", "load", "switch", "call", "done"}] /\ todo \in [Reload -> SUBSET Service]
  BY DEF Init
<1>8. armed \in BOOLEAN /\ missed \in BOOLEAN /\ overlapped \in BOOLEAN /\ failed \in SUBSET Service
  BY Zenon DEF Init
<1>9. watch \in {"off", "on", "stopped"}
  BY DEF Init
<1>10. QED
  BY <1>1, <1>2, <1>3, <1>4, <1>5, <1>6, <1>7, <1>8, <1>9, Zenon DEF TypeOK

\* Every step keeps the types.
LEMMA TypeNext == TypeOK /\ [Next]_vars => TypeOK'
<1>. SUFFICES ASSUME TypeOK, [Next]_vars PROVE TypeOK'
  OBVIOUS
<1>. USE ConfigAssumption, ServiceAssumption, InstAssumption
<1>1. ASSUME NEW u \in UI, SaveBegin(u) PROVE TypeOK'
  <2>1. PICK c \in Config : saver' = [saver EXCEPT ![u] = [pc |-> "write", cfg |-> c, by |-> reg[Web]]]
    BY <1>1 DEF SaveBegin
  <2>2. reg[Web] \in Inst \cup {None}
    BY DEF TypeOK
  <2>3. saver' \in [UI -> [pc : {"idle", "write", "store"}, cfg : Config, by : Inst \cup {None}]]
    BY <2>1, <2>2 DEF TypeOK
  <2>4. notices' \in 0 .. MaxReloads /\ events' \in Nat /\ missed' \in BOOLEAN
    BY <1>1 DEF SaveBegin, Notify, TypeOK
  <2>5. QED
    BY <1>1, <2>3, <2>4 DEF SaveBegin, TypeOK, reloads
<1>2. ASSUME NEW u \in UI, SaveWrite(u) PROVE TypeOK'
  <2>1. saver' \in [UI -> [pc : {"idle", "write", "store"}, cfg : Config, by : Inst \cup {None}]]
    <3>. DEFINE Saving == [pc : {"idle", "write", "store"}, cfg : Config, by : Inst \cup {None}]
    <3>1. saver[u] \in Saving
      BY DEF TypeOK
    <3>2. [saver[u] EXCEPT !.pc = "store"] \in Saving /\ Idle \in Saving
      BY <3>1 DEF Idle
    <3>3. saver' = [saver EXCEPT ![u] = IF u = "web" THEN [saver[u] EXCEPT !.pc = "store"] ELSE Idle]
      BY <1>2 DEF SaveWrite
    <3>4. saver \in [UI -> Saving]
      BY DEF TypeOK
    <3>. HIDE DEF Saving
    <3>5. saver' \in [UI -> Saving]
      BY <3>2, <3>3, <3>4
    <3>6. QED
      BY <3>5 DEF Saving
  <2>2. file' \in Config \cup {Empty, Broken}
    BY <1>2 DEF SaveWrite, TypeOK
  <2>3. events' \in Nat /\ missed' \in BOOLEAN
    BY <1>2 DEF SaveWrite, Notify, TypeOK
  <2>4. QED
    BY <1>2, <2>1, <2>2, <2>3 DEF SaveWrite, TypeOK, reloads
<1>3. ASSUME NEW u \in UI, SaveStore(u) PROVE TypeOK'
  <2>1. saver' \in [UI -> [pc : {"idle", "write", "store"}, cfg : Config, by : Inst \cup {None}]]
    BY <1>3 DEF SaveStore, TypeOK, Idle
  <2>2. saver[u].cfg[Web].rest \in Rest
    BY DEF TypeOK, Settings
  <2>3. served' \in [Service -> Settings]
    BY <1>3, <2>2 DEF SaveStore, TypeOK, Settings
  <2>4. QED
    BY <1>3, <2>1, <2>3 DEF SaveStore, TypeOK, reloads, watcher
<1>12. ASSUME NEW u \in UI, SaveFails(u) PROVE TypeOK'
  <2>1. saver' \in [UI -> [pc : {"idle", "write", "store"}, cfg : Config, by : Inst \cup {None}]]
    BY <1>12 DEF SaveFails, TypeOK, Idle
  <2>2. file' \in Config \cup {Empty, Broken} /\ events' \in Nat /\ missed' \in BOOLEAN
    <3>1. CASE Notify /\ file' = Broken
      BY <3>1 DEF Notify, TypeOK
    <3>2. CASE UNCHANGED <<file, events, missed>>
      BY <3>2 DEF TypeOK
    <3>3. QED
      BY <1>12, <3>1, <3>2 DEF SaveFails
  <2>3. QED
    BY <1>12, <2>1, <2>2 DEF SaveFails, TypeOK, reloads
<1>4. CASE Edit
  <2>1. events' \in Nat /\ missed' \in BOOLEAN /\ notices' \in 0 .. MaxReloads
    BY <1>4 DEF Edit, Notify, TypeOK
  <2>2. QED
    BY <1>4, <2>1 DEF Edit, TypeOK, reloads
<1>5. CASE WatchBegins \/ HandleEvent \/ WatchEnds
  <2>1. watch' \in {"off", "on", "stopped"} /\ events' \in Nat
    BY <1>5 DEF WatchBegins, HandleEvent, WatchEnds, TypeOK
  <2>2. armed' \in BOOLEAN
    BY <1>5, Zenon DEF WatchBegins, HandleEvent, WatchEnds, TypeOK
  <2>3. UNCHANGED <<saves, reloads, reg, served>>
    BY <1>5 DEF WatchBegins, HandleEvent, WatchEnds
  <2>4. QED
    BY <2>1, <2>2, <2>3 DEF TypeOK, saves, reloads
<1>6. CASE TimerFires
  BY <1>6 DEF TimerFires, TypeOK, saves
<1>7. ASSUME NEW r \in Reload, LoadFile(r) PROVE TypeOK'
  <2>1. CASE Usable(file)
    <3>1. Load(file) \in Config
      BY <2>1, LoadType DEF TypeOK
    <3>2. cfg' \in [Reload -> [new : Config, old : Config]]
      <4>1. cfg' = [cfg EXCEPT ![r] = [new |-> Load(file), old |-> liveCfg]]
        BY <1>7, <2>1 DEF LoadFile
      <4>2. QED
        BY <3>1, <4>1 DEF TypeOK
    <3>3. todo' \in [Reload -> SUBSET Service]
      BY <1>7, <2>1 DEF LoadFile, TypeOK
    <3>4. pc' \in [Reload -> {"none", "load", "switch", "call", "done"}]
      <4>1. pc' = [pc EXCEPT ![r] = "switch"]
        BY <1>7, <2>1 DEF LoadFile
      <4>2. QED
        BY <4>1 DEF TypeOK
    <3>5. QED
      BY <1>7, <3>2, <3>3, <3>4 DEF LoadFile, TypeOK, saves, watcher
  <2>2. CASE ~Usable(file)
    BY <1>7, <2>2 DEF LoadFile, TypeOK, saves, watcher
  <2>3. QED
    BY <2>1, <2>2
<1>8. ASSUME NEW r \in Reload, NEW s \in Service, ServiceStep(r, s) PROVE TypeOK'
  <2>1. New(r, s) \in Settings /\ New(r, s).rest \in Rest
    BY DEF New, TypeOK, Settings
  <2>2. CASE CallRemove(r, s)
    BY <2>2, OffType DEF CallRemove, TypeOK, saves, watcher
  <2>3. CASE CallReplace(r, s)
    BY <2>1, <2>3 DEF CallReplace, TypeOK, saves, watcher, Inst
  <2>8. CASE CallAdd(r, s)
    <3>1. served' \in [Service -> Settings]
      BY <2>1, <2>8 DEF CallAdd, TypeOK
    <3>2. todo' = [todo EXCEPT ![r] = todo[r] \ {s}]
      BY <2>8 DEF CallAdd
    <3>3. todo' \in [Reload -> SUBSET Service]
      BY <3>2 DEF TypeOK
    <3>4. reg' \in [Service -> Inst \cup {None}] /\ ptr' \in [Service -> Inst \cup {None}]
      BY <2>8 DEF CallAdd, TypeOK, Inst
    <3>5. QED
      BY <2>8, <3>1, <3>3, <3>4 DEF CallAdd, TypeOK, saves, watcher
  <2>4. CASE BuildFails(r, s) \/ NothingToDo(r, s)
    <3>1. todo' \in [Reload -> SUBSET Service]
      <4>1. todo' = [todo EXCEPT ![r] = todo[r] \ {s}]
        BY <2>4 DEF BuildFails, NothingToDo
      <4>2. QED
        BY <4>1 DEF TypeOK
    <3>2. failed' \in SUBSET Service
      BY <2>4 DEF BuildFails, NothingToDo, TypeOK
    <3>3. UNCHANGED <<saves, watcher, pc, cfg, liveCfg, ptr, overlapped, reg, served>>
      BY <2>4 DEF BuildFails, NothingToDo
    <3>4. QED
      BY <3>1, <3>2, <3>3 DEF TypeOK, saves, watcher
  <2>5. CASE CallUpdate(r, s)
    <3>1. served' \in [Service -> Settings]
      BY <2>1, <2>5 DEF CallUpdate, TypeOK, Settings
    <3>2. QED
      BY <2>5, <3>1 DEF CallUpdate, TypeOK, saves, watcher
  <2>6. CASE CallReturns(r, s)
    BY <2>6 DEF CallReturns, TypeOK, saves, watcher, Inst
  <2>7. QED
    BY <1>8, <2>2, <2>3, <2>4, <2>5, <2>6, <2>8 DEF ServiceStep
<1>9. ASSUME NEW r \in Reload, ReloadEnds(r) PROVE TypeOK'
  BY <1>9 DEF ReloadEnds, TypeOK, saves, watcher
<1>10. CASE UNCHANGED vars
  BY <1>10 DEF vars, saves, watcher, reloads, TypeOK
<1>11. QED
  BY <1>1, <1>2, <1>3, <1>4, <1>5, <1>6, <1>7, <1>8, <1>9, <1>10, <1>12 DEF Next, ReloadStep

(***************************************************************************)
(* Every variable of the reload path keeps its type.                       *)
(***************************************************************************)
THEOREM TypeCorrect == Spec => []TypeOK
BY TypeInit, TypeNext, PTL DEF Spec

-----------------------------------------------------------------------------
(***************************************************************************)
(* The registered settings, the part that only reloads change.             *)
(***************************************************************************)
SameServed(s) ==
  /\ served'[s].on = served[s].on /\ served'[s].addr = served[s].addr
  /\ s # Web => served'[s].rest = served[s].rest

\* Holds depends on the registration and the settings of one service only.
LEMMA HoldsFrame ==
  ASSUME NEW s, NEW c, reg'[s] = reg[s], SameServed(s), Holds(s, c)
  PROVE  Holds(s, c)'
BY DEF Holds, SameServed

\* So does Follows, with the variable and the failed builds.
LEMMA FollowsFrame ==
  ASSUME NEW s, NEW c, reg'[s] = reg[s], ptr'[s] = ptr[s], SameServed(s),
         s \notin failed' => s \notin failed, Follows(s, c)
  PROVE  Follows(s, c)'
BY DEF Holds, Follows, SameServed

(***************************************************************************)
(* What saves and the watcher do leaves the reload's part as it is.        *)
(***************************************************************************)
LEMMA ReloadFrame ==
  ASSUME UNCHANGED <<pc, cfg, todo, liveCfg, ptr, failed, reg>>,
         \A s \in Service : SameServed(s),
         TypeOK, OneAtATime, Between, Within
  PROVE  OneAtATime' /\ Between' /\ Within'
<1>1. Active' = Active /\ Applying' = Applying
  BY DEF Active, Applying
<1>2. OneAtATime'
  BY <1>1 DEF OneAtATime
<1>3. Between'
  BY <1>1, FollowsFrame DEF Between
<1>4. ASSUME NEW r \in Applying, NEW s \in Service PROVE InCall(r, s)' = InCall(r, s)
  BY DEF InCall, First
<1>5. Within'
  <2>. SUFFICES ASSUME NEW r \in Applying
                PROVE  /\ cfg[r].old = liveCfg
                       /\ \A s \in todo[r] : ~InCall(r, s)' => Follows(s, liveCfg)'
                       /\ \A s \in Service \ todo[r] : Follows(s, cfg[r].new)'
                       /\ \A s \in todo[r] : InCall(r, s)' =>
                            /\ reg[s] = (IF cfg[r].new[s].on THEN r ELSE None)
                            /\ s \notin failed => Holds(s, cfg[r].new)'
    BY <1>1 DEF Within
  <2>1. r \in Reload /\ todo[r] \subseteq Service
    BY DEF Applying, TypeOK
  <2>2. \A s \in todo[r] : ~InCall(r, s)' => Follows(s, liveCfg)'
    BY <1>4, <2>1, FollowsFrame DEF Within
  <2>3. \A s \in Service \ todo[r] : Follows(s, cfg[r].new)'
    BY FollowsFrame DEF Within
  <2>4. \A s \in todo[r] : InCall(r, s)' =>
          /\ reg[s] = (IF cfg[r].new[s].on THEN r ELSE None)
          /\ s \notin failed => Holds(s, cfg[r].new)'
    BY <1>4, <2>1, HoldsFrame DEF Within
  <2>5. QED
    BY <2>2, <2>3, <2>4 DEF Within
<1>6. QED
  BY <1>2, <1>3, <1>5

\* A save, an edit: the file is not up to date until the event is handled.
LEMMA SaveKeeps ==
  ASSUME TypeOK, IInv,
         \/ \E u \in UI : SaveBegin(u) \/ SaveWrite(u)
         \/ Edit
         \/ \E u \in UI : SaveFails(u) /\ Notify
  PROVE  StorePending' /\ (~overlapped' => OneAtATime' /\ Between' /\ Within' /\ Fresh')
<1>1. Notify /\ UNCHANGED <<watch, armed, reloads, reg, served>>
  BY DEF SaveBegin, SaveWrite, SaveFails, Edit
<1>2. watch' = "stopped" \/ missed' \/ events' > 0
  <2>1. CASE watch = "on"
    BY <1>1, <2>1 DEF Notify, TypeOK
  <2>2. CASE watch = "off"
    BY <1>1, <2>2, Zenon DEF Notify
  <2>3. CASE watch = "stopped"
    BY <1>1, <2>3
  <2>4. QED
    BY <2>1, <2>2, <2>3 DEF TypeOK
<1>3. StorePending'
  BY <1>2 DEF StorePending
<1>4. ~UpToDate'
  BY <1>2 DEF UpToDate, Pending
<1>5. Fresh'
  BY <1>4 DEF Fresh
<1>6. \A s \in Service : SameServed(s)
  BY <1>1 DEF SameServed
<1>7. ASSUME ~overlapped' PROVE OneAtATime' /\ Between' /\ Within'
  BY <1>1, <1>6, <1>7, ReloadFrame DEF reloads, IInv
<1>8. QED
  BY <1>3, <1>5, <1>7

\* The web console's own store happens while its event is still pending.
LEMMA StoreKeeps ==
  ASSUME TypeOK, IInv, NEW u \in UI, SaveStore(u)
  PROVE  StorePending' /\ (~overlapped' => OneAtATime' /\ Between' /\ Within' /\ Fresh')
<1>1. UNCHANGED <<file, notices, missed, watcher, reloads, reg>>
  BY DEF SaveStore
<1>2. StorePending'
  <2>1. \A v \in UI : saver'[v].pc = "store" => saver[v].pc = "store"
    BY DEF SaveStore, TypeOK, Idle
  <2>2. QED
    BY <1>1, <2>1 DEF StorePending, IInv, watcher
<1>3. watch = "stopped" \/ missed \/ events > 0 \/ armed
  BY DEF SaveStore, StorePending, IInv
<1>4. Fresh'
  BY <1>1, <1>3 DEF Fresh, UpToDate, Pending, watcher
<1>5. \A s \in Service : SameServed(s)
  BY DEF SameServed, SaveStore, TypeOK, Settings
<1>6. ASSUME ~overlapped' PROVE OneAtATime' /\ Between' /\ Within'
  BY <1>1, <1>5, <1>6, ReloadFrame DEF reloads, IInv
<1>7. QED
  BY <1>2, <1>4, <1>6

\* A save that fails.
LEMMA FailKeeps ==
  ASSUME TypeOK, IInv, NEW u \in UI, SaveFails(u)
  PROVE  StorePending' /\ (~overlapped' => OneAtATime' /\ Between' /\ Within' /\ Fresh')
<1>1. CASE Notify
  BY <1>1, SaveKeeps
<1>2. CASE UNCHANGED <<file, events, missed>>
  <2>1. UNCHANGED <<file, missed, watcher, reloads, reg, served>>
    BY <1>2 DEF SaveFails, watcher
  <2>2. \A v \in UI : saver'[v].pc = "store" => saver[v].pc = "store"
    BY DEF SaveFails, TypeOK, Idle
  <2>3. StorePending'
    BY <2>1, <2>2 DEF StorePending, IInv, watcher
  <2>4. \A s \in Service : SameServed(s)
    BY <2>1 DEF SameServed
  <2>5. ASSUME ~overlapped' PROVE OneAtATime' /\ Between' /\ Within'
    BY <2>1, <2>4, <2>5, ReloadFrame DEF reloads, IInv
  <2>6. ASSUME ~overlapped' PROVE Fresh'
    <3>1. Applying' = Applying /\ UpToDate' = UpToDate
      BY <2>1 DEF Applying, UpToDate, Pending, watcher, reloads
    <3>2. QED
      BY <2>1, <2>6, <3>1 DEF Fresh, IInv, RestOK, InCall, First, reloads
  <2>7. QED
    BY <2>3, <2>5, <2>6
<1>3. QED
  BY <1>1, <1>2 DEF SaveFails

\* The watcher's own steps.
LEMMA WatchKeeps ==
  ASSUME TypeOK, IInv, WatchBegins \/ HandleEvent \/ WatchEnds
  PROVE  StorePending' /\ (~overlapped' => OneAtATime' /\ Between' /\ Within' /\ Fresh')
<1>1. UNCHANGED <<saves, reloads, reg, served>>
  BY DEF WatchBegins, HandleEvent, WatchEnds
<1>2. watch' = "stopped" \/ armed' \/ (watch # "stopped" /\ UNCHANGED <<events, armed>>)
  BY DEF WatchBegins, HandleEvent, WatchEnds
<1>3. StorePending'
  BY <1>1, <1>2 DEF StorePending, IInv, saves
<1>4. ASSUME ~overlapped' PROVE Fresh'
  <2>1. UpToDate' => UpToDate
    BY <1>1, <1>2 DEF UpToDate, Pending, saves, reloads
  <2>2. Applying' = Applying /\ UNCHANGED <<liveCfg, file, cfg, todo>>
    BY <1>1 DEF Applying, saves, reloads
  <2>3. QED
    BY <1>1, <1>4, <2>1, <2>2 DEF Fresh, IInv, reloads, RestOK, InCall, First
<1>5. \A s \in Service : SameServed(s)
  BY <1>1 DEF SameServed
<1>6. ASSUME ~overlapped' PROVE OneAtATime' /\ Between' /\ Within'
  BY <1>1, <1>5, <1>6, ReloadFrame DEF reloads, IInv
<1>7. QED
  BY <1>3, <1>4, <1>6

\* The timer: if it does not make reloads overlap, none was under way.
LEMMA TimerKeeps ==
  ASSUME TypeOK, IInv, TimerFires
  PROVE  StorePending' /\ (~overlapped' => OneAtATime' /\ Between' /\ Within' /\ Fresh')
<1>1. UNCHANGED <<saves, watch, events, cfg, todo, liveCfg, ptr, failed, reg, served>>
  BY DEF TimerFires
<1>2. PICK r \in Reload : pc[r] = "none" /\ pc' = [pc EXCEPT ![r] = "load"]
  BY DEF TimerFires
<1>3. StorePending'
  BY <1>1 DEF TimerFires, RestIsPrompt, StorePending, saves
<1>4. Fresh'
  <2>1. pc'[r] = "load"
    BY <1>2 DEF TypeOK
  <2>2. QED
    BY <2>1 DEF Fresh, UpToDate, Pending
<1>5. ASSUME ~overlapped' PROVE OneAtATime' /\ Between' /\ Within'
  <2>1. Active = {} /\ ~overlapped
    BY <1>5 DEF TimerFires
  <2>2. \A q \in Reload : pc[q] \notin {"load", "switch", "call"}
    BY <2>1 DEF Active
  <2>3. Applying = {} /\ Applying' = {}
    BY <1>2, <2>2 DEF Applying, TypeOK
  <2>4. OneAtATime'
    BY <1>2, <2>2 DEF OneAtATime, Active, TypeOK
  <2>5. Between'
    BY <1>1, <2>1, <2>3 DEF Between, IInv, Follows, Holds
  <2>6. QED
    BY <2>3, <2>4, <2>5 DEF Within
<1>6. QED
  BY <1>3, <1>4, <1>5

\* Load: the reload has read the file as it is now, or ignores it.
LEMMA LoadKeeps ==
  ASSUME TypeOK, IInv, NEW r \in Reload, LoadFile(r)
  PROVE  StorePending' /\ (~overlapped' => OneAtATime' /\ Between' /\ Within' /\ Fresh')
<1>1. UNCHANGED <<saves, watcher, liveCfg, ptr, failed, overlapped, reg, served>> /\ pc[r] = "load"
  BY DEF LoadFile
<1>2. StorePending'
  BY <1>1 DEF StorePending, IInv, saves, watcher
<1>. SUFFICES ASSUME ~overlapped' PROVE OneAtATime' /\ Between' /\ Within' /\ Fresh'
  BY <1>2
<1>3. ~overlapped /\ OneAtATime /\ Between
  BY <1>1 DEF IInv
<1>4. \A q \in Reload : q # r => pc[q] \notin {"load", "switch", "call"}
  BY <1>1, <1>3 DEF OneAtATime, Active
<1>5. Applying = {}
  BY <1>1, <1>4 DEF Applying
<1>6. \A s \in Service : Follows(s, liveCfg)
  BY <1>3, <1>5 DEF Between
<1>7. CASE Usable(file)
  <2>1. /\ cfg' = [cfg EXCEPT ![r] = [new |-> Load(file), old |-> liveCfg]]
        /\ todo' = [todo EXCEPT ![r] = Service]
        /\ pc' = [pc EXCEPT ![r] = "switch"]
    BY <1>7 DEF LoadFile
  <2>2. /\ pc'[r] = "switch" /\ todo'[r] = Service
        /\ cfg'[r].new = Load(file) /\ cfg'[r].old = liveCfg
        /\ \A q \in Reload : q # r => pc'[q] = pc[q]
    BY <2>1 DEF TypeOK
  <2>3. Applying' = {r} /\ Active' = {r}
    BY <1>4, <2>2 DEF Applying, Active
  <2>4. OneAtATime' /\ Between'
    BY <2>3 DEF OneAtATime, Between
  <2>5. \A s \in Service : Follows(s, liveCfg)'
    BY <1>1, <1>6 DEF Follows, Holds
  <2>6. Within'
    BY <1>1, <2>2, <2>3, <2>5 DEF Within, InCall
  <2>7. Fresh'
    BY <1>1, <2>2, <2>3, ServiceAssumption DEF Fresh, InCall, saves
  <2>8. QED
    BY <2>4, <2>6, <2>7
<1>8. CASE ~Usable(file)
  <2>1. pc' = [pc EXCEPT ![r] = "done"]
    BY <1>8 DEF LoadFile
  <2>2. Applying' = {} /\ Active' = {}
    BY <1>4, <2>1 DEF Applying, Active, TypeOK
  <2>3. OneAtATime' /\ Within'
    BY <2>2 DEF OneAtATime, Within
  <2>4. Between'
    BY <1>1, <1>6 DEF Between, Follows, Holds
  <2>5. Fresh'
    BY <1>1, <1>8 DEF Fresh, UpToDate, saves
  <2>6. QED
    BY <2>3, <2>4, <2>5
<1>9. QED
  BY <1>7, <1>8

\* The end of a reload: every service follows what is now liveCfg.
LEMMA EndKeeps ==
  ASSUME TypeOK, IInv, NEW r \in Reload, ReloadEnds(r)
  PROVE  StorePending' /\ (~overlapped' => OneAtATime' /\ Between' /\ Within' /\ Fresh')
<1>1. UNCHANGED <<saves, watcher, todo, ptr, failed, overlapped, reg, served>>
  BY DEF ReloadEnds
<1>2. StorePending'
  BY <1>1 DEF StorePending, IInv, saves, watcher
<1>. SUFFICES ASSUME ~overlapped' PROVE OneAtATime' /\ Between' /\ Within' /\ Fresh'
  BY <1>2
<1>3. ~overlapped /\ OneAtATime /\ Within /\ Fresh
  BY <1>1 DEF IInv
<1>4. pc[r] = "switch" /\ todo[r] = {} /\ pc' = [pc EXCEPT ![r] = "done"] /\ liveCfg' = cfg[r].new
  BY DEF ReloadEnds
<1>5. \A q \in Reload : q # r => pc[q] \notin {"load", "switch", "call"}
  BY <1>3, <1>4 DEF OneAtATime, Active
<1>6. Active' = {} /\ Applying' = {} /\ r \in Applying
  BY <1>4, <1>5 DEF Applying, Active, TypeOK
<1>7. OneAtATime' /\ Within'
  BY <1>6 DEF OneAtATime, Within
<1>8. \A s \in Service : Follows(s, cfg[r].new)
  BY <1>3, <1>4, <1>6 DEF Within
<1>9. Between'
  BY <1>1, <1>4, <1>8 DEF Between, Follows, Holds
<1>10. Fresh'
  <2>1. UpToDate' => UpToDate
    BY <1>1, <1>4, <1>5 DEF UpToDate, Pending, saves, watcher
  <2>2. UpToDate => cfg[r].new = Load(file) /\ RestOK(cfg[r].new)
    BY <1>3, <1>4, <1>6 DEF Fresh
  <2>3. QED
    BY <1>1, <1>4, <1>6, <2>1, <2>2 DEF Fresh, RestOK, saves
<1>11. QED
  BY <1>7, <1>9, <1>10

(***************************************************************************)
(* A step that deals with service s: it is enough to look at s.            *)
(***************************************************************************)
LEMMA ServiceFrame ==
  ASSUME TypeOK, IInv, NEW r \in Reload, NEW s \in Service, NEW p \in {"switch", "call"},
         pc[r] \in {"switch", "call"}, s \in todo[r], First(r, s),
         UNCHANGED <<saves, watcher, cfg, liveCfg, overlapped>>,
         pc' = [pc EXCEPT ![r] = p],
         todo' = IF p = "call" THEN todo ELSE [todo EXCEPT ![r] = todo[r] \ {s}],
         \A t \in Service \ {s} :
           /\ reg'[t] = reg[t] /\ ptr'[t] = ptr[t] /\ served'[t] = served[t]
           /\ t \in failed' <=> t \in failed,
         ~overlapped =>
           /\ p = "call" => /\ reg'[s] = (IF cfg[r].new[s].on THEN r ELSE None)
                            /\ s \notin failed' => Holds(s, cfg[r].new)'
           /\ p = "switch" => Follows(s, cfg[r].new)'
           /\ UpToDate /\ s = Web => RestOK(cfg[r].new)'
  PROVE  StorePending' /\ (~overlapped' => OneAtATime' /\ Between' /\ Within' /\ Fresh')
<1>1. StorePending'
  BY DEF StorePending, IInv, saves, watcher
<1>. SUFFICES ASSUME ~overlapped' PROVE OneAtATime' /\ Between' /\ Within' /\ Fresh'
  BY <1>1
<1>2. ~overlapped /\ OneAtATime /\ Within /\ Fresh
  BY DEF IInv
<1>3. \A q \in Reload : q # r => pc[q] \notin {"load", "switch", "call"} /\ pc'[q] = pc[q]
  BY <1>2 DEF OneAtATime, Active, TypeOK
<1>4. pc'[r] = p
  BY DEF TypeOK
<1>5. Applying' = {r} /\ Active' = {r} /\ r \in Applying
  BY <1>3, <1>4 DEF Applying, Active
<1>6. OneAtATime' /\ Between'
  BY <1>5 DEF OneAtATime, Between
<1>7. todo[r] \subseteq Service /\ todo'[r] = IF p = "call" THEN todo[r] ELSE todo[r] \ {s}
  BY DEF TypeOK
<1>8. \A t \in todo[r] \ {s} : ~First(r, t)
  <2>. SUFFICES ASSUME NEW t \in todo[r] \ {s}, Rank[t] <= Rank[s] PROVE FALSE
    BY DEF First
  <2>1. Rank[t] \in Nat /\ Rank[s] \in Nat /\ Rank[s] <= Rank[t]
    BY <1>7, ServiceAssumption DEF First
  <2>2. Rank[s] = Rank[t]
    BY <2>1
  <2>3. QED
    BY <1>7, <2>2, ServiceAssumption
<1>9. \A t \in todo[r] \ {s} : ~InCall(r, t) /\ ~InCall(r, t)'
  <2>1. \A t \in todo[r] \ {s} : ~InCall(r, t)
    BY <1>8 DEF InCall
  <2>2. CASE p = "call"
    BY <1>7, <1>8, <2>1, <2>2 DEF InCall, First
  <2>3. CASE p = "switch"
    BY <1>4, <2>1, <2>3 DEF InCall
  <2>4. QED
    BY <2>2, <2>3
<1>10. ASSUME NEW t \in Service \ {s} PROVE
         /\ t \in todo[r] => Follows(t, liveCfg)'
         /\ t \notin todo[r] => Follows(t, cfg[r].new)'
  <2>1. t \in todo[r] => Follows(t, liveCfg)
    BY <1>2, <1>5, <1>9 DEF Within
  <2>2. t \notin todo[r] => Follows(t, cfg[r].new)
    BY <1>2, <1>5 DEF Within
  <2>3. QED
    BY <2>1, <2>2 DEF Follows, Holds
<1>11. InCall(r, s)' <=> p = "call"
  BY <1>4, <1>7 DEF InCall, First
<1>12. Within'
  <2>1. cfg'[r].old = liveCfg'
    BY <1>2, <1>5 DEF Within
  <2>2. \A t \in todo'[r] : ~InCall(r, t)' => Follows(t, liveCfg)'
    BY <1>7, <1>10, <1>11
  <2>3. \A t \in Service \ todo'[r] : Follows(t, cfg[r].new)'
    BY <1>2, <1>7, <1>10
  <2>4. \A t \in todo'[r] : InCall(r, t)' =>
          /\ reg'[t] = (IF cfg'[r].new[t].on THEN r ELSE None)
          /\ t \notin failed' => Holds(t, cfg[r].new)'
    BY <1>2, <1>7, <1>9, <1>11
  <2>5. QED
    BY <1>5, <2>1, <2>2, <2>3, <2>4 DEF Within
<1>13. Fresh'
  <2>1. UpToDate' => UpToDate
    BY <1>3, <1>4 DEF UpToDate, Pending, saves, watcher
  <2>2. UpToDate => cfg[r].new = Load(file)
    BY <1>2, <1>5 DEF Fresh
  <2>3. ASSUME UpToDate, Web \notin todo'[r] \/ InCall(r, Web)' PROVE RestOK(cfg[r].new)'
    <3>1. CASE s = Web
      BY <1>2, <2>3, <3>1
    <3>2. CASE s # Web
      <4>1. Web \notin todo[r]
        BY <1>7, <1>9, <2>3, <3>2, ServiceAssumption DEF InCall
      <4>2. RestOK(cfg[r].new)
        BY <1>2, <1>5, <2>3, <4>1 DEF Fresh
      <4>3. QED
        BY <3>2, <4>2, ServiceAssumption DEF RestOK
    <3>3. QED
      BY <3>1, <3>2
  <2>4. QED
    BY <1>5, <2>1, <2>2, <2>3 DEF Fresh, saves
<1>14. QED
  BY <1>6, <1>12, <1>13

(***************************************************************************)
(* Before a reload deals with s, the variable holds the registered         *)
(* instance and this one runs as the old configuration says.               *)
(***************************************************************************)
LEMMA AtSwitchFollows ==
  ASSUME TypeOK, IInv, ~overlapped, NEW r \in Reload, NEW s \in Service, AtSwitch(r, s)
  PROVE  ptr[s] = reg[s] /\ (s \notin failed => Holds(s, cfg[r].old))
<1>1. r \in Applying /\ ~InCall(r, s)
  BY DEF AtSwitch, Applying, InCall
<1>2. QED
  BY <1>1 DEF IInv, Within, AtSwitch, Follows

\* Each case of the switches brings its service to the new configuration.
LEMMA ServiceKeeps ==
  ASSUME TypeOK, IInv, NEW r \in Reload, NEW s \in Service, ServiceStep(r, s)
  PROVE  StorePending' /\ (~overlapped' => OneAtATime' /\ Between' /\ Within' /\ Fresh')
<1>1. cfg[r].new \in [Service -> Settings] /\ cfg[r].old \in [Service -> Settings]
  BY ConfigAssumption DEF TypeOK
<1>2. New(r, s) = cfg[r].new[s] /\ Old(r, s) = cfg[r].old[s]
  BY DEF New, Old
<1>3. Web \in Updatable /\ Web \in Service
  BY ServiceAssumption
<1>4. CASE CallRemove(r, s)
  <2>1. ~cfg[r].new[s].on /\ reg'[s] = None /\ pc' = [pc EXCEPT ![r] = "call"]
    BY <1>2, <1>4 DEF CallRemove, Disables, TypeOK
  <2>2. UNCHANGED <<saves, watcher, cfg, todo, liveCfg, ptr, overlapped>> /\ AtSwitch(r, s)
    BY <1>4 DEF CallRemove
  <2>3. \A t \in Service \ {s} :
           /\ reg'[t] = reg[t] /\ ptr'[t] = ptr[t] /\ served'[t] = served[t]
           /\ t \in failed' <=> t \in failed
    BY <1>4 DEF CallRemove, TypeOK
  <2>4. Holds(s, cfg[r].new)'
    BY <2>1, <2>2 DEF Holds
  <2>5. s = Web => RestOK(cfg[r].new)'
    BY <2>1, <2>2 DEF RestOK
  <2>6. pc[r] = "switch" /\ s \in todo[r] /\ First(r, s)
    BY <2>2 DEF AtSwitch, First
  <2>7. QED
    BY <2>1, <2>2, <2>3, <2>4, <2>5, <2>6, ServiceFrame
<1>5. CASE CallReplace(r, s)
  <2>1. /\ cfg[r].new[s].on /\ reg'[s] = r /\ served'[s] = cfg[r].new[s]
        /\ pc' = [pc EXCEPT ![r] = "call"]
    BY <1>2, <1>5 DEF CallReplace, Rebuilds, TypeOK
  <2>2. UNCHANGED <<saves, watcher, cfg, todo, liveCfg, ptr, overlapped>> /\ AtSwitch(r, s)
    BY <1>5 DEF CallReplace
  <2>3. \A t \in Service \ {s} :
           /\ reg'[t] = reg[t] /\ ptr'[t] = ptr[t] /\ served'[t] = served[t]
           /\ t \in failed' <=> t \in failed
    BY <1>5 DEF CallReplace, TypeOK
  <2>4. r # None
    BY InstAssumption DEF Inst
  <2>5. Holds(s, cfg[r].new)'
    BY <2>1, <2>2, <2>4 DEF Holds
  <2>6. s = Web => RestOK(cfg[r].new)'
    BY <2>1, <2>2 DEF RestOK
  <2>7. pc[r] = "switch" /\ s \in todo[r] /\ First(r, s)
    BY <2>2 DEF AtSwitch, First
  <2>8. QED
    BY <2>1, <2>2, <2>3, <2>5, <2>6, <2>7, ServiceFrame
<1>11. CASE CallAdd(r, s)
  <2>1. /\ cfg[r].new[s].on /\ reg'[s] = r /\ ptr'[s] = r /\ served'[s] = cfg[r].new[s]
        /\ todo' = [todo EXCEPT ![r] = todo[r] \ {s}]
    BY <1>2, <1>11 DEF CallAdd, Rebuilds, TypeOK
  <2>2. UNCHANGED <<saves, watcher, pc, cfg, liveCfg, overlapped>> /\ AtSwitch(r, s)
    BY <1>11 DEF CallAdd
  <2>3. \A t \in Service \ {s} :
           /\ reg'[t] = reg[t] /\ ptr'[t] = ptr[t] /\ served'[t] = served[t]
           /\ t \in failed' <=> t \in failed
    BY <1>11 DEF CallAdd, TypeOK
  <2>4. r # None
    BY InstAssumption DEF Inst
  <2>5. Follows(s, cfg[r].new)'
    BY <2>1, <2>2, <2>4 DEF Follows, Holds
  <2>6. s = Web => RestOK(cfg[r].new)'
    BY <2>1, <2>2 DEF RestOK
  <2>7. pc[r] = "switch" /\ s \in todo[r] /\ First(r, s) /\ pc' = [pc EXCEPT ![r] = "switch"]
    BY <2>2 DEF AtSwitch, First, TypeOK
  <2>8. QED
    BY <2>1, <2>2, <2>3, <2>5, <2>6, <2>7, ServiceFrame
<1>6. CASE BuildFails(r, s)
  <2>1. /\ UNCHANGED <<saves, watcher, pc, cfg, liveCfg, ptr, overlapped, reg, served>>
        /\ AtSwitch(r, s) /\ failed' = failed \cup {s}
        /\ todo' = [todo EXCEPT ![r] = todo[r] \ {s}]
    BY <1>6 DEF BuildFails
  <2>2. ~overlapped => Follows(s, cfg[r].new)'
    BY <2>1, AtSwitchFollows DEF Follows
  <2>3. s = Web => RestOK(cfg[r].new)'
    BY <2>1 DEF RestOK
  <2>4. pc[r] = "switch" /\ s \in todo[r] /\ First(r, s) /\ pc' = [pc EXCEPT ![r] = "switch"]
    BY <2>1 DEF AtSwitch, First, TypeOK
  <2>5. QED
    BY <2>1, <2>2, <2>3, <2>4, ServiceFrame
<1>7. CASE CallUpdate(r, s)
  <2>1. /\ UNCHANGED <<saves, watcher, pc, cfg, liveCfg, ptr, failed, overlapped, reg>>
        /\ AtSwitch(r, s)
        /\ todo' = [todo EXCEPT ![r] = todo[r] \ {s}]
    BY <1>7 DEF CallUpdate
  <2>2. cfg[r].new[s].on /\ ptr[s] # None /\ cfg[r].old[s].addr = cfg[r].new[s].addr
    BY <1>2, <1>7 DEF CallUpdate, Updates, Rebuilds
  <2>3. ~overlapped => served' = [served EXCEPT ![s].rest = cfg[r].new[s].rest]
    BY <1>2, <1>7, <2>1, AtSwitchFollows DEF CallUpdate
  <2>4. ~overlapped => /\ served'[s].rest = cfg[r].new[s].rest
                       /\ served'[s].on = served[s].on /\ served'[s].addr = served[s].addr
    BY <2>3 DEF TypeOK, Settings
  <2>5. ~overlapped => Follows(s, cfg[r].new)'
    BY <2>1, <2>2, <2>4, AtSwitchFollows DEF Follows, Holds
  <2>6. ~overlapped /\ s = Web => RestOK(cfg[r].new)'
    BY <2>1, <2>4 DEF RestOK
  <2>7. pc[r] = "switch" /\ s \in todo[r] /\ First(r, s) /\ pc' = [pc EXCEPT ![r] = "switch"]
    BY <2>1 DEF AtSwitch, First, TypeOK
  <2>8. \A t \in Service \ {s} : served'[t] = served[t]
    BY <1>7 DEF CallUpdate, TypeOK
  <2>9. QED
    BY <2>1, <2>5, <2>6, <2>7, <2>8, ServiceFrame
<1>8. CASE NothingToDo(r, s)
  <2>1. /\ UNCHANGED <<saves, watcher, pc, cfg, liveCfg, ptr, failed, overlapped, reg, served>>
        /\ AtSwitch(r, s)
        /\ todo' = [todo EXCEPT ![r] = todo[r] \ {s}]
    BY <1>8 DEF NothingToDo
  <2>2. \/ ~cfg[r].new[s].on /\ ptr[s] = None
        \/ cfg[r].new[s].on /\ ptr[s] # None /\ s \notin Updatable /\ cfg[r].old[s] = cfg[r].new[s]
    BY <1>2, <1>8 DEF NothingToDo, Disables, Rebuilds, Updates
  <2>3. ~overlapped => Follows(s, cfg[r].new)'
    BY <2>1, <2>2, AtSwitchFollows DEF Follows, Holds
  <2>4. s = Web => RestOK(cfg[r].new)'
    BY <1>3, <2>1, <2>2 DEF RestOK
  <2>5. pc[r] = "switch" /\ s \in todo[r] /\ First(r, s) /\ pc' = [pc EXCEPT ![r] = "switch"]
    BY <2>1 DEF AtSwitch, First, TypeOK
  <2>6. QED
    BY <2>1, <2>3, <2>4, <2>5, ServiceFrame
<1>9. CASE CallReturns(r, s)
  <2>1. /\ UNCHANGED <<saves, watcher, cfg, liveCfg, failed, overlapped, reg, served>>
        /\ todo' = [todo EXCEPT ![r] = todo[r] \ {s}] /\ pc' = [pc EXCEPT ![r] = "switch"]
        /\ pc[r] = "call" /\ s \in todo[r] /\ First(r, s)
    BY <1>9 DEF CallReturns, First
  <2>2. /\ ptr'[s] = (IF cfg[r].new[s].on THEN r ELSE None)
        /\ \A t \in Service \ {s} : ptr'[t] = ptr[t]
    BY <1>2, <1>9 DEF CallReturns, TypeOK
  <2>3. InCall(r, s) /\ r \in Applying
    BY <2>1 DEF InCall, Applying
  <2>4. ~overlapped => /\ reg[s] = (IF cfg[r].new[s].on THEN r ELSE None)
                       /\ s \notin failed => Holds(s, cfg[r].new)
    BY <2>1, <2>3 DEF IInv, Within
  <2>5. ~overlapped => Follows(s, cfg[r].new)'
    <3>1. ~overlapped => ptr'[s] = reg'[s]
      BY <2>1, <2>2, <2>4
    <3>2. ~overlapped => (s \notin failed' => Holds(s, cfg[r].new)')
      BY <2>1, <2>4 DEF Holds
    <3>3. QED
      BY <3>1, <3>2 DEF Follows
  <2>6. ~overlapped /\ UpToDate /\ s = Web => RestOK(cfg[r].new)'
    BY <2>1, <2>3 DEF IInv, Fresh, RestOK
  <2>7. QED
    BY <2>1, <2>2, <2>5, <2>6, ServiceFrame
<1>10. QED
  BY <1>4, <1>5, <1>6, <1>7, <1>8, <1>9, <1>11 DEF ServiceStep

\* The inductive invariant holds initially.
LEMMA IInvInit == Init => IInv
<1>. SUFFICES ASSUME Init PROVE IInv
  OBVIOUS
<1>1. TypeOK
  BY TypeInit
<1>2. Active = {} /\ Applying = {}
  BY DEF Init, Active, Applying
<1>3. StorePending
  BY DEF Init, StorePending, Idle
<1>4. \A s \in Service : liveCfg[s] \in Settings
  BY <1>1, ConfigAssumption DEF TypeOK
<1>5. Boot # None
  BY InstAssumption DEF Inst
<1>6. Between
  BY <1>4, <1>5 DEF Init, Between, Follows, Holds
<1>7. Fresh
  <2>1. liveCfg = Load(file)
    BY ConfigAssumption DEF Init, Load
  <2>2. RestOK(liveCfg)
    BY ServiceAssumption DEF Init, RestOK
  <2>3. QED
    BY <1>2, <2>1, <2>2 DEF Fresh
<1>8. QED
  BY <1>1, <1>2, <1>3, <1>6, <1>7 DEF IInv, OneAtATime, Within

\* Every step keeps the inductive invariant.
LEMMA IInvNext == IInv /\ [Next]_vars => IInv'
<1>. SUFFICES ASSUME IInv, [Next]_vars PROVE IInv'
  OBVIOUS
<1>1. TypeOK /\ TypeOK'
  BY TypeNext DEF IInv
<1>2. CASE (\E u \in UI : SaveBegin(u) \/ SaveWrite(u)) \/ Edit
  BY <1>1, <1>2, SaveKeeps DEF IInv
<1>3. ASSUME NEW u \in UI, SaveStore(u) PROVE IInv'
  BY <1>1, <1>3, StoreKeeps DEF IInv
<1>11. ASSUME NEW u \in UI, SaveFails(u) PROVE IInv'
  BY <1>1, <1>11, FailKeeps DEF IInv
<1>4. CASE WatchBegins \/ HandleEvent \/ WatchEnds
  BY <1>1, <1>4, WatchKeeps DEF IInv
<1>5. CASE TimerFires
  BY <1>1, <1>5, TimerKeeps DEF IInv
<1>6. ASSUME NEW r \in Reload, LoadFile(r) PROVE IInv'
  BY <1>1, <1>6, LoadKeeps DEF IInv
<1>7. ASSUME NEW r \in Reload, NEW s \in Service, ServiceStep(r, s) PROVE IInv'
  BY <1>1, <1>7, ServiceKeeps DEF IInv
<1>8. ASSUME NEW r \in Reload, ReloadEnds(r) PROVE IInv'
  BY <1>1, <1>8, EndKeeps DEF IInv
<1>9. CASE UNCHANGED vars
  <2>1. StorePending'
    BY <1>9 DEF StorePending, IInv, vars, saves, watcher
  <2>2. ASSUME ~overlapped' PROVE OneAtATime' /\ Between' /\ Within'
    <3>1. \A s \in Service : SameServed(s)
      BY <1>9 DEF SameServed, vars
    <3>2. QED
      BY <1>1, <1>9, <2>2, <3>1, ReloadFrame DEF vars, reloads, IInv
  <2>3. ASSUME ~overlapped' PROVE Fresh'
    <3>1. Applying' = Applying /\ UpToDate' = UpToDate
      BY <1>9 DEF Applying, UpToDate, Pending, vars, saves, watcher, reloads
    <3>2. QED
      BY <1>9, <2>3, <3>1 DEF Fresh, IInv, RestOK, InCall, First, vars, saves, reloads
  <2>4. QED
    BY <1>1, <2>1, <2>2, <2>3 DEF IInv
<1>10. QED
  BY <1>2, <1>3, <1>4, <1>5, <1>6, <1>7, <1>8, <1>9, <1>11 DEF Next, ReloadStep

\* The inductive invariant holds throughout.
LEMMA IInvHolds == Spec => []IInv
BY IInvInit, IInvNext, PTL DEF Spec

(***************************************************************************)
(* Once the saves have been handled, without overlapping reloads, every    *)
(* service whose build did not fail runs as the configuration file says    *)
(* (reload callback of main.go with the watcher and the saving handlers).  *)
(***************************************************************************)
THEOREM SettledApplied == Spec => []SettledMeansApplied
<1>1. IInv => SettledMeansApplied
  <2>. SUFFICES ASSUME IInv, Settled, ~missed, ~overlapped PROVE Applied
    BY DEF SettledMeansApplied
  <2>1. Applying = {} /\ \A r \in Reload : pc[r] # "load"
    BY DEF Settled, Active, Applying
  <2>2. \A s \in Service : Follows(s, liveCfg)
    BY <2>1 DEF IInv, Between
  <2>3. /\ liveCfg \in [Service -> Settings] /\ served \in [Service -> Settings]
    BY ConfigAssumption DEF IInv, TypeOK
  <2>4. ASSUME NEW s \in Service, s \notin failed, s # Web PROVE Serves(s, liveCfg)
    <3>1. Holds(s, liveCfg)
      BY <2>2, <2>4 DEF Follows
    <3>2. liveCfg[s] \in Settings /\ served[s] \in Settings
      BY <2>3
    <3>3. QED
      BY <2>4, <3>1, <3>2 DEF Serves, Holds, Settings
  <2>5. CASE Usable(file)
    <3>1. UpToDate
      BY <2>1, <2>5 DEF UpToDate, Pending, Settled, IInv, TypeOK
    <3>2. liveCfg = Load(file) /\ RestOK(liveCfg)
      BY <2>1, <3>1 DEF Fresh, IInv
    <3>3. ASSUME Web \notin failed PROVE Serves(Web, liveCfg)
      <4>1. Holds(Web, liveCfg)
        BY <2>2, <3>3, ServiceAssumption DEF Follows
      <4>2. liveCfg[Web] \in Settings /\ served[Web] \in Settings
        BY <2>3, ServiceAssumption
      <4>3. QED
        BY <3>2, <3>3, <4>1, <4>2 DEF Serves, Holds, Settings, RestOK
    <3>4. QED
      BY <2>4, <2>5, <3>2, <3>3 DEF Applied
  <2>6. CASE ~Usable(file)
    BY <2>4, <2>6 DEF Applied
  <2>7. QED
    BY <2>5, <2>6
<1>2. QED
  BY <1>1, IInvHolds, PTL

(***************************************************************************)
(* Unless reloads overlap or a build has failed, a reload replaces a       *)
(* running server only for a change that needs a fresh instance.           *)
(***************************************************************************)
THEOREM NoNeedlessRestartHolds == Spec => NoNeedlessRestart
<1>1. ASSUME IInv, Next, NEW s \in Service PROVE ~NeedlessRestart(s)
  <2>. SUFFICES ASSUME NeedlessRestart(s) PROVE FALSE
    OBVIOUS
  <2>1. PICK r \in Reload : CallReplace(r, s)
    <3>1. reg'[s] # reg[s] /\ reg'[s] # None
      BY DEF NeedlessRestart
    <3>2. ASSUME NEW q \in Reload, NEW t \in Service, ServiceStep(q, t), ~CallReplace(q, s)
          PROVE  FALSE
      BY <1>1, <3>1, <3>2 DEF NeedlessRestart, ServiceStep, CallRemove, CallAdd, CallReplace,
                              BuildFails, CallUpdate, NothingToDo, CallReturns, IInv, TypeOK
    <3>3. \E q \in Reload, t \in Service : ServiceStep(q, t)
      BY <1>1, <3>1 DEF Next, ReloadStep, SaveBegin, SaveWrite, SaveFails, SaveStore, Edit, WatchBegins,
                        HandleEvent, WatchEnds, TimerFires, LoadFile, ReloadEnds
    <3>4. QED
      BY <3>2, <3>3
  <2>2. AtSwitch(r, s) /\ Rebuilds(r, s) /\ served' = [served EXCEPT ![s] = New(r, s)]
    BY <2>1 DEF CallReplace
  <2>3. ptr[s] = reg[s] /\ Holds(s, cfg[r].old) /\ reg[s] # None
    BY <1>1, <2>2, AtSwitchFollows DEF NeedlessRestart, IInv
  <2>4. served[s].on /\ served[s].addr = Old(r, s).addr /\ (s # Web => served[s].rest = Old(r, s).rest)
    BY <2>3 DEF Holds, Old
  <2>5. cfg[r].old[s] \in Settings /\ served[s] \in Settings /\ cfg[r].old[s].on
    BY <1>1, <2>3, ConfigAssumption DEF IInv, TypeOK, Holds
  <2>6. served'[s] = New(r, s)
    BY <1>1, <2>2 DEF IInv, TypeOK
  <2>7. CASE s \in Updatable
    BY <2>2, <2>3, <2>4, <2>6, <2>7 DEF Rebuilds, NeedlessRestart
  <2>8. CASE s \notin Updatable
    <3>1. served[s] = Old(r, s)
      BY <2>4, <2>5, <2>8, ServiceAssumption DEF Settings, Old
    <3>2. QED
      BY <2>2, <2>3, <2>6, <2>8, <3>1 DEF Rebuilds, NeedlessRestart
  <2>9. QED
    BY <2>7, <2>8
<1>2. IInv /\ [Next]_vars => [\A s \in Service : ~NeedlessRestart(s)]_vars
  BY <1>1
<1>3. QED
  BY <1>2, IInvHolds, PTL DEF Spec, NoNeedlessRestart
=============================================================================
