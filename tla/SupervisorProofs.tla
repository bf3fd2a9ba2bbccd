-------------------------- MODULE SupervisorProofs --------------------------
(***************************************************************************)
(* What Supervisor guarantees for any number of names, servers, callers    *)
(* and crashes.                                                            *)
(***************************************************************************)
EXTENDS Supervisor, TLAPS

Pending(c)  == call[c].pc \in {"add", "swap"}
Stopping(c) == call[c].pc \in {"shutdown", "cancel", "join"}

\* A found entry has a server; entries' values and locals are instances
\* that have been built.
Built ==
  /\ \A n \in Name : entries[n] # None => esrv[entries[n]] # None
  /\ \A c \in Caller : call[c].ent # None => esrv[call[c].ent] # None
  /\ \A e \in Inst : /\ esrv[e] # None => esrv[e] \in used
                     /\ rsrv[e] # None => rsrv[e] \in used
  /\ \A c \in Caller : /\ call[c].srv # None => call[c].srv \in used
                       /\ call[c].old # None => call[c].old \in used

\* A server not yet installed is in no entry, and in no other call.
PendingIsNew ==
  \A c \in Caller : Pending(c) =>
    /\ \A e \in Inst : esrv[e] # call[c].srv /\ rsrv[e] # call[c].srv
    /\ \A d \in Caller : Pending(d) /\ call[d].srv = call[c].srv => c = d

\* No two entries share a server.
Exclusive ==
  \A e, f \in Inst :
    /\ esrv[e] # None /\ esrv[e] = esrv[f] => e = f
    /\ rsrv[e] # None /\ rsrv[e] = rsrv[f] => e = f
    /\ rsrv[e] # None /\ rsrv[e] = esrv[f] => e = f

\* A server that a Replace is stopping is installed nowhere, and at most the
\* attempt that the Replace captured still runs it.
OldIsRetired ==
  \A c \in Caller : Stopping(c) /\ call[c].srv # None =>
    /\ call[c].old # None
    /\ \A e \in Inst : esrv[e] # call[c].old
    /\ \A d \in Caller : Pending(d) => call[d].srv # call[c].old
    /\ \A e \in Inst : rsrv[e] = call[c].old =>
                         e = call[c].ent /\ att[e] = call[c].att

Ownership == Built /\ PendingIsNew /\ Exclusive /\ OldIsRetired

\* Only entries that Add has made run, and they have begun an attempt.
Started ==
  /\ \A e \in Inst : rpc[e] # "none" => e \in used
  /\ \A n \in Name : entries[n] # None => entries[n] \in used
  /\ \A c \in Caller : call[c].pc = "add" =>
       rpc[call[c].srv] = "none" /\ \A n \in Name : entries[n] # call[c].srv
  /\ \A e \in Inst : Up(e) => att[e] # 0

\* s.running is false only before Run begins and after its context is done,
\* so a Replace that found it false has nothing left to stop.
LateFalse ==
  /\ runPc = "init" \/ running \/ parentDone
  /\ \A c \in Caller : call[c].pc = "swap" /\ ~ call[c].run => parentDone

-----------------------------------------------------------------------------
(* Type correctness.                                                       *)

\* The records that Replace and Remove keep are calls.
LEMMA CallRecords ==
  /\ Idle \in Call
  /\ \A i \in Inst : [Idle EXCEPT !.pc = "add", !.srv = i] \in Call
  /\ \A i, e \in Inst, r \in BOOLEAN :
       [Idle EXCEPT !.pc = "swap", !.srv = i, !.ent = e, !.run = r] \in Call
  /\ \A e \in Inst : [Idle EXCEPT !.pc = "capture", !.ent = e] \in Call
  /\ \A r \in Call, i \in Inst \cup {None}, k \in Nat :
       r.pc \notin {"idle", "add"} =>
         [r EXCEPT !.pc = "shutdown", !.old = i, !.att = k] \in Call
  /\ \A r \in Call, p \in {"cancel", "join"} :
       r.pc \notin {"idle", "add"} => [r EXCEPT !.pc = p] \in Call
BY InstAssumption DEF Idle, Call, CallRec, CallPc

\* What the fields of a call in progress are.
LEMMA CallFields ==
  ASSUME NEW r \in Call
  PROVE  /\ r.srv \in Inst \cup {None} /\ r.ent \in Inst \cup {None}
         /\ r.pc \in {"add", "swap"} => r.srv \in Inst
         /\ r.pc = "capture" => r.srv = None
         /\ r.pc \notin {"idle", "add"} => r.ent \in Inst
BY InstAssumption DEF Call, CallRec

\* Every variable of the supervisor keeps its type.
THEOREM TypeCorrect == Spec => []TypeOK
<1>1. Init => TypeOK
  <2> SUFFICES ASSUME Init PROVE TypeOK
    OBVIOUS
  <2>1. Registered \subseteq Inst
    BY DEF Init, Registered
  <2>2. entries \in [Name -> Inst \cup {None}]
    BY DEF Init
  <2>3. esrv \in [Inst -> Inst \cup {None}]
    BY DEF Init
  <2>4. call \in [Caller -> Call]
    BY CallRecords DEF Init
  <2>5. rpc \in [Inst -> EntryPc]
    BY DEF Init, EntryPc
  <2>6. att \in [Inst -> Nat] /\ cancelled \in [Inst -> BOOLEAN]
    BY DEF Init
  <2>7. rsrv \in [Inst -> Inst \cup {None}] /\ used \subseteq Inst
    BY <2>1 DEF Init
  <2>8. crashes \in 0 .. MaxCrashes
    BY BoundAssumption DEF Init
  <2>9. QED
    BY <2>2, <2>3, <2>4, <2>5, <2>6, <2>7, <2>8 DEF Init, TypeOK
<1>2. TypeOK /\ [Next]_vars => TypeOK'
  <2> SUFFICES ASSUME TypeOK, [Next]_vars PROVE TypeOK'
    OBVIOUS
  <2> USE DEF TypeOK, entryVars, runVars
  <2>1. ASSUME NEW e \in Inst, HeadCheck(e) PROVE TypeOK'
    BY <2>1 DEF HeadCheck, Goto, EntryPc
  <2>2. ASSUME NEW e \in Inst, BeginAttempt(e) PROVE TypeOK'
    BY <2>2 DEF BeginAttempt, Goto, EntryPc
  <2>3. ASSUME NEW e \in Inst, Listen(e) PROVE TypeOK'
    BY <2>3 DEF Listen, Goto, EntryPc
  <2>4. ASSUME NEW e \in Inst, NEW p \in EntryPc, StartReturns(e, p),
               crashes' \in 0 .. MaxCrashes
        PROVE TypeOK'
    BY <2>4 DEF StartReturns
  <2>5. ASSUME NEW e \in Inst, StartFails(e) PROVE TypeOK'
    <3>1. crashes' \in 0 .. MaxCrashes
      BY <2>5, BoundAssumption DEF StartFails
    <3>2. QED
      BY <2>4, <2>5, <3>1 DEF StartFails, EntryPc
  <2>6. ASSUME NEW e \in Inst, StartDrains(e) \/ StartStopped(e) PROVE TypeOK'
    BY <2>4, <2>6 DEF StartDrains, StartStopped, EntryPc
  <2>7. ASSUME NEW e \in Inst, AfterNil(e) PROVE TypeOK'
    BY <2>7 DEF AfterNil, Goto, EntryPc
  <2>8. ASSUME NEW e \in Inst, AfterErr(e) PROVE TypeOK'
    BY <2>8 DEF AfterErr, Goto, EntryPc
  <2>9. ASSUME NEW e \in Inst, BackoffExpires(e) \/ BackoffAborted(e)
        PROVE TypeOK'
    BY <2>9 DEF BackoffExpires, BackoffAborted, Goto, EntryPc
  <2>10. ASSUME NEW c \in Caller, NEW i \in Inst, ReplaceLookup(c, i)
         PROVE TypeOK'
    <3>1. call' \in [Caller -> Call]
      BY <2>10, CallRecords, InstAssumption DEF ReplaceLookup
    <3>2. QED
      BY <2>10, <3>1 DEF ReplaceLookup
  <2>11. ASSUME NEW c \in Caller, NEW n \in Name, RemoveLookup(c, n)
         PROVE TypeOK'
    <3>1. call' \in [Caller -> Call]
      BY <2>11, CallRecords DEF RemoveLookup
    <3>2. QED
      BY <2>11, <3>1 DEF RemoveLookup
  <2>12. ASSUME NEW c \in Caller PROVE call[c] \in Call
    OBVIOUS
  <2>13. ASSUME NEW c \in Caller, Add(c) PROVE TypeOK'
    <3>1. call' \in [Caller -> Call]
      BY <2>13, CallRecords DEF Add
    <3>2. /\ entries' \in [Name -> Inst \cup {None}]
          /\ esrv' \in [Inst -> Inst \cup {None}]
          /\ rpc' \in [Inst -> EntryPc]
      BY <2>12, <2>13, CallFields DEF Add, EntryPc
    <3>3. QED
      BY <2>13, <3>1, <3>2 DEF Add
  <2>14. ASSUME NEW c \in Caller, ReplaceSwap(c) PROVE TypeOK'
    <3>1. esrv' \in [Inst -> Inst \cup {None}]
      BY <2>12, <2>14, CallFields DEF ReplaceSwap
    <3>2. call[c].ent \in Inst /\ call[c].pc \notin {"idle", "add"}
      BY <2>12, <2>14, CallFields DEF ReplaceSwap
    <3>3. [call[c] EXCEPT !.pc = "shutdown", !.old = esrv[call[c].ent],
                          !.att = att[call[c].ent]] \in Call
      BY <2>12, <3>2, CallRecords
    <3>4. call' \in [Caller -> Call]
      BY <2>14, <3>3, CallRecords DEF ReplaceSwap, StopAfterCapture
    <3>5. QED
      BY <2>14, <3>1, <3>4 DEF ReplaceSwap
  <2>15. ASSUME NEW c \in Caller, RemoveCapture(c) PROVE TypeOK'
    <3>1. call[c].ent \in Inst /\ call[c].pc \notin {"idle", "add"}
      BY <2>12, <2>15, CallFields DEF RemoveCapture
    <3>2. [call[c] EXCEPT !.pc = "shutdown", !.old = esrv[call[c].ent],
                          !.att = att[call[c].ent]] \in Call
      BY <2>12, <3>1, CallRecords
    <3>3. call' \in [Caller -> Call]
      BY <2>15, <3>2, CallRecords DEF RemoveCapture, StopAfterCapture
    <3>4. QED
      BY <2>15, <3>3 DEF RemoveCapture
  <2>16. ASSUME NEW c \in Caller,
                CallShutdown(c) \/ CallCancel(c) \/ CallJoin(c)
         PROVE TypeOK'
    <3>1. /\ [call[c] EXCEPT !.pc = "cancel"] \in Call \/ ~ CallShutdown(c)
          /\ [call[c] EXCEPT !.pc = "join"] \in Call \/ ~ CallCancel(c)
      BY <2>12, CallRecords DEF CallShutdown, CallCancel
    <3>2. call' \in [Caller -> Call]
      BY <2>16, <3>1, CallRecords DEF CallShutdown, CallCancel, CallJoin
    <3>3. cancelled' \in [Inst -> BOOLEAN]
      BY <2>16 DEF CallShutdown, CallCancel, CallJoin
    <3>4. CallShutdown(c) => call[c].old \in Inst \cup {None}
      BY <2>12 DEF Call, CallRec
    <3>5. stopReq' \subseteq Inst \cup {None}
      BY <2>16, <3>4
      DEF CallShutdown, CallCancel, CallJoin, ShutdownEffect
    <3>6. QED
      BY <2>16, <3>2, <3>3, <3>5 DEF CallShutdown, CallCancel, CallJoin
  <2>17. CASE RunStart \/ RunCollect \/ RunReturn
    <3>1. Registered \subseteq Inst
      BY DEF Registered
    <3>2. QED
      BY <2>17, <3>1 DEF RunStart, RunCollect, RunReturn, EntryPc
  <2>18. ASSUME NEW e \in Inst, RunReadSrv(e) \/ RunShutdown(e) PROVE TypeOK'
    BY <2>18 DEF RunReadSrv, RunShutdown, ShutdownEffect
  <2>19. CASE ParentCancel
    BY <2>19 DEF ParentCancel
  <2>20. CASE UNCHANGED vars
    BY <2>20 DEF vars
  <2>21. QED
    BY <2>1, <2>2, <2>3, <2>5, <2>6, <2>7, <2>8, <2>9, <2>10, <2>11, <2>13,
       <2>14, <2>15, <2>16, <2>17, <2>18, <2>19, <2>20
    DEF Next, EntryStep, CallStep, RunStep
<1>3. QED
  BY <1>1, <1>2, PTL DEF Spec

\* What Replace keeps of its look-up.
LEMMA ReplaceLookupFields ==
  ASSUME TypeOK, NEW c \in Caller, NEW i \in Inst, ReplaceLookup(c, i)
  PROVE  /\ \A d \in Caller \ {c} : call'[d] = call[d]
         /\ call'[c].srv = i /\ call'[c].old = None
         /\ call'[c].pc \in {"add", "swap"}
         /\ call'[c].ent = None \/ call'[c].ent = entries[NameOf[i]]
         /\ call'[c].pc = "swap" => call'[c].run = running
BY InstAssumption DEF ReplaceLookup, TypeOK, Idle

\* What Remove keeps of its look-up.
LEMMA RemoveLookupFields ==
  ASSUME TypeOK, NEW c \in Caller, NEW n \in Name, RemoveLookup(c, n)
  PROVE  /\ \A d \in Caller \ {c} : call'[d] = call[d]
         /\ call'[c].srv = None /\ call'[c].old = None
         /\ call'[c].ent = entries[n] /\ call'[c].pc = "capture"
         /\ \A m \in Name : entries'[m] \in {entries[m], None}
<1>1. /\ \A d \in Caller \ {c} : call'[d] = call[d]
      /\ call'[c] = [Idle EXCEPT !.pc = "capture", !.ent = entries[n]]
      /\ \A m \in Name : entries'[m] \in {entries[m], None}
  BY DEF RemoveLookup, TypeOK
<1>2. QED
  BY <1>1 DEF Idle

\* What StopAfterCapture leaves in its caller's locals.
LEMMA CaptureFields ==
  ASSUME TypeOK, NEW c \in Caller, NEW e \in Inst, StopAfterCapture(c, e)
  PROVE  /\ \A d \in Caller \ {c} : call'[d] = call[d]
         /\ \/ call'[c] = Idle /\ att[e] = 0
            \/ /\ call'[c].pc = "shutdown" /\ call'[c].old = esrv[e]
               /\ call'[c].att = att[e] /\ call'[c].srv = call[c].srv
               /\ call'[c].ent = call[c].ent
<1>1. call[c] \in CallRec
  BY DEF TypeOK, Call
<1>2. /\ call'[c] = IF att[e] = 0 THEN Idle
                    ELSE [call[c] EXCEPT !.pc = "shutdown", !.old = esrv[e],
                                         !.att = att[e]]
      /\ \A d \in Caller \ {c} : call'[d] = call[d]
  BY DEF StopAfterCapture, TypeOK
<1>3. QED
  BY <1>1, <1>2 DEF CallRec

-----------------------------------------------------------------------------
(* A server belongs to one entry or to one call, and a replaced server is   *)
(* gone when its Replace returns.                                          *)

\* Ownership speaks of these variables only.
LEMMA OwnershipFrame ==
  ASSUME Ownership, UNCHANGED <<entries, used, esrv, att, rsrv, call>>
  PROVE  Ownership'
BY DEF Ownership, Built, PendingIsNew, Exclusive, OldIsRetired, Pending,
       Stopping

\* The end of an attempt releases its server.
LEMMA OwnershipReturn ==
  ASSUME TypeOK, Ownership, NEW e \in Inst, NEW p, StartReturns(e, p)
  PROVE  Ownership'
<1>1. /\ UNCHANGED <<entries, used, esrv, att, call>>
      /\ \A f \in Inst : rsrv'[f] = rsrv[f] \/ rsrv'[f] = None
  BY DEF StartReturns, TypeOK
<1>2. Built' /\ PendingIsNew'
  BY <1>1, CallFields, InstAssumption
  DEF Ownership, Built, PendingIsNew, Pending, TypeOK
<1>3. Exclusive'
  BY <1>1 DEF Ownership, Exclusive
<1>4. OldIsRetired'
  BY <1>1 DEF Ownership, OldIsRetired, Pending, Stopping
<1>5. QED
  BY <1>2, <1>3, <1>4 DEF Ownership

\* A new attempt runs the server that its entry holds.
LEMMA OwnershipBegin ==
  ASSUME TypeOK, Ownership, NEW e \in Inst, BeginAttempt(e)
  PROVE  Ownership'
<1>1. /\ UNCHANGED <<entries, used, esrv, call>>
      /\ rsrv' = [rsrv EXCEPT ![e] = esrv[e]]
      /\ \A f \in Inst \ {e} : att'[f] = att[f]
  BY DEF BeginAttempt, TypeOK
<1>2. Built' /\ PendingIsNew'
  BY <1>1 DEF Ownership, Built, PendingIsNew, Pending, TypeOK
<1>3. Exclusive'
  BY <1>1 DEF Ownership, Exclusive, TypeOK
<1>4. OldIsRetired'
  BY <1>1 DEF Ownership, OldIsRetired, Pending, Stopping, TypeOK
<1>5. QED
  BY <1>2, <1>3, <1>4 DEF Ownership

\* A call that only moves on, or ends, changes no owner.
LEMMA OwnershipCallMoves ==
  ASSUME TypeOK, Ownership, NEW c \in Caller,
         CallShutdown(c) \/ CallCancel(c) \/ CallJoin(c)
  PROVE  Ownership'
<1>1. /\ UNCHANGED <<entries, used, esrv, att, rsrv>>
      /\ \A d \in Caller :
           \/ call'[d] = Idle
           \/ /\ call'[d].srv = call[d].srv /\ call'[d].ent = call[d].ent
              /\ call'[d].old = call[d].old /\ call'[d].att = call[d].att
              /\ Pending(d)' <=> Pending(d)
              /\ Stopping(d)' <=> Stopping(d)
  BY DEF CallShutdown, CallCancel, CallJoin, entryVars, Pending, Stopping,
         TypeOK, Call, CallRec
<1>2. Idle.srv = None /\ Idle.ent = None /\ Idle.old = None /\ Idle.pc = "idle"
  BY DEF Idle
<1>3. \A d \in Caller : call'[d] = Idle => ~ Pending(d)' /\ ~ Stopping(d)'
  BY <1>2 DEF Pending, Stopping
<1>4. Built' /\ PendingIsNew'
  BY <1>1, <1>2, <1>3 DEF Ownership, Built, PendingIsNew
<1>5. Exclusive' /\ OldIsRetired'
  BY <1>1, <1>3 DEF Ownership, Exclusive, OldIsRetired
<1>6. QED
  BY <1>4, <1>5 DEF Ownership

\* Replace takes a server that nothing else refers to.
LEMMA OwnershipReplaceLookup ==
  ASSUME TypeOK, Ownership, NEW c \in Caller, NEW i \in Inst,
         ReplaceLookup(c, i)
  PROVE  Ownership'
<1>1. /\ UNCHANGED <<entries, esrv, att, rsrv>>
      /\ used' = used \cup {i} /\ i \notin used /\ i # None
      /\ \A d \in Caller \ {c} : call'[d] = call[d]
      /\ call'[c].srv = i /\ call'[c].old = None
      /\ call'[c].pc \in {"add", "swap"}
      /\ call'[c].ent = None \/ call'[c].ent = entries[NameOf[i]]
  BY ReplaceLookupFields, InstAssumption DEF ReplaceLookup, entryVars
<1>2. \A d \in Caller \ {c} : /\ Pending(d)' <=> Pending(d)
                              /\ Stopping(d)' <=> Stopping(d)
  BY <1>1 DEF Pending, Stopping
<1>3. Pending(c)' /\ ~ Stopping(c)'
  BY <1>1 DEF Pending, Stopping
<1>4. Built'
  BY <1>1, InstAssumption DEF Ownership, Built, TypeOK
<1>5. PendingIsNew'
  BY <1>1, <1>2, <1>3 DEF Ownership, PendingIsNew, Built
<1>6. Exclusive' /\ OldIsRetired'
  BY <1>1, <1>2, <1>3 DEF Ownership, Exclusive, OldIsRetired, Built
<1>7. QED
  BY <1>4, <1>5, <1>6 DEF Ownership

\* Add makes an entry for the server that it was given.
LEMMA OwnershipAdd ==
  ASSUME TypeOK, Ownership, NEW c \in Caller, Add(c)
  PROVE  Ownership'
<1>1. CASE UNCHANGED <<entries, esrv, call>>
  BY <1>1, OwnershipFrame DEF Add
<1> DEFINE i == call[c].srv
<1>2. CASE entries[NameOf[i]] = None /\ entries' = [entries EXCEPT ![NameOf[i]] = i]
           /\ esrv' = [esrv EXCEPT ![i] = i] /\ call' = [call EXCEPT ![c] = Idle]
  <2>1. i \in Inst /\ i # None /\ Pending(c) /\ i \in used
    BY CallFields, InstAssumption
    DEF Add, Pending, TypeOK, Ownership, Built
  <2>2. /\ UNCHANGED <<used, att, rsrv>>
        /\ \A d \in Caller \ {c} : call'[d] = call[d]
        /\ call'[c] = Idle
        /\ \A e \in Inst \ {i} : esrv'[e] = esrv[e]
        /\ esrv'[i] = i
        /\ \A n \in Name : entries'[n] = entries[n] \/ entries'[n] = i
    BY <1>2, <2>1 DEF Add, TypeOK
  <2>3. Idle.srv = None /\ Idle.ent = None /\ Idle.old = None
        /\ ~ Pending(c)' /\ ~ Stopping(c)'
    BY <2>2 DEF Idle, Pending, Stopping
  <2>4. \A d \in Caller \ {c} : /\ Pending(d)' <=> Pending(d)
                                /\ Stopping(d)' <=> Stopping(d)
    BY <2>2 DEF Pending, Stopping
  <2>5. Built'
    BY <2>1, <2>2, <2>3, CallFields DEF Ownership, Built, TypeOK
  <2>6. PendingIsNew'
    BY <2>1, <2>2, <2>3, <2>4 DEF Ownership, PendingIsNew
  <2>7. Exclusive'
    BY <2>1, <2>2 DEF Ownership, Exclusive, PendingIsNew
  <2>8. OldIsRetired'
    BY <2>1, <2>2, <2>3, <2>4 DEF Ownership, OldIsRetired
  <2>9. QED
    BY <2>5, <2>6, <2>7, <2>8 DEF Ownership
<1>3. QED
  BY <1>1, <1>2 DEF Add

\* Remove forgets the entry and keeps its server.
LEMMA OwnershipRemove ==
  ASSUME TypeOK, Ownership, NEW c \in Caller,
         RemoveCapture(c) \/ \E n \in Name : RemoveLookup(c, n)
  PROVE  Ownership'
<1>1. /\ UNCHANGED <<used, esrv, att, rsrv>>
      /\ \A n \in Name : entries'[n] = entries[n] \/ entries'[n] = None
      /\ \A d \in Caller \ {c} : call'[d] = call[d]
      /\ call'[c].srv = None
      /\ \/ call'[c].ent = None
         \/ call'[c].ent = call[c].ent
         \/ \E n \in Name : entries[n] # None /\ call'[c].ent = entries[n]
      /\ \/ call'[c].old = None
         \/ call[c].ent \in Inst /\ call'[c].old = esrv[call[c].ent]
      /\ call'[c].pc \in {"idle", "capture", "shutdown"}
  <2>1. CASE RemoveCapture(c)
    <3>1. call[c].ent \in Inst /\ call[c].srv = None
      BY <2>1, CallFields DEF RemoveCapture, TypeOK
    <3>2. Idle.srv = None /\ Idle.ent = None /\ Idle.old = None
          /\ Idle.pc = "idle"
      BY DEF Idle
    <3>3. QED
      BY <2>1, <3>1, <3>2, CaptureFields DEF RemoveCapture, entryVars
  <2>2. CASE \E n \in Name : RemoveLookup(c, n)
    <3>1. PICK n \in Name : RemoveLookup(c, n)
      BY <2>2
    <3>2. UNCHANGED <<used, esrv, att, rsrv>> /\ entries[n] # None
      BY <3>1 DEF RemoveLookup, entryVars
    <3>3. QED
      BY <3>1, <3>2, RemoveLookupFields
  <2>3. QED
    BY <2>1, <2>2
<1>2. \A d \in Caller \ {c} : /\ Pending(d)' <=> Pending(d)
                              /\ Stopping(d)' <=> Stopping(d)
  BY <1>1 DEF Pending, Stopping
<1>3. ~ Pending(c)'
  BY <1>1 DEF Pending
<1>4. Built'
  BY <1>1, InstAssumption DEF Ownership, Built, TypeOK
<1>5. PendingIsNew' /\ Exclusive' /\ OldIsRetired'
  BY <1>1, <1>2, <1>3
  DEF Ownership, PendingIsNew, Exclusive, OldIsRetired
<1>6. QED
  BY <1>4, <1>5 DEF Ownership

\* Replace installs its server and retires the one it found.
LEMMA OwnershipReplaceSwap ==
  ASSUME TypeOK, Ownership, NEW c \in Caller, ReplaceSwap(c)
  PROVE  Ownership'
<1> DEFINE i == call[c].srv
           e == call[c].ent
<1>1. /\ i \in Inst /\ e \in Inst /\ i # None /\ e # None /\ Pending(c)
      /\ i \in used /\ esrv[e] # None
  BY CallFields, InstAssumption
  DEF ReplaceSwap, Pending, TypeOK, Ownership, Built
<1>2. /\ UNCHANGED <<entries, used, att, rsrv>>
      /\ \A d \in Caller \ {c} : call'[d] = call[d]
      /\ \A f \in Inst \ {e} : esrv'[f] = esrv[f]
      /\ esrv'[e] = i
  BY <1>1 DEF ReplaceSwap, StopAfterCapture, TypeOK
<1>3. \/ call'[c] = Idle
      \/ /\ call'[c].pc = "shutdown" /\ call'[c].srv = i /\ call'[c].ent = e
         /\ call'[c].old = esrv[e] /\ call'[c].att = att[e]
  <2>1. CASE call[c].run
    BY <1>1, <2>1, CaptureFields DEF ReplaceSwap
  <2>2. CASE ~ call[c].run
    BY <2>2 DEF ReplaceSwap, TypeOK
  <2>3. QED
    BY <2>1, <2>2
<1>4. /\ Idle.srv = None /\ Idle.ent = None /\ Idle.old = None
      /\ ~ Pending(c)'
      /\ call'[c] = Idle => ~ Stopping(c)'
  BY <1>3 DEF Idle, Pending, Stopping
<1>5. \A d \in Caller \ {c} : /\ Pending(d)' <=> Pending(d)
                              /\ Stopping(d)' <=> Stopping(d)
  BY <1>2 DEF Pending, Stopping
<1>6. Built'
  BY <1>1, <1>2, <1>3, <1>4, CallFields DEF Ownership, Built, TypeOK
<1>7. PendingIsNew'
  BY <1>1, <1>2, <1>4, <1>5 DEF Ownership, PendingIsNew
<1>8. Exclusive'
  BY <1>1, <1>2 DEF Ownership, Exclusive, PendingIsNew
<1>9. OldIsRetired'
  <2> SUFFICES ASSUME NEW d \in Caller, Stopping(d)', (call[d].srv # None)'
               PROVE  /\ (call[d].old # None)'
                      /\ \A f \in Inst : (esrv[f] # call[d].old)'
                      /\ \A b \in Caller : Pending(b)' =>
                                             (call[b].srv # call[d].old)'
                      /\ \A f \in Inst : (rsrv[f] = call[d].old)' =>
                           (f = call[d].ent /\ att[f] = call[d].att)'
    BY DEF OldIsRetired
  <2>1. CASE d = c
    BY <1>1, <1>2, <1>3, <1>4, <1>5, <2>1
    DEF Ownership, PendingIsNew, Exclusive
  <2>2. CASE d # c
    BY <1>1, <1>2, <1>4, <1>5, <2>2 DEF Ownership, OldIsRetired
  <2>3. QED
    BY <2>1, <2>2
<1>10. QED
  BY <1>6, <1>7, <1>8, <1>9 DEF Ownership

\* Ownership is an invariant.
LEMMA OwnershipHolds == Spec => []Ownership
<1>1. Init => Ownership
  <2> SUFFICES ASSUME Init PROVE Ownership
    OBVIOUS
  <2>1. \A c \in Caller : call[c] = Idle
    BY DEF Init
  <2>2. Idle.pc = "idle" /\ Idle.srv = None /\ Idle.ent = None
        /\ Idle.old = None
    BY DEF Idle
  <2>3. /\ \A e \in Inst : rsrv[e] = None /\ esrv[e] \in {e, None}
        /\ \A e \in Inst : esrv[e] # None => e \in used
        /\ \A e \in Registered : e \in Inst /\ esrv[e] = e /\ e # None
        /\ \A n \in Name : entries[n] # None => entries[n] \in Registered
    BY InstAssumption DEF Init, Registered
  <2>4. QED
    BY <2>1, <2>2, <2>3
    DEF Ownership, Built, PendingIsNew, Exclusive, OldIsRetired, Pending,
        Stopping
<1>2. TypeOK /\ Ownership /\ [Next]_vars => Ownership'
  <2> SUFFICES ASSUME TypeOK, Ownership, [Next]_vars PROVE Ownership'
    OBVIOUS
  <2>1. ASSUME NEW e \in Inst,
               \/ HeadCheck(e) \/ Listen(e) \/ AfterNil(e) \/ AfterErr(e)
               \/ BackoffExpires(e) \/ BackoffAborted(e)
        PROVE Ownership'
    BY <2>1, OwnershipFrame
    DEF HeadCheck, Listen, AfterNil, AfterErr, BackoffExpires, BackoffAborted
  <2>2. ASSUME NEW e \in Inst,
               StartFails(e) \/ StartDrains(e) \/ StartStopped(e)
        PROVE Ownership'
    BY <2>2, OwnershipReturn DEF StartFails, StartDrains, StartStopped
  <2>3. CASE RunStep \/ ParentCancel
    BY <2>3, OwnershipFrame
    DEF RunStep, RunStart, RunCollect, RunReturn, RunReadSrv, RunShutdown,
        ParentCancel, entryVars
  <2>4. CASE UNCHANGED vars
    BY <2>4, OwnershipFrame DEF vars, entryVars
  <2>5. QED
    BY <2>1, <2>2, <2>3, <2>4, OwnershipBegin, OwnershipCallMoves,
       OwnershipReplaceLookup, OwnershipAdd, OwnershipRemove,
       OwnershipReplaceSwap
    DEF Next, EntryStep, CallStep
<1>3. QED
  BY <1>1, <1>2, TypeCorrect, PTL DEF Spec

\* When a Replace that had to stop an attempt returns, the server that it
\* replaced runs nowhere, however many Replaces, Removes and crashes overlap.
THEOREM ReplacedDown == Spec => ReplacedIsDown
<1>1. TypeOK /\ Ownership /\ [Next]_vars =>
        [\A c \in Caller :
           call[c].pc = "join" /\ call[c].srv # None /\ call'[c].pc = "idle"
             => \A e \in Inst : ~ (Up(e)' /\ rsrv'[e] = call[c].old)]_vars
  <2> SUFFICES ASSUME TypeOK, Ownership, Next, NEW c \in Caller,
                      call[c].pc = "join", call[c].srv # None,
                      call'[c].pc = "idle", NEW e \in Inst
               PROVE  ~ (Up(e)' /\ rsrv'[e] = call[c].old)
    OBVIOUS
  <2>1. CallJoin(c)
    <3>1. Idle.pc = "idle"
      BY DEF Idle
    <3>2. ASSUME NEW d \in Caller, d # c, CallStep(d) PROVE call'[c] = call[c]
      BY <3>2
      DEF CallStep, Add, ReplaceSwap, RemoveCapture, StopAfterCapture,
          CallShutdown, CallCancel, CallJoin, TypeOK
    <3>3. ASSUME CallStep(c) PROVE CallJoin(c)
      BY <3>3
      DEF CallStep, Add, ReplaceSwap, RemoveCapture, CallShutdown, CallCancel
    <3>4. ASSUME NEW d \in Caller,
                 \/ \E i \in Inst : ReplaceLookup(d, i)
                 \/ \E n \in Name : RemoveLookup(d, n)
          PROVE call'[c] = call[c]
      BY <3>1, <3>4 DEF ReplaceLookup, RemoveLookup, MayCall, TypeOK
    <3>5. ASSUME NEW f \in Inst,
                 \/ EntryStep(f) \/ StartFails(f) \/ StartStopped(f)
                 \/ BackoffAborted(f)
          PROVE call' = call
      BY <3>5
      DEF EntryStep, HeadCheck, BeginAttempt, Listen, StartDrains, AfterNil,
          AfterErr, BackoffExpires, StartFails, StartStopped, StartReturns,
          BackoffAborted
    <3>6. ASSUME RunStep \/ ParentCancel PROVE call' = call
      BY <3>6
      DEF RunStep, RunStart, RunCollect, RunReturn, RunReadSrv, RunShutdown,
          ParentCancel
    <3>7. QED
      BY <3>2, <3>3, <3>4, <3>5, <3>6 DEF Next
  <2>2. rsrv'[e] = call[c].old => e = call[c].ent /\ att[e] = call[c].att
    BY <2>1 DEF CallJoin, entryVars, Ownership, OldIsRetired, Stopping
  <2>3. QED
    BY <2>1, <2>2 DEF CallJoin, Up, entryVars
<1>2. QED
  BY <1>1, TypeCorrect, OwnershipHolds, PTL DEF Spec, ReplacedIsDown

-----------------------------------------------------------------------------
(* A server that was swapped out is always about to be stopped.            *)

\* Only Add and RunStart start the goroutine of an entry.
LEMMA StartedStep ==
  ASSUME TypeOK, Ownership, Started, [Next]_vars
  PROVE  Started'
<1>1. ASSUME NEW e \in Inst,
             \/ HeadCheck(e) \/ Listen(e) \/ AfterNil(e) \/ AfterErr(e)
             \/ BackoffExpires(e) \/ BackoffAborted(e)
      PROVE Started'
  <2>1. /\ UNCHANGED <<entries, used, att, call>> /\ rpc[e] # "none"
        /\ Up(e)' => Up(e)
        /\ \A f \in Inst \ {e} : rpc'[f] = rpc[f]
    BY <1>1
    DEF HeadCheck, Listen, AfterNil, AfterErr, BackoffExpires,
        BackoffAborted, Goto, Up, TypeOK
  <2>2. QED
    BY <2>1, CallFields DEF Started, Up, TypeOK
<1>2. ASSUME NEW e \in Inst, BeginAttempt(e) PROVE Started'
  <2>1. /\ UNCHANGED <<entries, used, call>>
        /\ rpc[e] # "none" /\ att'[e] # 0
        /\ \A f \in Inst \ {e} : rpc'[f] = rpc[f] /\ att'[f] = att[f]
    BY <1>2 DEF BeginAttempt, Goto, TypeOK
  <2>2. QED
    BY <2>1, CallFields DEF Started, Up, TypeOK
<1>3. ASSUME NEW e \in Inst,
             StartFails(e) \/ StartDrains(e) \/ StartStopped(e)
      PROVE Started'
  <2>1. /\ UNCHANGED <<entries, used, att, call>> /\ rpc[e] # "none"
        /\ ~ Up(e)'
        /\ \A f \in Inst \ {e} : rpc'[f] = rpc[f]
    BY <1>3
    DEF StartFails, StartDrains, StartStopped, StartReturns, Up, TypeOK
  <2>2. QED
    BY <2>1, CallFields DEF Started, Up, TypeOK
<1>4. ASSUME NEW c \in Caller, NEW i \in Inst, ReplaceLookup(c, i)
      PROVE Started'
  <2>1. /\ UNCHANGED <<entries, rpc, att>>
        /\ used' = used \cup {i} /\ i \notin used /\ i # None
    BY <1>4, InstAssumption DEF ReplaceLookup, entryVars
  <2>2. QED
    BY <1>4, <2>1, ReplaceLookupFields DEF Started, Up
<1>5. ASSUME NEW c \in Caller, Add(c) PROVE Started'
  <2>1. CASE UNCHANGED <<entries, rpc, call>>
    BY <1>5, <2>1 DEF Add, Started, Up
  <2>2. CASE /\ entries' = [entries EXCEPT ![NameOf[call[c].srv]] = call[c].srv]
             /\ rpc' = IF running THEN [rpc EXCEPT ![call[c].srv] = "head"]
                                  ELSE rpc
             /\ call' = [call EXCEPT ![c] = Idle]
    <3>1. /\ call[c].srv \in Inst /\ call[c].srv \in used
          /\ \A d \in Caller \ {c} : call[d].pc = "add" =>
               call[d].srv # call[c].srv
      BY <1>5, CallFields, InstAssumption
      DEF Add, TypeOK, Ownership, Built, PendingIsNew, Pending
    <3>2. Idle.pc = "idle"
      BY DEF Idle
    <3>3. UNCHANGED <<used, att>>
      BY <1>5 DEF Add
    <3>4. \A d \in Caller : call'[d].pc = "add" => d # c /\ call'[d] = call[d]
      BY <2>2, <3>2 DEF TypeOK
    <3>5. \A f \in Inst : \/ rpc'[f] = rpc[f]
                          \/ f = call[c].srv /\ rpc'[f] = "head"
      BY <2>2 DEF TypeOK
    <3>6. \A n \in Name : \/ entries'[n] = entries[n]
                          \/ entries'[n] = call[c].srv
      BY <2>2 DEF TypeOK
    <3>7. QED
      BY <3>1, <3>3, <3>4, <3>5, <3>6, CallFields DEF Started, Up, TypeOK
  <2>3. QED
    BY <1>5, <2>1, <2>2 DEF Add
<1>6. ASSUME NEW c \in Caller, NEW n \in Name, RemoveLookup(c, n)
      PROVE Started'
  <2>1. UNCHANGED <<used, rpc, att>>
    BY <1>6 DEF RemoveLookup, entryVars
  <2>2. \A d \in Caller : call'[d].pc = "add" =>
          call'[d] = call[d] /\ call[d].srv # None
    BY <1>6, RemoveLookupFields, CallFields, InstAssumption DEF TypeOK
  <2>3. QED
    BY <1>6, <2>1, <2>2, RemoveLookupFields DEF Started, Up
<1>7. ASSUME NEW c \in Caller, ReplaceSwap(c) \/ RemoveCapture(c)
      PROVE Started'
  <2>1. UNCHANGED <<entries, used, rpc, att>>
    BY <1>7 DEF ReplaceSwap, RemoveCapture, entryVars
  <2>2. \A d \in Caller : call'[d].pc = "add" => call'[d] = call[d]
    <3>1. call[c].ent \in Inst /\ Idle.pc = "idle"
      BY <1>7, CallFields DEF ReplaceSwap, RemoveCapture, TypeOK, Idle
    <3>2. CASE StopAfterCapture(c, call[c].ent)
      BY <3>1, <3>2, CaptureFields
    <3>3. CASE call' = [call EXCEPT ![c] = Idle]
      BY <3>1, <3>3 DEF TypeOK
    <3>4. QED
      BY <1>7, <3>2, <3>3 DEF ReplaceSwap, RemoveCapture
  <2>3. QED
    BY <2>1, <2>2 DEF Started, Up
<1>8. ASSUME NEW c \in Caller,
             CallShutdown(c) \/ CallCancel(c) \/ CallJoin(c)
      PROVE Started'
  <2>1. UNCHANGED <<entries, used, rpc, att>>
    BY <1>8 DEF CallShutdown, CallCancel, CallJoin, entryVars
  <2>2. \A d \in Caller : call'[d].pc = "add" => call'[d] = call[d]
    BY <1>8 DEF CallShutdown, CallCancel, CallJoin, TypeOK, Idle, Call, CallRec
  <2>3. QED
    BY <2>1, <2>2 DEF Started, Up
<1>9. CASE RunStart
  <2>1. /\ UNCHANGED <<entries, used, att, call>>
        /\ rpc' = [f \in Inst |-> IF f \in Registered THEN "head" ELSE rpc[f]]
    BY <1>9 DEF RunStart
  <2>2. \A f \in Registered : \E n \in Name : f = entries[n] /\ f # None
    BY DEF Registered
  <2>3. QED
    BY <2>1, <2>2, CallFields DEF Started, Up, TypeOK
<1>10. CASE RunCollect \/ RunReturn \/ ParentCancel
  BY <1>10 DEF RunCollect, RunReturn, ParentCancel, entryVars, Started, Up
<1>11. ASSUME NEW e \in Inst, RunReadSrv(e) \/ RunShutdown(e) PROVE Started'
  BY <1>11 DEF RunReadSrv, RunShutdown, entryVars, Started, Up
<1>12. CASE UNCHANGED vars
  BY <1>12 DEF vars, entryVars, Started, Up
<1>13. QED
  BY <1>1, <1>2, <1>3, <1>4, <1>5, <1>6, <1>7, <1>8, <1>9, <1>10, <1>11,
     <1>12
  DEF Next, EntryStep, CallStep, RunStep

\* Somebody will stop the attempt of entry e.
Doomed(e) ==
  \/ CtxDone(e)
  \/ \E c \in Caller : /\ call[c].pc \in {"shutdown", "cancel"}
                       /\ call[c].ent = e
                       /\ call[c].att = att[e]

\* With no call before Run, s.running tells Replace the truth.
LEMMA LateFalseStep ==
  ASSUME TypeOK, LateFalse, ~ EarlyCalls, [Next]_vars
  PROVE  LateFalse'
<1>1. ASSUME NEW e \in Inst,
             \/ EntryStep(e) \/ StartFails(e) \/ StartStopped(e)
             \/ BackoffAborted(e)
      PROVE LateFalse'
  BY <1>1
  DEF EntryStep, HeadCheck, BeginAttempt, Listen, StartDrains, AfterNil,
      AfterErr, BackoffExpires, StartFails, StartStopped, StartReturns,
      BackoffAborted, runVars, LateFalse
<1>2. ASSUME NEW c \in Caller, NEW i \in Inst, ReplaceLookup(c, i)
      PROVE LateFalse'
  <2>1. UNCHANGED <<running, runPc, parentDone>> /\ runPc # "init"
    BY <1>2 DEF ReplaceLookup, MayCall, runVars
  <2>2. QED
    BY <1>2, <2>1, ReplaceLookupFields DEF LateFalse
<1>3. ASSUME NEW c \in Caller, NEW n \in Name, RemoveLookup(c, n)
      PROVE LateFalse'
  <2>1. UNCHANGED <<running, runPc, parentDone>>
    BY <1>3 DEF RemoveLookup, runVars
  <2>2. QED
    BY <1>3, <2>1, RemoveLookupFields DEF LateFalse
<1>4. ASSUME NEW c \in Caller, CallStep(c) PROVE LateFalse'
  <2>1. UNCHANGED <<running, runPc, parentDone>>
    BY <1>4
    DEF CallStep, Add, ReplaceSwap, RemoveCapture, CallShutdown, CallCancel,
        CallJoin, runVars
  <2>2. Idle.pc = "idle"
    BY DEF Idle
  <2>3. \A d \in Caller \ {c} : call'[d] = call[d]
    BY <1>4
    DEF CallStep, Add, ReplaceSwap, RemoveCapture, StopAfterCapture,
        CallShutdown, CallCancel, CallJoin, TypeOK
  <2>4. call'[c] = call[c] \/ call'[c].pc # "swap"
    <3>1. CASE Add(c) \/ CallJoin(c)
      BY <2>2, <3>1 DEF Add, CallJoin, TypeOK
    <3>2. CASE CallShutdown(c) \/ CallCancel(c)
      BY <3>2 DEF CallShutdown, CallCancel, TypeOK, Call, CallRec
    <3>3. CASE ReplaceSwap(c) \/ RemoveCapture(c)
      <4>1. call[c].ent \in Inst
        BY <3>3, CallFields DEF ReplaceSwap, RemoveCapture, TypeOK
      <4>2. CASE StopAfterCapture(c, call[c].ent)
        BY <2>2, <4>1, <4>2, CaptureFields
      <4>3. CASE call' = [call EXCEPT ![c] = Idle]
        BY <2>2, <4>3 DEF TypeOK
      <4>4. QED
        BY <3>3, <4>2, <4>3 DEF ReplaceSwap, RemoveCapture
    <3>4. QED
      BY <1>4, <3>1, <3>2, <3>3 DEF CallStep
  <2>5. QED
    BY <2>1, <2>3, <2>4 DEF LateFalse
<1>5. CASE RunStep \/ ParentCancel
  BY <1>5
  DEF RunStep, RunStart, RunCollect, RunReturn, RunReadSrv, RunShutdown,
      ParentCancel, LateFalse
<1>6. CASE UNCHANGED vars
  BY <1>6 DEF vars, runVars, LateFalse
<1>7. QED
  BY <1>1, <1>2, <1>3, <1>4, <1>5, <1>6 DEF Next

\* A step that leaves an attempt and its server alone leaves it doomed,
\* unless it is the step that carries the sentence out.
LEMMA StaleStep ==
  ASSUME TypeOK, Ownership, Started, LateFalse, StaleIsBeingStopped,
         [Next]_vars
  PROVE  StaleIsBeingStopped'
<1> SUFFICES ASSUME NEW e \in Inst, Up(e)', rsrv'[e] # esrv'[e]
             PROVE  Doomed(e)'
  BY DEF StaleIsBeingStopped, Doomed
<1>1. Up(e) /\ rsrv[e] # esrv[e] => Doomed(e)
  BY DEF StaleIsBeingStopped, Doomed
<1>2. ASSUME NEW f \in Inst,
             \/ HeadCheck(f) \/ Listen(f) \/ AfterNil(f) \/ AfterErr(f)
             \/ BackoffExpires(f) \/ BackoffAborted(f)
      PROVE Doomed(e)'
  <2>1. /\ UNCHANGED <<esrv, rsrv, att, cancelled, call, parentDone>>
        /\ Up(e)
    BY <1>2
    DEF HeadCheck, Listen, AfterNil, AfterErr, BackoffExpires,
        BackoffAborted, Goto, Up, TypeOK, runVars
  <2>2. QED
    BY <1>1, <2>1 DEF Doomed, CtxDone
<1>3. ASSUME NEW f \in Inst, BeginAttempt(f) PROVE Doomed(e)'
  <2>1. f # e
    BY <1>3 DEF BeginAttempt, TypeOK
  <2>2. /\ UNCHANGED <<esrv, call, parentDone>> /\ Up(e)
        /\ rsrv'[e] = rsrv[e] /\ att'[e] = att[e]
        /\ cancelled'[e] = cancelled[e]
    BY <1>3, <2>1 DEF BeginAttempt, Goto, Up, TypeOK, runVars
  <2>3. QED
    BY <1>1, <2>2 DEF Doomed, CtxDone
<1>4. ASSUME NEW f \in Inst,
             StartFails(f) \/ StartDrains(f) \/ StartStopped(f)
      PROVE Doomed(e)'
  <2>1. f # e
    BY <1>4 DEF StartFails, StartDrains, StartStopped, StartReturns, Up, TypeOK
  <2>2. /\ UNCHANGED <<esrv, att, call, parentDone>> /\ Up(e)
        /\ rsrv'[e] = rsrv[e] /\ cancelled'[e] = cancelled[e]
    BY <1>4, <2>1
    DEF StartFails, StartDrains, StartStopped, StartReturns, Up, TypeOK, runVars
  <2>3. QED
    BY <1>1, <2>2 DEF Doomed, CtxDone
<1>5. ASSUME NEW c \in Caller,
             \/ \E i \in Inst : ReplaceLookup(c, i)
             \/ \E n \in Name : RemoveLookup(c, n)
      PROVE Doomed(e)'
  <2>1. /\ UNCHANGED <<esrv, rsrv, att, cancelled, rpc, parentDone>>
        /\ call[c] = Idle
    BY <1>5 DEF ReplaceLookup, RemoveLookup, MayCall, entryVars, runVars
  <2>2. \A d \in Caller \ {c} : call'[d] = call[d]
    BY <1>5, ReplaceLookupFields, RemoveLookupFields
  <2>3. Idle.pc = "idle"
    BY DEF Idle
  <2>4. QED
    BY <1>1, <2>1, <2>2, <2>3 DEF Doomed, CtxDone, Up
<1>6. ASSUME NEW c \in Caller, Add(c) PROVE Doomed(e)'
  <2>1. /\ UNCHANGED <<rsrv, att, cancelled, parentDone>>
        /\ call[c].pc = "add" /\ call[c].srv \in Inst
    BY <1>6, CallFields DEF Add, runVars, TypeOK
  <2>2. /\ \A d \in Caller \ {c} : call'[d] = call[d]
        /\ rpc'[e] = rpc[e] \/ rpc'[e] = "head"
        /\ e = call[c].srv \/ esrv'[e] = esrv[e]
    BY <1>6, <2>1 DEF Add, TypeOK
  <2>3. Up(e) /\ e # call[c].srv
    BY <2>1, <2>2 DEF Up, Started
  <2>4. QED
    BY <1>1, <2>1, <2>2, <2>3 DEF Doomed, CtxDone
<1>7. ASSUME NEW c \in Caller, ReplaceSwap(c) PROVE Doomed(e)'
  <2>1. /\ UNCHANGED <<rsrv, att, cancelled, rpc, parentDone>> /\ Up(e)
        /\ call[c].pc = "swap" /\ call[c].ent \in Inst
    BY <1>7, CallFields DEF ReplaceSwap, runVars, TypeOK, Up
  <2>2. /\ \A d \in Caller \ {c} : call'[d] = call[d]
        /\ call[c].ent # e => esrv'[e] = esrv[e]
    BY <1>7, <2>1 DEF ReplaceSwap, StopAfterCapture, TypeOK
  <2>3. CASE call[c].ent # e
    BY <1>1, <2>1, <2>2, <2>3 DEF Doomed, CtxDone
  <2>4. CASE call[c].ent = e /\ ~ call[c].run
    BY <2>1, <2>4 DEF LateFalse, Doomed, CtxDone
  <2>5. CASE call[c].ent = e /\ call[c].run
    <3>1. StopAfterCapture(c, e) /\ att[e] # 0
      BY <1>7, <2>1, <2>5 DEF ReplaceSwap, Started
    <3>2. /\ call'[c].pc = "shutdown" /\ call'[c].ent = e
          /\ call'[c].att = att[e]
      BY <2>5, <3>1, CaptureFields
    <3>3. QED
      BY <2>1, <3>2 DEF Doomed
  <2>6. QED
    BY <2>3, <2>4, <2>5
<1>8. ASSUME NEW c \in Caller, RemoveCapture(c) PROVE Doomed(e)'
  <2>1. /\ UNCHANGED <<esrv, rsrv, att, cancelled, rpc, parentDone>> /\ Up(e)
        /\ call[c].pc = "capture"
    BY <1>8 DEF RemoveCapture, entryVars, runVars, Up
  <2>2. \A d \in Caller \ {c} : call'[d] = call[d]
    BY <1>8 DEF RemoveCapture, StopAfterCapture, TypeOK
  <2>3. QED
    BY <1>1, <2>1, <2>2 DEF Doomed, CtxDone
<1>9. ASSUME NEW c \in Caller, CallShutdown(c) PROVE Doomed(e)'
  <2>1. /\ UNCHANGED <<esrv, rsrv, att, cancelled, rpc, parentDone>> /\ Up(e)
    BY <1>9 DEF CallShutdown, runVars, Up
  <2>2. /\ \A d \in Caller \ {c} : call'[d] = call[d]
        /\ call'[c].pc = "cancel" /\ call'[c].ent = call[c].ent
        /\ call'[c].att = call[c].att
    BY <1>9 DEF CallShutdown, TypeOK, Call, CallRec
  <2>3. QED
    BY <1>1, <2>1, <2>2 DEF Doomed, CtxDone
<1>10. ASSUME NEW c \in Caller, CallCancel(c) PROVE Doomed(e)'
  <2>1. /\ UNCHANGED <<esrv, rsrv, att, rpc, parentDone>> /\ Up(e)
        /\ \A d \in Caller \ {c} : call'[d] = call[d]
        /\ cancelled[e] => cancelled'[e]
        /\ call[c].ent = e /\ call[c].att = att[e] => cancelled'[e]
    BY <1>10 DEF CallCancel, TypeOK, runVars, Up
  <2>2. QED
    BY <1>1, <2>1 DEF Doomed, CtxDone
<1>11. ASSUME NEW c \in Caller, CallJoin(c) PROVE Doomed(e)'
  <2>1. /\ UNCHANGED <<esrv, rsrv, att, cancelled, rpc, parentDone>> /\ Up(e)
        /\ \A d \in Caller \ {c} : call'[d] = call[d]
        /\ call[c].pc = "join"
    BY <1>11 DEF CallJoin, TypeOK, entryVars, runVars, Up
  <2>2. QED
    BY <1>1, <2>1 DEF Doomed, CtxDone
<1>12. CASE RunStep \/ ParentCancel
  <2>1. /\ UNCHANGED <<esrv, rsrv, att, cancelled, call>>
        /\ parentDone => parentDone'
    BY <1>12
    DEF RunStep, RunStart, RunCollect, RunReturn, RunReadSrv, RunShutdown,
        ParentCancel, entryVars
  <2>2. Up(e)
    <3>1. CASE RunStart
      BY <3>1 DEF RunStart, Up
    <3>2. CASE UNCHANGED rpc
      BY <3>2 DEF Up
    <3>3. QED
      BY <1>12, <3>1, <3>2
      DEF RunStep, RunCollect, RunReturn, RunReadSrv, RunShutdown,
          ParentCancel, entryVars
  <2>3. QED
    BY <1>1, <2>1, <2>2 DEF Doomed, CtxDone
<1>13. CASE UNCHANGED vars
  BY <1>1, <1>13 DEF vars, entryVars, runVars, Doomed, CtxDone, Up
<1>14. QED
  BY <1>2, <1>3, <1>4, <1>5, <1>6, <1>7, <1>8, <1>9, <1>10, <1>11, <1>12,
     <1>13
  DEF Next, EntryStep, CallStep

\* Where no call begins before Run, a server that was swapped out runs only
\* while its context is done or a call that captured it is about to cancel
\* it, for any number of servers, overlapping calls and crashes.
THEOREM StaleStopped ==
  ASSUME ~ EarlyCalls
  PROVE  Spec => []StaleIsBeingStopped
<1>1. Init => Started /\ LateFalse /\ StaleIsBeingStopped
  <2> SUFFICES ASSUME Init PROVE Started /\ LateFalse /\ StaleIsBeingStopped
    OBVIOUS
  <2>1. \A c \in Caller : call[c].pc = "idle"
    BY DEF Init, Idle
  <2>2. QED
    BY <2>1
    DEF Init, Started, LateFalse, StaleIsBeingStopped, Up, Registered
<1>2. /\ TypeOK /\ Ownership /\ Started /\ LateFalse /\ StaleIsBeingStopped
      /\ [Next]_vars
      => Started' /\ LateFalse' /\ StaleIsBeingStopped'
  BY StartedStep, LateFalseStep, StaleStep
<1>3. QED
  BY <1>1, <1>2, TypeCorrect, OwnershipHolds, PTL DEF Spec

-----------------------------------------------------------------------------
(* A name has one running server, removed entries apart.                   *)

\* A goroutine drives the entry that is registered under its name, until that
\* entry is removed.
RunsRegistered ==
  /\ \A n \in Name : entries[n] # None => NameOf[entries[n]] = n
  /\ \A e \in Inst \ removed : rpc[e] # "none" => entries[NameOf[e]] = e

\* Removed entries apart, at most one entry of a name runs, though any number
\* of reloads call Replace for it at once: Add's check under s.mu lets one of
\* them through.
THEOREM OnePerName == Spec => []OneServerPerName
<1>1. Init => RunsRegistered
  BY DEF Init, RunsRegistered
<1>2. TypeOK /\ RunsRegistered /\ [Next]_vars => RunsRegistered'
  <2> SUFFICES ASSUME TypeOK, RunsRegistered, [Next]_vars
               PROVE  RunsRegistered'
    OBVIOUS
  <2>1. ASSUME NEW e \in Inst,
               \/ EntryStep(e) \/ StartFails(e) \/ StartStopped(e)
               \/ BackoffAborted(e)
        PROVE RunsRegistered'
    <3>1. UNCHANGED <<entries, removed>>
      BY <2>1
      DEF EntryStep, HeadCheck, BeginAttempt, Listen, StartDrains, AfterNil,
          AfterErr, BackoffExpires, StartFails, StartStopped, StartReturns,
          BackoffAborted
    <3>2. rpc[e] # "none" /\ \A f \in Inst \ {e} : rpc'[f] = rpc[f]
      BY <2>1
      DEF EntryStep, HeadCheck, BeginAttempt, Listen, StartDrains, AfterNil,
          AfterErr, BackoffExpires, StartFails, StartStopped, StartReturns,
          BackoffAborted, Goto, Up, TypeOK
    <3>3. QED
      BY <3>1, <3>2 DEF RunsRegistered
  <2>2. ASSUME NEW c \in Caller, Add(c) PROVE RunsRegistered'
    <3> removed' = removed
      BY <2>2 DEF Add
    <3>1. CASE UNCHANGED <<entries, rpc>>
      BY <3>1 DEF RunsRegistered
    <3>2. CASE /\ entries[NameOf[call[c].srv]] = None
               /\ entries' = [entries EXCEPT
                                ![NameOf[call[c].srv]] = call[c].srv]
               /\ rpc' = IF running THEN [rpc EXCEPT ![call[c].srv] = "head"]
                                    ELSE rpc
      <4>1. call[c].srv \in Inst
        BY <2>2, CallFields DEF Add, TypeOK
      <4>2. \A f \in Inst : rpc'[f] # "none" => rpc[f] # "none" \/ f = call[c].srv
        BY <3>2, <4>1 DEF TypeOK
      <4>3. QED
        BY <3>2, <4>1, <4>2, InstAssumption DEF RunsRegistered, TypeOK
    <3>3. QED
      BY <2>2, <3>1, <3>2 DEF Add
  <2>3. ASSUME NEW c \in Caller,
               \/ \E i \in Inst : ReplaceLookup(c, i)
               \/ ReplaceSwap(c) \/ RemoveCapture(c)
               \/ CallShutdown(c) \/ CallCancel(c) \/ CallJoin(c)
        PROVE RunsRegistered'
    BY <2>3
    DEF ReplaceLookup, ReplaceSwap, RemoveCapture, CallShutdown, CallCancel,
        CallJoin, entryVars, RunsRegistered
  <2>4. ASSUME NEW c \in Caller, NEW n \in Name, RemoveLookup(c, n)
        PROVE  RunsRegistered'
    <3>1. /\ entries[n] # None
          /\ entries' = [entries EXCEPT ![n] = None]
          /\ removed' = removed \cup {entries[n]}
          /\ rpc' = rpc
      BY <2>4 DEF RemoveLookup, entryVars
    <3>2. \A f \in Inst \ removed' : rpc[f] # "none" => entries'[NameOf[f]] = f
      BY <3>1, InstAssumption DEF RunsRegistered, TypeOK
    <3>3. QED
      BY <3>1, <3>2 DEF RunsRegistered, TypeOK
  <2>5. CASE RunStart
    <3>1. /\ entries' = entries /\ removed' = removed
          /\ rpc' = [f \in Inst |-> IF f \in Registered THEN "head" ELSE rpc[f]]
      BY <2>5 DEF RunStart
    <3>2. \A f \in Registered : entries[NameOf[f]] = f
      BY DEF Registered, RunsRegistered
    <3>3. QED
      BY <3>1, <3>2 DEF RunsRegistered
  <2>6. CASE \/ RunCollect \/ RunReturn \/ ParentCancel
             \/ \E e \in Inst : RunReadSrv(e) \/ RunShutdown(e)
    BY <2>6
    DEF RunCollect, RunReturn, ParentCancel, RunReadSrv, RunShutdown,
        entryVars, RunsRegistered
  <2>7. CASE UNCHANGED vars
    BY <2>7 DEF vars, entryVars, RunsRegistered
  <2>8. QED
    BY <2>1, <2>2, <2>3, <2>4, <2>5, <2>6, <2>7 DEF Next, CallStep, RunStep
<1>3. RunsRegistered => OneServerPerName
  BY DEF RunsRegistered, OneServerPerName, Up
<1>4. QED
  BY <1>1, <1>2, <1>3, TypeCorrect, PTL DEF Spec
=============================================================================
