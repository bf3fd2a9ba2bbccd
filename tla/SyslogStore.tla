---------------------------- MODULE SyslogStore ----------------------------
(***************************************************************************)
(* The store of the syslog server (internal/syslogsrv/store.go): messages  *)
(* appended to syslog-current.log, rotated by size to a file named after   *)
(* the second, compressed by a goroutine of its own, and removed by age.   *)
(*                                                                         *)
(* The directory holds names, a name leads to a file (an inode), and an    *)
(* open handle stays with its file when the name moves or goes away.       *)
(* There is more than one store on the directory: a reload builds the new  *)
(* server, store included, before the old one is shut down, and a process  *)
(* that ends without a shutdown leaves the directory as it is.             *)
(***************************************************************************)
EXTENDS Naturals, FiniteSets

CONSTANTS
  Store,      \* 1 .. n, the stores in the order in which they are built
  Setting,    \* Setting[s]: their maxAge (0: no expiry) and compress
  Platforms,  \* the values of posix to consider
  Msg,        \* 1 .. n, the messages in the order in which they arrive
  Size,       \* Size[m]: the length of its line
  MaxSize,    \* maxSize, in the same unit
  MaxTime,    \* bound on the clock, in seconds
  File,       \* bound: the files there can be at a time
  MaxFaults,  \* bound: the errors that the system makes a Write meet
  None        \* no file

ASSUME StoreAssumption ==
  /\ Cardinality(Store) \in Nat /\ Store = 1 .. Cardinality(Store)
  /\ Cardinality(Msg) \in Nat /\ Msg = 1 .. Cardinality(Msg)
  /\ Setting \in [Store -> [age : Nat, gz : BOOLEAN]]
  /\ Platforms \subseteq BOOLEAN
  /\ Size \in [Msg -> Nat \ {0}] /\ MaxSize \in Nat \ {0} /\ MaxTime \in Nat
  /\ MaxFaults \in Nat
  /\ None \notin File \cup Store

VARIABLES
  posix,     \* may an open file be renamed or removed?  (Windows refuses)
  now,       \* the clock
  dir,       \* dir[n]: the file of that name
  file,      \* file[f]: its messages, how long their lines are together, its
             \* modification time, is it whole?
  life,      \* life[s]: has it been built, closed, or lost in a crash?
  handle,    \* handle[s]: s.file
  size,      \* size[s]: s.size
  pc,        \* pc[s]: how far the call of Write that holds s.mu is
  msg,       \* msg[s]: its message
  jobs,      \* the calls of compressFile that run
  due,       \* due[s]: the time from which cleanupOnce counts back
  left,      \* left[s]: the entries that it has still to look at
  at,        \* at[s]: the one that it is about to remove
  next,      \* the number of messages handed to a store so far
  by,        \* by[m]: the store whose Write returned an error (history)
  written,   \* written[m]: when its Write returned nil (history)
  expired,   \* messages in the files that cleanupOnce removes (history)
  clashed,   \* messages in files that shared the name of a second (history)
  mixed,     \* messages of files appended to while two stores had them (history)
  split,     \* stores whose file another one renamed (history)
  hurt,      \* stores that rotated next to another store, or twice a second (history)
  failed,    \* messages that file.Write did not write, or not to the end (history)
  broken     \* stores whose rotation met an error of the system, or that were
             \* open when another one's openCurrent did (history)

store   == <<life, handle, size, pc, msg>>
sweep   == <<due, left, at>>
history == <<by, written, expired, clashed, mixed, split, hurt, failed, broken>>
vars    == <<posix, now, dir, file, store, jobs, sweep, next, history>>

Current == <<"current", 0>>
Log(t)  == <<"log", t>>
Gz(t)   == <<"gz", t>>
Name    == {Current} \cup {Log(t) : t \in 0 .. MaxTime} \cup {Gz(t) : t \in 0 .. MaxTime}

ASSUME NameAssumption == None \notin Name

Job     == [t : 0 .. MaxTime, pc : {"open", "copy", "remove"},
            in : File \cup {None}, out : File \cup {None}]
Inode   == [data : SUBSET Msg, size : Nat, mtime : 0 .. MaxTime, whole : BOOLEAN]

Open  == {s \in Store : life[s] = "open"}
Used  == ({dir[n] : n \in Name} \cup {handle[s] : s \in Store}
          \cup {j.in : j \in jobs} \cup {j.out : j \in jobs}) \ {None}
Empty(whole) == [data |-> {}, size |-> 0, mtime |-> now, whole |-> whole]
Fault == Cardinality(failed) + Cardinality(broken) < MaxFaults
Free  == File \ Used
Fresh == CHOOSE f \in Free : TRUE

(***************************************************************************)
(* Who has a file open: a store, or a compressFile that reads or writes    *)
(* it.  Without the file-sharing mode that Go does not ask for, Windows    *)
(* refuses to rename or remove such a file, or to rename over it.          *)
(***************************************************************************)
Held(f)    == (\E s \in Store : handle[s] = f) \/ (\E j \in jobs : f \in {j.in, j.out})
Movable(n) == dir[n] = None \/ posix \/ ~Held(dir[n])

TypeOK ==
  /\ posix \in BOOLEAN /\ now \in 0 .. MaxTime
  /\ dir \in [Name -> File \cup {None}]
  /\ file \in [File -> Inode]
  /\ life \in [Store -> {"none", "open", "closed", "dead"}]
  /\ handle \in [Store -> File \cup {None}]
  /\ size \in [Store -> Nat]
  /\ pc \in [Store -> {"idle", "rename", "reopen"}]
  /\ msg \in [Store -> Msg \cup {0}]
  /\ jobs \in SUBSET Job
  /\ due \in [Store -> 0 .. MaxTime]
  /\ left \in [Store -> SUBSET Name] /\ at \in [Store -> Name \cup {None}]
  /\ next \in 0 .. Cardinality(Msg)
  /\ by \in [Msg -> Store \cup {None}] /\ written \in [Msg -> 0 .. MaxTime + 1]
  /\ expired \subseteq Msg /\ clashed \subseteq Msg /\ mixed \subseteq Msg
  /\ split \subseteq Store /\ hurt \subseteq Store
  /\ failed \subseteq Msg /\ broken \subseteq Store

Init ==
  /\ posix \in Platforms /\ now = 0
  /\ dir = [n \in Name |-> None]
  /\ file = [f \in File |-> Empty(TRUE)]
  /\ life = [s \in Store |-> "none"] /\ handle = [s \in Store |-> None]
  /\ size = [s \in Store |-> 0]
  /\ pc = [s \in Store |-> "idle"] /\ msg = [s \in Store |-> 0]
  /\ jobs = {} /\ next = 0
  /\ due = [s \in Store |-> 0] /\ left = [s \in Store |-> {}]
  /\ at = [s \in Store |-> None]
  /\ by = [m \in Msg |-> None] /\ written = [m \in Msg |-> MaxTime + 1]
  /\ expired = {} /\ clashed = {} /\ mixed = {} /\ split = {} /\ hurt = {}
  /\ failed = {} /\ broken = {}

-----------------------------------------------------------------------------
Kept(d, fs, m) == \E n \in Name : d[n] # None /\ fs[d[n]].whole /\ m \in fs[d[n]].data

(***************************************************************************)
(* openCurrent: os.OpenFile creates the file when there is none, and the   *)
(* size of the store is what Stat says.  NewStore is that and a            *)
(* cleanupLoop; main builds at most one new server while an old one runs.  *)
(***************************************************************************)
CanOpen     == dir[Current] # None \/ Free # {}
CurrentFile == IF dir[Current] = None THEN Fresh ELSE dir[Current]
WithCurrent == IF dir[Current] = None THEN [file EXCEPT ![Fresh] = Empty(TRUE)] ELSE file

NewStore_NoStat(s) ==
  /\ life[s] = "none" /\ \A r \in Store : r < s => life[r] # "none"
  /\ Cardinality(Open) <= 1 /\ CanOpen
  /\ life' = [life EXCEPT ![s] = "open"]
  /\ dir' = [dir EXCEPT ![Current] = CurrentFile]
  /\ file' = WithCurrent
  /\ handle' = [handle EXCEPT ![s] = CurrentFile]
  /\ size' = [size EXCEPT ![s] = 0]
  /\ UNCHANGED <<posix, now, pc, msg, jobs, sweep, next, history>>

NewStore(s) ==
  /\ life[s] = "none" /\ \A r \in Store : r < s => life[r] # "none"
  /\ Cardinality(Open) <= 1 /\ CanOpen
  /\ life' = [life EXCEPT ![s] = "open"]
  /\ dir' = [dir EXCEPT ![Current] = CurrentFile]
  /\ file' = WithCurrent
  /\ handle' = [handle EXCEPT ![s] = CurrentFile]
  /\ size' = [size EXCEPT ![s] = WithCurrent[CurrentFile].size]
  /\ UNCHANGED <<posix, now, pc, msg, jobs, sweep, next, history>>

(***************************************************************************)
(* openCurrent fails, before or after the file has been made.              *)
(***************************************************************************)
OpenFails ==
  \/ UNCHANGED <<dir, file>>
  \/ /\ dir[Current] = None
     /\ dir' = [dir EXCEPT ![Current] = CurrentFile]
     /\ file' = WithCurrent

NewStoreFails(s) ==
  /\ life[s] = "none" /\ \A r \in Store : r < s => life[r] # "none"
  /\ Cardinality(Open) <= 1 /\ CanOpen
  /\ life' = [life EXCEPT ![s] = "dead"]
  /\ OpenFails
  /\ UNCHANGED <<posix, now, handle, size, pc, msg, jobs, sweep, next, history>>

(***************************************************************************)
(* The ends of Write: an error before anything is written, because s.file  *)
(* is closed or the rotation failed; or file.Write, of the whole line or   *)
(* of its first k units and an error.  s.size counts what was written.     *)
(***************************************************************************)
Refuse(s, m) ==
  /\ by' = [by EXCEPT ![m] = s]
  /\ UNCHANGED <<size, written, mixed, failed>>

AppendUnits(s, m, f, fs, sz, k) ==
  /\ file' = [fs EXCEPT ![f] = [data |-> fs[f].data \cup {m}, size |-> fs[f].size + k,
                                mtime |-> now, whole |-> fs[f].whole]]
  /\ size' = [size EXCEPT ![s] = sz + k]
  /\ mixed' = IF s \in split \/ \E r \in Open \ {s} : handle[r] = f
              THEN mixed \cup file'[f].data ELSE mixed

WriteLine(s, m, f, fs, sz) ==
  \/ /\ AppendUnits(s, m, f, fs, sz, Size[m])
     /\ written' = [written EXCEPT ![m] = now]
     /\ UNCHANGED <<by, failed>>
  \/ /\ \/ \E k \in 1 .. Size[m] - 1 : AppendUnits(s, m, f, fs, sz, k)
        \/ file' = fs /\ size' = [size EXCEPT ![s] = sz] /\ UNCHANGED mixed
     /\ Fault
     /\ by' = [by EXCEPT ![m] = s] /\ failed' = failed \cup {m}
     /\ UNCHANGED written

(***************************************************************************)
(* Write.  A line that does not fit makes rotateLocked close the file (an  *)
(* error when it is closed already, or when the system reports one) and go *)
(* on to the rename.  Supervisor starts the new server after the old one   *)
(* has been shut down, so the oldest store takes the messages; a handler   *)
(* that outlives Shutdown finds its store closed.                          *)
(***************************************************************************)
Write(s) ==
  LET m == next + 1
      f == handle[s] IN
  /\ m \in Msg /\ pc[s] = "idle"
  /\ life[s] \in {"open", "closed"} /\ \A r \in Open : s <= r
  /\ next' = m
  /\ \/ /\ f = None
        /\ Refuse(s, m)
        /\ UNCHANGED <<file, handle, pc, msg, broken>>
     \/ /\ f # None /\ size[s] + Size[m] > MaxSize
        /\ handle' = [handle EXCEPT ![s] = None]
        /\ \/ /\ pc' = [pc EXCEPT ![s] = "rename"] /\ msg' = [msg EXCEPT ![s] = m]
              /\ UNCHANGED <<file, size, by, written, mixed, failed, broken>>
           \/ /\ Fault
              /\ Refuse(s, m)
              /\ broken' = broken \cup {s}
              /\ UNCHANGED <<file, pc, msg>>
     \/ /\ f # None /\ size[s] + Size[m] <= MaxSize
        /\ WriteLine(s, m, f, file, size[s])
        /\ UNCHANGED <<handle, pc, msg, broken>>
  /\ UNCHANGED <<posix, now, dir, life, jobs, sweep, expired, clashed, split, hurt>>

(***************************************************************************)
(* rotateLocked after its Close: the file moves to the name of the second, *)
(* whatever had that name before, and its compression starts.  os.Rename   *)
(* may fail for any reason, and leaves the store with a closed file.  Two  *)
(* rotations clash when they share a second, and the second one meets the  *)
(* first one's files or a cleanup that has looked at one of them.          *)
(***************************************************************************)
InHand(s) == {at[s]} \cup (IF posix THEN {} ELSE left[s])

Rename(s) ==
  LET t     == now
      c     == dir[Current]
      same  == {dir[Log(t)], dir[Gz(t)]}
               \cup UNION {{j.in, j.out} : j \in {k \in jobs : k.t = t}}
      clash == \/ dir[Log(t)] # None \/ dir[Gz(t)] # None \/ \E j \in jobs : j.t = t
               \/ \E r \in Store : {Log(t), Gz(t)} \cap InHand(r) # {}
      moves == c # None /\ Movable(Current) /\ Movable(Log(t))
  IN
  /\ pc[s] = "rename"
  /\ hurt' = IF clash \/ Open # {s} THEN hurt \cup {s} ELSE hurt
  /\ \/ /\ moves
        /\ dir' = [dir EXCEPT ![Log(t)] = c, ![Current] = None]
        /\ jobs' = IF Setting[s].gz
                   THEN jobs \cup {[t |-> t, pc |-> "open", in |-> None, out |-> None]}
                   ELSE jobs
        /\ clashed' = IF clash
                      THEN clashed \cup UNION {file[f].data : f \in (same \cup {c}) \ {None}}
                      ELSE clashed
        /\ split' = split \cup {r \in Open : handle[r] = c}
        /\ pc' = [pc EXCEPT ![s] = "reopen"]
        /\ UNCHANGED <<msg, size, by, written, mixed, failed, broken>>
     \/ /\ moves => Fault
        /\ Refuse(s, msg[s])
        /\ broken' = IF moves THEN broken \cup {s} ELSE broken
        /\ pc' = [pc EXCEPT ![s] = "idle"] /\ msg' = [msg EXCEPT ![s] = 0]
        /\ UNCHANGED <<dir, jobs, clashed, split>>
  /\ UNCHANGED <<posix, now, file, life, handle, sweep, next, expired>>

(***************************************************************************)
(* The openCurrent that ends rotateLocked, and the write that it was for.  *)
(* When openCurrent fails, s.file stays the closed one, and every store    *)
(* that is open may be without a current file.                             *)
(***************************************************************************)
Reopen_Skipped(s) ==
  /\ pc[s] = "reopen"
  /\ Refuse(s, msg[s])
  /\ pc' = [pc EXCEPT ![s] = "idle"] /\ msg' = [msg EXCEPT ![s] = 0]
  /\ UNCHANGED <<posix, now, dir, file, handle, life, jobs, sweep, next, expired,
                 clashed, split, hurt, broken>>

Reopen(s) ==
  LET f == CurrentFile IN
  /\ pc[s] = "reopen" /\ CanOpen
  /\ \/ /\ dir' = [dir EXCEPT ![Current] = f]
        /\ handle' = [handle EXCEPT ![s] = f]
        /\ WriteLine(s, msg[s], f, WithCurrent, WithCurrent[f].size)
        /\ split' = split \ {s}
        /\ UNCHANGED broken
     \/ /\ Fault
        /\ OpenFails
        /\ Refuse(s, msg[s])
        /\ broken' = broken \cup Open
        /\ UNCHANGED <<handle, split>>
  /\ pc' = [pc EXCEPT ![s] = "idle"] /\ msg' = [msg EXCEPT ![s] = 0]
  /\ UNCHANGED <<posix, now, life, jobs, sweep, next, expired, clashed, hurt>>

(***************************************************************************)
(* Close, at the end of Server.Shutdown; it waits for s.mu.                *)
(***************************************************************************)
Close(s) ==
  /\ life[s] = "open" /\ pc[s] = "idle" /\ \A r \in Open : s <= r
  /\ life' = [life EXCEPT ![s] = "closed"]
  /\ handle' = [handle EXCEPT ![s] = None]
  /\ UNCHANGED <<posix, now, dir, file, size, pc, msg, jobs, sweep, next, history>>

-----------------------------------------------------------------------------
(***************************************************************************)
(* compressFile: open, create (an older file of that name is truncated),   *)
(* copy, and remove the original, which is still open then.  A copy that   *)
(* fails removes what it has written.  Each of the calls may fail, and an  *)
(* error of os.Remove is ignored.                                          *)
(***************************************************************************)
Step(j, k) == jobs' = (jobs \ {j}) \cup {k}
End(j)     == jobs' = jobs \ {j}

CompressOpen(j) ==
  LET f == IF dir[Gz(j.t)] = None THEN Fresh ELSE dir[Gz(j.t)] IN
  /\ j.pc = "open"
  /\ \/ End(j) /\ UNCHANGED <<dir, file>>
     \/ /\ dir[Log(j.t)] # None /\ (dir[Gz(j.t)] # None \/ Free # {})
        /\ dir' = [dir EXCEPT ![Gz(j.t)] = f]
        /\ file' = [file EXCEPT ![f] = Empty(FALSE)]
        /\ Step(j, [j EXCEPT !.pc = "copy", !.in = dir[Log(j.t)], !.out = f])
  /\ UNCHANGED <<posix, now, store, sweep, next, history>>

CompressCopy(j) ==
  /\ j.pc = "copy"
  /\ file' = [file EXCEPT ![j.out] = [data |-> file[j.in].data, size |-> file[j.in].size,
                                      mtime |-> now, whole |-> TRUE]]
  /\ Step(j, [j EXCEPT !.pc = "remove", !.out = None])
  /\ UNCHANGED <<posix, now, dir, store, sweep, next, history>>

CompressRemove(j) ==
  /\ j.pc = "remove"
  /\ End(j)
  /\ \/ Movable(Log(j.t)) /\ dir' = [dir EXCEPT ![Log(j.t)] = None]
     \/ dir' = dir
  /\ UNCHANGED <<posix, now, file, store, sweep, next, history>>

CompressFail_RemovesOriginal(j) ==
  /\ j.pc = "copy"
  /\ End(j)
  /\ dir' = [dir EXCEPT ![Gz(j.t)] = None, ![Log(j.t)] = IF posix THEN None ELSE @]
  /\ UNCHANGED <<posix, now, file, store, sweep, next, history>>

CompressFail(j) ==
  /\ j.pc = "copy"
  /\ End(j)
  /\ \/ /\ posix \/ ~\E k \in jobs \ {j} : dir[Gz(j.t)] \in {k.in, k.out}
        /\ dir' = [dir EXCEPT ![Gz(j.t)] = None]
     \/ dir' = dir
  /\ UNCHANGED <<posix, now, file, store, sweep, next, history>>

(***************************************************************************)
(* cleanupOnce, called by the cleanupLoop of every store that this process *)
(* has built: nothing ends the loop, Close included.  It lists the         *)
(* directory and takes the entries in the order of their names; for each   *)
(* it asks the age and then removes it, and nothing keeps a rotation or a  *)
(* compression from coming between.  On Windows the age is in the listing. *)
(***************************************************************************)
Old_Early(s, n, t) ==
  /\ n # Current /\ dir[n] # None
  /\ file[dir[n]].mtime + Setting[s].age <= t + 1

Old(s, n, t) ==
  /\ n # Current /\ dir[n] # None
  /\ file[dir[n]].mtime + Setting[s].age <= t

CleanupList(s) ==
  /\ life[s] \in {"open", "closed"} /\ Setting[s].age > 0
  /\ left[s] = {} /\ at[s] = None /\ due[s] < now
  /\ due' = [due EXCEPT ![s] = now]
  /\ left' = [left EXCEPT ![s] = IF posix THEN {n \in Name \ {Current} : dir[n] # None}
                                 ELSE {n \in Name : Old(s, n, now)}]
  /\ left'[s] # {}
  /\ UNCHANGED <<posix, now, dir, file, store, jobs, at, next, history>>

\* "syslog-T.log" sorts before "syslog-T.log.gz", and both before a later T.
Before(n, k) == n[2] < k[2] \/ (n[2] = k[2] /\ n[1] = "log")

CleanupInfo(s) ==
  \E n \in left[s] :
    /\ at[s] = None
    /\ \A k \in left[s] \ {n} : Before(n, k)
    /\ left' = [left EXCEPT ![s] = @ \ {n}]
    /\ at' = [at EXCEPT ![s] = IF ~posix \/ Old(s, n, due[s]) THEN n ELSE None]
    /\ UNCHANGED <<posix, now, dir, file, store, jobs, due, next, history>>

CleanupRemove(s) ==
  LET n == at[s] IN
  /\ n # None
  /\ at' = [at EXCEPT ![s] = None]
  /\ \/ Movable(n) /\ dir' = [dir EXCEPT ![n] = None]
     \/ dir' = dir
  /\ expired' = IF dir[n] = None THEN expired ELSE expired \cup file[dir[n]].data
  /\ UNCHANGED <<posix, now, file, store, jobs, due, left, next, by, written, clashed,
                 mixed, split, hurt, failed, broken>>

-----------------------------------------------------------------------------
Tick ==
  /\ now < MaxTime
  /\ now' = now + 1
  /\ UNCHANGED <<posix, dir, file, store, jobs, sweep, next, history>>

(***************************************************************************)
(* The process ends at any point: nothing but the directory survives.  A   *)
(* message whose Write has not returned was not accepted.                  *)
(***************************************************************************)
Crash ==
  /\ Open # {}
  /\ \E s \in Store : life[s] = "none"
  /\ life' = [s \in Store |-> IF life[s] = "none" THEN "none" ELSE "dead"]
  /\ handle' = [s \in Store |-> None]
  /\ size' = [s \in Store |-> 0]
  /\ pc' = [s \in Store |-> "idle"] /\ msg' = [s \in Store |-> 0]
  /\ jobs' = {} /\ split' = {}
  /\ due' = [s \in Store |-> 0] /\ left' = [s \in Store |-> {}]
  /\ at' = [s \in Store |-> None]
  /\ UNCHANGED <<posix, now, dir, file, next, by, written, expired, clashed, mixed, hurt,
                 failed, broken>>

Next ==
  \/ \E s \in Store :
       \/ NewStore(s) \/ NewStoreFails(s) \/ Write(s) \/ Rename(s) \/ Reopen(s)
       \/ Close(s) \/ CleanupList(s) \/ CleanupInfo(s) \/ CleanupRemove(s)
  \/ \E j \in jobs :
       \/ CompressOpen(j) \/ CompressCopy(j) \/ CompressRemove(j)
       \/ CompressFail(j)
  \/ Tick
  \/ Crash

Spec == Init /\ [][Next]_vars

-----------------------------------------------------------------------------
Accepted == {m \in Msg : written[m] <= MaxTime}

(***************************************************************************)
(* A message whose Write returned nil is in some readable file of the      *)
(* directory, through rotation, compression, crashes in the middle of      *)
(* either, and restarts.  Besides expiry there are two exceptions, each a  *)
(* weakness of the code: two rotations within one second use one name, and *)
(* a rotation by the old store during a reload leaves the new one writing  *)
(* to the renamed file.                                                    *)
(***************************************************************************)
AcceptedIsKept ==
  \A m \in Accepted \ (expired \cup clashed \cup mixed) : Kept(dir, file, m)

(***************************************************************************)
(* Why Write returns an error: file.Write failed for this line, which has  *)
(* no consequence for the next; or the store has been closed, or an error  *)
(* of the system has cut short a rotation, its own or of a store that was  *)
(* open next to it, or it rotated while another store was open or twice    *)
(* within a second.  A store to which none of that has happened finds its  *)
(* file where it expects it, at every rotation.                            *)
(***************************************************************************)
RefusalHasACause ==
  \A m \in Msg : by[m] # None =>
    \/ m \in failed
    \/ by[m] \in hurt \cup broken
    \/ life[by[m]] \in {"closed", "dead"}

(***************************************************************************)
(* No file holds more than maxSize of lines, unless it is one line alone   *)
(* or two stores shared it: a store that opens a file counts what is in    *)
(* it, and no other store adds to it unnoticed.                            *)
(***************************************************************************)
FilesAreBounded ==
  \A n \in Name : dir[n] # None =>
    LET f == file[dir[n]] IN
    \/ f.size <= MaxSize
    \/ \E m \in Msg : f.data = {m}
    \/ f.data \cap (mixed \cup clashed) # {}

(***************************************************************************)
(* cleanupOnce asks for the removal of a file only when each message in it *)
(* is at least as old as the maxAge of some store built since the start of *)
(* the process: compression and rotation never make a file look older.     *)
(* Between the look at an entry and its removal a second rotation of the   *)
(* same second may give the name to a fresh file, and a store whose file   *)
(* was renamed may append to it: those messages are excepted.              *)
(***************************************************************************)
ExpiredWasOld ==
  [][\A m \in (expired' \cap Accepted) \ (expired \cup clashed \cup mixed) :
       \E s \in Store : /\ life[s] \in {"open", "closed"} /\ Setting[s].age > 0
                        /\ written[m] + Setting[s].age <= now]_vars
=============================================================================
