-------------------------- MODULE SyslogStoreProofs --------------------------
(***************************************************************************)
(* Proofs about SyslogStore for any number of stores, messages, files and  *)
(* seconds: which file may be where, what an append may reach, and from    *)
(* that where every accepted message is.                                   *)
(***************************************************************************)
EXTENDS SyslogStore, TLAPS

Time == 0 .. MaxTime

(***************************************************************************)
(* The stores: one after the other is built; the oldest open one is the    *)
(* only one in the middle of a Write.                                      *)
(***************************************************************************)
StoresOK ==
  /\ \A r, s \in Store : r < s /\ life[r] = "none" => life[s] = "none"
  /\ \A s \in Store :
       /\ handle[s] # None => life[s] = "open" /\ pc[s] = "idle"
       /\ pc[s] # "idle" => /\ life[s] = "open" /\ \A r \in Open : s <= r
                            /\ msg[s] \in Msg /\ msg[s] <= next

\* There is a current file but in the middle of a rotation, or after one
\* that failed.
CurrentOK ==
  Open # {} /\ dir[Current] = None =>
    (\E s \in Store : pc[s] = "reopen") \/ Open \subseteq broken

\* A store writes to the current file, or to one that another store moved.
HandlesOK == \A s \in Store : handle[s] # None =>
               handle[s] = dir[Current] \/ s \in split

\* A store without a file has been closed or has a cause to be without.
FailureHasACause ==
  \A s \in Store : life[s] = "open" /\ pc[s] = "idle" /\ handle[s] = None =>
    s \in hurt \cup broken

\* All that a failed Write is explained by.
CauseInv == CurrentOK /\ HandlesOK /\ FailureHasACause /\ RefusalHasACause

\* compressFile has opened what it reads and writes.
JobsOK == \A j \in jobs :
  /\ j.pc = "open"   => j.in = None /\ j.out = None
  /\ j.pc = "copy"   => j.in # None /\ j.out # None
  /\ j.pc = "remove" => j.in # None /\ j.out = None

\* The files of the second t: its rotated ones and its compressed ones.
LogFiles(t) == {f \in File : f = dir[Log(t)] \/ \E j \in jobs : j.t = t /\ f = j.in}
GzFiles(t)  == {f \in File : f = dir[Gz(t)] \/ \E j \in jobs : j.t = t /\ f = j.out}

\* A file has one place: current, rotated in a second, compressed for one.
PlacesOK ==
  /\ \A t \in Time : dir[Current] \notin LogFiles(t) \cup GzFiles(t)
  /\ \A t, u \in Time : LogFiles(t) \cap GzFiles(u) = {}
  /\ \A t, u \in Time : t # u => /\ LogFiles(t) \cap LogFiles(u) = {}
                                 /\ GzFiles(t) \cap GzFiles(u) = {}
  /\ \A s \in Store, t \in Time : handle[s] \notin GzFiles(t)

\* If the message has been accepted, then no later than at x.
WrittenBy(m, x) == written[m] <= MaxTime => written[m] <= x

\* Nothing is in a file, or in a name, before its time, and compression
\* makes no file look older than its name.
TimesOK ==
  /\ \A f \in File : file[f].mtime <= now
  /\ \A t \in Time : LogFiles(t) # {} => t <= now
  /\ \A j \in jobs : j.t <= now
  /\ \A t \in Time : dir[Gz(t)] # None => file[dir[Gz(t)]].mtime >= t
  /\ \A f \in File : \A m \in file[f].data : WrittenBy(m, file[f].mtime)
  /\ \A m \in Msg : WrittenBy(m, now)

\* A message is in a file only after its Write.
DataOK ==
  /\ \A f \in File : \A m \in file[f].data :
       m <= next /\ \A s \in Store : pc[s] # "idle" => m # msg[s]
  /\ \A f \in File : file[f].data # {} => file[f].whole
  /\ dir[Current] # None => file[dir[Current]].whole
  /\ \A s \in Store : handle[s] # None => file[handle[s]].whole

\* The messages that are excepted, and those of them that are old.
Muddled == clashed \cup mixed
Excused == Muddled \cup expired

\* A store knows the length of its file, unless two of them write to it.
SizesOK ==
  /\ \A f \in File : \/ file[f].size <= MaxSize
                     \/ \E m \in Msg : file[f].data = {m}
                     \/ file[f].data \cap Muddled # {}
  /\ \A s \in Store : handle[s] # None =>
       \/ size[s] = file[handle[s]].size
       \/ file[handle[s]].data \cap mixed # {}

\* What a rotation finds after its rename has nothing in it yet.
ReopensOK ==
  \A s \in Store : pc[s] = "reopen" /\ dir[Current] # None =>
    file[dir[Current]].data = {} /\ file[dir[Current]].size = 0

(***************************************************************************)
(* The compression of the second t: one call of compressFile at most, on   *)
(* the file of that name; while it copies, the rotated file is there, and  *)
(* afterwards the compressed one has what the rotated one has.             *)
(***************************************************************************)
Orderly(t) ==
  /\ \A j, k \in jobs : j.t = t /\ k.t = t => j = k
  /\ \A j \in jobs : j.t = t =>
       /\ j.pc = "open" => dir[Gz(t)] = None
       /\ j.pc # "open" => dir[Log(t)] \in {None, j.in}
       /\ j.pc = "copy" => dir[Gz(t)] \in {None, j.out} /\ file[j.out].data = {}
       /\ posix /\ j.pc # "open" /\ dir[Log(t)] # None =>
            \A m \in file[dir[Log(t)]].data \ Excused :
              /\ dir[Gz(t)] # None
              /\ j.pc = "remove" => m \in file[dir[Gz(t)]].data
  /\ dir[Log(t)] # None => \A m \in file[dir[Log(t)]].data \ Muddled :
                             file[dir[Log(t)]].mtime <= t

\* Two rotations have shared the name of the second t.
Disorderly(t) == \A f \in LogFiles(t) \cup GzFiles(t) : file[f].data \subseteq Muddled

SecondsOK == \A t \in Time : Orderly(t) \/ Disorderly(t)

\* What has been rotated in the second t has been written by then.
DatedOK == \A t \in Time : \A f \in LogFiles(t) \cup GzFiles(t) :
             \A m \in file[f].data \ Muddled : WrittenBy(m, t)

(***************************************************************************)
(* The cleanup of a store.  What it is about to remove is old: the second  *)
(* of a compressed file, and each message of a rotated one, whatever has   *)
(* happened since it looked at them.  And when it comes to a compressed    *)
(* file, the rotated one of that second has gone, or it tried to remove it.*)
(***************************************************************************)
SweepOK(s) ==
  /\ due[s] <= now /\ Current \notin left[s] \cup {at[s]}
  /\ left[s] # {} \/ at[s] # None =>
       life[s] \in {"open", "closed"} /\ Setting[s].age > 0

LooksOK(s, t) ==
  /\ at[s] = Gz(t) => Log(t) \notin left[s]
  /\ Gz(t) \in InHand(s) => t + Setting[s].age <= due[s]
  /\ Log(t) \in InHand(s) /\ dir[Log(t)] # None =>
       \A m \in file[dir[Log(t)]].data \ Muddled :
         written[m] <= MaxTime => written[m] + Setting[s].age <= due[s]
  /\ /\ posix /\ Gz(t) \in left[s] \cup {at[s]} /\ Log(t) \notin left[s] \cup {at[s]}
     /\ dir[Log(t)] # None /\ t + Setting[s].age <= due[s]
     => file[dir[Log(t)]].data \subseteq Excused

SweepsOK == \A s \in Store : SweepOK(s) /\ \A t \in Time : LooksOK(s, t)

StoreInv == /\ TypeOK /\ StoresOK /\ JobsOK /\ PlacesOK /\ CauseInv
            /\ TimesOK /\ DataOK /\ SizesOK /\ ReopensOK /\ SecondsOK /\ DatedOK
            /\ SweepsOK /\ AcceptedIsKept

-----------------------------------------------------------------------------
(* Names, files and types.                                                 *)

\* The names are different.
LEMMA Names ==
  /\ Current \in Name
  /\ \A t \in Time : Log(t) \in Name /\ Gz(t) \in Name
  /\ \A t \in Time : Log(t) # Current /\ Gz(t) # Current
  /\ \A t, u \in Time : Log(t) # Gz(u)
  /\ \A t, u \in Time : t # u => Log(t) # Log(u) /\ Gz(t) # Gz(u)
  /\ \A n \in Name : n = Current \/ \E t \in Time : n = Log(t) \/ n = Gz(t)
BY StoreAssumption DEF Current, Log, Gz, Name, Time

\* Stores and messages are numbers.
LEMMA Numbers ==
  /\ Store \subseteq Nat /\ Msg \subseteq Nat \ {0}
  /\ None \notin File /\ None \notin Store
  /\ \A m \in Msg : Size[m] \in Nat /\ m \in 0 .. Cardinality(Msg)
  /\ MaxTime \in Nat /\ MaxSize \in Nat /\ Time \subseteq Nat
  /\ \A s \in Store : Setting[s].age \in Nat /\ Setting[s].gz \in BOOLEAN
BY StoreAssumption DEF Time

\* A free file is nowhere in use.
LEMMA FreshIsFree ==
  ASSUME Free # {}
  PROVE  /\ Fresh \in File /\ Fresh # None
         /\ \A n \in Name : dir[n] # Fresh
         /\ \A s \in Store : handle[s] # Fresh
         /\ \A j \in jobs : j.in # Fresh /\ j.out # Fresh
<1>1. Fresh \in Free
  BY DEF Fresh
<1>2. Fresh \in File /\ Fresh # None
  BY <1>1, StoreAssumption DEF Free
<1>3. QED
  BY <1>1, <1>2 DEF Free, Used

\* The file that openCurrent opens.
LEMMA CurrentIsAFile ==
  ASSUME TypeOK, CanOpen
  PROVE  /\ CurrentFile \in File /\ CurrentFile # None
         /\ WithCurrent \in [File -> Inode]
         /\ \A f \in File : dir[Current] # None \/ f # CurrentFile =>
              WithCurrent[f] = file[f]
         /\ dir[Current] = None =>
              /\ Free # {} /\ CurrentFile = Fresh
              /\ WithCurrent[CurrentFile].data = {}
              /\ WithCurrent[CurrentFile].size = 0
              /\ WithCurrent[CurrentFile].mtime = now
              /\ WithCurrent[CurrentFile].whole
         /\ dir[Current] # None => CurrentFile = dir[Current]
<1>1. CASE dir[Current] # None
  <2>1. CurrentFile = dir[Current] /\ WithCurrent = file
    BY <1>1 DEF CurrentFile, WithCurrent
  <2>2. QED
    BY <1>1, <2>1, Names, StoreAssumption DEF TypeOK
<1>2. CASE dir[Current] = None
  <2>1. CurrentFile = Fresh /\ WithCurrent = [file EXCEPT ![Fresh] = Empty(TRUE)]
    BY <1>2 DEF CurrentFile, WithCurrent
  <2>2. Free # {} /\ Fresh \in File /\ Fresh # None
    BY <1>2, FreshIsFree DEF CanOpen
  <2>3. Empty(TRUE) \in Inode
    BY DEF Empty, TypeOK, Inode
  <2>4. WithCurrent[CurrentFile] = Empty(TRUE)
    BY <2>1, <2>2 DEF TypeOK
  <2>5. QED
    BY <1>2, <2>1, <2>2, <2>3, <2>4 DEF TypeOK, Empty, Inode
<1>3. QED
  BY <1>1, <1>2

\* openCurrent leaves the current file as it is, or creates it.
Creates ==
  /\ CanOpen
  /\ \/ UNCHANGED <<dir, file>>
     \/ dir' = [dir EXCEPT ![Current] = CurrentFile] /\ file' = WithCurrent

\* It fails, or the store has the current file and its size.
Finds(s) ==
  /\ Creates
  /\ \/ UNCHANGED <<handle, size>>
     \/ /\ dir' = [dir EXCEPT ![Current] = CurrentFile] /\ file' = WithCurrent
        /\ handle' = [handle EXCEPT ![s] = CurrentFile]
        /\ size' = [size EXCEPT ![s] = WithCurrent[CurrentFile].size]

LEMMA CreatesDoes ==
  ASSUME TypeOK, Creates
  PROVE  /\ dir' \in [Name -> File \cup {None}] /\ file' \in [File -> Inode]
         /\ \A n \in Name \ {Current} : dir'[n] = dir[n]
         /\ \A t \in Time : dir'[Log(t)] = dir[Log(t)] /\ dir'[Gz(t)] = dir[Gz(t)]
         /\ dir[Current] # None => dir'[Current] = dir[Current] /\ file' = file
         /\ dir[Current] = None => dir'[Current] \in {None, Fresh} /\ Free # {}
         /\ \A f \in File : \/ file'[f] = file[f]
                            \/ /\ dir[Current] = None /\ Free # {} /\ f = Fresh
                               /\ file'[f].data = {} /\ file'[f].size = 0
                               /\ file'[f].mtime = now /\ file'[f].whole
<1>1. CASE UNCHANGED <<dir, file>>
  BY <1>1 DEF TypeOK, Creates, CanOpen
<1>2. CASE dir' = [dir EXCEPT ![Current] = CurrentFile] /\ file' = WithCurrent
  <2>1. /\ CurrentFile \in File /\ WithCurrent \in [File -> Inode]
        /\ \A f \in File : dir[Current] # None \/ f # CurrentFile => file'[f] = file[f]
        /\ dir[Current] = None =>
              /\ Free # {} /\ CurrentFile = Fresh
              /\ file'[Fresh].data = {} /\ file'[Fresh].size = 0
              /\ file'[Fresh].mtime = now /\ file'[Fresh].whole
        /\ dir[Current] # None => CurrentFile = dir[Current]
    BY <1>2, CurrentIsAFile DEF Creates
  <2>2. dir'[Current] = CurrentFile /\ \A n \in Name \ {Current} : dir'[n] = dir[n]
    BY <1>2, Names DEF TypeOK
  <2>3. \A t \in Time : dir'[Log(t)] = dir[Log(t)] /\ dir'[Gz(t)] = dir[Gz(t)]
    BY <2>2, Names
  <2>4. dir' \in [Name -> File \cup {None}] /\ file' \in [File -> Inode]
    BY <1>2, <2>1 DEF TypeOK
  <2>5. dir[Current] # None => file' = file
    BY <1>2 DEF WithCurrent
  <2>6. QED
    BY <2>1, <2>2, <2>3, <2>4, <2>5
<1>3. QED
  BY <1>1, <1>2 DEF Creates

\* What a store finds.
LEMMA FindsDoes ==
  ASSUME TypeOK, NEW s \in Store, Finds(s)
  PROVE  /\ handle' \in [Store -> File \cup {None}] /\ size' \in [Store -> Nat]
         /\ \A r \in Store : r # s => handle'[r] = handle[r] /\ size'[r] = size[r]
         /\ \/ handle'[s] = handle[s] /\ size'[s] = size[s]
            \/ /\ handle'[s] \in File /\ handle'[s] = dir'[Current]
               /\ size'[s] = file'[dir'[Current]].size
<1>1. CASE UNCHANGED <<handle, size>>
  BY <1>1 DEF TypeOK
<1>2. CASE /\ dir' = [dir EXCEPT ![Current] = CurrentFile] /\ file' = WithCurrent
           /\ handle' = [handle EXCEPT ![s] = CurrentFile]
           /\ size' = [size EXCEPT ![s] = WithCurrent[CurrentFile].size]
  <2>1. CurrentFile \in File /\ WithCurrent \in [File -> Inode]
    BY CurrentIsAFile DEF Finds, Creates
  <2>2. WithCurrent[CurrentFile].size \in Nat
    BY <2>1 DEF Inode
  <2>3. dir'[Current] = CurrentFile
    BY <1>2, Names DEF TypeOK
  <2>4. QED
    BY <1>2, <2>1, <2>2, <2>3 DEF TypeOK
<1>3. QED
  BY <1>1, <1>2 DEF Finds

\* What an append does to its file, and to the store.
LEMMA Appended ==
  ASSUME TypeOK, NEW s \in Store, NEW m \in Msg, NEW f \in File, NEW fs, NEW sz \in Nat,
         NEW k \in Nat, fs \in [File -> Inode],
         AppendUnits(s, m, f, fs, sz, k)
  PROVE  /\ file' \in [File -> Inode]
         /\ \A g \in File : g # f => file'[g] = fs[g]
         /\ file'[f].data = fs[f].data \cup {m}
         /\ file'[f].size = fs[f].size + k
         /\ file'[f].mtime = now
         /\ file'[f].whole = fs[f].whole
         /\ size' \in [Store -> Nat] /\ size'[s] = sz + k
         /\ \A r \in Store : r # s => size'[r] = size[r]
         /\ mixed' \subseteq Msg /\ mixed \subseteq mixed'
         /\ s \in split \/ (\E r \in Open \ {s} : handle[r] = f) =>
              file'[f].data \subseteq mixed'
<1> DEFINE g == [data |-> fs[f].data \cup {m}, size |-> fs[f].size + k,
                mtime |-> now, whole |-> fs[f].whole]
<1>1. /\ file' = [fs EXCEPT ![f] = g]
      /\ size' = [size EXCEPT ![s] = sz + k]
  BY DEF AppendUnits
<1>2. /\ fs[f].data \in SUBSET Msg /\ fs[f].size \in Nat /\ now \in 0 .. MaxTime
      /\ fs[f].whole \in BOOLEAN
  BY Numbers DEF TypeOK, Inode
<1>3. /\ g \in Inode
      /\ g.data = fs[f].data \cup {m} /\ g.size = fs[f].size + k
      /\ g.mtime = now /\ g.whole = fs[f].whole
  BY <1>2 DEF Inode
<1> HIDE DEF g
<1>4. /\ file' \in [File -> Inode]
      /\ file'[f] = g /\ \A h \in File : h # f => file'[h] = fs[h]
      /\ file'[f].data \subseteq Msg
  BY <1>1, <1>3 DEF Inode
<1>5. /\ mixed' = IF s \in split \/ \E r \in Open \ {s} : handle[r] = f
                  THEN mixed \cup file'[f].data ELSE mixed
      /\ file'[f].data \subseteq Msg /\ mixed \subseteq Msg
  BY <1>4 DEF AppendUnits, TypeOK
<1>6. /\ size' \in [Store -> Nat] /\ size'[s] = sz + k
      /\ \A r \in Store : r # s => size'[r] = size[r]
  BY <1>1, <1>2 DEF TypeOK
<1>7. QED
  BY <1>1, <1>3, <1>4, <1>5, <1>6

\* file.Write writes the line, or less of it and returns an error.
LEMMA LineDoes ==
  ASSUME TypeOK, NEW s \in Store, NEW m \in Msg, NEW f, NEW fs, NEW sz,
         WriteLine(s, m, f, fs, sz)
  PROVE  /\ \/ \E k \in Nat : k <= Size[m] /\ AppendUnits(s, m, f, fs, sz, k)
            \/ /\ file' = fs /\ size' = [size EXCEPT ![s] = sz]
               /\ UNCHANGED <<mixed, written>>
         /\ written' \in [Msg -> 0 .. MaxTime + 1]
         /\ written'[m] \in {now, written[m]}
         /\ \A k \in Msg : k # m => written'[k] = written[k]
         /\ by' \in [Msg -> Store \cup {None}]
         /\ failed' \subseteq Msg /\ failed \subseteq failed'
         /\ \A k \in Msg : by'[k] = by[k] \/ k \in failed'
<1>1. CASE /\ AppendUnits(s, m, f, fs, sz, Size[m])
           /\ written' = [written EXCEPT ![m] = now]
           /\ UNCHANGED <<by, failed>>
  <2>1. Size[m] \in Nat /\ Size[m] <= Size[m] /\ now \in 0 .. MaxTime + 1
    BY Numbers DEF TypeOK
  <2>2. QED
    BY <1>1, <2>1 DEF TypeOK
<1>2. CASE /\ \/ \E k \in 1 .. Size[m] - 1 : AppendUnits(s, m, f, fs, sz, k)
              \/ file' = fs /\ size' = [size EXCEPT ![s] = sz] /\ UNCHANGED mixed
           /\ by' = [by EXCEPT ![m] = s] /\ failed' = failed \cup {m}
           /\ UNCHANGED written
  <2>1. Size[m] \in Nat
    BY Numbers
  <2>2. \A k \in 1 .. Size[m] - 1 : k \in Nat /\ k <= Size[m]
    BY <2>1
  <2>3. \/ \E k \in Nat : k <= Size[m] /\ AppendUnits(s, m, f, fs, sz, k)
        \/ file' = fs /\ size' = [size EXCEPT ![s] = sz] /\ UNCHANGED <<mixed, written>>
    BY <1>2, <2>2
  <2>4. QED
    BY <1>2, <2>3 DEF TypeOK
<1>3. QED
  BY <1>1, <1>2 DEF WriteLine

\* The job goes on to the removal of the original.
LEMMA JobCopied ==
  ASSUME NEW j \in Job, NEW k, k = [j EXCEPT !.pc = "remove", !.out = None]
  PROVE  k \in Job /\ k.pc = "remove" /\ k.in = j.in /\ k.out = None /\ k.t = j.t
BY DEF Job

\* compressFile cannot open the one file or create the other.
GivesUp(j) == End(j) /\ UNCHANGED <<dir, file>>

\* What is done in the steps of compressFile.
LEMMA CompressOpenDoes ==
  ASSUME TypeOK, NEW j \in jobs, CompressOpen(j), ~ GivesUp(j)
  PROVE  \E f \in File, k \in Job :
           /\ j.pc = "open" /\ dir[Log(j.t)] # None
           /\ IF dir[Gz(j.t)] = None THEN Free # {} /\ f = Fresh ELSE f = dir[Gz(j.t)]
           /\ dir' = [dir EXCEPT ![Gz(j.t)] = f]
           /\ file' = [file EXCEPT ![f] = Empty(FALSE)]
           /\ Empty(FALSE) \in Inode
           /\ jobs' = (jobs \ {j}) \cup {k}
           /\ k.t = j.t /\ k.pc = "copy" /\ k.in = dir[Log(j.t)] /\ k.out = f
<1> DEFINE f == IF dir[Gz(j.t)] = None THEN Fresh ELSE dir[Gz(j.t)]
           k == [j EXCEPT !.pc = "copy", !.in = dir[Log(j.t)], !.out = f]
<1>1. /\ j.pc = "open" /\ dir[Log(j.t)] # None
      /\ dir[Gz(j.t)] # None \/ Free # {}
      /\ dir' = [dir EXCEPT ![Gz(j.t)] = f]
      /\ file' = [file EXCEPT ![f] = Empty(FALSE)]
      /\ jobs' = (jobs \ {j}) \cup {k}
  BY DEF CompressOpen, Step, GivesUp
<1>2. j \in Job /\ j.t \in Time
  BY DEF TypeOK, Job, Time
<1>3. dir[Log(j.t)] \in File /\ dir[Gz(j.t)] \in File \cup {None}
  BY <1>1, <1>2, Names DEF TypeOK
<1>4. f \in File
  BY <1>1, <1>3, FreshIsFree
<1>5. IF dir[Gz(j.t)] = None THEN Free # {} /\ f = Fresh ELSE f = dir[Gz(j.t)]
  BY <1>1
<1> HIDE DEF f
<1>6. /\ k \in Job /\ k.t = j.t /\ k.pc = "copy" /\ k.in = dir[Log(j.t)] /\ k.out = f
  <2>1. PICK i \in File \cup {None} : i = dir[Log(j.t)]
    BY <1>3
  <2>2. PICK x : x = k
    OBVIOUS
  <2>3. x = [j EXCEPT !.pc = "copy", !.in = i, !.out = f]
    BY <2>1, <2>2
  <2>4. x \in Job /\ x.pc = "copy" /\ x.in = i /\ x.out = f /\ x.t = j.t
    BY <1>2, <1>4, <2>3 DEF Job
  <2>5. QED
    BY <2>1, <2>2, <2>4
<1>7. Empty(FALSE) \in Inode
  BY DEF Empty, Inode, TypeOK
<1> HIDE DEF k
<1>8. QED
  BY <1>1, <1>4, <1>5, <1>6, <1>7

\* The copy is complete, and its target closed.
LEMMA CompressCopyDoes ==
  ASSUME TypeOK, JobsOK, NEW j \in jobs, CompressCopy(j)
  PROVE  /\ j.pc = "copy" /\ j.in \in File /\ j.out \in File /\ j.t \in Time
         /\ \A f \in File : f # j.out => file'[f] = file[f]
         /\ file' \in [File -> Inode]
         /\ file'[j.out].data = file[j.in].data /\ file'[j.out].size = file[j.in].size
         /\ file'[j.out].mtime = now /\ file'[j.out].whole
         /\ UNCHANGED <<posix, now, dir, store, sweep, next, history>>
         /\ \E k \in Job : /\ jobs' = (jobs \ {j}) \cup {k}
                           /\ k.t = j.t /\ k.pc = "remove" /\ k.in = j.in /\ k.out = None
<1> DEFINE g == [data |-> file[j.in].data, size |-> file[j.in].size,
                 mtime |-> now, whole |-> TRUE]
           k == [j EXCEPT !.pc = "remove", !.out = None]
<1>1. /\ j.pc = "copy" /\ file' = [file EXCEPT ![j.out] = g]
      /\ jobs' = (jobs \ {j}) \cup {k}
      /\ UNCHANGED <<posix, now, dir, store, sweep, next, history>>
  BY DEF CompressCopy, Step
<1>2. j \in Job /\ j.t \in Time
  BY DEF TypeOK, Job, Time
<1>3. j.in \in File /\ j.out \in File
  BY <1>1, <1>2 DEF JobsOK, Job
<1>4. /\ k \in Job /\ k.t = j.t /\ k.pc = "remove" /\ k.in = j.in /\ k.out = None
  BY <1>2, JobCopied
<1> HIDE DEF k
<1>5. /\ g \in Inode /\ g.data = file[j.in].data /\ g.size = file[j.in].size
      /\ g.mtime = now /\ g.whole
  BY <1>3 DEF TypeOK, Inode
<1> HIDE DEF g
<1>6. /\ file' \in [File -> Inode] /\ file'[j.out] = g
      /\ \A f \in File : f # j.out => file'[f] = file[f]
  BY <1>1, <1>3, <1>5 DEF TypeOK
<1>7. QED
  BY <1>1, <1>2, <1>3, <1>4, <1>5, <1>6

\* The job that a rotation starts.
LEMMA NewJob ==
  ASSUME NEW t \in Time
  PROVE  /\ [t |-> t, pc |-> "open", in |-> None, out |-> None] \in Job
BY DEF Job, Time

\* The name of the second is taken.
Clash(t) == \/ dir[Log(t)] # None \/ dir[Gz(t)] # None \/ \E j \in jobs : j.t = t
            \/ \E r \in Store : {Log(t), Gz(t)} \cap InHand(r) # {}

\* The file can be renamed.
Moves == dir[Current] # None /\ Movable(Current) /\ Movable(Log(now))

\* os.Rename succeeds.
Renamed(s) == Moves /\ pc' = [pc EXCEPT ![s] = "reopen"]

\* Every message of the files that share a name is excepted.
LEMMA ClashedType ==
  ASSUME TypeOK, NEW s \in Store, Rename(s)
  PROVE  /\ clashed \subseteq clashed' /\ clashed' \subseteq Msg
         /\ Renamed(s) /\ Clash(now) =>
              /\ file[dir[Current]].data \subseteq clashed'
              /\ \A f \in LogFiles(now) \cup GzFiles(now) : file[f].data \subseteq clashed'
<1> DEFINE c == dir[Current]
           J == {{j.in, j.out} : j \in {k \in jobs : k.t = now}}
           same == {dir[Log(now)], dir[Gz(now)]} \cup UNION J
           D == {file[f].data : f \in (same \cup {c}) \ {None}}
<1>1. \/ clashed' = clashed
      \/ clashed' = clashed \cup UNION D
  BY DEF Rename
<1>2. Renamed(s) /\ Clash(now) => clashed' = clashed \cup UNION D
  <2>1. Renamed(s) => pc' # [pc EXCEPT ![s] = "idle"]
    BY DEF Renamed, TypeOK
  <2>2. QED
    BY <2>1 DEF Rename, Clash
<1>3. now \in Time /\ c \in File \cup {None}
  BY Names DEF TypeOK, Time
<1>4. ASSUME NEW f \in same PROVE f \in File \cup {None}
  <2>1. CASE f \in UNION J
    BY <2>1 DEF TypeOK, Job
  <2>2. CASE f \in {dir[Log(now)], dir[Gz(now)]}
    BY <1>3, <2>2, Names DEF TypeOK
  <2>3. QED
    BY <1>4, <2>1, <2>2
<1>5. UNION D \subseteq Msg
  BY <1>3, <1>4 DEF TypeOK, Inode
<1>6. ASSUME NEW f \in LogFiles(now) \cup GzFiles(now) PROVE f \in same \ {None}
  <2>1. f \in File /\ f # None
    BY Numbers DEF LogFiles, GzFiles
  <2>2. CASE f \in {dir[Log(now)], dir[Gz(now)]}
    BY <2>1, <2>2
  <2>3. CASE \E j \in jobs : j.t = now /\ f \in {j.in, j.out}
    <3>1. PICK j \in jobs : j.t = now /\ f \in {j.in, j.out}
      BY <2>3
    <3>2. {j.in, j.out} \in J
      BY <3>1
    <3>3. QED
      BY <2>1, <3>1, <3>2
  <2>4. QED
    BY <2>2, <2>3 DEF LogFiles, GzFiles
<1>7. ASSUME NEW f \in (same \cup {c}) \ {None} PROVE file[f].data \subseteq UNION D
  OBVIOUS
<1>8. Renamed(s) => c \in (same \cup {c}) \ {None}
  BY DEF Renamed, Moves
<1> HIDE DEF c, J, same, D
<1>9. Renamed(s) => file[c].data \subseteq UNION D
  BY <1>7, <1>8
<1>10. \A f \in LogFiles(now) \cup GzFiles(now) : file[f].data \subseteq UNION D
  BY <1>6, <1>7
<1>11. QED
  BY <1>1, <1>2, <1>5, <1>9, <1>10 DEF c, TypeOK

\* What rotateLocked does after its Close.
LEMMA RenameDoes ==
  ASSUME TypeOK, NEW s \in Store, Rename(s)
  PROVE  /\ now \in Time /\ pc[s] = "rename"
         /\ UNCHANGED <<posix, now, life, handle, file, sweep, next>>
         /\ UNCHANGED <<size, expired, written, mixed, failed>>
         /\ hurt' = IF Clash(now) \/ Open # {s} THEN hurt \cup {s} ELSE hurt
         /\ Renamed(s) =>
              /\ Moves
              /\ dir' = [dir EXCEPT ![Log(now)] = dir[Current], ![Current] = None]
              /\ \/ jobs' = jobs
                 \/ \E k \in Job : /\ jobs' = jobs \cup {k} /\ k.t = now /\ k.pc = "open"
                                  /\ k.in = None /\ k.out = None
              /\ split' = split \cup {r \in Open : handle[r] = dir[Current]}
              /\ pc' = [pc EXCEPT ![s] = "reopen"]
              /\ UNCHANGED <<msg, by, broken>>
         /\ ~ Renamed(s) =>
              /\ by' = [by EXCEPT ![msg[s]] = s]
              /\ pc' = [pc EXCEPT ![s] = "idle"] /\ msg' = [msg EXCEPT ![s] = 0]
              /\ broken' = IF Moves THEN broken \cup {s} ELSE broken
              /\ UNCHANGED <<dir, jobs, clashed, split>>
<1> DEFINE k == [t |-> now, pc |-> "open", in |-> None, out |-> None]
<1>1. k \in Job /\ now \in Time /\ k.t = now /\ k.pc = "open" /\ k.in = None /\ k.out = None
  BY NewJob DEF TypeOK, Time
<1>2. /\ pc[s] = "rename"
      /\ UNCHANGED <<posix, now, life, handle, file, sweep, next>>
      /\ UNCHANGED <<size, expired, written, mixed, failed>>
      /\ hurt' = IF Clash(now) \/ Open # {s} THEN hurt \cup {s} ELSE hurt
  BY DEF Rename, Refuse, Clash
<1>3. ASSUME Renamed(s)
      PROVE  /\ Moves
             /\ dir' = [dir EXCEPT ![Log(now)] = dir[Current], ![Current] = None]
             /\ jobs' = jobs \/ jobs' = jobs \cup {k}
             /\ split' = split \cup {r \in Open : handle[r] = dir[Current]}
             /\ pc' = [pc EXCEPT ![s] = "reopen"]
             /\ UNCHANGED <<msg, by, broken>>
  <2>1. Moves /\ pc' # [pc EXCEPT ![s] = "idle"]
    BY <1>3 DEF Renamed, TypeOK
  <2>2. QED
    BY <2>1 DEF Rename
<1>4. ASSUME ~ Renamed(s)
      PROVE  /\ by' = [by EXCEPT ![msg[s]] = s]
             /\ pc' = [pc EXCEPT ![s] = "idle"] /\ msg' = [msg EXCEPT ![s] = 0]
             /\ broken' = IF Moves THEN broken \cup {s} ELSE broken
             /\ UNCHANGED <<dir, jobs, clashed, split>>
  BY <1>4 DEF Rename, Renamed, Moves, Refuse
<1> HIDE DEF k
<1>5. QED
  BY <1>1, <1>2, <1>3, <1>4

\* What NewStore does, and what it does when openCurrent fails.
LEMMA NewStoreDoes ==
  ASSUME TypeOK, NEW s \in Store, NewStore(s) \/ NewStoreFails(s)
  PROVE  /\ Finds(s) /\ UNCHANGED <<posix, now, pc, msg, jobs, sweep, next, history>>
         /\ life[s] = "none"
         /\ \/ /\ life' = [life EXCEPT ![s] = "open"]
               /\ handle' = [handle EXCEPT ![s] = CurrentFile]
               /\ dir' = [dir EXCEPT ![Current] = CurrentFile]
            \/ life' = [life EXCEPT ![s] = "dead"] /\ UNCHANGED handle
BY DEF NewStore, NewStoreFails, OpenFails, Finds, Creates

\* What happens at the end of a rotation.
LEMMA ReopenCases ==
  ASSUME TypeOK, StoresOK, NEW s \in Store, Reopen(s)
  PROVE  /\ UNCHANGED <<posix, now, life, jobs, sweep, next, expired, clashed, hurt>>
         /\ pc[s] = "reopen" /\ msg[s] \in Msg /\ msg[s] <= next /\ CanOpen
         /\ pc' = [pc EXCEPT ![s] = "idle"] /\ msg' = [msg EXCEPT ![s] = 0]
         /\ \/ /\ dir' = [dir EXCEPT ![Current] = CurrentFile]
               /\ handle' = [handle EXCEPT ![s] = CurrentFile]
               /\ WriteLine(s, msg[s], CurrentFile, WithCurrent, WithCurrent[CurrentFile].size)
               /\ split' = split \ {s} /\ UNCHANGED broken
            \/ /\ Creates /\ broken' = broken \cup Open
               /\ by' = [by EXCEPT ![msg[s]] = s]
               /\ UNCHANGED <<size, written, mixed, failed, handle, split>>
BY DEF Reopen, StoresOK, OpenFails, Creates, Refuse

\* Every variable of the store keeps its type.
LEMMA TypeStep == TypeOK /\ JobsOK /\ StoresOK /\ [Next]_vars => TypeOK'
<1> SUFFICES ASSUME TypeOK, JobsOK, StoresOK, [Next]_vars PROVE TypeOK'
  OBVIOUS
<1>1. ASSUME NEW s \in Store, NewStore(s) \/ NewStoreFails(s) PROVE TypeOK'
  <2>1. /\ dir' \in [Name -> File \cup {None}] /\ file' \in [File -> Inode]
        /\ handle' \in [Store -> File \cup {None}] /\ size' \in [Store -> Nat]
    BY <1>1, NewStoreDoes, CreatesDoes, FindsDoes DEF Finds
  <2>2. UNCHANGED <<posix, now, pc, msg, jobs, sweep, next, history>>
    BY <1>1, NewStoreDoes
  <2>3. life' \in [Store -> {"none", "open", "closed", "dead"}]
    BY <1>1 DEF NewStore, NewStoreFails, TypeOK
  <2>4. QED
    BY <2>1, <2>2, <2>3 DEF TypeOK, history, sweep
<1>2. ASSUME NEW s \in Store, Write(s) PROVE TypeOK'
  <2> DEFINE m == next + 1
             f == handle[s]
  <2>1. /\ m \in Msg /\ m \in 0 .. Cardinality(Msg) /\ next' = m /\ f \in File \cup {None}
        /\ UNCHANGED <<posix, now, dir, life, jobs, sweep, expired, clashed, split, hurt>>
    BY <1>2, Numbers DEF Write, TypeOK
  <2>2. CASE f = None
    BY <1>2, <2>1, <2>2 DEF Write, Refuse, TypeOK, sweep
  <2>3. CASE f # None /\ size[s] + Size[m] > MaxSize
    <3>1. /\ handle' = [handle EXCEPT ![s] = None] /\ UNCHANGED file
          /\ \/ /\ pc' = [pc EXCEPT ![s] = "rename"] /\ msg' = [msg EXCEPT ![s] = m]
                /\ UNCHANGED <<size, by, written, mixed, failed, broken>>
             \/ /\ by' = [by EXCEPT ![m] = s] /\ broken' = broken \cup {s}
                /\ UNCHANGED <<pc, msg, size, written, mixed, failed>>
      BY <1>2, <2>1, <2>3, Numbers DEF Write, Refuse, TypeOK
    <3>2. QED
      BY <2>1, <3>1 DEF TypeOK, sweep
  <2>4. CASE f # None /\ size[s] + Size[m] <= MaxSize
    <3>1. WriteLine(s, m, f, file, size[s]) /\ UNCHANGED <<handle, pc, msg, broken>>
      BY <1>2, <2>1, <2>4, Numbers DEF Write, TypeOK
    <3>2. file \in [File -> Inode] /\ size[s] \in Nat /\ f \in File
      BY <2>1, <2>4 DEF TypeOK
    <3>3. /\ file' \in [File -> Inode] /\ size' \in [Store -> Nat]
          /\ written' \in [Msg -> 0 .. MaxTime + 1] /\ by' \in [Msg -> Store \cup {None}]
          /\ mixed' \subseteq Msg /\ failed' \subseteq Msg
      <4>1. ASSUME NEW k \in Nat, AppendUnits(s, m, f, file, size[s], k)
            PROVE  /\ file' \in [File -> Inode] /\ size' \in [Store -> Nat]
                   /\ mixed' \subseteq Msg
        BY <2>1, <3>2, <4>1, Appended
      <4>2. QED
        BY <2>1, <3>1, <3>2, <4>1, LineDoes DEF TypeOK
    <3>4. QED
      BY <2>1, <3>1, <3>3 DEF TypeOK, sweep
  <2>5. QED
    BY <1>2, <2>2, <2>3, <2>4 DEF Write
<1>3. ASSUME NEW s \in Store, Rename(s) PROVE TypeOK'
  <2>1. /\ now \in Time /\ dir[Current] \in File \cup {None}
        /\ Log(now) \in Name /\ Current \in Name /\ msg[s] \in Msg
        /\ UNCHANGED <<posix, now, life, handle, file, sweep, next>>
        /\ UNCHANGED <<size, expired, written, mixed, failed>>
    BY <1>3, RenameDoes, Names DEF StoresOK, TypeOK
  <2>2. hurt' \subseteq Store /\ clashed' \subseteq Msg
    BY <1>3, RenameDoes, ClashedType DEF TypeOK
  <2>3. CASE Renamed(s)
    <3>1. /\ dir' = [dir EXCEPT ![Log(now)] = dir[Current], ![Current] = None]
          /\ jobs' \in SUBSET Job
          /\ split' = split \cup {r \in Open : handle[r] = dir[Current]}
          /\ pc' = [pc EXCEPT ![s] = "reopen"]
          /\ UNCHANGED <<msg, by, broken>>
      BY <1>3, <2>3, RenameDoes DEF TypeOK
    <3>2. dir' \in [Name -> File \cup {None}] /\ split' \subseteq Store
      BY <2>1, <3>1 DEF TypeOK, Open
    <3>3. QED
      BY <2>1, <2>2, <3>1, <3>2 DEF TypeOK, sweep
  <2>4. CASE ~ Renamed(s)
    <3>1. /\ by' = [by EXCEPT ![msg[s]] = s]
          /\ pc' = [pc EXCEPT ![s] = "idle"] /\ msg' = [msg EXCEPT ![s] = 0]
          /\ broken' = broken \/ broken' = broken \cup {s}
          /\ UNCHANGED <<dir, jobs, clashed, split>>
      BY <1>3, <2>4, RenameDoes
    <3>2. QED
      BY <2>1, <2>2, <3>1 DEF TypeOK, sweep
  <2>5. QED
    BY <2>3, <2>4
<1>4. ASSUME NEW s \in Store, Reopen(s) PROVE TypeOK'
  <2>1. /\ UNCHANGED <<posix, now, life, jobs, sweep, next, expired, clashed, hurt>>
        /\ msg[s] \in Msg /\ CanOpen
        /\ pc' = [pc EXCEPT ![s] = "idle"] /\ msg' = [msg EXCEPT ![s] = 0]
    BY <1>4, ReopenCases
  <2>2. CASE /\ dir' = [dir EXCEPT ![Current] = CurrentFile]
             /\ handle' = [handle EXCEPT ![s] = CurrentFile]
             /\ WriteLine(s, msg[s], CurrentFile, WithCurrent, WithCurrent[CurrentFile].size)
             /\ split' = split \ {s} /\ UNCHANGED broken
    <3>1. CurrentFile \in File /\ WithCurrent \in [File -> Inode]
      BY <2>1, CurrentIsAFile
    <3>2. WithCurrent[CurrentFile].size \in Nat
      BY <3>1 DEF Inode
    <3>3. /\ file' \in [File -> Inode] /\ size' \in [Store -> Nat]
          /\ written' \in [Msg -> 0 .. MaxTime + 1] /\ by' \in [Msg -> Store \cup {None}]
          /\ mixed' \subseteq Msg /\ failed' \subseteq Msg
      <4> DEFINE sz == WithCurrent[CurrentFile].size
      <4>1. ASSUME NEW k \in Nat, AppendUnits(s, msg[s], CurrentFile, WithCurrent, sz, k)
            PROVE  /\ file' \in [File -> Inode] /\ size' \in [Store -> Nat]
                   /\ mixed' \subseteq Msg
        BY <2>1, <3>1, <3>2, <4>1, Appended
      <4>2. sz \in Nat /\ WriteLine(s, msg[s], CurrentFile, WithCurrent, sz)
        BY <2>2, <3>2
      <4> HIDE DEF sz
      <4>3. QED
        BY <2>1, <3>1, <4>1, <4>2, LineDoes DEF TypeOK
    <3>4. QED
      BY <2>1, <2>2, <3>1, <3>3, Names DEF TypeOK, sweep
  <2>3. CASE /\ Creates /\ broken' = broken \cup Open
             /\ by' = [by EXCEPT ![msg[s]] = s]
             /\ UNCHANGED <<size, written, mixed, failed, handle, split>>
    <3>1. dir' \in [Name -> File \cup {None}] /\ file' \in [File -> Inode]
      BY <2>3, CreatesDoes
    <3>2. QED
      BY <2>1, <2>3, <3>1 DEF TypeOK, Open, sweep
  <2>4. QED
    BY <1>4, <2>2, <2>3, ReopenCases
<1>5. ASSUME NEW s \in Store, Close(s) PROVE TypeOK'
  BY <1>5 DEF Close, TypeOK, history, sweep
<1>6. ASSUME NEW s \in Store, CleanupList(s) \/ CleanupInfo(s) PROVE TypeOK'
  <2>1. /\ UNCHANGED <<posix, now, dir, file, store, jobs, next, history>>
    BY <1>6 DEF CleanupList, CleanupInfo
  <2>2. /\ due' \in [Store -> 0 .. MaxTime]
        /\ left' \in [Store -> SUBSET Name] /\ at' \in [Store -> Name \cup {None}]
    BY <1>6 DEF CleanupList, CleanupInfo, TypeOK
  <2>3. QED
    BY <2>1, <2>2 DEF TypeOK, store, history
<1>7. ASSUME NEW s \in Store, CleanupRemove(s) PROVE TypeOK'
  <2>1. /\ UNCHANGED <<posix, now, file, store, jobs, due, left, next, by, written>>
        /\ UNCHANGED <<clashed, mixed, split, hurt, failed, broken>>
        /\ at' = [at EXCEPT ![s] = None]
        /\ dir' = dir \/ dir' = [dir EXCEPT ![at[s]] = None]
    BY <1>7 DEF CleanupRemove
  <2>2. expired' \subseteq Msg
    BY <1>7 DEF CleanupRemove, TypeOK, Inode
  <2>3. QED
    BY <2>1, <2>2 DEF TypeOK, store
<1>8. ASSUME NEW j \in jobs, CompressOpen(j) PROVE TypeOK'
  <2>1. j.t \in Time /\ UNCHANGED <<posix, now, store, sweep, next, history>>
    BY <1>8 DEF CompressOpen, TypeOK, Job, Time
  <2>2. CASE GivesUp(j)
    BY <1>8, <2>1, <2>2 DEF GivesUp, End, TypeOK, store, history, sweep
  <2>3. CASE ~ GivesUp(j)
    <3>1. PICK f \in File, k \in Job :
            /\ dir' = [dir EXCEPT ![Gz(j.t)] = f]
            /\ file' = [file EXCEPT ![f] = Empty(FALSE)]
            /\ Empty(FALSE) \in Inode
            /\ jobs' = (jobs \ {j}) \cup {k}
      BY <1>8, <2>3, CompressOpenDoes
    <3>2. QED
      BY <2>1, <3>1, Names DEF TypeOK, store, history, sweep
  <2>4. QED
    BY <2>2, <2>3
<1>9. ASSUME NEW j \in jobs, CompressCopy(j) PROVE TypeOK'
  <2>1. /\ file' \in [File -> Inode]
        /\ UNCHANGED <<posix, now, dir, store, sweep, next, history>>
        /\ \E k \in Job : jobs' = (jobs \ {j}) \cup {k}
    BY <1>9, CompressCopyDoes
  <2>2. QED
    BY <2>1 DEF TypeOK, store, history, sweep
<1>10. ASSUME NEW j \in jobs, CompressRemove(j) \/ CompressFail(j) PROVE TypeOK'
  <2>1. /\ jobs' = jobs \ {j} /\ dir' \in [Name -> File \cup {None}]
        /\ UNCHANGED <<posix, now, file, store, sweep, next, history>>
    BY <1>10 DEF CompressRemove, CompressFail, End, TypeOK
  <2>2. QED
    BY <2>1 DEF TypeOK, store, history, sweep
<1>11. CASE Tick
  BY <1>11, Numbers DEF Tick, TypeOK, store, history, sweep
<1>12. CASE Crash
  <2>1. 0 \in 0 .. MaxTime
    BY Numbers
  <2>2. QED
    BY <1>12, <2>1 DEF Crash, TypeOK
<1>13. CASE UNCHANGED vars
  BY <1>13 DEF vars, TypeOK, store, history, sweep
<1>14. QED
  BY <1>1, <1>2, <1>3, <1>4, <1>5, <1>6, <1>7, <1>8, <1>9, <1>10, <1>11, <1>12, <1>13 DEF Next

-----------------------------------------------------------------------------
(* The stores, and why a Write fails.                                      *)

\* One store at most is in the middle of a Write, and that is the oldest.
LEMMA OneWriter ==
  ASSUME StoresOK, NEW r \in Store, NEW s \in Store, pc[s] # "idle",
         life[r] = "open", \A o \in Open : r <= o
  PROVE  r = s
<1>1. r <= s /\ s <= r
  BY DEF StoresOK, Open
<1>2. r \in Nat /\ s \in Nat
  BY Numbers
<1>3. QED
  BY <1>1, <1>2

\* The actions that change the life of no store and the Write of none.
LEMMA StoresKept ==
  ASSUME StoresOK, UNCHANGED <<life, handle, pc, msg, next>>
  PROVE  StoresOK'
BY DEF StoresOK, Open

\* A message of the past stays one.
LEMMA Later == \A m \in Msg, n \in Nat : m <= n => m <= n + 1
<1> SUFFICES ASSUME NEW m \in Nat, NEW n \in Nat, m <= n PROVE m <= n + 1
  BY Numbers
<1> QED
  OBVIOUS

\* The stores are built, write and are closed in order.
LEMMA StoresStep == TypeOK /\ StoresOK /\ [Next]_vars => StoresOK'
<1> SUFFICES ASSUME TypeOK, StoresOK, [Next]_vars PROVE StoresOK'
  OBVIOUS
<1> USE Numbers
<1>1. ASSUME NEW s \in Store, NewStore(s) \/ NewStoreFails(s) PROVE StoresOK'
  <2>1. /\ life[s] = "none" /\ \A r \in Store : r < s => life[r] # "none"
        /\ \/ /\ life' = [life EXCEPT ![s] = "open"]
              /\ handle' = [handle EXCEPT ![s] = CurrentFile]
           \/ life' = [life EXCEPT ![s] = "dead"] /\ handle' = handle
        /\ UNCHANGED <<pc, msg, next>>
    BY <1>1 DEF NewStore, NewStoreFails
  <2>2. pc[s] = "idle"
    BY <2>1 DEF StoresOK, TypeOK
  <2>3. ASSUME NEW r \in Store, NEW q \in Store, r < q, life'[r] = "none"
        PROVE  life'[q] = "none"
    <3>1. r # s /\ life[r] = "none" /\ life[q] = "none"
      BY <2>1, <2>3 DEF StoresOK, TypeOK
    <3>2. q # s
      BY <2>1, <2>3, <3>1
    <3>3. QED
      BY <2>1, <3>1, <3>2 DEF TypeOK
  <2>4. ASSUME NEW q \in Store, pc[q] # "idle", NEW r \in Open'
        PROVE  q <= r
    <3>1. CASE r = s
      <4>1. life[q] = "open" /\ q # s
        BY <2>1, <2>4 DEF StoresOK
      <4>2. ~ (s < q)
        BY <2>1, <4>1 DEF StoresOK
      <4>3. QED
        BY <3>1, <4>1, <4>2
    <3>2. CASE r # s
      BY <2>1, <2>4, <3>2 DEF StoresOK, Open, TypeOK
    <3>3. QED
      BY <3>1, <3>2
  <2>5. \A q \in Store :
          /\ handle'[q] # None => life'[q] = "open" /\ pc[q] = "idle"
          /\ pc[q] # "idle" => life'[q] = "open" /\ msg[q] \in Msg /\ msg[q] <= next
    BY <2>1, <2>2 DEF StoresOK, TypeOK
  <2>6. QED
    BY <2>1, <2>3, <2>4, <2>5 DEF StoresOK
<1>2. ASSUME NEW s \in Store, Write(s) PROVE StoresOK'
  <2> DEFINE m == next + 1
  <2>1. /\ m \in Msg /\ next' = m /\ pc[s] = "idle" /\ life' = life /\ next \in Nat
        /\ \A r \in Open : s <= r
        /\ life[s] \in {"open", "closed"}
    BY <1>2 DEF Write, TypeOK
  <2>2. Open' = Open
    BY <2>1 DEF Open
  <2>3. CASE UNCHANGED <<handle, pc, msg>>
    <3>1. \A q \in Store : pc[q] # "idle" => msg[q] \in Msg /\ msg[q] <= next
      BY DEF StoresOK
    <3>2. \A q \in Store : pc[q] # "idle" => msg[q] <= next'
      BY <2>1, <3>1, Later
    <3>3. QED
      BY <2>1, <2>2, <2>3, <3>2 DEF StoresOK
  <2>4. CASE /\ handle[s] # None /\ handle' = [handle EXCEPT ![s] = None]
             /\ pc' = [pc EXCEPT ![s] = "rename"] /\ msg' = [msg EXCEPT ![s] = m]
    <3>1. life[s] = "open"
      BY <2>4 DEF StoresOK
    <3>2. ASSUME NEW q \in Store
          PROVE  /\ handle'[q] # None => life[q] = "open" /\ pc'[q] = "idle"
                 /\ pc'[q] # "idle" => /\ life[q] = "open" /\ \A r \in Open : q <= r
                                       /\ msg'[q] \in Msg /\ msg'[q] <= next'
      <4>1. CASE q = s
        BY <2>1, <2>4, <3>1, <4>1 DEF TypeOK
      <4>2. CASE q # s
        <5>1. handle'[q] = handle[q] /\ pc'[q] = pc[q] /\ msg'[q] = msg[q]
          BY <2>4, <4>2 DEF TypeOK
        <5>3. pc[q] # "idle" => msg[q] \in Msg /\ msg[q] <= next
          BY DEF StoresOK
        <5>4. pc[q] # "idle" => msg[q] <= next'
          BY <2>1, <5>3, Later
        <5>5. QED
          BY <5>1, <5>3, <5>4 DEF StoresOK
      <4>3. QED
        BY <4>1, <4>2
    <3>3. QED
      BY <2>1, <2>2, <3>2 DEF StoresOK
  <2>5. CASE handle' = [handle EXCEPT ![s] = None] /\ UNCHANGED <<pc, msg>>
    <3>1. \A q \in Store : pc[q] # "idle" => msg[q] \in Msg /\ msg[q] <= next
      BY DEF StoresOK
    <3>2. \A q \in Store : pc[q] # "idle" => msg[q] <= next'
      BY <2>1, <3>1, Later
    <3>3. \A q \in Store : handle'[q] # None => handle[q] # None
      BY <2>5 DEF TypeOK
    <3>4. QED
      BY <2>1, <2>2, <2>5, <3>2, <3>3 DEF StoresOK
  <2>6. QED
    BY <1>2, <2>3, <2>4, <2>5 DEF Write
<1>3. ASSUME NEW s \in Store, Rename(s) PROVE StoresOK'
  <2>1. /\ UNCHANGED <<life, handle, next>> /\ pc[s] = "rename"
        /\ \/ pc' = [pc EXCEPT ![s] = "reopen"] /\ msg' = msg
           \/ pc' = [pc EXCEPT ![s] = "idle"] /\ msg' = [msg EXCEPT ![s] = 0]
    BY <1>3, RenameDoes
  <2>2. QED
    BY <2>1 DEF StoresOK, Open, TypeOK
<1>4. ASSUME NEW s \in Store, Reopen(s) PROVE StoresOK'
  <2>1. /\ UNCHANGED <<life, next>> /\ pc[s] = "reopen"
        /\ handle' = handle \/ handle' = [handle EXCEPT ![s] = CurrentFile]
        /\ pc' = [pc EXCEPT ![s] = "idle"] /\ msg' = [msg EXCEPT ![s] = 0]
    BY <1>4 DEF Reopen
  <2>2. life[s] = "open" /\ pc'[s] = "idle" /\ Open' = Open
    BY <2>1 DEF StoresOK, Open, TypeOK
  <2>3. ASSUME NEW q \in Store, q # s
        PROVE  handle'[q] = handle[q] /\ pc'[q] = pc[q] /\ msg'[q] = msg[q]
    BY <2>1, <2>3 DEF TypeOK
  <2>4. QED
    BY <2>1, <2>2, <2>3 DEF StoresOK
<1>5. ASSUME NEW s \in Store, Close(s) PROVE StoresOK'
  <2>1. /\ UNCHANGED <<pc, msg, next>> /\ pc[s] = "idle" /\ life[s] = "open"
        /\ life' = [life EXCEPT ![s] = "closed"]
        /\ handle' = [handle EXCEPT ![s] = None]
    BY <1>5 DEF Close
  <2>2. Open' \subseteq Open
    BY <2>1 DEF Open, TypeOK
  <2>3. QED
    BY <2>1, <2>2 DEF StoresOK, TypeOK
<1>6. ASSUME NEW s \in Store, CleanupList(s) \/ CleanupInfo(s) \/ CleanupRemove(s)
      PROVE  StoresOK'
  BY <1>6, StoresKept DEF CleanupList, CleanupInfo, CleanupRemove, store
<1>7. ASSUME NEW j \in jobs,
             CompressOpen(j) \/ CompressCopy(j) \/ CompressRemove(j) \/ CompressFail(j)
      PROVE  StoresOK'
  BY <1>7, StoresKept
  DEF CompressOpen, CompressCopy, CompressRemove, CompressFail, store
<1>8. CASE Tick
  BY <1>8, StoresKept DEF Tick, store
<1>9. CASE Crash
  <2>1. /\ life' = [s \in Store |-> IF life[s] = "none" THEN "none" ELSE "dead"]
        /\ handle' = [s \in Store |-> None] /\ pc' = [s \in Store |-> "idle"]
    BY <1>9 DEF Crash
  <2>2. \A s \in Store : life'[s] = "none" <=> life[s] = "none"
    BY <2>1
  <2>3. \A s \in Store : handle'[s] = None /\ pc'[s] = "idle"
    BY <2>1
  <2>4. QED
    BY <2>2, <2>3 DEF StoresOK
<1>10. CASE UNCHANGED vars
  BY <1>10, StoresKept DEF vars, store
<1>11. QED
  BY <1>1, <1>2, <1>3, <1>4, <1>5, <1>6, <1>7, <1>8, <1>9, <1>10 DEF Next

\* Each step of compressFile finds what the one before it has opened.
LEMMA JobsStep == TypeOK /\ JobsOK /\ [Next]_vars => JobsOK'
<1> SUFFICES ASSUME TypeOK, JobsOK, [Next]_vars PROVE JobsOK'
  OBVIOUS
<1>1. ASSUME NEW s \in Store, Rename(s) PROVE JobsOK'
  <2>1. CASE Renamed(s)
    BY <1>1, <2>1, RenameDoes DEF JobsOK
  <2>2. CASE ~ Renamed(s)
    BY <1>1, <2>2, RenameDoes DEF JobsOK
  <2>3. QED
    BY <2>1, <2>2
<1>2. ASSUME NEW j \in jobs, CompressOpen(j) PROVE JobsOK'
  <2>1. CASE GivesUp(j)
    BY <1>2, <2>1 DEF CompressOpen, GivesUp, End, JobsOK
  <2>2. CASE ~ GivesUp(j)
    <3>1. PICK f \in File, k \in Job :
            /\ jobs' = (jobs \ {j}) \cup {k}
            /\ k.pc = "copy" /\ k.in = dir[Log(j.t)] /\ k.out = f
            /\ dir[Log(j.t)] # None
      BY <1>2, <2>2, CompressOpenDoes
    <3>2. QED
      BY <3>1, Numbers DEF JobsOK
  <2>3. QED
    BY <2>1, <2>2
<1>3. ASSUME NEW j \in jobs, CompressCopy(j) PROVE JobsOK'
  <2>1. j.in # None
    BY <1>3, CompressCopyDoes, Numbers
  <2>2. PICK k \in Job : /\ jobs' = (jobs \ {j}) \cup {k}
                         /\ k.pc = "remove" /\ k.in = j.in /\ k.out = None
    BY <1>3, CompressCopyDoes
  <2>3. QED
    BY <2>1, <2>2 DEF JobsOK
<1>4. ASSUME NEW j \in jobs, CompressRemove(j) \/ CompressFail(j) PROVE JobsOK'
  BY <1>4 DEF CompressRemove, CompressFail, End, JobsOK
<1>5. ASSUME NEW s \in Store,
             \/ NewStore(s) \/ NewStoreFails(s) \/ Write(s) \/ Reopen(s) \/ Close(s)
             \/ CleanupList(s) \/ CleanupInfo(s) \/ CleanupRemove(s)
      PROVE  JobsOK'
  BY <1>5 DEF NewStore, NewStoreFails, Write, Reopen, Close, CleanupList, CleanupInfo,
              CleanupRemove, JobsOK
<1>6. CASE Tick \/ Crash \/ UNCHANGED vars
  BY <1>6 DEF Tick, Crash, vars, JobsOK
<1>7. QED
  BY <1>1, <1>2, <1>3, <1>4, <1>5, <1>6 DEF Next

-----------------------------------------------------------------------------
(* Where the files are.                                                    *)

\* The actions on the current file alone leave the other names as they are.
LEMMA OtherNames ==
  ASSUME TypeOK, NEW f, dir' = [dir EXCEPT ![Current] = f]
  PROVE  /\ dir'[Current] = f
         /\ \A t \in Time : dir'[Log(t)] = dir[Log(t)] /\ dir'[Gz(t)] = dir[Gz(t)]
         /\ \A n \in Name \ {Current} : dir'[n] = dir[n]
BY Names DEF TypeOK

\* The file of a job is one of its second.
LEMMA JobFiles ==
  ASSUME TypeOK, NEW j \in jobs
  PROVE  /\ j.t \in Time
         /\ j.in # None => j.in \in LogFiles(j.t)
         /\ j.out # None => j.out \in GzFiles(j.t)
BY DEF TypeOK, Job, Time, LogFiles, GzFiles

\* The file of a name is one of its second.
LEMMA NameFiles ==
  ASSUME TypeOK, NEW t \in Time
  PROVE  /\ dir[Log(t)] # None => dir[Log(t)] \in LogFiles(t)
         /\ dir[Gz(t)] # None => dir[Gz(t)] \in GzFiles(t)
BY Names DEF TypeOK, LogFiles, GzFiles

\* A file that is free has no place.
LEMMA FreshHasNoPlace ==
  ASSUME TypeOK, Free # {}, NEW t \in Time
  PROVE  Fresh \notin LogFiles(t) \cup GzFiles(t)
BY FreshIsFree, Names DEF LogFiles, GzFiles

\* A step after which every second has the files it had, or fewer.
LEMMA FewerPlaces ==
  ASSUME PlacesOK, dir'[Current] = dir[Current],
         \A t \in Time : LogFiles(t)' \subseteq LogFiles(t)
                         /\ GzFiles(t)' \subseteq GzFiles(t),
         \A s \in Store : handle'[s] \in {handle[s], None}
  PROVE  PlacesOK'
<1>1. \A t \in Time : None \notin GzFiles(t)
  BY Numbers DEF GzFiles
<1>2. \A s \in Store, t \in Time : handle'[s] \notin GzFiles(t)'
  BY <1>1 DEF PlacesOK
<1>3. QED
  BY <1>2 DEF PlacesOK

\* Nothing happens to the names and the jobs.
LEMMA SamePlaces ==
  ASSUME PlacesOK, UNCHANGED <<dir, jobs>>,
         \A s \in Store : handle'[s] \in {handle[s], None}
  PROVE  PlacesOK'
<1>1. \A t \in Time : LogFiles(t)' = LogFiles(t) /\ GzFiles(t)' = GzFiles(t)
  BY DEF LogFiles, GzFiles
<1>2. QED
  BY <1>1, FewerPlaces

\* What the actions with an openCurrent have in common.
LEMMA CreatesOrOpens ==
  ASSUME TypeOK, StoresOK, NEW s \in Store, NewStore(s) \/ NewStoreFails(s) \/ Reopen(s)
  PROVE  /\ dir' = dir \/ dir' = [dir EXCEPT ![Current] = CurrentFile]
         /\ CanOpen /\ jobs' = jobs
         /\ \/ handle' = handle
            \/ /\ dir' = [dir EXCEPT ![Current] = CurrentFile]
               /\ handle' = [handle EXCEPT ![s] = CurrentFile]
         /\ \A r \in Store : handle'[r] \in {handle[r], dir'[Current]}
         /\ dir[Current] # None => dir'[Current] = dir[Current]
         /\ dir[Current] = None => dir'[Current] \in {None, Fresh} /\ Free # {}
<1>1. CanOpen /\ jobs' = jobs
  BY NewStoreDoes, ReopenCases DEF Finds, Creates
<1>2. \/ handle' = handle /\ Creates
      \/ /\ dir' = [dir EXCEPT ![Current] = CurrentFile]
         /\ handle' = [handle EXCEPT ![s] = CurrentFile]
  BY NewStoreDoes, ReopenCases DEF Finds
<1>3. dir' = dir \/ dir' = [dir EXCEPT ![Current] = CurrentFile]
  BY <1>2 DEF Creates
<1>4. QED
  BY <1>1, <1>2, <1>3, CurrentIsAFile, OtherNames DEF TypeOK

\* openCurrent creates the current file, or not, and a store may get it.
LEMMA CreatedPlaces ==
  ASSUME TypeOK, StoresOK, PlacesOK,
         NEW s \in Store, NewStore(s) \/ NewStoreFails(s) \/ Reopen(s)
  PROVE  /\ PlacesOK'
         /\ \A t \in Time : /\ LogFiles(t)' = LogFiles(t) /\ GzFiles(t)' = GzFiles(t)
                            /\ dir'[Log(t)] = dir[Log(t)] /\ dir'[Gz(t)] = dir[Gz(t)]
                            /\ dir'[Current] \notin LogFiles(t) \cup GzFiles(t)
                            /\ CurrentFile \notin LogFiles(t) \cup GzFiles(t)
<1>1. /\ CanOpen /\ jobs' = jobs
      /\ \A t \in Time : dir'[Log(t)] = dir[Log(t)] /\ dir'[Gz(t)] = dir[Gz(t)]
      /\ \A r \in Store : handle'[r] \in {handle[r], dir'[Current]}
      /\ dir[Current] # None => dir'[Current] = dir[Current]
      /\ dir[Current] = None => dir'[Current] \in {None, Fresh} /\ Free # {}
  BY CreatesOrOpens, OtherNames
<1>2. \A t \in Time : LogFiles(t)' = LogFiles(t) /\ GzFiles(t)' = GzFiles(t)
  BY <1>1 DEF LogFiles, GzFiles
<1>3. ASSUME NEW t \in Time
      PROVE  /\ dir'[Current] \notin LogFiles(t) \cup GzFiles(t)
             /\ CurrentFile \notin LogFiles(t) \cup GzFiles(t)
  <2>1. None \notin LogFiles(t) \cup GzFiles(t)
    BY Numbers DEF LogFiles, GzFiles
  <2>2. Free # {} => Fresh \notin LogFiles(t) \cup GzFiles(t)
    BY FreshHasNoPlace
  <2>3. dir[Current] \notin LogFiles(t) \cup GzFiles(t)
    BY DEF PlacesOK
  <2>4. QED
    BY <1>1, <2>1, <2>2, <2>3, CurrentIsAFile
<1>4. \A r \in Store, t \in Time : handle'[r] \notin GzFiles(t)
  BY <1>1, <1>3 DEF PlacesOK
<1>5. QED
  BY <1>1, <1>2, <1>3, <1>4 DEF PlacesOK

\* The current file moves to the name of the second.
LEMMA RenamedPlaces ==
  ASSUME TypeOK, PlacesOK, NEW s \in Store, Rename(s), Renamed(s),
         NEW t \in Time, t = now
  PROVE  /\ dir'[Current] = None /\ dir'[Log(t)] = dir[Current]
         /\ dir[Current] \in File
         /\ \A u \in Time : u # t => dir'[Log(u)] = dir[Log(u)]
         /\ \A u \in Time : dir'[Gz(u)] = dir[Gz(u)]
         /\ \A u \in Time : GzFiles(u)' = GzFiles(u)
         /\ \A u \in Time : u # t => LogFiles(u)' = LogFiles(u)
         /\ LogFiles(t)' \subseteq LogFiles(t) \cup {dir[Current]}
         /\ PlacesOK'
<1>1. /\ t \in Time /\ handle' = handle
      /\ dir' = [dir EXCEPT ![Log(t)] = dir[Current], ![Current] = None]
      /\ \/ jobs' = jobs
         \/ \E k \in Job : /\ jobs' = jobs \cup {k} /\ k.t = t
                           /\ k.in = None /\ k.out = None
  BY RenameDoes
<1>2. /\ dir'[Current] = None /\ dir'[Log(t)] = dir[Current]
      /\ \A u \in Time : u # t => dir'[Log(u)] = dir[Log(u)]
      /\ \A u \in Time : dir'[Gz(u)] = dir[Gz(u)]
  BY <1>1, Names DEF TypeOK
<1>3. dir[Current] \in File
  BY Names DEF Renamed, Moves, TypeOK
<1>4. \A f \in File, u \in Time :
        /\ (\E j \in jobs' : j.t = u /\ f = j.in) <=> (\E j \in jobs : j.t = u /\ f = j.in)
        /\ (\E j \in jobs' : j.t = u /\ f = j.out) <=> (\E j \in jobs : j.t = u /\ f = j.out)
  BY <1>1, Numbers
<1>5. \A u \in Time : GzFiles(u)' = GzFiles(u)
  BY <1>2, <1>4 DEF GzFiles
<1>6. \A u \in Time : u # t => LogFiles(u)' = LogFiles(u)
  BY <1>2, <1>4 DEF LogFiles
<1>7. LogFiles(t)' \subseteq LogFiles(t) \cup {dir[Current]}
  BY <1>1, <1>2, <1>4 DEF LogFiles
<1> DEFINE c == dir[Current]
<1>8. /\ \A u \in Time : c \notin LogFiles(u) \cup GzFiles(u)
      /\ \A u \in Time : None \notin LogFiles(u)' \cup GzFiles(u)'
  <2>1. \A u \in Time : None \notin LogFiles(u) \cup GzFiles(u)
    BY Numbers DEF LogFiles, GzFiles
  <2>2. \A u \in Time : u = t => None \notin LogFiles(u)'
    BY <1>3, <1>7, <2>1, Numbers
  <2>3. QED
    BY <1>5, <1>6, <2>1, <2>2 DEF PlacesOK
<1> HIDE DEF c
<1>9. PlacesOK'
  <2>1. \A u \in Time : dir'[Current] \notin LogFiles(u)' \cup GzFiles(u)'
    BY <1>2, <1>8
  <2>2. \A u \in Time : LogFiles(u)' \subseteq LogFiles(u) \cup (IF u = t THEN {c} ELSE {})
    BY <1>6, <1>7 DEF c
  <2>3. \A v, u \in Time : (LogFiles(v) \cap GzFiles(u))' = {}
    BY <1>5, <1>8, <2>2 DEF PlacesOK
  <2>4. \A v, u \in Time : v # u => (LogFiles(v) \cap LogFiles(u))' = {}
    BY <1>8, <2>2 DEF PlacesOK
  <2>5. \A v, u \in Time : v # u => (GzFiles(v) \cap GzFiles(u))' = {}
    BY <1>5 DEF PlacesOK
  <2>6. \A r \in Store, u \in Time : handle'[r] \notin GzFiles(u)'
    BY <1>1, <1>5 DEF PlacesOK
  <2>7. QED
    BY <2>1, <2>3, <2>4, <2>5, <2>6 DEF PlacesOK
<1>10. QED
  BY <1>2, <1>3, <1>5, <1>6, <1>7, <1>9

\* The job j goes on as k, with the compressed file f, new or truncated.
OpensGz(j, f, k) ==
  /\ IF dir[Gz(j.t)] = None THEN Free # {} /\ f = Fresh ELSE f = dir[Gz(j.t)]
  /\ file' \in [File -> Inode]
  /\ file'[f].data = {} /\ file'[f].size = 0 /\ file'[f].mtime = now
  /\ \A g \in File : g # f => file'[g] = file[g]
  /\ jobs' = (jobs \ {j}) \cup {k}
  /\ k.t = j.t /\ k.pc = "copy" /\ k.in = dir[Log(j.t)] /\ k.out = f
  /\ dir'[Current] = dir[Current] /\ dir'[Gz(j.t)] = f
  /\ \A t \in Time : dir'[Log(t)] = dir[Log(t)]
  /\ \A t \in Time : t # j.t => dir'[Gz(t)] = dir[Gz(t)]
  /\ \A t \in Time : LogFiles(t)' \subseteq LogFiles(t)
  /\ \A t \in Time : t # j.t => GzFiles(t)' \subseteq GzFiles(t)
  /\ GzFiles(j.t)' \subseteq GzFiles(j.t) \cup {f}
  /\ \A t \in Time : f \notin LogFiles(t) /\ (t # j.t => f \notin GzFiles(t))
  /\ f # dir[Current] /\ \A s \in Store : handle[s] # f

\* What compressFile does first.
LEMMA CompressOpens ==
  ASSUME TypeOK, PlacesOK, NEW j \in jobs, CompressOpen(j), ~ GivesUp(j)
  PROVE  PlacesOK' /\ \E f \in File, k \in Job : OpensGz(j, f, k)
<1>0. PICK f \in File, k \in Job :
        /\ IF dir[Gz(j.t)] = None THEN Free # {} /\ f = Fresh ELSE f = dir[Gz(j.t)]
        /\ dir' = [dir EXCEPT ![Gz(j.t)] = f]
        /\ file' = [file EXCEPT ![f] = Empty(FALSE)]
        /\ Empty(FALSE) \in Inode
        /\ jobs' = (jobs \ {j}) \cup {k}
        /\ k.t = j.t /\ k.pc = "copy" /\ k.in = dir[Log(j.t)] /\ k.out = f
  BY CompressOpenDoes
<1>1. j.t \in Time /\ handle' = handle
  BY JobFiles DEF CompressOpen, store
<1>2. /\ dir'[Current] = dir[Current] /\ dir'[Gz(j.t)] = f
      /\ \A t \in Time : dir'[Log(t)] = dir[Log(t)]
      /\ \A t \in Time : t # j.t => dir'[Gz(t)] = dir[Gz(t)]
  BY <1>1, <1>0, Names DEF TypeOK
<1>3. \A t \in Time : LogFiles(t)' \subseteq LogFiles(t)
  BY <1>1, <1>2, <1>0 DEF LogFiles
<1>4. \A t \in Time : t # j.t => GzFiles(t)' \subseteq GzFiles(t)
  BY <1>1, <1>2, <1>0 DEF GzFiles
<1>5. GzFiles(j.t)' \subseteq GzFiles(j.t) \cup {f}
  BY <1>1, <1>2, <1>0 DEF GzFiles
<1>6. \A t \in Time : f \notin LogFiles(t) /\ (t # j.t => f \notin GzFiles(t))
  <2>1. CASE dir[Gz(j.t)] = None
    BY <1>0, <2>1, FreshHasNoPlace
  <2>2. CASE dir[Gz(j.t)] # None
    BY <1>1, <1>0, <2>2, NameFiles DEF PlacesOK
  <2>3. QED
    BY <2>1, <2>2
<1>7. f # dir[Current] /\ \A s \in Store : handle[s] # f
  <2>1. CASE dir[Gz(j.t)] = None
    BY <1>0, <2>1, FreshIsFree, Names
  <2>2. CASE dir[Gz(j.t)] # None
    BY <1>1, <1>0, <2>2, NameFiles DEF PlacesOK
  <2>3. QED
    BY <2>1, <2>2
<1>8. PlacesOK'
  <2>1. \A t \in Time : dir'[Current] \notin LogFiles(t)' \cup GzFiles(t)'
    BY <1>2, <1>3, <1>4, <1>5, <1>7 DEF PlacesOK
  <2>2. \A t \in Time : GzFiles(t)' \subseteq GzFiles(t) \cup (IF t = j.t THEN {f} ELSE {})
    BY <1>4, <1>5
  <2>3. \A t, u \in Time : (LogFiles(t) \cap GzFiles(u))' = {}
    BY <1>3, <1>6, <2>2 DEF PlacesOK
  <2>4. \A t, u \in Time : t # u => (LogFiles(t) \cap LogFiles(u))' = {}
    BY <1>3 DEF PlacesOK
  <2>5. \A t, u \in Time : t # u => (GzFiles(t) \cap GzFiles(u))' = {}
    BY <1>6, <2>2 DEF PlacesOK
  <2>6. \A r \in Store, t \in Time : handle'[r] \notin GzFiles(t)'
    BY <1>1, <1>7, <2>2 DEF PlacesOK
  <2>7. QED
    BY <2>1, <2>3, <2>4, <2>5, <2>6 DEF PlacesOK
<1>9. /\ file' \in [File -> Inode]
      /\ file'[f].data = {} /\ file'[f].size = 0 /\ file'[f].mtime = now
      /\ \A g \in File : g # f => file'[g] = file[g]
  BY <1>0 DEF Empty, TypeOK
<1>10. QED
  BY <1>0, <1>2, <1>3, <1>4, <1>5, <1>6, <1>7, <1>8, <1>9 DEF OpensGz

\* Names and jobs go, or let go of their files.
LEMMA FewerNames ==
  ASSUME TypeOK,
         \A n \in Name : dir'[n] \in {dir[n], None},
         \A k \in jobs' : \E j \in jobs :
           k.t = j.t /\ k.in \in {j.in, None} /\ k.out \in {j.out, None}
  PROVE  \A t \in Time : LogFiles(t)' \subseteq LogFiles(t) /\ GzFiles(t)' \subseteq GzFiles(t)
<1> SUFFICES ASSUME NEW t \in Time
             PROVE  LogFiles(t)' \subseteq LogFiles(t) /\ GzFiles(t)' \subseteq GzFiles(t)
  OBVIOUS
<1>1. dir'[Log(t)] \in {dir[Log(t)], None} /\ dir'[Gz(t)] \in {dir[Gz(t)], None}
  BY Names
<1>2. QED
  BY <1>1, Numbers DEF LogFiles, GzFiles

\* The steps of compressFile after the first, and those that remove files.
LEMMA RemovedNames ==
  ASSUME TypeOK, JobsOK, SweepsOK,
         \/ \E j \in jobs : CompressCopy(j) \/ CompressRemove(j) \/ CompressFail(j)
         \/ \E s \in Store : CleanupRemove(s)
         \/ Crash
  PROVE  /\ dir'[Current] = dir[Current]
         /\ \A n \in Name : dir'[n] \in {dir[n], None}
         /\ \A t \in Time : LogFiles(t)' \subseteq LogFiles(t)
                            /\ GzFiles(t)' \subseteq GzFiles(t)
<1>1. CASE \E j \in jobs : CompressCopy(j)
  <2>1. PICK j \in jobs : CompressCopy(j)
    BY <1>1
  <2>2. dir' = dir
    BY <2>1, CompressCopyDoes
  <2>3. PICK k \in Job : /\ jobs' = (jobs \ {j}) \cup {k}
                         /\ k.t = j.t /\ k.in = j.in /\ k.out = None
    BY <2>1, CompressCopyDoes
  <2>4. \A i \in jobs' : \E h \in jobs :
          i.t = h.t /\ i.in \in {h.in, None} /\ i.out \in {h.out, None}
    BY <2>3
  <2>5. QED
    BY <2>2, <2>4, FewerNames
<1>2. CASE \E j \in jobs : CompressRemove(j) \/ CompressFail(j)
  <2>1. PICK j \in jobs : CompressRemove(j) \/ CompressFail(j)
    BY <1>2
  <2>2. j.t \in Time /\ Log(j.t) \in Name /\ Gz(j.t) \in Name
        /\ Log(j.t) # Current /\ Gz(j.t) # Current
    BY JobFiles, Names
  <2>3. /\ jobs' = jobs \ {j}
        /\ \/ dir' = dir
           \/ dir' = [dir EXCEPT ![Log(j.t)] = None]
           \/ dir' = [dir EXCEPT ![Gz(j.t)] = None]
    BY <2>1 DEF CompressRemove, CompressFail, End
  <2>4. \A n \in Name : dir'[n] \in {dir[n], None}
    BY <2>2, <2>3 DEF TypeOK
  <2>5. dir'[Current] = dir[Current]
    BY <2>2, <2>3, Names DEF TypeOK
  <2>6. QED
    BY <2>3, <2>4, <2>5, FewerNames
<1>3. CASE \E s \in Store : CleanupRemove(s)
  <2>1. PICK s \in Store : CleanupRemove(s)
    BY <1>3
  <2>2. /\ jobs' = jobs /\ at[s] \in Name /\ at[s] # Current
        /\ dir' = dir \/ dir' = [dir EXCEPT ![at[s]] = None]
    BY <2>1 DEF CleanupRemove, SweepsOK, SweepOK, TypeOK
  <2>3. /\ \A n \in Name : dir'[n] \in {dir[n], None}
        /\ dir'[Current] = dir[Current]
    BY <2>2, Names DEF TypeOK
  <2>4. QED
    BY <2>2, <2>3, FewerNames
<1>4. CASE Crash
  BY <1>4, FewerNames DEF Crash
<1>5. QED
  BY <1>1, <1>2, <1>3, <1>4

\* Every file keeps to its place.
LEMMA PlacesStep ==
  TypeOK /\ StoresOK /\ JobsOK /\ PlacesOK /\ SweepsOK /\ [Next]_vars => PlacesOK'
<1> SUFFICES ASSUME TypeOK, StoresOK, JobsOK, PlacesOK, SweepsOK, [Next]_vars
             PROVE  PlacesOK'
  OBVIOUS
<1>1. ASSUME NEW s \in Store, NewStore(s) \/ NewStoreFails(s) \/ Reopen(s) PROVE PlacesOK'
  BY <1>1, CreatedPlaces
<1>2. ASSUME NEW s \in Store, Write(s) \/ Close(s) PROVE PlacesOK'
  <2>1. /\ UNCHANGED <<dir, jobs>>
        /\ handle' = handle \/ handle' = [handle EXCEPT ![s] = None]
    BY <1>2 DEF Write, Close
  <2>2. \A r \in Store : handle'[r] \in {handle[r], None}
    BY <2>1 DEF TypeOK
  <2>3. QED
    BY <2>1, <2>2, SamePlaces
<1>3. ASSUME NEW s \in Store, Rename(s) PROVE PlacesOK'
  <2>1. CASE Renamed(s)
    <3>1. now \in Time
      BY DEF TypeOK, Time
    <3>2. QED
      BY <1>3, <2>1, <3>1, RenamedPlaces
  <2>2. CASE ~ Renamed(s)
    BY <1>3, <2>2, RenameDoes, SamePlaces
  <2>3. QED
    BY <2>1, <2>2
<1>4. ASSUME NEW j \in jobs, CompressOpen(j) PROVE PlacesOK'
  <2>1. CASE GivesUp(j)
    <3>1. /\ jobs' = jobs \ {j} /\ dir' = dir /\ handle' = handle
      BY <1>4, <2>1 DEF CompressOpen, GivesUp, End, store
    <3>2. \A t \in Time : LogFiles(t)' \subseteq LogFiles(t) /\ GzFiles(t)' \subseteq GzFiles(t)
      BY <3>1, FewerNames
    <3>3. QED
      BY <3>1, <3>2, FewerPlaces
  <2>2. CASE ~ GivesUp(j)
    BY <1>4, <2>2, CompressOpens
  <2>3. QED
    BY <2>1, <2>2
<1>5. ASSUME \/ \E j \in jobs : CompressCopy(j) \/ CompressRemove(j) \/ CompressFail(j)
             \/ \E s \in Store : CleanupRemove(s)
             \/ Crash
      PROVE  PlacesOK'
  <2>1. handle' = handle \/ handle' = [s \in Store |-> None]
    BY <1>5 DEF CompressCopy, CompressRemove, CompressFail, CleanupRemove, Crash, store
  <2>2. \A s \in Store : handle'[s] \in {handle[s], None}
    BY <2>1
  <2>3. QED
    BY <1>5, <2>2, RemovedNames, FewerPlaces
<1>6. CASE \/ \E s \in Store : CleanupList(s) \/ CleanupInfo(s)
           \/ Tick \/ UNCHANGED vars
  BY <1>6, SamePlaces DEF CleanupList, CleanupInfo, Tick, vars, store
<1>7. QED
  BY <1>1, <1>2, <1>3, <1>4, <1>5, <1>6 DEF Next

-----------------------------------------------------------------------------
(* The current file, and why a rotation fails.                             *)

\* A rotation fails only next to another store, twice in a second, or by
\* an error of the system.
LEMMA RenameFails ==
  ASSUME TypeOK, StoresOK, CurrentOK, PlacesOK, NEW s \in Store, Rename(s), ~ Renamed(s)
  PROVE  s \in hurt' \cup broken' /\ broken \subseteq broken'
<1> SUFFICES ASSUME ~ Clash(now), Open = {s}, s \notin broken, ~ Moves PROVE FALSE
  BY RenameDoes
<1>1. /\ pc[s] = "rename" /\ now \in Time /\ handle[s] = None /\ life[s] = "open"
  BY RenameDoes DEF StoresOK
<1>2. dir[Current] # None
  <2>1. ASSUME NEW r \in Store, pc[r] = "reopen" PROVE FALSE
    <3>1. r \in Open
      BY <2>1 DEF StoresOK, Open
    <3>2. QED
      BY <1>1, <2>1, <3>1
  <2>2. QED
    BY <2>1 DEF CurrentOK
<1>3. Movable(Log(now))
  BY DEF Clash, Movable
<1>4. ~ Held(dir[Current])
  <2>1. \A r \in Store : handle[r] # dir[Current]
    <3>1. \A r \in Store : handle[r] # None => r = s
      BY DEF StoresOK, Open
    <3>2. QED
      BY <1>1, <1>2, <3>1
  <2>2. \A j \in jobs : dir[Current] \notin {j.in, j.out}
    BY <1>2, JobFiles DEF PlacesOK
  <2>3. QED
    BY <2>1, <2>2 DEF Held
<1>5. Movable(Current)
  BY <1>4 DEF Movable
<1>6. QED
  BY <1>2, <1>3, <1>5 DEF Moves

\* A step that is no concern of the stores and the current file.
LEMMA CauseKept ==
  ASSUME CauseInv, UNCHANGED <<life, handle, pc, by, split, hurt, failed, broken>>,
         dir'[Current] = dir[Current]
  PROVE  CauseInv'
BY DEF CauseInv, CurrentOK, HandlesOK, FailureHasACause, RefusalHasACause, Open

\* A Write ends: with an error for which there is a cause, or without one.
LEMMA RefusalsKept ==
  ASSUME TypeOK, RefusalHasACause, UNCHANGED life, NEW s \in Store, NEW m \in Msg,
         hurt \subseteq hurt', broken \subseteq broken', failed \subseteq failed',
         \/ by' = by
         \/ /\ by' = [by EXCEPT ![m] = s]
            /\ m \in failed' \/ s \in hurt' \cup broken' \/ life[s] \in {"closed", "dead"}
  PROVE  RefusalHasACause'
<1> SUFFICES ASSUME NEW x \in Msg, by'[x] # None
             PROVE  x \in failed' \/ by'[x] \in hurt' \cup broken'
                    \/ life[by'[x]] \in {"closed", "dead"}
  BY DEF RefusalHasACause
<1>1. CASE by' = by
  BY <1>1 DEF RefusalHasACause
<1>2. CASE /\ by' = [by EXCEPT ![m] = s]
           /\ m \in failed' \/ s \in hurt' \cup broken' \/ life[s] \in {"closed", "dead"}
  <2>1. CASE x = m
    BY <1>2, <2>1 DEF TypeOK
  <2>2. CASE x # m
    BY <1>2, <2>2 DEF TypeOK, RefusalHasACause
  <2>3. QED
    BY <2>1, <2>2
<1>3. QED
  BY <1>1, <1>2

\* There is a file to write to, or a reason for there being none.
LEMMA CauseStep ==
  TypeOK /\ StoresOK /\ JobsOK /\ PlacesOK /\ SweepsOK /\ CauseInv /\ [Next]_vars
    => CauseInv'
<1> SUFFICES ASSUME TypeOK, StoresOK, JobsOK, PlacesOK, SweepsOK, CauseInv, [Next]_vars
             PROVE  CauseInv'
  OBVIOUS
<1> USE DEF CauseInv
<1>1. ASSUME NEW s \in Store, NewStore(s) \/ NewStoreFails(s) PROVE CauseInv'
  <2>1. /\ life[s] = "none" /\ UNCHANGED <<pc, by, split, hurt, failed, broken>>
        /\ \/ /\ life' = [life EXCEPT ![s] = "open"]
              /\ handle' = [handle EXCEPT ![s] = CurrentFile]
              /\ dir' = [dir EXCEPT ![Current] = CurrentFile]
           \/ life' = [life EXCEPT ![s] = "dead"] /\ UNCHANGED handle
    BY <1>1, NewStoreDoes DEF history
  <2>2. /\ CurrentFile # None
        /\ dir[Current] # None => CurrentFile = dir[Current]
        /\ dir[Current] # None => dir'[Current] = dir[Current]
    BY <1>1, CreatesOrOpens, CurrentIsAFile
  <2>3. \A r \in Store : handle[r] # None => handle[r] = dir[Current] \/ r \in split
    BY DEF HandlesOK
  <2>4. RefusalHasACause'
    <3>1. \A m \in Msg : by[m] # None => by[m] \in Store
      BY DEF TypeOK
    <3>2. QED
      BY <2>1, <3>1 DEF RefusalHasACause, TypeOK
  <2>5. CASE /\ life' = [life EXCEPT ![s] = "open"]
             /\ handle' = [handle EXCEPT ![s] = CurrentFile]
             /\ dir' = [dir EXCEPT ![Current] = CurrentFile]
    <3>1. dir'[Current] = CurrentFile
      BY <2>5, OtherNames
    <3>2. CurrentOK'
      BY <2>2, <3>1 DEF CurrentOK
    <3>3. HandlesOK'
      BY <2>1, <2>2, <2>5, <3>1 DEF HandlesOK, TypeOK
    <3>4. FailureHasACause'
      BY <2>1, <2>2, <2>5 DEF FailureHasACause, TypeOK
    <3>5. QED
      BY <2>4, <3>2, <3>3, <3>4
  <2>6. CASE life' = [life EXCEPT ![s] = "dead"] /\ UNCHANGED handle
    <3>1. Open' = Open
      BY <2>1, <2>6 DEF Open, TypeOK
    <3>2. CurrentOK'
      BY <2>1, <2>2, <3>1 DEF CurrentOK
    <3>3. HandlesOK'
      <4>1. ASSUME NEW r \in Store, handle[r] # None PROVE dir'[Current] = dir[Current] \/ r \in split
        BY <2>2, <2>3, <4>1
      <4>2. QED
        BY <2>1, <2>3, <2>6, <4>1 DEF HandlesOK
    <3>4. FailureHasACause'
      BY <2>1, <2>6 DEF FailureHasACause, TypeOK
    <3>5. QED
      BY <2>4, <3>2, <3>3, <3>4
  <2>7. QED
    BY <2>1, <2>5, <2>6
<1>2. ASSUME NEW s \in Store, Write(s) PROVE CauseInv'
  <2> DEFINE m == next + 1
  <2>1. /\ m \in Msg /\ pc[s] = "idle" /\ life[s] \in {"open", "closed"}
        /\ \A r \in Open : s <= r
        /\ UNCHANGED <<dir, life, split, hurt>>
    BY <1>2 DEF Write
  <2> HIDE DEF m
  <2>2. CASE /\ UNCHANGED <<handle, pc, broken>>
             /\ \/ by' = by /\ failed' = failed
                \/ by' = [by EXCEPT ![m] = s] /\ failed' = failed \cup {m}
    <3>1. RefusalHasACause'
      BY <2>1, <2>2, RefusalsKept
    <3>2. QED
      BY <2>1, <2>2, <3>1 DEF CurrentOK, HandlesOK, FailureHasACause, Open
  <2>3. CASE /\ handle[s] = None /\ by' = [by EXCEPT ![m] = s]
             /\ UNCHANGED <<handle, pc, failed, broken>>
    <3>1. s \in hurt \cup broken \/ life[s] = "closed"
      BY <2>1, <2>3 DEF FailureHasACause
    <3>2. RefusalHasACause'
      BY <2>1, <2>3, <3>1, RefusalsKept
    <3>3. QED
      BY <2>1, <2>3, <3>2 DEF CurrentOK, HandlesOK, FailureHasACause, Open
  <2>4. CASE /\ handle[s] # None /\ handle' = [handle EXCEPT ![s] = None]
             /\ UNCHANGED failed
             /\ \/ /\ pc' = [pc EXCEPT ![s] = "rename"] /\ UNCHANGED <<by, broken>>
                \/ /\ by' = [by EXCEPT ![m] = s] /\ broken' = broken \cup {s} /\ UNCHANGED pc
    <3>1. life[s] = "open"
      BY <2>4 DEF StoresOK
    <3>2. \A q \in Store : pc[q] = "idle"
      BY <2>1, <3>1, OneWriter
    <3>3. Open # {} /\ Open' = Open /\ broken \subseteq broken'
      BY <2>1, <2>4, <3>1 DEF Open
    <3>4. dir[Current] = None => Open \subseteq broken
      BY <3>2, <3>3 DEF CurrentOK
    <3>6. CurrentOK'
      BY <2>1, <3>3, <3>4 DEF CurrentOK
    <3>7. HandlesOK' /\ FailureHasACause'
      BY <2>1, <2>4, <3>3 DEF HandlesOK, FailureHasACause, TypeOK
    <3>8. RefusalHasACause'
      BY <2>1, <2>4, <3>3, RefusalsKept
    <3>9. QED
      BY <3>6, <3>7, <3>8
  <2>5. QED
    BY <1>2, <2>2, <2>3, <2>4 DEF Write, Refuse, WriteLine, m
<1>3. ASSUME NEW s \in Store, Rename(s) PROVE CauseInv'
  <2>1. /\ UNCHANGED <<life, handle, failed>> /\ pc[s] = "rename" /\ hurt \subseteq hurt'
        /\ life[s] = "open" /\ handle[s] = None /\ now \in Time /\ msg[s] \in Msg
    BY <1>3, RenameDoes DEF StoresOK
  <2>2. CASE Renamed(s)
    <3>1. /\ dir'[Current] = None /\ UNCHANGED <<by, broken>>
          /\ split' = split \cup {r \in Open : handle[r] = dir[Current]}
          /\ pc' = [pc EXCEPT ![s] = "reopen"]
      BY <1>3, <2>1, <2>2, RenameDoes, RenamedPlaces
    <3>2. pc'[s] = "reopen"
      BY <3>1 DEF TypeOK
    <3>3. CurrentOK'
      BY <3>2 DEF CurrentOK
    <3>4. HandlesOK'
      BY <2>1, <3>1 DEF HandlesOK, StoresOK, Open
    <3>5. FailureHasACause'
      BY <2>1, <3>1 DEF FailureHasACause, TypeOK
    <3>6. RefusalHasACause'
      BY <2>1, <3>1, RefusalsKept
    <3>7. QED
      BY <3>3, <3>4, <3>5, <3>6
  <2>3. CASE ~ Renamed(s)
    <3>1. /\ by' = [by EXCEPT ![msg[s]] = s] /\ pc' = [pc EXCEPT ![s] = "idle"]
          /\ UNCHANGED <<dir, split>>
      BY <1>3, <2>3, RenameDoes
    <3>2. s \in hurt' \cup broken' /\ broken \subseteq broken'
      BY <1>3, <2>3, RenameFails
    <3>3. CurrentOK' /\ HandlesOK'
      BY <2>1, <3>1, <3>2 DEF CurrentOK, HandlesOK, Open, TypeOK
    <3>4. FailureHasACause'
      BY <2>1, <3>1, <3>2 DEF FailureHasACause, TypeOK
    <3>5. RefusalHasACause'
      BY <2>1, <3>1, <3>2, RefusalsKept
    <3>6. QED
      BY <3>3, <3>4, <3>5
  <2>4. QED
    BY <2>2, <2>3
<1>4. ASSUME NEW s \in Store, Reopen(s) PROVE CauseInv'
  <2>1. /\ pc[s] = "reopen" /\ msg[s] \in Msg /\ UNCHANGED <<life, hurt>>
        /\ pc' = [pc EXCEPT ![s] = "idle"] /\ life[s] = "open" /\ s \in Open
        /\ Open' = Open
    BY <1>4, ReopenCases DEF StoresOK, Open
  <2>2. /\ CurrentFile # None
        /\ dir[Current] # None => CurrentFile = dir[Current] /\ dir'[Current] = dir[Current]
    BY <1>4, CreatesOrOpens, CurrentIsAFile
  <2>3. \A q \in Store : pc[q] # "idle" => q = s
    BY <2>1, OneWriter DEF StoresOK
  <2>4. \A q \in Store : pc'[q] = "idle"
    BY <2>1, <2>3 DEF TypeOK
  <2>5. CASE /\ dir' = [dir EXCEPT ![Current] = CurrentFile]
             /\ handle' = [handle EXCEPT ![s] = CurrentFile]
             /\ WriteLine(s, msg[s], CurrentFile, WithCurrent, WithCurrent[CurrentFile].size)
             /\ split' = split \ {s} /\ UNCHANGED broken
    <3>1. dir'[Current] = CurrentFile
      BY <2>5, OtherNames
    <3>2. \/ by' = by /\ failed' = failed
          \/ by' = [by EXCEPT ![msg[s]] = s] /\ failed' = failed \cup {msg[s]}
      BY <2>5 DEF WriteLine
    <3>3. CurrentOK'
      BY <2>2, <3>1 DEF CurrentOK
    <3>4. HandlesOK'
      BY <2>2, <2>5, <3>1 DEF HandlesOK, TypeOK
    <3>5. FailureHasACause'
      BY <2>1, <2>2, <2>4, <2>5, <2>3 DEF FailureHasACause, TypeOK
    <3>6. RefusalHasACause'
      BY <2>1, <2>5, <3>2, RefusalsKept
    <3>7. QED
      BY <3>3, <3>4, <3>5, <3>6
  <2>6. CASE /\ broken' = broken \cup Open /\ by' = [by EXCEPT ![msg[s]] = s]
             /\ UNCHANGED <<failed, handle, split>>
    <3>1. CurrentOK'
      BY <2>1, <2>6 DEF CurrentOK
    <3>2. HandlesOK'
      <4>1. \A r \in Store : handle[r] # None => handle[r] = dir'[Current] \/ r \in split
        BY <2>2 DEF HandlesOK
      <4>2. QED
        BY <2>6, <4>1 DEF HandlesOK
    <3>3. FailureHasACause'
      BY <2>1, <2>6 DEF FailureHasACause, Open
    <3>4. RefusalHasACause'
      BY <2>1, <2>6, RefusalsKept
    <3>5. QED
      BY <3>1, <3>2, <3>3, <3>4
  <2>7. QED
    BY <1>4, <2>5, <2>6, ReopenCases
<1>5. ASSUME NEW s \in Store, Close(s) PROVE CauseInv'
  <2>1. /\ life[s] = "open" /\ pc[s] = "idle" /\ \A r \in Open : s <= r
        /\ life' = [life EXCEPT ![s] = "closed"]
        /\ handle' = [handle EXCEPT ![s] = None]
        /\ UNCHANGED <<dir, pc, by, split, hurt, failed, broken>>
    BY <1>5 DEF Close, history
  <2>2. \A q \in Store : pc[q] = "idle"
    BY <2>1, OneWriter
  <2>3. s \in Open /\ Open' \subseteq Open
    BY <2>1 DEF Open, TypeOK
  <2>4. CurrentOK'
    BY <2>1, <2>2, <2>3 DEF CurrentOK
  <2>5. HandlesOK' /\ FailureHasACause'
    BY <2>1 DEF HandlesOK, FailureHasACause, TypeOK
  <2>6. RefusalHasACause'
    BY <2>1 DEF RefusalHasACause, TypeOK
  <2>7. QED
    BY <2>4, <2>5, <2>6
<1>6. CASE Crash
  <2>1. /\ life' = [s \in Store |-> IF life[s] = "none" THEN "none" ELSE "dead"]
        /\ handle' = [s \in Store |-> None] /\ pc' = [s \in Store |-> "idle"]
        /\ UNCHANGED <<by, hurt, failed, broken>>
    BY <1>6 DEF Crash
  <2>2. \A s \in Store : /\ handle'[s] = None /\ pc'[s] = "idle" /\ life'[s] # "open"
                         /\ life[s] \in {"closed", "dead"} => life'[s] = "dead"
    BY <2>1
  <2>3. CurrentOK' /\ HandlesOK' /\ FailureHasACause'
    BY <2>2 DEF CurrentOK, HandlesOK, FailureHasACause, Open
  <2>4. RefusalHasACause'
    BY <2>1, <2>2 DEF RefusalHasACause, TypeOK
  <2>5. QED
    BY <2>3, <2>4
<1>7. ASSUME NEW j \in jobs, CompressOpen(j) PROVE CauseInv'
  <2>1. UNCHANGED <<life, handle, pc, by, split, hurt, failed, broken>>
    BY <1>7 DEF CompressOpen, store, history
  <2>2. dir'[Current] = dir[Current]
    <3>1. CASE GivesUp(j)
      BY <3>1 DEF GivesUp
    <3>2. CASE ~ GivesUp(j)
      <4>1. PICK f \in File : dir' = [dir EXCEPT ![Gz(j.t)] = f]
        BY <1>7, <3>2, CompressOpenDoes
      <4>2. QED
        BY <4>1, JobFiles, Names DEF TypeOK
    <3>3. QED
      BY <3>1, <3>2
  <2>3. QED
    BY <2>1, <2>2, CauseKept
<1>8. ASSUME NEW j \in jobs, CompressCopy(j) \/ CompressRemove(j) \/ CompressFail(j)
      PROVE  CauseInv'
  <2>1. UNCHANGED <<life, handle, pc, by, split, hurt, failed, broken>>
    BY <1>8 DEF CompressCopy, CompressRemove, CompressFail, store, history
  <2>2. QED
    BY <1>8, <2>1, RemovedNames, CauseKept
<1>9. ASSUME NEW s \in Store, CleanupRemove(s) PROVE CauseInv'
  <2>1. UNCHANGED <<life, handle, pc, by, split, hurt, failed, broken>>
    BY <1>9 DEF CleanupRemove, store
  <2>2. QED
    BY <1>9, <2>1, RemovedNames, CauseKept
<1>10. CASE \/ \E s \in Store : CleanupList(s) \/ CleanupInfo(s)
            \/ Tick \/ UNCHANGED vars
  BY <1>10, CauseKept DEF CleanupList, CleanupInfo, Tick, vars, store, history
<1>11. QED
  BY <1>1, <1>2, <1>3, <1>4, <1>5, <1>6, <1>7, <1>8, <1>9, <1>10 DEF Next

-----------------------------------------------------------------------------
(* The messages of a file: when they came, and what they are there for.    *)

\* The message m, or its first part, is appended to f, which is in use or
\* has just been created.
Adds(s, m, f) ==
  /\ f \in File /\ m \in Msg /\ file' \in [File -> Inode]
  /\ \A g \in File : g # f => file'[g] = file[g]
  /\ \/ /\ file'[f].data = file[f].data \cup {m}
        /\ file'[f].whole = file[f].whole
     \/ /\ dir[Current] = None /\ f \in Free
        /\ file'[f].data = {m} /\ file'[f].whole
  /\ file'[f].mtime = now
  /\ \A g \in File : m \notin file[g].data
  /\ written'[m] \in {now, written[m]} /\ \A k \in Msg : k # m => written'[k] = written[k]
  /\ mixed \subseteq mixed'
  /\ s \in split \/ (\E r \in Open \ {s} : handle[r] = f) => file'[f].data \subseteq mixed'
  /\ \A r \in Store : r # s => size'[r] = size[r]

\* What is appended to the file of the store fits.
Fits(s) == \E k \in Nat : /\ size[s] + k <= MaxSize
                          /\ size'[s] = size[s] + k
                          /\ file'[handle[s]].size = file[handle[s]].size + k

\* What Write does: it adds nothing, begins a rotation, or appends.
LEMMA WriteDoes ==
  ASSUME TypeOK, DataOK, NEW s \in Store, Write(s)
  PROVE  /\ UNCHANGED <<posix, now, dir, life, jobs, sweep, expired, clashed, split, hurt>>
         /\ next' = next + 1 /\ next \in Nat /\ next + 1 \in Msg /\ pc[s] = "idle"
         /\ \A f \in File : next + 1 \notin file[f].data
         /\ \A r \in Store : handle'[r] \in {handle[r], None}
         /\ \/ UNCHANGED <<file, size, written, mixed, pc, msg>>
            \/ /\ pc' = [pc EXCEPT ![s] = "rename"] /\ msg' = [msg EXCEPT ![s] = next + 1]
               /\ UNCHANGED <<file, size, written, mixed>>
            \/ /\ UNCHANGED <<handle, pc, msg>>
               /\ Adds(s, next + 1, handle[s]) /\ Fits(s)
               /\ handle[s] # None
               /\ file'[handle[s]].data = file[handle[s]].data \cup {next + 1}
               /\ file'[handle[s]].whole = file[handle[s]].whole
<1> DEFINE m == next + 1
           f == handle[s]
<1>1. /\ UNCHANGED <<posix, now, dir, life, jobs, sweep, expired, clashed, split, hurt>>
      /\ next' = m /\ next \in Nat /\ m \in Msg /\ pc[s] = "idle"
      /\ f \in File \cup {None}
  BY DEF Write, TypeOK
<1>2. \A g \in File : m \notin file[g].data
  <2>1. \A g \in File : \A k \in file[g].data : k \in Nat /\ k <= next
    BY Numbers DEF DataOK, TypeOK, Inode
  <2>2. QED
    BY <1>1, <2>1
<1>3. \A r \in Store : handle'[r] \in {handle[r], None}
  BY DEF Write, TypeOK
<1>4. CASE f = None
  BY <1>1, <1>2, <1>3, <1>4 DEF Write, Refuse
<1>5. CASE f # None /\ size[s] + Size[m] > MaxSize
  <2>1. ~ (size[s] + Size[m] <= MaxSize)
    BY <1>1, <1>5, Numbers DEF TypeOK
  <2>2. QED
    BY <1>1, <1>2, <1>3, <1>5, <2>1 DEF Write, Refuse
<1>6. CASE f # None /\ size[s] + Size[m] <= MaxSize
  <2>1. ~ (size[s] + Size[m] > MaxSize)
    BY <1>1, <1>6, Numbers DEF TypeOK
  <2>2. WriteLine(s, m, f, file, size[s]) /\ UNCHANGED <<handle, pc, msg>>
    BY <1>6, <2>1 DEF Write
  <2>3. f \in File /\ file \in [File -> Inode] /\ size[s] \in Nat /\ Size[m] \in Nat
    BY <1>1, <1>6, Numbers DEF TypeOK
  <2> HIDE DEF m
  <2>4. CASE file' = file /\ size' = [size EXCEPT ![s] = size[s]] /\ UNCHANGED <<mixed, written>>
    <3>1. size' = size
      BY <2>4 DEF TypeOK
    <3>2. QED
      BY <1>1, <1>2, <1>3, <2>2, <2>4, <3>1 DEF m
  <2>5. ASSUME NEW k \in Nat, k <= Size[m], AppendUnits(s, m, f, file, size[s], k)
        PROVE  /\ Adds(s, m, f) /\ Fits(s)
               /\ file'[f].data = file[f].data \cup {m}
               /\ file'[f].whole = file[f].whole
    <3>1. /\ file' \in [File -> Inode]
          /\ \A g \in File : g # f => file'[g] = file[g]
          /\ file'[f].data = file[f].data \cup {m}
          /\ file'[f].size = file[f].size + k
          /\ file'[f].mtime = now /\ file'[f].whole = file[f].whole
          /\ size'[s] = size[s] + k
          /\ \A r \in Store : r # s => size'[r] = size[r]
          /\ mixed \subseteq mixed'
          /\ s \in split \/ (\E r \in Open \ {s} : handle[r] = f) => file'[f].data \subseteq mixed'
      BY <1>1, <2>3, <2>5, Appended
    <3>2. written'[m] \in {now, written[m]} /\ \A i \in Msg : i # m => written'[i] = written[i]
      BY <1>1, <2>2, LineDoes
    <3>3. size[s] + k <= MaxSize
      <4>1. PICK a \in Nat, b \in Nat : a = size[s] /\ b = Size[m]
        BY <2>3
      <4>2. a + b <= MaxSize /\ k <= b /\ MaxSize \in Nat
        BY <1>6, <2>5, <4>1, Numbers DEF m
      <4>3. a + k <= MaxSize
        BY <4>2
      <4>4. QED
        BY <4>1, <4>3
    <3>4. Fits(s)
      BY <3>1, <3>3 DEF Fits
    <3> HIDE DEF f
    <3>5. Adds(s, m, f)
      BY <1>1, <1>2, <2>3, <3>1, <3>2 DEF Adds
    <3>6. QED
      BY <3>1, <3>4, <3>5
  <2>6. QED
    BY <1>1, <1>2, <1>3, <1>6, <2>2, <2>4, <2>5, LineDoes DEF m
<1>7. QED
  BY <1>1, <1>4, <1>5, <1>6 DEF Write

\* What the end of a rotation does: it opens the current file, or fails to,
\* and may append the line.
LEMMA ReopenDoes ==
  ASSUME TypeOK, StoresOK, DataOK, NEW s \in Store, Reopen(s)
  PROVE  /\ UNCHANGED <<posix, now, life, jobs, sweep, next, expired, clashed, hurt>>
         /\ pc[s] = "reopen" /\ msg[s] \in Msg /\ msg[s] <= next
         /\ pc' = [pc EXCEPT ![s] = "idle"] /\ msg' = [msg EXCEPT ![s] = 0]
         /\ \A r \in Store : pc'[r] = "idle"
         /\ \/ Finds(s) /\ UNCHANGED <<mixed, written>>
            \/ /\ CanOpen
               /\ dir' = [dir EXCEPT ![Current] = CurrentFile]
               /\ handle' = [handle EXCEPT ![s] = CurrentFile]
               /\ Adds(s, msg[s], CurrentFile)
               /\ size'[s] = file'[CurrentFile].size
               /\ dir[Current] # None => file'[CurrentFile].whole = file[CurrentFile].whole
               /\ dir[Current] = None => /\ file'[CurrentFile].data = {msg[s]}
                                        /\ file'[CurrentFile].whole
<1> DEFINE m == msg[s]
           f == CurrentFile
           sz == WithCurrent[CurrentFile].size
<1>1. /\ UNCHANGED <<posix, now, life, jobs, sweep, next, expired, clashed, hurt>>
      /\ pc[s] = "reopen" /\ m \in Msg /\ m <= next /\ CanOpen
      /\ pc' = [pc EXCEPT ![s] = "idle"] /\ msg' = [msg EXCEPT ![s] = 0]
  BY ReopenCases
<1>2. \A r \in Store : pc'[r] = "idle"
  <2>1. \A r \in Store : pc[r] # "idle" => r = s
    BY <1>1, OneWriter DEF StoresOK
  <2>2. QED
    BY <1>1, <2>1 DEF TypeOK
<1>3. /\ f \in File /\ WithCurrent \in [File -> Inode]
      /\ \A g \in File : dir[Current] # None \/ g # f => WithCurrent[g] = file[g]
      /\ dir[Current] = None => /\ f \in Free
                                /\ WithCurrent[f].data = {} /\ WithCurrent[f].whole
  BY <1>1, CurrentIsAFile DEF Fresh
<1>4. sz \in Nat
  BY <1>3 DEF Inode
<1>5. \A g \in File : m \notin file[g].data
  BY <1>1 DEF DataOK
<1>6. sz = WithCurrent[f].size
  OBVIOUS
<1>7. CASE Creates /\ UNCHANGED <<size, written, mixed, handle>>
  BY <1>1, <1>2, <1>7 DEF Finds
<1>8. CASE /\ dir' = [dir EXCEPT ![Current] = f] /\ handle' = [handle EXCEPT ![s] = f]
           /\ WriteLine(s, m, f, WithCurrent, sz)
  <2>1. CASE file' = WithCurrent /\ size' = [size EXCEPT ![s] = sz] /\ UNCHANGED <<mixed, written>>
    <3>1. Finds(s)
      BY <1>1, <1>8, <2>1 DEF Finds, Creates
    <3>2. QED
      BY <1>1, <1>2, <2>1, <3>1
  <2>2. written'[m] \in {now, written[m]} /\ \A i \in Msg : i # m => written'[i] = written[i]
    BY <1>1, <1>8, LineDoes
  <2>3. \/ \E k \in Nat : k <= Size[m] /\ AppendUnits(s, m, f, WithCurrent, sz, k)
        \/ file' = WithCurrent /\ size' = [size EXCEPT ![s] = sz] /\ UNCHANGED <<mixed, written>>
    BY <1>1, <1>8, LineDoes
  <2> HIDE DEF m, f, sz
  <2>4. ASSUME NEW k \in Nat, AppendUnits(s, m, f, WithCurrent, sz, k)
        PROVE  /\ Adds(s, m, f) /\ size'[s] = file'[f].size
               /\ dir[Current] # None => file'[f].whole = file[f].whole
               /\ dir[Current] = None => file'[f].data = {m} /\ file'[f].whole
    <3>1. /\ file' \in [File -> Inode]
          /\ \A g \in File : g # f => file'[g] = WithCurrent[g]
          /\ file'[f].data = WithCurrent[f].data \cup {m}
          /\ file'[f].size = WithCurrent[f].size + k
          /\ file'[f].mtime = now /\ file'[f].whole = WithCurrent[f].whole
          /\ size'[s] = sz + k
          /\ \A r \in Store : r # s => size'[r] = size[r]
          /\ mixed \subseteq mixed'
          /\ s \in split \/ (\E r \in Open \ {s} : handle[r] = f) => file'[f].data \subseteq mixed'
      BY <1>1, <1>3, <1>4, <2>4, Appended
    <3>2. size'[s] = file'[f].size
      BY <1>6, <3>1
    <3>3. CASE dir[Current] # None
      BY <1>1, <1>3, <1>5, <2>2, <3>1, <3>2, <3>3 DEF Adds
    <3>4. CASE dir[Current] = None
      <4>1. file'[f].data = {m} /\ file'[f].whole
        BY <1>3, <3>1, <3>4
      <4>2. QED
        BY <1>1, <1>3, <1>5, <2>2, <3>1, <3>2, <3>4, <4>1 DEF Adds
    <3>5. QED
      BY <3>3, <3>4
  <2>5. QED
    BY <1>1, <1>2, <1>8, <2>1, <2>3, <2>4 DEF m, f
<1>9. QED
  BY <1>7, <1>8, ReopenCases

\* What NewStore and Reopen have in common when no line is appended.
LEMMA FindsFiles ==
  ASSUME TypeOK, NEW s \in Store, Finds(s)
  PROVE  /\ file' \in [File -> Inode]
         /\ \A f \in File : \/ file'[f] = file[f]
                            \/ /\ dir[Current] = None /\ Free # {} /\ f = Fresh
                               /\ file'[f].data = {} /\ file'[f].size = 0
                               /\ file'[f].mtime = now /\ file'[f].whole
         /\ \A t \in Time : dir'[Log(t)] = dir[Log(t)] /\ dir'[Gz(t)] = dir[Gz(t)]
         /\ dir[Current] # None => dir'[Current] = dir[Current]
         /\ dir'[Current] # dir[Current] =>
              /\ dir'[Current] = Fresh /\ Free # {}
              /\ file'[Fresh].data = {} /\ file'[Fresh].size = 0 /\ file'[Fresh].whole
         /\ \A r \in Store : handle'[r] \in {handle[r], dir'[Current]}
         /\ \A r \in Store : \/ handle'[r] = handle[r] /\ size'[r] = size[r]
                            \/ /\ handle'[r] = dir'[Current]
                               /\ size'[r] = file'[dir'[Current]].size
<1>1. Creates
  BY DEF Finds
<1>2. dir'[Current] # dir[Current] =>
              /\ dir'[Current] = Fresh /\ Free # {}
              /\ file'[Fresh].data = {} /\ file'[Fresh].size = 0 /\ file'[Fresh].whole
  <2>1. SUFFICES ASSUME dir'[Current] # dir[Current]
                 PROVE  /\ dir'[Current] = Fresh /\ Free # {}
                        /\ file'[Fresh].data = {} /\ file'[Fresh].size = 0
                        /\ file'[Fresh].whole
    OBVIOUS
  <2>2. dir' = [dir EXCEPT ![Current] = CurrentFile] /\ file' = WithCurrent /\ CanOpen
    BY <1>1, <2>1 DEF Creates
  <2>3. dir'[Current] = CurrentFile
    BY <2>2, OtherNames
  <2>4. QED
    BY <2>1, <2>2, <2>3, CurrentIsAFile
<1>3. QED
  BY <1>1, <1>2, CreatesDoes, FindsDoes

\* A step within a second: what it changes in a file it dates now.
LEMMA TimesAdvance ==
  ASSUME TypeOK, TimesOK, now' = now,
         \A m \in Msg : written'[m] \in {now, written[m]},
         \A f \in File : file'[f].data \subseteq Msg,
         \A f \in File : \/ file'[f].mtime = now
                         \/ /\ file'[f].mtime = file[f].mtime
                            /\ file'[f].data \subseteq file[f].data
                            /\ \A m \in file'[f].data : written'[m] = written[m],
         \A t \in Time : \/ dir'[Gz(t)] \in {dir[Gz(t)], None}
                         \/ /\ t <= now /\ dir'[Gz(t)] \in File
                            /\ file'[dir'[Gz(t)]].mtime = now,
         \A t \in Time : LogFiles(t)' # {} => LogFiles(t) # {} \/ t <= now,
         \A k \in jobs' : k.t <= now \/ \E j \in jobs : k.t = j.t
  PROVE  TimesOK'
<1>1. now \in Nat /\ Time \subseteq Nat /\ \A f \in File : file[f].mtime \in Nat
  BY Numbers DEF TypeOK, Inode
<1>2. \A f \in File : file'[f].mtime <= now
  BY <1>1 DEF TimesOK
<1>3. \A t \in Time : LogFiles(t)' # {} => t <= now
  BY DEF TimesOK
<1>4. \A k \in jobs' : k.t <= now
  BY DEF TimesOK
<1>5. ASSUME NEW t \in Time, dir'[Gz(t)] # None PROVE file'[dir'[Gz(t)]].mtime >= t
  <2>1. CASE dir'[Gz(t)] = dir[Gz(t)]
    <3>1. PICK f \in File : f = dir[Gz(t)]
      BY <1>5, <2>1, Names DEF TypeOK
    <3>2. file[f].mtime >= t /\ file[f].mtime <= now /\ t \in Nat
      BY <1>1, <1>5, <2>1, <3>1 DEF TimesOK
    <3>3. file'[f].mtime \in {now, file[f].mtime}
      OBVIOUS
    <3>4. file'[f].mtime >= t
      BY <1>1, <3>2, <3>3
    <3>5. QED
      BY <2>1, <3>1, <3>4
  <2>2. CASE t <= now /\ file'[dir'[Gz(t)]].mtime = now
    BY <1>1, <2>2
  <2>3. QED
    BY <1>5, <2>1, <2>2
<1>6. \A m \in Msg : WrittenBy(m, now)'
  BY <1>1 DEF TimesOK, WrittenBy
<1>7. ASSUME NEW f \in File, NEW m \in file'[f].data PROVE WrittenBy(m, file[f].mtime)'
  <2>1. CASE file'[f].mtime = now
    BY <1>6, <2>1 DEF WrittenBy
  <2>2. CASE /\ file'[f].mtime = file[f].mtime
             /\ file'[f].data \subseteq file[f].data
             /\ \A k \in file'[f].data : written'[k] = written[k]
    BY <2>2 DEF TimesOK, WrittenBy
  <2>3. QED
    BY <2>1, <2>2
<1>8. QED
  BY <1>2, <1>3, <1>4, <1>5, <1>6, <1>7 DEF TimesOK

\* No file changes, and no name appears.
LEMMA TimesKept ==
  ASSUME TypeOK, TimesOK, UNCHANGED <<now, written, file>>,
         \A t \in Time : dir'[Gz(t)] \in {dir[Gz(t)], None},
         \A t \in Time : LogFiles(t)' \subseteq LogFiles(t),
         \A k \in jobs' : \E j \in jobs : k.t = j.t
  PROVE  TimesOK'
<1>1. \A f \in File : file[f].data \subseteq Msg
  BY DEF TypeOK, Inode
<1>2. QED
  BY <1>1, TimesAdvance

\* An append is made now.
LEMMA TimesAdd ==
  ASSUME TypeOK, TimesOK, NEW s, NEW m, NEW f, Adds(s, m, f), now' = now, jobs' = jobs,
         \A t \in Time : /\ dir'[Log(t)] = dir[Log(t)] /\ dir'[Gz(t)] = dir[Gz(t)]
  PROVE  TimesOK'
<1>1. \A g \in File : file'[g].data \subseteq Msg /\ file[g].data \subseteq Msg
  BY DEF TypeOK, Inode, Adds
<1>2. \A g \in File : \/ file'[g].mtime = now
                      \/ /\ file'[g].mtime = file[g].mtime
                         /\ file'[g].data \subseteq file[g].data
                         /\ \A k \in file'[g].data : written'[k] = written[k]
  BY <1>1 DEF Adds
<1>3. \A k \in Msg : written'[k] \in {now, written[k]}
  BY DEF Adds
<1>4. \A t \in Time : LogFiles(t)' = LogFiles(t)
  BY DEF LogFiles
<1>5. QED
  BY <1>1, <1>2, <1>3, <1>4, TimesAdvance

\* The files and names are of the past.
LEMMA TimesStep ==
  TypeOK /\ StoresOK /\ JobsOK /\ PlacesOK /\ DataOK /\ SweepsOK /\ TimesOK /\ [Next]_vars
  => TimesOK'
<1> SUFFICES ASSUME TypeOK, StoresOK, JobsOK, PlacesOK, DataOK, SweepsOK, TimesOK,
                    [Next]_vars
             PROVE  TimesOK'
  OBVIOUS
<1>1. now \in Nat /\ now \in Time /\ Time \subseteq Nat
  BY Numbers DEF TypeOK, Time
<1>2. ASSUME NEW s \in Store, Finds(s), UNCHANGED <<now, jobs, written>> PROVE TimesOK'
  <2>1. \A f \in File : file'[f] = file[f] \/ (file'[f].data = {} /\ file'[f].mtime = now)
    BY <1>2, FindsFiles
  <2>2. \A t \in Time : dir'[Log(t)] = dir[Log(t)] /\ dir'[Gz(t)] = dir[Gz(t)]
    BY <1>2, FindsFiles
  <2>3. \A t \in Time : LogFiles(t)' = LogFiles(t)
    BY <1>2, <2>2 DEF LogFiles
  <2>4. \A f \in File : file'[f].data \subseteq Msg
    BY <2>1 DEF TypeOK, Inode
  <2>5. QED
    BY <1>2, <2>1, <2>2, <2>3, <2>4, TimesAdvance
<1>3. ASSUME NEW s \in Store, NewStore(s) \/ NewStoreFails(s) PROVE TimesOK'
  BY <1>2, <1>3, NewStoreDoes DEF history
<1>4. ASSUME NEW s \in Store, Write(s) PROVE TimesOK'
  <2>1. UNCHANGED <<dir, jobs, now>>
    BY <1>4, WriteDoes
  <2>2. CASE UNCHANGED <<file, written>>
    BY <2>1, <2>2, TimesKept DEF LogFiles
  <2>3. CASE Adds(s, next + 1, handle[s])
    BY <2>1, <2>3, TimesAdd
  <2>4. QED
    BY <1>4, <2>2, <2>3, WriteDoes
<1>5. ASSUME NEW s \in Store, Rename(s) PROVE TimesOK'
  <2>1. UNCHANGED <<file, written, now>>
    BY <1>5, RenameDoes
  <2>2. CASE Renamed(s)
    <3>1. \A u \in Time : u # now => LogFiles(u)' = LogFiles(u)
      BY <1>1, <1>5, <2>2, RenamedPlaces
    <3>2. \A k \in jobs' : k.t = now \/ k \in jobs
      BY <1>5, <2>2, RenameDoes
    <3>3. \A t \in Time : dir'[Gz(t)] = dir[Gz(t)]
      <4>1. dir' = [dir EXCEPT ![Log(now)] = dir[Current], ![Current] = None]
        BY <1>5, <2>2, RenameDoes
      <4>2. QED
        BY <1>1, <4>1, Names DEF TypeOK
    <3>4. \A u \in Time : LogFiles(u)' # {} => LogFiles(u) # {} \/ u <= now
      BY <1>1, <3>1
    <3>5. \A f \in File : file[f].data \subseteq Msg
      BY DEF TypeOK, Inode
    <3>6. now <= now
      BY <1>1
    <3>7. QED
      BY <2>1, <3>2, <3>3, <3>4, <3>5, <3>6, TimesAdvance
  <2>3. CASE ~ Renamed(s)
    <3>1. UNCHANGED <<dir, jobs>>
      BY <1>5, <2>3, RenameDoes
    <3>2. QED
      BY <2>1, <3>1, TimesKept DEF LogFiles
  <2>4. QED
    BY <2>2, <2>3
<1>6. ASSUME NEW s \in Store, Reopen(s) PROVE TimesOK'
  <2>1. UNCHANGED <<now, jobs>>
    BY <1>6, ReopenDoes
  <2>2. CASE Finds(s) /\ UNCHANGED <<mixed, written>>
    BY <1>2, <2>1, <2>2
  <2>3. CASE /\ dir' = [dir EXCEPT ![Current] = CurrentFile]
             /\ Adds(s, msg[s], CurrentFile)
    BY <2>1, <2>3, OtherNames, TimesAdd
  <2>4. QED
    BY <1>6, <2>2, <2>3, ReopenDoes
<1>7. ASSUME NEW j \in jobs, CompressOpen(j) PROVE TimesOK'
  <2>1. UNCHANGED <<now, written>>
    BY <1>7 DEF CompressOpen, history
  <2>2. CASE GivesUp(j)
    <3>1. jobs' = jobs \ {j} /\ dir' = dir /\ file' = file
      BY <1>7, <2>2 DEF CompressOpen, GivesUp, End
    <3>2. QED
      BY <2>1, <3>1, FewerNames, TimesKept
  <2>3. CASE ~ GivesUp(j)
    <3>1. PICK f \in File, k \in Job : OpensGz(j, f, k)
      BY <1>7, <2>3, CompressOpens
    <3>2. /\ \A t \in Time : LogFiles(t)' \subseteq LogFiles(t)
          /\ jobs' = (jobs \ {j}) \cup {k} /\ k.t = j.t
      BY <3>1 DEF OpensGz
    <3>3. /\ file'[f].data = {} /\ file'[f].mtime = now
          /\ \A g \in File : g # f => file'[g] = file[g]
          /\ \A t \in Time : t # j.t => dir'[Gz(t)] = dir[Gz(t)]
          /\ dir'[Gz(j.t)] = f
      BY <3>1 DEF OpensGz
    <3>4. \A g \in File : file'[g].data \subseteq Msg
      BY <3>3 DEF TypeOK, Inode
    <3>5. j.t <= now
      BY DEF TimesOK
    <3>6. QED
      BY <2>1, <3>2, <3>3, <3>4, <3>5, TimesAdvance
  <2>4. QED
    BY <2>2, <2>3
<1>8. ASSUME NEW j \in jobs, CompressCopy(j) PROVE TimesOK'
  <2>1. /\ UNCHANGED <<now, written, dir>> /\ j.in \in File /\ j.out \in File
        /\ \A f \in File : f # j.out => file'[f] = file[f]
        /\ file'[j.out].data = file[j.in].data /\ file'[j.out].mtime = now
        /\ \A k \in jobs' : \E i \in jobs : k.t = i.t
    BY <1>8, CompressCopyDoes DEF history
  <2>2. \A t \in Time : LogFiles(t)' \subseteq LogFiles(t)
    BY <1>8, RemovedNames
  <2>3. \A g \in File : file'[g].data \subseteq Msg
    BY <2>1 DEF TypeOK, Inode
  <2>4. QED
    BY <2>1, <2>2, <2>3, TimesAdvance
<1>9. ASSUME \/ \E j \in jobs : CompressRemove(j) \/ CompressFail(j)
             \/ \E s \in Store : CleanupRemove(s)
             \/ Crash
      PROVE  TimesOK'
  <2>1. UNCHANGED <<file, written, now>>
    BY <1>9 DEF CompressRemove, CompressFail, CleanupRemove, Crash, history
  <2>2. jobs' \subseteq jobs
    BY <1>9 DEF CompressRemove, CompressFail, CleanupRemove, Crash, End
  <2>3. /\ \A t \in Time : LogFiles(t)' \subseteq LogFiles(t)
        /\ \A t \in Time : dir'[Gz(t)] \in {dir[Gz(t)], None}
    BY <1>9, RemovedNames, Names
  <2>4. QED
    BY <2>1, <2>2, <2>3, TimesKept
<1>10. CASE Tick
  <2>1. now' = now + 1 /\ UNCHANGED <<dir, file, jobs, written>>
    BY <1>10 DEF Tick, history
  <2>2. now' \in Nat /\ \A n \in Nat : n <= now => n <= now'
    BY <1>1, <2>1
  <2>3. \A t \in Time : LogFiles(t)' = LogFiles(t)
    BY <2>1 DEF LogFiles
  <2>4. \A j \in jobs : j.t \in Nat
    BY <1>1, JobFiles
  <2>5. /\ \A f \in File : file[f].mtime \in Nat
        /\ \A m \in Msg : written[m] \in Nat
    BY <1>1, Numbers DEF TypeOK, Inode
  <2>6. \A m \in Msg : WrittenBy(m, now)'
    BY <2>1, <2>2, <2>5 DEF TimesOK, WrittenBy
  <2>7. \A f \in File : \A m \in file'[f].data : WrittenBy(m, file[f].mtime)'
    BY <2>1 DEF TimesOK, WrittenBy
  <2>8. QED
    BY <1>1, <2>1, <2>2, <2>3, <2>4, <2>5, <2>6, <2>7 DEF TimesOK
<1>11. ASSUME \/ \E s \in Store : Close(s) \/ CleanupList(s) \/ CleanupInfo(s)
              \/ UNCHANGED vars
       PROVE  TimesOK'
  <2>1. UNCHANGED <<file, written, now, dir, jobs>>
    BY <1>11 DEF Close, CleanupList, CleanupInfo, vars, history
  <2>2. QED
    BY <2>1, TimesKept DEF LogFiles
<1>12. QED
  BY <1>3, <1>4, <1>5, <1>6, <1>7, <1>8, <1>9, <1>10, <1>11 DEF Next

\* No file has a message before its Write, or while it is going on.
MsgsOK == \A f \in File : \A m \in file[f].data :
            m <= next /\ \A s \in Store : pc[s] # "idle" => m # msg[s]

\* What is in a file can be read, and so can what a store writes to.
WholeOK == /\ \A f \in File : file[f].data # {} => file[f].whole
           /\ dir[Current] # None => file[dir[Current]].whole
           /\ \A s \in Store : handle[s] # None => file[handle[s]].whole

\* No file gets a message, and no Write begins.
LEMMA MsgsFewer ==
  ASSUME TypeOK, MsgsOK, next' \in Nat, next <= next',
         \A f \in File : \/ file'[f].data = {}
                         \/ \E g \in File : file'[f].data \subseteq file[g].data,
         \A s \in Store : pc'[s] = "idle" \/ (pc[s] # "idle" /\ msg'[s] = msg[s])
  PROVE  MsgsOK'
<1> SUFFICES ASSUME NEW f \in File, NEW m \in file'[f].data
             PROVE  m <= next' /\ \A s \in Store : pc'[s] # "idle" => m # msg'[s]
  BY DEF MsgsOK
<1>1. PICK g \in File : m \in file[g].data
  OBVIOUS
<1>2. m \in Nat /\ next \in Nat
  BY <1>1, Numbers DEF TypeOK, Inode
<1>3. m <= next
  BY <1>1 DEF MsgsOK
<1>4. QED
  BY <1>1, <1>2, <1>3 DEF MsgsOK

\* The files that stores have open, and the current one, are as they were.
LEMMA WholeKept ==
  ASSUME TypeOK, WholeOK,
         \A f \in File : file'[f].data # {} => file'[f] = file[f] \/ file'[f].whole,
         dir'[Current] = dir[Current],
         \A s \in Store : handle'[s] \in {handle[s], None},
         \A f \in File : file'[f] = file[f] \/ file'[f].whole \/
                         (f # dir[Current] /\ \A s \in Store : handle[s] # f)
  PROVE  WholeOK'
<1>1. dir[Current] \in File \cup {None} /\ \A s \in Store : handle[s] \in File \cup {None}
  BY Names DEF TypeOK
<1>2. QED
  BY <1>1 DEF WholeOK

\* A message comes into one file, or into two by compression.
LEMMA DataStep ==
  TypeOK /\ StoresOK /\ JobsOK /\ PlacesOK /\ DataOK /\ SweepsOK /\ [Next]_vars => DataOK'
<1> SUFFICES ASSUME TypeOK, StoresOK, JobsOK, PlacesOK, DataOK, SweepsOK, [Next]_vars
             PROVE  DataOK'
  OBVIOUS
<1>1. MsgsOK /\ WholeOK /\ next \in Nat
  BY DEF DataOK, MsgsOK, WholeOK, TypeOK
<1>2. MsgsOK' /\ WholeOK' => DataOK'
  BY DEF DataOK, MsgsOK, WholeOK
<1>3. dir[Current] \in File \cup {None} /\ \A s \in Store : handle[s] \in File \cup {None}
  BY Names DEF TypeOK
<1>0. ASSUME NEW s \in Store, Finds(s), next' = next,
             \A q \in Store : pc'[q] = "idle" \/ (pc[q] # "idle" /\ msg'[q] = msg[q])
      PROVE  DataOK'
  <2>1. \A f \in File : file'[f] = file[f] \/ (file'[f].data = {} /\ file'[f].whole)
    BY <1>0, FindsFiles
  <2>2. MsgsOK'
    BY <1>0, <1>1, <2>1, MsgsFewer
  <2>3. /\ dir'[Current] # dir[Current] => file'[dir'[Current]].whole
        /\ \A r \in Store : handle'[r] \in {handle[r], dir'[Current]}
    BY <1>0, FindsFiles
  <2>4. dir'[Current] # None => file'[dir'[Current]].whole
    BY <1>1, <1>3, <2>1, <2>3 DEF WholeOK
  <2>5. \A r \in Store : handle'[r] # None => file'[handle'[r]].whole
    BY <1>1, <1>3, <2>1, <2>3, <2>4 DEF WholeOK
  <2>6. WholeOK'
    BY <1>1, <2>1, <2>4, <2>5 DEF WholeOK
  <2>7. QED
    BY <1>2, <2>2, <2>6
<1>4. ASSUME NEW s \in Store, NewStore(s) \/ NewStoreFails(s) PROVE DataOK'
  <2>1. Finds(s) /\ UNCHANGED <<next, pc, msg>>
    BY <1>4, NewStoreDoes
  <2>2. \A q \in Store : pc'[q] = "idle" \/ (pc[q] # "idle" /\ msg'[q] = msg[q])
    BY <2>1
  <2>3. QED
    BY <1>0, <2>1, <2>2
<1>5. ASSUME NEW s \in Store, Write(s) PROVE DataOK'
  <2>1. /\ next' = next + 1 /\ next <= next' /\ next' \in Nat /\ next + 1 \in Msg
        /\ UNCHANGED dir
    BY <1>1, <1>5, WriteDoes
  <2>7. \A r \in Store : handle'[r] \in {handle[r], None}
    BY <1>5, WriteDoes
  <2>2. \A q \in Store : pc[q] # "idle" => msg[q] <= next /\ msg[q] \in Nat
    BY Numbers DEF StoresOK
  <2>3. CASE UNCHANGED <<file, pc, msg>>
    <3>1. MsgsOK'
      BY <1>1, <2>1, <2>3, MsgsFewer
    <3>2. WholeOK'
      BY <1>1, <2>1, <2>3, <2>7, WholeKept
    <3>3. QED
      BY <1>2, <3>1, <3>2
  <2>4. CASE /\ pc' = [pc EXCEPT ![s] = "rename"] /\ msg' = [msg EXCEPT ![s] = next + 1]
             /\ UNCHANGED <<file, size, written, mixed>>
    <3>1. \A q \in Store : q # s => pc'[q] = pc[q] /\ msg'[q] = msg[q]
      BY <2>4 DEF TypeOK
    <3>2. msg'[s] = next + 1 /\ \A f \in File : next + 1 \notin file[f].data
      BY <1>5, <2>4, WriteDoes DEF TypeOK
    <3>3. \A f \in File : \A m \in file[f].data : m \in Nat /\ m <= next /\ m <= next'
      BY <1>1, <2>1, Numbers DEF MsgsOK, TypeOK, Inode
    <3>4. MsgsOK'
      BY <1>1, <2>4, <3>1, <3>2, <3>3 DEF MsgsOK
    <3>5. WholeOK'
      BY <1>1, <2>1, <2>4, <2>7, WholeKept
    <3>6. QED
      BY <1>2, <3>4, <3>5
  <2>5. CASE /\ UNCHANGED <<handle, pc, msg>>
             /\ Adds(s, next + 1, handle[s])
             /\ handle[s] # None
             /\ file'[handle[s]].data = file[handle[s]].data \cup {next + 1}
             /\ file'[handle[s]].whole = file[handle[s]].whole
    <3>1. \A f \in File : file'[f].data \subseteq file[f].data \cup {next + 1}
      BY <2>5 DEF Adds
    <3>2. \A f \in File : \A m \in file[f].data : m \in Nat /\ m <= next /\ m <= next'
      BY <1>1, <2>1, Numbers DEF MsgsOK, TypeOK, Inode
    <3>3. \A q \in Store : pc[q] # "idle" => msg[q] # next + 1
      BY <1>1, <2>2
    <3>4. MsgsOK'
      BY <1>1, <2>1, <2>5, <3>1, <3>2, <3>3 DEF MsgsOK
    <3>5. \A f \in File : file'[f] = file[f] \/ (f = handle[s] /\ file'[f].whole)
      <4>1. file[handle[s]].whole
        BY <1>1, <2>5 DEF WholeOK
      <4>2. file'[handle[s]].whole = file[handle[s]].whole
        BY <2>5
      <4>3. file'[handle[s]].whole
        BY <4>1, <4>2
      <4>4. \A f \in File : file'[f] = file[f] \/ f = handle[s]
        BY <2>5 DEF Adds
      <4>5. QED
        BY <4>3, <4>4
    <3>6. WholeOK'
      BY <1>1, <1>3, <2>1, <2>5, <3>5 DEF WholeOK
    <3>7. QED
      BY <1>2, <3>4, <3>6
  <2>6. QED
    BY <1>5, <2>3, <2>4, <2>5, WriteDoes
<1>6. ASSUME NEW s \in Store, Rename(s) PROVE DataOK'
  <2>1. /\ UNCHANGED <<file, handle, next>>
        /\ \/ pc' = [pc EXCEPT ![s] = "idle"] /\ msg' = [msg EXCEPT ![s] = 0]
           \/ pc' = [pc EXCEPT ![s] = "reopen"] /\ UNCHANGED msg
        /\ pc[s] = "rename"
    BY <1>6, RenameDoes
  <2>2. \A q \in Store : pc'[q] = "idle" \/ (pc[q] # "idle" /\ msg'[q] = msg[q])
    BY <2>1 DEF TypeOK
  <2>3. MsgsOK'
    BY <1>1, <2>1, <2>2, MsgsFewer
  <2>4. dir'[Current] \in {dir[Current], None}
    <3>1. CASE Renamed(s)
      BY <1>6, <3>1, RenamedPlaces DEF TypeOK, Time
    <3>2. CASE ~ Renamed(s)
      BY <1>6, <3>2, RenameDoes
    <3>3. QED
      BY <3>1, <3>2
  <2>5. WholeOK'
    BY <1>1, <2>1, <2>4 DEF WholeOK
  <2>6. QED
    BY <1>2, <2>3, <2>5
<1>7. ASSUME NEW s \in Store, Reopen(s) PROVE DataOK'
  <2> DEFINE m == msg[s]
             f == CurrentFile
  <2>1. /\ next' = next /\ pc[s] = "reopen" /\ m <= next
        /\ \A q \in Store : pc'[q] = "idle"
    BY <1>7, ReopenDoes
  <2>2. CASE Finds(s)
    BY <1>0, <2>1, <2>2
  <2>3. CASE /\ CanOpen
             /\ dir' = [dir EXCEPT ![Current] = f]
             /\ handle' = [handle EXCEPT ![s] = f]
             /\ Adds(s, m, f)
             /\ dir[Current] # None => file'[f].whole = file[f].whole
             /\ dir[Current] = None => file'[f].data = {m} /\ file'[f].whole
    <3>1. /\ f \in File /\ f # None
          /\ dir[Current] # None => f = dir[Current]
          /\ dir'[Current] = f
      BY <2>3, CurrentIsAFile, OtherNames
    <3> HIDE DEF m, f
    <3>2. \A g \in File : file'[g].data \subseteq file[g].data \cup {m}
      BY <2>3 DEF Adds
    <3>3. MsgsOK'
      BY <1>1, <2>1, <3>2 DEF MsgsOK
    <3>4. file'[f].whole
      <4>1. ASSUME dir[Current] # None PROVE file'[f].whole
        <5>1. file[f].whole
          BY <1>1, <3>1, <4>1 DEF WholeOK
        <5>2. QED
          BY <2>3, <4>1, <5>1
      <4>2. QED
        BY <2>3, <4>1
    <3>5. \A g \in File : file'[g] = file[g] \/ g = f
      BY <2>3 DEF Adds
    <3>6. \A r \in Store : handle'[r] \in {handle[r], f}
      BY <2>3 DEF TypeOK
    <3>7. WholeOK'
      BY <1>1, <1>3, <3>1, <3>4, <3>5, <3>6 DEF WholeOK
    <3>8. QED
      BY <1>2, <3>3, <3>7
  <2>4. QED
    BY <1>7, <2>2, <2>3, ReopenDoes
<1>8. ASSUME NEW j \in jobs, CompressOpen(j) PROVE DataOK'
  <2>1. UNCHANGED <<next, handle, pc, msg>>
    BY <1>8 DEF CompressOpen, store
  <2>2. CASE GivesUp(j)
    <3>1. dir' = dir /\ file' = file
      BY <2>2 DEF GivesUp
    <3>2. QED
      BY <1>1, <1>2, <2>1, <3>1 DEF MsgsOK, WholeOK
  <2>3. CASE ~ GivesUp(j)
    <3>1. PICK f \in File, k \in Job : OpensGz(j, f, k)
      BY <1>8, <2>3, CompressOpens
    <3>2. dir'[Current] = dir[Current] /\ f # dir[Current] /\ \A s \in Store : handle[s] # f
      BY <3>1 DEF OpensGz
    <3>3. /\ file'[f].data = {}
          /\ \A g \in File : g # f => file'[g] = file[g]
      BY <3>1 DEF OpensGz
    <3>4. MsgsOK'
      BY <1>1, <2>1, <3>3, MsgsFewer
    <3>5. WholeOK'
      BY <1>1, <2>1, <3>2, <3>3, WholeKept
    <3>6. QED
      BY <1>2, <3>4, <3>5
  <2>4. QED
    BY <2>2, <2>3
<1>9. ASSUME NEW j \in jobs, CompressCopy(j) PROVE DataOK'
  <2>1. UNCHANGED <<next, handle, pc, msg, dir>>
    BY <1>9, CompressCopyDoes DEF store
  <2>2. /\ j.in \in File /\ j.out \in File
        /\ \A f \in File : f # j.out => file'[f] = file[f]
        /\ file'[j.out].data = file[j.in].data /\ file'[j.out].whole
    BY <1>9, CompressCopyDoes
  <2>3. MsgsOK'
    BY <1>1, <2>1, <2>2, MsgsFewer
  <2>4. WholeOK'
    BY <1>1, <2>1, <2>2, WholeKept
  <2>5. QED
    BY <1>2, <2>3, <2>4
<1>10. ASSUME \/ \E j \in jobs : CompressRemove(j) \/ CompressFail(j)
              \/ \E s \in Store : CleanupRemove(s)
              \/ Crash
       PROVE  DataOK'
  <2>1. UNCHANGED <<file, next>>
    BY <1>10 DEF CompressRemove, CompressFail, CleanupRemove, Crash
  <2>2. /\ \/ UNCHANGED <<pc, msg>>
           \/ \A s \in Store : pc'[s] = "idle"
        /\ \A s \in Store : handle'[s] \in {handle[s], None}
    BY <1>10 DEF CompressRemove, CompressFail, CleanupRemove, Crash, store
  <2>3. dir'[Current] = dir[Current]
    BY <1>10, RemovedNames
  <2>4. MsgsOK'
    BY <1>1, <2>1, <2>2 DEF MsgsOK
  <2>5. WholeOK'
    BY <1>1, <2>1, <2>2, <2>3, WholeKept
  <2>6. QED
    BY <1>2, <2>4, <2>5
<1>11. ASSUME \/ \E s \in Store : Close(s) \/ CleanupList(s) \/ CleanupInfo(s)
              \/ Tick \/ UNCHANGED vars
       PROVE  DataOK'
  <2>1. UNCHANGED <<file, next, dir, pc, msg>>
    BY <1>11 DEF Close, CleanupList, CleanupInfo, Tick, vars, store
  <2>2. \A s \in Store : handle'[s] \in {handle[s], None}
    BY <1>11 DEF Close, CleanupList, CleanupInfo, Tick, vars, store, TypeOK
  <2>3. MsgsOK'
    BY <1>1, <2>1 DEF MsgsOK
  <2>4. WholeOK'
    BY <1>1, <2>1, <2>2, WholeKept
  <2>5. QED
    BY <1>2, <2>3, <2>4
<1>12. QED
  BY <1>4, <1>5, <1>6, <1>7, <1>8, <1>9, <1>10, <1>11 DEF Next

-----------------------------------------------------------------------------
(* How large a file is.                                                    *)

\* The line of one message, or within the limit, or excepted.
Bounded(f) == \/ file[f].size <= MaxSize
              \/ \E m \in Msg : file[f].data = {m}
              \/ file[f].data \cap Muddled # {}

\* The store knows how large its file is, or another one writes to it.
Counts(s) == \/ size[s] = file[handle[s]].size
             \/ file[handle[s]].data \cap mixed # {}

\* What is excepted stays so.
LEMMA StillExcepted ==
  ASSUME mixed \subseteq mixed', clashed \subseteq clashed',
         NEW D, NEW E, D \subseteq E
  PROVE  /\ D \cap mixed # {} => E \cap mixed' # {}
         /\ D \cap Muddled # {} => E \cap Muddled' # {}
BY DEF Muddled

\* No store writes, and the files that are written to are not a store's.
LEMMA SizesKept ==
  ASSUME TypeOK, SizesOK, mixed \subseteq mixed', clashed \subseteq clashed',
         \A f \in File : \/ file'[f].size <= MaxSize
                         \/ \E g \in File : /\ file'[f].size = file[g].size
                                            /\ file'[f].data = file[g].data,
         \A s \in Store : \/ handle'[s] = None
                          \/ /\ handle'[s] = handle[s] /\ size'[s] = size[s]
                             /\ file'[handle[s]] = file[handle[s]]
  PROVE  SizesOK'
<1>1. ASSUME NEW f \in File PROVE Bounded(f)'
  <2>1. CASE file'[f].size <= MaxSize
    BY <2>1 DEF Bounded
  <2>2. ASSUME NEW g \in File, file'[f].size = file[g].size, file'[f].data = file[g].data
        PROVE  Bounded(f)'
    <3>1. Bounded(g)
      BY DEF SizesOK, Bounded
    <3>2. QED
      BY <2>2, <3>1, StillExcepted DEF Bounded
  <2>3. QED
    BY <2>1, <2>2
<1>2. ASSUME NEW s \in Store, handle'[s] # None PROVE Counts(s)'
  <2>1. /\ handle'[s] = handle[s] /\ size'[s] = size[s]
        /\ file'[handle[s]] = file[handle[s]]
    BY <1>2
  <2>2. Counts(s)
    BY <1>2, <2>1 DEF SizesOK, Counts
  <2>3. QED
    BY <2>1, <2>2 DEF Counts
<1>3. QED
  BY <1>1, <1>2 DEF SizesOK, Bounded, Counts

\* A file grows beyond the limit only when its writers do not know of each other.
LEMMA SizesStep ==
  TypeOK /\ StoresOK /\ JobsOK /\ PlacesOK /\ DataOK /\ SizesOK /\ ReopensOK /\ [Next]_vars
  => SizesOK'
<1> SUFFICES ASSUME TypeOK, StoresOK, JobsOK, PlacesOK, DataOK, SizesOK, ReopensOK,
                    [Next]_vars
             PROVE  SizesOK'
  OBVIOUS
<1>1. /\ \A f \in File : Bounded(f)
      /\ \A s \in Store : handle[s] # None => Counts(s) /\ handle[s] \in File /\ s \in Open
  BY DEF SizesOK, Bounded, Counts, TypeOK, StoresOK, Open
<1>2. MaxSize \in Nat /\ 0 <= MaxSize
  BY Numbers
<1>0. ASSUME NEW s \in Store, Finds(s), UNCHANGED <<mixed, clashed>> PROVE SizesOK'
  <2>1. \A f \in File : \/ file'[f] = file[f]
                        \/ Free # {} /\ f = Fresh /\ file'[f].size = 0
    BY <1>0, FindsFiles
  <2>2. ASSUME NEW f \in File PROVE Bounded(f)'
    <3>1. CASE file'[f] = file[f]
      BY <1>0, <1>1, <3>1 DEF Bounded, Muddled
    <3>2. CASE file'[f].size = 0
      BY <1>2, <3>2 DEF Bounded
    <3>3. QED
      BY <2>1, <3>1, <3>2
  <2>3. ASSUME NEW r \in Store, handle'[r] # None PROVE Counts(r)'
    <3>1. CASE handle'[r] = dir'[Current] /\ size'[r] = file'[dir'[Current]].size
      BY <3>1 DEF Counts
    <3>2. CASE handle'[r] = handle[r] /\ size'[r] = size[r]
      <4>1. Counts(r) /\ handle[r] \in File
        BY <1>1, <2>3, <3>2
      <4>2. file'[handle[r]] = file[handle[r]]
        BY <2>1, <4>1, FreshIsFree
      <4>3. QED
        BY <1>0, <3>2, <4>1, <4>2 DEF Counts
    <3>3. QED
      BY <1>0, <3>1, <3>2, FindsFiles
  <2>4. QED
    BY <2>2, <2>3 DEF SizesOK, Bounded, Counts
<1>3. ASSUME NEW s \in Store, NewStore(s) \/ NewStoreFails(s) PROVE SizesOK'
  BY <1>0, <1>3, NewStoreDoes DEF history
<1>4. ASSUME NEW s \in Store, Write(s) PROVE SizesOK'
  <2> DEFINE m == next + 1
             f == handle[s]
  <2>1. UNCHANGED clashed
    BY <1>4, WriteDoes
  <2>2. CASE UNCHANGED <<file, size, mixed>>
    <3>1. \A r \in Store : handle'[r] \in {handle[r], None}
      BY <1>4, WriteDoes
    <3>2. QED
      BY <2>1, <2>2, <3>1, SizesKept
  <2>4. CASE /\ handle' = handle /\ Adds(s, m, f) /\ f # None
             /\ Fits(s)
             /\ file'[f].data = file[f].data \cup {m}
    <3>0. PICK k \in Nat : /\ size[s] + k <= MaxSize /\ size'[s] = size[s] + k
                           /\ file'[f].size = file[f].size + k
      BY <2>4 DEF Fits
    <3>1. /\ mixed \subseteq mixed' /\ m \in Msg /\ f \in File
          /\ \A g \in File : g # f => file'[g] = file[g]
          /\ (\E r \in Open \ {s} : handle[r] = f) => file'[f].data \subseteq mixed'
          /\ \A r \in Store : r # s => size'[r] = size[r]
      BY <2>4 DEF Adds
    <3>2. Counts(s)
      BY <1>1, <2>4
    <3> HIDE DEF m, f
    <3>3. \/ size[s] = file[f].size
          \/ file[f].data \cap mixed # {}
      BY <3>2 DEF Counts, f
    <3>4. \/ file'[f].size <= MaxSize /\ size'[s] = file'[f].size
          \/ file'[f].data \cap mixed' # {}
      <4>1. CASE size[s] = file[f].size
        BY <3>0, <4>1
      <4>2. CASE file[f].data \cap mixed # {}
        BY <2>4, <3>1, <4>2
      <4>3. QED
        BY <3>3, <4>1, <4>2
    <3>5. ASSUME NEW g \in File PROVE Bounded(g)'
      <4>1. CASE g = f
        BY <3>4, <4>1 DEF Bounded, Muddled
      <4>2. CASE g # f
        BY <1>1, <2>1, <3>1, <4>2 DEF Bounded, Muddled
      <4>3. QED
        BY <4>1, <4>2
    <3>6. ASSUME NEW r \in Store, handle'[r] # None PROVE Counts(r)'
      <4>1. CASE r = s
        BY <2>4, <3>4, <4>1 DEF Counts, f
      <4>2. CASE r # s /\ handle[r] = f
        <5>1. r \in Open \ {s}
          BY <1>1, <2>4, <3>6, <4>2
        <5>2. file'[f].data \subseteq mixed' /\ m \in file'[f].data
          BY <2>4, <3>1, <4>2, <5>1
        <5>3. QED
          BY <2>4, <4>2, <5>2 DEF Counts
      <4>3. CASE r # s /\ handle[r] # f
        <5>1. Counts(r) /\ handle[r] \in File /\ handle'[r] = handle[r]
          BY <1>1, <2>4, <3>6
        <5>2. QED
          BY <3>1, <4>3, <5>1 DEF Counts
      <4>4. QED
        BY <4>1, <4>2, <4>3
    <3>7. QED
      BY <3>5, <3>6 DEF SizesOK, Bounded, Counts
  <2>5. QED
    BY <1>4, <2>2, <2>4, WriteDoes
<1>5. ASSUME NEW s \in Store, Rename(s) PROVE SizesOK'
  <2>1. UNCHANGED <<file, size, handle, mixed>> /\ clashed \subseteq clashed'
    BY <1>5, RenameDoes, ClashedType
  <2>2. QED
    BY <2>1, SizesKept
<1>6. ASSUME NEW s \in Store, Reopen(s) PROVE SizesOK'
  <2> DEFINE m == msg[s]
             f == CurrentFile
  <2>1. UNCHANGED clashed /\ pc[s] = "reopen"
    BY <1>6, ReopenDoes
  <2>2. CASE Finds(s) /\ UNCHANGED <<mixed, written>>
    BY <1>0, <2>1, <2>2
  <2>3. CASE /\ CanOpen
             /\ handle' = [handle EXCEPT ![s] = f]
             /\ Adds(s, m, f) /\ size'[s] = file'[f].size
             /\ dir[Current] = None => file'[f].data = {m} /\ file'[f].whole
    <3>1. /\ mixed \subseteq mixed' /\ m \in Msg /\ f \in File
          /\ \A g \in File : g # f => file'[g] = file[g]
          /\ (\E r \in Open \ {s} : handle[r] = f) => file'[f].data \subseteq mixed'
          /\ \A r \in Store : r # s => size'[r] = size[r]
          /\ dir[Current] # None => file'[f].data = file[f].data \cup {m}
      BY <2>3 DEF Adds
    <3>2. dir[Current] # None => f = dir[Current]
      BY DEF CurrentFile
    <3> HIDE DEF m, f
    <3>3. file'[f].data = {m}
      BY <2>1, <2>3, <3>1, <3>2 DEF ReopensOK
    <3>4. ASSUME NEW g \in File PROVE Bounded(g)'
      <4>1. CASE g = f
        BY <3>1, <3>3, <4>1 DEF Bounded
      <4>2. CASE g # f
        BY <1>1, <2>1, <3>1, <4>2 DEF Bounded, Muddled
      <4>3. QED
        BY <4>1, <4>2
    <3>5. ASSUME NEW r \in Store, handle'[r] # None PROVE Counts(r)'
      <4>1. CASE r = s
        <5>1. handle'[r] = f
          BY <2>3, <4>1 DEF TypeOK
        <5>2. QED
          BY <2>3, <4>1, <5>1 DEF Counts
      <4>2. CASE r # s /\ handle[r] = f
        <5>1. handle'[r] = f
          BY <2>3, <4>2 DEF TypeOK
        <5>2. r \in Open \ {s}
          BY <1>1, <3>5, <4>2, <5>1
        <5>3. file'[f].data \subseteq mixed'
          BY <3>1, <4>2, <5>2
        <5>4. QED
          BY <3>3, <5>1, <5>3 DEF Counts
      <4>3. CASE r # s /\ handle[r] # f
        <5>1. handle'[r] = handle[r]
          BY <2>3, <4>3 DEF TypeOK
        <5>2. Counts(r) /\ handle[r] \in File
          BY <1>1, <3>5, <5>1
        <5>3. QED
          BY <3>1, <4>3, <5>1, <5>2 DEF Counts
      <4>4. QED
        BY <4>1, <4>2, <4>3
    <3>6. QED
      BY <3>4, <3>5 DEF SizesOK, Bounded, Counts
  <2>4. QED
    BY <1>6, <2>2, <2>3, ReopenDoes
<1>7. ASSUME NEW j \in jobs, CompressOpen(j) PROVE SizesOK'
  <2>1. UNCHANGED <<handle, size, mixed, clashed>>
    BY <1>7 DEF CompressOpen, store, history
  <2>2. CASE GivesUp(j)
    <3>1. file' = file
      BY <2>2 DEF GivesUp
    <3>2. QED
      BY <2>1, <3>1, SizesKept
  <2>3. CASE ~ GivesUp(j)
    <3>1. PICK f \in File, k \in Job : OpensGz(j, f, k)
      BY <1>7, <2>3, CompressOpens
    <3>2. /\ file'[f].size = 0 /\ \A g \in File : g # f => file'[g] = file[g]
          /\ \A s \in Store : handle[s] # f
      BY <3>1 DEF OpensGz
    <3>3. \A g \in File : file'[g].size <= MaxSize \/ file'[g] = file[g]
      BY <1>2, <3>2
    <3>4. \A s \in Store : handle[s] = None \/ file'[handle[s]] = file[handle[s]]
      BY <1>1, <3>2
    <3>5. QED
      BY <2>1, <3>3, <3>4, SizesKept
  <2>4. QED
    BY <2>2, <2>3
<1>8. ASSUME NEW j \in jobs, CompressCopy(j) PROVE SizesOK'
  <2>1. /\ UNCHANGED <<handle, size, mixed, clashed>>
        /\ j.in \in File /\ j.out \in File
        /\ \A f \in File : f # j.out => file'[f] = file[f]
        /\ file'[j.out].data = file[j.in].data /\ file'[j.out].size = file[j.in].size
    BY <1>8, CompressCopyDoes DEF store, history
  <2>2. \A s \in Store : handle[s] # j.out
    BY <2>1, JobFiles, Numbers DEF PlacesOK
  <2>3. \A s \in Store : handle[s] = None \/ file'[handle[s]] = file[handle[s]]
    BY <1>1, <2>1, <2>2
  <2>4. QED
    BY <2>1, <2>3, SizesKept
<1>9. ASSUME \/ \E j \in jobs : CompressRemove(j) \/ CompressFail(j)
             \/ \E s \in Store : \/ CleanupList(s) \/ CleanupInfo(s) \/ CleanupRemove(s)
                                \/ Close(s)
             \/ Crash \/ Tick \/ UNCHANGED vars
      PROVE  SizesOK'
  <2>1. UNCHANGED <<file, mixed, clashed>>
    BY <1>9 DEF CompressRemove, CompressFail, CleanupList, CleanupInfo, CleanupRemove, Close,
                Crash, Tick, vars, history
  <2>2. \A s \in Store : handle'[s] = None \/ (handle'[s] = handle[s] /\ size'[s] = size[s])
    BY <1>9 DEF CompressRemove, CompressFail, CleanupList, CleanupInfo, CleanupRemove, Close,
                Crash, Tick, vars, store, TypeOK
  <2>3. QED
    BY <2>1, <2>2, SizesKept
<1>10. QED
  BY <1>3, <1>4, <1>5, <1>6, <1>7, <1>8, <1>9 DEF Next

\* Nobody writes to the current file while a rotation is between its rename
\* and its openCurrent.
LEMMA ReopensStep ==
  TypeOK /\ StoresOK /\ JobsOK /\ PlacesOK /\ DataOK /\ SweepsOK /\ ReopensOK /\ [Next]_vars
  => ReopensOK'
<1> SUFFICES ASSUME TypeOK, StoresOK, JobsOK, PlacesOK, DataOK, SweepsOK, ReopensOK,
                    [Next]_vars
             PROVE  ReopensOK'
  OBVIOUS
<1>1. dir[Current] \in File \cup {None}
  BY Names DEF TypeOK
<1>2. /\ dir'[Current] \in {dir[Current], None}
      /\ dir[Current] # None => file'[dir[Current]] = file[dir[Current]]
      /\ \A s \in Store : pc'[s] = "reopen" => pc[s] = "reopen"
      => ReopensOK'
  BY DEF ReopensOK
<1>3. ASSUME NEW s \in Store, NewStore(s) \/ NewStoreFails(s) PROVE ReopensOK'
  <2>1. Finds(s) /\ pc' = pc
    BY <1>3, NewStoreDoes
  <2>2. CASE dir'[Current] = dir[Current]
    <3>1. dir[Current] # None => file'[dir[Current]] = file[dir[Current]]
      BY <1>1, <2>1, FindsFiles
    <3>2. QED
      BY <1>2, <2>1, <2>2, <3>1
  <2>3. CASE dir'[Current] # dir[Current]
    <3>1. file'[dir'[Current]].data = {} /\ file'[dir'[Current]].size = 0
      BY <2>1, <2>3, FindsFiles
    <3>2. QED
      BY <3>1 DEF ReopensOK
  <2>4. QED
    BY <2>2, <2>3
<1>4. ASSUME NEW s \in Store, Write(s) PROVE ReopensOK'
  <2>1. dir' = dir
    BY <1>4, WriteDoes
  <2>2. CASE UNCHANGED <<file, pc>>
    BY <1>2, <2>1, <2>2
  <2>3. CASE pc' = [pc EXCEPT ![s] = "rename"] /\ UNCHANGED file
    <3>1. \A r \in Store : pc'[r] = "reopen" => pc[r] = "reopen"
      BY <2>3 DEF TypeOK
    <3>2. QED
      BY <1>2, <2>1, <2>3, <3>1
  <2>4. CASE handle[s] # None /\ pc' = pc
    <3>1. \A r \in Store : pc[r] = "idle"
      <4>1. /\ life[s] = "open" /\ pc[s] = "idle" /\ \A r \in Open : s <= r
        BY <1>4, <2>4 DEF Write, StoresOK
      <4>2. ASSUME NEW r \in Store, pc[r] # "idle" PROVE FALSE
        <5>1. r \in Open /\ s \in Open /\ r <= s /\ s <= r
          BY <4>1, <4>2 DEF StoresOK, Open
        <5>2. r \in Nat /\ s \in Nat
          BY Numbers
        <5>3. r = s
          BY <5>1, <5>2
        <5>4. QED
          BY <4>1, <4>2, <5>3
      <4>3. QED
        BY <4>2
    <3>2. QED
      BY <2>4, <3>1 DEF ReopensOK
  <2>5. QED
    BY <1>4, <2>2, <2>3, <2>4, WriteDoes
<1>5. ASSUME NEW s \in Store, Rename(s) PROVE ReopensOK'
  <2>1. file' = file
    BY <1>5, RenameDoes
  <2>2. CASE Renamed(s)
    <3>1. /\ now \in Time
          /\ dir' = [dir EXCEPT ![Log(now)] = dir[Current], ![Current] = None]
      BY <1>5, <2>2, RenameDoes
    <3>2. dir'[Current] = None
      BY <3>1, Names DEF TypeOK
    <3>3. QED
      BY <3>2 DEF ReopensOK
  <2>3. CASE ~ Renamed(s)
    <3>1. dir' = dir /\ pc' = [pc EXCEPT ![s] = "idle"]
      BY <1>5, <2>3, RenameDoes
    <3>2. \A r \in Store : pc'[r] = "reopen" => pc[r] = "reopen"
      BY <3>1 DEF TypeOK
    <3>3. QED
      BY <1>2, <2>1, <3>1, <3>2
  <2>4. QED
    BY <2>2, <2>3
<1>6. ASSUME NEW s \in Store, Reopen(s) PROVE ReopensOK'
  <2>1. \A r \in Store : pc'[r] = "idle"
    BY <1>6, ReopenDoes
  <2>2. QED
    BY <2>1 DEF ReopensOK
<1>7. ASSUME NEW j \in jobs, CompressOpen(j) PROVE ReopensOK'
  <2>1. pc' = pc
    BY <1>7 DEF CompressOpen, store
  <2>2. CASE GivesUp(j)
    BY <1>2, <2>1, <2>2 DEF GivesUp
  <2>3. CASE ~ GivesUp(j)
    <3>1. PICK f \in File, k \in Job : OpensGz(j, f, k)
      BY <1>7, <2>3, CompressOpens
    <3>2. /\ dir'[Current] = dir[Current] /\ f # dir[Current]
          /\ \A g \in File : g # f => file'[g] = file[g]
      BY <3>1 DEF OpensGz
    <3>3. QED
      BY <1>1, <1>2, <2>1, <3>2
  <2>4. QED
    BY <2>2, <2>3
<1>8. ASSUME NEW j \in jobs, CompressCopy(j) PROVE ReopensOK'
  <2>1. /\ UNCHANGED <<dir, pc>> /\ j.out \in File
        /\ \A f \in File : f # j.out => file'[f] = file[f]
    BY <1>8, CompressCopyDoes DEF store
  <2>2. j.out # dir[Current]
    BY <2>1, JobFiles, Numbers DEF PlacesOK
  <2>3. QED
    BY <1>1, <1>2, <2>1, <2>2
<1>9. ASSUME \/ \E j \in jobs : CompressRemove(j) \/ CompressFail(j)
             \/ \E s \in Store : CleanupRemove(s)
             \/ Crash
      PROVE  ReopensOK'
  <2>1. file' = file /\ \A s \in Store : pc'[s] = "reopen" => pc[s] = "reopen"
    BY <1>9 DEF CompressRemove, CompressFail, CleanupRemove, Crash, store
  <2>2. dir'[Current] = dir[Current]
    BY <1>9, RemovedNames
  <2>3. QED
    BY <1>2, <2>1, <2>2
<1>10. ASSUME \/ \E s \in Store : Close(s) \/ CleanupList(s) \/ CleanupInfo(s)
              \/ Tick \/ UNCHANGED vars
       PROVE  ReopensOK'
  <2>1. UNCHANGED <<file, dir, pc>>
    BY <1>10 DEF Close, CleanupList, CleanupInfo, Tick, vars, store
  <2>2. QED
    BY <1>2, <2>1
<1>11. QED
  BY <1>3, <1>4, <1>5, <1>6, <1>7, <1>8, <1>9, <1>10 DEF Next

-----------------------------------------------------------------------------
(* The compression of a second.                                            *)

\* Nothing happens to the second t, but that an excepted file may grow.
LEMMA SecondKept ==
  ASSUME TypeOK, JobsOK, PlacesOK, NEW t \in Time, Orderly(t) \/ Disorderly(t),
         posix' = posix, Muddled \subseteq Muddled', Excused \subseteq Excused',
         dir'[Log(t)] = dir[Log(t)], dir'[Gz(t)] = dir[Gz(t)],
         \A j \in jobs \cup jobs' : j.t = t => (j \in jobs' <=> j \in jobs),
         \A f \in LogFiles(t) \cup GzFiles(t) :
           \/ file'[f] = file[f]
           \/ f \in LogFiles(t) /\ file'[f].data \subseteq Muddled'
  PROVE  (Orderly(t) \/ Disorderly(t))'
<1>1. /\ dir[Log(t)] # None => dir[Log(t)] \in LogFiles(t)
      /\ dir[Gz(t)] # None => dir[Gz(t)] \in GzFiles(t)
      /\ LogFiles(t) \cap GzFiles(t) = {}
  BY NameFiles DEF PlacesOK
<1>2. CASE Orderly(t)
  <2>1. \A j, k \in jobs' : j.t = t /\ k.t = t => j = k
    BY <1>2 DEF Orderly
  <2>2. \A f \in GzFiles(t) : file'[f] = file[f]
    BY <1>1
  <2>3. ASSUME NEW j \in jobs', j.t = t
        PROVE  /\ j.pc = "open" => dir'[Gz(t)] = None
               /\ j.pc # "open" => dir'[Log(t)] \in {None, j.in}
               /\ j.pc = "copy" => dir'[Gz(t)] \in {None, j.out} /\ file'[j.out].data = {}
    <3>1. j \in jobs
      BY <2>3
    <3>2. j.pc = "copy" => j.out \in GzFiles(t)
      BY <2>3, <3>1, JobFiles DEF JobsOK
    <3>3. QED
      BY <1>2, <2>2, <2>3, <3>1, <3>2 DEF Orderly
  <2>4. ASSUME NEW j \in jobs', j.t = t, posix, j.pc # "open", dir'[Log(t)] # None,
               NEW m \in file'[dir'[Log(t)]].data \ Excused'
        PROVE  dir'[Gz(t)] # None /\ (j.pc = "remove" => m \in file'[dir'[Gz(t)]].data)
    <3>1. j \in jobs /\ m \in file[dir[Log(t)]].data \ Excused
      BY <1>1, <2>4 DEF Excused
    <3>2. dir[Gz(t)] # None /\ (j.pc = "remove" => m \in file[dir[Gz(t)]].data)
      BY <1>2, <2>4, <3>1 DEF Orderly
    <3>3. QED
      BY <1>1, <2>2, <3>2
  <2>5. dir'[Log(t)] # None => \A m \in file'[dir'[Log(t)]].data \ Muddled' :
                                 file'[dir'[Log(t)]].mtime <= t
    BY <1>1, <1>2 DEF Orderly
  <2>6. QED
    BY <2>1, <2>3, <2>4, <2>5 DEF Orderly
<1>3. CASE Disorderly(t)
  <2>1. LogFiles(t)' \subseteq LogFiles(t) /\ GzFiles(t)' \subseteq GzFiles(t)
    BY DEF LogFiles, GzFiles
  <2>2. QED
    BY <1>3, <2>1 DEF Disorderly
<1>4. QED
  BY <1>2, <1>3

\* Jobs and names of the second t go; while a job is left, the compressed
\* file does not go before the rotated one.
LEMMA SecondFewer ==
  ASSUME TypeOK, NEW t \in Time, Orderly(t) \/ Disorderly(t),
         UNCHANGED <<posix, file, clashed, mixed>>, expired \subseteq expired',
         jobs' \subseteq jobs,
         dir'[Log(t)] \in {dir[Log(t)], None}, dir'[Gz(t)] \in {dir[Gz(t)], None},
         \/ \A j \in jobs' : j.t # t
         \/ ~ posix
         \/ dir'[Gz(t)] = dir[Gz(t)]
         \/ dir'[Log(t)] = None
         \/ file[dir[Log(t)]].data \subseteq Excused'
  PROVE  (Orderly(t) \/ Disorderly(t))'
<1>1. Muddled' = Muddled /\ Excused \subseteq Excused'
  BY DEF Muddled, Excused
<1>2. CASE Orderly(t)
  <2>1. ASSUME NEW j \in jobs', j.t = t
        PROVE  /\ j.pc = "open" => dir'[Gz(t)] = None
               /\ j.pc # "open" => dir'[Log(t)] \in {None, j.in}
               /\ j.pc = "copy" => dir'[Gz(t)] \in {None, j.out} /\ file'[j.out].data = {}
    BY <1>2, <2>1 DEF Orderly
  <2>2. ASSUME NEW j \in jobs', j.t = t, posix, j.pc # "open", dir'[Log(t)] # None,
               NEW m \in file[dir[Log(t)]].data \ Excused'
        PROVE  dir'[Gz(t)] # None /\ (j.pc = "remove" => m \in file[dir'[Gz(t)]].data)
    <3>1. dir[Gz(t)] # None /\ (j.pc = "remove" => m \in file[dir[Gz(t)]].data)
      BY <1>1, <1>2, <2>2 DEF Orderly
    <3>2. QED
      BY <2>2, <3>1
  <2>3. /\ \A j, k \in jobs' : j.t = t /\ k.t = t => j = k
        /\ dir'[Log(t)] # None => \A m \in file[dir[Log(t)]].data \ Muddled :
                                    file[dir[Log(t)]].mtime <= t
    BY <1>2 DEF Orderly
  <2>4. dir'[Log(t)] # None => dir'[Log(t)] = dir[Log(t)]
    OBVIOUS
  <2>5. dir'[Gz(t)] # None => dir'[Gz(t)] = dir[Gz(t)]
    OBVIOUS
  <2>6. QED
    BY <1>1, <2>1, <2>2, <2>3, <2>4, <2>5 DEF Orderly
<1>3. CASE Disorderly(t)
  <2>1. LogFiles(t)' \subseteq LogFiles(t) /\ GzFiles(t)' \subseteq GzFiles(t)
    BY Numbers DEF LogFiles, GzFiles
  <2>2. QED
    BY <1>1, <1>3, <2>1 DEF Disorderly
<1>4. QED
  BY <1>2, <1>3

\* The current file becomes the one of the second, if there is none.
LEMMA SecondBegins ==
  ASSUME TypeOK, PlacesOK, TimesOK, NEW s \in Store, Rename(s), Renamed(s),
         NEW t \in Time, t = now
  PROVE  (Orderly(t) \/ Disorderly(t))'
<1>1. /\ dir'[Log(t)] = dir[Current] /\ dir[Current] \in File
      /\ dir'[Gz(t)] = dir[Gz(t)] /\ GzFiles(t)' = GzFiles(t)
      /\ LogFiles(t)' \subseteq LogFiles(t) \cup {dir[Current]}
      /\ file' = file
  BY RenamedPlaces, RenameDoes
<1>2. \/ jobs' = jobs
      \/ \E k \in Job : jobs' = jobs \cup {k} /\ k.pc = "open"
  BY RenameDoes
<1>3. CASE Clash(t)
  <2>1. /\ file[dir[Current]].data \subseteq clashed'
        /\ \A f \in LogFiles(t) \cup GzFiles(t) : file[f].data \subseteq clashed'
    BY <1>3, ClashedType
  <2>2. QED
    BY <1>1, <2>1 DEF Disorderly, Muddled
<1>4. CASE ~ Clash(t)
  <2>1. dir[Gz(t)] = None /\ \A j \in jobs : j.t # t
    BY <1>4 DEF Clash
  <2>2. file[dir[Current]].mtime <= t
    BY <1>1 DEF TimesOK
  <2>3. \A j \in jobs' : j.t = t => j.pc = "open"
    BY <1>2, <2>1
  <2>4. \A j, k \in jobs' : j.t = t /\ k.t = t => j = k
    BY <1>2, <2>1
  <2>5. QED
    BY <1>1, <2>1, <2>2, <2>3, <2>4 DEF Orderly
<1>5. QED
  BY <1>3, <1>4

\* The compressed file of the second is created.
LEMMA SecondOpens ==
  ASSUME TypeOK, JobsOK, PlacesOK, TimesOK, NEW j \in jobs, NEW f \in File, NEW k \in Job,
         OpensGz(j, f, k), j.pc = "open", UNCHANGED <<posix, clashed, mixed>>,
         dir[Log(j.t)] # None,
         NEW t \in Time, t = j.t, Orderly(t) \/ Disorderly(t)
  PROVE  (Orderly(t) \/ Disorderly(t))'
<1>1. /\ file'[f].data = {} /\ file'[f].mtime = now
      /\ \A g \in File : g # f => file'[g] = file[g]
      /\ jobs' = (jobs \ {j}) \cup {k}
      /\ k.t = t /\ k.pc = "copy" /\ k.in = dir[Log(t)] /\ k.out = f
      /\ dir'[Gz(t)] = f /\ dir'[Log(t)] = dir[Log(t)]
      /\ LogFiles(t)' \subseteq LogFiles(t)
      /\ GzFiles(t)' \subseteq GzFiles(t) \cup {f}
      /\ f \notin LogFiles(t)
  BY DEF OpensGz
<1>2. dir[Log(t)] \in LogFiles(t) /\ dir[Log(t)] \in File /\ f # None
  BY NameFiles, Numbers DEF LogFiles
<1>3. file'[dir[Log(t)]] = file[dir[Log(t)]]
  BY <1>1, <1>2
<1>4. Muddled' = Muddled
  BY DEF Muddled
<1>5. CASE Orderly(t)
  <2>1. \A i \in jobs' : i.t = t => i = k
    BY <1>1, <1>5 DEF Orderly
  <2>2. \A m \in file[dir[Log(t)]].data \ Muddled : file[dir[Log(t)]].mtime <= t
    BY <1>2, <1>5, Numbers DEF Orderly
  <2>3. QED
    BY <1>1, <1>2, <1>3, <1>4, <2>1, <2>2 DEF Orderly
<1>6. CASE Disorderly(t)
  <2>1. \A g \in LogFiles(t) \cup GzFiles(t) : g \in File
    BY DEF LogFiles, GzFiles
  <2>2. \A g \in LogFiles(t)' \cup GzFiles(t)' : file'[g].data \subseteq Muddled
    BY <1>1, <1>6, <2>1 DEF Disorderly
  <2>3. QED
    BY <1>4, <2>2 DEF Disorderly
<1>7. QED
  BY <1>5, <1>6

\* The rotated file of the second is copied.
LEMMA SecondCopies ==
  ASSUME TypeOK, JobsOK, PlacesOK, SweepsOK, NEW j \in jobs, CompressCopy(j),
         NEW t \in Time, t = j.t, Orderly(t) \/ Disorderly(t)
  PROVE  (Orderly(t) \/ Disorderly(t))'
<1>1. /\ j.pc = "copy" /\ j.in \in File /\ j.out \in File
      /\ \A f \in File : f # j.out => file'[f] = file[f]
      /\ file'[j.out].data = file[j.in].data /\ file'[j.out].mtime = now
      /\ UNCHANGED <<posix, dir, clashed, mixed, expired>>
  BY CompressCopyDoes DEF history
<1>2. PICK k \in Job : /\ jobs' = (jobs \ {j}) \cup {k}
                       /\ k.t = t /\ k.pc = "remove" /\ k.in = j.in /\ k.out = None
  BY CompressCopyDoes
<1>3. /\ j.in \in LogFiles(t) /\ j.out \in GzFiles(t)
      /\ LogFiles(t) \cap GzFiles(t) = {}
      /\ dir[Log(t)] # None => dir[Log(t)] \in LogFiles(t)
  BY <1>1, JobFiles, NameFiles, Numbers DEF PlacesOK
<1>4. \A g \in LogFiles(t) : file'[g] = file[g]
  <2>1. \A g \in LogFiles(t) : g \in File /\ g # j.out
    BY <1>3 DEF LogFiles
  <2>2. QED
    BY <1>1, <2>1
<1>5. Muddled' = Muddled /\ Excused' = Excused
  BY <1>1 DEF Muddled, Excused
<1>6. CASE Orderly(t)
  <2>1. \A i \in jobs' : i.t = t => i = k
    BY <1>2, <1>6 DEF Orderly
  <2>2. dir[Log(t)] \in {None, j.in} /\ dir[Gz(t)] \in {None, j.out}
    BY <1>1, <1>6 DEF Orderly
  <2>3. posix /\ dir[Log(t)] # None => \A m \in file[j.in].data \ Excused :
                                         dir[Gz(t)] # None /\ m \in file'[dir[Gz(t)]].data
    BY <1>1, <1>6, <2>2 DEF Orderly
  <2>4. dir[Log(t)] # None =>
          \A m \in file[dir[Log(t)]].data \ Muddled : file[dir[Log(t)]].mtime <= t
    BY <1>6 DEF Orderly
  <2>6. dir[Log(t)] # None => file'[dir[Log(t)]] = file[j.in] /\ dir[Log(t)] = j.in
    BY <1>3, <1>4, <2>2
  <2>7. QED
    BY <1>1, <1>2, <1>5, <2>1, <2>2, <2>3, <2>4, <2>6 DEF Orderly
<1>7. CASE Disorderly(t)
  <2>1. LogFiles(t)' \subseteq LogFiles(t) /\ GzFiles(t)' \subseteq GzFiles(t)
    BY RemovedNames
  <2>2. \A g \in GzFiles(t) : g \in File
    BY DEF GzFiles
  <2>3. \A g \in GzFiles(t) : file'[g].data \subseteq Muddled
    BY <1>1, <1>3, <1>7, <2>2 DEF Disorderly
  <2>4. \A g \in LogFiles(t) : file'[g].data \subseteq Muddled
    BY <1>4, <1>7 DEF Disorderly
  <2>5. QED
    BY <1>5, <2>1, <2>3, <2>4 DEF Disorderly
<1>8. QED
  BY <1>6, <1>7

\* What is excepted stays so in every step.
LEMMA MuddledGrows ==
  ASSUME TypeOK, StoresOK, DataOK, [Next]_vars
  PROVE  /\ mixed \subseteq mixed' /\ clashed \subseteq clashed' /\ expired \subseteq expired'
         /\ Muddled \subseteq Muddled' /\ Excused \subseteq Excused'
<1>1. ASSUME NEW s \in Store, Write(s)
      PROVE  /\ mixed \subseteq mixed' /\ clashed \subseteq clashed' /\ expired \subseteq expired'
  BY <1>1, WriteDoes DEF Adds
<1>2. ASSUME NEW s \in Store, Rename(s)
      PROVE  /\ mixed \subseteq mixed' /\ clashed \subseteq clashed' /\ expired \subseteq expired'
  BY <1>2, RenameDoes, ClashedType
<1>3. ASSUME NEW s \in Store, Reopen(s)
      PROVE  /\ mixed \subseteq mixed' /\ clashed \subseteq clashed' /\ expired \subseteq expired'
  BY <1>3, ReopenDoes DEF Adds
<1>4. ASSUME NEW s \in Store, NewStore(s) \/ NewStoreFails(s)
      PROVE  /\ mixed \subseteq mixed' /\ clashed \subseteq clashed' /\ expired \subseteq expired'
  BY <1>4, NewStoreDoes DEF history
<1>5. ASSUME NEW s \in Store, CleanupRemove(s)
      PROVE  /\ mixed \subseteq mixed' /\ clashed \subseteq clashed' /\ expired \subseteq expired'
  BY <1>5 DEF CleanupRemove
<1>6. ASSUME \/ \E s \in Store : Close(s) \/ CleanupList(s) \/ CleanupInfo(s)
             \/ \E j \in jobs : \/ CompressOpen(j) \/ CompressCopy(j)
                                \/ CompressRemove(j) \/ CompressFail(j)
             \/ Tick \/ Crash \/ UNCHANGED vars
      PROVE  /\ mixed \subseteq mixed' /\ clashed \subseteq clashed' /\ expired \subseteq expired'
  BY <1>6 DEF Close, CleanupList, CleanupInfo, CompressOpen, CompressCopy, CompressRemove,
              CompressFail, Tick, Crash, vars, history
<1>7. mixed \subseteq mixed' /\ clashed \subseteq clashed' /\ expired \subseteq expired'
  BY <1>1, <1>2, <1>3, <1>4, <1>5, <1>6 DEF Next
<1>8. QED
  BY <1>7 DEF Muddled, Excused

\* Every second is in order, or two rotations shared its name.
LEMMA SecondsStep ==
  TypeOK /\ StoresOK /\ JobsOK /\ PlacesOK /\ CauseInv /\ TimesOK /\ DataOK /\ SweepsOK
  /\ SecondsOK /\ [Next]_vars
  => SecondsOK'
<1> SUFFICES ASSUME TypeOK, StoresOK, JobsOK, PlacesOK, CauseInv, TimesOK, DataOK,
                    SweepsOK, SecondsOK, [Next]_vars, NEW t \in Time
             PROVE  (Orderly(t) \/ Disorderly(t))'
  BY DEF SecondsOK
<1>1. Orderly(t) \/ Disorderly(t)
  BY DEF SecondsOK
<1>2. /\ Muddled \subseteq Muddled' /\ Excused \subseteq Excused'
      /\ expired \subseteq expired'
  BY MuddledGrows
<1>3. LogFiles(t) \subseteq File /\ GzFiles(t) \subseteq File
  BY DEF LogFiles, GzFiles
<1>0. ASSUME NEW s \in Store, NewStore(s) \/ NewStoreFails(s) \/ Reopen(s), Finds(s),
             UNCHANGED <<posix, jobs>>
      PROVE  (Orderly(t) \/ Disorderly(t))'
  <2>1. \A f \in LogFiles(t) \cup GzFiles(t) : file'[f] = file[f]
    BY <1>0, <1>3, FindsFiles, FreshHasNoPlace
  <2>2. dir'[Log(t)] = dir[Log(t)] /\ dir'[Gz(t)] = dir[Gz(t)]
    BY <1>0, FindsFiles
  <2>3. QED
    BY <1>0, <1>1, <1>2, <2>1, <2>2, SecondKept
<1>4. ASSUME NEW s \in Store, NewStore(s) \/ NewStoreFails(s) PROVE (Orderly(t) \/ Disorderly(t))'
  BY <1>0, <1>4, NewStoreDoes
<1>5. ASSUME NEW s \in Store, Write(s) PROVE (Orderly(t) \/ Disorderly(t))'
  <2>1. UNCHANGED <<posix, jobs, dir>>
    BY <1>5, WriteDoes
  <2>2. CASE file' = file
    BY <1>1, <1>2, <2>1, <2>2, SecondKept
  <2>3. CASE Adds(s, next + 1, handle[s])
    <3>1. ASSUME NEW f \in LogFiles(t) \cup GzFiles(t)
          PROVE  \/ file'[f] = file[f]
                 \/ f \in LogFiles(t) /\ file'[f].data \subseteq Muddled'
      <4>1. CASE f # handle[s]
        BY <1>3, <2>3, <4>1 DEF Adds
      <4>2. CASE f = handle[s]
        <5>1. f \in LogFiles(t) /\ f # dir[Current]
          BY <3>1, <4>2 DEF PlacesOK
        <5>2. handle[s] # None
          BY <1>3, <4>2, <5>1, Numbers
        <5>3. s \in split
          BY <4>2, <5>1, <5>2 DEF CauseInv, HandlesOK
        <5>4. file'[f].data \subseteq mixed'
          BY <2>3, <4>2, <5>3 DEF Adds
        <5>5. QED
          BY <5>1, <5>4 DEF Muddled
      <4>3. QED
        BY <4>1, <4>2
    <3>2. QED
      BY <1>1, <1>2, <2>1, <3>1, SecondKept
  <2>4. QED
    BY <1>5, <2>2, <2>3, WriteDoes
<1>6. ASSUME NEW s \in Store, Rename(s) PROVE (Orderly(t) \/ Disorderly(t))'
  <2>1. UNCHANGED <<posix, file>> /\ now \in Time
    BY <1>6, RenameDoes
  <2>2. CASE Renamed(s) /\ t = now
    BY <1>6, <2>2, SecondBegins
  <2>3. CASE Renamed(s) /\ t # now
    <3>1. dir'[Log(t)] = dir[Log(t)] /\ dir'[Gz(t)] = dir[Gz(t)]
      BY <1>6, <2>1, <2>3, RenamedPlaces
    <3>2. \A j \in jobs \cup jobs' : j.t = t => (j \in jobs' <=> j \in jobs)
      BY <1>6, <2>3, RenameDoes
    <3>3. QED
      BY <1>1, <1>2, <2>1, <3>1, <3>2, SecondKept
  <2>4. CASE ~ Renamed(s)
    <3>1. UNCHANGED <<dir, jobs>>
      BY <1>6, <2>4, RenameDoes
    <3>2. QED
      BY <1>1, <1>2, <2>1, <3>1, SecondKept
  <2>5. QED
    BY <2>2, <2>3, <2>4
<1>7. ASSUME NEW s \in Store, Reopen(s) PROVE (Orderly(t) \/ Disorderly(t))'
  <2>1. UNCHANGED <<posix, jobs>>
    BY <1>7, ReopenDoes
  <2>2. CASE Finds(s)
    BY <1>0, <1>7, <2>1, <2>2
  <2>3. CASE Adds(s, msg[s], CurrentFile)
    <3>1. CurrentFile \notin LogFiles(t) \cup GzFiles(t)
      BY <1>7, CreatedPlaces
    <3>2. \A f \in LogFiles(t) \cup GzFiles(t) : file'[f] = file[f]
      BY <1>3, <2>3, <3>1 DEF Adds
    <3>3. dir'[Log(t)] = dir[Log(t)] /\ dir'[Gz(t)] = dir[Gz(t)]
      BY <1>7, CreatedPlaces
    <3>4. QED
      BY <1>1, <1>2, <2>1, <3>2, <3>3, SecondKept
  <2>4. QED
    BY <1>7, <2>2, <2>3, ReopenDoes
<1>8. ASSUME NEW j \in jobs, CompressOpen(j) PROVE (Orderly(t) \/ Disorderly(t))'
  <2>1. UNCHANGED <<posix, clashed, mixed>> /\ j.pc = "open"
    BY <1>8 DEF CompressOpen, history
  <2>2. CASE GivesUp(j)
    <3>1. jobs' = jobs \ {j} /\ dir' = dir /\ file' = file
      BY <2>2 DEF GivesUp, End
    <3>2. QED
      BY <1>1, <1>2, <2>1, <3>1, SecondFewer
  <2>3. CASE ~ GivesUp(j)
    <3>1. PICK f \in File, k \in Job : OpensGz(j, f, k)
      BY <1>8, <2>3, CompressOpens
    <3>5. dir[Log(j.t)] # None
      BY <1>8, <2>3 DEF CompressOpen, GivesUp
    <3>2. CASE t = j.t
      BY <1>1, <2>1, <3>1, <3>2, <3>5, SecondOpens
    <3>3. CASE t # j.t
      <4>1. /\ dir'[Log(t)] = dir[Log(t)] /\ dir'[Gz(t)] = dir[Gz(t)]
            /\ jobs' = (jobs \ {j}) \cup {k} /\ k.t = j.t
            /\ \A g \in File : g # f => file'[g] = file[g]
            /\ f \notin LogFiles(t) \cup GzFiles(t)
        BY <3>1, <3>3 DEF OpensGz
      <4>2. \A i \in jobs \cup jobs' : i.t = t => (i \in jobs' <=> i \in jobs)
        BY <3>3, <4>1
      <4>3. \A g \in LogFiles(t) \cup GzFiles(t) : file'[g] = file[g]
        BY <1>3, <4>1
      <4>4. QED
        BY <1>1, <1>2, <2>1, <4>1, <4>2, <4>3, SecondKept
    <3>4. QED
      BY <3>2, <3>3
  <2>4. QED
    BY <2>2, <2>3
<1>9. ASSUME NEW j \in jobs, CompressCopy(j) PROVE (Orderly(t) \/ Disorderly(t))'
  <2>1. CASE t = j.t
    BY <1>1, <1>9, <2>1, SecondCopies
  <2>2. CASE t # j.t
    <3>1. /\ UNCHANGED <<posix, dir>> /\ j.out \in File /\ j.out # None
          /\ \A f \in File : f # j.out => file'[f] = file[f]
          /\ \E k \in Job : jobs' = (jobs \ {j}) \cup {k} /\ k.t = j.t
      BY <1>9, CompressCopyDoes, Numbers
    <3>2. j.out \notin LogFiles(t) \cup GzFiles(t)
      BY <2>2, <3>1, JobFiles DEF PlacesOK
    <3>3. \A g \in LogFiles(t) \cup GzFiles(t) : file'[g] = file[g]
      BY <1>3, <3>1, <3>2
    <3>4. \A i \in jobs \cup jobs' : i.t = t => (i \in jobs' <=> i \in jobs)
      BY <2>2, <3>1
    <3>5. QED
      BY <1>1, <1>2, <3>1, <3>3, <3>4, SecondKept
  <2>3. QED
    BY <2>1, <2>2
<1>10. ASSUME NEW j \in jobs, CompressRemove(j) PROVE (Orderly(t) \/ Disorderly(t))'
  <2>1. UNCHANGED <<posix, file, clashed, mixed>> /\ jobs' = jobs \ {j}
    BY <1>10 DEF CompressRemove, End, history
  <2>2. j.t \in Time /\ (dir' = dir \/ dir' = [dir EXCEPT ![Log(j.t)] = None])
    BY <1>10, JobFiles DEF CompressRemove
  <2>3. dir'[Log(t)] \in {dir[Log(t)], None} /\ dir'[Gz(t)] = dir[Gz(t)]
    BY <2>2, Names DEF TypeOK
  <2>4. QED
    BY <1>1, <1>2, <2>1, <2>3, SecondFewer
<1>11. ASSUME NEW j \in jobs, CompressFail(j) PROVE (Orderly(t) \/ Disorderly(t))'
  <2>1. UNCHANGED <<posix, file, clashed, mixed>> /\ jobs' = jobs \ {j}
    BY <1>11 DEF CompressFail, End, history
  <2>2. j.t \in Time /\ (dir' = dir \/ dir' = [dir EXCEPT ![Gz(j.t)] = None])
    BY <1>11, JobFiles DEF CompressFail
  <2>3. /\ dir'[Log(t)] = dir[Log(t)] /\ dir'[Gz(t)] \in {dir[Gz(t)], None}
        /\ t # j.t => dir'[Gz(t)] = dir[Gz(t)]
    BY <2>2, Names DEF TypeOK
  <2>4. CASE t # j.t
    BY <1>1, <1>2, <2>1, <2>3, <2>4, SecondFewer
  <2>5. CASE t = j.t /\ Orderly(t)
    <3>1. \A i \in jobs' : i.t # t
      BY <2>1, <2>5 DEF Orderly
    <3>2. QED
      BY <1>1, <1>2, <2>1, <2>3, <3>1, SecondFewer
  <2>6. CASE t = j.t /\ Disorderly(t)
    <3>1. dir[Log(t)] = None \/ file[dir[Log(t)]].data \subseteq Muddled
      BY <2>6, NameFiles DEF Disorderly
    <3>2. Muddled \subseteq Excused'
      BY <1>2 DEF Excused
    <3>3. dir'[Log(t)] = None \/ file[dir[Log(t)]].data \subseteq Excused'
      BY <2>3, <3>1, <3>2
    <3>4. QED
      BY <1>1, <1>2, <2>1, <2>3, <3>3, SecondFewer
  <2>7. QED
    BY <1>1, <2>4, <2>5, <2>6
<1>12. ASSUME NEW s \in Store, CleanupRemove(s) PROVE (Orderly(t) \/ Disorderly(t))'
  <2>1. /\ UNCHANGED <<posix, file, clashed, mixed, jobs>>
        /\ dir' = dir \/ dir' = [dir EXCEPT ![at[s]] = None]
    BY <1>12 DEF CleanupRemove
  <2>2. /\ dir'[Log(t)] \in {dir[Log(t)], None} /\ dir'[Gz(t)] \in {dir[Gz(t)], None}
        /\ at[s] # Gz(t) => dir'[Gz(t)] = dir[Gz(t)]
    BY <2>1, Names DEF TypeOK
  <2>3. posix /\ at[s] = Gz(t) /\ dir[Log(t)] # None =>
          file[dir[Log(t)]].data \subseteq Excused
    <3>1. at[s] = Gz(t) => Log(t) \notin left[s] \cup {at[s]} /\ Gz(t) \in InHand(s)
      BY Names DEF SweepsOK, LooksOK, InHand
    <3>2. QED
      BY <3>1 DEF SweepsOK, LooksOK
  <2>4. \/ ~ posix
        \/ dir'[Gz(t)] = dir[Gz(t)]
        \/ dir'[Log(t)] = None
        \/ file[dir[Log(t)]].data \subseteq Excused'
    BY <1>2, <2>2, <2>3
  <2>5. QED
    BY <1>1, <1>2, <2>1, <2>2, <2>4, SecondFewer
<1>13. CASE Crash
  BY <1>1, <1>2, <1>13, SecondFewer DEF Crash
<1>14. ASSUME \/ \E s \in Store : Close(s) \/ CleanupList(s) \/ CleanupInfo(s)
              \/ Tick \/ UNCHANGED vars
       PROVE  (Orderly(t) \/ Disorderly(t))'
  <2>1. UNCHANGED <<posix, file, jobs, dir>>
    BY <1>14 DEF Close, CleanupList, CleanupInfo, Tick, vars
  <2>2. QED
    BY <1>1, <1>2, <2>1, SecondKept
<1>15. QED
  BY <1>4, <1>5, <1>6, <1>7, <1>8, <1>9, <1>10, <1>11, <1>12, <1>13, <1>14 DEF Next

-----------------------------------------------------------------------------
(* Where the messages are.                                                 *)

\* There is a copy of the message, readable or not.
Copied(m) == \E n \in Name : dir[n] # None /\ m \in file[dir[n]].data

\* What is in a file can be read.
LEMMA CopiedIsKept ==
  ASSUME TypeOK, DataOK, NEW m \in Msg
  PROVE  Kept(dir, file, m) <=> Copied(m)
BY DEF Kept, Copied, DataOK, TypeOK

\* A file that compressFile is going to write over has nothing but what is
\* excepted.
LEMMA NothingToLose ==
  ASSUME TypeOK, JobsOK, NEW j \in jobs, Orderly(j.t) \/ Disorderly(j.t),
         NEW m \in Msg \ Excused
  PROVE  /\ j.pc = "open" => dir[Gz(j.t)] = None \/ m \notin file[dir[Gz(j.t)]].data
         /\ j.pc = "copy" => /\ m \notin file[j.out].data
                             /\ dir[Gz(j.t)] = None \/ m \notin file[dir[Gz(j.t)]].data
         /\ j.pc = "remove" /\ dir[Log(j.t)] # None /\ m \in file[dir[Log(j.t)]].data =>
              /\ dir[Log(j.t)] = j.in
              /\ posix => dir[Gz(j.t)] # None /\ m \in file[dir[Gz(j.t)]].data
<1>1. j.t \in Time
  BY JobFiles
<1>2. CASE Orderly(j.t)
  BY <1>1, <1>2 DEF Orderly
<1>3. CASE Disorderly(j.t)
  <2>0. m \notin Muddled
    BY DEF Excused
  <2>1. dir[Log(j.t)] # None => m \notin file[dir[Log(j.t)]].data
    BY <1>1, <1>3, <2>0, NameFiles DEF Disorderly
  <2>2. dir[Gz(j.t)] # None => m \notin file[dir[Gz(j.t)]].data
    BY <1>1, <1>3, <2>0, NameFiles DEF Disorderly
  <2>3. j.pc = "copy" => m \notin file[j.out].data
    BY <1>3, <2>0, JobFiles DEF Disorderly, JobsOK
  <2>4. QED
    BY <2>1, <2>2, <2>3
<1>4. QED
  BY <1>2, <1>3

\* The last copy of a message goes by expiry alone.
LEMMA CopiesStay ==
  ASSUME TypeOK, StoresOK, JobsOK, PlacesOK, CauseInv, TimesOK, DataOK, SecondsOK,
         [Next]_vars, NEW m \in Msg \ Excused', Copied(m)
  PROVE  Copied(m)'
<1>1. m \notin Excused /\ m \notin clashed' /\ m \notin expired'
  BY MuddledGrows DEF Excused, Muddled
<1>2. PICK n \in Name : dir[n] # None /\ m \in file[dir[n]].data
  BY DEF Copied
<1>3. dir[n] \in File
  BY <1>2 DEF TypeOK
<1>0. ASSUME NEW s \in Store, Finds(s) PROVE Copied(m)'
  <2>1. dir'[n] = dir[n]
    <3>1. dir[Current] # None => dir'[Current] = dir[Current]
      BY <1>0, FindsFiles
    <3>2. \A t \in Time : dir'[Log(t)] = dir[Log(t)] /\ dir'[Gz(t)] = dir[Gz(t)]
      BY <1>0, FindsFiles
    <3>3. QED
      BY <1>2, <3>1, <3>2, Names
  <2>2. file'[dir[n]] = file[dir[n]]
    BY <1>0, <1>3, FindsFiles, FreshIsFree
  <2>3. QED
    BY <1>2, <2>1, <2>2 DEF Copied
<1>4. ASSUME NEW s \in Store, NewStore(s) \/ NewStoreFails(s) PROVE Copied(m)'
  BY <1>0, <1>4, NewStoreDoes
<1>5. ASSUME NEW s \in Store, Write(s) PROVE Copied(m)'
  <2>1. dir' = dir
    BY <1>5, WriteDoes
  <2>2. m \in file'[dir[n]].data
    <3>1. CASE file' = file
      BY <1>2, <3>1
    <3>2. CASE /\ Adds(s, next + 1, handle[s])
               /\ file'[handle[s]].data = file[handle[s]].data \cup {next + 1}
      BY <1>2, <1>3, <3>2 DEF Adds
    <3>3. QED
      BY <1>5, <3>1, <3>2, WriteDoes
  <2>3. QED
    BY <1>2, <2>1, <2>2 DEF Copied
<1>6. ASSUME NEW s \in Store, Rename(s) PROVE Copied(m)'
  <2>1. file' = file /\ now \in Time
    BY <1>6, RenameDoes
  <2>2. CASE Renamed(s)
    <3>1. PICK t \in Time : t = now
      BY <2>1
    <3>2. dir' = [dir EXCEPT ![Log(t)] = dir[Current], ![Current] = None]
      BY <1>6, <2>2, <3>1, RenameDoes
    <3>3. CASE n = Log(t)
      <4>1. Clash(now)
        BY <1>2, <3>1, <3>3 DEF Clash
      <4>2. dir[n] \in LogFiles(now)
        BY <1>2, <2>1, <3>1, <3>3, NameFiles
      <4>3. m \in clashed'
        BY <1>2, <1>6, <2>2, <4>1, <4>2, ClashedType
      <4>4. QED
        BY <1>1, <4>3
    <3>4. CASE n = Current
      <4>1. Log(t) \in Name /\ dir'[Log(t)] = dir[Current]
        BY <3>2, Names DEF TypeOK
      <4>2. QED
        BY <1>2, <2>1, <3>4, <4>1 DEF Copied
    <3>5. CASE n # Log(t) /\ n # Current
      <4>1. dir'[n] = dir[n]
        BY <3>2, <3>5 DEF TypeOK
      <4>2. QED
        BY <1>2, <2>1, <4>1 DEF Copied
    <3>6. QED
      BY <3>3, <3>4, <3>5
  <2>3. CASE ~ Renamed(s)
    <3>1. dir' = dir
      BY <1>6, <2>3, RenameDoes
    <3>2. QED
      BY <1>2, <2>1, <3>1 DEF Copied
  <2>4. QED
    BY <2>2, <2>3
<1>7. ASSUME NEW s \in Store, Reopen(s) PROVE Copied(m)'
  <2>1. CASE Finds(s)
    BY <1>0, <2>1
  <2>2. CASE /\ CanOpen /\ dir' = [dir EXCEPT ![Current] = CurrentFile]
             /\ Adds(s, msg[s], CurrentFile)
    <3>1. dir'[n] = dir[n]
      BY <1>2, <2>2, OtherNames, CurrentIsAFile
    <3>2. m \in file'[dir[n]].data
      <4>1. CASE dir[n] # CurrentFile
        BY <1>2, <1>3, <2>2, <4>1 DEF Adds
      <4>2. CASE dir[n] = CurrentFile
        <5>1. CurrentFile \notin Free
          BY <1>2, <4>2 DEF Free, Used
        <5>2. QED
          BY <1>2, <2>2, <4>2, <5>1 DEF Adds
      <4>3. QED
        BY <4>1, <4>2
    <3>3. QED
      BY <1>2, <3>1, <3>2 DEF Copied
  <2>3. QED
    BY <1>7, <2>1, <2>2, ReopenDoes
<1>8. ASSUME NEW j \in jobs, CompressOpen(j) PROVE Copied(m)'
  <2>1. CASE GivesUp(j)
    BY <1>2, <2>1 DEF GivesUp, Copied
  <2>2. CASE ~ GivesUp(j)
    <3>1. PICK f \in File, k \in Job : OpensGz(j, f, k)
      BY <1>8, <2>2, CompressOpens
    <3>2. dir[Gz(j.t)] = None \/ m \notin file[dir[Gz(j.t)]].data
      BY <1>1, <1>8, JobFiles, NothingToLose DEF CompressOpen, SecondsOK
    <3>3. dir[n] # f
      <4>1. CASE dir[Gz(j.t)] = None
        BY <1>2, <3>1, <4>1, FreshIsFree DEF OpensGz
      <4>2. CASE dir[Gz(j.t)] # None
        BY <1>2, <3>1, <3>2, <4>2 DEF OpensGz
      <4>3. QED
        BY <4>1, <4>2
    <3>4. dir'[n] = dir[n]
      <4>1. n # Gz(j.t)
        BY <1>2, <3>2
      <4>2. \/ n = Current
            \/ \E t \in Time : n = Log(t) \/ (n = Gz(t) /\ t # j.t)
        BY <4>1, Names
      <4>3. QED
        BY <3>1, <4>2 DEF OpensGz
    <3>5. file'[dir[n]] = file[dir[n]]
      BY <1>3, <3>1, <3>3 DEF OpensGz
    <3>6. QED
      BY <1>2, <3>4, <3>5 DEF Copied
  <2>3. QED
    BY <2>1, <2>2
<1>9. ASSUME NEW j \in jobs, CompressCopy(j) PROVE Copied(m)'
  <2>1. j.pc = "copy" /\ dir' = dir /\ \A f \in File : f # j.out => file'[f] = file[f]
    BY <1>9, CompressCopyDoes
  <2>2. dir[n] # j.out
    BY <1>1, <1>2, <2>1, JobFiles, NothingToLose DEF SecondsOK
  <2>3. QED
    BY <1>2, <1>3, <2>1, <2>2 DEF Copied
<1>10. ASSUME NEW j \in jobs, CompressRemove(j) PROVE Copied(m)'
  <2>1. /\ j.pc = "remove" /\ file' = file
        /\ \/ Movable(Log(j.t)) /\ dir' = [dir EXCEPT ![Log(j.t)] = None]
           \/ dir' = dir
    BY <1>10 DEF CompressRemove
  <2>2. CASE dir' = dir
    BY <1>2, <2>1, <2>2 DEF Copied
  <2>3. CASE dir' # dir /\ n # Log(j.t)
    <3>1. dir'[n] = dir[n]
      BY <2>1, <2>3 DEF TypeOK
    <3>2. QED
      BY <1>2, <2>1, <3>1 DEF Copied
  <2>4. CASE dir' # dir /\ n = Log(j.t)
    <3>1. /\ dir[Log(j.t)] = j.in
          /\ posix => dir[Gz(j.t)] # None /\ m \in file[dir[Gz(j.t)]].data
      BY <1>1, <1>2, <2>1, <2>4, JobFiles, NothingToLose DEF SecondsOK
    <3>2. posix
      BY <1>2, <2>1, <2>4, <3>1 DEF Movable, Held
    <3>3. Gz(j.t) \in Name /\ dir'[Gz(j.t)] = dir[Gz(j.t)]
      BY <2>1, JobFiles, Names DEF TypeOK
    <3>4. QED
      BY <2>1, <3>1, <3>2, <3>3 DEF Copied
  <2>5. QED
    BY <2>2, <2>3, <2>4
<1>11. ASSUME NEW j \in jobs, CompressFail(j) PROVE Copied(m)'
  <2>1. /\ j.pc = "copy" /\ file' = file
        /\ dir' = dir \/ dir' = [dir EXCEPT ![Gz(j.t)] = None]
    BY <1>11 DEF CompressFail
  <2>2. n # Gz(j.t)
    BY <1>1, <1>2, <2>1, JobFiles, NothingToLose DEF SecondsOK
  <2>3. dir'[n] = dir[n]
    BY <2>1, <2>2 DEF TypeOK
  <2>4. QED
    BY <1>2, <2>1, <2>3 DEF Copied
<1>12. ASSUME NEW s \in Store, CleanupRemove(s) PROVE Copied(m)'
  <2>1. /\ file' = file
        /\ dir' = dir \/ dir' = [dir EXCEPT ![at[s]] = None]
        /\ dir[at[s]] # None => file[dir[at[s]]].data \subseteq expired'
    BY <1>12 DEF CleanupRemove
  <2>2. n # at[s]
    BY <1>1, <1>2, <2>1
  <2>3. dir'[n] = dir[n]
    BY <2>1, <2>2 DEF TypeOK
  <2>4. QED
    BY <1>2, <2>1, <2>3 DEF Copied
<1>13. ASSUME \/ \E s \in Store : Close(s) \/ CleanupList(s) \/ CleanupInfo(s)
              \/ Tick \/ Crash \/ UNCHANGED vars
       PROVE  Copied(m)'
  <2>1. UNCHANGED <<dir, file>>
    BY <1>13 DEF Close, CleanupList, CleanupInfo, Tick, Crash, vars
  <2>2. QED
    BY <1>2, <2>1 DEF Copied
<1>14. QED
  BY <1>4, <1>5, <1>6, <1>7, <1>8, <1>9, <1>10, <1>11, <1>12, <1>13 DEF Next

\* What Write has returned nil for is in the current file, or excepted.
LEMMA WrittenIsCopied ==
  ASSUME TypeOK, StoresOK, PlacesOK, CauseInv, DataOK, [Next]_vars, NEW m \in Msg
  PROVE  written'[m] = written[m] \/ Copied(m)' \/ m \in mixed'
<1>1. ASSUME NEW s \in Store, Write(s), written' # written
      PROVE  written'[m] = written[m] \/ Copied(m)' \/ m \in mixed'
  <2>1. /\ dir' = dir /\ Adds(s, next + 1, handle[s]) /\ handle[s] # None
        /\ file'[handle[s]].data = file[handle[s]].data \cup {next + 1}
    BY <1>1, WriteDoes
  <2>2. SUFFICES ASSUME m = next + 1 PROVE Copied(m)' \/ m \in mixed'
    BY <2>1 DEF Adds
  <2>3. CASE s \in split
    BY <2>1, <2>2, <2>3 DEF Adds
  <2>4. CASE handle[s] = dir[Current]
    BY <2>1, <2>2, <2>4, Names DEF Copied
  <2>5. QED
    BY <2>1, <2>3, <2>4 DEF CauseInv, HandlesOK
<1>2. ASSUME NEW s \in Store, Reopen(s), written' # written
      PROVE  written'[m] = written[m] \/ Copied(m)'
  <2>1. /\ CanOpen /\ dir' = [dir EXCEPT ![Current] = CurrentFile]
        /\ Adds(s, msg[s], CurrentFile)
    BY <1>2, ReopenDoes
  <2>2. dir'[Current] = CurrentFile /\ CurrentFile # None
    BY <2>1, OtherNames, CurrentIsAFile
  <2>3. msg[s] \in file'[CurrentFile].data
    BY <2>1 DEF Adds
  <2>4. m = msg[s] => Copied(m)'
    BY <2>2, <2>3, Names DEF Copied
  <2>5. QED
    BY <2>1, <2>4 DEF Adds
<1>3. ASSUME NEW s \in Store, Rename(s) PROVE written' = written
  BY <1>3, RenameDoes
<1>4. ASSUME NEW s \in Store, NewStore(s) \/ NewStoreFails(s) PROVE written' = written
  BY <1>4, NewStoreDoes DEF history
<1>5. ASSUME \/ \E s \in Store : \/ CleanupList(s) \/ CleanupInfo(s) \/ CleanupRemove(s)
                                 \/ Close(s)
             \/ \E j \in jobs : \/ CompressOpen(j) \/ CompressCopy(j)
                                \/ CompressRemove(j) \/ CompressFail(j)
             \/ Tick \/ Crash \/ UNCHANGED vars
      PROVE  written' = written
  BY <1>5 DEF CleanupList, CleanupInfo, CleanupRemove, Close, CompressOpen, CompressCopy,
              CompressRemove, CompressFail, Tick, Crash, vars, history
<1>6. QED
  BY <1>1, <1>2, <1>3, <1>4, <1>5 DEF Next

\* Every accepted message has a copy, or is excepted.
LEMMA KeptStep ==
  TypeOK /\ StoresOK /\ JobsOK /\ PlacesOK /\ CauseInv /\ TimesOK /\ DataOK
  /\ SecondsOK /\ AcceptedIsKept /\ TypeOK' /\ DataOK' /\ [Next]_vars
  => AcceptedIsKept'
<1> SUFFICES ASSUME TypeOK, StoresOK, JobsOK, PlacesOK, CauseInv, TimesOK, DataOK,
                    SecondsOK, AcceptedIsKept, TypeOK', DataOK', [Next]_vars,
                    NEW m \in Msg, written'[m] <= MaxTime,
                    m \notin expired', m \notin clashed', m \notin mixed'
             PROVE  Kept(dir, file, m)'
  BY DEF AcceptedIsKept, Accepted, Kept
<1>1. /\ mixed \subseteq mixed' /\ clashed \subseteq clashed' /\ expired \subseteq expired'
      /\ m \notin Excused'
  BY MuddledGrows DEF Excused, Muddled
<1>2. Copied(m)' => Kept(dir, file, m)'
  BY DEF Kept, Copied, DataOK, TypeOK
<1>3. CASE written'[m] = written[m]
  <2>1. Kept(dir, file, m)
    BY <1>1, <1>3 DEF AcceptedIsKept, Accepted
  <2>2. Copied(m)
    BY <2>1, CopiedIsKept
  <2>3. QED
    BY <1>1, <1>2, <2>2, CopiesStay
<1>4. CASE written'[m] # written[m]
  BY <1>1, <1>2, <1>4, WrittenIsCopied
<1>5. QED
  BY <1>3, <1>4

-----------------------------------------------------------------------------
(* What cleanupOnce has looked at.                                         *)

\* An append to a rotated file is one to a file that has two stores.
LEMMA SplitAppends ==
  ASSUME TypeOK, PlacesOK, CauseInv, NEW s \in Store, NEW m, handle[s] # None,
         Adds(s, m, handle[s]), NEW t \in Time, NEW f \in LogFiles(t) \cup GzFiles(t)
  PROVE  /\ file'[f] = file[f] \/ file'[f].data \subseteq Muddled'
         /\ f \in File
<1>1. f \in File
  BY DEF LogFiles, GzFiles
<1>2. CASE f # handle[s]
  BY <1>1, <1>2 DEF Adds
<1>3. CASE f = handle[s]
  <2>1. f \in LogFiles(t) /\ f # dir[Current]
    BY <1>3 DEF PlacesOK
  <2>2. s \in split
    BY <1>3, <2>1 DEF CauseInv, HandlesOK
  <2>3. file'[f].data \subseteq mixed'
    BY <1>3, <2>2 DEF Adds
  <2>4. QED
    BY <1>1, <2>3 DEF Muddled
<1>4. QED
  BY <1>2, <1>3

\* The messages of the files of a second, that are not excepted, have been
\* written in it or before.
LEMMA DatedKept ==
  ASSUME DatedOK, Muddled \subseteq Muddled',
         \A f \in File : \A m \in file[f].data : written'[m] = written[m],
         \A t \in Time : \A f \in LogFiles(t)' \cup GzFiles(t)' :
           \/ file'[f].data \subseteq Muddled'
           \/ f \in LogFiles(t) \cup GzFiles(t) /\ file'[f] = file[f]
  PROVE  DatedOK'
<1> SUFFICES ASSUME NEW t \in Time, NEW f \in LogFiles(t)' \cup GzFiles(t)',
                    NEW m \in file'[f].data \ Muddled'
             PROVE  WrittenBy(m, t)'
  BY DEF DatedOK
<1>1. /\ f \in LogFiles(t) \cup GzFiles(t) /\ file'[f] = file[f]
      /\ m \in file[f].data \ Muddled
  OBVIOUS
<1>2. f \in File
  BY <1>1 DEF LogFiles, GzFiles
<1>3. WrittenBy(m, t)
  BY <1>1 DEF DatedOK
<1>4. QED
  BY <1>1, <1>2, <1>3 DEF WrittenBy

LEMMA DatedStep ==
  TypeOK /\ StoresOK /\ JobsOK /\ PlacesOK /\ CauseInv /\ TimesOK /\ DataOK /\ SweepsOK
  /\ DatedOK /\ [Next]_vars
  => DatedOK'
<1> SUFFICES ASSUME TypeOK, StoresOK, JobsOK, PlacesOK, CauseInv, TimesOK, DataOK,
                    SweepsOK, DatedOK, [Next]_vars
             PROVE  DatedOK'
  OBVIOUS
<1>1. Muddled \subseteq Muddled'
  BY MuddledGrows
<1>2. \A t \in Time : LogFiles(t) \subseteq File /\ GzFiles(t) \subseteq File
  BY DEF LogFiles, GzFiles
<1>3. \A f \in File : \A m \in file[f].data : m \in Msg
  BY DEF TypeOK, Inode
<1>4. /\ UNCHANGED <<file, written>>
      /\ \A t \in Time : LogFiles(t)' \subseteq LogFiles(t) /\ GzFiles(t)' \subseteq GzFiles(t)
      => DatedOK'
  BY <1>1, DatedKept
<1>5. ASSUME NEW s \in Store, NewStore(s) \/ NewStoreFails(s) \/ Reopen(s),
             Finds(s), written' = written
      PROVE  DatedOK'
  <2>1. \A t \in Time : LogFiles(t)' = LogFiles(t) /\ GzFiles(t)' = GzFiles(t)
    BY <1>5, CreatedPlaces
  <2>2. \A t \in Time : \A f \in LogFiles(t) \cup GzFiles(t) : file'[f] = file[f]
    BY <1>2, <1>5, FindsFiles, FreshHasNoPlace
  <2>3. QED
    BY <1>1, <1>5, <2>1, <2>2, DatedKept
<1>6. ASSUME NEW s \in Store, NewStore(s) \/ NewStoreFails(s) PROVE DatedOK'
  BY <1>5, <1>6, NewStoreDoes DEF history
<1>7. ASSUME NEW s \in Store, Write(s) PROVE DatedOK'
  <2>1. UNCHANGED <<dir, jobs>>
    BY <1>7, WriteDoes
  <2>2. \A t \in Time : LogFiles(t)' = LogFiles(t) /\ GzFiles(t)' = GzFiles(t)
    BY <2>1 DEF LogFiles, GzFiles
  <2>3. CASE UNCHANGED <<file, written>>
    BY <1>4, <2>2, <2>3
  <2>4. CASE Adds(s, next + 1, handle[s]) /\ handle[s] # None
    <3>1. \A t \in Time : \A f \in LogFiles(t) \cup GzFiles(t) :
            file'[f] = file[f] \/ file'[f].data \subseteq Muddled'
      BY <2>4, SplitAppends
    <3>2. \A f \in File : \A m \in file[f].data : written'[m] = written[m]
      BY <1>3, <2>4 DEF Adds
    <3>3. QED
      BY <1>1, <2>2, <3>1, <3>2, DatedKept
  <2>5. QED
    BY <1>7, <2>3, <2>4, WriteDoes
<1>8. ASSUME NEW s \in Store, Rename(s) PROVE DatedOK'
  <2>1. UNCHANGED <<file, written>> /\ now \in Time
    BY <1>8, RenameDoes
  <2>2. CASE Renamed(s)
    <3>1. PICK t \in Time : t = now
      BY <2>1
    <3>2. /\ dir[Current] \in File
          /\ \A u \in Time : GzFiles(u)' = GzFiles(u)
          /\ \A u \in Time : u # t => LogFiles(u)' = LogFiles(u)
          /\ LogFiles(t)' \subseteq LogFiles(t) \cup {dir[Current]}
      BY <1>8, <2>2, <3>1, RenamedPlaces
    <3>3. \A m \in file[dir[Current]].data : WrittenBy(m, t)
      BY <1>3, <3>1, <3>2 DEF TimesOK
    <3>4. \A u \in Time : \A f \in LogFiles(u)' \cup GzFiles(u)' :
            f \in LogFiles(u) \cup GzFiles(u) \/ (u = t /\ f = dir[Current])
      BY <3>2
    <3>5. \A u \in Time : \A f \in LogFiles(u)' \cup GzFiles(u)' :
            \A m \in file[f].data \ Muddled : WrittenBy(m, u)
      BY <3>3, <3>4 DEF DatedOK
    <3>6. \A u \in Time, m \in Msg : WrittenBy(m, u)' = WrittenBy(m, u)
      BY <2>1 DEF WrittenBy
    <3>7. ASSUME NEW u \in Time, NEW f \in LogFiles(u)' \cup GzFiles(u)',
                 NEW m \in file'[f].data \ Muddled'
          PROVE  WrittenBy(m, u)'
      <4>1. m \in file[f].data \ Muddled /\ f \in File
        BY <1>1, <1>2, <2>1, <3>2, <3>4
      <4>2. QED
        BY <1>3, <3>5, <3>6, <4>1
    <3>8. QED
      BY <3>7 DEF DatedOK
  <2>3. CASE ~ Renamed(s)
    <3>1. UNCHANGED <<dir, jobs>>
      BY <1>8, <2>3, RenameDoes
    <3>2. QED
      BY <1>4, <2>1, <3>1 DEF LogFiles, GzFiles
  <2>4. QED
    BY <2>2, <2>3
<1>9. ASSUME NEW s \in Store, Reopen(s) PROVE DatedOK'
  <2>1. CASE Finds(s) /\ UNCHANGED <<mixed, written>>
    BY <1>5, <1>9, <2>1
  <2>2. CASE Adds(s, msg[s], CurrentFile)
    <3>1. \A t \in Time : /\ LogFiles(t)' = LogFiles(t) /\ GzFiles(t)' = GzFiles(t)
                          /\ CurrentFile \notin LogFiles(t) \cup GzFiles(t)
      BY <1>9, CreatedPlaces
    <3>2. \A t \in Time : \A f \in LogFiles(t) \cup GzFiles(t) : file'[f] = file[f]
      BY <1>2, <2>2, <3>1 DEF Adds
    <3>3. \A f \in File : \A m \in file[f].data : written'[m] = written[m]
      BY <1>3, <2>2 DEF Adds
    <3>4. QED
      BY <1>1, <3>1, <3>2, <3>3, DatedKept
  <2>3. QED
    BY <1>9, <2>1, <2>2, ReopenDoes
<1>10. ASSUME NEW j \in jobs, CompressOpen(j) PROVE DatedOK'
  <2>1. UNCHANGED written
    BY <1>10 DEF CompressOpen, history
  <2>2. CASE GivesUp(j)
    <3>1. jobs' = jobs \ {j} /\ dir' = dir /\ file' = file
      BY <2>2 DEF GivesUp, End
    <3>2. \A t \in Time : LogFiles(t)' \subseteq LogFiles(t) /\ GzFiles(t)' \subseteq GzFiles(t)
      BY <3>1, FewerNames
    <3>3. QED
      BY <1>4, <2>1, <3>1, <3>2
  <2>3. CASE ~ GivesUp(j)
    <3>1. PICK f \in File, k \in Job : OpensGz(j, f, k)
      BY <1>10, <2>3, CompressOpens
    <3>2. /\ file'[f].data = {} /\ \A g \in File : g # f => file'[g] = file[g]
          /\ \A t \in Time : LogFiles(t)' \subseteq LogFiles(t)
          /\ \A t \in Time : GzFiles(t)' \subseteq GzFiles(t) \cup {f}
      <4>1. j.t \in Time
        BY JobFiles
      <4>2. QED
        BY <3>1, <4>1 DEF OpensGz
    <3>3. \A t \in Time : \A g \in LogFiles(t)' \cup GzFiles(t)' :
            \/ file'[g].data \subseteq Muddled'
            \/ g \in LogFiles(t) \cup GzFiles(t) /\ file'[g] = file[g]
      BY <1>2, <3>2
    <3>4. QED
      BY <1>1, <2>1, <3>3, DatedKept
  <2>4. QED
    BY <2>2, <2>3
<1>11. ASSUME NEW j \in jobs, CompressCopy(j) PROVE DatedOK'
  <2>1. /\ written' = written /\ clashed' = clashed /\ mixed' = mixed
        /\ j.pc = "copy" /\ j.in \in File /\ j.out \in File /\ j.t \in Time
        /\ \A f \in File : f # j.out => file'[f] = file[f]
        /\ file'[j.out].data = file[j.in].data
    BY <1>11, CompressCopyDoes DEF history
  <2>2. \A t \in Time : LogFiles(t)' \subseteq LogFiles(t) /\ GzFiles(t)' \subseteq GzFiles(t)
    BY <1>11, RemovedNames
  <2>3. j.in \in LogFiles(j.t) /\ j.out \in GzFiles(j.t)
    BY <2>1, JobFiles, Numbers
  <2>4. ASSUME NEW t \in Time, NEW f \in LogFiles(t)' \cup GzFiles(t)',
               NEW m \in file'[f].data \ Muddled'
        PROVE  WrittenBy(m, t)'
    <3>1. m \notin Muddled /\ f \in LogFiles(t) \cup GzFiles(t)
      BY <1>1, <2>2
    <3>2. CASE f = j.out
      <4>1. t = j.t
        BY <2>1, <2>3, <3>1, <3>2 DEF PlacesOK
      <4>2. WrittenBy(m, j.t)
        BY <2>1, <2>3, <3>1, <3>2 DEF DatedOK
      <4>3. QED
        BY <2>1, <4>1, <4>2 DEF WrittenBy
    <3>3. CASE f # j.out
      <4>1. m \in file[f].data
        BY <1>2, <2>1, <3>1, <3>3
      <4>2. QED
        BY <2>1, <3>1, <4>1 DEF DatedOK, WrittenBy
    <3>4. QED
      BY <3>2, <3>3
  <2>5. QED
    BY <2>4 DEF DatedOK
<1>12. ASSUME \/ \E j \in jobs : CompressRemove(j) \/ CompressFail(j)
              \/ \E s \in Store : CleanupRemove(s)
              \/ Crash
       PROVE  DatedOK'
  <2>1. UNCHANGED <<file, written>>
    BY <1>12 DEF CompressRemove, CompressFail, CleanupRemove, Crash, history
  <2>2. QED
    BY <1>4, <1>12, <2>1, RemovedNames
<1>13. ASSUME \/ \E s \in Store : Close(s) \/ CleanupList(s) \/ CleanupInfo(s)
              \/ Tick \/ UNCHANGED vars
       PROVE  DatedOK'
  <2>1. UNCHANGED <<file, written, dir, jobs>>
    BY <1>13 DEF Close, CleanupList, CleanupInfo, Tick, vars, history
  <2>2. QED
    BY <1>4, <2>1 DEF LogFiles, GzFiles
<1>14. QED
  BY <1>6, <1>7, <1>8, <1>9, <1>10, <1>11, <1>12, <1>13 DEF Next

\* None is no name.
LEMMA NoName ==
  /\ None # Current
  /\ \A t \in Time : Log(t) # None /\ Gz(t) # None
BY NameAssumption, Names

\* The rotated file of the second t is as it was, or gone, or excepted.
LogKept(t) ==
  dir'[Log(t)] # None =>
    \/ file'[dir'[Log(t)]].data \subseteq Muddled'
    \/ /\ dir'[Log(t)] = dir[Log(t)]
       /\ file'[dir[Log(t)]].data = file[dir[Log(t)]].data
       /\ \A m \in file[dir[Log(t)]].data : written'[m] = written[m]

\* The store does nothing about its cleanup.
SweepKept(s) ==
  /\ left'[s] = left[s] /\ at'[s] = at[s] /\ due'[s] = due[s]
  /\ life[s] \in {"open", "closed"} => life'[s] \in {"open", "closed"}

LEMMA SweepStays ==
  ASSUME TypeOK, NEW s \in Store, SweepOK(s), SweepKept(s), now' \in Nat, now <= now'
  PROVE  SweepOK(s)'
<1>1. due[s] \in Nat /\ now \in Nat /\ due[s] <= now
  BY DEF TypeOK, SweepOK
<1>2. due[s] <= now'
  BY <1>1
<1>3. QED
  BY <1>2 DEF SweepOK, SweepKept

LEMMA LooksStay ==
  ASSUME NEW s \in Store, NEW t \in Time, LooksOK(s, t), SweepKept(s), LogKept(t),
         posix' = posix, Muddled \subseteq Muddled', Excused \subseteq Excused'
  PROVE  LooksOK(s, t)'
<1>1. InHand(s)' = InHand(s)
  BY DEF InHand, SweepKept
<1>2. at'[s] = Gz(t) => Log(t) \notin left'[s]
  BY DEF LooksOK, SweepKept
<1>3. Gz(t) \in InHand(s)' => t + Setting[s].age <= due'[s]
  BY <1>1 DEF LooksOK, SweepKept
<1>4. ASSUME Log(t) \in InHand(s)', dir'[Log(t)] # None,
             NEW m \in file'[dir'[Log(t)]].data \ Muddled', written'[m] <= MaxTime
      PROVE  written'[m] + Setting[s].age <= due'[s]
  <2>1. /\ dir'[Log(t)] = dir[Log(t)] /\ m \in file[dir[Log(t)]].data \ Muddled
        /\ written'[m] = written[m]
    BY <1>4 DEF LogKept
  <2>2. written[m] + Setting[s].age <= due[s]
    BY <1>1, <1>4, <2>1 DEF LooksOK
  <2>3. QED
    BY <2>1, <2>2 DEF SweepKept
<1>5. ASSUME posix', Gz(t) \in left'[s] \cup {at'[s]}, Log(t) \notin left'[s] \cup {at'[s]},
             dir'[Log(t)] # None, t + Setting[s].age <= due'[s]
      PROVE  file'[dir'[Log(t)]].data \subseteq Excused'
  <2>1. CASE file'[dir'[Log(t)]].data \subseteq Muddled'
    BY <2>1 DEF Excused
  <2>2. CASE /\ dir'[Log(t)] = dir[Log(t)]
             /\ file'[dir[Log(t)]].data = file[dir[Log(t)]].data
    <3>1. file[dir[Log(t)]].data \subseteq Excused
      BY <1>5, <2>2 DEF LooksOK, SweepKept
    <3>2. QED
      BY <2>2, <3>1
  <2>3. QED
    BY <1>5, <2>1, <2>2 DEF LogKept
<1>6. QED
  BY <1>2, <1>3, <1>4, <1>5 DEF LooksOK

\* The compressed file of a second looks as old as the second, or younger.
LEMMA GzIsYoung ==
  ASSUME TypeOK, TimesOK, NEW t \in Time, NEW a \in Nat, NEW d \in Nat, dir[Gz(t)] # None,
         file[dir[Gz(t)]].mtime + a <= d
  PROVE  t + a <= d
<1>1. PICK f \in File : f = dir[Gz(t)]
  BY Names DEF TypeOK
<1>2. file[f].mtime \in Nat /\ t \in Nat /\ t <= file[f].mtime
  BY <1>1, Numbers DEF TypeOK, Inode, TimesOK
<1>3. file[f].mtime + a <= d
  BY <1>1
<1>4. QED
  BY <1>2, <1>3

\* What is in a file is at least as old as it looks.
LEMMA MessagesAreOld ==
  ASSUME TypeOK, TimesOK, NEW n \in Name, NEW a \in Nat, NEW d \in Nat, dir[n] # None,
         file[dir[n]].mtime + a <= d, NEW m \in file[dir[n]].data, written[m] <= MaxTime
  PROVE  written[m] + a <= d
<1>1. PICK f \in File : f = dir[n]
  BY DEF TypeOK
<1>2. m \in Msg /\ file[f].mtime \in Nat
  BY <1>1 DEF TypeOK, Inode
<1>3. written[m] \in Nat /\ written[m] <= file[f].mtime
  BY <1>1, <1>2, Numbers DEF TypeOK, TimesOK, WrittenBy
<1>4. file[f].mtime + a <= d
  BY <1>1
<1>5. QED
  BY <1>2, <1>3, <1>4

\* The listing: on Windows it has the ages too.
LEMMA SweepListed ==
  ASSUME TypeOK, TimesOK, NEW s \in Store, CleanupList(s), NEW t \in Time
  PROVE  SweepOK(s)' /\ LooksOK(s, t)'
<1>1. /\ life[s] \in {"open", "closed"} /\ Setting[s].age > 0 /\ at[s] = None
      /\ UNCHANGED <<posix, now, dir, file, life, at, written, clashed, mixed, expired>>
  BY DEF CleanupList, store, history
<1>2. /\ due'[s] = now
      /\ left'[s] = IF posix THEN {n \in Name \ {Current} : dir[n] # None}
                    ELSE {n \in Name : Old(s, n, now)}
  BY DEF CleanupList, TypeOK
<1>3. now \in Nat /\ Setting[s].age \in Nat
  BY Numbers DEF TypeOK
<1>4. SweepOK(s)'
  BY <1>1, <1>2, <1>3, NoName DEF SweepOK, Old
<1>5. CASE posix
  <2>1. InHand(s)' = {None}
    BY <1>1, <1>5 DEF InHand
  <2>2. Log(t) \notin left'[s] => dir'[Log(t)] = None
    BY <1>1, <1>2, <1>5, Names
  <2>3. QED
    BY <1>1, <1>4, <2>1, <2>2, NoName DEF LooksOK
<1>6. CASE ~ posix
  <2>1. InHand(s)' = {None} \cup {n \in Name : Old(s, n, now)}
    BY <1>1, <1>2, <1>6 DEF InHand
  <2>2. Gz(t) \in InHand(s)' => t + Setting[s].age <= now
    BY <1>3, <2>1, NoName, GzIsYoung DEF Old
  <2>3. ASSUME Log(t) \in InHand(s)', dir[Log(t)] # None,
               NEW m \in file[dir[Log(t)]].data, written[m] <= MaxTime
        PROVE  written[m] + Setting[s].age <= now
    <3>1. Old(s, Log(t), now) /\ Log(t) \in Name
      BY <2>1, <2>3, NoName
    <3>2. QED
      BY <1>3, <2>3, <3>1, MessagesAreOld DEF Old
  <2>4. QED
    BY <1>1, <1>2, <1>4, <1>6, <2>2, <2>3, NoName DEF LooksOK
<1>7. QED
  BY <1>5, <1>6

\* A look: what is young is left alone, and what is old is to be removed.
LEMMA SweepLooks ==
  ASSUME TypeOK, TimesOK, SweepsOK, NEW s \in Store, CleanupInfo(s), NEW t \in Time,
         Orderly(t) \/ Disorderly(t)
  PROVE  SweepOK(s)' /\ LooksOK(s, t)'
<1>1. PICK n \in left[s] :
        /\ at[s] = None
        /\ \A k \in left[s] \ {n} : Before(n, k)
        /\ left' = [left EXCEPT ![s] = @ \ {n}]
        /\ at' = [at EXCEPT ![s] = IF ~posix \/ Old(s, n, due[s]) THEN n ELSE None]
        /\ UNCHANGED <<posix, now, dir, file, store, jobs, due, next, history>>
  BY DEF CleanupInfo
<1>2. /\ left'[s] = left[s] \ {n} /\ n \in Name
      /\ at'[s] = IF ~posix \/ Old(s, n, due[s]) THEN n ELSE None
      /\ UNCHANGED <<posix, now, dir, file, life, due, written, clashed, mixed, expired>>
  BY <1>1 DEF TypeOK, store, history
<1>3. /\ SweepOK(s) /\ LooksOK(s, t)
      /\ due[s] \in Nat /\ Setting[s].age \in Nat /\ t \in Nat
      /\ Muddled' = Muddled /\ Excused' = Excused
  BY <1>2, Numbers DEF SweepsOK, TypeOK, Muddled, Excused
<1>4. SweepOK(s)'
  BY <1>1, <1>2, <1>3, NoName DEF SweepOK
<1>5. n = Gz(t) => Log(t) \notin left'[s]
  <2>1. ~ Before(Gz(t), Log(t)) /\ Log(t) # Gz(t)
    BY <1>3 DEF Before, Log, Gz
  <2>2. QED
    BY <1>1, <1>2, <2>1
<1>6. Gz(t) \in InHand(s)' => t + Setting[s].age <= due[s]
  <2>1. CASE posix
    <3>1. Gz(t) \in InHand(s)' => Old(s, Gz(t), due[s])
      BY <1>2, <2>1, NoName DEF InHand
    <3>2. QED
      BY <1>3, <3>1, GzIsYoung DEF Old
  <2>2. CASE ~ posix
    BY <1>1, <1>2, <1>3, <2>2 DEF InHand, LooksOK
  <2>3. QED
    BY <2>1, <2>2
<1>7. ASSUME Log(t) \in InHand(s)', dir[Log(t)] # None,
             NEW m \in file[dir[Log(t)]].data \ Muddled, written[m] <= MaxTime
      PROVE  written[m] + Setting[s].age <= due[s]
  <2>1. CASE posix
    <3>1. Old(s, Log(t), due[s]) /\ Log(t) \in Name
      BY <1>2, <1>7, <2>1, NoName DEF InHand
    <3>2. QED
      BY <1>3, <1>7, <3>1, MessagesAreOld DEF Old
  <2>2. CASE ~ posix
    <3>1. Log(t) \in InHand(s)
      BY <1>1, <1>2, <1>7, <2>2 DEF InHand
    <3>2. QED
      BY <1>3, <1>7, <3>1 DEF LooksOK
  <2>3. QED
    BY <2>1, <2>2
<1>8. ASSUME posix, Gz(t) \in left'[s] \cup {at'[s]}, Log(t) \notin left'[s] \cup {at'[s]},
             dir[Log(t)] # None, t + Setting[s].age <= due[s]
      PROVE  file[dir[Log(t)]].data \subseteq Excused
  <2>1. Gz(t) \in left[s]
    BY <1>1, <1>2, <1>8, NoName
  <2>2. CASE Log(t) \notin left[s]
    BY <1>1, <1>3, <1>8, <2>1, <2>2, NoName DEF LooksOK
  <2>3. CASE Log(t) \in left[s]
    <3>1. ~ Old(s, Log(t), due[s])
      BY <1>2, <1>8, <2>3
    <3>2. ~ (file[dir[Log(t)]].mtime + Setting[s].age <= due[s])
      BY <1>8, <3>1, Names DEF Old
    <3>3. CASE Orderly(t)
      <4>1. PICK f \in File : f = dir[Log(t)]
        BY <1>8, Names DEF TypeOK
      <4>2. file[f].mtime \in Nat
        BY DEF TypeOK, Inode
      <4>3. ~ (file[f].mtime <= t)
        BY <1>3, <1>8, <3>2, <4>1, <4>2
      <4>4. \A m \in file[f].data \ Muddled : FALSE
        BY <1>8, <3>3, <4>1, <4>3 DEF Orderly
      <4>5. QED
        BY <4>1, <4>4 DEF Excused
    <3>4. CASE Disorderly(t)
      BY <1>8, <3>4, NameFiles DEF Disorderly, Excused
    <3>5. QED
      BY <3>3, <3>4
  <2>4. QED
    BY <2>2, <2>3
<1>9. at'[s] = Gz(t) => Log(t) \notin left'[s]
  BY <1>2, <1>5, NoName
<1>10. QED
  BY <1>2, <1>3, <1>4, <1>6, <1>7, <1>8, <1>9 DEF LooksOK

\* The removal, or what is left when it fails.
LEMMA SweepRemoves ==
  ASSUME TypeOK, SweepsOK, NEW s \in Store, CleanupRemove(s), NEW t \in Time
  PROVE  SweepOK(s)' /\ LooksOK(s, t)'
<1>1. /\ at[s] # None /\ at[s] \in Name /\ at'[s] = None
      /\ UNCHANGED <<posix, now, file, life, due, left, written, clashed, mixed>>
      /\ \A n \in Name : dir'[n] \in {dir[n], None}
      /\ dir[at[s]] # None => file[dir[at[s]]].data \subseteq expired'
      /\ expired \subseteq expired'
  BY DEF CleanupRemove, TypeOK, store
<1>2. /\ SweepOK(s) /\ LooksOK(s, t) /\ Muddled' = Muddled
      /\ Excused \subseteq Excused' /\ expired' \subseteq Excused'
  BY <1>1 DEF SweepsOK, Muddled, Excused
<1>3. SweepOK(s)'
  BY <1>1, <1>2, NoName DEF SweepOK
<1>4. dir'[Log(t)] # None => dir'[Log(t)] = dir[Log(t)]
  BY <1>1, Names
<1>5. InHand(s)' \subseteq InHand(s) \cup {None}
  BY <1>1 DEF InHand
<1>6. Gz(t) \in InHand(s)' => t + Setting[s].age <= due[s]
  BY <1>2, <1>5, NoName DEF LooksOK
<1>7. Log(t) \in InHand(s)' /\ dir'[Log(t)] # None =>
        \A m \in file[dir[Log(t)]].data \ Muddled :
          written[m] <= MaxTime => written[m] + Setting[s].age <= due[s]
  BY <1>2, <1>4, <1>5, NoName DEF LooksOK
<1>8. ASSUME posix, Gz(t) \in left[s], Log(t) \notin left[s], dir'[Log(t)] # None,
             t + Setting[s].age <= due[s]
      PROVE  file[dir[Log(t)]].data \subseteq Excused'
  <2>1. CASE at[s] = Log(t)
    BY <1>1, <1>2, <1>4, <1>8, <2>1
  <2>2. CASE at[s] # Log(t)
    BY <1>2, <1>4, <1>8, <2>2 DEF LooksOK
  <2>3. QED
    BY <2>1, <2>2
<1>9. QED
  BY <1>1, <1>2, <1>3, <1>4, <1>6, <1>7, <1>8, NoName DEF LooksOK

\* A rotation takes the name of a second that no cleanup has in hand, or
\* what it moves there is excepted.
LEMMA SweepsRename ==
  ASSUME TypeOK, PlacesOK, SweepsOK, NEW r \in Store, Rename(r), Renamed(r),
         Muddled \subseteq Muddled', Excused \subseteq Excused',
         NEW s \in Store, NEW t \in Time
  PROVE  LooksOK(s, t)'
<1>1. /\ UNCHANGED <<posix, now, life, file, sweep>> /\ UNCHANGED <<expired, written, mixed>>
      /\ now \in Time
  BY RenameDoes
<1>2. SweepKept(s) /\ SweepOK(s) /\ LooksOK(s, t)
  BY <1>1 DEF SweepKept, SweepsOK, sweep
<1>3. CASE t # now
  <2>1. PICK u \in Time : u = now
    BY <1>1
  <2>2. dir'[Log(t)] = dir[Log(t)]
    BY <1>3, <2>1, RenamedPlaces
  <2>3. LogKept(t)
    BY <1>1, <2>2 DEF LogKept
  <2>4. QED
    BY <1>1, <1>2, <2>3, LooksStay
<1>4. CASE t = now
  <2>1. dir'[Log(t)] = dir[Current]
    BY <1>1, <1>4, RenamedPlaces
  <2>2. CASE Clash(now)
    <3>1. file'[dir'[Log(t)]].data \subseteq Muddled'
      BY <1>1, <2>1, <2>2, ClashedType DEF Muddled
    <3>2. LogKept(t)
      BY <3>1 DEF LogKept
    <3>3. QED
      BY <1>1, <1>2, <3>2, LooksStay
  <2>3. CASE ~ Clash(now)
    <3>1. Log(t) \notin InHand(s) /\ Gz(t) \notin InHand(s) /\ InHand(s)' = InHand(s)
      BY <1>1, <1>4, <2>3 DEF Clash, InHand, sweep
    <3>2. Gz(t) \in left[s] \cup {at[s]} => ~ (t + Setting[s].age <= due[s])
      <4>1. SUFFICES ASSUME Gz(t) \in left[s] \cup {at[s]} PROVE ~ (t + Setting[s].age <= due[s])
        OBVIOUS
      <4>2. Setting[s].age > 0 /\ due[s] <= t
        BY <1>2, <1>4, <4>1, NoName DEF SweepOK
      <4>3. Setting[s].age \in Nat /\ due[s] \in Nat /\ t \in Nat
        BY Numbers DEF TypeOK
      <4>4. QED
        BY <4>2, <4>3
    <3>3. UNCHANGED <<left, at, due>>
      BY <1>1 DEF sweep
    <3>4. at[s] # Gz(t)
      BY <3>1 DEF InHand
    <3>5. QED
      BY <3>1, <3>2, <3>3, <3>4 DEF LooksOK
  <2>4. QED
    BY <2>2, <2>3
<1>5. QED
  BY <1>3, <1>4

\* What a cleanup has in hand stays as old as it was when it looked.
LEMMA SweepsStep ==
  TypeOK /\ StoresOK /\ JobsOK /\ PlacesOK /\ CauseInv /\ TimesOK /\ DataOK /\ SecondsOK
  /\ SweepsOK /\ TypeOK' /\ [Next]_vars
  => SweepsOK'
<1> SUFFICES ASSUME TypeOK, StoresOK, JobsOK, PlacesOK, CauseInv, TimesOK, DataOK,
                    SecondsOK, SweepsOK, TypeOK', [Next]_vars
             PROVE  SweepsOK'
  OBVIOUS
<1>1. Muddled \subseteq Muddled' /\ Excused \subseteq Excused'
  BY MuddledGrows
<1>2. now \in Nat /\ now' \in Nat
  BY Numbers DEF TypeOK
<1>3. \A f \in File : \A m \in file[f].data : m \in Msg
  BY DEF TypeOK, Inode
<1>4. \A t \in Time : dir[Log(t)] \in File \cup {None}
  BY Names DEF TypeOK
<1>5. ASSUME NEW s \in Store, SweepKept(s), now <= now', posix' = posix,
             \A t \in Time : LogKept(t)
      PROVE  SweepOK(s)' /\ \A t \in Time : LooksOK(s, t)'
  BY <1>1, <1>2, <1>5, SweepStays, LooksStay DEF SweepsOK
<1>6. ASSUME \A s \in Store : SweepKept(s), now <= now', posix' = posix,
             \A t \in Time : LogKept(t)
      PROVE  SweepsOK'
  BY <1>5, <1>6 DEF SweepsOK
<1>7. UNCHANGED <<sweep, life>> => \A s \in Store : SweepKept(s)
  BY DEF sweep, SweepKept
<1>8. /\ UNCHANGED <<file, written>>
      /\ \A t \in Time : dir'[Log(t)] \in {dir[Log(t)], None}
      => \A t \in Time : LogKept(t)
  BY DEF LogKept
<1>9. now' = now => now <= now'
  BY <1>2
<1>10. ASSUME NEW s \in Store, Finds(s), written' = written PROVE \A t \in Time : LogKept(t)
  <2>1. \A t \in Time : dir'[Log(t)] = dir[Log(t)]
    BY <1>10, FindsFiles
  <2>2. \A t \in Time : dir[Log(t)] # None => file'[dir[Log(t)]] = file[dir[Log(t)]]
    BY <1>4, <1>10, FindsFiles, FreshIsFree, Names
  <2>3. QED
    BY <1>10, <2>1, <2>2 DEF LogKept
<1>11. ASSUME NEW s \in Store, NewStore(s) \/ NewStoreFails(s) PROVE SweepsOK'
  <2>1. /\ Finds(s) /\ UNCHANGED <<posix, now, sweep, written>> /\ life[s] = "none"
        /\ life' = [life EXCEPT ![s] = "open"] \/ life' = [life EXCEPT ![s] = "dead"]
    BY <1>11, NewStoreDoes DEF history
  <2>2. \A r \in Store : SweepKept(r)
    BY <2>1 DEF SweepKept, sweep, TypeOK
  <2>3. QED
    BY <1>6, <1>9, <1>10, <2>1, <2>2
<1>12. ASSUME NEW s \in Store, Write(s) PROVE SweepsOK'
  <2>1. UNCHANGED <<posix, now, dir, life, sweep>>
    BY <1>12, WriteDoes
  <2>2. CASE UNCHANGED <<file, written>>
    BY <1>6, <1>7, <1>8, <1>9, <2>1, <2>2
  <2>3. CASE Adds(s, next + 1, handle[s]) /\ handle[s] # None
    <3>1. \A t \in Time : dir[Log(t)] # None =>
            \/ file'[dir[Log(t)]] = file[dir[Log(t)]]
            \/ file'[dir[Log(t)]].data \subseteq Muddled'
      BY <2>3, NameFiles, SplitAppends
    <3>2. \A f \in File : \A m \in file[f].data : written'[m] = written[m]
      BY <1>3, <2>3 DEF Adds
    <3>3. \A t \in Time : LogKept(t)
      BY <1>4, <2>1, <3>1, <3>2 DEF LogKept
    <3>4. QED
      BY <1>6, <1>7, <1>9, <2>1, <3>3
  <2>4. QED
    BY <1>12, <2>2, <2>3, WriteDoes
<1>13. ASSUME NEW s \in Store, Rename(s) PROVE SweepsOK'
  <2>1. /\ UNCHANGED <<posix, now, life, file, sweep>> /\ written' = written
    BY <1>13, RenameDoes
  <2>2. CASE Renamed(s)
    <3>1. \A r \in Store : SweepOK(r)'
      BY <1>2, <1>7, <1>9, <2>1, SweepStays DEF SweepsOK
    <3>2. \A r \in Store : \A t \in Time : LooksOK(r, t)'
      BY <1>1, <1>13, <2>2, SweepsRename
    <3>3. QED
      BY <3>1, <3>2 DEF SweepsOK
  <2>3. CASE ~ Renamed(s)
    <3>1. dir' = dir
      BY <1>13, <2>3, RenameDoes
    <3>2. QED
      BY <1>6, <1>7, <1>8, <1>9, <2>1, <3>1
  <2>4. QED
    BY <2>2, <2>3
<1>14. ASSUME NEW s \in Store, Reopen(s) PROVE SweepsOK'
  <2>1. UNCHANGED <<posix, now, life, sweep>>
    BY <1>14, ReopenDoes
  <2>2. CASE Finds(s) /\ UNCHANGED <<mixed, written>>
    BY <1>6, <1>7, <1>9, <1>10, <2>1, <2>2
  <2>3. CASE Adds(s, msg[s], CurrentFile)
    <3>1. \A t \in Time : dir'[Log(t)] = dir[Log(t)] /\ CurrentFile \notin LogFiles(t)
      BY <1>14, CreatedPlaces
    <3>2. \A t \in Time : dir[Log(t)] # None => file'[dir[Log(t)]] = file[dir[Log(t)]]
      BY <1>4, <2>3, <3>1, NameFiles DEF Adds
    <3>3. \A f \in File : \A m \in file[f].data : written'[m] = written[m]
      BY <1>3, <2>3 DEF Adds
    <3>4. \A t \in Time : LogKept(t)
      BY <1>4, <3>1, <3>2, <3>3 DEF LogKept
    <3>5. QED
      BY <1>6, <1>7, <1>9, <2>1, <3>4
  <2>4. QED
    BY <1>14, <2>2, <2>3, ReopenDoes
<1>15. ASSUME NEW j \in jobs, CompressOpen(j) PROVE SweepsOK'
  <2>1. UNCHANGED <<posix, now, life, sweep, written>>
    BY <1>15 DEF CompressOpen, store, history
  <2>2. CASE GivesUp(j)
    BY <1>6, <1>7, <1>8, <1>9, <2>1, <2>2 DEF GivesUp
  <2>3. CASE ~ GivesUp(j)
    <3>1. PICK f \in File, k \in Job : OpensGz(j, f, k)
      BY <1>15, <2>3, CompressOpens
    <3>2. /\ \A g \in File : g # f => file'[g] = file[g]
          /\ \A t \in Time : dir'[Log(t)] = dir[Log(t)] /\ f \notin LogFiles(t)
      BY <3>1 DEF OpensGz
    <3>3. \A t \in Time : dir[Log(t)] # None => file'[dir[Log(t)]] = file[dir[Log(t)]]
      BY <1>4, <3>2, NameFiles
    <3>4. \A t \in Time : LogKept(t)
      BY <2>1, <3>2, <3>3 DEF LogKept
    <3>5. QED
      BY <1>6, <1>7, <1>9, <2>1, <3>4
  <2>4. QED
    BY <2>2, <2>3
<1>16. ASSUME NEW j \in jobs, CompressCopy(j) PROVE SweepsOK'
  <2>1. /\ UNCHANGED <<posix, now, life, sweep, written, dir>>
        /\ j.out \in File /\ \A f \in File : f # j.out => file'[f] = file[f]
    BY <1>16, CompressCopyDoes DEF store, history
  <2>2. \A t \in Time : j.out \notin LogFiles(t)
    BY <2>1, JobFiles, Numbers DEF PlacesOK
  <2>3. \A t \in Time : dir[Log(t)] # None => file'[dir[Log(t)]] = file[dir[Log(t)]]
    BY <1>4, <2>1, <2>2, NameFiles
  <2>4. \A t \in Time : LogKept(t)
    BY <2>1, <2>3 DEF LogKept
  <2>5. QED
    BY <1>6, <1>7, <1>9, <2>1, <2>4
<1>17. ASSUME NEW j \in jobs, CompressRemove(j) \/ CompressFail(j) PROVE SweepsOK'
  <2>1. UNCHANGED <<posix, now, life, sweep, written, file>>
    BY <1>17 DEF CompressRemove, CompressFail, store, history
  <2>2. \A t \in Time : dir'[Log(t)] \in {dir[Log(t)], None}
    BY <1>17, RemovedNames, Names
  <2>3. QED
    BY <1>6, <1>7, <1>8, <1>9, <2>1, <2>2
<1>18. ASSUME NEW s \in Store, CleanupList(s) \/ CleanupInfo(s) \/ CleanupRemove(s)
       PROVE  SweepsOK'
  <2>1. SweepOK(s)' /\ \A t \in Time : LooksOK(s, t)'
    <3>1. Time # {}
      BY Numbers DEF Time
    <3>2. QED
      BY <1>18, <3>1, SweepListed, SweepLooks, SweepRemoves DEF SecondsOK
  <2>2. /\ UNCHANGED <<posix, now, life, file, written>>
        /\ \A r \in Store : r # s => SweepKept(r)
    BY <1>18 DEF CleanupList, CleanupInfo, CleanupRemove, store, history, SweepKept, TypeOK
  <2>3. \A t \in Time : dir'[Log(t)] \in {dir[Log(t)], None}
    BY <1>18, RemovedNames, Names DEF CleanupList, CleanupInfo
  <2>4. \A r \in Store : r # s => SweepOK(r)' /\ \A t \in Time : LooksOK(r, t)'
    BY <1>5, <1>8, <1>9, <2>2, <2>3
  <2>5. QED
    BY <2>1, <2>4 DEF SweepsOK
<1>19. CASE Crash
  <2>1. /\ due' = [s \in Store |-> 0] /\ left' = [s \in Store |-> {}]
        /\ at' = [s \in Store |-> None]
    BY <1>19 DEF Crash
  <2>2. \A s \in Store : InHand(s)' = {None}
    BY <2>1 DEF InHand
  <2>3. 0 <= now'
    BY <1>2
  <2>4. QED
    BY <2>1, <2>2, <2>3, NoName DEF SweepsOK, SweepOK, LooksOK
<1>20. ASSUME (\E s \in Store : Close(s)) \/ Tick \/ UNCHANGED vars PROVE SweepsOK'
  <2>1. UNCHANGED <<posix, dir, file, sweep, written>>
    BY <1>20 DEF Close, Tick, vars, history
  <2>2. \A r \in Store : SweepKept(r)
    BY <1>20, <2>1 DEF Close, Tick, vars, store, sweep, SweepKept, TypeOK
  <2>3. now <= now'
    BY <1>2, <1>20 DEF Close, Tick, vars
  <2>4. QED
    BY <1>6, <1>8, <2>1, <2>2, <2>3
<1>21. QED
  BY <1>11, <1>12, <1>13, <1>14, <1>15, <1>16, <1>17, <1>18, <1>19, <1>20 DEF Next

-----------------------------------------------------------------------------
(* The invariant.                                                          *)

\* The stores have yet to be built, and the directory is empty.
LEMMA StoreInit == Init => StoreInv
<1> SUFFICES ASSUME Init PROVE StoreInv
  OBVIOUS
<1>1. /\ dir = [n \in Name |-> None] /\ jobs = {} /\ now = 0 /\ next = 0
      /\ file = [f \in File |-> Empty(TRUE)]
      /\ life = [s \in Store |-> "none"] /\ handle = [s \in Store |-> None]
      /\ pc = [s \in Store |-> "idle"] /\ msg = [s \in Store |-> 0]
      /\ size = [s \in Store |-> 0]
      /\ due = [s \in Store |-> 0] /\ left = [s \in Store |-> {}]
      /\ at = [s \in Store |-> None]
      /\ by = [m \in Msg |-> None] /\ written = [m \in Msg |-> MaxTime + 1]
  BY DEF Init
<1>2. 0 \in 0 .. MaxTime /\ MaxTime \in Nat /\ MaxTime + 1 \in 0 .. MaxTime + 1
      /\ 0 \in 0 .. Cardinality(Msg) /\ ~ (MaxTime + 1 <= MaxTime) /\ 0 <= 0
  BY StoreAssumption
<1>3. Empty(TRUE) \in Inode /\ Empty(TRUE).data = {} /\ Empty(TRUE).size = 0
      /\ Empty(TRUE).mtime = 0 /\ Empty(TRUE).whole
  BY <1>1, <1>2 DEF Empty, Inode
<1>4. TypeOK
  <2>1. posix \in BOOLEAN
    BY StoreAssumption DEF Init
  <2>2. /\ dir \in [Name -> File \cup {None}] /\ file \in [File -> Inode]
        /\ handle \in [Store -> File \cup {None}] /\ by \in [Msg -> Store \cup {None}]
    BY <1>1, <1>3
  <2>3. written \in [Msg -> 0 .. MaxTime + 1]
    BY <1>1, <1>2
  <2>4. /\ life \in [Store -> {"none", "open", "closed", "dead"}] /\ size \in [Store -> Nat]
        /\ pc \in [Store -> {"idle", "rename", "reopen"}] /\ msg \in [Store -> Msg \cup {0}]
    BY <1>1
  <2>5. /\ jobs \subseteq Job /\ now \in 0 .. MaxTime /\ next \in 0 .. Cardinality(Msg)
        /\ expired = {} /\ clashed = {} /\ mixed = {} /\ split = {} /\ hurt = {}
        /\ failed = {} /\ broken = {}
    BY <1>1, <1>2 DEF Init
  <2>6. /\ due \in [Store -> 0 .. MaxTime] /\ left \in [Store -> SUBSET Name]
        /\ at \in [Store -> Name \cup {None}]
    BY <1>1, <1>2
  <2>7. QED
    BY <2>1, <2>2, <2>3, <2>4, <2>5, <2>6 DEF TypeOK
<1>5. StoresOK /\ JobsOK /\ CauseInv /\ ReopensOK
  BY <1>1 DEF StoresOK, JobsOK, CauseInv, CurrentOK, HandlesOK, FailureHasACause,
              RefusalHasACause, ReopensOK, Open
<1>6. \A n \in Name : dir[n] = None
  BY <1>1
<1>7. \A t \in Time : LogFiles(t) = {} /\ GzFiles(t) = {}
  BY <1>1, <1>6, Names, Numbers DEF LogFiles, GzFiles
<1>8. PlacesOK /\ DatedOK
  BY <1>7 DEF PlacesOK, DatedOK
<1>9. \A f \in File : /\ file[f].data = {} /\ file[f].size <= MaxSize
                      /\ file[f].mtime <= now
  <2>1. 0 <= MaxSize /\ 0 <= now
    BY <1>1, Numbers
  <2>2. QED
    BY <1>1, <1>3, <2>1
<1>10. TimesOK
  <2>1. \A m \in Msg : WrittenBy(m, now)
    BY <1>1, <1>2 DEF WrittenBy
  <2>2. QED
    BY <1>1, <1>6, <1>7, <1>9, <2>1, Names DEF TimesOK
<1>11. DataOK
  BY <1>1, <1>6, <1>9, Names DEF DataOK
<1>12. SizesOK
  BY <1>1, <1>9, Numbers DEF SizesOK
<1>13. SecondsOK
  BY <1>7 DEF SecondsOK, Disorderly
<1>14. SweepsOK
  <2>1. \A s \in Store : left[s] = {} /\ at[s] = None /\ due[s] <= now /\ InHand(s) = {None}
    BY <1>1, <1>2 DEF InHand
  <2>2. \A s \in Store : SweepOK(s)
    BY <2>1, NoName DEF SweepOK
  <2>3. \A s \in Store, t \in Time : LooksOK(s, t)
    BY <2>1, NoName DEF LooksOK
  <2>4. QED
    BY <2>2, <2>3 DEF SweepsOK
<1>15. AcceptedIsKept
  BY <1>1, <1>2 DEF AcceptedIsKept, Accepted
<1>16. QED
  BY <1>4, <1>5, <1>8, <1>10, <1>11, <1>12, <1>13, <1>14, <1>15 DEF StoreInv

\* StoreInv is an invariant of the store: what holds of stores, jobs, names
\* and files holds after every call, job and crash.
THEOREM StoreInvHolds == Spec => []StoreInv
<1>1. StoreInv /\ [Next]_vars => StoreInv'
  <2> SUFFICES ASSUME StoreInv, [Next]_vars PROVE StoreInv'
    OBVIOUS
  <2>1. TypeOK' /\ StoresOK' /\ JobsOK' /\ PlacesOK' /\ CauseInv'
    BY TypeStep, StoresStep, JobsStep, PlacesStep, CauseStep DEF StoreInv
  <2>2. TimesOK' /\ DataOK' /\ SizesOK' /\ ReopensOK' /\ SecondsOK' /\ DatedOK'
    BY TimesStep, DataStep, SizesStep, ReopensStep, SecondsStep, DatedStep DEF StoreInv
  <2>3. SweepsOK'
    BY <2>1, SweepsStep DEF StoreInv
  <2>4. AcceptedIsKept'
    BY <2>1, <2>2, KeptStep DEF StoreInv
  <2>5. QED
    BY <2>1, <2>2, <2>3, <2>4 DEF StoreInv
<1>2. QED
  BY <1>1, StoreInit, PTL DEF Spec

\* The variables of store.go, of the directory and of compressFile keep
\* their types.
THEOREM TypeCorrect == Spec => []TypeOK
<1>1. StoreInv => TypeOK
  BY DEF StoreInv
<1>2. QED
  BY <1>1, StoreInvHolds, PTL

\* A message whose Write returned nil stays readable through rotation,
\* compression that ends at any point, crashes and reloads, until it expires,
\* but for the two weaknesses of rotateLocked that AcceptedIsKept names.
THEOREM AcceptedStaysKept == Spec => []AcceptedIsKept
<1>1. StoreInv => AcceptedIsKept
  BY DEF StoreInv
<1>2. QED
  BY <1>1, StoreInvHolds, PTL

\* Write fails when the write of its own line does, or in a store that has
\* been closed, that rotated next to another one or twice in a second, or
\* whose current file an error of the system has taken away; in no other.
THEOREM RefusalsHaveACause == Spec => []RefusalHasACause
<1>1. StoreInv => RefusalHasACause
  BY DEF StoreInv, CauseInv
<1>2. QED
  BY <1>1, StoreInvHolds, PTL

\* rotateLocked keeps every file of the directory within maxSize, or it has
\* one line alone, or has been written to by two stores.
THEOREM FilesStayBounded == Spec => []FilesAreBounded
<1>1. StoreInv => FilesAreBounded
  <2> SUFFICES ASSUME StoreInv, NEW n \in Name, dir[n] # None
               PROVE  \/ file[dir[n]].size <= MaxSize
                      \/ \E m \in Msg : file[dir[n]].data = {m}
                      \/ file[dir[n]].data \cap (mixed \cup clashed) # {}
    BY DEF FilesAreBounded
  <2>1. dir[n] \in File
    BY DEF StoreInv, TypeOK
  <2>2. QED
    BY <2>1 DEF StoreInv, SizesOK, Muddled
<1>2. QED
  BY <1>1, StoreInvHolds, PTL

\* Only a removal by cleanupOnce adds to the expired messages: those of the
\* file that has the name it is about to remove.
LEMMA ExpiredByCleanup ==
  ASSUME [Next]_vars, NEW m \in expired' \ expired
  PROVE  \E s \in Store : /\ at[s] # None /\ dir[at[s]] # None
                          /\ m \in file[dir[at[s]]].data
<1>1. ASSUME NEW s \in Store, NewStore(s) \/ NewStoreFails(s) PROVE expired' = expired
  BY <1>1 DEF NewStore, NewStoreFails, history
<1>2. ASSUME NEW s \in Store, Write(s) \/ Rename(s) \/ Reopen(s) \/ Close(s)
      PROVE  expired' = expired
  BY <1>2 DEF Write, Rename, Reopen, Close, history
<1>3. ASSUME NEW s \in Store, CleanupList(s) \/ CleanupInfo(s) PROVE expired' = expired
  BY <1>3 DEF CleanupList, CleanupInfo, history
<1>4. ASSUME NEW j \in jobs,
             CompressOpen(j) \/ CompressCopy(j) \/ CompressRemove(j) \/ CompressFail(j)
      PROVE  expired' = expired
  BY <1>4 DEF CompressOpen, CompressCopy, CompressRemove, CompressFail, history
<1>5. ASSUME Tick \/ Crash \/ UNCHANGED vars PROVE expired' = expired
  BY <1>5 DEF Tick, Crash, vars, history
<1>6. ASSUME NEW s \in Store, CleanupRemove(s)
      PROVE  at[s] # None /\ dir[at[s]] # None /\ m \in file[dir[at[s]]].data
  BY <1>6 DEF CleanupRemove
<1>7. QED
  BY <1>1, <1>2, <1>3, <1>4, <1>5, <1>6 DEF Next

\* cleanupOnce removes no message that is not as old as its maxAge, through
\* whatever comes between its listing, its look and its removal.
THEOREM ExpiredIsOld == Spec => ExpiredWasOld
<1>1. StoreInv /\ [Next]_vars =>
        [\A m \in (expired' \cap Accepted) \ (expired \cup clashed \cup mixed) :
           \E s \in Store : /\ life[s] \in {"open", "closed"} /\ Setting[s].age > 0
                            /\ written[m] + Setting[s].age <= now]_vars
  <2> SUFFICES ASSUME StoreInv, [Next]_vars,
                      NEW m \in (expired' \cap Accepted) \ (expired \cup clashed \cup mixed)
               PROVE  \E s \in Store : /\ life[s] \in {"open", "closed"}
                                       /\ Setting[s].age > 0
                                       /\ written[m] + Setting[s].age <= now
    OBVIOUS
  <2>1. PICK s \in Store : at[s] # None /\ dir[at[s]] # None /\ m \in file[dir[at[s]]].data
    BY ExpiredByCleanup
  <2>2. /\ at[s] \in Name \ {Current} /\ m \notin Muddled /\ m \in Msg
        /\ written[m] <= MaxTime
        /\ life[s] \in {"open", "closed"} /\ Setting[s].age > 0 /\ due[s] <= now
        /\ \A t \in Time : LooksOK(s, t)
    BY <2>1, NoName DEF StoreInv, SweepsOK, SweepOK, TypeOK, Muddled, Accepted
  <2>3. at[s] \in InHand(s)
    BY DEF InHand
  <2>4. PICK t \in Time : at[s] = Log(t) \/ at[s] = Gz(t)
    BY <2>2, Names
  <2> DEFINE a == Setting[s].age
             d == due[s]
             w == written[m]
  <2>5. w + a <= d
    <3>1. CASE at[s] = Log(t)
      BY <2>1, <2>2, <2>3, <3>1 DEF LooksOK
    <3>2. CASE at[s] = Gz(t)
      <4>1. t + a <= d
        BY <2>2, <2>3, <3>2 DEF LooksOK
      <4>2. dir[Gz(t)] \in GzFiles(t)
        BY <2>1, <3>2, NameFiles DEF StoreInv
      <4>3. w <= t
        BY <2>1, <2>2, <3>2, <4>2 DEF StoreInv, DatedOK, WrittenBy
      <4>4. w \in Nat /\ a \in Nat /\ d \in Nat /\ t \in Nat
        BY <2>2, Numbers DEF StoreInv, TypeOK
      <4> HIDE DEF w, a, d
      <4>5. QED
        BY <4>1, <4>3, <4>4
    <3>3. QED
      BY <2>4, <3>1, <3>2
  <2>6. w \in Nat /\ a \in Nat /\ d \in Nat /\ now \in Nat
    BY <2>2, Numbers DEF StoreInv, TypeOK
  <2>7. d <= now
    BY <2>2
  <2> HIDE DEF w, a, d
  <2>8. w + a <= now
    BY <2>5, <2>6, <2>7
  <2>9. QED
    BY <2>2, <2>8 DEF w, a
<1>2. QED
  BY <1>1, StoreInvHolds, PTL DEF Spec, ExpiredWasOld
=============================================================================
