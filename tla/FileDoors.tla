----------------------------- MODULE FileDoors -----------------------------
(***************************************************************************)
(* The two doors to the files: the FTP driver with its permissionFs        *)
(* (internal/ftp/driver.go, permfs.go) and the SFTP handlers               *)
(* (internal/sftp/server.go, fs.go), over the accounts of internal/auth.   *)
(* A session copies the rights of its account when it logs in; a reload    *)
(* swaps the three pointers of the FTP driver one by one and builds a new  *)
(* SFTP server.  The events that all this publishes are in TransferTable.  *)
(*                                                                         *)
(* A file is absent, a directory, empty, or has data.  Which requests      *)
(* arrive is up to the clients; what ftpserverlib and pkg/sftp make of     *)
(* them is seen from the methods they call.                                *)
(***************************************************************************)
EXTENDS Naturals, Sequences, FiniteSetsExt

CONSTANTS
  FtpSession, SftpSession,  \* remote addresses, by the door they use
  User,         \* the names of accounts
  Anonymous,    \* the account of an anonymous FTP login
  Config,       \* the FTP sections that a reload may bring
  Name,         \* the paths that clients may name
  Escaping,     \* those that security.SafeJoin refuses
  MaxHandles,   \* bound on the files that are open at a time
  MaxUpdates,   \* bound on the reloads
  NoName

Session == FtpSession \cup SftpSession
Perm    == {"l", "r", "a", "d", "f", "m", "w", "M", "T"}

(***************************************************************************)
(* users is the list of accounts, a name may be in it twice; allow and     *)
(* deny are the addresses that the access list's networks contain.         *)
(***************************************************************************)
ASSUME ConfigAssumption ==
  /\ \A c \in Config :
       /\ c.users \in Seq([name : User, rights : SUBSET Perm])
       /\ c.anon \in BOOLEAN /\ c.allow \subseteq Session /\ c.deny \subseteq Session
  /\ Anonymous \notin User /\ NoName \notin Name
  /\ Escaping \subseteq Name
  /\ FtpSession \cap SftpSession = {}
  /\ MaxHandles \in Nat /\ MaxUpdates \in Nat

VARIABLES
  saved,    \* the section that the last reload brought
  updates,  \* the number of reloads so far
  upd,      \* how far updateConfig, and the replacement of the SFTP server, are
  dCfg, dStore, dAcl,  \* the pointers of the FTP driver
  sCfg,     \* s.cfg of the SFTP server
  link,     \* link[s]: "none", "connected", "checking" the password, "in"
  who,      \* who[s]: the account and its rights, copied
  since,    \* since[s]: the sections in force since its login began (history)
  fs,       \* fs[n]: what is at that path
  open      \* the open transfers: their session, name, direction, and file

doors == <<saved, updates, upd, dCfg, dStore, dAcl, sCfg>>
login == <<link, who, since>>
vars  == <<doors, login, fs, open>>

Kind   == {"none", "dir", "empty", "data"}
Handle == [s : Session, id : 1 .. MaxHandles, name : Name, dir : {"GET", "PUT", "APPEND"},
           at : Name \cup {NoName}]
Nobody == [user |-> Anonymous, rights |-> {}]
IsFile(n) == fs[n] \in {"empty", "data"}

(***************************************************************************)
(* auth.NewStore keeps the last entry of a name, userByName of the SFTP    *)
(* server finds the first.                                                 *)
(***************************************************************************)
Entries(c, u)    == {i \in DOMAIN c.users : c.users[i].name = u}
Stored(c, u)     == c.users[Max(Entries(c, u))].rights
UserByName(c, u) == c.users[Min(Entries(c, u))].rights

TypeOK ==
  /\ saved \in Config /\ updates \in 0 .. MaxUpdates
  /\ upd \in {"idle", "store", "acl", "sftp"}
  /\ dCfg \in Config /\ dStore \in Config /\ dAcl \in Config /\ sCfg \in Config
  /\ link \in [Session -> {"none", "connected", "checking", "in"}]
  /\ who \in [Session -> [user : User \cup {Anonymous}, rights : SUBSET Perm]]
  /\ since \in [Session -> SUBSET Config]
  /\ fs \in [Name -> Kind] /\ open \in SUBSET Handle

Init ==
  /\ saved \in Config /\ updates = 0 /\ upd = "idle"
  /\ dCfg = saved /\ dStore = saved /\ dAcl = saved /\ sCfg = saved
  /\ link = [s \in Session |-> "none"]
  /\ who = [s \in Session |-> Nobody]
  /\ since = [s \in Session |-> {}]
  /\ fs = [n \in Name |-> IF n \in Escaping THEN "data" ELSE "none"]
  /\ open = {}

-----------------------------------------------------------------------------
(***************************************************************************)
(* A reload of the FTP section: updateConfig stores the configuration, the *)
(* accounts and the access list one after the other, and main replaces the *)
(* SFTP server, whose sessions end with it.                                *)
(***************************************************************************)
InForce == {saved} \cup (IF upd = "idle" THEN {} ELSE {dCfg, dStore, dAcl, sCfg})

UpdateCfg ==
  /\ upd = "idle" /\ updates < MaxUpdates
  /\ \E c \in Config \ {saved} :
       /\ saved' = c /\ dCfg' = c
       /\ since' = [s \in Session |-> IF link[s] = "checking" THEN since[s] \cup {c} ELSE since[s]]
  /\ upd' = "store" /\ updates' = updates + 1
  /\ UNCHANGED <<dStore, dAcl, sCfg, link, who, fs, open>>

UpdateStore_Kept ==
  /\ upd = "store"
  /\ upd' = "acl"
  /\ UNCHANGED <<saved, updates, dCfg, dStore, dAcl, sCfg, login, fs, open>>

UpdateStore ==
  /\ upd = "store"
  /\ dStore' = saved /\ upd' = "acl"
  /\ UNCHANGED <<saved, updates, dCfg, dAcl, sCfg, login, fs, open>>

UpdateAcl ==
  /\ upd = "acl"
  /\ dAcl' = saved /\ upd' = "sftp"
  /\ UNCHANGED <<saved, updates, dCfg, dStore, sCfg, login, fs, open>>

Forget(ss) ==
  /\ link' = [s \in Session |-> IF s \in ss THEN "none" ELSE link[s]]
  /\ who' = [s \in Session |-> IF s \in ss THEN Nobody ELSE who[s]]
  /\ since' = [s \in Session |-> IF s \in ss THEN {} ELSE since[s]]
  /\ open' = {h \in open : h.s \notin ss}

ReplaceSftp ==
  /\ upd = "sftp"
  /\ sCfg' = saved /\ upd' = "idle"
  /\ Forget(SftpSession)
  /\ UNCHANGED <<saved, updates, dCfg, dStore, dAcl, fs>>

-----------------------------------------------------------------------------
(***************************************************************************)
(* Allowed of the access list: a denied address is refused whatever the    *)
(* other list says, which admits everyone when it is empty.                *)
(***************************************************************************)
Allowed(acl, s) == s \notin acl.deny /\ (acl.allow = {} \/ s \in acl.allow)

(***************************************************************************)
(* ClientConnected of the FTP driver, and the accept loop of the SFTP      *)
(* server: the access list decides, and a client it refuses changes        *)
(* nothing here.                                                           *)
(***************************************************************************)
Connects(s, acl) ==
  /\ link[s] = "none" /\ Allowed(acl, s)
  /\ link' = [link EXCEPT ![s] = "connected"]
  /\ UNCHANGED <<doors, who, since, fs, open>>

ClientConnected(s) == s \in FtpSession /\ Connects(s, dAcl)
Accept(s)          == s \in SftpSession /\ Connects(s, sCfg)

(***************************************************************************)
(* AuthUser.  An anonymous login is decided by the configuration and may   *)
(* list and retrieve; any other takes the account from the store and then  *)
(* spends its time in bcrypt.  After a failure the client may try again.   *)
(***************************************************************************)
Begins(s, user, rights, pc) ==
  /\ link' = [link EXCEPT ![s] = pc]
  /\ who' = [who EXCEPT ![s] = [user |-> user, rights |-> rights]]
  /\ since' = [since EXCEPT ![s] = InForce]
  /\ UNCHANGED <<doors, fs, open>>

AuthAnonymous(s) ==
  /\ s \in FtpSession /\ link[s] = "connected" /\ dCfg.anon
  /\ Begins(s, Anonymous, {"l", "r"}, "in")

AuthUser(s, u) ==
  /\ s \in FtpSession /\ link[s] = "connected" /\ Entries(dStore, u) # {}
  /\ Begins(s, u, Stored(dStore, u), "checking")

AuthUserEnds(s) ==
  /\ s \in FtpSession /\ link[s] = "checking"
  /\ \/ link' = [link EXCEPT ![s] = "in"] /\ UNCHANGED <<who, since>>
     \/ /\ link' = [link EXCEPT ![s] = "connected"]
        /\ who' = [who EXCEPT ![s] = Nobody] /\ since' = [since EXCEPT ![s] = {}]
  /\ UNCHANGED <<doors, fs, open>>

(***************************************************************************)
(* PasswordCallback and the rest of the handshake: the password is checked *)
(* against the store, the rights come from the list.                       *)
(***************************************************************************)
PasswordCallback(s, u) ==
  /\ s \in SftpSession /\ link[s] = "connected" /\ Entries(sCfg, u) # {}
  /\ Begins(s, u, UserByName(sCfg, u), "checking")

HandshakeEnds(s) ==
  /\ s \in SftpSession /\ link[s] = "checking"
  /\ link' = [link EXCEPT ![s] = "in"]
  /\ UNCHANGED <<doors, who, since, fs, open>>

HandshakeFails(s) ==
  /\ s \in SftpSession /\ link[s] \in {"connected", "checking"}
  /\ link' = [link EXCEPT ![s] = "none"]
  /\ who' = [who EXCEPT ![s] = Nobody] /\ since' = [since EXCEPT ![s] = {}]
  /\ UNCHANGED <<doors, fs, open>>

(***************************************************************************)
(* The client leaves: both libraries close the files that are open.        *)
(***************************************************************************)
Disconnect(s) ==
  /\ link[s] # "none"
  /\ Forget({s})
  /\ UNCHANGED <<doors, fs>>

-----------------------------------------------------------------------------
(***************************************************************************)
(* checkPath and require of permissionFs, resolve and require of jailedFS: *)
(* the path is confined and the copied rights have the character.          *)
(***************************************************************************)
Allows(s, p)       == link[s] = "in" /\ p \in who[s].rights
FtpMay(s, p, n)    == s \in FtpSession /\ n \notin Escaping /\ Allows(s, p)
JailedMay(s, p, n) == s \in SftpSession /\ Allows(s, p) /\ n \notin Escaping

FreeIds == {i \in 1 .. MaxHandles : ~\E h \in open : h.id = i}

(***************************************************************************)
(* track, and the ends of Fileread and Filewrite.                          *)
(***************************************************************************)
OpenAs(s, n, dir) ==
  LET h == [s |-> s, id |-> CHOOSE i \in FreeIds : TRUE, name |-> n, dir |-> dir, at |-> n] IN
  /\ FreeIds # {}
  /\ open' = open \cup {h}
  /\ UNCHANGED <<doors, login>>

Content(n, trunc) == fs' = [fs EXCEPT ![n] = IF @ = "none" \/ trunc THEN "empty" ELSE @]

(***************************************************************************)
(* The opens of permissionFs: a client has one data connection.  Open of a *)
(* directory lists it and is no transfer.                                  *)
(***************************************************************************)
Idle(s) == ~\E h \in open : h.s = s

Open(s, n) ==
  /\ FtpMay(s, "r", n) /\ IsFile(n) /\ Idle(s)
  /\ OpenAs(s, n, "GET") /\ UNCHANGED fs

Create(s, n) ==
  /\ FtpMay(s, "w", n) /\ fs[n] # "dir" /\ Idle(s)
  /\ OpenAs(s, n, "PUT") /\ Content(n, TRUE)

OpenFile_AppendTruncates(s, n) ==
  /\ fs[n] # "dir" /\ Idle(s)
  /\ FtpMay(s, "a", n) /\ OpenAs(s, n, "APPEND") /\ Content(n, TRUE)

OpenFile(s, n) ==
  /\ fs[n] # "dir" /\ Idle(s)
  /\ \/ FtpMay(s, "a", n) /\ OpenAs(s, n, "APPEND") /\ Content(n, FALSE)
     \/ FtpMay(s, "w", n) /\ OpenAs(s, n, "PUT") /\ \E trunc \in BOOLEAN : Content(n, trunc)
     \/ FtpMay(s, "r", n) /\ IsFile(n) /\ OpenAs(s, n, "GET") /\ UNCHANGED fs

(***************************************************************************)
(* The opens of jailedFS; os.Open takes a directory, too.                  *)
(***************************************************************************)
Fileread(s, n) ==
  /\ JailedMay(s, "r", n) /\ fs[n] # "none"
  /\ OpenAs(s, n, "GET") /\ UNCHANGED fs

Filewrite(s, n) ==
  /\ fs[n] # "dir"
  /\ \/ JailedMay(s, "a", n) /\ OpenAs(s, n, "APPEND") /\ Content(n, FALSE)
     \/ JailedMay(s, "w", n) /\ OpenAs(s, n, "PUT") /\ \E trunc \in BOOLEAN : Content(n, trunc)

(***************************************************************************)
(* Read and Write of trackedFile, ReadAt and WriteAt of trackedReaderAt.   *)
(* os.File.WriteAt fails on a file opened with O_APPEND, so an SFTP append *)
(* moves nothing, and so does reading a directory.                         *)
(***************************************************************************)
Moves(h) ==
  /\ h.at # NoName => fs[h.at] # "dir"
  /\ fs' = IF h.dir = "GET" \/ h.at = NoName THEN fs ELSE [fs EXCEPT ![h.at] = "data"]
  /\ UNCHANGED <<doors, login, open>>

ReadWrite(h)     == h.s \in FtpSession /\ Moves(h)
ReadAtWriteAt(h) == h.s \in SftpSession /\ h.dir # "APPEND" /\ Moves(h)

Closes(h) ==
  /\ open' = open \ {h}
  /\ UNCHANGED <<doors, login, fs>>

Close(h)   == h.s \in FtpSession /\ Closes(h)
CloseAt(h) == h.s \in SftpSession /\ Closes(h)

(***************************************************************************)
(* The other changes: a rename takes the place of a file that is there,    *)
(* and an open file stays with its handle.  Chmod and Chtimes of FTP       *)
(* change nothing that is modelled, Chown is refused.                      *)
(***************************************************************************)
MakeDir(n) ==
  /\ fs[n] = "none"
  /\ fs' = [fs EXCEPT ![n] = "dir"]
  /\ UNCHANGED <<doors, login, open>>

Delete(n) ==
  /\ fs[n] # "none"
  /\ fs' = [fs EXCEPT ![n] = "none"]
  /\ open' = {[h EXCEPT !.at = IF @ = n THEN NoName ELSE @] : h \in open}
  /\ UNCHANGED <<doors, login>>

Move(n, o) ==
  /\ n # o /\ fs[n] # "none" /\ (fs[o] = "none" \/ (IsFile(n) /\ IsFile(o)))
  /\ fs' = [fs EXCEPT ![o] = fs[n], ![n] = "none"]
  /\ open' = {[h EXCEPT !.at = IF @ = o THEN NoName ELSE IF @ = n THEN o ELSE @] : h \in open}
  /\ UNCHANGED <<doors, login>>

Truncate(n) ==
  /\ IsFile(n)
  /\ \E k \in {"empty", "data"} : fs' = [fs EXCEPT ![n] = k]
  /\ UNCHANGED <<doors, login, open>>

Mkdir(s, n)     == FtpMay(s, "m", n) /\ MakeDir(n)
Remove(s, n)    == FtpMay(s, "d", n) /\ Delete(n)
Rename(s, n, o) == FtpMay(s, "f", n) /\ FtpMay(s, "f", o) /\ Move(n, o)

(***************************************************************************)
(* Filecmd: Setstat, Rename, Rmdir and Remove, Mkdir.  Setstat cuts or     *)
(* extends a file under the permission of Chmod.                           *)
(***************************************************************************)
Filecmd(s, n) ==
  \/ JailedMay(s, "M", n) /\ Truncate(n)
  \/ JailedMay(s, "f", n) /\ \E o \in Name : JailedMay(s, "f", o) /\ Move(n, o)
  \/ JailedMay(s, "d", n) /\ Delete(n)
  \/ JailedMay(s, "m", n) /\ MakeDir(n)

(***************************************************************************)
(* What the server does for the session s.                                 *)
(***************************************************************************)
Serves(s) ==
  \/ ClientConnected(s) \/ Accept(s) \/ AuthAnonymous(s) \/ AuthUserEnds(s)
  \/ HandshakeEnds(s) \/ HandshakeFails(s) \/ Disconnect(s)
  \/ \E u \in User : AuthUser(s, u) \/ PasswordCallback(s, u)
  \/ \E n \in Name :
       \/ Open(s, n) \/ Create(s, n) \/ OpenFile(s, n) \/ Fileread(s, n) \/ Filewrite(s, n)
       \/ Mkdir(s, n) \/ Remove(s, n) \/ Filecmd(s, n)
       \/ \E o \in Name : Rename(s, n, o)
  \/ \E h \in open : h.s = s /\ (ReadWrite(h) \/ ReadAtWriteAt(h) \/ Close(h) \/ CloseAt(h))

Next ==
  \/ UpdateCfg \/ UpdateStore \/ UpdateAcl \/ ReplaceSftp
  \/ \E s \in Session : Serves(s)

Spec == Init /\ [][Next]_vars

-----------------------------------------------------------------------------
Grants(c, u, rights) ==
  IF u = Anonymous THEN c.anon /\ rights = {"l", "r"}
  ELSE Entries(c, u) # {} /\ rights = Stored(c, u)

(***************************************************************************)
(* The rights of a session, which it keeps, are those that a section in    *)
(* force at some moment of its login gave to its account: a reload that    *)
(* has returned binds every later login, through either door.  (An account *)
(* is the entry whose password was checked.)                               *)
(***************************************************************************)
RightsWereInForce ==
  \A s \in Session : link[s] = "in" => \E c \in since[s] : Grants(c, who[s].user, who[s].rights)

(***************************************************************************)
(* What the permissions of the session s let it do to the files, in the    *)
(* words of auth.go: "f" renames, also over another file, "d" deletes, "m" *)
(* makes a directory, "w" uploads, "a" appends to a file that exists.      *)
(* Nothing that SafeJoin refuses changes.                                  *)
(***************************************************************************)
Becomes(n, k) == fs' = [fs EXCEPT ![n] = k]

Covers(s) ==
  LET r == who[s].rights IN
  \/ "f" \in r /\ \E n, o \in Name \ Escaping : fs' = [fs EXCEPT ![o] = fs[n], ![n] = "none"]
  \/ \E n \in Name \ Escaping :
       \/ "d" \in r /\ Becomes(n, "none")
       \/ "m" \in r /\ fs[n] = "none" /\ Becomes(n, "dir")
       \/ "w" \in r /\ fs[n] # "dir" /\ (Becomes(n, "empty") \/ Becomes(n, "data"))
       \/ "a" \in r /\ fs[n] = "empty" /\ Becomes(n, "data")

(***************************************************************************)
(* Where the code lets it do more: opening for append also creates, and    *)
(* through SFTP "M", to change a file's mode, sets its size.               *)
(***************************************************************************)
CreatesByAppend(s) ==
  "a" \in who[s].rights /\ \E n \in Name \ Escaping : fs[n] = "none" /\ Becomes(n, "empty")

ResizesByChmod(s) ==
  /\ s \in SftpSession /\ "M" \in who[s].rights
  /\ \E n \in Name \ Escaping : IsFile(n) /\ (Becomes(n, "empty") \/ Becomes(n, "data"))

(***************************************************************************)
(* A session that changes a file is logged in, and its own rights cover    *)
(* the change but for the two exceptions: through any sequence of opens,   *)
(* writes to files opened long before, renames and removals under an open  *)
(* file, by several clients, and whatever a reload makes of the account.   *)
(***************************************************************************)
ChangesWereGranted ==
  [][\A s \in Session :
       fs' # fs /\ Serves(s) =>
         link[s] = "in" /\ (Covers(s) \/ CreatesByAppend(s) \/ ResizesByChmod(s))]_vars

\* The same without the exceptions, as auth.go has it: it does not hold.
ChangesAsDocumented ==
  [][\A s \in Session : fs' # fs /\ Serves(s) => link[s] = "in" /\ Covers(s)]_vars
=============================================================================
