-------------------------- MODULE FileDoorsProofs --------------------------
(***************************************************************************)
(* Proofs about FileDoors for any clients, accounts, configurations and    *)
(* paths: type correctness, the rights that a session copies, and what     *)
(* they let it change.  And about TransferTable for any clients, files and *)
(* size of the channel: the rows that the events leave.                    *)
(***************************************************************************)
EXTENDS FileDoors, TransferTable, Integers, WellFoundedInduction, TLAPS

-----------------------------------------------------------------------------
(***************************************************************************)
(* The largest and the smallest number of a non-empty set exist.           *)
(***************************************************************************)
LEMMA LeastExists ==
  ASSUME NEW S \in SUBSET Nat, S # {}
  PROVE  \E x \in S : \A y \in S : x <= y
<1> DEFINE R == {ss \in Nat \X Nat : ss[1] < ss[2]}
<1>1. IsWellFoundedOn(R, Nat)
  BY NatLessThanWellFounded DEF OpToRel
<1>2. \E x \in S : \A y \in S : <<y, x>> \notin R
  <2> HIDE DEF R
  <2> QED BY <1>1, WFMin
<1>3. \A x, y \in S : <<y, x>> \notin R => x <= y
  OBVIOUS
<1> QED
  BY <1>2, <1>3

LEMMA MaxMinAreElements ==
  ASSUME NEW n \in Nat, NEW S \in SUBSET (1 .. n), S # {}
  PROVE  Max(S) \in S /\ Min(S) \in S
<1> DEFINE D == {n - x : x \in S}
<1>1. D \in SUBSET Nat
  <2>1. \A x \in S : n - x \in Nat
    OBVIOUS
  <2> QED BY <2>1
<1>2. D # {}
  <2>1. PICK x \in S : TRUE
    OBVIOUS
  <2>2. n - x \in D
    BY <2>1
  <2> QED BY <2>2
<1>3. PICK d \in D : \A e \in D : d <= e
  <2> HIDE DEF D
  <2> QED BY <1>1, <1>2, LeastExists
<1>4. PICK x \in S : d = n - x
  BY <1>3
<1>5. \A y \in S : n - x <= n - y
  BY <1>3, <1>4
<1>6. \A y \in S : x >= y
  BY <1>5
<1>7. \E m \in S : \A y \in S : m =< y
  BY LeastExists
<1> QED
  BY <1>6, <1>7 DEF Max, Min

LEMMA RightsTyped ==
  ASSUME NEW c \in Config, NEW u \in User, Entries(c, u) # {}
  PROVE  Stored(c, u) \in SUBSET Perm /\ UserByName(c, u) \in SUBSET Perm
<1>1. c.users \in Seq([name : User, rights : SUBSET Perm])
  BY ConfigAssumption
<1>2. Entries(c, u) \in SUBSET (1 .. Len(c.users)) /\ Len(c.users) \in Nat
  BY <1>1 DEF Entries
<1>3. Max(Entries(c, u)) \in 1 .. Len(c.users) /\ Min(Entries(c, u)) \in 1 .. Len(c.users)
  BY <1>2, MaxMinAreElements
<1>4. \A i \in 1 .. Len(c.users) : c.users[i].rights \in SUBSET Perm
  <2> DEFINE Entry == [name : User, rights : SUBSET Perm]
  <2>1. \A e \in Entry : e.rights \in SUBSET Perm
    OBVIOUS
  <2>0. c.users \in Seq(Entry)
    BY <1>1
  <2>2. \A i \in 1 .. Len(c.users) : c.users[i] \in Entry
    <3> HIDE DEF Entry
    <3> QED BY <2>0
  <2> QED BY <2>1, <2>2
<1> QED
  BY <1>3, <1>4 DEF Stored, UserByName

-----------------------------------------------------------------------------
LEMMA ForgetTyped ==
  ASSUME TypeOK, NEW ss \in SUBSET Session, Forget(ss)
  PROVE  /\ link' \in [Session -> {"none", "connected", "checking", "in"}]
         /\ who' \in [Session -> [user : User \cup {Anonymous}, rights : SUBSET Perm]]
         /\ since' \in [Session -> SUBSET Config]
         /\ open' \in SUBSET Handle
<1>1. Nobody \in [user : User \cup {Anonymous}, rights : SUBSET Perm]
  BY DEF Nobody
<1> QED
  BY <1>1 DEF Forget, TypeOK

LEMMA OpenAsTyped ==
  ASSUME TypeOK, NEW s \in Session, NEW n \in Name, NEW dir \in {"GET", "PUT", "APPEND"},
         OpenAs(s, n, dir)
  PROVE  open' \in SUBSET Handle
<1> DEFINE h == [s |-> s, id |-> CHOOSE i \in FreeIds : TRUE, name |-> n, dir |-> dir, at |-> n]
<1>1. h \in Handle
  <2>1. (CHOOSE i \in FreeIds : TRUE) \in 1 .. MaxHandles
    BY DEF OpenAs, FreeIds
  <2> QED BY <2>1 DEF Handle
<1>2. open' = open \cup {h}
  BY DEF OpenAs
<1> HIDE DEF h
<1> QED
  BY <1>1, <1>2 DEF TypeOK

-----------------------------------------------------------------------------
(***************************************************************************)
(* Type correctness, step by step.                                         *)
(***************************************************************************)
LEMMA TypeInit == Init => TypeOK
<1> SUFFICES ASSUME Init PROVE TypeOK
  OBVIOUS
<1>1. Nobody \in [user : User \cup {Anonymous}, rights : SUBSET Perm]
  BY DEF Nobody
<1>2. updates \in 0 .. MaxUpdates /\ 0 \in Nat
  BY ConfigAssumption DEF Init
<1> QED
  BY <1>1, <1>2 DEF Init, TypeOK, Kind

LEMMA TypeDoors ==
  ASSUME TypeOK, UpdateCfg \/ UpdateStore \/ UpdateAcl \/ ReplaceSftp
  PROVE  TypeOK'
<1>1. CASE UpdateCfg
  <2>1. updates' \in 0 .. MaxUpdates
    BY <1>1, ConfigAssumption DEF UpdateCfg, TypeOK
  <2>2. since' \in [Session -> SUBSET Config]
    BY <1>1 DEF UpdateCfg, TypeOK
  <2> QED BY <1>1, <2>1, <2>2 DEF UpdateCfg, TypeOK
<1>2. CASE UpdateStore
  BY <1>2 DEF UpdateStore, TypeOK, login
<1>3. CASE UpdateAcl
  BY <1>3 DEF UpdateAcl, TypeOK, login
<1>4. CASE ReplaceSftp
  <2>1. Forget(SftpSession) /\ SftpSession \in SUBSET Session
    BY <1>4 DEF ReplaceSftp, Session
  <2> QED BY <1>4, <2>1, ForgetTyped DEF ReplaceSftp, TypeOK
<1> QED
  BY <1>1, <1>2, <1>3, <1>4

LEMMA TypeLogin ==
  ASSUME TypeOK, NEW s \in Session,
         \/ ClientConnected(s) \/ Accept(s) \/ AuthAnonymous(s) \/ AuthUserEnds(s)
         \/ HandshakeEnds(s) \/ HandshakeFails(s) \/ Disconnect(s)
         \/ \E u \in User : AuthUser(s, u) \/ PasswordCallback(s, u)
  PROVE  TypeOK'
<1>0. Nobody \in [user : User \cup {Anonymous}, rights : SUBSET Perm]
  BY DEF Nobody
<1>1. CASE ClientConnected(s)
  BY <1>1 DEF ClientConnected, Connects, TypeOK, doors
<1>2. CASE Accept(s)
  BY <1>2 DEF Accept, Connects, TypeOK, doors
<1>3. ASSUME NEW user \in User \cup {Anonymous}, NEW rights \in SUBSET Perm,
             NEW pc \in {"checking", "in"}, Begins(s, user, rights, pc)
      PROVE  TypeOK'
  <2>1. InForce \in SUBSET Config
    BY DEF InForce, TypeOK
  <2> QED BY <1>3, <2>1 DEF Begins, TypeOK, doors
<1>4. CASE AuthAnonymous(s)
  BY <1>3, <1>4 DEF AuthAnonymous, Perm
<1>5. CASE AuthUserEnds(s)
  <2>1. link' \in [Session -> {"none", "connected", "checking", "in"}]
    BY <1>5 DEF AuthUserEnds, TypeOK
  <2>2. /\ who' \in [Session -> [user : User \cup {Anonymous}, rights : SUBSET Perm]]
        /\ since' \in [Session -> SUBSET Config]
    BY <1>0, <1>5 DEF AuthUserEnds, TypeOK
  <2> QED BY <1>5, <2>1, <2>2 DEF AuthUserEnds, TypeOK, doors
<1>6. CASE HandshakeEnds(s)
  BY <1>6 DEF HandshakeEnds, TypeOK, doors
<1>7. CASE HandshakeFails(s)
  BY <1>0, <1>7 DEF HandshakeFails, TypeOK, doors
<1>8. CASE Disconnect(s)
  <2>1. Forget({s}) /\ {s} \in SUBSET Session
    BY <1>8 DEF Disconnect
  <2> QED BY <1>8, <2>1, ForgetTyped DEF Disconnect, TypeOK, doors
<1>9. ASSUME NEW u \in User, AuthUser(s, u) PROVE TypeOK'
  <2>1. dStore \in Config /\ Stored(dStore, u) \in SUBSET Perm
    BY <1>9, RightsTyped DEF AuthUser, TypeOK
  <2> QED BY <1>3, <1>9, <2>1 DEF AuthUser
<1>10. ASSUME NEW u \in User, PasswordCallback(s, u) PROVE TypeOK'
  <2>1. sCfg \in Config /\ UserByName(sCfg, u) \in SUBSET Perm
    BY <1>10, RightsTyped DEF PasswordCallback, TypeOK
  <2> QED BY <1>3, <1>10, <2>1 DEF PasswordCallback
<1> QED
  BY <1>1, <1>2, <1>4, <1>5, <1>6, <1>7, <1>8, <1>9, <1>10

LEMMA TypeFiles ==
  ASSUME TypeOK, NEW s \in Session, NEW n \in Name,
         \/ Open(s, n) \/ Create(s, n) \/ OpenFile(s, n) \/ Fileread(s, n) \/ Filewrite(s, n)
         \/ Mkdir(s, n) \/ Remove(s, n) \/ Filecmd(s, n)
         \/ \E o \in Name : Rename(s, n, o)
  PROVE  TypeOK'
<1>1. ASSUME NEW dir \in {"GET", "PUT", "APPEND"}, OpenAs(s, n, dir), fs' \in [Name -> Kind]
      PROVE  TypeOK'
  <2>1. open' \in SUBSET Handle
    BY <1>1, OpenAsTyped
  <2>2. UNCHANGED <<doors, login>>
    BY <1>1 DEF OpenAs
  <2> QED BY <1>1, <2>1, <2>2 DEF TypeOK, doors, login
<1>2. ASSUME NEW trunc, Content(n, trunc) PROVE fs' \in [Name -> Kind]
  BY <1>2 DEF Content, TypeOK, Kind
<1>3. fs \in [Name -> Kind]
  BY DEF TypeOK
<1>4. CASE Open(s, n)
  BY <1>1, <1>3, <1>4 DEF Open
<1>5. CASE Create(s, n)
  BY <1>1, <1>2, <1>5 DEF Create
<1>6. CASE OpenFile(s, n)
  BY <1>1, <1>2, <1>3, <1>6 DEF OpenFile
<1>7. CASE Fileread(s, n)
  BY <1>1, <1>3, <1>7 DEF Fileread
<1>8. CASE Filewrite(s, n)
  BY <1>1, <1>2, <1>8 DEF Filewrite
<1>9. ASSUME MakeDir(n) PROVE TypeOK'
  BY <1>9 DEF MakeDir, TypeOK, Kind, doors, login
<1>10. \A h \in Handle : \A v \in Name \cup {NoName} : [h EXCEPT !.at = v] \in Handle
  BY DEF Handle
<1>11. ASSUME Delete(n) PROVE TypeOK'
  <2>1. fs' \in [Name -> Kind]
    BY <1>11 DEF Delete, TypeOK, Kind
  <2>2. open' \in SUBSET Handle
    <3> SUFFICES ASSUME NEW g \in open' PROVE g \in Handle
      OBVIOUS
    <3>1. PICK h \in open : g = [h EXCEPT !.at = IF h.at = n THEN NoName ELSE h.at]
      BY <1>11 DEF Delete
    <3>2. h \in Handle /\ h.at \in Name \cup {NoName}
      BY DEF TypeOK, Handle
    <3> QED BY <1>10, <3>1, <3>2
  <2> QED BY <1>11, <2>1, <2>2 DEF Delete, TypeOK, doors, login
<1>12. ASSUME NEW o \in Name, Move(n, o) PROVE TypeOK'
  <2>1. fs' \in [Name -> Kind]
    BY <1>12 DEF Move, TypeOK, Kind
  <2>2. open' \in SUBSET Handle
    <3> SUFFICES ASSUME NEW g \in open' PROVE g \in Handle
      OBVIOUS
    <3>1. PICK h \in open : g = [h EXCEPT !.at = IF h.at = o THEN NoName ELSE IF h.at = n THEN o ELSE h.at]
      BY <1>12 DEF Move
    <3>2. h \in Handle /\ h.at \in Name \cup {NoName}
      BY DEF TypeOK, Handle
    <3> QED BY <1>10, <3>1, <3>2
  <2> QED BY <1>12, <2>1, <2>2 DEF Move, TypeOK, doors, login
<1>13. ASSUME Truncate(n) PROVE TypeOK'
  BY <1>13 DEF Truncate, TypeOK, Kind, doors, login
<1>14. CASE Mkdir(s, n)
  BY <1>9, <1>14 DEF Mkdir
<1>15. CASE Remove(s, n)
  BY <1>11, <1>15 DEF Remove
<1>16. CASE Filecmd(s, n)
  BY <1>9, <1>11, <1>12, <1>13, <1>16 DEF Filecmd
<1>17. ASSUME NEW o \in Name, Rename(s, n, o) PROVE TypeOK'
  BY <1>12, <1>17 DEF Rename
<1> QED
  BY <1>4, <1>5, <1>6, <1>7, <1>8, <1>14, <1>15, <1>16, <1>17

LEMMA TypeHandles ==
  ASSUME TypeOK, NEW h \in open, ReadWrite(h) \/ ReadAtWriteAt(h) \/ Close(h) \/ CloseAt(h)
  PROVE  TypeOK'
<1>0. h \in Handle
  BY DEF TypeOK
<1>1. CASE ReadWrite(h) \/ ReadAtWriteAt(h)
  <2>1. Moves(h)
    BY <1>1 DEF ReadWrite, ReadAtWriteAt
  <2>2. fs' \in [Name -> Kind]
    BY <1>0, <2>1 DEF Moves, TypeOK, Kind, Handle
  <2> QED BY <2>1, <2>2 DEF Moves, TypeOK, doors, login
<1>2. CASE Close(h) \/ CloseAt(h)
  <2>1. Closes(h)
    BY <1>2 DEF Close, CloseAt
  <2> QED BY <2>1 DEF Closes, TypeOK, doors, login
<1> QED
  BY <1>1, <1>2

(***************************************************************************)
(* Every step is one of the four groups, or changes nothing.               *)
(***************************************************************************)
LEMMA TypeNext == TypeOK /\ [Next]_vars => TypeOK'
<1> SUFFICES ASSUME TypeOK, [Next]_vars PROVE TypeOK'
  OBVIOUS
<1>1. CASE UNCHANGED vars
  BY <1>1 DEF vars, doors, login, TypeOK
<1>2. CASE Next
  BY <1>2, TypeDoors, TypeLogin, TypeFiles, TypeHandles DEF Next, Serves
<1> QED
  BY <1>1, <1>2

(***************************************************************************)
(* Type correctness: sessions hold rights made of permission characters,   *)
(* and open files belong to sessions.                                      *)
(***************************************************************************)
THEOREM TypeCorrect == Spec => []TypeOK
  BY TypeInit, TypeNext, PTL DEF Spec

-----------------------------------------------------------------------------
(***************************************************************************)
(* The rights of sessions.  Between two reloads all four copies of the     *)
(* section agree, and within one they follow in the order of the calls.    *)
(***************************************************************************)
Pointers ==
  /\ dCfg = saved
  /\ upd # "store" => dStore = saved
  /\ upd \notin {"store", "acl"} => dAcl = saved
  /\ upd = "idle" => sCfg = saved

(***************************************************************************)
(* The rights that a login has taken, also before the password is checked. *)
(***************************************************************************)
LoginsGranted ==
  \A s \in Session : link[s] \in {"checking", "in"} =>
                       \E c \in since[s] : Grants(c, who[s].user, who[s].rights)

RightsInv == TypeOK /\ Pointers /\ LoginsGranted

NamesAreUnique ==
  \A c \in Config : \A i, j \in DOMAIN c.users : c.users[i].name = c.users[j].name => i = j

LEMMA SameEntry ==
  ASSUME NamesAreUnique, NEW c \in Config, NEW u \in User, Entries(c, u) # {}
  PROVE  UserByName(c, u) = Stored(c, u)
<1>1. c.users \in Seq([name : User, rights : SUBSET Perm])
  BY ConfigAssumption
<1>2. Entries(c, u) \in SUBSET (1 .. Len(c.users)) /\ Len(c.users) \in Nat
  BY <1>1 DEF Entries
<1>3. Max(Entries(c, u)) \in Entries(c, u) /\ Min(Entries(c, u)) \in Entries(c, u)
  BY <1>2, MaxMinAreElements
<1>4. \A i, j \in Entries(c, u) : i = j
  BY DEF NamesAreUnique, Entries
<1>5. Max(Entries(c, u)) = Min(Entries(c, u))
  BY <1>3, <1>4
<1> QED
  BY <1>5 DEF Stored, UserByName

LEMMA CurrentIsInForce ==
  ASSUME Pointers
  PROVE  {dCfg, dStore, sCfg} \subseteq InForce
BY DEF Pointers, InForce

(***************************************************************************)
(* A login that begins with rights that a section in force grants.         *)
(***************************************************************************)
LEMMA BeginsGranted ==
  ASSUME RightsInv, NEW s \in Session, NEW user, NEW rights, NEW pc, Begins(s, user, rights, pc),
         NEW c \in InForce, Grants(c, user, rights)
  PROVE  Pointers' /\ LoginsGranted'
<1>1. Pointers'
  BY DEF RightsInv, Pointers, Begins, doors
<1>2. ASSUME NEW t \in Session, link'[t] \in {"checking", "in"}
      PROVE  \E d \in since'[t] : Grants(d, who'[t].user, who'[t].rights)
  <2>1. CASE t = s
    <3>1. since'[t] = InForce /\ who'[t].user = user /\ who'[t].rights = rights
      BY <2>1 DEF Begins, RightsInv, TypeOK
    <3> QED BY <3>1
  <2>2. CASE t # s
    <3>1. link'[t] = link[t] /\ since'[t] = since[t] /\ who'[t] = who[t]
      BY <2>2 DEF Begins, RightsInv, TypeOK
    <3> QED BY <1>2, <3>1 DEF RightsInv, LoginsGranted
  <2> QED BY <2>1, <2>2
<1>3. LoginsGranted' <=> \A t \in Session : link'[t] \in {"checking", "in"} =>
                           \E d \in since'[t] : Grants(d, who'[t].user, who'[t].rights)
  BY DEF LoginsGranted, Grants, Entries, Stored
<1> QED
  BY <1>1, <1>2, <1>3

(***************************************************************************)
(* A step that leaves the logins alone, or ends some, or goes on with one. *)
(***************************************************************************)
LEMMA LoginsKept ==
  ASSUME RightsInv,
         \A s \in Session : link'[s] \in {"checking", "in"} =>
           /\ link[s] \in {"checking", "in"} /\ who'[s] = who[s] /\ since[s] \subseteq since'[s]
  PROVE  LoginsGranted'
<1> SUFFICES ASSUME NEW s \in Session, link'[s] \in {"checking", "in"}
             PROVE  \E c \in since'[s] : Grants(c, who'[s].user, who'[s].rights)
  BY DEF LoginsGranted, Grants, Entries, Stored
<1> QED
  BY DEF RightsInv, LoginsGranted

LEMMA RightsInit == Init => RightsInv
<1> SUFFICES ASSUME Init PROVE RightsInv
  OBVIOUS
<1>1. Pointers
  BY DEF Init, Pointers
<1>2. LoginsGranted
  BY DEF Init, LoginsGranted
<1> QED
  BY <1>1, <1>2, TypeInit DEF RightsInv

LEMMA RightsNext ==
  ASSUME NamesAreUnique, RightsInv, [Next]_vars
  PROVE  RightsInv'
<1>1. TypeOK'
  BY TypeNext DEF RightsInv
<1>2. ASSUME UNCHANGED <<link, who, since>> PROVE LoginsGranted'
  BY <1>2, LoginsKept
<1>3. ASSUME UNCHANGED <<doors, login>> PROVE Pointers' /\ LoginsGranted'
  BY <1>2, <1>3 DEF doors, login, Pointers, RightsInv
<1>4. CASE UNCHANGED vars
  BY <1>1, <1>3, <1>4 DEF vars, RightsInv
<1>5. CASE UpdateCfg
  <2>1. Pointers'
    BY <1>5 DEF UpdateCfg, Pointers, RightsInv
  <2>2. \A s \in Session : since[s] \subseteq since'[s]
    BY <1>5 DEF UpdateCfg
  <2>3. LoginsGranted'
    BY <1>5, <2>2, LoginsKept DEF UpdateCfg
  <2> QED BY <1>1, <2>1, <2>3 DEF RightsInv
<1>6. CASE UpdateStore \/ UpdateAcl
  <2>1. Pointers'
    BY <1>6 DEF UpdateStore, UpdateAcl, Pointers, RightsInv
  <2>2. LoginsGranted'
    BY <1>2, <1>6 DEF UpdateStore, UpdateAcl, login
  <2> QED BY <1>1, <2>1, <2>2 DEF RightsInv
<1>7. ASSUME NEW ss \in SUBSET Session, Forget(ss) PROVE LoginsGranted'
  <2>1. \A s \in Session : link'[s] \in {"checking", "in"} =>
           link[s] \in {"checking", "in"} /\ who'[s] = who[s] /\ since'[s] = since[s]
    BY <1>7 DEF Forget
  <2> QED BY <2>1, LoginsKept
<1>8. CASE ReplaceSftp
  <2>1. Pointers'
    BY <1>8 DEF ReplaceSftp, Pointers, RightsInv
  <2>2. LoginsGranted'
    BY <1>7, <1>8 DEF ReplaceSftp, Session
  <2> QED BY <1>1, <2>1, <2>2 DEF RightsInv
<1>9. ASSUME NEW s \in Session,
             \/ ClientConnected(s) \/ Accept(s) \/ AuthAnonymous(s) \/ AuthUserEnds(s)
             \/ HandshakeEnds(s) \/ HandshakeFails(s) \/ Disconnect(s)
             \/ \E u \in User : AuthUser(s, u) \/ PasswordCallback(s, u)
      PROVE  Pointers' /\ LoginsGranted'
  <2>0. Pointers /\ TypeOK /\ {dCfg, dStore, sCfg} \subseteq InForce
    BY CurrentIsInForce DEF RightsInv
  <2>1. CASE ClientConnected(s) \/ Accept(s)
    <3>1. \A t \in Session : link'[t] \in {"checking", "in"} => link[t] = link'[t]
      BY <2>0, <2>1 DEF ClientConnected, Accept, Connects, TypeOK
    <3> QED BY <2>0, <2>1, <3>1, LoginsKept DEF ClientConnected, Accept, Connects, Pointers, doors
  <2>2. CASE AuthAnonymous(s)
    <3>1. Grants(dCfg, Anonymous, {"l", "r"})
      BY <2>2 DEF AuthAnonymous, Grants
    <3> QED BY <2>0, <2>2, <3>1, BeginsGranted DEF AuthAnonymous
  <2>3. CASE AuthUserEnds(s) \/ HandshakeEnds(s) \/ HandshakeFails(s)
    <3>1. \A t \in Session : link'[t] \in {"checking", "in"} =>
             link[t] \in {"checking", "in"} /\ who'[t] = who[t] /\ since'[t] = since[t]
      BY <2>0, <2>3 DEF AuthUserEnds, HandshakeEnds, HandshakeFails, TypeOK
    <3> QED BY <2>0, <2>3, <3>1, LoginsKept DEF AuthUserEnds, HandshakeEnds, HandshakeFails, Pointers, doors
  <2>4. CASE Disconnect(s)
    BY <1>7, <2>0, <2>4 DEF Disconnect, Pointers, doors
  <2>5. ASSUME NEW u \in User, AuthUser(s, u) PROVE Pointers' /\ LoginsGranted'
    <3>1. Grants(dStore, u, Stored(dStore, u))
      BY <2>5, ConfigAssumption DEF AuthUser, Grants
    <3> QED BY <2>0, <2>5, <3>1, BeginsGranted DEF AuthUser
  <2>6. ASSUME NEW u \in User, PasswordCallback(s, u) PROVE Pointers' /\ LoginsGranted'
    <3>1. sCfg \in Config
      BY <2>0 DEF TypeOK
    <3>2. Grants(sCfg, u, UserByName(sCfg, u))
      BY <2>6, <3>1, SameEntry, ConfigAssumption DEF PasswordCallback, Grants
    <3> QED BY <2>0, <2>6, <3>2, BeginsGranted DEF PasswordCallback
  <2> QED BY <1>9, <2>1, <2>2, <2>3, <2>4, <2>5, <2>6
<1>10. ASSUME NEW s \in Session, NEW n \in Name,
              \/ Open(s, n) \/ Create(s, n) \/ OpenFile(s, n) \/ Fileread(s, n) \/ Filewrite(s, n)
              \/ Mkdir(s, n) \/ Remove(s, n) \/ Filecmd(s, n)
              \/ \E o \in Name : Rename(s, n, o)
       PROVE  Pointers' /\ LoginsGranted'
  <2>1. UNCHANGED <<doors, login>>
    BY <1>10 DEF Open, Create, OpenFile, Fileread, Filewrite, OpenAs, Mkdir, Remove, Filecmd, Rename,
                 MakeDir, Delete, Move, Truncate
  <2> QED BY <1>3, <2>1
<1>11. ASSUME NEW h \in open, ReadWrite(h) \/ ReadAtWriteAt(h) \/ Close(h) \/ CloseAt(h)
       PROVE  Pointers' /\ LoginsGranted'
  <2>1. UNCHANGED <<doors, login>>
    BY <1>11 DEF ReadWrite, ReadAtWriteAt, Close, CloseAt, Moves, Closes
  <2> QED BY <1>3, <2>1
<1> QED
  BY <1>1, <1>4, <1>5, <1>6, <1>8, <1>9, <1>10, <1>11 DEF Next, Serves, RightsInv

(***************************************************************************)
(* Where no name is listed twice, the rights of every session, through     *)
(* either door, are those of a section that was in force during its login. *)
(***************************************************************************)
THEOREM RightsInForce ==
  ASSUME NamesAreUnique
  PROVE  Spec => []RightsWereInForce
<1>1. RightsInv /\ [Next]_vars => RightsInv'
  BY RightsNext
<1>2. RightsInv => RightsWereInForce
  BY DEF RightsInv, LoginsGranted, RightsWereInForce
<1> QED
  BY <1>1, <1>2, RightsInit, PTL DEF Spec

-----------------------------------------------------------------------------
(***************************************************************************)
(* What an open file says of its session and of the file: the session is   *)
(* logged in and has the right that the direction needs, and the path is   *)
(* inside the home and there.                                              *)
(***************************************************************************)
HandleOK(h) ==
  /\ link[h.s] = "in"
  /\ h.dir = "PUT" => "w" \in who[h.s].rights
  /\ h.dir = "APPEND" => "a" \in who[h.s].rights
  /\ h.at # NoName => h.at \in Name \ Escaping /\ fs[h.at] # "none"

HandlesGranted == \A h \in open : HandleOK(h)

GrantInv == TypeOK /\ HandlesGranted

(***************************************************************************)
(* A step after which every open file was open before, of the same session *)
(* with the same rights, and is where it was.                              *)
(***************************************************************************)
LEMMA HandlesKept ==
  ASSUME GrantInv, open' \subseteq open,
         \A s \in Session : link[s] = "in" /\ (\E h \in open' : h.s = s) => link'[s] = "in" /\ who'[s] = who[s],
         \A n \in Name : fs[n] # "none" => fs'[n] # "none"
  PROVE  HandlesGranted'
<1> SUFFICES ASSUME NEW h \in open' PROVE HandleOK(h)'
  BY DEF HandlesGranted
<1>1. h \in Handle /\ HandleOK(h)
  BY DEF GrantInv, HandlesGranted, TypeOK
<1>2. h.s \in Session
  BY <1>1 DEF Handle
<1> QED
  BY <1>1, <1>2 DEF HandleOK

LEMMA GrantLogin ==
  ASSUME GrantInv, NEW s \in Session,
         \/ ClientConnected(s) \/ Accept(s) \/ AuthAnonymous(s) \/ AuthUserEnds(s)
         \/ HandshakeEnds(s) \/ HandshakeFails(s) \/ Disconnect(s)
         \/ \E u \in User : AuthUser(s, u) \/ PasswordCallback(s, u)
  PROVE  HandlesGranted'
<1>1. fs' = fs /\ open' \subseteq open
  BY DEF ClientConnected, Accept, Connects, AuthAnonymous, AuthUserEnds, HandshakeEnds, HandshakeFails, Disconnect,
         AuthUser, PasswordCallback, Begins, Forget
<1>2. ASSUME NEW t \in Session, link[t] = "in", \E h \in open' : h.s = t
      PROVE  link'[t] = "in" /\ who'[t] = who[t]
  <2>1. CASE Disconnect(s)
    <3>1. t # s
      BY <1>2, <2>1 DEF Disconnect, Forget
    <3> QED BY <1>2, <2>1, <3>1 DEF Disconnect, Forget
  <2>2. CASE ~Disconnect(s)
    BY <1>2, <2>2 DEF ClientConnected, Accept, Connects, AuthAnonymous, AuthUserEnds, HandshakeEnds, HandshakeFails,
         AuthUser, PasswordCallback, Begins, GrantInv, TypeOK
  <2> QED BY <2>1, <2>2
<1> QED
  BY <1>1, <1>2, HandlesKept

LEMMA GrantOpen ==
  ASSUME GrantInv, NEW s \in Session, NEW n \in Name \ Escaping, NEW dir \in {"GET", "PUT", "APPEND"},
         OpenAs(s, n, dir), link[s] = "in",
         dir = "PUT" => "w" \in who[s].rights, dir = "APPEND" => "a" \in who[s].rights,
         \A m \in Name : m = n \/ fs[m] # "none" => fs'[m] # "none"
  PROVE  HandlesGranted'
<1>1. PICK i : open' = open \cup {[s |-> s, id |-> i, name |-> n, dir |-> dir, at |-> n]}
  BY DEF OpenAs
<1>2. UNCHANGED <<link, who>>
  BY DEF OpenAs, login
<1>3. ASSUME NEW h \in open PROVE HandleOK(h)'
  <2>1. h \in Handle /\ HandleOK(h)
    BY DEF GrantInv, HandlesGranted, TypeOK
  <2> QED BY <1>2, <2>1 DEF HandleOK
<1>4. HandleOK([s |-> s, id |-> i, name |-> n, dir |-> dir, at |-> n])'
  BY <1>2 DEF HandleOK
<1> QED
  BY <1>1, <1>3, <1>4 DEF HandlesGranted

(***************************************************************************)
(* Renames and removals take the open file with them.                      *)
(***************************************************************************)
LEMMA GrantMoves ==
  ASSUME GrantInv, NEW n \in Name \ Escaping,
         Delete(n) \/ \E o \in Name \ Escaping : Move(n, o)
  PROVE  HandlesGranted'
<1>0. fs \in [Name -> Kind] /\ open \in SUBSET Handle /\ NoName \notin Name
  BY ConfigAssumption DEF GrantInv, TypeOK
<1>1. CASE Delete(n)
  <2> SUFFICES ASSUME NEW g \in open' PROVE HandleOK(g)'
    BY DEF HandlesGranted
  <2>1. PICK h \in open : g = [h EXCEPT !.at = IF h.at = n THEN NoName ELSE h.at]
    BY <1>1 DEF Delete
  <2>2. h \in Handle /\ HandleOK(h)
    BY <1>0 DEF GrantInv, HandlesGranted
  <2>3. g.s = h.s /\ g.dir = h.dir /\ g.at = IF h.at = n THEN NoName ELSE h.at
    BY <2>1, <2>2 DEF Handle
  <2>4. g.at # NoName => g.at \in Name \ Escaping /\ fs'[g.at] # "none"
    BY <1>0, <1>1, <2>2, <2>3 DEF Delete, HandleOK
  <2> QED BY <1>1, <2>2, <2>3, <2>4 DEF Delete, HandleOK, login
<1>2. ASSUME NEW o \in Name \ Escaping, Move(n, o) PROVE HandlesGranted'
  <2> SUFFICES ASSUME NEW g \in open' PROVE HandleOK(g)'
    BY DEF HandlesGranted
  <2>1. PICK h \in open : g = [h EXCEPT !.at = IF h.at = o THEN NoName ELSE IF h.at = n THEN o ELSE h.at]
    BY <1>2 DEF Move
  <2>2. h \in Handle /\ HandleOK(h)
    BY <1>0 DEF GrantInv, HandlesGranted
  <2>3. g.s = h.s /\ g.dir = h.dir /\ g.at = IF h.at = o THEN NoName ELSE IF h.at = n THEN o ELSE h.at
    BY <2>1, <2>2 DEF Handle
  <2>4. fs'[o] = fs[n] /\ fs[n] # "none" /\ \A m \in Name : m \notin {n, o} => fs'[m] = fs[m]
    BY <1>0, <1>2 DEF Move
  <2>5. g.at # NoName => g.at \in Name \ Escaping /\ fs'[g.at] # "none"
    BY <1>0, <2>2, <2>3, <2>4 DEF HandleOK
  <2> QED BY <1>2, <2>2, <2>3, <2>5 DEF Move, HandleOK, login
<1> QED
  BY <1>1, <1>2

LEMMA GrantFiles ==
  ASSUME GrantInv, NEW s \in Session, NEW n \in Name,
         \/ Open(s, n) \/ Create(s, n) \/ OpenFile(s, n) \/ Fileread(s, n) \/ Filewrite(s, n)
         \/ Mkdir(s, n) \/ Remove(s, n) \/ Filecmd(s, n)
         \/ \E o \in Name : Rename(s, n, o)
  PROVE  HandlesGranted'
<1>0. fs \in [Name -> Kind]
  BY DEF GrantInv, TypeOK
<1>1. ASSUME NEW trunc, Content(n, trunc)
      PROVE  \A m \in Name : m = n \/ fs[m] # "none" => fs'[m] # "none"
  BY <1>0, <1>1 DEF Content
<1>2. CASE Open(s, n)
  BY <1>2, GrantOpen DEF Open, FtpMay, Allows, IsFile
<1>3. CASE Create(s, n)
  BY <1>1, <1>3, GrantOpen DEF Create, FtpMay, Allows
<1>4. CASE OpenFile(s, n)
  <2>1. CASE FtpMay(s, "a", n) /\ OpenAs(s, n, "APPEND") /\ Content(n, FALSE)
    BY <1>1, <2>1, GrantOpen DEF FtpMay, Allows
  <2>2. CASE FtpMay(s, "w", n) /\ OpenAs(s, n, "PUT") /\ \E trunc \in BOOLEAN : Content(n, trunc)
    BY <1>1, <2>2, GrantOpen DEF FtpMay, Allows
  <2>3. CASE FtpMay(s, "r", n) /\ IsFile(n) /\ OpenAs(s, n, "GET") /\ UNCHANGED fs
    BY <2>3, GrantOpen DEF FtpMay, Allows, IsFile
  <2> QED BY <1>4, <2>1, <2>2, <2>3 DEF OpenFile
<1>5. CASE Fileread(s, n)
  BY <1>5, GrantOpen DEF Fileread, JailedMay, Allows
<1>6. CASE Filewrite(s, n)
  <2>1. CASE JailedMay(s, "a", n) /\ OpenAs(s, n, "APPEND") /\ Content(n, FALSE)
    BY <1>1, <2>1, GrantOpen DEF JailedMay, Allows
  <2>2. CASE JailedMay(s, "w", n) /\ OpenAs(s, n, "PUT") /\ \E trunc \in BOOLEAN : Content(n, trunc)
    BY <1>1, <2>2, GrantOpen DEF JailedMay, Allows
  <2> QED BY <1>6, <2>1, <2>2 DEF Filewrite
<1>7. ASSUME MakeDir(n) \/ Truncate(n) PROVE HandlesGranted'
  <2>1. UNCHANGED <<link, who, open>>
    BY <1>7 DEF MakeDir, Truncate, login
  <2>2. \A m \in Name : fs[m] # "none" => fs'[m] # "none"
    BY <1>0, <1>7 DEF MakeDir, Truncate
  <2> QED BY <2>1, <2>2, HandlesKept
<1>8. CASE Mkdir(s, n)
  BY <1>7, <1>8 DEF Mkdir
<1>9. CASE Remove(s, n)
  BY <1>9, GrantMoves DEF Remove, FtpMay
<1>10. ASSUME NEW o \in Name, Rename(s, n, o) PROVE HandlesGranted'
  BY <1>10, GrantMoves DEF Rename, FtpMay
<1>11. CASE Filecmd(s, n)
  BY <1>7, <1>11, GrantMoves DEF Filecmd, JailedMay
<1> QED
  BY <1>2, <1>3, <1>4, <1>5, <1>6, <1>8, <1>9, <1>10, <1>11

LEMMA GrantHandles ==
  ASSUME GrantInv, NEW h \in open, ReadWrite(h) \/ ReadAtWriteAt(h) \/ Close(h) \/ CloseAt(h)
  PROVE  HandlesGranted'
<1>1. UNCHANGED <<link, who>> /\ open' \subseteq open
  BY DEF ReadWrite, ReadAtWriteAt, Close, CloseAt, Moves, Closes, login
<1>2. \A m \in Name : fs[m] # "none" => fs'[m] # "none"
  BY DEF ReadWrite, ReadAtWriteAt, Close, CloseAt, Moves, Closes, GrantInv, TypeOK
<1> QED
  BY <1>1, <1>2, HandlesKept

LEMMA GrantNext == GrantInv /\ [Next]_vars => GrantInv'
<1> SUFFICES ASSUME GrantInv, [Next]_vars PROVE GrantInv'
  OBVIOUS
<1>1. TypeOK'
  BY TypeNext DEF GrantInv
<1>2. ASSUME UNCHANGED vars PROVE HandlesGranted'
  BY <1>2, HandlesKept DEF vars, login
<1>3. ASSUME UpdateCfg \/ UpdateStore \/ UpdateAcl PROVE HandlesGranted'
  BY <1>3, HandlesKept DEF UpdateCfg, UpdateStore, UpdateAcl, login
<1>4. ASSUME ReplaceSftp PROVE HandlesGranted'
  <2>1. \A s \in Session : (\E h \in open' : h.s = s) => link'[s] = link[s] /\ who'[s] = who[s]
    BY <1>4 DEF ReplaceSftp, Forget
  <2>2. open' \subseteq open /\ fs' = fs
    BY <1>4 DEF ReplaceSftp, Forget
  <2> QED BY <2>1, <2>2, HandlesKept
<1>5. ASSUME Next PROVE HandlesGranted'
  BY <1>3, <1>4, <1>5, GrantLogin, GrantFiles, GrantHandles DEF Next, Serves
<1> QED
  BY <1>1, <1>2, <1>5 DEF GrantInv

-----------------------------------------------------------------------------
(***************************************************************************)
(* What a call of a session changes, its own rights cover, or it is one of *)
(* the two exceptions.                                                     *)
(***************************************************************************)
Granted(s) == link[s] = "in" /\ (Covers(s) \/ CreatesByAppend(s) \/ ResizesByChmod(s))

LEMMA FileChange ==
  ASSUME GrantInv, NEW s \in Session, NEW n \in Name,
         \/ Open(s, n) \/ Create(s, n) \/ OpenFile(s, n) \/ Fileread(s, n) \/ Filewrite(s, n)
         \/ Mkdir(s, n) \/ Remove(s, n) \/ Filecmd(s, n)
         \/ \E o \in Name : Rename(s, n, o),
         fs' # fs
  PROVE  Granted(s)
<1>0. fs \in [Name -> Kind]
  BY DEF GrantInv, TypeOK
<1>1. ASSUME NEW trunc \in BOOLEAN, Content(n, trunc)
      PROVE  Becomes(n, "empty") /\ (~trunc => fs[n] = "none")
  BY <1>0, <1>1 DEF Content, Becomes
<1>2. ASSUME n \notin Escaping, "w" \in who[s].rights, fs[n] # "dir",
             NEW trunc \in BOOLEAN, Content(n, trunc)
      PROVE  Covers(s)
  BY <1>1, <1>2 DEF Covers
<1>3. ASSUME n \notin Escaping, "a" \in who[s].rights, Content(n, FALSE)
      PROVE  CreatesByAppend(s)
  BY <1>1, <1>3 DEF CreatesByAppend
<1>4. ASSUME n \notin Escaping, "m" \in who[s].rights, MakeDir(n) PROVE Covers(s)
  BY <1>4 DEF MakeDir, Covers, Becomes
<1>5. ASSUME n \notin Escaping, "d" \in who[s].rights, Delete(n) PROVE Covers(s)
  BY <1>5 DEF Delete, Covers, Becomes
<1>6. ASSUME n \notin Escaping, "f" \in who[s].rights, NEW o \in Name \ Escaping, Move(n, o) PROVE Covers(s)
  BY <1>6 DEF Move, Covers
<1>7. ASSUME n \notin Escaping, "M" \in who[s].rights, s \in SftpSession, Truncate(n) PROVE ResizesByChmod(s)
  BY <1>7 DEF Truncate, ResizesByChmod, Becomes
<1>8. CASE Open(s, n) \/ Fileread(s, n)
  BY <1>8 DEF Open, Fileread
<1>9. CASE Create(s, n)
  BY <1>2, <1>9 DEF Create, FtpMay, Allows, Granted
<1>10. CASE OpenFile(s, n)
  BY <1>2, <1>3, <1>10 DEF OpenFile, FtpMay, Allows, Granted
<1>11. CASE Filewrite(s, n)
  BY <1>2, <1>3, <1>11 DEF Filewrite, JailedMay, Allows, Granted
<1>12. CASE Mkdir(s, n)
  BY <1>4, <1>12 DEF Mkdir, FtpMay, Allows, Granted
<1>13. CASE Remove(s, n)
  BY <1>5, <1>13 DEF Remove, FtpMay, Allows, Granted
<1>14. ASSUME NEW o \in Name, Rename(s, n, o) PROVE Granted(s)
  BY <1>6, <1>14 DEF Rename, FtpMay, Allows, Granted
<1>15. CASE Filecmd(s, n)
  BY <1>4, <1>5, <1>6, <1>7, <1>15 DEF Filecmd, JailedMay, Allows, Granted
<1> QED
  BY <1>8, <1>9, <1>10, <1>11, <1>12, <1>13, <1>14, <1>15

LEMMA HandleChange ==
  ASSUME GrantInv, NEW h \in open, ReadWrite(h) \/ ReadAtWriteAt(h) \/ Close(h) \/ CloseAt(h),
         fs' # fs
  PROVE  Granted(h.s)
<1>1. h \in Handle /\ HandleOK(h) /\ fs \in [Name -> Kind]
  BY DEF GrantInv, HandlesGranted, TypeOK
<1>2. h.dir \in {"GET", "PUT", "APPEND"}
  BY <1>1 DEF Handle
<1>3. Moves(h)
  BY DEF ReadWrite, ReadAtWriteAt, Close, CloseAt, Closes
<1>4. /\ h.dir \in {"PUT", "APPEND"} /\ h.at # NoName /\ fs[h.at] # "dir"
      /\ Becomes(h.at, "data")
  BY <1>2, <1>3 DEF Moves, Becomes
<1>5. h.at \in Name \ Escaping /\ fs[h.at] \in Kind /\ fs[h.at] # "none" /\ link[h.s] = "in"
  BY <1>1, <1>4 DEF HandleOK
<1>6. fs[h.at] = "empty"
  BY <1>1, <1>4, <1>5 DEF Kind, Becomes
<1>7. Covers(h.s)
  BY <1>1, <1>4, <1>5, <1>6 DEF Covers, HandleOK
<1> QED
  BY <1>5, <1>7 DEF Granted

(***************************************************************************)
(* Whatever calls arrive in whatever order at either door, a session       *)
(* changes a file only in a way that its own rights cover, creation by an  *)
(* append and resizing by SFTP's Setstat apart, and nothing that SafeJoin  *)
(* refuses changes.                                                        *)
(***************************************************************************)
THEOREM ChangesGranted == Spec => ChangesWereGranted
<1>1. Init => GrantInv
  BY TypeInit DEF Init, GrantInv, HandlesGranted
<1>2. ASSUME GrantInv, NEW s \in Session, fs' # fs, Serves(s) PROVE Granted(s)
  <2>1. ASSUME \/ ClientConnected(s) \/ Accept(s) \/ AuthAnonymous(s) \/ AuthUserEnds(s)
               \/ HandshakeEnds(s) \/ HandshakeFails(s) \/ Disconnect(s)
               \/ \E u \in User : AuthUser(s, u) \/ PasswordCallback(s, u)
        PROVE  FALSE
    BY <1>2, <2>1 DEF ClientConnected, Accept, Connects, AuthAnonymous, AuthUserEnds, HandshakeEnds,
                HandshakeFails, Disconnect, AuthUser, PasswordCallback, Begins
  <2> QED BY <1>2, <2>1, FileChange, HandleChange DEF Serves
<1>3. GrantInv =>
        [\A s \in Session : fs' # fs /\ Serves(s) =>
           link[s] = "in" /\ (Covers(s) \/ CreatesByAppend(s) \/ ResizesByChmod(s))]_vars
  BY <1>2 DEF Granted
<1> QED
  BY <1>1, <1>3, GrantNext, PTL DEF Spec, ChangesWereGranted

-----------------------------------------------------------------------------
(***************************************************************************)
(* The table.  The events of a connection have its key and no file, those  *)
(* of a transfer have a file; only those decide nothing that are progress. *)
(***************************************************************************)
Shaped(ev) ==
  /\ ev \in Event
  /\ ev.kind # "transfer" => ev.key[2] = NoPath /\ ev.says = IF ev.kind = "auth" THEN "end" ELSE ""
  /\ ev.kind = "transfer" => ev.key[2] # NoPath /\ ev.says # ""
  /\ ev.says = "start" => ev.dir # ""

AllShaped == \A i \in DOMAIN pending : Shaped(pending[i])

LEMMA OfShaped ==
  ASSUME NEW s \in Client
  PROVE  /\ Shaped(Of(s, NoPath, "connect", "", "")) /\ Shaped(Of(s, NoPath, "disconnect", "", ""))
         /\ Shaped(Of(s, NoPath, "error", "", "")) /\ Shaped(Of(s, NoPath, "auth", "end", ""))
         /\ \A n \in Path :
              /\ Shaped(Of(s, n, "transfer", "progress", ""))
              /\ \A says \in {"start", "end"}, dir \in {"GET", "PUT"} : Shaped(Of(s, n, "transfer", says, dir))
<1>1. <<s, NoPath>> \in RowKey /\ \A n \in Path : <<s, n>> \in RowKey /\ n # NoPath
  BY TableAssumption DEF RowKey
<1> QED
  BY <1>1 DEF Of, Shaped, Event

(***************************************************************************)
(* What applying an event does to the row of its key, and to no other.     *)
(***************************************************************************)
Effect(ev) ==
  IF ev.kind = "connect" THEN "connection"
  ELSE IF ev.kind = "transfer" /\ ev.says = "start" THEN ev.dir ELSE "none"

LEMMA Applied ==
  ASSUME NEW ev, Shaped(ev), NEW r \in [RowKey -> Row]
  PROVE  /\ Apply(r, ev) \in [RowKey -> Row]
         /\ \A k \in RowKey : Apply(r, ev)[k] =
              IF k # ev.key THEN r[k]
              ELSE IF ev.says # "progress" THEN Effect(ev)
              ELSE IF r[k] = "none" THEN "GET" ELSE r[k]
<1>1. ev \in Event /\ ev.key \in RowKey
  BY DEF Shaped, Event
<1>2. ev.kind # "transfer" => ConnKey(ev) = ev.key
  <2>1. ev.key = <<ev.key[1], ev.key[2]>>
    BY <1>1 DEF RowKey
  <2> QED BY <2>1 DEF Shaped, ConnKey
<1>3. ev.kind \in {"connect", "disconnect", "auth", "error", "transfer"} /\ ev.says \in {"", "start", "progress", "end"}
  BY <1>1 DEF Event
<1>4. ev.says = "start" => ev.dir \in Row
  BY <1>1 DEF Shaped, Event, Row
<1>5. CASE ev.kind = "connect"
  <2>1. ev.says = "" /\ "connection" \in Row
    BY <1>5 DEF Shaped, Row
  <2>2. Apply(r, ev) = [r EXCEPT ![ev.key] = "connection"]
    BY <1>2, <1>5, <2>1 DEF Apply
  <2> QED BY <1>1, <1>5, <2>1, <2>2 DEF Effect
<1>6. CASE ev.kind = "disconnect"
  BY <1>1, <1>2, <1>6 DEF Apply, Effect, Shaped, Row
<1>7. CASE ev.kind = "auth" \/ ev.kind = "error"
  BY <1>1, <1>2, <1>7 DEF Apply, Effect, Shaped, Row
<1>8. CASE ev.kind = "transfer"
  BY <1>1, <1>3, <1>4, <1>8 DEF Apply, Effect, Shaped, Row
<1> QED
  BY <1>3, <1>5, <1>6, <1>7, <1>8

-----------------------------------------------------------------------------
(***************************************************************************)
(* A row whose value is v while the events p wait and R are the values     *)
(* that are right: what will decide it last leaves a right one, it is      *)
(* right when nothing is to decide it, and progress follows the last that  *)
(* decides it only while a transfer is open.                               *)
(***************************************************************************)
LastAt(i, p, k) == \A j \in DOMAIN p : j > i => ~Decides(p[j], k)

KeyOK(k, p, v, R, o) ==
  /\ \A i \in DOMAIN p : Decides(p[i], k) /\ LastAt(i, p, k) => Effect(p[i]) \in R
  /\ (\A i \in DOMAIN p : ~Decides(p[i], k)) => v \in R
  /\ \A i \in DOMAIN p : p[i].key = k /\ p[i].says = "progress" /\ LastAt(i, p, k) => o

LEMMA Dropped ==
  ASSUME NEW p \in Seq(Event), p # <<>>, NEW k \in RowKey, NEW v, NEW R, NEW o,
         KeyOK(k, p, v, R, o), k \notin LastOf(Head(p), Tail(p))
  PROVE  KeyOK(k, Tail(p), v, R, o)
<1> DEFINE q == Tail(p)
<1>1. /\ DOMAIN p = 1 .. Len(p) /\ Len(p) \in Nat /\ Len(p) >= 1
      /\ DOMAIN q = 1 .. (Len(p) - 1) /\ \A i \in DOMAIN q : q[i] = p[i + 1]
      /\ Head(p) = p[1]
  OBVIOUS
<1>2. \A i \in DOMAIN q : i + 1 \in DOMAIN p /\ (LastAt(i, q, k) => LastAt(i + 1, p, k))
  <2> HIDE DEF q
  <2> SUFFICES ASSUME NEW i \in DOMAIN q
               PROVE  i + 1 \in DOMAIN p /\ (LastAt(i, q, k) => LastAt(i + 1, p, k))
    OBVIOUS
  <2>1. i + 1 \in DOMAIN p
    BY <1>1
  <2>2. ASSUME LastAt(i, q, k), NEW j \in DOMAIN p, j > i + 1 PROVE ~Decides(p[j], k)
    <3>1. j - 1 \in DOMAIN q /\ j - 1 > i /\ (j - 1) + 1 = j
      BY <1>1, <2>2
    <3> QED BY <1>1, <2>2, <3>1 DEF LastAt
  <2> QED BY <2>1, <2>2 DEF LastAt
<1>3. ASSUME \A i \in DOMAIN q : ~Decides(q[i], k) PROVE v \in R
  <2>1. ~Decides(p[1], k)
    BY <1>1, <1>3 DEF LastOf, Decided
  <2>2. \A i \in DOMAIN p : i = 1 \/ (i - 1 \in DOMAIN q /\ (i - 1) + 1 = i)
    <3> HIDE DEF q
    <3> QED BY <1>1
  <2>3. \A i \in DOMAIN p : ~Decides(p[i], k)
    <3> HIDE DEF q
    <3> QED BY <1>1, <1>3, <2>1, <2>2
  <2> QED BY <2>3 DEF KeyOK
<1> HIDE DEF q
<1>4. ASSUME NEW i \in DOMAIN q, Decides(q[i], k), LastAt(i, q, k) PROVE Effect(q[i]) \in R
  BY <1>1, <1>2, <1>4 DEF KeyOK
<1>5. ASSUME NEW i \in DOMAIN q, q[i].key = k, q[i].says = "progress", LastAt(i, q, k) PROVE o
  BY <1>1, <1>2, <1>5 DEF KeyOK
<1>6. KeyOK(k, q, v, R, o)
  BY <1>3, <1>4, <1>5 DEF KeyOK
<1> QED
  BY <1>6 DEF q

(***************************************************************************)
(* An event that is added: of another row, of this one, or progress of it. *)
(***************************************************************************)
LEMMA Added ==
  ASSUME NEW p \in Seq(Event), NEW ev \in Event, NEW k \in RowKey, NEW v, NEW R, NEW o,
         \/ Decides(ev, k) /\ Effect(ev) \in R
         \/ ~Decides(ev, k) /\ KeyOK(k, p, v, R, o) /\ (ev.key = k => o)
  PROVE  KeyOK(k, Append(p, ev), v, R, o)
<1> DEFINE q == Append(p, ev)
           n == Len(p) + 1
<1>1. /\ DOMAIN p = 1 .. Len(p) /\ Len(p) \in Nat /\ DOMAIN q = 1 .. n
      /\ \A i \in DOMAIN p : q[i] = p[i] /\ i \in DOMAIN q
      /\ q[n] = ev /\ n \in DOMAIN q
  OBVIOUS
<1>2. \A i \in DOMAIN q : i = n \/ (i \in DOMAIN p /\ n > i)
  <2> HIDE DEF q
  <2> QED BY <1>1
<1> HIDE DEF q, n
<1>3. CASE Decides(ev, k) /\ Effect(ev) \in R
  <2>1. \A i \in DOMAIN q : LastAt(i, q, k) => i = n
    BY <1>1, <1>2, <1>3 DEF LastAt
  <2>2. q[n].says # "progress"
    BY <1>1, <1>3 DEF Decides
  <2> QED BY <1>1, <1>3, <2>1, <2>2 DEF KeyOK, q
<1>4. CASE ~Decides(ev, k) /\ KeyOK(k, p, v, R, o) /\ (ev.key = k => o)
  <2>1. \A i \in DOMAIN p : LastAt(i, q, k) => LastAt(i, p, k)
    BY <1>1 DEF LastAt
  <2>2. \A i \in DOMAIN q : Decides(q[i], k) /\ LastAt(i, q, k) => Effect(q[i]) \in R
    BY <1>1, <1>2, <1>4, <2>1 DEF KeyOK
  <2>3. (\A i \in DOMAIN q : ~Decides(q[i], k)) => v \in R
    BY <1>1, <1>4 DEF KeyOK
  <2>4. \A i \in DOMAIN q : q[i].key = k /\ q[i].says = "progress" /\ LastAt(i, q, k) => o
    BY <1>1, <1>2, <1>4, <2>1 DEF KeyOK
  <2>5. KeyOK(k, q, v, R, o)
    BY <2>2, <2>3, <2>4 DEF KeyOK
  <2> QED BY <2>5 DEF q
<1> QED
  BY <1>3, <1>4

-----------------------------------------------------------------------------
Right(k)  == {v \in Row : Shows(k, v)}
InUse(k)  == k[2] # NoPath /\ Owned(k[1], k[2], transfers) # {}
Settled(k) == k \notin missed /\ k \notin shared /\ k[2] \notin StartLike

Overlap == \A t, u \in transfers : t # u /\ t.s = u.s /\ t.name = u.name => <<t.s, t.name>> \in shared

RowsOK == \A k \in RowKey : Settled(k) => KeyOK(k, pending, rows[k], Right(k), InUse(k))

TableInv == TableTypeOK /\ AllShaped /\ Overlap /\ RowsOK

(***************************************************************************)
(* Publish: the channel and what is missed, and then the rows.             *)
(***************************************************************************)
LEMMA PublishTyped ==
  ASSUME TableTypeOK, AllShaped, NEW ev, Shaped(ev), Publish(ev)
  PROVE  /\ pending' \in Seq(Event) /\ Len(pending') <= Buffer /\ missed' \subseteq RowKey
         /\ AllShaped'
<1>1. ev \in Event /\ pending \in Seq(Event) /\ Len(pending) <= Buffer /\ Buffer \in Nat
  BY TableAssumption DEF Shaped, TableTypeOK
<1>2. Decided(ev) \subseteq RowKey /\ LastOf(Head(pending), Tail(pending)) \subseteq RowKey
  BY DEF Decided, LastOf
<1>3. missed' \subseteq RowKey
  BY <1>2 DEF Publish, TableTypeOK
<1>4. CASE Len(pending) < Buffer /\ pending' = Append(pending, ev)
  <2>1. Len(pending') = Len(pending) + 1 /\ pending' \in Seq(Event)
    BY <1>1, <1>4
  <2>2. \A i \in DOMAIN pending' : pending'[i] = ev \/ (i \in DOMAIN pending /\ pending'[i] = pending[i])
    BY <1>1, <1>4
  <2>3. AllShaped'
    BY <2>2 DEF AllShaped, Shaped
  <2> QED BY <1>1, <1>3, <1>4, <2>1, <2>3
<1>5. CASE pending # <<>> /\ pending' = Append(Tail(pending), ev)
  <2>1. Len(pending') = Len(pending) /\ pending' \in Seq(Event)
    BY <1>1, <1>5
  <2>2. \A i \in DOMAIN pending' : pending'[i] = ev \/ (i + 1 \in DOMAIN pending /\ pending'[i] = pending[i + 1])
    BY <1>1, <1>5
  <2> QED BY <1>1, <1>3, <2>1, <2>2 DEF AllShaped, Shaped
<1>6. CASE pending' = pending
  BY <1>1, <1>3, <1>6 DEF AllShaped, Shaped
<1> QED
  BY <1>4, <1>5, <1>6 DEF Publish

LEMMA PublishKeeps ==
  ASSUME TableInv, NEW ev, Shaped(ev), Publish(ev), rows' = rows,
         NEW k \in RowKey, k \notin missed', NEW R, NEW o,
         \/ Decides(ev, k) /\ Effect(ev) \in R
         \/ ~Decides(ev, k) /\ Settled(k) /\ R = Right(k) /\ o = InUse(k) /\ (ev.key = k => o)
  PROVE  KeyOK(k, pending', rows'[k], R, o)
<1>1. pending \in Seq(Event) /\ ev \in Event /\ (pending # <<>> => Tail(pending) \in Seq(Event))
  <2>1. pending \in Seq(Event) /\ ev \in Event
    BY DEF TableInv, TableTypeOK, Shaped
  <2> QED BY <2>1
<1>2. CASE Decides(ev, k) /\ Effect(ev) \in R
  <2>1. k \in Decided(ev)
    BY <1>2 DEF Decided
  <2>2. pending' = Append(pending, ev) \/ (pending # <<>> /\ pending' = Append(Tail(pending), ev))
    BY <2>1 DEF Publish
  <2> QED BY <1>1, <1>2, <2>2, Added
<1>3. CASE ~Decides(ev, k) /\ Settled(k) /\ R = Right(k) /\ o = InUse(k) /\ (ev.key = k => o)
  <2>0. KeyOK(k, pending, rows[k], R, o) /\ k \notin Decided(ev)
    BY <1>3 DEF TableInv, RowsOK, Decided
  <2>1. CASE pending' = Append(pending, ev)
    BY <1>1, <1>3, <2>0, <2>1, Added
  <2>2. CASE /\ pending # <<>> /\ pending' = Append(Tail(pending), ev)
             /\ missed' = (missed \cup LastOf(Head(pending), Tail(pending))) \ Decided(ev)
    <3>1. k \notin LastOf(Head(pending), Tail(pending))
      BY <2>0, <2>2
    <3>2. KeyOK(k, Tail(pending), rows[k], R, o)
      BY <1>1, <2>0, <2>2, <3>1, Dropped
    <3> QED BY <1>1, <1>3, <2>2, <3>2, Added
  <2>3. CASE pending' = pending
    BY <2>0, <2>3
  <2> QED BY <2>1, <2>2, <2>3 DEF Publish
<1> QED
  BY <1>2, <1>3

(***************************************************************************)
(* A step that publishes ev keeps the rows right: it decides the row of    *)
(* its key, or says progress of it, and no other row gets another right    *)
(* value or another use.                                                   *)
(***************************************************************************)
LEMMA RowsPublish ==
  ASSUME TableInv, NEW ev, Shaped(ev), Publish(ev), rows' = rows,
         \A k \in RowKey : Settled(k)' /\ Decides(ev, k) => Effect(ev) \in Right(k)',
         \A k \in RowKey : Settled(k)' /\ ~Decides(ev, k) =>
            k \notin shared /\ Right(k)' = Right(k) /\ InUse(k)' = InUse(k) /\ (ev.key = k => InUse(k))
  PROVE  RowsOK'
<1> SUFFICES ASSUME NEW k \in RowKey, Settled(k)'
             PROVE  KeyOK(k, pending', rows'[k], Right(k)', InUse(k)')
  BY DEF RowsOK, KeyOK, Decides, LastAt, Effect
<1>1. k \notin missed'
  BY DEF Settled
<1>2. CASE Decides(ev, k)
  BY <1>1, <1>2, PublishKeeps
<1>3. CASE ~Decides(ev, k)
  <2>1. k \notin Decided(ev)
    BY <1>3 DEF Decided
  <2>2. k \notin missed
    BY <1>1, <2>1 DEF Publish
  <2>3. Settled(k)
    BY <1>3, <2>2 DEF Settled
  <2> QED BY <1>1, <1>3, <2>3, PublishKeeps
<1> QED
  BY <1>2, <1>3

LEMMA RightOf ==
  ASSUME NEW s \in Client, NEW n \in Path
  PROVE  /\ Right(<<s, NoPath>>) = {IF conn[s] = "up" THEN "connection" ELSE "none"}
         /\ Right(<<s, n>>) = {v \in Row : /\ Owned(s, n, transfers) = {} => v = "none"
                                           /\ \A t \in Owned(s, n, transfers) : v = t.dir}
         /\ InUse(<<s, n>>) = (Owned(s, n, transfers) # {}) /\ ~InUse(<<s, NoPath>>)
<1>1. n # NoPath
  BY TableAssumption
<1> QED
  BY <1>1 DEF Right, Shows, InUse, Row

LEMMA KeyOf == \A k \in RowKey : k[1] \in Client /\ k = <<k[1], k[2]>> /\ (k[2] = NoPath \/ k[2] \in Path)
  BY DEF RowKey

-----------------------------------------------------------------------------
(***************************************************************************)
(* The steps.                                                              *)
(***************************************************************************)
LEMMA ConnStep ==
  ASSUME TableInv, NEW s \in Client, Refused(s) \/ Connected(s) \/ Disconnected(s)
  PROVE  TableInv'
<1>1. PICK kind \in {"connect", "disconnect", "auth", "error"}, says \in {"", "end"} :
         /\ Publish(Of(s, NoPath, kind, says, "")) /\ Shaped(Of(s, NoPath, kind, says, ""))
         /\ kind = "connect" <=> conn'[s] = "up"
         /\ \E pc \in {"none", "up", "left"} : conn' = [conn EXCEPT ![s] = pc]
  <2>1. conn \in [Client -> {"none", "up", "left"}]
    BY DEF TableInv, TableTypeOK
  <2>2. CASE Refused(s)
    BY <2>1, <2>2, OfShaped DEF Refused
  <2>3. CASE Connected(s)
    BY <2>1, <2>3, OfShaped DEF Connected
  <2>4. CASE Disconnected(s)
    BY <2>1, <2>4, OfShaped DEF Disconnected
  <2> QED BY <2>2, <2>3, <2>4
<1> DEFINE ev == Of(s, NoPath, kind, says, "")
<1>2. UNCHANGED <<transfers, rows, shared>>
  BY DEF Refused, Connected, Disconnected
<1>3. ev.key = <<s, NoPath>> /\ ev.says # "progress" /\ Effect(ev) = IF conn'[s] = "up" THEN "connection" ELSE "none"
  BY <1>1 DEF Of, Effect
<1>4. /\ pending' \in Seq(Event) /\ Len(pending') <= Buffer /\ missed' \subseteq RowKey /\ AllShaped'
  BY <1>1, PublishTyped DEF TableInv
<1>5. TableTypeOK' /\ Overlap'
  BY <1>1, <1>2, <1>4 DEF TableInv, TableTypeOK, Overlap
<1> HIDE DEF ev
<1>6. ASSUME NEW k \in RowKey, Decides(ev, k) PROVE Effect(ev) \in Right(k)'
  <2>1. k = <<s, NoPath>>
    BY <1>3, <1>6 DEF Decides
  <2> QED BY <1>3, <2>1 DEF Right, Shows, Row
<1>7. ASSUME NEW k \in RowKey, ~Decides(ev, k)
      PROVE  Right(k)' = Right(k) /\ InUse(k)' = InUse(k) /\ ev.key # k
  <2>1. k # <<s, NoPath>>
    BY <1>3, <1>7 DEF Decides
  <2>2. k[2] = NoPath => k[1] # s
    BY <2>1, KeyOf
  <2>3. k[2] = NoPath => conn'[k[1]] = conn[k[1]]
    BY <1>1, <2>2, KeyOf DEF TableInv, TableTypeOK
  <2> QED BY <1>2, <1>3, <2>1, <2>3 DEF Right, Shows, InUse, Owned
<1>8. RowsOK'
  <2>1. Shaped(ev) /\ Publish(ev) /\ rows' = rows
    BY <1>1, <1>2 DEF ev
  <2> QED BY <1>2, <1>6, <1>7, <2>1, RowsPublish DEF Settled
<1> QED
  BY <1>4, <1>5, <1>8 DEF TableInv

LEMMA OpenStep ==
  ASSUME TableInv, NEW s \in Client, NEW n \in Path, NEW dir \in {"GET", "PUT"}, Opened(s, n, dir)
  PROVE  TableInv'
<1> DEFINE ev == Of(s, n, "transfer", "start", dir)
           id == CHOOSE i \in FreeSlots : TRUE
           t  == [s |-> s, id |-> id, name |-> n, dir |-> dir]
<1>1. /\ id \in 1 .. MaxTransfers
      /\ transfers' = transfers \cup {t} /\ Publish(ev)
      /\ shared' = IF Owned(s, n, transfers) = {} THEN shared ELSE shared \cup {<<s, n>>}
      /\ UNCHANGED <<conn, rows>>
  BY DEF Opened, FreeSlots
<1>2. t \in Transfer /\ t.s = s /\ t.name = n /\ t.dir = dir
  BY <1>1 DEF Transfer
<1>3. Shaped(ev)
  BY OfShaped
<1>4. ev.key = <<s, n>> /\ ev.says # "progress" /\ Effect(ev) = dir
  BY DEF Of, Effect
<1> HIDE DEF ev, t
<1>5. /\ pending' \in Seq(Event) /\ Len(pending') <= Buffer /\ missed' \subseteq RowKey /\ AllShaped'
  BY <1>1, <1>3, PublishTyped DEF TableInv
<1>6. TableTypeOK'
  <2>1. <<s, n>> \in RowKey
    BY DEF RowKey
  <2> QED BY <1>1, <1>2, <1>5, <2>1 DEF TableInv, TableTypeOK
<1>7. Overlap'
  <2> SUFFICES ASSUME NEW u \in transfers', NEW w \in transfers', u # w, u.s = w.s, u.name = w.name
               PROVE  <<u.s, u.name>> \in shared'
    BY DEF Overlap
  <2>1. CASE u \in transfers /\ w \in transfers
    BY <1>1, <2>1 DEF TableInv, Overlap
  <2>2. CASE u = t \/ w = t
    <3>1. Owned(s, n, transfers) # {} /\ u.s = s /\ u.name = n
      BY <1>1, <1>2, <2>2 DEF Owned
    <3> QED BY <1>1, <3>1
  <2> QED BY <1>1, <2>1, <2>2
<1>8. ASSUME NEW k \in RowKey, Settled(k)', Decides(ev, k) PROVE Effect(ev) \in Right(k)'
  <2>1. k = <<s, n>> /\ n # NoPath
    BY <1>4, <1>8, TableAssumption DEF Decides
  <2>2. Owned(s, n, transfers) = {}
    BY <1>1, <1>8, <2>1 DEF Settled
  <2>3. Owned(s, n, transfers') = {t}
    BY <1>1, <1>2, <2>2 DEF Owned
  <2> QED BY <1>2, <1>4, <2>1, <2>3 DEF Right, Shows, Row
<1>9. ASSUME NEW k \in RowKey, Settled(k)', ~Decides(ev, k)
      PROVE  k \notin shared /\ Right(k)' = Right(k) /\ InUse(k)' = InUse(k) /\ ev.key # k
  <2>1. k # <<s, n>>
    BY <1>4, <1>9 DEF Decides
  <2>2. k[1] # s \/ k[2] # n
    BY <2>1, KeyOf
  <2>3. Owned(k[1], k[2], transfers') = Owned(k[1], k[2], transfers)
    BY <1>1, <1>2, <2>2 DEF Owned
  <2>4. k \notin shared
    BY <1>1, <1>9 DEF Settled
  <2> QED BY <1>1, <1>4, <2>1, <2>3, <2>4 DEF Right, Shows, InUse
<1>10. RowsOK'
  BY <1>1, <1>3, <1>8, <1>9, RowsPublish
<1> QED
  BY <1>5, <1>6, <1>7, <1>10 DEF TableInv

LEMMA TouchStep ==
  ASSUME TableInv, NEW t \in transfers, Touched(t)
  PROVE  TableInv'
<1> DEFINE ev == Of(t.s, t.name, "transfer", "progress", "")
<1>1. t.s \in Client /\ t.name \in Path /\ t.name # NoPath
  BY TableAssumption DEF TableInv, TableTypeOK, Transfer
<1>2. Shaped(ev) /\ Publish(ev) /\ UNCHANGED <<conn, transfers, rows, shared>>
  BY <1>1, OfShaped DEF Touched
<1>3. ev.key = <<t.s, t.name>> /\ ev.says = "progress"
  BY DEF Of
<1> HIDE DEF ev
<1>4. /\ pending' \in Seq(Event) /\ Len(pending') <= Buffer /\ missed' \subseteq RowKey /\ AllShaped'
  BY <1>2, PublishTyped DEF TableInv
<1>5. TableTypeOK' /\ Overlap'
  BY <1>2, <1>4 DEF TableInv, TableTypeOK, Overlap
<1>6. \A k \in RowKey : ~Decides(ev, k) /\ (ev.key = k => InUse(k))
  BY <1>1, <1>3 DEF Decides, InUse, Owned
<1>7. \A k \in RowKey : Right(k)' = Right(k) /\ InUse(k)' = InUse(k) /\ (k \in shared' <=> k \in shared)
  BY <1>2 DEF Right, Shows, InUse, Owned
<1>8. RowsOK'
  BY <1>2, <1>6, <1>7, RowsPublish DEF Settled
<1> QED
  BY <1>4, <1>5, <1>8 DEF TableInv

LEMMA CloseStep ==
  ASSUME TableInv, NEW t \in transfers, Closed(t)
  PROVE  TableInv'
<1> DEFINE ev == Of(t.s, t.name, "transfer", EndText(t.name), t.dir)
<1>1. t.s \in Client /\ t.name \in Path /\ t.name # NoPath /\ t.dir \in {"GET", "PUT"}
  BY TableAssumption DEF TableInv, TableTypeOK, Transfer
<1>2. /\ transfers' = transfers \ {t} /\ Publish(ev) /\ UNCHANGED <<conn, rows>>
      /\ shared' = IF Owned(t.s, t.name, transfers') = {} THEN shared \ {<<t.s, t.name>>} ELSE shared
  BY DEF Closed
<1>3. Shaped(ev)
  <2>1. EndText(t.name) \in {"start", "end"}
    BY DEF EndText
  <2> QED BY <1>1, <2>1, OfShaped
<1>4. ev.key = <<t.s, t.name>> /\ ev.says # "progress" /\ (t.name \notin StartLike => Effect(ev) = "none")
  BY DEF Of, Effect, EndText
<1> HIDE DEF ev
<1>5. /\ pending' \in Seq(Event) /\ Len(pending') <= Buffer /\ missed' \subseteq RowKey /\ AllShaped'
  BY <1>2, <1>3, PublishTyped DEF TableInv
<1>6. TableTypeOK'
  BY <1>2, <1>5 DEF TableInv, TableTypeOK
<1>7. Overlap'
  <2> SUFFICES ASSUME NEW u \in transfers', NEW w \in transfers', u # w, u.s = w.s, u.name = w.name
               PROVE  <<u.s, u.name>> \in shared'
    BY DEF Overlap
  <2>1. <<u.s, u.name>> \in shared
    BY <1>2 DEF TableInv, Overlap
  <2>2. <<u.s, u.name>> = <<t.s, t.name>> => Owned(t.s, t.name, transfers') # {}
    BY DEF Owned
  <2> QED BY <1>2, <2>1, <2>2
<1>8. ASSUME NEW k \in RowKey, Settled(k)', Decides(ev, k) PROVE Effect(ev) \in Right(k)'
  <2>1. k = <<t.s, t.name>> /\ t.name \notin StartLike
    BY <1>4, <1>8 DEF Decides, Settled
  <2>2. Owned(t.s, t.name, transfers') = {}
    <3> SUFFICES ASSUME NEW u \in Owned(t.s, t.name, transfers') PROVE FALSE
      OBVIOUS
    <3>1. u \in transfers /\ u # t /\ u.s = t.s /\ u.name = t.name
      BY <1>2 DEF Owned
    <3>2. <<t.s, t.name>> \in shared
      BY <3>1 DEF TableInv, Overlap
    <3>3. shared' = shared
      BY <1>2
    <3> QED BY <1>8, <2>1, <3>2, <3>3 DEF Settled
  <2> QED BY <1>1, <1>4, <2>1, <2>2 DEF Right, Shows, Row
<1>9. ASSUME NEW k \in RowKey, Settled(k)', ~Decides(ev, k)
      PROVE  k \notin shared /\ Right(k)' = Right(k) /\ InUse(k)' = InUse(k) /\ ev.key # k
  <2>1. k # <<t.s, t.name>>
    BY <1>4, <1>9 DEF Decides
  <2>2. k[1] # t.s \/ k[2] # t.name
    BY <2>1, KeyOf
  <2>3. Owned(k[1], k[2], transfers') = Owned(k[1], k[2], transfers)
    BY <1>2, <2>2 DEF Owned
  <2>4. k \notin shared
    BY <1>2, <1>9, <2>1 DEF Settled
  <2> QED BY <1>2, <1>4, <2>1, <2>3, <2>4 DEF Right, Shows, InUse
<1>10. RowsOK'
  BY <1>2, <1>3, <1>8, <1>9, RowsPublish
<1> QED
  BY <1>5, <1>6, <1>7, <1>10 DEF TableInv

(***************************************************************************)
(* Somebody takes the oldest event: it is lost, or it is applied.          *)
(***************************************************************************)
LEMMA HeadTaken ==
  ASSUME TableInv, pending # <<>>, pending' = Tail(pending)
  PROVE  /\ pending' \in Seq(Event) /\ Len(pending') <= Buffer /\ AllShaped'
         /\ Shaped(Head(pending))
<1>1. pending \in Seq(Event) /\ Len(pending) <= Buffer /\ Buffer \in Nat
  BY TableAssumption DEF TableInv, TableTypeOK
<1>2. pending' \in Seq(Event) /\ Len(pending') = Len(pending) - 1
  BY <1>1
<1>3. Len(pending') <= Buffer
  BY <1>1, <1>2
<1>4. \A i \in DOMAIN pending' : i + 1 \in DOMAIN pending /\ pending'[i] = pending[i + 1]
  BY <1>1
<1>5. 1 \in DOMAIN pending /\ Head(pending) = pending[1]
  BY <1>1
<1>6. Shaped(Head(pending))
  BY <1>5 DEF TableInv, AllShaped
<1>7. \A i \in DOMAIN pending : Shaped(pending[i])
  BY DEF TableInv, AllShaped
<1>8. AllShaped'
  <2>1. \A i \in DOMAIN pending' : Shaped(pending'[i])
    BY <1>4, <1>7
  <2> QED BY <2>1 DEF AllShaped, Shaped
<1> QED
  BY <1>2, <1>3, <1>6, <1>8

LEMMA CrowdStep ==
  ASSUME TableInv, Crowd
  PROVE  TableInv'
<1>1. /\ pending # <<>> /\ pending' = Tail(pending)
      /\ missed' = missed \cup LastOf(Head(pending), Tail(pending))
      /\ UNCHANGED <<conn, transfers, rows, shared>>
  BY DEF Crowd
<1>2. pending' \in Seq(Event) /\ Len(pending') <= Buffer /\ AllShaped'
  BY <1>1, HeadTaken
<1>3. missed' \subseteq RowKey
  BY <1>1 DEF TableInv, TableTypeOK, LastOf, Decided
<1>4. TableTypeOK' /\ Overlap'
  BY <1>1, <1>2, <1>3 DEF TableInv, TableTypeOK, Overlap
<1>5. ASSUME NEW k \in RowKey, Settled(k)' PROVE KeyOK(k, pending', rows'[k], Right(k)', InUse(k)')
  <2>1. Settled(k) /\ k \notin LastOf(Head(pending), Tail(pending))
    BY <1>1, <1>5 DEF Settled
  <2>2. KeyOK(k, pending, rows[k], Right(k), InUse(k)) /\ pending \in Seq(Event)
    BY <2>1 DEF TableInv, RowsOK, TableTypeOK
  <2>3. KeyOK(k, Tail(pending), rows[k], Right(k), InUse(k))
    BY <1>1, <2>1, <2>2, Dropped
  <2>4. Right(k)' = Right(k) /\ InUse(k)' = InUse(k)
    BY <1>1 DEF Right, Shows, InUse, Owned
  <2> QED BY <1>1, <2>3, <2>4
<1>6. RowsOK'
  BY <1>5 DEF RowsOK, KeyOK, Decides, LastAt, Effect
<1> QED
  BY <1>2, <1>4, <1>6 DEF TableInv

LEMMA ConsumeStep ==
  ASSUME TableInv, Consume
  PROVE  TableInv'
<1> DEFINE ev == Head(pending)
<1>1. /\ pending # <<>> /\ pending' = Tail(pending) /\ rows' = Apply(rows, ev)
      /\ UNCHANGED <<conn, transfers, shared, missed>>
  BY DEF Consume
<1>2. pending' \in Seq(Event) /\ Len(pending') <= Buffer /\ AllShaped' /\ Shaped(ev)
  BY <1>1, HeadTaken
<1>0. pending \in Seq(Event) /\ rows \in [RowKey -> Row]
  BY DEF TableInv, TableTypeOK
<1>3. /\ 1 \in DOMAIN pending /\ ev = pending[1]
      /\ \A i \in DOMAIN pending : i > 1 => i - 1 \in DOMAIN pending' /\ pending'[i - 1] = pending[i]
      /\ \A i \in DOMAIN pending : i \in Nat /\ i >= 1
  BY <1>0, <1>1
<1> HIDE DEF ev
<1>4. /\ rows' \in [RowKey -> Row]
      /\ \A k \in RowKey : rows'[k] = IF k # ev.key THEN rows[k]
                                      ELSE IF ev.says # "progress" THEN Effect(ev)
                                      ELSE IF rows[k] = "none" THEN "GET" ELSE rows[k]
  BY <1>0, <1>1, <1>2, Applied
<1>5. TableTypeOK' /\ Overlap'
  BY <1>1, <1>2, <1>4 DEF TableInv, TableTypeOK, Overlap
<1>6. ASSUME NEW k \in RowKey, Settled(k)' PROVE KeyOK(k, pending', rows'[k], Right(k), InUse(k))
  <2>1. KeyOK(k, pending, rows[k], Right(k), InUse(k))
    BY <1>1, <1>6 DEF Settled, TableInv, RowsOK
  <2>2. CASE k \notin LastOf(ev, pending')
    <3>1. KeyOK(k, pending', rows[k], Right(k), InUse(k))
      BY <1>0, <1>1, <2>1, <2>2, Dropped DEF ev
    <3>2. ASSUME \A i \in DOMAIN pending' : ~Decides(pending'[i], k) PROVE rows'[k] \in Right(k)
      <4>1. ~Decides(ev, k) /\ rows[k] \in Right(k)
        BY <2>2, <3>1, <3>2 DEF LastOf, Decided, KeyOK
      <4>2. CASE ev.key # k
        BY <1>4, <4>1, <4>2
      <4>3. CASE ev.key = k
        <5>1. ev.says = "progress"
          BY <4>1, <4>3 DEF Decides
        <5>2. LastAt(1, pending, k)
          BY <1>3, <3>2 DEF LastAt
        <5>3. InUse(k)
          BY <1>3, <2>1, <4>3, <5>1, <5>2 DEF KeyOK
        <5>4. PICK t \in Owned(k[1], k[2], transfers) : TRUE
          BY <5>3 DEF InUse
        <5>5. rows[k] = t.dir /\ t.dir # "none"
          BY <4>1, <5>3, <5>4 DEF Right, Shows, InUse, Owned, TableInv, TableTypeOK, Transfer
        <5> QED BY <1>4, <4>1, <4>3, <5>1, <5>5
      <4> QED BY <4>2, <4>3
    <3> QED BY <3>1, <3>2 DEF KeyOK
  <2>3. CASE k \in LastOf(ev, pending')
    <3>1. Decides(ev, k) /\ \A i \in DOMAIN pending' : ~Decides(pending'[i], k)
      BY <2>3 DEF LastOf, Decided
    <3>2. LastAt(1, pending, k)
      BY <1>3, <3>1 DEF LastAt
    <3>3. Effect(ev) \in Right(k)
      BY <1>3, <2>1, <3>1, <3>2 DEF KeyOK
    <3>4. rows'[k] \in Right(k)
      BY <1>4, <3>1, <3>3 DEF Decides
    <3>5. ASSUME NEW i \in DOMAIN pending', pending'[i].key = k, pending'[i].says = "progress" PROVE InUse(k)
      <4>1. i + 1 \in DOMAIN pending /\ pending[i + 1] = pending'[i] /\ i \in Nat
        BY <1>0, <1>1
      <4>2. LastAt(i + 1, pending, k)
        BY <1>3, <3>1, <4>1 DEF LastAt
      <4> QED BY <2>1, <3>5, <4>1, <4>2 DEF KeyOK
    <3> QED BY <3>1, <3>4, <3>5 DEF KeyOK
  <2> QED BY <2>2, <2>3
<1>7. RowsOK'
  <2>1. \A k \in RowKey : Right(k)' = Right(k) /\ InUse(k)' = InUse(k)
    BY <1>1 DEF Right, Shows, InUse, Owned
  <2>2. \A k \in RowKey : Settled(k)' => KeyOK(k, pending', rows'[k], Right(k)', InUse(k)')
    BY <1>6, <2>1
  <2> QED BY <2>2 DEF RowsOK, KeyOK, Decides, LastAt, Effect
<1> QED
  BY <1>2, <1>5, <1>7 DEF TableInv

LEMMA GoneStep ==
  ASSUME TableInv, UNCHANGED tableVars \/ \E s \in Client : Gone(s)
  PROVE  TableInv'
<1>1. UNCHANGED <<transfers, pending, rows, shared, missed>>
  BY DEF tableVars, Gone
<1>2. /\ conn' \in [Client -> {"none", "up", "left"}]
      /\ \A s \in Client : conn'[s] = "up" <=> conn[s] = "up"
  BY DEF tableVars, Gone, TableInv, TableTypeOK
<1>3. \A k \in RowKey : Right(k)' = Right(k) /\ InUse(k)' = InUse(k)
  BY <1>1, <1>2, KeyOf DEF Right, Shows, InUse, Owned
<1>4. TableTypeOK' /\ Overlap' /\ AllShaped'
  BY <1>1, <1>2 DEF TableInv, TableTypeOK, Overlap, AllShaped, Shaped
<1>5. RowsOK'
  <2>1. \A k \in RowKey : Settled(k)' => KeyOK(k, pending', rows'[k], Right(k)', InUse(k)')
    BY <1>1, <1>3 DEF TableInv, RowsOK, Settled
  <2> QED BY <2>1 DEF RowsOK, KeyOK, Decides, LastAt, Effect
<1> QED
  BY <1>4, <1>5 DEF TableInv

LEMMA TableStep == TableInv /\ [TableNext]_tableVars => TableInv'
<1> SUFFICES ASSUME TableInv, [TableNext]_tableVars PROVE TableInv'
  OBVIOUS
<1>1. CASE UNCHANGED tableVars \/ \E s \in Client : Gone(s)
  BY <1>1, GoneStep
<1>2. ASSUME NEW s \in Client, Refused(s) \/ Connected(s) \/ Disconnected(s) PROVE TableInv'
  BY <1>2, ConnStep
<1>3. ASSUME NEW s \in Client, NEW n \in Path, NEW dir \in {"GET", "PUT"}, Opened(s, n, dir) PROVE TableInv'
  BY <1>3, OpenStep
<1>4. ASSUME NEW t \in transfers, Touched(t) \/ Closed(t) PROVE TableInv'
  BY <1>4, TouchStep, CloseStep
<1> QED
  BY <1>1, <1>2, <1>3, <1>4, ConsumeStep, CrowdStep DEF TableNext

(***************************************************************************)
(* For any clients, paths, transfers and size of the channel: a row whose  *)
(* last deciding event has not been lost is right once the window has read *)
(* that event, but for shared rows and names that read like a start.       *)
(***************************************************************************)
THEOREM TableFollowsSftp == TableSpec => []SftpRowsMatch
<1>1. TableInit => TableInv
  <2> SUFFICES ASSUME TableInit PROVE TableInv
    OBVIOUS
  <2>1. pending \in Seq(Event) /\ Len(pending) <= Buffer
    BY TableAssumption DEF TableInit
  <2>2. TableTypeOK /\ Overlap /\ AllShaped /\ DOMAIN pending = {}
    BY <2>1 DEF TableInit, TableTypeOK, Overlap, AllShaped, Row
  <2>3. \A k \in RowKey : rows[k] \in Right(k)
    BY KeyOf DEF TableInit, Right, Shows, Owned, Row
  <2> QED BY <2>2, <2>3 DEF TableInv, RowsOK, KeyOK
<1>2. TableInv => SftpRowsMatch
  <2> SUFFICES ASSUME TableInv, NEW k \in RowKey, k \notin missed, k \notin shared,
                      k[2] \notin StartLike, \A i \in DOMAIN pending : ~Decides(pending[i], k)
               PROVE  Shows(k, rows[k])
    BY DEF SftpRowsMatch
  <2> QED BY DEF TableInv, RowsOK, Settled, KeyOK, Right
<1> QED
  BY <1>1, <1>2, TableStep, PTL DEF TableSpec

=============================================================================
