---------------------------- MODULE TransferTable ----------------------------
(***************************************************************************)
(* How the window comes to show an SFTP transfer: the connections and      *)
(* files of the SFTP server (internal/sftp/session.go, fs.go) publish      *)
(* events, the bus puts them into the window's channel                     *)
(* (internal/eventbus/eventbus.go), consumeEvents                          *)
(* (internal/nativeui/window.go) takes them out, and the tracker           *)
(* (internal/nativeui/active.go) turns each into a change of its rows.     *)
(*                                                                         *)
(* The channel is shared with every other publisher, and one line of       *)
(* syslog is one event: it may be full whenever anybody publishes.         *)
(***************************************************************************)
EXTENDS Naturals, Sequences

CONSTANTS
  Client,        \* the remote addresses
  Path,          \* the names of files
  StartLike,     \* those whose text matches startPattern of the tracker
  NoPath,        \* no file
  Buffer,        \* bufSize of Subscribe: the events of the SFTP server that may wait
  MaxTransfers   \* bound on the transfers that run at a time

ASSUME TableAssumption ==
  /\ StartLike \subseteq Path /\ NoPath \notin Path
  /\ Buffer \in Nat \ {0} /\ MaxTransfers \in Nat

VARIABLES
  conn,       \* conn[s]: "none", "up", or "left": its handler has returned
  transfers,  \* the open files: their client, name and direction
  pending,    \* the channel of the window
  rows,       \* the rows of the tracker
  shared,     \* rows that belong to two transfers, until both have ended (history)
  missed      \* rows of which the bus has lost the last connect or disconnect,
              \* start or end (history)

tableVars == <<conn, transfers, pending, rows, shared, missed>>

Transfer == [s : Client, id : 1 .. MaxTransfers, name : Path, dir : {"GET", "PUT"}]
Row      == {"none", "connection", "GET", "PUT"}
RowKey   == Client \X (Path \cup {NoPath})
Event    == [key : RowKey, kind : {"connect", "disconnect", "auth", "error", "transfer"},
             says : {"", "start", "progress", "end"}, dir : {"", "GET", "PUT"}]

TableTypeOK ==
  /\ conn \in [Client -> {"none", "up", "left"}]
  /\ transfers \subseteq Transfer
  /\ pending \in Seq(Event) /\ Len(pending) <= Buffer
  /\ rows \in [RowKey -> Row]
  /\ shared \subseteq RowKey /\ missed \subseteq RowKey

TableInit ==
  /\ conn = [s \in Client |-> "none"]
  /\ transfers = {} /\ pending = <<>>
  /\ rows = [k \in RowKey |-> "none"]
  /\ shared = {} /\ missed = {}

-----------------------------------------------------------------------------
(***************************************************************************)
(* The switch of apply, in its order: a start is looked for before an end, *)
(* and progress of a transfer that has no row shows it as a download.      *)
(* Bytes and speed are left out.                                           *)
(***************************************************************************)
ConnKey(ev) == <<ev.key[1], NoPath>>

Apply(r, ev) ==
  CASE ev.kind = "connect" -> [r EXCEPT ![ConnKey(ev)] = "connection"]
    [] ev.kind = "disconnect" -> [r EXCEPT ![ConnKey(ev)] = "none"]
    [] ev.kind = "transfer" /\ ev.says = "progress" ->
         [r EXCEPT ![ev.key] = IF @ = "none" THEN "GET" ELSE @]
    [] ev.kind = "transfer" /\ ev.says = "start" -> [r EXCEPT ![ev.key] = ev.dir]
    [] ev.says = "end" \/ ev.kind = "error" -> [r EXCEPT ![ev.key] = "none"]
    [] OTHER -> r

(***************************************************************************)
(* Publish.  The event goes into the channel; or the channel was full, the *)
(* oldest of what is left of it then makes room; or another publisher was  *)
(* quicker to take that room, and the event is lost.                       *)
(***************************************************************************)
Of(s, n, kind, says, dir) == [key |-> <<s, n>>, kind |-> kind, says |-> says, dir |-> dir]

Decides(ev, k) == ev.key = k /\ ev.says # "progress"
Decided(ev)    == {k \in RowKey : Decides(ev, k)}
LastOf(ev, p)  == {k \in Decided(ev) : \A i \in DOMAIN p : ~Decides(p[i], k)}

Publish(ev) ==
  \/ /\ Len(pending) < Buffer
     /\ pending' = Append(pending, ev)
     /\ missed' = missed \ Decided(ev)
  \/ /\ pending # <<>>
     /\ pending' = Append(Tail(pending), ev)
     /\ missed' = (missed \cup LastOf(Head(pending), Tail(pending))) \ Decided(ev)
  \/ /\ pending' = pending
     /\ missed' = missed \cup Decided(ev)

(***************************************************************************)
(* Somebody else publishes, and finds the channel full.                    *)
(***************************************************************************)
Crowd ==
  /\ pending # <<>>
  /\ pending' = Tail(pending)
  /\ missed' = missed \cup LastOf(Head(pending), Tail(pending))
  /\ UNCHANGED <<conn, transfers, rows, shared>>

(***************************************************************************)
(* consumeEvents.                                                          *)
(***************************************************************************)
Consume ==
  /\ pending # <<>>
  /\ rows' = Apply(rows, Head(pending))
  /\ pending' = Tail(pending)
  /\ UNCHANGED <<conn, transfers, shared, missed>>

-----------------------------------------------------------------------------
(***************************************************************************)
(* A client that the access list refuses, or a password that is wrong: the *)
(* text of the latter reads like an end.                                   *)
(***************************************************************************)
Refused(s) ==
  /\ conn[s] = "none"
  /\ \/ Publish(Of(s, NoPath, "error", "", ""))
     \/ Publish(Of(s, NoPath, "auth", "end", ""))
  /\ UNCHANGED <<conn, transfers, rows, shared>>

(***************************************************************************)
(* handleConn, from the end of the handshake.  It returns when the client  *)
(* has gone and its sessions have ended, which closes their files; or when *)
(* the context is done, and then the files are closed after the            *)
(* disconnect, perhaps when the address is in use again.                   *)
(***************************************************************************)
Connected(s) ==
  /\ conn[s] = "none"
  /\ conn' = [conn EXCEPT ![s] = "up"]
  /\ Publish(Of(s, NoPath, "connect", "", ""))
  /\ UNCHANGED <<transfers, rows, shared>>

Disconnected(s) ==
  /\ conn[s] = "up"
  /\ conn' = [conn EXCEPT ![s] = "left"]
  /\ Publish(Of(s, NoPath, "disconnect", "", ""))
  /\ UNCHANGED <<transfers, rows, shared>>

Gone(s) ==
  /\ conn[s] = "left"
  /\ conn' = [conn EXCEPT ![s] = "none"]
  /\ UNCHANGED <<transfers, pending, rows, shared, missed>>

(***************************************************************************)
(* Fileread and Filewrite, touch, and Close of trackedReaderAt.  Progress  *)
(* is throttled: a read or a write may publish none.                       *)
(***************************************************************************)
Owned(s, n, ts) == {t \in ts : t.s = s /\ t.name = n}

FreeSlots == {i \in 1 .. MaxTransfers : \A t \in transfers : t.id # i}

Opened(s, n, dir) ==
  LET t == [s |-> s, id |-> CHOOSE i \in FreeSlots : TRUE, name |-> n, dir |-> dir] IN
  /\ conn[s] # "none" /\ FreeSlots # {}
  /\ transfers' = transfers \cup {t}
  /\ Publish(Of(s, n, "transfer", "start", dir))
  /\ shared' = IF Owned(s, n, transfers) = {} THEN shared ELSE shared \cup {<<s, n>>}
  /\ UNCHANGED <<conn, rows>>

Touched(t) ==
  /\ Publish(Of(t.s, t.name, "transfer", "progress", ""))
  /\ UNCHANGED <<conn, transfers, rows, shared>>

EndText(n) == IF n \in StartLike THEN "start" ELSE "end"

Closed_Silently(t) ==
  /\ transfers' = transfers \ {t}
  /\ shared' = IF Owned(t.s, t.name, transfers') = {} THEN shared \ {<<t.s, t.name>>} ELSE shared
  /\ UNCHANGED <<conn, pending, rows, missed>>

Closed(t) ==
  /\ transfers' = transfers \ {t}
  /\ Publish(Of(t.s, t.name, "transfer", EndText(t.name), t.dir))
  /\ shared' = IF Owned(t.s, t.name, transfers') = {} THEN shared \ {<<t.s, t.name>>} ELSE shared
  /\ UNCHANGED <<conn, rows>>

TableNext ==
  \/ \E s \in Client :
       \/ Refused(s) \/ Connected(s) \/ Disconnected(s) \/ Gone(s)
       \/ \E n \in Path, dir \in {"GET", "PUT"} : Opened(s, n, dir)
  \/ \E t \in transfers : Touched(t) \/ Closed(t)
  \/ Consume \/ Crowd

TableSpec == TableInit /\ [][TableNext]_tableVars

-----------------------------------------------------------------------------
Shows(k, v) ==
  IF k[2] = NoPath THEN v = IF conn[k[1]] = "up" THEN "connection" ELSE "none"
  ELSE /\ Owned(k[1], k[2], transfers) = {} => v = "none"
       /\ \A t \in Owned(k[1], k[2], transfers) : v = t.dir

(***************************************************************************)
(* When the window has read all that decides a row, the row is there       *)
(* exactly while its connection is up or its file is open, and shows the   *)
(* direction: events come in any order of clients and files, progress may  *)
(* get lost, and also a start whose end gets through, or the reverse.      *)
(* Excepted are rows of which the bus has lost the last event that decides *)
(* them, which stay wrong until the next one, rows that two transfers      *)
(* share, and names that read like a start.                                *)
(***************************************************************************)
SftpRowsMatch ==
  \A k \in RowKey \ (missed \cup shared) :
    k[2] \notin StartLike /\ (\A i \in DOMAIN pending : ~Decides(pending[i], k))
      => Shows(k, rows[k])
=============================================================================
