------------------------------ MODULE TftpWrite -----------------------------
(***************************************************************************)
(* A TFTP upload: the sessions of internal/tftp (handleSession, handleWRQ) *)
(* that one client's WRQ starts, the file they write, the client as RFC    *)
(* 1350 has it, and the network between them.  A WRQ that the network      *)
(* repeats, or that the client sends again, starts a session more, on a    *)
(* socket of its own.                                                      *)
(*                                                                         *)
(* Packets and block numbers are as in TftpRead: what was sent may arrive  *)
(* at any time, any number of times, until the transfer has moved on by    *)
(* more than Lifetime blocks.                                              *)
(***************************************************************************)
EXTENDS Integers, Sequences

CONSTANTS Session,     \* the sessions that copies of the WRQ can start
          Chunks,      \* the blocks of the client's file, the short last included
          BlockMod,    \* block numbers are uint16: 65536
          Lifetime     \* bound: how many blocks late a packet may arrive

ASSUME WriteAssumption ==
  /\ Chunks \in Nat \ {0}
  /\ BlockMod \in Nat
  /\ Lifetime \in Nat /\ Lifetime + 1 < BlockMod

VARIABLES
  pc,         \* session -> where its goroutine is
  first,      \* session -> it has had no DATA
  expected,   \* session -> the block number it expects
  offset,     \* session -> the chunks it has written: its file offset
  report,     \* session -> what it has published about its end
  file,       \* the file on disk: its chunks, 0 where none was written
  cancelled,  \* the context of the server is done
  toClient,   \* the packets that sessions have sent
  toServer,   \* the packets that the client has sent
  client,     \* where the client is
  peer,       \* the session that it has chosen to talk to, once there is one
  acked       \* the chunks that it has had acknowledged

sessionVars == <<pc, first, expected, offset, report>>
clientVars  == <<client, peer, acked>>
vars == <<sessionVars, file, cancelled, toClient, toServer, clientVars>>

Number == 0 .. BlockMod - 1

\* chunk: in DATA the payload, in an ACK the chunks written by then, which is
\* not in the packet; Fresh alone looks at it.
ToClient == [type : {"OACK", "ACK", "ERROR"}, end : Session,
             block : Number, chunk : 0 .. Chunks]
ToServer == [type : {"DATA", "ERROR"}, end : Session,
             block : Number, chunk : 0 .. Chunks]

Packet(t, s, b, c) == [type |-> t, end |-> s, block |-> b, chunk |-> c]

\* The network still delivers m.
Fresh(m) == m.chunk + Lifetime >= offset[m.end]

Init ==
  /\ pc = [s \in Session |-> "none"] /\ first = [s \in Session |-> TRUE]
  /\ expected = [s \in Session |-> 1] /\ offset = [s \in Session |-> 0]
  /\ report = [s \in Session |-> "running"]
  /\ file = <<>> /\ cancelled = FALSE
  /\ toClient = {} /\ toServer = {}
  /\ client = "asking" /\ peer = {} /\ acked = 0

-----------------------------------------------------------------------------
(* The sessions.                                                           *)

End(s, r) == pc' = [pc EXCEPT ![s] = "ended"] /\ report' = [report EXCEPT ![s] = r]

Goto(s, l) == pc' = [pc EXCEPT ![s] = l] /\ UNCHANGED report

Reply(m) == toClient' = toClient \cup {m}

\* Start reads a copy of the WRQ off the main socket and starts a session.
Accept(s) ==
  /\ pc[s] = "none" /\ ~ cancelled
  /\ Goto(s, "open")
  /\ UNCHANGED <<first, expected, offset, file, cancelled, toClient, toServer,
                 clientVars>>

\* The mode, the path, allow_write or os.Create refuses.
Refuse(s) ==
  /\ pc[s] = "open"
  /\ \E r \in {"silent", "error"} : End(s, r)
  /\ Reply(Packet("ERROR", s, 0, 0))
  /\ UNCHANGED <<first, expected, offset, file, cancelled, toServer, clientVars>>

\* os.Create makes the file, or empties it; the OACK or ACK 0 is sent.
Create(s) ==
  /\ pc[s] = "open"
  /\ Goto(s, "head")
  /\ file' = <<>>
  /\ \E t \in {"OACK", "ACK"} : Reply(Packet(t, s, 0, 0))
  /\ UNCHANGED <<first, expected, offset, cancelled, toServer, clientVars>>

\* Mutant: the loop does not look at the context.
LoopHead_NoCheck(s) ==
  /\ pc[s] = "head"
  /\ Goto(s, "read")
  /\ UNCHANGED <<first, expected, offset, file, cancelled, toClient, toServer,
                 clientVars>>

\* The head of the loop: ctx.Err(), then the read.
LoopHead(s) ==
  /\ pc[s] = "head"
  /\ IF cancelled THEN End(s, "silent") ELSE Goto(s, "read")
  /\ UNCHANGED <<first, expected, offset, file, cancelled, toClient, toServer,
                 clientVars>>

Reading(s) == pc[s] \in {"read", "again"}

\* A read fails, mostly at its deadline.  The first read has a second try,
\* after the first reply is sent again.
ReadTimeout(s) ==
  /\ Reading(s)
  /\ IF pc[s] = "read" /\ first[s] THEN Goto(s, "again") ELSE End(s, "aborted")
  /\ UNCHANGED <<first, expected, offset, file, cancelled, toClient, toServer,
                 clientVars>>

\* A packet arrives at the session's own socket, connected to the client.
Gets(s, m, t) == Reading(s) /\ m \in toServer /\ m.end = s /\ Fresh(m) /\ m.type = t

\* The client has given the upload up.
GetsError(s, m) ==
  /\ Gets(s, m, "ERROR")
  /\ End(s, "silent")
  /\ UNCHANGED <<first, expected, offset, file, cancelled, toClient, toServer,
                 clientVars>>

\* A packet that is neither DATA nor a well-formed ERROR, from wherever the
\* client's address sends it.
GetsIllegal(s) ==
  /\ Reading(s)
  /\ End(s, "silent")
  /\ Reply(Packet("ERROR", s, 0, offset[s]))
  /\ UNCHANGED <<first, expected, offset, file, cancelled, toServer, clientVars>>

\* A block that is not expected: the last good one is acknowledged again.
GetsOther(s, m) ==
  /\ Gets(s, m, "DATA") /\ m.block # expected[s]
  /\ Goto(s, "head")
  /\ first' = [first EXCEPT ![s] = FALSE]
  /\ Reply(Packet("ACK", s, (expected[s] + BlockMod - 1) % BlockMod, offset[s]))
  /\ UNCHANGED <<expected, offset, file, cancelled, toServer, clientVars>>

\* f.Write at offset k: what lies between the end of the file and k reads as
\* zeros.
WriteAt(f, k, c) ==
  [i \in 1 .. IF Len(f) > k THEN Len(f) ELSE k + 1 |->
     IF i = k + 1 THEN c ELSE IF i <= Len(f) THEN f[i] ELSE 0]

\* Mutant: a block that was written before is written again.
GetsNext_TakesRepeats(s, m) ==
  /\ Gets(s, m, "DATA")
  /\ m.block \in {expected[s], (expected[s] + BlockMod - 1) % BlockMod}
  /\ first' = [first EXCEPT ![s] = FALSE]
  /\ file' = WriteAt(file, offset[s], m.chunk)
  /\ offset' = [offset EXCEPT ![s] = @ + 1]
  /\ Reply(Packet("ACK", s, m.block, offset[s] + 1))
  /\ IF m.chunk = Chunks
     THEN End(s, "complete") /\ UNCHANGED expected
     ELSE /\ Goto(s, "head")
          /\ expected' = [expected EXCEPT ![s] = (@ + 1) % BlockMod]
  /\ UNCHANGED <<cancelled, toServer, clientVars>>

\* Mutant: the last block is acknowledged, and the upload reported complete,
\* without its data being written.
GetsNext_AcksUnwritten(s, m) ==
  /\ Gets(s, m, "DATA") /\ m.block = expected[s]
  /\ first' = [first EXCEPT ![s] = FALSE]
  /\ file' = IF m.chunk = Chunks THEN file ELSE WriteAt(file, offset[s], m.chunk)
  /\ offset' = [offset EXCEPT ![s] = @ + 1]
  /\ Reply(Packet("ACK", s, m.block, offset[s] + 1))
  /\ IF m.chunk = Chunks
     THEN End(s, "complete") /\ UNCHANGED expected
     ELSE /\ Goto(s, "head")
          /\ expected' = [expected EXCEPT ![s] = (@ + 1) % BlockMod]
  /\ UNCHANGED <<cancelled, toServer, clientVars>>

\* The block expected is written and acknowledged; a short one ends the upload.
GetsNext(s, m) ==
  /\ Gets(s, m, "DATA") /\ m.block = expected[s]
  /\ first' = [first EXCEPT ![s] = FALSE]
  /\ file' = WriteAt(file, offset[s], m.chunk)
  /\ offset' = [offset EXCEPT ![s] = @ + 1]
  /\ Reply(Packet("ACK", s, m.block, offset[s] + 1))
  /\ IF m.chunk = Chunks
     THEN End(s, "complete") /\ UNCHANGED expected
     ELSE /\ Goto(s, "head")
          /\ expected' = [expected EXCEPT ![s] = (@ + 1) % BlockMod]
  /\ UNCHANGED <<cancelled, toServer, clientVars>>

\* Mutant: the block is acknowledged before it is written.
WriteFails_AcksFirst(s, m) ==
  /\ Gets(s, m, "DATA") /\ m.block = expected[s]
  /\ first' = [first EXCEPT ![s] = FALSE]
  /\ End(s, "error")
  /\ Reply(Packet("ACK", s, m.block, offset[s] + 1))
  /\ UNCHANGED <<expected, offset, file, cancelled, toServer, clientVars>>

\* The disk is full, or the write fails otherwise.
WriteFails(s, m) ==
  /\ Gets(s, m, "DATA") /\ m.block = expected[s]
  /\ first' = [first EXCEPT ![s] = FALSE]
  /\ End(s, "error")
  /\ Reply(Packet("ERROR", s, 0, offset[s]))
  /\ UNCHANGED <<expected, offset, file, cancelled, toServer, clientVars>>

SessionStep(s) ==
  \/ Refuse(s) \/ Create(s) \/ LoopHead(s) \/ ReadTimeout(s) \/ GetsIllegal(s)
  \/ \E m \in toServer : \/ GetsError(s, m) \/ GetsOther(s, m)
                         \/ GetsNext(s, m) \/ WriteFails(s, m)

Cancel ==
  /\ ~ cancelled /\ cancelled' = TRUE
  /\ UNCHANGED <<sessionVars, file, toClient, toServer, clientVars>>

-----------------------------------------------------------------------------
(* The client (external).                                                  *)

SendChunk(s, c) == toServer' = toServer \cup {Packet("DATA", s, c % BlockMod, c)}

\* The first answer to the WRQ decides which session the client talks to.
TakeReply(m) ==
  /\ client = "asking" /\ m.type \in {"OACK", "ACK"} /\ m.block = 0
  /\ client' = "sending" /\ peer' = {m.end}
  /\ SendChunk(m.end, 1)
  /\ UNCHANGED <<sessionVars, file, cancelled, toClient, acked>>

TakeAck(m) ==
  /\ client = "sending" /\ m.end \in peer
  /\ m.type = "ACK" /\ m.block = (acked + 1) % BlockMod
  /\ acked' = acked + 1
  /\ IF acked + 1 = Chunks
     THEN client' = "done" /\ UNCHANGED toServer
     ELSE SendChunk(m.end, acked + 2) /\ UNCHANGED client
  /\ UNCHANGED <<sessionVars, file, cancelled, toClient, peer>>

TakeError(m) ==
  /\ \/ client = "asking"
     \/ client = "sending" /\ m.end \in peer
  /\ m.type = "ERROR"
  /\ client' = "gone"
  /\ UNCHANGED <<sessionVars, file, cancelled, toClient, toServer, peer, acked>>

\* A packet from another session is answered with ERROR: unknown transfer ID.
TakeForeign(m) ==
  /\ client = "sending" /\ m.end \notin peer /\ m.type # "ERROR"
  /\ toServer' = toServer \cup {Packet("ERROR", m.end, 0, 0)}
  /\ UNCHANGED <<sessionVars, file, cancelled, toClient, clientVars>>

\* The client gives the upload up, with or without an ERROR packet.
Leave ==
  /\ client \in {"asking", "sending"}
  /\ client' = "gone"
  /\ \/ UNCHANGED toServer
     \/ \E s \in peer : toServer' = toServer \cup {Packet("ERROR", s, 0, acked)}
  /\ UNCHANGED <<sessionVars, file, cancelled, toClient, peer, acked>>

ClientStep ==
  \/ \E m \in toClient :
       Fresh(m) /\ (TakeReply(m) \/ TakeAck(m) \/ TakeError(m) \/ TakeForeign(m))
  \/ Leave

-----------------------------------------------------------------------------
Next ==
  \/ \E s \in Session : Accept(s) \/ SessionStep(s)
  \/ Cancel
  \/ ClientStep

Spec == Init /\ [][Next]_vars

\* A session's goroutine runs, and its read deadlines pass.  Neither the
\* client nor the network has to do anything.
FairSpec == Spec /\ \A s \in Session : WF_vars(SessionStep(s))

-----------------------------------------------------------------------------
(* Properties.                                                             *)

Reports == {"running", "complete", "error", "aborted", "silent"}

\* Every variable keeps its type.
TypeOK ==
  /\ pc \in [Session -> {"none", "open", "head", "read", "again", "ended"}]
  /\ first \in [Session -> BOOLEAN]
  /\ expected \in [Session -> Number] /\ offset \in [Session -> 0 .. Chunks]
  /\ report \in [Session -> Reports]
  /\ file \in Seq(0 .. Chunks) /\ cancelled \in BOOLEAN
  /\ toClient \subseteq ToClient /\ toServer \subseteq ToServer
  /\ client \in {"asking", "sending", "done", "gone"}
  /\ peer \subseteq Session /\ acked \in 0 .. Chunks

\* The file on disk is a prefix of the client's.
FileIsPrefix == \A i \in 1 .. Len(file) : file[i] = i

\* The whole of the client's file is on disk.
Written == FileIsPrefix /\ Len(file) = Chunks

\* "TFTP upload complete" is published only when the whole file is on disk,
\* and it stays there.
CompleteMeansWritten == (\E s \in Session : report[s] = "complete") => Written

\* A client whose last block is acknowledged can rely on the whole file being
\* on disk.
DoneMeansWritten == client = "done" => Written

\* Once the server's context is cancelled every session ends, though the
\* client goes on sending: Shutdown and Start wait for it (wg.Wait).
ShutdownDrains ==
  \A s \in Session : (cancelled /\ pc[s] # "none") ~> (pc[s] = "ended")

\* The upload is a file transfer: see FileTransfer.
Transfer == INSTANCE FileTransfer WITH
  copy <- file,
  report <- CASE \E s \in Session : report[s] = "complete" -> "complete"
              [] \A s \in Session : report[s] = "running" -> "running"
              [] OTHER -> "failed"
TransferSpec == Transfer!Spec
=============================================================================
