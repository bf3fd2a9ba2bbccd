------------------------------ MODULE TftpRead ------------------------------
(***************************************************************************)
(* A TFTP download: one session of internal/tftp/session.go that serves an *)
(* RRQ (handleSession, handleRRQ, sendAndWaitACK), a client as RFC 1350    *)
(* has it, and the network between them.                                   *)
(*                                                                         *)
(* A packet that was sent stays in its set and may be delivered any number *)
(* of times, late, out of order or never; what is sent again is the same   *)
(* packet.  Block numbers wrap, so a packet must not outlive the number it *)
(* carries: none is delivered once the transfer has moved on by more than  *)
(* Lifetime blocks.  A chunk is told apart by its position in the file;    *)
(* the last one, and only that, is shorter than blksize.                   *)
(***************************************************************************)
EXTENDS Integers, Sequences

CONSTANTS Chunks,      \* the blocks that the file makes, the short last included
          BlockMod,    \* block numbers are uint16: 65536
          MaxRetries,  \* cfg.MaxRetries, at least 1 by config.Validate
          Lifetime     \* bound: how many blocks late a packet may arrive

ASSUME ReadAssumption ==
  /\ Chunks \in Nat \ {0}
  /\ BlockMod \in Nat
  /\ MaxRetries \in Nat \ {0}
  /\ Lifetime \in Nat /\ Lifetime + 1 < BlockMod

VARIABLES
  pc,         \* where the session's goroutine is
  pos,        \* the chunks it has read from the file
  block,      \* the block number it sends next, or is waiting on
  attempt,    \* the packets sendAndWaitACK has written for this wait
  waits,      \* how those attempts have ended (history)
  report,     \* what the session has published about its end
  cancelled,  \* the context of the server is done
  toClient,   \* the packets the session has sent
  toServer,   \* the packets the client has sent
  client,     \* where the client is
  copy        \* the chunks it has stored

serverVars == <<pc, pos, block, attempt, waits, report>>
vars == <<serverVars, cancelled, toClient, toServer, client, copy>>

Number == 0 .. BlockMod - 1

\* OACK counts as chunk 0: the client answers it with ACK 0.  The chunk that
\* an ACK answers is not in the packet; Fresh alone looks at it.
ToClient == [type : {"OACK", "DATA", "ERROR"}, block : Number, chunk : 0 .. Chunks]
ToServer == [type : {"ACK", "ERROR"}, block : Number, chunk : 0 .. Chunks]

Packet(t, b, c) == [type |-> t, block |-> b, chunk |-> c]

\* The network still delivers m.
Fresh(m) == m.chunk + Lifetime >= pos

Init ==
  /\ pc = "open" /\ pos = 0 /\ block = 1 /\ attempt = 0 /\ waits = {}
  /\ report = "running" /\ cancelled = FALSE
  /\ toClient = {} /\ toServer = {}
  /\ client = "open" /\ copy = <<>>

-----------------------------------------------------------------------------
(* The session.                                                            *)

End(r) == pc' = "ended" /\ report' = r

\* sendAndWaitACK writes its packet for the first time.
FirstSend(m) == toClient' = toClient \cup {m} /\ attempt' = 1 /\ waits' = {}

\* The mode, the path, allow_read or the file itself is refused.
Refuse ==
  /\ pc = "open"
  /\ \E r \in {"silent", "error"} : End(r)
  /\ toClient' = toClient \cup {Packet("ERROR", 0, 0)}
  /\ UNCHANGED <<pos, block, attempt, waits, cancelled, toServer, client, copy>>

\* negotiateOptions accepts an option or more, and the OACK is sent; or none.
OpenFile ==
  /\ pc = "open"
  /\ \/ pc' = "oack" /\ FirstSend(Packet("OACK", 0, 0))
     \/ pc' = "head" /\ UNCHANGED <<attempt, waits, toClient>>
  /\ UNCHANGED <<pos, block, report, cancelled, toServer, client, copy>>

\* The head of the loop: ctx.Err(), io.ReadFull, and the first DATA.
ReadBlock ==
  /\ pc = "head" /\ ~ cancelled
  /\ pos' = pos + 1
  /\ pc' = "data"
  /\ FirstSend(Packet("DATA", block, pos + 1))
  /\ UNCHANGED <<block, report, cancelled, toServer, client, copy>>

ReadFails ==
  /\ pc = "head" /\ ~ cancelled
  /\ End("silent")
  /\ toClient' = toClient \cup {Packet("ERROR", 0, pos)}
  /\ UNCHANGED <<pos, block, attempt, waits, cancelled, toServer, client, copy>>

HeadCancelled ==
  /\ pc = "head" /\ cancelled
  /\ End("silent")
  /\ UNCHANGED <<pos, block, attempt, waits, cancelled, toClient, toServer,
                 client, copy>>

WantBlock == IF pc = "oack" THEN 0 ELSE block

\* Mutant: any ACK will do.
Matches_Any(m) == m.type = "ACK"

\* parseACK(buf) gives the block that is waited for.
Matches(m) == m.type = "ACK" /\ m.block = WantBlock

Waiting == pc \in {"oack", "data"}

\* Mutant: the last block is taken to be one block earlier.
Acked_OneShort(m) ==
  /\ Waiting /\ m \in toServer /\ Fresh(m) /\ Matches(m)
  /\ IF pc = "data" /\ pos + 1 >= Chunks
     THEN End("complete") /\ UNCHANGED block
     ELSE /\ pc' = "head" /\ UNCHANGED report
          /\ block' = IF pc = "oack" THEN block ELSE (block + 1) % BlockMod
  /\ UNCHANGED <<pos, attempt, waits, cancelled, toClient, toServer, client, copy>>

\* sendAndWaitACK returns true; a short block ends the transfer.
Acked(m) ==
  /\ Waiting /\ m \in toServer /\ Fresh(m) /\ Matches(m)
  /\ IF pc = "data" /\ pos = Chunks
     THEN End("complete") /\ UNCHANGED block
     ELSE /\ pc' = "head" /\ UNCHANGED report
          /\ block' = IF pc = "oack" THEN block ELSE (block + 1) % BlockMod
  /\ UNCHANGED <<pos, attempt, waits, cancelled, toClient, toServer, client, copy>>

\* Mutant: the attempts are not counted.
Again_Forever(why) ==
  /\ waits' = waits \cup {why}
  /\ UNCHANGED <<attempt, pc, report>>

\* Mutant: one attempt too many.
Again_OneMore(why) ==
  /\ waits' = waits \cup {why}
  /\ IF attempt <= MaxRetries
     THEN attempt' = attempt + 1 /\ UNCHANGED <<pc, report>>
     ELSE End("aborted") /\ UNCHANGED attempt

\* An attempt has brought no ACK: write the packet again, or give up.
Again(why) ==
  /\ waits' = waits \cup {why}
  /\ IF attempt < MaxRetries
     THEN attempt' = attempt + 1 /\ UNCHANGED <<pc, report>>
     ELSE End("aborted") /\ UNCHANGED attempt

\* Mutant: what is written again is the next chunk, under the same number.
ReadTimeout_ReadsOn ==
  /\ pc = "data" /\ pos < Chunks
  /\ Again("timeout")
  /\ pos' = pos + 1
  /\ toClient' = toClient \cup {Packet("DATA", block, pos + 1)}
  /\ UNCHANGED <<block, cancelled, toServer, client, copy>>

ReadTimeout ==
  /\ Waiting
  /\ Again("timeout")
  /\ UNCHANGED <<pos, block, cancelled, toClient, toServer, client, copy>>

\* An ACK of another block, or an ERROR, uses the attempt up.
Stray(m) ==
  /\ Waiting /\ m \in toServer /\ Fresh(m) /\ ~ Matches(m)
  /\ Again("stray")
  /\ UNCHANGED <<pos, block, cancelled, toClient, toServer, client, copy>>

\* A write fails, or a read with something else than a timeout.
SocketError ==
  /\ Waiting
  /\ End("aborted")
  /\ waits' = waits \cup {"socket"}
  /\ UNCHANGED <<pos, block, attempt, cancelled, toClient, toServer, client, copy>>

\* What the goroutine does by itself, and what may go wrong on the way.
SessionRuns ==
  \/ OpenFile \/ ReadBlock \/ HeadCancelled \/ ReadTimeout
  \/ \E m \in toServer : Acked(m) \/ Stray(m)

SessionFails == Refuse \/ ReadFails \/ SocketError

Cancel ==
  /\ ~ cancelled /\ cancelled' = TRUE
  /\ UNCHANGED <<serverVars, toClient, toServer, client, copy>>

-----------------------------------------------------------------------------
(* The client (external).                                                  *)

Answer(b, c) == toServer' = toServer \cup {Packet("ACK", b, c)}

TakeOack(m) ==
  /\ m.type = "OACK" /\ copy = <<>>
  /\ Answer(0, 0)
  /\ UNCHANGED <<serverVars, cancelled, toClient, client, copy>>

\* The DATA expected next is stored and acknowledged.
TakeData(m) ==
  /\ m.type = "DATA" /\ m.block = (Len(copy) + 1) % BlockMod
  /\ copy' = Append(copy, m.chunk)
  /\ Answer(m.block, Len(copy) + 1)
  /\ client' = IF m.chunk = Chunks THEN "done" ELSE "open"
  /\ UNCHANGED <<serverVars, cancelled, toClient>>

TakeError(m) ==
  /\ m.type = "ERROR"
  /\ client' = "gone"
  /\ UNCHANGED <<serverVars, cancelled, toClient, toServer, copy>>

\* The client gives the transfer up, with or without an ERROR packet.
Leave ==
  /\ \E s \in {{}, {Packet("ERROR", 0, Len(copy))}} : toServer' = toServer \cup s
  /\ client' = "gone"
  /\ UNCHANGED <<serverVars, cancelled, toClient, copy>>

ClientStep ==
  /\ client = "open"
  /\ \/ \E m \in toClient : Fresh(m) /\ (TakeOack(m) \/ TakeData(m) \/ TakeError(m))
     \/ Leave

-----------------------------------------------------------------------------
Next == SessionRuns \/ SessionFails \/ Cancel \/ ClientStep

Spec == Init /\ [][Next]_vars

\* The session's goroutine runs, and its read deadlines pass.  The client and
\* the network do not have to do anything, and nothing has to fail.
FairSpec == Spec /\ WF_vars(SessionRuns)

-----------------------------------------------------------------------------
(* Properties.                                                             *)

\* Every variable keeps its type; the attempts stay within max_retries.
TypeOK ==
  /\ pc \in {"open", "oack", "head", "data", "ended"}
  /\ pos \in 0 .. Chunks /\ block \in Number
  /\ attempt \in 0 .. MaxRetries /\ waits \subseteq {"timeout", "stray", "socket"}
  /\ report \in {"running", "complete", "error", "aborted", "silent"}
  /\ cancelled \in BOOLEAN
  /\ toClient \subseteq ToClient /\ toServer \subseteq ToServer
  /\ client \in {"open", "done", "gone"} /\ copy \in Seq(1 .. Chunks)

\* The client has stored a prefix of the file: no block is skipped, taken
\* twice or taken for one that bears the same number after a wrap.
CopyIsPrefix == \A i \in 1 .. Len(copy) : copy[i] = i

\* "TFTP download complete" is published only once the client has it all.
CompleteMeansStored == report = "complete" => Len(copy) = Chunks

\* Every session ends, whatever the client and the network do: Shutdown and
\* Start wait for it (wg.Wait).
SessionEnds == <>(pc = "ended")

\* The download is a file transfer: see FileTransfer.
Transfer == INSTANCE FileTransfer WITH
  report <- IF report \in {"running", "complete"} THEN report ELSE "failed"
TransferSpec == Transfer!Spec

\* "retrying on timeout up to cfg.max_retries times": a session gives up a
\* client that is still there only after that many timeouts.
AbortMeansTimeouts ==
  report = "aborted" /\ client # "gone" /\ "socket" \notin waits =>
    waits = {"timeout"}
=============================================================================
