----------------------------- MODULE TftpCodec -----------------------------
(***************************************************************************)
(* What a TFTP session makes of bytes: the request that begins it, with    *)
(* its options, and a text transferred in netascii, block by block, in     *)
(* either direction (internal/tftp/session.go, protocol.go, netascii.go).  *)
(***************************************************************************)
EXTENDS TftpRequest, Netascii

CONSTANTS
  Byte,               \* what packets and texts are made of
  Packets, Settings,  \* requests behind their opcode, TFTP settings
  FileSizes,
  Texts, BlockSizes   \* texts of netascii transfers, block sizes

ASSUME CodecAssumption ==
  /\ {NUL, CR, LF} \subseteq Byte
  /\ Packets \subseteq Seq(Byte) /\ Texts \subseteq Seq(Byte)
  /\ BlockSizes \subseteq Nat \ {0}
  /\ \A c \in Settings : c.maxBlksize \in 8 .. LargestBlksize   \* by config.Validate

VARIABLES
  task,    \* what arrives, or is transferred
  answer,  \* of a request: what the session goes on with
  at,      \* the bytes of the text that have been transferred
  carry,   \* carryCR of an upload
  out,     \* the bytes sent to the client, or written to the file
  done

codecVars == <<task, answer, at, carry, out, done>>

Tasks ==
  [call : {"Request"}, op : {"RRQ", "WRQ", "other"}, packet : Packets, cfg : Settings, size : FileSizes]
  \cup [call : {"Download", "Upload"}, text : Texts, blksize : BlockSizes]

Malformed == [ok |-> FALSE]

CodecInit ==
  /\ task \in Tasks /\ answer = Malformed
  /\ at = 0 /\ carry = FALSE /\ out = <<>> /\ done = FALSE

(***************************************************************************)
(* parseRequest, and negotiateOptions of handleRRQ (with the size of the   *)
(* file) or handleWRQ (with zero).                                         *)
(***************************************************************************)
ReadRequest ==
  LET r == ParseRequest(task.op, task.packet) IN
  /\ task.call = "Request" /\ ~done
  /\ answer' = IF ~r.ok THEN Malformed
               ELSE [ok |-> TRUE, req |-> r,
                     n |-> NegotiateOptions(r.options, task.cfg, IF task.op = "RRQ" THEN task.size ELSE 0)]
  /\ done' = TRUE
  /\ UNCHANGED <<task, at, carry, out>>

(***************************************************************************)
(* The loops of handleRRQ and handleWRQ: a block shorter than blksize is   *)
(* the last.                                                               *)
(***************************************************************************)
EndOfBlock == IF at + task.blksize < Len(task.text) THEN at + task.blksize ELSE Len(task.text)
Block      == SubSeq(task.text, at + 1, EndOfBlock)
Passes     == at' = EndOfBlock /\ done' = (EndOfBlock - at < task.blksize) /\ UNCHANGED <<task, answer>>

SendBlock ==
  /\ task.call = "Download" /\ ~done
  /\ out' = out \o ToNetascii(Block)
  /\ Passes /\ UNCHANGED carry

ReceiveBlock ==
  /\ task.call = "Upload" /\ ~done
  /\ LET c == FromNetascii(Block, carry) IN out' = out \o c.out /\ carry' = c.carry
  /\ Passes

CodecNext == ReadRequest \/ SendBlock \/ ReceiveBlock

CodecSpec == CodecInit /\ [][CodecNext]_codecVars

-----------------------------------------------------------------------------
(***************************************************************************)
(* The numbers offered for an option: the one of the last pair of its name.*)
(***************************************************************************)
Offered(fields, n) ==
  {Atoi(fields[k + 1]) : k \in {j \in 3 .. Len(fields) - 1 : j % 2 = 1 /\ Lower(fields[j]) = n
                                  /\ ~\E i \in j + 1 .. Len(fields) - 1 : i % 2 = 1 /\ Lower(fields[i]) = n}}

Joining(fields) ==
  LET J[k \in 0 .. Len(fields)] == IF k = 0 THEN <<>> ELSE J[k - 1] \o Append(fields[k], NUL)
  IN J
Joined(fields) == Joining(fields)[Len(fields)]

(***************************************************************************)
(* The fields of a request that is served are the packet cut at its NULs,  *)
(* nothing lost.  The comment of negotiateOptions: "only ever accept a     *)
(* value the client offered or something more conservative".  What is      *)
(* acknowledged is what the session uses, in the limits of the RFC and of  *)
(* the configuration, and never more than the pair that counts asked for;  *)
(* without an answer the defaults hold.  (Of tsize, which bounds nothing   *)
(* that the session does, only whether it is answered.)                    *)
(***************************************************************************)
NegotiationIsConservative ==
  task.call = "Request" /\ done /\ answer.ok =>
    LET n == answer.n
        f == SplitNulTerminated(task.packet)
    IN /\ Joined(f) = task.packet
       /\ \A k \in DOMAIN f : \A i \in DOMAIN f[k] : f[k][i] # NUL
       /\ IF "blksize" \in DOMAIN n.oack
          THEN /\ n.oack["blksize"] = n.blksize /\ n.blksize \in 8 .. task.cfg.maxBlksize
               /\ \A v \in Offered(f, "blksize") : n.blksize <= v
               /\ Offered(f, "blksize") # {}
          ELSE n.blksize = DefaultBlksize
       /\ IF "timeout" \in DOMAIN n.oack
          THEN n.oack["timeout"] = n.timeout /\ Offered(f, "timeout") = {n.timeout}
          ELSE n.timeout = task.cfg.timeout
       /\ "tsize" \in DOMAIN n.oack <=> Offered(f, "tsize") # {}
       /\ DOMAIN n.oack \subseteq {"blksize", "timeout", "tsize"}

(***************************************************************************)
(* Whatever the block size, an upload stores the stream with its line ends *)
(* collapsed as if it had been converted at once, and a download that is   *)
(* uploaded again gives the same text, but for a CR at its very end.       *)
(***************************************************************************)
NetasciiStreams ==
  /\ task.call = "Upload" /\ done => out = Collapsed(task.text)
  /\ task.call = "Download" /\ done =>
       Collapsed(out) = IF task.text # <<>> /\ task.text[Len(task.text)] = CR
                        THEN SubSeq(task.text, 1, Len(task.text) - 1) ELSE task.text
=============================================================================
