---------------------------- MODULE FileTransfer ----------------------------
(***************************************************************************)
(* What a TFTP transfer promises, whichever way it goes: the receiver's    *)
(* copy is at all times a prefix of the sender's file, and the server      *)
(* reports a complete transfer only when the copy is the whole file.       *)
(* A transfer may fail at any point.                                       *)
(***************************************************************************)
EXTENDS Integers, Sequences

CONSTANT Chunks        \* the blocks of the sender's file, in order: 1 .. Chunks

VARIABLES copy,        \* the chunks that the receiver has stored
          report       \* what the server has reported of the transfer

Init == copy = <<>> /\ report = "running"

\* The receiver stores the next chunk.
Store ==
  /\ Len(copy) < Chunks
  /\ copy' = Append(copy, Len(copy) + 1)

\* The server reports how the transfer ended.
Report ==
  /\ report = "running" /\ report' \in {"complete", "failed"}
  /\ report' = "complete" => Len(copy') = Chunks

\* The last chunk may be stored and reported in one step; after a failure the
\* packet that was under way may still be stored.
Next ==
  \/ Store /\ (Report \/ UNCHANGED report)
  \/ Report /\ UNCHANGED copy

Spec == Init /\ [][Next]_<<copy, report>>
=============================================================================
