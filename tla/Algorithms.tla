----------------------------- MODULE Algorithms -----------------------------
(***************************************************************************)
(* The pure parts of the servers, run on every input of a small set: a     *)
(* TFTP request or a netascii transfer, a line of syslog, or a path given  *)
(* to SafeJoin.                                                            *)
(***************************************************************************)
EXTENDS TftpCodec, SyslogLines, ServedPaths

vars == <<codecVars, lineVars, joinVars>>

CodecIdle == task = [call |-> "none"] /\ answer = Malformed /\ at = 0 /\ carry = FALSE /\ out = <<>> /\ done = TRUE
LineIdle  == line = <<>> /\ message = Failed /\ parsed = TRUE
NoPath    == [segs |-> <<>>]
JoinIdle  == path = NoPath /\ place = Unjoined /\ joined = FALSE

Init ==
  \/ CodecInit /\ LineIdle /\ JoinIdle
  \/ CodecIdle /\ LineInit /\ JoinIdle
  \/ CodecIdle /\ LineIdle /\ JoinInit

Next ==
  \/ CodecNext /\ UNCHANGED <<lineVars, joinVars>>
  \/ HandleLine /\ UNCHANGED <<codecVars, joinVars>>
  \/ path # NoPath /\ RunSafeJoin /\ UNCHANGED <<codecVars, lineVars>>

Spec == Init /\ [][Next]_vars
=============================================================================
