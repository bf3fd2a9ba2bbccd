---------------------------- MODULE MCSupervisor ----------------------------
(***************************************************************************)
(* Supervisor on small instances.  The three instances of "ftp" are the    *)
(* server of the first configuration and the two that reloads build.       *)
(***************************************************************************)
EXTENDS Supervisor, TLC

CONSTANTS f1, f2, f3, c1, c2

FtpOnly  == [i \in Inst |-> "ftp"]
Symmetry == Permutations(Caller) \cup Permutations(Inst)
=============================================================================
