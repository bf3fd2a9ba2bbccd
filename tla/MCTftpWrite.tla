----------------------------- MODULE MCTftpWrite ----------------------------
(* TftpWrite on small instances: block numbers wrap within the file. *)
EXTENDS TftpWrite, TLC

CONSTANTS w1, w2

Symmetry == Permutations(Session)
=============================================================================
