----------------------------- MODULE MCTftpRead -----------------------------
(* TftpRead on small instances: block numbers wrap within the file. *)
EXTENDS TftpRead, TLC
=============================================================================
