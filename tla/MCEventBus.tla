----------------------------- MODULE MCEventBus -----------------------------
(***************************************************************************)
(* EventBus on small instances: buffers of one and two events.             *)
(***************************************************************************)
EXTENDS EventBus

CONSTANTS p1, p2, s1, s2

SmallBuffers == [s \in Sub |-> IF s = s1 THEN 1 ELSE 2]
FewEvents    == [p \in Publisher |-> IF p = p1 THEN 2 ELSE 1]
=============================================================================
