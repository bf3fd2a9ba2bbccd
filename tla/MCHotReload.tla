---------------------------- MODULE MCHotReload ----------------------------
(***************************************************************************)
(* HotReload with one service of each kind: syslog, which is rebuilt on    *)
(* every change and whose New may fail, and webui, which can be updated.   *)
(***************************************************************************)
EXTENDS HotReload

CONSTANTS a1, a2, x1, x2

Services  == {"syslog", "webui"}
CodeOrder == [s \in Services |-> IF s = "syslog" THEN 1 ELSE 2]
Make(y, w) == [s \in Services |-> IF s = "syslog" THEN y ELSE w]
Set(on, a, x) == [on |-> on, addr |-> a, rest |-> x]

(***************************************************************************)
(* The default; syslog on and a new password for the web console; syslog   *)
(* changed and the web console moved.                                      *)
(***************************************************************************)
JustWeb == Make(Set(FALSE, a1, x1), Set(TRUE, a1, x1))
LogsToo == Make(Set(TRUE, a1, x1), Set(TRUE, a1, x2))
Moved   == Make(Set(TRUE, a1, x2), Set(TRUE, a2, x1))
Configs == {JustWeb, LogsToo, Moved}
=============================================================================
