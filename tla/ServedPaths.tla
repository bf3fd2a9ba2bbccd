---------------------------- MODULE ServedPaths ----------------------------
(***************************************************************************)
(* A session of the TFTP server asks SafeJoin for the path that a client   *)
(* names (internal/tftp/session.go, 96-102).                               *)
(***************************************************************************)
EXTENDS SafePath

CONSTANTS
  Segment,      \* what paths are made of
  FileSystems,  \* the trees
  Root,         \* the served directory
  Segments      \* what clients send as paths

Node == [kind : {"dir", "file"}] \cup [kind : {"link"}, to : Seq(Segment)]

ASSUME PathAssumption ==
  /\ ".." \in Segment /\ Root \in Seq(Segment) /\ Segments \subseteq Seq(Segment)
  /\ \A fs \in FileSystems : /\ DOMAIN fs \subseteq Seq(Segment)
                             /\ \A p \in DOMAIN fs : fs[p] \in Node

VARIABLES
  path,   \* what SafeJoin is called with
  place,  \* its result
  joined

joinVars == <<path, place, joined>>

Paths    == [fs : FileSystems, rooted : BOOLEAN, segs : Segments]
Unjoined == [ok |-> FALSE]

JoinInit == path \in Paths /\ place = Unjoined /\ joined = FALSE

RunSafeJoin ==
  /\ ~joined
  /\ place' = SafeJoin(path.fs, Root, path.rooted, path.segs)
  /\ joined' = TRUE
  /\ UNCHANGED path

JoinSpec == JoinInit /\ [][RunSafeJoin]_joinVars

-----------------------------------------------------------------------------
(***************************************************************************)
(* A name on the way is a link to something that does not exist.           *)
(***************************************************************************)
Dangling(fs, p) ==
  \E k \in 1 .. Len(p) :
    Lstat(fs, SubSeq(p, 1, k)) = "ok" /\ Outcome(fs, SubSeq(p, 1, k)) = "missing"

(***************************************************************************)
(* The depth below the root never goes under zero, read from left to right *)
(* without regard to a leading slash.                                      *)
(***************************************************************************)
Climbs(segs) ==
  \E k \in 1 .. Len(segs) :
    LET ups   == Len(SelectSeq(SubSeq(segs, 1, k), LAMBDA s : s = ".."))
        downs == Len(SelectSeq(SubSeq(segs, 1, k), LAMBDA s : s \notin {"..", "."}))
    IN ups > downs

(***************************************************************************)
(* SafeJoin confines, and refuses nothing else: a path that it returns     *)
(* leads into the root, through whatever links there are, also when names  *)
(* at its end do not exist yet; a path that it refuses is outside by name, *)
(* or leads out, or cannot be walked, or goes through a link to nothing.   *)
(***************************************************************************)
SafeJoinConfines ==
  joined =>
    LET p == place.path
        sound == Outcome(path.fs, p) \in {"found", "missing"} /\ ~Dangling(path.fs, p)
    IN place.ok <=> IsPrefix(Root, p) /\ IsPrefix(Root, Resolved(path.fs, p)) /\ sound

(***************************************************************************)
(* The comment of SafeJoin: "any path that lexically climbs above root via *)
(* '..' - however it's disguised - is rejected outright ... rather than    *)
(* being silently clamped".                                                *)
(***************************************************************************)
ClimbingIsRefused == joined /\ Climbs(path.segs) => ~place.ok
=============================================================================
