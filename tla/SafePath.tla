------------------------------ MODULE SafePath ------------------------------
(***************************************************************************)
(* security.SafeJoin (internal/security/path.go) over a file system with   *)
(* symbolic links.  A path is a sequence of names, an absolute one begins  *)
(* at "/"; what a client sends is a sequence of segments, "." and ".."     *)
(* among them, with or without a leading slash.                            *)
(*                                                                         *)
(* A file system maps absolute paths to nodes, of kind "dir", "file" or    *)
(* "link", the last with the absolute path it leads to; other paths do not *)
(* exist.                                                                  *)
(***************************************************************************)
EXTENDS Integers, Sequences

CONSTANT MaxLinks  \* how many links the operating system follows in a path

ASSUME LinksAssumption == MaxLinks \in Nat

Front(p)       == SubSeq(p, 1, Len(p) - 1)
Last(p)        == p[Len(p)]
IsPrefix(r, p) == Len(r) <= Len(p) /\ SubSeq(p, 1, Len(r)) = r

Kind(fs, p) == IF p = <<>> THEN "dir" ELSE IF p \in DOMAIN fs THEN fs[p].kind ELSE "none"

(***************************************************************************)
(* The operating system walks along a path up to the first name that is    *)
(* not a directory, Stop, 0 when all are.  A link there is replaced by the *)
(* path it leads to, and the walk begins again.                            *)
(***************************************************************************)
IsStop(fs, p, i) == /\ Kind(fs, SubSeq(p, 1, i)) # "dir"
                    /\ \A j \in 1 .. i - 1 : Kind(fs, SubSeq(p, 1, j)) = "dir"
Stop(fs, p) ==
  IF \A i \in 1 .. Len(p) : Kind(fs, SubSeq(p, 1, i)) = "dir" THEN 0
  ELSE CHOOSE i \in 1 .. Len(p) : IsStop(fs, p, i)

StopKind(fs, p) == Kind(fs, SubSeq(p, 1, Stop(fs, p)))
Follow(fs, p) ==
  LET i == Stop(fs, p) IN
  IF StopKind(fs, p) = "link" THEN fs[SubSeq(p, 1, i)].to \o SubSeq(p, i + 1, Len(p)) ELSE p

Following(fs, p) ==
  LET Q[n \in 0 .. MaxLinks] == IF n = 0 THEN p ELSE Follow(fs, Q[n - 1])
  IN Q

Resolved(fs, p) == Following(fs, p)[MaxLinks]
Outcome(fs, p) ==
  LET q == Resolved(fs, p) IN
  CASE StopKind(fs, q) = "dir"  -> "found"
    [] StopKind(fs, q) = "none" -> "missing"
    [] StopKind(fs, q) = "link" -> "loop"
    [] StopKind(fs, q) = "file" -> IF Stop(fs, q) = Len(q) THEN "found" ELSE "not a directory"

(***************************************************************************)
(* os.Lstat follows every name but the last; filepath.EvalSymlinks follows *)
(* them all, and each must exist.                                          *)
(***************************************************************************)
Lstat(fs, p) ==
  IF p = <<>> THEN "ok"
  ELSE LET in  == Resolved(fs, Front(p))
           why == Outcome(fs, Front(p))
       IN CASE why = "missing" -> "not exist"
            [] why \in {"not a directory", "loop"} -> "error"
            [] why = "found" -> IF Kind(fs, in) = "file" THEN "error"
                                ELSE IF Kind(fs, Append(in, Last(p))) = "none" THEN "not exist" ELSE "ok"

-----------------------------------------------------------------------------
(***************************************************************************)
(* filepath.Clean: ".." takes the name before it away, is dropped at the   *)
(* beginning of a rooted path, and stays at the beginning of another.      *)
(***************************************************************************)
CleanStep(rooted, out, seg) ==
  IF seg = "." THEN out
  ELSE IF seg # ".." THEN Append(out, seg)
  ELSE IF out # <<>> /\ Last(out) # ".." THEN Front(out)
  ELSE IF rooted THEN out ELSE Append(out, "..")

Clean(rooted, segs) ==
  LET C[n \in 0 .. Len(segs)] == IF n = 0 THEN <<>> ELSE CleanStep(rooted, C[n - 1], segs[n])
  IN C[Len(segs)]

Join(root, segs) == Clean(TRUE, root \o segs)

(***************************************************************************)
(* filepath.Rel of two clean absolute paths begins with ".." exactly when  *)
(* the first is not a prefix of the second.                                *)
(***************************************************************************)
IsWithinRoot(root, p) == IsPrefix(root, p)

(***************************************************************************)
(* resolveExisting: up from the end to the first name that exists, whose   *)
(* links are resolved; the names below it are appended as they are.        *)
(***************************************************************************)
Existing(fs, p) == CHOOSE k \in 0 .. Len(p) :
                     /\ Lstat(fs, SubSeq(p, 1, k)) # "not exist"
                     /\ \A i \in k + 1 .. Len(p) : Lstat(fs, SubSeq(p, 1, i)) = "not exist"

ResolveExisting_Lexical(fs, p) == [err |-> FALSE, path |-> p]

ResolveExisting(fs, p) ==
  LET k == Existing(fs, p)
      c == SubSeq(p, 1, k)
  IN [err |-> Lstat(fs, c) = "error" \/ Outcome(fs, c) # "found",
      path |-> Resolved(fs, c) \o SubSeq(p, k + 1, Len(p))]

(***************************************************************************)
(* SafeJoin returns the path unresolved.                                   *)
(***************************************************************************)
SafeJoin(fs, root, rooted, segs) ==
  LET candidate == Join(root, Clean(rooted, segs))
      r == ResolveExisting(fs, candidate)
  IN [ok |-> IsWithinRoot(root, candidate) /\ ~r.err /\ IsWithinRoot(root, r.path),
      path |-> candidate]
=============================================================================
