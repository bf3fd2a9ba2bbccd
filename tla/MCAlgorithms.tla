---------------------------- MODULE MCAlgorithms ----------------------------
EXTENDS Algorithms, TLC

Upto(S, n) == UNION {[1 .. k -> S] : k \in 0 .. n}

-----------------------------------------------------------------------------
\* The root /r with two names in it and a third below the first, the
\* directory /o outside with a file; each name is missing, a directory, a
\* file, or a link out, in, to nothing, to the root or to itself.
Dir       == [kind |-> "dir"]
File      == [kind |-> "file"]
Link(p)   == [kind |-> "link", to |-> p]
None      == [kind |-> "none"]
R(s)      == <<"r">> \o s
NodesOf(p) == {None, Dir, File, Link(<<"o">>), Link(<<"o", "b">>), Link(R(<<"b">>)), Link(R(<<>>)), Link(p)}

Tree(a, b, ab) ==
  LET all == R(<<>>) :> Dir @@ <<"o">> :> Dir @@ <<"o", "a">> :> File @@ R(<<"a">>) :> a
             @@ R(<<"b">>) :> b @@ R(<<"a", "b">>) :> ab
  IN [p \in {q \in DOMAIN all : all[q] # None} |-> all[p]]

MCFileSystems ==
  {Tree(a, b, None) : a \in NodesOf(R(<<"a">>)), b \in NodesOf(R(<<"b">>))}
  \cup {Tree(Dir, b, ab) : b \in {None, Link(R(<<"a">>))}, ab \in {File, Link(<<"o">>), Link(R(<<"a">>))}}
  \cup {<<"o">> :> Dir @@ R(<<>>) :> Link(<<"o">>)}
MCRoot     == R(<<>>)
MCSegment  == {"..", ".", "r", "o", "a", "b"}
MCSegments == Upto({"..", ".", "a", "b"}, 3)

-----------------------------------------------------------------------------
\* Every short line, every start of a line with a short rest, and every
\* short tail behind a whole header of RFC 5424.
Pri     == <<"<", "1", "9", "1", ">">>
V5424   == Pri \o <<"1", " ", "x", " ", "x", " ", "-", " ", "x", " ", "x", " ">>
MCLines ==
  Upto({"<", ">", "1", "9", "-", "x"}, 5)
  \cup {Pri \o s : s \in Upto({" ", "stamp", "x", "[", "]", ":", "BOM"}, 5)}
  \cup {Pri \o <<"1", " ">> \o s : s \in Upto({" ", "x", "[", "]"}, 6)}
  \cup {V5424 \o s : s \in Upto({"[", "]", "quote", "backslash", " ", "x"}, 6)}
  \cup {V5424 \o s : s \in Upto({"[", "]", "-", " ", "BOM"}, 4)}
MCToken == UNION {{s[i] : i \in DOMAIN s} : s \in MCLines}

-----------------------------------------------------------------------------
\* Option names in both cases, values at and beyond each limit.
Names    == "B" :> "blksize" @@ "b" :> "blksize" @@ "t" :> "timeout" @@ "s" :> "tsize"
Values   == "v0" :> 0 @@ "v7" :> 7 @@ "v8" :> 8 @@ "v255" :> 255 @@ "v256" :> 256
            @@ "v600" :> 600 @@ "vbig" :> 65465
MCLower(f) == IF Len(f) = 1 /\ f[1] \in DOMAIN Names THEN Names[f[1]] ELSE "other"
MCAtoi(f)  == IF Len(f) = 1 /\ f[1] \in DOMAIN Values THEN Values[f[1]] ELSE -1

Pair(n, v)  == <<n, NUL, v, NUL>>
Header      == <<"f", NUL, "m", NUL>>
SomePairs   == {Pair(n, v) : n \in DOMAIN Names, v \in DOMAIN Values \cup {"?"}}
MCByte      == {NUL, CR, LF, "x", "f", "m", "?"} \cup DOMAIN Names \cup DOMAIN Values
MCPackets   == Upto({"f", "b", "v8", NUL}, 5)
               \cup {Header \o p : p \in SomePairs} \cup {Header \o p \o q : p \in SomePairs, q \in SomePairs}
MCSettings  == [maxBlksize : {8, 512, 65464}, timeout : {5}]
MCFileSizes == {0, 9}

MCTexts == Upto({CR, LF, "x"}, 6)
=============================================================================
