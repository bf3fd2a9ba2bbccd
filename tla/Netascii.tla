------------------------------ MODULE Netascii ------------------------------
(***************************************************************************)
(* The conversions of internal/tftp/netascii.go on sequences of bytes, of  *)
(* which only CR and LF matter.                                            *)
(***************************************************************************)
EXTENDS Naturals, Sequences

CR == "CR"
LF == "LF"

(***************************************************************************)
(* toNetascii: Expanding(b)[n] is what the loop has written after n bytes. *)
(***************************************************************************)
Expanding(b) ==
  LET T[n \in 0 .. Len(b)] ==
        IF n = 0 THEN <<>> ELSE T[n - 1] \o (IF b[n] = LF THEN <<CR, LF>> ELSE <<b[n]>>)
  IN T

ToNetascii(b) == Expanding(b)[Len(b)]

(***************************************************************************)
(* fromNetascii: a CR that ends the block is left to the next call, which  *)
(* learns of it through pendingCR; on an empty block it is forgotten.      *)
(* Collapsing(b)[i] is what the loop makes of the bytes from the i-th on.  *)
(***************************************************************************)
Collapsing_NoCarry(b) ==
  LET F[i \in 1 .. Len(b) + 2] ==
        IF i > Len(b) THEN [out |-> <<>>, carry |-> FALSE]
        ELSE IF b[i] = CR /\ i < Len(b) /\ b[i + 1] = LF
             THEN [out |-> <<LF>> \o F[i + 2].out, carry |-> F[i + 2].carry]
        ELSE [out |-> <<b[i]>> \o F[i + 1].out, carry |-> F[i + 1].carry]
  IN F

Collapsing(b) ==
  LET F[i \in 1 .. Len(b) + 2] ==
        IF i > Len(b) THEN [out |-> <<>>, carry |-> FALSE]
        ELSE IF b[i] = CR /\ i = Len(b) THEN [out |-> <<>>, carry |-> TRUE]
        ELSE IF b[i] = CR /\ b[i + 1] = LF
             THEN [out |-> <<LF>> \o F[i + 2].out, carry |-> F[i + 2].carry]
        ELSE [out |-> <<b[i]>> \o F[i + 1].out, carry |-> F[i + 1].carry]
  IN F

FromNetascii(b, pendingCR) ==
  LET F == Collapsing(b) IN
  CASE ~pendingCR \/ b = <<>> -> F[1]
    [] pendingCR /\ b # <<>> /\ b[1] = LF -> [out |-> <<LF>> \o F[2].out, carry |-> F[2].carry]
    [] pendingCR /\ b # <<>> /\ b[1] # LF -> [out |-> <<CR>> \o F[1].out, carry |-> F[1].carry]

-----------------------------------------------------------------------------
(***************************************************************************)
(* Reference, on the stream as a whole: a CR goes when a LF follows it, or *)
(* nothing.                                                                *)
(***************************************************************************)
Goes(s, k) == s[k] = CR /\ (k = Len(s) \/ s[k + 1] = LF)

Shrinking(s) ==
  LET C[k \in 0 .. Len(s)] ==
        IF k = 0 THEN <<>> ELSE IF Goes(s, k) THEN C[k - 1] ELSE Append(C[k - 1], s[k])
  IN C

Collapsed(s) == Shrinking(s)[Len(s)]
=============================================================================
