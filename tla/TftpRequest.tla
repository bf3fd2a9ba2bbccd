---------------------------- MODULE TftpRequest ----------------------------
(***************************************************************************)
(* The request of a TFTP transfer: parseRequest (internal/tftp/protocol.go)*)
(* and negotiateOptions (session.go).  A packet is a sequence of bytes     *)
(* behind the opcode.  Lower is what normalizeOptionName makes of a field  *)
(* and Atoi what strconv.Atoi reads, -1 when it is not a number.           *)
(***************************************************************************)
EXTENDS Integers, Sequences

CONSTANTS Lower(_), Atoi(_)

NUL            == "NUL"
DefaultBlksize == 512
LargestBlksize == 65464

(***************************************************************************)
(* splitNulTerminated: every field, the last one too, ends with a NUL.     *)
(* Splitting(b)[i] has the fields that end among the first i bytes, and    *)
(* the bytes behind them.                                                  *)
(***************************************************************************)
Splitting(b) ==
  LET S[i \in 0 .. Len(b)] ==
        IF i = 0 THEN [fields |-> <<>>, rest |-> <<>>]
        ELSE LET s == S[i - 1] IN
             IF b[i] = NUL THEN [fields |-> Append(s.fields, s.rest), rest |-> <<>>]
             ELSE [fields |-> s.fields, rest |-> Append(s.rest, b[i])]
  IN S

SplitNulTerminated(b) == Splitting(b)[Len(b)].fields
Terminated(b)         == Splitting(b)[Len(b)].rest = <<>>

(***************************************************************************)
(* The options are the pairs that follow the file name and the mode; a     *)
(* later pair replaces an earlier one, a name without a value is ignored.  *)
(***************************************************************************)
NamesPair(fields, n, k) == Lower(fields[2 * k + 1]) = n
PairsOf(fields)         == 1 .. (Len(fields) - 2) \div 2
OptionNames(fields)     == {Lower(fields[2 * k + 1]) : k \in PairsOf(fields)}

Pairs_First(fields) ==
  [n \in OptionNames(fields) |->
     fields[2 * (CHOOSE k \in PairsOf(fields) :
                   /\ NamesPair(fields, n, k)
                   /\ \A j \in PairsOf(fields) : NamesPair(fields, n, j) => k <= j) + 2]]

Pairs(fields) ==
  [n \in OptionNames(fields) |->
     fields[2 * (CHOOSE k \in PairsOf(fields) :
                   /\ NamesPair(fields, n, k)
                   /\ \A j \in PairsOf(fields) : NamesPair(fields, n, j) => j <= k) + 2]]

ParseRequest(op, b) ==
  LET fields == SplitNulTerminated(b) IN
  IF Len(b) < 2 \/ op \notin {"RRQ", "WRQ"} \/ ~Terminated(b) \/ Len(fields) < 2
  THEN [ok |-> FALSE]
  ELSE [ok |-> TRUE, filename |-> fields[1], mode |-> fields[2], options |-> Pairs(fields)]

-----------------------------------------------------------------------------
(***************************************************************************)
(* negotiateOptions; oack maps the options that are acknowledged.          *)
(***************************************************************************)
Clamp(bs, maxBlksize) == IF maxBlksize > 0 /\ bs > maxBlksize THEN maxBlksize ELSE bs

NegotiateOptions(options, cfg, fileSize) ==
  LET Val(n)   == Atoi(options[n])
      Asks(n)  == n \in DOMAIN options
      blk      == Asks("blksize") /\ Val("blksize") \in 8 .. LargestBlksize
      tmo      == Asks("timeout") /\ Val("timeout") \in 1 .. 255
      size     == IF fileSize = 0 /\ Val("tsize") >= 0 THEN Val("tsize") ELSE fileSize
      blksize  == IF blk THEN Clamp(Val("blksize"), cfg.maxBlksize) ELSE DefaultBlksize
      timeout  == IF tmo THEN Val("timeout") ELSE cfg.timeout
      answered == {n \in DOMAIN options : (n = "blksize" /\ blk) \/ (n = "timeout" /\ tmo) \/ n = "tsize"}
  IN [blksize |-> blksize, timeout |-> timeout,
      oack |-> [n \in answered |-> CASE n = "blksize" -> blksize [] n = "timeout" -> timeout [] n = "tsize" -> size]]
=============================================================================
