---------------------------- MODULE SyslogParse ----------------------------
(***************************************************************************)
(* Parse of a syslog line (internal/syslogsrv/parse.go).  A line is a      *)
(* sequence of tokens: the characters that the parser looks at, "x" for    *)
(* any other, "BOM", and "stamp" for fifteen characters that are a time of *)
(* RFC 3164.  Indexes are those of TLA+; a cursor counts the tokens that   *)
(* have been consumed.                                                     *)
(***************************************************************************)
EXTENDS Integers, Sequences, FiniteSets

Digit == {"0", "1", "9"}   \* any others would do
Value == [d \in Digit |-> CASE d = "0" -> 0 [] d = "1" -> 1 [] d = "9" -> 9]

Least(S)          == CHOOSE x \in S : \A y \in S : x <= y
From(s, i)        == SubSeq(s, i, Len(s))
IndexOf(s, c)     == LET is == {i \in DOMAIN s : s[i] = c} IN IF is = {} THEN 0 ELSE Least(is)
TrimPrefix(s, c)  == IF s # <<>> /\ Head(s) = c THEN Tail(s) ELSE s
TrimLeft(s, c)    == LET is == {i \in DOMAIN s : s[i] # c} IN IF is = {} THEN <<>> ELSE From(s, Least(is))
StartsWith(s, p)  == Len(p) <= Len(s) /\ SubSeq(s, 1, Len(p)) = p
NilDash(f)        == IF f = <<"-">> THEN <<>> ELSE f

-----------------------------------------------------------------------------
(***************************************************************************)
(* splitNSpaceFields: F[k] is what the loop has after k fields.            *)
(***************************************************************************)
SplitNSpaceFields(s, n) ==
  LET F[k \in 0 .. n] ==
        IF k = 0 THEN [ok |-> TRUE, fields |-> <<>>, tail |-> s]
        ELSE LET c  == F[k - 1]
                 sp == IndexOf(c.tail, " ")
             IN [ok     |-> c.ok /\ sp > 0,
                 fields |-> Append(c.fields, SubSeq(c.tail, 1, sp - 1)),
                 tail   |-> From(c.tail, sp + 1)]
  IN F[n]

(***************************************************************************)
(* The inner loop of splitStructuredData consumes one element: a backslash *)
(* takes the next character with it, quotes hide a bracket.                *)
(* Scanning(s)[i][q] is where it ends when it goes on behind i tokens with *)
(* q quotes open, one when inQuotes holds and none otherwise.              *)
(***************************************************************************)
Scanning_NoEscape(s) ==
  LET E[i \in 0 .. Len(s) + 1] ==
        [q \in {0, 1} |->
           IF i >= Len(s) THEN i
           ELSE IF s[i + 1] = "quote" THEN E[i + 1][1 - q]
           ELSE IF s[i + 1] = "]" /\ q = 0 THEN i + 1
           ELSE E[i + 1][q]]
  IN E

Scanning(s) ==
  LET E[i \in 0 .. Len(s) + 1] ==
        [q \in {0, 1} |->
           IF i >= Len(s) THEN i
           ELSE IF s[i + 1] = "backslash" THEN E[i + 2][q]
           ELSE IF s[i + 1] = "quote" THEN E[i + 1][1 - q]
           ELSE IF s[i + 1] = "]" /\ q = 0 THEN i + 1
           ELSE E[i + 1][q]]
  IN E

Element(s, from) == Scanning(s)[from][0]

(***************************************************************************)
(* The outer loop: Elements(s)[i] is where it ends from i on.              *)
(***************************************************************************)
Elements(s) ==
  LET C[i \in 0 .. Len(s) + 1] == IF i < Len(s) /\ s[i + 1] = "[" THEN C[Element(s, i + 1)] ELSE i
  IN C

Cursor(s) == Elements(s)[0]

(***************************************************************************)
(* splitStructuredData.  A backslash at the very end moves the cursor past *)
(* the text, and slicing there panics.                                     *)
(***************************************************************************)
SplitStructuredData(s) ==
  LET i == Cursor(s) IN
  IF StartsWith(s, <<"-", " ">>) THEN [sd |-> <<>>, msg |-> From(s, 3), panics |-> FALSE]
  ELSE IF s = <<"-">> THEN [sd |-> <<>>, msg |-> <<>>, panics |-> FALSE]
  ELSE IF ~StartsWith(s, <<"[">>) THEN [sd |-> <<>>, msg |-> s, panics |-> FALSE]
  ELSE IF i > Len(s) THEN [sd |-> <<>>, msg |-> <<>>, panics |-> TRUE]
  ELSE [sd |-> SubSeq(s, 1, i), msg |-> TrimPrefix(From(s, i + 1), " "), panics |-> FALSE]

-----------------------------------------------------------------------------
(***************************************************************************)
(* Parse: the priority, then the format.  The message is what the line is  *)
(* split into; its time, facility and severity are left out.               *)
(***************************************************************************)
Number(s) ==
  LET digits == IF s # <<>> /\ Head(s) \in {"-", "+"} THEN Tail(s) ELSE s
      N[k \in 0 .. Len(digits)] == IF k = 0 THEN 0 ELSE 10 * N[k - 1] + Value[digits[k]]
  IN IF digits = <<>> \/ \E i \in DOMAIN digits : digits[i] \notin Digit THEN -1
     ELSE IF Head(s) = "-" THEN -N[Len(digits)] ELSE N[Len(digits)]

IsRFC5424(rest) ==
  LET sp == IndexOf(rest, " ") IN
  sp \in {2, 3} /\ \A i \in 1 .. sp - 1 : rest[i] \in Digit

Failed == [format |-> "error"]

ParseRFC5424(rest) ==
  LET f == SplitNSpaceFields(From(rest, IndexOf(rest, " ") + 1), 5)
      d == SplitStructuredData(f.tail)
  IN IF ~f.ok THEN Failed
     ELSE [format |-> "rfc5424", host |-> NilDash(f.fields[2]), app |-> NilDash(f.fields[3]),
           proc |-> NilDash(f.fields[4]), msgID |-> NilDash(f.fields[5]), sd |-> d.sd,
           text |-> TrimPrefix(d.msg, "BOM"), panics |-> d.panics]

(***************************************************************************)
(* parseRFC3164: time, host, tag with an optional process id, text.  (That *)
(* a tag is shorter than 64 characters is left out.)                       *)
(***************************************************************************)
ParseRFC3164(rest0) ==
  LET rest  == TrimLeft(rest0, " ")
      r     == TrimLeft(From(rest, 2), " ")
      sp    == IndexOf(r, " ")
      host  == IF sp > 1 THEN SubSeq(r, 1, sp - 1) ELSE <<>>
      body  == IF sp > 1 THEN From(r, sp + 1) ELSE r
      colon == IndexOf(body, ":")
      tag   == SubSeq(body, 1, colon - 1)
      lb    == IndexOf(tag, "[")
      pid   == lb > 1 /\ tag[Len(tag)] = "]"
      plain == [format |-> "rfc3164", host |-> host, app |-> <<>>, proc |-> <<>>, sd |-> <<>>,
                text |-> body, panics |-> FALSE]
  IN IF ~StartsWith(rest, <<"stamp">>)
     THEN [plain EXCEPT !.format = "unstructured", !.host = <<>>, !.text = rest]
     ELSE IF colon <= 1 THEN plain
     ELSE [plain EXCEPT !.app  = IF pid THEN SubSeq(tag, 1, lb - 1) ELSE tag,
                        !.proc = IF pid THEN SubSeq(tag, lb + 1, Len(tag) - 1) ELSE <<>>,
                        !.text = TrimPrefix(From(body, colon + 1), " ")]

Parse(raw0) ==
  LET raw == TrimPrefix(raw0, "BOM")
      end == IndexOf(raw, ">")
      pri == Number(SubSeq(raw, 2, end - 1))
      rest == From(raw, end + 1)
  IN CASE raw = <<>> \/ Head(raw) # "<" ->
            [format |-> "unstructured", host |-> <<>>, app |-> <<>>, proc |-> <<>>, sd |-> <<>>,
             text |-> raw, panics |-> FALSE]
       [] raw # <<>> /\ Head(raw) = "<" ->
            IF end \notin 2 .. 5 \/ pri \notin 0 .. 191 THEN Failed
            ELSE IF IsRFC5424(rest) THEN ParseRFC5424(rest) ELSE ParseRFC3164(rest)

-----------------------------------------------------------------------------
(***************************************************************************)
(* Reference for structured data, by counting: a character is escaped when *)
(* an odd run of backslashes precedes it, and quoted when an odd number of *)
(* unescaped quotes does; an element ends at its first bracket that is     *)
(* neither, or with the text.                                              *)
(***************************************************************************)
Escaped(s, from, k) ==
  \E j \in from .. k : /\ (k - j) % 2 = 1
                       /\ \A i \in j .. k - 1 : s[i] = "backslash"
                       /\ j = from \/ s[j - 1] # "backslash"
QuotesBefore(s, from, k) ==
  {i \in from .. k - 1 : s[i] = "quote" /\ ~Escaped(s, from, i)}
Closing(s, from) ==
  {k \in from .. Len(s) : /\ s[k] = "]" /\ ~Escaped(s, from, k)
                          /\ Cardinality(QuotesBefore(s, from, k)) % 2 = 0}
ElementEnd(s, from) == IF Closing(s, from) = {} THEN Len(s) ELSE Least(Closing(s, from))

DataEnds(s) ==
  LET D[i \in 0 .. Len(s)] == IF i < Len(s) /\ s[i + 1] = "[" THEN D[ElementEnd(s, i + 2)] ELSE i
  IN D

DataEnd(s) == DataEnds(s)[0]
=============================================================================
