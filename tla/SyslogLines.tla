---------------------------- MODULE SyslogLines ----------------------------
(***************************************************************************)
(* What Server.handleLine (internal/syslogsrv/server.go) makes of a line:  *)
(* the message that Parse splits it into, or nothing.                      *)
(***************************************************************************)
EXTENDS SyslogParse

CONSTANTS
  Token,  \* what lines are made of
  Lines   \* the lines that arrive

ASSUME LineAssumption == Lines \subseteq Seq(Token)

VARIABLES
  line,     \* the line that has arrived
  message,  \* what Parse returns
  parsed

lineVars == <<line, message, parsed>>

LineInit == line \in Lines /\ message = Failed /\ parsed = FALSE

HandleLine ==
  /\ ~parsed
  /\ message' = IF line = <<>> THEN Failed ELSE Parse(line)
  /\ parsed' = TRUE
  /\ UNCHANGED line

LineSpec == LineInit /\ [][HandleLine]_lineVars

-----------------------------------------------------------------------------
EndOf(s, t) == \E i \in 1 .. Len(s) + 1 : t = From(s, i)

(***************************************************************************)
(* A line that Parse accepts is split where the structured data ends,      *)
(* which escaped characters and quoted brackets do not make any earlier;   *)
(* nothing but one space and a BOM is lost between it and the text, and    *)
(* the text is always the end of the line.                                 *)
(***************************************************************************)
ParseSplitsCleanly ==
  parsed /\ message.format # "error" /\ ~message.panics =>
    /\ EndOf(line, message.text)
    /\ message.sd # <<>> => \E gap \in {<<>>, <<" ">>, <<"BOM">>, <<" ", "BOM">>} :
         LET tail == message.sd \o gap \o message.text IN
         EndOf(line, tail) /\ DataEnd(tail) = Len(message.sd)

(***************************************************************************)
(* The comment of splitStructuredData says that it parses elements "(with  *)
(* backslash-escaped '"', '\' and ']' inside quoted param values ...) and  *)
(* returns the raw SD text plus the remaining MSG text": for any text,     *)
(* without a panic.                                                        *)
(***************************************************************************)
ParseReturns == parsed /\ message.format # "error" => ~message.panics
=============================================================================
