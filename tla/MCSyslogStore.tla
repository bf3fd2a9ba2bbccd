--------------------------- MODULE MCSyslogStore ---------------------------
EXTENDS SyslogStore

MCStore   == 1 .. 2
MCSetting == <<[age |-> 1, gz |-> TRUE], [age |-> 0, gz |-> FALSE]>>
MCMsg     == 1 .. 3
MCSize    == <<1, 2, 1>>
MCFile    == 1 .. 6
=============================================================================
