---------------------------- MODULE MCFileDoors ----------------------------
\* The two doors, and the window's table of what the SFTP door publishes:
\* a behaviour is one of either, so that their states do not multiply.
EXTENDS FileDoors, TransferTable

CONSTANT ann

VARIABLE checked

Account(r)                  == [name |-> ann, rights |-> r]
Section(us, a, allow, deny) == [users |-> us, anon |-> a, allow |-> allow, deny |-> deny]

\* An account that may read, append and change modes, and one that may do
\* everything else, in a section that denies FTP its client.
MCConfig == {Section(<<Account({"r", "a", "M"})>>, TRUE, {}, {}),
             Section(<<Account({"w", "d", "f", "m"})>>, FALSE, Session, FtpSession)}

\* One name, two entries: the first is the older and may do more.
MCTwice  == {Section(<<Account({"r", "w"}), Account({"r"})>>, FALSE, {}, {})}

MCInit == Init /\ TableInit /\ checked \in {"doors", "table"}
MCNext ==
  /\ UNCHANGED checked
  /\ \/ checked = "doors" /\ Next /\ UNCHANGED tableVars
     \/ checked = "table" /\ TableNext /\ UNCHANGED vars
MCSpec == MCInit /\ [][MCNext]_<<vars, tableVars, checked>>
=============================================================================
