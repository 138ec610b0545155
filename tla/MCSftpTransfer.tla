--------------------------- MODULE MCSftpTransfer ---------------------------
(* Instances of SftpTransfer for TLC.                                       *)
EXTENDS SftpTransfer

CONSTANTS u, d, s

Sizes     == [t \in Transfer |-> IF t = s THEN 1 ELSE 3]
Stores    == [t \in Transfer |-> IF t = s THEN 0 ELSE 3]
OneSize   == [t \in Transfer |-> 1]
Empty     == [t \in Transfer |-> 0]
None      == {}
SshFails  == {"open", "wait", "begin"}
DiskFails == {"open", "wait", "begin", "write"}
SendFails == {"beginWrite"}
=============================================================================
