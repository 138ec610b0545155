--------------------------- MODULE MCSharedThread ---------------------------
(* Instances of SharedThread for TLC.                                       *)
EXTENDS SharedThread

CONSTANTS o1, o2, a1, a2

NoFailure  == {}
StartFails == {"start"}
AnyFails   == {"instance", "start"}
=============================================================================
