----------------------------- MODULE MCSession -----------------------------
(* Instances of Session for TLC.                                           *)
EXTENDS Session

CONSTANTS d, t, w   \* a desktop, a file transfer and a direct operate

AllAsk   == [o \in Operate |-> {"Ask", "Stop", "Running"}]
SomeAsk == [o \in Operate |-> IF o = t THEN {"Ask", "Stop"} ELSE {"Ask"}]
StopOnly == [o \in Operate |-> {"Stop"}]
=============================================================================
