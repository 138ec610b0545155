---------------------------- MODULE MCIceChannel ----------------------------
(* Instances of IceChannel for TLC.                                         *)
EXTENDS IceChannel

CONSTANTS c1, c2, u1, u2

MCCalls  == {c1, c2}
OneCall  == {c1}
MCUsers  == {u1, u2}
OneUser  == {u1}
=============================================================================
