------------------------------ MODULE MCTunnel ------------------------------
(* Instances of Tunnel for TLC.                                             *)
EXTENDS Tunnel

AnyOpening == {"ask", "fail", "socket"}
Opens      == {}
=============================================================================
