------------------------------- MODULE IcePipe -------------------------------
(***************************************************************************)
(* What a CChannelIce promises: two ends, each of which comes up once and  *)
(* is over once; while an end is up it writes, and reads what the other    *)
(* end has written, from the first piece on, in order, each piece once.    *)
(***************************************************************************)
EXTENDS Naturals, Sequences

CONSTANTS Ends, Peer(_)

VARIABLES
    status,   \* of each end: "down", "up", "over"
    wrote,    \* number of pieces an end has written: 1, 2, ...
    got       \* the pieces it has read

vars == <<status, wrote, got>>

Written(n) == [i \in 1 .. n |-> i]

Init ==
    /\ status = [e \in Ends |-> "down"]
    /\ wrote = [e \in Ends |-> 0]
    /\ got = [e \in Ends |-> <<>>]

Connect(e) ==
    /\ status[e] = "down"
    /\ status' = [status EXCEPT ![e] = "up"]
    /\ UNCHANGED <<wrote, got>>

Write(e) ==
    /\ status[e] = "up"
    /\ wrote'[e] \in Nat /\ wrote'[e] > wrote[e]
    /\ wrote' = [wrote EXCEPT ![e] = wrote'[e]]
    /\ UNCHANGED <<status, got>>

Read(e) ==
    /\ status[e] = "up"
    /\ \E n \in 1 .. wrote[Peer(e)] :
          n > Len(got[e]) /\ got' = [got EXCEPT ![e] = Written(n)]
    /\ UNCHANGED <<status, wrote>>

(* Ends may go together: those of a process that dies. *)
Over ==
    /\ \E gone \in SUBSET Ends :
          status' = [e \in Ends |-> IF e \in gone THEN "over" ELSE status[e]]
    /\ UNCHANGED <<wrote, got>>

Next == Over \/ \E e \in Ends : Connect(e) \/ Write(e) \/ Read(e)

Spec == Init /\ [][Next]_vars
=============================================================================
