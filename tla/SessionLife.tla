---------------------------- MODULE SessionLife ----------------------------
(***************************************************************************)
(* What the program promises about a session, without threads or queues:   *)
(* it is configured, opened, shown and discarded in that order, it gets    *)
(* one worker at most, and it is discarded only when the worker has let go *)
(* of it (or when the program ends).                                       *)
(***************************************************************************)
CONSTANT Operate

VARIABLES phase,   \* "none", "configuring", "open", "shown", "gone"
          worker,  \* "idle", "busy", "over"
          up       \* the program runs
vars == <<phase, worker, up>>

Init == /\ phase = [o \in Operate |-> "none"]
        /\ worker = [o \in Operate |-> "idle"]
        /\ up = TRUE

Move(o, from, to) == up /\ phase[o] \in from /\ phase' = [phase EXCEPT ![o] = to]

Configure(o) == Move(o, {"none"}, "configuring") /\ UNCHANGED <<worker, up>>
Reject(o)    == Move(o, {"configuring"}, "gone") /\ UNCHANGED <<worker, up>>

(* An operate without a thread is open or shown at once, or has failed. *)
Open(o) ==
    /\ \E to \in {"open", "shown", "gone"} : Move(o, {"none", "configuring"}, to)
    /\ worker[o] = "idle"
    /\ \/ worker' = [worker EXCEPT ![o] = "busy"] /\ phase'[o] = "open"
       \/ UNCHANGED worker /\ phase'[o] # "open"
    /\ UNCHANGED up

Show(o) == Move(o, {"open"}, "shown") /\ UNCHANGED <<worker, up>>

LetGo(o) == /\ up /\ worker[o] = "busy"
            /\ worker' = [worker EXCEPT ![o] = "over"]
            /\ UNCHANGED <<phase, up>>

Discard(o) == /\ Move(o, {"open", "shown"}, "gone")
              /\ worker[o] # "busy"
              /\ UNCHANGED <<worker, up>>

(* The program ends, by itself or by qFatal; what is left goes with it. *)
End == /\ up /\ up' = FALSE
       /\ \/ UNCHANGED phase
          \/ phase' = [o \in Operate |-> IF phase[o] = "none" THEN "none" ELSE "gone"]
       /\ UNCHANGED worker

Next == \/ End
        \/ \E o \in Operate : \/ Configure(o) \/ Reject(o) \/ Open(o) \/ Show(o)
                              \/ LetGo(o) \/ Discard(o)

Spec == Init /\ [][Next]_vars
=============================================================================
