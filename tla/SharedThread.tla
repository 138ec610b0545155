---------------------------- MODULE SharedThread ----------------------------
(***************************************************************************)
(* CPluginBackendThread: a plugin whose sessions share one CPluginThread.  *)
(* The operate sends its own pointer with sigNewBackend and                *)
(* sigDeleteBackend; the CManageBackend of the thread keeps the backends   *)
(* in a map from that pointer, which the allocator may give to a later     *)
(* operate.  The template QtEvent generates plugins of this kind.          *)
(***************************************************************************)
EXTENDS Naturals, Sequences, FiniteSets

CONSTANTS
    Operate,   \* sessions, each opened at most once
    Address,   \* the addresses an operate may be allocated at
    Failure,   \* what may fail: "instance", "start"
    Early      \* a session may be opened before the thread has connected its slots

ASSUME AddressAssumption == Address # {} /\ Operate # {}
ASSUME FailureAssumption == Failure \subseteq {"instance", "start"}
ASSUME EarlyAssumption == Early \in BOOLEAN

VARIABLES
    life,      \* the COperate object: "absent", "live", "cleaned", "deleted"
    at,        \* its address
    active,    \* MainWindow::m_Operates
    mainQueue, \* events posted to the operates
    connected, \* CPluginThread::run has connected the slots of CManageBackend
    requests,  \* events posted to the CManageBackend
    backend,   \* CManageBackend::m_Backends, from addresses to sessions
    asked      \* sessions whose sigStop was emitted

vars == <<life, at, active, mainQueue, connected, requests, backend, asked>>

Request(t, o) == [type |-> t, addr |-> at[o], op |-> o]
Event(t, o) == [type |-> t, op |-> o]

TypeOK ==
    /\ life \in [Operate -> {"absent", "live", "cleaned", "deleted"}]
    /\ at \in [Operate -> Address]
    /\ active \subseteq Operate
    /\ mainQueue \in Seq([type : {"Stop", "Finished", "Delete"}, op : Operate])
    /\ connected \in BOOLEAN
    /\ requests \in Seq([type : {"New", "Delete"}, addr : Address, op : Operate])
    /\ DOMAIN backend \subseteq Address
    /\ \A a \in DOMAIN backend : backend[a] \in Operate
    /\ asked \subseteq Operate

Init ==
    /\ life = [o \in Operate |-> "absent"]
    /\ at \in [Operate -> Address]
    /\ active = {}
    /\ mainQueue = <<>> /\ requests = <<>>
    /\ connected = FALSE
    /\ backend = <<>>
    /\ asked = {}

-----------------------------------------------------------------------------
(* The main thread. *)

(* A signal without a receiver is lost. *)
Send(r) == requests' = IF connected THEN Append(requests, r) ELSE requests

(* CreateOperate, then Start: sigNewBackend.  The allocator gives no object *)
(* the address of another one that lives.                                   *)
Open(o) ==
    /\ life[o] = "absent"
    /\ connected \/ Early
    /\ \A p \in Operate : life[p] \in {"live", "cleaned"} => at[p] # at[o]
    /\ life' = [life EXCEPT ![o] = "live"]
    /\ active' = active \cup {o}
    /\ Send(Request("New", o))
    /\ UNCHANGED <<at, mainQueue, connected, backend, asked>>

(* Mutant: the list still holds an operate that is gone. *)
StopGone(o) ==
    /\ life[o] # "absent"
    /\ Len(requests) < 2 * Cardinality(Operate)
    /\ Send(Request("Delete", o))
    /\ UNCHANGED <<life, at, active, mainQueue, connected, backend, asked>>

(* The user stops the session, as often as he likes: sigDeleteBackend. *)
Stop(o) ==
    /\ o \in active
    /\ Len(requests) < 2 * Cardinality(Operate)    \* bound
    /\ Send(Request("Delete", o))
    /\ UNCHANGED <<life, at, active, mainQueue, connected, backend, asked>>

Take(t) == mainQueue # <<>> /\ Head(mainQueue).type = t

(* slotStop, unless the operate and its events are gone. *)
DeliverStop ==
    /\ Take("Stop")
    /\ mainQueue' = Tail(mainQueue)
    /\ LET o == Head(mainQueue).op IN
         IF life[o] = "deleted" THEN UNCHANGED requests ELSE Send(Request("Delete", o))
    /\ UNCHANGED <<life, at, active, connected, backend, asked>>

(* slotFinished. *)
DeliverFinished ==
    /\ Take("Finished")
    /\ LET o == Head(mainQueue).op IN
         IF o \in active
         THEN /\ active' = active \ {o}
              /\ life' = [life EXCEPT ![o] = "cleaned"]
              /\ mainQueue' = Append(Tail(mainQueue), Event("Delete", o))
         ELSE UNCHANGED <<active, life>> /\ mainQueue' = Tail(mainQueue)
    /\ UNCHANGED <<at, connected, requests, backend, asked>>

(* The deferred delete: the address may be used again. *)
DeliverDelete ==
    /\ Take("Delete")
    /\ life' = [life EXCEPT ![Head(mainQueue).op] = "deleted"]
    /\ mainQueue' = Tail(mainQueue)
    /\ UNCHANGED <<at, active, connected, requests, backend, asked>>

Deliver == DeliverStop \/ DeliverFinished \/ DeliverDelete

-----------------------------------------------------------------------------
(* The shared thread. *)

(* CPluginThread::run *)
Boot ==
    /\ ~connected
    /\ connected' = TRUE
    /\ UNCHANGED <<life, at, active, mainQueue, requests, backend, asked>>

Post(t, o) == mainQueue' = Append(mainQueue, Event(t, o))
Insert(a, o) == backend' = [x \in DOMAIN backend \cup {a} |-> IF x = a THEN o ELSE backend[x]]
Remove(a) == backend' = [x \in DOMAIN backend \ {a} |-> backend[x]]

Serve(t) ==
    /\ requests # <<>> /\ Head(requests).type = t
    /\ requests' = Tail(requests)
    /\ UNCHANGED <<life, at, active, connected>>

(* sigStop, which a backend that did not start does not repeat. *)
StopsItself(o) == Post("Stop", o) /\ asked' = asked \cup {o}

(* Mutant: a backend whose start failed is not entered into the map. *)
NewUnmapped ==
    /\ Serve("New")
    /\ LET o == Head(requests).op IN
         \/ Insert(Head(requests).addr, o) /\ UNCHANGED <<mainQueue, asked>>
         \/ Failure # {} /\ StopsItself(o) /\ UNCHANGED backend

(* Mutant: a start that fails is only logged. *)
NewSilent ==
    /\ Serve("New")
    /\ UNCHANGED <<mainQueue, asked>>
    /\ \/ Insert(Head(requests).addr, Head(requests).op)
       \/ Failure # {} /\ UNCHANGED backend

(* Mutant: the second of two requests to delete reports the end as well. *)
DeleteAlways ==
    /\ Serve("Delete")
    /\ LET a == Head(requests).addr IN
         /\ IF a \in DOMAIN backend THEN Remove(a) ELSE UNCHANGED backend
         /\ Post("Finished", Head(requests).op)
    /\ UNCHANGED asked

(* Mutant: the end is reported before the backend is stopped. *)
DeleteLater ==
    /\ Serve("Delete")
    /\ Post("Finished", Head(requests).op)
    /\ UNCHANGED <<backend, asked>>

(* Mutant: the map is read with operator[], which enters a null pointer. *)
DeleteNull ==
    /\ Serve("Delete")
    /\ LET a == Head(requests).addr IN
         IF a \in DOMAIN backend
         THEN Remove(a) /\ Post("Finished", backend[a])
         ELSE Insert(a, "null") /\ UNCHANGED mainQueue
    /\ UNCHANGED asked

(* slotNewBackend: no backend, one that does not start, or one that runs. *)
SlotNewBackend ==
    /\ Serve("New")
    /\ LET o == Head(requests).op IN
         \/ "instance" \in Failure /\ StopsItself(o) /\ UNCHANGED backend
         \/ "start" \in Failure /\ StopsItself(o) /\ Insert(Head(requests).addr, o)
         \/ Insert(Head(requests).addr, o) /\ UNCHANGED <<mainQueue, asked>>

(* slotDeleteBackend: OnStop of the backend found ends with sigFinished of  *)
(* the operate it was made for.                                             *)
SlotDeleteBackend ==
    /\ Serve("Delete")
    /\ LET a == Head(requests).addr IN
         IF a \in DOMAIN backend
         THEN Remove(a) /\ Post("Finished", backend[a])
         ELSE UNCHANGED <<backend, mainQueue>>
    /\ UNCHANGED asked

(* A backend asks for its end, CBackend::slotTimeOut. *)
EmitStop(a) ==
    /\ a \in DOMAIN backend
    /\ backend[a] \notin asked                   \* bound: once
    /\ StopsItself(backend[a])
    /\ UNCHANGED <<life, at, active, connected, requests, backend>>

Thread == Boot \/ SlotNewBackend \/ SlotDeleteBackend

-----------------------------------------------------------------------------
Next == \/ \E o \in Operate : Open(o) \/ Stop(o)
        \/ Deliver \/ Thread
        \/ \E a \in Address : EmitStop(a)

Spec == Init /\ [][Next]_vars

(* Both event loops run. *)
FairSpec == Spec /\ WF_vars(Deliver) /\ WF_vars(Thread)

-----------------------------------------------------------------------------
(* Properties. *)

(* Every backend, and every request to make one, is of an operate that      *)
(* lives at the address it is found under.                                  *)
BackendOwnerAlive ==
    /\ \A a \in DOMAIN backend : life[backend[a]] = "live" /\ at[backend[a]] = a
    /\ \A i \in 1 .. Len(requests) :
          requests[i].type = "New" => life[requests[i].op] = "live"

(* A request to delete, however late, never meets the backend of another    *)
(* session that was given the same address.                                 *)
NoStrangerStopped ==
    requests # <<>> /\ Head(requests).type = "Delete"
        /\ Head(requests).addr \in DOMAIN backend
    => backend[Head(requests).addr] = Head(requests).op

(* The end of a session is reported once. *)
FinishedOnce ==
    \A i, j \in 1 .. Len(mainQueue) :
        mainQueue[i] = mainQueue[j] /\ mainQueue[i].type = "Finished" => i = j

Told(o) == \E i \in 1 .. Len(requests) : requests[i].type = "Delete" /\ requests[i].op = o

(* A session that is told to stop is eventually deleted. *)
StopEnds == \A o \in Operate : Told(o) ~> life[o] = "deleted"

(* A session that is opened, and stopped by itself or not, does not hang    *)
(* between: it gets its backend or it ends.                                 *)
OpenServes ==
    \A o \in Operate :
        life[o] = "live" ~> ((\E a \in DOMAIN backend : backend[a] = o) \/ life[o] = "deleted")
=============================================================================
