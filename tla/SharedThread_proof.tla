------------------------- MODULE SharedThread_proof -------------------------
(***************************************************************************)
(* Proofs about SharedThread, for any sessions, addresses and failures.    *)
(***************************************************************************)
EXTENDS SharedThread, TLAPS

Events   == [type : {"Stop", "Finished", "Delete"}, op : Operate]
Requests == [type : {"New", "Delete"}, addr : Address, op : Operate]

(* The allocator: two operates that are not deleted are at two addresses. *)
Apart == \A o, p \in Operate :
    life[o] \in {"live", "cleaned"} /\ life[p] \in {"live", "cleaned"} /\ at[o] = at[p] => o = p

(* What is queued for the main thread is about a session that was opened;  *)
(* sigFinished is queued once, Delete only after it was handled.           *)
MainSound ==
    /\ \A o \in active : life[o] = "live"
    /\ \A i \in 1 .. Len(mainQueue) :
          /\ life[mainQueue[i].op] # "absent"
          /\ mainQueue[i].type = "Delete" => life[mainQueue[i].op] # "live"
          /\ mainQueue[i].type = "Finished" =>
                \A j \in 1 .. Len(mainQueue) :
                   mainQueue[j].type = "Finished" /\ mainQueue[j].op = mainQueue[i].op => j = i

(* A request carries the address of its operate; one to make a backend is  *)
(* made once, of a live operate that has no backend yet.                   *)
RequestSound ==
    \A i \in 1 .. Len(requests) :
        /\ requests[i].addr = at[requests[i].op]
        /\ requests[i].type = "New" =>
              /\ life[requests[i].op] = "live"
              /\ \A a \in DOMAIN backend : backend[a] # requests[i].op
              /\ \A j \in 1 .. Len(requests) :
                    requests[j].type = "New" /\ requests[j].op = requests[i].op => j = i

(* A backend is of the live operate at its address. *)
BackendSound ==
    \A a \in DOMAIN backend : life[backend[a]] = "live" /\ at[backend[a]] = a

(* After sigFinished a session has neither a backend nor a request for one. *)
Serving == {backend[a] : a \in DOMAIN backend} \cup
           {requests[i].op : i \in {j \in 1 .. Len(requests) : requests[j].type = "New"}}

EndSound ==
    \A i \in 1 .. Len(mainQueue) : mainQueue[i].type = "Finished" => mainQueue[i].op \notin Serving

(* A request to delete finds, where it is in the queue, its own backend: the *)
(* backends now in the map and those made before it are served.              *)
DeleteSound ==
    \A i \in 1 .. Len(requests) : requests[i].type = "Delete" =>
        /\ requests[i].addr \in DOMAIN backend => backend[requests[i].addr] = requests[i].op
        /\ \A j \in 1 .. i - 1 : requests[j].type = "New" /\ requests[j].addr = requests[i].addr
                                    => requests[j].op = requests[i].op

Sound == Apart /\ MainSound /\ RequestSound /\ BackendSound /\ EndSound /\ DeleteSound

IInv == TypeOK /\ Sound

(***************************************************************************)
(* Every step keeps the invariant: first the types, then the facts, one    *)
(* step per action.                                                        *)
(***************************************************************************)
(* What a step does to a queue: where each element was, or what it is. *)
LEMMA Queues ==
    ASSUME NEW S, NEW q \in Seq(S)
    PROVE  /\ Len(q) \in Nat
           /\ \A i \in 1 .. Len(q) : q[i] \in S
           /\ \A e \in S : /\ Append(q, e) \in Seq(S)
                           /\ Len(Append(q, e)) = Len(q) + 1
                           /\ Append(q, e)[Len(q) + 1] = e
                           /\ \A i \in 1 .. Len(q) : Append(q, e)[i] = q[i]
           /\ q # <<>> => /\ Len(Tail(q)) = Len(q) - 1 /\ Len(Tail(q)) \in Nat
                          /\ Tail(q) \in Seq(S) /\ Head(q) \in S
                          /\ Head(q) = q[1] /\ 1 \in 1 .. Len(q)
                          /\ \A i \in 1 .. Len(Tail(q)) : Tail(q)[i] = q[i + 1]
  OBVIOUS

(* TypeOK, with the types of the queues named. *)
LEMMA Typed ==
    /\ TypeOK <=> /\ life \in [Operate -> {"absent", "live", "cleaned", "deleted"}]
                  /\ at \in [Operate -> Address]
                  /\ active \subseteq Operate
                  /\ mainQueue \in Seq(Events)
                  /\ connected \in BOOLEAN
                  /\ requests \in Seq(Requests)
                  /\ DOMAIN backend \subseteq Address
                  /\ \A a \in DOMAIN backend : backend[a] \in Operate
                  /\ asked \subseteq Operate
    /\ \A e \in Events : e.op \in Operate
    /\ \A r \in Requests : r.op \in Operate /\ r.addr \in Address
    /\ \A t \in {"Stop", "Finished", "Delete"}, o \in Operate :
          Event(t, o) \in Events /\ Event(t, o).type = t /\ Event(t, o).op = o
    /\ TypeOK => \A t \in {"New", "Delete"}, o \in Operate :
          LET r == Request(t, o)
          IN  r \in Requests /\ r.type = t /\ r.op = o /\ r.addr = at[o]
  BY DEF TypeOK, Events, Requests, Event, Request

(* A backend in the map, and a request to make one, is of an operate that   *)
(* lives at the address it is found under; a request to delete, however     *)
(* late, never meets the backend of another session that was given the same *)
(* address; and the end of a session is reported once.                      *)
THEOREM SharedSafe ==
    Spec => [](TypeOK /\ BackendOwnerAlive /\ NoStrangerStopped /\ FinishedOnce)
  (* What the map and the two queues hold agrees with the operates. *)
  <1>1. Init => IInv
    <2> SUFFICES ASSUME Init PROVE IInv
      OBVIOUS
    <2>1. Len(mainQueue) = 0 /\ Len(requests) = 0 /\ DOMAIN backend = {}
      BY DEF Init
    <2>2. TypeOK
      <3>1. mainQueue \in Seq(Events) /\ requests \in Seq(Requests)
        BY DEF Init
      <3> QED  BY <2>1, <3>1, Typed DEF Init
    <2> QED  BY <2>1, <2>2 DEF Init, IInv, Sound, Apart, MainSound, RequestSound, BackendSound,
                               EndSound, DeleteSound
  <1>5. IInv /\ [Next]_vars => IInv'
    <2> SUFFICES ASSUME IInv, [Next]_vars PROVE IInv'
      OBVIOUS
    <2>t. /\ TypeOK /\ TypeOK'
          /\ Apart /\ MainSound /\ RequestSound /\ BackendSound /\ EndSound /\ DeleteSound
      <3>1. ASSUME TypeOK PROVE TypeOK'
        <4> USE <3>1
        <4>1. /\ life \in [Operate -> {"absent", "live", "cleaned", "deleted"}]
              /\ at \in [Operate -> Address]
              /\ active \subseteq Operate /\ asked \subseteq Operate
              /\ mainQueue \in Seq(Events) /\ requests \in Seq(Requests)
              /\ connected \in BOOLEAN
              /\ DOMAIN backend \subseteq Address
              /\ \A a \in DOMAIN backend : backend[a] \in Operate
          BY Typed
        <4>g. ASSUME life' \in [Operate -> {"absent", "live", "cleaned", "deleted"}],
                     at' \in [Operate -> Address], active' \subseteq Operate,
                     mainQueue' \in Seq(Events), connected' \in BOOLEAN, requests' \in Seq(Requests),
                     DOMAIN backend' \subseteq Address, \A a \in DOMAIN backend' : backend'[a] \in Operate,
                     asked' \subseteq Operate
              PROVE  TypeOK'
          BY <4>g DEF TypeOK, Events, Requests
        <4>2. \A t \in {"Stop", "Finished", "Delete"}, o \in Operate :
                 /\ Append(mainQueue, Event(t, o)) \in Seq(Events)
                 /\ mainQueue # <<>> => Append(Tail(mainQueue), Event(t, o)) \in Seq(Events)
          BY <4>1, Typed, Queues
        <4>3. \A t \in {"New", "Delete"}, o \in Operate :
                 Send(Request(t, o)) => requests' \in Seq(Requests)
          BY <4>1, Typed, Queues DEF Send
        <4>h. /\ mainQueue # <<>> => Tail(mainQueue) \in Seq(Events) /\ Head(mainQueue).op \in Operate
              /\ requests # <<>> => /\ Tail(requests) \in Seq(Requests)
                                    /\ Head(requests).op \in Operate /\ Head(requests).addr \in Address
          BY <4>1, Typed, Queues
        <4>4. ASSUME NEW o \in Operate, Open(o) \/ Stop(o) PROVE TypeOK'
          BY <4>1, <4>3, <4>4, <4>g DEF Open, Stop
        <4>5. CASE Deliver
          <5>1. CASE DeliverStop
            <6>1. requests' \in Seq(Requests)
              BY <4>1, <4>3, <4>h, <5>1 DEF DeliverStop, Take
            <6> QED  BY <4>1, <4>g, <4>h, <5>1, <6>1 DEF DeliverStop, Take
          <5>2. CASE DeliverFinished
            <6>1. mainQueue' \in Seq(Events)
              BY <4>2, <4>h, <5>2 DEF DeliverFinished, Take
            <6> QED  BY <4>1, <4>g, <5>2, <6>1 DEF DeliverFinished
          <5>3. CASE DeliverDelete
            BY <4>1, <4>g, <4>h, <5>3 DEF DeliverDelete, Take
          <5> QED  BY <4>5, <5>1, <5>2, <5>3 DEF Deliver
        <4>6. CASE Boot
          BY <4>1, <4>6, <4>g DEF Boot
        <4>7. ASSUME NEW o \in Operate, NEW a \in Address, Insert(a, o)
              PROVE  DOMAIN backend' \subseteq Address /\ \A b \in DOMAIN backend' : backend'[b] \in Operate
          BY <4>1, <4>7 DEF Insert
        <4>8. CASE SlotNewBackend
          <5>1. /\ requests # <<>> /\ requests' = Tail(requests)
                /\ UNCHANGED <<life, at, active, connected>>
            BY <4>8 DEF SlotNewBackend, Serve
          <5>2. PICK o \in Operate, a \in Address : o = Head(requests).op /\ a = Head(requests).addr
            BY <4>h, <5>1
          <5>3. /\ mainQueue' = Append(mainQueue, Event("Stop", o)) \/ mainQueue' = mainQueue
                /\ asked' = asked \cup {o} \/ asked' = asked
                /\ Insert(a, o) \/ backend' = backend
            BY <4>8, <5>2 DEF SlotNewBackend, StopsItself, Post
          <5>4. mainQueue' \in Seq(Events) /\ asked' \subseteq Operate
            BY <4>1, <4>2, <5>3
          <5>5. DOMAIN backend' \subseteq Address /\ \A b \in DOMAIN backend' : backend'[b] \in Operate
            BY <4>1, <4>7, <5>3
          <5> QED  BY <4>1, <4>g, <4>h, <5>1, <5>4, <5>5
        <4>9. CASE SlotDeleteBackend
          <5>1. /\ requests # <<>> /\ requests' = Tail(requests)
                /\ UNCHANGED <<life, at, active, connected, asked>>
            BY <4>9 DEF SlotDeleteBackend, Serve
          <5>2. \/ \E a \in DOMAIN backend : Remove(a) /\ Post("Finished", backend[a])
                \/ UNCHANGED <<backend, mainQueue>>
            BY <4>9 DEF SlotDeleteBackend
          <5>3. mainQueue' \in Seq(Events)
            BY <4>1, <4>2, <5>2 DEF Post
          <5>4. DOMAIN backend' \subseteq Address /\ \A b \in DOMAIN backend' : backend'[b] \in Operate
            BY <4>1, <5>2 DEF Remove
          <5> QED  BY <4>1, <4>g, <4>h, <5>1, <5>3, <5>4
        <4>10. ASSUME NEW a \in Address, EmitStop(a) PROVE TypeOK'
          <5>1. mainQueue' \in Seq(Events) /\ asked' \subseteq Operate
            BY <4>1, <4>2, <4>10 DEF EmitStop, StopsItself, Post
          <5> QED  BY <4>1, <4>10, <4>g, <5>1 DEF EmitStop
        <4>11. CASE UNCHANGED vars
          BY <4>11 DEF vars, TypeOK
        <4> QED  BY <4>4, <4>5, <4>6, <4>8, <4>9, <4>10, <4>11 DEF Next, Thread
      <3> QED  BY <3>1 DEF IInv, Sound
    <2>1. /\ life \in [Operate -> {"absent", "live", "cleaned", "deleted"}]
          /\ at \in [Operate -> Address] /\ active \subseteq Operate
          /\ mainQueue \in Seq(Events) /\ requests \in Seq(Requests)
          /\ mainQueue' \in Seq(Events) /\ requests' \in Seq(Requests)
          /\ \A a \in DOMAIN backend : backend[a] \in Operate
          /\ \A i \in 1 .. Len(mainQueue) : mainQueue[i].op \in Operate
          /\ \A i \in 1 .. Len(mainQueue') : mainQueue'[i].op \in Operate
          /\ \A i \in 1 .. Len(requests) : requests[i].op \in Operate
          /\ \A i \in 1 .. Len(requests') : requests'[i].op \in Operate
          /\ Len(mainQueue) \in Nat /\ Len(requests) \in Nat
          /\ Len(mainQueue') \in Nat /\ Len(requests') \in Nat
      <3>1. /\ mainQueue \in Seq(Events) /\ requests \in Seq(Requests)
            /\ mainQueue' \in Seq(Events) /\ requests' \in Seq(Requests)
        BY <2>t DEF TypeOK, Events, Requests
      <3>2. /\ \A i \in 1 .. Len(mainQueue) : mainQueue[i] \in Events
            /\ \A i \in 1 .. Len(mainQueue') : mainQueue'[i] \in Events
            /\ \A i \in 1 .. Len(requests) : requests[i] \in Requests
            /\ \A i \in 1 .. Len(requests') : requests'[i] \in Requests
        BY <3>1
      <3> QED  BY <2>t, <3>1, <3>2, Typed
    <2>2. \A x \in Serving : life[x] = "live" /\ x \in Operate
      BY <2>1, <2>t DEF Serving, BackendSound, RequestSound
    (* The main thread's queue after a step that reports no end: the events,   *)
    (* moved up by k, and none or one that is sound.                           *)
    <2>3. ASSUME NEW k \in {0, 1},
                 \A i \in 1 .. Len(mainQueue') :
                    \/ i + k \in 1 .. Len(mainQueue) /\ mainQueue'[i] = mainQueue[i + k]
                    \/ /\ mainQueue'[i].type # "Finished" /\ life'[mainQueue'[i].op] # "absent"
                       /\ mainQueue'[i].type = "Delete" => life'[mainQueue'[i].op] # "live",
                 \A x \in Operate : /\ life[x] # "absent" => life'[x] # "absent"
                                    /\ life[x] \in {"cleaned", "deleted"} => life'[x] # "live",
                 \A x \in active' : life'[x] = "live",
                 \A x \in Serving' : x \in Serving \/ life[x] = "absent"
          PROVE  MainSound' /\ EndSound'
      <3>1. \A i \in 1 .. Len(mainQueue') : mainQueue'[i].type = "Finished" =>
               i + k \in 1 .. Len(mainQueue) /\ mainQueue'[i] = mainQueue[i + k]
        BY <2>3
      <3>2. EndSound'
        BY <2>3, <2>t, <3>1 DEF EndSound, MainSound
      <3>3. ASSUME NEW i \in 1 .. Len(mainQueue')
            PROVE  /\ life'[mainQueue'[i].op] # "absent"
                   /\ mainQueue'[i].type = "Delete" => life'[mainQueue'[i].op] # "live"
        BY <2>1, <2>3, <2>t DEF MainSound
      <3>4. ASSUME NEW i \in 1 .. Len(mainQueue'), NEW j \in 1 .. Len(mainQueue'),
                   mainQueue'[i].type = "Finished", mainQueue'[j].type = "Finished",
                   mainQueue'[j].op = mainQueue'[i].op
            PROVE  j = i
        <4>1. j + k = i + k
          BY <2>t, <3>1, <3>4 DEF MainSound
        <4> QED  BY <4>1
      <3> QED  BY <2>3, <3>2, <3>3, <3>4 DEF MainSound
    (* The same queue with Event(t, o) at its end, or as it was, or without its head. *)
    <2>4. ASSUME mainQueue' = mainQueue
          PROVE  \A i \in 1 .. Len(mainQueue') : i + 0 \in 1 .. Len(mainQueue) /\ mainQueue'[i] = mainQueue[i + 0]
      BY <2>1, <2>4
    <2>5. ASSUME mainQueue # <<>>, mainQueue' = Tail(mainQueue)
          PROVE  \A i \in 1 .. Len(mainQueue') : i + 1 \in 1 .. Len(mainQueue) /\ mainQueue'[i] = mainQueue[i + 1]
      BY <2>1, <2>5, Queues
    <2>6. ASSUME NEW t \in {"Stop", "Finished", "Delete"}, NEW o \in Operate,
                 mainQueue' = Append(mainQueue, Event(t, o))
          PROVE  /\ Len(mainQueue') = Len(mainQueue) + 1
                 /\ mainQueue'[Len(mainQueue) + 1] = Event(t, o)
                 /\ \A i \in 1 .. Len(mainQueue') :
                       \/ i \in 1 .. Len(mainQueue) /\ mainQueue'[i] = mainQueue[i]
                       \/ i = Len(mainQueue) + 1
      BY <2>1, <2>6, Queues, Typed
    (* COperate::Stop of an operate that lives: its request goes to the end. *)
    <2>7. ASSUME NEW o \in Operate, life[o] \in {"live", "cleaned"}, Send(Request("Delete", o)),
                 UNCHANGED <<life, at, backend>>
          PROVE  /\ Apart' /\ BackendSound' /\ RequestSound' /\ DeleteSound'
                 /\ Serving' \subseteq Serving
      <3> DEFINE r == Request("Delete", o)
                 n == Len(requests) + 1
      <3>1. Apart' /\ BackendSound'
        BY <2>7, <2>t DEF Apart, BackendSound
      <3>2. CASE requests' = requests
        BY <2>7, <2>t, <3>1, <3>2 DEF RequestSound, DeleteSound, Serving
      <3>3. CASE requests' = Append(requests, r)
        <4>1. /\ Len(requests') = n /\ requests'[n] = r
              /\ \A i \in 1 .. Len(requests) : requests'[i] = requests[i]
              /\ r.type = "Delete" /\ r.op = o /\ r.addr = at[o]
          BY <2>1, <2>t, <3>3, Queues, Typed
        <4>2. \A i \in 1 .. Len(requests') : i \in 1 .. Len(requests) \/ i = n
          BY <2>1, <4>1
        <4>3. RequestSound'
          BY <2>7, <2>t, <4>1, <4>2 DEF RequestSound
        <4>4. Serving' \subseteq Serving
          BY <2>7, <4>1, <4>2 DEF Serving
        <4>5. ASSUME NEW i \in 1 .. Len(requests'), requests'[i].type = "Delete"
              PROVE  /\ requests'[i].addr \in DOMAIN backend
                           => backend[requests'[i].addr] = requests'[i].op
                     /\ \A j \in 1 .. i - 1 : requests'[j].type = "New" /\ requests'[j].addr = requests'[i].addr
                                                 => requests'[j].op = requests'[i].op
          <5>1. CASE i \in 1 .. Len(requests)
            <6>1. \A j \in 1 .. i - 1 : j \in 1 .. Len(requests)
              BY <2>1, <5>1
            <6> QED  BY <2>t, <4>1, <4>5, <5>1, <6>1 DEF DeleteSound
          <5>2. CASE i = n
            <6>1. \A j \in 1 .. i - 1 : j \in 1 .. Len(requests)
              BY <2>1, <5>2
            <6>2. \A j \in 1 .. i - 1 : requests'[j].type = "New" /\ requests'[j].addr = at[o]
                                          => requests'[j].op = o
              <7> SUFFICES ASSUME NEW j \in 1 .. Len(requests), requests[j].type = "New",
                                  requests[j].addr = at[o]
                           PROVE  requests[j].op = o
                BY <4>1, <6>1
              <7>1. life[requests[j].op] = "live" /\ at[requests[j].op] = at[o]
                BY <2>t DEF RequestSound
              <7> QED  BY <2>1, <2>7, <2>t, <7>1 DEF Apart
            <6>3. at[o] \in DOMAIN backend => backend[at[o]] = o
              BY <2>1, <2>7, <2>t DEF BackendSound, Apart
            <6> QED  BY <4>1, <5>2, <6>2, <6>3
          <5> QED  BY <4>2, <5>1, <5>2
        <4>6. DeleteSound'
          BY <2>7, <4>5 DEF DeleteSound
        <4> QED  BY <3>1, <4>3, <4>4, <4>6
      <3> QED  BY <2>7, <3>2, <3>3 DEF Send
    <2>8. ASSUME NEW o \in Operate, Open(o) PROVE Sound'
      <3> DEFINE r == Request("New", o)
                 n == Len(requests) + 1
      <3>1. /\ life[o] = "absent" /\ life'[o] = "live" /\ active' = active \cup {o}
            /\ \A x \in Operate : x # o => life'[x] = life[x]
            /\ \A p \in Operate : life[p] \in {"live", "cleaned"} => at[p] # at[o]
            /\ UNCHANGED <<at, mainQueue, backend>>
            /\ requests' = requests \/ requests' = Append(requests, r)
        BY <2>1, <2>8 DEF Open, Send
      <3>2. Apart'
        BY <2>t, <3>1 DEF Apart
      <3>3. BackendSound' /\ o \notin Serving
        BY <2>1, <2>2, <2>t, <3>1 DEF BackendSound
      <3>4. \A x \in active' : life'[x] = "live"
        BY <2>1, <2>t, <3>1 DEF MainSound
      <3>5. /\ Serving' \subseteq Serving \cup {o} /\ RequestSound' /\ DeleteSound'
        <4>1. CASE requests' = requests
          BY <2>1, <2>t, <3>1, <4>1 DEF Serving, RequestSound, DeleteSound
        <4>2. CASE requests' = Append(requests, r)
          <5>1. /\ Len(requests') = n /\ requests'[n] = r
                /\ \A i \in 1 .. Len(requests) : requests'[i] = requests[i]
                /\ r.type = "New" /\ r.op = o /\ r.addr = at[o]
            BY <2>1, <2>t, <4>2, Queues, Typed
          <5>2. \A i \in 1 .. Len(requests') : i \in 1 .. Len(requests) \/ i = n
            BY <2>1, <5>1
          <5>3. Serving' \subseteq Serving \cup {o}
            BY <3>1, <5>1, <5>2 DEF Serving
          <5>4. /\ \A a \in DOMAIN backend : backend[a] # o
                /\ \A i \in 1 .. Len(requests) : requests[i].type = "New" => requests[i].op # o
            BY <3>3 DEF Serving
          <5>5. RequestSound'
            BY <2>1, <2>t, <3>1, <5>1, <5>2, <5>4, SMTT(30) DEF RequestSound
          <5>6. ASSUME NEW i \in 1 .. Len(requests'), requests'[i].type = "Delete"
                PROVE  i \in 1 .. Len(requests) /\ \A j \in 1 .. i - 1 : j \in 1 .. Len(requests)
            BY <2>1, <5>1, <5>2, <5>6
          <5>7. DeleteSound'
            BY <2>t, <3>1, <5>1, <5>6 DEF DeleteSound
          <5> QED  BY <5>3, <5>5, <5>7
        <4> QED  BY <3>1, <4>1, <4>2
      <3>6. MainSound' /\ EndSound'
        BY <2>2, <2>3, <2>4, <3>1, <3>4, <3>5
      <3> QED  BY <3>2, <3>3, <3>5, <3>6 DEF Sound
    <2>9. ASSUME NEW o \in Operate, Stop(o) PROVE Sound'
      <3>1. /\ o \in active /\ Send(Request("Delete", o))
            /\ UNCHANGED <<life, at, active, mainQueue, backend>>
        BY <2>9 DEF Stop
      <3>2. life[o] = "live"
        BY <2>t, <3>1 DEF MainSound
      <3>3. MainSound' /\ EndSound'
        BY <2>3, <2>4, <2>7, <2>t, <3>1, <3>2 DEF MainSound
      <3> QED  BY <2>7, <3>1, <3>2, <3>3 DEF Sound
    <2>10. CASE DeliverStop
      <3>1. /\ mainQueue # <<>> /\ mainQueue' = Tail(mainQueue)
            /\ UNCHANGED <<life, at, active, backend>>
        BY <2>10 DEF DeliverStop, Take
      <3>2. PICK o \in Operate : o = Head(mainQueue).op /\ life[o] # "absent"
        BY <2>1, <2>t, <3>1, Queues DEF MainSound
      <3>3. requests' = requests \/ (life[o] \in {"live", "cleaned"} /\ Send(Request("Delete", o)))
        BY <2>1, <2>10, <3>2 DEF DeliverStop
      <3>4. Apart' /\ BackendSound' /\ RequestSound' /\ DeleteSound' /\ Serving' \subseteq Serving
        <4>1. CASE requests' = requests
          BY <2>t, <3>1, <4>1 DEF Apart, BackendSound, RequestSound, DeleteSound, Serving
        <4> QED  BY <2>7, <3>1, <3>3, <4>1
      <3>5. MainSound' /\ EndSound'
        BY <2>3, <2>5, <2>t, <3>1, <3>4 DEF MainSound
      <3> QED  BY <2>t, <3>4, <3>5 DEF IInv, Sound
    <2>11. CASE DeliverFinished
      <3>1. /\ mainQueue # <<>> /\ UNCHANGED <<at, requests, backend>>
            /\ Head(mainQueue) = mainQueue[1] /\ mainQueue[1].type = "Finished"
            /\ 1 \in 1 .. Len(mainQueue)
        BY <2>1, <2>11, Queues DEF DeliverFinished, Take
      <3>2. PICK o \in Operate : o = Head(mainQueue).op /\ o \notin Serving
        BY <2>1, <2>t, <3>1 DEF EndSound
      <3>3. CASE o \notin active
        <4>1. UNCHANGED <<active, life>> /\ mainQueue' = Tail(mainQueue)
          BY <2>11, <3>2, <3>3 DEF DeliverFinished
        <4>2. Apart' /\ BackendSound' /\ RequestSound' /\ DeleteSound' /\ Serving' = Serving
          BY <2>t, <3>1, <4>1 DEF Apart, BackendSound, RequestSound, DeleteSound, Serving
        <4>3. MainSound' /\ EndSound'
          BY <2>3, <2>5, <2>t, <3>1, <4>1, <4>2 DEF MainSound
        <4> QED  BY <2>t, <4>2, <4>3 DEF IInv, Sound
      <3>4. CASE o \in active
        <4> DEFINE e == Event("Delete", o)
                   q == Tail(mainQueue)
        <4>1. /\ active' = active \ {o} /\ life[o] = "live" /\ life'[o] = "cleaned"
              /\ \A x \in Operate : x # o => life'[x] = life[x]
              /\ mainQueue' = Append(q, e)
          BY <2>1, <2>11, <2>t, <3>2, <3>4 DEF DeliverFinished, MainSound
        <4>2. Apart'
          BY <2>t, <3>1, <4>1 DEF Apart
        <4>3. /\ \A a \in DOMAIN backend : backend[a] # o
              /\ \A i \in 1 .. Len(requests) : requests[i].type = "New" => requests[i].op # o
          BY <3>2 DEF Serving
        <4>4. BackendSound'
          BY <2>1, <2>t, <3>1, <4>1, <4>3 DEF BackendSound
        <4>5. RequestSound'
          BY <2>1, <2>t, <3>1, <4>1, <4>3 DEF RequestSound
        <4>6. DeleteSound' /\ Serving' = Serving
          BY <2>t, <3>1 DEF DeleteSound, Serving
        <4>7. \A i \in 1 .. Len(mainQueue') :
                    \/ i + 1 \in 1 .. Len(mainQueue) /\ mainQueue'[i] = mainQueue[i + 1]
                    \/ mainQueue'[i] = e
          <5>1. /\ q \in Seq(Events) /\ Len(q) = Len(mainQueue) - 1 /\ Len(q) \in Nat
                /\ \A i \in 1 .. Len(q) : q[i] = mainQueue[i + 1]
            BY <2>1, <3>1, Queues
          <5>2. PICK n \in Nat : n = Len(q) /\ n = Len(mainQueue) - 1
            BY <5>1
          <5>3. /\ Len(mainQueue') = n + 1 /\ mainQueue'[n + 1] = e
                /\ \A i \in 1 .. n : mainQueue'[i] = mainQueue[i + 1]
            BY <4>1, <5>1, <5>2, Queues, Typed
          <5> QED  BY <2>1, <5>2, <5>3
        <4>8. e.type = "Delete" /\ e.op = o
          BY Typed
        <4>9. \A x \in active' : life'[x] = "live"
          BY <2>1, <2>t, <4>1 DEF MainSound
        <4>10. MainSound' /\ EndSound'
          BY <2>3, <4>1, <4>6, <4>7, <4>8, <4>9
        <4> QED  BY <2>t, <4>2, <4>4, <4>5, <4>6, <4>10 DEF IInv, Sound
      <3> QED  BY <3>3, <3>4
    <2>12. CASE DeliverDelete
      <3>1. /\ mainQueue # <<>> /\ mainQueue' = Tail(mainQueue)
            /\ UNCHANGED <<at, active, requests, backend>>
            /\ Head(mainQueue) = mainQueue[1] /\ mainQueue[1].type = "Delete"
            /\ 1 \in 1 .. Len(mainQueue)
        BY <2>1, <2>12, Queues DEF DeliverDelete, Take
      <3>2. PICK o \in Operate : o = Head(mainQueue).op /\ life[o] # "live"
        BY <2>1, <2>t, <3>1 DEF MainSound
      <3>3. life'[o] = "deleted" /\ \A x \in Operate : x # o => life'[x] = life[x]
        BY <2>1, <2>12, <3>2 DEF DeliverDelete
      <3>4. \A x \in Operate : life[x] = "live" => life'[x] = "live"
        BY <3>2, <3>3
      <3>5. Apart'
        BY <2>t, <3>1, <3>3 DEF Apart
      <3>6. BackendSound' /\ RequestSound' /\ DeleteSound' /\ Serving' = Serving
        BY <2>1, <2>t, <3>1, <3>4 DEF BackendSound, RequestSound, DeleteSound, Serving
      <3>7. \A x \in active' : life'[x] = "live"
        BY <2>1, <2>t, <3>1, <3>4 DEF MainSound
      <3>8. MainSound' /\ EndSound'
        BY <2>3, <2>5, <3>1, <3>3, <3>6, <3>7
      <3> QED  BY <2>t, <3>5, <3>6, <3>8 DEF IInv, Sound
    <2>13. CASE Boot \/ UNCHANGED vars
      <3>1. UNCHANGED <<life, at, active, mainQueue, requests, backend>>
        BY <2>13 DEF Boot, vars
      <3> QED  BY <2>t, <3>1 DEF IInv, Sound, Apart, MainSound, RequestSound, BackendSound, EndSound,
                                 DeleteSound, Serving
    (* The thread takes the head of its requests. *)
    <2>14. ASSUME NEW t, Serve(t)
           PROVE  /\ requests # <<>> /\ requests[1] = Head(requests) /\ requests[1].type = t
                  /\ 1 \in 1 .. Len(requests)
                  /\ Len(requests') = Len(requests) - 1
                  /\ \A i \in 1 .. Len(requests') :
                        i + 1 \in 1 .. Len(requests) /\ requests'[i] = requests[i + 1]
                  /\ UNCHANGED <<life, at, active>>
      BY <2>1, <2>14, Queues DEF Serve
    <2>15. CASE SlotNewBackend
      <3>1. /\ requests[1].type = "New" /\ 1 \in 1 .. Len(requests)
            /\ Len(requests') = Len(requests) - 1
            /\ \A i \in 1 .. Len(requests') :
                  i + 1 \in 1 .. Len(requests) /\ requests'[i] = requests[i + 1] /\ i + 1 # 1
            /\ UNCHANGED <<life, at, active>> /\ Head(requests) = requests[1]
        BY <2>1, <2>14, <2>15 DEF SlotNewBackend
      <3>2. PICK o \in Operate : /\ o = requests[1].op /\ at[o] = requests[1].addr
                                 /\ life[o] = "live" /\ o \in Serving
        BY <2>1, <2>t, <3>1 DEF RequestSound, Serving
      <3>3. /\ \A a \in DOMAIN backend : backend[a] # o
            /\ \A i \in 1 .. Len(requests) : requests[i].type = "New" /\ requests[i].op = o => i = 1
        BY <2>t, <3>1, <3>2 DEF RequestSound
      <3>4. /\ mainQueue' = Append(mainQueue, Event("Stop", o)) \/ mainQueue' = mainQueue
            /\ Insert(at[o], o) \/ backend' = backend
        BY <2>15, <3>1, <3>2 DEF SlotNewBackend, StopsItself, Post
      <3>5. \A a \in DOMAIN backend' : \/ a \in DOMAIN backend /\ backend'[a] = backend[a]
                                       \/ a = at[o] /\ backend'[a] = o
        BY <3>4 DEF Insert
      <3>6. Apart' /\ BackendSound'
        BY <2>t, <3>1, <3>2, <3>5 DEF Apart, BackendSound
      <3>7. Serving' \subseteq Serving
        BY <3>1, <3>2, <3>5 DEF Serving
      <3>8. RequestSound'
        <4> SUFFICES ASSUME NEW i \in 1 .. Len(requests')
                     PROVE  /\ requests'[i].addr = at[requests'[i].op]
                            /\ requests'[i].type = "New" =>
                                  /\ life[requests'[i].op] = "live"
                                  /\ \A a \in DOMAIN backend' : backend'[a] # requests'[i].op
                                  /\ \A j \in 1 .. Len(requests') :
                                        requests'[j].type = "New" /\ requests'[j].op = requests'[i].op => j = i
          BY <3>1 DEF RequestSound
        <4>1. /\ i + 1 \in 1 .. Len(requests) /\ requests'[i] = requests[i + 1] /\ i + 1 # 1
              /\ \A j \in 1 .. Len(requests') : j + 1 \in 1 .. Len(requests) /\ requests'[j] = requests[j + 1]
          BY <3>1
        <4>2. ASSUME requests'[i].type = "New", NEW j \in 1 .. Len(requests'),
                     requests'[j].type = "New", requests'[j].op = requests'[i].op
              PROVE  j = i
          <5>1. j + 1 = i + 1
            BY <2>t, <4>1, <4>2 DEF RequestSound
          <5> QED  BY <5>1
        <4>3. requests'[i].type = "New" => \A a \in DOMAIN backend' : backend'[a] # requests'[i].op
          BY <2>t, <3>3, <3>5, <4>1 DEF RequestSound
        <4> QED  BY <2>t, <4>1, <4>2, <4>3 DEF RequestSound
      <3>9. DeleteSound'
        <4> SUFFICES ASSUME NEW i \in 1 .. Len(requests'), requests'[i].type = "Delete"
                     PROVE  /\ requests'[i].addr \in DOMAIN backend'
                                 => backend'[requests'[i].addr] = requests'[i].op
                            /\ \A j \in 1 .. i - 1 :
                                  requests'[j].type = "New" /\ requests'[j].addr = requests'[i].addr
                                     => requests'[j].op = requests'[i].op
          BY DEF DeleteSound
        <4>1. /\ i + 1 \in 1 .. Len(requests) /\ requests'[i] = requests[i + 1]
              /\ 1 \in 1 .. (i + 1) - 1
          BY <2>1, <3>1
        <4>2. \A j \in 1 .. (i + 1) - 1 : requests[j].type = "New" /\ requests[j].addr = requests[i + 1].addr
                                             => requests[j].op = requests[i + 1].op
          BY <2>t, <4>1 DEF DeleteSound
        <4>3. requests'[i].addr = at[o] => requests'[i].op = o
          BY <3>1, <3>2, <4>1, <4>2
        <4>4. requests'[i].addr \in DOMAIN backend => backend[requests'[i].addr] = requests'[i].op
          BY <2>t, <4>1 DEF DeleteSound
        <4>5. ASSUME NEW j \in 1 .. i - 1, requests'[j].type = "New", requests'[j].addr = requests'[i].addr
              PROVE  requests'[j].op = requests'[i].op
          <5>1. j \in 1 .. Len(requests') /\ j + 1 \in 1 .. (i + 1) - 1
            BY <2>1
          <5> QED  BY <3>1, <4>1, <4>2, <4>5, <5>1
        <4> QED  BY <3>5, <4>3, <4>4, <4>5
      <3>10. MainSound' /\ EndSound'
        <4>1. \A x \in active' : life'[x] = "live"
          BY <2>t, <3>1 DEF MainSound
        <4>2. CASE mainQueue' = mainQueue
          BY <2>3, <2>4, <3>1, <3>7, <4>1, <4>2
        <4>3. CASE mainQueue' = Append(mainQueue, Event("Stop", o))
          <5>1. \A i \in 1 .. Len(mainQueue') :
                   \/ i + 0 \in 1 .. Len(mainQueue) /\ mainQueue'[i] = mainQueue[i + 0]
                   \/ mainQueue'[i].type = "Stop" /\ mainQueue'[i].op = o
            BY <2>1, <2>6, <4>3, Typed
          <5> QED  BY <2>3, <3>1, <3>2, <3>7, <4>1, <5>1
        <4> QED  BY <3>4, <4>2, <4>3
      <3> QED  BY <2>t, <3>6, <3>7, <3>8, <3>9, <3>10 DEF IInv, Sound
    <2>16. CASE SlotDeleteBackend
      <3>1. /\ requests[1].type = "Delete" /\ 1 \in 1 .. Len(requests)
            /\ Len(requests') = Len(requests) - 1
            /\ \A i \in 1 .. Len(requests') :
                  i + 1 \in 1 .. Len(requests) /\ requests'[i] = requests[i + 1]
            /\ UNCHANGED <<life, at, active>> /\ Head(requests) = requests[1]
        BY <2>1, <2>14, <2>16 DEF SlotDeleteBackend
      <3>2. \A a \in DOMAIN backend' : a \in DOMAIN backend /\ backend'[a] = backend[a]
        BY <2>16 DEF SlotDeleteBackend, Remove
      <3>3. Apart' /\ BackendSound' /\ Serving' \subseteq Serving
        BY <2>t, <3>1, <3>2 DEF Apart, BackendSound, Serving
      <3>4. RequestSound'
        <4> SUFFICES ASSUME NEW i \in 1 .. Len(requests')
                     PROVE  /\ requests'[i].addr = at[requests'[i].op]
                            /\ requests'[i].type = "New" =>
                                  /\ life[requests'[i].op] = "live"
                                  /\ \A a \in DOMAIN backend' : backend'[a] # requests'[i].op
                                  /\ \A j \in 1 .. Len(requests') :
                                        requests'[j].type = "New" /\ requests'[j].op = requests'[i].op => j = i
          BY <3>1 DEF RequestSound
        <4>1. /\ i + 1 \in 1 .. Len(requests) /\ requests'[i] = requests[i + 1]
              /\ \A j \in 1 .. Len(requests') : j + 1 \in 1 .. Len(requests) /\ requests'[j] = requests[j + 1]
          BY <3>1
        <4>2. ASSUME requests'[i].type = "New", NEW j \in 1 .. Len(requests'),
                     requests'[j].type = "New", requests'[j].op = requests'[i].op
              PROVE  j = i
          <5>1. j + 1 = i + 1
            BY <2>t, <4>1, <4>2 DEF RequestSound
          <5> QED  BY <5>1
        <4>3. requests'[i].type = "New" => \A a \in DOMAIN backend' : backend'[a] # requests'[i].op
          BY <2>t, <3>2, <4>1 DEF RequestSound
        <4> QED  BY <2>t, <4>1, <4>2, <4>3 DEF RequestSound
      <3>5. DeleteSound'
        <4> SUFFICES ASSUME NEW i \in 1 .. Len(requests'), requests'[i].type = "Delete"
                     PROVE  /\ requests'[i].addr \in DOMAIN backend'
                                 => backend'[requests'[i].addr] = requests'[i].op
                            /\ \A j \in 1 .. i - 1 :
                                  requests'[j].type = "New" /\ requests'[j].addr = requests'[i].addr
                                     => requests'[j].op = requests'[i].op
          BY DEF DeleteSound
        <4>1. i + 1 \in 1 .. Len(requests) /\ requests'[i] = requests[i + 1]
          BY <3>1
        <4>2. \A j \in 1 .. (i + 1) - 1 : requests[j].type = "New" /\ requests[j].addr = requests[i + 1].addr
                                             => requests[j].op = requests[i + 1].op
          BY <2>t, <4>1 DEF DeleteSound
        <4>3. requests'[i].addr \in DOMAIN backend => backend[requests'[i].addr] = requests'[i].op
          BY <2>t, <4>1 DEF DeleteSound
        <4>4. ASSUME NEW j \in 1 .. i - 1, requests'[j].type = "New", requests'[j].addr = requests'[i].addr
              PROVE  requests'[j].op = requests'[i].op
          <5>1. j \in 1 .. Len(requests') /\ j + 1 \in 1 .. (i + 1) - 1
            BY <2>1
          <5> QED  BY <3>1, <4>1, <4>2, <4>4, <5>1
        <4> QED  BY <3>2, <4>3, <4>4
      <3>6. MainSound' /\ EndSound'
        <4>1. \A x \in active' : life'[x] = "live"
          BY <2>t, <3>1 DEF MainSound
        <4>2. CASE mainQueue' = mainQueue
          BY <2>3, <2>4, <3>1, <3>3, <4>1, <4>2
        <4>3. CASE requests[1].addr \in DOMAIN backend
          <5>1. PICK o \in Operate : o = backend[requests[1].addr]
            BY <2>1, <4>3
          <5>2. /\ life[o] = "live" /\ at[o] = requests[1].addr /\ o \in Serving
                /\ DOMAIN backend' = DOMAIN backend \ {at[o]}
                /\ mainQueue' = Append(mainQueue, Event("Finished", o))
            <6>1. life[o] = "live" /\ at[o] = requests[1].addr /\ o \in Serving
              BY <2>t, <4>3, <5>1 DEF BackendSound, Serving
            <6>2. Remove(requests[1].addr) /\ Post("Finished", o)
              BY <2>16, <3>1, <4>3, <5>1 DEF SlotDeleteBackend
            <6> QED  BY <6>1, <6>2 DEF Remove, Post
          <5>3. o \notin Serving'
            <6>1. \A a \in DOMAIN backend' : backend'[a] # o
              BY <2>t, <3>2, <5>2 DEF BackendSound
            <6>2. \A i \in 1 .. Len(requests') : requests'[i].type = "New" => requests'[i].op # o
              BY <2>t, <3>1, <4>3, <5>1 DEF RequestSound
            <6> QED  BY <6>1, <6>2 DEF Serving
          <5>4. \A i \in 1 .. Len(mainQueue') :
                   \/ i \in 1 .. Len(mainQueue) /\ mainQueue'[i] = mainQueue[i]
                   \/ /\ i = Len(mainQueue) + 1
                      /\ mainQueue'[i].type = "Finished" /\ mainQueue'[i].op = o
            BY <2>1, <2>6, <5>2, Typed
          <5>5. EndSound'
            BY <2>t, <3>3, <5>3, <5>4 DEF EndSound
          <5>6. \A i \in 1 .. Len(mainQueue) : mainQueue[i].type = "Finished" => mainQueue[i].op # o
            BY <2>t, <5>2 DEF EndSound
          <5>7. ASSUME NEW i \in 1 .. Len(mainQueue'), NEW j \in 1 .. Len(mainQueue'),
                       mainQueue'[i].type = "Finished", mainQueue'[j].type = "Finished",
                       mainQueue'[j].op = mainQueue'[i].op
                PROVE  j = i
            BY <2>t, <5>4, <5>6, <5>7 DEF MainSound
          <5>8. ASSUME NEW i \in 1 .. Len(mainQueue')
                PROVE  /\ life'[mainQueue'[i].op] # "absent"
                       /\ mainQueue'[i].type = "Delete" => life'[mainQueue'[i].op] # "live"
            BY <2>t, <3>1, <5>2, <5>4 DEF MainSound
          <5> QED  BY <4>1, <5>5, <5>7, <5>8 DEF MainSound
        <4>4. CASE requests[1].addr \notin DOMAIN backend
          BY <2>16, <3>1, <4>2, <4>4 DEF SlotDeleteBackend
        <4> QED  BY <4>3, <4>4
      <3> QED  BY <2>t, <3>3, <3>4, <3>5, <3>6 DEF IInv, Sound
    <2>17. ASSUME NEW a \in Address, EmitStop(a) PROVE Sound'
      <3>1. PICK o \in Operate : o = backend[a] /\ life[o] = "live"
        BY <2>1, <2>17, <2>t DEF EmitStop, BackendSound
      <3>2. /\ mainQueue' = Append(mainQueue, Event("Stop", o))
            /\ UNCHANGED <<life, at, active, requests, backend>>
        BY <2>17, <3>1 DEF EmitStop, StopsItself, Post
      <3>3. \A i \in 1 .. Len(mainQueue') :
               \/ i + 0 \in 1 .. Len(mainQueue) /\ mainQueue'[i] = mainQueue[i + 0]
               \/ mainQueue'[i].type = "Stop" /\ mainQueue'[i].op = o
        BY <2>1, <2>6, <3>2, Typed
      <3>4. \A x \in active' : life'[x] = "live"
        BY <2>t, <3>2 DEF MainSound
      <3>5. Serving' = Serving
        BY <3>2 DEF Serving
      <3>6. MainSound' /\ EndSound'
        BY <2>3, <3>1, <3>2, <3>3, <3>4, <3>5
      <3> QED  BY <2>t, <3>2, <3>6 DEF Sound, Apart, RequestSound, BackendSound, DeleteSound
    <2> QED
      BY <2>t, <2>8, <2>9, <2>10, <2>11, <2>12, <2>13, <2>15, <2>16, <2>17
         DEF Next, Deliver, Thread, IInv
  <1>2. IInv => TypeOK /\ BackendOwnerAlive
    BY DEF IInv, Sound, BackendOwnerAlive, BackendSound, RequestSound
  <1>3. IInv => NoStrangerStopped
    <2> SUFFICES ASSUME IInv, requests # <<>> PROVE NoStrangerStopped
      BY DEF NoStrangerStopped
    <2>1. requests \in Seq(Requests)
      BY DEF IInv, TypeOK, Requests
    <2>2. Head(requests) = requests[1] /\ 1 \in 1 .. Len(requests)
      BY <2>1, Queues
    <2> QED  BY <2>2 DEF IInv, Sound, DeleteSound, NoStrangerStopped
  <1>4. IInv => FinishedOnce
    BY DEF IInv, Sound, MainSound, FinishedOnce
  <1> QED  BY <1>1, <1>2, <1>3, <1>4, <1>5, PTL DEF Spec
==============================================================================
