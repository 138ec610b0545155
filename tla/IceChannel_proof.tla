-------------------------- MODULE IceChannel_proof --------------------------
(* Proofs about IceChannel, for any calls of any users.                     *)
EXTENDS IceChannel, SequenceTheorems, TLAPS

USE BoundAssumption

(* The signals an end of one side has sent. *)
Posted(side) == {m \in Message : m.of[2] = side /\ state[m.of] # "none" /\ m.name = name[m.of]}

(* What was signalled is named as its sender, and a service's end as its peer. *)
Named ==
    /\ up \in [Users -> Seq(Posted("client"))]
    /\ down \in [Users -> Seq(Posted("service"))]
    /\ offers \in Seq(Posted("client"))
    /\ \A e \in Ends : state[e] # "none" => name[e] \in Names
    /\ \A c \in Calls : state[Service(c)] # "none" =>
          state[Client(c)] # "none" /\ name[Service(c)] = name[Client(c)]

(* Without a restart, no id is given twice. *)
Unique ==
    (\A u \in Users : <<"restart", u>> \notin faults) =>
        /\ \A c \in Calls : state[Client(c)] # "none" =>
              name[Client(c)][2] < counter[name[Client(c)][1]]
        /\ \A c, d \in Calls :
              state[Client(c)] # "none" /\ state[Client(d)] # "none"
              /\ name[Client(c)] = name[Client(d)] => c = d

Rest ==
    /\ counter \in [Users -> Nat]
    /\ name \in [Ends -> Names \cup {NoName}]
    /\ state \in [Ends -> {"none", "open", "closed"}]
    /\ binding \in SUBSET Ends /\ gathered \in SUBSET Ends /\ hung \in SUBSET Ends
    /\ heard \in [Ends -> SUBSET Message]
    /\ dc \in [Ends -> {"none", "open", "closed"}]
    /\ missed \in SUBSET ({"open", "closed"} \X Ends)
    /\ faults \in SUBSET (({"lost", "network"} \X Calls) \cup ({"restart"} \X Users))
    /\ wrote \in [Ends -> Nat]
    /\ out \in [Ends -> Seq(Nat)] /\ unread \in [Ends -> Seq(Nat)] /\ got \in [Ends -> Seq(Nat)]

Keeps ==
    \A e \in Ends : state[e] # "none" => state'[e] # "none" /\ name'[e] = name[e]

LEMMA EndsFacts ==
    /\ \A c \in Calls : Client(c) \in Ends /\ Service(c) \in Ends
    /\ \A e \in Ends : /\ Peer(e) \in Ends /\ Peer(Peer(e)) = e /\ Peer(e) # e
                       /\ e[1] \in Calls /\ e[2] \in {"client", "service"}
                       /\ e = Client(e[1]) \/ e = Service(e[1])
                       /\ e[2] = "client" => e = Client(e[1]) /\ Peer(e) = Service(e[1])
                       /\ e[2] = "service" => e = Service(e[1]) /\ Peer(e) = Client(e[1])
    /\ \A c, d \in Calls : (Client(c) = Client(d) => c = d) /\ (Service(c) = Service(d) => c = d)
                           /\ Client(c) # Service(d)
  BY DEF Ends, Client, Service, Peer

LEMMA PostedFacts ==
    ASSUME Rest, Keeps
    PROVE  /\ \A q \in Seq(Posted("client")) : q \in Seq(Posted("client")')
           /\ \A m \in Message : Named /\ m \in Posted(m.of[2])' /\ Send(m) =>
                 /\ up' \in [Users -> Seq(Posted("client")')]
                 /\ down' \in [Users -> Seq(Posted("service")')]
  <1>1. /\ \A q \in Seq(Posted("client")) : q \in Seq(Posted("client")')
        /\ \A q \in Seq(Posted("service")) : q \in Seq(Posted("service")')
    <2>1. Posted("client") \subseteq Posted("client")' /\ Posted("service") \subseteq Posted("service")'
      BY DEF Posted, Keeps, Message, Rest
    <2>2. QED
      BY <2>1
  <1>2. ASSUME Named, NEW m \in Message, m \in Posted(m.of[2])', Send(m)
        PROVE  /\ up' \in [Users -> Seq(Posted("client")')]
               /\ down' \in [Users -> Seq(Posted("service")')]
    <2>1. up \in [Users -> Seq(Posted("client")')] /\ down \in [Users -> Seq(Posted("service")')]
      BY <1>1, <1>2 DEF Named
    <2>2. m.name[1] \in Users /\ m.of \in Ends
      BY DEF Message, Names
    <2>3. CASE m.of[2] = "service"
      <3>1. m \in Posted("service")'
        BY <1>2, <2>3
      <3>2. UNCHANGED up /\ down' = [down EXCEPT ![m.name[1]] = Append(@, m)]
        BY <1>2, <2>3 DEF Send, IsService
      <3>3. QED
        BY <2>1, <2>2, <3>1, <3>2
    <2>4. CASE m.of[2] = "client"
      <3>1. m \in Posted("client")'
        BY <1>2, <2>4
      <3>2. UNCHANGED down /\ up' = [up EXCEPT ![m.name[1]] = Append(@, m)]
        BY <1>2, <2>4 DEF Send, IsService
      <3>3. QED
        BY <2>1, <2>2, <3>1, <3>2
    <2>5. QED
      BY <2>2, <2>3, <2>4, EndsFacts
  <1>3. QED
    BY <1>1, <1>2

(* Every action that leaves names, states and signals alone. *)
Aside ==
    \/ Connection
    \/ \E c \in Calls : NetworkFails(c)
    \/ \E e \in Ends : OnOpen(e) \/ OnClosed(e) \/ OnMessage(e) \/ Write(e) \/ WriteClosed(e) \/ Read(e)

(* And those that close ends. *)
Closing == (\E c \in Calls : Hangup(c) \/ Drop(c)) \/ (\E u \in Users : Restart(u))

LEMMA AsideStep ==
    ASSUME Rest, Named, Aside
    PROVE  Rest' /\ Keeps /\ Named' /\ UNCHANGED <<who, heard>> /\ faults \subseteq faults'
  <1>1. UNCHANGED <<who, up, down, offers, heard>> /\ faults \subseteq faults'
    BY DEF Aside, Connection, NetworkFails, Fault, OnOpen, OnClosed, OnMessage, Write, WriteClosed, Read,
           signals, who
  <1>2. Keeps /\ Named'
    BY <1>1 DEF Keeps, Named, Posted, who
  <1>3. Rest'
    <2>1. CASE Connection
      BY <2>1 DEF Rest, Connection, who, data
    <2>2. ASSUME NEW c \in Calls, NetworkFails(c) PROVE Rest'
      BY <2>2 DEF Rest, NetworkFails, Fault, who, data
    <2>3. ASSUME NEW e \in Ends, OnOpen(e) \/ OnClosed(e) PROVE Rest'
      <3>1. /\ dc' \in [Ends -> {"none", "open", "closed"}]
            /\ missed' \in SUBSET ({"open", "closed"} \X Ends)
        <4>1. PICK w \in {"open", "closed"} :
                  dc' = [dc EXCEPT ![e] = w] /\ missed' \in {missed, missed \cup {<<w, e>>}}
          BY <2>3 DEF OnOpen, OnClosed, Miss
        <4>2. QED
          BY <4>1 DEF Rest
      <3>2. UNCHANGED <<who, signals, data, hung>>
        BY <2>3 DEF OnOpen, OnClosed
      <3>3. QED
        BY <3>1, <3>2 DEF Rest, who, signals, data
    <2>4. ASSUME NEW e \in Ends, OnMessage(e) PROVE Rest'
      <3>1. Head(out[Peer(e)]) \in Nat /\ Tail(out[Peer(e)]) \in Seq(Nat)
        BY <2>4, EndsFacts DEF Rest, OnMessage
      <3>2. /\ unread' = [unread EXCEPT ![e] = Append(@, Head(out[Peer(e)]))]
            /\ out' = [out EXCEPT ![Peer(e)] = Tail(@)]
            /\ UNCHANGED <<who, signals, dc, missed, wrote, got, hung>>
        BY <2>4 DEF OnMessage
      <3>3. unread' \in [Ends -> Seq(Nat)] /\ out' \in [Ends -> Seq(Nat)]
        <4>1. /\ unread \in [Ends -> Seq(Nat)] /\ out \in [Ends -> Seq(Nat)]
              /\ Append(unread[e], Head(out[Peer(e)])) \in Seq(Nat)
          BY <3>1 DEF Rest
        <4>2. QED
          BY <3>1, <3>2, <4>1
      <3>4. QED
        BY <3>2, <3>3 DEF Rest, who, signals
    <2>5. ASSUME NEW e \in Ends, Write(e) PROVE Rest'
      <3>1. PICK n \in 1 .. MaxWrite :
                /\ wrote' = [wrote EXCEPT ![e] = @ + n]
                /\ out' = [out EXCEPT ![e] = @ \o Messages(wrote[e], n)]
        BY <2>5 DEF Write
      <3>2. Messages(wrote[e], n) \in Seq(Nat)
        BY DEF Rest, Messages
      <3>3. wrote' \in [Ends -> Nat] /\ out' \in [Ends -> Seq(Nat)]
        BY <3>1, <3>2 DEF Rest
      <3>4. UNCHANGED <<who, signals, dc, missed, unread, got, hung>>
        BY <2>5 DEF Write
      <3>5. QED
        BY <3>3, <3>4 DEF Rest, who, signals
    <2>6. ASSUME NEW e \in Ends, WriteClosed(e) PROVE Rest'
      BY <2>6 DEF Rest, WriteClosed, who, signals, data
    <2>7. ASSUME NEW e \in Ends, Read(e) PROVE Rest'
      <3>1. PICK n \in 1 .. Len(unread[e]) :
                /\ got' = [got EXCEPT ![e] = @ \o SubSeq(unread[e], 1, n)]
                /\ unread' = [unread EXCEPT ![e] = SubSeq(@, n + 1, Len(@))]
        BY <2>7 DEF Read
      <3>2. SubSeq(unread[e], 1, n) \in Seq(Nat) /\ SubSeq(unread[e], n + 1, Len(unread[e])) \in Seq(Nat)
        BY DEF Rest
      <3>3. got' \in [Ends -> Seq(Nat)] /\ unread' \in [Ends -> Seq(Nat)]
        BY <3>1, <3>2 DEF Rest
      <3>4. UNCHANGED <<who, signals, dc, missed, wrote, out, hung>>
        BY <2>7 DEF Read
      <3>5. QED
        BY <3>3, <3>4 DEF Rest, who, signals
    <2>8. QED
      BY <2>1, <2>2, <2>3, <2>4, <2>5, <2>6, <2>7 DEF Aside
  <1>4. QED
    BY <1>1, <1>2, <1>3

LEMMA ClosingStep ==
    ASSUME Rest, Named, Closing
    PROVE  /\ Rest' /\ Keeps /\ Named' /\ UNCHANGED name /\ faults \subseteq faults'
           /\ \A e \in Ends : heard'[e] \subseteq heard[e] /\ (state'[e] # "none" => state[e] # "none")
           /\ UNCHANGED counter \/ \E u \in Users : <<"restart", u>> \in faults'
  <1>1. PICK S \in SUBSET Ends : CloseEnds(S) /\ \A e \in S : state[e] = "open"
    <2>1. ASSUME NEW c \in Calls, Hangup(c)
          PROVE  CloseEnds({Client(c)}) /\ state[Client(c)] = "open" /\ {Client(c)} \in SUBSET Ends
      BY <2>1, EndsFacts DEF Hangup
    <2>2. ASSUME NEW c \in Calls, Drop(c)
          PROVE  CloseEnds({Service(c)}) /\ state[Service(c)] = "open" /\ {Service(c)} \in SUBSET Ends
      BY <2>2, EndsFacts DEF Drop
    <2>3. ASSUME NEW u \in Users, Restart(u)
          PROVE  \E S \in SUBSET Ends : CloseEnds(S) /\ \A e \in S : state[e] = "open"
      <3>1. DEFINE gone == {e \in Ends : ~IsService(e) /\ state[e] = "open" /\ name[e][1] = u}
      <3>2. CloseEnds(gone) /\ gone \in SUBSET Ends /\ \A e \in gone : state[e] = "open"
        BY <2>3 DEF Restart
      <3>3. QED
        BY <3>2
    <2>4. QED
      BY <2>1, <2>2, <2>3 DEF Closing
  <1>2. /\ UNCHANGED <<name, up, down, offers, missed>> /\ faults \subseteq faults'
        /\ faults' \in SUBSET (({"lost", "network"} \X Calls) \cup ({"restart"} \X Users))
        /\ counter' \in [Users -> Nat] /\ hung' \subseteq hung
        /\ UNCHANGED counter \/ \E u \in Users : <<"restart", u>> \in faults'
    <2>1. ASSUME NEW c \in Calls, Hangup(c) \/ Drop(c)
          PROVE  UNCHANGED <<counter, name, up, down, offers, missed, faults, hung>>
      BY <2>1 DEF Hangup, Drop, CloseEnds
    <2>2. ASSUME NEW u \in Users, Restart(u)
          PROVE  /\ UNCHANGED <<name, up, down, offers, missed>>
                 /\ faults' = faults \cup {<<"restart", u>>}
                 /\ counter' = [counter EXCEPT ![u] = 0] /\ hung' \subseteq hung
      <3>1. DEFINE gone == {e \in Ends : ~IsService(e) /\ state[e] = "open" /\ name[e][1] = u}
      <3>2. CloseEnds(gone) /\ hung' = hung \ gone
        BY <2>2 DEF Restart
      <3>3. UNCHANGED <<up, down, offers>>
        BY <3>2 DEF CloseEnds
      <3>4. UNCHANGED <<name, missed>> /\ counter' = [counter EXCEPT ![u] = 0]
        BY <2>2 DEF Restart
      <3>5. faults' = faults \cup {<<"restart", u>>}
        BY <2>2 DEF Restart, Fault
      <3>6. hung' \subseteq hung
        BY <3>2
      <3>7. QED
        BY <3>3, <3>4, <3>5, <3>6
    <2>3. CASE \E c \in Calls : Hangup(c) \/ Drop(c)
      BY <2>1, <2>3 DEF Rest
    <2>4. ASSUME NEW u \in Users, Restart(u)
          PROVE  /\ faults \subseteq faults' /\ <<"restart", u>> \in faults'
                 /\ faults' \in SUBSET (({"lost", "network"} \X Calls) \cup ({"restart"} \X Users))
                 /\ counter' \in [Users -> Nat]
      <3>1. /\ faults' = faults \cup {<<"restart", u>>}
            /\ counter' = [counter EXCEPT ![u] = 0]
        BY <2>2, <2>4
      <3>2. <<"restart", u>> \in {"restart"} \X Users
        OBVIOUS
      <3>3. QED
        BY <3>1, <3>2 DEF Rest
    <2>5. QED
      BY <2>2, <2>3, <2>4 DEF Closing
  <1>3. \A e \in Ends : state'[e] = IF e \in S THEN "closed" ELSE state[e]
    BY <1>1 DEF CloseEnds
  <1>4. Keeps /\ \A e \in Ends : heard'[e] \subseteq heard[e] /\ (state'[e] # "none" => state[e] # "none")
    BY <1>1, <1>2, <1>3 DEF Keeps, CloseEnds, Rest
  <1>5. Rest'
    BY <1>1, <1>2 DEF Rest, CloseEnds
  <1>6. Named'
    <2>1. Posted("client")' = Posted("client") /\ Posted("service")' = Posted("service")
      BY <1>1, <1>2, <1>3, <1>4 DEF Posted, Message, Keeps
    <2>2. QED
      BY <1>1, <1>2, <1>3, <1>4, <2>1, EndsFacts DEF Named
  <1>7. QED
    BY <1>2, <1>4, <1>5, <1>6

LEMMA SignalStep ==
    ASSUME Rest, Named,
           \/ \E c \in Calls, u \in Users : Call(c, u)
           \/ \E e \in Ends : LocalCandidate(e)
           \/ \E u \in Users : ServiceIq(u) \/ ClientIq(u) \/ Lose(u)
           \/ SlotSignalOffer
    PROVE  Rest' /\ Keeps /\ Named' /\ faults \subseteq faults'
  <1>1. ASSUME NEW c \in Calls, NEW u \in Users, Call(c, u)
        PROVE  Rest' /\ Keeps /\ Named' /\ faults \subseteq faults'
    <2>n. PICK n \in Names : n = <<u, counter[u]>>
      BY DEF Names, Rest
    <2>m. PICK m : m = Signal("offer", n, Client(c))
      OBVIOUS
    <2>1. Client(c) \in Ends
      BY EndsFacts
    <2>2. /\ state[Client(c)] = "none"
          /\ state' = [state EXCEPT ![Client(c)] = "open"]
          /\ name' = [name EXCEPT ![Client(c)] = n] /\ Send(m)
          /\ counter' = [counter EXCEPT ![u] = @ + 1]
          /\ UNCHANGED <<offers, binding, gathered, heard, faults, dc, missed, data, hung>>
      BY <1>1, <2>n, <2>m DEF Call, GenerateID
    <2>3. Rest'
      BY <2>1, <2>2 DEF Rest, data
    <2>4. Keeps
      BY <2>1, <2>2 DEF Keeps, Rest
    <2>5. m \in Message /\ m \in Posted(m.of[2])'
      BY <2>m, <2>1, <2>2, EndsFacts DEF Message, Posted, Signal, Rest, Client
    <2>6. /\ up' \in [Users -> Seq(Posted("client")')]
          /\ down' \in [Users -> Seq(Posted("service")')]
      BY <2>2, <2>4, <2>5, PostedFacts
    <2>7. offers' \in Seq(Posted("client")')
      BY <2>2, <2>4, PostedFacts DEF Named
    <2>8. /\ \A e \in Ends : state'[e] # "none" => name'[e] \in Names
          /\ \A d \in Calls : state'[Service(d)] # "none" =>
                state'[Client(d)] # "none" /\ name'[Service(d)] = name'[Client(d)]
      <3>1. \A e \in Ends : IF e = Client(c) THEN state'[e] = "open" /\ name'[e] = n
                            ELSE state'[e] = state[e] /\ name'[e] = name[e]
        BY <2>1, <2>2 DEF Rest
      <3>2. ASSUME NEW d \in Calls, state'[Service(d)] # "none"
            PROVE  state'[Client(d)] # "none" /\ name'[Service(d)] = name'[Client(d)]
        <4>1. Service(d) \in Ends /\ Client(d) \in Ends /\ Service(d) # Client(c)
          BY EndsFacts
        <4>2. state[Service(d)] # "none" /\ name'[Service(d)] = name[Service(d)]
          BY <3>1, <3>2, <4>1
        <4>3. state[Client(d)] # "none" /\ name[Service(d)] = name[Client(d)]
          BY <4>2 DEF Named
        <4>4. QED
          BY <2>2, <3>1, <4>1, <4>2, <4>3
      <3>3. QED
        BY <3>1, <3>2 DEF Named
    <2>9. QED
      BY <2>2, <2>3, <2>4, <2>6, <2>7, <2>8 DEF Named
  <1>2. ASSUME NEW e \in Ends, LocalCandidate(e)
        PROVE  Rest' /\ Keeps /\ Named' /\ faults \subseteq faults'
    <2>m. PICK m : m = Signal("candidate", name[e], e)
      OBVIOUS
    <2>1. /\ state[e] = "open" /\ gathered' = gathered \cup {e} /\ Send(m)
          /\ UNCHANGED <<who, offers, binding, heard, faults, dc, missed, data, hung>>
      BY <1>2, <2>m DEF LocalCandidate
    <2>2. Rest' /\ Keeps
      BY <2>1 DEF Rest, Keeps, who, data
    <2>3. m \in Message /\ m \in Posted(m.of[2])'
      BY <2>m, <2>1, EndsFacts DEF Message, Posted, Signal, Named, who
    <2>4. /\ up' \in [Users -> Seq(Posted("client")')]
          /\ down' \in [Users -> Seq(Posted("service")')]
      BY <2>1, <2>2, <2>3, PostedFacts
    <2>5. offers' \in Seq(Posted("client")')
      BY <2>1, <2>2, PostedFacts DEF Named
    <2>6. QED
      BY <2>1, <2>2, <2>4, <2>5 DEF Named, who
  <1>3. ASSUME NEW u \in Users, ServiceIq(u) \/ ClientIq(u) \/ Lose(u)
        PROVE  Rest' /\ Keeps /\ Named' /\ faults \subseteq faults'
    <2>1. UNCHANGED <<who, binding, gathered, dc, missed, data, hung>> /\ faults \subseteq faults'
      BY <1>3 DEF ServiceIq, ClientIq, Lose, Fault
    <2>2. Keeps /\ Posted("client")' = Posted("client") /\ Posted("service")' = Posted("service")
      BY <2>1 DEF Keeps, Posted, who
    <2>3. /\ up[u] # <<>> => Head(up[u]) \in Posted("client") /\ Tail(up[u]) \in Seq(Posted("client"))
          /\ down[u] # <<>> => Head(down[u]) \in Posted("service") /\ Tail(down[u]) \in Seq(Posted("service"))
      BY DEF Named
    <2>4. up' \in {up, [up EXCEPT ![u] = Tail(@)]} /\ (up' # up => up[u] # <<>>)
      BY <1>3 DEF ServiceIq, ClientIq, Lose
    <2>5. down' \in {down, [down EXCEPT ![u] = Tail(@)]} /\ (down' # down => down[u] # <<>>)
      BY <1>3 DEF ServiceIq, ClientIq, Lose
    <2>6. offers' = offers \/ (up[u] # <<>> /\ offers' = Append(offers, Head(up[u])))
      BY <1>3 DEF ServiceIq, ClientIq, Lose
    <2>7. up' \in [Users -> Seq(Posted("client"))] /\ down' \in [Users -> Seq(Posted("service"))]
      BY <2>3, <2>4, <2>5 DEF Named
    <2>8. offers' \in Seq(Posted("client"))
      <3>1. offers \in Seq(Posted("client"))
        BY DEF Named
      <3>2. QED
        BY <2>3, <2>6, <3>1
    <2>9. Named'
      BY <2>1, <2>2, <2>7, <2>8 DEF Named, who
    <2>10. heard' \in [Ends -> SUBSET Message]
      <3>1. ASSUME NEW m \in Message, NEW side, Hear(m, side) PROVE heard' \in [Ends -> SUBSET Message]
        BY <3>1 DEF Hear, Rest
      <3>2. /\ up[u] # <<>> => Head(up[u]) \in Message
            /\ down[u] # <<>> => Head(down[u]) \in Message
        BY <2>3 DEF Posted
      <3>3. QED
        BY <1>3, <3>1, <3>2 DEF ServiceIq, ClientIq, Lose, Rest
    <2>11. faults' \in SUBSET (({"lost", "network"} \X Calls) \cup ({"restart"} \X Users))
      <3>1. /\ up[u] # <<>> => Head(up[u]).of[1] \in Calls
            /\ down[u] # <<>> => Head(down[u]).of[1] \in Calls
        BY <2>3, EndsFacts DEF Posted, Message
      <3>2. \A d \in Calls : <<"lost", d>> \in {"lost", "network"} \X Calls
        OBVIOUS
      <3>3. QED
        BY <1>3, <3>1, <3>2 DEF ServiceIq, ClientIq, Lose, Fault, Rest
    <2>12. QED
      BY <2>1, <2>2, <2>9, <2>10, <2>11 DEF Rest, who, data
  <1>4. ASSUME SlotSignalOffer
        PROVE  Rest' /\ Keeps /\ Named' /\ faults \subseteq faults'
    <2>m. PICK m : m = Head(offers)
      OBVIOUS
    <2> DEFINE e == Peer(m.of)
               a == Signal("answer", m.name, e)
    <2>1. offers # <<>> /\ m \in Posted("client") /\ Tail(offers) \in Seq(Posted("client"))
      BY <1>4, <2>m DEF SlotSignalOffer, Named
    <2>2. /\ m \in Message /\ e \in Ends /\ m.of = Client(e[1]) /\ e = Service(e[1]) /\ e[1] \in Calls
          /\ e[2] = "service"
          /\ state[Client(e[1])] # "none" /\ m.name = name[Client(e[1])] /\ m.name \in Names
      BY <2>1, EndsFacts DEF Posted, Message, Peer
    <2>3. /\ state[e] = "none" /\ state' = [state EXCEPT ![e] = "open"]
          /\ name' = [name EXCEPT ![e] = m.name]
          /\ heard' = [heard EXCEPT ![e] = {m}]
          /\ Send(a) /\ binding' = {e} /\ offers' = Tail(offers)
          /\ UNCHANGED <<counter, gathered, faults, dc, missed, data, hung>>
      BY <1>4, <2>m DEF SlotSignalOffer
    <2>4. Rest'
      BY <2>2, <2>3 DEF Rest, data
    <2>5. Keeps
      BY <2>2, <2>3 DEF Keeps, Rest
    <2>6. a \in Message /\ a \in Posted(a.of[2])'
      <3>1. a \in Message /\ a.of = e /\ a.name = m.name
        BY <2>2 DEF Message, Signal
      <3>2. state'[e] # "none" /\ name'[e] = m.name
        BY <2>2, <2>3 DEF Rest
      <3>3. QED
        BY <2>2, <3>1, <3>2 DEF Posted
    <2>7. /\ up' \in [Users -> Seq(Posted("client")')]
          /\ down' \in [Users -> Seq(Posted("service")')]
      BY <2>3, <2>5, <2>6, PostedFacts
    <2>8. offers' \in Seq(Posted("client")')
      BY <2>1, <2>3, <2>5, PostedFacts
    <2>9. /\ \A f \in Ends : state'[f] # "none" => name'[f] \in Names
          /\ \A d \in Calls : state'[Service(d)] # "none" =>
                state'[Client(d)] # "none" /\ name'[Service(d)] = name'[Client(d)]
      <3>1. \A f \in Ends \ {e} : state'[f] = state[f] /\ name'[f] = name[f]
        BY <2>3 DEF Rest
      <3>2. state'[e] # "none" /\ name'[e] = m.name
        BY <2>2, <2>3 DEF Rest
      <3>3. \A f \in Ends : state'[f] # "none" => name'[f] \in Names
        BY <2>2, <3>1, <3>2 DEF Named
      <3>4. ASSUME NEW d \in Calls, state'[Service(d)] # "none"
            PROVE  state'[Client(d)] # "none" /\ name'[Service(d)] = name'[Client(d)]
        <4>1. Client(d) \in Ends \ {e} /\ Service(d) \in Ends
          BY <2>2, EndsFacts
        <4>2. CASE Service(d) = e
          BY <2>2, <3>1, <3>2, <4>1, <4>2, EndsFacts
        <4>3. CASE Service(d) # e
          BY <3>1, <3>4, <4>1, <4>3 DEF Named
        <4>4. QED
          BY <4>2, <4>3
      <3>5. QED
        BY <3>3, <3>4
    <2>10. QED
      BY <2>3, <2>4, <2>5, <2>7, <2>8, <2>9 DEF Named
  <1>5. QED
    BY <1>1, <1>2, <1>3, <1>4

Sound == Rest /\ Named /\ Unique /\ OwnPeer

(* The variables keep their types, and no end gives its rtc what was sent to  *)
(* another call, as long as no caller's process restarts (the filter of       *)
(* CChannelIce::slotSignalReceiverDescription and Candidate).                 *)
THEOREM OwnPeerCorrect == Spec => [](TypeOK /\ OwnPeer)
  <1>1. Sound => TypeOK /\ OwnPeer
    <2>1. ASSUME NEW side, NEW q \in Seq(Posted(side)) PROVE q \in Seq(Message)
      <3>1. Posted(side) \subseteq Message
        BY DEF Posted
      <3>2. QED
        BY <3>1
    <2>2. QED
      BY <2>1 DEF Sound, Rest, Named, TypeOK
  <1>2. ASSUME Init PROVE Sound
    <2>1. \A side : up \in [Users -> Seq(Posted(side))] /\ down \in [Users -> Seq(Posted(side))]
                    /\ offers \in Seq(Posted(side))
      BY <1>2 DEF Init
    <2>2. Rest /\ Named
      BY <1>2, <2>1, EndsFacts DEF Init, Rest, Named
    <2>3. Unique /\ OwnPeer
      BY <1>2, EndsFacts DEF Init, Unique, OwnPeer, OwnPeerAlways
    <2>4. QED
      BY <2>2, <2>3 DEF Sound
  <1>3. Sound /\ [Next]_vars => Sound'
    <2> SUFFICES ASSUME Sound, [Next]_vars PROVE Sound'
      OBVIOUS
    <2>0. Rest /\ Named /\ Unique /\ OwnPeer
      BY DEF Sound
    <2> DEFINE Calm == \A u \in Users : <<"restart", u>> \notin faults
    <2>1. CASE UNCHANGED vars
      <3>1. UNCHANGED <<counter, name, state, up, down, offers, binding, gathered, heard, faults,
                        dc, missed, wrote, out, unread, got, hung>>
        BY <2>1 DEF vars, who, signals, data
      <3>2. Rest' /\ Named' /\ Unique' /\ OwnPeer'
        BY <2>0, <3>1 DEF Rest, Named, Posted, Unique, OwnPeer, OwnPeerAlways
      <3>3. QED
        BY <3>2 DEF Sound
    <2>2. CASE Aside
      <3>1. Rest' /\ Named' /\ UNCHANGED <<who, heard>> /\ (Calm' => Calm)
        BY <2>0, <2>2, AsideStep
      <3>2. QED
        BY <2>0, <3>1 DEF Sound, Unique, OwnPeer, OwnPeerAlways, who
    <2>3. CASE Closing
      <3>1. /\ Rest' /\ Named' /\ UNCHANGED name /\ (Calm' => Calm /\ UNCHANGED counter)
            /\ \A e \in Ends : heard'[e] \subseteq heard[e] /\ (state'[e] # "none" => state[e] # "none")
        BY <2>0, <2>3, ClosingStep
      <3>2. Unique'
        BY <2>0, <3>1, EndsFacts DEF Unique
      <3>3. QED
        BY <2>0, <3>1, <3>2 DEF Sound, OwnPeer, OwnPeerAlways
    <2>4. ASSUME NEW c \in Calls, NEW u \in Users, Call(c, u) PROVE Sound'
      <3>1. Rest' /\ Named' /\ faults \subseteq faults'
        BY <2>0, <2>4, SignalStep
      <3>2. /\ state[Client(c)] = "none"
            /\ state' = [state EXCEPT ![Client(c)] = "open"]
            /\ name' = [name EXCEPT ![Client(c)] = <<u, counter[u]>>]
            /\ counter' = [counter EXCEPT ![u] = @ + 1]
            /\ UNCHANGED <<heard, faults>>
        BY <2>4 DEF Call, GenerateID
      <3>3. OwnPeer'
        BY <2>0, <3>2 DEF OwnPeer, OwnPeerAlways
      <3>4. Unique'
        <4> SUFFICES ASSUME Calm' PROVE
                /\ \A d \in Calls : state'[Client(d)] # "none" =>
                      name'[Client(d)][2] < counter'[name'[Client(d)][1]]
                /\ \A d, f \in Calls :
                      state'[Client(d)] # "none" /\ state'[Client(f)] # "none"
                      /\ name'[Client(d)] = name'[Client(f)] => d = f
          BY DEF Unique
        <4>1. /\ \A d \in Calls : state[Client(d)] # "none" =>
                    name[Client(d)][2] < counter[name[Client(d)][1]]
              /\ \A d, f \in Calls :
                    state[Client(d)] # "none" /\ state[Client(f)] # "none"
                    /\ name[Client(d)] = name[Client(f)] => d = f
          BY <2>0, <3>2 DEF Unique
        <4>2. \A d \in Calls :
                 IF d = c THEN name'[Client(d)] = <<u, counter[u]>>
                 ELSE state'[Client(d)] = state[Client(d)] /\ name'[Client(d)] = name[Client(d)]
          BY <2>0, <3>2, EndsFacts DEF Rest
        <4>3. \A d \in Calls : state[Client(d)] # "none" =>
                 /\ name[Client(d)][1] \in Users /\ name[Client(d)][2] \in Nat
                 /\ name[Client(d)] = <<name[Client(d)][1], name[Client(d)][2]>>
          BY <2>0, EndsFacts DEF Named, Names
        <4>4. counter \in [Users -> Nat] /\ counter'[u] = counter[u] + 1
              /\ \A v \in Users : counter'[v] \in Nat /\ counter[v] <= counter'[v]
          BY <2>0, <3>2 DEF Rest
        <4>5. \A d \in Calls : d # c /\ state[Client(d)] # "none" => name[Client(d)] # <<u, counter[u]>>
          BY <4>1, <4>3, <4>4
        <4>6. QED
          BY <4>1, <4>2, <4>3, <4>4, <4>5
      <3>5. QED
        BY <3>1, <3>3, <3>4 DEF Sound
    <2>5. ASSUME NEW e \in Ends, LocalCandidate(e) PROVE Sound'
      <3>1. Rest' /\ Named' /\ UNCHANGED <<who, heard, faults>>
        BY <2>0, <2>5, SignalStep DEF LocalCandidate
      <3>2. QED
        BY <2>0, <3>1 DEF Sound, Unique, OwnPeer, OwnPeerAlways, who
    <2>6. ASSUME NEW u \in Users, ServiceIq(u) \/ ClientIq(u) \/ Lose(u) PROVE Sound'
      <3>1. Rest' /\ Named' /\ UNCHANGED who /\ faults \subseteq faults'
        BY <2>0, <2>6, SignalStep DEF ServiceIq, ClientIq, Lose
      <3>2. Unique'
        BY <2>0, <3>1 DEF Unique, who
      <3>3. ASSUME NEW side \in {"client", "service"}, NEW m \in Posted(IF side = "client" THEN "service" ELSE "client"),
                   Calm, NEW e \in Ends, e[2] = side, IsFor(e, m)
            PROVE  m.of = Peer(e)
        <4>1. /\ m.of \in Ends /\ state[m.of] # "none" /\ state[e] # "none"
              /\ name[m.of] = name[e] /\ m.of[2] # e[2]
          BY <3>3 DEF Posted, IsFor, Message
        <4>2. name[Client(m.of[1])] = name[Client(e[1])]
              /\ state[Client(m.of[1])] # "none" /\ state[Client(e[1])] # "none"
          BY <2>0, <4>1, EndsFacts DEF Named
        <4>3. m.of[1] = e[1]
          BY <2>0, <3>3, <4>1, <4>2, EndsFacts DEF Unique
        <4>4. QED
          BY <4>1, <4>3, EndsFacts
      <3>4. ASSUME Calm PROVE \A e \in Ends : \A m \in heard'[e] : m.of = Peer(e)
        <4>1. \A e \in Ends : \A m \in heard[e] : m.of = Peer(e)
          BY <2>0, <3>4 DEF OwnPeer, OwnPeerAlways
        <4>2. /\ up[u] # <<>> => Head(up[u]) \in Posted("client")
              /\ down[u] # <<>> => Head(down[u]) \in Posted("service")
          BY <2>0 DEF Named
        <4>3. ASSUME NEW m \in Posted("client"), Hear(m, "service"), NEW e \in Ends, NEW k \in heard'[e]
              PROVE  k.of = Peer(e)
          BY <3>3, <3>4, <4>1, <4>3 DEF Hear
        <4>4. ASSUME NEW m \in Posted("service"), Hear(m, "client"), NEW e \in Ends, NEW k \in heard'[e]
              PROVE  k.of = Peer(e)
          BY <3>3, <3>4, <4>1, <4>4 DEF Hear
        <4>5. CASE UNCHANGED heard
          BY <4>1, <4>5
        <4>6. CASE up[u] # <<>> /\ Hear(Head(up[u]), "service")
          BY <4>2, <4>3, <4>6
        <4>7. CASE down[u] # <<>> /\ Hear(Head(down[u]), "client")
          BY <4>2, <4>4, <4>7
        <4>8. QED
          BY <2>6, <4>5, <4>6, <4>7 DEF ServiceIq, ClientIq, Lose
      <3>5. OwnPeer'
        BY <3>1, <3>4 DEF OwnPeer, OwnPeerAlways
      <3>6. QED
        BY <3>1, <3>2, <3>5 DEF Sound
    <2>7. CASE SlotSignalOffer
      <3>1. Rest' /\ Named' /\ Keeps
        BY <2>0, <2>7, SignalStep
      <3>2. PICK m : m = Head(offers)
        OBVIOUS
      <3>3. /\ m \in Posted("client")
            /\ state' = [state EXCEPT ![Peer(m.of)] = "open"]
            /\ name' = [name EXCEPT ![Peer(m.of)] = m.name]
            /\ heard' = [heard EXCEPT ![Peer(m.of)] = {m}]
            /\ UNCHANGED <<counter, faults>>
        BY <2>0, <2>7, <3>2 DEF SlotSignalOffer, Named
      <3>4. m.of \in Ends /\ m.of[2] = "client"
        BY <3>3 DEF Posted, Message
      <3>5. OwnPeer'
        BY <2>0, <3>3, <3>4, EndsFacts, SMTT(30) DEF OwnPeer, OwnPeerAlways, Rest
      <3>6. \A c \in Calls : state'[Client(c)] = state[Client(c)] /\ name'[Client(c)] = name[Client(c)]
        <4>1. \A c \in Calls : Client(c) \in Ends /\ Client(c) # Peer(m.of)
          BY <3>4, EndsFacts
        <4>2. QED
          BY <2>0, <3>3, <4>1 DEF Rest
      <3>7. Unique'
        BY <2>0, <3>3, <3>6 DEF Unique
      <3>8. QED
        BY <3>1, <3>5, <3>7 DEF Sound
    <2>8. QED
      BY <2>1, <2>2, <2>3, <2>4, <2>5, <2>6, <2>7 DEF Next, Aside, Closing
  <1>4. QED
    BY <1>1, <1>2, <1>3, PTL DEF Spec

(* What an end has read, finds in m_data and has under way in rtc is, in this *)
(* order, what its peer has written.                                          *)
InLine(g, q, o, w) ==
    /\ Len(g) + Len(q) + Len(o) = w
    /\ \A i \in 1 .. Len(g) : g[i] = i
    /\ \A i \in 1 .. Len(q) : q[i] = Len(g) + i
    /\ \A i \in 1 .. Len(o) : o[i] = Len(g) + Len(q) + i

(* A message that arrives, a write and a read keep the pieces in line. *)
LEMMA InLineFacts ==
    ASSUME NEW g \in Seq(Nat), NEW q \in Seq(Nat), NEW o \in Seq(Nat), NEW w \in Nat,
           InLine(g, q, o, w)
    PROVE  /\ o # <<>> => InLine(g, Append(q, Head(o)), Tail(o), w)
           /\ \A n \in Nat : InLine(g, q, o \o [i \in 1 .. n |-> w + i], w + n)
           /\ \A n \in 1 .. Len(q) :
                 /\ InLine(g \o SubSeq(q, 1, n), SubSeq(q, n + 1, Len(q)), o, w)
                 /\ g \o SubSeq(q, 1, n) = [i \in 1 .. Len(g) + n |-> i]
                 /\ Len(g) + n \in 1 .. w
  <1>l. Len(g) \in Nat /\ Len(q) \in Nat /\ Len(o) \in Nat
    OBVIOUS
  <1>w. w = Len(g) + Len(q) + Len(o)
    BY DEF InLine
  <1>1. ASSUME o # <<>> PROVE InLine(g, Append(q, Head(o)), Tail(o), w)
    <2>1. /\ Len(o) >= 1 /\ Head(o) = o[1] /\ Head(o) \in Nat
          /\ Len(Tail(o)) = Len(o) - 1 /\ \A i \in 1 .. Len(o) - 1 : Tail(o)[i] = o[i + 1]
      BY <1>1, HeadTailProperties, EmptySeq
    <2>2. /\ Len(Append(q, Head(o))) = Len(q) + 1
          /\ \A i \in 1 .. Len(q) : Append(q, Head(o))[i] = q[i]
          /\ Append(q, Head(o))[Len(q) + 1] = Head(o)
      BY <2>1
    <2>3. o[1] = Len(g) + Len(q) + 1
      BY <1>l, <2>1 DEF InLine
    <2>4. \A i \in 1 .. Len(q) + 1 : Append(q, Head(o))[i] = Len(g) + i
      <3>1. \A i \in 1 .. Len(q) : Append(q, Head(o))[i] = Len(g) + i
        BY <1>l, <2>2 DEF InLine
      <3>2. Append(q, Head(o))[Len(q) + 1] = Len(g) + (Len(q) + 1)
        BY <1>l, <2>1, <2>2, <2>3
      <3>3. \A i \in 1 .. Len(q) + 1 : i \in 1 .. Len(q) \/ i = Len(q) + 1
        BY <1>l
      <3>4. QED
        BY <3>1, <3>2, <3>3
    <2>5. \A i \in 1 .. Len(o) - 1 : Tail(o)[i] = Len(g) + (Len(q) + 1) + i
      BY <1>l, <2>1 DEF InLine
    <2>6. \A i \in 1 .. Len(g) : g[i] = i
      BY DEF InLine
    <2>7. Len(g) + (Len(q) + 1) + (Len(o) - 1) = w
      BY <1>l, <1>w
    <2> DEFINE a == Append(q, Head(o))
               t == Tail(o)
    <2>8. /\ Len(a) = Len(q) + 1 /\ \A i \in 1 .. Len(a) : a[i] = Len(g) + i
          /\ Len(t) = Len(o) - 1 /\ \A i \in 1 .. Len(t) : t[i] = Len(g) + Len(a) + i
      BY <2>1, <2>2, <2>4, <2>5
    <2> HIDE DEF a, t
    <2>9. InLine(g, a, t, w)
      BY <2>6, <2>7, <2>8 DEF InLine
    <2>10. QED
      BY <2>9 DEF a, t
  <1>2. ASSUME NEW n \in Nat PROVE InLine(g, q, o \o [i \in 1 .. n |-> w + i], w + n)
    <2> DEFINE s == [i \in 1 .. n |-> w + i]
    <2>1. s \in Seq(Nat) /\ Len(s) = n /\ \A i \in 1 .. n : s[i] = w + i
      OBVIOUS
    <2> HIDE DEF s
    <2>2. /\ Len(o \o s) = Len(o) + n
          /\ \A i \in 1 .. Len(o) + n : (o \o s)[i] = IF i <= Len(o) THEN o[i] ELSE s[i - Len(o)]
      BY <2>1, ConcatProperties
    <2>3. \A i \in 1 .. Len(o) + n : (o \o s)[i] = Len(g) + Len(q) + i
      <3> SUFFICES ASSUME NEW i \in 1 .. Len(o) + n PROVE (o \o s)[i] = Len(g) + Len(q) + i
        OBVIOUS
      <3>1. CASE i <= Len(o)
        BY <1>l, <2>2, <3>1 DEF InLine
      <3>2. CASE ~(i <= Len(o))
        <4>1. i - Len(o) \in 1 .. n
          BY <1>l, <3>2
        <4>2. (o \o s)[i] = w + (i - Len(o))
          BY <2>1, <2>2, <3>2, <4>1
        <4>3. QED
          BY <1>l, <1>w, <4>2
      <3>3. QED
        BY <3>1, <3>2
    <2> DEFINE t == o \o s
    <2>4. Len(t) = Len(o) + n /\ \A i \in 1 .. Len(t) : t[i] = Len(g) + Len(q) + i
      BY <2>2, <2>3
    <2> HIDE DEF t
    <2>5. Len(g) + Len(q) + Len(t) = w + n
      BY <1>l, <1>w, <2>4
    <2>6. InLine(g, q, t, w + n)
      BY <2>4, <2>5 DEF InLine
    <2>7. QED
      BY <2>6 DEF s, t
  <1>3. ASSUME NEW n \in 1 .. Len(q)
        PROVE  /\ InLine(g \o SubSeq(q, 1, n), SubSeq(q, n + 1, Len(q)), o, w)
               /\ g \o SubSeq(q, 1, n) = [i \in 1 .. Len(g) + n |-> i]
               /\ Len(g) + n \in 1 .. w
    <2> DEFINE s == SubSeq(q, 1, n)
               r == SubSeq(q, n + 1, Len(q))
    <2>1. s \in Seq(Nat) /\ Len(s) = n /\ \A i \in 1 .. n : s[i] = q[i]
      BY <1>l, SubSeqProperties
    <2>2. r \in Seq(Nat) /\ Len(r) = Len(q) - n /\ \A i \in 1 .. Len(q) - n : r[i] = q[n + i]
      BY <1>l, SubSeqProperties
    <2> HIDE DEF s, r
    <2>3. /\ g \o s \in Seq(Nat) /\ Len(g \o s) = Len(g) + n
          /\ \A i \in 1 .. Len(g) + n : (g \o s)[i] = IF i <= Len(g) THEN g[i] ELSE s[i - Len(g)]
      BY <2>1, ConcatProperties
    <2>4. \A i \in 1 .. Len(g) + n : (g \o s)[i] = i
      <3> SUFFICES ASSUME NEW i \in 1 .. Len(g) + n PROVE (g \o s)[i] = i
        OBVIOUS
      <3>1. CASE i <= Len(g)
        BY <1>l, <2>3, <3>1 DEF InLine
      <3>2. CASE ~(i <= Len(g))
        <4>1. i - Len(g) \in 1 .. n /\ i - Len(g) \in 1 .. Len(q)
          BY <1>l, <3>2
        <4>2. (g \o s)[i] = q[i - Len(g)]
          BY <2>1, <2>3, <3>2, <4>1
        <4>3. QED
          BY <1>l, <4>1, <4>2 DEF InLine
      <3>3. QED
        BY <3>1, <3>2
    <2>5. \A i \in 1 .. Len(q) - n : r[i] = (Len(g) + n) + i
      BY <1>l, <2>2 DEF InLine
    <2>6. \A i \in 1 .. Len(o) : o[i] = (Len(g) + n) + (Len(q) - n) + i
      BY <1>l DEF InLine
    <2> DEFINE h == g \o s
    <2>7. /\ h \in Seq(Nat) /\ Len(h) = Len(g) + n
          /\ \A i \in 1 .. Len(h) : h[i] = i
      BY <2>3, <2>4
    <2> HIDE DEF h
    <2>8. /\ Len(h) + Len(r) + Len(o) = w /\ Len(g) + n \in 1 .. w
          /\ Len(g) + n = Len(h) /\ (Len(g) + n) + (Len(q) - n) = Len(h) + Len(r)
      BY <1>l, <1>w, <2>2, <2>7
    <2>9. InLine(h, r, o, w)
      <3>1. \A i \in 1 .. Len(r) : r[i] = Len(h) + i
        BY <2>2, <2>5, <2>8
      <3>2. \A i \in 1 .. Len(o) : o[i] = Len(h) + Len(r) + i
        BY <2>6, <2>8
      <3>3. QED
        BY <2>7, <2>8, <3>1, <3>2 DEF InLine
    <2>10. h = [i \in 1 .. Len(g) + n |-> i]
      <3> DEFINE t == [i \in 1 .. Len(g) + n |-> i]
      <3>1. Len(g) + n \in Nat
        BY <1>l
      <3>2. t \in Seq(Nat) /\ Len(t) = Len(g) + n /\ \A i \in 1 .. Len(g) + n : t[i] = i
        BY <3>1
      <3> HIDE DEF t
      <3>3. h = t
        BY <2>7, <3>2, SeqEqual
      <3>4. QED
        BY <3>3 DEF t
    <2>11. QED
      BY <2>8, <2>9, <2>10 DEF s, r, h
  <1>4. QED
    BY <1>1, <1>2, <1>3

(* So it is for an end that has not closed. *)
Conserved ==
    \A e \in Ends :
        /\ dc[e] = "open" => state[e] = "open"
        /\ dc[e] # "closed" => InLine(got[e], unread[e], out[Peer(e)], wrote[Peer(e)])

(* As long as no write is longer than one chunk, a channel is a pipe: what an *)
(* end reads (readData) is what its peer wrote (writeData), from the first    *)
(* piece on, each once and in order, and nothing once it has closed.          *)
THEOREM PipeRefined ==
    ASSUME MaxWrite <= Chunk
    PROVE  Spec => PipeSpec
  <1> DEFINE I == Rest /\ Named /\ Conserved
  <1>1. Init => I /\ Pipe!Init
    <2> SUFFICES ASSUME Init PROVE I /\ Pipe!Init
      OBVIOUS
    <2>1. \A side : up \in [Users -> Seq(Posted(side))] /\ down \in [Users -> Seq(Posted(side))]
                    /\ offers \in Seq(Posted(side))
      BY DEF Init
    <2>2. Rest /\ Named
      BY <2>1, EndsFacts DEF Init, Rest, Named
    <2>3. InLine(<<>>, <<>>, <<>>, 0)
      BY DEF InLine
    <2>4. Conserved
      BY <2>3, EndsFacts DEF Init, Conserved
    <2>5. Pipe!Init
      BY DEF Init, Pipe!Init, Status
    <2>6. QED
      BY <2>2, <2>4, <2>5
  <1>2. I /\ [Next]_vars => I' /\ [Pipe!Next]_Pipe!vars
    <2> SUFFICES ASSUME I, [Next]_vars PROVE I' /\ [Pipe!Next]_Pipe!vars
      OBVIOUS
    <2> USE DEF Status
    <2>t. Rest' /\ Named'
      <3>1. CASE UNCHANGED vars
        BY <3>1 DEF vars, who, signals, data, Rest, Named, Posted
      <3>2. QED
        BY <3>1, AsideStep, ClosingStep, SignalStep DEF Next, Aside, Closing
    <2>s. ASSUME UNCHANGED <<dc, wrote, out, unread, got>>,
                 \A e \in Ends : (state'[e] = "closed" <=> state[e] = "closed")
                                 /\ (state[e] = "open" => state'[e] = "open")
          PROVE  Conserved' /\ UNCHANGED Pipe!vars
      BY <2>s DEF Conserved, Pipe!vars
    <2>1. CASE UNCHANGED vars
      BY <2>t, <2>s, <2>1 DEF vars, who, data
    <2>2. ASSUME \/ Connection
                 \/ \E c \in Calls : NetworkFails(c)
                 \/ \E e \in Ends : WriteClosed(e) \/ LocalCandidate(e)
                 \/ \E u \in Users : ServiceIq(u) \/ ClientIq(u) \/ Lose(u)
          PROVE  Conserved' /\ UNCHANGED Pipe!vars
      <3>1. UNCHANGED <<who, dc, data>>
        BY <2>2 DEF Connection, NetworkFails, WriteClosed, LocalCandidate, ServiceIq, ClientIq, Lose
      <3>2. QED
        BY <2>s, <3>1 DEF who, data
    <2>3. ASSUME (\E c \in Calls, u \in Users : Call(c, u)) \/ SlotSignalOffer
          PROVE  Conserved' /\ UNCHANGED Pipe!vars
      <3>1. PICK f \in Ends : state[f] = "none" /\ state' = [state EXCEPT ![f] = "open"]
        <4>1. ASSUME NEW c \in Calls, NEW u \in Users, Call(c, u)
              PROVE  state[Client(c)] = "none" /\ state' = [state EXCEPT ![Client(c)] = "open"]
          BY <4>1 DEF Call
        <4>2. ASSUME SlotSignalOffer
              PROVE  /\ state[Peer(Head(offers).of)] = "none"
                     /\ state' = [state EXCEPT ![Peer(Head(offers).of)] = "open"]
                     /\ Head(offers).of \in Ends
          <5>1. Head(offers) \in Message
            BY <4>2 DEF SlotSignalOffer, Named, Posted
          <5>2. QED
            BY <4>2, <5>1 DEF SlotSignalOffer, Message
        <4>3. QED
          BY <2>3, <4>1, <4>2, EndsFacts
      <3>2. UNCHANGED <<dc, data>>
        BY <2>3 DEF Call, SlotSignalOffer
      <3>3. QED
        BY <2>s, <3>1, <3>2 DEF Rest, data
    <2>4. ASSUME NEW e \in Ends, OnOpen(e) PROVE Conserved' /\ Pipe!Connect(e)
      <3>1. /\ dc[e] = "none" /\ state[e] = "open" /\ dc' = [dc EXCEPT ![e] = "open"]
            /\ UNCHANGED <<who, data>>
        BY <2>4, EndsFacts DEF OnOpen, Negotiated
      <3>2. Conserved'
        BY <3>1 DEF Conserved, Rest, who, data
      <3>3. QED
        BY <3>1, <3>2 DEF Rest, Pipe!Connect, who, data
    <2>5. ASSUME NEW e \in Ends, OnClosed(e) PROVE Conserved' /\ Pipe!Over
      <3>1. dc[e] = "open" /\ dc' = [dc EXCEPT ![e] = "closed"] /\ UNCHANGED <<who, data>>
        BY <2>5 DEF OnClosed
      <3>2. Conserved'
        BY <3>1 DEF Conserved, Rest, who, data
      <3>3. \A f \in Ends : Status(f)' = IF f \in {e} THEN "over" ELSE Status(f)
        BY <3>1 DEF Rest, who
      <3>4. QED
        BY <3>1, <3>2, <3>3 DEF Pipe!Over, data
    <2>6. ASSUME NEW e \in Ends, OnMessage(e) PROVE Conserved' /\ UNCHANGED Pipe!vars
      <3>1. /\ out[Peer(e)] # <<>>
            /\ unread' = [unread EXCEPT ![e] = Append(@, Head(out[Peer(e)]))]
            /\ out' = [out EXCEPT ![Peer(e)] = Tail(@)]
            /\ UNCHANGED <<who, dc, wrote, got>>
        BY <2>6 DEF OnMessage
      <3>2. ASSUME dc[e] # "closed"
            PROVE  InLine(got[e], unread'[e], out'[Peer(e)], wrote[Peer(e)])
        <4>1. InLine(got[e], Append(unread[e], Head(out[Peer(e)])), Tail(out[Peer(e)]), wrote[Peer(e)])
          BY <3>1, <3>2, InLineFacts, EndsFacts DEF Rest, Conserved
        <4>2. unread'[e] = Append(unread[e], Head(out[Peer(e)])) /\ out'[Peer(e)] = Tail(out[Peer(e)])
          BY <3>1, EndsFacts DEF Rest
        <4>3. QED
          BY <4>1, <4>2
      <3>3. \A f \in Ends : f # e => unread'[f] = unread[f] /\ out'[Peer(f)] = out[Peer(f)]
        BY <3>1, EndsFacts DEF Rest
      <3>4. Conserved'
        BY <3>1, <3>2, <3>3 DEF Conserved, who
      <3>5. QED
        BY <3>1, <3>4 DEF Pipe!vars, who
    <2>7. ASSUME NEW e \in Ends, Write(e) PROVE Conserved' /\ Pipe!Write(e)
      <3>1. PICK n \in 1 .. MaxWrite :
                /\ wrote' = [wrote EXCEPT ![e] = @ + n]
                /\ out' = [out EXCEPT ![e] = @ \o Messages(wrote[e], n)]
        BY <2>7 DEF Write
      <3>2. dc[e] = "open" /\ UNCHANGED <<who, dc, unread, got>>
        BY <2>7 DEF Write
      <3>3. Messages(wrote[e], n) = [i \in 1 .. n |-> wrote[e] + i]
        <4>1. (n - 1) \div Chunk = 0
          OBVIOUS
        <4>2. \A i \in 1 .. n : IF i <= n - (n - 0 * Chunk) THEN FALSE ELSE i - (n - (n - 0 * Chunk)) = i
          OBVIOUS
        <4>3. QED
          BY <4>1, <4>2 DEF Messages, Rest
      <3>4. \A f \in Ends : f # Peer(e) => wrote'[Peer(f)] = wrote[Peer(f)] /\ out'[Peer(f)] = out[Peer(f)]
        BY <3>1, EndsFacts DEF Rest
      <3>5. ASSUME dc[Peer(e)] # "closed"
            PROVE  InLine(got[Peer(e)], unread[Peer(e)], out'[e], wrote'[e])
        <4>1. InLine(got[Peer(e)], unread[Peer(e)], out[e], wrote[e])
          BY <3>5, EndsFacts DEF Conserved
        <4>2. /\ got[Peer(e)] \in Seq(Nat) /\ unread[Peer(e)] \in Seq(Nat)
              /\ out[e] \in Seq(Nat) /\ wrote[e] \in Nat /\ n \in Nat
          BY EndsFacts DEF Rest
        <4>3. InLine(got[Peer(e)], unread[Peer(e)], out[e] \o [i \in 1 .. n |-> wrote[e] + i], wrote[e] + n)
          BY <4>1, <4>2, InLineFacts
        <4>4. out'[e] = out[e] \o [i \in 1 .. n |-> wrote[e] + i] /\ wrote'[e] = wrote[e] + n
          BY <3>1, <3>3 DEF Rest
        <4>5. QED
          BY <4>3, <4>4
      <3>6. Conserved'
        BY <3>2, <3>4, <3>5, EndsFacts DEF Conserved, who
      <3>7. Pipe!Write(e)
        BY <3>1, <3>2 DEF Pipe!Write, Rest, Conserved, who
      <3>8. QED
        BY <3>6, <3>7
    <2>8. ASSUME NEW e \in Ends, Read(e) PROVE Conserved' /\ Pipe!Read(e)
      <3>1. PICK n \in 1 .. Len(unread[e]) :
                /\ got' = [got EXCEPT ![e] = @ \o SubSeq(unread[e], 1, n)]
                /\ unread' = [unread EXCEPT ![e] = SubSeq(@, n + 1, Len(@))]
        BY <2>8 DEF Read
      <3>2. dc[e] = "open" /\ UNCHANGED <<who, dc, wrote, out>>
        BY <2>8 DEF Read
      <3>3. /\ InLine(got[e], unread[e], out[Peer(e)], wrote[Peer(e)])
            /\ got[e] \in Seq(Nat) /\ unread[e] \in Seq(Nat)
            /\ out[Peer(e)] \in Seq(Nat) /\ wrote[Peer(e)] \in Nat
        BY <3>2, EndsFacts DEF Conserved, Rest
      <3>4. /\ InLine(got[e] \o SubSeq(unread[e], 1, n), SubSeq(unread[e], n + 1, Len(unread[e])),
                      out[Peer(e)], wrote[Peer(e)])
            /\ got[e] \o SubSeq(unread[e], 1, n) = Pipe!Written(Len(got[e]) + n)
            /\ Len(got[e]) + n \in 1 .. wrote[Peer(e)]
        BY <3>3, InLineFacts DEF Pipe!Written
      <3>5. /\ got'[e] = got[e] \o SubSeq(unread[e], 1, n)
            /\ unread'[e] = SubSeq(unread[e], n + 1, Len(unread[e]))
            /\ \A f \in Ends : f # e => got'[f] = got[f] /\ unread'[f] = unread[f]
        BY <3>1 DEF Rest
      <3>6. Conserved'
        BY <3>2, <3>4, <3>5 DEF Conserved, who
      <3>7. Len(got[e]) + n > Len(got[e])
        BY <3>3
      <3>8. got' = [got EXCEPT ![e] = Pipe!Written(Len(got[e]) + n)]
        BY <3>1, <3>4
      <3>9. Pipe!Read(e)
        BY <3>2, <3>4, <3>7, <3>8 DEF Pipe!Read, Rest, Conserved, who
      <3>10. QED
        BY <3>6, <3>9
    <2>9. ASSUME Closing PROVE Conserved' /\ Pipe!Over
      <3>1. PICK S \in SUBSET Ends : CloseEnds(S)
        BY <2>9, EndsFacts DEF Closing, Hangup, Drop, Restart
      <3>2. Conserved'
        BY <3>1 DEF Conserved, CloseEnds
      <3>3. \A f \in Ends : Status(f)' = IF f \in S THEN "over" ELSE Status(f)
        BY <3>1 DEF CloseEnds
      <3>4. QED
        BY <3>1, <3>2, <3>3 DEF Pipe!Over, CloseEnds
    <2>10. QED
      BY <2>t, <2>1, <2>2, <2>3, <2>4, <2>5, <2>6, <2>7, <2>8, <2>9 DEF Next, Closing, Pipe!Next
  <1>3. QED
    BY <1>1, <1>2, PTL DEF Spec, PipeSpec, Pipe!Spec
=============================================================================
