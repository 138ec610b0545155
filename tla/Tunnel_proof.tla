----------------------------- MODULE Tunnel_proof -----------------------------
(* Proofs about Tunnel, for any numbers of pieces either side sends and any *)
(* way to open.                                                            *)
EXTENDS Tunnel, TLAPS

USE BoundAssumption, OpeningAssumption

EventSet == {"Server", "Stop", "Free"}

(* Every variable keeps its type: the back end's thread is posted events it *)
(* takes, and what the streams hold are pieces.                            *)
THEOREM TunnelTyped == Spec => []TypeOK
  <1>1. Init => TypeOK
    <2>1. <<>> \in Seq(Nat) /\ <<>> \in Seq({"Server", "Stop", "Free"})
      OBVIOUS
    <2>2. Init => /\ \A s \in {channel, sockDown, gotDown, sockUp, gotUp} : s = <<>>
                  /\ sentDown = 0 /\ sentUp = 0 /\ events = <<>>
      BY DEF Init
    <2>3. Init => /\ session \in {"open", "stopping", "gone"} /\ asked \in BOOLEAN
                  /\ bpc \in {"start", "loop", "init", "gone"} /\ held \in BOOLEAN
                  /\ client \in {"idle", "connecting", "connected", "closed"}
                  /\ tpc \in {"none", "open", "ask", "deaf", "listen", "relay", "report", "finish", "done"}
                  /\ exit \in BOOLEAN /\ object \in {"none", "live", "deleted"}
                  /\ cause \in {"none", "exit", "open", "eof", "socket"} /\ remoteEof \in BOOLEAN
      BY DEF Init
    <2> QED  BY <2>1, <2>2, <2>3 DEF TypeOK
  <1>2. TypeOK /\ [Next]_vars => TypeOK'
    <2> SUFFICES ASSUME TypeOK, [Next]_vars PROVE TypeOK'
      OBVIOUS
    <2> DEFINE Control ==
                  /\ session \in {"open", "stopping", "gone"} /\ asked \in BOOLEAN
                  /\ bpc \in {"start", "loop", "init", "gone"}
                  /\ held \in BOOLEAN
                  /\ client \in {"idle", "connecting", "connected", "closed"}
                  /\ tpc \in {"none", "open", "ask", "deaf", "listen", "relay",
                              "report", "finish", "done"}
                  /\ exit \in BOOLEAN
                  /\ object \in {"none", "live", "deleted"}
                  /\ cause \in {"none", "exit", "open", "eof", "socket"}
               Data == /\ sentDown \in Nat /\ sentUp \in Nat /\ remoteEof \in BOOLEAN
                       /\ channel \in Seq(Nat) /\ sockDown \in Seq(Nat) /\ gotDown \in Seq(Nat)
                       /\ sockUp \in Seq(Nat) /\ gotUp \in Seq(Nat)
    <2>1. TypeOK <=> Control /\ events \in Seq(EventSet) /\ Data
      BY DEF TypeOK, EventSet
    <2>2. (Control /\ events \in Seq(EventSet) /\ Data)' => TypeOK'
      BY DEF TypeOK, EventSet
    <2>3. ASSUME NEW e \in EventSet, Post(e) PROVE events' \in Seq(EventSet)
      BY <2>1, <2>3 DEF Post
    <2>4. ASSUME NEW e, Take(e) PROVE events' \in Seq(EventSet)
      BY <2>1, <2>4 DEF Take
    <2>5. ASSUME NEW q \in Seq(Nat) PROVE /\ q # <<>> => Head(q) \in Nat /\ Tail(q) \in Seq(Nat)
                                          /\ \A n \in Nat : Append(q, n) \in Seq(Nat)
      BY <2>5
    <2>6. Control'
      <3>1. CASE TunnelStep \/ Ask \/ Answer
        BY <2>1, <3>1 DEF TunnelStep, Ask, Answer, Opened, OpenFails, OpenedDeaf, SeeExit, ProcessEof,
           AcceptConnect, ReadConnect, SSHReadyRead, Report, Finished, Leave, life, thread
      <3>2. CASE OnStart \/ ConnectProxyServer \/ InitClient \/ OnProcess
        <4>1. CASE OnStart
          BY <2>1, <4>1 DEF OnStart
        <4>2. CASE ConnectProxyServer
          BY <2>1, <4>2 DEF ConnectProxyServer, thread
        <4>3. CASE InitClient
          BY <2>1, <4>3 DEF InitClient, thread
        <4>4. CASE OnProcess
          <5>1. UNCHANGED <<session, bpc, held, tpc, exit, object, cause>>
            BY <4>4 DEF OnProcess, thread
          <5>2. client' \in {client, "closed"} /\ asked' \in {asked, TRUE}
            BY <4>4 DEF OnProcess
          <5>3. asked' \in BOOLEAN
            BY <2>1, <5>2, Zenon
          <5> QED  BY <2>1, <5>1, <5>2, <5>3
        <4> QED  BY <3>2, <4>1, <4>2, <4>3, <4>4
      <3>3. CASE PassStop \/ FreeTunnel \/ OnStop
        <4>1. CASE PassStop \/ FreeTunnel
          BY <2>1, <4>1 DEF PassStop, FreeTunnel, thread
        <4>2. CASE OnStop
          BY <2>1, <4>2, Zenon DEF OnStop
        <4> QED  BY <3>3, <4>1, <4>2
      <3>4. CASE MainStep \/ UserStop
        BY <2>1, <3>4 DEF MainStep, DeliverStop, SlotFinished, Quit, UserStop, thread
      <3>5. CASE ClientSend \/ ServerSend \/ ServerEof \/ UNCHANGED vars
        BY <2>1, <3>5 DEF ClientSend, ServerSend, ServerEof, life, thread, vars
      <3> QED  BY <3>1, <3>2, <3>3, <3>4, <3>5 DEF Next, BackendStep
    <2>7. events' \in Seq(EventSet)
      <3>1. CASE UNCHANGED events \/ (\E e \in EventSet : Post(e)) \/ \E e : Take(e)
        BY <2>1, <2>3, <2>4, <3>1
      <3>2. CASE TunnelStep \/ Ask \/ Answer
        BY <3>1, <3>2 DEF TunnelStep, Ask, Answer, Opened, OpenFails, OpenedDeaf, SeeExit, ProcessEof,
           AcceptConnect, ReadConnect, SSHReadyRead, Report, Finished, life, EventSet
      <3>3. CASE BackendStep
        BY <3>1, <3>3 DEF BackendStep, OnStart, ConnectProxyServer, InitClient, OnProcess, PassStop,
           FreeTunnel, OnStop
      <3>4. CASE MainStep \/ UserStop \/ ClientSend \/ ServerSend \/ ServerEof \/ UNCHANGED vars
        BY <3>1, <3>4 DEF MainStep, DeliverStop, SlotFinished, UserStop, ClientSend, ServerSend,
           ServerEof, life, vars
      <3> QED  BY <3>2, <3>3, <3>4 DEF Next
    <2>8. Data'
      <3>1. CASE ReadConnect
        BY <2>1, <2>5, <3>1 DEF ReadConnect, down
      <3>2. CASE SSHReadyRead
        BY <2>1, <2>5, <3>2 DEF SSHReadyRead, up
      <3>3. CASE InitClient
        <4>1. sockUp' \in Seq(Nat) /\ sentUp' \in Nat
          <5>1. sentUp + 1 \in Nat
            BY <2>1
          <5> QED  BY <2>1, <2>5, <3>3, <5>1 DEF InitClient
        <4>2. gotDown' \in Seq(Nat) /\ sockDown' \in Seq(Nat)
          BY <2>1, <2>5, <3>3 DEF InitClient
        <4> QED  BY <2>1, <3>3, <4>1, <4>2 DEF InitClient
      <3>4. CASE OnProcess
        BY <2>1, <2>5, <3>4 DEF OnProcess, up
      <3>5. CASE ClientSend \/ ServerSend \/ ServerEof
        <4>1. sentUp + 1 \in Nat /\ sentDown + 1 \in Nat
          BY <2>1
        <4>2. CASE ClientSend
          BY <2>1, <2>5, <4>1, <4>2 DEF ClientSend, down
        <4>3. CASE ServerSend
          BY <2>1, <2>5, <4>1, <4>3 DEF ServerSend, up
        <4> QED  BY <2>1, <3>5, <4>2, <4>3 DEF ServerEof, up
      <3>6. CASE UNCHANGED <<down, up>>
        BY <2>1, <3>6 DEF down, up
      <3>7. \/ ReadConnect \/ SSHReadyRead \/ InitClient \/ OnProcess
            \/ ClientSend \/ ServerSend \/ ServerEof \/ UNCHANGED <<down, up>>
        BY DEF Next, TunnelStep, BackendStep, MainStep, vars, Ask, Answer, Opened, OpenFails,
           OpenedDeaf, SeeExit, ProcessEof, AcceptConnect, Report, Finished, OnStart,
           ConnectProxyServer, PassStop, FreeTunnel, OnStop, DeliverStop, SlotFinished, UserStop
      <3> QED  BY <3>1, <3>2, <3>3, <3>4, <3>5, <3>6, <3>7
    <2> QED  BY <2>2, <2>6, <2>7, <2>8
  <1> QED  BY <1>1, <1>2, PTL DEF Spec

-----------------------------------------------------------------------------
(* The back end is told once that the tunnel listens, before anything else, *)
(* and libVNC connects once: a client that was closed stays closed.         *)
Once ==
    /\ \A i \in 1 .. Len(events) : events[i] = "Server" => i = 1 /\ (client = "idle" \/ bpc = "gone")
    /\ tpc \in {"none", "open", "ask"} => events = <<>> /\ (client = "idle" \/ bpc = "gone")
    /\ bpc = "start" => tpc = "none"
    /\ bpc = "init" <=> client = "connecting"
    /\ cause # "none" => TunnelClosed

(* The pieces of q are the ones after piece number b. *)
Run(q, b) == \A i \in 1 .. Len(q) : q[i] = b + i

(* The client has the first pieces, the socket the next, and the channel the *)
(* rest, until what the channel held was dropped for a client that closed.   *)
FlowDown ==
    /\ sentDown <= MaxDown /\ Len(gotDown) + Len(sockDown) <= sentDown
    /\ Run(gotDown, 0) /\ Run(sockDown, Len(gotDown))
    /\ client # "closed" =>
          /\ Len(gotDown) + Len(sockDown) + Len(channel) = sentDown
          /\ Run(channel, Len(gotDown) + Len(sockDown))
          /\ cause = "eof" => channel = <<>>

(* The same the other way, until the tunnel is closed. *)
FlowUp ==
    /\ Len(gotUp) + Len(sockUp) <= sentUp
    /\ Run(gotUp, 0) /\ Run(sockUp, Len(gotUp))
    /\ ~TunnelClosed => Len(gotUp) + Len(sockUp) = sentUp
    /\ client \in {"idle", "connecting"} => sentUp = 0

Flow == Once /\ FlowDown /\ FlowUp

(* The data of a session arrives in the order it was sent, without a gap or a *)
(* piece twice, and an end of the server's stream comes after all of it.     *)
THEOREM StreamsInOrder ==
    ASSUME Room >= MaxDown
    PROVE  Spec => [](InOrder /\ EofAfterData)
  <1>1. Init => Flow
    <2>1. Init => /\ events = <<>> /\ tpc = "none" /\ client = "idle" /\ bpc = "start" /\ cause = "none"
                  /\ gotDown = <<>> /\ sockDown = <<>> /\ channel = <<>> /\ gotUp = <<>> /\ sockUp = <<>>
                  /\ sentDown = 0 /\ sentUp = 0
      BY DEF Init
    <2>2. Run(<<>>, 0) /\ Len(<<>>) = 0 /\ 0 + 0 = 0 /\ 0 + 0 + 0 = 0
      BY DEF Run
    <2>3. Init => Once
      BY <2>1, <2>2 DEF Once
    <2>4. Init => FlowDown /\ FlowUp
      BY <2>1, <2>2, BoundAssumption DEF FlowDown, FlowUp
    <2> QED  BY <2>3, <2>4 DEF Flow
  (* How far each thread is, whatever the streams hold. *)
  <1>4. TypeOK /\ Once /\ [Next]_vars => Once'
    <2> SUFFICES ASSUME TypeOK, Once, [Next]_vars PROVE Once'
      OBVIOUS
    <2>1. events \in Seq(EventSet) /\ Len(events) \in Nat
      BY DEF TypeOK, EventSet
    <2>2. ASSUME NEW e \in {"Stop", "Free"}, Post(e)
          PROVE  \A i \in 1 .. Len(events') : events'[i] = "Server" => i \in 1 .. Len(events) /\ events[i] = "Server"
      BY <2>1, <2>2 DEF Post
    <2>3. ASSUME Post("Server"), events = <<>>
          PROVE  \A i \in 1 .. Len(events') : i = 1 /\ bpc # "gone"
      BY <2>1, <2>3 DEF Post
    <2>4. ASSUME NEW e, Take(e)
          PROVE  /\ \A i \in 1 .. Len(events') : events'[i] # "Server"
                 /\ e = "Server" => client = "idle"
                 /\ events # <<>> /\ bpc = "loop"
      <3>1. /\ events # <<>> /\ bpc = "loop" /\ events[1] = e /\ Len(events') = Len(events) - 1
            /\ \A i \in 1 .. Len(events') : events'[i] = events[i + 1]
        BY <2>1, <2>4 DEF Take, Loop
      <3>2. ASSUME NEW i \in 1 .. Len(events') PROVE events'[i] # "Server"
        <4>1. i + 1 \in 1 .. Len(events) /\ i + 1 # 1 /\ events'[i] = events[i + 1]
          BY <2>1, <3>1, <3>2
        <4> QED  BY <4>1 DEF Once
      <3>3. Len(events) >= 1
        BY <2>1, <3>1
      <3> QED  BY <2>1, <3>1, <3>2, <3>3 DEF Once
    <2>5. CASE Opened \/ OpenFails \/ OpenedDeaf \/ Ask \/ Answer
      <3>1. tpc \in {"open", "ask"} /\ events = <<>> /\ UNCHANGED <<bpc, client>>
        BY <2>5 DEF Opened, OpenFails, OpenedDeaf, Ask, Answer, Once, life
      <3>2. \/ Post("Server") /\ tpc' = "listen" /\ UNCHANGED cause
            \/ UNCHANGED <<events, cause>> /\ tpc' \in {"ask", "deaf"}
            \/ UNCHANGED events /\ tpc' = "report"
        BY <2>5 DEF Opened, OpenFails, OpenedDeaf, Ask, Answer, Leave, life
      <3> QED  BY <2>1, <2>3, <3>1, <3>2 DEF Once, TunnelClosed
    <2>6. CASE SeeExit \/ ProcessEof \/ AcceptConnect \/ ReadConnect \/ SSHReadyRead
      BY <2>6 DEF SeeExit, ProcessEof, AcceptConnect, ReadConnect, SSHReadyRead, Once, Process, Relaying,
                  Leave, TunnelClosed, life, thread
    <2>7. CASE Report \/ Finished
      BY <2>2, <2>7 DEF Report, Finished, Once, TunnelClosed
    <2>8. CASE OnStart
      BY <2>8 DEF OnStart, Once, TunnelClosed
    <2>9. CASE ConnectProxyServer
      BY <2>4, <2>9 DEF ConnectProxyServer, Once, TunnelClosed, thread
    <2>10. CASE InitClient \/ OnProcess
      BY <2>10 DEF InitClient, OnProcess, Once, TunnelClosed, thread, Loop
    <2>11. CASE PassStop \/ FreeTunnel
      BY <2>4, <2>11 DEF PassStop, FreeTunnel, Once, TunnelClosed, thread
    <2>12. CASE OnStop
      BY <2>12 DEF OnStop, Once, TunnelClosed
    <2>13. CASE MainStep \/ UserStop \/ ClientSend \/ ServerSend \/ ServerEof \/ UNCHANGED vars
      BY <2>13 DEF MainStep, DeliverStop, SlotFinished, UserStop, ClientSend, ServerSend, ServerEof,
                   Once, TunnelClosed, vars, life, thread
    <2> QED
      BY <2>5, <2>6, <2>7, <2>8, <2>9, <2>10, <2>11, <2>12, <2>13 DEF Next, TunnelStep, BackendStep
  (* What is read, sent on and received moves along the streams in order; only *)
  (* a client that has closed is sent nothing more.                            *)
  <1>5. TypeOK /\ Flow /\ [Next]_vars => FlowDown' /\ FlowUp'
    <2> SUFFICES ASSUME TypeOK, Flow, [Next]_vars PROVE FlowDown' /\ FlowUp'
      OBVIOUS
    <2>1. /\ sentDown \in Nat /\ sentUp \in Nat
          /\ channel \in Seq(Nat) /\ sockDown \in Seq(Nat) /\ gotDown \in Seq(Nat)
          /\ sockUp \in Seq(Nat) /\ gotUp \in Seq(Nat)
      BY DEF TypeOK
    <2>2. PICK g \in Nat, s \in Nat, c \in Nat, h \in Nat, k \in Nat :
               g = Len(gotDown) /\ s = Len(sockDown) /\ c = Len(channel) /\ h = Len(gotUp) /\ k = Len(sockUp)
      BY <2>1
    <2>0. Once /\ FlowDown /\ FlowUp
      BY DEF Flow
    (* The rest of the state. *)
    <2>4. /\ client' # "closed" => client # "closed"
          /\ client' \in {"idle", "connecting"} => client \in {"idle", "connecting"}
          /\ ~TunnelClosed' => ~TunnelClosed
          /\ cause' = "eof" => (cause = "eof" \/ channel = <<>>)
      <3>1. CASE TunnelStep \/ Ask \/ Answer
        <4>1. UNCHANGED client /\ (TunnelClosed => TunnelClosed')
              /\ (cause' # cause => (cause' # "eof" \/ channel = <<>>))
          BY <3>1 DEF TunnelStep, Ask, Answer, Opened, OpenFails, OpenedDeaf, SeeExit, ProcessEof, AtEof,
             AcceptConnect, ReadConnect, SSHReadyRead, Report, Finished, Process, Relaying, Leave,
             TunnelClosed, thread
        <4> QED  BY <4>1
      <3>2. CASE BackendStep
        <4>1. CASE OnStart
          BY <4>1 DEF OnStart, Flow, Once, TunnelClosed
        <4>2. CASE ConnectProxyServer
          <5>1. bpc = "loop" /\ Len(events) >= 1 /\ events[1] = "Server"
            BY <4>2 DEF ConnectProxyServer, Take, Loop, TypeOK
          <5>2. client = "idle" /\ UNCHANGED <<tpc, cause>>
            BY <4>2, <5>1 DEF ConnectProxyServer, thread, Flow, Once, TypeOK
          <5> QED  BY <5>2 DEF TunnelClosed
        <4>3. CASE InitClient \/ OnProcess
          BY <4>3 DEF InitClient, OnProcess, thread, Flow, Once, TunnelClosed
        <4>4. CASE PassStop \/ FreeTunnel \/ OnStop
          BY <4>4 DEF PassStop, FreeTunnel, OnStop, thread, TunnelClosed
        <4> QED  BY <3>2, <4>1, <4>2, <4>3, <4>4 DEF BackendStep
      <3>3. CASE MainStep \/ UserStop \/ ClientSend \/ ServerSend \/ ServerEof \/ UNCHANGED vars
        BY <3>3 DEF MainStep, DeliverStop, SlotFinished, UserStop, ClientSend, ServerSend, ServerEof,
                    TunnelClosed, vars, life, thread
      <3> QED  BY <3>1, <3>2, <3>3 DEF Next
    <2>5. UNCHANGED down => FlowDown'
      BY <2>4 DEF Flow, FlowDown, down
    <2>6. UNCHANGED up => FlowUp'
      BY <2>4 DEF Flow, FlowUp, up
    (* A piece is taken from a stream, or added to it. *)
    <2>7. ASSUME NEW q \in Seq(Nat), NEW b \in Nat, Run(q, b), q # <<>>
          PROVE  /\ Head(q) = b + 1 /\ Run(Tail(q), b + 1)
                 /\ Len(Tail(q)) = Len(q) - 1 /\ Len(q) >= 1
      <3>1. /\ Len(Tail(q)) = Len(q) - 1 /\ Head(q) = q[1] /\ Len(q) >= 1 /\ Len(q) \in Nat
            /\ \A i \in 1 .. Len(Tail(q)) : Tail(q)[i] = q[i + 1]
        BY <2>7
      <3> QED  BY <2>7, <3>1 DEF Run
    <2>8. ASSUME NEW q \in Seq(Nat), NEW b \in Nat, NEW n \in Nat, Run(q, b), n = b + Len(q) + 1
          PROVE  Run(Append(q, n), b) /\ Len(Append(q, n)) = Len(q) + 1
      <3>1. /\ Len(Append(q, n)) = Len(q) + 1 /\ Append(q, n)[Len(q) + 1] = n /\ Len(q) \in Nat
            /\ \A i \in 1 .. Len(q) : Append(q, n)[i] = q[i]
        BY <2>8
      <3> QED  BY <2>8, <3>1 DEF Run
    <2>9. CASE SSHReadyRead
      <3>1. /\ channel # <<>> /\ channel' = Tail(channel) /\ UNCHANGED <<client, sentDown, gotDown>>
            /\ UNCHANGED up
            /\ \/ /\ sockDown' = IF client # "closed" /\ Len(sockDown) < Room
                                 THEN Append(sockDown, Head(channel)) ELSE sockDown
                  /\ UNCHANGED cause
               \/ client = "closed" /\ UNCHANGED sockDown
        BY <2>9 DEF SSHReadyRead, thread
      <3>3. CASE client = "closed"
        <4>1. Run(gotDown, 0) /\ Run(sockDown, g) /\ g + s <= sentDown /\ sentDown <= MaxDown
          BY <2>0, <2>2 DEF FlowDown
        <4>2. UNCHANGED <<client, sockDown, gotDown, sentDown>>
          BY <3>1, <3>3
        <4> QED  BY <2>2, <2>6, <3>1, <3>3, <4>1, <4>2 DEF FlowDown
      <3>4. CASE client # "closed"
        <4>1. /\ g + s + c = sentDown /\ sentDown <= MaxDown /\ Run(channel, g + s) /\ Run(sockDown, g)
              /\ Run(gotDown, 0) /\ cause # "eof" /\ UNCHANGED cause
          BY <2>0, <2>2, <3>1, <3>4 DEF FlowDown
        <4>2. /\ Head(channel) = g + s + 1 /\ c >= 1
              /\ Run(channel', g + (s + 1)) /\ Len(channel') = c - 1
          <5>1. g + s \in Nat /\ (g + s) + 1 = g + (s + 1)
            OBVIOUS
          <5> QED  BY <2>1, <2>2, <2>7, <3>1, <4>1, <5>1
        <4>3. s < Room
          BY <2>1, <4>1, <4>2, Room >= MaxDown, BoundAssumption
        <4>4. sockDown' = Append(sockDown, g + s + 1)
          BY <2>2, <3>1, <3>4, <4>2, <4>3
        <4>5. Len(sockDown') = s + 1 /\ Run(sockDown', g)
          <5>1. g + s + 1 \in Nat /\ g + s + 1 = g + Len(sockDown) + 1
            BY <2>2
          <5> QED  BY <2>1, <2>2, <2>8, <4>1, <4>4, <5>1
        <4>6. g + (s + 1) + (c - 1) = sentDown /\ g + (s + 1) <= sentDown
          BY <4>1, <4>2
        <4> QED  BY <2>2, <2>6, <3>1, <3>4, <4>1, <4>2, <4>5, <4>6 DEF FlowDown
      <3> QED  BY <2>6, <3>1, <3>3, <3>4
    (* The client reads. *)
    <2>10. ASSUME sockDown # <<>>, gotDown' = Append(gotDown, Head(sockDown)), sockDown' = Tail(sockDown),
                  UNCHANGED <<sentDown, channel, cause>>, client # "closed" \/ UNCHANGED client
           PROVE  FlowDown'
      <3>1. Run(gotDown, 0) /\ Run(sockDown, g) /\ g + s <= sentDown /\ sentDown <= MaxDown
        BY <2>0, <2>2 DEF FlowDown
      <3>2. Head(sockDown) = g + 1 /\ Run(sockDown', g + 1) /\ Len(sockDown') = s - 1 /\ s >= 1
        BY <2>1, <2>2, <2>7, <2>10, <3>1
      <3>3. Run(gotDown', 0) /\ Len(gotDown') = g + 1
        BY <2>1, <2>2, <2>8, <2>10, <3>1, <3>2
      <3>4. (g + 1) + (s - 1) = g + s
        OBVIOUS
      <3>5. client' # "closed" => /\ g + s + c = sentDown /\ Run(channel, g + s)
                                  /\ cause = "eof" => channel = <<>>
        BY <2>0, <2>2, <2>4 DEF FlowDown
      <3> QED  BY <2>2, <2>10, <3>1, <3>2, <3>3, <3>4, <3>5 DEF FlowDown
    <2>16. CASE OnProcess
      <3>1. UNCHANGED up /\ UNCHANGED <<sentDown, channel, cause>> /\ client = "connected"
        BY <2>16 DEF OnProcess, thread
      <3>2. CASE UNCHANGED <<gotDown, sockDown>>
        <4>1. /\ Run(gotDown, 0) /\ Run(sockDown, g) /\ g + s <= sentDown /\ sentDown <= MaxDown
              /\ g + s + c = sentDown /\ Run(channel, g + s) /\ (cause = "eof" => channel = <<>>)
          BY <2>0, <2>2, <3>1 DEF FlowDown
        <4> QED  BY <2>2, <2>6, <3>1, <3>2, <4>1 DEF FlowDown
      <3> QED  BY <2>6, <2>10, <2>16, <3>1, <3>2 DEF OnProcess
    <2>17. CASE InitClient
      <3>1. /\ client = "connecting" /\ client' \in {"connected", "closed"}
            /\ UNCHANGED <<sentDown, channel, cause, gotUp>>
            /\ Run(gotUp, 0) /\ h = 0 /\ k = 0 /\ sentUp = 0
        BY <2>0, <2>1, <2>2, <2>17 DEF InitClient, thread, Once, FlowUp
      <3>2. CASE UNCHANGED <<gotDown, sockDown, sentUp, sockUp>>
        <4>1. FlowDown'
          BY <2>0, <3>1, <3>2 DEF FlowDown
        <4>2. FlowUp'
          BY <2>0, <2>4, <3>1, <3>2 DEF FlowUp
        <4> QED  BY <4>1, <4>2
      <3>3. CASE /\ sockDown # <<>>
                 /\ gotDown' = Append(gotDown, Head(sockDown)) /\ sockDown' = Tail(sockDown)
                 /\ sentUp' = sentUp + 1 /\ sockUp' = Append(sockUp, sentUp + 1)
        <4>1. FlowDown'
          BY <2>10, <3>1, <3>3
        <4>2. Run(sockUp, 0)
          BY <2>2, <3>1 DEF Run
        <4>3. Len(sockUp') = 1 /\ Run(sockUp', 0) /\ sentUp' = 1
          <5>1. sockUp' = Append(sockUp, 1) /\ 1 \in Nat /\ 0 \in Nat /\ 1 = 0 + Len(sockUp) + 1
            BY <2>2, <3>1, <3>3
          <5>2. Len(sockUp') = Len(sockUp) + 1 /\ Run(sockUp', 0)
            BY <2>1, <2>8, <4>2, <5>1
          <5> QED  BY <2>2, <3>1, <3>3, <5>2
        <4>4. FlowUp'
          BY <2>2, <3>1, <4>3 DEF FlowUp
        <4> QED  BY <4>1, <4>4
      <3> QED  BY <2>17, <3>2, <3>3 DEF InitClient
    <2>11. CASE ReadConnect
      <3>1. sockUp # <<>> /\ gotUp' = Append(gotUp, Head(sockUp)) /\ sockUp' = Tail(sockUp)
            /\ UNCHANGED <<client, tpc, sentUp>> /\ UNCHANGED down
        BY <2>11 DEF ReadConnect, thread
      <3>2. Run(gotUp, 0) /\ Run(sockUp, h) /\ h + k <= sentUp
        BY <2>0, <2>2 DEF FlowUp
      <3>3. Head(sockUp) = h + 1 /\ Run(sockUp', h + 1) /\ Len(sockUp') = k - 1 /\ k >= 1
        BY <2>1, <2>2, <2>7, <3>1, <3>2
      <3>4. Run(gotUp', 0) /\ Len(gotUp') = h + 1
        BY <2>1, <2>2, <2>8, <3>1, <3>2, <3>3
      <3>5. (h + 1) + (k - 1) = h + k
        OBVIOUS
      <3>6. /\ ~TunnelClosed' => h + k = sentUp
            /\ client' \in {"idle", "connecting"} => sentUp = 0
        BY <2>0, <2>2, <2>4 DEF FlowUp
      <3> QED  BY <2>2, <2>5, <3>1, <3>2, <3>3, <3>4, <3>5, <3>6 DEF FlowUp
    <2>12. CASE ClientSend
      <3>1. /\ client = "connected" /\ sentUp' = sentUp + 1
            /\ sockUp' = (IF TunnelClosed THEN sockUp ELSE Append(sockUp, sentUp + 1))
            /\ UNCHANGED <<client, tpc, gotUp>> /\ UNCHANGED down
        BY <2>12 DEF ClientSend, thread
      <3>2. Run(gotUp, 0) /\ Run(sockUp, h) /\ h + k <= sentUp
        BY <2>0, <2>2 DEF FlowUp
      <3>3. CASE TunnelClosed
        <4>1. TunnelClosed' /\ UNCHANGED sockUp /\ h + k <= sentUp'
          BY <2>1, <3>1, <3>2, <3>3 DEF TunnelClosed
        <4> QED  BY <2>2, <2>5, <3>1, <3>2, <4>1 DEF FlowUp
      <3>4. CASE ~TunnelClosed
        <4>1. h + k = sentUp /\ sockUp' = Append(sockUp, h + k + 1)
          BY <2>0, <2>2, <3>1, <3>4 DEF FlowUp
        <4>2. Len(sockUp') = k + 1 /\ Run(sockUp', h)
          <5>1. h + k + 1 \in Nat /\ h + k + 1 = h + Len(sockUp) + 1
            BY <2>2
          <5> QED  BY <2>1, <2>2, <2>8, <3>2, <4>1, <5>1
        <4>3. h + (k + 1) = sentUp'
          BY <3>1, <4>1
        <4> QED  BY <2>1, <2>2, <2>5, <3>1, <3>2, <4>2, <4>3 DEF FlowUp
      <3> QED  BY <3>3, <3>4
    <2>13. CASE ServerSend
      <3>1. /\ Relaying /\ sentDown < MaxDown /\ sentDown' = sentDown + 1
            /\ channel' = Append(channel, sentDown + 1)
            /\ UNCHANGED <<client, cause, sockDown, gotDown>> /\ UNCHANGED up
        BY <2>13 DEF ServerSend, thread
      <3>2. cause # "eof"
        BY <2>0, <3>1 DEF Relaying, Once, TunnelClosed
      <3>3. /\ g + s <= sentDown' /\ sentDown' <= MaxDown /\ Run(gotDown, 0) /\ Run(sockDown, g)
        <4>1. g + s <= sentDown /\ Run(gotDown, 0) /\ Run(sockDown, g)
          BY <2>0, <2>2 DEF FlowDown
        <4> QED  BY <2>1, <3>1, <4>1, BoundAssumption
      <3>4. CASE client = "closed"
        BY <2>2, <2>6, <3>1, <3>3, <3>4 DEF FlowDown
      <3>5. CASE client # "closed"
        <4>1. g + s + c = sentDown /\ Run(channel, g + s)
          BY <2>0, <2>2, <3>1, <3>5 DEF FlowDown
        <4>2. Run(channel', g + s) /\ Len(channel') = c + 1
          <5>1. g + s \in Nat /\ sentDown + 1 = (g + s) + c + 1 /\ sentDown + 1 \in Nat
            BY <4>1
          <5> QED  BY <2>1, <2>2, <2>8, <3>1, <4>1, <5>1
        <4>3. g + s + (c + 1) = sentDown'
          BY <3>1, <4>1
        <4>4. FlowDown'
          BY <2>2, <3>1, <3>2, <3>3, <3>5, <4>2, <4>3 DEF FlowDown
        <4> QED  BY <2>6, <3>1, <4>4
      <3> QED  BY <3>4, <3>5
    <2>14. CASE ServerEof
      <3>1. FlowDown'
        BY <2>4, <2>14 DEF ServerEof, Flow, FlowDown
      <3> QED  BY <2>6, <2>14, <3>1 DEF ServerEof
    <2>15. \/ ReadConnect \/ SSHReadyRead \/ InitClient \/ OnProcess
           \/ ClientSend \/ ServerSend \/ ServerEof \/ UNCHANGED <<down, up>>
      BY DEF Next, TunnelStep, BackendStep, MainStep, vars, Ask, Answer, Opened, OpenFails,
         OpenedDeaf, SeeExit, ProcessEof, AcceptConnect, Report, Finished, OnStart,
         ConnectProxyServer, PassStop, FreeTunnel, OnStop, DeliverStop, SlotFinished, UserStop
    <2> QED  BY <2>5, <2>6, <2>9, <2>16, <2>17, <2>11, <2>12, <2>13, <2>14, <2>15
  <1>2. TypeOK /\ Flow /\ [Next]_vars => Flow'
    BY <1>4, <1>5 DEF Flow
  <1>3. TypeOK /\ Flow => InOrder /\ EofAfterData
    <2> SUFFICES ASSUME TypeOK, Flow PROVE InOrder /\ EofAfterData
      OBVIOUS
    <2>1. /\ gotDown \in Seq(Nat) /\ sockDown \in Seq(Nat) /\ gotUp \in Seq(Nat) /\ sockUp \in Seq(Nat)
          /\ sentDown \in Nat /\ sentUp \in Nat
      BY DEF TypeOK
    <2>2. ASSUME NEW got \in Seq(Nat), NEW sock \in Seq(Nat), NEW n \in Nat,
                 Run(got, 0), Run(sock, Len(got)), Len(got) + Len(sock) <= n
          PROVE  /\ IsPrefix(got \o sock, Sent(n))
                 /\ Len(got) + Len(sock) = n => got \o sock = Sent(n)
      <3>1. PICK g \in Nat, s \in Nat : g = Len(got) /\ s = Len(sock) /\ g + s <= n
        BY <2>2
      <3>2. got \o sock \in Seq(Nat) /\ Len(got \o sock) = g + s
        BY <2>2, <3>1
      <3>3. Sent(n) \in Seq(Nat) /\ Len(Sent(n)) = n /\ \A i \in 1 .. n : Sent(n)[i] = i
        BY <2>2 DEF Sent
      <3>4. ASSUME NEW i \in 1 .. g + s PROVE (got \o sock)[i] = i
        <4>1. CASE i <= g
          <5>1. i \in 1 .. Len(got) /\ got[i] = 0 + i
            BY <2>2, <3>1, <3>4, <4>1 DEF Run
          <5>2. (got \o sock)[i] = got[i]
            BY <2>2, <5>1
          <5> QED  BY <5>1, <5>2
        <4>2. CASE ~(i <= g)
          <5>0. PICK j \in 1 .. s : i = g + j
            <6>1. i - g \in 1 .. s /\ i = g + (i - g)
              BY <3>4, <4>2
            <6> QED  BY <6>1
          <5>1. sock[j] = i
            BY <2>2, <3>1, <5>0 DEF Run
          <5>2. (got \o sock)[i] = sock[j]
            BY <2>2, <3>1, <5>0
          <5> QED  BY <5>1, <5>2
        <4> QED  BY <4>1, <4>2
      <3>5. IsPrefix(got \o sock, Sent(n))
        <4>1. ASSUME NEW q \in Seq(Nat), NEW m \in Nat, m <= Len(q)
              PROVE  SubSeq(q, 1, m) = [i \in 1 .. m |-> q[i]]
          BY <4>1
        <4>2. SubSeq(got \o sock, 1, g + s) = [i \in 1 .. g + s |-> (got \o sock)[i]]
          BY <3>1, <3>2, <4>1
        <4>3. SubSeq(Sent(n), 1, g + s) = [i \in 1 .. g + s |-> Sent(n)[i]]
          BY <3>1, <3>3, <4>1
        <4>4. \A i \in 1 .. g + s : (got \o sock)[i] = Sent(n)[i]
          BY <3>1, <3>3, <3>4
        <4>5. SubSeq(got \o sock, 1, g + s) = SubSeq(Sent(n), 1, g + s)
          BY <4>2, <4>3, <4>4
        <4> QED  BY <3>1, <3>2, <3>3, <4>5 DEF IsPrefix
      <3>6. ASSUME g + s = n PROVE got \o sock = Sent(n)
        <4>1. ASSUME NEW q \in Seq(Nat) PROVE q = [i \in 1 .. Len(q) |-> q[i]]
          BY <4>1
        <4>2. got \o sock = [i \in 1 .. n |-> (got \o sock)[i]]
          BY <3>2, <3>6, <4>1
        <4>3. [i \in 1 .. n |-> (got \o sock)[i]] = [i \in 1 .. n |-> i]
          BY <3>4, <3>6
        <4> QED  BY <4>2, <4>3 DEF Sent
      <3> QED  BY <3>1, <3>5, <3>6
    <2>3. InOrder
      BY <2>1, <2>2 DEF InOrder, DownInOrder, UpInOrder, Flow, FlowDown, FlowUp
    <2>4. EofAfterData
      <3> SUFFICES ASSUME cause = "eof", client # "closed" PROVE gotDown \o sockDown = Sent(sentDown)
        BY DEF EofAfterData
      <3>1. /\ channel = <<>> /\ Run(gotDown, 0) /\ Run(sockDown, Len(gotDown))
            /\ Len(gotDown) + Len(sockDown) + Len(channel) = sentDown
        BY DEF Flow, FlowDown
      <3>2. Len(gotDown) + Len(sockDown) = sentDown /\ Len(gotDown) + Len(sockDown) <= sentDown
        BY <2>1, <3>1
      <3> QED  BY <2>1, <2>2, <3>1, <3>2
    <2> QED  BY <2>3, <2>4
  <1> QED  BY <1>1, <1>2, <1>3, TunnelTyped, PTL DEF Spec
==============================================================================
