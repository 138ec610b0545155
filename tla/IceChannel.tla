----------------------------- MODULE IceChannel -----------------------------
(***************************************************************************)
(* Desktop sessions over ICE.  A back end calls the service of a peer: it  *)
(* opens a CChannelIce, which offers through the signal server; the        *)
(* service makes a CChannelIce for each offer.  The two exchange           *)
(* descriptions and candidates, told apart by users and channel id, until  *)
(* libdatachannel (rtc) has a data channel between them.  What is written  *)
(* to a channel is numbered.                                               *)
(***************************************************************************)
EXTENDS Naturals, Sequences, FiniteSets

CONSTANTS
    Calls,      \* CChannelIce objects opened by back ends
    Users,      \* users of the signal server, one process each, who call the service
    MaxSent,    \* bound: pieces an end writes
    MaxWrite,   \* bound: pieces of one write
    MaxTalking, \* bound: calls there are once something is written
    Chunk,      \* DEFAULT_MAX_MESSAGE_SIZE, in pieces
    MaxFaults   \* bound: signals lost, networks that fail, callers' processes that restart

ASSUME BoundAssumption ==
    /\ MaxSent \in Nat /\ MaxWrite \in Nat /\ MaxTalking \in Nat
    /\ MaxFaults \in Nat
    /\ Chunk \in Nat \ {0}

VARIABLES
    counter,   \* GenerateID's id, of each process
    name,      \* of each end: the calling user and m_szChannelId
    state,     \* of each end, the CChannelIce object: "none", "open", "closed"
    up, down,  \* signals under way from and to each user
    offers,    \* sigOffer queued to the service's thread
    binding,   \* the ends slotSignalOffer has opened but not connected: one or none
    gathered,  \* ends whose rtc has found its candidate
    heard,     \* signals given to each end's rtc
    dc,        \* m_dataChannel of each end: "none", "open", "closed"
    missed,    \* signals of a data channel that nobody was connected to
    wrote, out, unread, got,  \* pieces written, in rtc, in m_data, read
    hung,      \* ends whose thread flushes for ever
    faults     \* <<"lost", call>>, <<"network", call>>, <<"restart", user>> so far

who == <<counter, name, state>>
signals == <<up, down, offers, binding, gathered, heard, faults>>
data == <<wrote, out, unread, got>>
vars == <<who, signals, dc, missed, data, hung>>

Client(c) == <<c, "client">>
Service(c) == <<c, "service">>
Ends == Calls \X {"client", "service"}
Peer(e) == <<e[1], IF e[2] = "client" THEN "service" ELSE "client">>
IsService(e) == e[2] = "service"

Names == Users \X Nat
NoName == <<>>
Message == [kind : {"offer", "answer", "candidate"}, name : Names, of : Ends]

TypeOK ==
    /\ counter \in [Users -> Nat]
    /\ name \in [Ends -> Names \cup {NoName}]
    /\ state \in [Ends -> {"none", "open", "closed"}]
    /\ up \in [Users -> Seq(Message)] /\ down \in [Users -> Seq(Message)]
    /\ offers \in Seq(Message)
    /\ binding \in SUBSET Ends /\ gathered \in SUBSET Ends /\ hung \in SUBSET Ends
    /\ heard \in [Ends -> SUBSET Message]
    /\ dc \in [Ends -> {"none", "open", "closed"}]
    /\ missed \in SUBSET ({"open", "closed"} \X Ends)
    /\ faults \in SUBSET (({"lost", "network"} \X Calls) \cup ({"restart"} \X Users))
    /\ wrote \in [Ends -> Nat]
    /\ out \in [Ends -> Seq(Nat)] /\ unread \in [Ends -> Seq(Nat)] /\ got \in [Ends -> Seq(Nat)]

Init ==
    /\ counter = [u \in Users |-> 0]
    /\ name = [e \in Ends |-> NoName]
    /\ state = [e \in Ends |-> "none"]
    /\ up = [u \in Users |-> <<>>] /\ down = [u \in Users |-> <<>>]
    /\ offers = <<>> /\ binding = {} /\ gathered = {} /\ hung = {} /\ missed = {} /\ faults = {}
    /\ heard = [e \in Ends |-> {}]
    /\ dc = [e \in Ends |-> "none"]
    /\ wrote = [e \in Ends |-> 0]
    /\ out = [e \in Ends |-> <<>>] /\ unread = [e \in Ends |-> <<>>] /\ got = [e \in Ends |-> <<>>]

(* A service has one thread for all its connections, a back end its own. *)
Running(e) ==
    IF IsService(e) THEN binding = {} /\ \A c \in Calls : Service(c) \notin hung
    ELSE e \notin hung

-----------------------------------------------------------------------------
(* Signalling. *)

Signal(kind, n, e) == [kind |-> kind, name |-> n, of |-> e]

(* SendDescription, SendCandidate: queued in the sender's main thread, in order. *)
Send(m) ==
    LET u == m.name[1]
    IN  IF IsService(m.of)
        THEN down' = [down EXCEPT ![u] = Append(@, m)] /\ UNCHANGED up
        ELSE up' = [up EXCEPT ![u] = Append(@, m)] /\ UNCHANGED down

(* Mutant: the id does not count. *)
GenerateSameID(u) == UNCHANGED counter

(* Mutant: it counts down. *)
GenerateIDDown(u) == counter' = [counter EXCEPT ![u] = @ - 1]

(* GenerateID *)
GenerateID(u) == counter' = [counter EXCEPT ![u] = @ + 1]

Called == {c \in Calls : state[Client(c)] # "none"}
Silent == \A e \in Ends : wrote[e] = 0

(* IceInit: open(user, peer, true).  rtc makes the offer. *)
Call(c, u) ==
    /\ state[Client(c)] = "none"
    /\ Silent \/ Cardinality(Called) < MaxTalking
    /\ state' = [state EXCEPT ![Client(c)] = "open"]
    /\ LET n == <<u, counter[u]>>
       IN  name' = [name EXCEPT ![Client(c)] = n] /\ Send(Signal("offer", n, Client(c)))
    /\ GenerateID(u)
    /\ UNCHANGED <<offers, binding, gathered, heard, faults, dc, missed, data, hung>>

(* onLocalCandidate: rtc gathers once it has described itself. *)
LocalCandidate(e) ==
    /\ state[e] = "open" /\ e \notin gathered
    /\ gathered' = gathered \cup {e}
    /\ Send(Signal("candidate", name[e], e))
    /\ UNCHANGED <<who, offers, binding, heard, faults, dc, missed, data, hung>>

(* Mutant: the answer is told from others by its users only. *)
OfTheUser(e, m) == state[e] = "open" /\ name[e][1] = m.name[1]

(* Mutant: the users are compared the wrong way round. *)
FromMyself(e, m) == state[e] = "open" /\ name[e] = m.name /\ m.of = e

(* The filter of slotSignalReceiverDescription and slotSignalReceiverCandidate; *)
(* a closed channel is disconnected from the signal.                            *)
IsFor(e, m) == state[e] = "open" /\ name[e] = m.name

(* Whether a slot waits in a thread's queue first makes no difference to it. *)
Hear(m, side) ==
    heard' = [e \in Ends |->
                 IF e[2] = side /\ IsFor(e, m) THEN heard[e] \cup {m} ELSE heard[e]]

(* proecssIq in the service's process.  A candidate whose channel is not yet *)
(* there is heard by nobody.                                                 *)
ServiceIq(u) ==
    /\ up[u] # <<>>
    /\ LET m == Head(up[u])
       IN  IF m.kind = "offer"
           THEN offers' = Append(offers, m) /\ UNCHANGED heard
           ELSE Hear(m, "service") /\ UNCHANGED offers
    /\ up' = [up EXCEPT ![u] = Tail(@)]
    /\ UNCHANGED <<who, down, binding, gathered, faults, dc, missed, data, hung>>

(* proecssIq in a caller's process. *)
ClientIq(u) ==
    /\ down[u] # <<>>
    /\ Hear(Head(down[u]), "client")
    /\ down' = [down EXCEPT ![u] = Tail(@)]
    /\ UNCHANGED <<who, up, offers, binding, gathered, faults, dc, missed, data, hung>>

Fault(what) ==
    /\ Cardinality(faults) < MaxFaults /\ what \notin faults
    /\ faults' = faults \cup {what}

(* slotSendPackage while there is no connection. *)
Lose(u) ==
    /\ \/ /\ up[u] # <<>> /\ Fault(<<"lost", Head(up[u]).of[1]>>)
          /\ up' = [up EXCEPT ![u] = Tail(@)] /\ UNCHANGED down
       \/ /\ down[u] # <<>> /\ Fault(<<"lost", Head(down[u]).of[1]>>)
          /\ down' = [down EXCEPT ![u] = Tail(@)] /\ UNCHANGED up
    /\ UNCHANGED <<who, offers, binding, gathered, heard, dc, missed, data, hung>>

(* slotSignalOffer, up to open(), which takes the offer's users and id and *)
(* answers.                                                               *)
SlotSignalOffer ==
    /\ offers # <<>>
    /\ LET m == Head(offers)
           e == Peer(m.of)
       IN  /\ Running(e) /\ state[e] = "none"    \* a new object
           /\ state' = [state EXCEPT ![e] = "open"]
           /\ name' = [name EXCEPT ![e] = m.name]
           /\ heard' = [heard EXCEPT ![e] = {m}]
           /\ Send(Signal("answer", m.name, e))
           /\ binding' = {e}
    /\ offers' = Tail(offers)
    /\ UNCHANGED <<counter, gathered, faults, dc, missed, data, hung>>

(* The rest: CConnection, which connects to the channel. *)
Connection ==
    /\ binding # {}
    /\ binding' = {}
    /\ UNCHANGED <<who, up, down, offers, gathered, heard, faults, dc, missed, data, hung>>

-----------------------------------------------------------------------------
(* rtc, in threads of its own. *)

Described(c) == Signal("answer", name[Client(c)], Service(c)) \in heard[Client(c)]
Reachable(c) == \E e \in {Client(c), Service(c)} : \E m \in heard[e] : m.kind = "candidate" /\ m.of = Peer(e)
Negotiated(c) ==
    /\ state[Client(c)] = "open" /\ state[Service(c)] = "open"
    /\ Described(c) /\ Reachable(c)

Miss(what, e) == missed' = IF e \in binding THEN missed \cup {<<what, e>>} ELSE missed

(* onDataChannel with the label, onOpen: QIODevice::open and sigConnected. *)
OnOpen(e) ==
    /\ Negotiated(e[1]) /\ dc[e] = "none"
    /\ name[e] = name[Peer(e)]
    /\ dc' = [dc EXCEPT ![e] = "open"]
    /\ Miss("open", e)
    /\ UNCHANGED <<who, signals, data, hung>>

NetworkFails(c) ==
    /\ \E e \in {Client(c), Service(c)} : dc[e] = "open"
    /\ Fault(<<"network", c>>)
    /\ UNCHANGED <<who, up, down, offers, binding, gathered, heard, dc, missed, data, hung>>

(* onClosed *)
OnClosed(e) ==
    /\ dc[e] = "open"
    /\ dc[Peer(e)] = "closed" \/ <<"network", e[1]>> \in faults
    /\ dc' = [dc EXCEPT ![e] = "closed"]
    /\ Miss("closed", e)
    /\ UNCHANGED <<who, signals, data, hung>>

(* onMessage *)
OnMessage(e) ==
    /\ dc[e] = "open" /\ out[Peer(e)] # <<>>
    /\ unread' = [unread EXCEPT ![e] = Append(@, Head(out[Peer(e)]))]
    /\ out' = [out EXCEPT ![Peer(e)] = Tail(@)]
    /\ UNCHANGED <<who, signals, dc, missed, wrote, got, hung>>

-----------------------------------------------------------------------------
(* The protocol above the channel: the service speaks first, once its       *)
(* connection has heard sigConnected.                                       *)

MaySpeak(e) ==
    IF IsService(e) THEN <<"open", e>> \notin missed ELSE got[e] # <<>>

(* writeData's messages for a write of n pieces after the first k: while more *)
(* than a chunk is left it sends the first chunk, then as much as is left of  *)
(* the beginning.                                                             *)
Messages(k, n) ==
    LET rest == n - ((n - 1) \div Chunk) * Chunk
    IN  [i \in 1 .. n |->
            IF i <= n - rest THEN k + ((i - 1) % Chunk) + 1 ELSE k + i - (n - rest)]

(* writeData, of a data channel that is open. *)
Write(e) ==
    /\ dc[e] = "open" /\ Running(e) /\ MaySpeak(e)
    /\ Cardinality(Called) <= MaxTalking
    /\ \E n \in 1 .. MaxWrite :
          /\ wrote[e] + n <= MaxSent
          /\ wrote' = [wrote EXCEPT ![e] = @ + n]
          /\ out' = [out EXCEPT ![e] = @ \o Messages(wrote[e], n)]
    /\ UNCHANGED <<who, signals, dc, missed, unread, got, hung>>

(* writeData of one that is closed returns -2, which flushBuffer takes for a *)
(* number of bytes: the flush never ends.                                    *)
WriteClosed(e) ==
    /\ dc[e] = "closed" /\ state[e] = "open" /\ Running(e) /\ MaySpeak(e)
    /\ hung' = hung \cup {e}
    /\ UNCHANGED <<who, signals, dc, missed, data>>

(* Mutant: what a partial read has taken stays in m_data. *)
ReadAndKeep(e) ==
    /\ dc[e] = "open" /\ Running(e)
    /\ \E n \in 1 .. Len(unread[e]) :
          /\ got' = [got EXCEPT ![e] = @ \o SubSeq(unread[e], 1, n)]
          /\ unread' = [unread EXCEPT ![e] = IF n = Len(@) THEN <<>> ELSE @]
    /\ UNCHANGED <<who, signals, dc, missed, wrote, out, hung>>

(* readData; with a closed data channel it gives nothing, whatever m_data holds. *)
Read(e) ==
    /\ dc[e] = "open" /\ Running(e)
    /\ \E n \in 1 .. Len(unread[e]) :
          /\ got' = [got EXCEPT ![e] = @ \o SubSeq(unread[e], 1, n)]
          /\ unread' = [unread EXCEPT ![e] = SubSeq(@, n + 1, Len(@))]
    /\ UNCHANGED <<who, signals, dc, missed, wrote, out, hung>>

(* The object's rtc and its data go as well. *)
CloseEnds(S) ==
    /\ state' = [e \in Ends |-> IF e \in S THEN "closed" ELSE state[e]]
    /\ dc' = [e \in Ends |-> IF e \in S THEN "closed" ELSE dc[e]]
    /\ heard' = [e \in Ends |-> IF e \in S THEN {} ELSE heard[e]]
    /\ unread' = [e \in Ends |-> IF e \in S THEN <<>> ELSE unread[e]]
    /\ UNCHANGED <<up, down, offers, binding, gathered, wrote, out, got>>

(* OnStop of the back end: close(). *)
Hangup(c) ==
    /\ state[Client(c)] = "open" /\ Running(Client(c))
    /\ CloseEnds({Client(c)})
    /\ UNCHANGED <<counter, name, faults, missed, hung>>

(* slotDisconnected, slotError: the connection leaves m_lstConnection, its *)
(* channel goes with it.                                                   *)
Drop(c) ==
    /\ state[Service(c)] = "open" /\ Running(Service(c))
    /\ dc[Service(c)] # "none"
    /\ <<"closed", Service(c)>> \notin missed
    /\ CloseEnds({Service(c)})
    /\ UNCHANGED <<counter, name, faults, missed, hung>>

(* A caller's process dies and starts anew. *)
Restart(u) ==
    /\ Fault(<<"restart", u>>)
    /\ counter' = [counter EXCEPT ![u] = 0]
    /\ LET gone == {e \in Ends : ~IsService(e) /\ state[e] = "open" /\ name[e][1] = u}
       IN  CloseEnds(gone) /\ hung' = hung \ gone
    /\ UNCHANGED <<name, missed>>

-----------------------------------------------------------------------------
Next ==
    \/ \E u \in Users : ServiceIq(u) \/ ClientIq(u) \/ Lose(u) \/ Restart(u)
    \/ \E c \in Calls, u \in Users : Call(c, u)
    \/ \E c \in Calls : Hangup(c) \/ Drop(c) \/ NetworkFails(c)
    \/ SlotSignalOffer \/ Connection
    \/ \E e \in Ends : LocalCandidate(e) \/ OnOpen(e) \/ OnClosed(e) \/ OnMessage(e)
                       \/ Write(e) \/ WriteClosed(e) \/ Read(e)

Spec == Init /\ [][Next]_vars

(* The processes' threads run, the signal server delivers, rtc gathers and *)
(* connects.                                                               *)
FairSpec ==
    /\ Spec
    /\ \A u \in Users : WF_vars(ServiceIq(u)) /\ WF_vars(ClientIq(u))
    /\ WF_vars(SlotSignalOffer) /\ WF_vars(Connection)
    /\ \A e \in Ends : WF_vars(LocalCandidate(e)) /\ WF_vars(OnOpen(e))

-----------------------------------------------------------------------------
(* Properties. *)

(* An end gives its rtc only what the other end of its own call has sent. *)
OwnPeerAlways == \A e \in Ends : \A m \in heard[e] : m.of = Peer(e)

(* The same while the ids of GenerateID are unique, before any restart. *)
OwnPeer == (\A u \in Users : <<"restart", u>> \notin faults) => OwnPeerAlways

(* A channel is a pipe, see IcePipe: nothing is lost, repeated or reordered *)
(* between ends that are up.                                                *)
Status(e) == IF state[e] = "closed" \/ dc[e] = "closed" THEN "over"
             ELSE IF dc[e] = "open" THEN "up" ELSE "down"
Pipe == INSTANCE IcePipe WITH status <- [e \in Ends |-> Status(e)]
PipeSpec == Pipe!Spec

Over(c) == state[Client(c)] = "closed" \/ state[Service(c)] = "closed"
Connected(c) == dc[Client(c)] # "none" /\ dc[Service(c)] # "none"

(* A call gets its data channel, whatever candidates come too early, unless *)
(* it is given up, a signal is lost, or the service's thread hangs.         *)
CallConnects ==
    \A c \in Calls :
        state[Client(c)] = "open" ~>
            Connected(c) \/ Over(c) \/ <<"lost", c>> \in faults \/ \E d \in Calls : Service(d) \in hung

(* Without the exception for signals that are lost. *)
CallConcludes ==
    \A c \in Calls :
        state[Client(c)] = "open" ~>
            Connected(c) \/ Over(c) \/ \E d \in Calls : Service(d) \in hung

(* No thread flushes for ever. *)
FlushEnds == hung = {}

(* The service's connection hears that its channel is connected. *)
GreetingHeard == \A e \in Ends : <<"open", e>> \notin missed
=============================================================================
