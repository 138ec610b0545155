------------------------------- MODULE Tunnel -------------------------------
(***************************************************************************)
(* A VNC session through an SSH tunnel.  The back end starts a             *)
(* CSSHTunnelThread, which opens an SSH channel, listens on a local socket *)
(* and relays between the two; libVNC connects to that socket from the     *)
(* back end's thread.  What is sent is numbered, a number being what one   *)
(* recv or one read of the channel returns.                                *)
(***************************************************************************)
EXTENDS Naturals, Sequences, SequencesExt

CONSTANTS
    MaxDown,   \* bound: pieces the VNC server sends
    MaxUp,     \* bound: pieces the VNC client sends
    Room,      \* pieces the local socket holds towards the client
    Opening    \* what open() may meet: "ask" a dialog, "fail", "socket" no local socket

ASSUME BoundAssumption == MaxDown \in Nat /\ MaxUp \in Nat /\ Room \in Nat
ASSUME OpeningAssumption == Opening \subseteq {"ask", "fail", "socket"}

VARIABLES
    session,   \* the operate: "open", "stopping" (quit() was called), "gone"
    asked,     \* sigStop is queued to the main thread
    bpc,       \* the back end's thread: "start", "loop", "init" (rfbInitClient), "gone"
    events,    \* events posted to objects of the back end's thread
    held,      \* CBackendLibVNCServer::m_pThread is set
    client,    \* m_pClient: "idle", "connecting", "connected", "closed"
    tpc,       \* CSSHTunnelThread::run
    exit,      \* CSSHTunnelThread::m_bExit
    object,    \* the CSSHTunnelThread object: "none", "live", "deleted"
    cause,     \* why run() left its loop: "none", "exit", "open", "eof", "socket"
    sentDown, channel, remoteEof,  \* sent by the server, unread in the channel, EOF received
    sockDown, gotDown,             \* in the local socket, read by the client
    sentUp, sockUp, gotUp          \* and the other way

life == <<session, asked, bpc, events, held>>
thread == <<tpc, exit, object, cause>>
down == <<sentDown, channel, remoteEof, sockDown, gotDown>>
up == <<sentUp, sockUp, gotUp>>
vars == <<life, client, thread, down, up>>

TypeOK ==
    /\ session \in {"open", "stopping", "gone"} /\ asked \in BOOLEAN
    /\ bpc \in {"start", "loop", "init", "gone"}
    /\ events \in Seq({"Server", "Stop", "Free"})
    /\ held \in BOOLEAN
    /\ client \in {"idle", "connecting", "connected", "closed"}
    /\ tpc \in {"none", "open", "ask", "deaf", "listen", "relay", "report", "finish", "done"}
    /\ exit \in BOOLEAN
    /\ object \in {"none", "live", "deleted"}
    /\ cause \in {"none", "exit", "open", "eof", "socket"}
    /\ sentDown \in Nat /\ sentUp \in Nat /\ remoteEof \in BOOLEAN
    /\ \A s \in {channel, sockDown, gotDown, sockUp, gotUp} : s \in Seq(Nat)

Init ==
    /\ session = "open" /\ asked = FALSE
    /\ bpc = "start" /\ events = <<>> /\ held = FALSE /\ client = "idle"
    /\ tpc = "none" /\ exit = FALSE /\ object = "none" /\ cause = "none"
    /\ sentDown = 0 /\ sentUp = 0 /\ remoteEof = FALSE
    /\ channel = <<>> /\ sockDown = <<>> /\ gotDown = <<>> /\ sockUp = <<>> /\ gotUp = <<>>

-----------------------------------------------------------------------------
(* The tunnel's thread. *)

(* What the thread posts to the back end is lost once that thread is gone. *)
Post(e) == events' = IF bpc = "gone" THEN events ELSE Append(events, e)

Leave(why) == cause' = why /\ tpc' = "report" /\ UNCHANGED <<exit, object>>

(* CChannelSSH::open: a host key to confirm or a password to type. *)
Ask ==
    /\ tpc = "open" /\ "ask" \in Opening
    /\ tpc' = "ask"
    /\ UNCHANGED <<life, client, exit, object, cause, down, up>>

(* open() succeeds: the socket listens, sigServer. *)
Opened ==
    /\ tpc = "open"
    /\ tpc' = "listen" /\ Post("Server")
    /\ UNCHANGED <<session, asked, bpc, held, client, exit, object, cause, down, up>>

(* open() fails, with a message box of the back end. *)
OpenFails ==
    /\ tpc = "open" /\ "fail" \in Opening
    /\ Leave("open")
    /\ UNCHANGED <<life, client, down, up>>

(* OpenSocket returns false, which open() takes for success: there is no *)
(* listener, and Process finds nothing to wait for.                      *)
OpenedDeaf ==
    /\ tpc = "open" /\ "socket" \in Opening
    /\ tpc' = "deaf"
    /\ UNCHANGED <<life, client, exit, object, cause, down, up>>

Relaying == tpc \in {"listen", "relay"}

(* The loop's condition. *)
SeeExit ==
    /\ Relaying \/ tpc = "deaf"
    /\ exit
    /\ Leave("exit")
    /\ UNCHANGED <<life, client, down, up>>

(* ssh_channel_is_eof: not before what was received is read. *)
AtEof == remoteEof /\ channel = <<>>

(* Process, which the loop may have entered before exit was set: it moves as *)
(* many pieces as it finds, so several may follow.                          *)
Process == Relaying

(* Mutant: the EOF is looked at before the data. *)
EofFirst ==
    /\ Process /\ remoteEof
    /\ Leave("eof")
    /\ UNCHANGED <<life, client, down, up>>

ProcessEof ==
    /\ Process /\ AtEof
    /\ Leave("eof")
    /\ UNCHANGED <<life, client, down, up>>

(* AcceptConnect *)
AcceptConnect ==
    /\ Process /\ ~AtEof
    /\ tpc = "listen" /\ client = "connecting"
    /\ tpc' = "relay"
    /\ UNCHANGED <<life, client, exit, object, cause, down, up>>

(* Mutant: recv fills the buffer again before it was written. *)
ReadTwice ==
    /\ Process /\ ~AtEof
    /\ tpc = "relay" /\ sockUp # <<>>
    /\ gotUp' = Append(gotUp, Last(sockUp))
    /\ sockUp' = <<>>
    /\ UNCHANGED <<life, client, thread, down, sentUp>>

(* ReadConnect: recv, then a write to the channel, which blocks. *)
ReadConnect ==
    /\ Process /\ ~AtEof
    /\ tpc = "relay" /\ sockUp # <<>>
    /\ gotUp' = Append(gotUp, Head(sockUp))
    /\ sockUp' = Tail(sockUp)
    /\ UNCHANGED <<life, client, thread, down, sentUp>>

(* Mutant: the channel is read before anybody has connected. *)
ReadUnconnected ==
    /\ Process /\ channel # <<>>
    /\ channel' = Tail(channel)
    /\ sockDown' = IF tpc = "relay" THEN Append(sockDown, Head(channel)) ELSE sockDown
    /\ UNCHANGED <<life, client, thread, sentDown, remoteEof, gotDown, up>>

(* SSHReadyRead: a read of the channel, then a send that does not block and  *)
(* whose rest is not sent again.                                            *)
SSHReadyRead ==
    /\ Process /\ channel # <<>>
    /\ tpc = "relay"
    /\ channel' = Tail(channel)
    /\ \/ /\ sockDown' = IF client # "closed" /\ Len(sockDown) < Room
                         THEN Append(sockDown, Head(channel)) ELSE sockDown
          /\ UNCHANGED thread
       \/ client = "closed" /\ Leave("socket") /\ UNCHANGED sockDown
    /\ UNCHANGED <<life, client, sentDown, remoteEof, gotDown, up>>

(* Mutant: an end without an error is not reported. *)
ReportErrors ==
    /\ tpc = "report"
    /\ tpc' = "finish"
    /\ IF cause \in {"exit", "eof"} THEN UNCHANGED events ELSE Post("Stop")
    /\ UNCHANGED <<session, asked, bpc, held, client, exit, object, cause, down, up>>

(* Mutant: the error is passed on as an event nobody handles. *)
ReportAsError ==
    /\ tpc = "report"
    /\ tpc' = "finish" /\ Post("Error")
    /\ UNCHANGED <<session, asked, bpc, held, client, exit, object, cause, down, up>>

(* sigError and sigStop, after close(). *)
Report ==
    /\ tpc = "report"
    /\ tpc' = "finish" /\ Post("Stop")
    /\ UNCHANGED <<session, asked, bpc, held, client, exit, object, cause, down, up>>

(* finished(), connected to deleteLater of an object of the back end's thread. *)
Finished ==
    /\ tpc = "finish"
    /\ tpc' = "done" /\ Post("Free")
    /\ UNCHANGED <<session, asked, bpc, held, client, exit, object, cause, down, up>>

(* The user answers the dialog: authentication goes on, or the open fails. *)
Answer ==
    /\ tpc = "ask"
    /\ \/ tpc' = "listen" /\ Post("Server") /\ UNCHANGED <<exit, object, cause>>
       \/ Leave("open") /\ UNCHANGED events
    /\ UNCHANGED <<session, asked, bpc, held, client, down, up>>

TunnelStep ==
    \/ Opened \/ OpenFails \/ OpenedDeaf
    \/ SeeExit \/ ProcessEof \/ AcceptConnect \/ ReadConnect \/ SSHReadyRead
    \/ Report \/ Finished

-----------------------------------------------------------------------------
(* The back end's thread. *)

(* OnStart *)
OnStart ==
    /\ bpc = "start"
    /\ bpc' = "loop" /\ held' = TRUE
    /\ object' = "live" /\ tpc' = "open"
    /\ UNCHANGED <<session, asked, events, client, exit, cause, down, up>>

Loop == bpc = "loop" /\ session = "open"
Take(e) == Loop /\ events # <<>> /\ Head(events) = e /\ events' = Tail(events)

(* slotConnectProxyServer, up to the answer libVNC waits for.  The tunnel  *)
(* may have closed its listener.                                           *)
ConnectProxyServer ==
    /\ Take("Server")
    /\ IF tpc = "listen"
       THEN client' = "connecting" /\ bpc' = "init"
       ELSE client' = "closed" /\ UNCHANGED bpc
    /\ UNCHANGED <<session, asked, held, thread, down, up>>

TunnelClosed == tpc \in {"report", "finish", "done"}

(* The rest of it: the server speaks first, the client answers. *)
InitClient ==
    /\ bpc = "init" /\ bpc' = "loop"
    /\ \/ /\ sockDown # <<>> /\ client' = "connected"
          /\ gotDown' = Append(gotDown, Head(sockDown)) /\ sockDown' = Tail(sockDown)
          /\ sentUp' = sentUp + 1 /\ sockUp' = Append(sockUp, sentUp + 1)
       \/ /\ sockDown = <<>> /\ TunnelClosed /\ client' = "closed"
          /\ UNCHANGED <<gotDown, sockDown, sentUp, sockUp>>
    /\ UNCHANGED <<session, asked, events, held, thread, sentDown, channel, remoteEof, gotUp>>

(* OnProcess: HandleRFBServerMessage, or its failure, which ends slotTimeOut. *)
OnProcess ==
    /\ Loop /\ client = "connected"
    /\ \/ /\ sockDown # <<>>
          /\ gotDown' = Append(gotDown, Head(sockDown)) /\ sockDown' = Tail(sockDown)
          /\ UNCHANGED <<client, asked>>
       \/ /\ sockDown = <<>> /\ TunnelClosed
          /\ client' = "closed" /\ asked' = TRUE
          /\ UNCHANGED <<gotDown, sockDown>>
    /\ UNCHANGED <<session, bpc, events, held, thread, sentDown, channel, remoteEof, up>>

(* Input of the user, which the client sends. *)
ClientSend ==
    /\ Loop /\ client = "connected"
    /\ sentUp < MaxUp
    /\ sentUp' = sentUp + 1
    /\ sockUp' = IF TunnelClosed THEN sockUp ELSE Append(sockUp, sentUp + 1)
    /\ UNCHANGED <<life, client, thread, down, gotUp>>

(* sigStop of the tunnel is passed on to the operate. *)
PassStop ==
    /\ Take("Stop")
    /\ asked' = TRUE
    /\ UNCHANGED <<session, bpc, held, client, thread, down, up>>

(* deleteLater of the tunnel's object. *)
FreeTunnel ==
    /\ Take("Free")
    /\ object' = "deleted"
    /\ UNCHANGED <<session, asked, bpc, held, client, tpc, exit, cause, down, up>>

(* Mutant: Exit() only for a session that runs. *)
ExitRunning ==
    /\ bpc = "loop" /\ session = "stopping"
    /\ exit' = (held /\ client = "connected")
    /\ held' = FALSE
    /\ client' = "closed"
    /\ bpc' = "gone"
    /\ UNCHANGED <<session, asked, events, tpc, object, cause, down, up>>

(* quit() ends the loop, OnStop, the end of the thread. *)
OnStop ==
    /\ bpc = "loop" /\ session = "stopping"
    /\ exit' = held
    /\ held' = FALSE
    /\ client' = "closed"
    /\ bpc' = "gone"
    /\ UNCHANGED <<session, asked, events, tpc, object, cause, down, up>>

BackendStep ==
    \/ OnStart \/ ConnectProxyServer \/ InitClient \/ OnProcess
    \/ PassStop \/ FreeTunnel \/ OnStop

-----------------------------------------------------------------------------
(* The main thread: slotStop, COperate::Stop, slotFinished. *)

Quit == session' = "stopping"

UserStop ==
    /\ session = "open" /\ bpc # "start"
    /\ tpc # "ask"                                \* the dialog is modal
    /\ Quit
    /\ UNCHANGED <<asked, bpc, events, held, client, thread, down, up>>

DeliverStop ==
    /\ session = "open" /\ asked
    /\ Quit /\ asked' = FALSE
    /\ UNCHANGED <<bpc, events, held, client, thread, down, up>>

SlotFinished ==
    /\ session = "stopping" /\ bpc = "gone"
    /\ session' = "gone"
    /\ UNCHANGED <<asked, bpc, events, held, client, thread, down, up>>

MainStep == DeliverStop \/ SlotFinished

-----------------------------------------------------------------------------
(* The VNC server, seen through the SSH channel. *)

ServerSend ==
    /\ Relaying /\ ~remoteEof
    /\ sentDown < MaxDown
    /\ sentDown' = sentDown + 1
    /\ channel' = Append(channel, sentDown + 1)
    /\ UNCHANGED <<life, client, thread, remoteEof, sockDown, gotDown, up>>

ServerEof ==
    /\ Relaying /\ ~remoteEof
    /\ remoteEof' = TRUE
    /\ UNCHANGED <<life, client, thread, sentDown, channel, sockDown, gotDown, up>>

-----------------------------------------------------------------------------
Next == \/ TunnelStep \/ BackendStep \/ MainStep
        \/ Ask \/ Answer \/ UserStop \/ ClientSend \/ ServerSend \/ ServerEof

Spec == Init /\ [][Next]_vars

(* The threads run, the user answers, and the server, while it has something *)
(* to say, says it.                                                          *)
FairSpec ==
    /\ Spec
    /\ WF_vars(TunnelStep) /\ WF_vars(SeeExit) /\ WF_vars(BackendStep) /\ WF_vars(MainStep)
    /\ WF_vars(Answer) /\ WF_vars(ServerSend)

-----------------------------------------------------------------------------
(* Properties. *)

Sent(n) == [i \in 1 .. n |-> i]

(* What the client has, and what waits for it, is what the server sent, from *)
(* the first piece on, without a gap.                                        *)
DownInOrder == IsPrefix(gotDown \o sockDown, Sent(sentDown))

(* The same the other way. *)
UpInOrder == IsPrefix(gotUp \o sockUp, Sent(sentUp))

InOrder == DownInOrder /\ UpInOrder

(* A tunnel that ends because the server has ended has passed on everything *)
(* the server said before, unless the client closed first.                  *)
EofAfterData ==
    cause = "eof" /\ client # "closed" => gotDown \o sockDown = Sent(sentDown)

(* open() leads to a connection or to an end that is reported. *)
OpenConcludes == tpc = "open" ~> tpc \in {"relay", "report"}

(* The end of the tunnel ends the session. *)
TunnelEndStops == tpc = "report" ~> session = "gone"

(* A session that stops ends its tunnel as well, whatever each waits for. *)
StopEndsTunnel == session = "stopping" ~> (session = "gone" /\ tpc = "done")

(* "When the thread finished, the thread will be deleted." *)
TunnelDeleted == tpc = "done" ~> object = "deleted"

(* m_pThread, which Exit() is called on, is not that of a deleted object. *)
TunnelPointerValid == held => object = "live"

(* The back end outlives the open that shows its dialogs through it. *)
BackendOutlivesOpen == tpc \in {"open", "ask"} => bpc # "gone"
=============================================================================
