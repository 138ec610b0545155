------------------------------ MODULE Session ------------------------------
(***************************************************************************)
(* The life of a session: MainWindow opens a COperate, the operate starts  *)
(* a CBackendThread, the thread runs a CBackend and signals back through   *)
(* the event queue of the main thread, and MainWindow deletes the operate  *)
(* when it is told that the session has finished.                          *)
(*                                                                         *)
(*   main thread   mainwindow.cpp, Operate*.cpp, Manager.cpp, Plugin.cpp   *)
(*   thread of o   BackendThread.cpp, Backend.cpp, the plugin's backend    *)
(*                                                                         *)
(* The main thread's event queue is the FIFO of posted events of Qt; its   *)
(* nested event loops (dialogs) are a stack of frames.                     *)
(***************************************************************************)
EXTENDS Naturals, Sequences, FiniteSets

CONSTANTS
    Operate,    \* the sessions the user may open, each at most once
    Parented,   \* those whose CBackendThread is a child of the operate
    Direct,     \* those without a thread: the protocol runs on the main thread
    Silent,     \* those whose backend never emits sigFinished from OnStop
    Emits,      \* the signals the backend of each session may raise
    NoOperate   \* no session

ASSUME KindAssumption ==
    /\ Parented \subseteq Operate
    /\ Direct \subseteq Operate
    /\ Silent \subseteq Operate
    /\ Direct \cap (Parented \cup Silent) = {}
    /\ NoOperate \notin Operate
    /\ Emits \in [Operate -> SUBSET {"Running", "Stop", "Ask"}]

Threaded == Operate \ Direct

VARIABLES
    \* --- owned by the main thread
    life,      \* the COperate object: "absent", "live", "cleaned", "deleted"
    active,    \* MainWindow::m_Operates
    shown,     \* operates for which slotRunning has enabled the view
    held,      \* m_pThread of the operate is not nullptr
    queue,     \* events posted to objects of the main thread
    frames,    \* nested event loops: the dialogs that are open
    todo,      \* what is left of a foreach over m_Operates that stops them
    main,      \* where the main thread is in CBackendThread::quit()
    app,       \* "running", "closing" (closeEvent), "exited", "aborted" (qFatal)
    \* --- owned by the thread of each operate
    tpc,       \* where the CBackendThread is
    quitting,  \* QThread::quit() was called on it
    backend,   \* the CBackend object: "none", "live", "deferred", "gone"
    ptr,       \* CBackendThread::m_pBackend is not nullptr
    emitted    \* what the backend has already signalled

uiVars     == <<life, active, shown, held, frames, todo, main, app>>
threadVars == <<tpc, quitting, backend, ptr, emitted>>
vars       == <<life, active, shown, held, queue, frames, todo, main, app,
                tpc, quitting, backend, ptr, emitted>>

(* The steps of CBackendThread::run and of the QThread around it. *)
PC == {"none",                \* no thread yet
       "new",                 \* start() was called
       "start", "askStart",   \* in CBackend::Start; blocked in a dialog of it
       "fail", "clear",       \* Start failed: Stop, then drop the backend
       "exec", "busy",        \* in the event loop; in OnProcess
       "askBusy",             \* blocked in a dialog from OnProcess
       "stop", "drop",        \* exec returned: Stop, then drop the backend
       "unwind",              \* run is returning
       "ending",              \* QThread is finishing: finished() is emitted
       "done", "freed"}       \* the thread has finished; it is deleted

Asking     == {"askStart", "askBusy"}
(* run() still uses the operate: everything up to the end of Stop().       *)
Owning     == {"new", "start", "askStart", "fail", "exec", "busy",
               "askBusy", "stop"}
(* ~QThread calls qFatal for a thread that is here.                        *)
Unfinished == Owning \cup {"clear", "drop", "unwind"}
Signals    == {"Running", "Stop", "Ask"}

EventType == Signals \cup {"Finished", "Delete", "Reap", "Free"}
Events == [type : EventType, op : Operate, depth : Nat]
Frames == [kind : {"settings", "ask"}, op : Operate]
Event(t, o, d) == [type |-> t, op |-> o, depth |-> d]
Idle == [at |-> "idle", op |-> NoOperate]

TypeOK ==
    /\ life \in [Operate -> {"absent", "live", "cleaned", "deleted"}]
    /\ active \subseteq Operate
    /\ shown \subseteq Operate
    /\ held \in [Operate -> BOOLEAN]
    /\ queue \in Seq(Events)
    /\ frames \in Seq(Frames)
    /\ todo \subseteq Operate
    /\ main \in [at : {"idle", "check", "wake"}, op : Operate \cup {NoOperate}]
    /\ app \in {"running", "closing", "exited", "aborted"}
    /\ tpc \in [Operate -> PC]
    /\ quitting \in [Operate -> BOOLEAN]
    /\ backend \in [Operate -> {"none", "live", "deferred", "gone"}]
    /\ ptr \in [Operate -> BOOLEAN]
    /\ emitted \in [Operate -> SUBSET Signals]

Init ==
    /\ life = [o \in Operate |-> "absent"]
    /\ active = {} /\ shown = {} /\ todo = {}
    /\ held = [o \in Operate |-> FALSE]
    /\ queue = <<>> /\ frames = <<>>
    /\ main = Idle
    /\ app = "running"
    /\ tpc = [o \in Operate |-> "none"]
    /\ quitting = [o \in Operate |-> FALSE]
    /\ backend = [o \in Operate |-> "none"]
    /\ ptr = [o \in Operate |-> FALSE]
    /\ emitted = [o \in Operate |-> {}]

-----------------------------------------------------------------------------
(* The main thread: opening a session. *)

Up       == app \in {"running", "closing"}
(* The main thread is in its event loop, or in that of the top dialog. *)
MainIdle == Up /\ main = Idle /\ todo = {}
(* The dialogs are application modal: the windows take input without one. *)
UserFree == MainIdle /\ app = "running" /\ frames = <<>>

(* MainWindow::slotFinished and CManager::DeleteOperate: forget the        *)
(* session, Clean() it and post its deferred delete.  A session that       *)
(* m_Operates no longer holds is left alone.                               *)
SlotFinished(o, q) ==
    IF o \in active
    THEN /\ active' = active \ {o}
         /\ life' = [life EXCEPT ![o] = "cleaned"]
         /\ queue' = Append(q, Event("Delete", o, Len(frames)))
    ELSE UNCHANGED <<active, life>> /\ queue' = q

(* Mutant: the view is enabled when the thread starts, not at sigRunning. *)
StartShown(o) ==
    /\ o \in Threaded
    /\ active' = active \cup {o} /\ shown' = shown \cup {o}
    /\ life' = [life EXCEPT ![o] = "live"]
    /\ held' = [held EXCEPT ![o] = TRUE]
    /\ tpc' = [tpc EXCEPT ![o] = "new"]
    /\ UNCHANGED <<queue, todo, main, app, quitting, backend, ptr, emitted>>

(* MainWindow::Start past the settings dialog: the session enters          *)
(* m_Operates and its thread is started.                                   *)
StartThreaded(o) ==
    /\ o \in Threaded
    /\ active' = active \cup {o}
    /\ life' = [life EXCEPT ![o] = "live"]
    /\ held' = [held EXCEPT ![o] = TRUE]
    /\ tpc' = [tpc EXCEPT ![o] = "new"]
    /\ UNCHANGED <<shown, queue, todo, main, app, quitting, backend, ptr, emitted>>

(* The same for an operate that works on the main thread.  If its Start    *)
(* fails, MainWindow::Start calls Stop, which emits sigFinished at once.   *)
StartDirect(o) ==
    /\ o \in Direct
    /\ \/ /\ active' = active \cup {o}
          /\ life' = [life EXCEPT ![o] = "live"]
          /\ shown' = shown \cup {o}
          /\ UNCHANGED queue
       \/ /\ life' = [life EXCEPT ![o] = "cleaned"]
          /\ queue' = Append(queue, Event("Delete", o, Len(frames')))
          /\ UNCHANGED <<active, shown>>
    /\ UNCHANGED <<held, todo, main, app, threadVars>>

(* The innermost dialog is the head; only it takes input. *)
Top == Head(frames)
PushFrame(k, o) == frames' = <<[kind |-> k, op |-> o]>> \o frames
PopFrame == frames' = Tail(frames)

(* slotStart: open the settings dialog of a new operate. *)
Configure(o) ==
    /\ UserFree
    /\ life[o] = "absent"
    /\ life' = [life EXCEPT ![o] = "live"]
    /\ PushFrame("settings", o)
    /\ UNCHANGED <<active, shown, held, queue, todo, main, app, threadVars>>

(* slotOpenFile: start from a saved configuration. *)
OpenFile(o) ==
    /\ UserFree
    /\ life[o] = "absent"
    /\ UNCHANGED frames
    /\ StartThreaded(o) \/ StartDirect(o)

SettingsAccepted ==
    /\ MainIdle /\ frames # <<>> /\ Top.kind = "settings"
    /\ PopFrame
    /\ StartThreaded(Top.op) \/ StartDirect(Top.op)

SettingsRejected ==
    /\ MainIdle /\ frames # <<>> /\ Top.kind = "settings"
    /\ PopFrame
    /\ life' = [life EXCEPT ![Top.op] = "cleaned"]
    /\ queue' = Append(queue, Event("Delete", Top.op, Len(frames) - 1))
    /\ UNCHANGED <<active, shown, held, todo, main, app, threadVars>>

(* The user answers the dialog of a backend: slotBlock... returns and the  *)
(* blocked thread goes on.                                                 *)
Answer ==
    /\ MainIdle /\ frames # <<>> /\ Top.kind = "ask"
    /\ PopFrame
    /\ tpc' = [tpc EXCEPT ![Top.op] = IF @ = "askStart" THEN "start"
                                      ELSE IF @ = "askBusy" THEN "busy" ELSE @]
    /\ UNCHANGED <<life, active, shown, held, queue, todo, main, app,
                   quitting, backend, ptr, emitted>>

-----------------------------------------------------------------------------
(* The main thread: stopping sessions. *)

(* slotCloseView and the Stop actions: m_Operates is copied and the chosen *)
(* operates are stopped one after the other.                               *)
StopSome(S) ==
    /\ UserFree
    /\ S \subseteq active /\ S # {}
    /\ todo' = S
    /\ UNCHANGED <<life, active, shown, held, queue, frames, main, app, threadVars>>

StopOne   == \E o \in active : StopSome({o})
StopOther == \E o \in active : StopSome(active \ {o})
StopAll   == StopSome(active)

(* closeEvent stops every session; the program does not wait for them. *)
CloseApp ==
    /\ UserFree
    /\ todo' = active
    /\ app' = "closing"
    /\ UNCHANGED <<life, active, shown, held, queue, frames, main, threadVars>>

(* Mutant: Stop reports the end at once instead of leaving it to the thread. *)
StopAtOnce(o, q) ==
    /\ SlotFinished(o, q)
    /\ quitting' = [quitting EXCEPT ![o] = o \in Threaded]
    /\ held' = [held EXCEPT ![o] = FALSE]
    /\ UNCHANGED <<main, shown, frames, app, tpc, backend, ptr, emitted>>

(* COperate::Stop, with q the queue the caller leaves.  A threaded operate *)
(* asks its thread to quit, once; a direct one finishes at once.           *)
Stop(o, q) ==
    /\ IF o \in Direct
       THEN SlotFinished(o, q) /\ UNCHANGED <<held, main, quitting>>
       ELSE /\ queue' = q
            /\ UNCHANGED <<active, life>>
            /\ IF held[o]
               THEN /\ quitting' = [quitting EXCEPT ![o] = TRUE]
                    /\ held' = [held EXCEPT ![o] = FALSE]
                    /\ main' = [at |-> "check", op |-> o]
               ELSE UNCHANGED <<quitting, held, main>>
    /\ UNCHANGED <<shown, frames, app, tpc, backend, ptr, emitted>>

StopNext ==
    /\ Up /\ main = Idle
    /\ \E o \in todo : todo' = todo \ {o} /\ Stop(o, queue)

(* The peer of a direct operate hangs up: its socket or device emits       *)
(* sigStop on the main thread and slotStop runs at once.                   *)
Hangup(o) ==
    /\ MainIdle
    /\ o \in Direct \cap active
    /\ UNCHANGED todo
    /\ Stop(o, queue)

(* The rest of CBackendThread::quit(): test m_pBackend, then use it.  The  *)
(* thread writes the pointer and deletes the object without a lock.        *)
QuitCheck ==
    /\ Up /\ main.at = "check"
    /\ main' = IF ptr[main.op] THEN [main EXCEPT !.at = "wake"] ELSE Idle
    /\ UNCHANGED <<life, active, shown, held, queue, frames, todo, app, threadVars>>

QuitWake ==
    /\ Up /\ main.at = "wake"
    /\ main' = Idle
    /\ UNCHANGED <<life, active, shown, held, queue, frames, todo, app, threadVars>>

-----------------------------------------------------------------------------
(* The main thread: delivering the head of the queue. *)

Head1  == Head(queue)
(* A deferred delete waits until the dialogs opened since have returned. *)
Deferred == Head1.type \in {"Delete", "Free"} /\ Len(frames) > Head1.depth
(* Qt drops the events of an object when it deletes the object. *)
Dropped  == Head1.type \notin {"Reap", "Free", "Delete"} /\ life[Head1.op] = "deleted"

Take(t) ==
    /\ MainIdle /\ queue # <<>>
    /\ Head1.type = t
    /\ ~Deferred /\ ~Dropped

Skip ==
    /\ MainIdle /\ queue # <<>>
    /\ \/ Deferred /\ queue' = Append(Tail(queue), Head1)
       \/ Dropped /\ queue' = Tail(queue)
    /\ UNCHANGED <<uiVars, threadVars>>

DeliverRunning ==
    /\ Take("Running")
    /\ queue' = Tail(queue)
    /\ shown' = shown \cup {Head1.op}
    /\ UNCHANGED <<life, active, held, frames, todo, main, app, threadVars>>

(* Mutant: sigStop is not connected to slotStop. *)
DeliverStopIgnored ==
    /\ Take("Stop")
    /\ queue' = Tail(queue)
    /\ UNCHANGED <<uiVars, threadVars>>

DeliverStop ==
    /\ Take("Stop")
    /\ UNCHANGED todo
    /\ Stop(Head1.op, Tail(queue))

DeliverAsk ==
    /\ Take("Ask")
    /\ queue' = Tail(queue)
    /\ PushFrame("ask", Head1.op)
    /\ UNCHANGED <<life, active, shown, held, todo, main, app, threadVars>>

DeliverFinished ==
    /\ Take("Finished")
    /\ SlotFinished(Head1.op, Tail(queue))
    /\ UNCHANGED <<shown, held, frames, todo, main, app, threadVars>>

(* ~COperate.  A thread that is a child of the operate dies with it: qFatal *)
(* if it still runs, a wait if it is finishing.                             *)
DeliverDelete ==
    /\ Take("Delete")
    /\ LET o == Head1.op IN
        /\ ~(o \in Parented /\ tpc[o] = "ending")
        /\ queue' = Tail(queue)
        /\ life' = [life EXCEPT ![o] = "deleted"]
        /\ app' = IF o \in Parented /\ tpc[o] \in Unfinished THEN "aborted" ELSE app
        /\ tpc' = IF o \in Parented /\ tpc[o] = "done"
                  THEN [tpc EXCEPT ![o] = "freed"] ELSE tpc
    /\ UNCHANGED <<active, shown, held, frames, todo, main,
                   quitting, backend, ptr, emitted>>

(* finished() of a thread without a parent calls its deleteLater. *)
DeliverReap ==
    /\ Take("Reap")
    /\ queue' = Append(Tail(queue), Event("Free", Head1.op, Len(frames)))
    /\ UNCHANGED <<uiVars, threadVars>>

DeliverFree ==
    /\ Take("Free")
    /\ tpc[Head1.op] = "done"      \* ~QThread waits for a finishing thread
    /\ queue' = Tail(queue)
    /\ tpc' = [tpc EXCEPT ![Head1.op] = "freed"]
    /\ UNCHANGED <<uiVars, quitting, backend, ptr, emitted>>

Deliver == \/ Skip \/ DeliverRunning \/ DeliverStop \/ DeliverAsk
           \/ DeliverFinished \/ DeliverDelete \/ DeliverReap \/ DeliverFree

(* app.exec() returns after closeEvent; ~MainWindow unloads the plugins,   *)
(* and the plugins delete the operates that are left.                      *)
Exit ==
    /\ MainIdle /\ app = "closing"
    /\ active' = {} /\ frames' = <<>>
    /\ life' = [o \in Operate |-> IF life[o] = "absent" THEN "absent" ELSE "deleted"]
    /\ app' = IF \E o \in Parented : life[o] # "deleted" /\ tpc[o] \in Unfinished
              THEN "aborted" ELSE "exited"
    /\ UNCHANGED <<shown, held, queue, todo, main, threadVars>>

-----------------------------------------------------------------------------
(* The thread of operate o. *)

At(o, pc) == Up /\ tpc[o] = pc
Goto(o, pc) == tpc' = [tpc EXCEPT ![o] = pc]
Post(t, o) == queue' = Append(queue, Event(t, o, 0))
(* Mutants: sigFinished misspelt in the connection; not emitted. *)
BackendStopTypo(o) == Post("finished", o)
BackendStopSilent(o) == o \in Operate /\ UNCHANGED queue
(* CBackend::Stop: OnStop of the plugin ends with sigFinished. *)
BackendStop(o) == IF o \in Silent THEN UNCHANGED queue ELSE Post("Finished", o)

(* InstanceBackend: the backend object is made, or run() reports the end. *)
Instance(o) ==
    /\ At(o, "new")
    /\ \/ /\ Goto(o, "start")
          /\ backend' = [backend EXCEPT ![o] = "live"]
          /\ ptr' = [ptr EXCEPT ![o] = TRUE]
          /\ UNCHANGED queue
       \/ /\ Goto(o, "unwind")
          /\ Post("Finished", o)
          /\ UNCHANGED <<backend, ptr>>
    /\ UNCHANGED <<uiVars, quitting, emitted>>

(* The backend signals from OnStart or from OnProcess. *)
Emit(o, s) ==
    /\ At(o, "start") \/ At(o, "busy")
    /\ s \in Emits[o] \ emitted[o]
    /\ emitted' = [emitted EXCEPT ![o] = @ \cup {s}]
    /\ Post(s, o)
    /\ UNCHANGED <<uiVars, quitting, backend, ptr>>

EmitRunning(o) == Emit(o, "Running") /\ UNCHANGED tpc
EmitStop(o)    == Emit(o, "Stop") /\ UNCHANGED tpc
(* Mutant: a queued connection, the thread does not wait for the answer. *)
EmitAskQueued(o) == Emit(o, "Ask") /\ UNCHANGED tpc
(* sigBlockShow...: BlockingQueuedConnection, the thread waits. *)
EmitAsk(o)     == /\ Emit(o, "Ask")
                  /\ Goto(o, IF tpc[o] = "start" THEN "askStart" ELSE "askBusy")

Quiet == UNCHANGED <<uiVars, queue, quitting, backend, ptr, emitted>>

StartOk(o)   == At(o, "start") /\ Goto(o, "exec") /\ Quiet
StartFail(o) == At(o, "start") /\ Goto(o, "fail") /\ Quiet
(* Mutant: the timer keeps the thread from noticing quit(). *)
ProcessAlways(o) == At(o, "exec") /\ Goto(o, "busy") /\ Quiet
(* The event loop runs slotTimeOut unless it was told to quit. *)
Process(o)   == At(o, "exec") /\ ~quitting[o] /\ Goto(o, "busy") /\ Quiet
Return(o)    == At(o, "busy") /\ Goto(o, "exec") /\ Quiet
Leave(o)     == At(o, "exec") /\ quitting[o] /\ Goto(o, "stop") /\ Quiet

StopBackend(o) ==
    /\ At(o, "stop") /\ Goto(o, "drop")
    /\ BackendStop(o)
    /\ UNCHANGED <<uiVars, quitting, backend, ptr, emitted>>

(* Mutant: run() emits sigFinished after a failed start as well. *)
StopFailedTwice(o) ==
    /\ At(o, "fail") /\ Goto(o, "clear")
    /\ queue' = queue \o <<Event("Finished", o, 0), Event("Finished", o, 0)>>
    /\ UNCHANGED <<uiVars, quitting, backend, ptr, emitted>>

StopFailed(o) ==
    /\ At(o, "fail") /\ Goto(o, "clear")
    /\ BackendStop(o)
    /\ UNCHANGED <<uiVars, quitting, backend, ptr, emitted>>

(* deleteLater on the backend; only the failed start clears the pointer. *)
DropBackend(o) ==
    /\ At(o, "drop") \/ At(o, "clear")
    /\ Goto(o, "unwind")
    /\ backend' = [backend EXCEPT ![o] = "deferred"]
    /\ ptr' = [ptr EXCEPT ![o] = tpc[o] = "drop"]
    /\ UNCHANGED <<uiVars, queue, quitting, emitted>>

(* QThread emits finished(), which a thread without a parent takes as a    *)
(* call of deleteLater, and deletes the objects of the thread.             *)
Finish(o) ==
    /\ At(o, "unwind") /\ Goto(o, "ending")
    /\ backend' = [backend EXCEPT ![o] = IF @ = "deferred" THEN "gone" ELSE @]
    /\ IF o \in Parented THEN UNCHANGED queue ELSE Post("Reap", o)
    /\ UNCHANGED <<uiVars, quitting, ptr, emitted>>

Done(o) == At(o, "ending") /\ Goto(o, "done") /\ Quiet

ThreadStep(o) ==
    \/ Instance(o) \/ EmitRunning(o) \/ EmitStop(o) \/ EmitAsk(o)
    \/ StartOk(o) \/ StartFail(o) \/ Process(o) \/ Return(o) \/ Leave(o)
    \/ StopBackend(o) \/ StopFailed(o) \/ DropBackend(o) \/ Finish(o) \/ Done(o)

-----------------------------------------------------------------------------
InCall   == StopNext \/ QuitCheck \/ QuitWake
Dialogs  == SettingsAccepted \/ SettingsRejected \/ Answer
User     == \/ \E o \in Operate : Configure(o) \/ OpenFile(o) \/ Hangup(o)
            \/ StopOne \/ StopOther \/ StopAll \/ CloseApp \/ Exit

Next == Deliver \/ InCall \/ Dialogs \/ User \/ \E o \in Operate : ThreadStep(o)

Spec == Init /\ [][Next]_vars

(* Calls of the main thread return and every thread keeps running (the      *)
(* waits of OnStart and OnProcess have a timeout).  An iteration of Qt's    *)
(* event loop sends the posted events as well as the user's input, so no    *)
(* amount of clicking starves the queue.  The user answers a dialog.        *)
Fairness == /\ WF_vars(InCall)
            /\ SF_vars(Deliver)
            /\ WF_vars(Dialogs)
            /\ \A o \in Operate : WF_vars(ThreadStep(o))
FairSpec == Spec /\ Fairness

-----------------------------------------------------------------------------
(* Properties. *)

Positions == 1 .. Len(queue)

(* The thread uses m_pOperate without a lock until CBackend::Stop has       *)
(* returned, so until then MainWindow must neither Clean nor delete the     *)
(* operate, whatever the user stops and however dialogs nest.               *)
BackendOwnerAlive ==
    Up => \A o \in Operate : tpc[o] \in Owning => life[o] = "live"

Heard(e) == e.type \in Signals \cup {"Finished"}

(* sigFinished is the last thing the main thread hears of a session: no     *)
(* signal of the session is queued behind it, it is queued once, and        *)
(* nothing is heard of a session after DeleteOperate (so it runs once).     *)
FinishedIsLast ==
    Up => \A i \in Positions :
        Heard(queue[i]) =>
            /\ life[queue[i].op] = "live"
            /\ queue[i].type = "Finished" =>
                  \A j \in Positions :
                      Heard(queue[j]) /\ queue[j].op = queue[i].op => j <= i

(* COperate keeps m_pThread after the thread has ended by itself (a failed  *)
(* start).  As long as MainWindow can still call Stop, the pointer is not   *)
(* dangling: the self-deleting thread is freed after sigFinished is handled. *)
ThreadPointerValid ==
    \A o \in active : held[o] => tpc[o] # "freed"

(* A dialog a backend waits for: its operate lives and the thread is still  *)
(* blocked in the call that opened it.                                      *)
DialogOwnerAlive ==
    Up => \A i \in 1 .. Len(frames) :
        /\ life[frames[i].op] = "live"
        /\ frames[i].kind = "ask" => tpc[frames[i].op] \in Asking

Gone(o) == life[o] = "deleted" \/ app \in {"closing", "exited"}

(* A session that is told to quit is eventually deleted. *)
StopEnds == \A o \in Operate : quitting[o] ~> Gone(o)

(* A session whose start failed, or whose backend asked to be stopped, is   *)
(* eventually deleted without the user doing anything.                      *)
FailureEnds ==
    \A o \in Operate : (tpc[o] \in {"fail", "unwind"} \/ "Stop" \in emitted[o]) ~> Gone(o)

(* The session as the user sees it, read off the concrete state. *)
Phase(o) == CASE life[o] = "absent" -> "none"
              [] life[o] = "live" -> IF o \notin active THEN "configuring"
                                     ELSE IF o \in shown THEN "shown" ELSE "open"
              [] OTHER -> "gone"

Life == INSTANCE SessionLife WITH
    phase  <- [o \in Operate |-> Phase(o)],
    worker <- [o \in Operate |-> IF tpc[o] = "none" THEN "idle"
                                 ELSE IF tpc[o] \in Owning THEN "busy" ELSE "over"],
    up     <- Up

(* The threads, queue and dialogs of Session implement SessionLife: a       *)
(* session is opened once, shown only while it is open, and discarded only  *)
(* after its worker let go of it.                                           *)
LifeSpec == Life!Spec

(* A backend that CBackendThread::quit wakes has not been deleted. *)
WakeTargetAlive == main.at = "wake" => backend[main.op] # "gone"

(* A thread that is a child of its operate is not destroyed while it runs. *)
NoFatal == app # "aborted"

(* The same as BackendOwnerAlive, after the main window has been closed too. *)
OwnerOutlivesBackend ==
    \A o \in Operate : tpc[o] \in Owning => life[o] = "live"
=============================================================================
