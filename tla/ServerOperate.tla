--------------------------- MODULE ServerOperate ---------------------------
(***************************************************************************)
(* COperateServer: a session whose view has a "Start server" action.  Each *)
(* time it is checked the operate starts a new CBackendThread, a run; each *)
(* time it is unchecked it tells the run to quit and forgets it.  Closing  *)
(* the session unchecks the action and leaves the end to finished() of the *)
(* thread.  The file servers (FtpServer, SftpServer) are built on it.      *)
(*                                                                         *)
(* A run is the CBackendThread of module Session, with the steps that do   *)
(* not touch the operate taken together; server backends never emit        *)
(* sigFinished, sigStop or a dialog.                                       *)
(***************************************************************************)
EXTENDS Naturals, Sequences

CONSTANTS
    MaxRuns,   \* how often the action is checked
    Outcome    \* what OnStart of the plugin may do

ASSUME RunsAssumption == MaxRuns \in Nat \ {0}
ASSUME OutcomeAssumption == Outcome \subseteq {"listen", "error", "silent"}

Runs == 1 .. MaxRuns
NoRun == 0

VARIABLES
    life,      \* the operate: "live", "cleaned", "deleted"
    checked,   \* m_pActionStart is checked
    current,   \* the run m_pThread points to
    promised,  \* runs whose finished() is connected to sigFinished
    queue,     \* events posted to objects of the main thread
    tpc,       \* where the thread of each run is
    quitting   \* runs that were told to quit

mainVars   == <<life, checked, current, promised>>
vars       == <<life, checked, current, promised, queue, tpc, quitting>>

PC == {"none", "start", "fail", "serve", "stop", "unwind", "ending", "done", "freed"}
(* The run uses the parameters: OnStart listens as they say, the event loop *)
(* admits clients by them.  OnStop of the file servers does not.            *)
Using == {"start", "serve"}

EventType == {"Error", "Finished", "Delete", "Reap", "Free"}
Event(t, r) == [type |-> t, run |-> r]

TypeOK ==
    /\ life \in {"live", "cleaned", "deleted"}
    /\ checked \in BOOLEAN
    /\ current \in Runs \cup {NoRun}
    /\ promised \subseteq Runs
    /\ queue \in Seq([type : EventType, run : Runs \cup {NoRun}])
    /\ tpc \in [Runs -> PC]
    /\ quitting \subseteq Runs

(* COperateServer::Start: the session is open, the server is not started.  *)
Init ==
    /\ life = "live"
    /\ checked = FALSE
    /\ current = NoRun
    /\ promised = {}
    /\ queue = <<>>
    /\ tpc = [r \in Runs |-> "none"]
    /\ quitting = {}

-----------------------------------------------------------------------------
(* The main thread. *)

(* Mutant: the thread is forgotten but not told to quit. *)
ForgetRun ==
    /\ checked' = FALSE
    /\ current' = NoRun
    /\ UNCHANGED quitting

(* setChecked(false): toggled is emitted, and slotStart run, on a change.   *)
Uncheck ==
    /\ checked' = FALSE
    /\ current' = IF checked THEN NoRun ELSE current
    /\ quitting' = IF checked /\ current # NoRun
                   THEN quitting \cup {current} ELSE quitting

(* The user checks the action: slotStart(true). *)
StartServer ==
    /\ life = "live" /\ ~checked
    /\ \E r \in Runs :
        /\ tpc[r] = "none" /\ \A s \in 1 .. r - 1 : tpc[s] # "none"
        /\ checked' = TRUE
        /\ current' = r
        /\ tpc' = [tpc EXCEPT ![r] = "start"]
    /\ UNCHANGED <<life, promised, queue, quitting>>

(* The user unchecks it: slotStart(false). *)
StopServer ==
    /\ life = "live" /\ checked
    /\ Uncheck
    /\ UNCHANGED <<life, promised, queue, tpc>>

(* MainWindow::slotFinished: Clean deletes the view and the parameters. *)
SlotFinished(q) ==
    IF life = "live"
    THEN life' = "cleaned" /\ queue' = Append(q, Event("Delete", NoRun))
    ELSE UNCHANGED life /\ queue' = q

(* The user closes the session: COperateServer::Stop.  A signal connected   *)
(* to a thread that has emitted finished() already never comes.             *)
Close ==
    /\ life = "live"
    /\ IF checked
       THEN /\ promised' = IF current # NoRun THEN promised \cup {current} ELSE promised
            /\ UNCHANGED <<life, queue>>
       ELSE SlotFinished(queue) /\ UNCHANGED promised
    /\ Uncheck
    /\ UNCHANGED tpc

Take(t) == queue # <<>> /\ Head(queue).type = t

(* Mutant: sigError is not connected to the action. *)
ErrorIgnored ==
    /\ Take("Error")
    /\ queue' = Tail(queue)
    /\ UNCHANGED <<mainVars, tpc, quitting>>

(* sigError of the operate unchecks the action, whichever run it is from.   *)
(* An operate that is deleted gets no events.                               *)
DeliverError ==
    /\ Take("Error")
    /\ queue' = Tail(queue)
    /\ IF life = "deleted" THEN UNCHANGED <<checked, current, quitting>> ELSE Uncheck
    /\ UNCHANGED <<life, promised, tpc>>

DeliverFinished ==
    /\ Take("Finished")
    /\ SlotFinished(Tail(queue))
    /\ UNCHANGED <<checked, current, promised, tpc, quitting>>

(* The deferred delete of the operate. *)
DeliverDelete ==
    /\ Take("Delete")
    /\ queue' = Tail(queue)
    /\ life' = "deleted"
    /\ UNCHANGED <<checked, current, promised, tpc, quitting>>

(* finished() calls deleteLater of a thread without a parent. *)
DeliverReap ==
    /\ Take("Reap")
    /\ queue' = Append(Tail(queue), Event("Free", Head(queue).run))
    /\ UNCHANGED <<mainVars, tpc, quitting>>

DeliverFree ==
    /\ Take("Free")
    /\ tpc[Head(queue).run] = "done"     \* ~QThread waits for a finishing thread
    /\ queue' = Tail(queue)
    /\ tpc' = [tpc EXCEPT ![Head(queue).run] = "freed"]
    /\ UNCHANGED <<mainVars, quitting>>

Deliver == DeliverError \/ DeliverFinished \/ DeliverDelete \/ DeliverReap \/ DeliverFree

-----------------------------------------------------------------------------
(* The thread of run r. *)

Goto(r, from, to) == tpc[r] = from /\ tpc' = [tpc EXCEPT ![r] = to]
Quiet == UNCHANGED <<mainVars, quitting>>

(* OnStart listens, or fails after emitting sigError or without it. *)
Listen(r) == "listen" \in Outcome /\ Goto(r, "start", "serve") /\ Quiet /\ UNCHANGED queue

(* Mutant: OnStart logs its error without emitting it. *)
FailQuietly(r) == /\ {"error", "silent"} \cap Outcome # {}
                  /\ Goto(r, "start", "fail") /\ Quiet /\ UNCHANGED queue
Fail(r) ==
    /\ Goto(r, "start", "fail") /\ Quiet
    /\ \/ "error" \in Outcome /\ queue' = Append(queue, Event("Error", r))
       \/ "silent" \in Outcome /\ UNCHANGED queue

(* The event loop ends when quit() was called; then CBackend::Stop. *)
Leave(r) == r \in quitting /\ Goto(r, "serve", "stop") /\ Quiet /\ UNCHANGED queue
(* OnStop of a server emits nothing; run returns. *)
StopBackend(r) == (Goto(r, "stop", "unwind") \/ Goto(r, "fail", "unwind"))
                  /\ Quiet /\ UNCHANGED queue

(* Mutant: finished() is connected to a signal that does not exist. *)
FinishTypo(r) ==
    /\ Goto(r, "unwind", "ending") /\ Quiet
    /\ queue' = queue \o <<Event("Reap", r), Event("finished", r)>>

(* QThread emits finished(): first to its own deleteLater, connected in the *)
(* constructor, then to sigFinished if Stop has connected it.               *)
Finish(r) ==
    /\ Goto(r, "unwind", "ending") /\ Quiet
    /\ queue' = queue \o <<Event("Reap", r)>>
                      \o (IF r \in promised THEN <<Event("Finished", r)>> ELSE <<>>)
Done(r) == Goto(r, "ending", "done") /\ Quiet /\ UNCHANGED queue

ThreadStep(r) == Listen(r) \/ Fail(r) \/ Leave(r) \/ StopBackend(r) \/ Finish(r) \/ Done(r)

-----------------------------------------------------------------------------
Next == StartServer \/ StopServer \/ Close \/ Deliver \/ \E r \in Runs : ThreadStep(r)
Spec == Init /\ [][Next]_vars

(* Every iteration of the event loop delivers what is posted, and threads   *)
(* run; the user need do nothing.                                           *)
FairSpec == Spec /\ WF_vars(Deliver) /\ \A r \in Runs : WF_vars(ThreadStep(r))

-----------------------------------------------------------------------------
(* Properties. *)

Serving(r) == tpc[r] \in {"start", "serve"}

(* While the session is open the action shows the truth: a run that serves  *)
(* and was not told to quit is the one the action stands for, however       *)
(* errors of earlier runs, new starts and stops cross.                      *)
ActionControlsServer ==
    life = "live" =>
        \A r \in Runs : Serving(r) /\ r \notin quitting => checked /\ current = r

(* The pointer slotStart and Stop use is never that of a freed thread, also *)
(* when a run ended by itself: its error arrives before its deferred delete. *)
ThreadPointerValid == life = "live" /\ current # NoRun => tpc[current] # "freed"

(* A run that failed to start does not stay checked. *)
FailureUnchecks == \A r \in Runs : tpc[r] = "fail" ~> (current # r \/ life # "live")

(* A session that is closed while its server runs is eventually deleted.    *)
CloseEnds == promised # {} ~> life = "deleted"

(* The parameters that a run uses in OnStart and in its event loop are       *)
(* deleted after it has left both.                                          *)
OwnerOutlivesRun == \A r \in Runs : tpc[r] \in Using => life = "live"

(* No server is left running by a session that was deleted. *)
NothingLeftServing == life = "deleted" => \A r \in Runs : Serving(r) => r \in quitting
=============================================================================
