---------------------------- MODULE Session_proof ----------------------------
(***************************************************************************)
(* Proofs about Session, for every set of sessions of every kind.          *)
(***************************************************************************)
EXTENDS Session, SequenceTheorems, TLAPS

(* The thread has reported sigFinished, or is past the point where it does. *)
Past == {"clear", "drop", "unwind", "ending", "done", "freed"}
Ended == {"ending", "done", "freed"}

(* A thread that still uses its operate has a live operate. *)
OwnerLive == \A o \in Operate : tpc[o] \in Owning => life[o] = "live"

(* Only an operate that was opened, and is not direct, has a thread. *)
NoThreadYet ==
    \A o \in Operate : life[o] = "absent" \/ o \in Direct => tpc[o] = "none"

(* MainWindow holds live operates only. *)
ActiveLive == \A o \in active : life[o] = "live"

(* A settings dialog is the outermost one, of an operate not started yet. *)
SettingsFirst ==
    \A i \in 1 .. Len(frames) : frames[i].kind = "settings" =>
        /\ i = Len(frames)
        /\ life[frames[i].op] = "live"
        /\ frames[i].op \notin active
        /\ tpc[frames[i].op] = "none"

(* Only a thread that no longer needs its operate has reported the end. *)
FinishedPast ==
    \A i \in Positions : queue[i].type = "Finished" => tpc[queue[i].op] \in Past

(* Only operates that were cleaned have a deferred delete. *)
DeleteCleaned ==
    \A i \in Positions : queue[i].type = "Delete" =>
                            life[queue[i].op] \in {"cleaned", "deleted"}

(* What is still heard of a session comes from a thread of a live operate. *)
HeardLive ==
    \A i \in Positions : Heard(queue[i]) =>
        life[queue[i].op] = "live" /\ tpc[queue[i].op] # "none"

(* Nothing of the session is behind its sigFinished. *)
HeardLast ==
    \A i, j \in Positions :
        /\ queue[i].type = "Finished" /\ Heard(queue[j])
        /\ queue[j].op = queue[i].op
        => j <= i

Sound == /\ OwnerLive /\ NoThreadYet /\ ActiveLive /\ SettingsFirst
         /\ FinishedPast /\ DeleteCleaned /\ HeardLive /\ HeardLast

IInv == TypeOK /\ (Up => Sound)

USE KindAssumption

(***************************************************************************)
(* The queue: what an append or a removal at the head leaves in it.        *)
(***************************************************************************)
LEMMA TailElements ==
    ASSUME NEW S, NEW q \in Seq(S), q # <<>>
    PROVE  /\ Tail(q) \in Seq(S)
           /\ Head(q) \in S
           /\ Head(q) = q[1]
           /\ Len(Tail(q)) = Len(q) - 1
           /\ \A i \in 1 .. Len(Tail(q)) : Tail(q)[i] = q[i + 1]
  OBVIOUS

LEMMA EmptyLen ==
    ASSUME NEW S, NEW q \in Seq(S)
    PROVE  Len(q) = 0 <=> q = <<>>
  OBVIOUS

LEMMA PushElements ==
    ASSUME NEW S, NEW q \in Seq(S), NEW e \in S
    PROVE  /\ <<e>> \o q \in Seq(S)
           /\ Len(<<e>> \o q) = Len(q) + 1
           /\ (<<e>> \o q)[1] = e
           /\ \A i \in 2 .. Len(q) + 1 : (<<e>> \o q)[i] = q[i - 1]
  OBVIOUS

(***************************************************************************)
(* Type correctness, one step per action.                                  *)
(***************************************************************************)
LEMMA Fields ==
    /\ \A e \in Events : e.type \in EventType /\ e.op \in Operate /\ e.depth \in Nat
    /\ \A f \in Frames : f.op \in Operate /\ f.kind \in {"settings", "ask"}
    /\ \A t \in EventType, o \in Operate :
          LET e == Event(t, o, 0) IN e \in Events /\ e.op = o /\ e.type = t
  BY DEF Event, Events, Frames

LEMMA TypeQueue ==
    ASSUME TypeOK
    PROVE  /\ queue \in Seq(Events)
           /\ frames \in Seq(Frames)
           /\ Len(frames) \in Nat
           /\ queue # <<>> => /\ Head(queue) \in Events
                              /\ Head(queue).op \in Operate
                              /\ Tail(queue) \in Seq(Events)
           /\ frames # <<>> => /\ Head(frames) \in Frames
                               /\ Head(frames).op \in Operate
                               /\ Tail(frames) \in Seq(Frames)
                               /\ Len(Tail(frames)) \in Nat
  <1>1. queue \in Seq(Events) /\ frames \in Seq(Frames)
    BY DEF TypeOK
  <1>2. QED
    BY <1>1, TailElements, Fields

LEMMA TypeAdd ==
    /\ \A q \in Seq(Events), o \in Operate, n \in Nat,
          t \in {"Running", "Stop", "Ask", "Finished", "Delete", "Reap", "Free"} :
              Append(q, Event(t, o, n)) \in Seq(Events)
    /\ \A q \in Seq(Frames), k \in {"settings", "ask"}, o \in Operate :
              <<[kind |-> k, op |-> o]>> \o q \in Seq(Frames)
  <1>1. \A t \in {"Running", "Stop", "Ask", "Finished", "Delete", "Reap", "Free"},
           o \in Operate, n \in Nat : Event(t, o, n) \in Events
    BY DEF Event, Events, EventType, Signals
  <1>2. \A k \in {"settings", "ask"}, o \in Operate : [kind |-> k, op |-> o] \in Frames
    BY DEF Frames
  <1> QED  BY <1>1, <1>2, AppendProperties, PushElements

LEMMA TypeStep == TypeOK /\ [Next]_vars => TypeOK'
  <1> SUFFICES ASSUME TypeOK, [Next]_vars PROVE TypeOK'
    OBVIOUS
  <1>1. CASE UNCHANGED vars
    BY <1>1 DEF TypeOK, vars
  <1>2. ASSUME NEW o \in Operate, ThreadStep(o) PROVE TypeOK'
    <2>0. o \in Operate
      BY <1>2
    <2> USE <2>0
    <2> USE DEF TypeOK, uiVars, At, Goto, Post, Quiet
    <2> DEFINE Post0(t) == Append(queue, Event(t, o, 0))
    <2>1. \A t \in {"Running", "Stop", "Ask", "Finished", "Delete", "Reap", "Free"} :
             Post0(t) \in Seq(Events)
      BY TypeAdd
    <2>2. CASE Instance(o)
      <3>1. queue' \in Seq(Events)
        BY <2>1, <2>2 DEF Instance
      <3>2. tpc' \in [Operate -> PC]
        BY <2>2 DEF Instance, PC
      <3>3. backend' \in [Operate -> {"none", "live", "deferred", "gone"}]
        BY <2>2 DEF Instance
      <3>4. ptr' \in [Operate -> BOOLEAN]
        BY <2>2, Zenon DEF Instance
      <3>5. UNCHANGED <<uiVars, quitting, emitted>>
        BY <2>2 DEF Instance
      <3>6. QED
        BY <3>1, <3>2, <3>3, <3>4, <3>5
    <2>3. CASE EmitRunning(o)
      BY <2>1, <2>3 DEF EmitRunning, Emit, Signals
    <2>4. CASE EmitStop(o)
      BY <2>1, <2>4 DEF EmitStop, Emit, Signals
    <2>5. CASE EmitAsk(o)
      <3>1. /\ queue' \in Seq(Events)
            /\ emitted' \in [Operate -> SUBSET Signals]
            /\ UNCHANGED <<uiVars, quitting, backend, ptr>>
        BY <2>1, <2>5 DEF EmitAsk, Emit, Signals
      <3>2. tpc' \in [Operate -> PC]
        BY <2>5 DEF EmitAsk, PC
      <3>3. QED
        BY <3>1, <3>2
    <2>6. CASE StartOk(o) \/ StartFail(o) \/ Process(o) \/ Return(o) \/ Leave(o) \/ Done(o)
      BY <2>6 DEF StartOk, StartFail, Process, Return, Leave, Done, PC
    <2>7. CASE StopBackend(o) \/ StopFailed(o)
      <3>1. queue' \in Seq(Events)
        BY <2>1, <2>7 DEF StopBackend, StopFailed, BackendStop
      <3>2. tpc' \in [Operate -> PC] /\ UNCHANGED <<uiVars, quitting, backend, ptr, emitted>>
        BY <2>7 DEF StopBackend, StopFailed, PC
      <3>3. QED
        BY <3>1, <3>2
    <2>8. CASE DropBackend(o)
      BY <2>8 DEF DropBackend, PC
    <2>9. CASE Finish(o)
      <3>1. /\ queue' \in Seq(Events)
            /\ tpc' \in [Operate -> PC]
            /\ UNCHANGED <<uiVars, quitting, ptr, emitted>>
        BY <2>1, <2>9 DEF Finish, PC
      <3>2. backend' \in [Operate -> {"none", "live", "deferred", "gone"}]
        BY <2>9 DEF Finish
      <3>3. QED
        BY <3>1, <3>2
    <2>10. QED
      BY <1>2, <2>2, <2>3, <2>4, <2>5, <2>6, <2>7, <2>8, <2>9 DEF ThreadStep
  <1>3. ASSUME Deliver \/ InCall \/ Dialogs \/ User PROVE TypeOK'
    <2> USE DEF TypeOK, threadVars
    <2>1. ASSUME NEW o \in Operate, Configure(o) PROVE TypeOK'
      BY <2>1, TypeAdd DEF Configure, PushFrame
    <2>2. ASSUME NEW x \in Operate, StartThreaded(x), frames' \in Seq(Frames)
          PROVE  TypeOK'
      BY <2>2 DEF StartThreaded, PC
    <2>3. ASSUME NEW x \in Operate, StartDirect(x), frames' \in Seq(Frames), Len(frames') \in Nat
          PROVE  TypeOK'
      <3>0. Append(queue, Event("Delete", x, Len(frames'))) \in Seq(Events)
        BY <2>3, TypeAdd
      <3>1. queue' \in Seq(Events)
        BY <2>3, <3>0 DEF StartDirect
      <3>2. life' \in [Operate -> {"absent", "live", "cleaned", "deleted"}]
        BY <2>3 DEF StartDirect
      <3>3. /\ active' \subseteq Operate /\ shown' \subseteq Operate
            /\ UNCHANGED <<held, todo, main, app, threadVars>>
        BY <2>3 DEF StartDirect
      <3> QED  BY <2>3, <3>1, <3>2, <3>3
    <2>4. ASSUME NEW o \in Operate, OpenFile(o) PROVE TypeOK'
      BY <2>2, <2>3, <2>4, TypeQueue DEF OpenFile
    <2>5. ASSUME NEW x \in Operate, NEW q \in Seq(Events), Stop(x, q), todo' \subseteq Operate
          PROVE  TypeOK'
      <3>1. ASSUME SlotFinished(x, q)
            PROVE  /\ queue' \in Seq(Events)
                   /\ life' \in [Operate -> {"absent", "live", "cleaned", "deleted"}]
                   /\ active' \subseteq Operate
        <4>1. Append(q, Event("Delete", x, Len(frames))) \in Seq(Events)
          BY TypeQueue, TypeAdd
        <4>2. QED
          BY <3>1, <4>1 DEF SlotFinished
      <3>2. /\ queue' \in Seq(Events)
            /\ life' \in [Operate -> {"absent", "live", "cleaned", "deleted"}]
            /\ active' \subseteq Operate
        BY <2>5, <3>1 DEF Stop
      <3>3. held' \in [Operate -> BOOLEAN] /\ quitting' \in [Operate -> BOOLEAN]
        BY <2>5, Zenon DEF Stop
      <3>4. main' \in [at : {"idle", "check", "wake"}, op : Operate \cup {NoOperate}]
        BY <2>5 DEF Stop
      <3>5. UNCHANGED <<shown, frames, app, tpc, backend, ptr, emitted>>
        BY <2>5 DEF Stop
      <3>6. QED
        BY <2>5, <3>2, <3>3, <3>4, <3>5
    <2>6. ASSUME NEW o \in Operate, Hangup(o) PROVE TypeOK'
      BY <2>5, <2>6, TypeQueue DEF Hangup
    <2>7. ASSUME SettingsAccepted PROVE TypeOK'
      BY <2>2, <2>3, <2>7, TypeQueue DEF SettingsAccepted, PopFrame, Top
    <2>8. ASSUME SettingsRejected PROVE TypeOK'
      BY <2>8, TypeQueue, TypeAdd DEF SettingsRejected, PopFrame, Top
    <2>9. ASSUME Answer PROVE TypeOK'
      BY <2>9, TypeQueue DEF Answer, PopFrame, Top, PC
    <2>10. ASSUME StopOne \/ StopOther \/ StopAll \/ CloseApp PROVE TypeOK'
      BY <2>10 DEF StopOne, StopOther, StopAll, StopSome, CloseApp
    <2>11. ASSUME Exit PROVE TypeOK'
      BY <2>11 DEF Exit
    <2>12. ASSUME StopNext PROVE TypeOK'
      BY <2>5, <2>12 DEF StopNext
    <2>13. ASSUME QuitCheck \/ QuitWake PROVE TypeOK'
      BY <2>13 DEF QuitCheck, QuitWake, Idle
    <2>14. ASSUME Deliver PROVE TypeOK'
      <3>1. queue # <<>>
        BY <2>14 DEF Deliver, Take, Skip, DeliverRunning, DeliverStop, DeliverAsk,
                     DeliverFinished, DeliverDelete, DeliverReap, DeliverFree
      <3>2. /\ Head1 \in Events /\ Head1.op \in Operate
            /\ Tail(queue) \in Seq(Events)
        BY <3>1, TypeQueue DEF Head1
      <3>3. CASE Skip
        <4>1. Append(Tail(queue), Head1) \in Seq(Events)
          BY <3>2, AppendProperties
        <4>2. queue' \in Seq(Events) /\ UNCHANGED <<uiVars, threadVars>>
          BY <3>2, <3>3, <4>1 DEF Skip
        <4>3. QED
          BY <4>2 DEF uiVars
      <3>4. CASE DeliverRunning
        BY <3>2, <3>4 DEF DeliverRunning
      <3>5. CASE DeliverStop
        BY <2>5, <3>2, <3>5 DEF DeliverStop
      <3>6. CASE DeliverAsk
        BY <3>2, <3>6, TypeAdd DEF DeliverAsk, PushFrame
      <3>7. CASE DeliverFinished
        <4>1. /\ queue' \in Seq(Events)
              /\ life' \in [Operate -> {"absent", "live", "cleaned", "deleted"}]
              /\ active' \subseteq Operate
          <5>1. Append(Tail(queue), Event("Delete", Head1.op, Len(frames))) \in Seq(Events)
            BY <3>2, TypeQueue, TypeAdd
          <5>2. QED
            BY <3>2, <3>7, <5>1 DEF DeliverFinished, SlotFinished
        <4>2. QED
          BY <3>7, <4>1 DEF DeliverFinished
      <3>8. CASE DeliverDelete
        BY <3>2, <3>8 DEF DeliverDelete, PC
      <3>9. CASE DeliverReap
        <4>1. Append(Tail(queue), Event("Free", Head1.op, Len(frames))) \in Seq(Events)
          BY <3>2, TypeQueue, TypeAdd
        <4>2. QED
          BY <3>9, <4>1 DEF DeliverReap, uiVars
      <3>10. CASE DeliverFree
        BY <3>2, <3>10 DEF DeliverFree, uiVars, PC
      <3>11. QED
        BY <2>14, <3>3, <3>4, <3>5, <3>6, <3>7, <3>8, <3>9, <3>10 DEF Deliver
    <2>15. QED
      BY <1>3, <2>1, <2>4, <2>6, <2>7, <2>8, <2>9, <2>10, <2>11, <2>12, <2>13, <2>14
         DEF InCall, Dialogs, User
  <1> QED  BY <1>1, <1>2, <1>3 DEF Next

(* Every variable keeps its type: the functions stay total over Operate,   *)
(* and the queue and the dialog stack hold events and frames of sessions.  *)
THEOREM TypeCorrect == Spec => []TypeOK
  <1>1. Init => TypeOK
    BY DEF Init, TypeOK, Idle, PC, Signals, EventType
  <1> QED  BY <1>1, TypeStep, PTL DEF Spec

(***************************************************************************)
(* The inductive invariant.  A step of the main thread only takes events   *)
(* from the head of the queue or adds deferred deletes: what it leaves of  *)
(* the events that are heard is a suffix of what there was.                *)
(***************************************************************************)
KeepsHeard ==
    \E k \in {0, 1} : \A i \in 1 .. Len(queue') :
        Heard(queue'[i]) => i + k \in Positions /\ queue'[i] = queue[i + k]

KeepsDelete ==
    \A i \in 1 .. Len(queue') : queue'[i].type = "Delete" =>
        \/ \E j \in Positions : queue'[i] = queue[j]
        \/ life'[queue'[i].op] = "cleaned"

(* What the step does to operates, threads and dialogs. *)
KeepsState ==
    /\ OwnerLive' /\ NoThreadYet' /\ ActiveLive' /\ SettingsFirst'
    /\ \A x \in Operate :
          /\ tpc[x] \in Past => tpc'[x] \in Past
          /\ tpc[x] # "none" => tpc'[x] # "none"
          /\ life[x] \in {"cleaned", "deleted"} => life'[x] \in {"cleaned", "deleted"}

KeepsLive ==
    \A i \in 1 .. Len(queue') : Heard(queue'[i]) => life'[queue'[i].op] = "live"

LEMMA QueueTyped ==
    /\ \A q \in Seq(Events) :
          /\ Len(q) \in Nat
          /\ \A i \in 1 .. Len(q) : q[i] \in Events /\ q[i].op \in Operate
                                   /\ q[i].type \in EventType
    /\ \A q \in Seq(Frames) :
          /\ Len(q) \in Nat
          /\ \A i \in 1 .. Len(q) : q[i] \in Frames /\ q[i].op \in Operate
  BY Fields

LEMMA Preserved ==
    ASSUME TypeOK, TypeOK', Sound, KeepsHeard, KeepsDelete, KeepsState, KeepsLive
    PROVE  Sound'
  <1>1. PICK k \in {0, 1} : \A i \in 1 .. Len(queue') :
            Heard(queue'[i]) => i + k \in Positions /\ queue'[i] = queue[i + k]
    BY DEF KeepsHeard
  <1>2. /\ Len(queue') \in Nat
        /\ \A i \in 1 .. Len(queue') : queue'[i].op \in Operate
    <2>1. queue' \in Seq(Events)
      BY DEF TypeOK
    <2>2. QED
      BY <2>1, QueueTyped
  <1>3. FinishedPast'
    BY <1>1, <1>2 DEF Sound, FinishedPast, KeepsState, Heard, Positions
  <1>4. DeleteCleaned'
    BY <1>2 DEF Sound, DeleteCleaned, KeepsDelete, KeepsState, Positions
  <1>5. HeardLive'
    BY <1>1, <1>2 DEF Sound, HeardLive, KeepsLive, KeepsState, Heard, Positions
  <1>6. HeardLast'
    <2>1. SUFFICES ASSUME NEW i \in 1 .. Len(queue'), NEW j \in 1 .. Len(queue'),
                          queue'[i].type = "Finished", Heard(queue'[j]),
                          queue'[j].op = queue'[i].op
                   PROVE  j <= i
      BY DEF HeardLast, Heard, Positions
    <2>2. /\ i + k \in Positions /\ queue'[i] = queue[i + k]
          /\ j + k \in Positions /\ queue'[j] = queue[j + k]
      BY <1>1, <2>1 DEF Heard
    <2>3. j + k <= i + k
      BY <2>1, <2>2 DEF Sound, HeardLast
    <2>4. QED
      BY <1>2, <2>3
  <1>7. QED
    BY <1>3, <1>4, <1>5, <1>6 DEF Sound, KeepsState
LEMMA QueueKept ==
    ASSUME queue \in Seq(Events),
           \/ queue' = queue
           \/ \E e \in Events : /\ queue' = Append(queue, e)
                                /\ e.type \in {"Delete", "Free"}
                                /\ e.type = "Delete" => life'[e.op] = "cleaned"
           \/ queue # <<>> /\ queue' = Tail(queue)
           \/ \E e \in Events : /\ queue # <<>> /\ queue' = Append(Tail(queue), e)
                                /\ e.type \in {"Delete", "Free"}
                                /\ \/ e = Head(queue)
                                   \/ e.type = "Delete" => life'[e.op] = "cleaned"
    PROVE  KeepsHeard /\ KeepsDelete
  <1> USE DEF KeepsHeard, KeepsDelete, Positions
  <1>0. \A e \in Events : e.type \in {"Delete", "Free"} => ~Heard(e)
    BY DEF Heard, Signals
  <1>1. CASE queue' = queue
    BY <1>1, QueueTyped
  <1>2. ASSUME NEW e \in Events, queue' = Append(queue, e),
               e.type \in {"Delete", "Free"},
               e.type = "Delete" => life'[e.op] = "cleaned"
        PROVE  KeepsHeard /\ KeepsDelete
    <2>1. /\ Len(queue) \in Nat /\ Len(queue') = Len(queue) + 1
          /\ queue'[Len(queue) + 1] = e
          /\ \A i \in 1 .. Len(queue) : queue'[i] = queue[i]
      BY <1>2, QueueTyped, AppendProperties
    <2>2. \A i \in 1 .. Len(queue') : i \in 1 .. Len(queue) \/ queue'[i] = e
      BY <2>1
    <2>3. KeepsHeard
      <3>1. \A i \in 1 .. Len(queue') : Heard(queue'[i]) =>
               i + 0 \in Positions /\ queue'[i] = queue[i + 0]
        BY <1>0, <1>2, <2>1, <2>2
      <3>2. QED
        BY <3>1
    <2>4. KeepsDelete
      BY <1>2, <2>1, <2>2
    <2>5. QED
      BY <2>3, <2>4
  <1>3. ASSUME queue # <<>>
        PROVE  /\ Len(Tail(queue)) \in Nat /\ Len(Tail(queue)) = Len(queue) - 1
               /\ \A i \in 1 .. Len(Tail(queue)) :
                     i + 1 \in Positions /\ Tail(queue)[i] = queue[i + 1]
               /\ Head(queue) = queue[1] /\ 1 \in Positions
               /\ Tail(queue) \in Seq(Events)
    BY <1>3, QueueTyped, TailElements
  <1>4. CASE queue # <<>> /\ queue' = Tail(queue)
    BY <1>3, <1>4
  <1>5. ASSUME NEW e \in Events, queue # <<>>, queue' = Append(Tail(queue), e),
               e.type \in {"Delete", "Free"},
               \/ e = Head(queue)
               \/ e.type = "Delete" => life'[e.op] = "cleaned"
        PROVE  KeepsHeard /\ KeepsDelete
    <2> DEFINE n == Len(Tail(queue))
    <2>1. /\ n \in Nat /\ Len(queue') = n + 1 /\ queue'[n + 1] = e
          /\ \A i \in 1 .. n : queue'[i] = queue[i + 1] /\ i + 1 \in Positions
      BY <1>3, <1>5, AppendProperties
    <2>2. \A i \in 1 .. Len(queue') : i \in 1 .. n \/ queue'[i] = e
      BY <2>1
    <2>3. KeepsHeard
      <3>1. \A i \in 1 .. Len(queue') : Heard(queue'[i]) =>
               i + 1 \in Positions /\ queue'[i] = queue[i + 1]
        BY <1>0, <1>5, <2>1, <2>2
      <3>2. QED
        BY <3>1
    <2>4. KeepsDelete
      BY <1>3, <1>5, <2>1, <2>2
    <2>5. QED
      BY <2>3, <2>4
  <1>6. QED
    BY <1>1, <1>2, <1>4, <1>5
(***************************************************************************)
(* A step of a thread moves it on, and reports only while it owns.         *)
(***************************************************************************)
Reports(o, pc, e) ==
    /\ e.op = o
    /\ \/ e.type = "Reap" /\ tpc[o] \in Past /\ pc \in Ended
       \/ e.type = "Finished" /\ tpc[o] \in Owning /\ pc \in Past
       \/ /\ e.type \in Signals
          /\ tpc[o] \in Owning /\ pc \in Owning
          /\ e.type = "Ask" => pc \in Asking

ThreadShape(o) ==
    \E pc \in PC :
        /\ tpc' = [tpc EXCEPT ![o] = pc]
        /\ tpc[o] \notin Asking \cup {"none", "done", "freed"} /\ pc \notin {"none", "freed"}
        /\ pc \in Owning => tpc[o] \in Owning
        /\ tpc[o] \in Past => pc \in Past
        /\ tpc[o] \in Ended => pc \in Ended
        /\ \/ queue' = queue /\ (o \notin Silent /\ pc \in Past => tpc[o] \in Past)
           \/ \E e \in Events : queue' = Append(queue, e) /\ Reports(o, pc, e)

LEMMA ThreadMoves ==
    ASSUME TypeOK, NEW o \in Operate, ThreadStep(o)
    PROVE  ThreadShape(o) /\ UNCHANGED uiVars
  <1> USE DEF At, Goto, Post, Quiet, PC, Owning, Past, Ended, Asking, Heard, EventType, Signals, Reports
  <1>0. tpc \in [Operate -> PC]
    BY DEF TypeOK
  <1>1. CASE Instance(o)
    BY <1>0, <1>1, Fields DEF Instance, ThreadShape
  <1>2. ASSUME NEW s \in Signals, Emit(o, s), NEW pc \in {"start", "busy", "askStart", "askBusy"},
               tpc' = [tpc EXCEPT ![o] = pc], s = "Ask" => pc \in Asking
        PROVE  ThreadShape(o) /\ UNCHANGED uiVars
    <2>1. /\ tpc[o] \in {"start", "busy"} /\ UNCHANGED uiVars
          /\ queue' = Append(queue, Event(s, o, 0))
      BY <1>2 DEF Emit
    <2>2. /\ Event(s, o, 0) \in Events
          /\ Event(s, o, 0).op = o
          /\ Event(s, o, 0).type = s
      BY Fields
    <2>3. Reports(o, pc, Event(s, o, 0))
      BY <1>2, <2>1, <2>2
    <2>4. QED
      BY <1>2, <2>1, <2>2, <2>3 DEF ThreadShape
  <1>3. CASE EmitRunning(o) \/ EmitStop(o)
    <2>1. tpc' = [tpc EXCEPT ![o] = tpc[o]] /\ tpc[o] \in {"start", "busy"}
      BY <1>0, <1>3 DEF EmitRunning, EmitStop, Emit
    <2>2. QED
      BY <1>2, <1>3, <2>1 DEF EmitRunning, EmitStop
  <1>4. CASE EmitAsk(o)
    BY <1>2, <1>4 DEF EmitAsk
  <1>5. CASE StartOk(o) \/ StartFail(o) \/ Process(o) \/ Return(o) \/ Leave(o) \/ Done(o)
    BY <1>0, <1>5 DEF StartOk, StartFail, Process, Return, Leave, Done, ThreadShape
  <1>6. CASE StopBackend(o) \/ StopFailed(o)
    <2>1. /\ tpc[o] \in {"stop", "fail"} /\ UNCHANGED uiVars
          /\ tpc' = [tpc EXCEPT ![o] = IF tpc[o] = "stop" THEN "drop" ELSE "clear"]
          /\ \/ queue' = queue /\ o \in Silent
             \/ queue' = Append(queue, Event("Finished", o, 0))
      BY <1>6 DEF StopBackend, StopFailed, BackendStop
    <2>2. /\ Event("Finished", o, 0) \in Events
          /\ Event("Finished", o, 0).op = o
          /\ Event("Finished", o, 0).type = "Finished"
      BY Fields
    <2>3. QED
      BY <2>1, <2>2 DEF ThreadShape
  <1>7. CASE DropBackend(o)
    BY <1>0, <1>7 DEF DropBackend, ThreadShape
  <1>8. CASE Finish(o)
    BY <1>0, <1>8, Fields DEF Finish, ThreadShape
  <1>9. QED
    BY <1>1, <1>3, <1>4, <1>5, <1>6, <1>7, <1>8 DEF ThreadStep

LEMMA ThreadSound ==
    ASSUME TypeOK, TypeOK', Sound, NEW o \in Operate, ThreadStep(o)
    PROVE  Sound'
  <1>0. UNCHANGED <<life, active, frames>>
    BY ThreadMoves DEF uiVars
  <1>1. PICK pc \in PC :
        /\ tpc' = [tpc EXCEPT ![o] = pc]
        /\ tpc[o] # "none" /\ pc # "none"
        /\ pc \in Owning => tpc[o] \in Owning
        /\ tpc[o] \in Past => pc \in Past
        /\ \/ queue' = queue
           \/ \E e \in Events : queue' = Append(queue, e) /\ Reports(o, pc, e)
    BY ThreadMoves DEF ThreadShape
  <1>2. /\ tpc'[o] = pc
        /\ \A x \in Operate : x # o => tpc'[x] = tpc[x]
    BY <1>1 DEF TypeOK
  <1>3. OwnerLive' /\ NoThreadYet' /\ ActiveLive'
    BY <1>0, <1>1, <1>2 DEF Sound, OwnerLive, NoThreadYet, ActiveLive
  <1>4. SettingsFirst'
    <2>1. \A i \in 1 .. Len(frames) : frames[i].op \in Operate
      BY Fields DEF TypeOK
    <2>2. QED
      BY <1>0, <1>1, <1>2, <2>1 DEF Sound, SettingsFirst
  <1>5. /\ queue \in Seq(Events) /\ Len(queue) \in Nat
        /\ \A i \in 1 .. Len(queue) : queue[i].op \in Operate
    BY QueueTyped DEF TypeOK
  <1>6. CASE queue' = queue
    <2>1. FinishedPast' /\ DeleteCleaned' /\ HeardLive' /\ HeardLast'
      BY <1>0, <1>1, <1>2, <1>5, <1>6
         DEF Sound, FinishedPast, DeleteCleaned, HeardLive, HeardLast, Heard, Positions
    <2>2. QED
      BY <1>3, <1>4, <2>1 DEF Sound
  <1>7. ASSUME NEW e \in Events, queue' = Append(queue, e), Reports(o, pc, e)
        PROVE  Sound'
    <2>1. /\ Len(queue') = Len(queue) + 1 /\ queue'[Len(queue) + 1] = e
          /\ \A i \in Positions : queue'[i] = queue[i]
      BY <1>5, <1>7, AppendProperties DEF Positions
    <2>2. \A i \in 1 .. Len(queue') : i \in Positions \/ (i = Len(queue) + 1 /\ queue'[i] = e)
      BY <1>5, <2>1 DEF Positions
    <2>3. Heard(e) => life[o] = "live" /\ \A i \in Positions : queue[i].type = "Finished" => queue[i].op # o
      BY <1>7 DEF Reports, Sound, OwnerLive, FinishedPast, Past, Owning, Heard, Signals
    <2>4. FinishedPast'
      BY <1>1, <1>2, <1>5, <1>7, <2>1, <2>2 DEF Sound, FinishedPast, Reports, Signals, Positions
    <2>5. DeleteCleaned'
      BY <1>0, <1>7, <2>1, <2>2 DEF Sound, DeleteCleaned, Reports, Heard, Signals, Positions
    <2>6. HeardLive'
      BY <1>0, <1>1, <1>2, <1>5, <1>7, <2>1, <2>2, <2>3 DEF Sound, HeardLive, Reports, Heard, Positions
    <2>7. HeardLast'
      <3>1. SUFFICES ASSUME NEW i \in 1 .. Len(queue'), NEW j \in 1 .. Len(queue'),
                            queue'[i].type = "Finished", Heard(queue'[j]),
                            queue'[j].op = queue'[i].op
                     PROVE  j <= i
        BY DEF HeardLast, Heard, Positions
      <3>2. CASE i = Len(queue) + 1
        BY <1>5, <2>1, <3>1, <3>2
      <3>3. CASE i \in Positions /\ j \in Positions
        BY <2>1, <3>1, <3>3 DEF Sound, HeardLast
      <3>4. CASE i \in Positions /\ j = Len(queue) + 1
        BY <1>7, <2>1, <2>3, <3>1, <3>4 DEF Reports
      <3>5. QED
        BY <2>2, <3>2, <3>3, <3>4
    <2>8. QED
      BY <1>3, <1>4, <2>4, <2>5, <2>6, <2>7 DEF Sound
  <1>8. QED
    BY <1>1, <1>6, <1>7
(***************************************************************************)
(* Steps of the main thread.                                               *)
(***************************************************************************)
LEMMA LiveKept ==
    ASSUME TypeOK, Sound, KeepsHeard,
           \A x \in Operate : life[x] = "live" /\ tpc[x] # "none" => life'[x] = "live"
    PROVE  KeepsLive
  <1>1. \A i \in Positions : queue[i].op \in Operate
    BY QueueTyped DEF TypeOK, Positions
  <1>2. QED
    BY <1>1 DEF Sound, HeardLive, KeepsHeard, KeepsLive

(* Steps that touch neither operates nor threads nor dialogs. *)
LEMMA StillSound ==
    ASSUME TypeOK, TypeOK', Sound, KeepsHeard, KeepsDelete,
           UNCHANGED <<life, active, frames, tpc>>
    PROVE  Sound'
  <1>1. KeepsState
    BY DEF Sound, KeepsState, OwnerLive, NoThreadYet, ActiveLive, SettingsFirst
  <1>2. QED
    BY <1>1, LiveKept, Preserved

(***************************************************************************)
(* A step of the main thread keeps what Sound says, until the program ends: *)
(* first what the actions have in common, then one step per action.        *)
(***************************************************************************)
LEMMA MainSound ==
    ASSUME TypeOK, TypeOK', Sound, Deliver \/ InCall \/ Dialogs \/ User
    PROVE  Up' => Sound'
  (* Opening the settings dialog of a new operate. *)
  <1>1. ASSUME NEW o \in Operate, Configure(o)
        PROVE  Sound'
    <2> USE <1>1
    <2>1. /\ queue' = queue /\ queue \in Seq(Events)
          /\ life[o] = "absent" /\ life' = [life EXCEPT ![o] = "live"]
          /\ UNCHANGED <<active, tpc>>
          /\ frames = <<>>
          /\ frames' = <<[kind |-> "settings", op |-> o]>> \o frames
      BY DEF Configure, PushFrame, UserFree, threadVars, TypeOK
    <2>2. KeepsHeard /\ KeepsDelete
      BY <2>1, QueueKept
    <2>3. /\ life'[o] = "live" /\ tpc[o] = "none" /\ o \notin active
          /\ \A x \in Operate : x # o => life'[x] = life[x]
      BY <2>1 DEF TypeOK, Sound, NoThreadYet, ActiveLive
    <2>4. OwnerLive' /\ NoThreadYet' /\ ActiveLive'
      BY <2>1, <2>3 DEF TypeOK, Sound, OwnerLive, NoThreadYet, ActiveLive
    <2>5. SettingsFirst'
      <3>1. Len(frames') = 1 /\ frames'[1] = [kind |-> "settings", op |-> o]
        BY <2>1
      <3>2. QED
        BY <2>1, <2>3, <3>1 DEF SettingsFirst
    <2>6. KeepsState
      BY <2>1, <2>3, <2>4, <2>5 DEF KeepsState
    <2>7. QED
      BY <2>2, <2>3, <2>6, LiveKept, Preserved
  (* Starting an operate: from a file, or when its settings were accepted. *)
  <1>2. ASSUME NEW o \in Operate,
               StartThreaded(o) \/ StartDirect(o),
               life[o] \in {"absent", "live"}, tpc[o] = "none", o \notin active,
               frames' = <<>>
        PROVE  Sound'
    <2> USE <1>2
    <2>1. SettingsFirst'
      BY DEF SettingsFirst
    <2>2. queue \in Seq(Events) /\ Len(frames') \in Nat /\ active \subseteq Operate
      BY DEF TypeOK
    <2>3. CASE StartThreaded(o)
      <3>1. /\ queue' = queue /\ o \notin Direct
            /\ active' = active \cup {o}
            /\ life'[o] = "live" /\ tpc'[o] = "new"
            /\ \A x \in Operate : x # o => life'[x] = life[x] /\ tpc'[x] = tpc[x]
        BY <2>3 DEF StartThreaded, Threaded, TypeOK
      <3>2. KeepsHeard /\ KeepsDelete
        BY <2>2, <3>1, QueueKept
      <3>3. OwnerLive'
        BY <3>1 DEF Sound, OwnerLive, Owning
      <3>4. NoThreadYet' /\ ActiveLive'
        BY <2>2, <3>1 DEF Sound, NoThreadYet, ActiveLive
      <3>5. \A x \in Operate :
              /\ tpc[x] \in Past => tpc'[x] \in Past
              /\ tpc[x] # "none" => tpc'[x] # "none"
              /\ life[x] \in {"cleaned", "deleted"} => life'[x] \in {"cleaned", "deleted"}
        BY <3>1 DEF Past
      <3>6. KeepsState
        BY <2>1, <3>3, <3>4, <3>5 DEF KeepsState
      <3>7. QED
        BY <3>1, <3>2, <3>6, LiveKept, Preserved
    <2>4. CASE StartDirect(o)
      <3> DEFINE del == Event("Delete", o, Len(frames'))
      <3>1. del \in Events /\ del.type = "Delete" /\ del.op = o
        BY <2>2 DEF Event, Events, EventType
      <3>2. /\ o \in Direct /\ tpc' = tpc
            /\ life'[o] \in {"live", "cleaned"}
            /\ \A x \in Operate : x # o => life'[x] = life[x]
            /\ \/ queue' = queue /\ active' = active \cup {o} /\ life'[o] = "live"
               \/ queue' = Append(queue, del) /\ active' = active /\ life'[o] = "cleaned"
        BY <2>4 DEF StartDirect, threadVars, TypeOK
      <3>3. KeepsHeard /\ KeepsDelete
        BY <2>2, <3>1, <3>2, QueueKept
      <3>4. CASE life'[o] = "live"
        <4>1. OwnerLive' /\ NoThreadYet' /\ ActiveLive'
          BY <2>2, <3>2, <3>4 DEF Sound, OwnerLive, NoThreadYet, ActiveLive, Owning
        <4>2. KeepsState
          BY <2>1, <3>2, <3>4, <4>1 DEF KeepsState
        <4>3. QED
          BY <3>2, <3>3, <3>4, <4>2, LiveKept, Preserved
      <3>5. CASE life'[o] = "cleaned" /\ active' = active
        <4>1. OwnerLive' /\ NoThreadYet' /\ ActiveLive'
          BY <2>2, <3>2, <3>5 DEF Sound, OwnerLive, NoThreadYet, ActiveLive, Owning
        <4>2. KeepsState
          BY <2>1, <3>2, <3>5, <4>1 DEF KeepsState
        <4>3. QED
          BY <3>2, <3>3, <4>2, LiveKept, Preserved
      <3>6. QED
        BY <3>2, <3>4, <3>5
    <2>5. QED
      BY <2>3, <2>4
  <1>3. ASSUME NEW o \in Operate, OpenFile(o)
        PROVE  Sound'
    <2> USE <1>3
    <2>1. life[o] = "absent" /\ tpc[o] = "none" /\ o \notin active /\ frames' = <<>>
      BY DEF OpenFile, UserFree, Sound, NoThreadYet, ActiveLive
    <2>2. QED
      BY <2>1, <1>2 DEF OpenFile
  (* The settings dialog on top is the only dialog. *)
  <1>4. ASSUME frames # <<>>, Top.kind = "settings"
        PROVE  /\ Top.op \in Operate
               /\ life[Top.op] = "live" /\ tpc[Top.op] = "none" /\ Top.op \notin active
               /\ Len(frames) = 1
               /\ Tail(frames) = <<>>
    <2> USE <1>4
    <2>0. frames \in Seq(Frames)
      BY DEF TypeOK
    <2>1. Top = frames[1] /\ Top.op \in Operate /\ 1 \in 1 .. Len(frames)
          /\ Tail(frames) \in Seq(Frames) /\ Len(Tail(frames)) = Len(frames) - 1
      <3>1. Head(frames) \in Frames /\ Head(frames) = frames[1]
            /\ Tail(frames) \in Seq(Frames) /\ Len(Tail(frames)) = Len(frames) - 1
        BY <2>0, TailElements
      <3>2. Len(frames) \in Nat /\ Len(frames) # 0
        BY <2>0, EmptyLen, QueueTyped
      <3>3. QED
        BY <3>1, <3>2, Fields DEF Top
    <2>2. Len(frames) = 1 /\ life[Top.op] = "live" /\ tpc[Top.op] = "none" /\ Top.op \notin active
      BY <2>1 DEF Sound, SettingsFirst
    <2>3. Tail(frames) = <<>>
      <3>1. Len(Tail(frames)) = 0
        BY <2>1, <2>2
      <3>2. QED
        BY <2>1, <3>1, EmptyLen
    <2>4. QED
      BY <2>1, <2>2, <2>3
  <1>5. ASSUME SettingsAccepted \/ SettingsRejected
        PROVE  Sound'
    <2> USE <1>5
    <2>1. /\ Top.op \in Operate
          /\ life[Top.op] = "live" /\ tpc[Top.op] = "none" /\ Top.op \notin active
          /\ frames' = <<>> /\ Len(frames) = 1
      BY <1>4 DEF SettingsAccepted, SettingsRejected, PopFrame
    <2>2. CASE SettingsAccepted
      BY <2>1, <2>2, <1>2 DEF SettingsAccepted
    <2>3. CASE SettingsRejected
      <3> DEFINE o == Top.op
                 del == Event("Delete", o, Len(frames) - 1)
      <3>1. del \in Events /\ del.type = "Delete" /\ del.op = o
        BY <2>1 DEF Event, Events, EventType
      <3>2. /\ UNCHANGED <<tpc, active>>
            /\ life'[o] = "cleaned"
            /\ \A x \in Operate : x # o => life'[x] = life[x]
            /\ queue' = Append(queue, del)
            /\ queue \in Seq(Events)
        BY <2>1, <2>3 DEF SettingsRejected, threadVars, TypeOK
      <3>3. KeepsHeard /\ KeepsDelete
        BY <3>1, <3>2, QueueKept
      <3>4. SettingsFirst'
        BY <2>1 DEF SettingsFirst
      <3>5. OwnerLive' /\ NoThreadYet' /\ ActiveLive'
        BY <2>1, <3>2 DEF TypeOK, Sound, OwnerLive, NoThreadYet, ActiveLive, Owning
      <3>6. KeepsState
        BY <2>1, <3>2, <3>4, <3>5 DEF KeepsState
      <3>7. QED
        BY <2>1, <3>2, <3>3, <3>6, LiveKept, Preserved
    <2>4. QED
      BY <2>2, <2>3
  (* A dialog closes: the others move up in the stack. *)
  <1>6. ASSUME Answer
        PROVE  Sound'
    <2> USE <1>6
    <2>1. /\ frames \in Seq(Frames) /\ frames # <<>> /\ frames' = Tail(frames)
          /\ Top.op \in Operate
      BY TailElements, Fields DEF TypeOK, Answer, PopFrame, Top
    <2>2. /\ UNCHANGED <<life, active, queue>>
          /\ \A x \in Operate : \/ tpc'[x] = tpc[x]
                                \/ tpc[x] = "askStart" /\ tpc'[x] = "start"
                                \/ tpc[x] = "askBusy" /\ tpc'[x] = "busy"
      BY <2>1 DEF Answer, TypeOK
    <2>3. KeepsHeard /\ KeepsDelete
      BY <2>2, QueueKept DEF TypeOK
    <2>4. SettingsFirst'
      <3>1. /\ Len(frames) \in Nat /\ Len(Tail(frames)) = Len(frames) - 1
            /\ \A i \in 1 .. Len(Tail(frames)) :
                  Tail(frames)[i] = frames[i + 1] /\ i + 1 \in 1 .. Len(frames)
                  /\ frames[i + 1].op \in Operate
        BY <2>1, TailElements, QueueTyped
      <3>2. SUFFICES ASSUME NEW i \in 1 .. Len(Tail(frames)), frames'[i].kind = "settings"
                     PROVE  /\ i = Len(Tail(frames))
                            /\ life'[frames'[i].op] = "live"
                            /\ frames'[i].op \notin active'
                            /\ tpc'[frames'[i].op] = "none"
        BY <2>1 DEF SettingsFirst
      <3>3. /\ frames'[i] = frames[i + 1] /\ i + 1 \in 1 .. Len(frames)
            /\ frames[i + 1].op \in Operate
        BY <2>1, <3>1
      <3>4. /\ i + 1 = Len(frames)
            /\ life[frames[i + 1].op] = "live"
            /\ frames[i + 1].op \notin active
            /\ tpc[frames[i + 1].op] = "none"
        BY <3>2, <3>3 DEF Sound, SettingsFirst
      <3>5. QED
        BY <2>2, <3>1, <3>3, <3>4
    <2>5. KeepsState
      BY <2>2, <2>4 DEF Sound, KeepsState, OwnerLive, NoThreadYet, ActiveLive, Past, Owning
    <2>6. QED
      BY <2>2, <2>3, <2>5, LiveKept, Preserved
  (* slotFinished of o, whose thread is past its use of the operate (or which *)
  (* has no thread) and of which nothing else is heard.                       *)
  <1>7. ASSUME NEW o \in Operate, NEW q \in Seq(Events),
               SlotFinished(o, q), UNCHANGED <<frames, tpc>>,
               \/ q = queue
               \/ queue # <<>> /\ q = Tail(queue),
               tpc[o] \notin Owning,
               o \in active => \A i \in 1 .. Len(q) : Heard(q[i]) => q[i].op # o,
               o \in Direct \/ tpc[o] # "none"
        PROVE  Sound'
    <2> USE <1>7
    <2> DEFINE del == Event("Delete", o, Len(frames))
    <2>0. queue \in Seq(Events) /\ Len(frames) \in Nat
      BY TypeQueue
    <2>1. CASE o \notin active
      <3>1. UNCHANGED <<life, active>> /\ queue' = q
        BY <2>1 DEF SlotFinished
      <3>2. KeepsHeard /\ KeepsDelete
        BY <2>0, <3>1, QueueKept
      <3>3. QED
        BY <3>1, <3>2, StillSound
    <2>2. CASE o \in active
      <3>1. /\ active' = active \ {o} /\ life[o] = "live" /\ life'[o] = "cleaned"
            /\ \A x \in Operate : x # o => life'[x] = life[x]
            /\ queue' = Append(q, del)
        BY <2>2 DEF SlotFinished, TypeOK, Sound, ActiveLive
      <3>2. del \in Events /\ del.type = "Delete" /\ del.op = o /\ ~Heard(del)
        BY <2>0 DEF Event, Events, EventType, Heard, Signals
      <3>3. KeepsHeard /\ KeepsDelete
        BY <2>0, <3>1, <3>2, QueueKept
      <3>4. OwnerLive' /\ NoThreadYet' /\ ActiveLive'
        BY <3>1 DEF TypeOK, Sound, OwnerLive, NoThreadYet, ActiveLive
      <3>5. SettingsFirst'
        BY <2>2, <3>1, QueueTyped DEF TypeOK, Sound, SettingsFirst
      <3>6. KeepsState
        BY <3>1, <3>4, <3>5 DEF KeepsState
      <3>7. KeepsLive
        <4>1. SUFFICES ASSUME NEW i \in 1 .. Len(queue'), Heard(queue'[i])
                       PROVE  life'[queue'[i].op] = "live"
          BY DEF KeepsLive
        <4>2. PICK k \in {0, 1} : i + k \in Positions /\ queue'[i] = queue[i + k]
          BY <3>3, <4>1 DEF KeepsHeard
        <4>3. queue[i + k].op \in Operate /\ life[queue[i + k].op] = "live"
          BY <2>0, <4>1, <4>2, QueueTyped DEF Sound, HeardLive, Positions
        <4>4. queue'[i].op # o
          <5>1. /\ Len(queue') = Len(q) + 1 /\ queue'[Len(q) + 1] = del
                /\ \A j \in 1 .. Len(q) : queue'[j] = q[j]
            BY <3>1, <3>2, AppendProperties
          <5>2. Len(q) \in Nat
            BY QueueTyped
          <5>3. i \in 1 .. Len(q)
            BY <3>2, <4>1, <5>1, <5>2
          <5>4. QED
            BY <2>2, <4>1, <5>1, <5>3
        <4>5. QED
          BY <3>1, <4>2, <4>3, <4>4
      <3>8. QED
        BY <3>3, <3>6, <3>7, Preserved
    <2>3. QED
      BY <2>1, <2>2
  <1>8. ASSUME DeliverFinished
        PROVE  Sound'
    <2> USE <1>8
    <2>1. /\ queue # <<>> /\ queue \in Seq(Events)
          /\ Head1 = queue[1] /\ Head1.type = "Finished" /\ Head1.op \in Operate
          /\ Tail(queue) \in Seq(Events)
          /\ Len(Tail(queue)) = Len(queue) - 1 /\ Len(queue) \in Nat
          /\ \A i \in 1 .. Len(Tail(queue)) : Tail(queue)[i] = queue[i + 1]
      BY TailElements, QueueTyped, Fields DEF TypeOK, DeliverFinished, Take, Head1
    <2>2. 1 \in Positions
      BY <2>1, EmptyLen DEF Positions
    <2>3. tpc[Head1.op] \in Past
      BY <2>1, <2>2 DEF Sound, FinishedPast
    <2>4. \A i \in 1 .. Len(Tail(queue)) : Heard(Tail(queue)[i]) => Tail(queue)[i].op # Head1.op
      BY <2>1, <2>2 DEF Sound, HeardLast, Positions
    <2>5. SlotFinished(Head1.op, Tail(queue)) /\ UNCHANGED <<frames, tpc>>
      BY DEF DeliverFinished, threadVars
    <2>6. QED
      BY <2>1, <2>3, <2>4, <2>5, <1>7 DEF Past, Owning
  (* COperate::Stop of a thread leaves operates and dialogs alone; of a      *)
  (* direct operate it is slotFinished.                                      *)
  <1>9. ASSUME NEW o \in Operate, NEW q \in Seq(Events),
               Stop(o, q),
               \/ q = queue
               \/ queue # <<>> /\ q = Tail(queue)
        PROVE  Sound'
    <2> USE <1>9
    <2>1. CASE o \notin Direct
      <3>1. queue' = q /\ UNCHANGED <<life, active, frames, tpc>> /\ queue \in Seq(Events)
        BY <2>1 DEF Stop, TypeOK
      <3>2. KeepsHeard /\ KeepsDelete
        BY <3>1, QueueKept
      <3>3. QED
        BY <3>1, <3>2, StillSound
    <2>2. CASE o \in Direct
      <3>1. tpc[o] = "none" /\ SlotFinished(o, q) /\ UNCHANGED <<frames, tpc>>
        BY <2>2 DEF Stop, Sound, NoThreadYet
      <3>2. \A i \in 1 .. Len(q) : Heard(q[i]) => q[i].op # o
        <4>1. \A i \in Positions : Heard(queue[i]) => queue[i].op # o
          BY <3>1 DEF Sound, HeardLive
        <4>2. CASE q = queue
          BY <4>1, <4>2 DEF Positions
        <4>3. CASE queue # <<>> /\ q = Tail(queue)
          BY <4>1, <4>3, TailElements, QueueTyped DEF TypeOK, Positions
        <4>4. QED
          BY <4>2, <4>3
      <3>3. QED
        BY <2>2, <3>1, <3>2, <1>7 DEF Owning
    <2>3. QED
      BY <2>1, <2>2
  <1>10. ASSUME queue # <<>>
         PROVE  /\ queue \in Seq(Events) /\ 1 \in Positions /\ Head1 = queue[1]
                /\ Head1 \in Events /\ Head1.op \in Operate
                /\ Tail(queue) \in Seq(Events)
    BY <1>10, TailElements, QueueTyped, Fields, EmptyLen DEF TypeOK, Head1, Positions
  (* A deletion of a dead operate, or of a thread that is done, disturbs nothing. *)
  <1>11. ASSUME UNCHANGED active,
                \A x \in Operate : tpc'[x] = tpc[x] \/ (tpc[x] = "done" /\ tpc'[x] = "freed"),
                \A x \in Operate : \/ life'[x] = life[x]
                                   \/ life[x] \in {"cleaned", "deleted"} /\ life'[x] = "deleted"
         PROVE  OwnerLive' /\ NoThreadYet' /\ ActiveLive'
    <2> USE <1>11
    <2>1. OwnerLive /\ NoThreadYet /\ ActiveLive /\ active \subseteq Operate
      BY DEF Sound, TypeOK
    <2>2. OwnerLive'
      <3> SUFFICES ASSUME NEW x \in Operate, tpc'[x] \in Owning PROVE life'[x] = "live"
        BY DEF OwnerLive
      <3>1. tpc[x] \in Owning
        BY DEF Owning
      <3>2. life[x] = "live"
        BY <2>1, <3>1 DEF OwnerLive
      <3>3. QED
        BY <3>2
    <2>3. NoThreadYet'
      <3> SUFFICES ASSUME NEW x \in Operate, life'[x] = "absent" \/ x \in Direct
                   PROVE  tpc'[x] = "none"
        BY DEF NoThreadYet
      <3>1. life[x] = "absent" \/ x \in Direct
        OBVIOUS
      <3>2. tpc[x] = "none"
        BY <2>1, <3>1 DEF NoThreadYet
      <3>3. QED
        BY <3>2
    <2>4. ActiveLive'
      BY <2>1 DEF ActiveLive
    <2>5. QED
      BY <2>2, <2>3, <2>4
  <1>12. ASSUME Deliver
         PROVE  Sound'
    <2> USE <1>12
    <2>0. queue # <<>>
      BY DEF Deliver, Take, Skip, DeliverRunning, DeliverStop, DeliverAsk,
             DeliverFinished, DeliverDelete, DeliverReap, DeliverFree
    <2>a. /\ queue \in Seq(Events) /\ 1 \in Positions /\ Head1 = queue[1]
          /\ Head1 \in Events /\ Head1.op \in Operate
          /\ Tail(queue) \in Seq(Events)
      BY <2>0, <1>10
    <2>t. ASSUME queue' = Tail(queue) PROVE KeepsHeard /\ KeepsDelete
      BY <2>0, <2>a, <2>t, QueueKept
    <2>1. CASE Skip
      <3>1. UNCHANGED <<life, active, frames, tpc>>
        BY <2>1 DEF Skip, uiVars, threadVars
      <3>2. CASE Deferred /\ queue' = Append(Tail(queue), Head1)
        <4>1. Head1.type \in {"Delete", "Free"} /\ Head1 = Head(queue)
          BY <3>2 DEF Deferred, Head1
        <4>2. KeepsHeard /\ KeepsDelete
          BY <2>0, <2>a, <3>2, <4>1, QueueKept
        <4>3. QED
          BY <3>1, <4>2, StillSound
      <3>3. CASE queue' = Tail(queue)
        BY <2>t, <3>1, <3>3, StillSound
      <3>4. QED
        BY <2>1, <3>2, <3>3 DEF Skip
    <2>2. CASE DeliverRunning
      BY <2>t, <2>2, StillSound DEF DeliverRunning, threadVars
    <2>3. CASE DeliverStop
      BY <2>0, <2>3, <2>a, <1>9 DEF DeliverStop
    <2>4. CASE DeliverAsk
      <3>1. /\ KeepsHeard /\ KeepsDelete
            /\ UNCHANGED <<life, active, tpc>>
            /\ frames' = <<[kind |-> "ask", op |-> Head1.op]>> \o frames
            /\ frames \in Seq(Frames)
        BY <2>t, <2>4 DEF DeliverAsk, threadVars, PushFrame, TypeOK
      <3>2. SettingsFirst'
        <4> DEFINE top == [kind |-> "ask", op |-> Head1.op]
        <4>1. top \in Frames
          BY <2>a DEF Frames
        <4>2. /\ Len(frames') = Len(frames) + 1 /\ frames'[1] = top
              /\ \A i \in 2 .. Len(frames) + 1 : frames'[i] = frames[i - 1]
              /\ Len(frames) \in Nat
          BY <3>1, <4>1, PushElements, QueueTyped
        <4>3. \A i \in 1 .. Len(frames) : frames[i].op \in Operate
          BY <3>1, QueueTyped
        <4>4. SUFFICES ASSUME NEW i \in 1 .. Len(frames'), frames'[i].kind = "settings"
                       PROVE  /\ i = Len(frames')
                              /\ life[frames'[i].op] = "live"
                              /\ frames'[i].op \notin active
                              /\ tpc[frames'[i].op] = "none"
          BY <3>1 DEF SettingsFirst
        <4>5. i # 1
          BY <4>2, <4>4
        <4>6. /\ i - 1 \in 1 .. Len(frames) /\ frames'[i] = frames[i - 1]
              /\ frames[i - 1].kind = "settings"
          BY <4>2, <4>4, <4>5
        <4>7. /\ i - 1 = Len(frames)
              /\ life[frames[i - 1].op] = "live"
              /\ frames[i - 1].op \notin active
              /\ tpc[frames[i - 1].op] = "none"
          BY <4>6 DEF Sound, SettingsFirst
        <4>8. QED
          BY <4>2, <4>6, <4>7
      <3>3. KeepsState
        BY <3>1, <3>2 DEF Sound, KeepsState, OwnerLive, NoThreadYet, ActiveLive
      <3>4. QED
        BY <3>1, <3>3, LiveKept, Preserved
    <2>5. CASE DeliverFinished
      BY <2>5, <1>8
    <2>6. CASE DeliverDelete
      <3> DEFINE o == Head1.op
      <3>1. life[o] \in {"cleaned", "deleted"}
        BY <2>6, <2>a DEF DeliverDelete, Take, Sound, DeleteCleaned
      <3>2. /\ queue' = Tail(queue) /\ UNCHANGED <<active, frames>>
            /\ life'[o] = "deleted"
            /\ \A x \in Operate : x # o => life'[x] = life[x]
            /\ \A x \in Operate : tpc'[x] = tpc[x] \/ (tpc[x] = "done" /\ tpc'[x] = "freed")
        BY <2>6, <2>a DEF DeliverDelete, TypeOK
      <3>3. KeepsHeard /\ KeepsDelete
        BY <2>t, <3>2
      <3>4. SettingsFirst'
        BY <3>1, <3>2, QueueTyped DEF TypeOK, Sound, SettingsFirst
      <3>5. OwnerLive' /\ NoThreadYet' /\ ActiveLive'
        BY <3>1, <3>2, <1>11
      <3>6. KeepsState
        BY <3>1, <3>2, <3>4, <3>5 DEF KeepsState, Past
      <3>7. QED
        BY <3>1, <3>2, <3>3, <3>6, LiveKept, Preserved
    <2>7. CASE DeliverReap
      <3> DEFINE free == Event("Free", Head1.op, Len(frames))
      <3>1. free \in Events /\ free.type = "Free"
        BY <2>a, TypeQueue DEF Event, Events, EventType
      <3>2. queue' = Append(Tail(queue), free) /\ UNCHANGED <<life, active, frames, tpc>>
        BY <2>7 DEF DeliverReap, uiVars, threadVars
      <3>3. KeepsHeard /\ KeepsDelete
        BY <2>0, <2>a, <3>1, <3>2, QueueKept
      <3>4. QED
        BY <3>2, <3>3, StillSound
    <2>8. CASE DeliverFree
      <3>1. /\ queue' = Tail(queue) /\ UNCHANGED <<life, active, frames>>
            /\ \A x \in Operate : tpc'[x] = tpc[x] \/ (tpc[x] = "done" /\ tpc'[x] = "freed")
        BY <2>8, <2>a DEF DeliverFree, uiVars, TypeOK
      <3>2. KeepsHeard /\ KeepsDelete
        BY <2>t, <3>1
      <3>3. SettingsFirst'
        BY <3>1, QueueTyped DEF TypeOK, Sound, SettingsFirst
      <3>4. OwnerLive' /\ NoThreadYet' /\ ActiveLive'
        BY <3>1, <1>11
      <3>5. KeepsState
        BY <3>1, <3>3, <3>4 DEF KeepsState, Past
      <3>6. QED
        BY <3>1, <3>2, <3>5, LiveKept, Preserved
    <2>9. QED
      BY <2>1, <2>2, <2>3, <2>4, <2>5, <2>6, <2>7, <2>8 DEF Deliver
  <1>13. ASSUME queue' = queue, UNCHANGED <<life, active, frames, tpc>> PROVE Sound'
    <2>1. KeepsHeard /\ KeepsDelete
      BY <1>13, QueueKept DEF TypeOK
    <2> QED  BY <1>13, <2>1, StillSound
  <1>14. CASE InCall
    <2>1. CASE StopNext
      BY <2>1, <1>9 DEF StopNext, TypeOK
    <2>2. CASE QuitCheck \/ QuitWake
      BY <1>13, <2>2 DEF QuitCheck, QuitWake, threadVars
    <2> QED  BY <1>14, <2>1, <2>2 DEF InCall
  <1>15. CASE User
    <2>1. ASSUME NEW o \in Operate, Configure(o) \/ OpenFile(o) PROVE Sound'
      BY <1>1, <1>3, <2>1
    <2>2. ASSUME NEW o \in Operate, Hangup(o) PROVE Sound'
      BY <1>9, <2>2 DEF Hangup, TypeOK
    <2>3. CASE StopOne \/ StopOther \/ StopAll \/ CloseApp
      BY <1>13, <2>3 DEF StopOne, StopOther, StopAll, StopSome, CloseApp, threadVars
    <2>4. CASE Exit
      BY <2>4 DEF Exit, Up
    <2> QED  BY <1>15, <2>1, <2>2, <2>3, <2>4 DEF User
  <1> QED
    BY <1>5, <1>6, <1>12, <1>14, <1>15 DEF Dialogs

LEMMA SoundStep == IInv /\ [Next]_vars => IInv'
  <1> SUFFICES ASSUME IInv, [Next]_vars PROVE IInv'
    OBVIOUS
  <1>1. TypeOK /\ TypeOK'
    BY TypeStep DEF IInv
  <1>2. CASE UNCHANGED vars
    <2>1. UNCHANGED <<life, active, frames, tpc, queue, app>>
      BY <1>2 DEF vars
    <2>2. KeepsHeard /\ KeepsDelete
      BY <1>1, <2>1, QueueKept DEF TypeOK
    <2> QED  BY <1>1, <2>1, <2>2, StillSound DEF IInv, Up
  <1>3. CASE Next
    <2>1. Up
      BY <1>3 DEF Next, Deliver, Take, Skip, DeliverRunning, DeliverStop, DeliverAsk,
                  DeliverFinished, DeliverDelete, DeliverReap, DeliverFree,
                  InCall, StopNext, QuitCheck, QuitWake, Dialogs, SettingsAccepted,
                  SettingsRejected, Answer, User, Configure, OpenFile, Hangup, UserFree,
                  MainIdle, StopOne, StopOther, StopAll, StopSome, CloseApp, Exit,
                  ThreadStep, At, Instance, EmitRunning, EmitStop, EmitAsk, Emit,
                  StartOk, StartFail, Process, Return, Leave, StopBackend, StopFailed,
                  DropBackend, Finish, Done
    <2>2. Sound
      BY <2>1 DEF IInv
    <2>3. CASE Deliver \/ InCall \/ Dialogs \/ User
      BY <1>1, <2>2, <2>3, MainSound DEF IInv
    <2>4. ASSUME NEW o \in Operate, ThreadStep(o) PROVE IInv'
      BY <1>1, <2>2, <2>4, ThreadSound DEF IInv
    <2> QED  BY <1>3, <2>3, <2>4 DEF Next
  <1> QED  BY <1>2, <1>3

(* The strengthening from which the theorems below follow: an owning thread *)
(* has a live operate, and the queue tells the whole past of a session.     *)
THEOREM Inductive == Spec => []IInv
  <1>1. Init => IInv
    BY DEF Init, IInv, Sound, OwnerLive, NoThreadYet, ActiveLive, SettingsFirst, FinishedPast,
           DeleteCleaned, HeardLive, HeardLast, Owning, Positions,
           TypeOK, Idle, PC, Signals, EventType
  <1> QED  BY <1>1, SoundStep, PTL DEF Spec

(* Until CBackend::Stop has returned, the COperate its thread uses is      *)
(* neither cleaned nor deleted, whatever is opened, stopped, nested or     *)
(* failing, for any number of sessions.                                    *)
THEOREM OwnerAlive == Spec => []BackendOwnerAlive
  <1>1. IInv => BackendOwnerAlive
    BY DEF IInv, Sound, OwnerLive, BackendOwnerAlive
  <1>2. QED
    BY <1>1, Inductive, PTL

(* sigFinished is the last event of a session, and it is queued once.      *)
THEOREM FinishedLast == Spec => []FinishedIsLast
  <1>1. IInv => FinishedIsLast
    BY DEF IInv, Sound, HeardLive, HeardLast, FinishedIsLast
  <1>2. QED
    BY <1>1, Inductive, PTL
==============================================================================
