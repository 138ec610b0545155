------------------------- MODULE SessionLife_proof -------------------------
(***************************************************************************)
(* Session implements SessionLife; the dialogs and thread pointers of a    *)
(* session.  All rests on the inductive invariant of Session_proof.        *)
(***************************************************************************)
EXTENDS Session_proof

(* A thread waits for one dialog at most: asked for in the queue, or open. *)
AskedOnce ==
    /\ \A i \in Positions : queue[i].type = "Ask" =>
          /\ tpc[queue[i].op] \in Asking
          /\ \A j \in Positions : queue[j].type = "Ask" /\ queue[j].op = queue[i].op => j = i
    /\ \A i \in 1 .. Len(frames) : frames[i].kind = "ask" =>
          /\ tpc[frames[i].op] \in Asking
          /\ \A j \in 1 .. Len(frames) :
                frames[j].kind = "ask" /\ frames[j].op = frames[i].op => j = i
          /\ \A j \in Positions : queue[j].type = "Ask" => queue[j].op # frames[i].op

(* The end of a thread's session, if not handled yet, is in the queue. *)
EndHeard ==
    \A o \in active \ Silent : tpc[o] \in Past =>
        \E j \in Positions : queue[j].type = "Finished" /\ queue[j].op = o

(* The events that delete a thread are behind the one that deletes its operate. *)
FreeAfter ==
    \A i \in Positions : queue[i].type \in {"Reap", "Free"} =>
        /\ tpc[queue[i].op] \in Ended
        /\ \A j \in Positions :
              queue[j].type = "Finished" /\ queue[j].op = queue[i].op => j < i

FreedForgotten == \A o \in active \ Silent : tpc[o] # "freed"

(* A thread's session is in m_Operates until it is over; what is shown is. *)
Known ==
    /\ \A o \in Operate : life[o] = "live" /\ tpc[o] # "none" => o \in active
    /\ \A o \in shown : life[o] # "absent" /\ (life[o] = "live" => o \in active)

Whole == AskedOnce /\ EndHeard /\ FreeAfter /\ Known

WInv == IInv /\ FreedForgotten /\ (Up => Whole)

(***************************************************************************)
(* What a step of the main thread may do, whichever it is.                 *)
(***************************************************************************)
(* To the queue: take the head or not, and add an event of a deletion or not. *)
QueueMoves ==
    \E k \in {0, 1} :
        /\ k = 1 => queue # <<>> /\ (Head1.type = "Finished" => Head1.op \notin active')
        /\ LET q == IF k = 1 THEN Tail(queue) ELSE queue
           IN  \/ queue' = q
               \/ \E e \in Events :
                     /\ queue' = Append(q, e)
                     /\ \/ e.type = "Delete"
                        \/ /\ e.type = "Free" /\ k = 1
                           /\ Head1.type \in {"Reap", "Free"} /\ e.op = Head1.op

(* To the threads: start one, let one that waits go on, delete one that is done. *)
ThreadMoved ==
    /\ \A x \in Operate :
          \/ tpc'[x] = tpc[x]
          \/ tpc[x] = "none" /\ tpc'[x] = "new"
          \/ tpc[x] \in Asking /\ tpc'[x] \in {"start", "busy"}
          \/ /\ tpc[x] = "done" /\ tpc'[x] = "freed"
             /\ queue # <<>> /\ Head1.op = x /\ Head1.type \in {"Delete", "Free"}
    /\ \A x \in active' : x \in active \/ tpc[x] = "none"

(* To the dialogs: open one for the settings, close one, open one for a thread. *)
Waits == \A x \in Operate : tpc[x] \in Asking => tpc'[x] = tpc[x]

FrameMoves ==
    \/ /\ Waits
       /\ \A i \in 1 .. Len(frames') :
             frames'[i].kind = "ask" => i \in 1 .. Len(frames) /\ frames'[i] = frames[i]
    \/ /\ frames # <<>> /\ frames' = Tail(frames)
       /\ \A x \in Operate :
             tpc[x] \in Asking => tpc'[x] = tpc[x] \/ (Top.kind = "ask" /\ Top.op = x)
    \/ /\ Waits
       /\ queue # <<>> /\ Head1.type = "Ask" /\ queue' = Tail(queue)
       /\ frames' = <<[kind |-> "ask", op |-> Head1.op]>> \o frames

LEMMA MainMoves ==
    ASSUME TypeOK, TypeOK', Sound, Deliver \/ InCall \/ Dialogs \/ User
    PROVE  QueueMoves /\ ThreadMoved /\ FrameMoves
  <1> DEFINE Goal == QueueMoves /\ ThreadMoved /\ FrameMoves
  <1>t. /\ queue \in Seq(Events) /\ Len(frames) \in Nat
        /\ queue # <<>> => Head1 \in Events /\ Head1.op \in Operate
        /\ frames # <<>> => Top.op \in Operate
    BY TypeQueue DEF Head1, Top
  <1>e. ASSUME NEW t \in {"Delete", "Free"}, NEW o \in Operate, NEW n \in Nat
        PROVE  Event(t, o, n) \in Events /\ Event(t, o, n).type = t /\ Event(t, o, n).op = o
    BY DEF Event, Events, EventType
  (* What leaves the threads, the dialogs or the queue alone. *)
  <1>a. ASSUME UNCHANGED tpc, active' \subseteq active PROVE ThreadMoved
    BY <1>a DEF ThreadMoved
  <1>b. ASSUME UNCHANGED frames, Waits PROVE FrameMoves
    BY <1>b DEF FrameMoves
  <1>c. ASSUME UNCHANGED queue PROVE QueueMoves
    BY <1>c DEF QueueMoves
  <1>d. ASSUME NEW o \in Operate, NEW n \in Nat, queue' = Append(queue, Event("Delete", o, n))
        PROVE  QueueMoves
    <2>1. Event("Delete", o, n) \in Events /\ Event("Delete", o, n).type = "Delete"
      BY <1>e
    <2> QED  BY <1>d, <2>1 DEF QueueMoves
  <1>f. UNCHANGED tpc => Waits
    BY DEF Waits
  <1>1. ASSUME NEW o \in Operate, Configure(o) PROVE Goal
    <2>1. /\ UNCHANGED <<queue, tpc, active>> /\ frames = <<>>
          /\ frames' = <<[kind |-> "settings", op |-> o]>> \o frames
      BY <1>1 DEF Configure, PushFrame, UserFree, threadVars
    <2>2. Len(frames') = 1 /\ frames'[1].kind = "settings"
      BY <2>1
    <2>3. FrameMoves
      BY <1>f, <2>1, <2>2 DEF FrameMoves
    <2> QED  BY <1>a, <1>c, <2>1, <2>3
  <1>2. ASSUME NEW o \in Operate, StartThreaded(o) \/ StartDirect(o), tpc[o] = "none",
               Len(frames') \in Nat
        PROVE  QueueMoves /\ ThreadMoved /\ Waits
    <2>1. \A x \in Operate : tpc'[x] = tpc[x] \/ (tpc[x] = "none" /\ tpc'[x] = "new")
      BY <1>2 DEF StartThreaded, StartDirect, threadVars, TypeOK
    <2>2. \A x \in active' : x \in active \/ tpc[x] = "none"
      BY <1>2 DEF StartThreaded, StartDirect
    <2>3. QueueMoves
      BY <1>2, <1>c, <1>d DEF StartThreaded, StartDirect
    <2> QED  BY <2>1, <2>2, <2>3 DEF ThreadMoved, Waits, Asking
  <1>3. ASSUME NEW o \in Operate, OpenFile(o) PROVE Goal
    <2>1. tpc[o] = "none" /\ UNCHANGED frames
      BY <1>3 DEF OpenFile, Sound, NoThreadYet
    <2> QED  BY <1>2, <1>3, <1>b, <1>t, <2>1 DEF OpenFile
  <1>4. CASE SettingsAccepted \/ SettingsRejected
    <2>1. /\ frames # <<>> /\ frames' = Tail(frames) /\ Top.op \in Operate
          /\ Top.kind = "settings" /\ Len(frames) - 1 \in Nat /\ Len(frames') \in Nat
      BY <1>4, <1>t, TypeQueue, TailElements DEF SettingsAccepted, SettingsRejected, PopFrame
    <2>2. tpc[Top.op] = "none"
      BY <1>t, <2>1, TypeQueue, TailElements DEF Sound, SettingsFirst, Top
    <2>3. CASE SettingsAccepted
      <3>1. QueueMoves /\ ThreadMoved /\ Waits
        BY <1>2, <2>1, <2>2, <2>3 DEF SettingsAccepted
      <3> QED  BY <2>1, <3>1 DEF FrameMoves, Waits
    <2>4. CASE SettingsRejected
      <3>1. /\ UNCHANGED <<tpc, active>>
            /\ queue' = Append(queue, Event("Delete", Top.op, Len(frames) - 1))
        BY <2>4 DEF SettingsRejected, threadVars
      <3>2. FrameMoves
        BY <2>1, <3>1 DEF FrameMoves
      <3> QED  BY <1>a, <1>d, <2>1, <3>1, <3>2
    <2> QED  BY <1>4, <2>3, <2>4
  <1>5. CASE Answer
    <2>1. /\ UNCHANGED <<queue, active>> /\ frames # <<>> /\ frames' = Tail(frames)
          /\ Top.kind = "ask" /\ Top.op \in Operate
      BY <1>5, <1>t DEF Answer, PopFrame
    <2>2. \A x \in Operate : \/ tpc'[x] = tpc[x]
                             \/ x = Top.op /\ tpc[x] \in Asking /\ tpc'[x] \in {"start", "busy"}
      BY <1>5, <2>1 DEF Answer, TypeOK, Asking
    <2> QED  BY <1>c, <2>1, <2>2 DEF ThreadMoved, FrameMoves
  <1>6. ASSUME NEW o \in Operate, NEW q, SlotFinished(o, q)
        PROVE  /\ active' \subseteq active /\ o \notin active'
               /\ \/ queue' = q
                  \/ \E e \in Events : e.type = "Delete" /\ queue' = Append(q, e)
    BY <1>6, <1>e, <1>t DEF SlotFinished
  <1>7. ASSUME NEW o \in Operate, NEW q, Stop(o, q)
        PROVE  /\ UNCHANGED <<tpc, frames>> /\ active' \subseteq active
               /\ \/ queue' = q
                  \/ \E e \in Events : e.type = "Delete" /\ queue' = Append(q, e)
    BY <1>6, <1>7 DEF Stop
  <1>8. ASSUME NEW o \in Operate, Stop(o, queue) PROVE Goal
    BY <1>7, <1>8, <1>a, <1>b, <1>f DEF QueueMoves
  <1>9. CASE InCall
    <2>1. CASE StopNext
      BY <1>8, <2>1 DEF StopNext, TypeOK
    <2>2. CASE QuitCheck \/ QuitWake
      BY <1>a, <1>b, <1>c, <1>f, <2>2 DEF QuitCheck, QuitWake, threadVars
    <2> QED  BY <1>9, <2>1, <2>2 DEF InCall
  <1>10. CASE StopOne \/ StopOther \/ StopAll \/ CloseApp
    BY <1>a, <1>b, <1>c, <1>f, <1>10 DEF StopOne, StopOther, StopAll, StopSome, CloseApp, threadVars
  <1>11. CASE Exit
    <2>1. UNCHANGED <<queue, tpc>> /\ active' = {} /\ frames' = <<>>
      BY <1>11 DEF Exit, threadVars
    <2> QED  BY <1>a, <1>c, <1>f, <2>1 DEF FrameMoves
  <1>12. CASE Deliver
    <2>1. queue # <<>>
      BY <1>12 DEF Deliver, Take, Skip, DeliverRunning, DeliverStop, DeliverAsk,
                   DeliverFinished, DeliverDelete, DeliverReap, DeliverFree
    <2>h. Head1 \in Events /\ Head1.op \in Operate
      BY <1>t, <2>1
    <2>2. ASSUME Head1.type # "Finished" \/ Head1.op \notin active',
                 \/ queue' = Tail(queue)
                 \/ \E e \in Events : e.type = "Delete" /\ queue' = Append(Tail(queue), e)
                 \/ \E e \in Events : /\ queue' = Append(Tail(queue), e)
                                      /\ e.type = "Free" /\ Head1.type \in {"Reap", "Free"}
                                      /\ e.op = Head1.op
          PROVE  QueueMoves
      BY <2>1, <2>2 DEF QueueMoves
    <2>3. CASE Skip
      <3>1. UNCHANGED <<tpc, active, frames>>
        BY <2>3 DEF Skip, uiVars, threadVars
      <3>2. CASE Deferred /\ queue' = Append(Tail(queue), Head1)
        <4>1. Head1.type \in {"Delete", "Free"}
          BY <3>2 DEF Deferred
        <4> QED  BY <1>a, <1>b, <1>f, <2>2, <2>h, <3>1, <3>2, <4>1
      <3>3. CASE Dropped /\ queue' = Tail(queue)
        <4>1. Head1.op \notin active'
          BY <3>1, <3>3 DEF Dropped, Sound, ActiveLive
        <4> QED  BY <1>a, <1>b, <1>f, <2>2, <3>1, <3>3, <4>1
      <3> QED  BY <2>3, <3>2, <3>3 DEF Skip
    <2>4. CASE DeliverRunning
      BY <1>a, <1>b, <1>f, <2>2, <2>4 DEF DeliverRunning, Take, threadVars
    <2>5. CASE DeliverStop
      <3>1. Stop(Head1.op, Tail(queue)) /\ Head1.type = "Stop"
        BY <2>5 DEF DeliverStop, Take
      <3>2. /\ UNCHANGED <<tpc, frames>> /\ active' \subseteq active
            /\ \/ queue' = Tail(queue)
               \/ \E e \in Events : e.type = "Delete" /\ queue' = Append(Tail(queue), e)
        BY <1>7, <2>h, <3>1
      <3> QED  BY <1>a, <1>b, <1>f, <2>2, <3>1, <3>2
    <2>6. CASE DeliverAsk
      <3>1. /\ Head1.type = "Ask" /\ queue' = Tail(queue) /\ UNCHANGED <<tpc, active>>
            /\ frames' = <<[kind |-> "ask", op |-> Head1.op]>> \o frames
        BY <2>6 DEF DeliverAsk, Take, PushFrame, threadVars
      <3>2. FrameMoves
        BY <1>f, <2>1, <3>1 DEF FrameMoves
      <3> QED  BY <1>a, <2>2, <3>1, <3>2
    <2>7. CASE DeliverFinished
      <3>1. SlotFinished(Head1.op, Tail(queue)) /\ UNCHANGED <<tpc, frames>>
        BY <2>7 DEF DeliverFinished, threadVars
      <3>2. /\ active' \subseteq active /\ Head1.op \notin active'
            /\ \/ queue' = Tail(queue)
               \/ \E e \in Events : e.type = "Delete" /\ queue' = Append(Tail(queue), e)
        BY <1>6, <2>h, <3>1
      <3> QED  BY <1>a, <1>b, <1>f, <2>2, <3>1, <3>2
    <2>8. CASE DeliverDelete \/ DeliverFree
      <3>1. /\ Head1.type \in {"Delete", "Free"} /\ queue' = Tail(queue) /\ UNCHANGED <<active, frames>>
            /\ \A x \in Operate : \/ tpc'[x] = tpc[x]
                                  \/ tpc[x] = "done" /\ tpc'[x] = "freed" /\ x = Head1.op
        BY <2>8, <2>h DEF DeliverDelete, DeliverFree, Take, uiVars, TypeOK
      <3>2. ThreadMoved
        BY <2>1, <3>1 DEF ThreadMoved
      <3>3. Waits
        BY <3>1 DEF Waits, Asking
      <3> QED  BY <1>b, <2>2, <3>1, <3>2, <3>3
    <2>9. CASE DeliverReap
      <3>1. /\ Head1.type = "Reap" /\ UNCHANGED <<tpc, active, frames>>
            /\ queue' = Append(Tail(queue), Event("Free", Head1.op, Len(frames)))
        BY <2>9 DEF DeliverReap, Take, uiVars, threadVars
      <3>2. \E e \in Events : /\ queue' = Append(Tail(queue), e)
                              /\ e.type = "Free" /\ e.op = Head1.op
        BY <1>e, <1>t, <2>h, <3>1
      <3> QED  BY <1>a, <1>b, <1>f, <2>2, <3>1, <3>2
    <2> QED  BY <1>12, <2>3, <2>4, <2>5, <2>6, <2>7, <2>8, <2>9 DEF Deliver
  <1>13. ASSUME NEW o \in Operate, Hangup(o) PROVE Goal
    BY <1>8, <1>13 DEF Hangup
  <1> QED
    BY <1>1, <1>3, <1>4, <1>5, <1>9, <1>10, <1>11, <1>12, <1>13 DEF Dialogs, User

(* Where what was in the queue is after a step, k being whether the head left, *)
(* and what is new in it.                                                     *)
Shifted(k) ==
    /\ Len(queue) \in Nat /\ Len(queue') \in Nat
    /\ \A i \in 1 .. Len(queue') :
          \/ i + k \in Positions /\ queue'[i] = queue[i + k]
          \/ /\ i + k = Len(queue) + 1 /\ queue'[i].type \in {"Delete", "Free"}
             /\ queue'[i].type = "Free" =>
                   /\ k = 1 /\ queue[1].type \in {"Reap", "Free"}
                   /\ queue'[i].op = queue[1].op
    /\ \A j \in Positions : j > k => j - k \in 1 .. Len(queue') /\ queue'[j - k] = queue[j]
    /\ k = 1 => 1 \in Positions /\ (queue[1].type = "Finished" => queue[1].op \notin active')

LEMMA ShiftedBy ==
    ASSUME TypeOK, QueueMoves
    PROVE  \E k \in {0, 1} : Shifted(k)
  <1>1. PICK k \in {0, 1} :
        /\ k = 1 => queue # <<>> /\ (Head1.type = "Finished" => Head1.op \notin active')
        /\ LET q == IF k = 1 THEN Tail(queue) ELSE queue
           IN  \/ queue' = q
               \/ \E e \in Events :
                     /\ queue' = Append(q, e)
                     /\ \/ e.type = "Delete"
                        \/ /\ e.type = "Free" /\ k = 1
                           /\ Head1.type \in {"Reap", "Free"} /\ e.op = Head1.op
    BY DEF QueueMoves
  <1> DEFINE q == IF k = 1 THEN Tail(queue) ELSE queue
  <1>2. /\ queue \in Seq(Events) /\ Len(queue) \in Nat
        /\ q \in Seq(Events) /\ Len(q) = Len(queue) - k /\ Len(q) \in Nat
        /\ \A i \in 1 .. Len(q) : i + k \in Positions /\ q[i] = queue[i + k]
        /\ k = 1 => 1 \in Positions /\ Head1 = queue[1]
    BY <1>1, TypeQueue, TailElements, QueueTyped DEF Head1, Positions
  <1>3. CASE queue' = q
    BY <1>1, <1>2, <1>3 DEF Shifted, Positions
  <1>4. ASSUME NEW e \in Events, queue' = Append(q, e),
               \/ e.type = "Delete"
               \/ e.type = "Free" /\ k = 1 /\ Head1.type \in {"Reap", "Free"} /\ e.op = Head1.op
        PROVE  Shifted(k)
    <2>1. /\ Len(queue') = Len(q) + 1 /\ queue'[Len(q) + 1] = e
          /\ \A i \in 1 .. Len(q) : queue'[i] = q[i]
      BY <1>2, <1>4, AppendProperties
    <2>2. ASSUME NEW i \in 1 .. Len(queue')
          PROVE  \/ i + k \in Positions /\ queue'[i] = queue[i + k]
                 \/ i + k = Len(queue) + 1 /\ queue'[i] = e
      <3>1. i \in 1 .. Len(q) \/ i = Len(q) + 1
        BY <1>2, <2>1
      <3>2. k \in Nat
        OBVIOUS
      <3> QED  BY <1>2, <2>1, <3>1, <3>2
    <2>3. \A j \in Positions : j > k => j - k \in 1 .. Len(queue') /\ queue'[j - k] = queue[j]
      <3> SUFFICES ASSUME NEW j \in Positions, j > k
                   PROVE  j - k \in 1 .. Len(queue') /\ queue'[j - k] = queue[j]
        OBVIOUS
      <3>1. j - k \in 1 .. Len(q) /\ (j - k) + k = j
        BY <1>2 DEF Positions
      <3> QED  BY <1>2, <2>1, <3>1
    <2> QED  BY <1>1, <1>2, <1>4, <2>1, <2>2, <2>3 DEF Shifted
  <1> QED  BY <1>1, <1>3, <1>4

(* The dialogs: the one that is answered was the only one of its thread. *)
LEMMA AskedOnceMain ==
    ASSUME TypeOK, TypeOK', AskedOnce, ThreadMoved, FrameMoves, NEW k \in {0, 1}, Shifted(k)
    PROVE  AskedOnce'
  <1>1. /\ frames \in Seq(Frames) /\ Len(frames) \in Nat
        /\ \A i \in 1 .. Len(frames) : frames[i].op \in Operate
        /\ \A i \in Positions : queue[i].op \in Operate
        /\ queue \in Seq(Events)
    BY QueueTyped DEF TypeOK, Positions
  <1>2. \A i \in 1 .. Len(queue') : queue'[i].type = "Ask" =>
              i + k \in Positions /\ queue'[i] = queue[i + k]
    BY DEF Shifted
  (* An event that stays is of a thread that still waits, unless answered. *)
  <1>3. ASSUME NEW i \in 1 .. Len(queue'), queue'[i].type = "Ask",
               NEW j \in 1 .. Len(queue'), queue'[j].type = "Ask", queue'[j].op = queue'[i].op
        PROVE  j = i
    <2>1. i + k \in Positions /\ j + k \in Positions /\ j + k = i + k
      BY <1>2, <1>3 DEF AskedOnce
    <2> QED  BY <2>1 DEF Shifted
  <1>4. CASE /\ Waits
             /\ \A i \in 1 .. Len(frames') :
                   frames'[i].kind = "ask" => i \in 1 .. Len(frames) /\ frames'[i] = frames[i]
    <2>1. \A i \in 1 .. Len(queue') : queue'[i].type = "Ask" => tpc'[queue'[i].op] \in Asking
      BY <1>1, <1>2, <1>4 DEF AskedOnce, Waits
    <2>2. ASSUME NEW i \in 1 .. Len(frames'), frames'[i].kind = "ask"
          PROVE  /\ tpc'[frames'[i].op] \in Asking
                 /\ \A j \in 1 .. Len(frames') :
                       frames'[j].kind = "ask" /\ frames'[j].op = frames'[i].op => j = i
                 /\ \A j \in 1 .. Len(queue') : queue'[j].type = "Ask" => queue'[j].op # frames'[i].op
      BY <1>1, <1>2, <1>4, <2>2 DEF AskedOnce, Waits
    <2> QED  BY <1>3, <2>1, <2>2 DEF AskedOnce, Positions
  <1>5. CASE /\ frames # <<>> /\ frames' = Tail(frames)
             /\ \A x \in Operate :
                   tpc[x] \in Asking => tpc'[x] = tpc[x] \/ (Top.kind = "ask" /\ Top.op = x)
    <2>1. /\ Top = frames[1] /\ 1 \in 1 .. Len(frames)
          /\ Len(frames') \in Nat /\ Len(frames') = Len(frames) - 1
          /\ \A i \in 1 .. Len(frames') : i + 1 \in 1 .. Len(frames) /\ frames'[i] = frames[i + 1]
      BY <1>1, <1>5, TailElements DEF Top
    <2>2. \A i \in 1 .. Len(queue') : queue'[i].type = "Ask" => tpc'[queue'[i].op] \in Asking
      BY <1>1, <1>2, <1>5, <2>1 DEF AskedOnce
    <2>3. ASSUME NEW i \in 1 .. Len(frames'), frames'[i].kind = "ask"
          PROVE  /\ tpc'[frames'[i].op] \in Asking
                 /\ \A j \in 1 .. Len(frames') :
                       frames'[j].kind = "ask" /\ frames'[j].op = frames'[i].op => j = i
                 /\ \A j \in 1 .. Len(queue') : queue'[j].type = "Ask" => queue'[j].op # frames'[i].op
      <3>1. /\ i + 1 \in 1 .. Len(frames) /\ frames'[i] = frames[i + 1] /\ i + 1 # 1
            /\ frames'[i].op \in Operate
        BY <1>1, <2>1
      <3>2. tpc'[frames'[i].op] \in Asking
        BY <1>5, <2>1, <2>3, <3>1 DEF AskedOnce
      <3>3. \A j \in 1 .. Len(frames') :
               frames'[j].kind = "ask" /\ frames'[j].op = frames'[i].op => j = i
        <4> SUFFICES ASSUME NEW j \in 1 .. Len(frames'), frames'[j].kind = "ask",
                            frames'[j].op = frames'[i].op
                     PROVE  j = i
          OBVIOUS
        <4>1. j + 1 \in 1 .. Len(frames) /\ frames'[j] = frames[j + 1]
          BY <2>1
        <4>2. j + 1 = i + 1
          BY <2>3, <3>1, <4>1 DEF AskedOnce
        <4> QED  BY <2>1, <4>2
      <3> QED  BY <1>2, <2>3, <3>1, <3>2, <3>3 DEF AskedOnce
    <2> QED  BY <1>3, <2>2, <2>3 DEF AskedOnce, Positions
  <1>6. CASE /\ Waits
             /\ queue # <<>> /\ Head1.type = "Ask" /\ queue' = Tail(queue)
             /\ frames' = <<[kind |-> "ask", op |-> Head1.op]>> \o frames
    <2>1. /\ Head1 = queue[1] /\ 1 \in Positions /\ Head1.op \in Operate
          /\ \A i \in 1 .. Len(queue') : i + 1 \in Positions /\ queue'[i] = queue[i + 1] /\ i + 1 # 1
      BY <1>1, <1>6, TailElements, QueueTyped DEF Head1, Positions
    <2> DEFINE top == [kind |-> "ask", op |-> Head1.op]
    <2>2. /\ Len(frames') = Len(frames) + 1 /\ frames'[1] = top
          /\ \A i \in 2 .. Len(frames) + 1 : frames'[i] = frames[i - 1] /\ i - 1 \in 1 .. Len(frames)
      <3>1. top \in Frames
        BY <2>1 DEF Frames
      <3> QED  BY <1>1, <1>6, <3>1, PushElements
    <2>3. \A i \in 1 .. Len(frames') : i = 1 \/ i \in 2 .. Len(frames) + 1
      BY <1>1, <2>2
    <2>4. \A i \in 1 .. Len(queue') : queue'[i].type = "Ask" =>
             tpc'[queue'[i].op] \in Asking /\ queue'[i].op # Head1.op
      BY <1>1, <1>6, <2>1 DEF AskedOnce, Waits
    <2>5. ASSUME NEW i \in 1 .. Len(frames'), frames'[i].kind = "ask"
          PROVE  /\ tpc'[frames'[i].op] \in Asking
                 /\ \A j \in 1 .. Len(frames') :
                       frames'[j].kind = "ask" /\ frames'[j].op = frames'[i].op => j = i
                 /\ \A j \in 1 .. Len(queue') : queue'[j].type = "Ask" => queue'[j].op # frames'[i].op
      <3>0. \A j \in 2 .. Len(frames) + 1 :
               frames'[j].kind = "ask" => frames'[j].op # Head1.op
        BY <1>6, <2>1, <2>2 DEF AskedOnce
      <3>1. CASE i = 1
        BY <1>6, <2>1, <2>2, <2>3, <2>4, <3>0, <3>1 DEF AskedOnce, Waits
      <3>2. CASE i \in 2 .. Len(frames) + 1
        <4>1. /\ i - 1 \in 1 .. Len(frames) /\ frames'[i] = frames[i - 1]
              /\ frames[i - 1].op \in Operate
          BY <1>1, <2>2, <3>2
        <4>2. tpc'[frames'[i].op] \in Asking
          BY <1>6, <2>5, <4>1 DEF AskedOnce, Waits
        <4>3. ASSUME NEW j \in 1 .. Len(frames'), frames'[j].kind = "ask",
                     frames'[j].op = frames'[i].op
              PROVE  j = i
          <5>1. j \in 2 .. Len(frames) + 1
            BY <2>2, <2>3, <2>5, <3>0, <3>2, <4>3
          <5>2. j - 1 = i - 1
            BY <2>2, <2>5, <4>1, <4>3, <5>1 DEF AskedOnce
          <5> QED  BY <1>1, <3>2, <5>1, <5>2
        <4>4. \A j \in 1 .. Len(queue') : queue'[j].type = "Ask" => queue'[j].op # frames'[i].op
          <5>1. \A j \in Positions : queue[j].type = "Ask" => queue[j].op # frames[i - 1].op
            BY <2>5, <4>1 DEF AskedOnce
          <5> QED  BY <2>1, <4>1, <5>1
        <4> QED  BY <4>2, <4>3, <4>4
      <3> QED  BY <2>3, <3>1, <3>2
    <2> QED  BY <1>3, <2>4, <2>5 DEF AskedOnce, Positions
  <1> QED  BY <1>4, <1>5, <1>6 DEF FrameMoves

(* A thread asks for a dialog only when it waits for none. *)
LEMMA WholeThread ==
    ASSUME TypeOK, TypeOK', Whole, FreedForgotten, NEW o \in Operate, ThreadStep(o)
    PROVE  Whole' /\ FreedForgotten'
  <1>1. UNCHANGED <<life, active, shown, frames>>
    BY ThreadMoves DEF uiVars
  <1>2. PICK pc \in PC :
        /\ tpc' = [tpc EXCEPT ![o] = pc]
        /\ tpc[o] \notin Asking \cup {"none", "done", "freed"} /\ pc \notin {"none", "freed"}
        /\ tpc[o] \in Past => pc \in Past
        /\ tpc[o] \in Ended => pc \in Ended
        /\ \/ queue' = queue /\ (o \notin Silent /\ pc \in Past => tpc[o] \in Past)
           \/ \E e \in Events : queue' = Append(queue, e) /\ Reports(o, pc, e)
    BY ThreadMoves DEF ThreadShape
  <1>3. /\ tpc'[o] = pc /\ \A x \in Operate : x # o => tpc'[x] = tpc[x]
        /\ active \subseteq Operate /\ shown \subseteq Operate
        /\ queue \in Seq(Events) /\ Len(queue) \in Nat
        /\ \A i \in Positions : queue[i].op \in Operate
        /\ \A i \in 1 .. Len(frames) : frames[i].op \in Operate
    BY <1>2, QueueTyped DEF TypeOK, Positions
  <1>4. Known' /\ FreedForgotten'
    BY <1>1, <1>2, <1>3 DEF Whole, Known, FreedForgotten
  (* Nothing is asked for by o yet. *)
  <1>5. /\ \A i \in Positions : queue[i].type = "Ask" => queue[i].op # o
        /\ \A i \in 1 .. Len(frames) : frames[i].kind = "ask" => frames[i].op # o
    BY <1>2 DEF Whole, AskedOnce
  <1>6. CASE queue' = queue /\ (o \notin Silent /\ pc \in Past => tpc[o] \in Past)
    <2>1. AskedOnce'
      BY <1>1, <1>3, <1>5, <1>6 DEF Whole, AskedOnce, Positions
    <2>2. EndHeard'
      BY <1>1, <1>3, <1>6 DEF Whole, EndHeard, Positions
    <2>3. FreeAfter'
      BY <1>2, <1>3, <1>6 DEF Whole, FreeAfter, Positions
    <2> QED  BY <1>4, <2>1, <2>2, <2>3 DEF Whole
  <1>7. ASSUME NEW e \in Events, queue' = Append(queue, e), Reports(o, pc, e)
        PROVE  Whole'
    <2> DEFINE n == Len(queue) + 1
    <2>1. /\ Len(queue') = n /\ queue'[n] = e /\ e.op = o /\ n \notin Positions
          /\ \A i \in Positions : queue'[i] = queue[i] /\ i \in 1 .. Len(queue')
      BY <1>3, <1>7, AppendProperties DEF Reports, Positions
    <2>2. \A i \in 1 .. Len(queue') : i \in Positions \/ i = n
      BY <1>3, <2>1 DEF Positions
    <2>3. AskedOnce'
      <3>1. e.type = "Ask" => pc \in Asking
        BY <1>7 DEF Reports
      <3>2. \A i \in 1 .. Len(queue') : queue'[i].type = "Ask" =>
               tpc'[queue'[i].op] \in Asking
        BY <1>3, <1>5, <2>1, <2>2, <3>1 DEF Whole, AskedOnce
      <3>3. ASSUME NEW i \in 1 .. Len(queue'), NEW j \in 1 .. Len(queue'),
                   queue'[i].type = "Ask", queue'[j].type = "Ask", queue'[j].op = queue'[i].op
            PROVE  j = i
        BY <1>5, <2>1, <2>2, <3>3 DEF Whole, AskedOnce
      <3>4. ASSUME NEW i \in 1 .. Len(frames), frames[i].kind = "ask"
            PROVE  /\ tpc'[frames[i].op] \in Asking
                   /\ \A j \in 1 .. Len(frames) :
                         frames[j].kind = "ask" /\ frames[j].op = frames[i].op => j = i
                   /\ \A j \in 1 .. Len(queue') : queue'[j].type = "Ask" => queue'[j].op # frames[i].op
        BY <1>3, <1>5, <2>1, <2>2, <3>4 DEF Whole, AskedOnce
      <3> QED  BY <1>1, <3>2, <3>3, <3>4 DEF AskedOnce, Positions
    <2>4. EndHeard'
      <3> SUFFICES ASSUME NEW x \in active \ Silent, tpc'[x] \in Past
                   PROVE  \E j \in 1 .. Len(queue') : queue'[j].type = "Finished" /\ queue'[j].op = x
        BY <1>1 DEF EndHeard, Positions
      <3>1. CASE tpc[x] \in Past
        BY <2>1, <3>1 DEF Whole, EndHeard
      <3>2. CASE tpc[x] \notin Past
        <4>1. x = o /\ pc \in Past /\ tpc[o] \notin Past
          BY <1>3, <3>2
        <4>2. e.type = "Finished"
          BY <1>7, <4>1 DEF Reports, Past, Owning
        <4> QED  BY <1>3, <2>1, <4>1, <4>2
      <3> QED  BY <3>1, <3>2
    <2>5. FreeAfter'
      <3> SUFFICES ASSUME NEW i \in 1 .. Len(queue'), queue'[i].type \in {"Reap", "Free"}
                   PROVE  /\ tpc'[queue'[i].op] \in Ended
                          /\ \A j \in 1 .. Len(queue') :
                                queue'[j].type = "Finished" /\ queue'[j].op = queue'[i].op => j < i
        BY DEF FreeAfter, Positions
      <3>1. CASE i \in Positions
        <4>1. tpc[queue[i].op] \in Ended /\ queue'[i] = queue[i]
          BY <2>1, <3>1 DEF Whole, FreeAfter
        <4>2. tpc'[queue'[i].op] \in Ended
          BY <1>2, <1>3, <3>1, <4>1
        <4>3. e.type = "Finished" => queue'[i].op # o
          BY <1>7, <4>1 DEF Reports, Ended, Owning, Signals
        <4> QED  BY <2>1, <2>2, <3>1, <4>1, <4>2, <4>3 DEF Whole, FreeAfter
      <3>2. CASE i = n
        <4>1. e.type = "Reap" /\ pc \in Ended
          BY <1>7, <2>1, <3>2 DEF Reports, Signals
        <4>2. \A j \in 1 .. Len(queue') : queue'[j].type = "Finished" => j < i
          BY <1>3, <2>1, <2>2, <3>2, <4>1 DEF Positions
        <4> QED  BY <1>3, <2>1, <3>2, <4>1, <4>2
      <3> QED  BY <2>2, <3>1, <3>2
    <2> QED  BY <1>4, <2>3, <2>4, <2>5 DEF Whole
  <1> QED  BY <1>2, <1>4, <1>6, <1>7

(* The main thread deletes a thread only after it has handled its end. *)
LEMMA EndsMain ==
    ASSUME TypeOK, TypeOK', Sound, EndHeard, FreeAfter, FreedForgotten,
           ThreadMoved, NEW k \in {0, 1}, Shifted(k)
    PROVE  EndHeard' /\ FreeAfter' /\ FreedForgotten'
  <1>1. /\ active \subseteq Operate /\ active' \subseteq Operate
        /\ \A i \in Positions : queue[i].op \in Operate
        /\ queue # <<>> => Head1 = queue[1] /\ 1 \in Positions
    BY QueueTyped, TypeQueue, TailElements DEF TypeOK, Positions, Head1
  <1>2. ASSUME NEW x \in active', tpc'[x] \in Past PROVE x \in active /\ tpc[x] \in Past
    BY <1>1, <1>2 DEF ThreadMoved, Past, Asking
  <1>3. ASSUME NEW x \in Operate, tpc[x] \in Ended PROVE tpc'[x] \in Ended
    BY <1>3 DEF ThreadMoved, Ended, Asking
  <1>4. EndHeard'
    <2> SUFFICES ASSUME NEW x \in active' \ Silent, tpc'[x] \in Past
                 PROVE  \E j \in 1 .. Len(queue') : queue'[j].type = "Finished" /\ queue'[j].op = x
      BY DEF EndHeard, Positions
    <2>1. PICK j \in Positions : queue[j].type = "Finished" /\ queue[j].op = x
      BY <1>2 DEF EndHeard
    <2>2. j > k
      BY <2>1 DEF Shifted, Positions
    <2> QED  BY <2>1, <2>2 DEF Shifted
  <1>5. FreeAfter'
    <2> SUFFICES ASSUME NEW i \in 1 .. Len(queue'), queue'[i].type \in {"Reap", "Free"}
                 PROVE  /\ tpc'[queue'[i].op] \in Ended
                        /\ \A j \in 1 .. Len(queue') :
                              queue'[j].type = "Finished" /\ queue'[j].op = queue'[i].op => j < i
      BY DEF FreeAfter, Positions
    <2>1. \A j \in 1 .. Len(queue') : queue'[j].type = "Finished" =>
             j + k \in Positions /\ queue'[j] = queue[j + k]
      BY DEF Shifted
    <2>2. CASE i + k \in Positions /\ queue'[i] = queue[i + k]
      <3>1. /\ tpc[queue[i + k].op] \in Ended
            /\ \A j \in Positions : queue[j].type = "Finished" /\ queue[j].op = queue[i + k].op
                                    => j < i + k
        BY <2>2 DEF FreeAfter
      <3>2. tpc'[queue'[i].op] \in Ended
        BY <1>1, <1>3, <2>2, <3>1
      <3>3. ASSUME NEW j \in 1 .. Len(queue'), queue'[j].type = "Finished", queue'[j].op = queue'[i].op
            PROVE  j < i
        <4>1. j + k < i + k
          BY <2>1, <2>2, <3>1, <3>3
        <4> QED  BY <4>1 DEF Shifted
      <3> QED  BY <3>2, <3>3
    <2>3. CASE /\ i + k = Len(queue) + 1 /\ k = 1 /\ queue[1].type \in {"Reap", "Free"}
               /\ queue'[i].op = queue[1].op
      <3>1. 1 \in Positions /\ tpc[queue[1].op] \in Ended
        BY <2>3 DEF Shifted, FreeAfter
      <3>2. tpc'[queue'[i].op] \in Ended
        BY <1>1, <1>3, <2>3, <3>1
      <3>3. ASSUME NEW j \in 1 .. Len(queue'), queue'[j].type = "Finished" PROVE j < i
        <4>1. j + k \in 1 .. Len(queue)
          BY <2>1, <3>3 DEF Positions
        <4> QED  BY <2>3, <4>1 DEF Shifted
      <3> QED  BY <3>2, <3>3
    <2> QED  BY <2>2, <2>3 DEF Shifted
  <1>6. FreedForgotten'
    <2> SUFFICES ASSUME NEW x \in active' \ Silent, tpc'[x] = "freed" PROVE FALSE
      BY DEF FreedForgotten
    <2>1. x \in active /\ tpc[x] \in Past /\ x \in Operate
      BY <1>1, <1>2 DEF Past
    <2>2. /\ tpc[x] = "done" /\ queue # <<>> /\ Head1.op = x /\ Head1.type \in {"Delete", "Free"}
      BY <2>1 DEF ThreadMoved, FreedForgotten, Asking, Past
    <2>3. life[x] = "live"
      BY <2>1 DEF Sound, ActiveLive
    <2>4. CASE Head1.type = "Delete"
      BY <1>1, <2>2, <2>3, <2>4 DEF Sound, DeleteCleaned
    <2>5. CASE Head1.type = "Free"
      <3>1. \A j \in Positions : queue[j].type = "Finished" /\ queue[j].op = x => j < 1
        BY <1>1, <2>2, <2>5 DEF FreeAfter
      <3>2. \E j \in Positions : queue[j].type = "Finished" /\ queue[j].op = x
        BY <2>1 DEF EndHeard
      <3> QED  BY <3>1, <3>2 DEF Positions
    <2> QED  BY <2>2, <2>4, <2>5
  <1> QED  BY <1>4, <1>5, <1>6

(***************************************************************************)
(* The refinement: every step is a step of SessionLife for one session, or *)
(* a stutter.                                                              *)
(***************************************************************************)
Worker(o) == IF tpc[o] = "none" THEN "idle" ELSE IF tpc[o] \in Owning THEN "busy" ELSE "over"

(* Only what is kept of session o may change. *)
Only(o) == \A x \in Operate : x # o =>
    /\ life'[x] = life[x] /\ tpc'[x] = tpc[x]
    /\ x \in active' <=> x \in active
    /\ x \in shown' <=> x \in shown

(* What SessionLife allows for one session. *)
Change(o) ==
    \/ Phase(o)' = Phase(o) /\ Worker(o)' = Worker(o)
    \/ Phase(o) = "none" /\ Phase(o)' = "configuring" /\ Worker(o)' = Worker(o)
    \/ Phase(o) = "configuring" /\ Phase(o)' = "gone" /\ Worker(o)' = Worker(o)
    \/ /\ Phase(o) \in {"none", "configuring"} /\ Worker(o) = "idle"
       /\ \/ Phase(o)' = "open" /\ Worker(o)' = "busy"
          \/ Phase(o)' \in {"shown", "gone"} /\ Worker(o)' = "idle"
    \/ Phase(o) = "open" /\ Phase(o)' = "shown" /\ Worker(o)' = Worker(o)
    \/ Phase(o)' = Phase(o) /\ Worker(o) = "busy" /\ Worker(o)' = "over"
    \/ /\ Phase(o) \in {"open", "shown"} /\ Phase(o)' = "gone"
       /\ Worker(o)' = Worker(o) /\ Worker(o) # "busy"

LEMMA LifeMove ==
    ASSUME Up, Up', NEW o \in Operate, Only(o), Change(o)
    PROVE  [Life!Next]_(Life!vars)
  <1> DEFINE P == [x \in Operate |-> Phase(x)]
             W == [x \in Operate |-> Worker(x)]
  <1>1. \A x \in Operate : x # o => Phase(x)' = Phase(x) /\ Worker(x)' = Worker(x)
    BY DEF Only, Phase, Worker
  <1>2. P' = [P EXCEPT ![o] = Phase(o)'] /\ W' = [W EXCEPT ![o] = Worker(o)']
    BY <1>1
  <1>3. /\ P[o] = Phase(o) /\ P'[o] = Phase(o)' /\ W[o] = Worker(o) /\ W'[o] = Worker(o)'
        /\ Phase(o)' = Phase(o) => P' = P
        /\ Worker(o)' = Worker(o) => W' = W
        /\ Up' = Up
    BY <1>2 DEF Up
  <1>4. /\ Life!Configure(o) <=> /\ Up /\ P[o] \in {"none"} /\ P' = [P EXCEPT ![o] = "configuring"]
                                /\ W' = W /\ Up' = Up
        /\ Life!Reject(o) <=> /\ Up /\ P[o] \in {"configuring"} /\ P' = [P EXCEPT ![o] = "gone"]
                             /\ W' = W /\ Up' = Up
        /\ Life!Show(o) <=> /\ Up /\ P[o] \in {"open"} /\ P' = [P EXCEPT ![o] = "shown"]
                           /\ W' = W /\ Up' = Up
        /\ Life!LetGo(o) <=> /\ Up /\ W[o] = "busy" /\ W' = [W EXCEPT ![o] = "over"]
                            /\ P' = P /\ Up' = Up
        /\ Life!Discard(o) <=> /\ Up /\ P[o] \in {"open", "shown"} /\ P' = [P EXCEPT ![o] = "gone"]
                              /\ W[o] # "busy" /\ W' = W /\ Up' = Up
    BY DEF Life!Configure, Life!Reject, Life!Show, Life!LetGo, Life!Discard, Life!Move, Worker
  <1>5. Life!Open(o) <=> /\ \E to \in {"open", "shown", "gone"} :
                               /\ Up /\ P[o] \in {"none", "configuring"}
                               /\ P' = [P EXCEPT ![o] = to]
                         /\ W[o] = "idle"
                         /\ \/ W' = [W EXCEPT ![o] = "busy"] /\ P'[o] = "open"
                            \/ W' = W /\ P'[o] # "open"
                         /\ Up' = Up
    BY DEF Life!Open, Life!Move, Worker
  <1>6. CASE Phase(o)' = Phase(o) /\ Worker(o)' = Worker(o)
    BY <1>3, <1>6 DEF Life!vars, Worker
  <1>7. CASE Phase(o)' # Phase(o) \/ Worker(o)' # Worker(o)
    <2>1. \/ Life!Configure(o) \/ Life!Reject(o) \/ Life!Open(o) \/ Life!Show(o)
          \/ Life!LetGo(o) \/ Life!Discard(o)
      BY <1>2, <1>3, <1>4, <1>5, <1>7 DEF Change
    <2> QED  BY <2>1 DEF Life!Next
  <1> QED  BY <1>6, <1>7

LEMMA MainMaps ==
    ASSUME TypeOK, TypeOK', Sound, Known, Deliver \/ InCall \/ Dialogs \/ User
    PROVE  (Up' => Known') /\ [Life!Next]_(Life!vars)
  <1> DEFINE Goal == (Up' => Known') /\ [Life!Next]_(Life!vars)
             Tracked(o) ==
                /\ life'[o] = "live" /\ tpc'[o] # "none" => o \in active'
                /\ o \in shown' => life'[o] # "absent" /\ (life'[o] = "live" => o \in active')
  <1>t. /\ queue \in Seq(Events) /\ active \subseteq Operate /\ shown \subseteq Operate
        /\ queue # <<>> => Head1 \in Events /\ Head1.op \in Operate
                           /\ Head1 = queue[1] /\ 1 \in Positions
        /\ frames # <<>> => Top.op \in Operate /\ Top = frames[1] /\ 1 \in 1 .. Len(frames)
    BY TypeQueue, TailElements DEF Head1, Top, Positions, TypeOK
  <1>u. Up
    BY DEF Deliver, Take, Skip, DeliverRunning, DeliverStop, DeliverAsk,
           DeliverFinished, DeliverDelete, DeliverReap, DeliverFree,
           InCall, StopNext, QuitCheck, QuitWake, Dialogs, SettingsAccepted,
           SettingsRejected, Answer, User, Configure, OpenFile, Hangup, UserFree,
           MainIdle, StopOne, StopOther, StopAll, StopSome, CloseApp, Exit
  <1>a. ASSUME NEW o \in Operate, Only(o), Change(o), Tracked(o), Up' PROVE Goal
    <2>1. Known'
      BY <1>a DEF Known, Only, TypeOK
    <2> QED  BY <1>a, <1>u, <2>1, LifeMove
  <1>b. ASSUME UNCHANGED <<life, tpc, active, shown>>, Up' PROVE Goal
    <2>1. Known'
      BY <1>b DEF Known
    <2>2. UNCHANGED Life!vars
      BY <1>b, <1>u DEF Life!vars, Phase, Up
    <2> QED  BY <2>1, <2>2
  <1>1. ASSUME NEW o \in Operate, Configure(o) PROVE Goal
    <2>1. /\ UNCHANGED <<active, shown, tpc, app>> /\ life[o] = "absent" /\ life'[o] = "live"
          /\ \A x \in Operate : x # o => life'[x] = life[x]
      BY <1>1 DEF Configure, threadVars, TypeOK
    <2>2. tpc[o] = "none" /\ o \notin active /\ o \notin shown
      BY <2>1 DEF Sound, NoThreadYet, ActiveLive, Known
    <2> QED  BY <1>a, <1>u, <2>1, <2>2 DEF Only, Change, Phase, Worker, Up
  <1>2. ASSUME NEW o \in Operate, StartThreaded(o) \/ StartDirect(o),
               tpc[o] = "none", o \notin active, life[o] \in {"absent", "live"}
        PROVE  Goal
    <2>1. Phase(o) \in {"none", "configuring"} /\ Worker(o) = "idle" /\ o \notin shown
      BY <1>2 DEF Phase, Worker, Known
    <2>2. CASE StartThreaded(o)
      <3>1. /\ active' = active \cup {o} /\ UNCHANGED <<shown, app>>
            /\ life'[o] = "live" /\ tpc'[o] = "new"
            /\ \A x \in Operate : x # o => life'[x] = life[x] /\ tpc'[x] = tpc[x]
        BY <2>2 DEF StartThreaded, TypeOK
      <3>2. Phase(o)' = "open" /\ Worker(o)' = "busy"
        BY <2>1, <3>1 DEF Phase, Worker, Owning
      <3> QED  BY <1>a, <1>u, <2>1, <3>1, <3>2 DEF Only, Change, Up
    <2>3. CASE StartDirect(o)
      <3>1. /\ UNCHANGED <<tpc, app>>
            /\ \A x \in Operate : x # o => life'[x] = life[x]
            /\ \/ active' = active \cup {o} /\ shown' = shown \cup {o} /\ life'[o] = "live"
               \/ UNCHANGED <<active, shown>> /\ life'[o] = "cleaned"
        BY <2>3 DEF StartDirect, threadVars, TypeOK
      <3>2. Phase(o)' \in {"shown", "gone"} /\ Worker(o)' = "idle"
        BY <1>2, <3>1 DEF Phase, Worker
      <3> QED  BY <1>2, <1>a, <1>u, <2>1, <3>1, <3>2 DEF Only, Change, Up
    <2> QED  BY <1>2, <2>2, <2>3
  <1>3. ASSUME NEW o \in Operate, OpenFile(o) PROVE Goal
    <2>1. life[o] = "absent" /\ tpc[o] = "none" /\ o \notin active
      BY <1>3 DEF OpenFile, Sound, NoThreadYet, ActiveLive
    <2> QED  BY <1>2, <1>3, <2>1 DEF OpenFile
  <1>4. CASE SettingsAccepted \/ SettingsRejected
    <2>1. frames # <<>> /\ Top.kind = "settings"
      BY <1>4 DEF SettingsAccepted, SettingsRejected
    <2>0. PICK o \in Operate : o = Top.op
      BY <1>t, <2>1
    <2>2. life[o] = "live" /\ tpc[o] = "none" /\ o \notin active
      BY <1>t, <2>0, <2>1 DEF Sound, SettingsFirst
    <2>3. CASE SettingsAccepted
      BY <1>2, <1>t, <2>1, <2>0, <2>2, <2>3 DEF SettingsAccepted
    <2>4. CASE SettingsRejected
      <3>1. /\ UNCHANGED <<active, shown, tpc, app>> /\ life'[o] = "cleaned"
            /\ \A x \in Operate : x # o => life'[x] = life[x]
        BY <2>0, <2>4 DEF SettingsRejected, threadVars, TypeOK
      <3>2. Phase(o) = "configuring" /\ Phase(o)' = "gone"
        BY <2>2, <3>1 DEF Phase
      <3> QED  BY <1>a, <1>t, <1>u, <2>1, <2>2, <3>1, <3>2 DEF Only, Change, Worker, Up
    <2> QED  BY <1>4, <2>3, <2>4
  <1>5. CASE Answer
    <2>0. PICK o \in Operate : o = Top.op
      BY <1>5, <1>t DEF Answer
    <2>1. /\ UNCHANGED <<life, active, shown, app>>
          /\ \A x \in Operate : x # o => tpc'[x] = tpc[x]
          /\ \/ tpc'[o] = tpc[o]
             \/ tpc[o] \in {"askStart", "askBusy"} /\ tpc'[o] \in {"start", "busy"}
      BY <1>5, <2>0 DEF Answer, TypeOK
    <2>2. Worker(o)' = Worker(o) /\ Phase(o)' = Phase(o)
      BY <2>1 DEF Worker, Phase, Owning
    <2>3. tpc'[o] # "none" => tpc[o] # "none"
      BY <2>1
    <2> QED  BY <1>a, <1>t, <1>u, <2>1, <2>2, <2>3 DEF Only, Change, Up, Known
  <1>6. ASSUME NEW o \in Operate, NEW q, SlotFinished(o, q), UNCHANGED <<tpc, shown, app>>,
               tpc[o] \notin Owning
        PROVE  Goal
    <2>1. CASE o \notin active
      BY <1>6, <1>b, <1>u, <2>1 DEF SlotFinished, Up
    <2>2. CASE o \in active
      <3>1. /\ active' = active \ {o} /\ life[o] = "live" /\ life'[o] = "cleaned"
            /\ \A x \in Operate : x # o => life'[x] = life[x]
        BY <1>6, <2>2 DEF SlotFinished, TypeOK, Sound, ActiveLive
      <3>2. /\ Phase(o) \in {"open", "shown"} /\ Phase(o)' = "gone"
            /\ Worker(o) # "busy" /\ Worker(o)' = Worker(o)
        BY <1>6, <2>2, <3>1 DEF Phase, Worker
      <3> QED  BY <1>6, <1>a, <1>u, <3>1, <3>2 DEF Only, Change, Up
    <2> QED  BY <2>1, <2>2
  <1>7. ASSUME NEW o \in Operate, NEW q, Stop(o, q) PROVE Goal
    <2>1. CASE o \in Direct
      <3>1. SlotFinished(o, q) /\ UNCHANGED <<tpc, shown, app>> /\ tpc[o] = "none"
        BY <1>7, <2>1 DEF Stop, Sound, NoThreadYet
      <3> QED  BY <1>6, <3>1 DEF Owning
    <2>2. CASE o \notin Direct
      BY <1>7, <1>b, <1>u, <2>2 DEF Stop, Up
    <2> QED  BY <2>1, <2>2
  <1>8. CASE InCall
    BY <1>7, <1>8, <1>b, <1>u
       DEF InCall, StopNext, QuitCheck, QuitWake, threadVars, TypeOK, Up
  <1>9. CASE StopOne \/ StopOther \/ StopAll \/ CloseApp
    BY <1>9, <1>b, <1>u DEF StopOne, StopOther, StopAll, StopSome, CloseApp, threadVars, Up
  <1>10. CASE Exit
    <2>1. /\ UNCHANGED tpc /\ ~Up'
          /\ \A x \in Operate : life'[x] = IF life[x] = "absent" THEN "absent" ELSE "deleted"
      BY <1>10 DEF Exit, threadVars, Up
    <2> DEFINE P == [x \in Operate |-> Phase(x)]
               W == [x \in Operate |-> Worker(x)]
    <2>2. W' = W
      BY <2>1 DEF Worker
    <2>3. \A x \in Operate : Phase(x)' = IF P[x] = "none" THEN "none" ELSE "gone"
      BY <2>1 DEF Phase, TypeOK
    <2>4. P' = [x \in Operate |-> IF P[x] = "none" THEN "none" ELSE "gone"]
      BY <2>3
    <2>5. Life!End
      BY <1>u, <2>1, <2>2, <2>4 DEF Life!End, Worker
    <2> QED  BY <2>1, <2>5 DEF Life!Next
  <1>11. CASE DeliverDelete
    <2>0. PICK o \in Operate : o = Head1.op
      BY <1>11, <1>t DEF DeliverDelete, Take
    <2>1. /\ Head1.type = "Delete" /\ life[o] \in {"cleaned", "deleted"}
      BY <1>11, <1>t, <2>0 DEF DeliverDelete, Take, Sound, DeleteCleaned
    <2>2. /\ UNCHANGED <<active, shown>> /\ life'[o] = "deleted"
          /\ \A x \in Operate : x # o => life'[x] = life[x] /\ tpc'[x] = tpc[x]
          /\ tpc'[o] = tpc[o] \/ (tpc[o] = "done" /\ tpc'[o] = "freed")
      BY <1>11, <2>0, <2>1 DEF DeliverDelete, TypeOK
    <2>3. Phase(o)' = Phase(o) /\ Worker(o)' = Worker(o)
      BY <2>1, <2>2 DEF Phase, Worker, Owning
    <2>4. CASE Up'
      BY <1>a, <2>1, <2>2, <2>3, <2>4 DEF Only, Change, Known
    <2>5. CASE ~Up'
      <3>1. \A x \in Operate : Phase(x)' = Phase(x) /\ Worker(x)' = Worker(x)
        BY <2>2, <2>3 DEF Phase, Worker
      <3>2. Life!End
        BY <1>u, <2>5, <3>1 DEF Life!End, Worker
      <3> QED  BY <2>5, <3>2 DEF Life!Next
    <2> QED  BY <2>4, <2>5
  <1>12. CASE DeliverRunning
    <2>0. PICK o \in Operate : o = Head1.op
      BY <1>12, <1>t DEF DeliverRunning, Take
    <2>1. life[o] = "live" /\ o \in active
      BY <1>12, <1>t, <2>0 DEF DeliverRunning, Take, Sound, HeardLive, Known, Heard, Signals
    <2>2. UNCHANGED <<life, active, tpc, app>> /\ shown' = shown \cup {o}
      BY <1>12, <2>0 DEF DeliverRunning, threadVars
    <2>3. Phase(o) \in {"open", "shown"} /\ Phase(o)' = "shown" /\ Worker(o)' = Worker(o)
      BY <2>1, <2>2 DEF Phase, Worker
    <2> QED  BY <1>a, <1>u, <2>1, <2>2, <2>3 DEF Only, Change, Up
  <1>13. CASE DeliverFinished
    <2>1. Head1.type = "Finished" /\ queue # <<>>
      BY <1>13 DEF DeliverFinished, Take
    <2>2. tpc[Head1.op] \notin Owning
      BY <1>t, <2>1 DEF Sound, FinishedPast, Past, Owning
    <2> QED  BY <1>6, <1>13, <1>t, <2>1, <2>2 DEF DeliverFinished, threadVars
  <1>14. CASE DeliverFree
    <2>0. PICK o \in Operate : o = Head1.op
      BY <1>14, <1>t DEF DeliverFree, Take
    <2>1. /\ UNCHANGED <<life, active, shown, app>>
          /\ tpc[o] = "done" /\ tpc'[o] = "freed"
          /\ \A x \in Operate : x # o => tpc'[x] = tpc[x]
      BY <1>14, <2>0 DEF DeliverFree, Take, uiVars, TypeOK
    <2>2. Phase(o)' = Phase(o) /\ Worker(o)' = Worker(o)
      BY <2>1 DEF Phase, Worker, Owning
    <2> QED  BY <1>a, <1>u, <2>1, <2>2 DEF Only, Change, Up, Known
  <1>15. CASE Skip \/ DeliverStop \/ DeliverAsk \/ DeliverReap
    BY <1>7, <1>15, <1>b, <1>t, <1>u
       DEF Skip, DeliverStop, DeliverAsk, DeliverReap, Take, uiVars, threadVars, Up
  <1>16. CASE Deliver
    BY <1>11, <1>12, <1>13, <1>14, <1>15, <1>16 DEF Deliver
  <1>17. ASSUME NEW o \in Operate, Hangup(o) PROVE Goal
    BY <1>7, <1>17 DEF Hangup
  <1> QED
    BY <1>1, <1>3, <1>4, <1>5, <1>8, <1>9, <1>10, <1>16, <1>17 DEF Dialogs, User

LEMMA WholeStep == WInv /\ [Next]_vars => WInv' /\ [Life!Next]_(Life!vars)
  <1> SUFFICES ASSUME WInv, [Next]_vars PROVE WInv' /\ [Life!Next]_(Life!vars)
    OBVIOUS
  <1>1. IInv /\ IInv' /\ TypeOK /\ TypeOK'
    BY SoundStep DEF WInv, IInv
  <1>2. CASE UNCHANGED vars
    <2>1. UNCHANGED <<life, active, shown, tpc, queue, frames, app>>
      BY <1>2 DEF vars
    <2>2. WInv'
      BY <1>1, <2>1 DEF WInv, FreedForgotten, Whole, AskedOnce, EndHeard, FreeAfter,
                        Known, Positions, Up
    <2>3. UNCHANGED Life!vars
      BY <2>1 DEF Life!vars, Phase, Up
    <2> QED  BY <2>2, <2>3
  <1>3. CASE Deliver \/ InCall \/ Dialogs \/ User
    <2>1. Up
      BY <1>3 DEF Deliver, Take, Skip, DeliverRunning, DeliverStop, DeliverAsk,
                  DeliverFinished, DeliverDelete, DeliverReap, DeliverFree,
                  InCall, StopNext, QuitCheck, QuitWake, Dialogs, SettingsAccepted,
                  SettingsRejected, Answer, User, Configure, OpenFile, Hangup, UserFree,
                  MainIdle, StopOne, StopOther, StopAll, StopSome, CloseApp, Exit
    <2>2. Sound /\ Whole /\ FreedForgotten
      BY <1>1, <2>1 DEF WInv, IInv
    <2>3. QueueMoves /\ ThreadMoved /\ FrameMoves
      BY <1>1, <1>3, <2>2, MainMoves
    <2>4. PICK k \in {0, 1} : Shifted(k)
      BY <1>1, <2>3, ShiftedBy
    <2>5. AskedOnce'
      BY <1>1, <2>2, <2>3, <2>4, AskedOnceMain DEF Whole
    <2>6. EndHeard' /\ FreeAfter' /\ FreedForgotten'
      BY <1>1, <2>2, <2>3, <2>4, EndsMain DEF Whole
    <2>7. (Up' => Known') /\ [Life!Next]_(Life!vars)
      BY <1>1, <1>3, <2>2, MainMaps DEF Whole
    <2> QED  BY <1>1, <2>5, <2>6, <2>7 DEF WInv, Whole
  <1>4. ASSUME NEW o \in Operate, ThreadStep(o) PROVE WInv' /\ [Life!Next]_(Life!vars)
    <2>1. Up
      BY <1>4 DEF ThreadStep, At, Instance, EmitRunning, EmitStop, EmitAsk, Emit,
                  StartOk, StartFail, Process, Return, Leave, StopBackend, StopFailed,
                  DropBackend, Finish, Done
    <2>2. Whole' /\ FreedForgotten'
      BY <1>1, <1>4, <2>1, WholeThread DEF WInv
    <2>3. UNCHANGED uiVars
      BY <1>1, <1>4, ThreadMoves
    <2>4. PICK pc \in PC : /\ tpc' = [tpc EXCEPT ![o] = pc]
                           /\ tpc[o] \notin {"none", "freed"} /\ pc \notin {"none", "freed"}
                           /\ tpc[o] \in Past => pc \in Past
      BY <1>1, <1>4, ThreadMoves DEF ThreadShape
    <2>5. tpc'[o] = pc /\ tpc[o] \in PC /\ \A x \in Operate : x # o => tpc'[x] = tpc[x]
      BY <1>1, <2>4 DEF TypeOK
    <2>6. Phase(o)' = Phase(o)
      BY <2>3 DEF uiVars, Phase
    <2>7. \/ Worker(o)' = Worker(o)
          \/ Worker(o) = "busy" /\ Worker(o)' = "over"
      BY <2>4, <2>5 DEF Worker, PC, Past, Owning
    <2>8. Only(o) /\ Change(o) /\ Up'
      BY <2>1, <2>3, <2>5, <2>6, <2>7 DEF uiVars, Only, Change, Up
    <2> QED  BY <1>1, <2>1, <2>2, <2>8, LifeMove DEF WInv
  <1> QED  BY <1>2, <1>3, <1>4 DEF Next

(* What is known of dialogs, ends and pointers is inductive together with the *)
(* invariant of Session_proof: until the program exits, each session that has *)
(* not been forgotten has its end or its dialog where the main thread finds it. *)
THEOREM WholeInductive == Spec => []WInv
  <1>1. Init => WInv
    <2> SUFFICES ASSUME Init PROVE WInv
      OBVIOUS
    <2>1. IInv
      BY DEF Init, IInv, Sound, OwnerLive, NoThreadYet, ActiveLive, SettingsFirst, FinishedPast,
             DeleteCleaned, HeardLive, HeardLast, Owning, Positions,
             TypeOK, Idle, PC, Signals, EventType
    <2> QED  BY <2>1 DEF Init, WInv, FreedForgotten, Whole, AskedOnce, EndHeard, FreeAfter,
                         Known, Positions
  <1> QED  BY <1>1, WholeStep, PTL DEF Spec

(* A dialog that a backend waits for, and a settings dialog, have a live    *)
(* operate, and the thread of the backend stays in the call that opened it, *)
(* however many sessions ask and however the dialogs nest.                  *)
THEOREM DialogsAnswered == Spec => []DialogOwnerAlive
  <1>1. WInv => DialogOwnerAlive
    <2> SUFFICES ASSUME WInv, Up, NEW i \in 1 .. Len(frames)
                 PROVE  /\ life[frames[i].op] = "live"
                        /\ frames[i].kind = "ask" => tpc[frames[i].op] \in Asking
      BY DEF DialogOwnerAlive
    <2>1. Sound /\ AskedOnce /\ frames[i].op \in Operate /\ frames[i].kind \in {"settings", "ask"}
      BY QueueTyped, Fields DEF WInv, IInv, Whole, TypeOK
    <2>2. CASE frames[i].kind = "ask"
      BY <2>1, <2>2 DEF AskedOnce, Sound, OwnerLive, Asking, Owning
    <2>3. CASE frames[i].kind = "settings"
      BY <2>1, <2>3 DEF Sound, SettingsFirst
    <2> QED  BY <2>1, <2>2, <2>3
  <1> QED  BY <1>1, WholeInductive, PTL

(* If every backend reports the end of its OnStop, a thread that deletes    *)
(* itself does so only after MainWindow has forgotten the operate that      *)
(* points to it: Stop never uses a dangling m_pThread.                      *)
THEOREM PointerValid ==
    ASSUME Silent = {}
    PROVE  Spec => []ThreadPointerValid
  <1>1. WInv => ThreadPointerValid
    BY DEF WInv, FreedForgotten, ThreadPointerValid
  <1> QED  BY <1>1, WholeInductive, PTL

(* Threads, queue and dialogs implement SessionLife: a session is opened    *)
(* once, shown only while it is open, and discarded only after its worker   *)
(* has let go of it.                                                        *)
THEOREM LifeImplemented == Spec => LifeSpec
  <1>1. Init => Life!Init
    BY DEF Init, Life!Init, Phase, Up
  <1>2. WInv /\ [Next]_vars => [Life!Next]_(Life!vars)
    BY WholeStep
  <1> QED  BY <1>1, <1>2, WholeInductive, PTL DEF Spec, LifeSpec, Life!Spec
==============================================================================
