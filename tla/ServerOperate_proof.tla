------------------------ MODULE ServerOperate_proof ------------------------
(* Proofs about ServerOperate, for any number of runs of any server.       *)
EXTENDS ServerOperate, TLAPS

USE RunsAssumption, OutcomeAssumption DEF Runs, NoRun

EventSet == [type : EventType, run : Runs \cup {NoRun}]

(* Every variable keeps its type: the pointer, the connections and the      *)
(* events name runs, whatever starts, stops, errors and ends cross.         *)
THEOREM ServerTypeCorrect == Spec => []TypeOK
  <1>1. Init => TypeOK
    <2>1. <<>> \in Seq(EventSet)
      OBVIOUS
    <2>2. ASSUME Init PROVE tpc \in [Runs -> PC]
      BY <2>2 DEF Init, PC
    <2>3. QED
      BY <2>1, <2>2 DEF Init, TypeOK, EventSet
  (* What is posted, delivered or dropped are events that name runs. *)
  <1>2. TypeOK /\ [Next]_vars => TypeOK'
    <2> SUFFICES ASSUME TypeOK, [Next]_vars PROVE TypeOK'
      OBVIOUS
    <2>1. queue \in Seq(EventSet)
      BY DEF TypeOK, EventSet
    <2>2. ASSUME NEW t \in EventType, NEW r \in Runs \cup {NoRun} PROVE Event(t, r) \in EventSet
      BY <2>2 DEF Event, EventSet
    <2>3. ASSUME queue # <<>>
          PROVE  Head(queue) \in EventSet /\ Tail(queue) \in Seq(EventSet)
      BY <2>1, <2>3
    <2>4. ASSUME Uncheck
          PROVE  checked' \in BOOLEAN /\ current' \in Runs \cup {NoRun} /\ quitting' \subseteq Runs
      BY <2>4 DEF TypeOK, Uncheck
    <2>5. ASSUME NEW q \in Seq(EventSet), SlotFinished(q)
          PROVE  life' \in {"live", "cleaned", "deleted"} /\ queue' \in Seq(EventSet)
      <3>1. Append(q, Event("Delete", NoRun)) \in Seq(EventSet)
        BY <2>2 DEF EventType
      <3> QED  BY <2>5, <3>1 DEF SlotFinished, TypeOK
    <2>6. CASE StartServer
      BY <2>6 DEF TypeOK, StartServer, PC
    <2>7. CASE StopServer
      BY <2>4, <2>7 DEF TypeOK, StopServer
    <2>8. CASE Close
      <3>1. life' \in {"live", "cleaned", "deleted"} /\ queue' \in Seq(EventSet)
        BY <2>1, <2>5, <2>8 DEF Close, TypeOK
      <3>2. promised' \subseteq Runs /\ UNCHANGED tpc /\ Uncheck
        BY <2>8 DEF Close, TypeOK
      <3> QED  BY <2>4, <3>1, <3>2 DEF TypeOK, EventSet
    <2>9. CASE DeliverError
      <3>1. queue' \in Seq(EventSet)
        BY <2>3, <2>9 DEF DeliverError, Take
      <3>2. CASE life = "deleted"
        BY <2>9, <3>1, <3>2 DEF DeliverError, TypeOK, EventSet
      <3>3. CASE life # "deleted"
        BY <2>4, <2>9, <3>1, <3>3 DEF DeliverError, TypeOK, EventSet
      <3> QED  BY <3>2, <3>3
    <2>10. CASE DeliverFinished
      <3>1. life' \in {"live", "cleaned", "deleted"} /\ queue' \in Seq(EventSet)
        BY <2>3, <2>5, <2>10 DEF DeliverFinished, Take
      <3> QED  BY <2>10, <3>1 DEF DeliverFinished, TypeOK, EventSet
    <2>11. CASE DeliverDelete
      BY <2>3, <2>11 DEF DeliverDelete, Take, TypeOK, EventSet
    <2>12. CASE DeliverReap
      <3>1. Event("Free", Head(queue).run) \in EventSet
        BY <2>2, <2>3, <2>12 DEF DeliverReap, Take, EventSet, EventType
      <3>2. queue' \in Seq(EventSet)
        BY <2>3, <2>12, <3>1 DEF DeliverReap, Take
      <3> QED  BY <2>12, <3>2 DEF DeliverReap, TypeOK, EventSet, mainVars
    <2>13. CASE DeliverFree
      BY <2>3, <2>13 DEF DeliverFree, Take, TypeOK, EventSet, mainVars, PC
    <2>14. ASSUME NEW r \in Runs, ThreadStep(r) PROVE TypeOK'
      <3>1. tpc' \in [Runs -> PC]
        BY <2>14 DEF ThreadStep, Listen, Fail, Leave, StopBackend, Finish, Done, Goto, TypeOK, PC
      <3>2. UNCHANGED <<mainVars, quitting>>
        BY <2>14 DEF ThreadStep, Listen, Fail, Leave, StopBackend, Finish, Done, Quiet
      <3>3. \A t \in {"Error", "Reap", "Finished"} : Event(t, r) \in EventSet
        BY <2>2 DEF EventType
      <3>4. queue' \in Seq(EventSet)
        <4>1. CASE Fail(r)
          BY <2>1, <3>3, <4>1 DEF Fail
        <4>2. CASE Finish(r)
          <5>1. /\ <<Event("Reap", r)>> \in Seq(EventSet)
                /\ (IF r \in promised THEN <<Event("Finished", r)>> ELSE <<>>) \in Seq(EventSet)
            BY <3>3
          <5> QED  BY <2>1, <4>2, <5>1 DEF Finish
        <4>3. CASE Listen(r) \/ Leave(r) \/ StopBackend(r) \/ Done(r)
          BY <2>1, <4>3 DEF Listen, Leave, StopBackend, Done
        <4> QED  BY <2>14, <4>1, <4>2, <4>3 DEF ThreadStep
      <3> QED  BY <3>1, <3>2, <3>4 DEF TypeOK, mainVars, EventSet
    <2>15. CASE UNCHANGED vars
      BY <2>15 DEF TypeOK, vars
    <2> QED
      BY <2>6, <2>7, <2>8, <2>9, <2>10, <2>11, <2>12, <2>13, <2>14, <2>15 DEF Next, Deliver
  <1> QED  BY <1>1, <1>2, PTL DEF Spec

-----------------------------------------------------------------------------
(* While the session is open, a run that serves and was not told to quit is *)
(* the one the checked action stands for, for any number of runs.           *)
THEOREM ActionInControl == Spec => []ActionControlsServer
  <1>1. Init => ActionControlsServer
    BY DEF Init, ActionControlsServer, Serving
  <1>2. ASSUME TypeOK, ActionControlsServer, [Next]_vars
        PROVE  ActionControlsServer'
    <2>0. ASSUME Uncheck, UNCHANGED tpc, life = "live" PROVE ActionControlsServer'
      BY <1>2, <2>0 DEF ActionControlsServer, Uncheck, Serving, TypeOK
    <2>1. CASE StartServer
      BY <1>2, <2>1 DEF StartServer, ActionControlsServer, Serving, TypeOK
    <2>2. CASE StopServer
      BY <1>2, <2>2, <2>0 DEF StopServer
    <2>3. CASE Close
      BY <1>2, <2>3, <2>0 DEF Close
    <2>4. CASE DeliverError
      <3>1. CASE life = "live"
        BY <1>2, <2>4, <3>1, <2>0 DEF DeliverError
      <3>2. CASE life # "live"
        BY <2>4, <3>2 DEF DeliverError, ActionControlsServer
      <3>3. QED
        BY <3>1, <3>2
    <2>5. CASE DeliverFinished \/ DeliverDelete
      BY <1>2, <2>5 DEF DeliverFinished, DeliverDelete, SlotFinished,
                        ActionControlsServer, Serving
    <2>6. CASE DeliverReap
      BY <1>2, <2>6 DEF DeliverReap, mainVars, ActionControlsServer, Serving
    <2>7. CASE DeliverFree
      BY <1>2, <2>7 DEF DeliverFree, mainVars, ActionControlsServer, Serving, TypeOK
    <2>8. ASSUME NEW r \in Runs, ThreadStep(r) PROVE ActionControlsServer'
      BY <1>2, <2>8 DEF ThreadStep, Listen, Fail, Leave, StopBackend, Finish, Done,
         Goto, Quiet, mainVars, ActionControlsServer, Serving, TypeOK
    <2>9. CASE UNCHANGED vars
      BY <1>2, <2>9 DEF vars, ActionControlsServer, Serving
    <2>10. QED
      BY <1>2, <2>1, <2>2, <2>3, <2>4, <2>5, <2>6, <2>7, <2>8, <2>9 DEF Next, Deliver
  <1>3. QED
    BY <1>1, <1>2, ServerTypeCorrect, PTL DEF Spec

-----------------------------------------------------------------------------
(* What ends the thread r for good: its own deleteLater, then the deletion. *)
Ends(e, r) == e.type \in {"Reap", "Free"} /\ e.run = r

(* The run r has not ended, or an error is delivered before its end. *)
Held(r) ==
    \/ tpc[r] \in {"start", "serve"} /\ \A j \in 1 .. Len(queue) : ~Ends(queue[j], r)
    \/ /\ tpc[r] \in {"fail", "unwind", "ending", "done"}
       /\ \A j \in 1 .. Len(queue) : queue[j].type = "Free" => queue[j].run # r
       /\ \E i \in 1 .. Len(queue) :
             queue[i].type = "Error" /\ \A j \in 1 .. i : ~Ends(queue[j], r)

(* The run the operate points to is held; it was not told to quit, and the  *)
(* action is checked.  A run that never was has nothing posted.             *)
NeverRan(r) == r \notin quitting /\ \A j \in 1 .. Len(queue) : ~Ends(queue[j], r)
PointerSound ==
    /\ current # NoRun => checked /\ current \notin quitting /\ tpc[current] # "none"
    /\ \A r \in Runs : tpc[r] = "none" => NeverRan(r)
    /\ life = "live" /\ current # NoRun => Held(current)

(* An error that OnStart emits is posted before the thread's own end, and   *)
(* unchecking forgets the thread: while the session is open the operate has *)
(* no pointer to a thread that was deleted, if a server that fails says so. *)
THEOREM PointerOwned ==
    ASSUME "silent" \notin Outcome
    PROVE  Spec => []ThreadPointerValid
  <1>1. Init => PointerSound
    BY DEF Init, PointerSound, NeverRan
  <1>2. ASSUME TypeOK, PointerSound, [Next]_vars PROVE PointerSound'
    <2> USE <1>2
    <2> DEFINE n == Len(queue)
    <2>1. n \in Nat /\ queue \in Seq(EventSet) /\ \A j \in 1 .. n : queue[j] \in EventSet
      <3>1. queue \in Seq(EventSet)
        BY DEF TypeOK, EventSet
      <3> QED  BY <3>1
    (* d events were delivered, and those after n - d posted. *)
    <2> DEFINE Kept(d) == /\ d <= n /\ n - d <= Len(queue') /\ Len(queue') \in Nat
                          /\ \A j \in 1 .. n - d : queue'[j] = queue[j + d]
               New(d) == {queue'[j] : j \in n - d + 1 .. Len(queue')}
    <2>2. ASSUME queue # <<>>, queue' = Tail(queue) PROVE Kept(1) /\ New(1) = {}
      BY <2>2 DEF TypeOK
    <2>3. ASSUME NEW q \in Seq(EventSet), NEW e, queue' = Append(q, e)
          PROVE  /\ q = queue => Kept(0) /\ New(0) = {e}
                 /\ queue # <<>> /\ q = Tail(queue) => Kept(1) /\ New(1) = {e}
      <3>1. PICK k \in Nat : k = Len(q)
        OBVIOUS
      <3>2. /\ Len(queue') = k + 1 /\ queue'[k + 1] = e
            /\ \A j \in 1 .. k : queue'[j] = q[j]
        BY <2>3, <3>1
      <3>3. CASE q = queue
        <4>1. k = n
          BY <3>1, <3>3
        <4> QED  BY <3>2, <3>3, <4>1
      <3>4. CASE queue # <<>> /\ q = Tail(queue)
        <4>1. n >= 1 /\ k = n - 1 /\ \A j \in 1 .. k : q[j] = queue[j + 1]
          BY <3>1, <3>4 DEF TypeOK
        <4> QED  BY <3>2, <3>4, <4>1
      <3> QED  BY <2>1, <3>3, <3>4
    <2>4. UNCHANGED queue => Kept(0) /\ New(0) = {}
      BY <2>1
    (* What the events of a step mean for a run that is held, and for one that never ran. *)
    <2>5. ASSUME NEW d \in {0, 1}, Kept(d), NEW r \in Runs, tpc[r] = "none",
                 \A e \in New(d) : ~Ends(e, r), r \notin quitting'
          PROVE  NeverRan(r)'
      <3> DEFINE m == Len(queue')
      <3>1. ASSUME NEW j \in 1 .. m PROVE ~Ends(queue'[j], r)
        <4>1. CASE j \in 1 .. n - d
          <5>1. queue'[j] = queue[j + d] /\ j + d \in 1 .. n
            BY <2>1, <2>5, <4>1
          <5> QED  BY <2>5, <5>1 DEF PointerSound, NeverRan
        <4>2. CASE j \in n - d + 1 .. m
          <5>1. queue'[j] \in New(d)
            BY <4>2
          <5> QED  BY <2>5, <5>1
        <4> QED  BY <2>1, <2>5, <3>1, <4>1, <4>2
      <3> QED  BY <2>5, <3>1 DEF NeverRan, Ends
    <2>6. ASSUME NEW d \in {0, 1}, Kept(d), NEW r \in Runs, Held(r),
                 \A e \in New(d) : /\ ~(e.type = "Free" /\ e.run = r)
                                   /\ tpc[r] \in {"start", "serve"} => ~Ends(e, r),
                 d = 1 => queue[1].type # "Error",
                 \/ tpc'[r] = tpc[r]
                 \/ {tpc[r], tpc'[r]} \subseteq {"start", "serve"}
                 \/ {tpc[r], tpc'[r]} \subseteq {"fail", "unwind", "ending", "done"}
          PROVE  Held(r)'
      <3> DEFINE m == Len(queue')
      <3>1. ASSUME NEW j \in 1 .. m
            PROVE  \/ j \in 1 .. n - d /\ queue'[j] = queue[j + d] /\ j + d \in 1 .. n
                   \/ queue'[j] \in New(d)
        <4>1. j \in 1 .. n - d \/ j \in n - d + 1 .. m
          BY <2>1, <2>6, <3>1
        <4>2. CASE j \in 1 .. n - d
          BY <2>1, <2>6, <4>2
        <4>3. CASE j \in n - d + 1 .. m
          BY <4>3
        <4> QED  BY <4>1, <4>2, <4>3
      <3>2. CASE tpc[r] \in {"start", "serve"} /\ \A j \in 1 .. n : ~Ends(queue[j], r)
        <4>1. \A j \in 1 .. m : ~Ends(queue'[j], r)
          BY <2>6, <3>1, <3>2
        <4> QED  BY <2>6, <3>2, <4>1 DEF Held, Ends
      <3>3. CASE /\ tpc[r] \in {"fail", "unwind", "ending", "done"}
                 /\ \A j \in 1 .. n : queue[j].type = "Free" => queue[j].run # r
                 /\ \E i \in 1 .. n : queue[i].type = "Error" /\ \A j \in 1 .. i : ~Ends(queue[j], r)
        <4>1. \A j \in 1 .. m : queue'[j].type = "Free" => queue'[j].run # r
          BY <2>6, <3>1, <3>3
        <4>2. PICK i \in 1 .. n : queue[i].type = "Error" /\ \A j \in 1 .. i : ~Ends(queue[j], r)
          BY <3>3
        <4>3. i > d /\ i - d \in 1 .. n - d /\ i - d \in 1 .. m
          BY <2>1, <2>6, <4>2
        <4>4. queue'[i - d].type = "Error" /\ \A j \in 1 .. i - d : ~Ends(queue'[j], r)
          <5>1. queue'[i - d] = queue[i]
            BY <2>1, <2>6, <4>3
          <5>2. ASSUME NEW j \in 1 .. i - d PROVE queue'[j] = queue[j + d] /\ j + d \in 1 .. i
            BY <2>1, <2>6, <4>2, <4>3, <5>2
          <5> QED  BY <4>2, <5>1, <5>2
        <4> QED  BY <2>6, <3>3, <4>1, <4>3, <4>4 DEF Held, Ends
      <3> QED  BY <2>6, <3>2, <3>3 DEF Held
    <2>7. ASSUME Uncheck
          PROVE  /\ current' = NoRun
                 /\ \A r \in Runs : tpc[r] = "none" => r \notin quitting'
      BY <2>7 DEF Uncheck, PointerSound, NeverRan
    <2>8. ASSUME NEW d \in {0, 1}, Kept(d), UNCHANGED tpc,
                 current' = NoRun \/ (life' # "live" /\ UNCHANGED <<current, checked, quitting>>),
                 \A r \in Runs : tpc[r] = "none" => r \notin quitting' /\ \A e \in New(d) : ~Ends(e, r)
          PROVE  PointerSound'
      <3>1. \A r \in Runs : tpc'[r] = "none" => NeverRan(r)'
        BY <2>5, <2>8
      <3> QED  BY <2>8, <3>1 DEF PointerSound
    <2>9. \A r \in Runs : tpc[r] = "none" => r \notin quitting
      BY DEF PointerSound, NeverRan
    <2>10. ASSUME queue # <<>>
           PROVE  n >= 1 /\ Head(queue) = queue[1] /\ queue[1] \in EventSet /\ Tail(queue) \in Seq(EventSet)
      BY <2>1, <2>10
    <2>11. ASSUME NEW q \in Seq(EventSet), NEW d \in {0, 1},
                  current' = NoRun \/ UNCHANGED <<current, checked, quitting>>, UNCHANGED tpc,
                  \A r \in Runs : tpc[r] = "none" => r \notin quitting',
                  (q = queue /\ d = 0) \/ (queue # <<>> /\ q = Tail(queue) /\ d = 1),
                  SlotFinished(q)
           PROVE  PointerSound'
      <3>1. CASE life = "live"
        <4> DEFINE e == Event("Delete", NoRun)
        <4>1. queue' = Append(q, e) /\ \A r \in Runs : ~Ends(e, r)
          BY <2>11, <3>1 DEF SlotFinished, Ends, Event
        <4>2. Kept(d) /\ New(d) = {e}
          BY <2>3, <2>11, <4>1
        <4>3. life' # "live"
          BY <2>11, <3>1 DEF SlotFinished
        <4> QED  BY <2>8, <2>11, <4>1, <4>2, <4>3
      <3>2. CASE life # "live"
        <4>1. queue' = q /\ life' = life
          BY <2>11, <3>2 DEF SlotFinished
        <4>2. Kept(d) /\ New(d) = {}
          BY <2>2, <2>4, <2>11, <4>1
        <4> QED  BY <2>8, <2>11, <3>2, <4>1, <4>2
      <3> QED  BY <3>1, <3>2
    <2>12. CASE StartServer
      <3>1. PICK r \in Runs : /\ tpc[r] = "none" /\ current' = r /\ checked' = TRUE
                              /\ tpc' = [tpc EXCEPT ![r] = "start"]
                              /\ UNCHANGED <<life, promised, queue, quitting>>
        BY <2>12 DEF StartServer
      <3>2. /\ tpc'[r] = "start" /\ \A s \in Runs : s # r => tpc'[s] = tpc[s]
            /\ NeverRan(r) /\ \A s \in Runs : tpc'[s] = "none" => NeverRan(s)
        BY <3>1 DEF PointerSound, TypeOK
      <3>3. Held(r)'
        BY <3>1, <3>2 DEF NeverRan, Held, Ends
      <3>4. Held(current)'
        BY <3>1, <3>2 DEF NeverRan, Held, Ends
      <3> QED  BY <3>1, <3>2, <3>4 DEF PointerSound, NeverRan, Ends
    <2>13. CASE StopServer
      BY <2>4, <2>7, <2>8, <2>13 DEF StopServer
    <2>14. CASE Close
      <3>1. Uncheck /\ UNCHANGED tpc
        BY <2>14 DEF Close
      <3>2. CASE UNCHANGED queue
        BY <2>4, <2>7, <2>8, <3>1, <3>2
      <3>3. CASE SlotFinished(queue)
        BY <2>1, <2>7, <2>11, <3>1, <3>3
      <3> QED  BY <2>14, <3>2, <3>3 DEF Close
    <2>15. CASE DeliverError
      <3>1. Kept(1) /\ New(1) = {} /\ UNCHANGED tpc
        BY <2>2, <2>15 DEF DeliverError, Take
      <3>2. CASE Uncheck
        BY <2>7, <2>8, <3>1, <3>2
      <3>3. CASE life' = "deleted" /\ UNCHANGED <<checked, current, quitting>>
        BY <2>8, <2>9, <3>1, <3>3
      <3> QED  BY <2>15, <3>2, <3>3 DEF DeliverError
    <2>16. CASE DeliverFinished
      <3>1. queue # <<>> /\ SlotFinished(Tail(queue)) /\ UNCHANGED <<checked, current, tpc, quitting>>
        BY <2>16 DEF DeliverFinished, Take
      <3>2. Tail(queue) \in Seq(EventSet) /\ n >= 1 /\ queue[1].type = "Finished"
        BY <2>10, <2>16 DEF DeliverFinished, Take
      <3>3. life' # "live"
        BY <3>1 DEF SlotFinished
      <3> QED  BY <2>9, <2>11, <3>1, <3>2, <3>3
    <2>17. CASE DeliverDelete
      <3>1. Kept(1) /\ New(1) = {}
        BY <2>2, <2>17 DEF DeliverDelete, Take
      <3> QED  BY <2>8, <2>9, <2>17, <3>1 DEF DeliverDelete
    <2>18. ASSUME UNCHANGED <<mainVars, quitting>>,
                  \A r \in Runs : tpc'[r] = "none" => NeverRan(r)',
                  \A r \in Runs : Held(r) /\ r \notin quitting => Held(r)',
                  \A r \in Runs : tpc'[r] = "none" => tpc[r] = "none"
           PROVE  PointerSound'
      <3>1. PICK c \in Runs \cup {NoRun} : c = current
        BY DEF TypeOK
      <3>2. UNCHANGED <<life, checked, current, quitting>>
        BY <2>18 DEF mainVars
      <3>3. life = "live" /\ c # NoRun => Held(c)'
        BY <2>18, <3>1 DEF PointerSound
      <3>4. life' = "live" /\ current' # NoRun => Held(current)'
        BY <3>1, <3>2, <3>3 DEF Held
      <3> QED  BY <2>18, <3>1, <3>2, <3>4 DEF PointerSound
    <2>19. CASE DeliverReap
      <3> DEFINE s == queue[1].run
                 e == Event("Free", s)
      <3>1. /\ n >= 1 /\ queue[1].type = "Reap" /\ queue # <<>>
            /\ Tail(queue) \in Seq(EventSet) /\ queue' = Append(Tail(queue), e)
            /\ UNCHANGED <<mainVars, tpc, quitting>>
        BY <2>10, <2>19 DEF DeliverReap, Take
      <3> HIDE DEF e
      <3>2. Kept(1) /\ New(1) = {e}
        BY <2>3, <3>1
      <3>3. Ends(queue[1], s) /\ \A r : Ends(e, r) => r = s
        BY <3>1 DEF Ends, Event, e
      <3>4. ASSUME NEW r \in Runs, tpc[r] = "none" PROVE NeverRan(r)'
        <4>1. r # s
          BY <2>1, <3>1, <3>3, <3>4 DEF PointerSound, NeverRan
        <4> QED  BY <2>5, <2>9, <3>1, <3>2, <3>3, <3>4, <4>1
      <3>5. ASSUME NEW r \in Runs, Held(r) PROVE Held(r)'
        <4>1. r # s
          BY <2>1, <3>1, <3>3, <3>5 DEF Held
        <4>2. ~(e.type = "Free" /\ e.run = r)
          BY <3>3, <4>1 DEF Ends
        <4> QED  BY <2>6, <3>1, <3>2, <3>3, <3>5, <4>1, <4>2
      <3> QED  BY <2>18, <3>1, <3>4, <3>5
    <2>20. CASE DeliverFree
      <3> DEFINE s == queue[1].run
      <3>1. /\ n >= 1 /\ queue[1].type = "Free" /\ queue # <<>> /\ queue' = Tail(queue)
            /\ tpc' = [tpc EXCEPT ![s] = "freed"]
            /\ UNCHANGED <<mainVars, quitting>>
        BY <2>10, <2>20 DEF DeliverFree, Take
      <3>2. Kept(1) /\ New(1) = {}
        BY <2>2, <3>1
      <3>3. \A r \in Runs : IF r = s THEN tpc'[r] = "freed" ELSE tpc'[r] = tpc[r]
        BY <3>1 DEF TypeOK
      <3>4. ASSUME NEW r \in Runs, tpc'[r] = "none" PROVE tpc[r] = "none" /\ NeverRan(r)'
        BY <2>5, <2>9, <3>1, <3>2, <3>3, <3>4
      <3>5. ASSUME NEW r \in Runs, Held(r) PROVE Held(r)'
        <4>1. r # s
          BY <2>1, <3>1, <3>5 DEF Held, Ends
        <4> QED  BY <2>6, <3>1, <3>2, <3>3, <3>5, <4>1
      <3> QED  BY <2>18, <3>1, <3>4, <3>5
    <2>21. ASSUME NEW r \in Runs, ThreadStep(r) PROVE PointerSound'
      <3>1. /\ UNCHANGED <<mainVars, quitting>> /\ tpc[r] # "none" /\ tpc'[r] # "none"
            /\ \A s \in Runs : s # r => tpc'[s] = tpc[s]
        BY <2>21 DEF ThreadStep, Listen, Fail, Leave, StopBackend, Finish, Done, Goto, Quiet, TypeOK
      <3>2. Kept(0) /\ \A e \in New(0) : e.run = r /\ (e.type = "Free" => FALSE)
                                         /\ (e.type = "Reap" => tpc[r] = "unwind")
        <4>1. CASE UNCHANGED queue
          BY <2>4, <4>1
        <4>2. CASE queue' = Append(queue, Event("Error", r))
          BY <2>1, <2>3, <4>2 DEF Event
        <4>3. CASE Finish(r)
          <5> DEFINE reap == Event("Reap", r)
                     fin == Event("Finished", r)
          <5>1. CASE r \in promised
            <6>1. /\ Len(queue') = n + 2 /\ queue'[n + 1] = reap /\ queue'[n + 2] = fin
                  /\ \A j \in 1 .. n : queue'[j] = queue[j]
              BY <2>1, <4>3, <5>1 DEF Finish
            <6> HIDE DEF reap, fin
            <6>2. Kept(0) /\ New(0) = {reap, fin}
              BY <2>1, <6>1
            <6> QED  BY <4>3, <6>2 DEF Event, Finish, Goto, reap, fin
          <5>2. CASE r \notin promised
            <6>1. /\ Len(queue') = n + 1 /\ queue'[n + 1] = reap
                  /\ \A j \in 1 .. n : queue'[j] = queue[j]
              BY <2>1, <4>3, <5>2 DEF Finish
            <6> HIDE DEF reap
            <6>2. Kept(0) /\ New(0) = {reap}
              BY <2>1, <6>1
            <6> QED  BY <4>3, <6>2 DEF Event, Finish, Goto, reap
          <5> QED  BY <5>1, <5>2
        <4> QED
          BY <2>21, <4>1, <4>2, <4>3 DEF ThreadStep, Listen, Fail, Leave, StopBackend, Done
      <3>3. ASSUME NEW s \in Runs, tpc'[s] = "none" PROVE tpc[s] = "none" /\ NeverRan(s)'
        <4>1. s # r /\ tpc[s] = "none"
          BY <3>1, <3>3
        <4> QED  BY <2>5, <2>9, <3>1, <3>2, <4>1 DEF Ends
      <3>4. ASSUME NEW s \in Runs, s # r, Held(s) PROVE Held(s)'
        BY <2>6, <3>1, <3>2, <3>4 DEF Ends
      <3>5. ASSUME Held(r), r \notin quitting PROVE Held(r)'
        (* It fails: the error is behind everything that was posted. *)
        <4>1. CASE Fail(r)
          <5>1. /\ queue' = Append(queue, Event("Error", r)) /\ tpc[r] = "start" /\ tpc'[r] = "fail"
            BY <4>1 DEF Fail, Goto, TypeOK
          <5>2. /\ Len(queue') = n + 1 /\ queue'[n + 1].type = "Error"
                /\ \A j \in 1 .. n : queue'[j] = queue[j]
            BY <2>1, <5>1 DEF Event
          <5>3. \A j \in 1 .. n : ~Ends(queue[j], r)
            BY <3>5, <5>1 DEF Held
          <5>4. \A j \in 1 .. n + 1 : ~Ends(queue'[j], r)
            BY <2>1, <5>2, <5>3 DEF Ends
          <5>5. n + 1 \in 1 .. Len(queue')
            BY <2>1, <5>2
          <5> QED  BY <5>1, <5>2, <5>4, <5>5 DEF Held, Ends
        <4>2. \/ tpc[r] = "start" /\ tpc'[r] = "serve"
              \/ {tpc[r], tpc'[r]} \subseteq {"fail", "unwind", "ending", "done"}
              \/ Fail(r)
          BY <2>21, <3>5 DEF ThreadStep, Listen, Leave, StopBackend, Finish, Done, Goto, TypeOK, Held
        <4> QED  BY <2>6, <3>2, <3>5, <4>1, <4>2 DEF Ends
      <3> QED  BY <2>18, <3>1, <3>3, <3>4, <3>5
    <2>22. CASE UNCHANGED vars
      <3> QED BY <2>22 DEF vars, PointerSound, NeverRan, Held, Ends
    <2> QED
      BY <2>12, <2>13, <2>14, <2>15, <2>16, <2>17, <2>19, <2>20, <2>21, <2>22 DEF Next, Deliver
  <1>3. PointerSound => ThreadPointerValid
    BY DEF PointerSound, Held, ThreadPointerValid
  <1> QED  BY <1>1, <1>2, <1>3, ServerTypeCorrect, PTL DEF Spec
==============================================================================
