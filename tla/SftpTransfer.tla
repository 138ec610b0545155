---------------------------- MODULE SftpTransfer ----------------------------
(***************************************************************************)
(* Files copied by SFTP.  The view, on the main thread, starts and stops   *)
(* transfers by events posted to the back end; CChannelSFTP::AsyncFile, in *)
(* the back end's thread, runs a small state machine for each of them over *)
(* asynchronous requests.  Both read and write the state of the shared     *)
(* CFileTransfer without a lock.  A file is counted in requests.  The      *)
(* session may end at any time, and its transfers with it.                 *)
(***************************************************************************)
EXTENDS Naturals, Sequences, SequencesExt

CONSTANTS
    Transfer,    \* the rows of CListFileModel
    Upload,      \* those that go to the server
    Size,        \* m_nFileSize of each, as it was listed
    Stored,      \* what its source holds when it is read
    Concurrent,  \* nConcurrentCount, requests under way at a time
    Failure,     \* what may fail: "open", "wait", "begin", "beginWrite", "write", "short"
    Early,       \* the view is used before the back end exists
    MaxClicks    \* bound: starts and stops the user asks for

ASSUME TransferAssumption ==
    Upload \subseteq Transfer /\ Size \in [Transfer -> Nat] /\ Stored \in [Transfer -> Nat]
ASSUME ConcurrentAssumption == Concurrent \in Nat \ {0}
ASSUME FailureAssumption ==
    Failure \subseteq {"open", "wait", "begin", "beginWrite", "write", "short"}
ASSUME UseAssumption == Early \in BOOLEAN /\ MaxClicks \in Nat

VARIABLES
    state,    \* CFileTransfer::m_State
    shown,    \* CFileTransfer::m_nTransferSize
    clicks,   \* what is left of MaxClicks
    click,    \* transfers whose click is between its two looks at the state
    stage,    \* of the session: before SetConnect, after it, Process has failed, OnStop
    queue,    \* events posted to the back end
    files,    \* CChannelSFTP::m_vFiles
    content   \* what the target file of each transfer holds

vars == <<state, shown, clicks, click, stage, queue, files, content>>

Working == {"Opening", "Transferring", "Closing"}    \* State::Process
CanStart == {"No", "Stop", "Fail"}
Steps == {"OPEN", "READ", "CLOSE", "FINISH", "ERR"}
Stages == {"new", "open", "failed", "over"}

Event(c, t) == [cmd |-> c, file |-> t]

TypeOK ==
    /\ state \in [Transfer -> Working \cup CanStart \cup {"Finish"}]
    /\ shown \in [Transfer -> Nat]
    /\ clicks \in 0 .. MaxClicks
    /\ click \subseteq Transfer
    /\ stage \in Stages
    /\ queue \in Seq([cmd : {"Start", "Stop"}, file : Transfer])
    /\ files \in Seq([file : Transfer, op : Steps, aio : Seq(Nat),
                      transfers : Nat, requests : Nat, local : Nat])
    /\ \A i \in 1 .. Len(files) : Len(files[i].aio) <= Concurrent
    /\ content \in [Transfer -> Seq(Nat)]

Init ==
    /\ state = [t \in Transfer |-> "No"]
    /\ shown = [t \in Transfer |-> 0]
    /\ clicks = MaxClicks
    /\ click = {}
    /\ stage = "new"
    /\ queue = <<>> /\ files = <<>>
    /\ content = [t \in Transfer |-> <<>>]

-----------------------------------------------------------------------------
(* The view. *)

(* The view is used, and stays when the session has ended. *)
CanClick == stage # "new" \/ Early

(* A signal without a receiver is lost. *)
Send(c, t) ==
    queue' = IF stage \in {"open", "failed"} THEN Append(queue, Event(c, t)) ELSE queue

(* slotProcessFileTransfer of a transfer at work: stop it. *)
ClickStop(t) ==
    /\ CanClick
    /\ clicks > 0 /\ clicks' = clicks - 1
    /\ click = {} /\ click' = {t}
    /\ state[t] \in Working
    /\ Send("Stop", t)
    /\ UNCHANGED <<state, shown, stage, files, content>>

Start(t) ==
    /\ state' = [state EXCEPT ![t] = "Opening"]
    /\ Send("Start", t)

(* Its second look at the state, after the stop was sent. *)
ClickAgain(t) ==
    /\ t \in click /\ click' = {}
    /\ IF state[t] \in CanStart THEN Start(t) ELSE UNCHANGED <<state, queue>>
    /\ UNCHANGED <<shown, clicks, stage, files, content>>

(* Mutant: the state is left to the thread that serves the request. *)
ClickStartOnly(t) ==
    /\ CanClick
    /\ clicks > 0 /\ clicks' = clicks - 1
    /\ click = {}
    /\ state[t] \in CanStart
    /\ Send("Start", t)
    /\ UNCHANGED <<state, shown, click, stage, files, content>>

(* slotProcessFileTransfer of one that is not. *)
ClickStart(t) ==
    /\ CanClick
    /\ clicks > 0 /\ clicks' = clicks - 1
    /\ click = {}
    /\ state[t] \in CanStart
    /\ Start(t)
    /\ UNCHANGED <<shown, click, stage, files, content>>

-----------------------------------------------------------------------------
(* The back end's thread. *)

(* CBackendFileTransfer::SetConnect *)
Connect ==
    /\ stage = "new" /\ stage' = "open"
    /\ UNCHANGED <<state, shown, clicks, click, queue, files, content>>

(* Process fails, and OnProcess is not called again; the thread still serves *)
(* what is posted, until the main thread has answered its sigStop.           *)
ProcessFails ==
    /\ stage = "open" /\ stage' = "failed"
    /\ UNCHANGED <<state, shown, clicks, click, queue, files, content>>

(* OnStop, after sigStop or the user: OnClose drops the readers, and nobody is *)
(* told; what is posted to the back end goes with it.                          *)
OnStop ==
    /\ stage \in {"open", "failed"} /\ stage' = "over"
    /\ files' = <<>> /\ queue' = <<>>
    /\ UNCHANGED <<state, shown, clicks, click, content>>

Take(c) == queue # <<>> /\ Head(queue).cmd = c /\ queue' = Tail(queue)
SetState(t, s) == state' = [state EXCEPT ![t] = s]
Has(t, i) == i \in 1 .. Len(files) /\ files[i].file = t

SlotStart ==
    /\ Take("Start")
    /\ LET t == Head(queue).file IN
         /\ SetState(t, "Opening")
         /\ files' = Append(files, [file |-> t, op |-> "OPEN", aio |-> <<>>,
                                    transfers |-> 0, requests |-> 0, local |-> 0])
    /\ UNCHANGED <<shown, clicks, click, stage, content>>

(* Mutant: the state is set also when the transfer is no longer there. *)
StopAnyway ==
    /\ Take("Stop")
    /\ LET t == Head(queue).file IN
         /\ SetState(t, "Stop")
         /\ files' = SelectSeq(files, LAMBDA e : e.file # t)
    /\ UNCHANGED <<shown, clicks, click, stage, content>>

(* slotStopFileTransfer: the first reader of the file is removed. *)
SlotStop ==
    /\ Take("Stop")
    /\ LET t == Head(queue).file
           i == SelectInSeq(files, LAMBDA e : e.file = t) IN
         IF i = 0 THEN UNCHANGED <<state, files>>
         ELSE SetState(t, "Stop") /\ files' = RemoveAt(files, i)
    /\ UNCHANGED <<shown, clicks, click, stage, content>>

MinOf(a, b) == IF a < b THEN a ELSE b
From(n, k) == [j \in 1 .. k |-> n + j]

(* sftp_aio_begin_read of k requests: the library moves the offset.  Bound: *)
(* nothing is read past the end, however far.                              *)
BeginRead(e, k) ==
    [e EXCEPT !.aio = @ \o From(e.requests, k),
              !.requests = MinOf(@ + k, Size[e.file] + Stored[e.file])]

(* The local file is read, then sftp_aio_begin_write; a request that cannot be *)
(* made has read its part of the file all the same.                           *)
BeginWrite(e, k, skipped) ==
    [e EXCEPT !.aio = @ \o From(e.local, k), !.requests = @ + k, !.local = @ + k + skipped]

(* What asking for up to n requests can lead to.  At the end of the local file *)
(* nothing is read, and an empty request is refused.                           *)
Asked(e, n) ==
    IF e.file \in Upload
    THEN LET most == MinOf(n, Stored[e.file] - e.local) IN
         {BeginWrite(e, most, 0)} \cup
         {BeginWrite(e, k, 1) : k \in IF "beginWrite" \in Failure /\ most > 0
                                      THEN 0 .. most - 1 ELSE {}}
    ELSE {BeginRead(e, k) : k \in IF "begin" \in Failure THEN 0 .. n ELSE {n}}

SetFile(i, e) == files' = [files EXCEPT ![i] = e]

(* STATE::OPEN.  An upload truncates its target before the local file fails. *)
Open(i) ==
    LET e == files[i] IN
    /\ e.op = "OPEN"
    /\ \/ /\ "open" \in Failure
          /\ SetFile(i, [e EXCEPT !.op = "ERR"])
          /\ \/ UNCHANGED content
             \/ e.file \in Upload /\ content' = [content EXCEPT ![e.file] = <<>>]
          /\ UNCHANGED state
       \/ /\ \E f \in Asked([e EXCEPT !.op = "READ"], MinOf(Concurrent, Size[e.file])) :
               SetFile(i, f)
          /\ content' = [content EXCEPT ![e.file] = <<>>]
          /\ SetState(e.file, "Transferring")
    /\ UNCHANGED <<shown, clicks, click, stage, queue>>

(* Requests answered, first to last: k of them, of which the first got are in  *)
(* full and the others, of a download, empty or short; then none yet, one that *)
(* fails, or the last of them cannot be written.                               *)
Answers(e) ==
    LET upload == e.file \in Upload IN
    {a \in [k : 0 .. Len(e.aio), got : 0 .. Len(e.aio), why : {"again", "wait", "write"}] :
        /\ a.got <= a.k
        /\ \A j \in 1 .. a.got : upload \/ e.aio[j] <= Stored[e.file]
        /\ \A j \in a.got + 1 .. a.k :
              ~upload /\ (e.aio[j] > Stored[e.file] \/ "short" \in Failure)
        /\ a.why = "wait" => "wait" \in Failure /\ a.k < Len(e.aio)
        /\ a.why = "write" => "write" \in Failure /\ ~upload /\ a.got = a.k /\ a.k > 0}

(* A short answer counts for nothing: its missing part is not asked for again, *)
(* as the offset has moved on.                                                 *)
Answered(e, a) ==
    [e EXCEPT !.aio = SubSeq(@, a.k + 1, Len(@)),
              !.transfers = @ + a.got,
              !.op = IF a.why = "again" THEN @ ELSE "ERR"]

Complete(e) == e.transfers = Size[e.file]

(* A download asks again once all is answered, and is complete when the size *)
(* is reached, whatever went wrong with the last part.                       *)
AfterRead(e) ==
    IF Complete(e) THEN {[e EXCEPT !.op = "CLOSE"]}
    ELSE IF e.aio # <<>> THEN {e}
    ELSE Asked(e, MinOf(Concurrent, Size[e.file] - e.transfers))

(* Mutant: an upload is complete when everything was asked for. *)
AfterWriteAsked(e, k) ==
    {IF f.requests = Size[f.file] THEN [f EXCEPT !.op = "CLOSE"] ELSE f :
        f \in Asked(e, MinOf(Concurrent - Len(e.aio), Size[e.file] - e.requests))}

(* An upload asks for more as soon as a request is answered; k were. *)
AfterWrite(e, k) ==
    LET f == IF k > 0 /\ Complete(e) THEN [e EXCEPT !.op = "CLOSE"] ELSE e IN
    Asked(f, MinOf(Concurrent - Len(f.aio), Size[f.file] - f.requests))

(* STATE::READ *)
Read(i) ==
    LET e == files[i] IN
    /\ e.op = "READ"
    /\ \E a \in Answers(e) :
         LET f == Answered(e, a)
             written == IF a.why = "write" THEN a.got - 1 ELSE a.got IN
         /\ \E g \in IF e.file \in Upload THEN AfterWrite(f, a.k) ELSE AfterRead(f) : SetFile(i, g)
         /\ content' = [content EXCEPT ![e.file] = @ \o SubSeq(e.aio, 1, written)]
         /\ shown' = [shown EXCEPT ![e.file] = IF e.file \in Upload THEN @ ELSE @ + written]
    /\ UNCHANGED <<state, clicks, click, stage, queue>>

(* STATE::CLOSE *)
Close(i) ==
    LET e == files[i] IN
    /\ e.op = "CLOSE"
    /\ SetFile(i, [e EXCEPT !.op = "FINISH"])
    /\ SetState(e.file, "Closing")
    /\ UNCHANGED <<shown, clicks, click, stage, queue, content>>

(* STATE::FINISH *)
Finish(i) ==
    LET e == files[i] IN
    /\ e.op = "FINISH"
    /\ files' = RemoveAt(files, i)
    /\ SetState(e.file, "Finish")
    /\ UNCHANGED <<shown, clicks, click, stage, queue, content>>

(* Mutant: a failure is only logged. *)
FailSilently(i) ==
    /\ files[i].op = "ERR"
    /\ files' = RemoveAt(files, i)
    /\ UNCHANGED <<state, shown, clicks, click, stage, queue, content>>

(* Mutant: the failed reader is kept for another attempt. *)
FailKept(i) ==
    /\ files[i].op = "ERR"
    /\ SetFile(i, [files[i] EXCEPT !.aio = Append(@, 0), !.op = "READ"])
    /\ UNCHANGED <<state, shown, clicks, click, stage, queue, content>>

(* STATE::ERR *)
Fail(i) ==
    LET e == files[i] IN
    /\ e.op = "ERR"
    /\ files' = RemoveAt(files, i)
    /\ SetState(e.file, "Fail")
    /\ UNCHANGED <<shown, clicks, click, stage, queue, content>>

(* AsyncFile, for the reader of one file: readers share nothing. *)
Async(t) ==
    /\ stage = "open"
    /\ \E i \in 1 .. Len(files) :
          Has(t, i) /\ (Open(i) \/ Read(i) \/ Close(i) \/ Finish(i) \/ Fail(i))

-----------------------------------------------------------------------------
Next == \/ Connect \/ ProcessFails \/ OnStop \/ SlotStart \/ SlotStop
        \/ \E t \in Transfer : ClickStart(t) \/ ClickStop(t) \/ ClickAgain(t) \/ Async(t)

Spec == Init /\ [][Next]_vars

(* The thread runs, and the server answers its requests.  The main thread      *)
(* answers the sigStop of a Process that fails.                                *)
FairSpec ==
    /\ Spec
    /\ WF_vars(Connect) /\ WF_vars(stage = "failed" /\ OnStop) /\ WF_vars(SlotStart \/ SlotStop)
    /\ \A t \in Transfer : WF_vars(ClickAgain(t)) /\ WF_vars(Async(t))

-----------------------------------------------------------------------------
(* Properties. *)

Wanted(t) == \E i \in 1 .. Len(queue) : queue[i] = Event("Start", t)

(* A transfer that is shown as not at work is not read by the thread and not *)
(* about to be, and no file has two readers, however clicks and errors cross. *)
WorkIsShown ==
    \A t \in Transfer :
        /\ state[t] \notin Working => ~Wanted(t) /\ \A i \in 1 .. Len(files) : ~Has(t, i)
        /\ \A i, j \in 1 .. Len(files) : Has(t, i) /\ Has(t, j) => i = j

(* A transfer shown as finished has copied the whole file, in order. *)
FinishIsComplete ==
    \A t \in Transfer : state[t] = "Finish" => content[t] = From(0, Size[t])

(* A transfer that has finished stays so, when a stop arrives late. *)
FinishIsFinal == [][\A t \in Transfer : state[t] = "Finish" => state'[t] = "Finish"]_vars

(* While the session lasts, a transfer does not stay at work for ever, if its  *)
(* source holds what was listed.                                               *)
TransferEnds ==
    \A t \in {x \in Transfer : Size[x] <= Stored[x]} :
        state[t] \in Working ~> state[t] \notin Working \/ stage = "over"

(* The same of every source, as a file may shrink after it was listed. *)
ShrunkEnds == \A t \in Transfer : state[t] \in Working ~> state[t] \notin Working \/ stage = "over"

(* The end of the session leaves no transfer shown at work. *)
EndIsShown == [][OnStop => \A t \in Transfer : state[t] \notin Working]_vars

(* A click that has sent a stop starts nothing. *)
StopNeverStarts == [][click # {} /\ click' = {} => state' = state]_vars

(* No more is shown as transferred than the file holds. *)
ProgressBounded == \A t \in Transfer : shown[t] <= Size[t]
=============================================================================
