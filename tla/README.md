# RabbitRemoteControl in TLA+

RabbitRemoteControl is a Qt client for remote desktops, terminals, file
transfer and small servers.  A main window opens *sessions*; each is an operate
(`COperate`) made by a plugin, and most of them run their protocol in a thread
of their own behind a back end (`CBackend`).  This directory models the parts of
the program where threads, the event queue, dialogs, callbacks and errors meet,
checks them with TLC on small instances, and proves the most important
invariants with TLAPS for every value of the constants.

All paths below are relative to the repository.

## 1. The system

```
   user -- MainWindow -- CManager -- CPlugin (one per protocol)
              |  m_Operates               | CreateOperate / DeleteOperate
              v                           v
           COperate  (OperateDesktop, OperateTerminal, OperateServer, ...)
              |  Start / Stop             ^ sigRunning, sigStop, sigFinished,
              v                           | sigError, blocking dialogs
        CBackendThread::run --------> CBackend: OnStart, OnProcess, OnStop
              |                           |
              |                     CSSHTunnelThread, CChannelSFTP, CChannelIce,
              |                     libVNC, FreeRDP, libssh, Qt sockets ...
              v
      finished() -> deleteLater, in the main thread
```

| component | state | operations | what is hard | what makes it correct |
|---|---|---|---|---|
| Session core: `MainWindow`, `COperate`, `CBackendThread`, `CBackend` | `m_Operates`, `m_pThread`, the posted events, nested event loops, `m_pBackend` | open, settings dialog, start, signals, blocking dialogs, stop, close, finish, delete, exit | a thread uses the operate while the main thread may delete it; `deleteLater`; dialogs nest the event loop; failed starts | nobody uses what is deleted, the end is reported once and last, every session that stops ends |
| Server sessions: `COperateServer`, `CBackendServer` | the checkable action, `m_pThread` | check, uncheck, fail, close | several runs of one operate, late errors of an older run | the action controls the run that serves |
| Shared thread: `CPluginBackendThread`, `CPluginThread`, `CManageBackend` | map from operate pointers to back ends | new, delete, stop | pointers are keys and can be reused; requests cross the thread | a request reaches the back end it was meant for |
| SSH tunnel: `CSSHTunnelThread`, `CChannelSSHTunnel(Forward)` | exit flag, sockets, buffers | open, accept, relay both ways, exit | a second thread under the back end, non-blocking sockets | no byte lost or reordered, both threads end |
| ICE channel: `CChannelIce`, `CIceSignal*` | receive buffer, ids of peer and channel | open, description, candidate, message, read, write, close | callbacks of a library's thread; signals of several calls over one connection, lost or early; restarts | signals reach the call they are of, bytes arrive once, in order, a call gets its channel |
| File transfer: `CBackendFileTransfer`, `CChannelSFTP`, `CListFileModel`, `CRemoteFileSystemModel` | queues of directory reads and transfers, asynchronous requests | list, get, put, stop, make, rename, remove | the view and the thread share transfers without a lock; partial reads and writes | a file is complete when it says so, handles are closed |
| SFTP server: `CBackendSftpServer`, `CFrmViewServer` | clients, rows | connect, disconnect, limits | the user disconnects a client that is just leaving | rows and clients agree |
| Database: `CDatabase`, `CDatabaseTree`, files, icons | SQLite tables | add, move, rename, delete nodes and folders | several statements per operation, one of which fails; recursion over the parents | the tree stays a tree, every key has a leaf |
| Favorites, recent sessions | the rows fetched so far, `m_Folders` | add, move, rename, delete, drop, import, refresh | a view that is out of date; the same file in several groups; three kinds of ids | an operation touches what its row stands for, no pointer dangles |
| `CManager`, `CPlugin` | plugins by id | load, filter, create, delete, save and reopen sessions | order of unloading | operates end before their plugin |
| Desktop back end and viewer | events queued to the back end, picture | input, painting, recording | events for a back end that has ended | nothing is sent to a closed connection |
| FreeRDP client | clipboard formats, redirected files | copy, paste, file ranges, reconnect | requests and answers of two sides | answers meet their request |
| LibVNCServer, TigerVNC clients and services, RabbitVNC service | connection state | connect, update, clipboard | library callbacks | |
| Terminal sessions: SSH, Telnet, serial port, raw stream, local | device or socket, negotiated options | open, read, write, close | no thread: the protocol runs on the main thread | negotiation ends |
| Services: `CServiceManager`, `CServiceThread`, `CService` | threads | start, retry, stop | failed start | a service that stops is gone |
| Web browser | history, bookmarks, downloads | visit, search, expire | database limits | |
| Wake on LAN | table of hosts | wake, ARP, retry | answers of two threads | |
| Hooks, key injection, desktop and input of the services, parameters and their dialogs, views, player, screen capture, templates | | | calls of the window system or of Qt, settings | |

`PROJECT.json` lists each component with its sources and what is modelled of it.

## 2. Plan

The order is that of the damage a mistake does: sessions first, because every
protocol runs inside one.

| module | models | status |
|---|---|---|
| `Session`, `SessionLife` | a session and its abstract life | done, safety and refinement proved |
| `ServerOperate` | server sessions | done, safety proved |
| `SharedThread` | sessions that share a thread | done, safety proved |
| `Tunnel` | the SSH tunnel thread under a back end, and the bytes it relays | done, safety proved |
| `SftpTransfer` | file transfers beside the view | done, safety proved |
| `IcePipe`, `IceChannel` | signalling, buffers and ends of the ICE channel, and the pipe it is | done, proved |
| `FavoriteTree` | the favorites' tables and the tree that shows them | done, safety proved |
| `RemoteDirs` | directory reads and the tree of the remote file system | next |
| `Clipboard` | FreeRDP and TigerVNC clipboard | later |

Abstract specifications worth stating: the life of a session (done, proved); a
reliable pipe for the ICE channel (done, proved; the tunnel states it as `InOrder`); a
file copied or failed for the transfer (`FinishIsComplete`, proved).  A theorem still
worth proving: of `Tunnel`, that what the client sends arrives in order whatever the
local socket holds.

## 3. The modules

### 3.1 Session, SessionLife, MCSession

`Session` is one main thread and one thread per session.

| TLA+ | code |
|---|---|
| `life`, `active`, `shown`, `held` | the operate object, `MainWindow::m_Operates`, the view enabled by `slotRunning`, `m_pThread` |
| `queue` | the events posted to objects of the main thread: signals, deferred deletes (`Delete`, `Free`), `finished()` of a thread (`Reap`) |
| `frames` | nested event loops, a settings dialog or a dialog a back end waits for (`BlockingQueuedConnection`) |
| `todo`, `main` | what is left of a `foreach` that stops operates; where the main thread is inside `CBackendThread::quit` |
| `tpc`, `quitting`, `backend`, `ptr` | where `CBackendThread::run` is, `QThread::quit`, the back end and `m_pBackend` |
| `Configure`, `OpenFile`, `SettingsAccepted`, `SettingsRejected` | `MainWindow::slotStart`, `slotOpenFile` and both ends of the dialog in `Start` |
| `StopOne`, `StopOther`, `StopAll`, `CloseApp`, `StopNext` | `slotCloseView`, the Stop actions, `closeEvent` |
| `Stop`, `QuitCheck`, `QuitWake` | `COperate::Stop`, then `CBackendThread::quit`, whose test and use of `m_pBackend` are two steps because nothing locks the pointer |
| `Deliver...` | the slot each posted event calls; a deferred delete waits until the loops opened since have returned; Qt drops the events of a deleted receiver |
| `Instance` ... `Done` | the lines of `CBackendThread::run`, `CBackend::Start`, `slotTimeOut`, and QThread's end |
| `Hangup` | the socket of a session without a thread (Telnet) reports an error on the main thread |

The dialogs are application modal, so the windows take input only without one.
A session of `Parented` has its thread as a child (`COperateDesktop::Start`); the
others let the thread delete itself.  A session of `Silent` has a back end whose
`OnStop` does not emit `sigFinished`; `Direct` ones have no thread.

`SessionLife` says what a session is for its user: none, configuring, open,
shown, gone; its worker is busy until it lets go, and a session is discarded only
after that.  `Session` ends with the refinement mapping (`Phase`, `Life`);
`MCSession` holds the signals each back end of an instance may raise.

Properties: `BackendOwnerAlive` (the thread uses its operate without a lock until
`Stop` has returned), `FinishedIsLast` (`sigFinished` is heard once and after it
nothing), `ThreadPointerValid` (`m_pThread` of a self-deleting thread),
`DialogOwnerAlive`, `LifeSpec` (the refinement), `StopEnds` and `FailureEnds`.

### 3.2 ServerOperate, MCServerOperate

One server session over several runs.  Checking the action starts a thread that
deletes itself; unchecking it quits the thread and forgets it; an error of any
run unchecks the action; closing the session waits for `finished()` if the
action is checked and reports the end at once if not.  `current` is `m_pThread`,
`promised` the runs whose `finished()` is connected to `sigFinished`, `tpc[r]` the
thread of run r, and `Outcome` what `OnStart` may do: listen, fail with `sigError`
(FTP), fail without it (SFTP).

`ActionControlsServer`: while the session is open, a run that serves and was not
told to quit is the one the checked action stands for.  `ThreadPointerValid`: the
pointer of a checked action is not that of a thread that has deleted itself.
`FailureUnchecks`: a run that fails to start unchecks its action.

### 3.3 SharedThread, MCSharedThread

Sessions whose back ends live in one thread of their plugin.  A request carries
the address of the operate, and `at` gives each operate an address that a later
one may get again once the first is deleted.  `backend` is
`CManageBackend::m_Backends`.  `BackendOwnerAlive`: every back end and every
request for one is of a living operate; `NoStrangerStopped`: a late request to
delete never finds the back end of another session under its key; `FinishedOnce`,
`StopEnds`, `OpenServes`.

### 3.4 Tunnel, MCTunnel

A VNC session through an SSH tunnel: three threads and two streams.

| TLA+ | code |
|---|---|
| `tpc`, `exit`, `object` | where `CSSHTunnelThread::run` is, `m_bExit`, the thread object, which lives in the back end's thread |
| `bpc`, `events`, `held`, `client` | the back end's thread, what is posted to it, `m_pThread`, libVNC's `m_pClient` |
| `channel`, `sockDown`, `gotDown`, `sockUp`, `gotUp` | the pieces of each stream, by where they are |
| `Ask`, `Answer`, `Opened`, `OpenFails`, `OpenedDeaf` | `CChannelSSH::open` and `CChannelSSHTunnelForward::open` |
| `ProcessEof`, `AcceptConnect`, `ReadConnect`, `SSHReadyRead`, `SeeExit` | the outcomes of a round of `Process` and the loop around it; which one a round has is what `ssh_select` finds |
| `Report`, `Finished` | `sigStop`, and `finished()` with its `deleteLater` |
| `ConnectProxyServer`, `InitClient`, `OnProcess`, `OnStop` | the back end: libVNC connects to the local socket and waits in `rfbInitClient` for what the tunnel relays |

A number stands for what one `recv` or one read of the channel returns.  A write to
the channel blocks until it is done, as the channel is never made non-blocking; a
`send` to the local socket does not, and `Room` is what the socket holds.
`ssh_channel_is_eof` is false while something received is unread.  `InOrder`: each
side has a prefix of what the other has sent, without a gap.  `EofAfterData`: a
tunnel that ends by the server's EOF has passed on all that came before.
`TunnelEndStops` and `StopEndsTunnel`: neither the session nor the tunnel is left
behind by the end of the other.  A use of an object that is gone has no effect in
this module: what a real use does is no concern of these four, and that there are
such uses is what the last configurations of section 4 show.

### 3.5 SftpTransfer, MCSftpTransfer

Files copied by SFTP.  `state` and `shown` are fields of the `CFileTransfer` that the
view and the thread share; `queue` the events posted to `CBackendFileTransfer`;
`files` is `m_vFiles`, one record per reader with the step of its state machine, its
requests under way (`aio`), `nTransfers`, `nRequests` and how far the local file was
read; `content` what the target holds, as the numbers of the requests that filled it.
`Size` is what a file measured when it was listed, `Stored` what it holds when it is
read.  `stage` is the session: before `SetConnect`, connected, after a `Process` that has
failed, after `OnStop`.

`ClickStart`, `ClickStop` and `ClickAgain` are `slotProcessFileTransfer`, whose two looks at
the state are two steps because the thread may change it in between.  `SlotStart` and
`SlotStop` are the slots of `CChannelSFTP`; `Open`, `Read`, `Close`, `Finish` and `Fail` the
cases of `AsyncFile` (`Open` is split from the `Read` it falls into; nothing but the
server's answers can come between them that may not come later).  An answer to a read
that is empty or short is counted as the bytes it has, and the offset has moved on:
`Answers` makes them part of a batch, empty where the file ends, short where `Failure`
says so, and `Answered` counts nothing for them.  `ProcessFails` is a `Process` that
returns -3; `OnStop`, by the user or by the `sigStop` of that failure, drops the readers
and what is posted to the back end, and sets no state.  `Failure` says what
can go wrong: opening, an answer, a request to read or to write, the local disk.

`WorkIsShown`: what is shown as idle has no reader and no start under way, and no file
has two readers.  `FinishIsComplete`, `FinishIsFinal`.  `TransferEnds`: while the session
lasts, a transfer whose source holds what was listed is not at work for ever.  The two
exceptions are real, and are stated by `ShrunkEnds` and `EndIsShown` (section 4).

### 3.6 IcePipe, IceChannel, MCIceChannel

Desktop sessions over ICE: back ends of several users call the service of one peer.

| TLA+ | code |
|---|---|
| `counter`, `name` | `GenerateID`'s static id, of each process; the caller and `m_szChannelId` of an end |
| `state`, `dc`, `heard` | a `CChannelIce`, its `m_dataChannel`, what was given to its `rtc::PeerConnection` |
| `up`, `down`, `offers` | signals to the service and to a user, `sigOffer` queued to the service's thread |
| `out`, `unread`, `got`, `wrote` | pieces written that are under way, in `m_data`, read, and how many were written |
| `Call`, `Hangup` | `CBackendVnc::IceInit` and `OnStop` |
| `SlotSignalOffer`, `Connection` | `CServiceTigerVNC::slotSignalOffer`: `open` of the channel, then the `CConnection` that listens to it; rtc's callbacks come in between |
| `ServiceIq`, `ClientIq`, `Hear` | `proecssIq`, and the slots that drop a signal of other ids |
| `OnOpen`, `OnClosed`, `OnMessage` | the callbacks of the data channel |
| `Write`, `WriteClosed`, `Read` | `writeData`, in chunks, with `flushBuffer` around it; `readData` |
| `Lose`, `NetworkFails`, `Restart` | a signal sent without a connection, the network under rtc, a caller's process that starts anew |

libdatachannel is external: `Negotiated`, `Described` and `Reachable` say what it
needs before a data channel opens.  `IcePipe` is what the two ends promise: each comes
up once and is over once, and reads what the other has written, from the first piece
on, in order, each piece once.  `PipeSpec` says that `IceChannel` implements it under
the mapping of `Status`.  `OwnPeer`: an end gives its rtc only what the other end of
its own call has sent, until a process restarts.  `CallConnects`: a call gets its data
channel whatever candidates come too early, unless it is given up, a signal of it is
lost, or the service's thread hangs.

### 3.7 FavoriteTree, MCFavoriteTree

The favorites: `folder`, `leaf` and `favorite` are the three tables, with their
AUTOINCREMENT ids; `node` and `index` the rows that `CFavoriteModel` has made and
`m_Folders`.  A row keeps the id and parent of its item as they were read, so a view
may say something else than the tables, and the operations of the user go by the
view.  The operators `Db...` are those of `CDatabaseTree` and `CFavoriteDatabase`, with a
parameter for a statement that fails.  One that writes stops the operation.  One that
reads is taken for an empty result, and the operation goes on; `ReadsFail` says whether
there are such, in `AddNode`, `MoveNode`, `Delete` and `DeleteNode` (in `AddFavorite` a failing
read ends like a failing write).  The actions are the slots of `CFavoriteView`
with all the model and the tables do (`FetchMore` is what Qt's view asks for).  All of it
is in the main thread, so an operation is one step.

`Acyclic`: no group is below itself, or `InSubNode` and `DeleteNode` would not end.
`KeyHasLeaf`: every favorite has a place in the tree.  Both hold whatever statement that
writes fails, and neither does if one that reads may (`MCFavoriteTree_faults.cfg`).
`FolderNodesLive`: `m_Folders` holds no pointer to a deleted row.  `KeepsOthers`:
deleting a row keeps the favorites that are also elsewhere.  These two hold whatever
statement fails.  `EditsItsOwn`: see the runs.

## 4. What the runs show

| run | instance | states | shows |
|---|---|---|---|
| `session_safety` | a parented and a self-deleting session, each with a dialog | 0.5M | the five invariants and the refinement |
| `session_ends` | a self-deleting session with a dialog beside a direct one | 42k | `StopEnds`, `FailureEnds`, and the refinement and the dialogs with a direct session |
| `session_fatal` | a parented session | violation | see below |
| `session_silent_end` | a silent session | violation | see below |
| `server_runs` | three runs, errors reported | 0.85M | four properties of a server session |
| `server_owner` | runs that always listen | violation | see below |
| `shared_sessions` | two sessions, two addresses, starts may fail | 15k | six properties of a shared thread |
| `tunnel_relay` | three pieces down, two up | 4k | five properties of the tunnel |
| `ice_calls` | two calls of a user, one fault, data while there is one call | 0.44M | four properties of the ICE channel, the pipe among them |
| `favorites_edits` | three groups, a file with two places, two rows, one statement that writes fails | 87k | five properties of the favorites |
| `favorites_rename` | two files, three places | violation | see below |
| `sftp_copy` | an upload and a download of three requests, two at a time, a download that has shrunk, the end of the session, four clicks | 0.41M | five properties of transfers |

Bounds.  A session is opened once, because a second opening makes a new object
that shares nothing with the first but the main thread, whose queue and dialogs
two sessions exercise.  Each
signal is raised at most once by a back end: a second one finds the same states.
A server runs three times: an error or an end of run 1 can meet run 2, and of
both run 3.  Two addresses are enough for two sessions to have one each or to
share one in turn.  Three pieces let a gap be seen (one lost between two that
arrive); two requests at a time with three in all make a full batch, a partial one
and answers between them; the file that has shrunk was listed with one request and holds
none, so each request for it comes back empty; four clicks stop and start one transfer
twice or two of them once.
In `ice_calls` a fault is a signal lost, a network that fails or a restart; `MaxTalking`
lets two calls signal and one talk, because the data of a channel is its own; two
pieces, written in one write or in two, can be lost, repeated and swapped, and a chunk is
as long as the longest write (see `MCIceChannel_chunk.cfg`).  In `favorites_edits` two rows
are enough for a group and what is in it, two groups side by side, and a row that
stays behind in the view; three groups make a chain whose ends can be joined; two
leaves are a favorite in two groups; one failing statement leaves the tables in
whichever state it finds, and a second one finds the same kinds of state.

Fairness.  `FairSpec` assumes that calls of the main thread return, that every
thread keeps running (waits in `OnStart` and `OnProcess` have timeouts) and that
posted events are delivered: an iteration of Qt's event loop sends the posted
events as well as the input of the user, so no amount of clicking starves the
queue, which is strong fairness of `Deliver`.  The user answers a dialog.
In `Tunnel` the VNC server says what it has to say: `rfbInitClient` has no timeout, and
a server that stays silent keeps the session, stopped or not, where it is.  In
`SftpTransfer` the server answers each request, a request to read that could not
be made is made again with success in the end, and the main thread answers the `sigStop` of
a `Process` that has failed; the user need not stop the session.  In `IceChannel` the threads of the processes
run, the signal server delivers what was sent and not lost, and rtc gathers its
candidate and opens a data channel that both sides have agreed on; nothing is assumed
of what is written, read or hung up.

### Disagreements the runs report

* `session_fatal`: the thread is a child of the operate, and `sigFinished`, on
  which the operate is deleted, is sent before `run()` has returned: `~QThread`
  may find it running.
* `session_silent_end`: a back end that does not emit `sigFinished` from `OnStop`
  (file transfer) leaves its session in `m_Operates`.
* `server_owner`: closing a session whose action was just unchecked reports the
  end at once.  The run was told to quit, and may still be in `OnStart`, which listens
  as the parameters say: they are deleted under it.
* `favorites_rename`: an item's id is "the id of tree table", and renaming a favorite
  updates the row of the table `favorite` with that id.  The two agree until a favorite
  is in two groups, by an import; then another favorite gets the name.

Further configurations, which are not among the runs, show consequences of the
same kind; `tlc -config <cfg> <module>` finds each of them violated (with `-continue`
where a configuration has several):

| configuration | property | what happens |
|---|---|---|
| `MCSession_wake.cfg` | `WakeTargetAlive` | `quit()` tests `m_pBackend` and wakes the back end after its thread has deleted it |
| `MCSession_exit.cfg` | `OwnerOutlivesBackend` | after the main window closed, operates are deleted under back ends that take longer than a second |
| `MCServerOperate_lost.cfg` | `CloseEnds` | closed between the end of a failed run and its error, the session waits for a `finished()` that was emitted |
| `MCServerOperate_orphan.cfg` | `NothingLeftServing` | closed and checked again before the old run ended |
| `MCSharedThread_instance.cfg` | `StopEnds` | the back end cannot be made, and nobody reports the end |
| `MCSharedThread_lost.cfg` | `OpenServes` | a session opened before the thread has connected its slots |
| `MCTunnel_full.cfg` | `DownInOrder` | the local socket is full: what was read from the channel is dropped ("TODO: add resend") |
| `MCTunnel_deaf.cfg` | `OpenConcludes` | no local socket: `OpenSocket` returns false, which is 0, and nobody is told |
| `MCTunnel_pointer.cfg` | `TunnelPointerValid` | the tunnel ended and deleted itself before `OnStop` calls `Exit()` on it |
| the same | `BackendOutlivesOpen` | opening lasts longer than the session whose back end shows its messages |
| `MCTunnel_deleted.cfg` | `TunnelDeleted` | a tunnel that outlives the back end's event loop is not deleted: its `deleteLater` is posted to that loop |
| `MCSftpTransfer_disk.cfg` | `FinishIsComplete` | the last part cannot be written, and the transfer is finished |
| the same | `EndIsShown` | the connection fails or the session ends: `m_vFiles` is cleared, and the rows stay at work |
| the same | `StopNeverStarts` | the transfer fails between the two looks of a click that stops it, and starts again |
| `MCSftpTransfer_source.cfg` | `ShrunkEnds` | a remote file that has shrunk is asked for without end |
| `MCSftpTransfer_empty.cfg` | `TransferEnds` | an upload of an empty file |
| `MCSftpTransfer_request.cfg` | `TransferEnds` | a request to write that could not be made skips its part of the file |
| `MCSftpTransfer_early.cfg` | `TransferEnds` | a transfer started before the session is connected stays in opening |
| `MCIceChannel_restart.cfg` | `OwnPeerAlways` | a caller's process restarts and uses an id anew whose signals are still under way |
| `MCIceChannel_chunk.cfg` | `PipeSpec` | a write longer than a chunk: `writeData` sends the beginning of `data` for each chunk |
| `MCIceChannel_flush.cfg` | `FlushEnds` | `writeData` of a closed channel returns -2, which `flushBuffer` adds to `sentUpTo` for ever |
| `MCIceChannel_greeting.cfg` | `GreetingHeard` | the channel opens before the service's connection listens to it |
| `MCIceChannel_lost.cfg` | `CallConcludes` | a signal is lost, and nothing ends the call |
| `MCFavoriteTree_faults.cfg` | `KeyHasLeaf` | `GetLeaf` or `GetLeavesByKey` fails: the key is kept, its last leaf deleted, and no row will show the favorite |
| the same | `Acyclic` | `GetSubNodes` fails: `InSubNode` finds nothing, and a group is moved below itself by a view that is out of date |
| the same | `DeletesItsOwn` | `AddNode` fails, a row of id 0 is shown, and deleting it deletes everything |
| `MCFavoriteTree_twice.cfg` | `NodesShown` | a group that exists is shown a second time; moving the rows hides both, one below the other |

## 5. What is proved

Eight modules, `Session_proof`, `SessionLife_proof`, `ServerOperate_proof`,
`SharedThread_proof`, `Tunnel_proof`, `SftpTransfer_proof`, `IceChannel_proof` and
`FavoriteTree_proof`, are checked by tlapm to the last leaf.  They assume only the named assumptions of the
modules (`KindAssumption`: the kinds of session are subsets of `Operate`; for the
server, what `OnStart` may do and how many runs there are; elsewhere that bounds are
numbers), so they hold for any number of sessions, calls, pieces and groups.  Seven
theorems have further hypotheses; without them TLC finds the property violated, in a
configuration of section 4 or in a run with one constant changed:

| theorem | hypothesis | without it |
|---|---|---|
| `PointerValid` | `Silent = {}`: every back end reports the end of its `OnStop` | `session_safety` with `Silent = {t}`: the operate stays in `m_Operates`, as that of a file transfer does, with a pointer to its freed thread |
| `PointerOwned` | `"silent" \notin Outcome`: an `OnStart` that fails says so | `server_runs` with `Outcome <- SftpOutcomes`: `m_pThread` of a checked action dangles, as that of an SFTP server that cannot listen |
| `StreamsInOrder` | `Room >= MaxDown`: the local socket never fills | `MCTunnel_full.cfg` |
| `CopiesComplete` | `"write" \notin Failure`: what is received can be written | `MCSftpTransfer_disk.cfg` |
| | `"short" \notin Failure`: an answer has what was asked for, or the file has ended | `sftp_copy` with `"short"` in `Failure` and `Stored` of `d` larger than its `Size` |
| | `"beginWrite" \notin Failure`, or no upload is larger than it was listed | `MCSftpTransfer_request.cfg` with `Stored` larger than `Size` and `FinishIsComplete` |
| `PipeRefined` | no write is longer than a chunk | `MCIceChannel_chunk.cfg` |
| `AcyclicCorrect`, `KeysShown` | `ReadsFail = FALSE`: only statements that write fail | `MCFavoriteTree_faults.cfg` |

### Sessions

* `TypeCorrect`: `Spec => []TypeOK`.
* `OwnerAlive` and `FinishedLast`: `BackendOwnerAlive` and `FinishedIsLast` of
  `Session`.  Neither is inductive: that the operate of a running thread lives
  depends on there being no `Finished` of it in the queue, which depends on the
  thread not having reached the end of `Stop`, and so on for its `Delete`, its
  dialogs and the sessions still being configured.  `Inductive` proves the
  conjunction of these facts (`IInv`) for every action; the two theorems follow from it.
* `DialogsAnswered` and `PointerValid`: `DialogOwnerAlive` and `ThreadPointerValid`.
  `WholeInductive` proves, on top of `IInv`: a thread waits for one dialog at most,
  asked for in the queue or open (`AskedOnce`), so the answer of a dialog lets nobody
  else go on; the end of a thread whose session is not forgotten is in the queue
  (`EndHeard`); the events that delete a thread are behind it (`FreeAfter`), so a thread
  is not freed before its session is forgotten (`FreedForgotten`).  A step of the main
  thread is first reduced to what it may do to the queue, the threads and the dialogs
  (`MainMoves`), and the invariant is shown for any such move.
* `LifeImplemented`: `Session` implements `SessionLife`.  Every action maps to one
  change of one session or to a stutter (`LifeMove`, `MainMaps`); that the abstract guards
  hold, a session shown or discarded only when it may be, is the invariant again.

### Servers, shared threads

* `ServerTypeCorrect` and `ActionInControl`: `TypeOK` and `ActionControlsServer` of
  `ServerOperate`.
* `PointerOwned`: its `ThreadPointerValid`.  The run that `m_pThread` stands for is
  *held* (`PointerSound`): either it has not failed, and none of the events that end it
  is posted, or an error is in the queue before all of them, and delivering any error
  forgets the run.
* `SharedSafe`: `TypeOK`, `BackendOwnerAlive`, `NoStrangerStopped` and `FinishedOnce` of
  `SharedThread`.  The invariant says that living operates are apart (`Apart`), that a
  request and a back end carry the address of their operate (`RequestSound`,
  `BackendSound`), that a session whose end is queued is not served any more
  (`EndSound`), and that a request to delete finds its own back end among those there
  are and those requested before it (`DeleteSound`): the queue is served in order, so
  the address is given again only after the request was served or is behind it.

### Tunnel

* `TunnelTyped`: `Spec => []TypeOK`.
* `StreamsInOrder`: `InOrder` and `EofAfterData`.  The invariant `Flow` numbers what each
  queue holds: the client has the first pieces, the socket the next ones, the channel
  the rest, up to what was sent (`FlowDown`, `FlowUp`), until the client closes or the
  tunnel is closed.  That a client that was closed is never connected again needs
  `Once`: the back end is told once that the tunnel listens, before all else.

### File transfers

* `TransferSound`: `TypeOK`, and two facts that it and the rest need.  `Counting`: what a
  reader has received and has under way is no more than the file has and `Concurrent`
  allows, and was asked for; a reader that closes has received it all.  `Single`: a
  transfer has one start posted or one reader, not both, and is shown at work then.
* `WorkShown`: `WorkIsShown` and the action property `FinishIsFinal`.  Both are read off
  `Single`: the steps that take a transfer out of the working states are those of its
  only reader, and a stop or an error that comes late finds no reader.
* `CopiesComplete`: `FinishIsComplete`, under the hypotheses above.  The invariant `Copied`
  says of each reader of which no part was skipped (`Unskipped`) that the target holds the
  file from its beginning up to what was received, and that what is under way comes next
  (`InLine`) or is all behind the end of the source (`Exhausted`).  A reader that closes has
  received `Size` requests, by `Counting`; one that has skipped a part of a file that is no
  longer than it was listed never gets there.  An answer moves requests from the second
  part to the first (`ReadFacts`), and asking for more adds the next ones (`AskFacts`).

  `Counting`, `Single` and `Copied` were checked by TLC on the instance of `sftp_copy`,
  and with requests that cannot be made, before they were proved.

### ICE channel

* `OwnPeerCorrect`: `TypeOK` and `OwnPeer` of `IceChannel`.  What is under way must be
  known: a signal in a queue was sent by an end that has its name (`Named`,
  `PostedFacts`), a name has at most one call (`Unique`, while no process has restarted,
  because every name given is below the counter of its user), and an end of a call has
  the name of its peer.
* `PipeRefined`: `IceChannel` implements `IcePipe`, if no write is longer than a chunk.
  The pieces read, unread and under way are together the pieces written, in order
  (`InLine`), and every step of the channel is a step of the pipe or a stutter.

### Favorites

* `AcyclicCorrect`: `Acyclic` of `FavoriteTree`.  It needs `Given`, that no table, row or
  `m_Folders` holds an id not yet given, for then a new group is nobody's parent.
  A set of groups closed under parents that contains the group moved
  would, without that group and all below it, be closed before the move.
* `KeysShown`: `KeyHasLeaf`, whatever statement that writes fails, from the ids of leaves
  and keys being given in order.
* `OthersKept`: the action property `KeepsOthers`, whatever statement fails: `Drop` takes
  only keys all of whose leaves are in the set deleted, and every way a deletion can stop,
  or go on without what a failing read has hidden, drops for a part of that set.
* `TreeTyped`: `TypeOK` and `FolderNodesLive`, whatever statement fails.  The pointers stay
  good because the rows and `m_Folders` are cleared together: the invariant says that an
  entry is a row that is there, a group, and shows the id it is filed under.

### Only model-checked

`FailureUnchecks` and all other liveness, because properties under fairness and `ENABLED` are out of the prover's reach, as is
induction over data for recursive definitions.

## 6. What is not modelled

The components with status `not_modelled` in `PROJECT.json`, each with its reason.
Inside the modelled ones: painting, menus, tool bars, settings and their files,
what a protocol says on the wire, translations and logging.  Qt, libssh, FreeRDP,
libVNC, libdatachannel, QXmpp, SQLite and the other libraries are modelled from how the
code uses them.  Of the tunnel: errors of the network in `recv`, `send` and `accept` as
outcomes of their own: they leave the loop of `run` with an error, as the EOF does, and are
reported in the same way.  Of the transfers: bytes (the unit is one request, so an answer
is in full, short or empty, and what a short one has is not kept), and the lists of
directories.  Of the ICE channel: the dialogs and parameters of the signal server.
Of the favorites: copying by drag (marked "not test" in the code), export, icons,
the contents of files, reads of the view that fail (`fetchMore`, `GetFavorite` and the
search before `slotAddToFavorite` change no table; they would show less than there is, or
have a file added to a second group, as an import does), and a second program at the same
remote database, whose moves could come between `InSubNode` and the update of
`MoveNode`.
