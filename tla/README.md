# Verification of Small_Program

The repository holds two programs:

- **data_sharing** ("cross share"): computers and phones of a local network (or behind a relay server)
  share one clipboard. Text that is copied on one node appears on the others; a copied file or image is
  announced and fetched when the user pastes it; a file may also be dropped on one chosen peer. A Go client
  (`client/`) runs on every node; a C++ DLL (`clipboard/`) and a Qt window
  (`windows/CrossShareWindowsClient/`) belong to it on Windows, an Android app (`clipboard_java/`) on phones;
  `server/` is the relay server.
- **http_multi_download**: a C++ command line downloader that cuts a file into ranges of 10 MB and fetches
  them with a pool of threads.

This directory models them in TLA+, checks the models with TLC and proves their main invariants with TLAPS.
Paths below are relative to the repository.

## 1. Inventory

| component | state it keeps | operations | hard behaviour | what makes it correct |
|---|---|---|---|---|
| P2P transfer: `data_sharing/client/p2p/p2p.go`, `clipboard/`, `filedrop/`, `platform/windows_cgo.go` | one global `Handler` (state of the one transfer, mutex, source, copied path and size, destination file), `CBData` (what each peer is known to have) | P2PRead, P2PWrite, three watchers per connection; copy, paste and drop callbacks | all connections share one Handler; half of the accesses bypass the mutex; polls every 100 ms; JSON messages and file data on one stream; connections break, and new ones are set up beside old ones | one transfer at a time; file data is read by the receive loop and by nobody else; a paste or drop is not lost; a drop reaches the chosen peer only |
| Connection setup: `client/connection` | RTT table, CBData | hole-punching handshake, simultaneous open with retries | two sides retry on their own schedule | both ends agree on whether they are connected |
| Discovery: `client/mdns`, `client/utils` | MdnsClientList, GuestList, IsFileDropMap | peer found, peer lost | callbacks on several goroutines | the list is the set of live peers |
| Relay: `server/relayServer.go`, `client/relay` | HostPool | register, reply with the guests | one goroutine per stream, no lock, endless retries | no registration is lost |
| Clipboard DLL, one paste: `clipboard/MSPaste/MSStream.cpp`, `MSImgHandler.cpp` | buffer, progress, position and flags shared by two threads | Read or GetImg; WriteFile, Cancel | a spinning reader and a writer with different mutexes; DWORD sums; cancellation | the pasted bytes are those received; the paste ends |
| Clipboard DLL, objects: `clipboard/clipboard.cpp`, `MSPaste/MSPasteImpl.cpp`, `MSDataObject.cpp`, `MSProgressBar.cpp`, `MSFileDrop.cpp` | the current offer and paste, progress windows, the flag that hides the DLL's own offers | SetupDstPasteFile/Image, GetData, DataTransfer, EventHandle; the monitor's window procedure | five kinds of threads and hardly a lock; objects replaced while others use them; joins of window threads | a paste ends and its window closes; local copies are reported |
| Qt client, messages: `windows_clipboard/common`, `test-server` | one receive buffer per program, list of clients, progress timer | write, read and parse messages; connect, reconnect; report progress | messages cut by reads; nested event loops; either program restarts | every message arrives once, whole and in order; a transfer is reported to its end |
| Qt client, window: `windows_clipboard/src` | list of clients, widgets, open dialogs | messages, buttons, dialogs, a refresh timer | dialogs run event loops inside handlers; the connection changes meanwhile | the window shows the list; buttons come back |
| Android app: `clipboard_java`, `client/platform/android.go` | UI state | UI callbacks | - | not modelled |
| Thread pool: `http_multi_download/src/ThreadPool.cpp`, `common/kdeque.hpp` | queue, two flags, threads | AddTask, Start, Stop, Join, ThreadFunc, destructor | Stop races with Take; drain loops; joins inside Start | every task is deleted once and, without a failure, run; the program ends |
| Download tasks: `src/DownLoadFactory.cpp`, `src/CurlHttpTask.cpp` | ranges, one shared `FILE`, `m_startPos` per task | MakeTask, Run, write_data | concurrent fseek/fwrite; servers that ignore Range; int arithmetic; swallowed errors | the ranges tile the file; success means a complete copy |

Interaction in data_sharing: the DLL and the window call the Go client's exported callbacks; the client's
goroutines share `Handler` and `CBData`; nodes exchange JSON messages (`TEXT_TRAN`, `FILE_REQ`, `FILE_REQ_ACK`,
`FILE_DROP_INITIATE`, `FILE_TRAN_CANCEL_SRC`) and raw data on one stream per peer. In http_multi_download
`main` fills the pool's queue through `MakeTask`, starts and joins the threads, and the threads run the tasks.
The Qt client and its server exchange six kinds of binary messages over a named pipe; its window is changed by the
messages the parser dispatches.

The hazards found while reading, each at its line, with the property that covers it or the reason why none
does, are in `PROJECT.json` under "hazards".

## 2. Plan

The plan took the components by what they decide, and is done:

1. `P2PTransfer`, the core, with its mutex invariants and types proved.
2. `ThreadPool`, and `TaskLife`, the abstract specification it is proved to implement.
3. `Download`, with the tiling of the file proved.
4. `PasteStream`, one paste load by load, with its safety proved; `PasteDll`, the objects and threads around it.
5. `ByteBuffer` (operators, lemmas proved), `PipeMessages` on top of it, and `PipeLink`, which composes them into
   the client, the server and the pipe between them, its safety proved; `ClientWindow`, what the messages do to the
   window, proved.

```
TaskLife <- ThreadPool <- ThreadPoolProofs                          Download <- DownloadProofs
P2PTransfer <- P2PTransferProofs                                    ClientWindow <- ClientWindowProofs
ByteBuffer <- ByteBufferProofs                                      PasteStream <- PasteStreamProofs
ByteBuffer <- PipeMessages <- PipeLink <- PipeLinkProofs            PasteDll <- PasteDllProofs
```

Each specification has a module `MC...` with its small instances. `PipeLinkProofs` also extends
`ByteBufferProofs`. What could come next: images in `P2PTransfer`.

## 3. Modules

### P2PTransfer

A link `<<n, m, c>>` is node n's end of its connection c to m. Two nodes may have several connections at a time:
BuildMdnsTalker opens one more whenever discovery reports the peer, and MdnsHandleStream takes it, while the goroutines
of older ones, broken or not, go on and share Handler with the new (`Connect`, `MdnsHandleStream`). `Conns` bounds how
many are alive at once; a number is free again when all four goroutines of both ends are gone. Handler's fields are functions of the node
(`state`, `locked`, `srcIP`, `appoint`, `copyFile`, `copySize`, `dst`), a connection's goroutines are functions
of the link: the reader P2PRead (`rpc`, `rmsg`), the writer P2PWrite (`wpc`), the watcher of the state (`cur`,
`pend`), of the file (`last`, `fileHeld`) and of the text (`textPend`, `textHeld`). The unbuffered channels to the
writer are the flags `pend`, `fileHeld`, `textHeld`: the watcher is blocked while one is set. `chan` is the byte
stream from n to m on c as a sequence of messages and data chunks. `cb` (CBData) and `dropFlag` (IsFileDropMap) are kept
by address in the code, so they belong to the pair `<<n, m>>`, whatever its connections. `taken` and `acked` are history:
the links whose reader took a FILE_REQ_ACK off the stream while no receive loop ran there, none having ended since, and
those of them whose reader then set PROCESSING_TRAN_ING_ACK. No action reads them.

| code | actions |
|---|---|
| clipboardCopyFileCallback (path, then size) | UserCopyFile, StoreCopySize |
| WatchClipboardText and ResetClipboard | UserCopyText, ResetForText, AnnounceText |
| clipboardPasteFileCallback | UserPaste |
| fileDropRequestCallback, SendFileDropCmd | UserDrop, FileDropRequest, FileDropRequestEnds |
| fileDropResponseCallback | FileDropResponse |
| P2PRead, ReadFromSocket | PollState, ReadFromSocket, ReadFails |
| HandleDataTransferRead | CheckSource, AcceptFileReq, AcceptDropInitiate, AcceptAck, NotATransfer |
| HandleSrcDataTransfer | OpenSrcFile, NothingToServe, SendChunk, FinishServe, FailServe |
| HandleDataPasteToCBProcess | HandleDataPasteToCB |
| WatchP2PFileTransferState, WatchClipboardFiles | WatchState, PollFile |
| HandleDataCopyProcess | AnnounceFile, AnnounceText (helper Announce) |
| HandleDataTransferWrite | CheckTarget, SendFileReq, SendDropInitiate, NothingToWrite, StartReceive, ReceiveData, ReceiveCancel, FinishReceive |
| BuildMdnsTalker and ExecuteDirectConnect; MdnsHandleStream | Connect; MdnsHandleStream (helper Start) |
| a broken stream | Disconnect (external) |

A critical section of CtxMutex that blocks, or whose middle is seen by a goroutine that does not take the mutex,
is several steps with `locked` set; any other is one step.

Abstractions: formats FILE and TEXT only, one text value; a Read may return several items at once but never half
of a message; time is abstracted away (polls and sleeps may take any time); the stream is unbounded; a node is
its IP address, which does not change; a new connection resets the drop flag or does not, as MdnsClientList, which
decides it, is not modelled; HandleDataCopyProcess is one step; the asynchronous `go GoSetupDst...` calls are part of the
step that starts them, and the text that the platform sets is seen by the text watcher as any other. The panic in
`LostMdnsClientList` (utils.go:217) is not modelled: it needs a peer that is lost while another stays, so it cannot
happen with two nodes, and with more the process ends there.

`ReceivedPrefix` is promised to a receive loop on a connection whose own reader acknowledged (`acked`). Another loop has
no such beginning, and no document promises it one. Two ways lead there. With three nodes: n3 asks n1 for a file, copies
n2's announcement meanwhile and asks n2; n1's FILE_REQ_ACK has passed the test of SourceIP (p2p.go:65) and waits for the
mutex; accepted now, it is taken for n2's, and n3's reader of n2, which is in Read, takes n2's acknowledgement together
with the first chunks. With two connections between two nodes the same happens when the reader of one accepts the
acknowledgement and the writer of the other runs the loop, or when an acknowledgement that was taken before an earlier
loop ended is accepted for a later paste. The receive loop then starts in the middle of the file.

### ThreadPool

`TaskLife` says what a user of the pool relies on: a task is made, waits, and is then run once or dropped; tasks
leave the queue in the order they were made; at exit none is left. `ThreadPool` has a refinement mapping to it
(`Held`, `StateOf`) and the property `TasksLiveOnce`.

`main` is the program counter of the main thread, `wpc[w]` of thread w; a step is what a thread does under one
lock. `deque`, `dqRunning`, `running`, `threadNum` are the fields of KDeque and ThreadPool; `task[w]` is the task in
the hands of w, `deleted[t]` counts deletions, `late` collects the tasks taken after the pool had been stopped.
A task's Run is one step that succeeds or fails. `m_mutex` and `m_con` are used before they are initialised
(the pool lies on main's stack): `Hang` is the outcome in which that blocks, the other outcome is to go on.
A second pthread_join of a thread returns ESRCH, as the GNU C library does. The thread number is not negative.

### Download

`MakeTask(n)` is the list of ranges for a file of n bytes, with the product of the loop computed in an int
(`Wrap`). A cell of the local file records which byte was written there and by which task. Under `m_mutex`, the seek
(LockAndSeek) and the write with the update of m_startPos (WriteRanged) are two steps, so that what the mutex
protects can be seen; an unranged task appends (WriteWhole). The server is external: it honours Range, or
ignores it and sends the whole file. curl may fail at any time (RunFails), and ends with error 23 when
write_data takes less than it got, which Run counts as success (AfterWrite). On a disk that may fill up, fwrite may take
less than it is given (`full` remembers it). Not modelled: a file that cannot be
opened, buffered data that fails at fclose, what a server answers to a range whose bounds have wrapped. The
pool is abstracted to "tasks start in order, so many at a time"; that Stop removes queued tasks after a failure
only removes behaviours.

### PasteStream

One paste. A step is one load or store of what the two sides share, in source order; `kind` tells a file (MSStream) from
an image (MSImgHandler), whose loop tests `mCancel` and clears the flag in the other order.

| code | actions |
|---|---|
| HandleDataTransferWrite, the receive loop | Receive, ReceiveEnds |
| WriteFile: test, memcpy, count, flag | WriteRefused, WriteCopies, WriteCounts, WriteFlags |
| Cancel | Cancel, CancelFlags |
| Read, Check: entry, busy loop, clear, test, the three loads of mProgressSize | Begin, Woken, Clear, Test, Copy, Count, Advance |

`mProgressSize` and `mPosition` are DWORDs: the count wraps (`DWordMod`), and so does the test before it, so that near
4 GB a chunk is written, the count starts again from 0 and the reader goes on from there. What a property says only
away from this has the premise `FarFrom4GB`: no sum of the size and a chunk comes to 2^32.

Bytes are named by their place in the source; a byte reported without having been copied is `Junk`. The program is
built without optimisation, so the plain variables are loaded and stored as written. The pasting program passes a
buffer large enough for what Read copies.

### PasteDll

Offers and pastes are numbered; `thread[o]` is where the goroutine that published offer o is, `cur[o]` and `bar[o]` its
current stream or image and its progress window, `window[b]` and `posted[b]` a window's thread and its messages, `go` the
client's goroutine that fetches data, `monitor` and `updates` the clipboard monitor. A write and the read that takes it
are one step each, as PasteStream has their interleaving.

| code | actions |
|---|---|
| GoSetupDstPasteFile/Image, SetupDstPasteFile/Image, InitOle, SetOleClipboard | Offer, Replace, DeleteOld, OfferFails, Mark, Publish, Unmark, LoopEnds |
| GetData, GetFileData, GetDibData, ReleaseObj, WaitSetupReady, StartDownload | UserPastes, Join, Create, WaitSetupReady, StartDownload, ImageEnds |
| Read, OnStreamEOF | ReadBegins, ReadReturns, ReadEnds |
| MSProgressBar::Init, WndProgressProc | WindowMade, WindowCloses, WindowWarns, UserConfirms |
| DataTransfer, UpdateProgressBar, EventHandle, called by the client | GoStarts, GoWrites, GoEnds, GoCancels |
| MSFileDrop::SetupDialog, DeinitProgressBar | DropAccepted, DropBarMade, DropBarEnds |
| ClipboardMonitorThread, WndProc | MonitorStarts, MonitorTests, MonitorLooks, MonitorMisses; UserCopies (external) |

What fails quietly in the code fails here: an image without data or an OLE that cannot be initialised leaves msPasteImpl
without a data object (OfferFails, the thread is `"failed"`); a clipboard that cannot be opened, or does not give its data,
leaves a local copy unreported (MonitorMisses); a Cancel of an image that falls between the test and the clearing of the
flag is lost, and GetImg goes on waiting (`deaf`). When a new offer deletes the old data object and that was the last
reference, the goroutine of the new offer releases the stream and joins the old window's thread (DeleteOld).

`crashed` is the use of a NULL data object; `crossed` tells that an offer, paste or drop began before the last one had
ended, `exposed` collects the local copies that met an offer on its way or that the monitor could not get. They are
history: no action reads them but `crashed`, which stops the program.

### ByteBuffer, PipeMessages, PipeLink

`ByteBuffer` has a buffer as a record (bytes, two indexes) and each method as an operator; growing and moving are
spelled out, with the zeros a grown vector holds. `PipeMessages` has the six structs with toByteArray and
fromByteArray: the order and widths of the fields, the tag, type, code and big-endian length, the test for a complete
content and the length that is retrieved. What fromByteArray reads when a content is shorter than its fields is
modelled by what `peek` returns then. Both are operators, used and checked through `PipeLink`; their recursion (a
number's bytes, a field's offset) is written with recursive functions, so that they can be proved about.

`PipeLink` has the two programs. A pipe is the sequence of writes not yet read, and a read takes some of them, the
last one perhaps in part. `cbuf` and `sbuf` are the buffers, `cparsing` and `sparsing` tell that a parse loop runs,
`dialogs` the handlers of the client that are inside a dialog, `slots` how often the server's slot is connected.

| code | actions |
|---|---|
| ProcessMessage's timer, NamedPipeServer::onNewConnection | Connect, Hello |
| onReadyRead, onRecvServerData and the dispatch in the client | ClientReads, ClientDispatches, ClientParseEnds, DialogEnds |
| onOpenFile, onDisconnected | UserSends, Disconnected |
| onReadyRead, onRecvClientData in the server | ServerReads, ServerDispatches, ServerParseEnds |
| onAddTestClient, on_send_file_clicked, sendProgressData | AddTestClient, SendFile, SendProgressData |
| a program ends and is started again | ClientRestarts, ServerRestarts |

A loop that neither takes a message nor ends has no step: the program spins.

External are Break, ClientRestarts and ServerRestarts: either program may crash or be killed and be started again, which
is not code of the repository (main starts the server once, when the client starts; a normal close of the client ends
the server too). A pipe that ends takes with it what was not read; the client could in reality still read what had been
written before the server ended, which here is a break that comes later. The size a progress message reports is computed
by integer division where the code rounds a double: only its first and last value matter to the properties.

### ClientWindow

The window with the messages in any order. `clientVec` is the list, `shown` the widgets with their buttons and bars,
`loops` the stack of event loops inside handlers: a message's handler (`accept`, `dir`, `box`) blocks the connection
it came over, a button's (`file`) blocks none, only the innermost dialog gets input. A read (Receive) puts messages into
the buffer and starts the parse loop (`parsing`, `buffered`); the loop dispatches one after the other and waits when a
handler opens a dialog. When the dialog closes it goes on with what the buffer holds, also when the connection has ended
meanwhile: then clients are listed that cannot be reached. Each kind of message is an action
(GetConnStatusResponse, UpdateClientStatus, SendFileRequest, UpdateProgress), the others are the user's
(AcceptClicked, Dismissed, DirChosen, OpenFile, FileChosen), the connection's (Connect, Disconnected) and the 50 ms
timer's (Refresh). `crashed`: the widgets are made anew while one of them is the parent of an open file dialog, which
lies on the stack.

## 4. Runs

| run | instance | what it shows |
|---|---|---|
| p2p_transfer | 2 nodes, 2 connections, 1 file of 2 chunks, budgets of up to 3 operations of users and network in 4 combinations, an action constraint; 953,000 states | StateMatchesTransfer, OneTransferAtATime, ReceivedPrefix |
| p2p_paste | 2 nodes, a file of one chunk; a copy and a paste with a drop, a text, a second copy, or a break and a new connection; 1.5 million states | PasteNotLost: the node that pastes may hold a request of its peer, or a dialog |
| p2p_liveness | 2 nodes, a file of one chunk; two drops; a drop, a break and a new connection; a copy and a paste; fair; 57,000 states | DropOffered, PasteRequested |
| p2p_drop_target | 3 nodes, 2 files, 2 drops | **violated**: a pending drop goes to the peer of the next drop |
| thread_pool | 4 tasks, at most 3 threads, thread argument 0, 1, 2, 3, 5, processors 1, 2, 8, fair; 88,000 states | ownership, termination, and the refinement of TaskLife |
| download | ranges of 3 bytes, files of 2, 3, 5, 6, 7 bytes, 3 tasks, chunks of 1 and 2, any server and disk; 179,000 states | tiling, placement, completeness |
| download_large | an int of 5 bits, files of 10 to 20 bytes | **violated**: the ranges of a file beyond INT_MAX do not tile it |
| paste_stream | a DWORD of 3 bits, sizes 0 to 10, chunks of 1 and 2, up to 2 bytes more than announced, fair; 254,000 states | exactness, wake-ups, bounds, both ends of a paste |
| paste_dll | 4 budgets: two pastes of an offer, two local copies around an offer, a drop and a paste, two offers with a paste and a copy; fair; 523,000 states | windows, local copies, and that operations that do not overlap end well |
| pipe | bytes of 4 bits, a buffer of 8 bytes, 7 budgets of offers, sends, restarts and cut reads, fair; 16,000 states | stream and messages intact, no spinning on whole reads, transfers reported |
| pipe_waits | one read is cut | **violated**: the parse loop spins on an incomplete content |
| window | 2 clients, 6 messages, a click, 3 connections; 2.1 million states | the list, the window and the buttons agree |

Bounds. The budgets bound what users and the network do (`Budgets`), all else is unbounded; in P2P they are chosen so
that two operations of the same or of different users overlap in every order. p2p_transfer has a copy and two pastes;
two drops; a copy, a paste and a second connection; and a drop, a break and a new connection. p2p_paste has a copy and a
paste with a drop (the smallest combination in which a node pastes while its reader holds a request), with a text, with a
second copy, and with a break and a new connection. A file has two chunks so that a partial transfer exists, and one in
the runs p2p_paste and p2p_liveness. Goroutines on two connections between the same nodes multiply the states, so the
action constraint `SecondConn` of p2p_transfer keeps the cases that matter and drops the rest: a connection is set up
beside another while a requested file has not been acknowledged, and after the break, if there is one; from then on no
watcher announces the copied file again, and the watchers of a node that sends do not see that it does. The theorems
need none of these bounds. Every mechanism of the transfer is per node or per link and two nodes already have both
directions; the third node only matters where a property speaks of the choice of a peer, and has its run.
For the pool, three threads let one stop,
one hold a late task and one find the queue empty; four tasks are more than threads. For the download, the lengths
are one range, a full range, a rest of two bytes, whole ranges, and a rest of one byte; chunks of two bytes end
inside, at and beyond a range. For the paste, the sizes are nothing, one chunk, several, one whose sum with a chunk
wraps, and with it the count, and one beyond the low part of the size. For the pipe, the buffer is so small that it moves and grows within one
transfer, and one cut read per behaviour reaches every place in a message. For the window, six messages let two clients
come, a dialog nest in a dialog of an earlier connection, a parse loop go on after its connection has ended, and a
transfer end.

Deadlock is not checked: the users' operations are bounded, the downloader models and a paste end, and a spinning
or crashed program takes no step.

Fairness. P2P: goroutines keep running (weak fairness of the reader, of the state watcher and of the writer's select);
Go's mutex has a starvation mode that hands it to each waiter, so the steps that start by taking it are strongly fair.
Users, the network and the answer to a dialog are not fair, which is why DropOffered and PasteRequested say nothing of
a dead link. Pool: weak fairness per thread; task runs end because curl limits each transfer to 300 s. Paste: the
writer's steps inside the DLL and the reader's; nothing makes the network deliver, so the properties start from the
last byte or from Cancel. DLL: each offer's thread, each window's thread and the monitor; neither peers nor the user.
Pipe: the two event loops; nobody has to answer a dialog.

Where a passing property names an exception, the exception is what the code does otherwise: DropOffered and
PasteRequested leave out two windows in which the poll loses a state, SuccessMeansComplete a full disk, PastedExactly
a chunk counted among the loads of one Read and sizes near 4 GB, InBounds and LastByteEndsPaste sizes near 4 GB,
CancelEndsPaste images, CalmNeverCrashes operations that overlap and an offer that could not be set up, CalmPasteEnds
operations that overlap and an image whose reader loses the Cancel, LocalCopyReported copies made while an offer is
published or that the system does not let the monitor have, the properties of the pipe bytes left by an earlier
connection, ReceivedPrefix a loop on a connection whose reader has not acknowledged, ButtonsComeBack a transfer reported
for a client that is not listed and one started with a client that is listed without a connection.
Each of them is in `PROJECT.json` as a hazard at its line.

## 5. Proofs

TLC checks the small instances; these theorems hold for every value of the constants that satisfies the modules'
assumptions (any set of nodes, files or clients, any number of tasks and threads, any sizes).

- `P2PTransferProofs`: `StateMatchesTransfer` and `OneTransferAtATime` together are inductive over the types they
  mention, which `MutexInvariant` states. The state that a section relies on can only be changed by one who holds the
  mutex, and the mutex is held exactly by one section; neither can be proved without the other. Steps are grouped by
  what they do with the mutex (leave it, use it for one step, acquire it, release it), with one lemma per group.
  `TypeCorrect` needs more than TypeOK: serving or storing a drop reads the size of the file in hand, so the
  invariant adds `DroppingHasFile`. `PasteNotLostHolds`: with the mutex invariant, every step out of DEST_INIT is
  the request or a drop. `ReceivedPrefixHolds` is for any nodes and any number of connections between
  them. Its invariant `StreamInv` says of what is on its way on each link what the property says of what has arrived. A
  link expects data (`Expects`) when its reader holds a FILE_REQ_ACK it took (`Holds`) or has acknowledged (`Waits`);
  then what the loop has got, followed by what is on the stream, are the chunks of one file in order, and what the
  source's reader sends next goes on with them (`Good`); a FILE_REQ_ACK on the stream is followed by nothing else
  (`Behind`); and a reader that waits stays at its poll. `SourceMove`, `Still` and `Taking` are the ways a step may
  change a stream at its two ends, each shown once to keep it in step. A step of a node touches one link, and of the
  other links and of the node's own fields only what the mutex lets it (`Footprint`); from this `LinkStepKeeps` carries
  the other links over, and every action is shown to be such a step.
- `ThreadPoolProofs`: `PoolInv` adds to `TypeOK`, `TaskOwnership` and `StoppedIsEmpty` that tasks are pushed in order
  and are nowhere before that, that a thread not yet created is idle, and that a thread about to stop the queue has
  seen it empty. From it follow the types, the ownership of tasks and the emptiness of a stopped queue.
  Every step of the pool is a step of TaskLife or stutters under the refinement mapping. Needed beyond `PoolInv`: the
  queue is sorted (so what is popped is the oldest), no task that was made is lost, and once main has joined the
  threads none of them holds a task; `LifeInv` is inductive. `JoinedMeansDone` needs what main still has to do at
  each of its steps and that a pool only stops early after a failure (`DoneInv`); `FewLateTasks` that every late
  task uses up a thread that had passed its test (`LateRoom`).
- `DownloadProofs`: the ranges MakeTask creates tile the file, whatever its length, as long as the product of the loop
  fits an int. The run download_large shows that this assumption is needed. `WriteInv` keeps each task within its
  range and its position equal to what it has written; `OwnSegmentOnly` and `BytesInPlace` follow for any ranges, also
  where the product wraps, `SuccessMeansComplete` where it does not.
- `PasteStreamProofs`: types with `NoLostWakeup` (when reader and writer differ the flag is or will be up), for a count
  that wraps, and with it, where it cannot, that the reader never passes the writer;
  `InBounds`; and `PasteIsExact`, from an invariant that the buffer is a prefix of the source and what was given to
  the reader a prefix of the buffer.
- `PasteDllProofs`: the types, with the room left for windows (`Room`) and for parts (`Fits`); that a window is
  freed only when its thread has ended or is told to (`Freed`), for `WindowsHaveOwners`; that what the monitor has not
  seen is still to be looked at or was kept from it (`Seen`), for `LocalCopyReported`; and that without overlap the client's goroutine and
  the offer it fetches for agree (`Calm`), for `CalmNeverCrashes`.
- `ByteBufferProofs`: what append and retrieve do to the readable bytes, in each of the cases of makeSpace.
- `ClientWindowProofs`: `WindowInv` is `TypeOK` with `OneEntryPerClient`, `ShownIsListed` and `ButtonsComeBack`. The
  buttons need the others: they come back with the last progress message because the client it is for is among the
  widgets. Nothing is assumed of the connection a message came over: those dispatched after its end are included.
- `PipeLinkProofs`: from the bytes up. The library's induction theorems take an operator as a parameter, which the
  provers cannot instantiate, so induction is over a set, by a least counterexample (`Induction`,
  `SequenceInduction`, from WFMin). With it: what flattening does to sequences of writes; that appendUInt and
  peekUInt undo each other (`NumberReadBack`); that each fromByteArray finds each field of its toByteArray, and the
  message at the front of the data is the one written there (`FirstReadBack`). `TypeInv` gives `TypeCorrect`, also
  for the garbage that a cut read or bytes of an old connection decode to. The other three properties follow from
  `Side`, stated once and used for both directions: what was written is what was dispatched followed by some
  messages, and these, encoded, are the bytes in the buffer and on the pipe (`Follows`); and while no read was cut,
  buffer and pipe each hold whole messages of the kinds the receiver knows, and a program that waits holds none
  (`Whole`). `Side` survives a write, a read, a dispatch, the end of a loop, and a connection or a program that ends or
  begins (one lemma each), and every action is such a move, or none, for each of the two directions.

  The three theorems have the premise `[]LengthsFit`: each message written fits its length field (four bytes in the
  code). It is no bound of the model: a client that decodes garbage sends the name it found back in an answer whose
  content may be longer than a length field can say, when the field is as small as the constants allow, and then
  nobody can read it. It holds in every state of the run pipe (added to its invariants, TLC finds no violation).
  `NameAssumption` says that None is no message and that the few names of the test server are different units.

Only model-checked: all liveness (ClientListed, TransferReported, the ends of a paste, DropOffered, PasteRequested
and the others), which is out of the proof system's reach. Every safety property of a passing run is proved.

## 6. Not modelled

- Images, progress bars and the debug console of the Go client; the macOS and Android platforms.
- The relay server and the hole-punching handshake: the first changes a map from several goroutines without a lock,
  after which Go promises nothing; the second's order of messages depends on measured round trips and on libp2p's
  simultaneous open, which is not in the repository.
- mDNS discovery: when peers come and go is the library's; `P2PTransfer` may open a connection at any time.
- A target file that cannot be opened and an error at fclose in the downloader.
- StopClipboardMonitor (called only when the DLL is unloaded) and the pipe controller, whose source is not in the
  repository.
- In the Qt client, code nothing uses (DeviceListDialog, ProgressBarDialog, WorkerThread, startTestTimer, some methods
  of Buffer) and code that only lays out.
- The Android application, and the vendored JSON library.
