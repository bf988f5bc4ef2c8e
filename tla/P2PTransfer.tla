------------------------------ MODULE P2PTransfer ------------------------------
(***************************************************************************)
(* The clipboard and file transfer protocol of the data_sharing client     *)
(* (client/p2p/p2p.go), between nodes that all keep ONE global Handler     *)
(* (client/common/common.go) and share it among all of their connections.  *)
(*                                                                         *)
(* Two nodes may have several connections: nothing keeps a new stream from *)
(* being set up while the goroutines of an older one are alive.  Node n's  *)
(* end of connection c to peer m is the link <<n, m, c>>.  Four goroutines *)
(* of n work on it:                                                        *)
(*   - P2PRead, the reader, whose control state is rpc[<<n, m, c>>];       *)
(*   - P2PWrite, the writer, whose control state is wpc[<<n, m, c>>];      *)
(*   - WatchP2PFileTransferState, which polls Handler.State, remembers the *)
(*     last value it saw in cur[<<n, m, c>>] and hands a "true" to the     *)
(*     writer through an unbuffered channel (pend[<<n, m, c>>]);           *)
(*   - WatchClipboardFiles, which polls Handler.CopyFilePath, remembers    *)
(*     the last value it saw in last[<<n, m, c>>] and hands it to the      *)
(*     writer likewise (fileHeld[<<n, m, c>>]).                            *)
(* What the code keeps by address, it keeps for all connections to a peer: *)
(* CBData in cb[<<n, m>>], IsFileDropMap in dropFlag[<<n, m>>].            *)
(* CtxMutex is locked[n].  A critical section that blocks (serving a file, *)
(* receiving one, waiting for the user in the file-drop dialog), or whose  *)
(* middle is seen by a goroutine that does not take the mutex, takes       *)
(* several steps with locked[n] = TRUE; any other is a single step.        *)
(*                                                                         *)
(* A byte stream is a sequence of items: JSON messages and data chunks.  A *)
(* Read returns any non-empty prefix of what has arrived, so several items *)
(* may be returned by one Read.                                            *)
(*                                                                         *)
(* Abstractions: only the FILE and TEXT formats; one text; a message is    *)
(* never torn in two by a Read; time is abstracted away (the source's wait *)
(* of RTT + 2 s before it sends data and the 100 ms polls may take any     *)
(* time).                                                                  *)
(***************************************************************************)
EXTENDS Naturals, Sequences

CONSTANTS
  Nodes,      \* the computers and phones
  Files,      \* the files their users copy or drop
  FSize,      \* FSize[f]: number of data chunks of f
  Conns,      \* numbers of connections: a bound on those alive at a time
  DropMapped, \* pairs whose address is a key of Handler.IsFileDropMap
  Droppers,   \* the nodes whose users drop files (all of them, or fewer to bound)
  Budgets,    \* bounds: how often each of UserOps may happen, in total
  None        \* no file, no peer: the empty string of the code

UserOps == {"copy", "text", "paste", "drop", "cut", "connect"}

ASSUME NoneAssumption  == None \notin Nodes /\ None \notin Files
ASSUME FSizeAssumption == FSize \in [Files -> Nat \ {0}]
ASSUME DropMappedAssumption == DropMapped \subseteq Nodes \X Nodes
ASSUME DroppersAssumption == Droppers \subseteq Nodes
ASSUME BudgetsAssumption == Budgets \subseteq [UserOps -> Nat]

VARIABLES
  state,    \* state[n]: Handler.State.State
  locked,   \* locked[n]: Handler.CtxMutex is held over several steps
  srcIP,    \* srcIP[n]: Handler.SourceIP, as a node
  appoint,  \* appoint[n]: Handler.AppointIpAddr, as a node
  copyFile, \* copyFile[n]: Handler.CopyFilePath
  copySize, \* copySize[n]: Handler.CopyDataSize
  dst,      \* dst[n]: DstFilePath and DstFile, see DstStates
  offer,    \* offer[n]: the remote file the system clipboard of n offers
  sizePend, \* sizePend[n]: the file whose size the copy callback is to store
  dropReq,  \* dropReq[n]: the file of a drop callback that has not returned
  dropping, \* dropping[n]: that callback holds CtxMutex
  cb,       \* cb[<<n, m>>]: CBData of m at n: hash and format
  dropFlag, \* dropFlag[<<n, m>>]: IsFileDropMap of m at n
  textPend, \* textPend[<<n, m, c>>]: the text watcher of the link has an event
  textHeld, \* textHeld[<<n, m, c>>]: it waits to hand a text to the writer
  last,     \* last[<<n, m, c>>]: lastContent of WatchClipboardFiles
  fileHeld, \* fileHeld[<<n, m, c>>]: the file it waits to hand to the writer
  cur,      \* cur[<<n, m, c>>]: cur_state of WatchP2PFileTransferState
  pend,     \* pend[<<n, m, c>>]: it waits to hand a "true" to the writer
  rpc,      \* rpc[<<n, m, c>>]: control state of the reader
  rmsg,     \* rmsg[<<n, m, c>>]: the message the reader holds
  wpc,      \* wpc[<<n, m, c>>]: control state of the writer
  serve,    \* serve[n]: the file n is sending and the chunks sent
  recv,     \* recv[n]: what the receive loop of n expects and has written
  taken,    \* links whose reader took a FILE_REQ_ACK last, with no loop since
  acked,    \* those of them whose reader then set PROCESSING_TRAN_ING_ACK
  up,       \* the links whose stream is alive
  chan,     \* chan[<<n, m, c>>]: the stream of items from n to m
  budget,   \* budget[k]: user operations left (bounds the model)
  history   \* the drops users asked for

handlerVars == <<state, locked, srcIP, appoint, copyFile, copySize, dst>>
callVars    == <<sizePend, dropReq, dropping>>
askVars     == <<budget, history>>
userVars    == <<offer, callVars, askVars>>
textVars    == <<textPend, textHeld>>
fileVars    == <<dropFlag, last, fileHeld>>
stateVars   == <<cur, pend>>
watchVars   == <<textVars, fileVars, stateVars>>
recvVars    == <<recv, taken, acked>>
threadVars  == <<rpc, rmsg, wpc, serve, recvVars>>
netVars     == <<up, chan>>
vars == <<handlerVars, userVars, cb, watchVars, threadVars, netVars>>

Pairs    == {p \in Nodes \X Nodes : p[1] # p[2]}
Links    == {l \in Nodes \X Nodes \X Conns : l[1] # l[2]}
Peers(n) == Nodes \ {n}

(* P2PFileTransferStateEnum *)
States == {"UNINIT", "FILE_DROP_INIT", "SRC_INIT", "DEST_INIT",
           "PROCESSING_TRAN_ING", "PROCESSING_TRAN_ING_ACK"}
(* P2PFileTransferInbandEnum, of the messages the code sends *)
InbandCmds == {"FILE_DROP_INITIATE", "FILE_REQ", "FILE_REQ_ACK",
               "FILE_TRAN_CANCEL_SRC", "TEXT_TRAN"}
Fmts   == {"FILE", "TEXT", ""}
(* CreateMD5Hash of a file's path (copy) or base name (drop), of the text, *)
(* and the empty string                                                    *)
Hashes == ({"copy", "drop"} \X Files) \cup {<<"text", None>>, <<"", None>>}
NoHash == <<"", None>>
(* no path / DstFilePath set / DstFile open                                *)
DstStates == {"none", "path", "open"}

(* An item of a stream: a P2PMessage, or a chunk of file data.  "n" is the *)
(* announced size of a message and the index of a chunk.                   *)
Items == [cmd : InbandCmds \cup {"DATA"}, fmt : Fmts, hash : Hashes,
          file : Files \cup {None}, n : Nat]
Message(cmd, fmt, hash, file, size) ==
  [cmd |-> cmd, fmt |-> fmt, hash |-> hash, file |-> file, n |-> size]
Plain(cmd, fmt) == Message(cmd, fmt, NoHash, None, 0)
Chunk(f, i) ==
  [cmd |-> "DATA", fmt |-> "", hash |-> NoHash, file |-> f, n |-> i]

ReaderStates == {"poll", "read", "guard", "lock", "paste", "wait",
                 "serve", "dialog", "dead"}
WriterStates == {"idle", "lock", "recv", "dead"}

TypeOK ==
  /\ state \in [Nodes -> States]
  /\ locked \in [Nodes -> BOOLEAN]
  /\ srcIP \in [Nodes -> Nodes \cup {None}]
  /\ appoint \in [Nodes -> Nodes \cup {None}]
  /\ copyFile \in [Nodes -> Files \cup {None}]
  /\ copySize \in [Nodes -> Nat]
  /\ dst \in [Nodes -> DstStates]
  /\ offer \in [Nodes -> Files \cup {None}]
  /\ sizePend \in [Nodes -> Files \cup {None}]
  /\ dropReq \in [Nodes -> Files \cup {None}]
  /\ dropping \in [Nodes -> BOOLEAN]
  /\ cb \in [Pairs -> [hash : Hashes, fmt : Fmts]]
  /\ dropFlag \in [Pairs -> BOOLEAN]
  /\ textPend \in [Links -> BOOLEAN]
  /\ textHeld \in [Links -> BOOLEAN]
  /\ last \in [Links -> Files \cup {None}]
  /\ fileHeld \in [Links -> Files \cup {None}]
  /\ cur \in [Links -> States]
  /\ pend \in [Links -> BOOLEAN]
  /\ rpc \in [Links -> ReaderStates]
  /\ rmsg \in [Links -> Items]
  /\ wpc \in [Links -> WriterStates]
  /\ serve \in [Nodes -> [file : Files \cup {None}, sent : Nat]]
  /\ recv \in [Nodes -> [size : Nat, fmt : Fmts, got : Seq(Items)]]
  /\ taken \subseteq Links
  /\ acked \subseteq Links
  /\ up \subseteq Links
  /\ chan \in [Links -> Seq(Items)]
  /\ budget \in [UserOps -> Nat]
  /\ history \subseteq [node : Nodes, file : Files, peer : Nodes]

Init ==
  /\ state = [n \in Nodes |-> "UNINIT"]
  /\ locked = [n \in Nodes |-> FALSE]
  /\ srcIP = [n \in Nodes |-> None]
  /\ appoint = [n \in Nodes |-> None]
  /\ copyFile = [n \in Nodes |-> None]
  /\ copySize = [n \in Nodes |-> 0]
  /\ dst = [n \in Nodes |-> "none"]
  /\ offer = [n \in Nodes |-> None]
  /\ sizePend = [n \in Nodes |-> None]
  /\ dropReq = [n \in Nodes |-> None]
  /\ dropping = [n \in Nodes |-> FALSE]
  /\ cb = [p \in Pairs |-> [hash |-> NoHash, fmt |-> "TEXT"]]
  /\ dropFlag = [p \in Pairs |-> FALSE]
  /\ textPend = [l \in Links |-> FALSE]
  /\ textHeld = [l \in Links |-> FALSE]
  /\ last = [l \in Links |-> None]
  /\ fileHeld = [l \in Links |-> None]
  /\ cur = [l \in Links |-> "UNINIT"]
  /\ pend = [l \in Links |-> FALSE]
  /\ rmsg = [l \in Links |-> Plain("TEXT_TRAN", "TEXT")]
  /\ serve = [n \in Nodes |-> [file |-> None, sent |-> 0]]
  /\ recv = [n \in Nodes |-> [size |-> 0, fmt |-> "", got |-> <<>>]]
  /\ taken = {}
  /\ acked = {}
  /\ \E c \in Conns :
       /\ up = {l \in Links : l[3] = c}
       /\ rpc = [l \in Links |-> IF l \in up THEN "poll" ELSE "dead"]
       /\ wpc = [l \in Links |-> IF l \in up THEN "idle" ELSE "dead"]
  /\ chan = [l \in Links |-> <<>>]
  /\ budget \in Budgets
  /\ history = {}

-----------------------------------------------------------------------------
(* Helpers *)

(* WriteToSocket: the callers ignore its error, so a write to a dead       *)
(* stream is lost without a trace.                                         *)
Send(n, m, c, item) ==
  chan' = IF <<n, m, c>> \in up
          THEN [chan EXCEPT ![<<n, m, c>>] = Append(@, item)] ELSE chan

Use(k) == budget[k] > 0 /\ budget' = [budget EXCEPT ![k] = @ - 1]

(* every connected node's clipboard record at n := data                    *)
StoreAll(n, data) == [p \in Pairs |-> IF p[1] = n THEN data ELSE cb[p]]

(* n has a new local text: each text watcher of n gets an event            *)
TextEvent(n) == [l \in Links |-> IF l[1] = n THEN wpc[l] # "dead" ELSE textPend[l]]

-----------------------------------------------------------------------------
(* The user and the platform callbacks *)

(* clipboardCopyFileCallback: the path, then the size, without the mutex.  *)
UserCopyFile(n, f) ==
  /\ Use("copy")
  /\ sizePend[n] = None
  /\ copyFile' = [copyFile EXCEPT ![n] = f]
  /\ sizePend' = [sizePend EXCEPT ![n] = f]
  /\ offer' = [offer EXCEPT ![n] = None]
  /\ UNCHANGED <<state, locked, srcIP, appoint, copySize, dst, dropReq, dropping,
                 history, cb, watchVars, threadVars, netVars>>

StoreCopySize(n) ==
  /\ sizePend[n] # None
  /\ copySize' = [copySize EXCEPT ![n] = FSize[sizePend[n]]]
  /\ sizePend' = [sizePend EXCEPT ![n] = None]
  /\ UNCHANGED <<state, locked, srcIP, appoint, copyFile, dst, offer, dropReq,
                 dropping, askVars, cb, watchVars, threadVars, netVars>>

(* A local copy of text: every text watcher of n sees it.                  *)
UserCopyText(n) ==
  /\ Use("text")
  /\ textPend' = TextEvent(n)
  /\ offer' = [offer EXCEPT ![n] = None]
  /\ UNCHANGED <<handlerVars, callVars, history, cb, textHeld, fileVars, stateVars,
                 threadVars, netVars>>

(* Mutant: the paste callback does not take the mutex.                     *)
UserPasteUnlocked(n) ==
  /\ Use("paste")
  /\ offer[n] # None
  /\ state' = [state EXCEPT ![n] = "DEST_INIT"]
  /\ UNCHANGED <<locked, srcIP, appoint, copyFile, copySize, dst, offer,
                 callVars, history, cb, watchVars, threadVars, netVars>>

(* clipboardPasteFileCallback: the user pastes the file a peer offers.     *)
UserPaste(n) ==
  /\ Use("paste")
  /\ offer[n] # None
  /\ ~locked[n]
  /\ state' = [state EXCEPT ![n] = "DEST_INIT"]
  /\ UNCHANGED <<locked, srcIP, appoint, copyFile, copySize, dst, offer,
                 callVars, history, cb, watchVars, threadVars, netVars>>

(* fileDropRequestCallback, up to the mutex of SendFileDropCmd: the peer   *)
(* the user chose is stored before the mutex is taken.                     *)
UserDrop(n, m, f) ==
  /\ Use("drop") /\ n \in Droppers
  /\ dropReq[n] = None
  /\ appoint' = [appoint EXCEPT ![n] = m]
  /\ dropReq' = [dropReq EXCEPT ![n] = f]
  /\ history' = history \cup {[node |-> n, file |-> f, peer |-> m]}
  /\ UNCHANGED <<state, locked, srcIP, copyFile, copySize, dst, offer, sizePend,
                 dropping, cb, watchVars, threadVars, netVars>>

(* SendFileDropCmd(FILE_DROP_REQUEST): ChangeIsFileDrop and the state come *)
(* first, so that the watchers may see them before the rest.               *)
FileDropRequest(n) ==
  /\ dropReq[n] # None /\ ~dropping[n]
  /\ ~locked[n]
  /\ locked' = [locked EXCEPT ![n] = TRUE]
  /\ dropping' = [dropping EXCEPT ![n] = TRUE]
  /\ dropFlag' = [p \in Pairs |->
                    IF p[1] = n THEN p \in DropMapped ELSE dropFlag[p]]
  /\ state' = [state EXCEPT ![n] = "FILE_DROP_INIT"]
  /\ UNCHANGED <<srcIP, appoint, copyFile, copySize, dst, offer, sizePend, dropReq,
                 askVars, cb, textVars, last, fileHeld, stateVars, threadVars, netVars>>

FileDropRequestEnds(n) ==
  /\ dropping[n]
  /\ copySize' = [copySize EXCEPT ![n] = FSize[dropReq[n]]]
  /\ copyFile' = [copyFile EXCEPT ![n] = dropReq[n]]
  /\ srcIP' = [srcIP EXCEPT ![n] = n]
  /\ dropReq' = [dropReq EXCEPT ![n] = None]
  /\ dropping' = [dropping EXCEPT ![n] = FALSE]
  /\ locked' = [locked EXCEPT ![n] = FALSE]
  /\ UNCHANGED <<state, appoint, dst, offer, sizePend, askVars, cb, watchVars,
                 threadVars, netVars>>

(* fileDropResponseCallback, called back from GoSetupFileDrop while the    *)
(* reader still holds the mutex, and the rest of the reader's handler.     *)
FileDropResponse(n, m, c, accept) ==
  /\ rpc[<<n, m, c>>] = "dialog"
  /\ state' = IF accept THEN [state EXCEPT ![n] = "DEST_INIT"] ELSE state
  /\ dst' = IF accept THEN [dst EXCEPT ![n] = IF @ = "none" THEN "path" ELSE @]
            ELSE dst
  /\ cb' = StoreAll(n, [hash |-> rmsg[<<n, m, c>>].hash, fmt |-> rmsg[<<n, m, c>>].fmt])
  /\ locked' = [locked EXCEPT ![n] = FALSE]
  /\ rpc' = [rpc EXCEPT ![<<n, m, c>>] = "poll"]
  /\ UNCHANGED <<srcIP, appoint, copyFile, copySize, userVars, watchVars, rmsg,
                 wpc, serve, recvVars, netVars>>

-----------------------------------------------------------------------------
(* The network (external): a stream between n and m breaks.                *)
Disconnect(n, m, c) ==
  /\ Use("cut")
  /\ <<n, m, c>> \in up
  /\ up' = up \ {<<n, m, c>>, <<m, n, c>>}
  /\ chan' = [chan EXCEPT ![<<n, m, c>>] = <<>>, ![<<m, n, c>>] = <<>>]
  /\ UNCHANGED <<handlerVars, offer, callVars, history, cb, watchVars, threadVars>>

(* The text of ExecuteDirectConnect and of MdnsHandleStream: the clipboard *)
(* record of the peer is made anew, and a reader and a writer are started. *)
(* The drop flag is reset when the peer is not in MdnsClientList, which is *)
(* not modelled.                                                           *)
Start(n, m, c) ==
  /\ cb' = [cb EXCEPT ![<<n, m>>] = [hash |-> NoHash, fmt |-> "TEXT"]]
  /\ \E listed \in BOOLEAN :
       dropFlag' = IF listed THEN dropFlag ELSE [dropFlag EXCEPT ![<<n, m>>] = FALSE]
  /\ rpc' = [rpc EXCEPT ![<<n, m, c>>] = "poll"]
  /\ wpc' = [wpc EXCEPT ![<<n, m, c>>] = "idle"]
  /\ textPend' = [textPend EXCEPT ![<<n, m, c>>] = FALSE]
  /\ textHeld' = [textHeld EXCEPT ![<<n, m, c>>] = FALSE]
  /\ last' = [last EXCEPT ![<<n, m, c>>] = None]
  /\ fileHeld' = [fileHeld EXCEPT ![<<n, m, c>>] = None]
  /\ cur' = [cur EXCEPT ![<<n, m, c>>] = state[n]]
  /\ pend' = [pend EXCEPT ![<<n, m, c>>] = FALSE]
  /\ UNCHANGED <<handlerVars, offer, callVars, history, rmsg, serve, recvVars, chan>>

(* No goroutine uses c between the two nodes: the number is free.          *)
Free(n, m, c) ==
  \A l \in {<<n, m, c>>, <<m, n, c>>} :
    l \notin up /\ rpc[l] = "dead" /\ wpc[l] = "dead"

(* BuildMdnsTalker found m and opens one more stream to it, whatever       *)
(* connections to m there are: nothing tests or ends them.                 *)
Connect(n, m, c) ==
  /\ Use("connect")
  /\ Free(n, m, c)
  /\ up' = up \cup {<<n, m, c>>, <<m, n, c>>}
  /\ Start(n, m, c)

(* The stream handler of the other node.                                   *)
MdnsHandleStream(n, m, c) ==
  /\ <<n, m, c>> \in up /\ rpc[<<n, m, c>>] = "dead" /\ wpc[<<n, m, c>>] = "dead"
  /\ Start(n, m, c)
  /\ UNCHANGED <<up, budget>>

-----------------------------------------------------------------------------
(* The reader: P2PRead *)

(* Mutant: the reader reads in every state.                                *)
PollNothing(n, m, c) ==
  /\ rpc[<<n, m, c>>] = "poll"
  /\ ~locked[n]
  /\ rpc' = [rpc EXCEPT ![<<n, m, c>>] = "read"]
  /\ UNCHANGED <<handlerVars, userVars, cb, watchVars, rmsg, wpc, serve, recvVars, netVars>>

(* The check of Handler.State at the top of the loop: the reader reads on  *)
(* only while no transfer needs the stream.                                *)
PollState(n, m, c) ==
  /\ rpc[<<n, m, c>>] = "poll"
  /\ ~locked[n]
  /\ state[n] \in {"UNINIT", "PROCESSING_TRAN_ING"}
  /\ rpc' = [rpc EXCEPT ![<<n, m, c>>] = "read"]
  /\ UNCHANGED <<handlerVars, userVars, cb, watchVars, rmsg, wpc, serve, recvVars, netVars>>

(* ReadFromSocket: what one Read returns is parsed as one JSON document;   *)
(* anything else (data, or several messages) is an error and is lost.      *)
ReadFromSocket(n, m, c) ==
  /\ rpc[<<n, m, c>>] = "read"
  /\ \E k \in 1..Len(chan[<<m, n, c>>]) :
       LET msg == Head(chan[<<m, n, c>>])
           ok  == k = 1 /\ msg.cmd # "DATA"
       IN /\ chan' = [chan EXCEPT ![<<m, n, c>>] = SubSeq(@, k + 1, Len(@))]
          /\ rmsg' = IF ok THEN [rmsg EXCEPT ![<<n, m, c>>] = msg] ELSE rmsg
          /\ rpc' = [rpc EXCEPT ![<<n, m, c>>] = IF ok THEN "guard" ELSE "poll"]
          /\ taken' = IF ok /\ msg.cmd = "FILE_REQ_ACK" /\ wpc[<<n, m, c>>] # "recv"
                      THEN taken \cup {<<n, m, c>>} ELSE taken \ {<<n, m, c>>}
  /\ UNCHANGED <<handlerVars, userVars, cb, watchVars, wpc, serve, recv, acked, up>>

(* A Read that fails cancels the connection's context and ends the reader, *)
(* except at the end of the stream: then the reader goes on reading.       *)
ReadFails(n, m, c) ==
  /\ rpc[<<n, m, c>>] = "read"
  /\ <<n, m, c>> \notin up
  /\ \E r \in {"dead", "poll"} : rpc' = [rpc EXCEPT ![<<n, m, c>>] = r]
  /\ UNCHANGED <<handlerVars, userVars, cb, watchVars, rmsg, wpc, serve, recvVars, netVars>>

(* HandleDataTransferRead, its test of SourceIP before the mutex is taken. *)
CheckSource(n, m, c) ==
  LET foreign == srcIP[n] # None /\ m # srcIP[n] /\ srcIP[n] # n
  IN /\ rpc[<<n, m, c>>] = "guard"
     /\ rpc' = [rpc EXCEPT ![<<n, m, c>>] = IF foreign THEN "paste" ELSE "lock"]
     /\ UNCHANGED <<handlerVars, userVars, cb, watchVars, rmsg, wpc, serve, recvVars,
                    netVars>>

(* Mutant: a request is served in every state.                             *)
CanServeAlways(n, m, c) == rmsg[<<n, m, c>>].cmd = "FILE_REQ"

(* HandleDataTransferRead: FILE_REQ.  HandleSrcDataTransfer acknowledges   *)
(* it, and keeps the mutex until the file has been sent.                   *)
CanServe(n, m, c) == state[n] = "UNINIT" /\ rmsg[<<n, m, c>>].cmd = "FILE_REQ"
AcceptFileReq(n, m, c) ==
  /\ rpc[<<n, m, c>>] = "lock" /\ ~locked[n]
  /\ CanServe(n, m, c)
  /\ state' = [state EXCEPT ![n] = "SRC_INIT"]
  /\ locked' = [locked EXCEPT ![n] = TRUE]
  /\ rpc' = [rpc EXCEPT ![<<n, m, c>>] = "wait"]
  /\ Send(n, m, c, Plain("FILE_REQ_ACK", ""))
  /\ UNCHANGED <<srcIP, appoint, copyFile, copySize, dst, userVars, cb, watchVars,
                 rmsg, wpc, serve, recvVars, up>>

(* HandleDataTransferRead: FILE_DROP_INITIATE; a new file opens a dialog.  *)
CanDrop(n, m, c) == state[n] = "UNINIT" /\ rmsg[<<n, m, c>>].cmd = "FILE_DROP_INITIATE"
AcceptDropInitiate(n, m, c) ==
  LET msg == rmsg[<<n, m, c>>]
      new == msg.hash # cb[<<n, m>>].hash
  IN /\ rpc[<<n, m, c>>] = "lock" /\ ~locked[n]
     /\ CanDrop(n, m, c)
     /\ srcIP' = IF new THEN [srcIP EXCEPT ![n] = m] ELSE srcIP
     /\ copySize' = IF new THEN [copySize EXCEPT ![n] = msg.n] ELSE copySize
     /\ locked' = [locked EXCEPT ![n] = new]
     /\ rpc' = [rpc EXCEPT ![<<n, m, c>>] = IF new THEN "dialog" ELSE "poll"]
     /\ UNCHANGED <<state, appoint, copyFile, dst, userVars, cb, watchVars, rmsg,
                    wpc, serve, recvVars, netVars>>

(* HandleDataTransferRead: FILE_REQ_ACK.                                   *)
CanAck(n, m, c) == state[n] = "PROCESSING_TRAN_ING" /\ rmsg[<<n, m, c>>].cmd = "FILE_REQ_ACK"
AcceptAck(n, m, c) ==
  /\ rpc[<<n, m, c>>] = "lock" /\ ~locked[n]
  /\ CanAck(n, m, c)
  /\ state' = [state EXCEPT ![n] = "PROCESSING_TRAN_ING_ACK"]
  /\ acked' = {l \in acked : l[1] # n} \cup ({<<n, m, c>>} \cap taken)
  /\ rpc' = [rpc EXCEPT ![<<n, m, c>>] = "poll"]
  /\ UNCHANGED <<locked, srcIP, appoint, copyFile, copySize, dst, userVars, cb,
                 watchVars, rmsg, wpc, serve, recv, taken, netVars>>

(* HandleDataTransferRead returns false, and gives the mutex back.         *)
NotATransfer(n, m, c) ==
  /\ rpc[<<n, m, c>>] = "lock" /\ ~locked[n]
  /\ ~CanServe(n, m, c) /\ ~CanDrop(n, m, c) /\ ~CanAck(n, m, c)
  /\ rpc' = [rpc EXCEPT ![<<n, m, c>>] = "paste"]
  /\ UNCHANGED <<handlerVars, userVars, cb, watchVars, rmsg, wpc, serve, recvVars, netVars>>

(* HandleDataPasteToCBProcess, without the mutex: a message that is no     *)
(* part of a transfer updates the clipboard, if its hash is new.           *)
HandleDataPasteToCB(n, m, c) ==
  LET msg   == rmsg[<<n, m, c>>]
      fresh == msg.hash # cb[<<n, m>>].hash
      text  == fresh /\ msg.fmt = "TEXT"
      file  == fresh /\ msg.fmt = "FILE" /\ msg.cmd = "TEXT_TRAN"
  IN /\ rpc[<<n, m, c>>] = "paste"
     /\ rpc' = [rpc EXCEPT ![<<n, m, c>>] = "poll"]
     /\ textPend' = IF text THEN TextEvent(n) ELSE textPend
     /\ srcIP' = IF file THEN [srcIP EXCEPT ![n] = m] ELSE srcIP
     /\ copySize' = IF file THEN [copySize EXCEPT ![n] = msg.n] ELSE copySize
     /\ copyFile' = IF file THEN [copyFile EXCEPT ![n] = None] ELSE copyFile
     /\ offer' = CASE file -> [offer EXCEPT ![n] = msg.file]
                   [] text -> [offer EXCEPT ![n] = None]
                   [] OTHER -> offer
     /\ cb' = IF fresh
              THEN StoreAll(n, [hash |-> msg.hash, fmt |-> msg.fmt]) ELSE cb
     /\ UNCHANGED <<state, locked, appoint, dst, callVars, askVars, textHeld,
                    fileVars, stateVars, rmsg, wpc, serve, recvVars, netVars>>

-----------------------------------------------------------------------------
(* HandleSrcDataTransfer, after the acknowledgement: the reader sends the  *)
(* file named by CopyFilePath at that time.                                *)

(* Mutant: the whole Handler.State is reset to its zero value.             *)
EndServeZero(n, m, c) ==
  /\ state' = [state EXCEPT ![n] = ""]
  /\ dst' = [dst EXCEPT ![n] = "none"]
  /\ appoint' = [appoint EXCEPT ![n] = None]
  /\ locked' = [locked EXCEPT ![n] = FALSE]
  /\ rpc' = [rpc EXCEPT ![<<n, m, c>>] = "poll"]
  /\ serve' = [serve EXCEPT ![n] = [file |-> None, sent |-> 0]]

(* The deferred function, and the deferred Unlock of the caller.           *)
EndServe(n, m, c) ==
  /\ state' = [state EXCEPT ![n] = "UNINIT"]
  /\ dst' = [dst EXCEPT ![n] = "none"]
  /\ appoint' = [appoint EXCEPT ![n] = None]
  /\ locked' = [locked EXCEPT ![n] = FALSE]
  /\ rpc' = [rpc EXCEPT ![<<n, m, c>>] = "poll"]
  /\ serve' = [serve EXCEPT ![n] = [file |-> None, sent |-> 0]]

(* OpenSrcFile succeeds.                                                   *)
OpenSrcFile(n, m, c) ==
  /\ rpc[<<n, m, c>>] = "wait" /\ rmsg[<<n, m, c>>].fmt = "FILE" /\ copyFile[n] # None
  /\ serve' = [serve EXCEPT ![n] = [file |-> copyFile[n], sent |-> 0]]
  /\ rpc' = [rpc EXCEPT ![<<n, m, c>>] = "serve"]
  /\ UNCHANGED <<handlerVars, userVars, cb, watchVars, rmsg, wpc, recvVars, netVars>>

(* OpenSrcFile fails, since nothing is copied any more or the file is gone *)
(* from the disk: FILE_TRAN_CANCEL_SRC.  A request for a format that is    *)
(* neither a file nor an image sends nothing more.                         *)
NothingToServe(n, m, c) ==
  /\ rpc[<<n, m, c>>] = "wait"
  /\ EndServe(n, m, c)
  /\ IF rmsg[<<n, m, c>>].fmt = "FILE"
     THEN Send(n, m, c, Plain("FILE_TRAN_CANCEL_SRC", "")) ELSE chan' = chan
  /\ UNCHANGED <<srcIP, copyFile, copySize, userVars, cb, watchVars, rmsg, wpc,
                 recvVars, up>>

(* io.Copy                                                                 *)
SendChunk(n, m, c) ==
  /\ rpc[<<n, m, c>>] = "serve" /\ <<n, m, c>> \in up /\ serve[n].sent < FSize[serve[n].file]
  /\ Send(n, m, c, Chunk(serve[n].file, serve[n].sent + 1))
  /\ serve' = [serve EXCEPT ![n].sent = @ + 1]
  /\ UNCHANGED <<handlerVars, userVars, cb, watchVars, rpc, rmsg, wpc, recvVars, up>>

(* io.Copy ends, or fails with the stream: the message about the failure   *)
(* is lost with it.                                                        *)
FinishServe(n, m, c) ==
  /\ rpc[<<n, m, c>>] = "serve"
  /\ <<n, m, c>> \notin up \/ serve[n].sent = FSize[serve[n].file]
  /\ EndServe(n, m, c)
  /\ UNCHANGED <<srcIP, copyFile, copySize, userVars, cb, watchVars, rmsg, wpc,
                 recvVars, netVars>>

(* io.Copy fails since the file cannot be read.                            *)
FailServe(n, m, c) ==
  /\ rpc[<<n, m, c>>] = "serve" /\ serve[n].sent < FSize[serve[n].file]
  /\ EndServe(n, m, c)
  /\ Send(n, m, c, Plain("FILE_TRAN_CANCEL_SRC", ""))
  /\ UNCHANGED <<srcIP, copyFile, copySize, userVars, cb, watchVars, rmsg, wpc,
                 recvVars, up>>

-----------------------------------------------------------------------------
(* The writer, P2PWrite, and the watchers that feed it *)

(* WatchP2PFileTransferState: a poll sees only that the value differs from *)
(* the one it saw last.                                                    *)
WatchState(n, m, c) ==
  /\ wpc[<<n, m, c>>] # "dead" /\ ~pend[<<n, m, c>>] /\ cur[<<n, m, c>>] # state[n]
  /\ cur' = [cur EXCEPT ![<<n, m, c>>] = state[n]]
  /\ pend' = [pend EXCEPT ![<<n, m, c>>] = state[n] # "UNINIT"]
  /\ UNCHANGED <<handlerVars, userVars, cb, textVars, fileVars, threadVars, netVars>>

(* WatchClipboardFiles: a change while the link's drop flag is set, or a   *)
(* change to the empty path, announces nothing; any other change waits for *)
(* the writer to take it.                                                  *)
PollFile(n, m, c) ==
  LET f == copyFile[n]
  IN /\ wpc[<<n, m, c>>] # "dead" /\ fileHeld[<<n, m, c>>] = None /\ last[<<n, m, c>>] # f
     /\ last' = [last EXCEPT ![<<n, m, c>>] = f]
     /\ fileHeld' = [fileHeld EXCEPT ![<<n, m, c>>] = IF dropFlag[<<n, m>>] THEN None ELSE f]
     /\ dropFlag' = [dropFlag EXCEPT ![<<n, m>>] = FALSE]
     /\ UNCHANGED <<handlerVars, userVars, cb, textVars, stateVars, threadVars, netVars>>

(* HandleDataCopyProcess: n tells m of its clipboard, unless m knows.      *)
Announce(n, m, c, item) ==
  IF item.hash # cb[<<n, m>>].hash
  THEN /\ cb' = [cb EXCEPT ![<<n, m>>] = [hash |-> item.hash, fmt |-> item.fmt]]
       /\ srcIP' = [srcIP EXCEPT ![n] = n]
       /\ Send(n, m, c, item)
  ELSE UNCHANGED <<cb, srcIP, chan>>

(* The writer takes the file, and announces it with the size of the moment. *)
AnnounceFile(n, m, c) ==
  LET f    == fileHeld[<<n, m, c>>]
      hash == <<"copy", f>>
  IN /\ wpc[<<n, m, c>>] = "idle" /\ f # None
     /\ fileHeld' = [fileHeld EXCEPT ![<<n, m, c>>] = None]
     /\ IF appoint[n] \notin {None, m}
        THEN UNCHANGED <<cb, srcIP, chan>>
        ELSE Announce(n, m, c, Message("TEXT_TRAN", "FILE", hash, f, copySize[n]))
     /\ UNCHANGED <<state, locked, appoint, copyFile, copySize, dst, userVars,
                    dropFlag, last, textVars, stateVars, threadVars, up>>

(* WatchClipboardText: ResetClipboard forgets the copied file and its size *)
(* before the text waits for the writer.                                   *)
ResetForText(n, m, c) ==
  /\ wpc[<<n, m, c>>] # "dead" /\ textPend[<<n, m, c>>] /\ ~textHeld[<<n, m, c>>]
  /\ textPend' = [textPend EXCEPT ![<<n, m, c>>] = FALSE]
  /\ textHeld' = [textHeld EXCEPT ![<<n, m, c>>] = TRUE]
  /\ copyFile' = [copyFile EXCEPT ![n] = None]
  /\ copySize' = [copySize EXCEPT ![n] = 0]
  /\ UNCHANGED <<state, locked, srcIP, appoint, dst, userVars, cb, fileVars,
                 stateVars, threadVars, netVars>>

AnnounceText(n, m, c) ==
  LET hash == <<"text", None>>
  IN /\ wpc[<<n, m, c>>] = "idle" /\ textHeld[<<n, m, c>>]
     /\ textHeld' = [textHeld EXCEPT ![<<n, m, c>>] = FALSE]
     /\ Announce(n, m, c, Message("TEXT_TRAN", "TEXT", hash, None, 0))
     /\ UNCHANGED <<state, locked, appoint, copyFile, copySize, dst, userVars,
                    textPend, fileVars, stateVars, threadVars, up>>

(* Mutants: the test accepts only the peer that is the source; only the    *)
(* node's own content.                                                     *)
CheckTargetPeer(n, m, c) ==
  /\ wpc[<<n, m, c>>] = "idle" /\ pend[<<n, m, c>>]
  /\ pend' = [pend EXCEPT ![<<n, m, c>>] = FALSE]
  /\ wpc' = [wpc EXCEPT ![<<n, m, c>>] = IF m = srcIP[n] THEN "lock" ELSE "idle"]
  /\ UNCHANGED <<handlerVars, userVars, cb, textVars, fileVars, cur, rpc, rmsg,
                 serve, recvVars, netVars>>
CheckTargetOwn(n, m, c) ==
  /\ wpc[<<n, m, c>>] = "idle" /\ pend[<<n, m, c>>]
  /\ pend' = [pend EXCEPT ![<<n, m, c>>] = FALSE]
  /\ wpc' = [wpc EXCEPT ![<<n, m, c>>] = IF srcIP[n] = n THEN "lock" ELSE "idle"]
  /\ UNCHANGED <<handlerVars, userVars, cb, textVars, fileVars, cur, rpc, rmsg,
                 serve, recvVars, netVars>>

(* HandleDataTransferWrite, its tests before the mutex is taken.           *)
CheckTarget(n, m, c) ==
  LET mine == (m = srcIP[n] \/ srcIP[n] = n)
              /\ (state[n] = "FILE_DROP_INIT" => appoint[n] \in {None, m})
  IN /\ wpc[<<n, m, c>>] = "idle" /\ pend[<<n, m, c>>]
     /\ pend' = [pend EXCEPT ![<<n, m, c>>] = FALSE]
     /\ wpc' = [wpc EXCEPT ![<<n, m, c>>] = IF mine THEN "lock" ELSE "idle"]
     /\ UNCHANGED <<handlerVars, userVars, cb, textVars, fileVars, cur, rpc, rmsg,
                    serve, recvVars, netVars>>

(* HandleDataTransferWrite, DEST_INIT: request the file.                   *)
SendFileReq(n, m, c) ==
  /\ wpc[<<n, m, c>>] = "lock" /\ ~locked[n] /\ state[n] = "DEST_INIT"
  /\ state' = [state EXCEPT ![n] = "PROCESSING_TRAN_ING"]
  /\ dst' = IF cb[<<n, m>>].fmt = "FILE" /\ dst[n] # "none"
            THEN [dst EXCEPT ![n] = "open"] ELSE dst
  /\ Send(n, m, c, Message("FILE_REQ", cb[<<n, m>>].fmt, NoHash, None, copySize[n]))
  /\ wpc' = [wpc EXCEPT ![<<n, m, c>>] = "idle"]
  /\ UNCHANGED <<locked, srcIP, appoint, copyFile, copySize, userVars, cb,
                 watchVars, rpc, rmsg, serve, recvVars, up>>

(* HandleDataTransferWrite, FILE_DROP_INIT: offer the dropped file.        *)
SendDropInitiate(n, m, c) ==
  LET f    == copyFile[n]
      hash == IF f = None THEN NoHash ELSE <<"drop", f>>
  IN /\ wpc[<<n, m, c>>] = "lock" /\ ~locked[n] /\ state[n] = "FILE_DROP_INIT"
     /\ cb' = [cb EXCEPT ![<<n, m>>] = [hash |-> hash, fmt |-> "FILE"]]
     /\ Send(n, m, c, Message("FILE_DROP_INITIATE", "FILE", hash, f, copySize[n]))
     /\ state' = [state EXCEPT ![n] = "UNINIT"]
     /\ wpc' = [wpc EXCEPT ![<<n, m, c>>] = "idle"]
     /\ UNCHANGED <<locked, srcIP, appoint, copyFile, copySize, dst, userVars,
                    watchVars, rpc, rmsg, serve, recvVars, up>>

(* HandleDataTransferWrite, any other state: nothing.                      *)
NothingToWrite(n, m, c) ==
  /\ wpc[<<n, m, c>>] = "lock" /\ ~locked[n]
  /\ state[n] \in {"UNINIT", "SRC_INIT", "PROCESSING_TRAN_ING"}
  /\ wpc' = [wpc EXCEPT ![<<n, m, c>>] = "idle"]
  /\ UNCHANGED <<handlerVars, userVars, cb, watchVars, rpc, rmsg, serve, recvVars, netVars>>

(* Mutant: the receive loop runs without the mutex.                        *)
StartReceiveUnlocked(n, m, c) ==
  /\ wpc[<<n, m, c>>] = "lock" /\ ~locked[n] /\ state[n] = "PROCESSING_TRAN_ING_ACK"
  /\ recv' = [recv EXCEPT ![n] = [size |-> copySize[n], fmt |-> cb[<<n, m>>].fmt, got |-> <<>>]]
  /\ wpc' = [wpc EXCEPT ![<<n, m, c>>] = "recv"]
  /\ UNCHANGED <<state, locked, srcIP, appoint, copyFile, copySize, dst, userVars, cb,
                 watchVars, rpc, rmsg, serve, taken, acked, netVars>>

(* HandleDataTransferWrite, PROCESSING_TRAN_ING_ACK: the receive loop,     *)
(* under the mutex.  The expected size is read when it starts.             *)
StartReceive(n, m, c) ==
  /\ wpc[<<n, m, c>>] = "lock" /\ ~locked[n] /\ state[n] = "PROCESSING_TRAN_ING_ACK"
  /\ recv' = [recv EXCEPT ![n] = [size |-> copySize[n], fmt |-> cb[<<n, m>>].fmt, got |-> <<>>]]
  /\ locked' = [locked EXCEPT ![n] = TRUE]
  /\ wpc' = [wpc EXCEPT ![<<n, m, c>>] = "recv"]
  /\ UNCHANGED <<state, srcIP, appoint, copyFile, copySize, dst, userVars, cb,
                 watchVars, rpc, rmsg, serve, taken, acked, netVars>>

(* The end of the transfer, complete or not: CloseDstFile,                 *)
(* ClearCopySourceData, and the state.                                     *)
EndReceive(n, m, c) ==
  /\ dst' = IF recv[n].fmt = "FILE" /\ dst[n] = "open"
            THEN [dst EXCEPT ![n] = "none"] ELSE dst
  /\ srcIP' = [srcIP EXCEPT ![n] = None]
  /\ copySize' = [copySize EXCEPT ![n] = 0]
  /\ state' = [state EXCEPT ![n] = "UNINIT"]
  /\ locked' = [locked EXCEPT ![n] = FALSE]
  /\ wpc' = [wpc EXCEPT ![<<n, m, c>>] = "idle"]
  /\ recv' = [recv EXCEPT ![n] = [size |-> 0, fmt |-> "", got |-> <<>>]]
  /\ taken' = taken \ {<<n, m, c>>}
  /\ UNCHANGED <<appoint, copyFile, userVars, cb, watchVars, rpc, rmsg, serve, acked, up>>

(* IsTransferError: the whole buffer is one FILE_TRAN_CANCEL_SRC.          *)
IsTransferError(items) == Len(items) = 1 /\ items[1].cmd = "FILE_TRAN_CANCEL_SRC"

(* One Read of the loop: whatever it returned is written to the file.      *)
ReceiveData(n, m, c) ==
  /\ wpc[<<n, m, c>>] = "recv" /\ Len(recv[n].got) < recv[n].size
  /\ \E k \in 1..Len(chan[<<m, n, c>>]) :
       LET items == SubSeq(chan[<<m, n, c>>], 1, k)
       IN /\ ~IsTransferError(items)
          /\ recv' = [recv EXCEPT ![n].got = @ \o items]
          /\ chan' = [chan EXCEPT ![<<m, n, c>>] = SubSeq(@, k + 1, Len(@))]
  /\ UNCHANGED <<handlerVars, userVars, cb, watchVars, rpc, rmsg, wpc, serve, taken,
                 acked, up>>

(* The source could not open the file.                                     *)
ReceiveCancel(n, m, c) ==
  /\ wpc[<<n, m, c>>] = "recv" /\ Len(recv[n].got) < recv[n].size
  /\ chan[<<m, n, c>>] # <<>> /\ IsTransferError(<<Head(chan[<<m, n, c>>])>>)
  /\ chan' = [chan EXCEPT ![<<m, n, c>>] = Tail(@)]
  /\ EndReceive(n, m, c)

(* The loop ends: enough has been read, or the stream is broken.           *)
FinishReceive(n, m, c) ==
  /\ wpc[<<n, m, c>>] = "recv"
  /\ Len(recv[n].got) >= recv[n].size \/ <<n, m, c>> \notin up
  /\ EndReceive(n, m, c)
  /\ UNCHANGED chan

(* The connection's context is cancelled: P2PWrite returns.                *)
WriterStops(n, m, c) ==
  /\ wpc[<<n, m, c>>] = "idle" /\ rpc[<<n, m, c>>] = "dead"
  /\ wpc' = [wpc EXCEPT ![<<n, m, c>>] = "dead"]
  /\ UNCHANGED <<handlerVars, userVars, cb, watchVars, rpc, rmsg, serve, recvVars, netVars>>

-----------------------------------------------------------------------------
User(n, m, c) ==
  \/ \E accept \in BOOLEAN : FileDropResponse(n, m, c, accept)
  \/ Disconnect(n, m, c)
  \/ Connect(n, m, c)
  \/ MdnsHandleStream(n, m, c)

Reader(n, m, c) ==
  \/ PollState(n, m, c)
  \/ ReadFromSocket(n, m, c)
  \/ ReadFails(n, m, c)
  \/ CheckSource(n, m, c)
  \/ AcceptFileReq(n, m, c)
  \/ AcceptDropInitiate(n, m, c)
  \/ AcceptAck(n, m, c)
  \/ NotATransfer(n, m, c)
  \/ HandleDataPasteToCB(n, m, c)
  \/ OpenSrcFile(n, m, c)
  \/ NothingToServe(n, m, c)
  \/ SendChunk(n, m, c)
  \/ FinishServe(n, m, c)
  \/ FailServe(n, m, c)

Watchers(n, m, c) ==
  \/ WatchState(n, m, c)
  \/ PollFile(n, m, c)
  \/ ResetForText(n, m, c)

Writer(n, m, c) ==
  \/ AnnounceFile(n, m, c)
  \/ AnnounceText(n, m, c)
  \/ CheckTarget(n, m, c)
  \/ SendFileReq(n, m, c)
  \/ SendDropInitiate(n, m, c)
  \/ NothingToWrite(n, m, c)
  \/ StartReceive(n, m, c)
  \/ ReceiveData(n, m, c)
  \/ ReceiveCancel(n, m, c)
  \/ FinishReceive(n, m, c)
  \/ WriterStops(n, m, c)

Next ==
  \/ \E n \in Nodes :
       \/ \E f \in Files : UserCopyFile(n, f)
       \/ StoreCopySize(n)
       \/ UserCopyText(n)
       \/ UserPaste(n)
       \/ \E m \in Peers(n), f \in Files : UserDrop(n, m, f)
       \/ FileDropRequest(n)
       \/ FileDropRequestEnds(n)
  \/ \E n \in Nodes : \E m \in Peers(n), c \in Conns :
       User(n, m, c) \/ Reader(n, m, c) \/ Watchers(n, m, c) \/ Writer(n, m, c)

Spec == Init /\ [][Next]_vars

(* Steps that begin by taking CtxMutex.                                    *)
ReaderLocks(n, m, c) ==
  \/ PollState(n, m, c) \/ AcceptFileReq(n, m, c) \/ AcceptDropInitiate(n, m, c)
  \/ AcceptAck(n, m, c) \/ NotATransfer(n, m, c)
WriterLocks(n, m, c) ==
  \/ SendFileReq(n, m, c) \/ SendDropInitiate(n, m, c) \/ NothingToWrite(n, m, c)
  \/ StartReceive(n, m, c)

(* Goroutines keep running; a sync.Mutex that is free again and again is   *)
(* finally handed to each waiter (its starvation mode); the polls keep     *)
(* polling and the writer's select serves each channel that stays ready.   *)
(* Users, the network and the answer to the dialog are not fair.           *)
Fairness ==
  \A n \in Nodes :
    /\ SF_vars(FileDropRequest(n))
    /\ WF_vars(FileDropRequestEnds(n))
    /\ \A m \in Peers(n), c \in Conns :
         /\ WF_vars(Reader(n, m, c))
         /\ SF_vars(ReaderLocks(n, m, c))
         /\ WF_vars(WatchState(n, m, c))
         /\ WF_vars(CheckTarget(n, m, c))
         /\ SF_vars(WriterLocks(n, m, c))

FairSpec == Spec /\ Fairness

-----------------------------------------------------------------------------
(* Properties *)

Serving(n, m, c)   == rpc[<<n, m, c>>] \in {"wait", "serve"}
InDialog(n, m, c)  == rpc[<<n, m, c>>] = "dialog"
Receiving(n, m, c) == wpc[<<n, m, c>>] = "recv"
ReaderHolds(n, m, c) == Serving(n, m, c) \/ InDialog(n, m, c)

(* While a goroutine of n sends a file, receives one, waits for the user's *)
(* answer to a drop, or stores a drop request, Handler.State says so and   *)
(* nothing (a paste, a drop, another connection) has changed it: every     *)
(* writer of the state takes CtxMutex.  SRC_INIT is never left behind when *)
(* no one serves.                                                          *)
StateMatchesTransfer ==
  \A n \in Nodes :
    /\ \A m \in Peers(n), c \in Conns :
         /\ Serving(n, m, c)   => state[n] = "SRC_INIT"
         /\ InDialog(n, m, c)  => state[n] = "UNINIT"
         /\ Receiving(n, m, c) => state[n] = "PROCESSING_TRAN_ING_ACK"
    /\ dropping[n] => state[n] = "FILE_DROP_INIT"
    /\ state[n] = "SRC_INIT" => \E m \in Peers(n), c \in Conns : Serving(n, m, c)

(* CtxMutex is held exactly while the drop callback or one of n's          *)
(* goroutines is in such a section, and no two of them ever are:           *)
(* Handler.SrcFile, DstFile and the receive buffer have a single user.     *)
OneTransferAtATime ==
  \A n \in Nodes :
    /\ locked[n] <=> \/ dropping[n]
                     \/ \E m \in Peers(n), c \in Conns :
                          ReaderHolds(n, m, c) \/ Receiving(n, m, c)
    /\ dropping[n] => \A m \in Peers(n), c \in Conns :
                        ~ReaderHolds(n, m, c) /\ ~Receiving(n, m, c)
    /\ \A m, k \in Peers(n), c, d \in Conns :
         /\ ReaderHolds(n, m, c) /\ ReaderHolds(n, k, d) => m = k /\ c = d
         /\ Receiving(n, m, c) /\ Receiving(n, k, d) => m = k /\ c = d
         /\ ~(ReaderHolds(n, m, c) /\ Receiving(n, k, d))

(* What the receive loop has written before any foreign JSON message got   *)
(* mixed in is a gapless beginning of one file: the goroutine that parses  *)
(* messages never takes a chunk of the stream away from the receive loop,  *)
(* even when the user pastes again, requests cross, other connections are  *)
(* set up or this one breaks.  It is promised to a loop on the connection  *)
(* whose own reader acknowledged, with a FILE_REQ_ACK it had taken while   *)
(* no loop ran there.  SourceIP lets the loop run on another connection    *)
(* (to a third node, or an older one to the same), whose reader may be in  *)
(* Read and take the first chunks.                                         *)
ReceivedPrefix ==
  \A n \in Nodes : \A m \in Peers(n), c \in Conns :
    Receiving(n, m, c) /\ <<n, m, c>> \in acked =>
      LET got == recv[n].got
      IN \A i \in 1..Len(got) :
           (\A j \in 1..i : got[j].cmd = "DATA")
             => got[i].n = i /\ got[i].file = got[1].file

(* A paste the user asked for is not dropped by the other goroutines: the  *)
(* only ways out of DEST_INIT are the request put on a stream (if that is  *)
(* still alive), and the user starting a drop instead.                     *)
PasteNotLost ==
  [][\A n \in Nodes :
       state[n] = "DEST_INIT" /\ state'[n] # "DEST_INIT" =>
         \/ state'[n] = "FILE_DROP_INIT"
         \/ /\ state'[n] = "PROCESSING_TRAN_ING"
            /\ \E m \in Peers(n), c \in Conns :
                 \/ <<n, m, c>> \notin up
                 \/ \E s \in {"FILE", "TEXT", ""} :
                      chan'[<<n, m, c>>] = Append(chan[<<n, m, c>>],
                        Message("FILE_REQ", s, NoHash, None, copySize[n]))]_vars

(* A drop that has been stored is offered to the peer the user chose, or   *)
(* replaced by another, unless the link's watcher                          *)
(*   - still remembers the FILE_DROP_INIT of an earlier drop (requested    *)
(*     within the same 100 ms poll), or                                    *)
(*   - has seen the state of this one before SourceIP was stored.          *)
(* In these two cases it is never offered, and keeps every reader of the   *)
(* node from reading.                                                      *)
DropOffered ==
  \A n \in Nodes : \A m \in Peers(n), c \in Conns :
    (/\ state[n] = "FILE_DROP_INIT" /\ ~dropping[n]
     /\ appoint[n] = m /\ srcIP[n] = n
     /\ cur[<<n, m, c>>] # "FILE_DROP_INIT" /\ wpc[<<n, m, c>>] # "dead")
      ~> (\/ state[n] # "FILE_DROP_INIT" \/ dropping[n] \/ appoint[n] # m
          \/ srcIP[n] \notin {n, m} \/ wpc[<<n, m, c>>] = "dead")

(* Likewise, a paste is requested from the peer whose file is offered, as  *)
(* long as the link to it lives and no other copy has changed SourceIP.    *)
PasteRequested ==
  \A n \in Nodes : \A m \in Peers(n), c \in Conns :
    (/\ state[n] = "DEST_INIT" /\ srcIP[n] = m
     /\ cur[<<n, m, c>>] # "DEST_INIT" /\ wpc[<<n, m, c>>] # "dead")
      ~> (state[n] # "DEST_INIT" \/ srcIP[n] \notin {n, m} \/ wpc[<<n, m, c>>] = "dead")

(* A FILE_DROP_INITIATE reaches only a peer the user chose for that file   *)
(* ("the peer to specify the transmission", common.go:53).                 *)
DropGoesToChosenPeer ==
  \A l \in Links : \A i \in 1..Len(chan[l]) :
    chan[l][i].cmd = "FILE_DROP_INITIATE" =>
      [node |-> l[1], file |-> chan[l][i].file, peer |-> l[2]]
        \in history
================================================================================
