-------------------------------- MODULE PipeLink --------------------------------
(***************************************************************************)
(* The named pipe between the Qt client (common/namedpipe_client.cpp,      *)
(* common/process_message.cpp, src/mainwindow.cpp) and the server that     *)
(* comes with it (test-server/).  Each program appends what it reads to    *)
(* one Buffer, for all connections, and takes messages off it in a loop.   *)
(*                                                                         *)
(* A pipe holds the writes that were not read yet; a read takes some of    *)
(* them, the last one perhaps in part.  A message that opens a dialog runs *)
(* an event loop inside the client's handler: the reads of the same socket *)
(* wait, but the socket may be replaced and the new one read meanwhile.    *)
(* A loop that neither takes a message nor ends takes no step here: the    *)
(* program spins.                                                          *)
(***************************************************************************)
EXTENDS PipeMessages, SequencesExt

CONSTANTS
  FileSizes,  \* sizes of the file a transfer is about
  Steps,      \* progress messages of a transfer (100)
  Budgets,    \* left: devices the server adds, files its user offers, files
              \* the client's user sends, restarts of each program, reads that cut a write
  None        \* no message

Resources == {"adds", "asks", "sends", "clientEnds", "serverEnds", "cuts"}

ASSUME LinkAssumption ==
  /\ FileSizes \subseteq Nat
  /\ Steps \in Nat \ {0}
  /\ Budgets \subseteq [Resources -> Nat]

(* None is no message; the numbers that stand for names fit a unit.   *)
ASSUME NameAssumption ==
  /\ \A kind \in Kinds : None \notin [Fields(kind) \cup {"kind"} -> Seq(Byte) \cup {kind}]
  /\ 5 < Base
  /\ \A b \in Budgets : 2 + b["adds"] < Base

VARIABLES
  open,       \* is there a connection?
  conn,       \* number of the connection
  toClient,   \* writes to the client, not yet read
  toServer,   \* writes to the server, not yet read
  (* the client *)
  connected,  \* g_getGlobalData()->namedPipeConnected
  cbuf,       \* ProcessMessage::m_buffer
  cparsing,   \* is the innermost handler in its loop?
  dialogs,    \* the open dialogs, innermost last: message and connection
  clients,    \* m_clientVec, without its order
  (* the server *)
  sbuf,       \* MainWindow::m_buffer
  sparsing,   \* is onRecvClientData in its loop?
  slots,      \* times onSendDataForTestServer is connected to its signal
  hellos,     \* 50 ms timers of onNewConnection that run
  index,      \* s_index
  cache,      \* m_cacheProgressMsgPtr, or None
  val,        \* m_cacheProgressVal
  timer,      \* does m_timer run?
  (* left *)
  left,       \* what is left of the budget
  (* history: of the messages of this connection, those written and those *)
  (* dispatched; was a read cut, was something left of an old connection? *)
  cstream, cgot, ccut, cstale,
  sstream, sgot, scut, sstale

client == <<connected, cbuf, cparsing, dialogs, clients>>
server == <<sbuf, sparsing, slots, hellos, index, cache, val, timer>>
cpast == <<cstream, cgot, ccut, cstale>>
spast == <<sstream, sgot, scut, sstale>>
vars == <<open, conn, toClient, toServer, client, server, left, cpast, spast>>

ClientInit ==
  /\ connected = FALSE
  /\ cbuf = NewBuffer
  /\ cparsing = FALSE
  /\ dialogs = <<>>
  /\ clients = {}

ServerInit ==
  /\ sbuf = NewBuffer
  /\ sparsing = FALSE
  /\ slots = 0 /\ hellos = 0 /\ index = 2
  /\ cache = None /\ val = 0 /\ timer = FALSE

Init ==
  /\ open = FALSE /\ conn = 0
  /\ toClient = <<>> /\ toServer = <<>>
  /\ ClientInit /\ ServerInit
  /\ left \in Budgets
  /\ cstream = <<>> /\ cgot = <<>> /\ ccut = FALSE /\ cstale = FALSE
  /\ sstream = <<>> /\ sgot = <<>> /\ scut = FALSE /\ sstale = FALSE

-----------------------------------------------------------------------------
(* Messages and writes.                                                    *)

Spend(what) == left[what] > 0 /\ left' = [left EXCEPT ![what] = @ - 1]

Bytes(f, x) == BigEndian(x, Width[f])

ClientStatus(i) ==
  [kind |-> "UpdateClientStatusMsg", status |-> Bytes("status", 1),
   ip |-> Bytes("ip", 1), port |-> Bytes("port", 1),
   clientID |-> Bytes("clientID", i), clientName |-> <<i>>]

FileRequest(id, size) ==
  [kind |-> "SendFileRequestMsg", ip |-> Bytes("ip", 1), port |-> Bytes("port", 1),
   clientID |-> id, fileSize |-> Bytes("fileSize", size),
   timeStamp |-> Bytes("timeStamp", 1), fileName |-> <<1>>]

(* The answer to a request: accepted files get the name chosen for them.   *)
FileResponse(request, status) ==
  [f \in DOMAIN request \cup {"status"} |->
     CASE f = "kind"     -> "SendFileResponseMsg"
       [] f = "status"   -> Bytes("status", status)
       [] f = "fileName" -> IF status = 1 THEN <<2>> \o request.fileName ELSE request.fileName
       [] OTHER          -> request[f]]

(* emit sendDataForTestServer: once for every time the slot was connected. *)
ServerWrites(m) ==
  IF open
  THEN /\ toClient' = toClient \o [i \in 1..slots |-> toByteArray(m)]
       /\ cstream' = cstream \o [i \in 1..slots |-> m]
  ELSE UNCHANGED <<toClient, cstream>>

(* NamedPipeClient::sendData.                                              *)
ClientWrites(m) ==
  IF open
  THEN /\ toServer' = Append(toServer, toByteArray(m))
       /\ sstream' = Append(sstream, m)
  ELSE UNCHANGED <<toServer, sstream>>

(* What a read may take of a pipe: some whole writes, perhaps part of the  *)
(* next.                                                                   *)
Takes(pipe) ==
  {[whole |-> w, part |-> 0] : w \in 1..Len(pipe)}
    \cup UNION {{[whole |-> w - 1, part |-> p] : p \in 1..(Len(pipe[w]) - 1)} : w \in DOMAIN pipe}

Taken(pipe, t) ==
  FlattenSeq(SubSeq(pipe, 1, t.whole))
    \o (IF t.part = 0 THEN <<>> ELSE SubSeq(pipe[t.whole + 1], 1, t.part))

Rest(pipe, t) ==
  LET next == SubSeq(pipe, t.whole + 1, Len(pipe))
  IN  IF t.part = 0 THEN next
      ELSE <<SubSeq(Head(next), t.part + 1, Len(Head(next)))>> \o Tail(next)

-----------------------------------------------------------------------------
(* The client.                                                             *)

(* The timer of ProcessMessage makes a new NamedPipeClient, and the server *)
(* gets onNewConnection.                                                   *)
Connect ==
  /\ ~connected /\ ~cparsing /\ ~sparsing
  /\ open' = TRUE /\ conn' = conn + 1
  /\ connected' = TRUE
  /\ slots' = slots + 1
  /\ hellos' = hellos + 1
  /\ cstream' = <<>> /\ cgot' = <<>> /\ cstale' = (cstale \/ readableBytes(cbuf) > 0)
  /\ sstream' = <<>> /\ sgot' = <<>> /\ sstale' = (sstale \/ readableBytes(sbuf) > 0)
  /\ UNCHANGED <<toClient, toServer, cbuf, cparsing, dialogs, clients, sbuf, sparsing,
                 index, cache, val, timer, left, ccut, scut>>

(* onReadyRead; the signal is not emitted again inside its own handler.    *)
ClientReads ==
  /\ connected /\ open /\ ~cparsing
  /\ \A i \in DOMAIN dialogs : dialogs[i].conn # conn
  /\ \E t \in Takes(toClient) :
       /\ cbuf' = append(cbuf, Taken(toClient, t))
       /\ toClient' = Rest(toClient, t)
       /\ ccut' = (ccut \/ t.part > 0)
       /\ IF t.part > 0 THEN Spend("cuts") ELSE UNCHANGED left
  /\ cparsing' = TRUE
  /\ UNCHANGED <<open, conn, toServer, connected, dialogs, clients, server,
                 cstream, cgot, cstale, spast>>

(* The message of that kind at the front of the data, once it is complete. *)
Decoded(kind, data) ==
  IF kind # "none" /\ Complete(kind, data) THEN {fromByteArray(kind, data)} ELSE {}

(* A mutant: the case of UpdateClientStatusMsg has the number before.      *)
ClientKindOffByOne(data) ==
  IF ~HasHeader(data) THEN "none" ELSE
  CASE codeOf(data) = 1 -> "GetConnStatusResponseMsg"
    [] codeOf(data) = 2 -> "UpdateClientStatusMsg"
    [] codeOf(data) = 4 /\ typeOf(data) = Request -> "SendFileRequestMsg"
    [] codeOf(data) = 5 -> "UpdateProgressMsg"
    [] OTHER -> "none"

(* The struct onRecvServerData reads, "none" if there is no header.        *)
ClientKind(data) ==
  IF ~HasHeader(data) THEN "none" ELSE
  CASE codeOf(data) = 1 -> "GetConnStatusResponseMsg"
    [] codeOf(data) = 3 -> "UpdateClientStatusMsg"
    [] codeOf(data) = 4 /\ typeOf(data) = Request -> "SendFileRequestMsg"
    [] codeOf(data) = 5 -> "UpdateProgressMsg"
    [] OTHER -> "none"

ClientParseEnds ==
  /\ cparsing /\ ~HasHeader(Readable(cbuf))
  /\ cparsing' = FALSE
  /\ UNCHANGED <<open, conn, toClient, toServer, connected, cbuf, dialogs, clients,
                 server, left, cpast, spast>>

(* onDispatchMessage, UpdateClientStatusMsg.                               *)
Listed(m) ==
  LET old == {c \in clients : c.id = m.clientID}
      new == [id |-> m.clientID, status |-> m.status]
  IN  IF \E c \in old : UIntOf(c.status) = 0
      THEN clients \ old ELSE (clients \ old) \cup {new}

OpensDialog(m) == m.kind \in {"SendFileRequestMsg", "GetConnStatusResponseMsg"}

ClientDispatches ==
  /\ cparsing
  /\ \E m \in Decoded(ClientKind(Readable(cbuf)), Readable(cbuf)) :
       /\ cbuf' = retrieve(cbuf, FullLength(m.kind, Readable(cbuf)))
       /\ cgot' = Append(cgot, m)
       /\ clients' = IF m.kind = "UpdateClientStatusMsg" THEN Listed(m) ELSE clients
       /\ IF OpensDialog(m)
          THEN cparsing' = FALSE /\ dialogs' = Append(dialogs, [msg |-> m, conn |-> conn])
          ELSE UNCHANGED <<cparsing, dialogs>>
  /\ UNCHANGED <<open, conn, toClient, toServer, connected, server, left,
                 cstream, ccut, cstale, spast>>

(* The innermost dialog ends and the loop it was opened in goes on.  A     *)
(* request is accepted, refused, or left without an answer when no         *)
(* directory is chosen.                                                    *)
DialogEnds ==
  /\ dialogs # <<>> /\ ~cparsing
  /\ LET m == Last(dialogs).msg
     IN  \/ m.kind = "SendFileRequestMsg" /\ \E s \in {0, 1} : ClientWrites(FileResponse(m, s))
         \/ UNCHANGED <<toServer, sstream>>
  /\ dialogs' = Front(dialogs)
  /\ cparsing' = TRUE
  /\ UNCHANGED <<open, conn, toClient, connected, cbuf, clients, server, left,
                 cpast, sgot, scut, sstale>>

(* DeviceInfo::onOpenFile: the user picks a file for a listed client.  The *)
(* list does not change under his dialog: that deletes it (ClientWindow).  *)
UserSends ==
  /\ Spend("sends") /\ dialogs = <<>> /\ ~cparsing
  /\ \E c \in clients, size \in FileSizes : ClientWrites(FileRequest(c.id, size))
  /\ UNCHANGED <<open, conn, toClient, client, server, cpast, sgot, scut, sstale>>

(* onDisconnected: the buffer keeps what it holds.                         *)
Disconnected ==
  /\ connected /\ ~open /\ ~cparsing
  /\ connected' = FALSE
  /\ clients' = {}
  /\ UNCHANGED <<open, conn, toClient, toServer, cbuf, cparsing, dialogs, server, left,
                 cpast, spast>>

-----------------------------------------------------------------------------
(* The server.                                                             *)

(* The timer of onNewConnection.                                           *)
Hello ==
  /\ hellos > 0 /\ ~sparsing
  /\ hellos' = hellos - 1
  /\ ServerWrites(ClientStatus(1))
  /\ UNCHANGED <<open, conn, toServer, client, sbuf, sparsing, slots, index, cache, val,
                 timer, left, cgot, ccut, cstale, spast>>

(* onAddTestClient loops over m_clientList.                                *)
AddTestClient ==
  /\ open /\ Spend("adds") /\ ~sparsing
  /\ ServerWrites(ClientStatus(index))
  /\ index' = index + 1
  /\ UNCHANGED <<open, conn, toServer, client, sbuf, sparsing, slots, hellos, cache, val,
                 timer, cgot, ccut, cstale, spast>>

SendFile ==
  /\ open /\ Spend("asks") /\ ~sparsing
  /\ \E size \in FileSizes : ServerWrites(FileRequest(Bytes("clientID", 1), size))
  /\ UNCHANGED <<open, conn, toServer, client, server, cgot, ccut, cstale, spast>>

ServerReads ==
  /\ open /\ ~sparsing
  /\ \E t \in Takes(toServer) :
       /\ sbuf' = append(sbuf, Taken(toServer, t))
       /\ toServer' = Rest(toServer, t)
       /\ scut' = (scut \/ t.part > 0)
       /\ IF t.part > 0 THEN Spend("cuts") ELSE UNCHANGED left
  /\ sparsing' = TRUE
  /\ UNCHANGED <<open, conn, toClient, client, slots, hellos, index, cache, val, timer,
                 cpast, sstream, sgot, sstale>>

ServerKind(data) ==
  IF ~HasHeader(data) THEN "none" ELSE
  CASE codeOf(data) = 1 -> "GetConnStatusRequestMsg"
    [] codeOf(data) = 4 -> IF typeOf(data) = Response THEN "SendFileResponseMsg"
                                                      ELSE "SendFileRequestMsg"
    [] OTHER -> "none"

ServerParseEnds ==
  /\ sparsing /\ ~HasHeader(Readable(sbuf))
  /\ sparsing' = FALSE
  /\ UNCHANGED <<open, conn, toClient, toServer, client, sbuf, slots, hellos, index, cache,
                 val, timer, left, cpast, spast>>

(* An offer or an accepted file starts the progress, instead of the one    *)
(* that runs; a refusal changes nothing.                                   *)
Starts(m) ==
  IF m.kind = "GetConnStatusRequestMsg"
       \/ (m.kind = "SendFileResponseMsg" /\ UIntOf(m.status) = 0)
  THEN UNCHANGED <<cache, val, timer>>
  ELSE cache' = m /\ val' = 0 /\ timer' = TRUE

ServerDispatches ==
  /\ sparsing
  /\ \E m \in Decoded(ServerKind(Readable(sbuf)), Readable(sbuf)) :
       /\ sbuf' = retrieve(sbuf, FullLength(m.kind, Readable(sbuf)))
       /\ sgot' = Append(sgot, m)
       /\ Starts(m)
       /\ IF m.kind = "GetConnStatusRequestMsg"
          THEN ServerWrites([kind |-> "GetConnStatusResponseMsg", status |-> Bytes("status", 1)])
          ELSE UNCHANGED <<toClient, cstream>>
  /\ UNCHANGED <<open, conn, toServer, client, sparsing, slots, hellos, index, left,
                 cgot, ccut, cstale, sstream, scut, sstale>>

(* sendProgressData: a share of the file for every tick, all of it at the  *)
(* last; size is that of the file the server finds under the name.         *)
Sent(v, size) ==
  IF v >= Steps THEN size ELSE v * (IF size \div Steps < 1 THEN 1 ELSE size \div Steps)

Progress(v, size) ==
  [kind |-> "UpdateProgressMsg", ip |-> cache.ip, port |-> cache.port,
   clientID |-> cache.clientID, fileSize |-> Bytes("fileSize", size),
   sentSize |-> Bytes("sentSize", Sent(v, size)), timeStamp |-> Bytes("timeStamp", 1),
   fileName |-> cache.fileName]

(* Mutants: the last tick is left out; the timer is not stopped.           *)
SendProgressShort ==
  /\ timer /\ ~sparsing
  /\ IF val >= Steps - 1
     THEN /\ timer' = FALSE /\ cache' = None
          /\ UNCHANGED <<val, toClient, cstream>>
     ELSE /\ val' = val + 1
          /\ \E size \in FileSizes : ServerWrites(Progress(val + 1, size))
          /\ UNCHANGED <<timer, cache>>
  /\ UNCHANGED <<open, conn, toServer, client, sbuf, sparsing, slots, hellos, index,
                 left, cgot, ccut, cstale, spast>>
SendProgressOn ==
  /\ timer /\ ~sparsing
  /\ IF val >= Steps
     THEN /\ cache' = None
          /\ UNCHANGED <<timer, val, toClient, cstream>>
     ELSE /\ val' = val + 1
          /\ \E size \in FileSizes : ServerWrites(Progress(val + 1, size))
          /\ UNCHANGED <<timer, cache>>
  /\ UNCHANGED <<open, conn, toServer, client, sbuf, sparsing, slots, hellos, index,
                 left, cgot, ccut, cstale, spast>>

SendProgressData ==
  /\ timer /\ ~sparsing
  /\ IF val >= Steps
     THEN /\ timer' = FALSE /\ cache' = None
          /\ UNCHANGED <<val, toClient, cstream>>
     ELSE /\ val' = val + 1
          /\ \E size \in FileSizes : ServerWrites(Progress(val + 1, size))
          /\ UNCHANGED <<timer, cache>>
  /\ UNCHANGED <<open, conn, toServer, client, sbuf, sparsing, slots, hellos, index,
                 left, cgot, ccut, cstale, spast>>

-----------------------------------------------------------------------------
(* One of the programs ends, closing the pipe, and is started again: not   *)
(* by this code, but by a crash, a user or the system.  What was not read  *)
(* is lost.                                                                *)

Break ==
  /\ open
  /\ open' = FALSE
  /\ toClient' = <<>> /\ toServer' = <<>>
  /\ UNCHANGED conn

ClientRestarts ==
  /\ Break /\ Spend("clientEnds")
  /\ connected' = FALSE /\ cbuf' = NewBuffer /\ cparsing' = FALSE
  /\ dialogs' = <<>> /\ clients' = {}
  /\ cstream' = <<>> /\ cgot' = <<>> /\ ccut' = FALSE /\ cstale' = FALSE
  /\ UNCHANGED <<server, spast>>

ServerRestarts ==
  /\ Break /\ Spend("serverEnds")
  /\ sbuf' = NewBuffer /\ sparsing' = FALSE
  /\ slots' = 0 /\ hellos' = 0 /\ index' = 2
  /\ cache' = None /\ val' = 0 /\ timer' = FALSE
  /\ sstream' = <<>> /\ sgot' = <<>> /\ scut' = FALSE /\ sstale' = FALSE
  /\ UNCHANGED <<client, cpast>>

(* What the two event loops do of themselves.                              *)
ClientLoop == Connect \/ ClientReads \/ ClientParseEnds \/ ClientDispatches \/ Disconnected
ServerLoop ==
  Hello \/ ServerReads \/ ServerParseEnds \/ ServerDispatches \/ SendProgressData

Users == DialogEnds \/ UserSends \/ AddTestClient \/ SendFile
Restarts == ClientRestarts \/ ServerRestarts

Next == ClientLoop \/ ServerLoop \/ Users \/ Restarts

(* The event loops go on; nobody has to answer a dialog or to restart a    *)
(* program.                                                                *)
Fairness == WF_vars(ClientLoop) /\ WF_vars(ServerLoop)

Spec == Init /\ [][Next]_vars
FairSpec == Spec /\ Fairness

-----------------------------------------------------------------------------
(* Properties.                                                             *)

(* The variables have their types; the two ends agree that there is no     *)
(* connection the client would not know of, and a timer has its message.   *)
TypeOK ==
  /\ {open, connected, cparsing, sparsing, timer, ccut, cstale, scut, sstale} \subseteq BOOLEAN
  /\ IsBuffer(cbuf) /\ IsBuffer(sbuf)
  /\ open => connected
  /\ \A i \in DOMAIN dialogs : dialogs[i].msg.kind \in Kinds /\ dialogs[i].conn \in 1..conn
  /\ timer => cache # None
  /\ val \in 0..Steps
  /\ slots \in Nat /\ hellos \in 0..slots /\ index \in Nat \ {0, 1}
  /\ left \in [Resources -> Nat]

Encoded(ms) == FlattenSeq([i \in DOMAIN ms |-> toByteArray(ms[i])])

(* What one end wrote, the other end has dispatched, holds in its buffer,  *)
(* or will still read, byte for byte and in order, however the reads cut   *)
(* the stream and the buffer moved its bytes; unless the connection broke  *)
(* or bytes of an earlier one were left in the buffer (onRecvServerData,   *)
(* onRecvClientData, Buffer, toByteArray and fromByteArray).               *)
StreamIntact ==
  /\ (open /\ ~cstale) =>
       Encoded(cgot) \o Readable(cbuf) \o FlattenSeq(toClient) = Encoded(cstream)
  /\ (open /\ ~sstale) =>
       Encoded(sgot) \o Readable(sbuf) \o FlattenSeq(toServer) = Encoded(sstream)

(* The messages one end dispatches are those the other end wrote, field by *)
(* field.                                                                  *)
MessagesIntact ==
  /\ (open /\ ~cstale) => IsPrefix(cgot, cstream)
  /\ (open /\ ~sstale) => IsPrefix(sgot, sstream)

ClientSpins ==
  cparsing /\ HasHeader(Readable(cbuf))
    /\ LET kind == ClientKind(Readable(cbuf))
       IN  kind = "none" \/ ~Complete(kind, Readable(cbuf))

ServerSpins ==
  sparsing /\ HasHeader(Readable(sbuf))
    /\ LET kind == ServerKind(Readable(sbuf))
       IN  kind = "none" \/ ~Complete(kind, Readable(sbuf))

(* As long as every read ended where a write did and no connection began   *)
(* with bytes of an old one in the buffer, no loop spins, and a program    *)
(* that waits for data has dispatched all it read, through dialogs and     *)
(* restarts of the other end.                                              *)
WholeReadsNeverSpin ==
  /\ (~ccut /\ ~cstale) =>
       ~ClientSpins /\ (~cparsing /\ dialogs = <<>> => readableBytes(cbuf) = 0)
  /\ (~scut /\ ~sstale) =>
       ~ServerSpins /\ (~sparsing => readableBytes(sbuf) = 0)

Undisturbed == ~ccut /\ ~scut /\ ~cstale /\ ~sstale

(* A client that stays connected lists the server's first device, unless   *)
(* a dialog is open, a read was cut or an old connection left bytes.       *)
ClientListed ==
  open ~> (clients # {} \/ ~open \/ dialogs # <<>> \/ ~Undisturbed)

(* A transfer the server has started is reported to the client to its last *)
(* byte, unless another takes its place.                                   *)
LastProgress(id) ==
  \E i \in DOMAIN cgot :
    /\ cgot[i].kind = "UpdateProgressMsg"
    /\ cgot[i].clientID = id
    /\ cgot[i].sentSize = cgot[i].fileSize

TransferReported ==
  \A i \in 1..2 :
    LET id == Bytes("clientID", i)
    IN  (open /\ cache # None /\ val = 0 /\ cache.clientID = id)
          ~> (LastProgress(id) \/ ~open \/ dialogs # <<>> \/ ~Undisturbed
              \/ (cache # None /\ cache.clientID # id))

(* A message that is not complete is waited for: the loop gives the thread *)
(* back (the comments of fromByteArray).                                   *)
KeepsWaiting == cparsing ~> ~cparsing
================================================================================
