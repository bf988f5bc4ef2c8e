------------------------------ MODULE ClientWindow ------------------------------
(***************************************************************************)
(* The window of the Qt client (windows_clipboard/src/): the list of       *)
(* devices, a button and a progress bar for each of them, and the dialogs  *)
(* that messages and buttons open.  PipeLink carries the messages; here    *)
(* they come in any order a server may send them in.                       *)
(*                                                                         *)
(* Everything runs in one thread.  A dialog runs an event loop inside the  *)
(* handler that opened it, so handlers nest: while the dialog of a message *)
(* is open the connection it came over dispatches nothing, but timers, the *)
(* end of the connection and the messages of a later one are handled, and  *)
(* all messages are while the file dialog of a button is open.  When the   *)
(* dialog of a message is closed, the parse loop that dispatched it goes   *)
(* on with what the buffer still holds, connected or not.                  *)
(***************************************************************************)
EXTENDS Naturals, Sequences

CONSTANTS
  Clients,     \* clientIDs
  Sizes,       \* sizes a progress message may have
  NoClient,    \* the client of a message box
  MaxMessages, \* bound: messages of the server
  MaxClicks,   \* bound: files the user sends
  MaxConns     \* bound: connections

ASSUME WindowAssumption ==
  /\ Sizes \subseteq Nat
  /\ NoClient \notin Clients
  /\ {MaxMessages, MaxClicks, MaxConns} \subseteq Nat

VARIABLES
  connected,  \* namedPipeConnected
  conn,       \* number of the connection
  clientVec,  \* g_getGlobalData()->m_clientVec
  shown,      \* the DeviceInfo widgets of the list
  refreshes,  \* 50 ms timers of pipeDisconnected that run
  loops,      \* event loops inside handlers, innermost last
  parsing,    \* connection whose read runs the parse loop, 0: none does
  buffered,   \* messages in ProcessMessage::m_buffer
  crashed,    \* was a widget deleted under its file dialog?
  messages, clicks, \* what is left of the bounds
  running,    \* history: clients a transfer was agreed with on this
              \* connection and not yet reported complete
  orphan,     \* history: was a transfer reported complete for a client that
              \* was not listed, since the list was last made anew?
  unsent      \* history: was a transfer started without a connection to send
              \* it over, since then?

receiving == <<connected, conn, parsing, buffered, messages>>
history == <<running, orphan, unsent>>
vars == <<receiving, clientVec, shown, refreshes, loops, crashed, clicks, history>>

Init ==
  /\ connected = FALSE /\ conn = 0
  /\ clientVec = <<>> /\ shown = <<>>
  /\ refreshes = 0
  /\ loops = <<>>
  /\ parsing = 0 /\ buffered = 0
  /\ crashed = FALSE
  /\ messages = MaxMessages /\ clicks = MaxClicks
  /\ running = {} /\ orphan = FALSE /\ unsent = FALSE

-----------------------------------------------------------------------------
(* The list.                                                               *)

(* The constructor of DeviceInfo.                                          *)
DeviceInfo(c) == [id |-> c.id, enabled |-> TRUE, bar |-> 0]

(* DeviceInfoList::onUpdateClientList: all widgets are made anew.  If one  *)
(* of them is the parent of an open file dialog, that dialog, a local      *)
(* variable of a function that has not returned, is deleted with it.       *)
onUpdateClientList(vec) ==
  /\ shown' = [i \in DOMAIN vec |-> DeviceInfo(vec[i])]
  /\ crashed' = (crashed \/ \E i \in DOMAIN loops : loops[i].kind = "file")
  /\ orphan' = FALSE /\ unsent' = FALSE

(* updateControlStatus, to all widgets.                                    *)
onUpdateControlStatus(widgets, status) ==
  [i \in DOMAIN widgets |-> [widgets[i] EXCEPT !.enabled = status]]

(* A mutant: buttons are left.                                             *)
ProgressKeepsButtons(val, id) ==
  LET bars == [i \in DOMAIN shown |->
                 [shown[i] EXCEPT !.bar = IF shown[i].id = id THEN val ELSE 0]]
  IN  IF val > 100 /\ \E i \in DOMAIN shown : shown[i].id = id
      THEN onUpdateControlStatus(bars, TRUE) ELSE bars

(* updateProgressInfoWithID, to all widgets.                               *)
onUpdateProgressInfoWithID(val, id) ==
  LET bars == [i \in DOMAIN shown |->
                 [shown[i] EXCEPT !.bar = IF shown[i].id = id THEN val ELSE 0]]
  IN  IF val >= 100 /\ \E i \in DOMAIN shown : shown[i].id = id
      THEN onUpdateControlStatus(bars, TRUE) ELSE bars

Listed(id) == \E i \in DOMAIN clientVec : clientVec[i].id = id

-----------------------------------------------------------------------------
(* onDispatchMessage, one action for each kind of message.                 *)

FromServer == {"accept", "dir", "box"}

Idle == parsing = 0 /\ ~crashed

(* A read: its messages join those of the buffer, and the loop starts.     *)
Receive ==
  /\ Idle /\ connected
  /\ \A i \in DOMAIN loops : ~(loops[i].kind \in FromServer /\ loops[i].conn = conn)
  /\ \E k \in 1..messages : messages' = messages - k /\ buffered' = buffered + k
  /\ parsing' = conn
  /\ UNCHANGED <<connected, conn, clientVec, shown, refreshes, loops, crashed, clicks,
                 history>>

(* The loop takes the next message, and ends with the last one.            *)
Dispatch ==
  /\ parsing # 0 /\ buffered > 0 /\ ~crashed
  /\ buffered' = buffered - 1
  /\ UNCHANGED <<connected, conn, messages>>

GoOn == parsing' = IF buffered' = 0 THEN 0 ELSE parsing

(* A handler that opens a dialog, and the parse loop if one runs it, wait. *)
Open(kind, id, c) == loops' = Append(loops, [kind |-> kind, id |-> id, conn |-> c])

GetConnStatusResponse ==
  /\ Dispatch
  /\ Open("box", NoClient, parsing) /\ parsing' = 0
  /\ UNCHANGED <<clientVec, shown, refreshes, crashed, clicks, history>>

RemoveAt(s, i) == SubSeq(s, 1, i - 1) \o SubSeq(s, i + 1, Len(s))

(* A mutant: the first entry decides.                                      *)
UpdatedFirst(id, status) ==
  LET new == [id |-> id, status |-> status]
  IN  IF clientVec = <<>> \/ clientVec[1].id # id THEN Append(clientVec, new)
      ELSE IF clientVec[1].status = 0 THEN RemoveAt(clientVec, 1)
                                      ELSE [clientVec EXCEPT ![1] = new]

(* What a status message makes of the list: a client that is not there is  *)
(* added, whatever its status; one that is there is removed if the status  *)
(* it had was 0.                                                           *)
Updated(id, status) ==
  LET new == [id |-> id, status |-> status]
  IN  IF ~Listed(id) THEN Append(clientVec, new)
      ELSE LET i == CHOOSE i \in DOMAIN clientVec :
                      clientVec[i].id = id /\ \A j \in 1..(i - 1) : clientVec[j].id # id
           IN  IF clientVec[i].status = 0 THEN RemoveAt(clientVec, i)
                                          ELSE [clientVec EXCEPT ![i] = new]

UpdateClientStatus ==
  /\ Dispatch
  /\ \E id \in Clients, status \in {0, 1} : clientVec' = Updated(id, status)
  /\ onUpdateClientList(clientVec')
  /\ GoOn
  /\ UNCHANGED <<refreshes, loops, clicks, running>>

SendFileRequest ==
  /\ Dispatch
  /\ \E id \in Clients : Open("accept", id, parsing)
  /\ parsing' = 0
  /\ UNCHANGED <<clientVec, shown, refreshes, crashed, clicks, history>>

(* A mutant: the server may have sent more than there is.                  *)
ProgressUncapped(sent, total) ==
  IF total = 0 THEN 100 ELSE (sent * 100) \div total

Progress(sent, total) ==
  IF sent >= total THEN 100 ELSE (sent * 100) \div total

UpdateProgress ==
  /\ Dispatch
  /\ \E id \in Clients, sent \in Sizes, total \in Sizes :
       LET val == Progress(sent, total)
       IN  /\ shown' = onUpdateProgressInfoWithID(val, id)
           /\ running' = IF val >= 100 THEN running \ {id} ELSE running
           /\ orphan' = (orphan \/ (val >= 100 /\ ~Listed(id)))
  /\ GoOn
  /\ UNCHANGED <<clientVec, refreshes, loops, crashed, clicks, unsent>>

-----------------------------------------------------------------------------
(* The user.  Dialogs are modal: only the innermost one gets his input,    *)
(* and the window gets it only when there is none.                         *)

Top == loops[Len(loops)]
Innermost(kind) == Idle /\ loops # <<>> /\ Top.kind = kind

(* The handler returns, and a parse loop that waited for it goes on.       *)
Close ==
  /\ loops' = SubSeq(loops, 1, Len(loops) - 1)
  /\ parsing' = IF Top.kind \in FromServer /\ buffered > 0 THEN Top.conn ELSE 0

(* A message that starts a transfer goes out, if there is a connection,    *)
(* and the buttons are disabled.                                           *)
Start(id) ==
  /\ running' = IF connected THEN running \cup {id} ELSE running
  /\ unsent' = (unsent \/ (~connected /\ clientVec # <<>>))
  /\ shown' = onUpdateControlStatus(shown, FALSE)

AcceptClicked ==
  /\ Innermost("accept")
  /\ loops' = [loops EXCEPT ![Len(loops)].kind = "dir"]
  /\ UNCHANGED <<receiving, clientVec, shown, refreshes, crashed, clicks, history>>

(* The refusal goes out; without a directory nothing does.                 *)
Dismissed ==
  /\ \E kind \in {"accept", "dir", "box", "file"} : Innermost(kind)
  /\ Close
  /\ UNCHANGED <<connected, conn, buffered, messages, clientVec, shown, refreshes, crashed,
                 clicks, history>>

DirChosen ==
  /\ Innermost("dir")
  /\ Start(Top.id)
  /\ Close
  /\ UNCHANGED <<connected, conn, buffered, messages, clientVec, refreshes, crashed, clicks,
                 orphan>>

(* onOpenFile of a button whose client is still listed.                    *)
OpenFile ==
  /\ Idle /\ loops = <<>> /\ clicks > 0
  /\ clicks' = clicks - 1
  /\ \E i \in DOMAIN shown :
       /\ shown[i].enabled /\ Listed(shown[i].id)
       /\ Open("file", shown[i].id, conn)
  /\ UNCHANGED <<receiving, clientVec, shown, refreshes, crashed, history>>

FileChosen ==
  /\ Innermost("file")
  /\ Start(Top.id)
  /\ Close
  /\ UNCHANGED <<connected, conn, buffered, messages, clientVec, refreshes, crashed, clicks,
                 orphan>>

-----------------------------------------------------------------------------
(* The connection.                                                         *)

Connect ==
  /\ ~connected /\ Idle /\ conn < MaxConns
  /\ connected' = TRUE /\ conn' = conn + 1
  /\ UNCHANGED <<parsing, buffered, messages, clientVec, shown, refreshes, loops, crashed,
                 clicks, history>>

(* The buffer keeps what it holds.                                         *)
Disconnected ==
  /\ connected /\ Idle
  /\ connected' = FALSE
  /\ clientVec' = <<>>
  /\ refreshes' = refreshes + 1
  /\ running' = {}
  /\ UNCHANGED <<conn, parsing, buffered, messages, shown, loops, crashed, clicks, orphan,
                 unsent>>

(* A mutant: the timer refreshes only while there is no connection.        *)
RefreshIfGone ==
  /\ refreshes > 0 /\ Idle
  /\ refreshes' = refreshes - 1
  /\ IF connected THEN UNCHANGED <<shown, crashed, orphan, unsent>> ELSE onUpdateClientList(clientVec)
  /\ UNCHANGED <<receiving, clientVec, loops, clicks, running>>

(* The timer of DeviceInfoList, 50 ms after the end of the connection.     *)
Refresh ==
  /\ refreshes > 0 /\ Idle
  /\ refreshes' = refreshes - 1
  /\ onUpdateClientList(clientVec)
  /\ UNCHANGED <<receiving, clientVec, loops, clicks, running>>

Next ==
  \/ Receive \/ GetConnStatusResponse \/ UpdateClientStatus \/ SendFileRequest \/ UpdateProgress
  \/ AcceptClicked \/ Dismissed \/ DirChosen \/ OpenFile \/ FileChosen
  \/ Connect \/ Disconnected \/ Refresh

Spec == Init /\ [][Next]_vars

-----------------------------------------------------------------------------
(* Properties.                                                             *)

Widgets == [id : Clients, enabled : BOOLEAN, bar : 0..100]
Loop == [kind : {"accept", "dir", "file"}, id : Clients, conn : 0..MaxConns]
        \cup [kind : {"box"}, id : {NoClient}, conn : 0..MaxConns]

TypeOK ==
  /\ connected \in BOOLEAN /\ conn \in 0..MaxConns
  /\ clientVec \in Seq([id : Clients, status : {0, 1}])
  /\ shown \in Seq(Widgets)
  /\ refreshes \in Nat
  /\ loops \in Seq(Loop)
  /\ parsing \in 0..MaxConns /\ buffered \in 0..(MaxMessages - messages)
  /\ crashed \in BOOLEAN /\ orphan \in BOOLEAN /\ unsent \in BOOLEAN
  /\ messages \in 0..MaxMessages /\ clicks \in 0..MaxClicks
  /\ running \subseteq Clients

(* The list holds a client once, whatever statuses come for it.            *)
OneEntryPerClient ==
  \A i, j \in DOMAIN clientVec : clientVec[i].id = clientVec[j].id => i = j

(* The window shows the clients of the list in its order, or is about to,  *)
(* through dialogs and connections that end inside them.                   *)
ShownIsListed ==
  refreshes > 0 \/
    /\ Len(shown) = Len(clientVec)
    /\ \A i \in DOMAIN shown : shown[i].id = clientVec[i].id

(* A button is disabled only while a transfer is under way, so the buttons *)
(* cannot stay disabled when the last one has been reported complete.      *)
(* Two things keep them so until the list is made anew: a transfer is      *)
(* reported for a client that is not listed, and the user sends a file, or *)
(* takes one, with clients listed after the connection has ended, as the   *)
(* messages a dialog held up leave them.                                   *)
ButtonsComeBack ==
  (\E i \in DOMAIN shown : ~shown[i].enabled) =>
    running # {} \/ refreshes > 0 \/ orphan \/ unsent
================================================================================
