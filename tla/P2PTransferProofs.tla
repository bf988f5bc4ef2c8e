--------------------------- MODULE P2PTransferProofs ---------------------------
(***************************************************************************)
(* Proofs about P2PTransfer, for any set of nodes, files and connections,  *)
(* any number of user operations and of link failures: its types, the      *)
(* mutex discipline around Handler.State, what becomes of a paste, and     *)
(* what the receive loop gets.                                             *)
(***************************************************************************)
EXTENDS P2PTransfer, SequenceTheorems, TLAPS

-----------------------------------------------------------------------------
(* Types *)

(* A drop callback that holds the mutex has a file to store.  Without this *)
(* the size it stores would be unknown.                                    *)
DroppingHasFile == \A n \in Nodes : dropping[n] => dropReq[n] \in Files

(* The inductive invariant.                                                *)
TypeInv == TypeOK /\ DroppingHasFile

(* Both ends of a connection are links, of different nodes.                *)
LEMMA LinkOf ==
  \A n \in Nodes : \A m \in Peers(n), c \in Conns :
    /\ n # m /\ m \in Nodes /\ n \in Peers(m) /\ <<n, m>> \in Pairs
    /\ <<n, m, c>> \in Links /\ <<m, n, c>> \in Links
  BY DEF Links, Pairs, Peers

(* The messages the code builds, and the chunks of a file, are items.      *)
LEMMA ItemTypes ==
  /\ \A cmd \in InbandCmds, fmt \in Fmts, hash \in Hashes, file \in Files \cup {None},
        size \in Nat : Message(cmd, fmt, hash, file, size) \in Items
  /\ \A cmd \in InbandCmds, fmt \in Fmts : Plain(cmd, fmt) \in Items
  /\ \A f \in Files \cup {None}, i \in Nat : Chunk(f, i) \in Items
  BY DEF Message, Plain, Chunk, Items, InbandCmds, Fmts, Hashes, NoHash

(* The hashes the code computes.                                           *)
LEMMA HashTypes ==
  /\ \A f \in Files : <<"copy", f>> \in Hashes /\ <<"drop", f>> \in Hashes
  /\ NoHash \in Hashes /\ <<"text", None>> \in Hashes
  BY DEF Hashes, NoHash

(* Putting an item on a stream keeps the type of the streams.              *)
LEMMA SendType ==
  ASSUME chan \in [Links -> Seq(Items)], NEW n \in Nodes, NEW m \in Peers(n), NEW c \in Conns,
         NEW item \in Items, Send(n, m, c, item)
  PROVE  chan' \in [Links -> Seq(Items)]
  <1>1. <<n, m, c>> \in Links /\ chan[<<n, m, c>>] \in Seq(Items)
    BY LinkOf
  <1>2. Append(chan[<<n, m, c>>], item) \in Seq(Items)
    BY <1>1, AppendProperties
  <1> QED
    BY <1>1, <1>2 DEF Send

(* Taking items off a stream keeps it too.                                 *)
LEMMA TakeType ==
  ASSUME NEW s \in Seq(Items), NEW k \in 1..Len(s)
  PROVE  /\ SubSeq(s, 1, k) \in Seq(Items)
         /\ SubSeq(s, k + 1, Len(s)) \in Seq(Items)
         /\ Head(s) \in Items
         /\ Tail(s) \in Seq(Items)
  <1>1. s # <<>>
    OBVIOUS
  <1>2. SubSeq(s, 1, k) \in Seq(Items)
    BY SubSeqProperties
  <1>3. SubSeq(s, k + 1, Len(s)) \in Seq(Items)
    BY SubSeqProperties
  <1> QED
    BY <1>1, <1>2, <1>3, HeadTailProperties

(* HandleDataCopyProcess keeps the types of the clipboard records, of the  *)
(* source and of the streams.                                              *)
LEMMA AnnounceTypes ==
  ASSUME TypeOK, NEW n \in Nodes, NEW m \in Peers(n), NEW c \in Conns, NEW item \in Items,
         Announce(n, m, c, item) \/ (cb' = cb /\ srcIP' = srcIP /\ chan' = chan)
  PROVE  /\ cb' \in [Pairs -> [hash : Hashes, fmt : Fmts]]
         /\ srcIP' \in [Nodes -> Nodes \cup {None}]
         /\ chan' \in [Links -> Seq(Items)]
  <1>1. /\ cb \in [Pairs -> [hash : Hashes, fmt : Fmts]]
        /\ srcIP \in [Nodes -> Nodes \cup {None}]
        /\ chan \in [Links -> Seq(Items)]
    BY DEF TypeOK
  <1>2. <<n, m, c>> \in Links
    BY LinkOf
  <1>3. item.hash \in Hashes /\ item.fmt \in Fmts
    BY DEF Items
  <1>4. CASE cb' = cb /\ srcIP' = srcIP /\ chan' = chan
    BY <1>1, <1>4
  <1>5. CASE /\ cb' = [cb EXCEPT ![<<n, m>>] = [hash |-> item.hash, fmt |-> item.fmt]]
             /\ srcIP' = [srcIP EXCEPT ![n] = n]
             /\ Send(n, m, c, item)
    <2>1. chan' \in [Links -> Seq(Items)]
      BY <1>1, <1>5, SendType
    <2> QED
      BY <1>1, <1>2, <1>3, <1>5, <2>1
  <1> QED
    BY <1>4, <1>5 DEF Announce

(* Using up a user operation keeps the type of the bounds.                 *)
LEMMA UseType ==
  ASSUME TypeOK, NEW k \in UserOps, Use(k)
  PROVE  budget' \in [UserOps -> Nat]
  BY DEF TypeOK, Use

(* An event for the text watchers keeps the type of textPend.              *)
LEMMA TextEventType ==
  ASSUME TypeOK, NEW n \in Nodes
  PROVE  TextEvent(n) \in [Links -> BOOLEAN]
  <1>1. \A l \in Links : (IF l[1] = n THEN wpc[l] # "dead" ELSE textPend[l]) \in BOOLEAN
    BY DEF TypeOK
  <1> QED
    BY <1>1 DEF TextEvent

(* The end of a reception keeps the types of what it resets.               *)
LEMMA EndReceiveTypes ==
  ASSUME TypeInv, NEW n \in Nodes, NEW m \in Peers(n), NEW c \in Conns, EndReceive(n, m, c),
         chan' \in [Links -> Seq(Items)]
  PROVE  TypeInv'
  <1>1. recv' \in [Nodes -> [size : Nat, fmt : Fmts, got : Seq(Items)]]
    <2>1. [size |-> 0, fmt |-> "", got |-> <<>>] \in [size : Nat, fmt : Fmts, got : Seq(Items)]
      BY EmptySeq DEF Fmts
    <2> QED
      BY <2>1 DEF TypeInv, TypeOK, EndReceive
  <1>2. /\ dst' \in [Nodes -> DstStates]
        /\ srcIP' \in [Nodes -> Nodes \cup {None}]
        /\ copySize' \in [Nodes -> Nat]
        /\ state' \in [Nodes -> States]
        /\ locked' \in [Nodes -> BOOLEAN]
        /\ wpc' \in [Links -> WriterStates]
    BY DEF TypeInv, TypeOK, DstStates, States, WriterStates, EndReceive
  <1>3. UNCHANGED <<appoint, copyFile, userVars, cb, watchVars, rpc, rmsg, serve, acked, up>>
    BY DEF EndReceive
  <1>4. taken' \subseteq Links
    BY DEF TypeInv, TypeOK, EndReceive
  <1> QED
    BY <1>1, <1>2, <1>3, <1>4 DEF TypeInv, TypeOK, DroppingHasFile, userVars, callVars,
       askVars, watchVars, textVars, fileVars, stateVars

-----------------------------------------------------------------------------
(* The steps of the specification, by who takes them: first the types of  *)
(* what an action changes, then the rest.                                  *)

(* The text by which a node sets up its end of a connection.               *)
LEMMA StartTypes ==
  ASSUME TypeInv, NEW n \in Nodes, NEW m \in Peers(n), NEW c \in Conns, Start(n, m, c),
         up' \subseteq Links, budget' \in [UserOps -> Nat]
  PROVE  TypeInv'
  <1>1. <<n, m, c>> \in Links /\ <<n, m>> \in Pairs
    BY LinkOf
  <1>2. cb' \in [Pairs -> [hash : Hashes, fmt : Fmts]]
    BY <1>1, HashTypes DEF TypeInv, TypeOK, Fmts, Start
  <1>3. /\ rpc' \in [Links -> ReaderStates]
        /\ wpc' \in [Links -> WriterStates]
    BY <1>1 DEF TypeInv, TypeOK, ReaderStates, WriterStates, Start
  <1>4. /\ textPend' \in [Links -> BOOLEAN]
        /\ textHeld' \in [Links -> BOOLEAN]
        /\ pend' \in [Links -> BOOLEAN]
    BY <1>1 DEF TypeInv, TypeOK, Start
  <1>5. dropFlag' \in [Pairs -> BOOLEAN]
    <2>1. PICK listed \in BOOLEAN :
            dropFlag' = IF listed THEN dropFlag ELSE [dropFlag EXCEPT ![<<n, m>>] = FALSE]
      BY DEF Start
    <2> QED
      BY <1>1, <2>1 DEF TypeInv, TypeOK
  <1>6. /\ last' \in [Links -> Files \cup {None}]
        /\ fileHeld' \in [Links -> Files \cup {None}]
        /\ cur' \in [Links -> States]
    BY <1>1 DEF TypeInv, TypeOK, Start
  <1>7. UNCHANGED <<handlerVars, offer, callVars, history, rmsg, serve, recvVars, chan>>
    BY DEF Start
  <1> QED
    BY <1>2, <1>3, <1>4, <1>5, <1>6, <1>7 DEF TypeInv, TypeOK, DroppingHasFile,
       recvVars, handlerVars, callVars

(* The user, the platform's callbacks and the network.                     *)
LEMMA UserTypes ==
  ASSUME TypeInv
  PROVE  /\ \A n \in Nodes : \A f \in Files : UserCopyFile(n, f) => TypeInv'
         /\ \A n \in Nodes : StoreCopySize(n) => TypeInv'
         /\ \A n \in Nodes : UserCopyText(n) => TypeInv'
         /\ \A n \in Nodes : UserPaste(n) => TypeInv'
         /\ \A n \in Nodes : \A m \in Peers(n) : \A f \in Files : UserDrop(n, m, f) => TypeInv'
         /\ \A n \in Nodes : FileDropRequest(n) => TypeInv'
         /\ \A n \in Nodes : FileDropRequestEnds(n) => TypeInv'
         /\ \A n \in Nodes : \A m \in Peers(n), c \in Conns : \A accept \in BOOLEAN :
              FileDropResponse(n, m, c, accept) => TypeInv'
         /\ \A n \in Nodes : \A m \in Peers(n), c \in Conns : Disconnect(n, m, c) => TypeInv'
         /\ \A n \in Nodes : \A m \in Peers(n), c \in Conns : Connect(n, m, c) => TypeInv'
         /\ \A n \in Nodes : \A m \in Peers(n), c \in Conns :
              MdnsHandleStream(n, m, c) => TypeInv'
  <1>1. ASSUME NEW n \in Nodes, NEW f \in Files, UserCopyFile(n, f)
        PROVE  TypeInv'
    <2>1. /\ budget' \in [UserOps -> Nat]
          /\ copyFile' \in [Nodes -> Files \cup {None}]
          /\ sizePend' \in [Nodes -> Files \cup {None}]
          /\ offer' \in [Nodes -> Files \cup {None}]
      BY <1>1 DEF TypeInv, TypeOK, UserOps, Use, UserCopyFile
    <2>2. UNCHANGED <<state, locked, srcIP, appoint, copySize, dst, dropReq, dropping,
                      history, cb, watchVars, threadVars, netVars>>
      BY <1>1 DEF UserCopyFile
    <2> QED
      BY <2>1, <2>2 DEF TypeInv, TypeOK, DroppingHasFile, recvVars, textVars, fileVars, stateVars,
         watchVars, threadVars, netVars
  <1>2. ASSUME NEW n \in Nodes, StoreCopySize(n)
        PROVE  TypeInv'
    <2>1. /\ copySize' \in [Nodes -> Nat]
          /\ sizePend' \in [Nodes -> Files \cup {None}]
      BY <1>2, FSizeAssumption DEF TypeInv, TypeOK, StoreCopySize
    <2>2. UNCHANGED <<state, locked, srcIP, appoint, copyFile, dst, offer, dropReq,
                      dropping, askVars, cb, watchVars, threadVars, netVars>>
      BY <1>2 DEF StoreCopySize
    <2> QED
      BY <2>1, <2>2 DEF TypeInv, TypeOK, DroppingHasFile, recvVars, askVars, textVars, fileVars,
         stateVars, watchVars, threadVars, netVars
  <1>3. ASSUME NEW n \in Nodes, UserCopyText(n)
        PROVE  TypeInv'
    <2>1. textPend' \in [Links -> BOOLEAN]
      BY <1>3, TextEventType DEF TypeInv, TypeOK, UserCopyText
    <2>2. /\ budget' \in [UserOps -> Nat]
          /\ textPend' \in [Links -> BOOLEAN]
          /\ offer' \in [Nodes -> Files \cup {None}]
      BY <1>3, <2>1 DEF TypeInv, TypeOK, UserOps, Use, UserCopyText
    <2>3. UNCHANGED <<handlerVars, callVars, history, cb, textHeld, fileVars, stateVars,
                      threadVars, netVars>>
      BY <1>3 DEF UserCopyText
    <2> QED
      BY <2>2, <2>3 DEF TypeInv, TypeOK, DroppingHasFile, recvVars, handlerVars, callVars,
         fileVars, stateVars, threadVars, netVars
  <1>4. ASSUME NEW n \in Nodes, UserPaste(n)
        PROVE  TypeInv'
    <2>1. /\ budget' \in [UserOps -> Nat]
          /\ state' \in [Nodes -> States]
      BY <1>4 DEF TypeInv, TypeOK, UserOps, Use, States, UserPaste
    <2>2. UNCHANGED <<locked, srcIP, appoint, copyFile, copySize, dst, offer, callVars,
                      history, cb, watchVars, threadVars, netVars>>
      BY <1>4 DEF UserPaste
    <2> QED
      BY <2>1, <2>2 DEF TypeInv, TypeOK, DroppingHasFile, recvVars, callVars, textVars, fileVars,
         stateVars, watchVars, threadVars, netVars
  <1>5. ASSUME NEW n \in Nodes, NEW m \in Peers(n), NEW f \in Files, UserDrop(n, m, f)
        PROVE  TypeInv'
    <2>1. history' \subseteq [node : Nodes, file : Files, peer : Nodes]
      <3>1. m \in Nodes
        BY DEF Peers
      <3>2. [node |-> n, file |-> f, peer |-> m] \in [node : Nodes, file : Files, peer : Nodes]
        BY <3>1
      <3>3. history' = history \cup {[node |-> n, file |-> f, peer |-> m]}
        BY <1>5 DEF UserDrop
      <3> QED  BY <3>2, <3>3 DEF TypeInv, TypeOK
    <2>2. /\ budget' \in [UserOps -> Nat]
          /\ appoint' \in [Nodes -> Nodes \cup {None}]
          /\ dropReq' \in [Nodes -> Files \cup {None}]
      BY <1>5 DEF TypeInv, TypeOK, UserOps, Use, UserDrop, Peers
    <2>3. UNCHANGED <<state, locked, srcIP, copyFile, copySize, dst, offer, sizePend,
                      dropping, cb, watchVars, threadVars, netVars>>
      BY <1>5 DEF UserDrop
    <2>4. DroppingHasFile'
      BY <1>5 DEF TypeInv, TypeOK, DroppingHasFile, recvVars, UserDrop
    <2> QED
      BY <2>1, <2>2, <2>3, <2>4 DEF TypeInv, TypeOK, textVars, fileVars, stateVars,
         watchVars, threadVars, recvVars, netVars
  <1>6. ASSUME NEW n \in Nodes, FileDropRequest(n)
        PROVE  TypeInv'
    <2>1. dropFlag' \in [Pairs -> BOOLEAN]
      <3>1. ASSUME NEW p \in Pairs
            PROVE  (IF p[1] = n THEN p \in DropMapped ELSE dropFlag[p]) \in BOOLEAN
        <4>1. (p \in DropMapped) \in BOOLEAN
          OBVIOUS
        <4>2. dropFlag[p] \in BOOLEAN
          BY DEF TypeInv, TypeOK
        <4> QED
          BY <4>1, <4>2, Zenon
      <3>2. dropFlag' = [p \in Pairs |-> IF p[1] = n THEN p \in DropMapped ELSE dropFlag[p]]
        BY <1>6 DEF FileDropRequest
      <3> QED
        BY <3>1, <3>2, Zenon
    <2>2. /\ locked' \in [Nodes -> BOOLEAN]
          /\ dropping' \in [Nodes -> BOOLEAN]
          /\ dropFlag' \in [Pairs -> BOOLEAN]
          /\ state' \in [Nodes -> States]
      BY <1>6, <2>1 DEF TypeInv, TypeOK, States, FileDropRequest
    <2>3. UNCHANGED <<srcIP, appoint, copyFile, copySize, dst, offer, sizePend, dropReq,
                      askVars, cb, textVars, last, fileHeld, stateVars, threadVars,
                      netVars>>
      BY <1>6 DEF FileDropRequest
    <2>4. DroppingHasFile'
      BY <1>6 DEF TypeInv, TypeOK, DroppingHasFile, recvVars, FileDropRequest
    <2> QED
      BY <2>2, <2>3, <2>4 DEF TypeInv, TypeOK, askVars, textVars, stateVars, threadVars, recvVars,
         netVars
  <1>7. ASSUME NEW n \in Nodes, FileDropRequestEnds(n)
        PROVE  TypeInv'
    <2>1. /\ copySize' \in [Nodes -> Nat]
          /\ copyFile' \in [Nodes -> Files \cup {None}]
          /\ srcIP' \in [Nodes -> Nodes \cup {None}]
          /\ dropReq' \in [Nodes -> Files \cup {None}]
          /\ dropping' \in [Nodes -> BOOLEAN]
          /\ locked' \in [Nodes -> BOOLEAN]
      BY <1>7, FSizeAssumption DEF TypeInv, TypeOK, DroppingHasFile, recvVars, FileDropRequestEnds
    <2>2. UNCHANGED <<state, appoint, dst, offer, sizePend, askVars, cb, watchVars,
                      threadVars, netVars>>
      BY <1>7 DEF FileDropRequestEnds
    <2>3. DroppingHasFile'
      BY <1>7 DEF TypeInv, TypeOK, DroppingHasFile, recvVars, FileDropRequestEnds
    <2> QED
      BY <2>1, <2>2, <2>3 DEF TypeInv, TypeOK, askVars, textVars, fileVars, stateVars,
         watchVars, threadVars, recvVars, netVars
  <1>8. ASSUME NEW n \in Nodes, NEW m \in Peers(n), NEW c \in Conns, NEW accept \in BOOLEAN,
               FileDropResponse(n, m, c, accept)
        PROVE  TypeInv'
    <2>1. /\ state' \in [Nodes -> States]
          /\ dst' \in [Nodes -> DstStates]
          /\ cb' \in [Pairs -> [hash : Hashes, fmt : Fmts]]
          /\ locked' \in [Nodes -> BOOLEAN]
          /\ rpc' \in [Links -> ReaderStates]
      BY <1>8, LinkOf DEF TypeInv, TypeOK, States, DstStates, ReaderStates, StoreAll,
         Items, FileDropResponse
    <2>2. UNCHANGED <<srcIP, appoint, copyFile, copySize, userVars, watchVars, rmsg,
                      wpc, serve, recvVars, netVars>>
      BY <1>8 DEF FileDropResponse
    <2> QED
      BY <2>1, <2>2 DEF TypeInv, TypeOK, DroppingHasFile, recvVars, callVars, askVars, userVars,
         textVars, fileVars, stateVars, watchVars, netVars
  <1>9. ASSUME NEW n \in Nodes, NEW m \in Peers(n), NEW c \in Conns, Disconnect(n, m, c)
        PROVE  TypeInv'
    <2>1. chan' \in [Links -> Seq(Items)]
      BY <1>9, LinkOf, EmptySeq DEF TypeInv, TypeOK, Disconnect
    <2>2. /\ budget' \in [UserOps -> Nat]
          /\ up' \subseteq Links
          /\ chan' \in [Links -> Seq(Items)]
      BY <1>9, <2>1, UseType DEF TypeInv, TypeOK, UserOps, Disconnect
    <2>3. UNCHANGED <<handlerVars, offer, callVars, history, cb, watchVars, threadVars>>
      BY <1>9 DEF Disconnect
    <2> QED
      BY <2>2, <2>3 DEF TypeInv, TypeOK, DroppingHasFile, recvVars, handlerVars, callVars,
         textVars, fileVars, stateVars, watchVars, threadVars
  <1>10. ASSUME NEW n \in Nodes, NEW m \in Peers(n), NEW c \in Conns, Connect(n, m, c)
        PROVE  TypeInv'
    <2>1. up' \subseteq Links /\ budget' \in [UserOps -> Nat]
      BY <1>10, LinkOf, UseType DEF TypeInv, TypeOK, UserOps, Connect
    <2> QED
      BY <1>10, <2>1, StartTypes DEF Connect
  <1>11. ASSUME NEW n \in Nodes, NEW m \in Peers(n), NEW c \in Conns,
                MdnsHandleStream(n, m, c)
        PROVE  TypeInv'
    BY <1>11, StartTypes DEF TypeInv, TypeOK, MdnsHandleStream
  <1> QED
    BY <1>1, <1>2, <1>3, <1>4, <1>5, <1>6, <1>7, <1>8, <1>9, <1>10, <1>11

(* P2PRead.                                                                *)
LEMMA ReaderTypes ==
  ASSUME TypeInv
  PROVE  /\ \A n \in Nodes : \A m \in Peers(n), c \in Conns : PollState(n, m, c) => TypeInv'
         /\ \A n \in Nodes : \A m \in Peers(n), c \in Conns : ReadFromSocket(n, m, c) => TypeInv'
         /\ \A n \in Nodes : \A m \in Peers(n), c \in Conns : ReadFails(n, m, c) => TypeInv'
         /\ \A n \in Nodes : \A m \in Peers(n), c \in Conns : CheckSource(n, m, c) => TypeInv'
         /\ \A n \in Nodes : \A m \in Peers(n), c \in Conns : AcceptFileReq(n, m, c) => TypeInv'
         /\ \A n \in Nodes : \A m \in Peers(n), c \in Conns : AcceptDropInitiate(n, m, c) => TypeInv'
         /\ \A n \in Nodes : \A m \in Peers(n), c \in Conns : AcceptAck(n, m, c) => TypeInv'
         /\ \A n \in Nodes : \A m \in Peers(n), c \in Conns : NotATransfer(n, m, c) => TypeInv'
         /\ \A n \in Nodes : \A m \in Peers(n), c \in Conns : HandleDataPasteToCB(n, m, c) => TypeInv'
         /\ \A n \in Nodes : \A m \in Peers(n), c \in Conns : OpenSrcFile(n, m, c) => TypeInv'
         /\ \A n \in Nodes : \A m \in Peers(n), c \in Conns : NothingToServe(n, m, c) => TypeInv'
         /\ \A n \in Nodes : \A m \in Peers(n), c \in Conns : SendChunk(n, m, c) => TypeInv'
         /\ \A n \in Nodes : \A m \in Peers(n), c \in Conns : FinishServe(n, m, c) => TypeInv'
         /\ \A n \in Nodes : \A m \in Peers(n), c \in Conns : FailServe(n, m, c) => TypeInv'
  <1>1. ASSUME NEW n \in Nodes, NEW m \in Peers(n), NEW c \in Conns, PollState(n, m, c)
        PROVE  TypeInv'
    <2>1. rpc' \in [Links -> ReaderStates]
      BY <1>1 DEF TypeInv, TypeOK, ReaderStates, PollState
    <2>2. UNCHANGED <<handlerVars, userVars, cb, watchVars, rmsg, wpc, serve, recvVars,
                      netVars>>
      BY <1>1 DEF PollState
    <2> QED
      BY <2>1, <2>2 DEF TypeInv, TypeOK, DroppingHasFile, recvVars, handlerVars, callVars,
         askVars, userVars, textVars, fileVars, stateVars, watchVars, netVars
  <1>2. ASSUME NEW n \in Nodes, NEW m \in Peers(n), NEW c \in Conns, ReadFromSocket(n, m, c)
        PROVE  TypeInv'
    <2>1. /\ chan' \in [Links -> Seq(Items)]
          /\ rmsg' \in [Links -> Items]
          /\ rpc' \in [Links -> ReaderStates]
      <3>1. <<n, m, c>> \in Links /\ <<m, n, c>> \in Links /\ chan[<<m, n, c>>] \in Seq(Items)
        BY LinkOf DEF TypeInv, TypeOK
      <3>2. PICK k \in 1..Len(chan[<<m, n, c>>]) :
              LET msg == Head(chan[<<m, n, c>>])
                  ok  == k = 1 /\ msg.cmd # "DATA"
              IN /\ chan' = [chan EXCEPT ![<<m, n, c>>] = SubSeq(@, k + 1, Len(@))]
                 /\ rmsg' = IF ok THEN [rmsg EXCEPT ![<<n, m, c>>] = msg] ELSE rmsg
                 /\ rpc' = [rpc EXCEPT ![<<n, m, c>>] = IF ok THEN "guard" ELSE "poll"]
        BY <1>2 DEF ReadFromSocket
      <3>3. /\ SubSeq(chan[<<m, n, c>>], k + 1, Len(chan[<<m, n, c>>])) \in Seq(Items)
            /\ Head(chan[<<m, n, c>>]) \in Items
        BY <3>1, TakeType
      <3> QED
        BY <3>1, <3>2, <3>3 DEF TypeInv, TypeOK, ReaderStates
    <2>2. UNCHANGED <<handlerVars, userVars, cb, watchVars, wpc, serve, recv, acked, up>>
      BY <1>2 DEF ReadFromSocket
    <2>3. taken' \subseteq Links
      <3>1. <<n, m, c>> \in Links /\ taken \subseteq Links
        BY LinkOf DEF TypeInv, TypeOK
      <3>2. taken' = taken \cup {<<n, m, c>>} \/ taken' = taken \ {<<n, m, c>>}
        BY <1>2 DEF ReadFromSocket
      <3> QED
        BY <3>1, <3>2
    <2> QED
      BY <2>1, <2>2, <2>3 DEF TypeInv, TypeOK, DroppingHasFile, recvVars, handlerVars, callVars,
         askVars, userVars, textVars, fileVars, stateVars, watchVars
  <1>3. ASSUME NEW n \in Nodes, NEW m \in Peers(n), NEW c \in Conns, ReadFails(n, m, c)
        PROVE  TypeInv'
    <2>1. rpc' \in [Links -> ReaderStates]
      BY <1>3 DEF TypeInv, TypeOK, ReaderStates, ReadFails
    <2>2. UNCHANGED <<handlerVars, userVars, cb, watchVars, rmsg, wpc, serve, recvVars,
                      netVars>>
      BY <1>3 DEF ReadFails
    <2> QED
      BY <2>1, <2>2 DEF TypeInv, TypeOK, DroppingHasFile, recvVars, handlerVars, callVars,
         askVars, userVars, textVars, fileVars, stateVars, watchVars, netVars
  <1>4. ASSUME NEW n \in Nodes, NEW m \in Peers(n), NEW c \in Conns, CheckSource(n, m, c)
        PROVE  TypeInv'
    <2>1. rpc' \in [Links -> ReaderStates]
      BY <1>4 DEF TypeInv, TypeOK, ReaderStates, CheckSource
    <2>2. UNCHANGED <<handlerVars, userVars, cb, watchVars, rmsg, wpc, serve, recvVars,
                      netVars>>
      BY <1>4 DEF CheckSource
    <2> QED
      BY <2>1, <2>2 DEF TypeInv, TypeOK, DroppingHasFile, recvVars, handlerVars, callVars,
         askVars, userVars, textVars, fileVars, stateVars, watchVars, netVars
  <1>5. ASSUME NEW n \in Nodes, NEW m \in Peers(n), NEW c \in Conns, AcceptFileReq(n, m, c)
        PROVE  TypeInv'
    <2>1. /\ state' \in [Nodes -> States]
          /\ locked' \in [Nodes -> BOOLEAN]
          /\ rpc' \in [Links -> ReaderStates]
          /\ chan' \in [Links -> Seq(Items)]
      BY <1>5, ItemTypes, SendType DEF TypeInv, TypeOK, States, ReaderStates,
         InbandCmds, Fmts, AcceptFileReq
    <2>2. UNCHANGED <<srcIP, appoint, copyFile, copySize, dst, userVars, cb, watchVars,
                      rmsg, wpc, serve, recvVars, up>>
      BY <1>5 DEF AcceptFileReq
    <2> QED
      BY <2>1, <2>2 DEF TypeInv, TypeOK, DroppingHasFile, recvVars, callVars, askVars, userVars,
         textVars, fileVars, stateVars, watchVars
  <1>6. ASSUME NEW n \in Nodes, NEW m \in Peers(n), NEW c \in Conns, AcceptDropInitiate(n, m, c)
        PROVE  TypeInv'
    <2>1. /\ srcIP' \in [Nodes -> Nodes \cup {None}]
          /\ copySize' \in [Nodes -> Nat]
          /\ locked' \in [Nodes -> BOOLEAN]
          /\ rpc' \in [Links -> ReaderStates]
      BY <1>6, LinkOf DEF TypeInv, TypeOK, ReaderStates, Items, Peers,
         AcceptDropInitiate
    <2>2. UNCHANGED <<state, appoint, copyFile, dst, userVars, cb, watchVars, rmsg, wpc,
                      serve, recvVars, netVars>>
      BY <1>6 DEF AcceptDropInitiate
    <2> QED
      BY <2>1, <2>2 DEF TypeInv, TypeOK, DroppingHasFile, recvVars, callVars, askVars, userVars,
         textVars, fileVars, stateVars, watchVars, netVars
  <1>7. ASSUME NEW n \in Nodes, NEW m \in Peers(n), NEW c \in Conns, AcceptAck(n, m, c)
        PROVE  TypeInv'
    <2>1. /\ state' \in [Nodes -> States]
          /\ rpc' \in [Links -> ReaderStates]
      BY <1>7 DEF TypeInv, TypeOK, States, ReaderStates, AcceptAck
    <2>2. UNCHANGED <<locked, srcIP, appoint, copyFile, copySize, dst, userVars, cb,
                      watchVars, rmsg, wpc, serve, recv, taken, netVars>>
      BY <1>7 DEF AcceptAck
    <2>3. acked' \subseteq Links
      BY <1>7 DEF TypeInv, TypeOK, AcceptAck
    <2> QED
      BY <2>1, <2>2, <2>3 DEF TypeInv, TypeOK, DroppingHasFile, recvVars, callVars, askVars, userVars,
         textVars, fileVars, stateVars, watchVars, netVars
  <1>8. ASSUME NEW n \in Nodes, NEW m \in Peers(n), NEW c \in Conns, NotATransfer(n, m, c)
        PROVE  TypeInv'
    <2>1. rpc' \in [Links -> ReaderStates]
      BY <1>8 DEF TypeInv, TypeOK, ReaderStates, NotATransfer
    <2>2. UNCHANGED <<handlerVars, userVars, cb, watchVars, rmsg, wpc, serve, recvVars,
                      netVars>>
      BY <1>8 DEF NotATransfer
    <2> QED
      BY <2>1, <2>2 DEF TypeInv, TypeOK, DroppingHasFile, recvVars, handlerVars, callVars,
         askVars, userVars, textVars, fileVars, stateVars, watchVars, netVars
  <1>9. ASSUME NEW n \in Nodes, NEW m \in Peers(n), NEW c \in Conns, HandleDataPasteToCB(n, m, c)
        PROVE  TypeInv'
    <2>1. /\ rpc' \in [Links -> ReaderStates]
          /\ textPend' \in [Links -> BOOLEAN]
          /\ srcIP' \in [Nodes -> Nodes \cup {None}]
          /\ copySize' \in [Nodes -> Nat]
          /\ copyFile' \in [Nodes -> Files \cup {None}]
          /\ offer' \in [Nodes -> Files \cup {None}]
          /\ cb' \in [Pairs -> [hash : Hashes, fmt : Fmts]]
      BY <1>9, LinkOf DEF TypeInv, TypeOK, ReaderStates, Items, Peers, StoreAll,
         TextEvent, HandleDataPasteToCB
    <2>2. UNCHANGED <<state, locked, appoint, dst, callVars, askVars, textHeld,
                      fileVars, stateVars, rmsg, wpc, serve, recvVars, netVars>>
      BY <1>9 DEF HandleDataPasteToCB
    <2> QED
      BY <2>1, <2>2 DEF TypeInv, TypeOK, DroppingHasFile, recvVars, callVars, askVars, fileVars,
         stateVars, netVars
  <1>10. ASSUME NEW n \in Nodes, NEW m \in Peers(n), NEW c \in Conns, OpenSrcFile(n, m, c)
        PROVE  TypeInv'
    <2>1. /\ serve' \in [Nodes -> [file : Files \cup {None}, sent : Nat]]
          /\ rpc' \in [Links -> ReaderStates]
      BY <1>10 DEF TypeInv, TypeOK, ReaderStates, OpenSrcFile
    <2>2. UNCHANGED <<handlerVars, userVars, cb, watchVars, rmsg, wpc, recvVars, netVars>>
      BY <1>10 DEF OpenSrcFile
    <2> QED
      BY <2>1, <2>2 DEF TypeInv, TypeOK, DroppingHasFile, recvVars, handlerVars, callVars,
         askVars, userVars, textVars, fileVars, stateVars, watchVars, netVars
  <1>11. ASSUME NEW n \in Nodes, NEW m \in Peers(n), NEW c \in Conns, NothingToServe(n, m, c)
        PROVE  TypeInv'
    <2>1. /\ state' \in [Nodes -> States]
          /\ dst' \in [Nodes -> DstStates]
          /\ appoint' \in [Nodes -> Nodes \cup {None}]
          /\ locked' \in [Nodes -> BOOLEAN]
          /\ rpc' \in [Links -> ReaderStates]
          /\ serve' \in [Nodes -> [file : Files \cup {None}, sent : Nat]]
          /\ chan' \in [Links -> Seq(Items)]
      BY <1>11, ItemTypes, SendType DEF TypeInv, TypeOK, States, DstStates,
         ReaderStates, EndServe, InbandCmds, Fmts, NothingToServe
    <2>2. UNCHANGED <<srcIP, copyFile, copySize, userVars, cb, watchVars, rmsg, wpc,
                      recvVars, up>>
      BY <1>11 DEF NothingToServe, EndServe
    <2> QED
      BY <2>1, <2>2 DEF TypeInv, TypeOK, DroppingHasFile, recvVars, callVars, askVars, userVars,
         textVars, fileVars, stateVars, watchVars
  <1>12. ASSUME NEW n \in Nodes, NEW m \in Peers(n), NEW c \in Conns, SendChunk(n, m, c)
        PROVE  TypeInv'
    <2>1. serve[n] \in [file : Files \cup {None}, sent : Nat]
      BY DEF TypeInv, TypeOK
    <2>2. serve' \in [Nodes -> [file : Files \cup {None}, sent : Nat]]
      <3>1. [serve[n] EXCEPT !.sent = serve[n].sent + 1]
              \in [file : Files \cup {None}, sent : Nat]
        BY <2>1
      <3>2. serve' = [serve EXCEPT ![n] = [serve[n] EXCEPT !.sent = serve[n].sent + 1]]
        BY <1>12 DEF SendChunk
      <3> QED
        BY <3>1, <3>2 DEF TypeInv, TypeOK
    <2>3. chan' \in [Links -> Seq(Items)]
      <3>1. Chunk(serve[n].file, serve[n].sent + 1) \in Items
        BY <2>1, ItemTypes
      <3> QED
        BY <1>12, <3>1, SendType DEF TypeInv, TypeOK, SendChunk
    <2>4. UNCHANGED <<handlerVars, userVars, cb, watchVars, rpc, rmsg, wpc, recvVars, up>>
      BY <1>12 DEF SendChunk
    <2> QED
      BY <2>2, <2>3, <2>4 DEF TypeInv, TypeOK, DroppingHasFile, recvVars, handlerVars, callVars,
         askVars, userVars, textVars, fileVars, stateVars, watchVars
  <1>13. ASSUME NEW n \in Nodes, NEW m \in Peers(n), NEW c \in Conns, FinishServe(n, m, c)
        PROVE  TypeInv'
    <2>1. /\ state' \in [Nodes -> States]
          /\ dst' \in [Nodes -> DstStates]
          /\ appoint' \in [Nodes -> Nodes \cup {None}]
          /\ locked' \in [Nodes -> BOOLEAN]
          /\ rpc' \in [Links -> ReaderStates]
          /\ serve' \in [Nodes -> [file : Files \cup {None}, sent : Nat]]
      BY <1>13 DEF TypeInv, TypeOK, States, DstStates, ReaderStates, EndServe,
         FinishServe
    <2>2. UNCHANGED <<srcIP, copyFile, copySize, userVars, cb, watchVars, rmsg, wpc,
                      recvVars, netVars>>
      BY <1>13 DEF FinishServe, EndServe
    <2> QED
      BY <2>1, <2>2 DEF TypeInv, TypeOK, DroppingHasFile, recvVars, callVars, askVars, userVars,
         textVars, fileVars, stateVars, watchVars, netVars
  <1>14. ASSUME NEW n \in Nodes, NEW m \in Peers(n), NEW c \in Conns, FailServe(n, m, c)
        PROVE  TypeInv'
    <2>1. /\ state' \in [Nodes -> States]
          /\ dst' \in [Nodes -> DstStates]
          /\ appoint' \in [Nodes -> Nodes \cup {None}]
          /\ locked' \in [Nodes -> BOOLEAN]
          /\ rpc' \in [Links -> ReaderStates]
          /\ serve' \in [Nodes -> [file : Files \cup {None}, sent : Nat]]
          /\ chan' \in [Links -> Seq(Items)]
      BY <1>14, ItemTypes, SendType DEF TypeInv, TypeOK, States, DstStates,
         ReaderStates, EndServe, InbandCmds, Fmts, FailServe
    <2>2. UNCHANGED <<srcIP, copyFile, copySize, userVars, cb, watchVars, rmsg, wpc,
                      recvVars, up>>
      BY <1>14 DEF FailServe, EndServe
    <2> QED
      BY <2>1, <2>2 DEF TypeInv, TypeOK, DroppingHasFile, recvVars, callVars, askVars, userVars,
         textVars, fileVars, stateVars, watchVars
  <1> QED
    BY <1>1, <1>2, <1>3, <1>4, <1>5, <1>6, <1>7, <1>8, <1>9, <1>10, <1>11, <1>12, <1>13,
       <1>14

(* The watchers.                                                           *)
LEMMA WatchersTypes ==
  ASSUME TypeInv
  PROVE  /\ \A n \in Nodes : \A m \in Peers(n), c \in Conns : WatchState(n, m, c) => TypeInv'
         /\ \A n \in Nodes : \A m \in Peers(n), c \in Conns : PollFile(n, m, c) => TypeInv'
         /\ \A n \in Nodes : \A m \in Peers(n), c \in Conns : ResetForText(n, m, c) => TypeInv'
  <1>1. ASSUME NEW n \in Nodes, NEW m \in Peers(n), NEW c \in Conns, WatchState(n, m, c)
        PROVE  TypeInv'
    <2>1. /\ cur' \in [Links -> States]
          /\ pend' \in [Links -> BOOLEAN]
      BY <1>1 DEF TypeInv, TypeOK, States, WatchState
    <2>2. UNCHANGED <<handlerVars, userVars, cb, textVars, fileVars, threadVars,
                      netVars>>
      BY <1>1 DEF WatchState
    <2> QED
      BY <2>1, <2>2 DEF TypeInv, TypeOK, DroppingHasFile, recvVars, handlerVars, callVars,
         askVars, userVars, textVars, fileVars, threadVars, netVars
  <1>2. ASSUME NEW n \in Nodes, NEW m \in Peers(n), NEW c \in Conns, PollFile(n, m, c)
        PROVE  TypeInv'
    <2>1. /\ last' \in [Links -> Files \cup {None}]
          /\ fileHeld' \in [Links -> Files \cup {None}]
          /\ dropFlag' \in [Pairs -> BOOLEAN]
      BY <1>2 DEF TypeInv, TypeOK, PollFile
    <2>2. UNCHANGED <<handlerVars, userVars, cb, textVars, stateVars, threadVars,
                      netVars>>
      BY <1>2 DEF PollFile
    <2> QED
      BY <2>1, <2>2 DEF TypeInv, TypeOK, DroppingHasFile, recvVars, handlerVars, callVars,
         askVars, userVars, textVars, stateVars, threadVars, netVars
  <1>3. ASSUME NEW n \in Nodes, NEW m \in Peers(n), NEW c \in Conns, ResetForText(n, m, c)
        PROVE  TypeInv'
    <2>1. /\ textPend' \in [Links -> BOOLEAN]
          /\ textHeld' \in [Links -> BOOLEAN]
          /\ copyFile' \in [Nodes -> Files \cup {None}]
          /\ copySize' \in [Nodes -> Nat]
      BY <1>3 DEF TypeInv, TypeOK, ResetForText
    <2>2. UNCHANGED <<state, locked, srcIP, appoint, dst, userVars, cb, fileVars,
                      stateVars, threadVars, netVars>>
      BY <1>3 DEF ResetForText
    <2> QED
      BY <2>1, <2>2 DEF TypeInv, TypeOK, DroppingHasFile, recvVars, callVars, askVars, userVars,
         fileVars, stateVars, threadVars, netVars
  <1> QED
    BY <1>1, <1>2, <1>3

(* P2PWrite.                                                               *)
LEMMA WriterTypes ==
  ASSUME TypeInv
  PROVE  /\ \A n \in Nodes : \A m \in Peers(n), c \in Conns : AnnounceFile(n, m, c) => TypeInv'
         /\ \A n \in Nodes : \A m \in Peers(n), c \in Conns : AnnounceText(n, m, c) => TypeInv'
         /\ \A n \in Nodes : \A m \in Peers(n), c \in Conns : CheckTarget(n, m, c) => TypeInv'
         /\ \A n \in Nodes : \A m \in Peers(n), c \in Conns : SendFileReq(n, m, c) => TypeInv'
         /\ \A n \in Nodes : \A m \in Peers(n), c \in Conns : SendDropInitiate(n, m, c) => TypeInv'
         /\ \A n \in Nodes : \A m \in Peers(n), c \in Conns : NothingToWrite(n, m, c) => TypeInv'
         /\ \A n \in Nodes : \A m \in Peers(n), c \in Conns : StartReceive(n, m, c) => TypeInv'
         /\ \A n \in Nodes : \A m \in Peers(n), c \in Conns : ReceiveData(n, m, c) => TypeInv'
         /\ \A n \in Nodes : \A m \in Peers(n), c \in Conns : ReceiveCancel(n, m, c) => TypeInv'
         /\ \A n \in Nodes : \A m \in Peers(n), c \in Conns : FinishReceive(n, m, c) => TypeInv'
         /\ \A n \in Nodes : \A m \in Peers(n), c \in Conns : WriterStops(n, m, c) => TypeInv'
  <1>1. ASSUME NEW n \in Nodes, NEW m \in Peers(n), NEW c \in Conns, AnnounceFile(n, m, c)
        PROVE  TypeInv'
    <2>1. fileHeld[<<n, m, c>>] \in Files /\ copySize[n] \in Nat
      BY <1>1, LinkOf DEF TypeInv, TypeOK, AnnounceFile
    <2>2. LET item == Message("TEXT_TRAN", "FILE", <<"copy", fileHeld[<<n, m, c>>]>>,
                              fileHeld[<<n, m, c>>], copySize[n])
          IN (cb' = cb /\ srcIP' = srcIP /\ chan' = chan) \/ Announce(n, m, c, item)
      BY <1>1 DEF AnnounceFile
    <2>3. Message("TEXT_TRAN", "FILE", <<"copy", fileHeld[<<n, m, c>>]>>,
                  fileHeld[<<n, m, c>>], copySize[n]) \in Items
      BY <2>1, ItemTypes, HashTypes DEF InbandCmds, Fmts
    <2>4. /\ cb' \in [Pairs -> [hash : Hashes, fmt : Fmts]]
          /\ srcIP' \in [Nodes -> Nodes \cup {None}]
          /\ chan' \in [Links -> Seq(Items)]
      BY <2>2, <2>3, AnnounceTypes DEF TypeInv, TypeOK
    <2>5. fileHeld' \in [Links -> Files \cup {None}]
      BY <1>1, LinkOf DEF TypeInv, TypeOK, AnnounceFile
    <2>6. UNCHANGED <<state, locked, appoint, copyFile, copySize, dst, userVars,
                      dropFlag, last, textVars, stateVars, threadVars, up>>
      BY <1>1 DEF AnnounceFile
    <2> QED
      BY <2>4, <2>5, <2>6 DEF TypeInv, TypeOK, DroppingHasFile, recvVars, callVars, askVars,
         userVars, textVars, stateVars, threadVars
  <1>2. ASSUME NEW n \in Nodes, NEW m \in Peers(n), NEW c \in Conns, AnnounceText(n, m, c)
        PROVE  TypeInv'
    <2>1. Announce(n, m, c, Message("TEXT_TRAN", "TEXT", <<"text", None>>, None, 0))
      BY <1>2 DEF AnnounceText
    <2>2. Message("TEXT_TRAN", "TEXT", <<"text", None>>, None, 0) \in Items
      BY ItemTypes, HashTypes DEF InbandCmds, Fmts
    <2>3. /\ cb' \in [Pairs -> [hash : Hashes, fmt : Fmts]]
          /\ srcIP' \in [Nodes -> Nodes \cup {None}]
          /\ chan' \in [Links -> Seq(Items)]
      BY <2>1, <2>2, AnnounceTypes DEF TypeInv, TypeOK
    <2>4. textHeld' \in [Links -> BOOLEAN]
      BY <1>2, LinkOf DEF TypeInv, TypeOK, AnnounceText
    <2>5. UNCHANGED <<state, locked, appoint, copyFile, copySize, dst, userVars,
                      textPend, fileVars, stateVars, threadVars, up>>
      BY <1>2 DEF AnnounceText
    <2> QED
      BY <2>3, <2>4, <2>5 DEF TypeInv, TypeOK, DroppingHasFile, recvVars, callVars, askVars,
         userVars, fileVars, stateVars, threadVars
  <1>3. ASSUME NEW n \in Nodes, NEW m \in Peers(n), NEW c \in Conns, CheckTarget(n, m, c)
        PROVE  TypeInv'
    <2>1. /\ pend' \in [Links -> BOOLEAN]
          /\ wpc' \in [Links -> WriterStates]
      BY <1>3 DEF TypeInv, TypeOK, WriterStates, CheckTarget
    <2>2. UNCHANGED <<handlerVars, userVars, cb, textVars, fileVars, cur, rpc, rmsg,
                      serve, recvVars, netVars>>
      BY <1>3 DEF CheckTarget
    <2> QED
      BY <2>1, <2>2 DEF TypeInv, TypeOK, DroppingHasFile, recvVars, handlerVars, callVars,
         askVars, userVars, textVars, fileVars, netVars
  <1>4. ASSUME NEW n \in Nodes, NEW m \in Peers(n), NEW c \in Conns, SendFileReq(n, m, c)
        PROVE  TypeInv'
    <2>1. /\ state' \in [Nodes -> States]
          /\ dst' \in [Nodes -> DstStates]
          /\ wpc' \in [Links -> WriterStates]
          /\ chan' \in [Links -> Seq(Items)]
      BY <1>4, LinkOf, ItemTypes, HashTypes, SendType DEF TypeInv, TypeOK, States,
         DstStates, WriterStates, InbandCmds, SendFileReq
    <2>2. UNCHANGED <<locked, srcIP, appoint, copyFile, copySize, userVars, cb,
                      watchVars, rpc, rmsg, serve, recvVars, up>>
      BY <1>4 DEF SendFileReq
    <2> QED
      BY <2>1, <2>2 DEF TypeInv, TypeOK, DroppingHasFile, recvVars, callVars, askVars, userVars,
         textVars, fileVars, stateVars, watchVars
  <1>5. ASSUME NEW n \in Nodes, NEW m \in Peers(n), NEW c \in Conns, SendDropInitiate(n, m, c)
        PROVE  TypeInv'
    <2>1. /\ cb' \in [Pairs -> [hash : Hashes, fmt : Fmts]]
          /\ state' \in [Nodes -> States]
          /\ wpc' \in [Links -> WriterStates]
          /\ chan' \in [Links -> Seq(Items)]
      BY <1>5, LinkOf, ItemTypes, HashTypes, SendType DEF TypeInv, TypeOK, States,
         WriterStates, InbandCmds, Fmts, SendDropInitiate
    <2>2. UNCHANGED <<locked, srcIP, appoint, copyFile, copySize, dst, userVars,
                      watchVars, rpc, rmsg, serve, recvVars, up>>
      BY <1>5 DEF SendDropInitiate
    <2> QED
      BY <2>1, <2>2 DEF TypeInv, TypeOK, DroppingHasFile, recvVars, callVars, askVars, userVars,
         textVars, fileVars, stateVars, watchVars
  <1>6. ASSUME NEW n \in Nodes, NEW m \in Peers(n), NEW c \in Conns, NothingToWrite(n, m, c)
        PROVE  TypeInv'
    <2>1. wpc' \in [Links -> WriterStates]
      BY <1>6 DEF TypeInv, TypeOK, WriterStates, NothingToWrite
    <2>2. UNCHANGED <<handlerVars, userVars, cb, watchVars, rpc, rmsg, serve, recvVars,
                      netVars>>
      BY <1>6 DEF NothingToWrite
    <2> QED
      BY <2>1, <2>2 DEF TypeInv, TypeOK, DroppingHasFile, recvVars, handlerVars, callVars,
         askVars, userVars, textVars, fileVars, stateVars, watchVars, netVars
  <1>7. ASSUME NEW n \in Nodes, NEW m \in Peers(n), NEW c \in Conns, StartReceive(n, m, c)
        PROVE  TypeInv'
    <2>1. [size |-> copySize[n], fmt |-> cb[<<n, m>>].fmt, got |-> <<>>]
            \in [size : Nat, fmt : Fmts, got : Seq(Items)]
      BY LinkOf, EmptySeq DEF TypeInv, TypeOK
    <2>2. /\ recv' \in [Nodes -> [size : Nat, fmt : Fmts, got : Seq(Items)]]
          /\ locked' \in [Nodes -> BOOLEAN]
          /\ wpc' \in [Links -> WriterStates]
      BY <1>7, <2>1 DEF TypeInv, TypeOK, WriterStates, StartReceive
    <2>3. UNCHANGED <<state, srcIP, appoint, copyFile, copySize, dst, userVars, cb,
                      watchVars, rpc, rmsg, serve, taken, acked, netVars>>
      BY <1>7 DEF StartReceive
    <2> QED
      BY <2>2, <2>3 DEF TypeInv, TypeOK, DroppingHasFile, recvVars, callVars, askVars, userVars,
         textVars, fileVars, stateVars, watchVars, netVars
  <1>8. ASSUME NEW n \in Nodes, NEW m \in Peers(n), NEW c \in Conns, ReceiveData(n, m, c)
        PROVE  TypeInv'
    <2>1. /\ <<m, n, c>> \in Links /\ chan[<<m, n, c>>] \in Seq(Items)
          /\ recv[n] \in [size : Nat, fmt : Fmts, got : Seq(Items)]
      BY LinkOf DEF TypeInv, TypeOK
    <2>2. PICK k \in 1..Len(chan[<<m, n, c>>]) :
            /\ recv' = [recv EXCEPT ![n].got = @ \o SubSeq(chan[<<m, n, c>>], 1, k)]
            /\ chan' = [chan EXCEPT ![<<m, n, c>>] = SubSeq(@, k + 1, Len(@))]
      BY <1>8 DEF ReceiveData
    <2>3. recv[n].got \o SubSeq(chan[<<m, n, c>>], 1, k) \in Seq(Items)
      BY <2>1, TakeType, ConcatProperties
    <2>4. recv' \in [Nodes -> [size : Nat, fmt : Fmts, got : Seq(Items)]]
      BY <2>1, <2>2, <2>3 DEF TypeInv, TypeOK
    <2>5. chan' \in [Links -> Seq(Items)]
      BY <2>1, <2>2, TakeType DEF TypeInv, TypeOK
    <2>6. UNCHANGED <<handlerVars, userVars, cb, watchVars, rpc, rmsg, wpc, serve, taken,
                      acked, up>>
      BY <1>8 DEF ReceiveData
    <2> QED
      BY <2>4, <2>5, <2>6 DEF TypeInv, TypeOK, DroppingHasFile, recvVars, handlerVars, callVars,
         askVars, userVars, textVars, fileVars, stateVars, watchVars
  <1>9. ASSUME NEW n \in Nodes, NEW m \in Peers(n), NEW c \in Conns, ReceiveCancel(n, m, c)
        PROVE  TypeInv'
    <2>1. chan' \in [Links -> Seq(Items)]
      <3>1. <<m, n, c>> \in Links /\ chan[<<m, n, c>>] \in Seq(Items) /\ chan[<<m, n, c>>] # <<>>
        BY <1>9, LinkOf DEF TypeInv, TypeOK, ReceiveCancel
      <3>2. Tail(chan[<<m, n, c>>]) \in Seq(Items)
        BY <3>1, HeadTailProperties
      <3> QED
        BY <1>9, <3>1, <3>2 DEF TypeInv, TypeOK, ReceiveCancel
    <2>2. EndReceive(n, m, c)
      BY <1>9 DEF ReceiveCancel
    <2> QED
      BY <2>1, <2>2, EndReceiveTypes
  <1>10. ASSUME NEW n \in Nodes, NEW m \in Peers(n), NEW c \in Conns, FinishReceive(n, m, c)
        PROVE  TypeInv'
    <2>1. EndReceive(n, m, c) /\ chan' = chan
      BY <1>10 DEF FinishReceive
    <2> QED
      BY <2>1, EndReceiveTypes DEF TypeInv, TypeOK
  <1>11. ASSUME NEW n \in Nodes, NEW m \in Peers(n), NEW c \in Conns, WriterStops(n, m, c)
        PROVE  TypeInv'
    <2>1. wpc' \in [Links -> WriterStates]
      BY <1>11 DEF TypeInv, TypeOK, WriterStates, WriterStops
    <2>2. UNCHANGED <<handlerVars, userVars, cb, watchVars, rpc, rmsg, serve, recvVars,
                      netVars>>
      BY <1>11 DEF WriterStops
    <2> QED
      BY <2>1, <2>2 DEF TypeInv, TypeOK, DroppingHasFile, recvVars, handlerVars, callVars,
         askVars, userVars, textVars, fileVars, stateVars, watchVars, netVars
  <1> QED
    BY <1>1, <1>2, <1>3, <1>4, <1>5, <1>6, <1>7, <1>8, <1>9, <1>10, <1>11

-----------------------------------------------------------------------------
(* The types hold initially.                                               *)
LEMMA InitTypes == Init => TypeInv
  <1> SUFFICES ASSUME Init PROVE TypeInv
    OBVIOUS
  <1>1. /\ cb \in [Pairs -> [hash : Hashes, fmt : Fmts]]
        /\ rmsg \in [Links -> Items]
    BY ItemTypes, HashTypes DEF Init, Fmts, InbandCmds
  <1>2. /\ serve \in [Nodes -> [file : Files \cup {None}, sent : Nat]]
        /\ recv \in [Nodes -> [size : Nat, fmt : Fmts, got : Seq(Items)]]
        /\ chan \in [Links -> Seq(Items)]
    <2>1. [size |-> 0, fmt |-> "", got |-> <<>>] \in [size : Nat, fmt : Fmts, got : Seq(Items)]
      BY EmptySeq DEF Fmts
    <2> QED
      BY <2>1, EmptySeq DEF Init
  <1>3. budget \in [UserOps -> Nat]
    BY BudgetsAssumption DEF Init
  <1>4. /\ up \subseteq Links
        /\ rpc \in [Links -> ReaderStates]
        /\ wpc \in [Links -> WriterStates]
    BY DEF Init, ReaderStates, WriterStates
  <1>5. dropFlag \in [Pairs -> BOOLEAN]
    BY DEF Init
  <1> QED
    BY <1>1, <1>2, <1>3, <1>4, <1>5 DEF Init, TypeInv, TypeOK, DroppingHasFile, States,
       DstStates

(* Every step keeps them.                                                  *)
LEMMA NextTypes == TypeInv /\ [Next]_vars => TypeInv'
  <1> SUFFICES ASSUME TypeInv, [Next]_vars PROVE TypeInv'
    OBVIOUS
  <1>1. ASSUME NEW n \in Nodes,
               \/ \E f \in Files : UserCopyFile(n, f)
               \/ StoreCopySize(n) \/ UserCopyText(n) \/ UserPaste(n)
               \/ \E m \in Peers(n), f \in Files : UserDrop(n, m, f)
               \/ FileDropRequest(n) \/ FileDropRequestEnds(n)
        PROVE  TypeInv'
    BY <1>1, UserTypes
  <1>2. ASSUME NEW n \in Nodes, NEW m \in Peers(n), NEW c \in Conns, User(n, m, c)
        PROVE  TypeInv'
    BY <1>2, UserTypes DEF User
  <1>3. ASSUME NEW n \in Nodes, NEW m \in Peers(n), NEW c \in Conns, Reader(n, m, c)
        PROVE  TypeInv'
    BY <1>3, ReaderTypes DEF Reader
  <1>4. ASSUME NEW n \in Nodes, NEW m \in Peers(n), NEW c \in Conns, Watchers(n, m, c)
        PROVE  TypeInv'
    BY <1>4, WatchersTypes DEF Watchers
  <1>5. ASSUME NEW n \in Nodes, NEW m \in Peers(n), NEW c \in Conns, Writer(n, m, c)
        PROVE  TypeInv'
    BY <1>5, WriterTypes DEF Writer
  <1>6. CASE UNCHANGED vars
    BY <1>6 DEF vars, handlerVars, userVars, callVars, askVars, watchVars, textVars,
       fileVars, stateVars, threadVars, recvVars, netVars, TypeInv, TypeOK, DroppingHasFile
  <1> QED
    BY <1>1, <1>2, <1>3, <1>4, <1>5, <1>6 DEF Next

(* The inductive invariant holds in every reachable state.                 *)
LEMMA TypeInvariant == Spec => []TypeInv
  <1>1. Init => TypeInv
    BY InitTypes
  <1>2. TypeInv /\ [Next]_vars => TypeInv'
    BY NextTypes
  <1> QED
    BY <1>1, <1>2, PTL DEF Spec

(* Type correctness in every reachable state: in particular the drop       *)
(* callback never stores the size of a file it does not have.              *)
THEOREM TypeCorrect == Spec => []TypeOK
  <1>1. TypeInv => TypeOK
    BY DEF TypeInv
  <1> QED
    BY <1>1, TypeInvariant, PTL

-----------------------------------------------------------------------------
(* The mutex *)

(* The types of the variables the discipline is about.                     *)
ControlTypeOK ==
  /\ state \in [Nodes -> States]
  /\ locked \in [Nodes -> BOOLEAN]
  /\ dropping \in [Nodes -> BOOLEAN]
  /\ rpc \in [Links -> ReaderStates]
  /\ wpc \in [Links -> WriterStates]

(* The inductive invariant.  Neither half is inductive alone: that nobody  *)
(* else writes Handler.State follows from the mutex being held, and that   *)
(* the mutex is held by one goroutine only follows from each release being *)
(* done by its holder.                                                     *)
MutexInv == ControlTypeOK /\ StateMatchesTransfer /\ OneTransferAtATime

(* Every link is an end of a connection to a peer.                         *)
LEMMA LinkPairs ==
  /\ \A n \in Nodes : \A m \in Peers(n), c \in Conns :
       <<n, m, c>> \in Links /\ <<m, n, c>> \in Links
  /\ \A l \in Links : \E n \in Nodes : \E m \in Peers(n), c \in Conns : l = <<n, m, c>>
  BY DEF Links, Peers

(* The invariant holds initially: no goroutine is in any section.          *)
LEMMA InitMutexInv == Init => MutexInv
  <1> SUFFICES ASSUME Init PROVE MutexInv
    OBVIOUS
  <1>1. ControlTypeOK
    BY DEF Init, ControlTypeOK, States, ReaderStates, WriterStates
  <1>2. \A n \in Nodes : state[n] = "UNINIT" /\ locked[n] = FALSE /\ dropping[n] = FALSE
    BY DEF Init
  <1>3. \A l \in Links : rpc[l] \in {"poll", "dead"} /\ wpc[l] \in {"idle", "dead"}
    BY DEF Init
  <1>4. \A n \in Nodes : \A m \in Peers(n), c \in Conns :
          ~Serving(n, m, c) /\ ~InDialog(n, m, c) /\ ~Receiving(n, m, c)
    BY <1>3, LinkPairs DEF Serving, InDialog, Receiving
  <1> QED
    BY <1>1, <1>2, <1>4 DEF MutexInv, StateMatchesTransfer, OneTransferAtATime, ReaderHolds

(* Every step is of one of four kinds.  Each kind is defined by what it    *)
(* does to the four variables, and preserves the invariant.                *)

(* No goroutine enters or leaves a section that holds the mutex.           *)
SameHolders ==
  /\ dropping' = dropping
  /\ rpc' \in [Links -> ReaderStates] /\ wpc' \in [Links -> WriterStates]
  /\ \A n \in Nodes : \A m \in Peers(n), c \in Conns :
       /\ Serving(n, m, c)' <=> Serving(n, m, c)
       /\ InDialog(n, m, c)' <=> InDialog(n, m, c)
       /\ Receiving(n, m, c)' <=> Receiving(n, m, c)

(* Only other variables change.                                            *)
QuietStep == state' = state /\ locked' = locked /\ SameHolders

(* A short critical section of node n writes Handler.State.                *)
FreeWrite(n, s) ==
  /\ ~locked[n]
  /\ s \in States \ {"SRC_INIT"}
  /\ state' = [state EXCEPT ![n] = s]
  /\ locked' = locked
  /\ SameHolders

(* A goroutine of link <<n, m, c>> takes the mutex for several steps.         *)
Acquire(n, m, c) ==
  /\ ~locked[n] /\ dropping' = dropping
  /\ locked' = [locked EXCEPT ![n] = TRUE]
  /\ \/ /\ state' = [state EXCEPT ![n] = "SRC_INIT"]
        /\ rpc' = [rpc EXCEPT ![<<n, m, c>>] = "wait"] /\ wpc' = wpc
     \/ /\ state[n] = "UNINIT" /\ state' = state
        /\ rpc' = [rpc EXCEPT ![<<n, m, c>>] = "dialog"] /\ wpc' = wpc
     \/ /\ state[n] = "PROCESSING_TRAN_ING_ACK" /\ state' = state
        /\ wpc' = [wpc EXCEPT ![<<n, m, c>>] = "recv"] /\ rpc' = rpc

(* It gives it back.                                                       *)
Release(n, m, c, s) ==
  /\ s \in States \ {"SRC_INIT"}
  /\ dropping' = dropping
  /\ state' = [state EXCEPT ![n] = s]
  /\ locked' = [locked EXCEPT ![n] = FALSE]
  /\ \/ /\ ReaderHolds(n, m, c)
        /\ rpc' = [rpc EXCEPT ![<<n, m, c>>] = "poll"] /\ wpc' = wpc
     \/ /\ Receiving(n, m, c)
        /\ wpc' = [wpc EXCEPT ![<<n, m, c>>] = "idle"] /\ rpc' = rpc

(* A step that only changes other variables keeps the invariant.           *)
LEMMA QuietStepKeeps == MutexInv /\ QuietStep => MutexInv'
  <1> SUFFICES ASSUME MutexInv, QuietStep PROVE MutexInv'
    OBVIOUS
  <1>1. ControlTypeOK'
    BY DEF MutexInv, QuietStep, SameHolders, ControlTypeOK
  <1>2. StateMatchesTransfer'
    BY DEF MutexInv, QuietStep, SameHolders, StateMatchesTransfer
  <1>3. OneTransferAtATime'
    BY DEF MutexInv, QuietStep, SameHolders, OneTransferAtATime, ReaderHolds
  <1> QED
    BY <1>1, <1>2, <1>3 DEF MutexInv

(* A short critical section keeps it: while the mutex is free, nobody's    *)
(* section depends on Handler.State.                                       *)
LEMMA FreeWriteKeeps ==
  ASSUME NEW n \in Nodes, NEW s \in States, MutexInv, FreeWrite(n, s)
  PROVE  MutexInv'
  <1>1. ControlTypeOK'
    BY DEF MutexInv, FreeWrite, SameHolders, ControlTypeOK
  <1>2. /\ ~dropping[n] /\ dropping' = dropping
        /\ \A m \in Peers(n), c \in Conns : ~ReaderHolds(n, m, c) /\ ~Receiving(n, m, c)
    BY DEF MutexInv, OneTransferAtATime, FreeWrite, SameHolders
  <1>3. StateMatchesTransfer'
    BY <1>2 DEF MutexInv, FreeWrite, SameHolders, StateMatchesTransfer, ControlTypeOK,
       ReaderHolds
  <1>4. OneTransferAtATime'
    BY DEF MutexInv, FreeWrite, SameHolders, OneTransferAtATime, ReaderHolds
  <1> QED
    BY <1>1, <1>3, <1>4 DEF MutexInv

(* Taking the mutex keeps it: nobody else is in a section.                 *)
LEMMA AcquireKeeps ==
  ASSUME NEW n \in Nodes, NEW m \in Peers(n), NEW c \in Conns, MutexInv, Acquire(n, m, c)
  PROVE  MutexInv'
  <1>1. ControlTypeOK'
    BY DEF MutexInv, Acquire, ControlTypeOK, States, ReaderStates, WriterStates
  <1>2. /\ ~dropping[n] /\ dropping' = dropping
        /\ \A k \in Peers(n), d \in Conns : ~ReaderHolds(n, k, d) /\ ~Receiving(n, k, d)
    BY DEF MutexInv, OneTransferAtATime, Acquire
  <1>3. \A j \in Nodes : \A k \in Peers(j), d \in Conns : <<j, k, d>> # <<n, m, c>> =>
          /\ Serving(j, k, d)' <=> Serving(j, k, d)
          /\ InDialog(j, k, d)' <=> InDialog(j, k, d)
          /\ Receiving(j, k, d)' <=> Receiving(j, k, d)
    BY LinkPairs DEF MutexInv, ControlTypeOK, Acquire, Serving, InDialog, Receiving
  <1>4. /\ locked'[n] /\ \A j \in Nodes \ {n} : locked'[j] = locked[j]
        /\ \A j \in Nodes \ {n} : state'[j] = state[j]
    BY DEF MutexInv, ControlTypeOK, Acquire
  <1>5. \/ Serving(n, m, c)' /\ ~InDialog(n, m, c)' /\ ~Receiving(n, m, c)' /\ state'[n] = "SRC_INIT"
        \/ ~Serving(n, m, c)' /\ InDialog(n, m, c)' /\ ~Receiving(n, m, c)' /\ state'[n] = "UNINIT"
        \/ /\ ~Serving(n, m, c)' /\ ~InDialog(n, m, c)' /\ Receiving(n, m, c)'
           /\ state'[n] = "PROCESSING_TRAN_ING_ACK"
    BY <1>2, LinkPairs DEF MutexInv, ControlTypeOK, Acquire, Serving, InDialog, Receiving,
       ReaderHolds
  <1>6. StateMatchesTransfer'
    BY <1>2, <1>3, <1>4, <1>5 DEF MutexInv, StateMatchesTransfer, ReaderHolds
  <1>7. OneTransferAtATime'
    BY <1>2, <1>3, <1>4, <1>5 DEF MutexInv, OneTransferAtATime, ReaderHolds
  <1> QED
    BY <1>1, <1>6, <1>7 DEF MutexInv

(* Releasing it keeps it: only its holder does, and leaves its section.    *)
LEMMA ReleaseKeeps ==
  ASSUME NEW n \in Nodes, NEW m \in Peers(n), NEW c \in Conns, NEW s \in States, MutexInv, Release(n, m, c, s)
  PROVE  MutexInv'
  <1>1. ControlTypeOK'
    BY DEF MutexInv, Release, ControlTypeOK, ReaderStates, WriterStates
  <1>2. /\ ~dropping[n] /\ dropping' = dropping
        /\ \A k \in Peers(n), d \in Conns :
             k # m \/ d # c => ~ReaderHolds(n, k, d) /\ ~Receiving(n, k, d)
    BY DEF MutexInv, OneTransferAtATime, Release
  <1>3. \A j \in Nodes : \A k \in Peers(j), d \in Conns : <<j, k, d>> # <<n, m, c>> =>
          /\ Serving(j, k, d)' <=> Serving(j, k, d)
          /\ InDialog(j, k, d)' <=> InDialog(j, k, d)
          /\ Receiving(j, k, d)' <=> Receiving(j, k, d)
    BY LinkPairs DEF MutexInv, ControlTypeOK, Release, Serving, InDialog, Receiving
  <1>4. /\ ~locked'[n] /\ state'[n] = s
        /\ \A j \in Nodes \ {n} : locked'[j] = locked[j] /\ state'[j] = state[j]
    BY DEF MutexInv, ControlTypeOK, Release
  <1>5. ~Serving(n, m, c)' /\ ~InDialog(n, m, c)' /\ ~Receiving(n, m, c)'
    <2>1. ~(ReaderHolds(n, m, c) /\ Receiving(n, m, c))
      BY DEF MutexInv, OneTransferAtATime
    <2>2. <<n, m, c>> \in Links /\ rpc \in [Links -> ReaderStates] /\ wpc \in [Links -> WriterStates]
      BY LinkPairs DEF MutexInv, ControlTypeOK
    <2>3. CASE ReaderHolds(n, m, c)
      <3>1. rpc'[<<n, m, c>>] = "poll" /\ wpc' = wpc
        BY <2>1, <2>2, <2>3 DEF Release
      <3> QED
        BY <2>1, <2>3, <3>1 DEF Serving, InDialog, Receiving
    <2>4. CASE Receiving(n, m, c)
      <3>1. wpc'[<<n, m, c>>] = "idle" /\ rpc' = rpc
        BY <2>1, <2>2, <2>4 DEF Release
      <3> QED
        BY <2>1, <2>4, <3>1 DEF Serving, InDialog, Receiving, ReaderHolds
    <2> QED
      BY <2>3, <2>4 DEF Release
  <1>6. s # "SRC_INIT"
    BY DEF Release
  <1>7. StateMatchesTransfer'
    BY <1>2, <1>3, <1>4, <1>5, <1>6 DEF MutexInv, StateMatchesTransfer, ReaderHolds
  <1>8. OneTransferAtATime'
    BY <1>2, <1>3, <1>4, <1>5 DEF MutexInv, OneTransferAtATime, ReaderHolds
  <1> QED
    BY <1>1, <1>7, <1>8 DEF MutexInv

(* The drop callback takes the mutex, and stores the state first.          *)
LEMMA DropBegins ==
  ASSUME NEW n \in Nodes, MutexInv, FileDropRequest(n)
  PROVE  MutexInv'
  <1>1. ControlTypeOK'
    BY DEF MutexInv, ControlTypeOK, FileDropRequest, threadVars, recvVars, States
  <1>2. /\ ~dropping[n]
        /\ \A k \in Peers(n), d \in Conns : ~ReaderHolds(n, k, d) /\ ~Receiving(n, k, d)
    BY DEF MutexInv, OneTransferAtATime, FileDropRequest
  <1>3. /\ locked'[n] /\ dropping'[n] /\ state'[n] = "FILE_DROP_INIT"
        /\ \A j \in Nodes \ {n} : /\ locked'[j] = locked[j] /\ state'[j] = state[j]
                                 /\ dropping'[j] = dropping[j]
    BY DEF MutexInv, ControlTypeOK, FileDropRequest
  <1>4. rpc' = rpc /\ wpc' = wpc
    BY DEF FileDropRequest, threadVars, recvVars
  <1>5. StateMatchesTransfer'
    BY <1>2, <1>3, <1>4 DEF MutexInv, StateMatchesTransfer, ReaderHolds, Serving, InDialog,
       Receiving
  <1>6. OneTransferAtATime'
    BY <1>2, <1>3, <1>4 DEF MutexInv, OneTransferAtATime, ReaderHolds, Serving, InDialog,
       Receiving
  <1> QED
    BY <1>1, <1>5, <1>6 DEF MutexInv

(* The drop callback, which holds the mutex alone, gives it back.          *)
LEMMA DropEnds ==
  ASSUME NEW n \in Nodes, MutexInv, FileDropRequestEnds(n)
  PROVE  MutexInv'
  <1>1. ControlTypeOK'
    BY DEF MutexInv, ControlTypeOK, FileDropRequestEnds, threadVars, recvVars
  <1>2. \A k \in Peers(n), d \in Conns : ~ReaderHolds(n, k, d) /\ ~Receiving(n, k, d)
    BY DEF MutexInv, OneTransferAtATime, FileDropRequestEnds
  <1>3. /\ ~locked'[n] /\ ~dropping'[n] /\ state' = state
        /\ \A j \in Nodes \ {n} : locked'[j] = locked[j] /\ dropping'[j] = dropping[j]
    BY DEF MutexInv, ControlTypeOK, FileDropRequestEnds
  <1>4. rpc' = rpc /\ wpc' = wpc
    BY DEF FileDropRequestEnds, threadVars, recvVars
  <1>5. \A j \in Nodes : \A k \in Peers(j), d \in Conns :
          (ReaderHolds(j, k, d)' <=> ReaderHolds(j, k, d)) /\ (Receiving(j, k, d)' <=> Receiving(j, k, d))
    BY <1>4 DEF ReaderHolds, Serving, InDialog, Receiving
  <1>6. StateMatchesTransfer'
    BY <1>2, <1>3, <1>4 DEF MutexInv, StateMatchesTransfer, ReaderHolds, Serving, InDialog,
       Receiving
  <1>7. OneTransferAtATime'
    BY <1>2, <1>3, <1>5 DEF MutexInv, OneTransferAtATime
  <1> QED
    BY <1>1, <1>6, <1>7 DEF MutexInv

-----------------------------------------------------------------------------
(* The steps of the specification, by kind.                                *)

(* The steps of a node's user that touch no link: quiet, but for the paste. *)
LEMMA UserNodeSteps ==
  ASSUME MutexInv, NEW n \in Nodes
  PROVE  /\ (\E f \in Files : UserCopyFile(n, f)) => QuietStep
         /\ StoreCopySize(n) => QuietStep
         /\ UserCopyText(n) => QuietStep
         /\ (\E m \in Peers(n), f \in Files : UserDrop(n, m, f)) => QuietStep
         /\ UserPaste(n) => FreeWrite(n, "DEST_INIT")
  <1> USE DEF QuietStep, FreeWrite, SameHolders, Serving, InDialog, Receiving, States,
              MutexInv, ControlTypeOK
  <1>1. (\E f \in Files : UserCopyFile(n, f)) => QuietStep
    BY DEF UserCopyFile, threadVars, recvVars
  <1>2. UserCopyText(n) => QuietStep
    BY DEF UserCopyText, threadVars, recvVars, handlerVars, callVars
  <1>3. UserPaste(n) => FreeWrite(n, "DEST_INIT")
    BY DEF UserPaste, threadVars, recvVars, callVars
  <1>4. StoreCopySize(n) => QuietStep
    BY DEF StoreCopySize, threadVars
  <1>5. (\E m \in Peers(n), f \in Files : UserDrop(n, m, f)) => QuietStep
    BY DEF UserDrop, threadVars
  <1> QED
    BY <1>1, <1>2, <1>3, <1>4, <1>5

(* Steps that move the two goroutines of a link between control states in  *)
(* which they do not hold the mutex.                                       *)
LEMMA LinkMove ==
  ASSUME MutexInv, NEW n \in Nodes, NEW m \in Peers(n), NEW c \in Conns,
         state' = state, locked' = locked, dropping' = dropping,
         \/ rpc' = rpc
         \/ \E r \in {"poll", "read", "guard", "lock", "paste", "dead"} :
              /\ ~ReaderHolds(n, m, c)
              /\ rpc' = [rpc EXCEPT ![<<n, m, c>>] = r]
         \/ rpc[<<n, m, c>>] = "wait" /\ rpc' = [rpc EXCEPT ![<<n, m, c>>] = "serve"],
         \/ wpc' = wpc
         \/ \E w \in {"idle", "lock", "dead"} :
              ~Receiving(n, m, c) /\ wpc' = [wpc EXCEPT ![<<n, m, c>>] = w]
  PROVE  QuietStep
  <1>1. <<n, m, c>> \in Links /\ \A j \in Nodes : \A k \in Peers(j), d \in Conns : <<j, k, d>> \in Links
    BY LinkPairs
  <1>2. rpc \in [Links -> ReaderStates] /\ wpc \in [Links -> WriterStates]
    BY DEF MutexInv, ControlTypeOK
  <1>3. /\ rpc' \in [Links -> ReaderStates]
        /\ \A j \in Nodes : \A k \in Peers(j), d \in Conns :
             (Serving(j, k, d)' <=> Serving(j, k, d)) /\ (InDialog(j, k, d)' <=> InDialog(j, k, d))
    BY <1>1, <1>2 DEF ReaderStates, Serving, InDialog, ReaderHolds
  <1>4. /\ wpc' \in [Links -> WriterStates]
        /\ \A j \in Nodes : \A k \in Peers(j), d \in Conns : Receiving(j, k, d)' <=> Receiving(j, k, d)
    BY <1>1, <1>2 DEF WriterStates, Receiving
  <1> QED
    BY <1>3, <1>4 DEF QuietStep, SameHolders

(* The same of a reader alone.                                             *)
LEMMA ReaderMove ==
  ASSUME MutexInv, NEW n \in Nodes, NEW m \in Peers(n), NEW c \in Conns,
         UNCHANGED <<state, locked, dropping, wpc>>, ~ReaderHolds(n, m, c),
         NEW r \in {"poll", "read", "guard", "lock", "paste", "dead"},
         rpc' = [rpc EXCEPT ![<<n, m, c>>] = r]
  PROVE  QuietStep
  BY LinkMove

(* The steps of a link that take or release nothing.                       *)
LEMMA QuietLinkSteps ==
  ASSUME MutexInv, NEW n \in Nodes, NEW m \in Peers(n), NEW c \in Conns
  PROVE  /\ PollState(n, m, c) => QuietStep
         /\ ReadFromSocket(n, m, c) => QuietStep
         /\ ReadFails(n, m, c) => QuietStep
         /\ CheckSource(n, m, c) => QuietStep
         /\ NotATransfer(n, m, c) => QuietStep
         /\ HandleDataPasteToCB(n, m, c) => QuietStep
         /\ OpenSrcFile(n, m, c) => QuietStep
         /\ SendChunk(n, m, c) => QuietStep
         /\ WatchState(n, m, c) => QuietStep
         /\ PollFile(n, m, c) => QuietStep
         /\ ResetForText(n, m, c) => QuietStep
         /\ AnnounceFile(n, m, c) => QuietStep
         /\ AnnounceText(n, m, c) => QuietStep
         /\ CheckTarget(n, m, c) => QuietStep
         /\ NothingToWrite(n, m, c) => QuietStep
         /\ ReceiveData(n, m, c) => QuietStep
         /\ WriterStops(n, m, c) => QuietStep
         /\ Disconnect(n, m, c) => QuietStep
  <1> USE DEF ReaderHolds, Serving, InDialog, Receiving, handlerVars, threadVars, recvVars,
              userVars, callVars
  <1>1. PollState(n, m, c) => QuietStep
    <2> SUFFICES ASSUME PollState(n, m, c) PROVE QuietStep
      OBVIOUS
    <2>1. /\ UNCHANGED <<state, locked, dropping, wpc>> /\ ~ReaderHolds(n, m, c)
          /\ rpc' = [rpc EXCEPT ![<<n, m, c>>] = "read"]
      BY DEF PollState
    <2> QED
      BY <2>1, ReaderMove
  <1>2. ReadFromSocket(n, m, c) => QuietStep
    <2> SUFFICES ASSUME ReadFromSocket(n, m, c) PROVE QuietStep
      OBVIOUS
    <2>1. UNCHANGED <<state, locked, dropping, wpc>> /\ ~ReaderHolds(n, m, c)
      BY DEF ReadFromSocket
    <2>2. PICK r \in {"guard", "poll"} : rpc' = [rpc EXCEPT ![<<n, m, c>>] = r]
      BY DEF ReadFromSocket
    <2> QED
      BY <2>1, <2>2, ReaderMove
  <1>3. ReadFails(n, m, c) => QuietStep
    <2> SUFFICES ASSUME ReadFails(n, m, c) PROVE QuietStep
      OBVIOUS
    <2>1. UNCHANGED <<state, locked, dropping, wpc>> /\ ~ReaderHolds(n, m, c)
      BY DEF ReadFails
    <2>2. PICK r \in {"dead", "poll"} : rpc' = [rpc EXCEPT ![<<n, m, c>>] = r]
      BY DEF ReadFails
    <2> QED
      BY <2>1, <2>2, ReaderMove
  <1>4. CheckSource(n, m, c) => QuietStep
    <2> SUFFICES ASSUME CheckSource(n, m, c) PROVE QuietStep
      OBVIOUS
    <2>1. UNCHANGED <<state, locked, dropping, wpc>> /\ ~ReaderHolds(n, m, c)
      BY DEF CheckSource
    <2>2. PICK r \in {"paste", "lock"} : rpc' = [rpc EXCEPT ![<<n, m, c>>] = r]
      BY DEF CheckSource
    <2> QED
      BY <2>1, <2>2, ReaderMove
  <1>5. NotATransfer(n, m, c) => QuietStep
    BY LinkMove DEF NotATransfer
  <1>6. OpenSrcFile(n, m, c) => QuietStep
    <2> SUFFICES ASSUME OpenSrcFile(n, m, c) PROVE QuietStep
      OBVIOUS
    <2>1. /\ UNCHANGED <<state, locked, dropping, wpc>> /\ rpc[<<n, m, c>>] = "wait"
          /\ rpc' = [rpc EXCEPT ![<<n, m, c>>] = "serve"]
      BY DEF OpenSrcFile
    <2> QED
      BY <2>1, LinkMove
  <1>7. SendChunk(n, m, c) => QuietStep
    BY LinkMove DEF SendChunk
  <1>8. WatchState(n, m, c) => QuietStep
    BY LinkMove DEF WatchState
  <1>9. PollFile(n, m, c) => QuietStep
    BY LinkMove DEF PollFile
  <1>10. AnnounceFile(n, m, c) => QuietStep
    BY LinkMove DEF AnnounceFile
  <1>11. AnnounceText(n, m, c) => QuietStep
    BY LinkMove DEF AnnounceText
  <1>12. CheckTarget(n, m, c) => QuietStep
    <2> SUFFICES ASSUME CheckTarget(n, m, c) PROVE QuietStep
      OBVIOUS
    <2>1. UNCHANGED <<state, locked, dropping, rpc>> /\ ~Receiving(n, m, c)
      BY DEF CheckTarget
    <2>2. PICK w \in {"idle", "lock"} : wpc' = [wpc EXCEPT ![<<n, m, c>>] = w]
      BY DEF CheckTarget
    <2> QED
      BY <2>1, <2>2, LinkMove
  <1>13. NothingToWrite(n, m, c) => QuietStep
    BY LinkMove DEF NothingToWrite
  <1>14. ReceiveData(n, m, c) => QuietStep
    BY LinkMove DEF ReceiveData
  <1>15. WriterStops(n, m, c) => QuietStep
    BY LinkMove DEF WriterStops
  <1>16. Disconnect(n, m, c) => QuietStep
    BY LinkMove DEF Disconnect
  <1>17. HandleDataPasteToCB(n, m, c) => QuietStep
    <2> SUFFICES ASSUME HandleDataPasteToCB(n, m, c) PROVE QuietStep
      OBVIOUS
    <2>1. /\ UNCHANGED <<state, locked, dropping, wpc>> /\ ~ReaderHolds(n, m, c)
          /\ rpc' = [rpc EXCEPT ![<<n, m, c>>] = "poll"]
      BY DEF HandleDataPasteToCB
    <2> QED
      BY <2>1, ReaderMove
  <1>18. ResetForText(n, m, c) => QuietStep
    BY LinkMove DEF ResetForText
  <1> QED
    BY <1>1, <1>2, <1>3, <1>4, <1>5, <1>6, <1>7, <1>8, <1>9, <1>10, <1>11, <1>12,
       <1>13, <1>14, <1>15, <1>16, <1>17, <1>18

(* A node that sets up its end of a connection starts its goroutines       *)
(* outside of every section.                                               *)
LEMMA StartStep ==
  ASSUME MutexInv, NEW n \in Nodes, NEW m \in Peers(n), NEW c \in Conns, Start(n, m, c),
         rpc[<<n, m, c>>] = "dead", wpc[<<n, m, c>>] = "dead"
  PROVE  QuietStep
  <1>1. /\ rpc' = [rpc EXCEPT ![<<n, m, c>>] = "poll"]
        /\ wpc' = [wpc EXCEPT ![<<n, m, c>>] = "idle"]
        /\ state' = state /\ locked' = locked /\ dropping' = dropping
    BY DEF Start, handlerVars, callVars
  <1> QED
    BY <1>1, LinkMove DEF ReaderHolds, Serving, InDialog, Receiving

LEMMA ConnectStep ==
  ASSUME MutexInv, NEW n \in Nodes, NEW m \in Peers(n), NEW c \in Conns,
         Connect(n, m, c) \/ MdnsHandleStream(n, m, c)
  PROVE  QuietStep
  BY StartStep DEF Connect, MdnsHandleStream, Free

(* The steps of a link that write Handler.State, take the mutex or release *)
(* it.                                                                     *)
LEMMA LockingLinkSteps ==
  ASSUME MutexInv, NEW n \in Nodes, NEW m \in Peers(n), NEW c \in Conns
  PROVE  /\ AcceptAck(n, m, c) => FreeWrite(n, "PROCESSING_TRAN_ING_ACK")
         /\ SendFileReq(n, m, c) => FreeWrite(n, "PROCESSING_TRAN_ING")
         /\ SendDropInitiate(n, m, c) => FreeWrite(n, "UNINIT")
         /\ AcceptFileReq(n, m, c) => Acquire(n, m, c)
         /\ AcceptDropInitiate(n, m, c) => QuietStep \/ Acquire(n, m, c)
         /\ StartReceive(n, m, c) => Acquire(n, m, c)
         /\ (\E accept \in BOOLEAN : FileDropResponse(n, m, c, accept))
              => \E s \in States : Release(n, m, c, s)
         /\ NothingToServe(n, m, c) => Release(n, m, c, "UNINIT")
         /\ FinishServe(n, m, c) => Release(n, m, c, "UNINIT")
         /\ FailServe(n, m, c) => Release(n, m, c, "UNINIT")
         /\ ReceiveCancel(n, m, c) => Release(n, m, c, "UNINIT")
         /\ FinishReceive(n, m, c) => Release(n, m, c, "UNINIT")
  <1>1. /\ <<n, m, c>> \in Links
        /\ \A j \in Nodes : \A k \in Peers(j), d \in Conns : <<j, k, d>> \in Links
    BY LinkPairs
  <1>2. /\ rpc \in [Links -> ReaderStates] /\ wpc \in [Links -> WriterStates]
        /\ state \in [Nodes -> States] /\ locked \in [Nodes -> BOOLEAN]
    BY DEF MutexInv, ControlTypeOK
  <1>3. AcceptAck(n, m, c) => FreeWrite(n, "PROCESSING_TRAN_ING_ACK")
    BY <1>1, <1>2 DEF AcceptAck, FreeWrite, SameHolders, userVars, callVars, Serving, InDialog, Receiving,
       States, ReaderStates
  <1>4. SendFileReq(n, m, c) => FreeWrite(n, "PROCESSING_TRAN_ING")
    BY <1>1, <1>2 DEF SendFileReq, FreeWrite, SameHolders, userVars, callVars, Serving, InDialog, Receiving,
       States, WriterStates
  <1>5. SendDropInitiate(n, m, c) => FreeWrite(n, "UNINIT")
    BY <1>1, <1>2 DEF SendDropInitiate, FreeWrite, SameHolders, userVars, callVars, Serving, InDialog,
       Receiving, States, WriterStates
  <1>6. AcceptFileReq(n, m, c) => Acquire(n, m, c)
    BY DEF AcceptFileReq, Acquire, userVars, callVars
  <1>7. AcceptDropInitiate(n, m, c) => QuietStep \/ Acquire(n, m, c)
    <2> SUFFICES ASSUME AcceptDropInitiate(n, m, c) PROVE QuietStep \/ Acquire(n, m, c)
      OBVIOUS
    <2>1. CASE rmsg[<<n, m, c>>].hash # cb[<<n, m>>].hash
      BY <2>1 DEF AcceptDropInitiate, CanDrop, Acquire, userVars, callVars
    <2>2. CASE rmsg[<<n, m, c>>].hash = cb[<<n, m>>].hash
      <3>1. /\ rpc[<<n, m, c>>] = "lock" /\ ~locked[n] /\ state' = state /\ wpc' = wpc
            /\ dropping' = dropping
            /\ locked' = [locked EXCEPT ![n] = FALSE]
            /\ rpc' = [rpc EXCEPT ![<<n, m, c>>] = "poll"]
        BY <2>2 DEF AcceptDropInitiate, userVars, callVars
      <3>2. locked' = locked
        BY <3>1, <1>2
      <3> QED
        BY <3>1, <3>2, LinkMove DEF ReaderHolds, Serving, InDialog
    <2> QED
      BY <2>1, <2>2
  <1>8. StartReceive(n, m, c) => Acquire(n, m, c)
    BY DEF StartReceive, Acquire, userVars, callVars
  <1>9. (\E accept \in BOOLEAN : FileDropResponse(n, m, c, accept))
          => \E s \in States : Release(n, m, c, s)
    <2> SUFFICES ASSUME NEW accept \in BOOLEAN, FileDropResponse(n, m, c, accept)
                 PROVE  \E s \in States : Release(n, m, c, s)
      OBVIOUS
    <2>1. state[n] = "UNINIT" /\ ReaderHolds(n, m, c)
      BY DEF FileDropResponse, MutexInv, StateMatchesTransfer, InDialog, ReaderHolds
    <2>2. state' = [state EXCEPT ![n] = IF accept THEN "DEST_INIT" ELSE "UNINIT"]
      BY <2>1, <1>2 DEF FileDropResponse
    <2> QED
      BY <2>1, <2>2 DEF FileDropResponse, Release, States, userVars, callVars
  <1>10. NothingToServe(n, m, c) => Release(n, m, c, "UNINIT")
    BY DEF NothingToServe, EndServe, Release, ReaderHolds, Serving, States, userVars,
       callVars
  <1>11. FinishServe(n, m, c) => Release(n, m, c, "UNINIT")
    BY DEF FinishServe, EndServe, Release, ReaderHolds, Serving, States, userVars,
       callVars
  <1>12. ReceiveCancel(n, m, c) => Release(n, m, c, "UNINIT")
    BY DEF ReceiveCancel, EndReceive, Release, Receiving, States, userVars, callVars
  <1>13. FinishReceive(n, m, c) => Release(n, m, c, "UNINIT")
    BY DEF FinishReceive, EndReceive, Release, Receiving, States, userVars, callVars
  <1>14. FailServe(n, m, c) => Release(n, m, c, "UNINIT")
    BY DEF FailServe, EndServe, Release, ReaderHolds, Serving, States, userVars, callVars
  <1> QED
    BY <1>3, <1>4, <1>5, <1>6, <1>7, <1>8, <1>9, <1>10, <1>11, <1>12, <1>13,
       <1>14

-----------------------------------------------------------------------------
(* Every step of the specification keeps the invariant.                    *)
LEMMA NextMutexInv == MutexInv /\ [Next]_vars => MutexInv'
  <1> SUFFICES ASSUME MutexInv, [Next]_vars PROVE MutexInv'
    OBVIOUS
  <1>1. ASSUME NEW n \in Nodes,
               \/ \E f \in Files : UserCopyFile(n, f)
               \/ StoreCopySize(n) \/ UserCopyText(n) \/ UserPaste(n)
               \/ \E m \in Peers(n), f \in Files : UserDrop(n, m, f)
               \/ FileDropRequest(n) \/ FileDropRequestEnds(n)
        PROVE  MutexInv'
    <2>1. \/ QuietStep \/ \E s \in States : FreeWrite(n, s)
          \/ FileDropRequest(n) \/ FileDropRequestEnds(n)
      BY <1>1, UserNodeSteps DEF States
    <2> QED
      BY <2>1, QuietStepKeeps, FreeWriteKeeps, DropBegins, DropEnds
  <1>2. ASSUME NEW n \in Nodes, NEW m \in Peers(n), NEW c \in Conns,
               User(n, m, c) \/ Reader(n, m, c) \/ Watchers(n, m, c) \/ Writer(n, m, c)
        PROVE  MutexInv'
    <2>1. CASE User(n, m, c)
      <3>1. QuietStep \/ \E s \in States : Release(n, m, c, s)
        BY <2>1, QuietLinkSteps, LockingLinkSteps, ConnectStep DEF User
      <3> QED
        BY <3>1, QuietStepKeeps, ReleaseKeeps
    <2>2. CASE Reader(n, m, c)
      <3>1. \/ QuietStep \/ Acquire(n, m, c)
            \/ \E s \in States : FreeWrite(n, s) \/ Release(n, m, c, s)
        BY <2>2, QuietLinkSteps, LockingLinkSteps DEF Reader, States
      <3> QED
        BY <3>1, QuietStepKeeps, FreeWriteKeeps, AcquireKeeps, ReleaseKeeps
    <2>3. CASE Watchers(n, m, c)
      BY <2>3, QuietLinkSteps, QuietStepKeeps DEF Watchers
    <2>4. CASE Writer(n, m, c)
      <3>1. \/ QuietStep \/ Acquire(n, m, c)
            \/ \E s \in States : FreeWrite(n, s) \/ Release(n, m, c, s)
        BY <2>4, QuietLinkSteps, LockingLinkSteps DEF Writer, States
      <3> QED
        BY <3>1, QuietStepKeeps, FreeWriteKeeps, AcquireKeeps, ReleaseKeeps
    <2> QED
      BY <1>2, <2>1, <2>2, <2>3, <2>4
  <1>3. CASE UNCHANGED vars
    <2>1. QuietStep
      BY <1>3 DEF vars, handlerVars, threadVars, recvVars, userVars, callVars, QuietStep, SameHolders, MutexInv,
         ControlTypeOK, Serving, InDialog, Receiving
    <2> QED
      BY <2>1, QuietStepKeeps
  <1> QED
    BY <1>1, <1>2, <1>3 DEF Next

(* The mutex discipline holds in every reachable state.                    *)
THEOREM MutexInvariant == Spec => []MutexInv
  <1>1. Init => MutexInv
    BY InitMutexInv
  <1>2. MutexInv /\ [Next]_vars => MutexInv'
    BY NextMutexInv
  <1> QED
    BY <1>1, <1>2, PTL DEF Spec

(* In every reachable state, for any number of nodes: a node that sends or *)
(* receives a file, waits for its user's answer to a drop or stores a drop *)
(* request is in the state that says so, and SRC_INIT is never left behind. *)
THEOREM StateMatchesTransferHolds == Spec => []StateMatchesTransfer
  <1>1. MutexInv => StateMatchesTransfer
    BY DEF MutexInv
  <1> QED
    BY <1>1, MutexInvariant, PTL

(* A node never runs two transfers at a time, over any of its connections, *)
(* and CtxMutex is held exactly while it runs one.                         *)
THEOREM OneTransferAtATimeHolds == Spec => []OneTransferAtATime
  <1>1. MutexInv => OneTransferAtATime
    BY DEF MutexInv
  <1> QED
    BY <1>1, MutexInvariant, PTL

-----------------------------------------------------------------------------
(* A paste *)

(* The steps of a link that change Handler.State of its node: all but the  *)
(* request find it in another state than DEST_INIT.                        *)
LEMMA StateChange ==
  ASSUME MutexInv, NEW n \in Nodes, NEW m \in Peers(n), NEW c \in Conns,
         User(n, m, c) \/ Reader(n, m, c) \/ Watchers(n, m, c) \/ Writer(n, m, c)
  PROVE  state' = state \/ SendFileReq(n, m, c)
           \/ (state[n] # "DEST_INIT" /\ \E s \in States : state' = [state EXCEPT ![n] = s])
  <1> DEFINE Elsewhere == state[n] # "DEST_INIT" /\ \E s \in States : state' = [state EXCEPT ![n] = s]
  <1>1. QuietStep => state' = state
    BY DEF QuietStep
  <1>2. \A s \in States : Release(n, m, c, s) => Elsewhere
    BY DEF Release, ReaderHolds, MutexInv, StateMatchesTransfer
  <1>3. AcceptAck(n, m, c) => Elsewhere
    BY DEF AcceptAck, CanAck, States
  <1>4. SendDropInitiate(n, m, c) => Elsewhere
    BY DEF SendDropInitiate, States
  <1>5. AcceptFileReq(n, m, c) => Elsewhere
    BY DEF AcceptFileReq, CanServe, States
  <1>6. AcceptDropInitiate(n, m, c) \/ StartReceive(n, m, c) => state' = state
    BY DEF AcceptDropInitiate, StartReceive
  <1>7. "UNINIT" \in States
    BY DEF States
  <1> HIDE DEF Elsewhere
  <1>8. User(n, m, c) => state' = state \/ Elsewhere
    BY <1>1, <1>2, QuietLinkSteps, LockingLinkSteps, ConnectStep DEF User
  <1>9. Reader(n, m, c) => state' = state \/ Elsewhere
    BY <1>1, <1>2, <1>3, <1>5, <1>6, <1>7, QuietLinkSteps, LockingLinkSteps DEF Reader
  <1>10. Watchers(n, m, c) => state' = state
    BY <1>1, QuietLinkSteps DEF Watchers
  <1>11. Writer(n, m, c) => state' = state \/ Elsewhere \/ SendFileReq(n, m, c)
    BY <1>1, <1>2, <1>4, <1>6, <1>7, QuietLinkSteps, LockingLinkSteps DEF Writer
  <1> QED
    BY <1>8, <1>9, <1>10, <1>11 DEF Elsewhere

(* The request puts a FILE_REQ on the stream of its link, if that lives.   *)
LEMMA RequestSent ==
  ASSUME TypeInv, NEW n \in Nodes, NEW m \in Peers(n), NEW c \in Conns, SendFileReq(n, m, c)
  PROVE  /\ state' = [state EXCEPT ![n] = "PROCESSING_TRAN_ING"]
         /\ \/ <<n, m, c>> \notin up
            \/ \E s \in {"FILE", "TEXT", ""} :
                 chan'[<<n, m, c>>] = Append(chan[<<n, m, c>>],
                   Message("FILE_REQ", s, NoHash, None, copySize[n]))
  <1>1. <<n, m, c>> \in Links /\ cb[<<n, m>>].fmt \in {"FILE", "TEXT", ""} /\ DOMAIN chan = Links
    BY LinkOf DEF TypeInv, TypeOK, Fmts
  <1> QED
    BY <1>1 DEF SendFileReq, Send

(* A step out of DEST_INIT is a drop or the request.                       *)
LEMMA PasteStep ==
  ASSUME TypeInv, MutexInv, [Next]_vars, NEW n \in Nodes,
         state[n] = "DEST_INIT", state'[n] # "DEST_INIT"
  PROVE  \/ state'[n] = "FILE_DROP_INIT"
         \/ /\ state'[n] = "PROCESSING_TRAN_ING"
            /\ \E m \in Peers(n), c \in Conns :
                 \/ <<n, m, c>> \notin up
                 \/ \E s \in {"FILE", "TEXT", ""} :
                      chan'[<<n, m, c>>] = Append(chan[<<n, m, c>>],
                        Message("FILE_REQ", s, NoHash, None, copySize[n]))
  <1>1. DOMAIN state = Nodes
    BY DEF TypeInv, TypeOK
  <1>2. CASE UNCHANGED vars
    BY <1>2 DEF vars, handlerVars
  <1>3. ASSUME NEW j \in Nodes,
               \/ \E f \in Files : UserCopyFile(j, f)
               \/ StoreCopySize(j) \/ UserCopyText(j) \/ UserPaste(j)
               \/ \E m \in Peers(j), f \in Files : UserDrop(j, m, f)
               \/ FileDropRequest(j) \/ FileDropRequestEnds(j)
        PROVE  state'[n] = "FILE_DROP_INIT"
    <2>1. \/ state' = state
          \/ state' = [state EXCEPT ![j] = "DEST_INIT"]
          \/ state' = [state EXCEPT ![j] = "FILE_DROP_INIT"]
      BY <1>3 DEF UserCopyFile, StoreCopySize, UserCopyText, UserPaste, UserDrop, FileDropRequest,
         FileDropRequestEnds, handlerVars
    <2> QED
      BY <1>1, <2>1
  <1>4. ASSUME NEW j \in Nodes, NEW m \in Peers(j), NEW c \in Conns,
               User(j, m, c) \/ Reader(j, m, c) \/ Watchers(j, m, c) \/ Writer(j, m, c)
        PROVE  j = n /\ SendFileReq(n, m, c)
    <2>1. \/ SendFileReq(j, m, c)
          \/ state[j] # "DEST_INIT" /\ \E s \in States : state' = [state EXCEPT ![j] = s]
      BY <1>4, StateChange
    <2>2. j = n
      BY <1>1, <2>1 DEF SendFileReq
    <2> QED
      BY <2>1, <2>2
  <1>5. ASSUME NEW m \in Peers(n), NEW c \in Conns, SendFileReq(n, m, c)
        PROVE  /\ state'[n] = "PROCESSING_TRAN_ING"
               /\ \/ <<n, m, c>> \notin up
                  \/ \E s \in {"FILE", "TEXT", ""} :
                       chan'[<<n, m, c>>] = Append(chan[<<n, m, c>>],
                         Message("FILE_REQ", s, NoHash, None, copySize[n]))
    BY <1>1, <1>5, RequestSent
  <1>6. CASE \E m \in Peers(n), c \in Conns : SendFileReq(n, m, c)
    BY <1>5, <1>6
  <1>7. CASE \E j \in Nodes : \E m \in Peers(j), c \in Conns :
                User(j, m, c) \/ Reader(j, m, c) \/ Watchers(j, m, c) \/ Writer(j, m, c)
    BY <1>4, <1>6, <1>7
  <1> QED
    BY <1>2, <1>3, <1>7 DEF Next

(* A paste the user asked for is never dropped: the other goroutines, of   *)
(* any number of connections, leave DEST_INIT alone until the request is   *)
(* on a stream or the user starts a drop.                                  *)
THEOREM PasteNotLostHolds == Spec => PasteNotLost
  <1> DEFINE Kept ==
        \A n \in Nodes :
          state[n] = "DEST_INIT" /\ state'[n] # "DEST_INIT" =>
            \/ state'[n] = "FILE_DROP_INIT"
            \/ /\ state'[n] = "PROCESSING_TRAN_ING"
               /\ \E m \in Peers(n), c \in Conns :
                    \/ <<n, m, c>> \notin up
                    \/ \E s \in {"FILE", "TEXT", ""} :
                         chan'[<<n, m, c>>] = Append(chan[<<n, m, c>>],
                           Message("FILE_REQ", s, NoHash, None, copySize[n]))
  <1>1. TypeInv /\ MutexInv /\ [Next]_vars => Kept
    BY PasteStep
  <1>2. Spec => [][Kept]_vars
    BY <1>1, TypeInvariant, MutexInvariant, PTL DEF Spec
  <1> QED
    BY <1>2 DEF PasteNotLost

-----------------------------------------------------------------------------
(* The receive loop *)

(* The items of s behind its first a are data, up to number b.             *)
DataRun(s, a, b) == \A j \in (a + 1)..b : s[j].cmd = "DATA"

(* The data with which s goes on behind its first a items are the chunks   *)
(* of one file from the first on.                                          *)
InRun(s, a) ==
  \A i \in (a + 1)..Len(s) :
    DataRun(s, a, i) => s[i].n = i - a /\ s[i].file = s[a + 1].file

(* If nothing else follows, the next chunk the source sends goes on with   *)
(* them: pc is where its reader is, sv what it has sent.                   *)
Feeds(s, a, pc, sv) ==
  DataRun(s, a, Len(s)) =>
    /\ pc = "wait" => Len(s) = a
    /\ pc = "serve" => sv.sent = Len(s) - a /\ (Len(s) > a => s[a + 1].file = sv.file)

Good(s, a, pc, sv) == InRun(s, a) /\ Feeds(s, a, pc, sv)

(* The data on a stream s wait behind the FILE_REQ_ACK they belong to.     *)
Behind(s, pc, sv) ==
  \A i \in 1..Len(s) : s[i].cmd = "FILE_REQ_ACK" => Good(s, i, pc, sv)

(* The same items from another position on.                                *)
LEMMA GoodShift ==
  ASSUME NEW s, NEW t, NEW k \in Nat, NEW a \in Nat, NEW pc, NEW sv,
         Len(s) \in Nat, Len(t) \in Nat, Len(s) = Len(t) + k,
         \A i \in 1..Len(t) : t[i] = s[i + k],
         Good(s, a + k, pc, sv)
  PROVE  Good(t, a, pc, sv)
  <1>1. ASSUME NEW b \in 0..Len(t), DataRun(t, a, b)
        PROVE  DataRun(s, a + k, b + k)
    <2>1. ASSUME NEW j \in (a + k + 1)..(b + k) PROVE s[j].cmd = "DATA"
      <3>1. j - k \in (a + 1)..b /\ j - k \in 1..Len(t) /\ (j - k) + k = j
        OBVIOUS
      <3> QED  BY <1>1, <3>1 DEF DataRun
    <2> QED  BY <2>1 DEF DataRun
  <1>2. InRun(t, a)
    <2> SUFFICES ASSUME NEW i \in (a + 1)..Len(t), DataRun(t, a, i)
                 PROVE  t[i].n = i - a /\ t[i].file = t[a + 1].file
      BY DEF InRun
    <2>1. /\ i \in 1..Len(t) /\ a + 1 \in 1..Len(t)
          /\ i + k \in (a + k + 1)..Len(s) /\ (a + 1) + k = (a + k) + 1
          /\ (i + k) - (a + k) = i - a
      OBVIOUS
    <2>2. DataRun(s, a + k, i + k)
      BY <1>1, <2>1
    <2>3. s[i + k].n = (i + k) - (a + k) /\ s[i + k].file = s[(a + k) + 1].file
      BY <2>1, <2>2 DEF Good, InRun
    <2>4. t[i] = s[i + k] /\ t[a + 1] = s[(a + 1) + k]
      BY <2>1
    <2> QED  BY <2>1, <2>3, <2>4
  <1>3. Feeds(t, a, pc, sv)
    <2> SUFFICES ASSUME DataRun(t, a, Len(t))
                 PROVE  /\ pc = "wait" => Len(t) = a
                        /\ pc = "serve" => /\ sv.sent = Len(t) - a
                                           /\ Len(t) > a => t[a + 1].file = sv.file
      BY DEF Feeds
    <2>1. DataRun(s, a + k, Len(s))
      BY <1>1
    <2>2. Len(t) > a => t[a + 1] = s[(a + k) + 1]
      <3>1. Len(t) > a => a + 1 \in 1..Len(t) /\ (a + 1) + k = (a + k) + 1
        OBVIOUS
      <3> QED  BY <3>1
    <2> QED  BY <2>1, <2>2 DEF Good, Feeds
  <1> QED
    BY <1>2, <1>3 DEF Good

(* What a shorter sequence has of the run is in order as well.             *)
LEMMA RunPrefix ==
  ASSUME NEW s, NEW t, NEW a \in Nat, Len(s) \in Nat, Len(t) \in Nat, Len(t) <= Len(s),
         \A i \in 1..Len(t) : t[i] = s[i], InRun(s, a)
  PROVE  InRun(t, a)
  <1> SUFFICES ASSUME NEW i \in (a + 1)..Len(t), DataRun(t, a, i)
               PROVE  t[i].n = i - a /\ t[i].file = t[a + 1].file
    BY DEF InRun
  <1>1. i \in 1..Len(t) /\ a + 1 \in 1..Len(t) /\ i \in (a + 1)..Len(s)
    OBVIOUS
  <1>2. DataRun(s, a, i)
    <2>1. \A j \in (a + 1)..i : j \in 1..Len(t)
      OBVIOUS
    <2> QED  BY <2>1 DEF DataRun
  <1> QED
    BY <1>1, <1>2 DEF InRun

(* An item more: a message ends the run, the next chunk goes on with it.   *)
LEMMA GoodExtend ==
  ASSUME NEW s, NEW t, NEW x, NEW a \in Nat, NEW pc, NEW sv, NEW qc, NEW tv,
         Len(s) \in Nat, Len(t) \in Nat, Len(t) = Len(s) + 1, a <= Len(s),
         \A i \in 1..Len(s) : t[i] = s[i], t[Len(t)] = x, Good(s, a, pc, sv),
         \/ x.cmd # "DATA"
         \/ /\ pc = "serve" /\ sv.sent \in Nat /\ x.n = sv.sent + 1 /\ x.file = sv.file
            /\ tv.sent = sv.sent + 1 /\ tv.file = sv.file /\ qc = "serve"
  PROVE  Good(t, a, qc, tv)
  <1>1. ASSUME NEW b \in 0..Len(s), DataRun(t, a, b)
        PROVE  DataRun(s, a, b)
    <2>1. \A j \in (a + 1)..b : j \in 1..Len(s)
      OBVIOUS
    <2> QED  BY <1>1, <2>1 DEF DataRun
  <1>2. ASSUME DataRun(t, a, Len(t))
        PROVE  /\ x.cmd = "DATA" /\ DataRun(s, a, Len(s))
               /\ x.n = Len(t) - a /\ x.file = t[a + 1].file
               /\ tv.sent = Len(t) - a /\ tv.file = t[a + 1].file /\ qc = "serve"
    <2>1. x.cmd = "DATA"
      <3>1. Len(t) \in (a + 1)..Len(t)
        OBVIOUS
      <3> QED  BY <1>2, <3>1 DEF DataRun
    <2>2. DataRun(s, a, Len(s))
      <3>1. DataRun(t, a, Len(s))
        <4>1. \A j \in (a + 1)..Len(s) : j \in (a + 1)..Len(t)
          OBVIOUS
        <4> QED  BY <1>2, <4>1 DEF DataRun
      <3> QED  BY <1>1, <3>1
    <2>3. sv.sent = Len(s) - a /\ (Len(s) > a => s[a + 1].file = sv.file)
      BY <2>1, <2>2 DEF Good, Feeds
    <2>4. t[a + 1].file = sv.file
      <3>1. CASE Len(s) > a
        <4>1. a + 1 \in 1..Len(s)
          BY <3>1
        <4> QED  BY <2>3, <3>1, <4>1
      <3>2. CASE Len(s) = a
        BY <2>1, <3>2
      <3> QED  BY <3>1, <3>2
    <2> QED  BY <2>1, <2>2, <2>3, <2>4
  <1>3. InRun(t, a)
    <2> SUFFICES ASSUME NEW i \in (a + 1)..Len(t), DataRun(t, a, i)
                 PROVE  t[i].n = i - a /\ t[i].file = t[a + 1].file
      BY DEF InRun
    <2>1. CASE i = Len(t)
      BY <1>2, <2>1
    <2>2. CASE i # Len(t)
      <3>1. i \in 0..Len(s) /\ i \in 1..Len(s) /\ a + 1 \in 1..Len(s) /\ i \in (a + 1)..Len(s)
        BY <2>2
      <3>2. DataRun(s, a, i)
        BY <1>1, <3>1
      <3> QED  BY <3>1, <3>2 DEF Good, InRun
    <2> QED  BY <2>1, <2>2
  <1>4. Feeds(t, a, qc, tv)
    BY <1>2 DEF Feeds
  <1> QED
    BY <1>3, <1>4 DEF Good

(* What a step of the source does to the stream, its pc and its sv.        *)
SourceMove(s, pc, sv, s2, pc2, sv2) ==
  \/ s2 = s /\ pc2 \notin {"wait", "serve"}
  \/ s2 = s /\ pc2 = pc /\ sv2 = sv
  \/ s2 = s /\ pc = "wait" /\ pc2 = "serve" /\ sv2.sent = 0
  \/ s2 = <<>> /\ pc2 = "down"
  \/ \E x \in Items : /\ s2 = Append(s, x) /\ x.cmd # "DATA"
                      /\ x.cmd = "FILE_REQ_ACK" => pc2 # "serve"
  \/ \E x \in Items : /\ s2 = Append(s, x) /\ x.cmd = "DATA"
                      /\ pc = "serve" /\ x.n = sv.sent + 1 /\ x.file = sv.file
                      /\ pc2 = "serve" /\ sv2.sent = sv.sent + 1 /\ sv2.file = sv.file

(* The run when the source does not send.                                  *)
LEMMA GoodQuiet ==
  ASSUME NEW s, NEW a, NEW pc, NEW sv, NEW pc2, NEW sv2, Good(s, a, pc, sv),
         a \in Nat, Len(s) \in Nat,
         \/ pc2 \notin {"wait", "serve"}
         \/ pc2 = pc /\ sv2 = sv
         \/ pc = "wait" /\ pc2 = "serve" /\ sv2.sent = 0
  PROVE  Good(s, a, pc2, sv2)
  BY DEF Good, Feeds

(* A step of the source keeps the data in order, those on the stream and   *)
(* those that the receive loop has got (g) together with them.             *)
LEMMA SourceKeeps ==
  ASSUME NEW s \in Seq(Items), NEW g \in Seq(Items), NEW pc, NEW sv, NEW s2, NEW pc2, NEW sv2,
         sv.sent \in Nat, Behind(s, pc, sv), SourceMove(s, pc, sv, s2, pc2, sv2)
  PROVE  /\ Behind(s2, pc2, sv2)
         /\ Good(g \o s, 0, pc, sv) => Good(g \o s2, 0, pc2, sv2)
  <1> DEFINE Kept == /\ Behind(s2, pc2, sv2)
                     /\ Good(g \o s, 0, pc, sv) => Good(g \o s2, 0, pc2, sv2)
  <1>1. /\ g \o s \in Seq(Items) /\ Len(g \o s) = Len(g) + Len(s)
        /\ Len(g) \in Nat /\ Len(s) \in Nat
        /\ \A i \in 1..Len(g) : (g \o s)[i] = g[i]
        /\ Len(g \o s) \in Nat
    BY ConcatProperties, LenProperties
  <1>2. CASE s2 = s /\ (\/ pc2 \notin {"wait", "serve"}
                        \/ pc2 = pc /\ sv2 = sv
                        \/ pc = "wait" /\ pc2 = "serve" /\ sv2.sent = 0)
    <2>1. \A i \in 1..Len(s) : i \in Nat
      BY <1>1
    <2> QED
      BY <1>1, <1>2, <2>1, GoodQuiet DEF Behind
  <1>3. CASE s2 = <<>> /\ pc2 = "down"
    <2>1. g \o s2 = g /\ Len(s2) = 0
      BY <1>3
    <2>2. ASSUME Good(g \o s, 0, pc, sv) PROVE Good(g, 0, pc2, sv2)
      <3>1. InRun(g, 0)
        <4>1. InRun(g \o s, 0) /\ Len(g) <= Len(g \o s)
          BY <1>1, <2>2 DEF Good
        <4> QED
          BY <1>1, <4>1, RunPrefix
      <3> QED
        BY <1>3, <3>1 DEF Good, Feeds
    <2> QED
      BY <2>1, <2>2 DEF Behind
  <1>4. ASSUME NEW x \in Items, s2 = Append(s, x),
               \/ x.cmd # "DATA"
               \/ /\ pc = "serve" /\ sv.sent \in Nat /\ x.n = sv.sent + 1 /\ x.file = sv.file
                  /\ sv2.sent = sv.sent + 1 /\ sv2.file = sv.file /\ pc2 = "serve",
               x.cmd = "FILE_REQ_ACK" => pc2 # "serve"
        PROVE  Kept
    <2>1. /\ s2 \in Seq(Items) /\ Len(s2) = Len(s) + 1 /\ s2[Len(s2)] = x
          /\ \A i \in 1..Len(s) : s2[i] = s[i]
      BY <1>4, AppendProperties
    <2>2. /\ Len(g \o s2) = Len(g \o s) + 1 /\ (g \o s2)[Len(g \o s2)] = x
          /\ \A i \in 1..Len(g \o s) : (g \o s2)[i] = (g \o s)[i]
      <3>1. /\ Len(g \o s2) = Len(g) + Len(s2)
            /\ \A i \in 1..Len(g) + Len(s2) :
                 (g \o s2)[i] = IF i <= Len(g) THEN g[i] ELSE s2[i - Len(g)]
        BY <2>1, ConcatProperties
      <3>2. \A i \in 1..Len(g) + Len(s) :
                 (g \o s)[i] = IF i <= Len(g) THEN g[i] ELSE s[i - Len(g)]
        BY ConcatProperties
      <3> QED
        BY <1>1, <2>1, <3>1, <3>2
    <2>3. ASSUME NEW i \in 1..Len(s2), s2[i].cmd = "FILE_REQ_ACK"
          PROVE  Good(s2, i, pc2, sv2)
      <3>1. CASE i \in 1..Len(s)
        <4>1. Good(s, i, pc, sv)
          BY <2>1, <2>3, <3>1 DEF Behind
        <4>2. i \in Nat /\ i <= Len(s) /\ Len(s2) \in Nat
          BY <1>1, <2>1, <3>1
        <4> QED
          BY <1>1, <1>4, <2>1, <4>1, <4>2, GoodExtend
      <3>2. CASE i = Len(s2)
        <4>1. pc2 # "serve"
          BY <1>4, <2>1, <2>3, <3>2
        <4> QED
          BY <1>1, <2>1, <3>2, <4>1 DEF Good, InRun, Feeds
      <3> QED
        BY <1>1, <2>1, <3>1, <3>2
    <2>4. ASSUME Good(g \o s, 0, pc, sv) PROVE Good(g \o s2, 0, pc2, sv2)
      <3>1. Len(g \o s2) \in Nat /\ 0 <= Len(g \o s)
        BY <1>1, <2>2
      <3> QED
        BY <1>1, <1>4, <2>2, <2>4, <3>1, GoodExtend
    <2> QED
      BY <2>3, <2>4 DEF Behind
  <1>5. ASSUME NEW x \in Items, s2 = Append(s, x) /\ x.cmd = "DATA",
               /\ pc = "serve" /\ x.n = sv.sent + 1 /\ x.file = sv.file
               /\ pc2 = "serve" /\ sv2.sent = sv.sent + 1 /\ sv2.file = sv.file
        PROVE  Kept
    BY <1>4, <1>5
  <1> QED
    BY <1>2, <1>3, <1>4, <1>5 DEF SourceMove

(* What is left of s when its first k items have been taken.               *)
IsRest(s2, s, k) == s2 = SubSeq(s, k + 1, Len(s))

(* So does taking the first k items off the stream: behind a FILE_REQ_ACK  *)
(* comes the first chunk, and what the loop takes it goes on with.         *)
LEMMA TakingKeeps ==
  ASSUME NEW s \in Seq(Items), NEW g \in Seq(Items), NEW pc, NEW sv, NEW k \in 1..Len(s),
         NEW s2, IsRest(s2, s, k), Behind(s, pc, sv)
  PROVE  /\ Behind(s2, pc, sv)
         /\ k = 1 /\ s[1].cmd = "FILE_REQ_ACK" => Good(<<>> \o s2, 0, pc, sv)
         /\ Good(g \o s, 0, pc, sv) => Good((g \o SubSeq(s, 1, k)) \o s2, 0, pc, sv)
  <1>1. /\ Len(s) \in Nat /\ k \in Nat /\ Len(s2) \in Nat /\ Len(s) = Len(s2) + k
        /\ s2 \in Seq(Items)
        /\ \A i \in 1..Len(s2) : s2[i] = s[i + k] /\ i + k \in 1..Len(s) /\ i \in Nat
    <2>1. /\ Len(s) \in Nat /\ k \in Nat /\ k + 1 \in 1..Len(s) + 1 /\ Len(s) \in k..Len(s)
      BY LenProperties
    <2>2. /\ s2 \in Seq(Items)
          /\ Len(s2) = IF k + 1 <= Len(s) THEN Len(s) - (k + 1) + 1 ELSE 0
          /\ \A i \in 1..(Len(s) - (k + 1) + 1) : s2[i] = s[(k + 1) + i - 1]
      BY <2>1, SubSeqProperties DEF IsRest
    <2>3. Len(s2) = Len(s) - k
      BY <2>1, <2>2
    <2> QED
      BY <2>1, <2>2, <2>3
  <1>2. ASSUME NEW i \in 1..Len(s2), s2[i].cmd = "FILE_REQ_ACK"
        PROVE  Good(s2, i, pc, sv)
    <2>1. Good(s, i + k, pc, sv)
      BY <1>1, <1>2 DEF Behind
    <2> QED
      BY <1>1, <2>1, GoodShift
  <1>3. ASSUME k = 1, s[1].cmd = "FILE_REQ_ACK"
        PROVE  Good(<<>> \o s2, 0, pc, sv)
    <2>1. Good(s, 0 + k, pc, sv)
      BY <1>1, <1>3 DEF Behind
    <2>2. Good(s2, 0, pc, sv)
      BY <1>1, <2>1, GoodShift
    <2>3. <<>> \o s2 = s2
      BY <1>1
    <2> QED
      BY <2>2, <2>3
  <1>4. (g \o SubSeq(s, 1, k)) \o s2 = g \o s
    <2>1. SubSeq(s, 1, k) \o s2 = s
      <3>1. SubSeq(s, 1, Len(s)) = s
        OBVIOUS
      <3>2. 1 \in 1..Len(s) + 1 /\ k \in (1 - 1)..Len(s) /\ Len(s) \in k..Len(s)
        BY <1>1
      <3> QED
        BY <3>1, <3>2, ConcatAdjacentSubSeq DEF IsRest
    <2>2. SubSeq(s, 1, k) \in Seq(Items)
      BY <1>1, SubSeqProperties
    <2>3. (g \o SubSeq(s, 1, k)) \o s2 = g \o (SubSeq(s, 1, k) \o s2)
      BY <1>1, <2>2, ConcatAssociative
    <2> QED
      BY <2>1, <2>3
  <1> QED
    BY <1>2, <1>3, <1>4 DEF Behind

-----------------------------------------------------------------------------
(* The inductive invariant of the streams *)

(* Where the reader of the source is, unless its stream is broken: then    *)
(* nothing it writes arrives.                                              *)
Sender(n, m, c) == IF <<n, m, c>> \in up THEN rpc[<<n, m, c>>] ELSE "down"

(* What the receive loop has got, if it runs on this link.                 *)
Got(n, m, c) == IF Receiving(n, m, c) THEN recv[n].got ELSE <<>>

(* The reader of the link has taken a FILE_REQ_ACK off the stream, or it   *)
(* has set PROCESSING_TRAN_ING_ACK on account of it: the first chunk is to *)
(* come next, or the loop has got it.                                      *)
Holds(n, m, c) == <<n, m, c>> \in taken /\ rpc[<<n, m, c>>] \in {"guard", "lock"}
Waits(n, m, c) == state[n] = "PROCESSING_TRAN_ING_ACK" /\ <<n, m, c>> \in acked
Expects(n, m, c) == Holds(n, m, c) \/ Waits(n, m, c)

(* That the chunks got are in order follows only from what is still to     *)
(* come: on the stream, and from the source's reader.  The own reader of a *)
(* link that waits for the data does not read meanwhile.                   *)
StreamInStep(n, m, c) ==
  /\ Behind(chan[<<m, n, c>>], Sender(m, n, c), serve[m])
  /\ Expects(n, m, c) =>
       Good(Got(n, m, c) \o chan[<<m, n, c>>], 0, Sender(m, n, c), serve[m])
  /\ Waits(n, m, c) => rpc[<<n, m, c>>] = "poll"

(* The inductive invariant, with TypeInv and MutexInv.                     *)
StreamInv == \A n \in Nodes : \A m \in Peers(n), c \in Conns : StreamInStep(n, m, c)

(* The types of the variables the streams are about.                       *)
LEMMA StreamTypes ==
  ASSUME TypeInv
  PROVE  /\ state \in [Nodes -> States]
         /\ rpc \in [Links -> ReaderStates] /\ wpc \in [Links -> WriterStates]
         /\ chan \in [Links -> Seq(Items)]
         /\ serve \in [Nodes -> [file : Files \cup {None}, sent : Nat]]
         /\ recv \in [Nodes -> [size : Nat, fmt : Fmts, got : Seq(Items)]]
         /\ taken \subseteq Links /\ acked \subseteq Links
  BY DEF TypeInv, TypeOK

(* The types of what one link receives.                                    *)
LEMMA LinkTypes ==
  ASSUME TypeInv, NEW n \in Nodes, NEW m \in Peers(n), NEW c \in Conns
  PROVE  /\ n # m /\ m \in Nodes /\ n \in Peers(m)
         /\ <<n, m, c>> \in Links /\ <<m, n, c>> \in Links /\ <<n, m, c>> # <<m, n, c>>
         /\ chan[<<m, n, c>>] \in Seq(Items) /\ Got(n, m, c) \in Seq(Items)
         /\ serve[m].sent \in Nat
  <1>1. /\ n # m /\ m \in Nodes /\ n \in Peers(m)
        /\ <<n, m, c>> \in Links /\ <<m, n, c>> \in Links
    BY LinkOf
  <1>2. Got(n, m, c) \in Seq(Items)
    BY StreamTypes, EmptySeq DEF Got
  <1> QED
    BY <1>1, <1>2, StreamTypes

(* The receiving node does nothing to the link.                            *)
Still(n, m, c) ==
  /\ Expects(n, m, c)' => Expects(n, m, c) /\ Got(n, m, c)' = Got(n, m, c)
  /\ Waits(n, m, c)' => rpc'[<<n, m, c>>] = "poll"

(* Then the stream stays in step, whatever the source does.                *)
LEMMA StillKeeps ==
  ASSUME TypeInv, NEW n \in Nodes, NEW m \in Peers(n), NEW c \in Conns,
         StreamInStep(n, m, c), Still(n, m, c),
         SourceMove(chan[<<m, n, c>>], Sender(m, n, c), serve[m],
                    chan'[<<m, n, c>>], Sender(m, n, c)', serve'[m])
  PROVE  StreamInStep(n, m, c)'
  <1>1. chan[<<m, n, c>>] \in Seq(Items) /\ Got(n, m, c) \in Seq(Items) /\ serve[m].sent \in Nat
    BY LinkTypes
  <1>2. Behind(chan[<<m, n, c>>], Sender(m, n, c), serve[m])
    BY DEF StreamInStep
  <1>3. /\ Behind(chan'[<<m, n, c>>], Sender(m, n, c)', serve'[m])
        /\ Good(Got(n, m, c) \o chan[<<m, n, c>>], 0, Sender(m, n, c), serve[m])
             => Good(Got(n, m, c) \o chan'[<<m, n, c>>], 0, Sender(m, n, c)', serve'[m])
    BY <1>1, <1>2, SourceKeeps
  <1> QED
    BY <1>3 DEF StreamInStep, Still

(* The receiving node takes items off the stream: its reader the           *)
(* FILE_REQ_ACK, its loop what it gets; or it expects no data afterwards.  *)
Taking(n, m, c) ==
  \E k \in 1..Len(chan[<<m, n, c>>]) :
    /\ chan'[<<m, n, c>>] = SubSeq(chan[<<m, n, c>>], k + 1, Len(chan[<<m, n, c>>]))
    /\ \/ ~Expects(n, m, c)'
       \/ Got(n, m, c)' = <<>> /\ k = 1 /\ chan[<<m, n, c>>][1].cmd = "FILE_REQ_ACK"
       \/ /\ Got(n, m, c)' = Got(n, m, c) \o SubSeq(chan[<<m, n, c>>], 1, k)
          /\ Expects(n, m, c)
    /\ Waits(n, m, c)' => rpc'[<<n, m, c>>] = "poll"

LEMMA TakingInStep ==
  ASSUME TypeInv, NEW n \in Nodes, NEW m \in Peers(n), NEW c \in Conns,
         StreamInStep(n, m, c), Taking(n, m, c),
         Sender(m, n, c)' = Sender(m, n, c), serve'[m] = serve[m]
  PROVE  StreamInStep(n, m, c)'
  <1>1. chan[<<m, n, c>>] \in Seq(Items) /\ Got(n, m, c) \in Seq(Items)
    BY LinkTypes
  <1>2. PICK k \in 1..Len(chan[<<m, n, c>>]) :
          /\ chan'[<<m, n, c>>] = SubSeq(chan[<<m, n, c>>], k + 1, Len(chan[<<m, n, c>>]))
          /\ \/ ~Expects(n, m, c)'
             \/ Got(n, m, c)' = <<>> /\ k = 1 /\ chan[<<m, n, c>>][1].cmd = "FILE_REQ_ACK"
             \/ /\ Got(n, m, c)' = Got(n, m, c) \o SubSeq(chan[<<m, n, c>>], 1, k)
                /\ Expects(n, m, c)
          /\ Waits(n, m, c)' => rpc'[<<n, m, c>>] = "poll"
    BY DEF Taking
  <1>3. Behind(chan[<<m, n, c>>], Sender(m, n, c), serve[m])
    BY DEF StreamInStep
  <1>4. /\ Behind(chan'[<<m, n, c>>], Sender(m, n, c), serve[m])
        /\ k = 1 /\ chan[<<m, n, c>>][1].cmd = "FILE_REQ_ACK"
             => Good(<<>> \o chan'[<<m, n, c>>], 0, Sender(m, n, c), serve[m])
        /\ Good(Got(n, m, c) \o chan[<<m, n, c>>], 0, Sender(m, n, c), serve[m])
             => Good((Got(n, m, c) \o SubSeq(chan[<<m, n, c>>], 1, k)) \o chan'[<<m, n, c>>],
                     0, Sender(m, n, c), serve[m])
    BY <1>1, <1>2, <1>3, TakingKeeps DEF IsRest
  <1>5. Expects(n, m, c)' =>
          Good(Got(n, m, c)' \o chan'[<<m, n, c>>], 0, Sender(m, n, c), serve[m])
    BY <1>2, <1>4 DEF StreamInStep
  <1> QED
    BY <1>2, <1>4, <1>5 DEF StreamInStep

-----------------------------------------------------------------------------
(* The steps of one link *)

(* What a step of the goroutines of a link may change: of its node what a  *)
(* goroutine may write only in a section of its own, and the two streams.  *)
Footprint(n, m, c) ==
  /\ up' = up
  /\ rpc' = rpc \/ \E v : rpc' = [rpc EXCEPT ![<<n, m, c>>] = v]
  /\ wpc' = wpc \/ \E v : wpc' = [wpc EXCEPT ![<<n, m, c>>] = v]
  /\ state' = state \/ \E v : state' = [state EXCEPT ![n] = v]
  /\ serve' = serve \/ (Serving(n, m, c) /\ \E v : serve' = [serve EXCEPT ![n] = v])
  /\ \/ recv' = recv
     \/ /\ Receiving(n, m, c) \/ Receiving(n, m, c)'
        /\ \E v : recv' = [recv EXCEPT ![n] = v]
  /\ \/ chan' = chan
     \/ \E v : chan' = [chan EXCEPT ![<<n, m, c>>] = v]
     \/ \E v : chan' = [chan EXCEPT ![<<m, n, c>>] = v]
  /\ taken' \subseteq taken \cup {<<n, m, c>>}
  /\ \/ acked' = acked /\ (state'[n] = state[n] \/ state'[n] # "PROCESSING_TRAN_ING_ACK")
     \/ acked' \subseteq {l \in acked : l[1] # n} \cup {<<n, m, c>>}

(* It leaves the goroutines of any other link where they are, and makes    *)
(* none of them expect data.                                               *)
LEMMA OtherLinks ==
  ASSUME TypeInv, NEW n \in Nodes, NEW m \in Peers(n), NEW c \in Conns, Footprint(n, m, c),
         NEW x \in Nodes, NEW y \in Peers(x), NEW d \in Conns, <<x, y, d>> # <<n, m, c>>
  PROVE  /\ rpc'[<<x, y, d>>] = rpc[<<x, y, d>>] /\ wpc'[<<x, y, d>>] = wpc[<<x, y, d>>]
         /\ Receiving(x, y, d)' <=> Receiving(x, y, d)
         /\ Holds(x, y, d)' => Holds(x, y, d)
         /\ Waits(x, y, d)' => Waits(x, y, d)
         /\ x # n => state'[x] = state[x] /\ serve'[x] = serve[x] /\ recv'[x] = recv[x]
  <1>1. <<x, y, d>> \in Links /\ <<n, m, c>> \in Links
    BY LinkTypes
  <1>2. /\ rpc'[<<x, y, d>>] = rpc[<<x, y, d>>] /\ wpc'[<<x, y, d>>] = wpc[<<x, y, d>>]
    BY <1>1, StreamTypes DEF Footprint
  <1>3. x # n => state'[x] = state[x] /\ serve'[x] = serve[x] /\ recv'[x] = recv[x]
    BY StreamTypes DEF Footprint
  <1>4. Holds(x, y, d)' => Holds(x, y, d)
    BY <1>2 DEF Footprint, Holds
  <1>5. Waits(x, y, d)' => Waits(x, y, d)
    <2>1. CASE x # n
      BY <1>3, <2>1 DEF Footprint, Waits
    <2>2. CASE x = n
      <3>1. <<x, y, d>>[1] = n
        BY <2>2
      <3>2. <<x, y, d>> \notin {l \in acked : l[1] # n} \cup {<<n, m, c>>}
        BY <3>1
      <3> QED
        BY <2>2, <3>2 DEF Footprint, Waits
    <2> QED
      BY <2>1, <2>2
  <1> QED
    BY <1>2, <1>3, <1>4, <1>5 DEF Receiving

(* To each of them it does nothing as the receiver, since no other loop of *)
(* the node runs when one of the link does.                                *)
LEMMA OthersStill ==
  ASSUME TypeInv, MutexInv, MutexInv', StreamInv,
         NEW n \in Nodes, NEW m \in Peers(n), NEW c \in Conns, Footprint(n, m, c),
         NEW x \in Nodes, NEW y \in Peers(x), NEW d \in Conns, <<x, y, d>> # <<n, m, c>>
  PROVE  Still(x, y, d)
  <1>1. /\ rpc'[<<x, y, d>>] = rpc[<<x, y, d>>]
        /\ Receiving(x, y, d)' <=> Receiving(x, y, d)
        /\ Holds(x, y, d)' => Holds(x, y, d)
        /\ Waits(x, y, d)' => Waits(x, y, d)
        /\ x # n => recv'[x] = recv[x]
    BY OtherLinks
  <1>2. Receiving(x, y, d) => recv'[x] = recv[x]
    <2> SUFFICES ASSUME Receiving(x, y, d), x = n PROVE recv'[n] = recv[n]
      BY <1>1
    <2>1. y \in Peers(n) /\ (m # y \/ c # d)
      OBVIOUS
    <2>2. ~Receiving(n, m, c)
      BY <2>1 DEF MutexInv, OneTransferAtATime
    <2>3. ~Receiving(n, m, c)'
      BY <1>1, <2>1 DEF MutexInv, OneTransferAtATime
    <2> QED
      BY <2>2, <2>3 DEF Footprint
  <1>3. Got(x, y, d)' = Got(x, y, d)
    BY <1>1, <1>2 DEF Got
  <1>4. Waits(x, y, d) => rpc[<<x, y, d>>] = "poll"
    BY DEF StreamInv, StreamInStep
  <1> QED
    BY <1>1, <1>3, <1>4 DEF Still, Expects

(* And nothing as the source, since it does not serve when one of the link *)
(* does.                                                                   *)
LEMMA OthersSource ==
  ASSUME TypeInv, MutexInv,
         NEW n \in Nodes, NEW m \in Peers(n), NEW c \in Conns, Footprint(n, m, c),
         NEW x \in Nodes, NEW y \in Peers(x), NEW d \in Conns, <<x, y, d>> # <<n, m, c>>,
         chan'[<<x, y, d>>] = chan[<<x, y, d>>]
  PROVE  SourceMove(chan[<<x, y, d>>], Sender(x, y, d), serve[x],
                    chan'[<<x, y, d>>], Sender(x, y, d)', serve'[x])
  <1>1. rpc'[<<x, y, d>>] = rpc[<<x, y, d>>] /\ (x # n => serve'[x] = serve[x])
    BY OtherLinks
  <1>2. Sender(x, y, d)' = Sender(x, y, d)
    BY <1>1 DEF Sender, Footprint
  <1>3. CASE serve'[x] = serve[x]
    BY <1>2, <1>3 DEF SourceMove
  <1>4. CASE serve'[x] # serve[x]
    <2>1. x = n /\ Serving(n, m, c) /\ y \in Peers(n) /\ (m # y \/ c # d)
      BY <1>1, <1>4 DEF Footprint
    <2>2. ~ReaderHolds(n, y, d)
      BY <2>1 DEF MutexInv, OneTransferAtATime, ReaderHolds
    <2>3. Sender(x, y, d) \notin {"wait", "serve"}
      BY <2>1, <2>2 DEF Sender, ReaderHolds, Serving
    <2> QED
      BY <1>2, <2>3 DEF SourceMove
  <1> QED
    BY <1>3, <1>4

(* A step of the goroutines of n on the link to m: n is the source of one  *)
(* stream and receives the other.                                          *)
LinkStep(n, m, c) ==
  /\ Footprint(n, m, c)
  /\ SourceMove(chan[<<n, m, c>>], Sender(n, m, c), serve[n],
                chan'[<<n, m, c>>], Sender(n, m, c)', serve'[n])
  /\ \/ Still(n, m, c) /\ chan'[<<m, n, c>>] = chan[<<m, n, c>>]
     \/ Taking(n, m, c)

(* Such a step keeps all streams in step.                                  *)
LEMMA LinkStepKeeps ==
  ASSUME TypeInv, MutexInv, MutexInv', StreamInv,
         NEW n \in Nodes, NEW m \in Peers(n), NEW c \in Conns, LinkStep(n, m, c)
  PROVE  StreamInv'
  <1> SUFFICES ASSUME NEW x \in Nodes, NEW y \in Peers(x), NEW d \in Conns
               PROVE  StreamInStep(x, y, d)'
    BY DEF StreamInv
  <1>1. /\ n # m /\ m \in Nodes /\ n \in Peers(m) /\ <<n, m, c>> # <<m, n, c>>
        /\ <<n, m, c>> \in Links /\ <<m, n, c>> \in Links
    BY LinkTypes
  <1>2. /\ y \in Nodes /\ x \in Peers(y) /\ <<x, y, d>> \in Links /\ <<y, x, d>> \in Links
    BY LinkTypes
  <1>3. Footprint(n, m, c) /\ StreamInStep(x, y, d)
    BY DEF LinkStep, StreamInv
  <1>4. CASE <<x, y, d>> = <<n, m, c>>
    <2>1. x = n /\ y = m /\ d = c
      BY <1>4
    <2>2. CASE Still(n, m, c) /\ chan'[<<m, n, c>>] = chan[<<m, n, c>>]
      <3>1. SourceMove(chan[<<m, n, c>>], Sender(m, n, c), serve[m],
                       chan'[<<m, n, c>>], Sender(m, n, c)', serve'[m])
        BY <1>1, <1>3, <2>2, OthersSource
      <3> QED
        BY <1>3, <2>1, <2>2, <3>1, StillKeeps
    <2>3. CASE Taking(n, m, c)
      <3>1. rpc'[<<m, n, c>>] = rpc[<<m, n, c>>] /\ serve'[m] = serve[m]
        BY <1>1, <1>3, OtherLinks
      <3>2. Sender(m, n, c)' = Sender(m, n, c)
        BY <1>3, <3>1 DEF Sender, Footprint
      <3> QED
        BY <1>3, <2>1, <2>3, <3>1, <3>2, TakingInStep
    <2> QED
      BY <2>2, <2>3 DEF LinkStep
  <1>5. CASE <<x, y, d>> # <<n, m, c>>
    <2>1. Still(x, y, d)
      BY <1>3, <1>5, OthersStill
    <2>2. SourceMove(chan[<<y, x, d>>], Sender(y, x, d), serve[y],
                     chan'[<<y, x, d>>], Sender(y, x, d)', serve'[y])
      <3>1. CASE <<y, x, d>> = <<n, m, c>>
        <4>1. y = n /\ x = m /\ d = c
          BY <3>1
        <4> QED
          BY <4>1 DEF LinkStep
      <3>2. CASE <<y, x, d>> # <<n, m, c>>
        <4>1. <<y, x, d>> # <<m, n, c>>
          BY <1>5
        <4>2. chan'[<<y, x, d>>] = chan[<<y, x, d>>]
          BY <1>2, <1>3, <3>2, <4>1, StreamTypes DEF Footprint
        <4> QED
          BY <1>2, <1>3, <3>2, <4>2, OthersSource
      <3> QED
        BY <3>1, <3>2
    <2> QED
      BY <1>3, <2>1, <2>2, StillKeeps
  <1> QED
    BY <1>4, <1>5

(* A step that takes no item off the stream, starts no loop, and does not  *)
(* make the link expect data.                                              *)
LEMMA ReceiverStill ==
  ASSUME StreamInv, NEW n \in Nodes, NEW m \in Peers(n), NEW c \in Conns,
         Receiving(n, m, c)' <=> Receiving(n, m, c),
         recv' = recv, taken' = taken, acked' = acked,
         \/ rpc'[<<n, m, c>>] = rpc[<<n, m, c>>]
         \/ rpc'[<<n, m, c>>] \notin {"guard", "lock"}
         \/ rpc[<<n, m, c>>] = "guard",
         \/ state'[n] # "PROCESSING_TRAN_ING_ACK"
         \/ /\ state'[n] = state[n]
            /\ rpc[<<n, m, c>>] = "poll" => rpc'[<<n, m, c>>] = "poll"
  PROVE  Still(n, m, c)
  <1>1. Got(n, m, c)' = Got(n, m, c)
    BY DEF Got
  <1>2. Holds(n, m, c)' => Holds(n, m, c)
    BY DEF Holds
  <1>3. Waits(n, m, c)' => Waits(n, m, c)
    BY DEF Waits
  <1>4. Waits(n, m, c) => rpc[<<n, m, c>>] = "poll"
    BY DEF StreamInv, StreamInStep
  <1>5. Waits(n, m, c)' => rpc'[<<n, m, c>>] = "poll"
    BY <1>3, <1>4 DEF Waits
  <1> QED
    BY <1>1, <1>2, <1>3, <1>5 DEF Still, Expects

(* The steps of the writer and of the watchers that touch nothing of this. *)
LEMMA SilentSteps ==
  ASSUME TypeInv, StreamInv, NEW n \in Nodes, NEW m \in Peers(n), NEW c \in Conns,
         \/ Watchers(n, m, c) \/ CheckTarget(n, m, c)
         \/ NothingToWrite(n, m, c) \/ WriterStops(n, m, c)
  PROVE  LinkStep(n, m, c)
  <1>1. <<n, m, c>> \in Links
    BY LinkTypes
  <1>2. /\ UNCHANGED <<state, rpc, serve, recv, taken, acked, up, chan>>
        /\ \/ wpc' = wpc
           \/ /\ wpc[<<n, m, c>>] \in {"idle", "lock"}
              /\ \E w \in {"idle", "lock", "dead"} : wpc' = [wpc EXCEPT ![<<n, m, c>>] = w]
    <2>1. CASE Watchers(n, m, c)
      BY <2>1 DEF Watchers, WatchState, PollFile, ResetForText, threadVars, recvVars, netVars,
         handlerVars
    <2>2. CASE CheckTarget(n, m, c)
      BY <2>2 DEF CheckTarget, netVars, handlerVars, recvVars
    <2>3. CASE NothingToWrite(n, m, c) \/ WriterStops(n, m, c)
      BY <2>3 DEF NothingToWrite, WriterStops, netVars, handlerVars, recvVars
    <2> QED
      BY <2>1, <2>2, <2>3
  <1>3. Receiving(n, m, c)' <=> Receiving(n, m, c)
    BY <1>1, <1>2, StreamTypes DEF Receiving
  <1>4. Footprint(n, m, c)
    BY <1>2 DEF Footprint
  <1>5. Still(n, m, c)
    BY <1>2, <1>3, ReceiverStill
  <1>6. SourceMove(chan[<<n, m, c>>], Sender(n, m, c), serve[n],
                   chan'[<<n, m, c>>], Sender(n, m, c)', serve'[n])
    BY <1>2 DEF SourceMove, Sender
  <1> QED
    BY <1>2, <1>4, <1>5, <1>6 DEF LinkStep

(* The steps of the reader, and the user's answer to a drop, that put      *)
(* nothing on a stream, take nothing off and acknowledge nothing.          *)
QuietReader(n, m, c) ==
  \/ \E accept \in BOOLEAN : FileDropResponse(n, m, c, accept)
  \/ PollState(n, m, c) \/ ReadFails(n, m, c) \/ CheckSource(n, m, c)
  \/ AcceptDropInitiate(n, m, c) \/ NotATransfer(n, m, c)
  \/ HandleDataPasteToCB(n, m, c) \/ OpenSrcFile(n, m, c) \/ FinishServe(n, m, c)

LEMMA ReaderMoves ==
  ASSUME TypeInv, MutexInv, StreamInv, NEW n \in Nodes, NEW m \in Peers(n), NEW c \in Conns,
         QuietReader(n, m, c)
  PROVE  LinkStep(n, m, c)
  <1> USE DEF QuietReader
  <1>1. <<n, m, c>> \in Links
    BY LinkTypes
  <1>2. UNCHANGED <<up, chan, wpc, recv, taken, acked>>
    BY DEF FileDropResponse, PollState, ReadFails, CheckSource, AcceptDropInitiate,
       NotATransfer, HandleDataPasteToCB, OpenSrcFile, FinishServe, netVars, recvVars
  <1>3. PICK r \in ReaderStates : rpc' = [rpc EXCEPT ![<<n, m, c>>] = r]
    BY DEF FileDropResponse, PollState, ReadFails, CheckSource, AcceptDropInitiate,
       NotATransfer, HandleDataPasteToCB, OpenSrcFile, FinishServe, EndServe, ReaderStates
  <1>4. rpc'[<<n, m, c>>] = r
    BY <1>1, <1>3, StreamTypes
  <1>5. \/ state' = state
        \/ \E s \in {"DEST_INIT", "UNINIT"} : state' = [state EXCEPT ![n] = s]
    BY DEF FileDropResponse, PollState, ReadFails, CheckSource, AcceptDropInitiate,
       NotATransfer, HandleDataPasteToCB, OpenSrcFile, FinishServe, EndServe, handlerVars
  <1>6. serve' = serve \/ (Serving(n, m, c) /\ \E v : serve' = [serve EXCEPT ![n] = v])
    BY DEF FileDropResponse, PollState, ReadFails, CheckSource, AcceptDropInitiate, Serving,
       NotATransfer, HandleDataPasteToCB, OpenSrcFile, FinishServe, EndServe
  <1>7. Receiving(n, m, c)' <=> Receiving(n, m, c)
    BY <1>2 DEF Receiving
  <1>8. state'[n] = state[n] \/ state'[n] # "PROCESSING_TRAN_ING_ACK"
    BY <1>5, StreamTypes
  <1>9. Footprint(n, m, c)
    BY <1>2, <1>3, <1>5, <1>6, <1>8 DEF Footprint
  <1>10. SourceMove(chan[<<n, m, c>>], Sender(n, m, c), serve[n],
                    chan'[<<n, m, c>>], Sender(n, m, c)', serve'[n])
    <2>1. Sender(n, m, c)' = IF <<n, m, c>> \in up THEN r ELSE "down"
      BY <1>2, <1>4 DEF Sender
    <2>2. CASE r \notin {"wait", "serve"}
      BY <1>2, <2>1, <2>2 DEF SourceMove
    <2>3. CASE r \in {"wait", "serve"}
      <3>1. OpenSrcFile(n, m, c)
        BY <1>1, <1>4, <2>3, StreamTypes DEF FileDropResponse, PollState, ReadFails,
           CheckSource, AcceptDropInitiate, NotATransfer, HandleDataPasteToCB, FinishServe,
           EndServe
      <3>2. r = "serve" /\ rpc[<<n, m, c>>] = "wait" /\ serve'[n].sent = 0
        BY <1>1, <1>4, <3>1, StreamTypes DEF OpenSrcFile
      <3> QED
        BY <1>2, <2>1, <3>2 DEF SourceMove, Sender
    <2> QED
      BY <2>2, <2>3
  <1>11. \/ r \notin {"guard", "lock"}
         \/ rpc[<<n, m, c>>] = "guard"
    BY <1>1, <1>4, StreamTypes DEF FileDropResponse, PollState, ReadFails, CheckSource,
       AcceptDropInitiate, NotATransfer, HandleDataPasteToCB, OpenSrcFile, FinishServe,
       EndServe
  <1>12. \/ state'[n] # "PROCESSING_TRAN_ING_ACK"
         \/ state'[n] = state[n] /\ rpc[<<n, m, c>>] # "poll"
    <2>1. CASE PollState(n, m, c)
      BY <2>1 DEF PollState, handlerVars
    <2>2. CASE ~PollState(n, m, c)
      <3>1. rpc[<<n, m, c>>] # "poll"
        BY <2>2 DEF FileDropResponse, ReadFails, CheckSource, AcceptDropInitiate,
           NotATransfer, HandleDataPasteToCB, OpenSrcFile, FinishServe
      <3> QED
        BY <1>8, <3>1
    <2> QED
      BY <2>1, <2>2
  <1>13. Still(n, m, c)
    BY <1>2, <1>4, <1>7, <1>11, <1>12, ReceiverStill
  <1> QED
    BY <1>2, <1>9, <1>10, <1>13 DEF LinkStep

(* The acknowledgement: the mutex is free, so no loop of the node runs, and *)
(* the reader of this link holds the FILE_REQ_ACK that is to be believed,  *)
(* if any does.                                                            *)
LEMMA AckStep ==
  ASSUME TypeInv, MutexInv, StreamInv, NEW n \in Nodes, NEW m \in Peers(n), NEW c \in Conns,
         AcceptAck(n, m, c)
  PROVE  LinkStep(n, m, c)
  <1>1. <<n, m, c>> \in Links
    BY LinkTypes
  <1>2. /\ UNCHANGED <<up, chan, wpc, recv, taken, serve>> /\ ~locked[n]
        /\ rpc[<<n, m, c>>] = "lock" /\ rpc' = [rpc EXCEPT ![<<n, m, c>>] = "poll"]
        /\ state' = [state EXCEPT ![n] = "PROCESSING_TRAN_ING_ACK"]
        /\ acked' = {l \in acked : l[1] # n} \cup ({<<n, m, c>>} \cap taken)
    BY DEF AcceptAck, netVars
  <1>3. rpc'[<<n, m, c>>] = "poll"
    BY <1>1, <1>2, StreamTypes
  <1>4. Footprint(n, m, c)
    <2>1. acked' \subseteq {l \in acked : l[1] # n} \cup {<<n, m, c>>}
      BY <1>2
    <2> QED
      BY <1>2, <2>1 DEF Footprint
  <1>5. SourceMove(chan[<<n, m, c>>], Sender(n, m, c), serve[n],
                   chan'[<<n, m, c>>], Sender(n, m, c)', serve'[n])
    <2>1. Sender(n, m, c)' \notin {"wait", "serve"}
      BY <1>3 DEF Sender
    <2> QED
      BY <1>2, <2>1 DEF SourceMove
  <1>6. Got(n, m, c)' = Got(n, m, c)
    <2>1. ~Receiving(n, m, c)
      BY <1>2 DEF MutexInv, OneTransferAtATime
    <2> QED
      BY <1>2, <2>1 DEF Got, Receiving
  <1>7. Expects(n, m, c)' => Expects(n, m, c)
    <2>1. ~Holds(n, m, c)'
      BY <1>3 DEF Holds
    <2>2. <<n, m, c>> \in acked' => <<n, m, c>> \in taken
      BY <1>2
    <2>3. Waits(n, m, c)' => Holds(n, m, c)
      BY <1>2, <2>2 DEF Waits, Holds
    <2> QED
      BY <2>1, <2>3 DEF Expects
  <1> QED
    BY <1>2, <1>3, <1>4, <1>5, <1>6, <1>7 DEF LinkStep, Still

(* The stream that a message is put on.                                    *)
LEMMA SendOnLink ==
  ASSUME TypeInv, NEW n \in Nodes, NEW m \in Peers(n), NEW c \in Conns, NEW item,
         Send(n, m, c, item)
  PROVE  /\ chan'[<<n, m, c>>] = IF <<n, m, c>> \in up
                                 THEN Append(chan[<<n, m, c>>], item)
                                 ELSE chan[<<n, m, c>>]
         /\ chan'[<<m, n, c>>] = chan[<<m, n, c>>]
         /\ chan' = chan \/ \E v : chan' = [chan EXCEPT ![<<n, m, c>>] = v]
  <1>1. chan \in [Links -> Seq(Items)]
    BY StreamTypes
  <1>2. <<n, m, c>> \in Links /\ <<m, n, c>> \in Links /\ <<n, m, c>> # <<m, n, c>>
    BY LinkTypes
  <1> QED
    BY <1>1, <1>2 DEF Send

(* The steps that put a message on the stream, or try to.                  *)
SendsMessage(n, m, c) ==
  \/ AcceptFileReq(n, m, c) \/ NothingToServe(n, m, c) \/ FailServe(n, m, c)
  \/ AnnounceFile(n, m, c) \/ AnnounceText(n, m, c)
  \/ SendFileReq(n, m, c) \/ SendDropInitiate(n, m, c)

(* What they send is never data, and an acknowledgement only before a file *)
(* is served.                                                              *)
LEMMA WhatIsSent ==
  ASSUME TypeInv, NEW n \in Nodes, NEW m \in Peers(n), NEW c \in Conns, SendsMessage(n, m, c)
  PROVE  \/ chan' = chan
         \/ \E item \in Items :
              /\ Send(n, m, c, item) /\ item.cmd # "DATA"
              /\ item.cmd = "FILE_REQ_ACK" => AcceptFileReq(n, m, c)
  <1>1. /\ cb[<<n, m>>].fmt \in Fmts /\ copySize[n] \in Nat
        /\ copyFile[n] \in Files \cup {None} /\ fileHeld[<<n, m, c>>] \in Files \cup {None}
    BY LinkOf DEF TypeInv, TypeOK
  <1>2. CASE AcceptFileReq(n, m, c) \/ NothingToServe(n, m, c) \/ FailServe(n, m, c)
    <2>1. /\ Plain("FILE_REQ_ACK", "") \in Items /\ Plain("FILE_TRAN_CANCEL_SRC", "") \in Items
          /\ Plain("FILE_REQ_ACK", "").cmd = "FILE_REQ_ACK"
          /\ Plain("FILE_TRAN_CANCEL_SRC", "").cmd = "FILE_TRAN_CANCEL_SRC"
      BY ItemTypes DEF Plain, Message, InbandCmds, Fmts
    <2> QED
      BY <1>2, <2>1 DEF AcceptFileReq, NothingToServe, FailServe
  <1>3. CASE AnnounceFile(n, m, c) \/ AnnounceText(n, m, c)
    <2>1. \/ chan' = chan
          \/ \E f \in Files : /\ f = fileHeld[<<n, m, c>>]
               /\ Send(n, m, c, Message("TEXT_TRAN", "FILE", <<"copy", f>>, f, copySize[n]))
          \/ Send(n, m, c, Message("TEXT_TRAN", "TEXT", <<"text", None>>, None, 0))
      BY <1>1, <1>3 DEF AnnounceFile, AnnounceText, Announce
    <2>2. /\ \A f \in Files :
               Message("TEXT_TRAN", "FILE", <<"copy", f>>, f, copySize[n]) \in Items
          /\ Message("TEXT_TRAN", "TEXT", <<"text", None>>, None, 0) \in Items
      BY <1>1, ItemTypes, HashTypes DEF InbandCmds, Fmts
    <2>3. \A fmt, hash, f, size : Message("TEXT_TRAN", fmt, hash, f, size).cmd = "TEXT_TRAN"
      BY DEF Message
    <2> QED
      BY <2>1, <2>2, <2>3
  <1>4. CASE SendFileReq(n, m, c)
    <2>1. Message("FILE_REQ", cb[<<n, m>>].fmt, NoHash, None, copySize[n]) \in Items
      BY <1>1, ItemTypes, HashTypes DEF InbandCmds
    <2>2. Message("FILE_REQ", cb[<<n, m>>].fmt, NoHash, None, copySize[n]).cmd = "FILE_REQ"
      BY DEF Message
    <2> QED
      BY <1>4, <2>1, <2>2 DEF SendFileReq
  <1>5. CASE SendDropInitiate(n, m, c)
    <2> DEFINE f == copyFile[n]
               hash == IF f = None THEN NoHash ELSE <<"drop", f>>
    <2>1. hash \in Hashes
      BY <1>1, HashTypes
    <2>2. Message("FILE_DROP_INITIATE", "FILE", hash, f, copySize[n]) \in Items
      BY <1>1, <2>1, ItemTypes DEF InbandCmds, Fmts
    <2>3. Message("FILE_DROP_INITIATE", "FILE", hash, f, copySize[n]).cmd
            = "FILE_DROP_INITIATE"
      BY DEF Message
    <2>4. Send(n, m, c, Message("FILE_DROP_INITIATE", "FILE", hash, f, copySize[n]))
      BY <1>5 DEF SendDropInitiate
    <2> QED
      BY <2>2, <2>3, <2>4
  <1> QED
    BY <1>2, <1>3, <1>4, <1>5 DEF SendsMessage

LEMMA SendingSteps ==
  ASSUME TypeInv, StreamInv, NEW n \in Nodes, NEW m \in Peers(n), NEW c \in Conns,
         SendsMessage(n, m, c)
  PROVE  LinkStep(n, m, c)
  <1>1. <<n, m, c>> \in Links
    BY LinkTypes
  <1>2. /\ UNCHANGED <<up, recv, taken, acked>>
        /\ \/ wpc' = wpc
           \/ wpc[<<n, m, c>>] = "lock" /\ wpc' = [wpc EXCEPT ![<<n, m, c>>] = "idle"]
    BY DEF SendsMessage, AcceptFileReq, NothingToServe, FailServe, AnnounceFile, AnnounceText,
       SendFileReq, SendDropInitiate, threadVars, recvVars
  <1>3. Receiving(n, m, c)' <=> Receiving(n, m, c)
    BY <1>1, <1>2, StreamTypes DEF Receiving
  (* Where the reader goes.                                                *)
  <1>4. /\ AcceptFileReq(n, m, c) =>
             rpc' = [rpc EXCEPT ![<<n, m, c>>] = "wait"] /\ serve' = serve
        /\ NothingToServe(n, m, c) \/ FailServe(n, m, c) =>
             /\ rpc' = [rpc EXCEPT ![<<n, m, c>>] = "poll"]
             /\ Serving(n, m, c) /\ \E v : serve' = [serve EXCEPT ![n] = v]
        /\ (\/ AnnounceFile(n, m, c) \/ AnnounceText(n, m, c)
            \/ SendFileReq(n, m, c) \/ SendDropInitiate(n, m, c))
             => rpc' = rpc /\ serve' = serve
    <2>1. AcceptFileReq(n, m, c) =>
            rpc' = [rpc EXCEPT ![<<n, m, c>>] = "wait"] /\ serve' = serve
      BY DEF AcceptFileReq
    <2>2. NothingToServe(n, m, c) \/ FailServe(n, m, c) =>
            /\ rpc' = [rpc EXCEPT ![<<n, m, c>>] = "poll"]
            /\ Serving(n, m, c) /\ \E v : serve' = [serve EXCEPT ![n] = v]
      BY DEF NothingToServe, FailServe, EndServe, Serving
    <2>3. (\/ AnnounceFile(n, m, c) \/ AnnounceText(n, m, c)
           \/ SendFileReq(n, m, c) \/ SendDropInitiate(n, m, c))
            => rpc' = rpc /\ serve' = serve
      BY DEF AnnounceFile, AnnounceText, SendFileReq, SendDropInitiate, threadVars
    <2> QED
      BY <2>1, <2>2, <2>3
  <1>5. /\ state' = state \/ \E v : state' = [state EXCEPT ![n] = v]
        /\ \/ state'[n] # "PROCESSING_TRAN_ING_ACK"
           \/ state' = state /\ rpc' = rpc
    <2>1. AnnounceFile(n, m, c) \/ AnnounceText(n, m, c) => state' = state /\ rpc' = rpc
      BY DEF AnnounceFile, AnnounceText, threadVars
    <2>2. (\/ AcceptFileReq(n, m, c) \/ NothingToServe(n, m, c) \/ FailServe(n, m, c)
           \/ SendFileReq(n, m, c) \/ SendDropInitiate(n, m, c)) =>
            \E s \in {"SRC_INIT", "UNINIT", "PROCESSING_TRAN_ING"} :
              state' = [state EXCEPT ![n] = s]
      BY DEF AcceptFileReq, NothingToServe, FailServe, SendFileReq, SendDropInitiate, EndServe
    <2>3. state \in [Nodes -> States]
      BY StreamTypes
    <2> QED
      BY <2>1, <2>2, <2>3 DEF SendsMessage
  <1>6. \/ chan' = chan
        \/ \E item \in Items :
             /\ Send(n, m, c, item) /\ item.cmd # "DATA"
             /\ item.cmd = "FILE_REQ_ACK" => AcceptFileReq(n, m, c)
    BY WhatIsSent
  <1>7. /\ chan'[<<m, n, c>>] = chan[<<m, n, c>>]
        /\ chan' = chan \/ \E v : chan' = [chan EXCEPT ![<<n, m, c>>] = v]
    BY <1>6, SendOnLink
  <1>8. Footprint(n, m, c)
    <2>1. rpc' = rpc \/ \E v : rpc' = [rpc EXCEPT ![<<n, m, c>>] = v]
      BY <1>4 DEF SendsMessage
    <2>2. serve' = serve \/ (Serving(n, m, c) /\ \E v : serve' = [serve EXCEPT ![n] = v])
      BY <1>4 DEF SendsMessage
    <2> QED
      BY <1>2, <1>5, <1>7, <2>1, <2>2 DEF Footprint
  <1>9. SourceMove(chan[<<n, m, c>>], Sender(n, m, c), serve[n],
                   chan'[<<n, m, c>>], Sender(n, m, c)', serve'[n])
    <2>1. CASE <<n, m, c>> \notin up
      <3>1. chan'[<<n, m, c>>] = chan[<<n, m, c>>] /\ Sender(n, m, c)' = "down"
        BY <1>2, <1>6, <2>1, SendOnLink DEF Sender
      <3> QED
        BY <3>1 DEF SourceMove
    <2>2. CASE <<n, m, c>> \in up
      <3>1. Sender(n, m, c) = rpc[<<n, m, c>>] /\ Sender(n, m, c)' = rpc'[<<n, m, c>>]
        BY <1>2, <2>2 DEF Sender
      <3>2. CASE chan' = chan
        <4>1. ~AcceptFileReq(n, m, c)
          <5>1. chan[<<n, m, c>>] \in Seq(Items)
            BY <1>1, StreamTypes
          <5>2. Append(chan[<<n, m, c>>], Plain("FILE_REQ_ACK", "")) # chan[<<n, m, c>>]
            <6>1. /\ Len(chan[<<n, m, c>>]) \in Nat
                  /\ Plain("FILE_REQ_ACK", "") \in Items
              BY <5>1, LenProperties, ItemTypes DEF InbandCmds, Fmts
            <6>2. Len(Append(chan[<<n, m, c>>], Plain("FILE_REQ_ACK", "")))
                    = Len(chan[<<n, m, c>>]) + 1
              BY <5>1, <6>1, AppendProperties
            <6>3. \A i \in Nat : i + 1 # i
              OBVIOUS
            <6> QED
              BY <6>1, <6>2, <6>3, Zenon
          <5> QED
            BY <2>2, <3>2, <5>2, SendOnLink DEF AcceptFileReq
        <4>2. \/ rpc'[<<n, m, c>>] = rpc[<<n, m, c>>] /\ serve' = serve
              \/ rpc'[<<n, m, c>>] = "poll"
          BY <1>1, <1>4, <4>1, StreamTypes DEF SendsMessage
        <4> QED
          BY <3>1, <3>2, <4>2 DEF SourceMove
      <3>3. CASE \E item \in Items :
                   /\ Send(n, m, c, item) /\ item.cmd # "DATA"
                   /\ item.cmd = "FILE_REQ_ACK" => AcceptFileReq(n, m, c)
        <4>1. PICK item \in Items : /\ Send(n, m, c, item) /\ item.cmd # "DATA"
                                    /\ item.cmd = "FILE_REQ_ACK" => AcceptFileReq(n, m, c)
          BY <3>3
        <4>2. chan'[<<n, m, c>>] = Append(chan[<<n, m, c>>], item)
          BY <2>2, <4>1, SendOnLink
        <4>3. item.cmd = "FILE_REQ_ACK" => rpc'[<<n, m, c>>] # "serve"
          BY <1>1, <1>4, <4>1, StreamTypes
        <4> QED
          BY <3>1, <4>1, <4>2, <4>3 DEF SourceMove
      <3> QED
        BY <1>6, <3>2, <3>3
    <2> QED
      BY <2>1, <2>2
  <1>10. Still(n, m, c)
    <2>1. \/ rpc'[<<n, m, c>>] = rpc[<<n, m, c>>]
          \/ rpc'[<<n, m, c>>] \notin {"guard", "lock"}
      BY <1>1, <1>4, StreamTypes DEF SendsMessage
    <2> QED
      BY <1>2, <1>3, <1>5, <2>1, ReceiverStill
  <1> QED
    BY <1>7, <1>8, <1>9, <1>10 DEF LinkStep

(* The source puts the next chunk on the stream.                           *)
LEMMA ChunkStep ==
  ASSUME TypeInv, StreamInv, NEW n \in Nodes, NEW m \in Peers(n), NEW c \in Conns,
         SendChunk(n, m, c)
  PROVE  LinkStep(n, m, c)
  <1>1. <<n, m, c>> \in Links /\ serve[n] \in [file : Files \cup {None}, sent : Nat]
    BY LinkTypes, StreamTypes
  <1>2. /\ UNCHANGED <<up, rpc, wpc, state, recv, taken, acked>>
        /\ rpc[<<n, m, c>>] = "serve" /\ <<n, m, c>> \in up
        /\ serve' = [serve EXCEPT ![n] = [serve[n] EXCEPT !.sent = @ + 1]]
        /\ Send(n, m, c, Chunk(serve[n].file, serve[n].sent + 1))
    BY DEF SendChunk, handlerVars, recvVars
  <1>3. PICK item : /\ item = Chunk(serve[n].file, serve[n].sent + 1)
                    /\ Send(n, m, c, item)
    BY <1>2
  <1>4. /\ chan'[<<n, m, c>>] = Append(chan[<<n, m, c>>], item)
        /\ chan'[<<m, n, c>>] = chan[<<m, n, c>>]
        /\ chan' = chan \/ \E v : chan' = [chan EXCEPT ![<<n, m, c>>] = v]
    BY <1>2, <1>3, SendOnLink
  <1>5. /\ serve'[n].sent = serve[n].sent + 1 /\ serve'[n].file = serve[n].file
        /\ item \in Items
    <2>1. serve'[n].sent = serve[n].sent + 1 /\ serve'[n].file = serve[n].file
      BY <1>1, <1>2, StreamTypes
    <2>2. serve[n].file \in Files \cup {None} /\ serve[n].sent + 1 \in Nat
      BY <1>1
    <2>3. item \in Items
      BY <1>3, <2>2, ItemTypes
    <2> QED
      BY <2>1, <2>3
  <1>6. item.cmd = "DATA" /\ item.n = serve[n].sent + 1 /\ item.file = serve[n].file
    BY <1>3 DEF Chunk
  <1>7. Sender(n, m, c) = "serve" /\ Sender(n, m, c)' = "serve"
    BY <1>2 DEF Sender
  <1>8. SourceMove(chan[<<n, m, c>>], Sender(n, m, c), serve[n],
                   chan'[<<n, m, c>>], Sender(n, m, c)', serve'[n])
    BY <1>4, <1>5, <1>6, <1>7 DEF SourceMove
  <1>9. Footprint(n, m, c)
    <2>1. Serving(n, m, c) /\ \E v : serve' = [serve EXCEPT ![n] = v]
      BY <1>2 DEF Serving
    <2> QED
      BY <1>2, <1>4, <2>1 DEF Footprint
  <1>10. Still(n, m, c)
    <2>1. Receiving(n, m, c)' <=> Receiving(n, m, c)
      BY <1>2 DEF Receiving
    <2> QED
      BY <1>2, <2>1, ReceiverStill
  <1> QED
    BY <1>4, <1>8, <1>9, <1>10 DEF LinkStep

(* The reader takes items off the stream: it holds a FILE_REQ_ACK only     *)
(* when that was alone in what Read returned, and no loop runs.            *)
LEMMA ReadStep ==
  ASSUME TypeInv, StreamInv, NEW n \in Nodes, NEW m \in Peers(n), NEW c \in Conns,
         ReadFromSocket(n, m, c)
  PROVE  LinkStep(n, m, c)
  <1>1. /\ <<n, m, c>> \in Links /\ <<m, n, c>> \in Links /\ <<n, m, c>> # <<m, n, c>>
        /\ chan[<<m, n, c>>] \in Seq(Items)
    BY LinkTypes
  <1>2. /\ UNCHANGED <<up, wpc, state, serve, recv, acked>>
        /\ rpc[<<n, m, c>>] = "read"
    BY DEF ReadFromSocket, handlerVars
  <1>3. PICK k \in 1..Len(chan[<<m, n, c>>]) :
          LET msg == Head(chan[<<m, n, c>>])
              ok  == k = 1 /\ msg.cmd # "DATA"
          IN /\ chan' = [chan EXCEPT ![<<m, n, c>>] = SubSeq(@, k + 1, Len(@))]
             /\ rpc' = [rpc EXCEPT ![<<n, m, c>>] = IF ok THEN "guard" ELSE "poll"]
             /\ taken' = IF ok /\ msg.cmd = "FILE_REQ_ACK" /\ wpc[<<n, m, c>>] # "recv"
                         THEN taken \cup {<<n, m, c>>} ELSE taken \ {<<n, m, c>>}
    BY DEF ReadFromSocket
  <1>4. /\ chan'[<<m, n, c>>] = SubSeq(chan[<<m, n, c>>], k + 1, Len(chan[<<m, n, c>>]))
        /\ chan'[<<n, m, c>>] = chan[<<n, m, c>>]
        /\ \E v : chan' = [chan EXCEPT ![<<m, n, c>>] = v]
    BY <1>1, <1>3, StreamTypes
  <1>5. rpc'[<<n, m, c>>] \in {"guard", "poll"} /\ \E v : rpc' = [rpc EXCEPT ![<<n, m, c>>] = v]
    BY <1>1, <1>3, StreamTypes
  <1>6. Footprint(n, m, c)
    <2>1. taken' \subseteq taken \cup {<<n, m, c>>}
      BY <1>3
    <2> QED
      BY <1>2, <1>4, <1>5, <2>1 DEF Footprint
  <1>7. SourceMove(chan[<<n, m, c>>], Sender(n, m, c), serve[n],
                   chan'[<<n, m, c>>], Sender(n, m, c)', serve'[n])
    <2>1. Sender(n, m, c)' \notin {"wait", "serve"}
      BY <1>5 DEF Sender
    <2> QED
      BY <1>4, <2>1 DEF SourceMove
  <1>8. ~Waits(n, m, c)'
    <2>1. ~Waits(n, m, c)
      BY <1>2 DEF StreamInv, StreamInStep
    <2> QED
      BY <1>2, <2>1 DEF Waits
  <1>9. Expects(n, m, c)' =>
          Got(n, m, c)' = <<>> /\ k = 1 /\ chan[<<m, n, c>>][1].cmd = "FILE_REQ_ACK"
    <2> SUFFICES ASSUME <<n, m, c>> \in taken'
                 PROVE  Got(n, m, c)' = <<>> /\ k = 1
                        /\ chan[<<m, n, c>>][1].cmd = "FILE_REQ_ACK"
      BY <1>8 DEF Expects, Holds
    <2>1. k = 1 /\ Head(chan[<<m, n, c>>]).cmd = "FILE_REQ_ACK" /\ wpc[<<n, m, c>>] # "recv"
      BY <1>3
    <2>2. Head(chan[<<m, n, c>>]) = chan[<<m, n, c>>][1]
      BY <1>1, <1>3
    <2>3. Got(n, m, c)' = <<>>
      BY <1>2, <2>1 DEF Got, Receiving
    <2> QED
      BY <2>1, <2>2, <2>3
  <1>10. Taking(n, m, c)
    BY <1>4, <1>8, <1>9 DEF Taking
  <1> QED
    BY <1>6, <1>7, <1>10 DEF LinkStep

(* The receive loop begins, takes what has come, or ends.                  *)
LEMMA LoopSteps ==
  ASSUME TypeInv, MutexInv, StreamInv, NEW n \in Nodes, NEW m \in Peers(n), NEW c \in Conns,
         \/ StartReceive(n, m, c) \/ ReceiveData(n, m, c)
         \/ ReceiveCancel(n, m, c) \/ FinishReceive(n, m, c)
  PROVE  LinkStep(n, m, c)
  <1>1. /\ <<n, m, c>> \in Links /\ <<m, n, c>> \in Links /\ <<n, m, c>> # <<m, n, c>>
        /\ chan[<<m, n, c>>] \in Seq(Items)
    BY LinkTypes
  <1>2. UNCHANGED <<up, rpc, serve, acked>>
    BY DEF StartReceive, ReceiveData, ReceiveCancel, FinishReceive, EndReceive, netVars
  <1>3. ASSUME chan'[<<n, m, c>>] = chan[<<n, m, c>>]
        PROVE  SourceMove(chan[<<n, m, c>>], Sender(n, m, c), serve[n],
                          chan'[<<n, m, c>>], Sender(n, m, c)', serve'[n])
    BY <1>2, <1>3 DEF SourceMove, Sender
  <1>4. Waits(n, m, c) => rpc[<<n, m, c>>] = "poll"
    BY DEF StreamInv, StreamInStep
  <1>5. CASE StartReceive(n, m, c)
    <2>1. /\ UNCHANGED <<state, taken, chan>>
          /\ wpc[<<n, m, c>>] = "lock" /\ wpc' = [wpc EXCEPT ![<<n, m, c>>] = "recv"]
      BY <1>5 DEF StartReceive, netVars
    <2>2. /\ \E v : recv' = [recv EXCEPT ![n] = v]
          /\ recv'[n].got = <<>>
      BY <1>5, StreamTypes DEF StartReceive
    <2>3. ~Receiving(n, m, c) /\ Receiving(n, m, c)'
      BY <1>1, <2>1, StreamTypes DEF Receiving
    <2>4. Footprint(n, m, c)
      BY <1>2, <2>1, <2>2, <2>3 DEF Footprint
    <2>5. Still(n, m, c)
      <3>1. Got(n, m, c)' = Got(n, m, c)
        BY <2>2, <2>3 DEF Got
      <3> QED
        BY <1>2, <1>4, <2>1, <3>1 DEF Still, Expects, Holds, Waits
    <2> QED
      BY <1>3, <2>1, <2>4, <2>5 DEF LinkStep
  <1>6. CASE ReceiveData(n, m, c)
    <2>1. UNCHANGED <<state, wpc, taken>> /\ Receiving(n, m, c) /\ Receiving(n, m, c)'
      BY <1>6 DEF ReceiveData, Receiving, handlerVars
    <2>2. PICK k \in 1..Len(chan[<<m, n, c>>]) :
            /\ recv' = [recv EXCEPT ![n].got = @ \o SubSeq(chan[<<m, n, c>>], 1, k)]
            /\ chan' = [chan EXCEPT ![<<m, n, c>>] = SubSeq(@, k + 1, Len(@))]
      BY <1>6 DEF ReceiveData
    <2>3. /\ recv'[n].got = recv[n].got \o SubSeq(chan[<<m, n, c>>], 1, k)
          /\ chan'[<<m, n, c>>] = SubSeq(chan[<<m, n, c>>], k + 1, Len(chan[<<m, n, c>>]))
          /\ chan'[<<n, m, c>>] = chan[<<n, m, c>>]
          /\ \E v : recv' = [recv EXCEPT ![n] = v]
          /\ \E v : chan' = [chan EXCEPT ![<<m, n, c>>] = v]
      BY <1>1, <2>2, StreamTypes
    <2>4. Footprint(n, m, c)
      BY <1>2, <2>1, <2>3 DEF Footprint
    <2>5. Taking(n, m, c)
      <3>1. Got(n, m, c)' = Got(n, m, c) \o SubSeq(chan[<<m, n, c>>], 1, k)
        BY <2>1, <2>3 DEF Got
      <3>2. /\ Expects(n, m, c)' => Expects(n, m, c)
            /\ Waits(n, m, c)' => rpc'[<<n, m, c>>] = "poll"
        BY <1>2, <1>4, <2>1 DEF Expects, Holds, Waits
      <3> QED
        BY <2>3, <3>1, <3>2 DEF Taking
    <2> QED
      BY <1>3, <2>3, <2>4, <2>5 DEF LinkStep
  <1>7. CASE ReceiveCancel(n, m, c) \/ FinishReceive(n, m, c)
    <2>1. Receiving(n, m, c) /\ EndReceive(n, m, c)
      BY <1>7 DEF ReceiveCancel, FinishReceive, Receiving
    <2>2. /\ state' = [state EXCEPT ![n] = "UNINIT"]
          /\ wpc' = [wpc EXCEPT ![<<n, m, c>>] = "idle"]
          /\ recv' = [recv EXCEPT ![n] = [size |-> 0, fmt |-> "", got |-> <<>>]]
          /\ taken' = taken \ {<<n, m, c>>}
      BY <2>1 DEF EndReceive
    <2>3. state'[n] = "UNINIT" /\ recv'[n].got = <<>>
      BY <2>2, StreamTypes
    <2>4. ~Expects(n, m, c)' /\ ~Waits(n, m, c)'
      BY <2>2, <2>3 DEF Expects, Holds, Waits
    <2>5. \/ chan' = chan
          \/ /\ 1 \in 1..Len(chan[<<m, n, c>>])
             /\ chan'[<<m, n, c>>] = SubSeq(chan[<<m, n, c>>], 1 + 1, Len(chan[<<m, n, c>>]))
             /\ chan'[<<n, m, c>>] = chan[<<n, m, c>>]
             /\ \E v : chan' = [chan EXCEPT ![<<m, n, c>>] = v]
      <3>1. CASE ReceiveCancel(n, m, c)
        <4>1. /\ chan[<<m, n, c>>] # <<>>
              /\ chan' = [chan EXCEPT ![<<m, n, c>>] = Tail(@)]
          BY <3>1 DEF ReceiveCancel
        <4>2. /\ 1 \in 1..Len(chan[<<m, n, c>>])
              /\ Tail(chan[<<m, n, c>>]) = SubSeq(chan[<<m, n, c>>], 1 + 1, Len(chan[<<m, n, c>>]))
          BY <1>1, <4>1
        <4> QED
          BY <1>1, <4>1, <4>2, StreamTypes
      <3>2. CASE FinishReceive(n, m, c)
        BY <3>2 DEF FinishReceive
      <3> QED
        BY <1>7, <3>1, <3>2
    <2>6. Footprint(n, m, c)
      <3>1. taken' \subseteq taken \cup {<<n, m, c>>}
        BY <2>2
      <3> QED
        BY <1>2, <2>1, <2>2, <2>3, <2>5, <3>1 DEF Footprint
    <2>7. CASE chan' = chan
      <3>1. Still(n, m, c)
        BY <2>4 DEF Still
      <3> QED
        BY <1>3, <2>6, <2>7, <3>1 DEF LinkStep
    <2>8. CASE /\ 1 \in 1..Len(chan[<<m, n, c>>])
               /\ chan'[<<m, n, c>>] = SubSeq(chan[<<m, n, c>>], 1 + 1, Len(chan[<<m, n, c>>]))
               /\ chan'[<<n, m, c>>] = chan[<<n, m, c>>]
      <3>1. Taking(n, m, c)
        BY <2>4, <2>8 DEF Taking
      <3> QED
        BY <1>3, <2>6, <2>8, <3>1 DEF LinkStep
    <2> QED
      BY <2>5, <2>7, <2>8
  <1> QED
    BY <1>5, <1>6, <1>7

-----------------------------------------------------------------------------
(* The other steps *)

(* Steps that leave the receivers as they are, and at the sources can only *)
(* end what they send.                                                     *)
LEMMA AllStill ==
  ASSUME TypeInv, StreamInv,
         \A n \in Nodes : \A m \in Peers(n), c \in Conns :
           /\ Still(n, m, c)
           /\ SourceMove(chan[<<m, n, c>>], Sender(m, n, c), serve[m],
                         chan'[<<m, n, c>>], Sender(m, n, c)', serve'[m])
  PROVE  StreamInv'
  BY StillKeeps DEF StreamInv

(* A broken stream ends both runs where they are.                          *)
LEMMA DisconnectStep ==
  ASSUME TypeInv, StreamInv, NEW n \in Nodes, NEW m \in Peers(n), NEW c \in Conns,
         Disconnect(n, m, c)
  PROVE  StreamInv'
  <1>1. /\ UNCHANGED <<state, rpc, serve, wpc, recv, taken, acked>>
        /\ up' = up \ {<<n, m, c>>, <<m, n, c>>}
        /\ chan' = [chan EXCEPT ![<<n, m, c>>] = <<>>, ![<<m, n, c>>] = <<>>]
    BY DEF Disconnect, handlerVars, threadVars, recvVars
  <1>2. <<n, m, c>> \in Links /\ <<m, n, c>> \in Links
    BY LinkTypes
  <1>3. ASSUME NEW x \in Nodes, NEW y \in Peers(x), NEW d \in Conns
        PROVE  Still(x, y, d)
    <2>1. Receiving(x, y, d)' <=> Receiving(x, y, d)
      BY <1>1 DEF Receiving
    <2> QED
      BY <1>1, <2>1, ReceiverStill
  <1>4. ASSUME NEW x \in Nodes, NEW y \in Peers(x), NEW d \in Conns
        PROVE  SourceMove(chan[<<y, x, d>>], Sender(y, x, d), serve[y],
                          chan'[<<y, x, d>>], Sender(y, x, d)', serve'[y])
    <2>1. <<y, x, d>> \in Links
      BY LinkTypes
    <2>2. CASE <<y, x, d>> \in {<<n, m, c>>, <<m, n, c>>}
      <3>1. chan'[<<y, x, d>>] = <<>> /\ <<y, x, d>> \notin up'
        BY <1>1, <1>2, <2>1, <2>2, StreamTypes
      <3> QED
        BY <3>1 DEF SourceMove, Sender
    <2>3. CASE <<y, x, d>> \notin {<<n, m, c>>, <<m, n, c>>}
      <3>1. chan'[<<y, x, d>>] = chan[<<y, x, d>>] /\ (<<y, x, d>> \in up' <=> <<y, x, d>> \in up)
        BY <1>1, <2>1, <2>3, StreamTypes
      <3>2. Sender(y, x, d)' = Sender(y, x, d)
        BY <1>1, <3>1 DEF Sender
      <3> QED
        BY <1>1, <3>1, <3>2 DEF SourceMove
    <2> QED
      BY <2>2, <2>3
  <1> QED
    BY <1>3, <1>4, AllStill

(* A node sets up its end of a connection whose goroutines there are gone: *)
(* the new ones neither serve nor expect data.  The other end of a new     *)
(* stream does not serve either, on this connection.                       *)
LEMMA StartKeeps ==
  ASSUME TypeInv, StreamInv, NEW n \in Nodes, NEW m \in Peers(n), NEW c \in Conns,
         Connect(n, m, c) \/ MdnsHandleStream(n, m, c)
  PROVE  StreamInv'
  <1>1. /\ Start(n, m, c) /\ rpc[<<n, m, c>>] = "dead" /\ wpc[<<n, m, c>>] = "dead"
        /\ \/ up' = up
           \/ up' = up \cup {<<n, m, c>>, <<m, n, c>>} /\ rpc[<<m, n, c>>] = "dead"
    BY DEF Connect, MdnsHandleStream, Free
  <1>2. /\ UNCHANGED <<state, serve, recv, taken, acked, chan>>
        /\ rpc' = [rpc EXCEPT ![<<n, m, c>>] = "poll"]
        /\ wpc' = [wpc EXCEPT ![<<n, m, c>>] = "idle"]
    BY <1>1 DEF Start, handlerVars, recvVars
  <1>3. <<n, m, c>> \in Links /\ <<m, n, c>> \in Links /\ <<n, m, c>> # <<m, n, c>>
    BY LinkTypes
  <1>4. /\ rpc'[<<n, m, c>>] = "poll" /\ wpc'[<<n, m, c>>] = "idle"
        /\ \A l \in Links : l # <<n, m, c>> => rpc'[l] = rpc[l] /\ wpc'[l] = wpc[l]
    BY <1>2, <1>3, StreamTypes
  <1>5. ASSUME NEW x \in Nodes, NEW y \in Peers(x), NEW d \in Conns
        PROVE  Still(x, y, d)
    <2>1. <<x, y, d>> \in Links
      BY LinkTypes
    <2>2. /\ Receiving(x, y, d)' <=> Receiving(x, y, d)
          /\ \/ rpc'[<<x, y, d>>] = rpc[<<x, y, d>>]
             \/ rpc'[<<x, y, d>>] = "poll"
      BY <1>1, <1>4, <2>1 DEF Receiving
    <2> QED
      BY <1>2, <2>2, ReceiverStill
  <1>6. ASSUME NEW x \in Nodes, NEW y \in Peers(x), NEW d \in Conns
        PROVE  SourceMove(chan[<<y, x, d>>], Sender(y, x, d), serve[y],
                          chan'[<<y, x, d>>], Sender(y, x, d)', serve'[y])
    <2>1. <<y, x, d>> \in Links
      BY LinkTypes
    <2>2. CASE <<y, x, d>> = <<n, m, c>>
      <3>1. Sender(y, x, d)' \notin {"wait", "serve"}
        BY <1>4, <2>2 DEF Sender
      <3> QED
        BY <1>2, <3>1 DEF SourceMove
    <2>3. CASE <<y, x, d>> # <<n, m, c>>
      <3>1. rpc'[<<y, x, d>>] = rpc[<<y, x, d>>]
        BY <1>4, <2>1, <2>3
      <3>2. CASE <<y, x, d>> = <<m, n, c>> /\ rpc[<<m, n, c>>] = "dead"
        <4>1. Sender(y, x, d)' \notin {"wait", "serve"}
          BY <3>1, <3>2 DEF Sender
        <4> QED
          BY <1>2, <4>1 DEF SourceMove
      <3>3. CASE <<y, x, d>> \in up' <=> <<y, x, d>> \in up
        <4>1. Sender(y, x, d)' = Sender(y, x, d)
          BY <3>1, <3>3 DEF Sender
        <4> QED
          BY <1>2, <4>1 DEF SourceMove
      <3> QED
        BY <1>1, <2>3, <3>2, <3>3
    <2> QED
      BY <2>2, <2>3
  <1> QED
    BY <1>5, <1>6, AllStill

(* The steps of a node that are not about one link only write its state,   *)
(* and never so that it would expect data.                                 *)
NodeStep(n) ==
  \/ \E f \in Files : UserCopyFile(n, f)
  \/ StoreCopySize(n) \/ UserCopyText(n) \/ UserPaste(n)
  \/ \E m \in Peers(n), f \in Files : UserDrop(n, m, f)
  \/ FileDropRequest(n) \/ FileDropRequestEnds(n)

LEMMA NodeStepKeeps ==
  ASSUME TypeInv, StreamInv,
         UNCHANGED vars \/ \E n \in Nodes : NodeStep(n)
  PROVE  StreamInv'
  <1>1. UNCHANGED <<rpc, wpc, serve, recv, taken, acked, up, chan>>
    BY DEF NodeStep, UserCopyFile, StoreCopySize, UserCopyText, UserPaste, UserDrop,
       FileDropRequest, FileDropRequestEnds, vars, threadVars, recvVars, netVars
  <1>2. \A x \in Nodes : state'[x] = state[x] \/ state'[x] # "PROCESSING_TRAN_ING_ACK"
    <2>1. \/ state' = state
          \/ \E n \in Nodes, s \in {"DEST_INIT", "FILE_DROP_INIT"} :
               state' = [state EXCEPT ![n] = s]
      BY DEF NodeStep, UserCopyFile, StoreCopySize, UserCopyText, UserPaste, UserDrop,
         FileDropRequest, FileDropRequestEnds, vars, handlerVars
    <2> QED
      BY <2>1, StreamTypes
  <1>3. ASSUME NEW x \in Nodes, NEW y \in Peers(x), NEW d \in Conns
        PROVE  /\ Still(x, y, d)
               /\ SourceMove(chan[<<y, x, d>>], Sender(y, x, d), serve[y],
                             chan'[<<y, x, d>>], Sender(y, x, d)', serve'[y])
    <2>1. Receiving(x, y, d)' <=> Receiving(x, y, d)
      BY <1>1 DEF Receiving
    <2>2. Still(x, y, d)
      BY <1>1, <1>2, <2>1, ReceiverStill
    <2>3. Sender(y, x, d)' = Sender(y, x, d)
      BY <1>1 DEF Sender
    <2> QED
      BY <1>1, <2>2, <2>3 DEF SourceMove
  <1> QED
    BY <1>3, AllStill

(* The invariant holds initially: no data on the streams, none expected.   *)
LEMMA InitStreamInv == Init => StreamInv
  <1> SUFFICES ASSUME Init, NEW n \in Nodes, NEW m \in Peers(n), NEW c \in Conns
               PROVE  StreamInStep(n, m, c)
    BY DEF StreamInv
  <1>1. chan[<<m, n, c>>] = <<>> /\ taken = {} /\ acked = {}
    BY LinkOf DEF Init
  <1> QED
    BY <1>1 DEF StreamInStep, Behind, Expects, Holds, Waits

(* Every step keeps the streams in step.                                   *)
LEMMA NextStreamInv ==
  ASSUME TypeInv, MutexInv, StreamInv, [Next]_vars
  PROVE  StreamInv'
  <1>1. MutexInv'
    BY NextMutexInv
  <1>2. CASE UNCHANGED vars \/ \E n \in Nodes : NodeStep(n)
    BY <1>2, NodeStepKeeps
  <1>3. ASSUME NEW n \in Nodes, NEW m \in Peers(n), NEW c \in Conns, User(n, m, c)
        PROVE  StreamInv'
    <2>1. CASE \E accept \in BOOLEAN : FileDropResponse(n, m, c, accept)
      BY <1>1, <2>1, ReaderMoves, LinkStepKeeps DEF QuietReader
    <2>2. CASE Disconnect(n, m, c)
      BY <2>2, DisconnectStep
    <2>3. CASE Connect(n, m, c) \/ MdnsHandleStream(n, m, c)
      BY <2>3, StartKeeps
    <2> QED
      BY <1>3, <2>1, <2>2, <2>3 DEF User
  <1>4. ASSUME NEW n \in Nodes, NEW m \in Peers(n), NEW c \in Conns,
               Reader(n, m, c) \/ Watchers(n, m, c) \/ Writer(n, m, c)
        PROVE  StreamInv'
    <2>1. Reader(n, m, c) => LinkStep(n, m, c)
      BY ReaderMoves, AckStep, SendingSteps, ChunkStep, ReadStep
         DEF Reader, QuietReader, SendsMessage
    <2>2. Watchers(n, m, c) => LinkStep(n, m, c)
      BY SilentSteps
    <2>3. Writer(n, m, c) => LinkStep(n, m, c)
      BY SilentSteps, SendingSteps, LoopSteps DEF Writer, SendsMessage
    <2> QED
      BY <1>1, <1>4, <2>1, <2>2, <2>3, LinkStepKeeps
  <1> QED
    BY <1>2, <1>3, <1>4 DEF Next, NodeStep

(* A sequence goes on with what is put behind it.                          *)
LEMMA ConcatPrefix ==
  ASSUME NEW s \in Seq(Items), NEW t \in Seq(Items)
  PROVE  /\ Len(s) \in Nat /\ Len(s \o t) \in Nat /\ Len(s) <= Len(s \o t)
         /\ \A i \in 1..Len(s) : s[i] = (s \o t)[i]
  <1>1. Len(s) \in Nat /\ Len(t) \in Nat
    BY LenProperties
  <1>2. /\ Len(s \o t) = Len(s) + Len(t)
        /\ \A i \in 1..Len(s) + Len(t) : i <= Len(s) => (s \o t)[i] = s[i]
    BY ConcatProperties
  <1>3. \A i \in 1..Len(s) : i \in 1..Len(s) + Len(t) /\ i <= Len(s)
    BY <1>1
  <1> QED
    BY <1>1, <1>2, <1>3

(* What a loop on a link that waits for the data has got is the beginning  *)
(* of what is on its way.                                                  *)
LEMMA StreamInvGivesPrefix ==
  ASSUME TypeInv, MutexInv, StreamInv
  PROVE  ReceivedPrefix
  <1> SUFFICES ASSUME NEW n \in Nodes, NEW m \in Peers(n), NEW c \in Conns,
                      Receiving(n, m, c), <<n, m, c>> \in acked
               PROVE  InRun(recv[n].got, 0)
    <2>1. ASSUME NEW n \in Nodes, InRun(recv[n].got, 0)
          PROVE  \A i \in 1..Len(recv[n].got) :
                   (\A j \in 1..i : recv[n].got[j].cmd = "DATA")
                     => recv[n].got[i].n = i /\ recv[n].got[i].file = recv[n].got[1].file
      BY <2>1 DEF InRun, DataRun
    <2> QED
      BY <2>1 DEF ReceivedPrefix
  <1>1. chan[<<m, n, c>>] \in Seq(Items) /\ recv[n].got \in Seq(Items)
    BY LinkTypes, StreamTypes
  <1>2. Waits(n, m, c)
    BY DEF MutexInv, StateMatchesTransfer, Waits
  <1>3. InRun(recv[n].got \o chan[<<m, n, c>>], 0)
    BY <1>2 DEF StreamInv, StreamInStep, Expects, Good, Got
  <1>4. /\ Len(recv[n].got) \in Nat /\ Len(recv[n].got \o chan[<<m, n, c>>]) \in Nat
        /\ Len(recv[n].got) <= Len(recv[n].got \o chan[<<m, n, c>>])
        /\ \A i \in 1..Len(recv[n].got) : recv[n].got[i] = (recv[n].got \o chan[<<m, n, c>>])[i]
    BY <1>1, ConcatPrefix
  <1> QED
    BY <1>3, <1>4, RunPrefix

(* For any number of nodes and connections, whatever else goes over the    *)
(* streams and however the goroutines interleave, a loop on the connection *)
(* whose own reader acknowledged gets a gapless beginning of one file.     *)
THEOREM ReceivedPrefixHolds == Spec => []ReceivedPrefix
  <1>1. Init => StreamInv
    BY InitStreamInv
  <1>2. TypeInv /\ MutexInv /\ StreamInv /\ [Next]_vars => StreamInv'
    BY NextStreamInv
  <1>3. TypeInv /\ MutexInv /\ StreamInv => ReceivedPrefix
    BY StreamInvGivesPrefix
  <1> QED
    BY <1>1, <1>2, <1>3, TypeInvariant, MutexInvariant, PTL DEF Spec
================================================================================
