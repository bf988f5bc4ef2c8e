-------------------------- MODULE ClientWindowProofs --------------------------
(***************************************************************************)
(* The list of the window has no client twice, the window shows it, and    *)
(* the buttons come back, for any number of clients, messages, dialogs and *)
(* connections.                                                            *)
(***************************************************************************)
EXTENDS ClientWindow, SequenceTheorems, TLAPS

Entry == [id : Clients, status : {0, 1}]

LEMMA RemoveAtProperties ==
  ASSUME NEW S, NEW s \in Seq(S), NEW k \in 1..Len(s)
  PROVE  /\ RemoveAt(s, k) \in Seq(S)
         /\ Len(RemoveAt(s, k)) = Len(s) - 1
         /\ \A i \in 1..(Len(s) - 1) : RemoveAt(s, k)[i] = IF i < k THEN s[i] ELSE s[i + 1]
<1> DEFINE front == SubSeq(s, 1, k - 1)
           back == SubSeq(s, k + 1, Len(s))
<1>1. /\ front \in Seq(S)
      /\ Len(front) = k - 1
      /\ \A i \in 1..(k - 1) : front[i] = s[i]
  <2>1. \A i \in 1..(k - 1) : s[i] \in S
    OBVIOUS
  <2>2. 1 \in Int /\ k - 1 \in Int
    OBVIOUS
  <2>3. /\ front \in Seq(S)
        /\ Len(front) = IF 1 <= k - 1 THEN (k - 1) - 1 + 1 ELSE 0
        /\ \A i \in 1..((k - 1) - 1 + 1) : front[i] = s[1 + i - 1]
    BY <2>1, <2>2, SubSeqProperties
  <2> HIDE DEF front
  <2>4. k \in Nat /\ k >= 1 /\ (k - 1) - 1 + 1 = k - 1
    OBVIOUS
  <2>5. Len(front) = k - 1
    BY <2>3, <2>4
  <2>6. \A i \in 1..(k - 1) : front[i] = s[i]
    <3> TAKE i \in 1..(k - 1)
    <3>1. 1 + i - 1 = i
      OBVIOUS
    <3> QED  BY <2>3, <2>4, <3>1
  <2> QED  BY <2>3, <2>5, <2>6
<1>2. /\ back \in Seq(S)
      /\ Len(back) = Len(s) - k
      /\ \A i \in 1..(Len(s) - k) : back[i] = s[k + i]
  <2>1. \A i \in (k + 1)..Len(s) : s[i] \in S
    OBVIOUS
  <2>2. k + 1 \in Int /\ Len(s) \in Int
    OBVIOUS
  <2>3. /\ back \in Seq(S)
        /\ Len(back) = IF k + 1 <= Len(s) THEN Len(s) - (k + 1) + 1 ELSE 0
        /\ \A i \in 1..(Len(s) - (k + 1) + 1) : back[i] = s[(k + 1) + i - 1]
    BY <2>1, <2>2, SubSeqProperties
  <2> HIDE DEF back
  <2> QED  BY <2>3
<1>3. RemoveAt(s, k) = front \o back
  BY DEF RemoveAt
<1> HIDE DEF front, back
<1>4. /\ front \o back \in Seq(S)
      /\ Len(front \o back) = Len(front) + Len(back)
      /\ \A i \in 1..(Len(front) + Len(back)) :
           (front \o back)[i] = IF i <= Len(front) THEN front[i] ELSE back[i - Len(front)]
  BY <1>1, <1>2, ConcatProperties
<1> QED  BY <1>1, <1>2, <1>3, <1>4

(* A status message keeps the list a list of clients, each there once.     *)
LEMMA UpdatedProperties ==
  ASSUME clientVec \in Seq(Entry), OneEntryPerClient,
         NEW id \in Clients, NEW status \in {0, 1}
  PROVE  /\ Updated(id, status) \in Seq(Entry)
         /\ \A i, j \in DOMAIN Updated(id, status) :
              Updated(id, status)[i].id = Updated(id, status)[j].id => i = j
<1> DEFINE new == [id |-> id, status |-> status]
           First(k) == clientVec[k].id = id /\ \A j \in 1..(k - 1) : clientVec[j].id # id
           k == CHOOSE k \in DOMAIN clientVec : First(k)
<1>1. new \in Entry /\ new.id = id
  BY DEF Entry
<1>2. CASE ~Listed(id)
  <2>1. Updated(id, status) = Append(clientVec, new)
    BY <1>2 DEF Updated
  <2> HIDE DEF new
  <2>2. \A i \in DOMAIN clientVec : clientVec[i].id # id
    BY <1>2 DEF Listed
  <2>3. /\ Append(clientVec, new) \in Seq(Entry)
        /\ Len(Append(clientVec, new)) = Len(clientVec) + 1
        /\ \A i \in 1..(Len(clientVec) + 1) :
             Append(clientVec, new)[i] = IF i = Len(clientVec) + 1 THEN new ELSE clientVec[i]
    BY <1>1
  <2> QED  BY <1>1, <2>1, <2>2, <2>3 DEF OneEntryPerClient
<1>3. CASE Listed(id)
  <2>1. PICK k0 \in DOMAIN clientVec : clientVec[k0].id = id
    BY <1>3 DEF Listed
  <2>2. First(k0)
    BY <2>1 DEF OneEntryPerClient
  <2>3. k \in DOMAIN clientVec /\ clientVec[k].id = id
    BY <2>2
  <2>4. CASE clientVec[k].status = 0
    <3>1. Updated(id, status) = RemoveAt(clientVec, k)
      BY <1>3, <2>4 DEF Updated
    <3> HIDE DEF k
    <3>2. /\ RemoveAt(clientVec, k) \in Seq(Entry)
          /\ Len(RemoveAt(clientVec, k)) = Len(clientVec) - 1
          /\ \A i \in 1..(Len(clientVec) - 1) :
               RemoveAt(clientVec, k)[i] = IF i < k THEN clientVec[i] ELSE clientVec[i + 1]
      BY <2>3, RemoveAtProperties
    <3>3. ASSUME NEW i \in DOMAIN RemoveAt(clientVec, k), NEW j \in DOMAIN RemoveAt(clientVec, k),
                 RemoveAt(clientVec, k)[i].id = RemoveAt(clientVec, k)[j].id
          PROVE  i = j
      <4> DEFINE o(n) == IF n < k THEN n ELSE n + 1
      <4>1. i \in 1..(Len(clientVec) - 1) /\ j \in 1..(Len(clientVec) - 1)
        BY <3>2
      <4>2. o(i) \in DOMAIN clientVec /\ o(j) \in DOMAIN clientVec
        BY <2>3, <4>1
      <4>3. /\ RemoveAt(clientVec, k)[i] = clientVec[o(i)]
            /\ RemoveAt(clientVec, k)[j] = clientVec[o(j)]
        BY <3>2, <4>1
      <4>4. o(i) = o(j)
        BY <3>3, <4>2, <4>3 DEF OneEntryPerClient
      <4> QED  BY <2>3, <4>1, <4>4
    <3> QED  BY <3>1, <3>2, <3>3
  <2>5. CASE clientVec[k].status # 0
    <3>1. Updated(id, status) = [clientVec EXCEPT ![k] = new]
      BY <1>3, <2>5 DEF Updated
    <3> HIDE DEF k, new
    <3>2. [clientVec EXCEPT ![k] = new] \in Seq(Entry)
      BY <1>1, <2>3
    <3>3. DOMAIN [clientVec EXCEPT ![k] = new] = DOMAIN clientVec
      OBVIOUS
    <3>4. \A i \in DOMAIN clientVec :
            [clientVec EXCEPT ![k] = new][i].id = clientVec[i].id
      BY <1>1, <2>3
    <3> QED  BY <3>1, <3>2, <3>3, <3>4 DEF OneEntryPerClient
  <2> QED  BY <2>4, <2>5
<1> QED  BY <1>2, <1>3

(* A list of clients makes a list of widgets.                              *)
LEMMA WidgetsType ==
  ASSUME NEW vec \in Seq(Entry), NEW w, w = [i \in DOMAIN vec |-> DeviceInfo(vec[i])]
  PROVE  /\ w \in Seq(Widgets) /\ DOMAIN w = DOMAIN vec /\ Len(w) = Len(vec)
         /\ \A i \in DOMAIN w : w[i].id = vec[i].id /\ w[i].enabled = TRUE /\ w[i].bar = 0
<1>1. \A i \in DOMAIN vec : DeviceInfo(vec[i]) \in Widgets
  <2> TAKE i \in DOMAIN vec
  <2>1. vec[i] \in Entry
    OBVIOUS
  <2> QED  BY <2>1 DEF Entry, Widgets, DeviceInfo
<1>2. w \in [1..Len(vec) -> Widgets] /\ Len(vec) \in Nat
  BY <1>1
<1>3. w \in Seq(Widgets) /\ Len(w) = Len(vec)
  BY <1>2
<1> QED  BY <1>2, <1>3 DEF DeviceInfo

(* Enabling and disabling changes nothing else of the widgets.             *)
LEMMA ControlStatus ==
  ASSUME NEW w \in Seq(Widgets), NEW status \in BOOLEAN
  PROVE  /\ onUpdateControlStatus(w, status) \in Seq(Widgets)
         /\ Len(onUpdateControlStatus(w, status)) = Len(w)
         /\ DOMAIN onUpdateControlStatus(w, status) = DOMAIN w
         /\ \A i \in DOMAIN w : /\ onUpdateControlStatus(w, status)[i].id = w[i].id
                                /\ onUpdateControlStatus(w, status)[i].bar = w[i].bar
                                /\ onUpdateControlStatus(w, status)[i].enabled = status
<1>1. \A i \in DOMAIN w : /\ [w[i] EXCEPT !.enabled = status] \in Widgets
                          /\ [w[i] EXCEPT !.enabled = status].id = w[i].id
                          /\ [w[i] EXCEPT !.enabled = status].bar = w[i].bar
                          /\ [w[i] EXCEPT !.enabled = status].enabled = status
  <2> TAKE i \in DOMAIN w
  <2>1. w[i] \in Widgets
    OBVIOUS
  <2> QED  BY <2>1 DEF Widgets
<1>2. onUpdateControlStatus(w, status) \in [1..Len(w) -> Widgets] /\ Len(w) \in Nat
  BY <1>1 DEF onUpdateControlStatus
<1>3. onUpdateControlStatus(w, status) \in Seq(Widgets)
      /\ Len(onUpdateControlStatus(w, status)) = Len(w)
  BY <1>2
<1> QED  BY <1>1, <1>2, <1>3 DEF onUpdateControlStatus

LEMMA ProgressType ==
  ASSUME NEW sent \in Nat, NEW total \in Nat
  PROVE  Progress(sent, total) \in 0..100
<1>1. CASE sent >= total
  BY <1>1 DEF Progress
<1>2. CASE sent < total
  <2>1. Progress(sent, total) = (sent * 100) \div total
    BY <1>2 DEF Progress
  <2> DEFINE q == (sent * 100) \div total
             p == sent * 100
  <2>2. p \in Nat /\ total \in Nat \ {0} /\ p <= total * 100
    BY <1>2
  <2>3. q \in Nat
    <3> HIDE DEF p
    <3>1. p \div total \in Nat
      BY <2>2
    <3> QED  BY <3>1 DEF p
  <2>4. total * q <= p
    <3> HIDE DEF p
    <3>1. total * (p \div total) <= p
      BY <2>2
    <3> QED  BY <3>1 DEF p
  <2>5. q <= 100
    <3> SUFFICES ASSUME q > 100 PROVE FALSE
      BY <2>3
    <3>1. q >= 101
      BY <2>3
    <3> HIDE DEF q, p
    <3>2. total * q >= total * 101
      BY <2>2, <2>3, <3>1
    <3> QED  BY <2>2, <2>3, <2>4, <3>2
  <2> QED  BY <2>1, <2>3, <2>5
<1> QED  BY <1>1, <1>2
-----------------------------------------------------------------------------
(* The inductive invariant: what the properties say.  They need each       *)
(* other: the buttons come back with the last progress message because the *)
(* client it is for is among the widgets, and stay enabled with an empty   *)
(* list because there are no widgets then.                                 *)

ListInv == TypeOK /\ OneEntryPerClient
WindowInv == ListInv /\ ShownIsListed /\ ButtonsComeBack

(* Opening and closing dialogs keeps the stack of event loops one.         *)
LEMMA LoopsType ==
  ASSUME TypeOK
  PROVE  /\ \A kind \in {"accept", "dir", "file"}, id \in Clients, c \in 0..MaxConns :
              Open(kind, id, c) => loops' \in Seq(Loop)
         /\ \A c \in 0..MaxConns : Open("box", NoClient, c) => loops' \in Seq(Loop)
         /\ loops # <<>> /\ Close => loops' \in Seq(Loop) /\ parsing' \in 0..MaxConns
         /\ loops # <<>> => Top \in Loop
<1>1. loops \in Seq(Loop) /\ MaxConns \in Nat
  BY WindowAssumption DEF TypeOK
<1>2. ASSUME NEW kind, NEW id, NEW c, [kind |-> kind, id |-> id, conn |-> c] \in Loop,
             Open(kind, id, c)
      PROVE  loops' \in Seq(Loop)
  <2> DEFINE loop == [kind |-> kind, id |-> id, conn |-> c]
  <2>1. loop \in Loop
    BY <1>2
  <2>2. loops' = Append(loops, loop)
    BY <1>2 DEF Open
  <2> HIDE DEF loop
  <2> QED  BY <1>1, <2>1, <2>2
<1>3. ASSUME loops # <<>>
      PROVE  Top \in Loop /\ Top.conn \in 0..MaxConns
  <2>1. Len(loops) \in 1..Len(loops)
    BY <1>1, <1>3
  <2>2. Top \in Loop
    BY <1>1, <2>1 DEF Top
  <2> QED  BY <2>2 DEF Loop
<1>4. ASSUME loops # <<>>, Close
      PROVE  loops' \in Seq(Loop) /\ parsing' \in 0..MaxConns
  <2>1. loops' = SubSeq(loops, 1, Len(loops) - 1)
    BY <1>4 DEF Close
  <2>2. \A i \in 1..(Len(loops) - 1) : loops[i] \in Loop
    BY <1>1
  <2>3. 1 \in Int /\ Len(loops) - 1 \in Int
    BY <1>1
  <2>4. SubSeq(loops, 1, Len(loops) - 1) \in Seq(Loop)
    BY <2>2, <2>3, SubSeqProperties
  <2>5. parsing' \in {0, Top.conn}
    BY <1>4 DEF Close
  <2>6. 0 \in 0..MaxConns
    BY <1>1
  <2> QED  BY <1>3, <1>4, <2>1, <2>4, <2>5, <2>6
<1>5. \A c \in 0..MaxConns :
        /\ \A kind \in {"accept", "dir", "file"}, id \in Clients :
             [kind |-> kind, id |-> id, conn |-> c] \in Loop
        /\ [kind |-> "box", id |-> NoClient, conn |-> c] \in Loop
  BY DEF Loop
<1>6. \A kind \in {"accept", "dir", "file"}, id \in Clients, c \in 0..MaxConns :
        Open(kind, id, c) => loops' \in Seq(Loop)
  BY <1>2, <1>5
<1>7. \A c \in 0..MaxConns : Open("box", NoClient, c) => loops' \in Seq(Loop)
  BY <1>2, <1>5
<1> QED  BY <1>3, <1>4, <1>6, <1>7

(* A read fills the buffer and the parse loop empties it.                  *)
LEMMA BufferType ==
  ASSUME TypeOK
  PROVE  /\ Receive => /\ messages' \in 0..MaxMessages
                       /\ buffered' \in 0..(MaxMessages - messages')
                       /\ parsing' \in 0..MaxConns
         /\ Dispatch => buffered' \in 0..(MaxMessages - messages) /\ messages' = messages
         /\ GoOn => parsing' \in 0..MaxConns
<1>1. /\ {MaxMessages, MaxConns} \subseteq Nat
      /\ messages \in 0..MaxMessages /\ buffered \in 0..(MaxMessages - messages)
      /\ conn \in 0..MaxConns /\ parsing \in 0..MaxConns
  BY WindowAssumption DEF TypeOK
<1>2. ASSUME Receive
      PROVE  /\ messages' \in 0..MaxMessages
             /\ buffered' \in 0..(MaxMessages - messages')
             /\ parsing' \in 0..MaxConns
  <2>1. PICK k \in 1..messages : messages' = messages - k /\ buffered' = buffered + k
    BY <1>2 DEF Receive
  <2>2. parsing' = conn
    BY <1>2 DEF Receive
  <2> QED  BY <1>1, <2>1, <2>2
<1>3. Dispatch => buffered' \in 0..(MaxMessages - messages) /\ messages' = messages
  BY <1>1 DEF Dispatch
<1>4. GoOn => parsing' \in 0..MaxConns
  BY <1>1 DEF GoOn
<1> QED  BY <1>2, <1>3, <1>4

(* A list made anew shows what is listed, with no bars and no disabled     *)
(* button.                                                                 *)
LEMMA MadeAnew ==
  ASSUME NEW vec \in Seq(Entry), shown' = [i \in DOMAIN vec |-> DeviceInfo(vec[i])]
  PROVE  /\ shown' \in Seq(Widgets) /\ DOMAIN shown' = DOMAIN vec /\ Len(shown') = Len(vec)
         /\ \A i \in DOMAIN shown' :
              shown'[i].id = vec[i].id /\ shown'[i].enabled = TRUE /\ shown'[i].bar = 0
<1> DEFINE w == [i \in DOMAIN vec |-> DeviceInfo(vec[i])]
<1>1. /\ w \in Seq(Widgets) /\ DOMAIN w = DOMAIN vec /\ Len(w) = Len(vec)
      /\ \A i \in DOMAIN w : w[i].id = vec[i].id /\ w[i].enabled = TRUE /\ w[i].bar = 0
  BY WidgetsType
<1> QED  BY <1>1

(* What a transfer the user starts does.                                   *)
LEMMA StartDoes ==
  ASSUME TypeOK, NEW id \in Clients, Start(id)
  PROVE  /\ running' \subseteq Clients
         /\ connected => running' # {}
         /\ unsent' = (unsent \/ (~connected /\ clientVec # <<>>))
         /\ shown' \in Seq(Widgets) /\ Len(shown') = Len(shown) /\ DOMAIN shown' = DOMAIN shown
         /\ \A i \in DOMAIN shown : shown'[i].id = shown[i].id /\ shown'[i].bar = shown[i].bar
<1>1. shown \in Seq(Widgets) /\ FALSE \in BOOLEAN
  BY DEF TypeOK
<1>2. LET u == onUpdateControlStatus(shown, FALSE)
      IN  /\ u \in Seq(Widgets) /\ Len(u) = Len(shown) /\ DOMAIN u = DOMAIN shown
          /\ \A i \in DOMAIN shown : u[i].id = shown[i].id /\ u[i].bar = shown[i].bar
  BY <1>1, ControlStatus, Zenon
<1>3. shown' = onUpdateControlStatus(shown, FALSE)
  BY DEF Start
<1>4. /\ running' \subseteq Clients /\ (connected => running' # {})
      /\ unsent' = (unsent \/ (~connected /\ clientVec # <<>>))
  BY DEF Start, TypeOK
<1> QED  BY <1>2, <1>3, <1>4
-----------------------------------------------------------------------------

(* A progress message keeps what the window promises.                      *)
LEMMA ProgressKeeps ==
  ASSUME WindowInv, NEW val \in 0..100, NEW id \in Clients,
         shown' = onUpdateProgressInfoWithID(val, id),
         running' = IF val >= 100 THEN running \ {id} ELSE running,
         orphan' = (orphan \/ (val >= 100 /\ ~Listed(id))),
         UNCHANGED <<clientVec, refreshes, unsent>>
  PROVE  shown' \in Seq(Widgets) /\ (ShownIsListed /\ ButtonsComeBack)'
<1> USE DEF WindowInv
<1> DEFINE last == val >= 100 /\ \E j \in DOMAIN shown : shown[j].id = id
<1>1. /\ shown' \in Seq(Widgets) /\ Len(shown') = Len(shown) /\ DOMAIN shown' = DOMAIN shown
      /\ \A i \in DOMAIN shown' :
           /\ shown'[i].id = shown[i].id
           /\ shown'[i].bar = IF shown[i].id = id THEN val ELSE 0
           /\ last => shown'[i].enabled = TRUE
           /\ ~last => shown'[i].enabled = shown[i].enabled
  <2>0. shown \in Seq(Widgets)
    BY DEF ListInv, TypeOK
  <2> DEFINE w == onUpdateProgressInfoWithID(val, id)
             bars == [i \in DOMAIN shown |->
                        [shown[i] EXCEPT !.bar = IF shown[i].id = id THEN val ELSE 0]]
  <2>1. \A i \in DOMAIN shown :
          LET r == [shown[i] EXCEPT !.bar = IF shown[i].id = id THEN val ELSE 0]
          IN  /\ r \in Widgets /\ r.id = shown[i].id /\ r.enabled = shown[i].enabled
              /\ r.bar = IF shown[i].id = id THEN val ELSE 0
    <3> TAKE i \in DOMAIN shown
    <3> DEFINE b == IF shown[i].id = id THEN val ELSE 0
    <3>1. shown[i] \in Widgets
      BY <2>0
    <3>2. b \in 0..100
      OBVIOUS
    <3> HIDE DEF b
    <3>3. LET r == [shown[i] EXCEPT !.bar = b]
          IN  /\ r \in Widgets /\ r.id = shown[i].id /\ r.enabled = shown[i].enabled
              /\ r.bar = b
      BY <3>1, <3>2 DEF Widgets
    <3> QED  BY <3>3 DEF b
  <2>2. bars \in [1..Len(shown) -> Widgets] /\ Len(shown) \in Nat
    BY <2>0, <2>1
  <2>3. bars \in Seq(Widgets) /\ Len(bars) = Len(shown) /\ DOMAIN bars = DOMAIN shown
    BY <2>2
  <2>4. \A i \in DOMAIN shown : /\ bars[i].id = shown[i].id
                                /\ bars[i].enabled = shown[i].enabled
                                /\ bars[i].bar = IF shown[i].id = id THEN val ELSE 0
    BY <2>1
  <2>5. w = IF last THEN onUpdateControlStatus(bars, TRUE) ELSE bars
    BY DEF onUpdateProgressInfoWithID
  <2> HIDE DEF w, bars
  <2>6. /\ w \in Seq(Widgets) /\ Len(w) = Len(shown) /\ DOMAIN w = DOMAIN shown
        /\ \A i \in DOMAIN w :
             /\ w[i].id = shown[i].id
             /\ w[i].bar = IF shown[i].id = id THEN val ELSE 0
             /\ last => w[i].enabled = TRUE
             /\ ~last => w[i].enabled = shown[i].enabled
    <3>1. CASE last
      <4>1. w = onUpdateControlStatus(bars, TRUE)
        BY <2>5, <3>1
      <4>2. /\ w \in Seq(Widgets) /\ Len(w) = Len(bars) /\ DOMAIN w = DOMAIN bars
            /\ \A i \in DOMAIN bars : w[i].id = bars[i].id /\ w[i].bar = bars[i].bar
                                      /\ w[i].enabled = TRUE
        <5>1. TRUE \in BOOLEAN
          OBVIOUS
        <5>2. LET u == onUpdateControlStatus(bars, TRUE)
              IN  /\ u \in Seq(Widgets) /\ Len(u) = Len(bars) /\ DOMAIN u = DOMAIN bars
                  /\ \A i \in DOMAIN bars : u[i].id = bars[i].id /\ u[i].bar = bars[i].bar
                                            /\ u[i].enabled = TRUE
          BY <2>3, <5>1, ControlStatus, Zenon
        <5> QED  BY <4>1, <5>2
      <4>3. \A i \in DOMAIN w : /\ w[i].id = shown[i].id
                                /\ w[i].bar = IF shown[i].id = id THEN val ELSE 0
                                /\ w[i].enabled = TRUE
        BY <2>3, <2>4, <4>2
      <4> QED  BY <2>3, <3>1, <4>2, <4>3
    <3>2. CASE ~last
      <4>1. w = bars
        BY <2>5, <3>2
      <4> QED  BY <2>3, <2>4, <3>2, <4>1
    <3> QED  BY <3>1, <3>2
  <2>7. shown' = w
    BY DEF w
  <2> QED  BY <2>6, <2>7 DEF last
<1>2. ShownIsListed'
  BY <1>1 DEF ShownIsListed
<1>4. ASSUME val >= 100, ~last, refreshes = 0
      PROVE  ~Listed(id)
  <2>1. Len(shown) = Len(clientVec) /\ \A i \in DOMAIN shown : shown[i].id = clientVec[i].id
    BY <1>4 DEF ShownIsListed
  <2>2. DOMAIN shown = DOMAIN clientVec
    BY <2>1 DEF ListInv, TypeOK
  <2> QED  BY <1>4, <2>1, <2>2 DEF Listed
<1>5. ButtonsComeBack'
  <2>1. CASE last
    <3>1. \A i \in DOMAIN shown' : shown'[i].enabled = TRUE
      BY <1>1, <2>1
    <3> HIDE DEF last
    <3> QED  BY <3>1 DEF ButtonsComeBack
  <2>2. CASE ~last /\ val >= 100
    <3>1. refreshes' > 0 \/ orphan'
      <4>1. CASE refreshes = 0
        <5>1. ~Listed(id)
          BY <1>4, <2>2, <4>1
        <5>2. orphan' = (orphan \/ (val >= 100 /\ ~Listed(id)))
          OBVIOUS
        <5> HIDE DEF last
        <5> QED  BY <2>2, <5>1, <5>2
      <4>2. CASE refreshes # 0
        BY <4>2 DEF ListInv, TypeOK
      <4> QED  BY <4>1, <4>2
    <3> QED  BY <3>1 DEF ButtonsComeBack
  <2>3. CASE ~(val >= 100)
    <3>1. running' = running /\ (orphan => orphan')
      BY <2>3
    <3>2. \A i \in DOMAIN shown' : shown'[i].enabled = shown[i].enabled
      BY <1>1, <2>3
    <3> QED  BY <1>1, <3>1, <3>2 DEF ButtonsComeBack
  <2> QED  BY <2>1, <2>2, <2>3
<1> QED  BY <1>1, <1>2, <1>5


(* The list keeps its type and holds nobody twice.                         *)
LEMMA ListStep ==
  ASSUME WindowInv, [Next]_vars
  PROVE  ListInv'
<1> USE DEF WindowInv, ListInv
<1>1. /\ clientVec \in Seq(Entry) /\ shown \in Seq(Widgets) /\ loops \in Seq(Loop)
      /\ conn \in 0..MaxConns /\ parsing \in 0..MaxConns
  BY DEF TypeOK, Entry
<1>2. {MaxMessages, MaxClicks, MaxConns} \subseteq Nat
  BY WindowAssumption
<1>a. 0 \in 0..MaxConns
  BY <1>2
<1>16. CASE Receive
  <2>1. /\ messages' \in 0..MaxMessages /\ buffered' \in 0..(MaxMessages - messages')
        /\ parsing' \in 0..MaxConns
    BY <1>16, BufferType
  <2> QED  BY <1>16, <2>1 DEF Receive, history, TypeOK, OneEntryPerClient
<1>3. CASE GetConnStatusResponse
  <2>1. loops' \in Seq(Loop) /\ parsing' \in 0..MaxConns
    BY <1>1, <1>3, <1>a, LoopsType DEF GetConnStatusResponse
  <2>2. buffered' \in 0..(MaxMessages - messages) /\ messages' = messages
    BY <1>3, BufferType DEF GetConnStatusResponse
  <2> QED
    BY <1>3, <2>1, <2>2 DEF GetConnStatusResponse, Dispatch, history, TypeOK, OneEntryPerClient
<1>4. CASE UpdateClientStatus
  <2>1. PICK id \in Clients, status \in {0, 1} : clientVec' = Updated(id, status)
    BY <1>4 DEF UpdateClientStatus
  <2>2. /\ clientVec' \in Seq(Entry)
        /\ \A i, j \in DOMAIN clientVec' : clientVec'[i].id = clientVec'[j].id => i = j
    BY <1>1, <2>1, UpdatedProperties
  <2>3. shown' \in Seq(Widgets)
    BY <1>4, <2>2, MadeAnew DEF UpdateClientStatus, onUpdateClientList
  <2>4. crashed' \in BOOLEAN /\ orphan' \in BOOLEAN /\ unsent' \in BOOLEAN
    BY <1>4 DEF UpdateClientStatus, onUpdateClientList, TypeOK
  <2>5. /\ buffered' \in 0..(MaxMessages - messages) /\ messages' = messages
        /\ parsing' \in 0..MaxConns
    BY <1>4, BufferType DEF UpdateClientStatus
  <2>6. UNCHANGED <<connected, conn, refreshes, loops, clicks, running>>
    BY <1>4 DEF UpdateClientStatus, Dispatch
  <2>7. TypeOK'
    BY <2>2, <2>3, <2>4, <2>5, <2>6 DEF TypeOK, Entry
  <2> QED  BY <2>2, <2>7 DEF OneEntryPerClient
<1>5. CASE SendFileRequest
  <2>1. loops' \in Seq(Loop) /\ parsing' \in 0..MaxConns
    BY <1>1, <1>5, <1>a, LoopsType DEF SendFileRequest
  <2>2. buffered' \in 0..(MaxMessages - messages) /\ messages' = messages
    BY <1>5, BufferType DEF SendFileRequest
  <2> QED
    BY <1>5, <2>1, <2>2 DEF SendFileRequest, Dispatch, history, TypeOK, OneEntryPerClient
<1>6. CASE UpdateProgress
  <2>1. PICK id \in Clients, sent \in Sizes, total \in Sizes :
          /\ shown' = onUpdateProgressInfoWithID(Progress(sent, total), id)
          /\ running' = IF Progress(sent, total) >= 100 THEN running \ {id} ELSE running
          /\ orphan' = (orphan \/ (Progress(sent, total) >= 100 /\ ~Listed(id)))
    BY <1>6 DEF UpdateProgress
  <2>2. Progress(sent, total) \in 0..100
    BY <2>1, ProgressType, WindowAssumption
  <2>3. UNCHANGED <<connected, conn, clientVec, refreshes, loops, crashed, clicks, unsent>>
    BY <1>6 DEF UpdateProgress, Dispatch
  <2>4. PICK val \in 0..100 :
          /\ shown' = onUpdateProgressInfoWithID(val, id)
          /\ running' = IF val >= 100 THEN running \ {id} ELSE running
          /\ orphan' = (orphan \/ (val >= 100 /\ ~Listed(id)))
    BY <2>1, <2>2
  <2>5. shown' \in Seq(Widgets)
    BY <2>1, <2>3, <2>4, ProgressKeeps
  <2>6. orphan' \in BOOLEAN /\ running' \subseteq Clients
    BY <2>1 DEF TypeOK
  <2>7. /\ buffered' \in 0..(MaxMessages - messages) /\ messages' = messages
        /\ parsing' \in 0..MaxConns
    BY <1>6, BufferType DEF UpdateProgress
  <2>8. TypeOK'
    BY <2>3, <2>5, <2>6, <2>7 DEF TypeOK
  <2> QED  BY <2>3, <2>8 DEF OneEntryPerClient
<1>7. CASE AcceptClicked
  <2>1. loops # <<>> /\ Top \in Loop /\ Top.kind = "accept"
    BY <1>7, LoopsType DEF AcceptClicked, Innermost
  <2>2. Len(loops) \in DOMAIN loops /\ loops[Len(loops)] = Top
    BY <1>1, <2>1 DEF Top
  <2>3. [Top EXCEPT !.kind = "dir"] \in Loop
    BY <2>1 DEF Loop
  <2>4. loops' = [loops EXCEPT ![Len(loops)] = [Top EXCEPT !.kind = "dir"]]
    BY <1>7, <2>2 DEF AcceptClicked
  <2>5. loops' \in Seq(Loop)
    BY <1>1, <2>2, <2>3, <2>4
  <2> QED  BY <1>7, <2>5 DEF AcceptClicked, receiving, history, TypeOK, OneEntryPerClient
<1>8. CASE Dismissed
  <2>1. loops' \in Seq(Loop) /\ parsing' \in 0..MaxConns
    BY <1>8, LoopsType DEF Dismissed, Innermost
  <2> QED  BY <1>8, <2>1 DEF Dismissed, history, TypeOK, OneEntryPerClient
<1>9. CASE DirChosen
  <2>1. loops # <<>> /\ Top \in Loop /\ Top.kind = "dir" /\ Start(Top.id) /\ Close
    BY <1>9, LoopsType DEF DirChosen, Innermost
  <2>2. Top.id \in Clients
    BY <2>1 DEF Loop
  <2>3. /\ running' \subseteq Clients /\ shown' \in Seq(Widgets) /\ loops' \in Seq(Loop)
        /\ parsing' \in 0..MaxConns
    BY <2>1, <2>2, StartDoes, LoopsType
  <2>4. unsent' \in BOOLEAN
    BY <2>1 DEF Start, TypeOK
  <2> QED  BY <1>9, <2>3, <2>4 DEF DirChosen, TypeOK, OneEntryPerClient
<1>10. CASE OpenFile
  <2>1. PICK i \in DOMAIN shown : Open("file", shown[i].id, conn)
    BY <1>10 DEF OpenFile
  <2>2. shown[i].id \in Clients
    <3>1. shown[i] \in Widgets
      BY <1>1
    <3> QED  BY <3>1 DEF Widgets
  <2>3. loops' \in Seq(Loop)
    BY <1>1, <2>1, <2>2, LoopsType
  <2>4. clicks' \in 0..MaxClicks
    BY <1>2, <1>10 DEF OpenFile, TypeOK
  <2> QED
    BY <1>10, <2>3, <2>4 DEF OpenFile, receiving, history, TypeOK, OneEntryPerClient
<1>11. CASE FileChosen
  <2>1. loops # <<>> /\ Top \in Loop /\ Top.kind = "file" /\ Start(Top.id) /\ Close
    BY <1>11, LoopsType DEF FileChosen, Innermost
  <2>2. Top.id \in Clients
    BY <2>1 DEF Loop
  <2>3. /\ running' \subseteq Clients /\ shown' \in Seq(Widgets) /\ loops' \in Seq(Loop)
        /\ parsing' \in 0..MaxConns
    BY <2>1, <2>2, StartDoes, LoopsType
  <2>4. unsent' \in BOOLEAN
    BY <2>1 DEF Start, TypeOK
  <2> QED  BY <1>11, <2>3, <2>4 DEF FileChosen, TypeOK, OneEntryPerClient
<1>12. CASE Connect
  <2>1. connected' \in BOOLEAN /\ conn' \in 0..MaxConns
    BY <1>1, <1>2, <1>12 DEF Connect
  <2> QED  BY <1>12, <2>1 DEF Connect, history, TypeOK, OneEntryPerClient
<1>13. CASE Disconnected
  <2>1. clientVec' = <<>> /\ refreshes' \in Nat /\ running' = {}
    BY <1>13 DEF Disconnected, TypeOK
  <2>2. clientVec' \in Seq(Entry) /\ DOMAIN clientVec' = {}
    BY <2>1
  <2> QED  BY <1>13, <2>1, <2>2 DEF Disconnected, TypeOK, Entry, OneEntryPerClient
<1>14. CASE Refresh
  <2>1. shown' \in Seq(Widgets)
    BY <1>1, <1>14, MadeAnew DEF Refresh, onUpdateClientList
  <2>2. /\ refreshes' \in Nat /\ crashed' \in BOOLEAN
        /\ orphan' \in BOOLEAN /\ unsent' \in BOOLEAN
    <3>1. refreshes \in Nat /\ refreshes > 0 /\ refreshes' = refreshes - 1
      BY <1>14 DEF Refresh, TypeOK
    <3>2. crashed' \in BOOLEAN /\ orphan' \in BOOLEAN /\ unsent' \in BOOLEAN
      BY <1>14 DEF Refresh, TypeOK, onUpdateClientList
    <3> QED  BY <3>1, <3>2
  <2> QED  BY <1>14, <2>1, <2>2 DEF Refresh, receiving, TypeOK, OneEntryPerClient
<1>15. CASE UNCHANGED vars
  BY <1>15 DEF vars, receiving, history, TypeOK, OneEntryPerClient
<1> QED  BY <1>3, <1>4, <1>5, <1>6, <1>7, <1>8, <1>9, <1>10, <1>11, <1>12, <1>13, <1>14,
            <1>15, <1>16 DEF Next

(* Disabling the buttons for a transfer the user starts.                   *)
LEMMA StartKeeps ==
  ASSUME WindowInv, NEW id \in Clients, Start(id),
         UNCHANGED <<connected, clientVec, refreshes, orphan>>
  PROVE  (ShownIsListed /\ ButtonsComeBack)'
<1> USE DEF WindowInv, ListInv
<1>1. /\ connected => running' # {}
      /\ unsent' = (unsent \/ (~connected /\ clientVec # <<>>))
      /\ Len(shown') = Len(shown) /\ DOMAIN shown' = DOMAIN shown
      /\ \A i \in DOMAIN shown : shown'[i].id = shown[i].id /\ shown'[i].bar = shown[i].bar
  BY StartDoes
<1>2. ShownIsListed'
  BY <1>1 DEF ShownIsListed
<1>4. ASSUME clientVec = <<>>, refreshes = 0
      PROVE  DOMAIN shown = {}
  <2>1. clientVec = <<>> /\ Len(shown) = Len(clientVec) /\ shown \in Seq(Widgets)
    BY <1>4 DEF ShownIsListed, TypeOK
  <2> QED  BY <2>1
<1>5. ButtonsComeBack'
  <2>1. refreshes \in Nat
    BY DEF TypeOK
  <2>2. /\ refreshes' = refreshes /\ orphan' = orphan
        /\ DOMAIN shown' = DOMAIN shown
    BY <1>1
  <2>3. CASE connected
    <3>1. running' # {}
      BY <1>1, <2>3
    <3> QED  BY <3>1 DEF ButtonsComeBack
  <2>4. CASE ~connected /\ clientVec # <<>>
    <3>1. unsent'
      BY <1>1, <2>4
    <3> QED  BY <3>1 DEF ButtonsComeBack
  <2>5. CASE clientVec = <<>>
    <3>1. CASE refreshes = 0
      <4>1. DOMAIN shown' = {}
        BY <1>4, <2>2, <2>5, <3>1
      <4> QED  BY <4>1 DEF ButtonsComeBack
    <3>2. CASE refreshes # 0
      <4>1. refreshes' > 0
        BY <2>1, <2>2, <3>2
      <4> QED  BY <4>1 DEF ButtonsComeBack
    <3> QED  BY <3>1, <3>2
  <2> QED  BY <2>3, <2>4, <2>5
<1> QED  BY <1>2, <1>5

LEMMA WindowStep ==
  ASSUME WindowInv, [Next]_vars
  PROVE  WindowInv'
<1> USE DEF WindowInv
<1>1. ListInv'
  BY ListStep
<1>2. /\ clientVec \in Seq(Entry) /\ shown \in Seq(Widgets) /\ loops \in Seq(Loop)
      /\ refreshes \in Nat
      /\ clientVec' \in Seq(Entry)
  BY <1>1 DEF ListInv, TypeOK, Entry
<1> DEFINE Goal == (ShownIsListed /\ ButtonsComeBack)'
<1> SUFFICES Goal
  BY <1>1
<1>3. ASSUME shown' = [i \in DOMAIN clientVec' |-> DeviceInfo(clientVec'[i])]
      PROVE  Goal
  <2>1. /\ Len(shown') = Len(clientVec')
        /\ \A i \in DOMAIN shown' :
             shown'[i].id = clientVec'[i].id /\ shown'[i].enabled = TRUE /\ shown'[i].bar = 0
    BY <1>2, <1>3, MadeAnew
  <2>2. ShownIsListed'
    BY <2>1 DEF ShownIsListed
  <2>4. ButtonsComeBack'
    BY <2>1 DEF ButtonsComeBack
  <2> QED  BY <2>2, <2>4
<1>4. ASSUME UNCHANGED <<clientVec, shown, refreshes, running, orphan, unsent>>
      PROVE  Goal
  BY <1>4 DEF ShownIsListed, ButtonsComeBack
<1>5. CASE GetConnStatusResponse
  BY <1>4, <1>5 DEF GetConnStatusResponse, history
<1>6. CASE UpdateClientStatus
  BY <1>3, <1>6 DEF UpdateClientStatus, onUpdateClientList
<1>7. CASE SendFileRequest
  BY <1>4, <1>7 DEF SendFileRequest, history
<1>8. CASE UpdateProgress
  <2>1. PICK id \in Clients, sent \in Sizes, total \in Sizes :
          /\ shown' = onUpdateProgressInfoWithID(Progress(sent, total), id)
          /\ running' = IF Progress(sent, total) >= 100 THEN running \ {id} ELSE running
          /\ orphan' = (orphan \/ (Progress(sent, total) >= 100 /\ ~Listed(id)))
    BY <1>8 DEF UpdateProgress
  <2>2. Progress(sent, total) \in 0..100
    BY <2>1, ProgressType, WindowAssumption
  <2>3. PICK val \in 0..100 :
          /\ shown' = onUpdateProgressInfoWithID(val, id)
          /\ running' = IF val >= 100 THEN running \ {id} ELSE running
          /\ orphan' = (orphan \/ (val >= 100 /\ ~Listed(id)))
    BY <2>1, <2>2
  <2>4. UNCHANGED <<clientVec, refreshes, unsent>>
    BY <1>8 DEF UpdateProgress
  <2> QED  BY <2>1, <2>3, <2>4, ProgressKeeps
<1>9. CASE AcceptClicked
  BY <1>4, <1>9 DEF AcceptClicked, history
<1>10. CASE Dismissed
  BY <1>4, <1>10 DEF Dismissed, history
<1>11. CASE DirChosen
  <2>1. Top \in Loop /\ Top.kind = "dir" /\ Start(Top.id)
    BY <1>11, LoopsType DEF DirChosen, Innermost, ListInv
  <2>2. Top.id \in Clients
    BY <2>1 DEF Loop
  <2> QED  BY <1>11, <2>1, <2>2, StartKeeps DEF DirChosen
<1>12. CASE OpenFile
  BY <1>4, <1>12 DEF OpenFile, history
<1>13. CASE FileChosen
  <2>1. Top \in Loop /\ Top.kind = "file" /\ Start(Top.id)
    BY <1>13, LoopsType DEF FileChosen, Innermost, ListInv
  <2>2. Top.id \in Clients
    BY <2>1 DEF Loop
  <2> QED  BY <1>13, <2>1, <2>2, StartKeeps DEF FileChosen
<1>14. CASE Connect
  BY <1>4, <1>14 DEF Connect, history
<1>15. CASE Disconnected
  <2>1. refreshes' > 0 /\ UNCHANGED <<shown>>
    BY <1>2, <1>15 DEF Disconnected
  <2> QED  BY <2>1 DEF ShownIsListed, ButtonsComeBack
<1>16. CASE Refresh
  BY <1>3, <1>16 DEF Refresh, onUpdateClientList
<1>17. CASE UNCHANGED vars
  BY <1>4, <1>17 DEF vars, history
<1>18. CASE Receive
  BY <1>4, <1>18 DEF Receive, history
<1> QED
  BY <1>5, <1>6, <1>7, <1>8, <1>9, <1>10, <1>11, <1>12, <1>13, <1>14, <1>15, <1>16, <1>17,
     <1>18
  DEF Next

LEMMA WindowInit == Init => WindowInv
<1> SUFFICES ASSUME Init PROVE WindowInv
  OBVIOUS
<1> USE DEF Init
<1>1. {MaxMessages, MaxClicks, MaxConns} \subseteq Nat
  BY WindowAssumption
<1>2. /\ <<>> \in Seq([id : Clients, status : {0, 1}]) /\ <<>> \in Seq(Widgets)
      /\ <<>> \in Seq(Loop)
  OBVIOUS
<1>3. TypeOK
  <2>1. /\ 0 \in 0..MaxConns /\ MaxMessages \in 0..MaxMessages
        /\ 0 \in 0..(MaxMessages - MaxMessages)
        /\ MaxClicks \in 0..MaxClicks
    BY <1>1
  <2>2. /\ connected \in BOOLEAN /\ crashed \in BOOLEAN /\ orphan \in BOOLEAN
        /\ unsent \in BOOLEAN
        /\ running \subseteq Clients /\ refreshes \in Nat
    OBVIOUS
  <2>3. /\ clientVec \in Seq([id : Clients, status : {0, 1}]) /\ shown \in Seq(Widgets)
        /\ loops \in Seq(Loop)
    BY <1>2
  <2> QED  BY <2>1, <2>2, <2>3 DEF TypeOK
<1>4. DOMAIN shown = {} /\ DOMAIN clientVec = {} /\ Len(shown) = Len(clientVec)
  OBVIOUS
<1> QED  BY <1>3, <1>4 DEF WindowInv, ListInv, OneEntryPerClient, ShownIsListed,
                           ButtonsComeBack

(* The inductive invariant: it holds in every behaviour of the window.     *)
THEOREM WindowInvariant == Spec => []WindowInv
<1> QED  BY WindowInit, WindowStep, PTL DEF Spec

(* The variables of the window have their types in every behaviour.        *)
THEOREM WindowTypeCorrect == Spec => []TypeOK
<1>1. WindowInv => TypeOK
  BY DEF WindowInv, ListInv
<1> QED  BY <1>1, WindowInvariant, PTL

(* No statuses in any order list a client twice.                           *)
THEOREM ListHasNoDoubles == Spec => []OneEntryPerClient
<1>1. WindowInv => OneEntryPerClient
  BY DEF WindowInv, ListInv
<1> QED  BY <1>1, WindowInvariant, PTL

(* The window shows what is listed, or a timer that will show it runs.     *)
THEOREM WindowShowsList == Spec => []ShownIsListed
<1>1. WindowInv => ShownIsListed
  BY DEF WindowInv
<1> QED  BY <1>1, WindowInvariant, PTL

(* Buttons are disabled only while a transfer is under way, but for those  *)
(* a transfer of an unlisted client or a lost connection leaves disabled.  *)
THEOREM ButtonsReturn == Spec => []ButtonsComeBack
<1>1. WindowInv => ButtonsComeBack
  BY DEF WindowInv
<1> QED  BY <1>1, WindowInvariant, PTL
================================================================================
