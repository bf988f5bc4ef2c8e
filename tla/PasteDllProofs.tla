---------------------------- MODULE PasteDllProofs ----------------------------
(***************************************************************************)
(* Proofs about PasteDll, for any number of offers and pastes and any      *)
(* budgets: its types, the owners of the progress windows, the report of   *)
(* local copies, and that an event of the source finds a data object.      *)
(***************************************************************************)
EXTENDS PasteDll, SequenceTheorems, FiniteSetTheorems, TLAPS

(* The windows no paste has used yet, and the threads that will use one.   *)
Unmade == {t \in Pastes : window[t] = "none"}
Creators == {o \in Offers : thread[o] = "create" \/ (thread[o] = "join" /\ then[o] = "create")}

(* There is a window for every paste that has begun or may yet begin.      *)
Room == Cardinality(Unmade) >= left.pastes + Cardinality(Creators)

(* A download does not write more than its parts.                          *)
Fits == \A t \in Pastes : Len(stream[t]) <= Parts

(* An offer that comes has no window yet, and GetData makes a new one only *)
(* when the old one is gone.                                               *)
Windowless == {"none", "replace", "mark", "publish", "unmark", "failed", "create"}
Freed == \A o \in Offers : thread[o] \in Windowless => bar[o] = 0

TypeInv == TypeOK /\ Room /\ Fits

-----------------------------------------------------------------------------
(* Offers, pastes and windows are numbered; the drop's window is none of   *)
(* the pastes'.                                                            *)
LEMMA Numbers ==
  /\ IsFiniteSet(Offers) /\ Cardinality(Offers) \in Nat /\ Offers = 1..Cardinality(Offers)
  /\ IsFiniteSet(Pastes) /\ Cardinality(Pastes) \in Nat /\ Pastes = 1..Cardinality(Pastes)
  /\ Parts \in Nat \ {0}
  /\ Drop \in Bars /\ Drop \notin Pastes /\ 0 \notin Bars /\ Pastes \subseteq Bars
  /\ 0 \notin Offers /\ 0 \notin Pastes
<1>1. /\ IsFiniteSet(Offers) /\ Cardinality(Offers) \in Nat /\ Offers = 1..Cardinality(Offers)
      /\ IsFiniteSet(Pastes) /\ Cardinality(Pastes) \in Nat /\ Pastes = 1..Cardinality(Pastes)
  BY BoundsAssumption, FS_CardinalityType
<1>2. Drop \in Nat \ {0} /\ Drop \notin Pastes
  BY <1>1 DEF Drop
<1> QED  BY <1>1, <1>2, BoundsAssumption DEF Bars

(* Both sets are finite.                                                   *)
LEMMA RoomFinite ==
  /\ IsFiniteSet(Unmade) /\ Cardinality(Unmade) \in Nat
  /\ IsFiniteSet(Creators) /\ Cardinality(Creators) \in Nat
<1>1. Unmade \in SUBSET Pastes /\ Creators \in SUBSET Offers
  BY DEF Unmade, Creators
<1>2. IsFiniteSet(Unmade) /\ IsFiniteSet(Creators)
  BY <1>1, Numbers, FS_Subset
<1> QED  BY <1>2, FS_CardinalityType

(* The types of the variables that change together.                        *)
ObjectTypes ==
  /\ impl \in {0} \cup Offers /\ kind \in [Offers -> {"file", "image"}]
  /\ cur \in [Offers -> {0} \cup Pastes] /\ bar \in [Offers -> {0} \cup Pastes]
  /\ then \in [Offers -> {"loop", "create", "replace"}]
ClipTypes ==
  /\ isOle \in BOOLEAN /\ updates \in Nat /\ exposed \subseteq Nat
  /\ clip \in [by : {"nobody", "user", "dll"}, n : Nat]
MonTypes == monitor \in {"off", "idle", "look", "fetch", "dead"} /\ reported \subseteq Nat
BarTypes ==
  /\ window \in [Bars -> WindowStates] /\ win \in {0} \cup Bars
  /\ posted \in [Bars -> SUBSET {"full", "error"}]
DataTypes ==
  /\ stream \in [Pastes -> Seq({0} \cup Bars)] /\ pos \in [Pastes -> 0..Parts]
  /\ cancelled \in [Pastes -> BOOLEAN] /\ deaf \subseteq Pastes
GoTypes ==
  /\ go \in [pc : {"idle", "asked", "recv", "deinit"}, for : {0} \cup Bars, left : 0..Parts]
  /\ source \in BOOLEAN /\ dropBar \in {"none", "due", "made"}
EnvTypes ==
  /\ left \in [offers : {0} \cup Offers, pastes : {0} \cup Pastes, copies : Nat, drops : {0, 1}]
  /\ crossed \in BOOLEAN

(* They make up TypeOK, and a group a step leaves alone keeps its types.   *)
LEMMA KeptTypes ==
  ASSUME TypeOK
  PROVE  /\ ObjectTypes /\ (UNCHANGED objects => ObjectTypes')
         /\ ClipTypes /\ (UNCHANGED clipVars => ClipTypes')
         /\ MonTypes /\ (UNCHANGED monVars => MonTypes')
         /\ BarTypes /\ (UNCHANGED barVars => BarTypes')
         /\ DataTypes /\ (UNCHANGED dataVars => DataTypes')
         /\ GoTypes /\ (UNCHANGED goVars => GoTypes')
         /\ EnvTypes /\ (UNCHANGED envVars => EnvTypes')
         /\ thread \in [Offers -> ThreadStates] /\ crashed \in BOOLEAN
<1>1. ObjectTypes /\ ClipTypes /\ MonTypes /\ BarTypes /\ DataTypes /\ GoTypes /\ EnvTypes
  BY DEF TypeOK, ObjectTypes, ClipTypes, MonTypes, BarTypes, DataTypes, GoTypes, EnvTypes
<1>2. UNCHANGED objects => ObjectTypes'
  BY <1>1 DEF objects, ObjectTypes
<1>3. UNCHANGED clipVars => ClipTypes'
  BY <1>1 DEF clipVars, ClipTypes
<1>4. UNCHANGED monVars => MonTypes'
  BY <1>1 DEF monVars, MonTypes
<1>5. UNCHANGED barVars => BarTypes'
  BY <1>1 DEF barVars, BarTypes
<1>6. UNCHANGED dataVars => DataTypes'
  BY <1>1 DEF dataVars, DataTypes
<1>7. UNCHANGED goVars => GoTypes'
  BY <1>1 DEF goVars, GoTypes
<1>8. UNCHANGED envVars => EnvTypes'
  BY <1>1 DEF envVars, EnvTypes
<1> QED  BY <1>1, <1>2, <1>3, <1>4, <1>5, <1>6, <1>7, <1>8 DEF TypeOK

(* A state whose groups have their types has its types.                    *)
LEMMA AllTypes ==
  ASSUME ObjectTypes', ClipTypes', MonTypes', BarTypes', DataTypes', GoTypes', EnvTypes',
         thread' \in [Offers -> ThreadStates], crashed' \in BOOLEAN
  PROVE  TypeOK'
  BY DEF TypeOK, ObjectTypes, ClipTypes, MonTypes, BarTypes, DataTypes, GoTypes, EnvTypes

(* Where the steps lead a thread.                                          *)
LEMMA AtTypes ==
  ASSUME TypeOK, NEW o \in Offers, NEW from, NEW to \in ThreadStates, At(o, from, to)
  PROVE  thread' \in [Offers -> ThreadStates]
  BY DEF TypeOK, At

(* What a new content of the clipboard makes of it and of the messages.    *)
LEMMA ChangedTypes ==
  ASSUME TypeOK, NEW who \in {"user", "dll"}, NEW n \in Nat,
         Changed([by |-> who, n |-> n])
  PROVE  /\ clip' \in [by : {"nobody", "user", "dll"}, n : Nat]
         /\ updates' \in Nat
  BY DEF TypeOK, Changed

(* A paste takes one from the budget; what it releases keeps its type.     *)
LEMMA GetDataTypes ==
  ASSUME TypeOK, NEW o \in Offers, GetData(o)
  PROVE  /\ left' \in [offers : {0} \cup Offers, pastes : {0} \cup Pastes, copies : Nat, drops : {0, 1}]
         /\ cur' \in [Offers -> {0} \cup Pastes] /\ thread' \in [Offers -> ThreadStates]
         /\ then' \in [Offers -> {"loop", "create", "replace"}] /\ crossed' \in BOOLEAN
<1>1. left.pastes - 1 \in {0} \cup Pastes
  BY Numbers DEF TypeOK, GetData
<1>2. left' \in [offers : {0} \cup Offers, pastes : {0} \cup Pastes, copies : Nat, drops : {0, 1}]
  BY <1>1 DEF TypeOK, GetData
<1> QED  BY <1>2 DEF TypeOK, GetData, Release, ThreadStates, Busy

-----------------------------------------------------------------------------
(* Types *)

(* Room is left by a step that takes no window and begins no paste.        *)
LEMMA SameRoom ==
  ASSUME TypeInv, left'.pastes = left.pastes, Unmade \subseteq Unmade', Creators' \subseteq Creators
  PROVE  Room'
<1>1. Unmade' \in SUBSET Pastes /\ Creators' \in SUBSET Creators /\ Unmade \in SUBSET Unmade'
  BY DEF Unmade
<1>2. IsFiniteSet(Unmade') /\ IsFiniteSet(Creators')
  BY <1>1, Numbers, RoomFinite, FS_Subset
<1>3. Cardinality(Unmade) <= Cardinality(Unmade') /\ Cardinality(Creators') <= Cardinality(Creators)
  BY <1>1, <1>2, RoomFinite, FS_Subset
<1>4. Cardinality(Unmade') \in Nat /\ Cardinality(Creators') \in Nat
  BY <1>2, FS_CardinalityType
<1>5. left.pastes \in Nat
  BY Numbers DEF TypeInv, TypeOK
<1> QED  BY <1>3, <1>4, <1>5, RoomFinite DEF TypeInv, Room

(* A step that takes no window and moves one thread, not to create one     *)
(* unless that was its next step after a join.                             *)
LEMMA AtRoom ==
  ASSUME TypeInv, left' = left, window' = window, then' = then,
         NEW o \in Offers, NEW from, NEW to, At(o, from, to), to # "join",
         to = "create" => from = "join" /\ then[o] = "create"
  PROVE  Room'
<1>1. Unmade \subseteq Unmade'
  BY DEF Unmade
<1>2. \A p \in Offers : thread'[p] = IF p = o THEN to ELSE thread[p]
  BY DEF At, TypeInv, TypeOK
<1>3. thread[o] = from
  BY DEF At
<1>4. Creators' \subseteq Creators
  BY <1>2, <1>3 DEF Creators
<1> QED  BY <1>1, <1>4, SameRoom

(* What does not concern the threads of the offers, nor the windows.       *)
LEMMA QuietRoom ==
  ASSUME TypeInv, left'.pastes = left.pastes, thread' = thread, then' = then,
         \A t \in Pastes : window[t] = "none" => window'[t] = "none"
  PROVE  Room'
<1>1. Unmade \subseteq Unmade' /\ Creators' \subseteq Creators
  BY DEF Unmade, Creators
<1> QED  BY <1>1, SameRoom

(* A new paste takes the room its budget had.                              *)
LEMMA GetDataRoom ==
  ASSUME TypeInv, NEW o \in Offers, GetData(o), window' = window
  PROVE  Room'
<1>1. left.pastes \in Nat /\ left'.pastes = left.pastes - 1 /\ left'.pastes \in Nat
  BY Numbers DEF TypeInv, TypeOK, GetData
<1>2. Unmade' = Unmade
  BY DEF Unmade
<1>3. Creators' \in SUBSET (Creators \cup {o})
  BY DEF Creators, TypeInv, TypeOK, GetData, Release
<1>4. /\ IsFiniteSet(Creators \cup {o})
      /\ Cardinality(Creators \cup {o}) \in {Cardinality(Creators), Cardinality(Creators) + 1}
  BY RoomFinite, FS_AddElement
<1>5. IsFiniteSet(Creators') /\ Cardinality(Creators') <= Cardinality(Creators \cup {o})
  BY <1>3, <1>4, FS_Subset
<1>6. Cardinality(Creators') \in Nat
  BY <1>5, FS_CardinalityType
<1> QED  BY <1>1, <1>2, <1>4, <1>5, <1>6, RoomFinite DEF TypeInv, Room

(* There is a window for the paste that makes one.                         *)
LEMMA CreateFinds ==
  ASSUME TypeInv, NEW o \in Offers, Create(o)
  PROVE  \E t \in Pastes :
           /\ window[t] = "none"
           /\ bar' = [bar EXCEPT ![o] = t] /\ cur' = [cur EXCEPT ![o] = t]
           /\ window' = [window EXCEPT ![t] = "starting"]
<1>1. o \in Creators
  BY DEF Create, At, Creators
<1>2. Cardinality(Creators) # 0
  BY <1>1, RoomFinite, FS_EmptySet
<1>3. left.pastes \in Nat
  BY Numbers DEF TypeInv, TypeOK
<1>4. Cardinality(Unmade) # 0
  BY <1>2, <1>3, RoomFinite DEF TypeInv, Room
<1>5. Unmade # {}
  BY <1>4, FS_EmptySet
<1>6. \E t \in Pastes : window[t] = "none"
  BY <1>5 DEF Unmade
<1> DEFINE t == CHOOSE t \in Pastes : window[t] = "none"
<1>7. t \in Pastes /\ window[t] = "none"
  BY <1>6
<1>8. /\ bar' = [bar EXCEPT ![o] = t] /\ cur' = [cur EXCEPT ![o] = t]
      /\ window' = [window EXCEPT ![t] = "starting"]
  BY DEF Create
<1> QED  BY <1>7, <1>8

(* The window it takes makes no room for another paste.                    *)
LEMMA CreateRoom ==
  ASSUME TypeInv, NEW o \in Offers, Create(o)
  PROVE  Room'
<1>1. PICK t \in Pastes : window[t] = "none" /\ window' = [window EXCEPT ![t] = "starting"]
  BY CreateFinds
<1>2. Unmade' = Unmade \ {t} /\ t \in Unmade
  BY <1>1, Numbers DEF Unmade, TypeInv, TypeOK
<1>3. Creators' = Creators \ {o} /\ o \in Creators
  BY DEF Creators, Create, At, TypeInv, TypeOK
<1>4. /\ Cardinality(Unmade') = Cardinality(Unmade) - 1
      /\ Cardinality(Creators') = Cardinality(Creators) - 1
  BY <1>2, <1>3, RoomFinite, FS_RemoveElement
<1>5. left.pastes \in Nat /\ left' = left
  BY Numbers DEF TypeInv, TypeOK, Create, envVars
<1> QED  BY <1>4, <1>5, RoomFinite DEF TypeInv, Room

(* A thread's own steps keep the types.                                    *)
LEMMA ThreadTypes ==
  ASSUME TypeInv, NEW o \in Offers, ApartmentStep(o) \/ LoopEnds(o)
  PROVE  TypeInv'
<1> USE DEF TypeInv, ThreadStates
<1>1. CASE Replace(o)
  <2>1. ObjectTypes'
    BY <1>1, KeptTypes DEF Replace, ObjectTypes
  <2>2. TypeOK'
    BY <1>1, <2>1, AtTypes, KeptTypes, AllTypes DEF Replace
  <2>3. Room'
    BY <1>1, AtRoom DEF Replace, barVars, envVars
  <2> QED  BY <1>1, <2>2, <2>3 DEF Replace, Fits, dataVars
<1>2. CASE Mark(o)
  <2>1. ClipTypes'
    BY <1>2, KeptTypes DEF Mark, ClipTypes
  <2>2. TypeOK'
    BY <1>2, <2>1, AtTypes, KeptTypes, AllTypes DEF Mark
  <2>3. Room'
    BY <1>2, AtRoom DEF Mark, objects, barVars, envVars
  <2> QED  BY <1>2, <2>2, <2>3 DEF Mark, Fits, dataVars
<1>3. CASE Publish(o)
  <2>1. ClipTypes'
    <3>1. o \in Nat
      BY Numbers
    <3> QED  BY <1>3, <3>1, ChangedTypes, KeptTypes DEF Publish, ClipTypes
  <2>2. TypeOK'
    BY <1>3, <2>1, AtTypes, KeptTypes, AllTypes DEF Publish
  <2>3. Room'
    BY <1>3, AtRoom DEF Publish, objects, barVars, envVars
  <2> QED  BY <1>3, <2>2, <2>3 DEF Publish, Fits, dataVars
<1>4. CASE Unmark(o)
  <2>1. ClipTypes'
    BY <1>4, KeptTypes DEF Unmark, ClipTypes
  <2>2. TypeOK'
    BY <1>4, <2>1, AtTypes, KeptTypes, AllTypes DEF Unmark
  <2>3. Room'
    BY <1>4, AtRoom DEF Unmark, objects, barVars, envVars
  <2> QED  BY <1>4, <2>2, <2>3 DEF Unmark, Fits, dataVars
<1>5. CASE Join(o)
  <2>1. then[o] \in {"loop", "create", "replace"}
    BY DEF TypeOK
  <2>2. ObjectTypes'
    BY <1>5, KeptTypes DEF Join, ObjectTypes
  <2>3. TypeOK'
    BY <1>5, <2>1, <2>2, AtTypes, KeptTypes, AllTypes DEF Join
  <2>4. Room'
    BY <1>5, <2>1, AtRoom DEF Join, barVars, envVars
  <2> QED  BY <1>5, <2>3, <2>4 DEF Join, Fits, dataVars
<1>6. CASE Create(o)
  <2>1. PICK t \in Pastes :
          /\ bar' = [bar EXCEPT ![o] = t] /\ cur' = [cur EXCEPT ![o] = t]
          /\ window' = [window EXCEPT ![t] = "starting"]
    BY <1>6, CreateFinds
  <2>2. ObjectTypes'
    BY <1>6, <2>1, KeptTypes DEF Create, ObjectTypes
  <2>3. BarTypes'
    BY <1>6, <2>1, KeptTypes DEF Create, BarTypes, WindowStates
  <2>4. TypeOK'
    BY <1>6, <2>2, <2>3, AtTypes, KeptTypes, AllTypes DEF Create
  <2> QED  BY <1>6, <2>4, CreateRoom DEF Create, Fits, dataVars
<1>7. CASE WaitSetupReady(o)
  <2>1. TypeOK'
    BY <1>7, AtTypes, KeptTypes, AllTypes DEF WaitSetupReady
  <2>2. Room'
    BY <1>7, AtRoom DEF WaitSetupReady, objects, barVars, envVars
  <2> QED  BY <1>7, <2>1, <2>2 DEF WaitSetupReady, Fits, dataVars
<1>8. CASE StartDownload(o)
  <2>1. GoTypes'
    BY <1>8, KeptTypes, Numbers DEF StartDownload, GoTypes, ObjectTypes
  <2>2. TypeOK'
    BY <1>8, <2>1, AtTypes, KeptTypes, AllTypes DEF StartDownload
  <2>3. Room'
    BY <1>8, AtRoom DEF StartDownload, objects, barVars, envVars
  <2> QED  BY <1>8, <2>2, <2>3 DEF StartDownload, Fits, dataVars
<1>9. CASE ImageEnds(o)
  <2>1. MonTypes'
    BY <1>9, KeptTypes DEF ImageEnds, MonTypes
  <2>2. TypeOK'
    BY <1>9, <2>1, AtTypes, KeptTypes, AllTypes DEF ImageEnds
  <2>3. Room'
    BY <1>9, AtRoom DEF ImageEnds, objects, barVars, envVars
  <2> QED  BY <1>9, <2>2, <2>3 DEF ImageEnds, Fits, dataVars
<1>10. CASE ReadBegins(o)
  <2>1. At(o, "loop", "read")
    BY <1>10 DEF ReadBegins, At
  <2>2. TypeOK'
    BY <1>10, <2>1, AtTypes, KeptTypes, AllTypes DEF ReadBegins
  <2>3. Room'
    BY <1>10, <2>1, AtRoom DEF ReadBegins, objects, barVars, envVars
  <2> QED  BY <1>10, <2>2, <2>3 DEF ReadBegins, Fits, dataVars
<1>11. CASE ReadReturns(o)
  <2>1. DataTypes'
    <3>1. ASSUME cur[o] \in Pastes PROVE Len(stream[cur[o]]) \in 0..Parts
      BY <3>1, Numbers, LenProperties DEF Fits, TypeOK
    <3> QED  BY <1>11, <3>1, KeptTypes, Numbers DEF ReadReturns, DataTypes, ObjectTypes
  <2>2. TypeOK'
    BY <1>11, <2>1, AtTypes, KeptTypes, AllTypes DEF ReadReturns
  <2>3. Room'
    BY <1>11, AtRoom DEF ReadReturns, objects, barVars, envVars
  <2> QED  BY <1>11, <2>2, <2>3 DEF ReadReturns, Fits
<1>12. CASE ReadEnds(o)
  <2>1. ObjectTypes' /\ thread' \in [Offers -> ThreadStates]
    BY <1>12, KeptTypes DEF ReadEnds, Release, ObjectTypes
  <2>2. TypeOK'
    BY <1>12, <2>1, KeptTypes, AllTypes DEF ReadEnds
  <2>3. Creators' \subseteq Creators
    BY <1>12, KeptTypes DEF ReadEnds, Release, Creators, ObjectTypes
  <2>4. Unmade \subseteq Unmade' /\ left' = left
    BY <1>12 DEF ReadEnds, Unmade, barVars, envVars
  <2>5. Room'
    BY <2>3, <2>4, SameRoom
  <2> QED  BY <1>12, <2>2, <2>5 DEF ReadEnds, Fits, dataVars
<1>13. CASE LoopEnds(o)
  <2>1. TypeOK'
    BY <1>13, AtTypes, KeptTypes, AllTypes DEF LoopEnds
  <2>2. Room'
    BY <1>13, AtRoom DEF LoopEnds, objects, barVars, envVars
  <2> QED  BY <1>13, <2>1, <2>2 DEF LoopEnds, Fits, dataVars
<1>14. CASE DeleteOld(o)
  <2>1. ObjectTypes' /\ thread' \in [Offers -> ThreadStates]
    BY <1>14, KeptTypes, Numbers DEF DeleteOld, ObjectTypes
  <2>2. TypeOK'
    BY <1>14, <2>1, KeptTypes, AllTypes DEF DeleteOld
  <2>3. Creators' \subseteq Creators
    BY <1>14, KeptTypes DEF DeleteOld, Creators, ObjectTypes
  <2>4. Unmade \subseteq Unmade' /\ left' = left
    BY <1>14 DEF DeleteOld, Unmade, barVars, envVars
  <2>5. Room'
    BY <2>3, <2>4, SameRoom
  <2> QED  BY <1>14, <2>2, <2>5 DEF DeleteOld, Fits, dataVars
<1>15. CASE OfferFails(o)
  <2>1. TypeOK'
    BY <1>15, AtTypes, KeptTypes, AllTypes DEF OfferFails
  <2>2. Room'
    BY <1>15, AtRoom DEF OfferFails, objects, barVars, envVars
  <2> QED  BY <1>15, <2>1, <2>2 DEF OfferFails, Fits, dataVars
<1> QED  BY <1>1, <1>2, <1>3, <1>4, <1>5, <1>6, <1>7, <1>8, <1>9, <1>10, <1>11, <1>12, <1>13,
            <1>14, <1>15
         DEF ApartmentStep

(* A window's steps keep the types.                                        *)
LEMMA WindowTypes ==
  ASSUME TypeInv, NEW b \in Bars, WindowStep(b) \/ UserConfirms(b)
  PROVE  TypeInv'
<1> USE DEF TypeInv
<1>1. /\ UNCHANGED <<posted, thread, objects, clipVars, monVars, dataVars, goVars, envVars, crashed>>
      /\ window[b] # "none"
      /\ \E new \in {"open", "warning", "closed", "failed"} : window' = [window EXCEPT ![b] = new]
      /\ win' \in {win, b, 0}
  BY DEF WindowStep, WindowMade, WindowCloses, WindowWarns, UserConfirms
<1>2. BarTypes'
  BY <1>1, KeptTypes DEF BarTypes, WindowStates
<1>3. TypeOK'
  BY <1>1, <1>2, KeptTypes, AllTypes
<1>4. \A t \in Pastes : window[t] = "none" => window'[t] = "none"
  BY <1>1, Numbers DEF TypeOK
<1>5. Room'
  BY <1>1, <1>4, QuietRoom DEF envVars, objects
<1> QED  BY <1>1, <1>3, <1>5 DEF Fits, dataVars

(* A message goes to the window made last.                                 *)
LEMMA PostTypes ==
  ASSUME TypeOK, NEW what \in {"full", "error"}, Post(what)
  PROVE  posted' \in [Bars -> SUBSET {"full", "error"}]
  BY DEF TypeOK, Post

(* The goroutine's state before and after a download.                      *)
LEMMA IdleType ==
  /\ 0 \in 0..Parts /\ Parts \in 0..Parts
  /\ Idle \in [pc : {"idle", "asked", "recv", "deinit"}, for : {0} \cup Bars, left : 0..Parts]
<1>1. 0 \in 0..Parts /\ Parts \in 0..Parts
  BY Numbers
<1> QED  BY <1>1 DEF Idle

(* What arrives goes to a paste or to none.                                *)
LEMMA CurrentType ==
  ASSUME TypeOK
  PROVE  Current \in {0} \cup Pastes
<1>1. DataObject \in {0} \cup Offers
  BY DEF TypeOK, DataObject
<1> QED  BY <1>1, Numbers DEF TypeOK, Current

(* The goroutine's steps keep the types.                                   *)
LEMMA GoTypesKept ==
  ASSUME TypeInv,
         GoStarts \/ GoWrites \/ GoEnds \/ GoCancels \/ DropAccepted \/ DropBarMade \/ DropBarEnds
  PROVE  TypeInv'
<1> USE DEF TypeInv
<1>1. CASE GoStarts
  <2>1. GoTypes'
    BY <1>1, KeptTypes, IdleType DEF GoStarts, GoTypes
  <2>2. TypeOK'
    BY <1>1, <2>1, KeptTypes, AllTypes DEF GoStarts
  <2>3. Room'
    BY <1>1, QuietRoom DEF GoStarts, objects, barVars, envVars
  <2> QED  BY <1>1, <2>2, <2>3 DEF GoStarts, Fits, dataVars
<1>2. CASE GoWrites
  <2>1. GoTypes'
    <3>1. go.left - 1 \in 0..Parts
      BY <1>2, Numbers DEF GoWrites, TypeOK
    <3> QED  BY <1>2, <3>1, KeptTypes DEF GoWrites, GoTypes
  <2>2. BarTypes'
    <3>1. posted' = posted \/ Post("full")
      BY <1>2 DEF GoWrites
    <3>2. posted' \in [Bars -> SUBSET {"full", "error"}]
      BY <3>1, PostTypes DEF TypeOK
    <3> QED  BY <1>2, <3>2, KeptTypes DEF GoWrites, BarTypes
  <2>3. /\ stream' \in [Pastes -> Seq({0} \cup Bars)]
        /\ Fits'
    <3>1. CASE stream' = stream
      BY <3>1 DEF Fits, TypeOK
    <3>2. CASE /\ Takes /\ Len(stream[Current]) < Parts
               /\ stream' = [stream EXCEPT ![Current] = Append(@, go.for)]
      <4> DEFINE c == Current
      <4>1. c \in Pastes /\ stream[c] \in Seq({0} \cup Bars) /\ go.for \in {0} \cup Bars
        BY <3>2, CurrentType DEF TypeOK, Takes
      <4>2. /\ Append(stream[c], go.for) \in Seq({0} \cup Bars)
            /\ Len(Append(stream[c], go.for)) = Len(stream[c]) + 1 /\ Len(stream[c]) \in Nat
        BY <4>1, AppendProperties, LenProperties
      <4>3. Len(Append(stream[c], go.for)) <= Parts
        BY <3>2, <4>2, Numbers
      <4>4. \A t \in Pastes : stream'[t] = IF t = c THEN Append(stream[c], go.for) ELSE stream[t]
        BY <3>2 DEF TypeOK
      <4>5. stream' \in [Pastes -> Seq({0} \cup Bars)]
        BY <3>2, <4>1, <4>2 DEF TypeOK
      <4>6. Fits'
        BY <4>3, <4>4 DEF Fits
      <4> QED  BY <4>5, <4>6
    <3> QED  BY <1>2, <3>1, <3>2 DEF GoWrites
  <2>4. DataTypes'
    <3>1. deaf' \subseteq deaf
      BY <1>2 DEF GoWrites
    <3> QED  BY <1>2, <2>3, <3>1, KeptTypes DEF GoWrites, DataTypes
  <2>5. TypeOK'
    BY <1>2, <2>1, <2>2, <2>4, KeptTypes, AllTypes DEF GoWrites
  <2>6. Room'
    BY <1>2, QuietRoom DEF GoWrites, objects, envVars
  <2> QED  BY <2>3, <2>5, <2>6
<1>3. CASE GoEnds
  <2>1. GoTypes'
    BY <1>3, KeptTypes, IdleType DEF GoEnds, Finish, GoTypes
  <2>2. TypeOK'
    BY <1>3, <2>1, KeptTypes, AllTypes DEF GoEnds
  <2>3. Room'
    BY <1>3, QuietRoom DEF GoEnds, objects, barVars, envVars
  <2> QED  BY <1>3, <2>2, <2>3 DEF GoEnds, Fits, dataVars
<1>4. CASE GoCancels
  <2>1. GoTypes'
    BY <1>4, KeptTypes, IdleType DEF GoCancels, Finish, GoTypes
  <2>2. BarTypes'
    <3>1. posted' = posted \/ Post("error")
      BY <1>4 DEF GoCancels
    <3>2. posted' \in [Bars -> SUBSET {"full", "error"}]
      BY <3>1, PostTypes DEF TypeOK
    <3> QED  BY <1>4, <3>2, KeptTypes DEF GoCancels, BarTypes
  <2>3. DataTypes'
    <3>1. deaf' \subseteq Pastes
      BY <1>4, CurrentType, KeptTypes DEF GoCancels, CancelHeard, DataTypes
    <3> QED  BY <1>4, <3>1, KeptTypes DEF GoCancels, DataTypes
  <2>4. crashed' \in BOOLEAN
    BY <1>4 DEF GoCancels
  <2>5. TypeOK'
    BY <1>4, <2>1, <2>2, <2>3, <2>4, KeptTypes, AllTypes DEF GoCancels
  <2>6. Room'
    BY <1>4, QuietRoom DEF GoCancels, objects, envVars
  <2> QED  BY <1>4, <2>5, <2>6 DEF GoCancels, Fits
<1>5. CASE DropAccepted
  <2>1. GoTypes'
    BY <1>5, KeptTypes, Numbers DEF DropAccepted, GoTypes
  <2>2. EnvTypes' /\ left'.pastes = left.pastes
    BY <1>5, KeptTypes DEF DropAccepted, EnvTypes, Busy
  <2>3. TypeOK'
    BY <1>5, <2>1, <2>2, KeptTypes, AllTypes DEF DropAccepted
  <2>4. Room'
    BY <1>5, <2>2, QuietRoom DEF DropAccepted, objects, barVars
  <2> QED  BY <1>5, <2>3, <2>4 DEF DropAccepted, Fits, dataVars
<1>6. CASE DropBarMade
  <2>1. GoTypes'
    BY <1>6, KeptTypes DEF DropBarMade, GoTypes
  <2>2. BarTypes'
    BY <1>6, KeptTypes DEF DropBarMade, BarTypes, WindowStates
  <2>3. TypeOK'
    BY <1>6, <2>1, <2>2, KeptTypes, AllTypes DEF DropBarMade
  <2>4. \A t \in Pastes : window'[t] = window[t]
    BY <1>6, Numbers DEF DropBarMade, TypeOK
  <2>5. Room'
    BY <1>6, <2>4, QuietRoom DEF DropBarMade, objects, envVars
  <2> QED  BY <1>6, <2>3, <2>5 DEF DropBarMade, Fits, dataVars
<1>7. CASE DropBarEnds
  <2>1. GoTypes'
    BY <1>7, KeptTypes, IdleType DEF DropBarEnds, GoTypes
  <2>2. TypeOK'
    BY <1>7, <2>1, KeptTypes, AllTypes DEF DropBarEnds
  <2>3. Room'
    BY <1>7, QuietRoom DEF DropBarEnds, objects, barVars, envVars
  <2> QED  BY <1>7, <2>2, <2>3 DEF DropBarEnds, Fits, dataVars
<1> QED  BY <1>1, <1>2, <1>3, <1>4, <1>5, <1>6, <1>7

(* So do a paste and the monitor's looking at what the DLL offers.         *)
LEMMA PasteTypes ==
  ASSUME TypeInv, NEW o \in Offers, GetData(o), MonTypes'
  PROVE  TypeInv'
<1> USE DEF TypeInv
<1>1. ObjectTypes' /\ EnvTypes' /\ thread' \in [Offers -> ThreadStates]
  BY GetDataTypes, KeptTypes DEF GetData, ObjectTypes, EnvTypes
<1>2. TypeOK'
  BY <1>1, KeptTypes, AllTypes DEF GetData
<1>3. Room'
  BY GetDataRoom DEF GetData, barVars
<1> QED  BY <1>2, <1>3 DEF GetData, Fits, dataVars

(* So do the offers, the user's copies and the monitor.                    *)
LEMMA UserTypes ==
  ASSUME TypeInv, Offer \/ UserCopies \/ MonitorStarts \/ MonitorTests \/ MonitorLooks \/ MonitorMisses
  PROVE  TypeInv'
<1> USE DEF TypeInv
<1>1. CASE Offer
  <2>1. /\ left.offers \in Offers
        /\ left' \in [offers : {0} \cup Offers, pastes : {0} \cup Pastes, copies : Nat, drops : {0, 1}]
        /\ left'.pastes = left.pastes
    <3>1. left.offers \in Offers /\ left.offers - 1 \in {0} \cup Offers
      BY <1>1, Numbers DEF Offer, TypeOK
    <3> QED  BY <1>1, <3>1 DEF Offer, TypeOK
  <2>2. EnvTypes'
    BY <1>1, <2>1, KeptTypes DEF Offer, EnvTypes, Busy
  <2>3. GoTypes'
    BY <1>1, KeptTypes DEF Offer, GoTypes
  <2>4. thread' \in [Offers -> ThreadStates]
    BY <1>1, <2>1, AtTypes DEF Offer, ThreadStates
  <2>5. TypeOK'
    BY <1>1, <2>2, <2>3, <2>4, KeptTypes, AllTypes DEF Offer
  <2>6. Unmade \subseteq Unmade'
    BY <1>1 DEF Offer, Unmade, barVars
  <2>7. Creators' \subseteq Creators
    BY <1>1, <2>1 DEF Offer, At, Creators, objects, TypeOK
  <2>8. Room'
    BY <2>1, <2>6, <2>7, SameRoom
  <2> QED  BY <1>1, <2>5, <2>8 DEF Offer, Fits, dataVars
<1>2. CASE UserCopies
  <2>1. left.copies \in Nat /\ left.copies - 1 \in Nat
    BY <1>2 DEF UserCopies, TypeOK
  <2>2. EnvTypes' /\ left'.pastes = left.pastes
    BY <1>2, <2>1, KeptTypes DEF UserCopies, EnvTypes
  <2>3. ClipTypes'
    <3>1. Changed([by |-> "user", n |-> left.copies])
      BY <1>2 DEF UserCopies
    <3>2. /\ clip' \in [by : {"nobody", "user", "dll"}, n : Nat]
          /\ updates' \in Nat
      BY <2>1, <3>1, ChangedTypes
    <3> QED  BY <1>2, <2>1, <3>2, KeptTypes DEF UserCopies, ClipTypes
  <2>4. TypeOK'
    BY <1>2, <2>2, <2>3, KeptTypes, AllTypes DEF UserCopies
  <2>5. Room'
    BY <1>2, <2>2, QuietRoom DEF UserCopies, objects, barVars
  <2> QED  BY <1>2, <2>4, <2>5 DEF UserCopies, Fits, dataVars
<1>3. CASE MonitorStarts
  <2>1. MonTypes'
    BY <1>3, KeptTypes DEF MonitorStarts, MonTypes
  <2>2. TypeOK'
    BY <1>3, <2>1, KeptTypes, AllTypes DEF MonitorStarts
  <2>3. Room'
    BY <1>3, QuietRoom DEF MonitorStarts, objects, barVars, envVars
  <2> QED  BY <1>3, <2>2, <2>3 DEF MonitorStarts, Fits, dataVars
<1>4. CASE MonitorTests
  <2>1. MonTypes' /\ ClipTypes'
    BY <1>4, KeptTypes DEF MonitorTests, MonTypes, ClipTypes
  <2>2. TypeOK'
    BY <1>4, <2>1, KeptTypes, AllTypes DEF MonitorTests
  <2>3. Room'
    BY <1>4, QuietRoom DEF MonitorTests, objects, barVars, envVars
  <2> QED  BY <1>4, <2>2, <2>3 DEF MonitorTests, Fits, dataVars
<1>5. CASE MonitorLooks
  <2>1. MonTypes'
    BY <1>5, KeptTypes DEF MonitorLooks, MonTypes, ClipTypes
  <2>2. CASE UNCHANGED <<thread, objects, barVars, dataVars, goVars, envVars>>
    <3>1. TypeOK'
      BY <1>5, <2>1, <2>2, KeptTypes, AllTypes DEF MonitorLooks
    <3>2. Room'
      BY <2>2, QuietRoom DEF objects, barVars, envVars
    <3> QED  BY <2>2, <3>1, <3>2 DEF Fits, dataVars
  <2>3. CASE \E o \in Offers : GetData(o)
    BY <2>1, <2>3, PasteTypes
  <2> QED  BY <1>5, <2>2, <2>3 DEF MonitorLooks
<1>6. CASE MonitorMisses
  <2>1. MonTypes' /\ ClipTypes'
    BY <1>6, KeptTypes DEF MonitorMisses, MonTypes, ClipTypes
  <2>2. TypeOK'
    BY <1>6, <2>1, KeptTypes, AllTypes DEF MonitorMisses
  <2>3. Room'
    BY <1>6, QuietRoom DEF MonitorMisses, objects, barVars, envVars
  <2> QED  BY <1>6, <2>2, <2>3 DEF MonitorMisses, Fits, dataVars
<1> QED  BY <1>1, <1>2, <1>3, <1>4, <1>5, <1>6

(* A state in which nothing changes keeps them.                            *)
LEMMA StutterTypes ==
  ASSUME TypeInv, UNCHANGED vars
  PROVE  TypeInv'
<1> USE DEF TypeInv
<1>1. /\ UNCHANGED <<objects, clipVars, monVars, barVars, dataVars, goVars, envVars>>
      /\ thread' = thread /\ crashed' = crashed
  BY DEF vars, objects, clipVars, monVars, barVars, dataVars, goVars, envVars
<1>2. TypeOK'
  BY <1>1, KeptTypes, AllTypes
<1>3. Room'
  BY <1>1, QuietRoom DEF objects, barVars, envVars
<1> QED  BY <1>1, <1>2, <1>3 DEF Fits, dataVars

(* The types hold at first: every paste of the budget has its window.      *)
LEMMA InitTypes ==
  ASSUME Init
  PROVE  TypeInv
<1> USE DEF Init
<1>1. left \in [offers : {0} \cup Offers, pastes : {0} \cup Pastes, copies : Nat, drops : {0, 1}]
  <2>1. 0..Cardinality(Offers) = {0} \cup Offers /\ 0..Cardinality(Pastes) = {0} \cup Pastes
    BY Numbers
  <2> QED  BY <2>1, BoundsAssumption
<1>2. TypeOK
  <2>1. ObjectTypes
    BY DEF ObjectTypes
  <2>2. ClipTypes
    BY DEF ClipTypes, Empty
  <2>3. BarTypes
    BY DEF BarTypes, WindowStates
  <2>4. DataTypes
    BY Numbers, EmptySeq DEF DataTypes
  <2>5. GoTypes
    BY IdleType DEF GoTypes
  <2>6. thread \in [Offers -> ThreadStates]
    BY DEF ThreadStates
  <2> QED  BY <1>1, <2>1, <2>2, <2>3, <2>4, <2>5, <2>6
           DEF TypeOK, ObjectTypes, ClipTypes, BarTypes, DataTypes, GoTypes
<1>3. Room
  <2>1. Unmade = Pastes /\ Creators = {}
    BY Numbers DEF Unmade, Creators
  <2>2. Cardinality(Creators) = 0 /\ Cardinality(Unmade) = Cardinality(Pastes)
    BY <2>1, FS_EmptySet
  <2>3. left.pastes \in Nat /\ left.pastes <= Cardinality(Pastes)
    BY BoundsAssumption, Numbers
  <2> QED  BY <2>2, <2>3, Numbers DEF Room
<1>4. Fits
  BY Numbers DEF Fits
<1> QED  BY <1>2, <1>3, <1>4 DEF TypeInv

(* The DLL's state keeps its types: a paste always finds a window of its   *)
(* own to make, and no download writes more than its parts.                *)
THEOREM DllTypeInvariant == Spec => []TypeInv
<1>1. TypeInv /\ [Next]_vars => TypeInv'
  <2> SUFFICES ASSUME TypeInv, [Next]_vars PROVE TypeInv'
    OBVIOUS
  <2>1. ASSUME NEW o \in Offers, UserPastes(o) PROVE TypeInv'
    <3>1. MonTypes'
      BY <2>1, KeptTypes DEF UserPastes, TypeInv
    <3> QED  BY <2>1, <3>1, PasteTypes DEF UserPastes
  <2> QED  BY <2>1, ThreadTypes, WindowTypes, GoTypesKept, UserTypes, StutterTypes DEF Next
<1> QED  BY <1>1, InitTypes, PTL DEF Spec

(* The model's variables have their types.                                 *)
THEOREM DllTypeCorrect == Spec => []TypeOK
  BY DllTypeInvariant, PTL DEF TypeInv

-----------------------------------------------------------------------------
(* Windows and their owners *)

OwnersInv == Freed /\ WindowsHaveOwners

(* A thread that moves leaves the owners alone; it does not come to make a *)
(* window while it still has one.                                          *)
LEMMA OwnersMove ==
  ASSUME TypeOK, OwnersInv, NEW o \in Offers, NEW to, bar' = bar, window' = window,
         thread' = [thread EXCEPT ![o] = to], to \in Windowless => bar[o] = 0
  PROVE  OwnersInv'
<1>1. \A p \in Offers : thread'[p] = IF p = o THEN to ELSE thread[p]
  BY DEF TypeOK
<1> QED  BY <1>1 DEF OwnersInv, Freed, WindowsHaveOwners

(* Nor does what neither opens a paste's window nor concerns the threads.  *)
LEMMA OwnersQuiet ==
  ASSUME OwnersInv, bar' = bar, thread' = thread,
         \A t \in Pastes : window'[t] = window[t] \/ window[t] \in {"starting", "open", "warning"}
  PROVE  OwnersInv'
  BY DEF OwnersInv, Freed, WindowsHaveOwners

(* Nor does a paste.                                                       *)
LEMMA OwnersPaste ==
  ASSUME TypeOK, OwnersInv, NEW o \in Offers, GetData(o)
  PROVE  OwnersInv'
<1> DEFINE to == IF bar[o] # 0 THEN "join" ELSE "create"
<1>1. /\ bar' = bar /\ window' = window /\ thread' = [thread EXCEPT ![o] = to]
      /\ to \in Windowless => bar[o] = 0
  BY DEF GetData, Release, barVars, Windowless
<1> HIDE DEF to
<1> QED  BY <1>1, OwnersMove

(* A thread's own steps keep the owners: it joins a window's thread before *)
(* it lets the window go.                                                  *)
LEMMA OwnersThread ==
  ASSUME TypeInv, OwnersInv, NEW o \in Offers, ApartmentStep(o) \/ LoopEnds(o)
  PROVE  OwnersInv'
<1> USE DEF TypeInv
<1>1. CASE Join(o)
  <2>1. /\ \A p \in Offers : bar'[p] = IF p = o THEN 0 ELSE bar[p]
        /\ \A p \in Offers : thread'[p] = IF p = o THEN then[o] ELSE thread[p]
        /\ window' = window /\ window[bar[o]] \in {"closed", "failed"}
    BY <1>1 DEF Join, At, TypeOK, barVars
  <2>2. Freed'
    BY <2>1 DEF OwnersInv, Freed
  <2>3. WindowsHaveOwners'
    BY <2>1 DEF OwnersInv, WindowsHaveOwners
  <2> QED  BY <2>2, <2>3 DEF OwnersInv
<1>2. CASE Create(o)
  <2>1. PICK t \in Pastes :
          /\ window[t] = "none" /\ bar' = [bar EXCEPT ![o] = t]
          /\ window' = [window EXCEPT ![t] = "starting"]
    BY <1>2, CreateFinds
  <2>2. /\ \A p \in Offers : bar'[p] = IF p = o THEN t ELSE bar[p]
        /\ \A p \in Offers : thread'[p] = IF p = o THEN "setup" ELSE thread[p]
        /\ \A u \in Pastes : window'[u] = IF u = t THEN "starting" ELSE window[u]
        /\ thread[o] = "create"
    <3>1. thread[o] = "create" /\ thread' = [thread EXCEPT ![o] = "setup"]
      BY <1>2 DEF Create, At
    <3> QED  BY <2>1, <3>1, Numbers DEF TypeOK
  <2>3. bar[o] = 0
    BY <2>2 DEF OwnersInv, Freed, Windowless
  <2>4. Freed'
    BY <2>2 DEF OwnersInv, Freed, Windowless
  <2>5. WindowsHaveOwners'
    BY <2>2, <2>3, Numbers DEF OwnersInv, WindowsHaveOwners
  <2> QED  BY <2>4, <2>5 DEF OwnersInv
<1>3. CASE ReadEnds(o)
  <2> DEFINE to == IF bar[o] # 0 THEN "join" ELSE "loop"
  <2>1. bar' = bar /\ window' = window /\ thread' = [thread EXCEPT ![o] = to]
        /\ to \notin Windowless
    BY <1>3 DEF ReadEnds, Release, barVars, Windowless
  <2> HIDE DEF to
  <2> QED  BY <2>1, OwnersMove
<1>4. CASE \E to \in ThreadStates :
             /\ thread' = [thread EXCEPT ![o] = to] /\ bar' = bar /\ window' = window
             /\ to \in Windowless => thread[o] \in Windowless
  BY <1>4, OwnersMove DEF OwnersInv, Freed
<1>5. \/ Replace(o) \/ Mark(o) \/ Publish(o) \/ Unmark(o) \/ WaitSetupReady(o) \/ StartDownload(o)
      \/ ImageEnds(o) \/ ReadBegins(o) \/ ReadReturns(o) \/ LoopEnds(o) \/ OfferFails(o)
      => \E to \in ThreadStates :
           /\ thread' = [thread EXCEPT ![o] = to] /\ bar' = bar /\ window' = window
           /\ to \in Windowless => thread[o] \in Windowless
  BY DEF Replace, Mark, Publish, Unmark, WaitSetupReady, StartDownload, ImageEnds, ReadBegins,
         ReadReturns, LoopEnds, OfferFails, At, objects, barVars, ThreadStates, Windowless
<1>6. CASE DeleteOld(o)
  <2> DEFINE to == IF bar[impl] # 0 THEN "join" ELSE "replace"
  <2>1. impl \in Offers /\ impl # o /\ thread[o] = "replace"
    BY <1>6 DEF DeleteOld, TypeOK
  <2>2. /\ \A p \in Offers : bar'[p] = IF p = o THEN bar[impl] ELSE IF p = impl THEN 0 ELSE bar[p]
        /\ \A p \in Offers : thread'[p] = IF p = o THEN to ELSE thread[p]
        /\ window' = window
    BY <1>6, <2>1 DEF DeleteOld, TypeOK, barVars
  <2>3. bar[o] = 0
    BY <2>1 DEF OwnersInv, Freed, Windowless
  <2>4. Freed'
    BY <2>1, <2>2 DEF OwnersInv, Freed, Windowless
  <2>5. ASSUME NEW t \in Pastes, window'[t] \in {"starting", "open", "warning"}
        PROVE  \E p \in Offers : bar'[p] = t
    <3>1. PICK p \in Offers : bar[p] = t
      BY <2>2, <2>5 DEF OwnersInv, WindowsHaveOwners
    <3>2. p # o
      BY <2>3, <3>1, Numbers
    <3>3. CASE p = impl
      BY <2>2, <3>1, <3>3
    <3>4. CASE p # impl
      BY <2>2, <3>1, <3>2, <3>4
    <3> QED  BY <3>3, <3>4
  <2> QED  BY <2>4, <2>5 DEF OwnersInv, WindowsHaveOwners
<1> QED  BY <1>1, <1>2, <1>3, <1>4, <1>5, <1>6 DEF ApartmentStep

(* Every step keeps the owners.                                            *)
LEMMA OwnersStep ==
  ASSUME TypeInv, OwnersInv, [Next]_vars
  PROVE  OwnersInv'
<1> USE DEF TypeInv
<1>1. ASSUME NEW o \in Offers, GetData(o) PROVE OwnersInv'
  BY <1>1, OwnersPaste
<1>2. CASE \E b \in Bars : WindowStep(b) \/ UserConfirms(b)
  <2>1. PICK b \in Bars : WindowStep(b) \/ UserConfirms(b)
    BY <1>2
  <2>2. bar' = bar /\ thread' = thread /\ window[b] \in {"starting", "open", "warning"}
    BY <2>1 DEF WindowStep, WindowMade, WindowCloses, WindowWarns, UserConfirms, objects
  <2>3. \A t \in Pastes : t # b => window'[t] = window[t]
    BY <2>1, Numbers DEF WindowStep, WindowMade, WindowCloses, WindowWarns, UserConfirms, TypeOK
  <2> QED  BY <2>2, <2>3, OwnersQuiet
<1>3. CASE DropBarMade
  <2>1. \A t \in Pastes : window'[t] = window[t]
    BY <1>3, Numbers DEF DropBarMade, TypeOK
  <2> QED  BY <1>3, <2>1, OwnersQuiet DEF DropBarMade, objects
<1>4. CASE Offer
  <2>1. left.offers \in Offers
    BY <1>4, Numbers DEF Offer, TypeOK
  <2>2. bar[left.offers] = 0
    BY <1>4, <2>1 DEF Offer, At, OwnersInv, Freed, Windowless
  <2> QED  BY <1>4, <2>1, <2>2, OwnersMove DEF Offer, At, objects, barVars
<1>5. CASE bar' = bar /\ thread' = thread /\ window' = window
  BY <1>5, OwnersQuiet
<1>6. GoStarts \/ GoWrites \/ GoEnds \/ GoCancels \/ DropAccepted \/ DropBarEnds
      => bar' = bar /\ thread' = thread /\ window' = window
  BY DEF GoStarts, GoWrites, GoEnds, GoCancels, DropAccepted, DropBarEnds, objects, barVars
<1>7. UserCopies \/ MonitorStarts \/ MonitorTests \/ MonitorMisses
      => bar' = bar /\ thread' = thread /\ window' = window
  BY DEF UserCopies, MonitorStarts, MonitorTests, MonitorMisses, objects, barVars
<1>8. MonitorLooks => \/ bar' = bar /\ thread' = thread /\ window' = window
                      \/ \E o \in Offers : GetData(o)
  BY DEF MonitorLooks, objects, barVars
<1>9. UNCHANGED vars => bar' = bar /\ thread' = thread /\ window' = window
  BY DEF vars
<1>10. (\E o \in Offers : UserPastes(o)) => \E o \in Offers : GetData(o)
  BY DEF UserPastes
<1> QED  BY <1>1, <1>2, <1>3, <1>4, <1>5, <1>6, <1>7, <1>8, <1>9, <1>10, OwnersThread DEF Next

(* No window of a paste outlives the MSProgressBar its thread uses: a      *)
(* paste or the end of a stream joins the thread before it deletes the     *)
(* object, and a new window is made only by a thread that has none.        *)
THEOREM WindowsHaveOwnersHolds == Spec => []WindowsHaveOwners
<1>1. Init => OwnersInv
  BY Numbers DEF Init, OwnersInv, Freed, WindowsHaveOwners
<1>2. TypeInv /\ OwnersInv /\ [Next]_vars => OwnersInv'
  BY OwnersStep
<1> QED  BY <1>1, <1>2, DllTypeInvariant, PTL DEF Spec, OwnersInv

-----------------------------------------------------------------------------
(* Local copies *)

(* The flag is up while an offer is published; what the user copied under  *)
(* it met that offer; any other copy is reported, or is looked at, or has  *)
(* a message on its way to a monitor that will take it.                    *)
FlagRaised == isOle => \E o \in Offers : thread[o] \in {"publish", "unmark"}
FlagExposes == isOle /\ clip.by = "user" => clip.n \in exposed
CopySeen ==
  clip.by = "user" =>
    \/ clip.n \in reported \cup exposed
    \/ monitor = "look"
    \/ monitor \in {"idle", "fetch"} /\ updates > 0
Seen == FlagRaised /\ FlagExposes /\ CopySeen

(* A thread that is not about to lower the flag may move.                  *)
LEMMA SeenMove ==
  ASSUME TypeOK, Seen, NEW o \in Offers, NEW to, thread' = [thread EXCEPT ![o] = to],
         thread[o] \notin {"publish", "unmark"}, UNCHANGED clipVars,
         \/ UNCHANGED monVars
         \/ monitor = "fetch" /\ monitor' = "idle" /\ reported \subseteq reported'
         \/ clip.by # "user"
  PROVE  Seen'
<1>1. \A p \in Offers : thread'[p] = IF p = o THEN to ELSE thread[p]
  BY DEF TypeOK
<1>2. FlagRaised'
  BY <1>1 DEF Seen, FlagRaised, clipVars
<1>3. FlagExposes'
  BY DEF Seen, FlagExposes, clipVars
<1>4. CopySeen'
  BY DEF Seen, CopySeen, clipVars, monVars
<1> QED  BY <1>2, <1>3, <1>4 DEF Seen

(* The publication of an offer keeps the copies in sight.                  *)
LEMMA SeenThread ==
  ASSUME TypeOK, Seen, NEW o \in Offers, ApartmentStep(o) \/ LoopEnds(o)
  PROVE  Seen'
<1>1. CASE Mark(o)
  <2>1. \A p \in Offers : thread'[p] = IF p = o THEN "publish" ELSE thread[p]
    BY <1>1 DEF Mark, At, TypeOK
  <2> QED  BY <1>1, <2>1 DEF Mark, Seen, FlagRaised, FlagExposes, CopySeen, monVars
<1>2. CASE Publish(o)
  <2>1. \A p \in Offers : thread'[p] = IF p = o THEN "unmark" ELSE thread[p]
    BY <1>2 DEF Publish, At, TypeOK
  <2>2. clip'.by # "user" \/ UNCHANGED <<clip, updates>>
    BY <1>2 DEF Publish, Changed
  <2> QED  BY <1>2, <2>1, <2>2 DEF Publish, Seen, FlagRaised, FlagExposes, CopySeen, monVars
<1>3. CASE Unmark(o)
  BY <1>3 DEF Unmark, Seen, FlagRaised, FlagExposes, CopySeen, monVars
<1>4. CASE ImageEnds(o)
  <2>1. /\ thread[o] = "image" /\ thread' = [thread EXCEPT ![o] = "loop"] /\ UNCHANGED clipVars
        /\ UNCHANGED monVars \/ (monitor = "fetch" /\ monitor' = "idle" /\ reported \subseteq reported')
    BY <1>4 DEF ImageEnds, At, monVars
  <2> QED  BY <2>1, SeenMove
<1>5. CASE /\ UNCHANGED clipVars /\ UNCHANGED monVars /\ thread[o] \notin {"publish", "unmark"}
           /\ \E to : thread' = [thread EXCEPT ![o] = to]
  BY <1>5, SeenMove
<1>6. \/ Replace(o) \/ DeleteOld(o) \/ OfferFails(o) \/ Join(o) \/ Create(o)
      \/ WaitSetupReady(o) \/ StartDownload(o)
      \/ ReadBegins(o) \/ ReadReturns(o) \/ ReadEnds(o) \/ LoopEnds(o)
      => /\ UNCHANGED clipVars /\ UNCHANGED monVars /\ thread[o] \notin {"publish", "unmark"}
         /\ \E to : thread' = [thread EXCEPT ![o] = to]
  BY DEF Replace, DeleteOld, OfferFails, Join, Create, WaitSetupReady, StartDownload, ReadBegins,
         ReadReturns, ReadEnds, LoopEnds, At, Release
<1> QED  BY <1>1, <1>2, <1>3, <1>4, <1>5, <1>6 DEF ApartmentStep

(* So does a paste, whoever asks for it.                                   *)
LEMMA SeenPaste ==
  ASSUME TypeOK, Seen, NEW o \in Offers, GetData(o)
  PROVE  Seen'
<1>1. /\ thread[o] = "loop" /\ clip.by # "user" /\ UNCHANGED clipVars
      /\ \E to : thread' = [thread EXCEPT ![o] = to]
  BY DEF GetData, Release
<1> QED  BY <1>1, SeenMove

(* Every step keeps the copies in sight.                                   *)
LEMMA SeenStep ==
  ASSUME TypeOK, Seen, [Next]_vars
  PROVE  Seen'
<1>1. ASSUME NEW o \in Offers, GetData(o) PROVE Seen'
  BY <1>1, SeenPaste
<1>2. CASE Offer
  <2>1. left.offers \in Offers
    BY <1>2, Numbers DEF Offer, TypeOK
  <2> QED  BY <1>2, <2>1, SeenMove DEF Offer, At
<1>3. CASE UserCopies
  <2>1. clip'.n = left.copies /\ clip'.by = "user" /\ thread' = thread /\ isOle' = isOle
    BY <1>3 DEF UserCopies, Changed
  <2>2. FlagRaised'
    BY <2>1 DEF Seen, FlagRaised
  <2>3. FlagExposes'
    BY <1>3, <2>1 DEF UserCopies, Seen, FlagRaised, FlagExposes
  <2>4. CopySeen'
    <3>1. CASE monitor \in {"off", "dead"}
      BY <1>3, <2>1, <3>1 DEF UserCopies, CopySeen
    <3>2. CASE monitor \in {"idle", "look", "fetch"}
      BY <1>3, <3>2 DEF UserCopies, Changed, CopySeen, monVars, TypeOK
    <3> QED  BY <3>1, <3>2 DEF TypeOK
  <2> QED  BY <2>2, <2>3, <2>4 DEF Seen
<1>4. CASE MonitorStarts
  BY <1>4 DEF MonitorStarts, Seen, FlagRaised, FlagExposes, CopySeen, clipVars
<1>5. CASE MonitorTests
  BY <1>5 DEF MonitorTests, Seen, FlagRaised, FlagExposes, CopySeen
<1>6. CASE MonitorLooks
  <2>1. CASE \E o \in Offers : GetData(o)
    BY <1>1, <2>1
  <2>2. CASE /\ reported' = IF clip.by = "user" THEN reported \cup {clip.n} ELSE reported
             /\ monitor' = "idle" /\ thread' = thread /\ UNCHANGED clipVars
    BY <2>2 DEF Seen, FlagRaised, FlagExposes, CopySeen, clipVars
  <2> QED  BY <1>6, <2>1, <2>2 DEF MonitorLooks
<1>12. CASE MonitorMisses
  BY <1>12 DEF MonitorMisses, Seen, FlagRaised, FlagExposes, CopySeen
<1>7. CASE thread' = thread /\ UNCHANGED clipVars /\ UNCHANGED monVars
  BY <1>7 DEF Seen, FlagRaised, FlagExposes, CopySeen, clipVars, monVars
<1>8. GoStarts \/ GoWrites \/ GoEnds \/ GoCancels \/ DropAccepted \/ DropBarMade \/ DropBarEnds
      => thread' = thread /\ UNCHANGED clipVars /\ UNCHANGED monVars
  BY DEF GoStarts, GoWrites, GoEnds, GoCancels, DropAccepted, DropBarMade, DropBarEnds
<1>9. (\E b \in Bars : WindowStep(b) \/ UserConfirms(b))
      => thread' = thread /\ UNCHANGED clipVars /\ UNCHANGED monVars
  BY DEF WindowStep, WindowMade, WindowCloses, WindowWarns, UserConfirms
<1>10. UNCHANGED vars => thread' = thread /\ UNCHANGED clipVars /\ UNCHANGED monVars
  BY DEF vars, clipVars, monVars
<1>11. (\E o \in Offers : UserPastes(o)) => \E o \in Offers : GetData(o)
  BY DEF UserPastes
<1> QED  BY <1>1, <1>2, <1>3, <1>4, <1>5, <1>6, <1>7, <1>8, <1>9, <1>10, <1>11, <1>12, SeenThread DEF Next

(* A monitor that has nothing left to look at has reported what the user   *)
(* copied last, unless an offer was published around that copy or the      *)
(* system did not let the monitor have it.                                 *)
THEOREM LocalCopyReportedHolds == Spec => []LocalCopyReported
<1>1. Init => Seen
  BY DEF Init, Empty, Seen, FlagRaised, FlagExposes, CopySeen
<1>2. TypeOK /\ Seen /\ [Next]_vars => Seen'
  BY SeenStep
<1>3. Seen => LocalCopyReported
  BY DEF Seen, CopySeen, LocalCopyReported
<1> QED  BY <1>1, <1>2, <1>3, DllTypeCorrect, PTL DEF Spec

-----------------------------------------------------------------------------
(* Events of the source *)

(* While nothing has been crossed, an offer on its way is the only thing   *)
(* that goes on.                                                           *)
Still == {"none", "loop", "gone", "failed"}
OnItsWay(o) ==
  \/ thread[o] \in {"replace", "mark", "publish", "unmark"}
  \/ thread[o] = "join" /\ then[o] = "replace"
Alone(o) ==
  /\ go.pc = "idle"
  /\ \A p \in Offers \ {o} : thread[p] \in Still
  /\ \A p \in Offers : kind[p] = "file" => cur[p] = 0
Calm ==
  /\ ~crossed => \A o \in Offers : OnItsWay(o) => Alone(o)
  /\ CalmNeverCrashes

(* What is not idle finds no offer on its way.                             *)
LEMMA NoneOnItsWay ==
  ASSUME Calm, ~crossed,
         \/ go.pc # "idle"
         \/ \E p \in Offers : ~OnItsWay(p) /\ thread[p] \notin Still
         \/ \E p \in Offers : kind[p] = "file" /\ cur[p] # 0
  PROVE  \A o \in Offers : ~OnItsWay(o)
  BY DEF Calm, Alone, OnItsWay, Still

(* The program goes on only as long as it has not crashed.                 *)
LEMMA NotCrashed ==
  ASSUME Calm, ~crashed, crashed' = crashed
  PROVE  CalmNeverCrashes'
  BY DEF CalmNeverCrashes

(* A thread that moves on, with what has become current by it.             *)
LEMMA CalmThread ==
  ASSUME TypeInv, Calm, ~crashed, NEW o \in Offers, ApartmentStep(o) \/ LoopEnds(o)
  PROVE  Calm'
<1> USE DEF TypeInv
<1>1. crossed' = crossed /\ crashed' = crashed
  BY DEF ApartmentStep, Replace, DeleteOld, OfferFails, Mark, Publish, Unmark, Join, Create,
         WaitSetupReady, StartDownload, ImageEnds, ReadBegins, ReadReturns, ReadEnds, LoopEnds, envVars
<1>a. CalmNeverCrashes'
  BY <1>1, NotCrashed
<1>2. CASE crossed
  BY <1>1, <1>2, <1>a DEF Calm
<1>3. CASE /\ ~crossed
           /\ \A p \in Offers \ {o} : thread'[p] = thread[p] /\ then'[p] = then[p]
           /\ OnItsWay(o) \/ (thread[o] \in Still /\ thread'[o] \in Still)
           /\ OnItsWay(o) => OnItsWay(o)' \/ thread'[o] \in Still
           /\ go' = go /\ kind' = kind /\ \A p \in Offers : cur'[p] \in {cur[p], 0}
  <2>2. ASSUME NEW p \in Offers, OnItsWay(p)' PROVE Alone(p)'
    <3>1. OnItsWay(p)
      BY <1>3, <2>2 DEF OnItsWay, Still
    <3>2. Alone(p)
      BY <1>3, <3>1 DEF Calm
    <3>3. ASSUME NEW q \in Offers \ {p} PROVE thread'[q] \in Still
      <4>1. thread[q] \in Still
        BY <3>2 DEF Alone
      <4>2. CASE q = o
        BY <1>3, <4>1, <4>2 DEF OnItsWay, Still
      <4>3. CASE q # o
        BY <1>3, <4>1, <4>3
      <4> QED  BY <4>2, <4>3
    <3> QED  BY <1>3, <3>2, <3>3 DEF Alone
  <2> QED  BY <1>1, <1>a, <2>2 DEF Calm
<1>4. CASE /\ ~crossed
           /\ \/ ~OnItsWay(o) /\ thread[o] \notin Still
              \/ kind[o] = "file" /\ cur[o] # 0
           /\ \A p \in Offers \ {o} : thread'[p] = thread[p] /\ then'[p] = then[p]
           /\ ~OnItsWay(o)'
  <2>1. \A p \in Offers : ~OnItsWay(p)
    BY <1>4, NoneOnItsWay
  <2>2. \A p \in Offers : ~OnItsWay(p)'
    BY <1>4, <2>1 DEF OnItsWay
  <2> QED  BY <1>1, <1>a, <2>2 DEF Calm
<1>b. /\ \A p \in Offers \ {o} : thread'[p] = thread[p] /\ then'[p] = then[p]
      /\ thread[o] \in ThreadStates /\ then[o] \in {"loop", "create", "replace"}
  BY DEF ApartmentStep, Replace, DeleteOld, OfferFails, Mark, Publish, Unmark, Join, Create,
         WaitSetupReady, StartDownload, ImageEnds, ReadBegins, ReadReturns, ReadEnds, LoopEnds,
         At, Release, objects, TypeOK
<1>5. CASE Replace(o) \/ OfferFails(o) \/ Mark(o) \/ Publish(o) \/ Unmark(o) \/ LoopEnds(o)
  <2>1. /\ \/ thread[o] \in {"replace", "mark", "publish", "unmark"}
              /\ thread'[o] \in {"mark", "publish", "unmark", "loop", "failed"}
           \/ thread[o] = "loop" /\ thread'[o] = "gone"
        /\ UNCHANGED <<kind, cur, go>>
    BY <1>5 DEF Replace, OfferFails, Mark, Publish, Unmark, LoopEnds, At, objects, goVars, TypeOK
  <2> QED  BY <1>2, <1>3, <1>b, <2>1 DEF OnItsWay, Still
<1>6. CASE DeleteOld(o)
  <2>1. /\ thread[o] = "replace" /\ thread'[o] \in {"join", "replace"} /\ then'[o] = "replace"
        /\ kind' = kind /\ go' = go /\ \A p \in Offers : cur'[p] \in {cur[p], 0}
    BY <1>6 DEF DeleteOld, goVars, TypeOK
  <2> QED  BY <1>2, <1>3, <1>b, <2>1 DEF OnItsWay, Still
<1>7. CASE Join(o) /\ then[o] = "replace"
  <2>1. thread[o] = "join" /\ thread'[o] = "replace" /\ UNCHANGED <<kind, cur, go>>
    BY <1>7 DEF Join, At, goVars, TypeOK
  <2> QED  BY <1>2, <1>3, <1>7, <1>b, <2>1 DEF OnItsWay, Still
<1>8. CASE Join(o) /\ then[o] # "replace"
  <2>1. thread[o] = "join" /\ thread'[o] = then[o]
    BY <1>8 DEF Join, At, TypeOK
  <2> QED  BY <1>2, <1>4, <1>8, <1>b, <2>1 DEF OnItsWay, Still
<1>9. CASE ReadEnds(o)
  <2>1. /\ thread[o] = "read" \/ (kind[o] = "file" /\ cur[o] # 0)
        /\ thread'[o] \in {"join", "loop"} /\ then'[o] = "loop"
    BY <1>9 DEF ReadEnds, Release, TypeOK
  <2> QED  BY <1>2, <1>4, <1>b, <2>1 DEF OnItsWay, Still
<1>10. CASE Create(o) \/ WaitSetupReady(o) \/ StartDownload(o) \/ ImageEnds(o) \/ ReadBegins(o)
            \/ ReadReturns(o)
  <2>1. /\ \/ thread[o] \in {"create", "setup", "start", "image", "read"}
           \/ kind[o] = "file" /\ cur[o] # 0
        /\ thread'[o] \in {"setup", "start", "loop", "image", "read"}
    BY <1>10 DEF Create, WaitSetupReady, StartDownload, ImageEnds, ReadBegins, ReadReturns, At, TypeOK
  <2> QED  BY <1>2, <1>4, <1>b, <2>1 DEF OnItsWay, Still
<1> QED  BY <1>5, <1>6, <1>7, <1>8, <1>9, <1>10 DEF ApartmentStep

(* A paste in the way of an offer is noted.                                *)
LEMMA CalmPaste ==
  ASSUME TypeInv, Calm, ~crashed, NEW o \in Offers, GetData(o), crashed' = crashed
  PROVE  Calm'
<1> USE DEF TypeInv
<1>1. crossed' = (crossed \/ Busy \/ ~source \/ impl # o) /\ CalmNeverCrashes'
  BY NotCrashed DEF GetData
<1>2. CASE crossed'
  BY <1>1, <1>2 DEF Calm
<1>3. CASE ~crossed'
  <2>1. \A p \in Offers : ~OnItsWay(p)
    BY <1>1, <1>3 DEF Busy, OnItsWay
  <2>2. then' = [then EXCEPT ![o] = "create"] /\ \E to \in {"join", "create"} : thread' = [thread EXCEPT ![o] = to]
    BY DEF GetData, Release
  <2>3. \A p \in Offers : ~OnItsWay(p)'
    BY <2>1, <2>2 DEF TypeOK, OnItsWay
  <2> QED  BY <1>1, <1>3, <2>3 DEF Calm
<1> QED  BY <1>2, <1>3

(* So is an offer or a drop in the way of something else.                  *)
LEMMA CalmBegins ==
  ASSUME TypeInv, Calm, ~crashed, Offer \/ DropAccepted
  PROVE  Calm'
<1> USE DEF TypeInv
<1>1. crossed' = (crossed \/ Busy) /\ CalmNeverCrashes'
  BY NotCrashed DEF Offer, DropAccepted
<1>2. CASE crossed'
  BY <1>1, <1>2 DEF Calm
<1>3. CASE ~crossed'
  <2>1. /\ go.pc = "idle" /\ \A p \in Offers : thread[p] \in Still
        /\ \A p \in Offers : kind[p] = "file" => cur[p] = 0
    BY <1>1, <1>3 DEF Busy, Still
  <2>2. CASE Offer
    <3>1. PICK o \in Offers : o = left.offers
      BY <2>2, Numbers DEF Offer, TypeOK
    <3>2. \A p \in Offers : thread'[p] = IF p = o THEN "replace" ELSE thread[p]
      BY <2>2, <3>1 DEF Offer, At, TypeOK
    <3>3. \A p \in Offers : OnItsWay(p)' => p = o
      BY <2>1, <3>2 DEF OnItsWay, Still
    <3>4. UNCHANGED <<kind, cur, go>>
      BY <2>2 DEF Offer, objects
    <3>5. Alone(o)'
      BY <2>1, <3>2, <3>4 DEF Alone
    <3> QED  BY <1>1, <1>3, <3>3, <3>5 DEF Calm
  <2>3. CASE DropAccepted
    <3>1. \A p \in Offers : ~OnItsWay(p)'
      BY <2>1, <2>3 DEF DropAccepted, OnItsWay, Still
    <3> QED  BY <1>1, <1>3, <3>1 DEF Calm
  <2> QED  BY <2>2, <2>3
<1> QED  BY <1>2, <1>3

(* An event finds no data object only while an offer is on its way, or     *)
(* after one that failed.                                                  *)
LEMMA CalmCancels ==
  ASSUME TypeInv, Calm, GoCancels
  PROVE  Calm'
<1> USE DEF TypeInv
<1>1. crossed' = crossed /\ thread' = thread /\ then' = then /\ impl' = impl /\ go.pc = "recv"
  BY DEF GoCancels, envVars, objects
<1>2. CASE crossed
  BY <1>1, <1>2 DEF Calm, CalmNeverCrashes
<1>3. CASE ~crossed
  <2>1. \A o \in Offers : ~OnItsWay(o)
    BY <1>1, <1>3, NoneOnItsWay
  <2>2. impl # 0 /\ DataObject = 0 => thread[impl] = "failed"
    BY <2>1 DEF DataObject, OnItsWay, TypeOK
  <2>3. crashed' => impl # 0 /\ thread[impl] = "failed"
    BY <2>2 DEF GoCancels
  <2>4. \A o \in Offers : ~OnItsWay(o)'
    BY <1>1, <2>1 DEF OnItsWay
  <2> QED  BY <1>1, <2>3, <2>4 DEF Calm, CalmNeverCrashes
<1> QED  BY <1>2, <1>3

(* Every step keeps the calm.                                              *)
LEMMA CalmKept ==
  ASSUME TypeInv, Calm, [Next]_vars
  PROVE  Calm'
<1>1. ASSUME NEW o \in Offers, ~crashed, GetData(o), crashed' = crashed PROVE Calm'
  BY <1>1, CalmPaste
<1>2. CASE UNCHANGED <<thread, then, impl, kind, cur, go, crossed, crashed>>
  BY <1>2 DEF Calm, Alone, OnItsWay, CalmNeverCrashes
<1>3. CASE GoStarts \/ GoWrites \/ GoEnds \/ DropBarEnds
  <2>1. UNCHANGED <<thread, then, impl, crossed, crashed>> /\ go.pc # "idle"
    BY <1>3 DEF GoStarts, GoWrites, GoEnds, DropBarEnds, envVars, objects
  <2>2. ~crossed => \A o \in Offers : ~OnItsWay(o)
    BY <2>1, NoneOnItsWay
  <2> QED  BY <2>1, <2>2 DEF Calm, OnItsWay, CalmNeverCrashes
<1>4. DropBarMade \/ UserCopies \/ MonitorStarts \/ MonitorTests \/ MonitorMisses
      => UNCHANGED <<thread, then, impl, kind, cur, go, crossed, crashed>>
  BY DEF DropBarMade, UserCopies, MonitorStarts, MonitorTests, MonitorMisses, objects, goVars, envVars
<1>5. (\E b \in Bars : WindowStep(b) \/ UserConfirms(b))
      => UNCHANGED <<thread, then, impl, kind, cur, go, crossed, crashed>>
  BY DEF WindowStep, WindowMade, WindowCloses, WindowWarns, UserConfirms, objects, goVars, envVars
<1>6. MonitorLooks => \/ UNCHANGED <<thread, then, impl, kind, cur, go, crossed, crashed>>
                      \/ \E o \in Offers : GetData(o) /\ crashed' = crashed
  BY DEF MonitorLooks, objects, goVars, envVars
<1>7. UNCHANGED vars => UNCHANGED <<thread, then, impl, kind, cur, go, crossed, crashed>>
  BY DEF vars
<1>8. (\E o \in Offers : UserPastes(o)) => \E o \in Offers : GetData(o) /\ crashed' = crashed
  BY DEF UserPastes, GetData
<1>9. Next => ~crashed
  BY DEF Next
<1> QED  BY <1>1, <1>2, <1>3, <1>4, <1>5, <1>6, <1>7, <1>8, <1>9, CalmThread, CalmBegins, CalmCancels
         DEF Next

(* MSPasteImpl uses mCurDataObject without a test when the source of a     *)
(* download fails: the pointer is not NULL as long as offers, pastes and   *)
(* drops do not get in each other's way and the last offer was set up.     *)
THEOREM CalmNeverCrashesHolds == Spec => []CalmNeverCrashes
<1>1. Init => Calm
  BY DEF Init, Calm, OnItsWay, CalmNeverCrashes
<1>2. TypeInv /\ Calm /\ [Next]_vars => Calm'
  BY CalmKept
<1>3. Calm => CalmNeverCrashes
  BY DEF Calm
<1> QED  BY <1>1, <1>2, <1>3, DllTypeInvariant, PTL DEF Spec
================================================================================
