--------------------------- MODULE ThreadPoolProofs ---------------------------
(***************************************************************************)
(* Proofs about ThreadPool, for any number of tasks, threads and           *)
(* processors: its types, the ownership of the tasks, the emptiness of a   *)
(* stopped deque; that it implements TaskLife; what the main thread finds  *)
(* after Join; and how many tasks start after a failure.                   *)
(***************************************************************************)
EXTENDS ThreadPool, SequenceTheorems, FiniteSetTheorems, TLAPS

(* A task that is still to be pushed is nowhere.  Without this, AddTask    *)
(* might push a task that has an owner already.                            *)
PushedInOrder ==
  \A t \in Tasks :
    t > made => /\ deleted[t] = 0
                /\ ~InDeque(t)
                /\ \A w \in Workers : task[w] # t

(* The threads Start has not created yet are idle: it resets none that is  *)
(* running.                                                                *)
NotYetSpawned ==
  /\ main = "make" => \A w \in Workers : wpc[w] = "none"
  /\ main = "spawn" => \A w \in Workers : w >= next => wpc[w] = "none"
  /\ main = "spawned" => \A w \in Workers : w > next => wpc[w] = "none"

Owners == TypeOK /\ TaskOwnership /\ PushedInOrder /\ NotYetSpawned

(* A thread that is about to stop the deque has seen it empty, and the     *)
(* deque is not stopped while MakeTask fills it.                           *)
StopSeesEmpty ==
  /\ \A w \in Workers : wpc[w] = "setstop" => deque = <<>>
  /\ main = "make" => dqRunning

PoolInv == Owners /\ StoppedIsEmpty /\ StopSeesEmpty

-----------------------------------------------------------------------------
(* Facts about the deque *)

(* What pop_front does to a deque that is not empty.                       *)
LEMMA PopFront ==
  ASSUME deque \in Seq(Tasks), deque # <<>>
  PROVE  /\ Head(deque) \in Tasks
         /\ Tail(deque) \in Seq(Tasks)
         /\ Len(deque) \in Nat \ {0}
         /\ Len(Tail(deque)) = Len(deque) - 1
         /\ Head(deque) = deque[1]
         /\ \A i \in 1..Len(Tail(deque)) : Tail(deque)[i] = deque[i + 1]
  BY HeadTailProperties, EmptySeq

(* In a deque of distinct tasks the popped one is not left behind, and no  *)
(* other is lost or moved in.                                              *)
LEMMA PopDistinct ==
  ASSUME deque \in Seq(Tasks), deque # <<>>, deque' = Tail(deque),
         \A i, j \in 1..Len(deque) : deque[i] = deque[j] => i = j
  PROVE  /\ \A i, j \in 1..Len(deque') : deque'[i] = deque'[j] => i = j
         /\ \A t \in Tasks : InDeque(t)' <=> InDeque(t) /\ t # Head(deque)
         /\ InDeque(Head(deque))
  <1>1. \A i, j \in 1..Len(deque') : deque'[i] = deque'[j] => i = j
    BY PopFront
  <1>2. InDeque(Head(deque))
    BY PopFront DEF InDeque
  <1>3. ASSUME NEW t \in Tasks, InDeque(t)'
        PROVE  InDeque(t) /\ t # Head(deque)
    <2>1. PICK i \in 1..Len(deque') : deque'[i] = t
      BY <1>3 DEF InDeque
    <2>2. i + 1 \in 1..Len(deque) /\ deque[i + 1] = t /\ 1 \in 1..Len(deque)
      BY <2>1, PopFront
    <2>3. i + 1 # 1
      BY <2>1, PopFront
    <2> QED
      BY <2>2, <2>3, PopFront DEF InDeque
  <1>4. ASSUME NEW t \in Tasks, InDeque(t), t # Head(deque)
        PROVE  InDeque(t)'
    <2>1. PICK i \in 1..Len(deque) : deque[i] = t
      BY <1>4 DEF InDeque
    <2>2. i - 1 \in 1..Len(deque') /\ deque'[i - 1] = t
      BY <1>4, <2>1, PopFront
    <2> QED
      BY <2>2 DEF InDeque
  <1> QED
    BY <1>1, <1>2, <1>3, <1>4

(* The conditional pop of the drain loops keeps the deque a deque.         *)
LEMMA DeleteHeadTypes ==
  ASSUME TypeOK, DeleteHead
  PROVE  deque' \in Seq(Tasks) /\ deleted' \in [Tasks -> Nat]
  <1>1. CASE CanPop
    BY <1>1, PopFront DEF TypeOK, DeleteHead, CanPop
  <1>2. CASE ~CanPop
    BY <1>2 DEF TypeOK, DeleteHead
  <1> QED
    BY <1>1, <1>2

-----------------------------------------------------------------------------
(* Types *)

(* The values the variables of the code range over: initially.             *)
LEMMA InitTypeOK == Init => TypeOK
  <1> SUFFICES ASSUME Init PROVE TypeOK
    OBVIOUS
  <1>1. deque \in Seq(Tasks)
    BY EmptySeq DEF Init
  <1>2. made \in 0..TaskNum
    BY TaskNumAssumption DEF Init
  <1>3. main = "make" /\ threadNum \in ThreadArgs
    BY DEF Init
  <1> QED
    BY <1>1, <1>2, <1>3 DEF Init, TypeOK, MainStates, WorkerStates

(* The bound on the number of threads that Start computes.                 *)
LEMMA LeastBound ==
  ASSUME NEW a \in Nat, NEW b \in Nat, NEW c \in Nat
  PROVE  Least(Least(a, b), c) \in 0..c
  BY DEF Least

(* Every step of the main thread keeps the types.                          *)
LEMMA MainTypeOK == TypeOK /\ Main => TypeOK'
  <1> SUFFICES ASSUME TypeOK, Main PROVE TypeOK'
    OBVIOUS
  <1> USE TaskNumAssumption, ThreadsAssumption
  <1>1. CASE AddTask
    <2>1. made + 1 \in Tasks /\ made + 1 \in 0..TaskNum
      BY <1>1 DEF AddTask, TypeOK, Tasks
    <2>2. Append(deque, made + 1) \in Seq(Tasks)
      BY <2>1, AppendProperties DEF TypeOK
    <2> QED
      BY <1>1, <2>1, <2>2 DEF AddTask, TypeOK, doneVars
  <1>2. CASE Start
    <2>1. threadNum \in Nat /\ Len(deque) \in Nat /\ MaxThreads \in Nat
      BY <1>2, LenProperties DEF Start, TypeOK
    <2>2. threadNum' \in 0..MaxThreads
      BY <1>2, <2>1, LeastBound DEF Start
    <2>3. main' = "spawn" /\ next' = 1 /\ dqRunning' = TRUE /\ running' = TRUE
      BY <1>2 DEF Start
    <2>4. /\ made' = made /\ deque' = deque /\ cpuNum' = cpuNum
          /\ wpc' = wpc /\ task' = task /\ deleted' = deleted
          /\ ran' = ran /\ failed' = failed /\ late' = late
      BY <1>2 DEF Start, doneVars
    <2>5. threadNum' \in (IF main' \in {"make", "hung"} THEN ThreadArgs ELSE 0..MaxThreads)
      BY <2>2, <2>3
    <2>6. main' \in MainStates /\ next' \in Nat
      BY <2>3 DEF MainStates
    <2> QED
      BY <2>3, <2>4, <2>5, <2>6 DEF TypeOK
  <1>3. CASE Spawn
    <2>1. main' \in {"spawn", "spawned"} /\ main = "spawn"
      BY <1>3 DEF Spawn
    <2>2. next' \in Nat
      BY <1>3 DEF Spawn, TypeOK
    <2>3. wpc' \in [Workers -> WorkerStates]
      BY <1>3 DEF Spawn, TypeOK, WorkerStates
    <2> QED
      BY <1>3, <2>1, <2>2, <2>3 DEF Spawn, TypeOK, poolVars, doneVars, MainStates
  <1>4. CASE JoinSpawned
    BY <1>4 DEF JoinSpawned, TypeOK, poolVars, doneVars, MainStates
  <1>5. CASE StartEnds
    BY <1>5 DEF StartEnds, TypeOK, poolVars, doneVars, MainStates
  <1>6. CASE Join
    BY <1>6 DEF Join, TypeOK, poolVars, doneVars
  <1>7. CASE Destroy
    BY <1>7 DEF Destroy, TypeOK, poolVars, doneVars, MainStates
  <1>8. CASE DestroyDrains
    BY <1>8 DEF DestroyDrains, TypeOK, poolVars, doneVars, MainStates
  <1>9. CASE DestroyPops
    <2>1. deque' \in Seq(Tasks) /\ deleted' \in [Tasks -> Nat]
      BY <1>9, DeleteHeadTypes DEF DestroyPops
    <2> QED
      BY <1>9, <2>1 DEF DestroyPops, TypeOK, poolVars, MainStates
  <1> QED
    BY <1>1, <1>2, <1>3, <1>4, <1>5, <1>6, <1>7, <1>8, <1>9 DEF Main

(* Every step of a thread keeps the types.                                 *)
LEMMA WorkerTypeOK ==
  ASSUME TypeOK, NEW w \in Workers, Worker(w), (task[w] # None) <=> wpc[w] = "run"
  PROVE  TypeOK'
  <1>1. CASE CheckRunning(w)
    BY <1>1 DEF CheckRunning, TypeOK, poolVars, doneVars, WorkerStates
  <1>2. CASE Take(w)
    <2>1. Head(deque) \in Tasks /\ Tail(deque) \in Seq(Tasks)
      BY <1>2, PopFront DEF Take, CanPop, TypeOK
    <2> QED
      BY <1>2, <2>1 DEF Take, TypeOK, poolVars, WorkerStates
  <1>3. CASE NothingToTake(w)
    BY <1>3 DEF NothingToTake, TypeOK, poolVars, doneVars, WorkerStates
  <1>4. ASSUME NEW ok \in BOOLEAN, Run(w, ok) PROVE TypeOK'
    <2>1. task[w] \in Tasks
      BY <1>4 DEF Run, TypeOK
    <2> QED
      BY <1>4, <2>1 DEF Run, TypeOK, poolVars, WorkerStates
  <1>5. CASE Stop(w)
    BY <1>5 DEF Stop, TypeOK, poolVars, doneVars, WorkerStates
  <1>6. CASE StopDrains(w)
    BY <1>6 DEF StopDrains, TypeOK, poolVars, doneVars, WorkerStates
  <1>7. CASE StopPops(w)
    <2>1. deque' \in Seq(Tasks) /\ deleted' \in [Tasks -> Nat]
      BY <1>7, DeleteHeadTypes DEF StopPops
    <2> QED
      BY <1>7, <2>1 DEF StopPops, TypeOK, poolVars, WorkerStates
  <1>8. CASE SetStop(w)
    BY <1>8 DEF SetStop, TypeOK, poolVars, doneVars, WorkerStates
  <1> QED
    BY <1>1, <1>2, <1>3, <1>4, <1>5, <1>6, <1>7, <1>8 DEF Worker

-----------------------------------------------------------------------------
(* Ownership *)

(* The program counters change, but no thread begins or ends a Run.        *)
SameRuns == \A w \in Workers : wpc'[w] = "run" <=> wpc[w] = "run"

(* A step that neither moves nor deletes a task.                           *)
LEMMA QuietOwners ==
  ASSUME TaskOwnership, PushedInOrder, SameRuns, made' = made, deque' = deque,
         task' = task, deleted' = deleted
  PROVE  TaskOwnership' /\ PushedInOrder'
  BY DEF TaskOwnership, PushedInOrder, SameRuns, InDeque

(* A drain loop deletes the task it pops, which was nobody else's.         *)
LEMMA DeleteOwners ==
  ASSUME Owners, DeleteHead, SameRuns, made' = made, task' = task
  PROVE  TaskOwnership' /\ PushedInOrder'
  <1>1. CASE ~CanPop
    <2>1. deque' = deque /\ deleted' = deleted
      BY <1>1 DEF DeleteHead
    <2> QED
      BY <2>1, QuietOwners DEF Owners
  <1>2. CASE CanPop
    <2> DEFINE h == Head(deque)
    <2>1. deque \in Seq(Tasks) /\ deque # <<>> /\ deque' = Tail(deque)
      BY <1>2 DEF CanPop, Owners, TypeOK, DeleteHead
    <2>2. /\ \A i, j \in 1..Len(deque') : deque'[i] = deque'[j] => i = j
          /\ \A t \in Tasks : InDeque(t)' <=> InDeque(t) /\ t # h
          /\ InDeque(h) /\ h \in Tasks
      BY <2>1, PopDistinct, PopFront DEF Owners, TaskOwnership
    <2>3. /\ deleted[h] = 0 /\ \A w \in Workers : task[w] # h
          /\ ~(h > made)
      BY <2>2 DEF Owners, TaskOwnership, PushedInOrder
    <2>4. \A t \in Tasks : deleted'[t] = IF t = h THEN 1 ELSE deleted[t]
      BY <1>2, <2>2, <2>3 DEF DeleteHead, Owners, TypeOK
    <2>5. TaskOwnership'
      BY <2>2, <2>3, <2>4 DEF Owners, TaskOwnership, SameRuns
    <2>6. PushedInOrder'
      BY <2>2, <2>3, <2>4 DEF Owners, PushedInOrder
    <2> QED
      BY <2>5, <2>6
  <1> QED
    BY <1>1, <1>2

(* A thread takes the first task: it leaves the queue for that thread.     *)
LEMMA TakeOwners ==
  ASSUME Owners, NEW w \in Workers, Take(w)
  PROVE  TaskOwnership' /\ PushedInOrder'
  <1> DEFINE h == Head(deque)
  <1>1. deque \in Seq(Tasks) /\ deque # <<>> /\ deque' = Tail(deque)
    BY DEF Take, CanPop, Owners, TypeOK
  <1>2. /\ \A i, j \in 1..Len(deque') : deque'[i] = deque'[j] => i = j
        /\ \A t \in Tasks : InDeque(t)' <=> InDeque(t) /\ t # h
        /\ InDeque(h) /\ h \in Tasks
    BY <1>1, PopDistinct, PopFront DEF Owners, TaskOwnership
  <1>3. /\ deleted[h] = 0 /\ \A v \in Workers : task[v] # h
        /\ ~(h > made) /\ h # None
    BY <1>2, NoneAssumption DEF Owners, TaskOwnership, PushedInOrder
  <1>4. /\ \A v \in Workers : task'[v] = IF v = w THEN h ELSE task[v]
        /\ \A v \in Workers : wpc'[v] = IF v = w THEN "run" ELSE wpc[v]
        /\ deleted' = deleted /\ made' = made
    BY DEF Take, Owners, TypeOK, poolVars
  <1>5. TaskOwnership'
    BY <1>2, <1>3, <1>4 DEF Owners, TaskOwnership
  <1>6. PushedInOrder'
    BY <1>2, <1>3, <1>4 DEF Owners, PushedInOrder
  <1> QED
    BY <1>5, <1>6

(* A thread deletes the task it has run.                                   *)
LEMMA RunOwners ==
  ASSUME Owners, NEW w \in Workers, NEW ok \in BOOLEAN, Run(w, ok)
  PROVE  TaskOwnership' /\ PushedInOrder'
  <1> DEFINE h == task[w]
  <1>1. h \in Tasks /\ h # None
    BY DEF Run, Owners, TypeOK, TaskOwnership
  <1>2. deleted[h] = 0 /\ ~InDeque(h) /\ ~(h > made)
    BY <1>1 DEF Owners, TaskOwnership, PushedInOrder
  <1>3. /\ \A v \in Workers : task'[v] = IF v = w THEN None ELSE task[v]
        /\ \A v \in Workers : v # w => wpc'[v] = wpc[v]
        /\ wpc'[w] # "run"
        /\ \A t \in Tasks : deleted'[t] = IF t = h THEN 1 ELSE deleted[t]
        /\ deque' = deque /\ made' = made
    BY <1>1, <1>2 DEF Run, Owners, TypeOK, poolVars
  <1>4. \A t \in Tasks : InDeque(t)' <=> InDeque(t)
    BY <1>3 DEF InDeque
  <1>5. TaskOwnership'
    BY <1>1, <1>2, <1>3, <1>4, NoneAssumption DEF Owners, TaskOwnership
  <1>6. PushedInOrder'
    BY <1>1, <1>2, <1>3, <1>4, NoneAssumption DEF Owners, PushedInOrder
  <1> QED
    BY <1>5, <1>6

(* AddTask pushes a task that was nowhere.                                 *)
LEMMA AddOwners ==
  ASSUME Owners, AddTask
  PROVE  TaskOwnership' /\ PushedInOrder'
  <1> DEFINE t0 == made + 1
  <1>1. t0 \in Tasks /\ t0 > made /\ made \in Nat /\ deque \in Seq(Tasks)
    BY TaskNumAssumption DEF AddTask, Owners, TypeOK, Tasks
  <1>2. deleted[t0] = 0 /\ ~InDeque(t0) /\ \A w \in Workers : task[w] # t0
    BY <1>1 DEF Owners, PushedInOrder
  <1>3. /\ Len(deque) \in Nat
        /\ Len(deque') = Len(deque) + 1
        /\ \A i \in 1..Len(deque) : deque'[i] = deque[i]
        /\ deque'[Len(deque) + 1] = t0
    BY <1>1, AppendProperties, LenProperties DEF AddTask
  <1>4. \A t \in Tasks : InDeque(t)' <=> InDeque(t) \/ t = t0
    BY <1>3 DEF InDeque
  <1>5. \A i, j \in 1..Len(deque') : deque'[i] = deque'[j] => i = j
    BY <1>2, <1>3 DEF Owners, TaskOwnership, InDeque
  <1>6. made' = t0 /\ wpc' = wpc /\ task' = task /\ deleted' = deleted
    BY DEF AddTask, doneVars
  <1>7. TaskOwnership'
    BY <1>2, <1>4, <1>5, <1>6 DEF Owners, TaskOwnership
  <1>8. PushedInOrder'
    BY <1>1, <1>4, <1>6 DEF Owners, PushedInOrder, Tasks
  <1> QED
    BY <1>7, <1>8

(* A thread that is not created yet does nothing, and only Start creates.  *)
LEMMA NextNotYetSpawned ==
  ASSUME TypeOK, NotYetSpawned, [Next]_vars
  PROVE  NotYetSpawned'
  <1>1. CASE Main
    <2>1. CASE Start
      BY <2>1 DEF Start, NotYetSpawned
    <2>2. CASE Spawn
      BY <2>2 DEF Spawn, NotYetSpawned, TypeOK, Workers
    <2>3. CASE JoinSpawned
      BY <2>3 DEF JoinSpawned, NotYetSpawned, TypeOK, Workers
    <2> QED
      BY <1>1, <2>1, <2>2, <2>3
      DEF Main, AddTask, StartEnds, Join, Destroy, DestroyDrains, DestroyPops,
          NotYetSpawned
  <1>2. CASE Hang
    BY <1>2 DEF Hang, NotYetSpawned
  <1>3. ASSUME NEW w \in Workers, Worker(w) PROVE NotYetSpawned'
    <2>1. wpc[w] # "none" /\ main' = main /\ next' = next
      BY <1>3 DEF Worker, CheckRunning, Take, NothingToTake, Run, Stop,
                  StopDrains, StopPops, SetStop
    <2>2. \A v \in Workers : v # w => wpc'[v] = wpc[v]
      BY <1>3 DEF Worker, CheckRunning, Take, NothingToTake, Run, Stop,
                  StopDrains, StopPops, SetStop, TypeOK
    <2> QED
      BY <2>1, <2>2 DEF NotYetSpawned
  <1>4. CASE UNCHANGED vars
    BY <1>4 DEF vars, NotYetSpawned
  <1> QED
    BY <1>1, <1>2, <1>3, <1>4 DEF Next

(* Every step keeps the types and the ownership.                           *)
LEMMA NextOwners == Owners /\ [Next]_vars => Owners'
  <1> SUFFICES ASSUME Owners, [Next]_vars PROVE Owners'
    OBVIOUS
  <1> USE DEF SameRuns
  <1>0. NotYetSpawned'
    BY NextNotYetSpawned DEF Owners
  <1>1. CASE Main
    <2>1. TypeOK'
      BY <1>1, MainTypeOK DEF Owners
    <2>2. CASE AddTask
      BY <1>0, <2>1, <2>2, AddOwners DEF Owners
    <2>3. CASE Start
      BY <1>0, <2>1, <2>3, QuietOwners DEF Start, Owners, doneVars
    <2>4. CASE Spawn
      <3>1. SameRuns
        BY <2>4 DEF Spawn, Owners, NotYetSpawned, TypeOK, Workers
      <3> QED
        BY <1>0, <2>1, <2>4, <3>1, QuietOwners DEF Spawn, Owners, poolVars, doneVars
    <2>5. CASE JoinSpawned
      BY <1>0, <2>1, <2>5, QuietOwners DEF JoinSpawned, Owners, poolVars, doneVars
    <2>6. CASE StartEnds
      BY <1>0, <2>1, <2>6, QuietOwners DEF StartEnds, Owners, poolVars, doneVars
    <2>7. CASE Join
      BY <1>0, <2>1, <2>7, QuietOwners DEF Join, Owners, poolVars, doneVars
    <2>8. CASE Destroy
      BY <1>0, <2>1, <2>8, QuietOwners DEF Destroy, Owners, poolVars, doneVars
    <2>9. CASE DestroyDrains
      BY <1>0, <2>1, <2>9, QuietOwners DEF DestroyDrains, Owners, poolVars, doneVars
    <2>10. CASE DestroyPops
      BY <1>0, <2>1, <2>10, DeleteOwners DEF DestroyPops, Owners, poolVars
    <2> QED
      BY <1>1, <2>2, <2>3, <2>4, <2>5, <2>6, <2>7, <2>8, <2>9, <2>10 DEF Main
  <1>2. CASE Hang
    <2>1. main' \in MainStates /\ threadNum \in ThreadArgs
      BY <1>2 DEF Hang, MainStates, Owners, TypeOK
    <2>2. TypeOK'
      BY <1>2, <2>1 DEF Hang, Owners, TypeOK, poolVars, doneVars
    <2> QED
      BY <1>0, <1>2, <2>2, QuietOwners DEF Hang, Owners, poolVars, doneVars
  <1>3. ASSUME NEW w \in Workers, Worker(w) PROVE Owners'
    <2>1. TypeOK'
      BY <1>3, WorkerTypeOK DEF Owners, TaskOwnership
    <2>2. CASE CheckRunning(w)
      BY <1>0, <2>1, <2>2, QuietOwners DEF CheckRunning, Owners, TypeOK, poolVars, doneVars
    <2>3. CASE Take(w)
      BY <1>0, <2>1, <2>3, TakeOwners DEF Owners
    <2>4. CASE NothingToTake(w)
      BY <1>0, <2>1, <2>4, QuietOwners DEF NothingToTake, Owners, TypeOK, poolVars, doneVars
    <2>5. ASSUME NEW ok \in BOOLEAN, Run(w, ok) PROVE Owners'
      BY <1>0, <2>1, <2>5, RunOwners DEF Owners
    <2>6. CASE Stop(w)
      BY <1>0, <2>1, <2>6, QuietOwners DEF Stop, Owners, TypeOK, poolVars, doneVars
    <2>7. CASE StopDrains(w)
      BY <1>0, <2>1, <2>7, QuietOwners DEF StopDrains, Owners, TypeOK, poolVars, doneVars
    <2>8. CASE StopPops(w)
      BY <1>0, <2>1, <2>8, DeleteOwners DEF StopPops, Owners, TypeOK, poolVars
    <2>9. CASE SetStop(w)
      BY <1>0, <2>1, <2>9, QuietOwners DEF SetStop, Owners, TypeOK, poolVars, doneVars
    <2> QED
      BY <1>3, <2>2, <2>3, <2>4, <2>5, <2>6, <2>7, <2>8, <2>9 DEF Worker
  <1>4. CASE UNCHANGED vars
    BY <1>0, <1>4 DEF vars, Owners, TypeOK, TaskOwnership, PushedInOrder, InDeque
  <1> QED
    BY <1>1, <1>2, <1>3, <1>4 DEF Next

-----------------------------------------------------------------------------
(* The stopped deque *)

(* Popping never fills the deque.                                          *)
LEMMA DeleteHeadEmpty ==
  ASSUME DeleteHead, deque = <<>>
  PROVE  deque' = <<>>
  BY DEF DeleteHead, CanPop

(* A deque that is empty stays empty once there are threads; and only a    *)
(* thread, or the destructor, that has just seen it empty stops it.        *)
LEMMA NextStopped ==
  ASSUME Owners, StoppedIsEmpty, StopSeesEmpty, [Next]_vars
  PROVE  StoppedIsEmpty' /\ StopSeesEmpty'
  <1> USE DEF StoppedIsEmpty, StopSeesEmpty
  <1>1. CASE Main
    <2>1. CASE AddTask
      BY <2>1 DEF AddTask, Owners, NotYetSpawned
    <2>2. CASE Start
      BY <2>2 DEF Start
    <2>3. CASE Spawn
      BY <2>3 DEF Spawn, Owners, TypeOK
    <2>4. CASE DestroyDrains
      BY <2>4 DEF DestroyDrains
    <2>5. CASE DestroyPops
      BY <2>5, DeleteHeadEmpty DEF DestroyPops
    <2> QED
      BY <1>1, <2>1, <2>2, <2>3, <2>4, <2>5
      DEF Main, JoinSpawned, StartEnds, Join, Destroy
  <1>2. CASE Hang
    BY <1>2 DEF Hang
  <1>3. ASSUME NEW w \in Workers, Worker(w) PROVE StoppedIsEmpty' /\ StopSeesEmpty'
    <2>1. CASE Take(w)
      BY <2>1 DEF Take, CanPop, Owners, TypeOK
    <2>2. CASE StopDrains(w)
      BY <2>2 DEF StopDrains, Owners, TypeOK
    <2>3. CASE StopPops(w)
      BY <2>3, DeleteHeadEmpty DEF StopPops, Owners, TypeOK
    <2>4. CASE SetStop(w)
      BY <2>4 DEF SetStop, Owners, TypeOK, NotYetSpawned
    <2>5. CASE CheckRunning(w) \/ NothingToTake(w) \/ Stop(w)
      BY <2>5 DEF CheckRunning, NothingToTake, Stop, Owners, TypeOK
    <2>6. ASSUME NEW ok \in BOOLEAN, Run(w, ok) PROVE StoppedIsEmpty' /\ StopSeesEmpty'
      BY <2>6 DEF Run, Owners, TypeOK
    <2> QED
      BY <1>3, <2>1, <2>2, <2>3, <2>4, <2>5, <2>6 DEF Worker
  <1>4. CASE UNCHANGED vars
    BY <1>4 DEF vars
  <1> QED
    BY <1>1, <1>2, <1>3, <1>4 DEF Next

-----------------------------------------------------------------------------
(* The invariant holds initially and in every step.                        *)
THEOREM PoolInvariant == Spec => []PoolInv
  <1>1. Init => PoolInv
    <2> SUFFICES ASSUME Init PROVE PoolInv
      OBVIOUS
    <2>1. TypeOK
      BY InitTypeOK
    <2>2. Len(deque) = 0
      BY EmptySeq DEF Init
    <2>3. /\ \A t \in Tasks : deleted[t] = 0
          /\ \A w \in Workers : task[w] = None /\ wpc[w] = "none"
      BY DEF Init
    <2>4. \A t \in Tasks : ~InDeque(t)
      BY <2>2 DEF InDeque
    <2>5. TaskOwnership
      BY <2>2, <2>3, <2>4 DEF TaskOwnership
    <2>6. PushedInOrder
      BY <2>3, <2>4, NoneAssumption DEF PushedInOrder
    <2> QED
      BY <2>1, <2>3, <2>5, <2>6
      DEF Init, PoolInv, Owners, NotYetSpawned, StoppedIsEmpty, StopSeesEmpty
  <1>2. PoolInv /\ [Next]_vars => PoolInv'
    BY NextOwners, NextStopped DEF PoolInv
  <1> QED
    BY <1>1, <1>2, PTL DEF Spec

(* TypeOK: the variables keep their types, whatever the number of tasks,   *)
(* threads and processors; Start never makes more than MaxThreads threads. *)
THEOREM PoolTypeCorrect == Spec => []TypeOK
  <1>1. PoolInv => TypeOK
    BY DEF PoolInv, Owners
  <1> QED
    BY <1>1, PoolInvariant, PTL

(* TaskOwnership: no task is ever deleted twice, or run after it has been  *)
(* deleted, however Stop, the destructor and the threads interleave.       *)
THEOREM TaskOwnershipHolds == Spec => []TaskOwnership
  <1>1. PoolInv => TaskOwnership
    BY DEF PoolInv, Owners
  <1> QED
    BY <1>1, PoolInvariant, PTL

(* StoppedIsEmpty: a stopped deque is empty, so the destructor's loop does *)
(* not spin on it.                                                         *)
THEOREM StoppedIsEmptyHolds == Spec => []StoppedIsEmpty
  <1>1. PoolInv => StoppedIsEmpty
    BY DEF PoolInv
  <1> QED
    BY <1>1, PoolInvariant, PTL

-----------------------------------------------------------------------------
(* The life of a task                                                      *)

(* The deque holds its tasks in the order they were made.                  *)
Sorted == \A i, j \in 1..Len(deque) : i < j => deque[i] < deque[j]

(* A task that was made is queued, held or deleted, and one that has run   *)
(* is deleted.                                                             *)
NothingLost ==
  \A t \in Tasks :
    /\ t <= made => InDeque(t) \/ deleted[t] > 0 \/ \E w \in Workers : task[w] = t
    /\ t \in ran \cup failed => deleted[t] > 0

Idle(w) == wpc[w] \in {"none", "end"}

(* Which threads have ended when, and what the destructor leaves.          *)
Joined ==
  /\ main \in {"spawn", "spawned", "join"} => \A w \in Workers : w > threadNum => Idle(w)
  /\ main \in {"spawn", "spawned"} => next \in Nat \ {0}
  /\ main = "join" => \A w \in Workers : w < next => Idle(w)
  /\ main \in {"drain", "pop", "exit"} => \A w \in Workers : Idle(w)
  /\ main = "exit" => deque = <<>>
  /\ main = "hung" => \A w \in Workers : Idle(w)

LifeInv == PoolInv /\ Sorted /\ NothingLost /\ Joined

-----------------------------------------------------------------------------
(* A popped deque is still sorted, and what was popped was its oldest.     *)
LEMMA PopSorted ==
  ASSUME deque \in Seq(Tasks), deque # <<>>, deque' = Tail(deque), Sorted
  PROVE  /\ Sorted'
         /\ \A t \in Tasks : InDeque(t) => Head(deque) <= t
<1>1. /\ Len(deque) \in Nat \ {0} /\ Len(deque') = Len(deque) - 1 /\ Head(deque) = deque[1]
      /\ \A i \in 1..Len(deque') : deque'[i] = deque[i + 1]
  BY PopFront
<1>2. Sorted'
  BY <1>1 DEF Sorted
<1>3. ASSUME NEW t \in Tasks, InDeque(t)
      PROVE  Head(deque) <= t
  <2>1. PICK i \in 1..Len(deque) : deque[i] = t
    BY <1>3 DEF InDeque
  <2>2. deque[1] \in Tasks
    BY <1>1
  <2>3. i = 1 \/ 1 < i
    BY <2>1
  <2> QED  BY <1>1, <2>1, <2>2, <2>3 DEF Sorted, Tasks
<1> QED  BY <1>2, <1>3

(* The deque stays sorted.                                                 *)
LEMMA SortedStep ==
  ASSUME LifeInv, [Next]_vars
  PROVE  Sorted'
<1> USE DEF LifeInv
<1>1. deque \in Seq(Tasks) /\ made \in Nat
  BY TaskNumAssumption DEF PoolInv, Owners, TypeOK
<1>2. ASSUME deque' = deque PROVE Sorted'
  BY <1>2 DEF Sorted
<1>3. ASSUME deque' = Tail(deque), deque # <<>> PROVE Sorted'
  BY <1>1, <1>3, PopSorted
<1>4. ASSUME DeleteHead PROVE Sorted'
  BY <1>2, <1>3, <1>4 DEF DeleteHead, CanPop
<1>5. CASE AddTask
  <2>1. /\ Len(deque) \in Nat /\ Len(deque') = Len(deque) + 1
        /\ \A i \in 1..Len(deque) : deque'[i] = deque[i]
        /\ deque'[Len(deque) + 1] = made + 1
    BY <1>1, <1>5, AppendProperties, LenProperties DEF AddTask, Tasks
  <2>2. \A i \in 1..Len(deque) : deque[i] \in Tasks /\ ~(deque[i] > made)
    BY <1>1, ElementOfSeq DEF PoolInv, Owners, PushedInOrder, InDeque
  <2>3. \A i \in 1..Len(deque) : deque[i] < made + 1
    BY <1>1, <2>2 DEF Tasks
  <2> QED  BY <2>1, <2>3 DEF Sorted
<1>6. CASE Main /\ ~AddTask
  BY <1>2, <1>4, <1>6
  DEF Main, Start, Spawn, JoinSpawned, StartEnds, Join, Destroy, DestroyDrains, DestroyPops
<1>7. CASE Hang
  BY <1>2, <1>7 DEF Hang
<1>8. ASSUME NEW w \in Workers, Worker(w) PROVE Sorted'
  BY <1>2, <1>3, <1>4, <1>8
  DEF Worker, CheckRunning, Take, CanPop, NothingToTake, Run, Stop, StopDrains, StopPops, SetStop
<1>9. CASE UNCHANGED vars
  BY <1>2, <1>9 DEF vars
<1> QED  BY <1>5, <1>6, <1>7, <1>8, <1>9 DEF Next

(* No step forgets a task.                                                 *)
LEMMA NothingLostStep ==
  ASSUME LifeInv, [Next]_vars
  PROVE  NothingLost'
<1> USE DEF LifeInv, PoolInv, Owners
<1>1. /\ deque \in Seq(Tasks) /\ made \in Nat
      /\ deleted \in [Tasks -> Nat] /\ task \in [Workers -> Tasks \cup {None}]
  BY TaskNumAssumption DEF TypeOK
<1>2. ASSUME UNCHANGED <<deque, made, deleted, task, ran, failed>> PROVE NothingLost'
  BY <1>2 DEF NothingLost, InDeque
<1>3. ASSUME DeleteHead, UNCHANGED <<made, task, ran, failed>> PROVE NothingLost'
  <2>1. CASE ~CanPop
    BY <1>2, <1>3, <2>1 DEF DeleteHead
  <2>2. CASE CanPop
    <3>1. deque # <<>> /\ deque' = Tail(deque)
      BY <1>3, <2>2 DEF DeleteHead, CanPop
    <3>2. /\ \A t \in Tasks : InDeque(t)' <=> InDeque(t) /\ t # Head(deque)
          /\ Head(deque) \in Tasks
      BY <1>1, <3>1, PopDistinct, PopFront DEF TaskOwnership
    <3>3. \A t \in Tasks : deleted'[t] >= deleted[t] /\ (t = Head(deque) => deleted'[t] > 0)
      BY <1>1, <1>3, <2>2, <3>2 DEF DeleteHead
    <3>4. ASSUME NEW t \in Tasks, t <= made'
          PROVE  InDeque(t)' \/ deleted'[t] > 0 \/ \E w \in Workers : task'[w] = t
      <4>1. InDeque(t) \/ deleted[t] > 0 \/ \E w \in Workers : task[w] = t
        BY <1>3, <3>4 DEF NothingLost
      <4>2. deleted[t] > 0 => deleted'[t] > 0
        BY <1>1, <3>2, <3>3, <1>3, <2>2 DEF DeleteHead
      <4> QED  BY <1>3, <3>2, <3>3, <4>1, <4>2
    <3>5. ASSUME NEW t \in Tasks, t \in ran' \cup failed' PROVE deleted'[t] > 0
      <4>1. deleted[t] > 0
        BY <1>3, <3>5 DEF NothingLost
      <4> QED  BY <1>1, <3>2, <4>1, <1>3, <2>2 DEF DeleteHead
    <3> QED  BY <3>4, <3>5 DEF NothingLost
  <2> QED  BY <2>1, <2>2
<1>4. CASE AddTask
  <2>1. /\ Len(deque) \in Nat /\ Len(deque') = Len(deque) + 1
        /\ \A i \in 1..Len(deque) : deque'[i] = deque[i]
        /\ deque'[Len(deque) + 1] = made + 1 /\ made' = made + 1
    BY <1>1, <1>4, AppendProperties, LenProperties DEF AddTask, Tasks
  <2>2. \A t \in Tasks : InDeque(t) \/ t = made + 1 => InDeque(t)'
    BY <2>1 DEF InDeque
  <2>3. UNCHANGED <<deleted, task, ran, failed>>
    BY <1>4 DEF AddTask, doneVars
  <2>4. ASSUME NEW t \in Tasks, t <= made'
        PROVE  InDeque(t)' \/ deleted'[t] > 0 \/ \E w \in Workers : task'[w] = t
    <3>1. t = made + 1 \/ t <= made
      BY <1>1, <2>1, <2>4 DEF Tasks
    <3>2. CASE t = made + 1
      BY <2>2, <3>2
    <3>3. CASE t <= made
      <4>1. InDeque(t) \/ deleted[t] > 0 \/ \E w \in Workers : task[w] = t
        BY <3>3 DEF NothingLost
      <4> QED  BY <2>2, <2>3, <4>1
    <3> QED  BY <3>1, <3>2, <3>3
  <2>5. \A t \in Tasks : t \in ran' \cup failed' => deleted'[t] > 0
    BY <2>3 DEF NothingLost
  <2> QED  BY <2>4, <2>5 DEF NothingLost
<1>5. CASE DestroyPops
  BY <1>3, <1>5 DEF DestroyPops, poolVars
<1>6. CASE Main /\ ~AddTask /\ ~DestroyPops
  BY <1>2, <1>6
  DEF Main, Start, Spawn, JoinSpawned, StartEnds, Join, Destroy, DestroyDrains, poolVars, doneVars
<1>7. CASE Hang
  BY <1>2, <1>7 DEF Hang, poolVars, doneVars
<1>8. ASSUME NEW w \in Workers, Worker(w) PROVE NothingLost'
  <2>1. CASE Take(w)
    <3>1. deque # <<>> /\ deque' = Tail(deque) /\ UNCHANGED <<made, deleted, ran, failed>>
      BY <2>1 DEF Take, CanPop, poolVars
    <3>2. /\ \A t \in Tasks : InDeque(t)' <=> InDeque(t) /\ t # Head(deque)
          /\ Head(deque) \in Tasks
      BY <1>1, <3>1, PopDistinct, PopFront DEF TaskOwnership
    <3>3. task[w] = None
      BY <2>1 DEF Take, TaskOwnership
    <3>4. \A v \in Workers : task'[v] = IF v = w THEN Head(deque) ELSE task[v]
      BY <1>1, <2>1 DEF Take
    <3>5. ASSUME NEW t \in Tasks, NEW v \in Workers, task[v] = t
          PROVE  task'[v] = t
      BY <3>3, <3>4, <3>5, NoneAssumption
    <3>6. task'[w] = Head(deque)
      BY <3>4
    <3> QED  BY <3>1, <3>2, <3>5, <3>6 DEF NothingLost
  <2>2. ASSUME NEW ok \in BOOLEAN, Run(w, ok) PROVE NothingLost'
    <3>1. task[w] \in Tasks /\ UNCHANGED <<deque, made>>
      BY <1>1, <2>2 DEF Run, TaskOwnership, poolVars
    <3>2. \A t \in Tasks : deleted'[t] = IF t = task[w] THEN deleted[t] + 1 ELSE deleted[t]
      BY <1>1, <2>2, <3>1 DEF Run
    <3>3. \A v \in Workers : v # w => task'[v] = task[v]
      BY <1>1, <2>2 DEF Run
    <3>4. ran' \cup failed' = ran \cup failed \cup {task[w]}
      BY <2>2 DEF Run
    <3>5. \A t \in Tasks : InDeque(t)' <=> InDeque(t)
      BY <3>1 DEF InDeque
    <3>6. deleted[task[w]] \in Nat
      BY <1>1, <3>1
    <3>7. ASSUME NEW t \in Tasks, t <= made'
          PROVE  InDeque(t)' \/ deleted'[t] > 0 \/ \E v \in Workers : task'[v] = t
      <4>1. InDeque(t) \/ deleted[t] > 0 \/ \E v \in Workers : task[v] = t
        BY <3>1, <3>7 DEF NothingLost
      <4>2. deleted[t] \in Nat
        BY <1>1
      <4>3. t = task[w] => deleted'[t] > 0
        BY <3>2, <4>2
      <4>4. deleted[t] > 0 => deleted'[t] > 0
        BY <3>2, <4>2
      <4>5. ASSUME NEW v \in Workers, task[v] = t, v # w PROVE task'[v] = t
        BY <3>3, <4>5
      <4> QED  BY <3>5, <4>1, <4>3, <4>4, <4>5
    <3>8. ASSUME NEW t \in Tasks, t \in ran' \cup failed' PROVE deleted'[t] > 0
      BY <1>1, <3>2, <3>4, <3>6, <3>8 DEF NothingLost
    <3> QED  BY <3>7, <3>8 DEF NothingLost
  <2>3. CASE StopPops(w)
    BY <1>3, <2>3 DEF StopPops, poolVars
  <2>4. CASE CheckRunning(w) \/ NothingToTake(w) \/ Stop(w) \/ StopDrains(w) \/ SetStop(w)
    BY <1>2, <2>4 DEF CheckRunning, NothingToTake, Stop, StopDrains, SetStop, poolVars, doneVars
  <2> QED  BY <1>8, <2>1, <2>2, <2>3, <2>4 DEF Worker
<1>9. CASE UNCHANGED vars
  BY <1>2, <1>9 DEF vars
<1> QED  BY <1>4, <1>5, <1>6, <1>7, <1>8, <1>9 DEF Next

(* Who has ended when.                                                     *)
LEMMA JoinedStep ==
  ASSUME LifeInv, [Next]_vars
  PROVE  Joined'
<1> USE DEF LifeInv, PoolInv, Owners
<1>1. /\ wpc \in [Workers -> WorkerStates] /\ MaxThreads \in Nat /\ next \in Nat
      /\ main \in MainStates /\ deque \in Seq(Tasks)
  BY ThreadsAssumption DEF TypeOK
<1>2. CASE Main
  <2>1. CASE AddTask
    BY <2>1 DEF AddTask, Joined
  <2>2. CASE Start
    BY <2>2 DEF Start, Joined, NotYetSpawned, Idle
  <2>3. CASE Spawn
    <3>1. /\ main = "spawn" /\ main' \in {"spawn", "spawned"} /\ next <= threadNum
          /\ threadNum' = threadNum /\ next' \in {next, next + 1}
      BY <2>3 DEF Spawn, poolVars
    <3>2. \A w \in Workers : w # next => wpc'[w] = wpc[w]
      BY <1>1, <2>3 DEF Spawn
    <3>3. threadNum \in Nat
      BY <3>1, ThreadsAssumption DEF TypeOK
    <3>4. \A w \in Workers : w > threadNum => w # next
      BY <1>1, <3>1, <3>3 DEF Workers
    <3> QED  BY <1>1, <3>1, <3>2, <3>4 DEF Joined, Idle
  <2>4. CASE JoinSpawned
    BY <1>1, <2>4 DEF JoinSpawned, Joined, Idle, poolVars
  <2>5. CASE StartEnds
    BY <1>1, <2>5 DEF StartEnds, Joined, Idle, poolVars, Workers
  <2>6. CASE Join
    <3>1. main = "join" /\ main' = "join" /\ next' = next + 1 /\ wpc[next] = "end"
          /\ wpc' = wpc /\ threadNum' = threadNum
      BY <2>6 DEF Join, poolVars
    <3>2. \A w \in Workers : w < next + 1 => w < next \/ w = next
      BY <1>1 DEF Workers
    <3> QED  BY <3>1, <3>2 DEF Joined, Idle
  <2>7. CASE Destroy
    <3>1. main = "join" /\ main' = "drain" /\ next > threadNum /\ wpc' = wpc
      BY <2>7 DEF Destroy
    <3>2. threadNum \in Nat
      BY <3>1, ThreadsAssumption DEF TypeOK
    <3>3. \A w \in Workers : w > threadNum \/ w < next
      BY <1>1, <3>1, <3>2 DEF Workers
    <3> QED  BY <3>1, <3>3 DEF Joined, Idle
  <2>8. CASE DestroyDrains
    BY <2>8 DEF DestroyDrains, Joined, Idle
  <2>9. CASE DestroyPops
    BY <2>9 DEF DestroyPops, Joined, Idle
  <2> QED  BY <1>2, <2>1, <2>2, <2>3, <2>4, <2>5, <2>6, <2>7, <2>8, <2>9 DEF Main
<1>3. CASE Hang
  BY <1>3 DEF Hang, Joined, NotYetSpawned, Idle
<1>4. ASSUME NEW w \in Workers, Worker(w) PROVE Joined'
  <2>1. /\ ~Idle(w) /\ UNCHANGED <<main, next, threadNum>>
        /\ \A v \in Workers : v # w => wpc'[v] = wpc[v]
    BY <1>1, <1>4 DEF Worker, CheckRunning, Take, NothingToTake, Run, Stop, StopDrains,
                      StopPops, SetStop, Idle, poolVars
  <2>2. main # "exit"
    BY <2>1 DEF Joined
  <2>3. \A v \in Workers : Idle(v) => Idle(v)'
    BY <2>1 DEF Idle
  <2> QED  BY <2>1, <2>2, <2>3 DEF Joined
<1>5. CASE UNCHANGED vars
  BY <1>5 DEF vars, Joined, Idle
<1> QED  BY <1>2, <1>3, <1>4, <1>5 DEF Next

THEOREM PoolLifeInvariant == Spec => []LifeInv
<1>1. Init => Sorted /\ NothingLost /\ Joined
  <2> SUFFICES ASSUME Init PROVE Sorted /\ NothingLost /\ Joined
    OBVIOUS
  <2>1. Len(deque) = 0 /\ made = 0 /\ main = "make" /\ ran = {} /\ failed = {}
    BY EmptySeq DEF Init
  <2> QED  BY <2>1 DEF Sorted, NothingLost, Joined, Tasks
<1>2. (Sorted /\ NothingLost /\ Joined) /\ PoolInv /\ [Next]_vars
      => (Sorted /\ NothingLost /\ Joined)'
  BY SortedStep, NothingLostStep, JoinedStep DEF LifeInv
<1> QED  BY <1>1, <1>2, PoolInvariant, PTL DEF Spec, LifeInv
-----------------------------------------------------------------------------
(* The refinement                                                          *)

state == [t \in Tasks |-> StateOf(t)]
over == main = "exit"

(* What the states mean in the pool.                                       *)
LEMMA StateMeans ==
  ASSUME LifeInv, NEW t \in Tasks
  PROVE  /\ state[t] = StateOf(t)
         /\ InDeque(t) => state[t] = "queued"
         /\ state[t] = "queued" => InDeque(t)
         /\ Held(t) => state[t] = "held"
         /\ t > made => state[t] = "unmade"
         /\ state[t] = "unmade" => t > made
         /\ deleted[t] > 0 => state[t] \in Life!Ended
<1> USE DEF LifeInv, PoolInv, Owners
<1>1. state[t] = StateOf(t)
  BY DEF state
<1>2. made \in Nat /\ deleted[t] \in Nat /\ t \in Nat
  BY TaskNumAssumption DEF TypeOK, Tasks
<1>3. t \in ran \cup failed => deleted[t] > 0
  BY DEF NothingLost
<1>4. InDeque(t) => deleted[t] = 0 /\ ~Held(t)
  BY DEF TaskOwnership, Held
<1>5. Held(t) => deleted[t] = 0
  BY DEF TaskOwnership, Held
<1>6. t > made => deleted[t] = 0 /\ ~InDeque(t) /\ ~Held(t)
  BY DEF PushedInOrder, Held
<1>7. t <= made => InDeque(t) \/ deleted[t] > 0 \/ Held(t)
  BY DEF NothingLost, Held
<1>8. InDeque(t) => state[t] = "queued"
  BY <1>1, <1>2, <1>3, <1>4 DEF StateOf
<1>9. state[t] = "queued" => InDeque(t)
  BY <1>1 DEF StateOf
<1>10. Held(t) => state[t] = "held"
  BY <1>1, <1>2, <1>3, <1>5 DEF StateOf
<1>11. t > made => state[t] = "unmade"
  BY <1>1, <1>2, <1>3, <1>6 DEF StateOf
<1>12. state[t] = "unmade" => t > made
  BY <1>1, <1>2, <1>7 DEF StateOf
<1>13. deleted[t] > 0 => state[t] \in Life!Ended
  BY <1>1 DEF StateOf, Life!Ended
<1> QED  BY <1>1, <1>8, <1>9, <1>10, <1>11, <1>12, <1>13

(* A step that touches no task.                                            *)
LEMMA QuietLife ==
  ASSUME UNCHANGED <<deque, deleted, task, ran, failed>>
  PROVE  state' = state
BY DEF state, StateOf, InDeque, Held

(* A step that changes the state of one task.                              *)
LEMMA OneBecomes ==
  ASSUME NEW h \in Tasks, NEW s, StateOf(h)' = s,
         \A t \in Tasks : t # h => StateOf(t)' = StateOf(t),
         over' = over
  PROVE  Life!Becomes(h, s)
<1>1. state' = [state EXCEPT ![h] = s]
  BY DEF state
<1> QED  BY <1>1 DEF Life!Becomes, state, over

(* The head of the deque is the oldest task that waits.                    *)
LEMMA HeadIsOldest ==
  ASSUME LifeInv, deque # <<>>, deque' = Tail(deque)
  PROVE  /\ Head(deque) \in Tasks /\ InDeque(Head(deque)) /\ Life!Oldest(Head(deque))
         /\ \A t \in Tasks : InDeque(t)' <=> InDeque(t) /\ t # Head(deque)
<1> DEFINE h == Head(deque)
<1>1. deque \in Seq(Tasks)
  BY DEF LifeInv, PoolInv, Owners, TypeOK
<1>2. /\ \A t \in Tasks : InDeque(t)' <=> InDeque(t) /\ t # h
      /\ InDeque(h) /\ h \in Tasks
      /\ \A t \in Tasks : InDeque(t) => h <= t
  BY <1>1, PopDistinct, PopFront, PopSorted DEF LifeInv, PoolInv, Owners, TaskOwnership
<1> HIDE DEF h
<1>3. state[h] = "queued"
  BY <1>2, StateMeans
<1>4. \A u \in Tasks : u < h => state[u] # "queued"
  <2> SUFFICES ASSUME NEW u \in Tasks, u < h, state[u] = "queued" PROVE FALSE
    OBVIOUS
  <2>1. InDeque(u)
    BY StateMeans
  <2>2. h <= u
    BY <1>2, <2>1
  <2> QED  BY <1>2, <2>2 DEF Tasks
<1>5. Life!Oldest(h)
  BY <1>3, <1>4 DEF Life!Oldest, state, over, Life!Tasks, Tasks
<1> QED  BY <1>2, <1>5 DEF h

(* The drain loops drop the oldest task.                                   *)
LEMMA DeleteHeadDrops ==
  ASSUME LifeInv, DeleteHead, UNCHANGED <<task, ran, failed>>, over' = over
  PROVE  \/ state' = state
         \/ \E t \in Tasks : Life!Drop(t)
<1> USE DEF LifeInv, PoolInv, Owners
<1>1. CASE ~CanPop
  BY <1>1, QuietLife DEF DeleteHead
<1>2. CASE CanPop
  <2>1. deque # <<>> /\ deque' = Tail(deque)
    BY <1>2 DEF DeleteHead, CanPop
  <2>0. PICK h \in Tasks : h = Head(deque)
    BY <2>1, HeadIsOldest
  <2>2. /\ h \in Tasks /\ InDeque(h) /\ Life!Oldest(h)
        /\ \A t \in Tasks : InDeque(t)' <=> InDeque(t) /\ t # h
    BY <2>0, <2>1, HeadIsOldest
  <2>3. deleted \in [Tasks -> Nat] /\ deleted[h] = 0
    BY <2>2 DEF TypeOK, TaskOwnership
  <2>4. \A t \in Tasks : deleted'[t] = IF t = h THEN 1 ELSE deleted[t]
    BY <1>2, <2>0, <2>2, <2>3 DEF DeleteHead
  <2>5. h \notin ran \cup failed
    BY <2>2, <2>3 DEF NothingLost
  <2>6. StateOf(h)' = "dropped"
    BY <2>2, <2>4, <2>5 DEF StateOf
  <2>7. \A t \in Tasks : t # h => StateOf(t)' = StateOf(t)
    BY <2>2, <2>4 DEF StateOf, Held
  <2>8. Life!Becomes(h, "dropped")
    BY <2>2, <2>6, <2>7, OneBecomes
  <2> QED  BY <2>2, <2>8 DEF Life!Drop, state, over
<1> QED  BY <1>1, <1>2

LEMMA LifeStep ==
  ASSUME LifeInv, LifeInv', [Next]_vars
  PROVE  [Life!Next]_<<state, over>>
<1> USE DEF LifeInv, PoolInv, Owners
<1> DEFINE Goal == UNCHANGED <<state, over>> \/ Life!Next
<1> SUFFICES Goal
  BY DEF state, over
<1>1. /\ deleted \in [Tasks -> Nat] /\ task \in [Workers -> Tasks \cup {None}]
      /\ deque \in Seq(Tasks) /\ made \in Nat
  BY TaskNumAssumption DEF TypeOK
<1>2. ASSUME ~over, NEW t \in Tasks, Life!Make(t) \/ Life!Take(t) \/ Life!Drop(t) \/ Life!End(t)
      PROVE  Goal
  BY <1>2 DEF Life!Next, Life!Tasks, Tasks, over, state
<1>3. ASSUME UNCHANGED <<deque, deleted, task, ran, failed>>, over' = over
      PROVE  Goal
  BY <1>3, QuietLife
<1>4. CASE Main
  <2>1. CASE AddTask
    <3>0. PICK h \in Tasks : h = made + 1
      BY <1>1, <2>1, TaskNumAssumption DEF AddTask, Tasks
    <3>1. h \in Tasks /\ ~over /\ over' = over /\ UNCHANGED <<deleted, task, ran, failed>>
      BY <2>1, <3>0 DEF AddTask, over, doneVars
    <3>2. /\ Len(deque) \in Nat /\ Len(deque') = Len(deque) + 1
          /\ \A i \in 1..Len(deque) : deque'[i] = deque[i]
          /\ deque'[Len(deque) + 1] = h
      BY <1>1, <2>1, <3>0, <3>1, AppendProperties, LenProperties DEF AddTask
    <3>3. \A t \in Tasks : InDeque(t)' <=> InDeque(t) \/ t = h
      BY <3>2 DEF InDeque
    <3>4. h > made
      BY <1>1, <3>0
    <3>5. deleted[h] = 0 /\ ~Held(h)
      BY <3>1, <3>4 DEF PushedInOrder, Held
    <3>6. \A u \in Tasks : u < h => state[u] # "unmade"
      <4> SUFFICES ASSUME NEW u \in Tasks, u < h, state[u] = "unmade" PROVE FALSE
        OBVIOUS
      <4>1. u > made
        BY StateMeans
      <4> QED  BY <1>1, <3>0, <4>1 DEF Tasks
    <3>7. state[h] = "unmade"
      BY <3>1, <3>4, StateMeans
    <3>8. h \notin ran \cup failed
      BY <3>1, <3>5 DEF NothingLost
    <3>9. StateOf(h)' = "queued"
      BY <3>1, <3>3, <3>5, <3>8 DEF StateOf, Held
    <3>10. \A t \in Tasks : t # h => StateOf(t)' = StateOf(t)
      BY <3>1, <3>3 DEF StateOf, Held
    <3>11. Life!Becomes(h, "queued")
      BY <3>1, <3>9, <3>10, OneBecomes
    <3>12. Life!Make(h)
      BY <3>6, <3>7, <3>11 DEF Life!Make, state, over, Life!Tasks, Tasks
    <3> QED  BY <1>2, <3>1, <3>12
  <2>2. CASE DestroyPops
    <3>1. DeleteHead /\ UNCHANGED <<task, ran, failed>> /\ ~over /\ over' = over
      BY <2>2 DEF DestroyPops, over
    <3> QED  BY <1>2, <3>1, DeleteHeadDrops
  <2>3. CASE DestroyDrains
    <3>1. UNCHANGED <<deque, deleted, task, ran, failed>> /\ ~over /\ main = "drain"
      BY <2>3 DEF DestroyDrains, doneVars, over
    <3>2. CASE deque # <<>>
      BY <1>3, <2>3, <3>1, <3>2 DEF DestroyDrains, over
    <3>3. CASE deque = <<>>
      <4>1. over'
        BY <2>3, <3>3 DEF DestroyDrains, over
      <4>2. \A t \in Tasks : ~InDeque(t) /\ ~Held(t)
        <5>1. Len(deque) = 0
          BY <3>3
        <5>2. \A w \in Workers : wpc[w] # "run"
          BY <3>1 DEF Joined, Idle
        <5>3. \A w \in Workers : task[w] = None
          BY <5>2 DEF TaskOwnership
        <5> QED  BY <5>1, <5>3, NoneAssumption DEF InDeque, Held
      <4>3. \A t \in Tasks : state[t] \in Life!Ended \cup {"unmade"}
        <5> SUFFICES ASSUME NEW t \in Tasks PROVE state[t] \in Life!Ended \cup {"unmade"}
          OBVIOUS
        <5>1. t > made \/ deleted[t] > 0
          BY <1>1, <4>2 DEF NothingLost, Tasks, Held
        <5> QED  BY <5>1, StateMeans
      <4>4. state' = state
        BY <3>1, QuietLife
      <4> QED  BY <3>1, <4>1, <4>3, <4>4
               DEF Life!Next, Life!Exit, Life!Tasks, Tasks, state, over
    <3> QED  BY <3>2, <3>3
  <2>4. CASE Start \/ Spawn \/ JoinSpawned \/ StartEnds \/ Join \/ Destroy
    BY <1>3, <2>4 DEF Start, Spawn, JoinSpawned, StartEnds, Join, Destroy, doneVars, over
  <2> QED  BY <1>4, <2>1, <2>2, <2>3, <2>4 DEF Main
<1>5. CASE Hang
  BY <1>3, <1>5 DEF Hang, doneVars, over
<1>6. ASSUME NEW w \in Workers, Worker(w) PROVE Goal
  <2>1. ~Idle(w) /\ main' = main
    BY <1>6 DEF Worker, CheckRunning, Take, NothingToTake, Run, Stop, StopDrains, StopPops,
                SetStop, Idle
  <2>2. ~over /\ over' = over
    BY <2>1 DEF Joined, over
  <2>3. CASE Take(w)
    <3>1. deque # <<>> /\ deque' = Tail(deque) /\ UNCHANGED <<made, deleted, ran, failed>>
      BY <2>3 DEF Take, CanPop, poolVars
    <3>0. PICK h \in Tasks : h = Head(deque)
      BY <3>1, HeadIsOldest
    <3>2. /\ h \in Tasks /\ InDeque(h) /\ Life!Oldest(h)
          /\ \A t \in Tasks : InDeque(t)' <=> InDeque(t) /\ t # h
      BY <3>0, <3>1, HeadIsOldest
    <3>3. task[w] = None
      BY <2>3 DEF Take, TaskOwnership
    <3>4. \A v \in Workers : task'[v] = IF v = w THEN h ELSE task[v]
      BY <1>1, <2>3, <3>0 DEF Take
    <3>5. deleted[h] = 0
      BY <3>2 DEF TaskOwnership
    <3>6. h \notin ran \cup failed
      BY <3>2, <3>5 DEF NothingLost
    <3>7. Held(h)'
      BY <3>4 DEF Held
    <3>8. StateOf(h)' = "held"
      BY <3>1, <3>5, <3>6, <3>7 DEF StateOf
    <3>9. \A t \in Tasks : t # h => (Held(t)' <=> Held(t))
      BY <3>3, <3>4, NoneAssumption DEF Held
    <3>10. \A t \in Tasks : t # h => StateOf(t)' = StateOf(t)
      BY <3>1, <3>2, <3>9 DEF StateOf
    <3>11. Life!Becomes(h, "held")
      BY <2>2, <3>2, <3>8, <3>10, OneBecomes
    <3>12. Life!Take(h)
      BY <3>2, <3>11 DEF Life!Take, state, over
    <3> QED  BY <1>2, <2>2, <3>2, <3>12
  <2>4. ASSUME NEW ok \in BOOLEAN, Run(w, ok) PROVE Goal
    <3>0. PICK h \in Tasks : h = task[w]
      BY <1>1, <2>4 DEF Run, TaskOwnership
    <3> DEFINE s == IF ok THEN "ran" ELSE "failed"
    <3>1. h \in Tasks /\ UNCHANGED <<deque, made>>
      BY <2>4, <3>0 DEF Run, poolVars
    <3>2. \A t \in Tasks : deleted'[t] = IF t = h THEN deleted[t] + 1 ELSE deleted[t]
      BY <1>1, <2>4, <3>0, <3>1 DEF Run
    <3>3. \A v \in Workers : task'[v] = IF v = w THEN None ELSE task[v]
      BY <1>1, <2>4 DEF Run
    <3>4. /\ ran' = IF ok THEN ran \cup {h} ELSE ran
          /\ failed' = IF ok THEN failed ELSE failed \cup {h}
      BY <2>4, <3>0 DEF Run
    <3>5. Held(h) /\ deleted[h] = 0
      BY <3>0, <3>1 DEF Held, TaskOwnership
    <3>6. state[h] = "held"
      BY <3>1, <3>5, StateMeans
    <3>7. \A t \in Tasks : t # h => (Held(t)' <=> Held(t))
      BY <3>0, <3>3, NoneAssumption DEF Held
    <3>8. \A t \in Tasks : InDeque(t)' <=> InDeque(t)
      BY <3>1 DEF InDeque
    <3>9. h \notin ran \cup failed
      BY <3>1, <3>5 DEF NothingLost
    <3>10. StateOf(h)' = s
      BY <3>4, <3>9 DEF StateOf
    <3>11. \A t \in Tasks : t # h => StateOf(t)' = StateOf(t)
      BY <3>2, <3>4, <3>7, <3>8 DEF StateOf
    <3>12. s \in {"ran", "failed"}
      OBVIOUS
    <3> HIDE DEF s
    <3>13. Life!Becomes(h, s)
      BY <2>2, <3>1, <3>10, <3>11, OneBecomes
    <3>14. Life!End(h)
      BY <3>6, <3>12, <3>13 DEF Life!End, state, over
    <3> QED  BY <1>2, <2>2, <3>1, <3>14
  <2>5. CASE StopPops(w)
    <3>1. DeleteHead /\ UNCHANGED <<task, ran, failed>>
      BY <2>5 DEF StopPops
    <3> QED  BY <1>2, <2>2, <3>1, DeleteHeadDrops
  <2>6. CASE CheckRunning(w) \/ NothingToTake(w) \/ Stop(w) \/ StopDrains(w) \/ SetStop(w)
    BY <1>3, <2>2, <2>6 DEF CheckRunning, NothingToTake, Stop, StopDrains, SetStop, doneVars
  <2> QED  BY <1>6, <2>3, <2>4, <2>5, <2>6 DEF Worker
<1>7. CASE UNCHANGED vars
  BY <1>3, <1>7 DEF vars, over
<1> QED  BY <1>4, <1>5, <1>6, <1>7 DEF Next

(* TasksLiveOnce: the pool, with its threads, its deque and its locks,     *)
(* implements TaskLife.                                                    *)
THEOREM PoolImplementsTaskLife == Spec => TasksLiveOnce
<1>1. Init => Life!Init
  <2> SUFFICES ASSUME Init PROVE Life!Init
    OBVIOUS
  <2>1. Len(deque) = 0
    BY EmptySeq DEF Init
  <2>2. \A t \in Tasks : StateOf(t) = "unmade"
    BY <2>1, NoneAssumption DEF Init, StateOf, InDeque, Held
  <2>3. main # "exit"
    BY DEF Init
  <2> QED  BY <2>2, <2>3 DEF Life!Init, Life!Tasks, Tasks
<1>2. LifeInv /\ LifeInv' /\ [Next]_vars => [Life!Next]_<<[t \in Tasks |-> StateOf(t)], main = "exit">>
  BY LifeStep DEF state, over
<1> QED  BY <1>1, <1>2, PoolLifeInvariant, PTL DEF Spec, TasksLiveOnce, Life!Spec
-----------------------------------------------------------------------------
(* What the destructor finds                                               *)

Living == {"spawn", "spawned", "join"}
Over   == {"drain", "pop", "exit"}

(* The threads Start was to create have been created.                      *)
Spawned ==
  /\ main = "spawn" => \A w \in Workers : w < next => wpc[w] # "none"
  /\ main = "spawned" => \A w \in Workers : w <= next => wpc[w] # "none"
  /\ main = "join" => \A w \in Workers : w <= threadNum => wpc[w] # "none"

(* As long as no task has failed nobody stops the pool, so that a thread   *)
(* ends only when there is nothing left to take, and what is deleted has   *)
(* run; without a thread it is the destructor that deletes.                *)
UnlessFailed ==
  failed = {} =>
    /\ \A w \in Workers : wpc[w] \notin {"stop", "drain", "pop", "setstop"}
    /\ main \in Living => running /\ dqRunning
    /\ main \in Living => \A w \in Workers : wpc[w] = "end" => deque = <<>>
    /\ main \in Over => threadNum = 0 \/ deque = <<>>
    /\ \A t \in Tasks : deleted[t] > 0 => t \in ran \/ (main \in Over /\ threadNum = 0)

DoneInv == LifeInv /\ Spawned /\ UnlessFailed

(* A thread, once created, stays so; and only threads move threads.        *)
LEMMA SpawnedStep ==
  ASSUME DoneInv, [Next]_vars
  PROVE  Spawned'
<1> USE DEF DoneInv, LifeInv, PoolInv, Owners
<1>1. /\ wpc \in [Workers -> WorkerStates] /\ next \in Nat /\ MaxThreads \in Nat
      /\ main \in Living => threadNum \in Nat
  BY ThreadsAssumption DEF TypeOK, Living
<1>2. CASE Main
  <2>1. CASE Start
    BY <2>1 DEF Start, Spawned, Workers
  <2>2. CASE Spawn
    <3>1. /\ main = "spawn" /\ next' \in {next, next + 1}
          /\ \/ main' = "spawned" /\ next' = next
             \/ main' = "spawn" /\ next' = next + 1
      BY <2>2 DEF Spawn
    <3>2. \A w \in Workers : wpc'[w] = IF w = next THEN "check" ELSE wpc[w]
      BY <1>1, <2>2 DEF Spawn
    <3>3. \A w \in Workers : w <= next => w < next \/ w = next
      BY <1>1 DEF Workers
    <3>4. \A w \in Workers : w < next + 1 => w < next \/ w = next
      BY <1>1 DEF Workers
    <3> QED  BY <3>1, <3>2, <3>3, <3>4 DEF Spawned
  <2>3. CASE JoinSpawned
    <3>1. main = "spawned" /\ main' = "spawn" /\ next' = next + 1 /\ wpc' = wpc
      BY <2>3 DEF JoinSpawned
    <3>2. \A w \in Workers : w < next + 1 => w <= next
      BY <1>1 DEF Workers
    <3> QED  BY <3>1, <3>2 DEF Spawned
  <2>4. CASE StartEnds
    <3>1. main = "spawn" /\ main' = "join" /\ next > threadNum /\ wpc' = wpc
          /\ threadNum' = threadNum
      BY <2>4 DEF StartEnds, poolVars
    <3>2. \A w \in Workers : w <= threadNum => w < next
      BY <1>1, <3>1 DEF Workers, Living
    <3> QED  BY <3>1, <3>2 DEF Spawned
  <2>5. CASE AddTask \/ Join \/ Destroy \/ DestroyDrains \/ DestroyPops
    BY <2>5 DEF AddTask, Join, Destroy, DestroyDrains, DestroyPops, Spawned, poolVars
  <2> QED  BY <1>2, <2>1, <2>2, <2>3, <2>4, <2>5 DEF Main
<1>3. CASE Hang
  BY <1>3 DEF Hang, Spawned
<1>4. ASSUME NEW w \in Workers, Worker(w) PROVE Spawned'
  <2>1. UNCHANGED <<main, next, threadNum>> /\ wpc'[w] # "none"
    BY <1>1, <1>4 DEF Worker, CheckRunning, Take, NothingToTake, Run, Stop, StopDrains,
                      StopPops, SetStop, poolVars
  <2>2. \A v \in Workers : v # w => wpc'[v] = wpc[v]
    BY <1>1, <1>4 DEF Worker, CheckRunning, Take, NothingToTake, Run, Stop, StopDrains,
                      StopPops, SetStop
  <2> QED  BY <2>1, <2>2 DEF Spawned
<1>5. CASE UNCHANGED vars
  BY <1>5 DEF vars, Spawned
<1> QED  BY <1>2, <1>3, <1>4, <1>5 DEF Next

(* No failure is forgotten, and without one the pool runs its course.      *)
LEMMA UnlessFailedStep ==
  ASSUME DoneInv, [Next]_vars
  PROVE  UnlessFailed'
<1> USE DEF DoneInv, LifeInv, PoolInv, Owners
<1>1. /\ wpc \in [Workers -> WorkerStates] /\ next \in Nat /\ MaxThreads \in Nat
      /\ deleted \in [Tasks -> Nat] /\ deque \in Seq(Tasks)
      /\ main \in Living => threadNum \in 0..MaxThreads
  BY ThreadsAssumption DEF TypeOK, Living
<1> SUFFICES ASSUME failed' = {} PROVE UnlessFailed'
  BY DEF UnlessFailed
<1>2. failed = {}
  BY DEF Next, Main, AddTask, Start, Spawn, JoinSpawned, StartEnds, Join, Destroy, DestroyDrains,
         DestroyPops, Hang, Worker, CheckRunning, Take, NothingToTake, Run, Stop, StopDrains,
         StopPops, SetStop, vars, doneVars
<1>3. CASE Main
  <2>1. CASE AddTask
    BY <1>2, <2>1 DEF AddTask, UnlessFailed, Living, Over, doneVars
  <2>2. CASE Start
    BY <1>2, <2>2 DEF Start, UnlessFailed, NotYetSpawned, Living, Over, doneVars
  <2>3. CASE Spawn
    <3>1. main \in Living /\ main' \in Living /\ main' \notin Over
      BY <2>3 DEF Spawn, Living, Over
    <3>2. \A w \in Workers : wpc'[w] = "check" \/ wpc'[w] = wpc[w]
      BY <1>1, <2>3 DEF Spawn
    <3>3. UNCHANGED <<running, dqRunning, deque, deleted, ran>>
      BY <2>3 DEF Spawn, doneVars
    <3> QED  BY <1>2, <3>1, <3>2, <3>3 DEF UnlessFailed, Living, Over
  <2>4. CASE Destroy
    <3>1. main = "join" /\ main' = "drain" /\ next > threadNum
          /\ UNCHANGED <<dqRunning, deque, deleted, ran, wpc, threadNum>>
      BY <2>4 DEF Destroy, doneVars, poolVars
    <3>2. threadNum = 0 \/ deque = <<>>
      <4>1. CASE threadNum # 0
        <5>1. 1 \in Workers /\ 1 < next /\ 1 <= threadNum
          BY <1>1, <3>1, <4>1 DEF Workers, Living
        <5>2. wpc[1] = "end"
          BY <3>1, <5>1 DEF Joined, Idle, Spawned
        <5> QED  BY <1>2, <3>1, <5>1, <5>2 DEF UnlessFailed, Living
      <4> QED  BY <4>1
    <3> QED  BY <1>2, <3>1, <3>2 DEF UnlessFailed, Living, Over
  <2>5. CASE DestroyDrains
    BY <1>2, <2>5 DEF DestroyDrains, UnlessFailed, Living, Over, doneVars, poolVars
  <2>6. CASE DestroyPops
    <3>1. main \in Over /\ main' \in Over /\ main' \notin Living
          /\ UNCHANGED <<ran, wpc, threadNum>> /\ DeleteHead
      BY <2>6 DEF DestroyPops, Living, Over, poolVars
    <3>2. CASE threadNum = 0
      BY <1>2, <3>1, <3>2 DEF UnlessFailed
    <3>3. CASE deque = <<>>
      <4>1. deque' = <<>> /\ deleted' = deleted
        BY <3>1, <3>3 DEF DeleteHead, CanPop
      <4> QED  BY <1>2, <3>1, <3>3, <4>1 DEF UnlessFailed
    <3> QED  BY <1>2, <3>1, <3>2, <3>3 DEF UnlessFailed
  <2>7. CASE JoinSpawned \/ StartEnds \/ Join
    BY <1>2, <2>7 DEF JoinSpawned, StartEnds, Join, UnlessFailed, Living, Over, doneVars
  <2> QED  BY <1>3, <2>1, <2>2, <2>3, <2>4, <2>5, <2>6, <2>7 DEF Main
<1>4. CASE Hang
  BY <1>2, <1>4 DEF Hang, UnlessFailed, Living, Over, doneVars
<1>5. ASSUME NEW w \in Workers, Worker(w) PROVE UnlessFailed'
  <2>1. main' = main /\ threadNum' = threadNum /\ ~Idle(w)
    BY <1>5 DEF Worker, CheckRunning, Take, NothingToTake, Run, Stop, StopDrains,
                StopPops, SetStop, poolVars, Idle
  <2>2. main \in Living
    <3>1. main \notin Over /\ main # "hung"
      BY <2>1 DEF Joined, Over
    <3>2. main # "make"
      BY <2>1 DEF NotYetSpawned, Idle
    <3> QED  BY <3>1, <3>2 DEF TypeOK, MainStates, Living, Over
  <2>3. main' \in Living /\ main' \notin Over
    BY <2>1, <2>2 DEF Living, Over
  <2>4. /\ wpc[w] \notin {"stop", "drain", "pop", "setstop"} /\ running /\ dqRunning
        /\ \A v \in Workers : wpc[v] \notin {"stop", "drain", "pop", "setstop"}
        /\ \A v \in Workers : wpc[v] = "end" => deque = <<>>
    BY <1>2, <2>2 DEF UnlessFailed
  <2>0. \A t \in Tasks : deleted[t] > 0 => t \in ran
    BY <1>2, <2>1, <2>3 DEF UnlessFailed
  <2>9. ASSUME running', dqRunning',
               \A v \in Workers : wpc'[v] \notin {"stop", "drain", "pop", "setstop"},
               \A v \in Workers : wpc'[v] = "end" => deque' = <<>>,
               \A t \in Tasks : deleted'[t] > 0 => t \in ran'
        PROVE  UnlessFailed'
    BY <2>3, <2>9 DEF UnlessFailed
  <2>5. CASE CheckRunning(w)
    <3>1. /\ \A v \in Workers : wpc'[v] = wpc[v] \/ wpc'[v] = "take"
          /\ UNCHANGED <<running, dqRunning, deque, deleted, ran>>
      BY <1>1, <2>4, <2>5 DEF CheckRunning, doneVars
    <3> QED  BY <2>0, <2>4, <2>9, <3>1
  <2>6. CASE Take(w)
    <3>1. /\ \A v \in Workers : wpc'[v] = wpc[v] \/ wpc'[v] = "run"
          /\ UNCHANGED <<running, dqRunning, deleted, ran>> /\ deque # <<>>
      BY <1>1, <2>6 DEF Take, CanPop
    <3> QED  BY <2>0, <2>4, <2>9, <3>1
  <2>7. CASE NothingToTake(w)
    <3>1. /\ \A v \in Workers : wpc'[v] = wpc[v] \/ wpc'[v] = "end"
          /\ UNCHANGED <<running, dqRunning, deque, deleted, ran>> /\ deque = <<>>
      BY <1>1, <2>4, <2>7 DEF NothingToTake, CanPop, doneVars
    <3> QED  BY <2>0, <2>4, <2>9, <3>1
  <2>8. ASSUME NEW ok \in BOOLEAN, Run(w, ok) PROVE UnlessFailed'
    <3>1. ok
      BY <2>8 DEF Run
    <3>2. task[w] \in Tasks
      BY <2>8 DEF Run, TaskOwnership, TypeOK
    <3>3. /\ \A v \in Workers : wpc'[v] = wpc[v] \/ wpc'[v] = "check"
          /\ UNCHANGED <<running, dqRunning, deque>> /\ ran' = ran \cup {task[w]}
      BY <1>1, <2>8, <3>1 DEF Run
    <3>4. \A t \in Tasks : t # task[w] => deleted'[t] = deleted[t]
      BY <1>1, <2>8, <3>2 DEF Run
    <3>5. \A t \in Tasks : deleted'[t] > 0 => t \in ran'
      BY <2>0, <3>3, <3>4
    <3> QED  BY <2>4, <2>9, <3>3, <3>5
  <2> QED  BY <1>5, <2>4, <2>5, <2>6, <2>7, <2>8 DEF Worker, Stop, StopDrains, StopPops, SetStop
<1>6. CASE UNCHANGED vars
  BY <1>2, <1>6 DEF vars, UnlessFailed
<1> QED  BY <1>3, <1>4, <1>5, <1>6 DEF Next

THEOREM PoolDoneInvariant == Spec => []DoneInv
<1>1. Init => Spawned /\ UnlessFailed
  BY DEF Init, Spawned, UnlessFailed, Living, Over
<1>2. (Spawned /\ UnlessFailed) /\ LifeInv /\ [Next]_vars => (Spawned /\ UnlessFailed)'
  BY SpawnedStep, UnlessFailedStep DEF DoneInv
<1> QED  BY <1>1, <1>2, PoolLifeInvariant, PTL DEF Spec, DoneInv

(* JoinedMeansDone: after Join no thread is alive, and every task has run  *)
(* unless one failed or no thread was asked for, for any number of tasks,  *)
(* threads and processors.                                                 *)
THEOREM JoinedMeansDoneHolds == Spec => []JoinedMeansDone
<1>1. ASSUME DoneInv PROVE JoinedMeansDone
  <2> USE <1>1 DEF DoneInv, LifeInv, PoolInv, Owners
  <2> SUFFICES ASSUME main \in Over
      PROVE  /\ \A w \in Workers : wpc[w] \in {"none", "end"}
             /\ ran = 1..made \/ failed # {} \/ threadNum = 0
    BY DEF JoinedMeansDone, Over
  <2>1. \A w \in Workers : wpc[w] \in {"none", "end"}
    BY DEF Joined, Idle, Over
  <2>2. ASSUME failed = {}, threadNum # 0 PROVE ran = 1..made
    <3>1. deque = <<>> /\ \A t \in Tasks : deleted[t] > 0 => t \in ran
      BY <2>2 DEF UnlessFailed
    <3>2. \A t \in Tasks : ~InDeque(t) /\ \A w \in Workers : task[w] # t
      <4>1. Len(deque) = 0
        BY <3>1
      <4>2. \A w \in Workers : task[w] = None
        BY <2>1 DEF TaskOwnership
      <4> QED  BY <4>1, <4>2, NoneAssumption DEF InDeque
    <3>3. made \in 0..TaskNum /\ TaskNum \in Nat /\ ran \subseteq Tasks
          /\ deleted \in [Tasks -> Nat]
      BY TaskNumAssumption DEF TypeOK
    <3>4. \A t \in Tasks : t <= made => t \in ran
      BY <3>1, <3>2 DEF NothingLost
    <3>5. \A t \in Tasks : t \in ran => ~(t > made)
      BY <3>3 DEF NothingLost, PushedInOrder
    <3>6. 1..made \subseteq Tasks
      BY <3>3 DEF Tasks
    <3>7. \A t \in Tasks : t \in 1..made <=> t <= made
      BY <3>3 DEF Tasks
    <3>8. \A t \in Tasks : t > made <=> ~(t <= made)
      BY <3>3 DEF Tasks
    <3> QED  BY <3>3, <3>4, <3>5, <3>6, <3>7, <3>8
  <2> QED  BY <2>1, <2>2
<1> QED  BY <1>1, PoolDoneInvariant, PTL

-----------------------------------------------------------------------------
(* What a failure leaves to the other threads                              *)

(* The threads that have tested m_bRunning and not taken a task yet.       *)
Takers == {w \in Workers : wpc[w] = "take"}

(* Once the pool is stopped, a late task needs a thread that had passed    *)
(* the test before, and the one that stopped the pool was not among them.  *)
LateRoom ==
  /\ running \/ main \in {"make", "hung"} => late = {}
  /\ main \in Living /\ ~running => Cardinality(late) + Cardinality(Takers) < threadNum
  /\ main \in Over => FewLateTasks

LateInv == DoneInv /\ LateRoom

(* Both sets are finite.                                                   *)
LEMMA LateFinite ==
  ASSUME TypeOK
  PROVE  /\ IsFiniteSet(late) /\ Cardinality(late) \in Nat
         /\ IsFiniteSet(Takers) /\ Cardinality(Takers) \in Nat
<1>1. IsFiniteSet(Tasks) /\ IsFiniteSet(Workers)
  BY FS_Interval, TaskNumAssumption, ThreadsAssumption DEF Tasks, Workers
<1>2. late \in SUBSET Tasks /\ Takers \in SUBSET Workers
  BY DEF TypeOK, Takers
<1>3. IsFiniteSet(late) /\ IsFiniteSet(Takers)
  BY <1>1, <1>2, FS_Subset
<1> QED  BY <1>3, FS_CardinalityType

(* A thread that is not about to take a task leaves room for one.          *)
LEMMA TakersBound ==
  ASSUME LifeInv, main \in Living, NEW w \in 1..threadNum, wpc[w] # "take"
  PROVE  Cardinality(Takers) < threadNum
<1>1. threadNum \in Nat /\ MaxThreads \in Nat
  BY ThreadsAssumption DEF LifeInv, PoolInv, Owners, TypeOK, Living
<1>2. Takers \in SUBSET ((1..threadNum) \ {w})
  <2> SUFFICES ASSUME NEW v \in Takers PROVE v \in 1..threadNum /\ v # w
    OBVIOUS
  <2>1. v \in Workers /\ wpc[v] = "take"
    BY DEF Takers
  <2>2. ~(v > threadNum)
    BY <2>1 DEF LifeInv, Joined, Living, Idle
  <2> QED  BY <1>1, <2>1, <2>2 DEF Workers
<1>3. /\ IsFiniteSet(1..threadNum)
      /\ Cardinality(1..threadNum) = threadNum
  BY <1>1, FS_Interval
<1>4. /\ IsFiniteSet((1..threadNum) \ {w})
      /\ Cardinality((1..threadNum) \ {w}) = threadNum - 1
  BY <1>3, FS_RemoveElement
<1>5. Cardinality(Takers) <= threadNum - 1
  <2>1. Cardinality(Takers) <= Cardinality((1..threadNum) \ {w})
    BY <1>2, <1>4, FS_Subset
  <2> QED  BY <1>4, <2>1
<1>6. Cardinality(Takers) \in Nat
  BY LateFinite DEF LifeInv, PoolInv, Owners
<1> QED  BY <1>1, <1>5, <1>6

(* A step in which no thread becomes a taker and no task is taken.         *)
LEMMA QuietLate ==
  ASSUME TypeOK, TypeOK', LateRoom, UNCHANGED <<main, running, late, threadNum>>,
         \A v \in Workers : wpc'[v] = "take" => wpc[v] = "take"
  PROVE  LateRoom'
<1>1. Takers' \in SUBSET Takers
  BY DEF Takers
<1>2. Cardinality(Takers') <= Cardinality(Takers)
  BY <1>1, FS_Subset, LateFinite
<1>3. Cardinality(late) \in Nat /\ Cardinality(Takers) \in Nat /\ Cardinality(Takers') \in Nat
  <2>1. IsFiniteSet(Takers')
    BY <1>1, FS_Subset, LateFinite
  <2> QED  BY <2>1, LateFinite, FS_CardinalityType
<1>4. main \in Living => threadNum \in Nat
  BY ThreadsAssumption DEF TypeOK, Living
<1>5. FewLateTasks => FewLateTasks'
  BY DEF FewLateTasks
<1> QED  BY <1>2, <1>3, <1>4, <1>5 DEF LateRoom

(* The room shrinks with every late task and every thread that ends.       *)
LEMMA LateRoomStep ==
  ASSUME LateInv, DoneInv', [Next]_vars
  PROVE  LateRoom'
<1> USE DEF LateInv, DoneInv, LifeInv, PoolInv, Owners
<1>1. /\ wpc \in [Workers -> WorkerStates] /\ next \in Nat /\ MaxThreads \in Nat
      /\ main \in Living => threadNum \in 0..MaxThreads
      /\ TypeOK /\ TypeOK'
  BY ThreadsAssumption DEF TypeOK, Living
<1>2. CASE Main
  <2>1. CASE AddTask
    BY <2>1 DEF AddTask, LateRoom, Living, Over, doneVars
  <2>2. CASE Start
    BY <2>2 DEF Start, LateRoom, Living, Over, doneVars
  <2>3. CASE Spawn
    <3>1. main \in Living /\ main' \in Living /\ main' \notin Over \cup {"make", "hung"}
          /\ main \notin {"make", "hung"}
      BY <2>3 DEF Spawn, Living, Over
    <3>2. UNCHANGED <<running, late, threadNum>>
      BY <2>3 DEF Spawn, doneVars, poolVars
    <3>3. Takers' = Takers
      <4>1. \A v \in Workers : wpc'[v] = IF v = next THEN "check" ELSE wpc[v]
        BY <1>1, <2>3 DEF Spawn
      <4>2. next \in Workers => wpc[next] = "none"
        BY <1>1, <2>3 DEF Spawn, NotYetSpawned
      <4> QED  BY <4>1, <4>2 DEF Takers
    <3> QED  BY <3>1, <3>2, <3>3 DEF LateRoom
  <2>4. CASE JoinSpawned \/ StartEnds
    <3>1. main \in Living /\ main' \in Living /\ main' \notin Over \cup {"make", "hung"}
          /\ main \notin {"make", "hung"}
      BY <2>4 DEF JoinSpawned, StartEnds, Living, Over
    <3>2. UNCHANGED <<running, late, threadNum, wpc>>
      BY <2>4 DEF JoinSpawned, StartEnds, doneVars, poolVars
    <3> QED  BY <3>1, <3>2 DEF LateRoom, Takers
  <2>5. CASE Join
    BY <1>1, <2>5, QuietLate DEF Join, doneVars, poolVars
  <2>6. CASE Destroy
    <3>1. main = "join" /\ main' = "drain" /\ ~running' /\ UNCHANGED <<late, threadNum>>
      BY <2>6 DEF Destroy, doneVars, poolVars
    <3>2. threadNum \in Nat /\ Cardinality(late) \in Nat /\ Cardinality(Takers) \in Nat
      BY <1>1, <3>1, LateFinite DEF Living
    <3>3. FewLateTasks'
      BY <3>1, <3>2 DEF LateRoom, Living, FewLateTasks
    <3> QED  BY <3>1, <3>3 DEF LateRoom, Living, Over
  <2>7. CASE DestroyDrains \/ DestroyPops
    <3>1. main \in Over /\ main' \in Over /\ main' \notin Living \cup {"make", "hung"}
      BY <2>7 DEF DestroyDrains, DestroyPops, Over, Living
    <3>2. UNCHANGED <<running, late, threadNum>>
      BY <2>7 DEF DestroyDrains, DestroyPops, doneVars, poolVars
    <3>3. FewLateTasks'
      BY <3>1, <3>2 DEF LateRoom, FewLateTasks
    <3> QED  BY <3>1, <3>2, <3>3 DEF LateRoom
  <2> QED  BY <1>2, <2>1, <2>2, <2>3, <2>4, <2>5, <2>6, <2>7 DEF Main
<1>3. CASE Hang
  BY <1>3 DEF Hang, LateRoom, Living, Over, doneVars
<1>4. ASSUME NEW w \in Workers, Worker(w) PROVE LateRoom'
  <2>1. main' = main /\ threadNum' = threadNum /\ ~Idle(w)
    BY <1>4 DEF Worker, CheckRunning, Take, NothingToTake, Run, Stop, StopDrains,
                StopPops, SetStop, poolVars, Idle
  <2>2. main \in Living
    <3>1. main \notin Over /\ main # "hung"
      BY <2>1 DEF Joined, Over
    <3>2. main # "make"
      BY <2>1 DEF NotYetSpawned, Idle
    <3> QED  BY <3>1, <3>2 DEF TypeOK, MainStates, Living, Over
  <2>3. threadNum \in Nat /\ Cardinality(late) \in Nat /\ Cardinality(Takers) \in Nat
        /\ IsFiniteSet(late) /\ IsFiniteSet(Takers)
    BY <1>1, <2>2, LateFinite
  <2>4. main \notin Over \cup {"make", "hung"} /\ w \in 1..threadNum
    <3>1. ~(w > threadNum)
      BY <2>1, <2>2 DEF Joined, Living
    <3> QED  BY <2>2, <2>3, <3>1 DEF Living, Over, Workers
  <2>5. CASE CheckRunning(w)
    <3>1. UNCHANGED <<running, late>>
      BY <2>5 DEF CheckRunning, doneVars
    <3>2. CASE running
      BY <2>1, <2>2, <2>4, <3>1, <3>2 DEF LateRoom
    <3>3. CASE ~running
      BY <1>1, <2>1, <2>5, <3>1, <3>3, QuietLate DEF CheckRunning
    <3> QED  BY <3>2, <3>3
  <2>6. CASE Take(w)
    <3>1. late' = (IF running THEN late ELSE late \cup {Head(deque)}) /\ running' = running
          /\ Takers' = Takers \ {w} /\ w \in Takers
      BY <1>1, <2>6 DEF Take, Takers
    <3>2. CASE running
      BY <2>1, <2>4, <3>1, <3>2 DEF LateRoom
    <3>3. CASE ~running
      <4>1. Cardinality(Takers') = Cardinality(Takers) - 1
        BY <2>3, <3>1, FS_RemoveElement
      <4>2. Cardinality(late') \in {Cardinality(late), Cardinality(late) + 1}
        BY <2>3, <3>1, <3>3, FS_AddElement
      <4>3. Cardinality(late) + Cardinality(Takers) < threadNum
        BY <2>2, <3>3 DEF LateRoom
      <4>4. Cardinality(late') + Cardinality(Takers') < threadNum
        BY <2>3, <4>1, <4>2, <4>3
      <4> QED  BY <2>1, <2>4, <3>1, <3>3, <4>4 DEF LateRoom
    <3> QED  BY <3>2, <3>3
  <2>7. CASE Stop(w)
    <3>1. UNCHANGED late /\ ~running' /\ wpc[w] # "take" /\ Takers' = Takers
      BY <1>1, <2>7 DEF Stop, doneVars, Takers
    <3>2. CASE running
      <4>1. Cardinality(Takers) < threadNum
        BY <2>2, <2>4, <3>1, TakersBound
      <4>2. late = {} /\ Cardinality(late) = 0
        BY <3>2, FS_EmptySet DEF LateRoom
      <4> QED  BY <2>1, <2>3, <2>4, <3>1, <4>1, <4>2 DEF LateRoom
    <3>3. CASE ~running
      BY <2>1, <2>4, <3>1, <3>3 DEF LateRoom
    <3> QED  BY <3>2, <3>3
  <2>8. ASSUME NEW ok \in BOOLEAN, Run(w, ok) PROVE LateRoom'
    BY <1>1, <2>1, <2>8, QuietLate DEF Run
  <2>9. CASE NothingToTake(w) \/ StopDrains(w) \/ StopPops(w) \/ SetStop(w)
    <3>1. UNCHANGED <<running, late>> /\ \A v \in Workers : wpc'[v] = "take" => wpc[v] = "take"
      BY <1>1, <2>9 DEF NothingToTake, StopDrains, StopPops, SetStop, doneVars
    <3> QED  BY <1>1, <2>1, <3>1, QuietLate
  <2> QED  BY <1>4, <2>5, <2>6, <2>7, <2>8, <2>9 DEF Worker
<1>5. CASE UNCHANGED vars
  BY <1>1, <1>5, QuietLate DEF vars
<1> QED  BY <1>2, <1>3, <1>4, <1>5 DEF Next

(* FewLateTasks: after a failure fewer tasks are started than there are    *)
(* threads, however many are queued.                                       *)
THEOREM FewLateTasksHolds == Spec => []FewLateTasks
<1>1. Init => LateRoom
  BY DEF Init, LateRoom, Living, Over
<1>2. LateRoom /\ DoneInv /\ DoneInv' /\ [Next]_vars => LateRoom'
  BY LateRoomStep DEF LateInv
<1>3. ASSUME DoneInv, LateRoom PROVE FewLateTasks
  <2>1. TypeOK /\ Cardinality(late) \in Nat /\ Cardinality(Takers) \in Nat
    BY <1>3, LateFinite DEF DoneInv, LifeInv, PoolInv, Owners
  <2>2. main \in Living => threadNum \in Nat
    BY <2>1, ThreadsAssumption DEF TypeOK, Living
  <2>3. main \in Living \/ main \in Over \/ main \in {"make", "hung"}
    BY <2>1 DEF TypeOK, MainStates, Living, Over
  <2> QED  BY <1>3, <2>1, <2>2, <2>3 DEF LateRoom, FewLateTasks
<1> QED  BY <1>1, <1>2, <1>3, PoolDoneInvariant, PTL DEF Spec
================================================================================
