------------------------------- MODULE ThreadPool -------------------------------
(***************************************************************************)
(* The thread pool of http_multi_download (src/ThreadPool.cpp) and its     *)
(* task queue (common/kdeque.hpp), as main.cpp uses them: the main thread  *)
(* pushes the tasks, starts the threads, joins them and destroys the pool. *)
(*                                                                         *)
(* A step of a thread is what it does under one lock: KDeque's operations  *)
(* are atomic (each takes the deque's mutex), and so is each read or write *)
(* of m_bRunning (under m_mutex).  Everything between two of those may be  *)
(* interleaved with the other threads.                                     *)
(*                                                                         *)
(* Abstractions: a task's Run is one step whose outcome, success or        *)
(* failure (a negative result or an exception), is nondeterministic; it    *)
(* always returns (CurlHttpTask limits every transfer to 300 s).  The      *)
(* queue has no capacity (m_maxCapacity is -1).                            *)
(***************************************************************************)
EXTENDS Naturals, Sequences, FiniteSets

CONSTANTS
  TaskNum,    \* the number of tasks MakeTask creates
  MaxThreads, \* m_nThreadMaxNum
  ThreadArgs, \* values of the command line's thread number
  CpuNums,    \* values of sysconf(_SC_NPROCESSORS_ONLN)
  None        \* no task: the NULL pointer

ASSUME TaskNumAssumption == TaskNum \in Nat
ASSUME ThreadsAssumption ==
  /\ MaxThreads \in Nat
  /\ ThreadArgs \subseteq Nat
  /\ CpuNums \subseteq Nat \ {0}

Tasks == 1..TaskNum
Workers == 1..MaxThreads

ASSUME NoneAssumption == None \notin Tasks

VARIABLES
  main,       \* control state of the main thread
  made,       \* tasks pushed by MakeTask
  deque,      \* KDeque::m_deque
  dqRunning,  \* KDeque::m_running
  running,    \* ThreadPool::m_bRunning
  threadNum,  \* ThreadPool::m_nThreadNum
  cpuNum,     \* the machine's processors
  next,       \* the loop variable of Start and of Join
  wpc,        \* wpc[w]: control state of thread w
  task,       \* task[w]: the task w has taken and not deleted
  deleted,    \* deleted[t]: how often t has been deleted
  ran, failed,\* the tasks whose Run succeeded, failed
  late        \* the tasks taken after m_bRunning had become false

vars == <<main, made, deque, dqRunning, running, threadNum, cpuNum, next, wpc,
          task, deleted, ran, failed, late>>
poolVars == <<made, threadNum, cpuNum>>
doneVars == <<deleted, ran, failed, late>>

MainStates == {"make", "spawn", "spawned", "join", "drain", "pop", "exit", "hung"}
WorkerStates == {"none", "check", "take", "run", "stop", "drain", "pop",
                 "setstop", "end"}

TypeOK ==
  /\ main \in MainStates
  /\ made \in 0..TaskNum
  /\ deque \in Seq(Tasks)
  /\ dqRunning \in BOOLEAN
  /\ running \in BOOLEAN
  /\ threadNum \in (IF main \in {"make", "hung"} THEN ThreadArgs ELSE 0..MaxThreads)
  /\ cpuNum \in CpuNums
  /\ next \in Nat
  /\ wpc \in [Workers -> WorkerStates]
  /\ task \in [Workers -> Tasks \cup {None}]
  /\ deleted \in [Tasks -> Nat]
  /\ ran \subseteq Tasks
  /\ failed \subseteq Tasks
  /\ late \subseteq Tasks

Init ==
  /\ main = "make"
  /\ made = 0
  /\ deque = <<>>
  /\ dqRunning = TRUE
  /\ running = FALSE
  /\ threadNum \in ThreadArgs
  /\ cpuNum \in CpuNums
  /\ next = 0
  /\ wpc = [w \in Workers |-> "none"]
  /\ task = [w \in Workers |-> None]
  /\ deleted = [t \in Tasks |-> 0]
  /\ ran = {}
  /\ failed = {}
  /\ late = {}

Least(a, b) == IF a <= b THEN a ELSE b

-----------------------------------------------------------------------------
(* KDeque: pop_front returns NULL when the deque is stopped or empty.      *)
CanPop == dqRunning /\ deque # <<>>

(* AddTask: push_back.                                                     *)
AddTask ==
  /\ main = "make" /\ made < TaskNum
  /\ made' = made + 1
  /\ deque' = Append(deque, made + 1)
  /\ UNCHANGED <<main, dqRunning, running, threadNum, cpuNum, next, wpc, task,
                 doneVars>>

(* AddTask signals a condition variable, and Start locks a mutex, that are *)
(* initialised only later in Start: on the garbage of main's stack either  *)
(* may block for ever.                                                     *)
Hang ==
  /\ main = "make"
  /\ main' = "hung"
  /\ UNCHANGED <<deque, dqRunning, running, next, wpc, task, poolVars, doneVars>>

(* Mutant: Start does not cap the number of threads.                       *)
StartUncapped ==
  /\ main = "make" /\ made \in {0, TaskNum}
  /\ running' = TRUE
  /\ dqRunning' = TRUE
  /\ threadNum' = Least(threadNum, Len(deque))
  /\ main' = "spawn"
  /\ next' = 1
  /\ UNCHANGED <<made, deque, cpuNum, wpc, task, doneVars>>

(* Start, up to its loop.  With less work than threads there are fewer     *)
(* threads.                                                                *)
Start ==
  /\ main = "make" /\ made \in {0, TaskNum}
  /\ running' = TRUE
  /\ dqRunning' = TRUE
  /\ threadNum' = Least(Least(threadNum, Len(deque)), MaxThreads)
  /\ main' = "spawn"
  /\ next' = 1
  /\ UNCHANGED <<made, deque, cpuNum, wpc, task, doneVars>>

(* pthread_create.  When there are more processors than threads, Start     *)
(* joins the new thread before it creates another one.                     *)
Spawn ==
  /\ main = "spawn" /\ next <= threadNum
  /\ wpc' = [wpc EXCEPT ![next] = "check"]
  /\ main' = IF cpuNum > threadNum THEN "spawned" ELSE "spawn"
  /\ next' = IF cpuNum > threadNum THEN next ELSE next + 1
  /\ UNCHANGED <<deque, dqRunning, running, task, poolVars, doneVars>>

JoinSpawned ==
  /\ main = "spawned" /\ wpc[next] = "end"
  /\ main' = "spawn"
  /\ next' = next + 1
  /\ UNCHANGED <<deque, dqRunning, running, wpc, task, poolVars, doneVars>>

StartEnds ==
  /\ main = "spawn" /\ next > threadNum
  /\ main' = "join"
  /\ next' = 1
  /\ UNCHANGED <<deque, dqRunning, running, wpc, task, poolVars, doneVars>>

(* Mutant: Join returns while threads run.                                 *)
JoinEarly ==
  /\ main = "join" /\ next <= threadNum
  /\ next' = next + 1
  /\ UNCHANGED <<main, deque, dqRunning, running, wpc, task, poolVars, doneVars>>

(* Join.  A thread that Start has joined already is joined again, which    *)
(* fails at once (ESRCH): it has ended all the same.                       *)
Join ==
  /\ main = "join" /\ next <= threadNum /\ wpc[next] = "end"
  /\ next' = next + 1
  /\ UNCHANGED <<main, deque, dqRunning, running, wpc, task, poolVars, doneVars>>

(* ~ThreadPool, up to its loop.                                            *)
Destroy ==
  /\ main = "join" /\ next > threadNum
  /\ running' = FALSE
  /\ main' = "drain"
  /\ UNCHANGED <<deque, dqRunning, next, wpc, task, poolVars, doneVars>>

(* The loop of ~ThreadPool: if the deque is stopped but not empty,         *)
(* pop_front returns NULL for ever.                                        *)
DestroyDrains ==
  /\ main = "drain"
  /\ main' = IF deque # <<>> THEN "pop" ELSE "exit"
  /\ dqRunning' = IF deque # <<>> THEN dqRunning ELSE FALSE
  /\ UNCHANGED <<deque, running, next, wpc, task, poolVars, doneVars>>

DeleteHead ==
  /\ deque' = IF CanPop THEN Tail(deque) ELSE deque
  /\ deleted' = IF CanPop THEN [deleted EXCEPT ![Head(deque)] = @ + 1] ELSE deleted

DestroyPops ==
  /\ main = "pop"
  /\ DeleteHead
  /\ main' = "drain"
  /\ UNCHANGED <<dqRunning, running, next, wpc, task, poolVars, ran, failed, late>>

-----------------------------------------------------------------------------
(* ThreadFunc *)

(* Mutant: ThreadFunc does not test m_bRunning.                            *)
CheckNothing(w) ==
  /\ wpc[w] = "check"
  /\ wpc' = [wpc EXCEPT ![w] = "take"]
  /\ UNCHANGED <<main, deque, dqRunning, running, next, task, poolVars, doneVars>>

(* The test of m_bRunning, under m_mutex.                                  *)
CheckRunning(w) ==
  /\ wpc[w] = "check"
  /\ wpc' = [wpc EXCEPT ![w] = IF running THEN "take" ELSE "end"]
  /\ UNCHANGED <<main, deque, dqRunning, running, next, task, poolVars, doneVars>>

(* Mutant: Take reads the front of the deque and leaves it there.          *)
TakeFront(w) ==
  /\ wpc[w] = "take" /\ CanPop
  /\ task' = [task EXCEPT ![w] = Head(deque)]
  /\ late' = IF running THEN late ELSE late \cup {Head(deque)}
  /\ wpc' = [wpc EXCEPT ![w] = "run"]
  /\ UNCHANGED <<main, deque, dqRunning, running, next, poolVars, deleted, ran, failed>>

(* Mutant: Take takes from the back (KDeque::pop_back).                    *)
TakeBack(w) ==
  /\ wpc[w] = "take" /\ CanPop
  /\ task' = [task EXCEPT ![w] = deque[Len(deque)]]
  /\ deque' = SubSeq(deque, 1, Len(deque) - 1)
  /\ late' = IF running THEN late ELSE late \cup {deque[Len(deque)]}
  /\ wpc' = [wpc EXCEPT ![w] = "run"]
  /\ UNCHANGED <<main, dqRunning, running, next, poolVars, deleted, ran, failed>>

Take(w) ==
  /\ wpc[w] = "take" /\ CanPop
  /\ task' = [task EXCEPT ![w] = Head(deque)]
  /\ deque' = Tail(deque)
  /\ late' = IF running THEN late ELSE late \cup {Head(deque)}
  /\ wpc' = [wpc EXCEPT ![w] = "run"]
  /\ UNCHANGED <<main, dqRunning, running, next, poolVars, deleted, ran, failed>>

NothingToTake(w) ==
  /\ wpc[w] = "take" /\ ~CanPop
  /\ wpc' = [wpc EXCEPT ![w] = "end"]
  /\ UNCHANGED <<main, deque, dqRunning, running, next, task, poolVars, doneVars>>

(* pTask->Run() and the delete that follows it.                            *)
Run(w, ok) ==
  /\ wpc[w] = "run"
  /\ deleted' = [deleted EXCEPT ![task[w]] = @ + 1]
  /\ ran' = IF ok THEN ran \cup {task[w]} ELSE ran
  /\ failed' = IF ok THEN failed ELSE failed \cup {task[w]}
  /\ task' = [task EXCEPT ![w] = None]
  /\ wpc' = [wpc EXCEPT ![w] = IF ok THEN "check" ELSE "stop"]
  /\ UNCHANGED <<main, deque, dqRunning, running, next, poolVars, late>>

(* Mutant: Stop stops the deque before it drains it.                       *)
StopDequeFirst(w) ==
  /\ wpc[w] = "stop"
  /\ running' = FALSE
  /\ dqRunning' = FALSE
  /\ wpc' = [wpc EXCEPT ![w] = IF running THEN "drain" ELSE "check"]
  /\ UNCHANGED <<main, deque, next, task, poolVars, doneVars>>

(* Stop: only the first caller drains the deque.                           *)
Stop(w) ==
  /\ wpc[w] = "stop"
  /\ running' = FALSE
  /\ wpc' = [wpc EXCEPT ![w] = IF running THEN "drain" ELSE "check"]
  /\ UNCHANGED <<main, deque, dqRunning, next, task, poolVars, doneVars>>

(* Mutant: Stop leaves one task in the deque.                              *)
StopDrainsAllButOne(w) ==
  /\ wpc[w] = "drain"
  /\ wpc' = [wpc EXCEPT ![w] = IF Len(deque) > 1 THEN "pop" ELSE "setstop"]
  /\ UNCHANGED <<main, deque, dqRunning, running, next, task, poolVars, doneVars>>

StopDrains(w) ==
  /\ wpc[w] = "drain"
  /\ wpc' = [wpc EXCEPT ![w] = IF deque # <<>> THEN "pop" ELSE "setstop"]
  /\ UNCHANGED <<main, deque, dqRunning, running, next, task, poolVars, doneVars>>

StopPops(w) ==
  /\ wpc[w] = "pop"
  /\ DeleteHead
  /\ wpc' = [wpc EXCEPT ![w] = "drain"]
  /\ UNCHANGED <<main, dqRunning, running, next, task, poolVars, ran, failed, late>>

SetStop(w) ==
  /\ wpc[w] = "setstop"
  /\ dqRunning' = FALSE
  /\ wpc' = [wpc EXCEPT ![w] = "check"]
  /\ UNCHANGED <<main, deque, running, next, task, poolVars, doneVars>>

-----------------------------------------------------------------------------
Main ==
  \/ AddTask
  \/ Start
  \/ Spawn
  \/ JoinSpawned
  \/ StartEnds
  \/ Join
  \/ Destroy
  \/ DestroyDrains
  \/ DestroyPops

Worker(w) ==
  \/ CheckRunning(w)
  \/ Take(w)
  \/ NothingToTake(w)
  \/ \E ok \in BOOLEAN : Run(w, ok)
  \/ Stop(w)
  \/ StopDrains(w)
  \/ StopPops(w)
  \/ SetStop(w)

Next == Main \/ Hang \/ \E w \in Workers : Worker(w)

Spec == Init /\ [][Next]_vars

(* The operating system schedules every thread that can run.               *)
Fairness == WF_vars(Main) /\ \A w \in Workers : WF_vars(Worker(w))

FairSpec == Spec /\ Fairness

-----------------------------------------------------------------------------
(* Properties *)

InDeque(t) == \E i \in 1..Len(deque) : deque[i] = t

(* A task has one owner: it is queued once, or in the hands of one thread, *)
(* or has been deleted, exactly once.  Stop and the destructor delete      *)
(* queued tasks while other threads take and delete theirs; no task is     *)
(* deleted twice, and none is run after somebody deleted it.               *)
TaskOwnership ==
  /\ \A i, j \in 1..Len(deque) : deque[i] = deque[j] => i = j
  /\ \A w, v \in Workers : task[w] # None /\ task[w] = task[v] => w = v
  /\ \A t \in Tasks :
       /\ deleted[t] <= 1
       /\ InDeque(t) => deleted[t] = 0 /\ \A w \in Workers : task[w] # t
       /\ \A w \in Workers : task[w] = t => deleted[t] = 0
  /\ \A w \in Workers : (task[w] # None) <=> wpc[w] = "run"

(* When the main thread has joined the threads and goes on to destroy the  *)
(* pool, no thread is alive to use it, and no task has been forgotten: all *)
(* of them have run, unless one failed or no thread was asked for.         *)
JoinedMeansDone ==
  main \in {"drain", "pop", "exit"} =>
    /\ \A w \in Workers : wpc[w] \in {"none", "end"}
    /\ \/ ran = 1..made
       \/ failed # {}
       \/ threadNum = 0

(* Once the deque has been stopped it is empty and stays so, which is why  *)
(* the loop of the destructor, pop_front until empty, does not spin.       *)
StoppedIsEmpty == ~dqRunning => deque = <<>>

(* A failure does not interrupt the other threads, but each of them starts *)
(* at most one more task after it, whatever the length of the queue; the   *)
(* thread that stopped the pool starts none.                               *)
FewLateTasks == late # {} => Cardinality(late) < threadNum

(* The program ends (unless the uninitialised lock blocks it): no thread   *)
(* waits for ever, and neither drain loop spins on a stopped deque.        *)
Terminates == <>(main \in {"exit", "hung"})

(* How far a task has come, read off the pool.                             *)
Held(t) == \E w \in Workers : task[w] = t
StateOf(t) ==
  IF t \in ran THEN "ran"
  ELSE IF t \in failed THEN "failed"
  ELSE IF deleted[t] > 0 THEN "dropped"
  ELSE IF Held(t) THEN "held"
  ELSE IF InDeque(t) THEN "queued" ELSE "unmade"

Life == INSTANCE TaskLife WITH state <- [t \in Tasks |-> StateOf(t)], over <- main = "exit"

(* The pool implements TaskLife: every task it was given has one of the    *)
(* three ends when the program exits, no task has two, none goes back to   *)
(* an earlier state, and tasks are taken, by whichever thread, and dropped *)
(* from the oldest on.                                                     *)
TasksLiveOnce == Life!Spec
================================================================================
