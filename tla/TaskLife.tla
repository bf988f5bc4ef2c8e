-------------------------------- MODULE TaskLife --------------------------------
(***************************************************************************)
(* What the thread pool of http_multi_download promises about its tasks,   *)
(* without threads, queue or locks: a task is made, waits, and then either *)
(* is run once, to success or failure, or is dropped without having been   *)
(* run.  Tasks leave the waiting in the order they were made, and the      *)
(* program exits only when no task is waiting or being run.                *)
(***************************************************************************)
EXTENDS Naturals

CONSTANT TaskNum \* the number of tasks

VARIABLES
  state, \* state[t]: how far task t has come
  over   \* has the program exited?

Tasks == 1..TaskNum
Ended == {"ran", "failed", "dropped"}

Init ==
  /\ state = [t \in Tasks |-> "unmade"]
  /\ over = FALSE

Becomes(t, s) == state' = [state EXCEPT ![t] = s] /\ UNCHANGED over

(* Tasks are made one after the other.                                     *)
Make(t) ==
  /\ state[t] = "unmade" /\ \A u \in Tasks : u < t => state[u] # "unmade"
  /\ Becomes(t, "queued")

Oldest(t) == state[t] = "queued" /\ \A u \in Tasks : u < t => state[u] # "queued"

Take(t) == Oldest(t) /\ Becomes(t, "held")

Drop(t) == Oldest(t) /\ Becomes(t, "dropped")

End(t) == state[t] = "held" /\ \E s \in {"ran", "failed"} : Becomes(t, s)

Exit ==
  /\ \A t \in Tasks : state[t] \in Ended \cup {"unmade"}
  /\ over' = TRUE
  /\ UNCHANGED state

Next ==
  /\ ~over
  /\ \/ \E t \in Tasks : Make(t) \/ Take(t) \/ Drop(t) \/ End(t)
     \/ Exit

Spec == Init /\ [][Next]_<<state, over>>
================================================================================
