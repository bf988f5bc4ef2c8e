-------------------------------- MODULE Download --------------------------------
(***************************************************************************)
(* How http_multi_download cuts a file into ranges (DownLoadFactory.cpp,   *)
(* MakeTask) and how the tasks of the ranges, which run in parallel, write *)
(* what curl delivers into one shared FILE (CurlHttpTask.cpp: Run, and the *)
(* callback write_data).                                                   *)
(*                                                                         *)
(* The bytes of the remote file are its positions 0..len-1.  A cell of the *)
(* local file tells which byte was written there, and by which task.  The  *)
(* three calls under CurlHttpTask::m_mutex (the test with the fseek, the   *)
(* fwrite, the update of m_startPos) are two steps, so that what the mutex *)
(* protects can be seen.                                                   *)
(*                                                                         *)
(* The server (external) honours the Range header, or ignores it, as HTTP  *)
(* allows, and sends the whole file to every task.  The pool (ThreadPool)  *)
(* starts the tasks in their order, Threads of them at a time.             *)
(***************************************************************************)
EXTENDS Integers, Sequences, FiniteSets

CONSTANTS
  RangeSize,  \* RANGE_SIZE
  IntMax,     \* INT_MAX: the width of MakeTask's loop arithmetic
  Lens,       \* lengths of the remote file
  Honours,    \* whether servers honour Range: a subset of BOOLEAN
  DiskErrors, \* whether the disk may fill up: a subset of BOOLEAN
  Threads,    \* tasks that run at a time
  MaxChunk,   \* largest chunk curl delivers in one call of write_data
  Hole        \* a cell of the local file that was never written

ASSUME RangeAssumption == RangeSize \in Nat \ {0} /\ IntMax \in Nat \ {0}
ASSUME LensAssumption == Lens \subseteq Nat \ {0}
ASSUME HonoursAssumption == Honours \subseteq BOOLEAN /\ DiskErrors \subseteq BOOLEAN
ASSUME ThreadsAssumption == Threads \in Nat \ {0} /\ MaxChunk \in Nat \ {0}
ASSUME HoleAssumption == Hole \notin [byte : Nat, by : Nat]

-----------------------------------------------------------------------------
(* MakeTask *)

(* The value of an int expression: the build (no -O, see Makefile) wraps.  *)
Wrap(x) == ((x + IntMax + 1) % (2 * (IntMax + 1))) - (IntMax + 1)

Least(a, b) == IF a <= b THEN a ELSE b

Segment(start, stop, ranged) == [start |-> start, stop |-> stop, ranged |-> ranged]

(* Mutant: the rest after the last whole range is forgotten.               *)
MakeTaskNoRest(n) ==
  IF n <= RangeSize
  THEN <<Segment(0, n - 1, FALSE)>>
  ELSE [k \in 1..(n \div RangeSize) |->
          Segment((k - 1) * RangeSize, k * RangeSize - 1, TRUE)]

MakeTask(n) ==
  LET segNum == n \div RangeSize
      count  == IF n % RangeSize = 0 THEN segNum ELSE segNum + 1
      Start(k) == Wrap((k - 1) * RangeSize)
      Stop(k)  == IF k <= segNum THEN Wrap(k * RangeSize - 1) ELSE n - 1
  IN IF n <= RangeSize
     THEN <<Segment(0, n - 1, FALSE)>>
     ELSE [k \in 1..count |-> Segment(Start(k), Stop(k), TRUE)]

VARIABLES
  len,      \* the length of the remote file
  honour,   \* the server honours Range
  full,     \* the disk may fill up: a write to it may fall short
  segs,     \* the tasks' ranges
  st,       \* st[k]: queued, running, ok (Run returned 0), failed (Run < 0)
  got,      \* got[k]: bytes curl has delivered to task k
  pos,      \* pos[k]: m_startPos
  chunk,    \* chunk[k]: length of the chunk write_data holds (0: not called)
  lock,     \* the task that holds CurlHttpTask::m_mutex, 0 if none
  fpos,     \* the position of the FILE
  file      \* file[p]: the cell at p: the byte, and the task that wrote it

vars == <<len, honour, full, segs, st, got, pos, chunk, lock, fpos, file>>
planVars == <<len, honour, full, segs>>

Indices == DOMAIN segs
Cells   == 0..(len - 1)

TypeOK ==
  /\ len \in Lens
  /\ honour \in Honours
  /\ full \in DiskErrors
  /\ segs \in Seq([start : Int, stop : Int, ranged : BOOLEAN])
  /\ st \in [Indices -> {"queued", "running", "ok", "failed"}]
  /\ got \in [Indices -> Nat]
  /\ pos \in [Indices -> Int]
  /\ chunk \in [Indices -> 0..MaxChunk]
  /\ lock \in Indices \cup {0}
  /\ fpos \in 0..len
  /\ file \in [Cells -> [byte : Cells, by : Indices] \cup {Hole}]

Init ==
  /\ len \in Lens
  /\ honour \in Honours
  /\ full \in DiskErrors
  /\ segs = MakeTask(len)
  /\ st = [k \in Indices |-> "queued"]
  /\ got = [k \in Indices |-> 0]
  /\ pos = [k \in Indices |-> segs[k].start]
  /\ chunk = [k \in Indices |-> 0]
  /\ lock = 0
  /\ fpos = 0
  /\ file = [p \in Cells |-> Hole]

-----------------------------------------------------------------------------
(* The response to task k: the bytes first..last.                          *)
First(k) == IF segs[k].ranged /\ honour THEN segs[k].start ELSE 0
Final(k) == IF segs[k].ranged /\ honour THEN segs[k].stop ELSE len - 1
Left(k)  == Final(k) - First(k) + 1 - got[k]

(* The pool runs the task.  A range whose bounds have wrapped is none that *)
(* a server can answer; what then happens is not modelled.                 *)
StartTask(k) ==
  /\ st[k] = "queued"
  /\ \A j \in 1..(k - 1) : st[j] # "queued"
  /\ Cardinality({j \in Indices : st[j] = "running"}) < Threads
  /\ 0 <= segs[k].start /\ segs[k].start <= segs[k].stop
  /\ st' = [st EXCEPT ![k] = "running"]
  /\ UNCHANGED <<planVars, got, pos, chunk, lock, fpos, file>>

(* Mutant: write_data without the mutex.                                   *)
LockAndSeekUnlocked(k, c) ==
  /\ st[k] = "running" /\ chunk[k] = 0 /\ segs[k].ranged
  /\ c <= Left(k)
  /\ lock' = k
  /\ chunk' = [chunk EXCEPT ![k] = c]
  /\ fpos' = pos[k]
  /\ UNCHANGED <<planVars, st, got, pos, file>>

(* write_data, ranged: lock, and fseek to m_startPos.                      *)
LockAndSeek(k, c) ==
  /\ st[k] = "running" /\ chunk[k] = 0 /\ segs[k].ranged
  /\ c <= Left(k)
  /\ lock = 0
  /\ lock' = k
  /\ chunk' = [chunk EXCEPT ![k] = c]
  /\ fpos' = pos[k]
  /\ UNCHANGED <<planVars, st, got, pos, file>>

(* fwrite of n bytes at the position of the FILE, of which w are written.  *)
Fwrite(k, n, w) ==
  /\ w = n \/ (full /\ w < n)
  /\ fpos' = fpos + w
  /\ file' = [p \in Cells |->
                IF fpos <= p /\ p < fpos + w
                THEN [byte |-> First(k) + got[k] + p - fpos, by |-> k]
                ELSE file[p]]

(* write_data, ranged: fwrite, the update of m_startPos, and unlock.  The  *)
(* chunk that reaches the end of the range is cut there, and m_startPos is *)
(* left on the last byte.                                                  *)
FitsInside(k) == pos[k] + chunk[k] <= segs[k].stop
(* Mutants: the last chunk is not cut; it is cut one byte too late.        *)
ToWriteUncut(k) == chunk[k]
ToWriteOneMore(k) ==
  IF FitsInside(k) THEN chunk[k] ELSE Least(chunk[k], segs[k].stop - pos[k] + 2)

ToWrite(k) == IF FitsInside(k) THEN chunk[k] ELSE segs[k].stop - pos[k] + 1
NextPos(k) == IF FitsInside(k) THEN pos[k] + chunk[k] ELSE segs[k].stop

(* Run, after the transfer: curl aborts with error 23 when write_data has  *)
(* taken fewer bytes than it was given, and Run takes that for success.    *)
AfterWrite(k, w) == IF w < chunk[k] THEN "ok" ELSE "running"

WriteRanged(k, w) ==
  /\ chunk[k] > 0
  /\ Fwrite(k, ToWrite(k), w)
  /\ pos' = [pos EXCEPT ![k] = NextPos(k)]
  /\ got' = [got EXCEPT ![k] = @ + chunk[k]]
  /\ st' = [st EXCEPT ![k] = AfterWrite(k, w)]
  /\ chunk' = [chunk EXCEPT ![k] = 0]
  /\ lock' = 0
  /\ UNCHANGED planVars

(* write_data, not ranged: the only task appends to the file.              *)
WriteWhole(k, c, w) ==
  /\ st[k] = "running" /\ ~segs[k].ranged
  /\ c <= Left(k)
  /\ Fwrite(k, c, w)
  /\ got' = [got EXCEPT ![k] = @ + c]
  /\ st' = [st EXCEPT ![k] = IF w < c THEN "ok" ELSE "running"]
  /\ UNCHANGED <<planVars, pos, chunk, lock>>

(* Run: the response is complete.                                          *)
RunSucceeds(k) ==
  /\ st[k] = "running" /\ chunk[k] = 0 /\ Left(k) = 0
  /\ st' = [st EXCEPT ![k] = "ok"]
  /\ UNCHANGED <<planVars, got, pos, chunk, lock, fpos, file>>

(* Mutant: Run ignores every error of curl, not only error 23.             *)
RunFailsIgnored(k) ==
  /\ st[k] = "running" /\ chunk[k] = 0
  /\ st' = [st EXCEPT ![k] = "ok"]
  /\ UNCHANGED <<planVars, got, pos, chunk, lock, fpos, file>>

(* Run: a timeout, a refused or a broken connection.                       *)
RunFails(k) ==
  /\ st[k] = "running" /\ chunk[k] = 0
  /\ st' = [st EXCEPT ![k] = "failed"]
  /\ UNCHANGED <<planVars, got, pos, chunk, lock, fpos, file>>

Next ==
  \E k \in Indices :
    \/ StartTask(k)
    \/ \E c \in 1..MaxChunk : LockAndSeek(k, c)
    \/ \E w \in 0..MaxChunk : WriteRanged(k, w)
    \/ \E c \in 1..MaxChunk : \E w \in 0..c : WriteWhole(k, c, w)
    \/ RunSucceeds(k)
    \/ RunFails(k)

Spec == Init /\ [][Next]_vars

-----------------------------------------------------------------------------
(* Properties *)

(* "In units of 10M one download task is created, files over 10M need to   *)
(* be cut" (DownLoadFactory.cpp:4): the tasks' ranges cover every byte of  *)
(* the file exactly once, and none is longer than RANGE_SIZE.              *)
SegmentsTile ==
  /\ \A p \in Cells :
       \E k \in Indices :
         /\ segs[k].start <= p /\ p <= segs[k].stop
         /\ \A j \in Indices \ {k} : p < segs[j].start \/ segs[j].stop < p
  /\ \A k \in Indices : segs[k].stop - segs[k].start < RangeSize

(* A task writes inside its own range only, whatever the server sends and  *)
(* however the tasks interleave on the one FILE they share.                *)
OwnSegmentOnly ==
  \A p \in Cells :
    file[p] # Hole =>
      segs[file[p].by].start <= p /\ p <= segs[file[p].by].stop

(* With a server that honours Range every byte that has been written is at *)
(* its place: two tasks' seeks and writes never mix.                       *)
BytesInPlace ==
  honour => \A p \in Cells : file[p] # Hole => file[p].byte = p

(* When every task reports success, the local file is the remote one,      *)
(* unless the disk filled up: error 23, which Run takes for the cut of the *)
(* last chunk (CurlHttpTask.cpp:104), is also that of a full disk.         *)
SuccessMeansComplete ==
  honour /\ ~full /\ (\A k \in Indices : st[k] = "ok") =>
    \A p \in Cells : file[p] # Hole /\ file[p].byte = p
================================================================================
