---------------------------- MODULE DownloadProofs ----------------------------
(***************************************************************************)
(* Proofs about Download: the ranges MakeTask creates tile the file, for   *)
(* every RANGE_SIZE and every length whose last range starts at a position *)
(* an int can hold; the tasks write inside their ranges, every byte at its *)
(* place, whatever MakeTask's arithmetic does; and when all of them report *)
(* success the file is complete.                                           *)
(***************************************************************************)
EXTENDS Download, SequenceTheorems, TLAPS

(* Division with rest.                                                     *)
LEMMA Division ==
  ASSUME NEW n \in Nat, NEW r \in Nat \ {0}
  PROVE  /\ n \div r \in Nat
         /\ n % r \in 0..(r - 1)
         /\ n = (n \div r) * r + (n % r)
  OBVIOUS

(* A number below the divisor is its own rest.                             *)
LEMMA SmallRest ==
  ASSUME NEW a \in Nat, NEW m \in Nat \ {0}, a < m
  PROVE  a % m = a
  OBVIOUS

(* Multiples of r are at least r apart.                                    *)
LEMMA Multiples ==
  ASSUME NEW i \in Nat, NEW j \in Nat, i < j, NEW r \in Nat
  PROVE  i * r + r <= j * r
  OBVIOUS

-----------------------------------------------------------------------------
(* The arithmetic of MakeTask's loop stays within an int.                  *)
FitsInt == \A n \in Lens : (n \div RangeSize) * RangeSize <= IntMax

(* An int expression whose value an int can hold has that value.           *)
LEMMA WrapFits ==
  ASSUME NEW x \in Nat, x <= IntMax
  PROVE  Wrap(x) = x
<1> DEFINE m == 2 * (IntMax + 1)
           a == x + IntMax + 1
<1>1. IntMax \in Nat
  BY RangeAssumption
<1>2. m \in Nat \ {0} /\ a \in Nat /\ a < m
  BY <1>1
<1>3. a % m = a
  <2> HIDE DEF m, a
  <2> QED  BY <1>2, SmallRest
<1> QED
  BY <1>1, <1>3 DEF Wrap

(* The number of ranges of a file of n bytes.                              *)
Count(n) == IF n % RangeSize = 0 THEN n \div RangeSize ELSE (n \div RangeSize) + 1

(* What MakeTask returns for a file that needs several ranges: range k     *)
(* starts where k - 1 ranges end, and ends RANGE_SIZE further or with the  *)
(* file.                                                                   *)
LEMMA Ranges ==
  ASSUME FitsInt, NEW n \in Lens, RangeSize < n
  PROVE  /\ DOMAIN MakeTask(n) = 1..Count(n)
         /\ \A k \in 1..Count(n) :
              /\ MakeTask(n)[k].start = (k - 1) * RangeSize
              /\ MakeTask(n)[k].stop = IF k <= n \div RangeSize
                                       THEN k * RangeSize - 1 ELSE n - 1
<1> DEFINE R == RangeSize
           q == n \div R
<1>1. n \in Nat /\ R \in Nat \ {0} /\ IntMax \in Nat /\ ~(n <= R)
  BY RangeAssumption, LensAssumption
<1>2. q \in Nat /\ q * R \in Nat /\ q * R <= IntMax /\ Count(n) \in {q, q + 1}
  <2>1. q \in Nat
    BY <1>1, Division
  <2>2. q * R \in Nat
    BY <1>1, <2>1
  <2> QED  BY <2>1, <2>2 DEF FitsInt, Count
<1>3. DOMAIN MakeTask(n) = 1..Count(n)
  BY <1>1 DEF MakeTask, Count
<1>4. ASSUME NEW k \in 1..Count(n)
      PROVE  /\ MakeTask(n)[k].start = (k - 1) * R
             /\ MakeTask(n)[k].stop = IF k <= q THEN k * R - 1 ELSE n - 1
  <2>1. /\ MakeTask(n)[k].start = Wrap((k - 1) * R)
        /\ MakeTask(n)[k].stop = IF k <= q THEN Wrap(k * R - 1) ELSE n - 1
    BY <1>1 DEF MakeTask, Count, Segment
  <2>2. k \in Nat \ {0} /\ k - 1 \in Nat /\ k - 1 <= q
    BY <1>2
  <2>3. (k - 1) * R \in Nat /\ (k - 1) * R <= IntMax
    <3> HIDE DEF R, q
    <3>1. k - 1 = q \/ (k - 1) * R + R <= q * R
      BY <1>1, <1>2, <2>2, Multiples
    <3>2. (k - 1) * R \in Nat
      BY <1>1, <2>2
    <3> QED  BY <1>1, <1>2, <3>1, <3>2
  <2>4. ASSUME k <= q
        PROVE  k * R - 1 \in Nat /\ k * R - 1 <= IntMax
    <3> HIDE DEF R, q
    <3>1. k = q \/ k * R + R <= q * R
      BY <1>1, <1>2, <2>2, <2>4, Multiples
    <3>2. k * R \in Nat \ {0}
      BY <1>1, <2>2
    <3> QED  BY <1>1, <1>2, <3>1, <3>2
  <2> QED  BY <2>1, <2>3, <2>4, WrapFits
<1> QED  BY <1>3, <1>4

-----------------------------------------------------------------------------
(* The range that covers a byte, and the distance between two ranges.      *)
LEMMA MakeTaskTiles ==
  ASSUME FitsInt, NEW n \in Lens, RangeSize < n
  PROVE  LET ranges == MakeTask(n)
         IN /\ \A p \in 0..(n - 1) :
                 \E k \in DOMAIN ranges :
                   /\ ranges[k].start <= p /\ p <= ranges[k].stop
                   /\ \A j \in DOMAIN ranges \ {k} :
                        p < ranges[j].start \/ ranges[j].stop < p
            /\ \A k \in DOMAIN ranges :
                 ranges[k].stop - ranges[k].start < RangeSize
<1> DEFINE R == RangeSize
           q == n \div R
           c == Count(n)
           start(k) == (k - 1) * R
           stop(k)  == IF k <= q THEN k * R - 1 ELSE n - 1
<1>1. n \in Nat /\ R \in Nat \ {0}
  BY RangeAssumption, LensAssumption
<1>2. /\ q \in Nat /\ n % R \in 0..(R - 1) /\ n = q * R + (n % R)
      /\ q * R \in Nat
      /\ c = IF n % R = 0 THEN q ELSE q + 1
  <2>1. q \in Nat /\ n % R \in 0..(R - 1) /\ n = q * R + (n % R)
    <3> HIDE DEF R
    <3> QED  BY <1>1, Division
  <2>2. q * R \in Nat
    BY <1>1, <2>1
  <2> QED  BY <2>1, <2>2 DEF Count
<1>3. ASSUME NEW k \in 1..c
      PROVE  /\ k * R \in Nat /\ start(k) = k * R - R /\ start(k) \in Nat
             /\ stop(k) \in Int /\ stop(k) < k * R
             /\ k > q => k = q + 1 /\ start(k) = q * R
  BY <1>1, <1>2
<1>4. ASSUME NEW p \in 0..(n - 1)
      PROVE  \E k \in 1..c :
               /\ start(k) <= p /\ p <= stop(k)
               /\ \A j \in (1..c) \ {k} : p < start(j) \/ stop(j) < p
  <2> DEFINE k == (p \div R) + 1
  <2>1. /\ p \div R \in Nat /\ p % R \in 0..(R - 1)
        /\ p = (p \div R) * R + (p % R)
    <3>1. p \in Nat
      BY <1>1
    <3> HIDE DEF R
    <3> QED  BY <1>1, <3>1, Division
  <2>2. start(k) <= p /\ p < k * R /\ k \in Nat \ {0}
    BY <1>1, <2>1
  <2>3. k \in 1..c
    <3>1. (p \div R) * R < n
      BY <1>1, <2>1
    <3>2. CASE p \div R < q
      BY <1>2, <2>1, <3>2
    <3>3. CASE p \div R = q
      BY <1>1, <1>2, <2>1, <3>1, <3>3
    <3>4. CASE q < p \div R
      <4>1. q * R + R <= (p \div R) * R
        BY <1>1, <1>2, <2>1, <3>4, Multiples
      <4> QED  BY <1>1, <1>2, <3>1, <4>1
    <3> QED  BY <1>2, <2>1, <3>2, <3>3, <3>4
  <2>4. p <= stop(k)
    BY <2>2, <2>3, <1>1, <1>2
  <2>5. ASSUME NEW j \in (1..c) \ {k}
        PROVE  p < start(j) \/ stop(j) < p
    <3>1. CASE j < k
      <4>1. j * R + R <= k * R
        BY <1>1, <1>2, <2>2, <3>1, Multiples
      <4> QED  BY <1>1, <1>2, <1>3, <2>2, <2>3, <4>1
    <3>2. CASE k < j
      <4>1. k * R + R <= j * R
        BY <1>1, <1>2, <2>2, <3>2, Multiples
      <4> QED  BY <1>1, <1>2, <1>3, <2>2, <4>1
    <3> QED  BY <1>2, <2>2, <3>1, <3>2
  <2> QED  BY <2>2, <2>3, <2>4, <2>5
<1>5. ASSUME NEW k \in 1..c
      PROVE  stop(k) - start(k) < R
  BY <1>1, <1>2, <1>3
<1>6. /\ DOMAIN MakeTask(n) = 1..c
      /\ \A k \in 1..c : /\ MakeTask(n)[k].start = start(k)
                         /\ MakeTask(n)[k].stop = stop(k)
  BY Ranges
<1> HIDE DEF start, stop, c
<1> QED  BY <1>4, <1>5, <1>6

(* MakeTask's ranges tile the file and none is longer than RANGE_SIZE,     *)
(* whatever the length of the file, as long as the loop's products fit an  *)
(* int; the tasks never change them.                                       *)
THEOREM SegmentsTileHolds ==
  ASSUME FitsInt
  PROVE  Spec => []SegmentsTile
<1> DEFINE Plan == len \in Lens /\ segs = MakeTask(len)
<1>1. Init => Plan
  BY DEF Init
<1>2. Plan /\ [Next]_vars => Plan'
  BY DEF Next, vars, planVars, StartTask, LockAndSeek, WriteRanged, WriteWhole,
         RunSucceeds, RunFails
<1>3. ASSUME Plan
      PROVE  SegmentsTile
  <2>1. CASE RangeSize < len
    BY <1>3, <2>1, MakeTaskTiles DEF SegmentsTile, Indices, Cells
  <2>2. CASE ~(RangeSize < len)
    <3>1. len \in Nat \ {0} /\ RangeSize \in Nat \ {0} /\ len <= RangeSize
      BY <1>3, <2>2, RangeAssumption, LensAssumption
    <3>2. segs = <<[start |-> 0, stop |-> len - 1, ranged |-> FALSE]>>
      BY <1>3, <3>1 DEF MakeTask, Segment
    <3>3. DOMAIN segs = {1} /\ segs[1].start = 0 /\ segs[1].stop = len - 1
      BY <3>2
    <3> QED  BY <3>1, <3>3 DEF SegmentsTile, Indices, Cells
  <2> QED  BY <2>1, <2>2
<1> QED  BY <1>1, <1>2, <1>3, PTL DEF Spec

-----------------------------------------------------------------------------
(* What the tasks write                                                    *)

(* The ranges are those of MakeTask for the length of the file, always.    *)
Plan == len \in Lens /\ segs = MakeTask(len)

(* A value that an int cannot hold wraps to a smaller one.                 *)
LEMMA WrapSmaller ==
  ASSUME NEW x \in Int
  PROVE  Wrap(x) \in Int /\ (x \in Nat => Wrap(x) <= x)
<1> DEFINE m == 2 * (IntMax + 1)
           a == x + IntMax + 1
<1>1. IntMax \in Nat /\ m \in Nat \ {0} /\ a \in Int
  BY RangeAssumption
<1>2. a % m \in Int
  BY <1>1
<1>3. ASSUME x \in Nat PROVE a % m <= a
  <2>1. a \in Nat
    BY <1>1, <1>3
  <2> HIDE DEF a, m
  <2>2. a \div m \in Nat /\ a = (a \div m) * m + (a % m)
    BY <1>1, <2>1, Division
  <2>3. (a \div m) * m \in Nat
    BY <1>1, <2>2
  <2> QED  BY <1>1, <1>2, <2>1, <2>2, <2>3
<1>4. Wrap(x) = (a % m) - (IntMax + 1)
  BY DEF Wrap
<1> HIDE DEF m
<1> QED  BY <1>1, <1>2, <1>3, <1>4

(* No range reaches beyond the file, wrapped or not, and a task without a  *)
(* range is the only one and has the whole file.                           *)
LEMMA RangesInFile ==
  ASSUME Plan
  PROVE  /\ len \in Nat \ {0}
         /\ segs \in Seq([start : Int, stop : Int, ranged : BOOLEAN])
         /\ Indices = 1..Len(segs)
         /\ \A k \in Indices :
              /\ segs[k] \in [start : Int, stop : Int, ranged : BOOLEAN]
              /\ segs[k].stop <= len - 1
              /\ ~segs[k].ranged => /\ \A j \in Indices : j = k
                                    /\ segs[k].start = 0 /\ segs[k].stop = len - 1
<1> DEFINE R == RangeSize
           q == len \div R
           S == [start : Int, stop : Int, ranged : BOOLEAN]
<1>1. len \in Nat \ {0} /\ R \in Nat \ {0}
  BY RangeAssumption, LensAssumption DEF Plan
<1>2. CASE len <= R
  <2>1. segs = <<[start |-> 0, stop |-> len - 1, ranged |-> FALSE]>>
    BY <1>2 DEF Plan, MakeTask, Segment
  <2>2. Len(segs) = 1 /\ DOMAIN segs = {1} /\ segs[1] \in S
    BY <1>1, <2>1
  <2>3. segs \in Seq(S)
    <3> HIDE DEF S
    <3> QED  BY <2>1, <2>2
  <2>4. segs[1].start = 0 /\ segs[1].stop = len - 1
    BY <2>1
  <2> QED  BY <1>1, <2>2, <2>3, <2>4 DEF Indices
<1>3. CASE ~(len <= R)
  <2> DEFINE c == Count(len)
  <2>1. /\ q \in Nat /\ len % R \in 0..(R - 1) /\ len = q * R + (len % R)
        /\ q * R \in Nat /\ c \in Nat
    <3>1. q \in Nat /\ len % R \in 0..(R - 1) /\ len = q * R + (len % R)
      <4> HIDE DEF R
      <4> QED  BY <1>1, Division
    <3>2. q * R \in Nat /\ c \in Nat
      BY <1>1, <3>1 DEF Count
    <3> QED  BY <3>1, <3>2
  <2>2. segs = [k \in 1..c |->
                  Segment(Wrap((k - 1) * R), IF k <= q THEN Wrap(k * R - 1) ELSE len - 1, TRUE)]
    BY <1>3 DEF Plan, MakeTask, Count
  <2>3. ASSUME NEW k \in 1..c
        PROVE  segs[k] \in S /\ segs[k].ranged /\ segs[k].stop <= len - 1
    <3> DEFINE stop == IF k <= q THEN Wrap(k * R - 1) ELSE len - 1
    <3>1. segs[k] = [start |-> Wrap((k - 1) * R), stop |-> stop, ranged |-> TRUE]
      BY <2>2 DEF Segment
    <3>2. k \in Nat \ {0} /\ (k - 1) * R \in Int /\ k * R - 1 \in Nat
      BY <1>1, <2>1
    <3>3. Wrap((k - 1) * R) \in Int /\ Wrap(k * R - 1) \in Int /\ Wrap(k * R - 1) <= k * R - 1
      BY <3>2, WrapSmaller
    <3>4. ASSUME k <= q PROVE k * R <= len
      <4> HIDE DEF R, q
      <4>1. k = q \/ k * R + R <= q * R
        BY <1>1, <2>1, <3>2, <3>4, Multiples
      <4> QED  BY <1>1, <2>1, <3>2, <4>1
    <3>5. stop \in Int /\ stop <= len - 1
      <4> HIDE DEF R, q
      <4> QED  BY <1>1, <2>1, <3>2, <3>3, <3>4
    <3> QED  BY <3>1, <3>3, <3>5
  <2>4. segs \in Seq(S) /\ Len(segs) = c /\ Indices = 1..Len(segs)
    <3> HIDE DEF S, c
    <3>1. DOMAIN segs = 1..c /\ segs = [k \in 1..c |-> segs[k]]
      BY <2>2
    <3>2. segs \in [1..c -> S]
      BY <2>3, <3>1
    <3> QED  BY <2>1, <3>1, <3>2 DEF Indices
  <2> QED  BY <1>1, <2>3, <2>4
<1> QED  BY <1>2, <1>3

(* How far a task is.                                                      *)
Started(k) == st[k] # "queued"
Progress(k) ==
  /\ ~Started(k) => got[k] = 0 /\ chunk[k] = 0 /\ pos[k] = segs[k].start
  /\ Started(k) => /\ 0 <= segs[k].start /\ segs[k].start <= pos[k] /\ pos[k] <= segs[k].stop
                   /\ chunk[k] <= Left(k)
  /\ chunk[k] > 0 => lock = k /\ fpos = pos[k] /\ st[k] = "running" /\ segs[k].ranged
  /\ ~segs[k].ranged /\ st[k] \in {"queued", "running"} => fpos = got[k]
  /\ honour /\ segs[k].ranged => pos[k] = segs[k].start + got[k] \/ Left(k) = 0

WriteInv ==
  /\ TypeOK /\ Plan /\ OwnSegmentOnly /\ BytesInPlace
  /\ \A k \in Indices : Progress(k)

(* What the server sends to a task that runs lies in the file.             *)
LEMMA ResponseInFile ==
  ASSUME WriteInv, NEW k \in Indices, Started(k)
  PROVE  /\ First(k) \in Nat /\ Final(k) \in Nat /\ Final(k) <= len - 1 /\ First(k) <= Final(k)
         /\ segs[k].start \in Nat /\ segs[k].stop \in Nat /\ segs[k].stop <= len - 1
         /\ pos[k] \in Nat /\ got[k] \in Nat /\ chunk[k] \in Nat /\ len \in Nat \ {0} /\ k \in Nat \ {0}
         /\ got[k] + chunk[k] <= Final(k) - First(k) + 1
<1>1. /\ len \in Nat \ {0} /\ segs[k].start \in Int /\ segs[k].stop \in Int
      /\ segs[k].stop <= len - 1 /\ k \in Nat \ {0}
  BY RangesInFile DEF WriteInv
<1>2. pos[k] \in Int /\ got[k] \in Nat /\ chunk[k] \in Nat
  BY ThreadsAssumption DEF WriteInv, TypeOK
<1>3. /\ 0 <= segs[k].start /\ segs[k].start <= pos[k] /\ pos[k] <= segs[k].stop
      /\ chunk[k] <= Left(k)
  BY DEF WriteInv, Progress
<1> QED  BY <1>1, <1>2, <1>3 DEF First, Final, Left

(* A write inside the range of its task, of bytes the server sent to it,   *)
(* at their place if the server honours Range.                             *)
LEMMA FwriteInPlace ==
  ASSUME WriteInv, NEW k \in Indices, Started(k), NEW n \in Nat, NEW w \in Nat,
         Fwrite(k, n, w), UNCHANGED planVars,
         fpos \in Nat, segs[k].start <= fpos, fpos + n <= segs[k].stop + 1,
         got[k] + n <= Final(k) - First(k) + 1,
         honour => fpos = First(k) + got[k]
  PROVE  /\ fpos' = fpos + w /\ w <= n /\ fpos' \in 0..len
         /\ file' \in [Cells -> [byte : Cells, by : Indices] \cup {Hole}]
         /\ OwnSegmentOnly' /\ BytesInPlace'
         /\ \A p \in Cells : file[p] # Hole => file'[p] # Hole
         /\ ~full => \A p \in Cells : fpos <= p /\ p < fpos + n => file'[p] # Hole
<1>1. /\ First(k) \in Nat /\ Final(k) \in Nat /\ Final(k) <= len - 1
      /\ segs[k].start \in Nat /\ segs[k].stop \in Nat /\ segs[k].stop <= len - 1
      /\ got[k] \in Nat /\ len \in Nat \ {0} /\ k \in Nat \ {0}
  BY ResponseInFile
<1>2. w <= n /\ fpos' = fpos + w /\ (~full => w = n)
  BY DEF Fwrite
<1> DEFINE In(p) == fpos <= p /\ p < fpos + w
           byte(p) == First(k) + got[k] + p - fpos
<1>3. \A p \in Cells : file'[p] = IF In(p) THEN [byte |-> byte(p), by |-> k] ELSE file[p]
  BY DEF Fwrite
<1>4. file' = [p \in Cells |-> file'[p]]
  BY DEF Fwrite
<1>5. ASSUME NEW p \in Cells, In(p)
      PROVE  /\ file'[p] \in [byte : Cells, by : Indices] /\ file'[p] # Hole
             /\ file'[p].byte = byte(p) /\ file'[p].by = k
             /\ segs[k].start <= p /\ p <= segs[k].stop /\ (honour => byte(p) = p)
  <2>1. byte(p) \in 0..(len - 1) /\ segs[k].start <= p /\ p <= segs[k].stop
    BY <1>1, <1>2, <1>5 DEF Cells
  <2>2. file'[p] = [byte |-> byte(p), by |-> k]
    BY <1>3, <1>5
  <2>3. file'[p] \in [byte : Nat, by : Nat]
    BY <1>1, <2>1, <2>2
  <2>4. honour => byte(p) = p
    BY <1>1, <1>5 DEF Cells
  <2> QED  BY <2>1, <2>2, <2>3, <2>4, HoleAssumption DEF Cells
<1>6. ASSUME NEW p \in Cells, ~In(p)
      PROVE  file'[p] = file[p]
  BY <1>3, <1>6
<1>7. file \in [Cells -> [byte : Cells, by : Indices] \cup {Hole}]
  BY DEF WriteInv, TypeOK
<1>8. file' \in [Cells -> [byte : Cells, by : Indices] \cup {Hole}]
  <2>1. \A p \in Cells : file'[p] \in [byte : Cells, by : Indices] \cup {Hole}
    BY <1>3, <1>5, <1>6, <1>7
  <2> QED  BY <1>4, <2>1
<1>9. Cells' = Cells /\ segs' = segs /\ honour' = honour
  BY DEF planVars, Cells
<1> HIDE DEF In, byte
<1>10. OwnSegmentOnly'
  <2> SUFFICES ASSUME NEW p \in Cells, file'[p] # Hole
               PROVE  segs[file'[p].by].start <= p /\ p <= segs[file'[p].by].stop
    BY <1>9 DEF OwnSegmentOnly
  <2> QED  BY <1>5, <1>6 DEF WriteInv, OwnSegmentOnly
<1>11. BytesInPlace'
  <2> SUFFICES ASSUME honour, NEW p \in Cells, file'[p] # Hole
               PROVE  file'[p].byte = p
    BY <1>9 DEF BytesInPlace
  <2> QED  BY <1>5, <1>6 DEF WriteInv, BytesInPlace
<1>12. fpos' \in 0..len
  BY <1>1, <1>2
<1>13. \A p \in Cells : file[p] # Hole => file'[p] # Hole
  BY <1>5, <1>6
<1>14. ~full => \A p \in Cells : fpos <= p /\ p < fpos + n => file'[p] # Hole
  BY <1>2, <1>5 DEF In
<1> QED  BY <1>2, <1>8, <1>10, <1>11, <1>12, <1>13, <1>14

(* Left and its parts read the plan and what was delivered only.           *)
LEMMA SameLeft ==
  ASSUME UNCHANGED planVars, NEW k, got'[k] = got[k]
  PROVE  First(k)' = First(k) /\ Final(k)' = Final(k) /\ Left(k)' = Left(k)
  BY DEF planVars, First, Final, Left

(* A step of task k is none of the others', who are not in write_data if   *)
(* the lock or the position of the FILE changes.                           *)
LEMMA OthersProgress ==
  ASSUME WriteInv, NEW k \in Indices, UNCHANGED planVars,
         \A j \in Indices : j # k =>
           /\ st'[j] = st[j] /\ got'[j] = got[j] /\ pos'[j] = pos[j] /\ chunk'[j] = chunk[j]
           /\ chunk[j] = 0 \/ UNCHANGED <<lock, fpos>>
  PROVE  \A j \in Indices : j # k => Progress(j)'
<1> SUFFICES ASSUME NEW j \in Indices, j # k PROVE Progress(j)'
  OBVIOUS
<1>1. segs[j].ranged /\ segs' = segs /\ honour' = honour
  BY RangesInFile DEF WriteInv, planVars
<1>2. Left(j)' = Left(j)
  BY SameLeft
<1>3. chunk[j] \in Nat
  BY ThreadsAssumption DEF WriteInv, TypeOK
<1> QED  BY <1>1, <1>2, <1>3 DEF WriteInv, Progress, Started

(* Every step keeps the invariant.                                         *)
LEMMA WriteInvStep ==
  ASSUME WriteInv, [Next]_vars
  PROVE  WriteInv'
<1>1. /\ st \in [Indices -> {"queued", "running", "ok", "failed"}] /\ got \in [Indices -> Nat]
      /\ pos \in [Indices -> Int] /\ chunk \in [Indices -> 0..MaxChunk]
      /\ MaxChunk \in Nat \ {0} /\ Indices \subseteq Nat \ {0} /\ len \in Nat \ {0}
      /\ lock \in Indices \cup {0} /\ fpos \in 0..len
  <2>1. Indices = 1..Len(segs) /\ Len(segs) \in Nat /\ len \in Nat \ {0}
    BY RangesInFile, LenProperties DEF WriteInv
  <2>2. Indices \subseteq Nat \ {0}
    BY <2>1
  <2> QED  BY <2>1, <2>2, ThreadsAssumption DEF WriteInv, TypeOK
<1>2. ASSUME UNCHANGED planVars,
             st' \in [Indices -> {"queued", "running", "ok", "failed"}], got' \in [Indices -> Nat],
             pos' \in [Indices -> Int], chunk' \in [Indices -> 0..MaxChunk],
             lock' \in Indices \cup {0}, fpos' \in 0..len,
             file' \in [Cells -> [byte : Cells, by : Indices] \cup {Hole}]
      PROVE  TypeOK' /\ Plan' /\ Indices' = Indices /\ Cells' = Cells
  BY <1>2 DEF WriteInv, TypeOK, Plan, planVars, Indices, Cells
<1>3. ASSUME file' = file, UNCHANGED planVars
      PROVE  /\ OwnSegmentOnly' /\ BytesInPlace'
             /\ file' \in [Cells -> [byte : Cells, by : Indices] \cup {Hole}]
  BY <1>3 DEF WriteInv, TypeOK, OwnSegmentOnly, BytesInPlace, planVars, Cells
<1>4. ASSUME NEW k \in Indices, st[k] = "running" \/ ~Started(k),
             chunk[k] = 0, UNCHANGED <<planVars, got, pos, chunk, lock, fpos, file>>,
             NEW s \in {"running", "ok", "failed"}, st' = [st EXCEPT ![k] = s],
             0 <= segs[k].start, segs[k].start <= segs[k].stop
      PROVE  WriteInv'
  <2>1. TypeOK' /\ Plan' /\ OwnSegmentOnly' /\ BytesInPlace' /\ Indices' = Indices
    BY <1>1, <1>2, <1>3, <1>4
  <2>2. \A j \in Indices : j # k => Progress(j)'
    BY <1>1, <1>4, OthersProgress
  <2>3. Progress(k)'
    <3>1. Left(k)' = Left(k) /\ segs' = segs /\ honour' = honour /\ st'[k] = s
      BY <1>1, <1>4, SameLeft DEF planVars
    <3>2. Left(k) >= 0
      <4>1. CASE Started(k)
        BY <1>4, <4>1 DEF WriteInv, Progress
      <4>2. CASE ~Started(k)
        <5>1. got[k] = 0 /\ segs[k].start \in Int /\ segs[k].stop \in Int
          BY <4>2, RangesInFile DEF WriteInv, Progress
        <5> QED  BY <1>1, <1>4, <5>1 DEF Left, First, Final
      <4> QED  BY <4>1, <4>2
    <3>3. chunk'[k] = 0 /\ pos'[k] = pos[k] /\ got'[k] = got[k] /\ fpos' = fpos
      BY <1>4
    <3>4. pos[k] \in Int /\ segs[k].start <= pos[k] /\ pos[k] <= segs[k].stop
      BY <1>1, <1>4, RangesInFile DEF WriteInv, Progress, Started
    <3> QED  BY <1>4, <3>1, <3>2, <3>3, <3>4 DEF WriteInv, Progress, Started
  <2> QED  BY <2>1, <2>2, <2>3 DEF WriteInv
<1>5. ASSUME NEW k \in Indices, StartTask(k) PROVE WriteInv'
  BY <1>1, <1>4, <1>5 DEF StartTask, Started, WriteInv, Progress
<1>6. ASSUME NEW k \in Indices, RunSucceeds(k) \/ RunFails(k) PROVE WriteInv'
  <2>1. Started(k) /\ st[k] = "running" /\ chunk[k] = 0
    BY <1>6 DEF RunSucceeds, RunFails, Started
  <2>2. 0 <= segs[k].start /\ segs[k].start <= segs[k].stop
    BY <2>1, ResponseInFile, <1>1 DEF WriteInv, Progress
  <2> QED  BY <1>4, <1>6, <2>1, <2>2 DEF RunSucceeds, RunFails
<1>7. ASSUME NEW k \in Indices, NEW c \in 1..MaxChunk, LockAndSeek(k, c) PROVE WriteInv'
  <2>1. /\ st[k] = "running" /\ chunk[k] = 0 /\ segs[k].ranged /\ c <= Left(k)
        /\ lock = 0 /\ lock' = k /\ chunk' = [chunk EXCEPT ![k] = c] /\ fpos' = pos[k]
        /\ UNCHANGED <<planVars, st, got, pos, file>>
    BY <1>7 DEF LockAndSeek
  <2>2. Started(k)
    BY <2>1 DEF Started
  <2>3. pos[k] \in 0..len
    BY <1>1, <2>2, ResponseInFile DEF WriteInv, Progress
  <2>4. TypeOK' /\ Plan' /\ OwnSegmentOnly' /\ BytesInPlace' /\ Indices' = Indices
    BY <1>1, <1>2, <1>3, <2>1, <2>3
  <2>5. \A j \in Indices : j # k => chunk[j] = 0
    BY <1>1, <2>1 DEF WriteInv, Progress
  <2>6. \A j \in Indices : j # k => Progress(j)'
    BY <1>1, <2>1, <2>5, OthersProgress
  <2>7. Progress(k)'
    <3>1. Left(k)' = Left(k) /\ segs' = segs /\ honour' = honour
      BY <2>1, SameLeft DEF planVars
    <3>2. chunk'[k] = c
      BY <1>1, <2>1
    <3> QED  BY <2>1, <2>2, <3>1, <3>2 DEF WriteInv, Progress, Started
  <2> QED  BY <2>4, <2>6, <2>7 DEF WriteInv
<1>8. ASSUME NEW k \in Indices, NEW w \in 0..MaxChunk, WriteRanged(k, w) PROVE WriteInv'
  <2>1. /\ chunk[k] > 0 /\ Fwrite(k, ToWrite(k), w)
        /\ pos' = [pos EXCEPT ![k] = NextPos(k)]
        /\ got' = [got EXCEPT ![k] = @ + chunk[k]]
        /\ st' = [st EXCEPT ![k] = AfterWrite(k, w)]
        /\ chunk' = [chunk EXCEPT ![k] = 0] /\ lock' = 0 /\ UNCHANGED planVars
    BY <1>8 DEF WriteRanged
  <2>2. lock = k /\ fpos = pos[k] /\ st[k] = "running" /\ segs[k].ranged /\ Started(k)
    BY <2>1 DEF WriteInv, Progress, Started
  <2>3. /\ segs[k].start \in Nat /\ segs[k].stop \in Nat
        /\ pos[k] \in Nat /\ got[k] \in Nat /\ chunk[k] \in Nat
        /\ First(k) \in Nat /\ Final(k) \in Nat
        /\ got[k] + chunk[k] <= Final(k) - First(k) + 1
        /\ segs[k].start <= pos[k] /\ pos[k] <= segs[k].stop
    BY <2>2, ResponseInFile DEF WriteInv, Progress
  <2>4. /\ ToWrite(k) \in Nat /\ ToWrite(k) <= chunk[k]
        /\ pos[k] + ToWrite(k) <= segs[k].stop + 1
        /\ NextPos(k) \in Nat /\ segs[k].start <= NextPos(k) /\ NextPos(k) <= segs[k].stop
        /\ pos[k] + chunk[k] <= segs[k].stop => NextPos(k) = pos[k] + chunk[k]
        /\ AfterWrite(k, w) \in {"running", "ok"}
    BY <2>1, <2>3 DEF ToWrite, NextPos, FitsInside, AfterWrite
  <2>5. honour => pos[k] = First(k) + got[k] /\ Final(k) = segs[k].stop
    BY <2>1, <2>2, <2>3 DEF WriteInv, Progress, First, Final, Left
  <2>6. /\ fpos' \in 0..len /\ OwnSegmentOnly' /\ BytesInPlace'
        /\ file' \in [Cells -> [byte : Cells, by : Indices] \cup {Hole}]
    BY <2>1, <2>2, <2>3, <2>4, <2>5, FwriteInPlace
  <2>7. TypeOK' /\ Plan' /\ Indices' = Indices
    BY <1>1, <1>2, <2>1, <2>3, <2>4, <2>6
  <2>8. \A j \in Indices : j # k => chunk[j] = 0
    BY <1>1, <2>2 DEF WriteInv, Progress
  <2>9. \A j \in Indices : j # k => Progress(j)'
    BY <1>1, <2>1, <2>8, OthersProgress
  <2>10. Progress(k)'
    <3>1. /\ segs' = segs /\ honour' = honour /\ First(k)' = First(k) /\ Final(k)' = Final(k)
          /\ got'[k] = got[k] + chunk[k] /\ pos'[k] = NextPos(k) /\ chunk'[k] = 0
          /\ st'[k] = AfterWrite(k, w)
      BY <1>1, <2>1 DEF planVars, First, Final
    <3>2. Left(k)' = Final(k) - First(k) + 1 - (got[k] + chunk[k])
      BY <3>1 DEF Left
    <3>3. honour => pos'[k] = segs[k].start + got'[k] \/ Left(k)' = 0
      <4>1. honour => First(k) = segs[k].start
        BY <2>2 DEF First
      <4> QED  BY <2>3, <2>4, <2>5, <3>1, <3>2, <4>1
    <3>4. Left(k)' >= 0
      BY <2>3, <3>2
    <3> QED  BY <2>2, <2>3, <2>4, <3>1, <3>3, <3>4 DEF Progress, Started
  <2> QED  BY <2>6, <2>7, <2>9, <2>10 DEF WriteInv
<1>9. ASSUME NEW k \in Indices, NEW c \in 1..MaxChunk, NEW w \in 0..c, WriteWhole(k, c, w)
      PROVE  WriteInv'
  <2>1. /\ st[k] = "running" /\ ~segs[k].ranged /\ c <= Left(k) /\ Fwrite(k, c, w)
        /\ got' = [got EXCEPT ![k] = @ + c]
        /\ st' = [st EXCEPT ![k] = IF w < c THEN "ok" ELSE "running"]
        /\ UNCHANGED <<planVars, pos, chunk, lock>>
    BY <1>9 DEF WriteWhole
  <2>2. /\ Started(k) /\ fpos = got[k] /\ chunk[k] = 0 /\ First(k) = 0 /\ Final(k) = len - 1
        /\ segs[k].start = 0 /\ segs[k].stop = len - 1 /\ \A j \in Indices : j = k
    <3>1. segs[k].start = 0 /\ segs[k].stop = len - 1 /\ \A j \in Indices : j = k
      BY <1>1, <2>1, RangesInFile DEF WriteInv
    <3>2. Started(k) /\ First(k) = 0 /\ Final(k) = len - 1
      BY <2>1 DEF Started, First, Final
    <3>3. /\ fpos = got[k] /\ ~(chunk[k] > 0)
      BY <1>1, <2>1 DEF WriteInv, Progress
    <3>4. chunk[k] \in Nat
      BY <1>1, <3>2, ResponseInFile
    <3> QED  BY <3>1, <3>2, <3>3, <3>4
  <2>3. got[k] \in Nat /\ pos[k] \in Int /\ c \in Nat /\ w \in Nat /\ got[k] + c <= len
        /\ 0 <= pos[k] /\ pos[k] <= len - 1
    BY <1>1, <2>1, <2>2 DEF Left, WriteInv, Progress
  <2>4. /\ fpos' = fpos + w /\ w <= c /\ fpos' \in 0..len /\ OwnSegmentOnly' /\ BytesInPlace'
        /\ file' \in [Cells -> [byte : Cells, by : Indices] \cup {Hole}]
    <3>1. /\ fpos \in Nat /\ segs[k].start <= fpos /\ fpos + c <= segs[k].stop + 1
          /\ got[k] + c <= Final(k) - First(k) + 1
          /\ honour => fpos = First(k) + got[k]
      BY <1>1, <2>2, <2>3 DEF WriteInv
    <3>2. Fwrite(k, c, w) /\ UNCHANGED planVars /\ Started(k)
      BY <2>1, <2>2
    <3> QED  BY <1>1, <2>3, <3>1, <3>2, FwriteInPlace
  <2>5. TypeOK' /\ Plan' /\ Indices' = Indices
    BY <1>1, <1>2, <2>1, <2>3, <2>4
  <2>6. Progress(k)'
    <3>1. /\ segs' = segs /\ First(k)' = 0 /\ Final(k)' = len - 1
          /\ got'[k] = got[k] + c /\ pos'[k] = pos[k] /\ chunk'[k] = 0
          /\ st'[k] = IF w < c THEN "ok" ELSE "running"
      BY <1>1, <2>1, <2>2 DEF planVars, First, Final
    <3>2. Left(k)' = len - (got[k] + c)
      BY <2>3, <3>1, <1>1 DEF Left
    <3> QED  BY <1>1, <2>1, <2>2, <2>3, <2>4, <3>1, <3>2 DEF Progress, Started
  <2> QED  BY <2>2, <2>4, <2>5, <2>6 DEF WriteInv
<1>10. CASE UNCHANGED vars
  BY <1>10 DEF vars, WriteInv, TypeOK, Plan, OwnSegmentOnly, BytesInPlace, Progress, Started,
               Left, First, Final, Indices, Cells
<1> QED  BY <1>5, <1>6, <1>7, <1>8, <1>9, <1>10 DEF Next

THEOREM WriteInvariant == Spec => []WriteInv
<1>1. ASSUME Init PROVE WriteInv
  <2>1. Plan
    BY <1>1 DEF Init, Plan
  <2>2. /\ len \in Nat \ {0} /\ segs \in Seq([start : Int, stop : Int, ranged : BOOLEAN])
        /\ \A k \in Indices : segs[k].start \in Int /\ (~segs[k].ranged => segs[k].start = 0)
    BY <2>1, RangesInFile
  <2>3. TypeOK
    BY <1>1, <2>2, ThreadsAssumption DEF Init, TypeOK
  <2>4. OwnSegmentOnly /\ BytesInPlace
    BY <1>1 DEF Init, OwnSegmentOnly, BytesInPlace
  <2>5. \A k \in Indices : Progress(k)
    BY <1>1, <2>2 DEF Init, Progress, Started
  <2> QED  BY <2>1, <2>3, <2>4, <2>5 DEF WriteInv
<1>2. WriteInv /\ [Next]_vars => WriteInv'
  BY WriteInvStep
<1> QED  BY <1>1, <1>2, PTL DEF Spec

(* TypeOK: in particular the position of the FILE stays within the file,   *)
(* also when the products of MakeTask's loop do not fit an int.            *)
THEOREM DownloadTypeCorrect == Spec => []TypeOK
<1>1. WriteInv => TypeOK
  BY DEF WriteInv
<1> QED  BY <1>1, WriteInvariant, PTL

(* OwnSegmentOnly: no task writes outside its range, whatever the server   *)
(* sends, the disk does and the threads interleave to.                     *)
THEOREM OwnSegmentOnlyHolds == Spec => []OwnSegmentOnly
<1>1. WriteInv => OwnSegmentOnly
  BY DEF WriteInv
<1> QED  BY <1>1, WriteInvariant, PTL

(* BytesInPlace: with a server that honours Range the seeks and the writes *)
(* of different tasks never mix.                                           *)
THEOREM BytesInPlaceHolds == Spec => []BytesInPlace
<1>1. WriteInv => BytesInPlace
  BY DEF WriteInv
<1> QED  BY <1>1, WriteInvariant, PTL

-----------------------------------------------------------------------------
(* The complete file                                                       *)

(* What curl has delivered to a task is in the file, and a task that       *)
(* reports success has been delivered everything.                          *)
Delivered(k) ==
  /\ \A p \in Cells : First(k) <= p /\ p < First(k) + got[k] => file[p] # Hole
  /\ st[k] = "ok" => Left(k) = 0
AllDelivered == honour /\ ~full => \A k \in Indices : Delivered(k)

(* A step of task k leaves what the others have been delivered in place.   *)
LEMMA OthersDelivered ==
  ASSUME NEW k, UNCHANGED planVars,
         \A p \in Cells : file[p] # Hole => file'[p] # Hole,
         NEW j \in Indices, Delivered(j), got'[j] = got[j], st'[j] = st[j]
  PROVE  Delivered(j)'
<1>1. First(j)' = First(j) /\ Left(j)' = Left(j) /\ Cells' = Cells
  BY SameLeft DEF planVars, Cells
<1> QED  BY <1>1 DEF Delivered

(* On a disk that does not fill up nothing that is delivered gets lost.    *)
LEMMA AllDeliveredStep ==
  ASSUME WriteInv, AllDelivered, [Next]_vars
  PROVE  AllDelivered'
<1>1. /\ st \in [Indices -> {"queued", "running", "ok", "failed"}] /\ got \in [Indices -> Nat]
  BY DEF WriteInv, TypeOK
<1>2. UNCHANGED planVars
  BY DEF Next, vars, planVars, StartTask, LockAndSeek, WriteRanged, WriteWhole, RunSucceeds, RunFails
<1>3. Indices' = Indices /\ Cells' = Cells
  BY <1>2 DEF planVars, Indices, Cells
<1> SUFFICES ASSUME honour, ~full PROVE \A j \in Indices : Delivered(j)'
  BY <1>2, <1>3 DEF AllDelivered, planVars
<1>4. \A j \in Indices : Delivered(j)
  BY DEF AllDelivered
<1>5. ASSUME NEW k \in Indices,
             StartTask(k) \/ (\E c \in 1..MaxChunk : LockAndSeek(k, c)) \/ RunSucceeds(k) \/ RunFails(k)
      PROVE  \A j \in Indices : Delivered(j)'
  <2>1. UNCHANGED <<got, file>>
    BY <1>5 DEF StartTask, LockAndSeek, RunSucceeds, RunFails
  <2>2. \A j \in Indices : st'[j] = "ok" => st[j] = "ok" \/ Left(j) = 0
    BY <1>1, <1>5 DEF StartTask, LockAndSeek, RunSucceeds, RunFails
  <2>3. \A j \in Indices : First(j)' = First(j) /\ Left(j)' = Left(j)
    BY <1>2, <2>1, SameLeft
  <2> QED  BY <1>3, <1>4, <2>1, <2>2, <2>3 DEF Delivered
<1>6. ASSUME NEW k \in Indices, NEW n \in Nat, NEW w \in Nat, Fwrite(k, n, w), Started(k),
             fpos \in Nat, segs[k].start <= fpos, fpos + n <= segs[k].stop + 1,
             got[k] + n <= Final(k) - First(k) + 1, fpos = First(k) + got[k],
             got' = [got EXCEPT ![k] = @ + n], NEW s, s # "ok", st' = [st EXCEPT ![k] = s]
      PROVE  \A j \in Indices : Delivered(j)'
  <2>1. /\ \A p \in Cells : file[p] # Hole => file'[p] # Hole
        /\ \A p \in Cells : fpos <= p /\ p < fpos + n => file'[p] # Hole
    BY <1>2, <1>6, FwriteInPlace
  <2>2. \A j \in Indices : j # k => got'[j] = got[j] /\ st'[j] = st[j]
    BY <1>1, <1>6
  <2>3. \A j \in Indices : j # k => Delivered(j)'
    BY <1>2, <1>4, <2>1, <2>2, OthersDelivered
  <2>4. Delivered(k)'
    <3>1. got'[k] = got[k] + n /\ st'[k] = s /\ First(k)' = First(k)
      BY <1>1, <1>2, <1>6 DEF planVars, First
    <3>2. First(k) \in Nat /\ got[k] \in Nat /\ len \in Nat
      BY <1>6, ResponseInFile
    <3>3. \A p \in Cells : First(k) <= p /\ p < First(k) + got[k] => file'[p] # Hole
      BY <1>4, <2>1 DEF Delivered
    <3>4. \A p \in Cells : p < First(k) + (got[k] + n) =>
            p < First(k) + got[k] \/ (fpos <= p /\ p < fpos + n)
      BY <1>6, <3>2 DEF Cells
    <3>5. \A p \in Cells : First(k) <= p /\ p < First(k) + (got[k] + n) => file'[p] # Hole
      BY <2>1, <3>3, <3>4
    <3> QED  BY <1>3, <1>6, <3>1, <3>5 DEF Delivered
  <2> QED  BY <2>3, <2>4
<1>7. ASSUME NEW k \in Indices, NEW w \in 0..MaxChunk, WriteRanged(k, w)
      PROVE  \A j \in Indices : Delivered(j)'
  <2>1. /\ chunk[k] > 0 /\ Fwrite(k, ToWrite(k), w)
        /\ got' = [got EXCEPT ![k] = @ + chunk[k]]
        /\ st' = [st EXCEPT ![k] = AfterWrite(k, w)]
    BY <1>7 DEF WriteRanged
  <2>2. fpos = pos[k] /\ st[k] = "running" /\ segs[k].ranged /\ Started(k)
    BY <2>1 DEF WriteInv, Progress, Started
  <2>3. /\ segs[k].start \in Nat /\ segs[k].stop \in Nat
        /\ pos[k] \in Nat /\ got[k] \in Nat /\ chunk[k] \in Nat
        /\ First(k) = segs[k].start /\ Final(k) = segs[k].stop
        /\ got[k] + chunk[k] <= Final(k) - First(k) + 1
        /\ segs[k].start <= pos[k] /\ pos[k] <= segs[k].stop
    BY <2>2, ResponseInFile DEF WriteInv, Progress, First, Final
  <2>4. pos[k] = First(k) + got[k]
    BY <2>1, <2>2, <2>3 DEF WriteInv, Progress, Left
  <2>5. ToWrite(k) = chunk[k]
    BY <2>3, <2>4 DEF ToWrite, FitsInside
  <2>6. w = chunk[k] /\ AfterWrite(k, w) # "ok"
    BY <2>1, <2>3, <2>5 DEF Fwrite, AfterWrite
  <2>7. /\ Fwrite(k, chunk[k], w) /\ chunk[k] \in Nat /\ w \in Nat
        /\ fpos \in Nat /\ fpos = First(k) + got[k]
        /\ segs[k].start <= fpos /\ fpos + chunk[k] <= segs[k].stop + 1
    BY <2>1, <2>2, <2>3, <2>4, <2>5, <2>6
  <2> QED  BY <1>6, <2>1, <2>2, <2>3, <2>6, <2>7
<1>8. ASSUME NEW k \in Indices, NEW c \in 1..MaxChunk, NEW w \in 0..c, WriteWhole(k, c, w)
      PROVE  \A j \in Indices : Delivered(j)'
  <2>1. /\ st[k] = "running" /\ ~segs[k].ranged /\ c <= Left(k) /\ Fwrite(k, c, w)
        /\ got' = [got EXCEPT ![k] = @ + c]
        /\ st' = [st EXCEPT ![k] = IF w < c THEN "ok" ELSE "running"]
    BY <1>8 DEF WriteWhole
  <2>2. /\ Started(k) /\ fpos = got[k] /\ First(k) = 0 /\ Final(k) = len - 1
        /\ segs[k].start = 0 /\ segs[k].stop = len - 1
    BY <2>1, RangesInFile DEF WriteInv, Progress, Started, First, Final
  <2>3. got[k] \in Nat /\ c \in Nat /\ w \in Nat /\ len \in Nat
    BY <2>2, ResponseInFile, ThreadsAssumption
  <2>4. w = c
    BY <2>1 DEF Fwrite
  <2>5. ~(w < c) /\ st' = [st EXCEPT ![k] = "running"]
    <3>1. ~(w < c)
      BY <2>3, <2>4
    <3> QED  BY <2>1, <3>1
  <2>6. got[k] + c <= len
    BY <2>1, <2>2, <2>3 DEF Left
  <2>7. /\ fpos \in Nat /\ fpos = First(k) + got[k] /\ got[k] + c <= Final(k) - First(k) + 1
        /\ segs[k].start <= fpos /\ fpos + c <= segs[k].stop + 1
    BY <2>2, <2>3, <2>6
  <2> QED  BY <1>6, <2>1, <2>2, <2>3, <2>5, <2>7
<1>9. CASE UNCHANGED vars
  BY <1>4, <1>9 DEF vars, Delivered, First, Final, Left, Cells
<1> QED  BY <1>5, <1>7, <1>8, <1>9 DEF Next

(* SuccessMeansComplete: when all tasks report success, the server honours *)
(* Range and the disk has room, the local file is the remote one, for any  *)
(* length whose last range starts at a position an int can hold.           *)
THEOREM SuccessMeansCompleteHolds ==
  ASSUME FitsInt
  PROVE  Spec => []SuccessMeansComplete
<1>1. Init => AllDelivered
  <2> SUFFICES ASSUME Init, NEW k \in Indices PROVE Delivered(k)
    BY DEF AllDelivered
  <2>1. Plan
    BY DEF Init, Plan
  <2>2. len \in Nat /\ segs[k].start \in Int
    BY <2>1, RangesInFile
  <2> QED  BY <2>2 DEF Init, Delivered, First, Cells
<1>2. AllDelivered /\ WriteInv /\ [Next]_vars => AllDelivered'
  BY AllDeliveredStep
<1>3. ASSUME WriteInv, AllDelivered, SegmentsTile PROVE SuccessMeansComplete
  <2> SUFFICES ASSUME honour, ~full, \A k \in Indices : st[k] = "ok", NEW p \in Cells
               PROVE  file[p] # Hole /\ file[p].byte = p
    BY DEF SuccessMeansComplete
  <2>1. PICK k \in Indices : segs[k].start <= p /\ p <= segs[k].stop
    BY <1>3 DEF SegmentsTile
  <2>2. Started(k) /\ Delivered(k) /\ Left(k) = 0
    BY <1>3 DEF AllDelivered, Delivered, Started
  <2>3. /\ First(k) \in Nat /\ Final(k) \in Nat /\ got[k] \in Nat /\ len \in Nat \ {0}
        /\ segs[k].stop <= len - 1
    BY <1>3, <2>2, ResponseInFile
  <2>4. First(k) <= p /\ p <= Final(k)
    BY <2>1, <2>3 DEF First, Final, Cells
  <2>5. p < First(k) + got[k]
    BY <2>2, <2>3, <2>4 DEF Left, Cells
  <2>6. file[p] # Hole
    BY <2>2, <2>4, <2>5 DEF Delivered
  <2> QED  BY <1>3, <2>6 DEF WriteInv, BytesInPlace
<1> QED  BY <1>1, <1>2, <1>3, WriteInvariant, SegmentsTileHolds, PTL DEF Spec
================================================================================
