--------------------------- MODULE PasteStreamProofs ---------------------------
(***************************************************************************)
(* What is proved of PasteStream, for every set of sizes, every chunk and  *)
(* every width of a DWORD: first the types together with how the counters  *)
(* of the two threads and the buffer relate, then the wake-up property,    *)
(* the bound of WriteFile and what a paste ends with.                      *)
(***************************************************************************)
EXTENDS PasteStream, SequenceTheorems, TLAPS

(* The counters: mProgressSize is never beyond the buffer, and lags behind *)
(* it between the memcpy and the addition of WriteFile.                    *)
Counters ==
  /\ chunk <= received
  /\ chunk <= MaxChunk
  /\ progress <= Len(buffer)
  /\ gpc = "count" => progress + chunk <= Len(buffer)

(* Far from 4 GB no sum wraps: the buffer ends where mProgressSize says,   *)
(* inside the memory, and what Read copied it counts.                      *)
NoWrap ==
  FarFrom4GB =>
    /\ Len(buffer) = IF gpc = "count" THEN progress + chunk ELSE progress
    /\ Len(buffer) <= FileSize
    /\ rpc = "count" => copied <= progress - position

TypeInv == TypeOK /\ Counters /\ NoWrap

(* DWORD arithmetic.                                                       *)
LEMMA DWord ==
  ASSUME NEW a \in Int
  PROVE  /\ a % DWordMod \in 0..(DWordMod - 1)
         /\ a \in 0..(DWordMod - 1) => a % DWordMod = a
         /\ a \in Nat => a % DWordMod <= a
<1>1. a % DWordMod \in 0..(DWordMod - 1)
  BY SizesAssumption
<1>2. a \in 0..(DWordMod - 1) => a % DWordMod = a
  BY SizesAssumption
<1>3. a \in Nat => a % DWordMod <= a
  <2>1. a \in Nat => a \in 0..(DWordMod - 1) \/ DWordMod <= a
    BY SizesAssumption
  <2> HIDE DEF TypeInv
  <2> QED
    BY <1>1, <1>2, <2>1, SizesAssumption
<1> QED
  BY <1>1, <1>2, <1>3

LEMMA FileSizeType == size \in Nat => FileSize \in 0..(DWordMod - 1)
<1>1. size \in Nat => size % DWordMod \in 0..(DWordMod - 1)
  BY DWord
<1> QED
  BY <1>1, SizesAssumption DEF FileSize

LEMMA BytesType ==
  ASSUME NEW m \in Nat, NEW n \in Nat
  PROVE  Bytes(m, n) \in Seq(Nat) /\ Len(Bytes(m, n)) = n
<1>1. \A i \in 1..n : m + i \in Nat
  OBVIOUS
<1> QED
  BY <1>1 DEF Bytes

LEMMA TypeInit == Init => TypeInv
<1> SUFFICES ASSUME Init PROVE TypeInv
  OBVIOUS
<1>1. buffer \in Seq(Nat) /\ Len(buffer) = 0 /\ got \in Seq(Nat \cup {Junk})
  BY DEF Init
<1>2. 0 \in 0..(DWordMod - 1)
  BY SizesAssumption
<1>3. TypeOK
  <2>1. /\ kind \in {"file", "image"} /\ size \in Announced /\ mapped \in BOOLEAN
        /\ flag \in BOOLEAN /\ cancel \in BOOLEAN /\ torn \in BOOLEAN
        /\ gpc = "recv" /\ rpc = "idle"
        /\ progress = 0 /\ position = 0 /\ received = 0 /\ chunk = 0 /\ copied = 0
    BY DEF Init
  <2> QED
    BY <1>1, <1>2, <2>1 DEF TypeOK
<1>4. FileSize \in 0..(DWordMod - 1)
  BY FileSizeType, SizesAssumption DEF Init
<1>5. Counters /\ NoWrap
  BY <1>1, <1>4, SizesAssumption DEF Init, Counters, NoWrap
<1> QED
  BY <1>3, <1>5 DEF TypeInv

(* What is pasted does not change while it is pasted.                      *)
LEMMA PasteConstant == [Next]_vars => UNCHANGED paste /\ FileSize' = FileSize
<1> SUFFICES ASSUME [Next]_vars PROVE UNCHANGED paste
  BY DEF paste, FileSize
<1>1. CASE Receive \/ ReceiveEnds \/ Cancel
  BY <1>1 DEF Receive, ReceiveEnds, Cancel
<1>2. CASE Write
  BY <1>2 DEF Write, WriteRefused, WriteCopies, WriteCounts, WriteFlags, CancelFlags
<1>3. CASE Read
  BY <1>3 DEF Read, Begin, Woken, Clear, Test, Copy, Count, Advance
<1>4. CASE UNCHANGED vars
  BY <1>4 DEF vars, paste
<1> QED
  BY <1>1, <1>2, <1>3, <1>4 DEF Next

(* How far Read looks ahead.                                               *)
LEMMA AheadType ==
  ASSUME TypeInv
  PROVE  /\ Ahead \in 0..(DWordMod - 1)
         /\ FarFrom4GB => Ahead = progress - position
<1>1. progress \in 0..(DWordMod - 1) /\ position \in 0..(DWordMod - 1)
      /\ (FarFrom4GB => position <= progress)
  BY DEF TypeInv, TypeOK
<1>2. progress - position \in Int
  BY <1>1, SizesAssumption
<1>3. FarFrom4GB => progress - position \in 0..(DWordMod - 1)
  BY <1>1, SizesAssumption
<1> QED
  BY <1>2, <1>3, DWord DEF Ahead

(* What Read hands out in one call has the type of what it hands out.      *)
LEMMA CountType ==
  ASSUME TypeInv, NEW n \in Nat
  PROVE  got \o [i \in 1..n |-> IF i <= copied /\ position + i <= Len(buffer)
                               THEN buffer[position + i] ELSE Junk]
           \in Seq(Nat \cup {Junk})
<1> DEFINE part == [i \in 1..n |-> IF i <= copied /\ position + i <= Len(buffer)
                                 THEN buffer[position + i] ELSE Junk]
<1>0. position \in Nat /\ buffer \in Seq(Nat)
  BY SizesAssumption DEF TypeInv, TypeOK
<1>1. ASSUME NEW i \in 1..n PROVE part[i] \in Nat \cup {Junk}
  <2>1. CASE position + i <= Len(buffer)
    <3>1. position + i \in 1..Len(buffer)
      BY <2>1, <1>0
    <3>2. buffer[position + i] \in Nat
      BY <3>1, <1>0
    <3> QED
      BY <2>1, <3>2
  <2> QED
    BY <2>1
<1>2. part \in Seq(Nat \cup {Junk})
  BY <1>1
<1>3. got \in Seq(Nat \cup {Junk})
  BY DEF TypeInv, TypeOK
<1> QED
  BY <1>2, <1>3

(* The memcpy of WriteFile: the bytes it puts in, and those it leaves.     *)
LEMMA CopyType ==
  ASSUME TypeInv, WriteCopies
  PROVE  /\ buffer' \in Seq(Nat)
         /\ Len(buffer') = IF Len(buffer) < progress + chunk THEN progress + chunk ELSE Len(buffer)
         /\ \A i \in 1..Len(buffer') :
              buffer'[i] = IF progress < i /\ i <= progress + chunk
                           THEN received - (progress + chunk) + i ELSE buffer[i]
<1> DEFINE end == progress + chunk
           top == IF Len(buffer) < end THEN end ELSE Len(buffer)
           val(i) == IF progress < i /\ i <= end THEN received - end + i ELSE buffer[i]
<1>1. progress \in Nat /\ chunk \in Nat /\ received \in Nat /\ chunk <= received
      /\ buffer \in Seq(Nat) /\ progress <= Len(buffer)
  BY SizesAssumption DEF TypeInv, TypeOK, Counters
<1>2. top \in Nat
  BY <1>1
<1>3. ASSUME NEW i \in 1..top PROVE val(i) \in Nat
  <2>1. CASE progress < i /\ i <= end
    BY <2>1, <1>1
  <2>2. CASE ~(progress < i /\ i <= end)
    <3>1. i \in 1..Len(buffer)
      BY <2>2, <1>1, <1>2
    <3> QED
      BY <2>2, <3>1, <1>1
  <2> QED
    BY <2>1, <2>2
<1>4. buffer' = [i \in 1..top |-> val(i)]
  BY DEF WriteCopies
<1> HIDE DEF val, top
<1>5. buffer' \in Seq(Nat) /\ Len(buffer') = top
  BY <1>2, <1>3, <1>4
<1>6. \A i \in 1..top : buffer'[i] = val(i)
  BY <1>4
<1> QED
  BY <1>5, <1>6 DEF val, top

LEMMA TypeStep == TypeInv /\ [Next]_vars => TypeInv'
<1> SUFFICES ASSUME TypeInv, [Next]_vars PROVE TypeInv'
  OBVIOUS
<1>0. UNCHANGED paste /\ FileSize' = FileSize /\ FarFrom4GB' = FarFrom4GB
  BY PasteConstant DEF FarFrom4GB
<1>a. FileSize \in 0..(DWordMod - 1)
  BY FileSizeType, SizesAssumption DEF TypeInv, TypeOK
<1> USE SizesAssumption, <1>0 DEF TypeInv, TypeOK, Counters, NoWrap, paste
<1>1. CASE Receive
  BY <1>1 DEF Receive, reader
<1>2. CASE ReceiveEnds
  BY <1>2 DEF ReceiveEnds, reader
<1>3. CASE WriteRefused \/ WriteFlags \/ CancelFlags
  <2>1. CASE WriteRefused
    BY <2>1 DEF WriteRefused, reader
  <2>2. CASE WriteFlags
    BY <2>2 DEF WriteFlags, reader
  <2>3. CASE CancelFlags
    BY <2>3 DEF CancelFlags, reader
  <2> QED
    BY <1>3, <2>1, <2>2, <2>3
<1>4. CASE WriteCopies
  <2>1. buffer' \in Seq(Nat) /\ Len(buffer') = IF Len(buffer) < progress + chunk
                                              THEN progress + chunk ELSE Len(buffer)
    BY <1>4, CopyType
  <2>2. gpc = "write" /\ gpc' = "count" /\ UNCHANGED <<paste, progress, flag, cancel, received, chunk, reader>>
        /\ Fits
    BY <1>4 DEF WriteCopies
  <2>3. UNCHANGED <<position, rpc, copied, got, torn>>
    BY <2>2 DEF reader
  <2>4. FarFrom4GB => Len(buffer) = progress /\ Len(buffer') = progress + chunk
    BY <2>1, <2>2
  <2>5. FarFrom4GB => progress + chunk <= FileSize
    <3>1. FarFrom4GB => progress + chunk \in 0..(DWordMod - 1)
      BY <2>4, <1>a DEF FarFrom4GB
    <3>2. FarFrom4GB => (progress + chunk) % DWordMod = progress + chunk
      <4>1. progress + chunk \in Int
        OBVIOUS
      <4> QED
        BY ONLY <3>1, <4>1, DWord
    <3> QED
      BY <2>2, <3>2 DEF Fits
  <2>6. TypeOK'
    BY <2>1, <2>2, <2>3
  <2>7. Counters'
    BY <2>1, <2>2
  <2>8. NoWrap'
    BY <2>2, <2>3, <2>4, <2>5
  <2> QED
    BY <2>6, <2>7, <2>8
<1>5. CASE WriteCounts
  <2> DEFINE sum == progress + chunk
  <2>1. sum \in Nat /\ sum <= Len(buffer)
    BY <1>5 DEF WriteCounts
  <2>2. sum % DWordMod \in 0..(DWordMod - 1) /\ sum % DWordMod <= sum
    <3>1. sum \in Int
      BY <2>1
    <3> QED
      BY ONLY <2>1, <3>1, DWord
  <2>3. FarFrom4GB => sum % DWordMod = sum
    <3>1. FarFrom4GB => sum \in 0..(DWordMod - 1)
      BY <2>1, <1>5, <1>a DEF WriteCounts
    <3>2. sum \in Int
      BY <2>1
    <3> QED
      BY ONLY <3>1, <3>2, DWord
  <2>4. gpc = "count" /\ gpc' = "flag" /\ progress' = sum % DWordMod
        /\ UNCHANGED <<buffer, flag, cancel, received, chunk, position, rpc, copied, got, torn>>
    BY <1>5 DEF WriteCounts, reader
  <2>5. FarFrom4GB => position <= progress'
    BY <2>3, <2>4
  <2>6. TypeOK'
    <3>1. progress' \in 0..(DWordMod - 1)
      BY ONLY <2>2, <2>4
    <3> QED
      BY <2>4, <2>5, <3>1
  <2>7. Counters'
    <3>1. progress' <= sum /\ progress' \in Int
      BY ONLY <2>2, <2>4, SizesAssumption
    <3>2. Len(buffer) \in Nat
      OBVIOUS
    <3>3. progress' <= Len(buffer)
      BY ONLY <2>1, <3>1, <3>2
    <3> QED
      BY <2>4, <3>3
  <2>8. NoWrap'
    BY <2>1, <2>3, <2>4
  <2> QED
    BY <2>6, <2>7, <2>8
<1>6. CASE Cancel
  BY <1>6 DEF Cancel, reader
<1>7. CASE Begin \/ Woken \/ Clear \/ Test
  <2>1. CASE Begin
    BY <2>1 DEF Begin, Step, writer
  <2>2. CASE Woken
    BY <2>2 DEF Woken, Step, writer
  <2>3. CASE Clear
    BY <2>3 DEF Clear, Step, writer
  <2>4. CASE Test
    BY <2>4 DEF Test, Step, writer
  <2> QED
    BY <1>7, <2>1, <2>2, <2>3, <2>4
<1>8. CASE Copy
  BY <1>8, AheadType DEF Copy, Step, writer
<1>9. CASE Count
  <2>1. Ahead \in 0..(DWordMod - 1) /\ Ahead \in Nat
    BY AheadType
  <2>2. got' \in Seq(Nat \cup {Junk})
    BY <1>9, <2>1, CountType DEF Count
  <2> QED
    BY <1>9, <2>1, <2>2 DEF Count, Step, writer
<1>10. CASE Advance
  BY <1>10 DEF Advance, Step, writer
<1>11. CASE UNCHANGED vars
  BY <1>11 DEF vars
<1> QED
  BY <1>1, <1>2, <1>3, <1>4, <1>5, <1>6, <1>7, <1>8, <1>9, <1>10, <1>11
  DEF Next, Write, Read

(* Every field keeps its type, the two DWORD counters through their wrap;  *)
(* and far from 4 GB Read's place is never behind the data that have been  *)
(* counted.                                                                *)
THEOREM StreamTypeCorrect == Spec => []TypeOK
<1>1. TypeInv => TypeOK
  BY DEF TypeInv
<1> QED
  BY TypeInit, TypeStep, <1>1, PTL DEF Spec

(* The wake-up property needs no strengthening but the types: every store  *)
(* that adds data is followed by the store of the flag.                    *)
THEOREM WakeupKept == Spec => []NoLostWakeup
<1>1. Init => NoLostWakeup
  BY DEF Init, NoLostWakeup
<1>2. TypeInv /\ NoLostWakeup /\ [Next]_vars => NoLostWakeup'
  <2> SUFFICES ASSUME TypeInv, NoLostWakeup, [Next]_vars PROVE NoLostWakeup'
    OBVIOUS
  <2> USE DEF NoLostWakeup
  <2>1. CASE Receive
    BY <2>1 DEF Receive, reader
  <2>2. CASE ReceiveEnds
    BY <2>2 DEF ReceiveEnds, reader
  <2>3. CASE Write
    BY <2>3 DEF Write, WriteRefused, WriteCopies, WriteCounts, WriteFlags, CancelFlags, reader
  <2>4. CASE Cancel
    BY <2>4 DEF Cancel, reader
  <2>5. CASE Begin \/ Woken \/ Clear \/ Test \/ Copy \/ Count
    BY <2>5 DEF Begin, Woken, Clear, Test, Copy, Count, Step, writer
  <2>6. CASE Advance
    BY <2>6 DEF Advance, Step, writer, TypeInv, TypeOK
  <2>7. CASE UNCHANGED vars
    BY <2>7 DEF vars
  <2> QED
    BY <2>1, <2>2, <2>3, <2>4, <2>5, <2>6, <2>7 DEF Next, Read
<1> QED
  BY TypeInit, TypeStep, <1>1, <1>2, PTL DEF Spec

(* WriteFile never writes outside the memory that InitFile mapped, unless  *)
(* the file is so close to 4 GB that its sum wraps: otherwise what fits by *)
(* the test does fit.                                                      *)
THEOREM WritesInBounds == Spec => []InBounds
<1>1. TypeInv => InBounds
  BY DEF TypeInv, NoWrap, InBounds
<1> QED
  BY TypeInit, TypeStep, <1>1, PTL DEF Spec
-----------------------------------------------------------------------------
(* A file or image that is far from 4 GB, and mapped.                      *)
Plain == mapped /\ size + MaxChunk < DWordMod

(* Up to the chunk that no longer fits, after which none is received, what *)
(* has been received has been written.                                     *)
Content ==
  Plain =>
    /\ buffer = Bytes(0, Len(buffer))
    /\ \/ Len(buffer) = IF gpc = "write" THEN received - chunk ELSE received
       \/ received > size /\ gpc # "write"

(* What Read has given the pasting program.                                *)
GotSoFar ==
  Plain /\ kind = "file" /\ ~torn =>
    IF rpc = "advance"
    THEN got = Bytes(0, position + copied) /\ copied <= progress - position
    ELSE got = Bytes(0, position)

DoneMeansAll == rpc = "done" /\ ~cancel => position >= FileSize

PasteInv == TypeInv /\ Content /\ GotSoFar /\ DoneMeansAll

LEMMA BytesConcat ==
  ASSUME NEW m \in Nat, NEW n \in Nat
  PROVE  Bytes(0, m) \o Bytes(m, n) = Bytes(0, m + n)
<1> DEFINE a == Bytes(0, m)
           b == Bytes(m, n)
           c == Bytes(0, m + n)
<1>1. a \in Seq(Nat) /\ Len(a) = m /\ b \in Seq(Nat) /\ Len(b) = n
  BY BytesType
<1>2. c \in Seq(Nat) /\ Len(c) = m + n
  BY BytesType
<1>3. (a \o b) \in Seq(Nat) /\ Len(a \o b) = m + n
  BY <1>1, ConcatProperties
<1>4. ASSUME NEW i \in 1..(m + n) PROVE (a \o b)[i] = c[i]
  <2>1. (a \o b)[i] = IF i <= m THEN a[i] ELSE b[i - m]
    <3>1. \A j \in 1..(Len(a) + Len(b)) :
            (a \o b)[j] = IF j <= Len(a) THEN a[j] ELSE b[j - Len(a)]
      BY <1>1, ConcatProperties
    <3> HIDE DEF a, b
    <3> QED
      BY <3>1, <1>1
  <2>2. c[i] = i
    BY DEF Bytes
  <2>3. CASE i <= m
    <3>1. a[i] = i
      BY <2>3 DEF Bytes
    <3> QED
      BY <2>1, <2>2, <2>3, <3>1
  <2>4. CASE ~(i <= m)
    <3>1. b[i - m] = i
      BY <2>4 DEF Bytes
    <3> QED
      BY <2>1, <2>2, <2>4, <3>1
  <2> QED
    BY <2>3, <2>4
<1> HIDE DEF a, b, c
<1>5. a \o b = c
  <2>1. Len(a \o b) = Len(c) /\ \A i \in 1..Len(a \o b) : (a \o b)[i] = c[i]
    BY <1>2, <1>3, <1>4
  <2> QED
    BY <1>2, <1>3, <2>1, SeqEqual
<1> QED
  BY <1>5 DEF a, b, c
LEMMA PlainFacts ==
  ASSUME TypeInv, Plain
  PROVE  /\ FarFrom4GB /\ FileSize = size /\ size \in Nat
         /\ Len(buffer) \in Nat /\ Len(buffer) <= size
         /\ Len(buffer) = IF gpc = "count" THEN progress + chunk ELSE progress
         /\ position <= progress /\ Ahead = progress - position
<1>1. size \in 0..(DWordMod - 1)
  BY SizesAssumption DEF TypeInv, TypeOK, Plain
<1>2. FileSize = size
  BY <1>1, DWord, SizesAssumption DEF Plain, FileSize
<1>3. FarFrom4GB
  BY <1>2 DEF FarFrom4GB, Plain
<1>4. Len(buffer) \in Nat
  BY DEF TypeInv, TypeOK
<1> QED
  BY <1>1, <1>2, <1>3, <1>4, AheadType DEF TypeInv, TypeOK, NoWrap

LEMMA ContentStep == PasteInv /\ [Next]_vars => Content'
<1> SUFFICES ASSUME PasteInv, [Next]_vars PROVE Content'
  OBVIOUS
<1>0. UNCHANGED paste
  BY PasteConstant
<1>a. Plain' = Plain
  BY <1>0 DEF Plain, paste
<1> SUFFICES ASSUME Plain
             PROVE  /\ buffer' = Bytes(0, Len(buffer'))
                    /\ \/ Len(buffer') = IF gpc' = "write" THEN received' - chunk' ELSE received'
                       \/ received' > size /\ gpc' # "write"
  BY <1>a, <1>0 DEF Content, paste
<1>b. /\ FileSize = size /\ size \in Nat /\ Len(buffer) <= size
      /\ Len(buffer) = IF gpc = "count" THEN progress + chunk ELSE progress
  BY PlainFacts DEF PasteInv
<1>c. /\ buffer = Bytes(0, Len(buffer))
      /\ \/ Len(buffer) = IF gpc = "write" THEN received - chunk ELSE received
         \/ received > size /\ gpc # "write"
  BY DEF PasteInv, Content
<1>d. received \in Nat /\ chunk \in Nat /\ progress \in Nat /\ chunk <= received
      /\ chunk <= MaxChunk
  BY SizesAssumption DEF PasteInv, TypeInv, TypeOK, Counters
<1>1. CASE Receive
  <2>1. received \in Nat /\ received < size /\ Len(buffer) = received
    BY <1>1, <1>b, <1>c, <1>d DEF Receive
  <2>2. PICK n \in 1..MaxChunk : chunk' = n /\ received' = received + n
    BY <1>1 DEF Receive
  <2>3. gpc' = "write" /\ buffer' = buffer
    BY <1>1 DEF Receive
  <2> QED
    BY <2>1, <2>2, <2>3, <1>c, SizesAssumption
<1>2. CASE WriteCopies
  <2>1. Len(buffer) = received - chunk /\ gpc' = "count" /\ received' = received
    BY <1>2, <1>c DEF WriteCopies
  <2>2. Len(buffer) = progress /\ progress + chunk = received
    BY <1>2, <2>1, <1>b, <1>d DEF WriteCopies
  <2>3. /\ buffer' \in Seq(Nat) /\ Len(buffer') = received
        /\ \A i \in 1..received :
             buffer'[i] = IF progress < i /\ i <= received
                          THEN received - received + i ELSE buffer[i]
    <3>1. TypeInv
      BY DEF PasteInv
    <3>2. /\ buffer' \in Seq(Nat)
          /\ Len(buffer') = IF Len(buffer) < progress + chunk
                            THEN progress + chunk ELSE Len(buffer)
          /\ \A i \in 1..Len(buffer') :
               buffer'[i] = IF progress < i /\ i <= progress + chunk
                            THEN received - (progress + chunk) + i ELSE buffer[i]
      BY <1>2, <3>1, CopyType
    <3>3. Len(buffer') = received
      BY <3>2, <2>2, <1>d
    <3> QED
      BY <3>2, <3>3, <2>2
  <2>4. \A i \in 1..received : buffer'[i] = i
    <3>1. \A i \in 1..Len(buffer) : buffer[i] = i
      <4>1. \A i \in 1..Len(buffer) : Bytes(0, Len(buffer))[i] = i
        BY <1>d, <2>2 DEF Bytes
      <4> QED
        BY <4>1, <1>c
    <3> QED
      BY <3>1, <2>2, <2>3, <1>d
  <2>5. buffer' = Bytes(0, received)
    <3>1. Bytes(0, received) \in Seq(Nat) /\ Len(Bytes(0, received)) = received
      BY BytesType, <1>d
    <3>2. \A i \in 1..received : Bytes(0, received)[i] = i
      BY <1>d DEF Bytes
    <3> QED
      BY <3>1, <3>2, <2>3, <2>4, SeqEqual
  <2> QED
    BY <2>1, <2>3, <2>5
<1>3. CASE WriteRefused
  <2>1. Len(buffer) = received - chunk /\ Len(buffer) = progress
    BY <1>3, <1>b, <1>c DEF WriteRefused
  <2>2. progress + chunk = received /\ received < DWordMod
    BY <2>1, <1>b, <1>d, SizesAssumption DEF Plain
  <2>3. (progress + chunk) % DWordMod = received
    <3>1. received \in 0..(DWordMod - 1)
      BY <2>2, <1>d, SizesAssumption
    <3> QED
      BY <2>2, <3>1, DWord
  <2>4. received > size
    BY <1>3, <2>3, <1>b, <1>d DEF WriteRefused, Fits, Plain
  <2> QED
    BY <1>3, <2>4, <1>c DEF WriteRefused
<1>4. CASE ~(Receive \/ WriteCopies \/ WriteRefused)
  <2>1. CASE ReceiveEnds \/ Cancel
    BY <2>1, <1>c DEF ReceiveEnds, Cancel
  <2>2. CASE WriteCounts \/ WriteFlags \/ CancelFlags
    BY <2>2, <1>c DEF WriteCounts, WriteFlags, CancelFlags
  <2>3. CASE Read
    BY <2>3, <1>c DEF Read, Begin, Woken, Clear, Test, Copy, Count, Advance, writer
  <2>4. CASE UNCHANGED vars
    BY <2>4, <1>c DEF vars
  <2> QED
    BY <1>4, <2>1, <2>2, <2>3, <2>4 DEF Next, Write
<1> QED
  BY <1>1, <1>2, <1>3, <1>4

LEMMA GotSoFarStep == PasteInv /\ [Next]_vars => GotSoFar'
<1> SUFFICES ASSUME PasteInv, [Next]_vars PROVE GotSoFar'
  OBVIOUS
<1>0. UNCHANGED paste
  BY PasteConstant
<1>a. Plain' = Plain /\ kind' = kind
  BY <1>0 DEF Plain, paste
<1> SUFFICES ASSUME Plain, kind = "file", ~torn'
             PROVE  IF rpc' = "advance"
                    THEN got' = Bytes(0, position' + copied') /\ copied' <= progress' - position'
                    ELSE got' = Bytes(0, position')
  BY <1>a DEF GotSoFar
<1>b. progress \in Nat /\ position \in Nat /\ copied \in Nat /\ chunk \in Nat
      /\ position <= progress /\ Ahead = progress - position
      /\ Len(buffer) \in Nat /\ progress <= Len(buffer)
      /\ FileSize = size /\ size < DWordMod /\ Len(buffer) <= size
  BY PlainFacts, SizesAssumption DEF PasteInv, TypeInv, TypeOK, Counters, Plain
<1>c. ~torn => IF rpc = "advance"
               THEN got = Bytes(0, position + copied) /\ copied <= progress - position
               ELSE got = Bytes(0, position)
  BY DEF PasteInv, GotSoFar
<1>1. CASE Receive \/ ReceiveEnds \/ Cancel \/ Write
  <2>1. UNCHANGED reader /\ (progress' = progress \/ progress' = progress + chunk)
    <3>1. CASE Receive \/ ReceiveEnds \/ Cancel
      BY <3>1 DEF Receive, ReceiveEnds, Cancel
    <3>2. CASE WriteCounts
      <4>1. progress + chunk \in 0..(DWordMod - 1)
        <5>1. progress + chunk <= Len(buffer)
          BY <3>2 DEF WriteCounts, PasteInv, TypeInv, Counters
        <5>2. size \in Nat /\ DWordMod \in Nat
          BY SizesAssumption DEF PasteInv, TypeInv, TypeOK
        <5> QED
          BY <5>1, <5>2, <1>b
      <4>2. progress + chunk \in Int
        BY <1>b
      <4> QED
        BY <3>2, <4>1, <4>2, DWord DEF WriteCounts
    <3>3. CASE WriteRefused \/ WriteCopies \/ WriteFlags \/ CancelFlags
      BY <3>3 DEF WriteRefused, WriteCopies, WriteFlags, CancelFlags
    <3> QED
      BY <1>1, <3>1, <3>2, <3>3 DEF Write
  <2>2. position' = position /\ rpc' = rpc /\ copied' = copied /\ got' = got /\ torn' = torn
    BY <2>1 DEF reader
  <2>4. copied <= progress - position => copied <= progress' - position
    BY <2>1, <1>b
  <2> QED
    BY <2>2, <2>4, <1>c
<1>2. CASE Begin \/ Woken \/ Test \/ Copy
  BY <1>2, <1>c DEF Begin, Woken, Test, Copy, Step
<1>3. CASE Clear
  BY <1>3, <1>c DEF Clear, Step
<1>4. CASE Count
  <2> DEFINE n == progress - position
  <2>1. n = copied /\ ~torn /\ rpc' = "advance" /\ copied' = n /\ UNCHANGED <<position, progress>>
    BY <1>4, <1>b DEF Count, Step, writer
  <2>2. got' = got \o [i \in 1..n |-> IF i <= copied /\ position + i <= Len(buffer)
                                    THEN buffer[position + i] ELSE Junk]
    BY <1>4, <1>b DEF Count
  <2>3. \A i \in 1..n : position + i <= Len(buffer) /\ buffer[position + i] = position + i
    <3>1. buffer = Bytes(0, Len(buffer))
      BY DEF PasteInv, Content
    <3>2. \A j \in 1..Len(buffer) : Bytes(0, Len(buffer))[j] = j
      BY <1>b DEF Bytes
    <3>3. \A i \in 1..n : position + i \in 1..Len(buffer)
      BY <1>b
    <3> QED
      BY <3>1, <3>2, <3>3
  <2>4. [i \in 1..n |-> IF i <= copied /\ position + i <= Len(buffer)
                      THEN buffer[position + i] ELSE Junk] = Bytes(position, n)
    BY <2>1, <2>3 DEF Bytes
  <2>5. rpc = "count" /\ got = Bytes(0, position)
    BY <1>4, <2>1, <1>c DEF Count, Step
  <2>6. n \in Nat
    BY <1>b
  <2>7. got' = Bytes(0, position + n)
    BY <2>2, <2>4, <2>5, <2>6, <1>b, BytesConcat
  <2> QED
    BY <2>1, <2>6, <2>7, <1>b
<1>5. CASE Advance
  <2>1. rpc = "advance" /\ rpc' = "idle" /\ ~torn /\ progress - position = copied
        /\ position' = progress /\ got' = got
    BY <1>5, <1>b DEF Advance, Step
  <2>2. got = Bytes(0, position + copied) /\ position + copied = progress
    BY <2>1, <1>b, <1>c
  <2> QED
    BY <2>1, <2>2
<1>6. CASE UNCHANGED vars
  BY <1>6, <1>c DEF vars
<1> QED
  BY <1>1, <1>2, <1>3, <1>4, <1>5, <1>6 DEF Next, Read

LEMMA DoneStep == PasteInv /\ [Next]_vars => DoneMeansAll'
<1> SUFFICES ASSUME PasteInv, [Next]_vars, rpc' = "done", ~cancel'
             PROVE  (position >= FileSize)'
  BY DEF DoneMeansAll
<1>a. FileSize' = FileSize
  BY PasteConstant
<1>1. CASE Receive \/ ReceiveEnds \/ Cancel
  BY <1>1, <1>a DEF Receive, ReceiveEnds, Cancel, reader, PasteInv, DoneMeansAll
<1>2. CASE Write
  BY <1>2, <1>a DEF Write, WriteRefused, WriteCopies, WriteCounts, WriteFlags, CancelFlags,
     reader, PasteInv, DoneMeansAll
<1>3. CASE Begin
  BY <1>3, <1>a DEF Begin, Step
<1>4. CASE Woken \/ Clear \/ Test \/ Copy \/ Count \/ Advance
  BY <1>4 DEF Woken, Clear, Test, Copy, Count, Advance, Step, writer
<1>5. CASE UNCHANGED vars
  BY <1>5, <1>a DEF vars, PasteInv, DoneMeansAll
<1> QED
  BY <1>1, <1>2, <1>3, <1>4, <1>5 DEF Next, Read

(* A paste that ends by itself handed out the source's bytes, each once    *)
(* and in order, whatever the chunks, when the file is not too close to    *)
(* 4 GB and no chunk was counted among the loads of one Read.              *)
THEOREM PasteIsExact == Spec => []PastedExactly
<1>1. Init => PasteInv
  <2> SUFFICES ASSUME Init PROVE PasteInv
    OBVIOUS
  <2>1. TypeInv
    BY TypeInit
  <2>3. Len(buffer) = 0 /\ Bytes(0, 0) = <<>>
    BY DEF Init, Bytes
  <2> QED
    BY <2>1, <2>3 DEF Init, PasteInv, Content, GotSoFar, DoneMeansAll
<1>2. PasteInv /\ [Next]_vars => PasteInv'
  BY TypeStep, ContentStep, GotSoFarStep, DoneStep DEF PasteInv
<1>3. PasteInv => PastedExactly
  <2> SUFFICES ASSUME PasteInv, rpc = "done", ~cancel, mapped, size + MaxChunk < DWordMod, ~torn
               PROVE  Pasted = Bytes(0, size)
    BY DEF PastedExactly
  <2>1. FileSize = size /\ size \in Nat /\ Len(buffer) <= size /\ position <= progress
    BY PlainFacts DEF PasteInv, Plain
  <2>2. position >= size /\ progress <= Len(buffer) /\ progress \in Nat
    BY <2>1, SizesAssumption DEF PasteInv, DoneMeansAll, TypeInv, TypeOK, Counters
  <2>3. position = size /\ Len(buffer) = size
    BY <2>1, <2>2 DEF PasteInv, TypeInv, TypeOK
  <2>4. buffer = Bytes(0, size)
    BY <2>3 DEF PasteInv, Content, Plain
  <2>5. kind = "file" => got = Bytes(0, size)
    BY <2>3 DEF PasteInv, GotSoFar, Plain
  <2> QED
    BY <2>4, <2>5 DEF Pasted
<1> QED
  BY <1>1, <1>2, <1>3, PTL DEF Spec
================================================================================
