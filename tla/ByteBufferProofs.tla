--------------------------- MODULE ByteBufferProofs ---------------------------
(***************************************************************************)
(* The buffer is a queue of bytes: append puts bytes behind those that can *)
(* be read and retrieve takes them off the front, whatever moves or grows  *)
(* the vector in between.                                                  *)
(***************************************************************************)
EXTENDS ByteBuffer, SequenceTheorems, TLAPS

(* The m-th to the n-th element, m excluded.                               *)
LEMMA Slice ==
  ASSUME NEW S, NEW s \in Seq(S), NEW m \in Nat, NEW n \in Nat, m <= n, n <= Len(s)
  PROVE  /\ SubSeq(s, m + 1, n) \in Seq(S)
         /\ Len(SubSeq(s, m + 1, n)) = n - m
         /\ \A i \in 1..(n - m) : SubSeq(s, m + 1, n)[i] = s[m + i]
<1>1. \A i \in (m + 1)..n : s[i] \in S
  OBVIOUS
<1>2. m + 1 \in Int /\ n \in Int
  OBVIOUS
<1>3. /\ SubSeq(s, m + 1, n) \in Seq(S)
      /\ Len(SubSeq(s, m + 1, n)) = IF m + 1 <= n THEN n - (m + 1) + 1 ELSE 0
      /\ \A i \in 1..(n - (m + 1) + 1) : SubSeq(s, m + 1, n)[i] = s[(m + 1) + i - 1]
  BY <1>1, <1>2, SubSeqProperties
<1> QED  BY <1>3

(* Two sequences with the same elements are the same.                      *)
LEMMA SameElements ==
  ASSUME NEW S, NEW s \in Seq(S), NEW t \in Seq(S), Len(s) = Len(t),
         \A i \in 1..Len(s) : s[i] = t[i]
  PROVE  s = t
OBVIOUS

LEMMA ZerosType ==
  ASSUME NEW n \in Nat
  PROVE  Zeros(n) \in Seq(Byte) /\ Len(Zeros(n)) = n
<1>1. 0 \in Byte
  BY SizeAssumption DEF Byte
<1> QED  BY <1>1 DEF Zeros

LEMMA ReadableType ==
  ASSUME NEW b, IsBuffer(b)
  PROVE  /\ Readable(b) \in Seq(Byte)
         /\ Len(Readable(b)) = b.writer - b.reader
         /\ \A i \in 1..(b.writer - b.reader) : Readable(b)[i] = b.data[b.reader + i]
BY Slice DEF IsBuffer, Readable

-----------------------------------------------------------------------------
(* Room.                                                                   *)

(* The vector grows behind the readable bytes.                             *)
LEMMA ResizeKeeps ==
  ASSUME NEW b, IsBuffer(b), NEW n \in Nat, writableBytes(b) < n
  PROVE  /\ IsBuffer(resize(b, n))
         /\ Readable(resize(b, n)) = Readable(b)
         /\ writableBytes(resize(b, n)) = n
<1> DEFINE k == b.writer + n - Len(b.data)
           d == b.data \o Zeros(k)
           r == [data |-> d, reader |-> b.reader, writer |-> b.writer]
<1>1. /\ b.data \in Seq(Byte) /\ b.reader \in Nat /\ b.writer \in Nat
      /\ kCheapPrepend <= b.reader /\ b.reader <= b.writer /\ b.writer <= Len(b.data)
  BY DEF IsBuffer
<1>2. k \in Nat
  BY <1>1 DEF writableBytes
<1>3. Zeros(k) \in Seq(Byte) /\ Len(Zeros(k)) = k
  BY <1>2, ZerosType
<1>4. /\ d \in Seq(Byte)
      /\ Len(d) = Len(b.data) + k
      /\ \A i \in 1..Len(b.data) : d[i] = b.data[i]
  <2>1. /\ d \in Seq(Byte)
        /\ Len(d) = Len(b.data) + Len(Zeros(k))
        /\ \A i \in 1..(Len(b.data) + Len(Zeros(k))) :
             d[i] = IF i <= Len(b.data) THEN b.data[i] ELSE Zeros(k)[i - Len(b.data)]
    <3> HIDE DEF k
    <3> QED  BY <1>1, <1>3, ConcatProperties
  <2>2. \A i \in 1..Len(b.data) : i \in 1..(Len(b.data) + k) /\ i <= Len(b.data)
    <3> HIDE DEF k
    <3> QED  BY <1>1, <1>2
  <2> HIDE DEF k, d
  <2> QED  BY <1>3, <2>1, <2>2
<1>5. resize(b, n) = r
  BY DEF resize
<1>6. r.data = d /\ r.reader = b.reader /\ r.writer = b.writer
  OBVIOUS
<1>7. Len(d) = b.writer + n
  <2> HIDE DEF d
  <2> QED  BY <1>1, <1>2, <1>4
<1> HIDE DEF d, k
<1>8. IsBuffer(r)
  BY <1>1, <1>4, <1>6, <1>7 DEF IsBuffer
<1> HIDE DEF r
<1>9. Readable(r) = Readable(b)
  <2>1. /\ Readable(r) \in Seq(Byte)
        /\ Len(Readable(r)) = b.writer - b.reader
        /\ \A i \in 1..(b.writer - b.reader) : Readable(r)[i] = d[b.reader + i]
    BY <1>6, <1>8, ReadableType
  <2>2. /\ Readable(b) \in Seq(Byte)
        /\ Len(Readable(b)) = b.writer - b.reader
        /\ \A i \in 1..(b.writer - b.reader) : Readable(b)[i] = b.data[b.reader + i]
    BY ReadableType
  <2>3. \A i \in 1..(b.writer - b.reader) : d[b.reader + i] = b.data[b.reader + i]
    <3>1. \A i \in 1..(b.writer - b.reader) : b.reader + i \in 1..Len(b.data)
      BY <1>1
    <3> QED  BY <1>4, <3>1
  <2> QED  BY <2>1, <2>2, <2>3, SameElements
<1>10. writableBytes(r) = n
  BY <1>1, <1>6, <1>7 DEF writableBytes
<1> QED  BY <1>5, <1>8, <1>9, <1>10

(* The readable bytes move to the front.                                   *)
LEMMA MoveKeeps ==
  ASSUME NEW b, IsBuffer(b)
  PROVE  /\ IsBuffer(moveToFront(b))
         /\ Readable(moveToFront(b)) = Readable(b)
         /\ writableBytes(moveToFront(b)) = writableBytes(b) + b.reader - kCheapPrepend
<1> DEFINE last == kCheapPrepend + (b.writer - b.reader)
           front == SubSeq(b.data, 1, kCheapPrepend)
           back == SubSeq(b.data, last + 1, Len(b.data))
           fr == front \o Readable(b)
           d == fr \o back
           r == [data |-> d, reader |-> kCheapPrepend, writer |-> last]
<1>1. /\ b.data \in Seq(Byte) /\ b.reader \in Nat /\ b.writer \in Nat
      /\ kCheapPrepend <= b.reader /\ b.reader <= b.writer /\ b.writer <= Len(b.data)
      /\ kCheapPrepend \in Nat
  BY SizeAssumption DEF IsBuffer
<1>2. last \in Nat /\ kCheapPrepend <= last /\ last <= Len(b.data) /\ Len(b.data) \in Nat
  BY <1>1
<1>3. front \in Seq(Byte) /\ Len(front) = kCheapPrepend
  <2>1. /\ SubSeq(b.data, 0 + 1, kCheapPrepend) \in Seq(Byte)
        /\ Len(SubSeq(b.data, 0 + 1, kCheapPrepend)) = kCheapPrepend - 0
    BY <1>1, Slice
  <2> QED  BY <2>1, <1>1
<1>4. back \in Seq(Byte) /\ Len(back) = Len(b.data) - last
  <2> HIDE DEF last
  <2> QED  BY <1>1, <1>2, Slice
<1>5. /\ Readable(b) \in Seq(Byte) /\ Len(Readable(b)) = b.writer - b.reader
  BY ReadableType
<1>6. /\ fr \in Seq(Byte)
      /\ Len(fr) = last
      /\ \A i \in 1..(b.writer - b.reader) : fr[kCheapPrepend + i] = Readable(b)[i]
  <2> HIDE DEF front
  <2>1. /\ fr \in Seq(Byte)
        /\ Len(fr) = Len(front) + Len(Readable(b))
        /\ \A i \in 1..(Len(front) + Len(Readable(b))) :
             fr[i] = IF i <= Len(front) THEN front[i] ELSE Readable(b)[i - Len(front)]
    BY <1>3, <1>5, ConcatProperties
  <2> QED  BY <1>1, <1>3, <1>5, <2>1
<1>7. /\ d \in Seq(Byte)
      /\ Len(d) = Len(b.data)
      /\ \A i \in 1..last : d[i] = fr[i]
  <2> HIDE DEF fr, back, last
  <2>1. /\ d \in Seq(Byte)
        /\ Len(d) = Len(fr) + Len(back)
        /\ \A i \in 1..(Len(fr) + Len(back)) :
             d[i] = IF i <= Len(fr) THEN fr[i] ELSE back[i - Len(fr)]
    BY <1>4, <1>6, ConcatProperties
  <2> QED  BY <1>2, <1>4, <1>6, <2>1
<1>8. moveToFront(b) = r
  BY DEF moveToFront, readableBytes
<1>9. r.data = d /\ r.reader = kCheapPrepend /\ r.writer = last
  OBVIOUS
<1> HIDE DEF d, fr
<1>10. IsBuffer(r)
  BY <1>1, <1>2, <1>7, <1>9 DEF IsBuffer
<1>11. Readable(r) = Readable(b)
  <2>1. /\ Readable(r) \in Seq(Byte)
        /\ Len(Readable(r)) = b.writer - b.reader
        /\ \A i \in 1..(b.writer - b.reader) : Readable(r)[i] = d[kCheapPrepend + i]
    BY <1>1, <1>9, <1>10, ReadableType
  <2>2. \A i \in 1..(b.writer - b.reader) : d[kCheapPrepend + i] = Readable(b)[i]
    BY <1>1, <1>6, <1>7
  <2> QED  BY <1>5, <2>1, <2>2, SameElements
<1>12. writableBytes(r) = writableBytes(b) + b.reader - kCheapPrepend
  BY <1>1, <1>7, <1>9 DEF writableBytes
<1> QED  BY <1>8, <1>10, <1>11, <1>12

(* Making room keeps what can be read, and makes enough.                   *)
LEMMA EnsureKeeps ==
  ASSUME NEW b, IsBuffer(b), NEW n \in Nat
  PROVE  LET r == ensureWritableBytes(b, n)
         IN  IsBuffer(r) /\ Readable(r) = Readable(b) /\ n <= writableBytes(r)
<1>1. b.reader \in Nat /\ b.writer \in Nat /\ b.data \in Seq(Byte) /\ kCheapPrepend \in Nat
  BY SizeAssumption DEF IsBuffer
<1>2. writableBytes(b) \in Int
  BY <1>1 DEF writableBytes
<1>3. CASE ~(writableBytes(b) < n)
  BY <1>2, <1>3 DEF ensureWritableBytes
<1>4. CASE writableBytes(b) < n
  <2>1. CASE writableBytes(b) + b.reader < n + kCheapPrepend
    <3>1. ensureWritableBytes(b, n) = resize(b, n)
      BY <1>4, <2>1 DEF ensureWritableBytes, makeSpace, prependableBytes
    <3> QED  BY <1>4, <3>1, ResizeKeeps
  <2>2. CASE ~(writableBytes(b) + b.reader < n + kCheapPrepend)
    <3>1. ensureWritableBytes(b, n) = moveToFront(b)
      BY <1>4, <2>2 DEF ensureWritableBytes, makeSpace, prependableBytes
    <3>2. n <= writableBytes(b) + b.reader - kCheapPrepend
      BY <1>1, <1>2, <2>2
    <3> QED  BY <3>1, <3>2, MoveKeeps
  <2> QED  BY <2>1, <2>2
<1> QED  BY <1>3, <1>4

(* The memcpy behind the readable bytes, when there is room.               *)
LEMMA WriteReads ==
  ASSUME NEW b, IsBuffer(b), NEW s \in Seq(Byte), Len(s) <= writableBytes(b)
  PROVE  IsBuffer(write(b, s)) /\ Readable(write(b, s)) = Readable(b) \o s
<1> DEFINE last == b.writer + Len(s)
           front == SubSeq(b.data, 1, b.writer)
           back == SubSeq(b.data, last + 1, Len(b.data))
           fr == front \o s
           d == fr \o back
           r == [data |-> d, reader |-> b.reader, writer |-> last]
<1>1. /\ b.data \in Seq(Byte) /\ b.reader \in Nat /\ b.writer \in Nat
      /\ kCheapPrepend <= b.reader /\ b.reader <= b.writer /\ b.writer <= Len(b.data)
      /\ Len(s) \in Nat /\ Len(b.data) \in Nat
  BY DEF IsBuffer
<1>2. last \in Nat /\ b.writer <= last /\ last <= Len(b.data)
  BY <1>1 DEF writableBytes
<1>3. /\ front \in Seq(Byte) /\ Len(front) = b.writer
      /\ \A i \in 1..b.writer : front[i] = b.data[i]
  <2>1. /\ SubSeq(b.data, 0 + 1, b.writer) \in Seq(Byte)
        /\ Len(SubSeq(b.data, 0 + 1, b.writer)) = b.writer - 0
        /\ \A i \in 1..(b.writer - 0) : SubSeq(b.data, 0 + 1, b.writer)[i] = b.data[0 + i]
    BY <1>1, Slice
  <2> QED  BY <1>1, <2>1
<1>4. back \in Seq(Byte) /\ Len(back) = Len(b.data) - last
  <2> HIDE DEF last
  <2> QED  BY <1>1, <1>2, Slice
<1>5. /\ fr \in Seq(Byte)
      /\ Len(fr) = last
      /\ \A i \in 1..b.writer : fr[i] = b.data[i]
      /\ \A i \in 1..Len(s) : fr[b.writer + i] = s[i]
  <2> HIDE DEF front
  <2>1. /\ fr \in Seq(Byte)
        /\ Len(fr) = Len(front) + Len(s)
        /\ \A i \in 1..(Len(front) + Len(s)) :
             fr[i] = IF i <= Len(front) THEN front[i] ELSE s[i - Len(front)]
    BY <1>3, ConcatProperties
  <2> HIDE DEF fr
  <2>2. ASSUME NEW i \in 1..b.writer PROVE fr[i] = b.data[i]
    <3>1. i \in 1..(Len(front) + Len(s)) /\ i <= Len(front)
      BY <1>1, <1>3
    <3> QED  BY <1>3, <2>1, <3>1
  <2>3. ASSUME NEW i \in 1..Len(s) PROVE fr[b.writer + i] = s[i]
    <3>1. /\ b.writer + i \in 1..(Len(front) + Len(s)) /\ ~(b.writer + i <= Len(front))
          /\ b.writer + i - Len(front) = i
      BY <1>1, <1>3
    <3> QED  BY <1>1, <2>1, <3>1
  <2> QED  BY <1>1, <1>3, <2>1, <2>2, <2>3
<1>6. /\ d \in Seq(Byte)
      /\ Len(d) = Len(b.data)
      /\ \A i \in 1..last : d[i] = fr[i]
  <2> HIDE DEF fr, back, last
  <2>1. /\ d \in Seq(Byte)
        /\ Len(d) = Len(fr) + Len(back)
        /\ \A i \in 1..(Len(fr) + Len(back)) :
             d[i] = IF i <= Len(fr) THEN fr[i] ELSE back[i - Len(fr)]
    BY <1>4, <1>5, ConcatProperties
  <2> QED  BY <1>2, <1>4, <1>5, <2>1
<1>7. write(b, s) = r
  BY DEF write
<1>8. r.data = d /\ r.reader = b.reader /\ r.writer = last
  OBVIOUS
<1> HIDE DEF d, fr
<1>9. IsBuffer(r)
  BY <1>1, <1>2, <1>6, <1>8 DEF IsBuffer
<1>10. Readable(r) = Readable(b) \o s
  <2>1. /\ Readable(r) \in Seq(Byte)
        /\ Len(Readable(r)) = last - b.reader
        /\ \A i \in 1..(last - b.reader) : Readable(r)[i] = d[b.reader + i]
    BY <1>1, <1>8, <1>9, ReadableType
  <2>2. /\ Readable(b) \in Seq(Byte)
        /\ Len(Readable(b)) = b.writer - b.reader
        /\ \A i \in 1..(b.writer - b.reader) : Readable(b)[i] = b.data[b.reader + i]
    BY ReadableType
  <2>3. /\ Readable(b) \o s \in Seq(Byte)
        /\ Len(Readable(b) \o s) = Len(Readable(b)) + Len(s)
        /\ \A i \in 1..(Len(Readable(b)) + Len(s)) :
             (Readable(b) \o s)[i] = IF i <= Len(Readable(b)) THEN Readable(b)[i]
                                     ELSE s[i - Len(Readable(b))]
    BY <2>2, ConcatProperties
  <2> HIDE DEF r
  <2>4. ASSUME NEW i \in 1..(last - b.reader)
        PROVE  d[b.reader + i] = (Readable(b) \o s)[i]
    <3>1. d[b.reader + i] = fr[b.reader + i]
      <4>1. b.reader + i \in 1..last
        BY <1>1, <1>2
      <4> QED  BY <1>6, <4>1
    <3>2. CASE i <= b.writer - b.reader
      <4>1. b.reader + i \in 1..b.writer /\ i \in 1..(b.writer - b.reader)
        BY <1>1, <1>2, <3>2
      <4>2. i \in 1..(Len(Readable(b)) + Len(s)) /\ i <= Len(Readable(b))
        BY <1>1, <2>2, <4>1
      <4> QED  BY <1>5, <2>2, <2>3, <3>1, <4>1, <4>2
    <3>3. CASE ~(i <= b.writer - b.reader)
      <4>1. i - (b.writer - b.reader) \in 1..Len(s)
        BY <1>1, <2>4, <3>3
      <4>2. fr[b.writer + (i - (b.writer - b.reader))] = s[i - (b.writer - b.reader)]
        BY <1>5, <4>1
      <4>3. b.writer + (i - (b.writer - b.reader)) = b.reader + i
        BY <1>1, <2>4
      <4>4. /\ i \in 1..(Len(Readable(b)) + Len(s)) /\ ~(i <= Len(Readable(b)))
            /\ i - Len(Readable(b)) = i - (b.writer - b.reader)
        BY <1>1, <2>2, <2>4, <3>3
      <4> QED  BY <2>3, <3>1, <4>2, <4>3, <4>4
    <3> QED  BY <3>2, <3>3
  <2>5. last - b.reader = (b.writer - b.reader) + Len(s)
    BY <1>1
  <2>6. \A i \in 1..(last - b.reader) : Readable(r)[i] = (Readable(b) \o s)[i]
    BY <2>1, <2>4
  <2> HIDE DEF last
  <2> QED  BY <2>1, <2>2, <2>3, <2>5, <2>6, SameElements
<1> QED  BY <1>7, <1>9, <1>10

(* append: the bytes of s come behind those that can be read, whether the  *)
(* vector has room for them, moves its bytes or grows.                     *)
THEOREM AppendReads ==
  ASSUME NEW b, IsBuffer(b), NEW s \in Seq(Byte)
  PROVE  IsBuffer(append(b, s)) /\ Readable(append(b, s)) = Readable(b) \o s
<1> DEFINE r == ensureWritableBytes(b, Len(s))
<1>1. IsBuffer(r) /\ Readable(r) = Readable(b) /\ Len(s) <= writableBytes(r)
  BY EnsureKeeps
<1>2. append(b, s) = write(r, s)
  BY DEF append
<1> HIDE DEF r
<1> QED  BY <1>1, <1>2, WriteReads

(* retrieve: the first n bytes go, all of them when there are no more; the *)
(* indexes go back to the front then.                                      *)
THEOREM RetrieveReads ==
  ASSUME NEW b, IsBuffer(b), NEW n \in Nat
  PROVE  /\ IsBuffer(retrieve(b, n))
         /\ Readable(retrieve(b, n)) = IF n < Len(Readable(b))
                                       THEN SubSeq(Readable(b), n + 1, Len(Readable(b)))
                                       ELSE <<>>
<1>1. /\ b.data \in Seq(Byte) /\ b.reader \in Nat /\ b.writer \in Nat
      /\ kCheapPrepend <= b.reader /\ b.reader <= b.writer /\ b.writer <= Len(b.data)
      /\ kCheapPrepend \in Nat
  BY SizeAssumption DEF IsBuffer
<1>2. /\ Readable(b) \in Seq(Byte) /\ Len(Readable(b)) = b.writer - b.reader
      /\ \A i \in 1..(b.writer - b.reader) : Readable(b)[i] = b.data[b.reader + i]
  BY ReadableType
<1>3. CASE n < b.writer - b.reader
  <2> DEFINE r == [data |-> b.data, reader |-> b.reader + n, writer |-> b.writer]
  <2>1. retrieve(b, n) = r
    BY <1>3 DEF retrieve, readableBytes, IsBuffer
  <2>2. r.data = b.data /\ r.reader = b.reader + n /\ r.writer = b.writer
    OBVIOUS
  <2>3. IsBuffer(r)
    BY <1>1, <1>3, <2>2 DEF IsBuffer
  <2>4. /\ Readable(r) \in Seq(Byte)
        /\ Len(Readable(r)) = b.writer - (b.reader + n)
        /\ \A i \in 1..(b.writer - (b.reader + n)) :
             Readable(r)[i] = b.data[(b.reader + n) + i]
    BY <2>2, <2>3, ReadableType
  <2>5. /\ SubSeq(Readable(b), n + 1, Len(Readable(b))) \in Seq(Byte)
        /\ Len(SubSeq(Readable(b), n + 1, Len(Readable(b)))) = Len(Readable(b)) - n
        /\ \A i \in 1..(Len(Readable(b)) - n) :
             SubSeq(Readable(b), n + 1, Len(Readable(b)))[i] = Readable(b)[n + i]
    <3> DEFINE t == Readable(b)
    <3>1. t \in Seq(Byte) /\ Len(t) \in Nat /\ n <= Len(t)
      BY <1>1, <1>2, <1>3
    <3> HIDE DEF t
    <3>2. /\ SubSeq(t, n + 1, Len(t)) \in Seq(Byte)
          /\ Len(SubSeq(t, n + 1, Len(t))) = Len(t) - n
          /\ \A i \in 1..(Len(t) - n) : SubSeq(t, n + 1, Len(t))[i] = t[n + i]
      BY <3>1, Slice
    <3> QED  BY <3>2 DEF t
  <2> HIDE DEF r
  <2>6. \A i \in 1..(b.writer - (b.reader + n)) :
          Readable(r)[i] = SubSeq(Readable(b), n + 1, Len(Readable(b)))[i]
    <3>1. ASSUME NEW i \in 1..(b.writer - (b.reader + n))
          PROVE  Readable(r)[i] = SubSeq(Readable(b), n + 1, Len(Readable(b)))[i]
      <4>1. n + i \in 1..(b.writer - b.reader)
        BY <1>1, <1>3
      <4>2. Readable(b)[n + i] = b.data[b.reader + (n + i)]
        BY <1>2, <4>1
      <4>3. b.reader + (n + i) = (b.reader + n) + i
        BY <1>1
      <4>4. i \in 1..(Len(Readable(b)) - n)
        BY <1>1, <1>2, <1>3
      <4> QED  BY <2>4, <2>5, <4>2, <4>3, <4>4
    <3> QED  BY <3>1
  <2>7. Readable(r) = SubSeq(Readable(b), n + 1, Len(Readable(b)))
    <3>1. b.writer - (b.reader + n) = Len(Readable(b)) - n
      BY <1>1, <1>2
    <3> QED  BY <2>4, <2>5, <2>6, <3>1, SameElements
  <2> QED  BY <1>2, <1>3, <2>1, <2>3, <2>7
<1>4. CASE ~(n < b.writer - b.reader)
  <2> DEFINE r == [data |-> b.data, reader |-> kCheapPrepend, writer |-> kCheapPrepend]
  <2>1. retrieve(b, n) = r
    BY <1>4 DEF retrieve, retrieveAll, readableBytes, IsBuffer
  <2>2. r.data = b.data /\ r.reader = kCheapPrepend /\ r.writer = kCheapPrepend
    OBVIOUS
  <2>3. IsBuffer(r)
    BY <1>1, <2>2 DEF IsBuffer
  <2>4. Readable(r) = <<>>
    <3>1. /\ Readable(r) \in Seq(Byte)
          /\ Len(Readable(r)) = kCheapPrepend - kCheapPrepend
      BY <2>2, <2>3, ReadableType
    <3> QED  BY <1>1, <3>1
  <2> QED  BY <1>2, <1>4, <2>1, <2>3, <2>4
<1> QED  BY <1>3, <1>4
================================================================================
