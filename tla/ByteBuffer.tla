------------------------------- MODULE ByteBuffer -------------------------------
(***************************************************************************)
(* The Buffer of the Qt programs (windows_clipboard/common/buffer.h): a    *)
(* vector of bytes of which those between two indexes can be read.  New    *)
(* bytes go behind them; when the room there is too small the readable     *)
(* bytes are moved to the front, or the vector grows.                      *)
(*                                                                         *)
(* A buffer is a record; the methods are operators that return the buffer  *)
(* after the call.                                                         *)
(***************************************************************************)
EXTENDS Naturals, Sequences

CONSTANTS
  kCheapPrepend, \* bytes kept free at the front
  kInitialSize,  \* room of a new buffer
  Base           \* the values of a byte are 0..Base - 1

ASSUME SizeAssumption ==
  /\ kCheapPrepend \in Nat
  /\ kInitialSize \in Nat
  /\ Base \in Nat \ {0, 1}

Byte == 0..(Base - 1)

IsBuffer(b) ==
  /\ b = [data |-> b.data, reader |-> b.reader, writer |-> b.writer]
  /\ b.data \in Seq(Byte)
  /\ b.reader \in Nat /\ b.writer \in Nat
  /\ kCheapPrepend <= b.reader /\ b.reader <= b.writer /\ b.writer <= Len(b.data)

Zeros(n) == [i \in 1..n |-> 0]

NewBuffer ==
  [data |-> Zeros(kCheapPrepend + kInitialSize), reader |-> kCheapPrepend,
   writer |-> kCheapPrepend]

readableBytes(b) == b.writer - b.reader
writableBytes(b) == Len(b.data) - b.writer
prependableBytes(b) == b.reader

(* The bytes from peek() on.                                               *)
Readable(b) == SubSeq(b.data, b.reader + 1, b.writer)

retrieveAll(b) == [b EXCEPT !.reader = kCheapPrepend, !.writer = kCheapPrepend]

retrieve(b, n) ==
  IF n < readableBytes(b) THEN [b EXCEPT !.reader = @ + n] ELSE retrieveAll(b)

(* Grow: the vector is made to end n bytes behind the readable ones.       *)
resize(b, n) ==
  [data |-> b.data \o Zeros(b.writer + n - Len(b.data)), reader |-> b.reader,
   writer |-> b.writer]

(* A mutant: only the read index goes back.                                *)
moveForgetsWriter(b) ==
  LET last == kCheapPrepend + readableBytes(b)
  IN  [data |-> SubSeq(b.data, 1, kCheapPrepend) \o Readable(b)
                  \o SubSeq(b.data, last + 1, Len(b.data)),
       reader |-> kCheapPrepend, writer |-> b.writer]

(* Move: source and destination of the memcpy may overlap; like every      *)
(* memcpy the program is built with, it copies forwards.                   *)
moveToFront(b) ==
  LET last == kCheapPrepend + readableBytes(b)
  IN  [data |-> SubSeq(b.data, 1, kCheapPrepend) \o Readable(b)
                  \o SubSeq(b.data, last + 1, Len(b.data)),
       reader |-> kCheapPrepend, writer |-> last]

makeSpace(b, n) ==
  IF writableBytes(b) + prependableBytes(b) < n + kCheapPrepend
  THEN resize(b, n) ELSE moveToFront(b)

ensureWritableBytes(b, n) == IF writableBytes(b) < n THEN makeSpace(b, n) ELSE b

(* The memcpy to beginWrite().                                             *)
write(b, s) ==
  LET last == b.writer + Len(s)
  IN  [data |-> SubSeq(b.data, 1, b.writer) \o s \o SubSeq(b.data, last + 1, Len(b.data)),
       reader |-> b.reader, writer |-> last]

append(b, s) == write(ensureWritableBytes(b, Len(s)), s)

(* x without its last n bytes.                                             *)
Without(x, n) ==
  LET rest[i \in 0..n] == IF i = 0 THEN x ELSE rest[i - 1] \div Base
  IN  rest[n]

(* appendUInt16, 32, 64 and peekUInt16, 32, 64: big-endian, w bytes.       *)
BigEndian(x, w) == [i \in 1..w |-> Without(x, w - i) % Base]

UIntOf(s) ==
  LET value[i \in 0..Len(s)] == IF i = 0 THEN 0 ELSE value[i - 1] * Base + s[i]
  IN  value[Len(s)]
================================================================================
