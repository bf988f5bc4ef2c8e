----------------------------- MODULE PipeLinkProofs -----------------------------
(***************************************************************************)
(* Proofs about the pipe: what is written arrives, byte for byte and       *)
(* message for message, however the reads cut it.                          *)
(*                                                                         *)
(* Flattening a sequence, reading a number and finding the offset of a     *)
(* field are recursive.  What they compute for every input is shown by     *)
(* induction in the form of a least counterexample (WFMin).                *)
(***************************************************************************)
EXTENDS PipeLink, ByteBufferProofs, WellFoundedInduction

(* A set of naturals that holds 0 and the successors of its members.       *)
LEMMA Induction ==
  ASSUME NEW S, 0 \in S, \A n \in Nat : n \in S => n + 1 \in S
  PROVE  Nat \subseteq S
<1> SUFFICES ASSUME Nat \ S # {} PROVE FALSE
  OBVIOUS
<1>1. PICK x \in Nat \ S : \A y \in Nat \ S : ~(<<y, x>> \in OpToRel(<, Nat))
  BY NatLessThanWellFounded, WFMin
<1>2. \A y \in Nat \ S : ~(y < x)
  BY <1>1 DEF OpToRel
<1>3. x # 0 /\ x - 1 \in Nat /\ x - 1 < x
  OBVIOUS
<1>4. x - 1 \in S
  BY <1>2, <1>3
<1> QED  BY <1>3, <1>4

(* A set of sequences that holds the empty one and what its members grow   *)
(* to.                                                                     *)
LEMMA SequenceInduction ==
  ASSUME NEW S, NEW P, <<>> \in P,
         \A s \in Seq(S), e \in S : s \in P => Append(s, e) \in P
  PROVE  Seq(S) \subseteq P
<1> DEFINE N == {n \in Nat : \A s \in Seq(S) : Len(s) = n => s \in P}
<1>1. 0 \in N
  <2>1. \A s \in Seq(S) : Len(s) = 0 => s = <<>>
    OBVIOUS
  <2> QED  BY <2>1
<1>2. ASSUME NEW n \in Nat, n \in N PROVE n + 1 \in N
  <2>1. ASSUME NEW s \in Seq(S), Len(s) = n + 1 PROVE s \in P
    <3>1. s # <<>>
      BY <2>1
    <3>2. PICK t \in Seq(S), e \in S : s = Append(t, e)
      BY <3>1, SequenceEmptyOrAppend
    <3>3. Len(t) = n
      BY <2>1, <3>2
    <3> QED  BY <1>2, <3>2, <3>3
  <2> QED  BY <2>1
<1> HIDE DEF N
<1>3. Nat \subseteq N
  BY <1>1, <1>2, Induction
<1>4. ASSUME NEW s \in Seq(S) PROVE s \in P
  <2>1. Len(s) \in Nat
    OBVIOUS
  <2> QED  BY <1>3, <2>1 DEF N
<1> QED  BY <1>4

-----------------------------------------------------------------------------
(* Flattening.                                                             *)

(* The recursion of FlattenSeq.                                            *)
IsFlatten(ss, n, f) ==
  f = [i \in 1..n |-> IF i = 1 THEN ss[i] ELSE f[i - 1] \o ss[i]]
Flatten(ss, n) == CHOOSE f : IsFlatten(ss, n, f)

LEMMA FlattenExists ==
  ASSUME NEW ss
  PROVE  \A n \in Nat : \E f : IsFlatten(ss, n, f)
<1> DEFINE S == {n \in Nat : \E f : IsFlatten(ss, n, f)}
<1>1. 0 \in S
  <2> DEFINE f == [i \in 1..0 |-> 0]
  <2>1. IsFlatten(ss, 0, f)
    BY DEF IsFlatten
  <2> QED  BY <2>1
<1>2. ASSUME NEW n \in Nat, n \in S PROVE n + 1 \in S
  <2>1. PICK f : IsFlatten(ss, n, f)
    BY <1>2
  <2> DEFINE last == IF n = 0 THEN ss[n + 1] ELSE f[n] \o ss[n + 1]
             g == [i \in 1..(n + 1) |-> IF i <= n THEN f[i] ELSE last]
  <2>2. ASSUME NEW i \in 1..(n + 1)
        PROVE  g[i] = IF i = 1 THEN ss[i] ELSE g[i - 1] \o ss[i]
    <3>1. CASE i <= n
      <4>1. i \in 1..n /\ (i # 1 => i - 1 \in 1..(n + 1) /\ i - 1 <= n)
        BY <3>1
      <4>2. f[i] = IF i = 1 THEN ss[i] ELSE f[i - 1] \o ss[i]
        BY <2>1, <4>1 DEF IsFlatten
      <4>3. g[i] = f[i] /\ (i # 1 => g[i - 1] = f[i - 1])
        BY <3>1, <4>1
      <4> HIDE DEF g
      <4> QED  BY <4>2, <4>3
    <3>2. CASE i = n + 1
      <4>1. n # 0 => n \in 1..(n + 1) /\ n <= n /\ i # 1 /\ i - 1 = n
        BY <3>2
      <4>2. n # 0 => g[i - 1] = f[n]
        BY <4>1
      <4>3. g[i] = last /\ (n = 0 => i = 1)
        BY <3>2
      <4> HIDE DEF g
      <4> QED  BY <3>2, <4>1, <4>2, <4>3
    <3> QED  BY <3>1, <3>2
  <2>3. IsFlatten(ss, n + 1, g)
    <3>1. g = [i \in 1..(n + 1) |-> g[i]]
      OBVIOUS
    <3> HIDE DEF g
    <3>2. [i \in 1..(n + 1) |-> g[i]]
            = [i \in 1..(n + 1) |-> IF i = 1 THEN ss[i] ELSE g[i - 1] \o ss[i]]
      BY <2>2
    <3> QED  BY <3>1, <3>2 DEF IsFlatten
  <2> QED  BY <2>3
<1> HIDE DEF S
<1>3. Nat \subseteq S
  BY <1>1, <1>2, Induction
<1> QED  BY <1>3 DEF S

LEMMA FlattenSteps ==
  ASSUME NEW ss, NEW n \in Nat, NEW i \in 1..n
  PROVE  Flatten(ss, n)[i] = IF i = 1 THEN ss[i] ELSE Flatten(ss, n)[i - 1] \o ss[i]
<1> DEFINE f == Flatten(ss, n)
<1>1. IsFlatten(ss, n, f)
  BY FlattenExists DEF Flatten
<1> HIDE DEF f
<1>2. f[i] = IF i = 1 THEN ss[i] ELSE f[i - 1] \o ss[i]
  BY <1>1 DEF IsFlatten
<1> QED  BY <1>2 DEF f

LEMMA FlattenSeqIs ==
  ASSUME NEW ss, Len(ss) # 0
  PROVE  FlattenSeq(ss) = Flatten(ss, Len(ss))[Len(ss)]
BY DEF FlattenSeq, Flatten, IsFlatten

(* What is flattened does not depend on what comes behind it.              *)
LEMMA FlattenAgrees ==
  ASSUME NEW ss, NEW tt, NEW n \in Nat, NEW m \in Nat, n <= m,
         \A i \in 1..n : ss[i] = tt[i]
  PROVE  \A i \in 1..n : Flatten(ss, n)[i] = Flatten(tt, m)[i]
<1> DEFINE S == {i \in Nat : i \in 1..n => Flatten(ss, n)[i] = Flatten(tt, m)[i]}
<1>1. 0 \in S
  OBVIOUS
<1>2. ASSUME NEW i \in Nat, i \in S PROVE i + 1 \in S
  <2> SUFFICES ASSUME i + 1 \in 1..n
               PROVE  Flatten(ss, n)[i + 1] = Flatten(tt, m)[i + 1]
    OBVIOUS
  <2>1. i + 1 \in 1..m /\ (i + 1 # 1 => i \in 1..n) /\ (i + 1) - 1 = i
    OBVIOUS
  <2>2. /\ Flatten(ss, n)[i + 1] = IF i + 1 = 1 THEN ss[i + 1] ELSE Flatten(ss, n)[i] \o ss[i + 1]
        /\ Flatten(tt, m)[i + 1] = IF i + 1 = 1 THEN tt[i + 1] ELSE Flatten(tt, m)[i] \o tt[i + 1]
    BY <2>1, FlattenSteps
  <2>3. i + 1 # 1 => Flatten(ss, n)[i] = Flatten(tt, m)[i]
    BY <1>2, <2>1
  <2> QED  BY <2>2, <2>3
<1> HIDE DEF S
<1>3. Nat \subseteq S
  BY <1>1, <1>2, Induction
<1> QED  BY <1>3 DEF S

LEMMA FlattenEmpty == FlattenSeq(<<>>) = <<>>
BY DEF FlattenSeq

LEMMA FlattenAppend ==
  ASSUME NEW S, NEW ss \in Seq(Seq(S)), NEW t \in Seq(S)
  PROVE  FlattenSeq(Append(ss, t)) = FlattenSeq(ss) \o t
<1> DEFINE n == Len(ss)
           tt == Append(ss, t)
<1>1. /\ n \in Nat /\ Len(tt) = n + 1 /\ n + 1 \in 1..(n + 1) /\ (n + 1) - 1 = n
      /\ tt[n + 1] = t /\ \A i \in 1..n : ss[i] = tt[i]
  OBVIOUS
<1>2. n = 0 => ss = <<>>
  OBVIOUS
<1> HIDE DEF tt
<1>3. FlattenSeq(tt) = Flatten(tt, n + 1)[n + 1]
  BY <1>1, FlattenSeqIs
<1>4. Flatten(tt, n + 1)[n + 1] = IF n + 1 = 1 THEN t ELSE Flatten(tt, n + 1)[n] \o t
  BY <1>1, FlattenSteps
<1>5. CASE n = 0
  <2>1. FlattenSeq(ss) = <<>>
    BY <1>2, <1>5, FlattenEmpty
  <2>2. <<>> \o t = t
    OBVIOUS
  <2>3. FlattenSeq(tt) = t
    BY <1>3, <1>4, <1>5
  <2> QED  BY <2>1, <2>2, <2>3 DEF tt
<1>6. CASE n # 0
  <2>1. n \in 1..n /\ n <= n + 1 /\ n + 1 # 1
    BY <1>1, <1>6
  <2>2. Flatten(ss, n)[n] = Flatten(tt, n + 1)[n]
    <3>1. n + 1 \in Nat /\ \A i \in 1..n : ss[i] = tt[i]
      BY <1>1
    <3> HIDE DEF n
    <3>2. \A i \in 1..n : Flatten(ss, n)[i] = Flatten(tt, n + 1)[i]
      BY <1>1, <2>1, <3>1, FlattenAgrees
    <3> QED  BY <2>1, <3>2
  <2>3. FlattenSeq(ss) = Flatten(ss, n)[n]
    BY <1>6, FlattenSeqIs
  <2> QED  BY <1>3, <1>4, <2>1, <2>2, <2>3 DEF tt
<1> QED  BY <1>5, <1>6

LEMMA FlattenType ==
  ASSUME NEW S
  PROVE  \A ss \in Seq(Seq(S)) : FlattenSeq(ss) \in Seq(S)
<1> DEFINE P == {ss \in Seq(Seq(S)) : FlattenSeq(ss) \in Seq(S)}
<1>1. <<>> \in P
  <2>1. <<>> \in Seq(Seq(S)) /\ <<>> \in Seq(S)
    BY EmptySeq
  <2>2. FlattenSeq(<<>>) \in Seq(S)
    BY <2>1, FlattenEmpty, Zenon
  <2> QED  BY <2>1, <2>2
<1>2. ASSUME NEW ss \in Seq(Seq(S)), NEW t \in Seq(S), ss \in P PROVE Append(ss, t) \in P
  <2>1. Append(ss, t) \in Seq(Seq(S))
    OBVIOUS
  <2>2. FlattenSeq(Append(ss, t)) = FlattenSeq(ss) \o t
    BY FlattenAppend
  <2>3. FlattenSeq(ss) \o t \in Seq(S)
    BY <1>2
  <2> QED  BY <2>1, <2>2, <2>3
<1> HIDE DEF P
<1>3. Seq(Seq(S)) \subseteq P
  BY <1>1, <1>2, SequenceInduction
<1> QED  BY <1>3 DEF P

LEMMA FlattenConcat ==
  ASSUME NEW S, NEW ss \in Seq(Seq(S))
  PROVE  \A tt \in Seq(Seq(S)) : FlattenSeq(ss \o tt) = FlattenSeq(ss) \o FlattenSeq(tt)
<1> DEFINE P == {tt \in Seq(Seq(S)) : FlattenSeq(ss \o tt) = FlattenSeq(ss) \o FlattenSeq(tt)}
<1>0. FlattenSeq(ss) \in Seq(S)
  BY FlattenType
<1>1. <<>> \in P
  <2>1. ss \o <<>> = ss
    OBVIOUS
  <2>2. FlattenSeq(ss) \o <<>> = FlattenSeq(ss)
    BY <1>0, ConcatEmptySeq
  <2>3. <<>> \in Seq(Seq(S))
    BY EmptySeq
  <2>4. FlattenSeq(ss \o <<>>) = FlattenSeq(ss) \o FlattenSeq(<<>>)
    BY <2>1, <2>2, FlattenEmpty, Zenon
  <2> QED  BY <2>3, <2>4
<1>2. ASSUME NEW tt \in Seq(Seq(S)), NEW t \in Seq(S), tt \in P PROVE Append(tt, t) \in P
  <2>1. Append(tt, t) \in Seq(Seq(S)) /\ ss \o tt \in Seq(Seq(S))
    OBVIOUS
  <2>2. ss \o Append(tt, t) = Append(ss \o tt, t)
    <3>1. /\ Append(tt, t) = tt \o <<t>> /\ Append(ss \o tt, t) = (ss \o tt) \o <<t>>
          /\ <<t>> \in Seq(Seq(S))
      BY <2>1, AppendIsConcat
    <3> QED  BY <3>1, ConcatAssociative
  <2>3. /\ FlattenSeq(Append(ss \o tt, t)) = FlattenSeq(ss \o tt) \o t
        /\ FlattenSeq(Append(tt, t)) = FlattenSeq(tt) \o t
    BY <2>1, FlattenAppend
  <2>4. FlattenSeq(ss \o tt) = FlattenSeq(ss) \o FlattenSeq(tt)
    BY <1>2
  <2>5. FlattenSeq(tt) \in Seq(S)
    BY FlattenType
  <2>6. (FlattenSeq(ss) \o FlattenSeq(tt)) \o t = FlattenSeq(ss) \o (FlattenSeq(tt) \o t)
    BY <1>0, <2>5, ConcatAssociative
  <2> QED  BY <2>1, <2>2, <2>3, <2>4, <2>6
<1> HIDE DEF P
<1>3. Seq(Seq(S)) \subseteq P
  BY <1>1, <1>2, SequenceInduction
<1> QED  BY <1>3 DEF P

LEMMA FlattenOne ==
  ASSUME NEW S, NEW t \in Seq(S)
  PROVE  FlattenSeq(<<t>>) = t
<1>1. <<t>> = Append(<<>>, t) /\ <<>> \in Seq(Seq(S))
  OBVIOUS
<1>2. <<>> \o t = t
  BY ConcatEmptySeq
<1> QED  BY <1>1, <1>2, FlattenAppend, FlattenEmpty

-----------------------------------------------------------------------------
(* Numbers.                                                                *)

(* The recursion of Without.                                               *)
IsRest(x, n, f) == f = [i \in 0..n |-> IF i = 0 THEN x ELSE f[i - 1] \div Base]

LEMMA RestExists ==
  ASSUME NEW x
  PROVE  \A n \in Nat : \E f : IsRest(x, n, f)
<1> DEFINE S == {n \in Nat : \E f : IsRest(x, n, f)}
<1>1. 0 \in S
  <2> DEFINE f == [i \in 0..0 |-> x]
  <2>1. f = [i \in 0..0 |-> IF i = 0 THEN x ELSE f[i - 1] \div Base]
    OBVIOUS
  <2> QED  BY <2>1 DEF IsRest
<1>2. ASSUME NEW n \in Nat, n \in S PROVE n + 1 \in S
  <2>1. PICK f : IsRest(x, n, f)
    BY <1>2
  <2> DEFINE g == [i \in 0..(n + 1) |-> IF i <= n THEN f[i] ELSE f[n] \div Base]
  <2>2. ASSUME NEW i \in 0..(n + 1)
        PROVE  g[i] = IF i = 0 THEN x ELSE g[i - 1] \div Base
    <3>1. CASE i <= n
      <4>1. i \in 0..n /\ (i # 0 => i - 1 \in 0..(n + 1) /\ i - 1 <= n)
        BY <3>1
      <4>2. f[i] = IF i = 0 THEN x ELSE f[i - 1] \div Base
        BY <2>1, <4>1 DEF IsRest
      <4>3. g[i] = f[i] /\ (i # 0 => g[i - 1] = f[i - 1])
        BY <3>1, <4>1
      <4> HIDE DEF g
      <4> QED  BY <4>2, <4>3
    <3>2. CASE i = n + 1
      <4>1. n \in 0..(n + 1) /\ n <= n /\ i # 0 /\ i - 1 = n /\ ~(i <= n)
        BY <3>2
      <4>2. g[i - 1] = f[n] /\ g[i] = f[n] \div Base
        BY <4>1
      <4> HIDE DEF g
      <4> QED  BY <4>1, <4>2
    <3> QED  BY <3>1, <3>2
  <2>3. IsRest(x, n + 1, g)
    <3>1. g = [i \in 0..(n + 1) |-> g[i]]
      OBVIOUS
    <3> HIDE DEF g
    <3>2. [i \in 0..(n + 1) |-> g[i]]
            = [i \in 0..(n + 1) |-> IF i = 0 THEN x ELSE g[i - 1] \div Base]
      BY <2>2
    <3> QED  BY <3>1, <3>2 DEF IsRest
  <2> QED  BY <2>3
<1> HIDE DEF S
<1>3. Nat \subseteq S
  BY <1>1, <1>2, Induction
<1> QED  BY <1>3 DEF S

(* Two functions made by the recursion agree where both are defined.       *)
LEMMA RestAgrees ==
  ASSUME NEW x, NEW m \in Nat, NEW n \in Nat, NEW f, NEW g, m <= n,
         IsRest(x, m, f), IsRest(x, n, g)
  PROVE  \A i \in 0..m : f[i] = g[i]
<1> DEFINE S == {i \in Nat : i \in 0..m => f[i] = g[i]}
<1>1. /\ \A i \in 0..m : f[i] = IF i = 0 THEN x ELSE f[i - 1] \div Base
      /\ \A i \in 0..n : g[i] = IF i = 0 THEN x ELSE g[i - 1] \div Base
  BY DEF IsRest
<1>2. 0 \in S
  BY <1>1
<1>3. ASSUME NEW i \in Nat, i \in S PROVE i + 1 \in S
  <2> SUFFICES ASSUME i + 1 \in 0..m PROVE f[i + 1] = g[i + 1]
    OBVIOUS
  <2>1. i + 1 \in 0..n /\ i \in 0..m /\ i + 1 # 0 /\ (i + 1) - 1 = i
    OBVIOUS
  <2>2. f[i + 1] = f[i] \div Base /\ g[i + 1] = g[i] \div Base
    BY <1>1, <2>1
  <2>3. f[i] = g[i]
    BY <1>3, <2>1
  <2> QED  BY <2>2, <2>3
<1> HIDE DEF S
<1>4. Nat \subseteq S
  BY <1>2, <1>3, Induction
<1> QED  BY <1>4 DEF S

LEMMA WithoutIs ==
  ASSUME NEW x, NEW n \in Nat, NEW f, IsRest(x, n, f)
  PROVE  Without(x, n) = f[n]
<1> DEFINE g == CHOOSE h : IsRest(x, n, h)
<1>1. IsRest(x, n, g)
  OBVIOUS
<1>2. Without(x, n) = g[n]
  BY DEF Without, IsRest
<1> HIDE DEF g
<1>3. \A i \in 0..n : g[i] = f[i]
  BY <1>1, RestAgrees
<1> QED  BY <1>2, <1>3

LEMMA WithoutSteps ==
  ASSUME NEW x, NEW n \in Nat
  PROVE  /\ Without(x, 0) = x
         /\ Without(x, n + 1) = Without(x, n) \div Base
<1>1. PICK f : IsRest(x, 0, f)
  BY RestExists
<1>2. f[0] = x
  BY <1>1 DEF IsRest
<1>3. PICK g : IsRest(x, n, g)
  BY RestExists
<1>4. PICK h : IsRest(x, n + 1, h)
  BY RestExists
<1>5. \A i \in 0..n : g[i] = h[i]
  BY <1>3, <1>4, RestAgrees
<1>6. h[n + 1] = h[n] \div Base
  <2>1. n + 1 \in 0..(n + 1) /\ n + 1 # 0 /\ (n + 1) - 1 = n
    OBVIOUS
  <2> QED  BY <1>4, <2>1 DEF IsRest
<1>7. Without(x, n) = g[n] /\ Without(x, n + 1) = h[n + 1]
  BY <1>3, <1>4, WithoutIs
<1>8. Without(x, 0) = f[0]
  BY <1>1, WithoutIs
<1> QED  BY <1>2, <1>5, <1>6, <1>7, <1>8

LEMMA WithoutType ==
  ASSUME NEW x \in Nat
  PROVE  \A n \in Nat : Without(x, n) \in Nat
<1> DEFINE S == {n \in Nat : Without(x, n) \in Nat}
<1>1. 0 \in S
  BY WithoutSteps
<1>2. ASSUME NEW n \in Nat, n \in S PROVE n + 1 \in S
  <2>1. Without(x, n + 1) = Without(x, n) \div Base /\ Without(x, n) \in Nat
    BY <1>2, WithoutSteps
  <2>2. Base \in Nat \ {0}
    BY SizeAssumption
  <2> QED  BY <2>1, <2>2
<1> HIDE DEF S
<1>3. Nat \subseteq S
  BY <1>1, <1>2, Induction
<1> QED  BY <1>3 DEF S

LEMMA Division ==
  ASSUME NEW x \in Nat, NEW b \in Nat \ {0, 1}, NEW q, NEW r, q = x \div b, r = x % b
  PROVE  q \in Nat /\ r \in Nat /\ q * b + r = x
<1>1. q \in Nat /\ r \in Nat
  OBVIOUS
<1>2. x = b * q + r
  BY <1>1
<1>3. b * q = q * b
  BY <1>1
<1> QED  BY <1>1, <1>2, <1>3

LEMMA BigEndianType ==
  ASSUME NEW x \in Nat, NEW w \in Nat
  PROVE  BigEndian(x, w) \in Seq(Byte) /\ Len(BigEndian(x, w)) = w
<1>1. ASSUME NEW i \in 1..w PROVE Without(x, w - i) % Base \in Byte
  <2>1. w - i \in Nat
    OBVIOUS
  <2>2. Without(x, w - i) \in Nat
    BY <2>1, WithoutType
  <2>3. Base \in Nat \ {0}
    BY SizeAssumption
  <2> QED  BY <2>2, <2>3 DEF Byte
<1> QED  BY <1>1 DEF BigEndian

(* The recursion of UIntOf.                                                *)
IsValue(s, n, f) == f = [i \in 0..n |-> IF i = 0 THEN 0 ELSE f[i - 1] * Base + s[i]]

LEMMA ValueIs ==
  ASSUME NEW s, NEW n \in Nat, Len(s) = n, NEW f, IsValue(s, n, f)
  PROVE  UIntOf(s) = f[n]
<1> DEFINE g == CHOOSE h : IsValue(s, n, h)
           S == {i \in Nat : i \in 0..n => f[i] = g[i]}
<1>1. IsValue(s, n, g)
  OBVIOUS
<1>2. UIntOf(s) = g[n]
  BY DEF UIntOf, IsValue
<1>3. /\ \A i \in 0..n : f[i] = IF i = 0 THEN 0 ELSE f[i - 1] * Base + s[i]
      /\ \A i \in 0..n : g[i] = IF i = 0 THEN 0 ELSE g[i - 1] * Base + s[i]
  <2> HIDE DEF g
  <2> QED  BY <1>1 DEF IsValue
<1> HIDE DEF g
<1>4. 0 \in S
  BY <1>3
<1>5. ASSUME NEW i \in Nat, i \in S PROVE i + 1 \in S
  <2> SUFFICES ASSUME i + 1 \in 0..n PROVE f[i + 1] = g[i + 1]
    OBVIOUS
  <2>1. i \in 0..n /\ i + 1 # 0 /\ (i + 1) - 1 = i
    OBVIOUS
  <2>2. f[i + 1] = f[i] * Base + s[i + 1] /\ g[i + 1] = g[i] * Base + s[i + 1]
    BY <1>3, <2>1
  <2>3. f[i] = g[i]
    BY <1>5, <2>1
  <2> QED  BY <2>2, <2>3
<1> HIDE DEF S
<1>6. Nat \subseteq S
  BY <1>4, <1>5, Induction
<1>7. n \in S
  BY <1>6
<1> QED  BY <1>2, <1>7 DEF S

(* A number of at most w bytes is read as it was written.                  *)
THEOREM NumberReadBack ==
  ASSUME NEW x \in Nat, NEW w \in Nat, Without(x, w) = 0
  PROVE  UIntOf(BigEndian(x, w)) = x
<1> DEFINE s == BigEndian(x, w)
           f == [i \in 0..w |-> Without(x, w - i)]
<1>1. Len(s) = w
  BY BigEndianType
<1>2. ASSUME NEW i \in 0..w
      PROVE  f[i] = IF i = 0 THEN 0 ELSE f[i - 1] * Base + s[i]
  <2>1. CASE i = 0
    BY <2>1
  <2>2. CASE i # 0
    <3> DEFINE r == Without(x, w - i)
    <3>1. i - 1 \in 0..w /\ i \in 1..w /\ w - i \in Nat /\ w - (i - 1) = (w - i) + 1
      BY <2>2
    <3>2. f[i - 1] = r \div Base
      BY <3>1, WithoutSteps
    <3>3. s[i] = r % Base
      BY <3>1 DEF BigEndian
    <3>4. r \in Nat /\ f[i] = r
      BY <3>1, WithoutType
    <3> HIDE DEF r, f, s
    <3>5. f[i - 1] * Base + s[i] = r
      BY <3>2, <3>3, <3>4, SizeAssumption, Division
    <3> QED  BY <2>2, <3>4, <3>5, Zenon
  <2> QED  BY <2>1, <2>2
<1>3. IsValue(s, w, f)
  <2>1. f = [i \in 0..w |-> f[i]]
    OBVIOUS
  <2> HIDE DEF f, s
  <2>2. [i \in 0..w |-> f[i]] = [i \in 0..w |-> IF i = 0 THEN 0 ELSE f[i - 1] * Base + s[i]]
    BY <1>2
  <2> QED  BY <2>1, <2>2 DEF IsValue
<1>4. f[w] = x
  <2>1. w \in 0..w /\ w - w = 0
    OBVIOUS
  <2> QED  BY <2>1, WithoutSteps
<1> HIDE DEF f, s
<1>5. UIntOf(s) = f[w]
  BY <1>1, <1>3, ValueIs
<1> QED  BY <1>4, <1>5 DEF s

-----------------------------------------------------------------------------
(* Reading the fields of a content.                                        *)

(* Any part of a sequence is found behind what is in front of it.          *)
LEMMA Middle ==
  ASSUME NEW S, NEW a \in Seq(S), NEW b \in Seq(S), NEW c \in Seq(S)
  PROVE  SubSeq((a \o b) \o c, Len(a) + 1, Len(a) + Len(b)) = b
<1> DEFINE d == (a \o b) \o c
           m == Len(a)
           n == Len(a) + Len(b)
           s == SubSeq(d, m + 1, n)
<1>1. m \in Nat /\ n \in Nat /\ Len(b) \in Nat /\ Len(c) \in Nat /\ m <= n /\ n - m = Len(b)
  OBVIOUS
<1>2. /\ a \o b \in Seq(S) /\ Len(a \o b) = n
      /\ \A i \in 1..n : (a \o b)[i] = IF i <= m THEN a[i] ELSE b[i - m]
  BY ConcatProperties
<1>3. /\ d \in Seq(S) /\ Len(d) = n + Len(c)
      /\ \A i \in 1..(n + Len(c)) : d[i] = IF i <= n THEN (a \o b)[i] ELSE c[i - n]
  <2> DEFINE ab == a \o b
  <2>1. ab \in Seq(S) /\ Len(ab) = n
    BY <1>2
  <2> HIDE DEF ab
  <2>2. /\ ab \o c \in Seq(S) /\ Len(ab \o c) = Len(ab) + Len(c)
        /\ \A i \in 1..(Len(ab) + Len(c)) :
             (ab \o c)[i] = IF i <= Len(ab) THEN ab[i] ELSE c[i - Len(ab)]
    <3>1. ab \in Seq(S)
      BY <2>1
    <3> QED  BY ONLY <3>1, c \in Seq(S), ConcatProperties
  <2> QED  BY <2>1, <2>2 DEF ab
<1> HIDE DEF d, m, n
<1>4. n <= Len(d)
  BY <1>1, <1>3
<1>5. s \in Seq(S) /\ Len(s) = Len(b) /\ \A i \in 1..Len(b) : s[i] = d[m + i]
  <2>1. /\ s \in Seq(S) /\ Len(s) = n - m
        /\ \A i \in 1..(n - m) : s[i] = d[m + i]
    BY <1>1, <1>3, <1>4, Slice
  <2> QED  BY <1>1, <2>1
<1>6. ASSUME NEW i \in 1..Len(b) PROVE s[i] = b[i]
  <2>1. /\ m + i \in 1..n /\ m + i \in 1..(n + Len(c)) /\ m + i <= n /\ ~(m + i <= m)
        /\ (m + i) - m = i
    BY <1>1
  <2>2. d[m + i] = (a \o b)[m + i]
    BY <1>3, <2>1
  <2>3. (a \o b)[m + i] = b[i]
    BY <1>2, <2>1
  <2> QED  BY <1>5, <2>2, <2>3
<1> HIDE DEF s
<1>7. s = b
  BY <1>5, <1>6, SameElements
<1> QED  BY <1>7 DEF s, d, m, n

(* What is flattened before the i-th part.                                 *)
Before(parts, i) == FlattenSeq(SubSeq(parts, 1, i - 1))

LEMMA BeforeSteps ==
  ASSUME NEW S, NEW parts \in Seq(Seq(S)), NEW i \in 1..Len(parts)
  PROVE  /\ Before(parts, i) \in Seq(S)
         /\ i = 1 => Before(parts, i) = <<>>
         /\ Before(parts, i + 1) = Before(parts, i) \o parts[i]
<1> DEFINE p == SubSeq(parts, 1, i - 1)
<1>1. p \in Seq(Seq(S)) /\ parts[i] \in Seq(S) /\ (i = 1 => p = <<>>)
  <2>1. \A j \in 1..(i - 1) : parts[j] \in Seq(S)
    OBVIOUS
  <2> QED  BY <2>1, SubSeqProperties
<1>2. SubSeq(parts, 1, i) = Append(p, parts[i])
  <2>1. 1 \in 1..Len(parts) /\ i \in 1..Len(parts)
    OBVIOUS
  <2>2. SubSeq(parts, 1, i) = SubSeq(parts, 1, i - 1) \o <<parts[i]>>
    BY <2>1, SubSeqRecursiveSecond
  <2> HIDE DEF p
  <2>3. Append(p, parts[i]) = p \o <<parts[i]>>
    BY <1>1, AppendIsConcat
  <2> QED  BY <2>2, <2>3 DEF p
<1>3. (i + 1) - 1 = i
  OBVIOUS
<1> HIDE DEF p
<1>4. FlattenSeq(p) \in Seq(S)
  BY <1>1, FlattenType
<1>5. FlattenSeq(Append(p, parts[i])) = FlattenSeq(p) \o parts[i]
  BY <1>1, FlattenAppend
<1> QED  BY <1>1, <1>2, <1>3, <1>4, <1>5, FlattenEmpty DEF Before, p

(* The recursion of the offsets.                                           *)
IsOffset(fields, f) ==
  f = [i \in 1..Len(fields) |-> IF i = 1 THEN 0 ELSE f[i - 1] + Width[fields[i - 1]]]
Offset(fields) == CHOOSE f : IsOffset(fields, f)

(* The fields of a struct: only the last may be a name.                    *)
Names == {"clientName", "fileName"}
AreFields(fields) ==
  /\ fields \in Seq(Fixed \cup Names)
  /\ \A i, j \in 1..Len(fields) : fields[i] = fields[j] => i = j
  /\ \A i \in 1..Len(fields) : i < Len(fields) => fields[i] \in Fixed

(* One part for each field, of its width; the width of a name is its own.  *)
ArePartsOf(parts, fields) ==
  /\ parts \in Seq(Seq(Byte))
  /\ Len(parts) = Len(fields)
  /\ \A i \in 1..Len(fields) : fields[i] \in Fixed => Len(parts[i]) = Width[fields[i]]

LEMMA OffsetIs ==
  ASSUME NEW fields, AreFields(fields), NEW parts, ArePartsOf(parts, fields)
  PROVE  \A i \in 1..Len(fields) : Offset(fields)[i] = Len(Before(parts, i))
<1> DEFINE n == Len(fields)
           f == [i \in 1..n |-> Len(Before(parts, i))]
           g == Offset(fields)
           T == {i \in Nat : i \in 1..n => f[i] = g[i]}
<1>0. /\ n \in Nat /\ n = Len(parts) /\ parts \in Seq(Seq(Byte))
      /\ \A i \in 1..n : i < n => Len(parts[i]) = Width[fields[i]]
  BY DEF AreFields, ArePartsOf
<1>1. ASSUME NEW i \in 1..n
      PROVE  f[i] = IF i = 1 THEN 0 ELSE f[i - 1] + Width[fields[i - 1]]
  <2>1. CASE i = 1
    <3>1. Before(parts, i) = <<>>
      BY <2>1, <1>0, BeforeSteps
    <3> QED  BY <2>1, <3>1
  <2>2. CASE i # 1
    <3> DEFINE j == i - 1
    <3>1. j \in 1..n /\ j < n /\ j + 1 = i
      BY <1>0, <2>2
    <3>2. Before(parts, j) \in Seq(Byte) /\ Before(parts, j + 1) = Before(parts, j) \o parts[j]
      <4> HIDE DEF j, n
      <4> QED  BY <1>0, <3>1, BeforeSteps
    <3>3. parts[j] \in Seq(Byte) /\ Len(parts[j]) = Width[fields[j]]
      <4> HIDE DEF j
      <4> QED  BY <1>0, <3>1
    <3>4. Len(Before(parts, j + 1)) = Len(Before(parts, j)) + Width[fields[j]]
      <4> DEFINE b == Before(parts, j)
      <4> HIDE DEF j, b
      <4>1. b \in Seq(Byte) /\ Before(parts, j + 1) = b \o parts[j]
        BY <3>2 DEF b
      <4>2. Len(b \o parts[j]) = Len(b) + Len(parts[j])
        BY <3>3, <4>1, ConcatProperties, Zenon
      <4> QED  BY <3>3, <4>1, <4>2, Zenon DEF b
    <3>5. f[i] = Len(Before(parts, j + 1)) /\ f[i - 1] = Len(Before(parts, j))
      BY <3>1
    <3> HIDE DEF f
    <3> QED  BY <2>2, <3>4, <3>5
  <2> QED  BY <2>1, <2>2
<1>2. IsOffset(fields, f)
  <2>1. f = [i \in 1..n |-> f[i]]
    OBVIOUS
  <2> HIDE DEF f
  <2>2. [i \in 1..n |-> f[i]]
          = [i \in 1..n |-> IF i = 1 THEN 0 ELSE f[i - 1] + Width[fields[i - 1]]]
    BY <1>1
  <2> QED  BY <2>1, <2>2 DEF IsOffset
<1>3. IsOffset(fields, g)
  <2> HIDE DEF f
  <2> QED  BY <1>2 DEF Offset
<1> HIDE DEF g
<1>4. \A i \in 1..n : g[i] = IF i = 1 THEN 0 ELSE g[i - 1] + Width[fields[i - 1]]
  BY <1>3 DEF IsOffset
<1>5. \A i \in 1..n : f[i] = Len(Before(parts, i))
  OBVIOUS
<1> HIDE DEF f
<1>6. 0 \in T
  OBVIOUS
<1>7. ASSUME NEW i \in Nat, i \in T PROVE i + 1 \in T
  <2> SUFFICES ASSUME i + 1 \in 1..n PROVE f[i + 1] = g[i + 1]
    OBVIOUS
  <2>1. (i + 1) - 1 = i /\ (i + 1 # 1 => i \in 1..n)
    <3> HIDE DEF n
    <3> QED  BY <1>0
  <2>2. i + 1 # 1 => f[i] = g[i]
    BY <1>7, <2>1
  <2>3. /\ f[i + 1] = IF i + 1 = 1 THEN 0 ELSE f[i] + Width[fields[i]]
        /\ g[i + 1] = IF i + 1 = 1 THEN 0 ELSE g[i] + Width[fields[i]]
    BY <1>1, <1>4, <2>1
  <2> QED  BY <2>2, <2>3
<1> HIDE DEF T
<1>8. Nat \subseteq T
  BY <1>6, <1>7, Induction
<1> QED  BY <1>0, <1>5, <1>8 DEF T, g

(* Where a field is read in a content.                                     *)
Start(fields, i, content) ==
  IF Offset(fields)[i] < Len(content) THEN Offset(fields)[i] ELSE 0

LEMMA ReadField ==
  ASSUME NEW fields, AreFields(fields), NEW content, NEW i \in 1..Len(fields)
  PROVE  LET f == fields[i]
             s == Start(fields, i, content)
         IN  ReadFields(fields, content)[f] =
               IF f \in Fixed
               THEN SubSeq(content \o Zeros(Width[f]), s + 1, s + Width[f])
               ELSE SubSeq(content, Offset(fields)[i] + 1, Len(content))
<1> DEFINE f == fields[i]
<1>1. DOMAIN fields = 1..Len(fields)
  BY DEF AreFields
<1>2. (CHOOSE j \in DOMAIN fields : fields[j] = f) = i
  BY <1>1 DEF AreFields
<1>3. f \in {fields[j] : j \in DOMAIN fields}
  BY <1>1
<1> HIDE DEF f
<1>4. ReadFields(fields, content)[f] =
        LET j == CHOOSE j \in DOMAIN fields : fields[j] = f
        IN  IF f \in Fixed
            THEN SubSeq(content \o Zeros(Width[f]), Start(fields, j, content) + 1,
                        Start(fields, j, content) + Width[f])
            ELSE SubSeq(content, Offset(fields)[j] + 1, Len(content))
  BY <1>3 DEF ReadFields, Start, Offset, IsOffset
<1> QED  BY <1>2, <1>4 DEF f

(* Every content gives every field bytes, and as many as it has.           *)
LEMMA ReadsBytes ==
  ASSUME NEW fields, AreFields(fields), NEW content \in Seq(Byte), NEW i \in 1..Len(fields)
  PROVE  LET f == fields[i]
             r == ReadFields(fields, content)[f]
         IN  r \in Seq(Byte) /\ (f \in Fixed => Len(r) = Width[f])
<1> DEFINE f == fields[i]
           off == Offset(fields)[i]
           s == Start(fields, i, content)
           zeros == Zeros(Width[f])
           long == content \o zeros
<1>1. off \in Nat
  <2> DEFINE parts == [j \in 1..Len(fields) |->
                         Zeros(IF fields[j] \in Fixed THEN Width[fields[j]] ELSE 0)]
  <2>1. ASSUME NEW j \in 1..Len(fields)
        PROVE  /\ parts[j] \in Seq(Byte)
               /\ fields[j] \in Fixed => Len(parts[j]) = Width[fields[j]]
    <3> DEFINE n == IF fields[j] \in Fixed THEN Width[fields[j]] ELSE 0
    <3>1. n \in Nat /\ (fields[j] \in Fixed => n = Width[fields[j]])
      BY WidthAssumption
    <3>2. parts[j] = Zeros(n)
      OBVIOUS
    <3> HIDE DEF n, parts
    <3> QED  BY <3>1, <3>2, ZerosType
  <2>2. ArePartsOf(parts, fields)
    <3>1. Len(fields) \in Nat
      BY DEF AreFields
    <3>2. parts = [j \in 1..Len(fields) |-> parts[j]]
      OBVIOUS
    <3> HIDE DEF parts
    <3>3. parts \in Seq(Seq(Byte)) /\ Len(parts) = Len(fields)
      BY <2>1, <3>1, <3>2
    <3> QED  BY <2>1, <3>3 DEF ArePartsOf
  <2> HIDE DEF parts
  <2>3. off = Len(Before(parts, i))
    BY <2>2, OffsetIs
  <2>4. Before(parts, i) \in Seq(Byte)
    BY <2>2, BeforeSteps DEF ArePartsOf
  <2> QED  BY <2>3, <2>4
<1>2. f \in Fixed => Width[f] \in Nat
  BY WidthAssumption
<1> HIDE DEF off
<1>3. s \in Nat /\ s <= Len(content)
  BY <1>1 DEF Start, off
<1>4. CASE f \in Fixed
  <2>1. zeros \in Seq(Byte) /\ Len(zeros) = Width[f]
    BY <1>2, <1>4, ZerosType
  <2>2. long \in Seq(Byte) /\ Len(long) = Len(content) + Width[f]
    <3> HIDE DEF zeros
    <3>1. /\ content \o zeros \in Seq(Byte)
          /\ Len(content \o zeros) = Len(content) + Len(zeros)
      BY ONLY <2>1, content \in Seq(Byte), ConcatProperties
    <3> QED  BY <2>1, <3>1
  <2>3. ReadFields(fields, content)[f] = SubSeq(long, s + 1, s + Width[f])
    BY <1>4, ReadField
  <2> DEFINE n == s + Width[f]
  <2>4. n \in Nat /\ s <= n /\ n <= Len(long) /\ n - s = Width[f]
    BY <1>2, <1>3, <1>4, <2>2
  <2> HIDE DEF long, s, f, n
  <2>5. SubSeq(long, s + 1, n) \in Seq(Byte) /\ Len(SubSeq(long, s + 1, n)) = n - s
    BY <1>3, <2>2, <2>4, Slice
  <2> QED  BY <2>3, <2>4, <2>5 DEF n, f
<1>5. CASE f \notin Fixed
  <2>1. ReadFields(fields, content)[f] = SubSeq(content, off + 1, Len(content))
    BY <1>5, ReadField DEF off
  <2>2. \A j \in (off + 1)..Len(content) : content[j] \in Byte
    BY <1>1
  <2>3. SubSeq(content, off + 1, Len(content)) \in Seq(Byte)
    BY <1>1, <2>2, SubSeqProperties
  <2> QED  BY <1>5, <2>1, <2>3
<1> QED  BY <1>4, <1>5

(* What is left of the parts behind the i-th.                              *)
LEMMA Around ==
  ASSUME NEW S, NEW parts \in Seq(Seq(S)), NEW i \in 1..Len(parts)
  PROVE  \E c \in Seq(S) :
           /\ FlattenSeq(parts) = (Before(parts, i) \o parts[i]) \o c
           /\ i = Len(parts) => c = <<>>
<1> DEFINE n == Len(parts)
           p == SubSeq(parts, 1, i)
           q == SubSeq(parts, i + 1, n)
<1>1. n \in Nat /\ \A j \in 1..n : parts[j] \in Seq(S)
  OBVIOUS
<1>2. p \in Seq(Seq(S)) /\ q \in Seq(Seq(S)) /\ (i = n => q = <<>>)
  <2>1. \A j \in 1..i : parts[j] \in Seq(S)
    BY <1>1
  <2>2. \A j \in (i + 1)..n : parts[j] \in Seq(S)
    BY <1>1
  <2>3. p \in Seq(Seq(S))
    BY <2>1, SubSeqProperties
  <2>4. q \in Seq(Seq(S))
    BY <1>1, <2>2, SubSeqProperties
  <2>5. i = n => q = <<>>
    BY <1>1, SubSeqEmpty
  <2> QED  BY <2>3, <2>4, <2>5
<1>3. parts = p \o q
  <2>1. 1 \in 1..(n + 1) /\ i \in (1 - 1)..n /\ n \in i..n
    BY <1>1
  <2>2. SubSeq(parts, 1, i) \o SubSeq(parts, i + 1, n) = SubSeq(parts, 1, n)
    BY <2>1, ConcatAdjacentSubSeq
  <2>3. SubSeq(parts, 1, n) = parts
    BY SubSeqFull
  <2> QED  BY <2>2, <2>3
<1>4. FlattenSeq(p) = Before(parts, i) \o parts[i]
  <2>1. Before(parts, i + 1) = Before(parts, i) \o parts[i]
    BY BeforeSteps
  <2>2. (i + 1) - 1 = i
    OBVIOUS
  <2> QED  BY <2>1, <2>2 DEF Before
<1> HIDE DEF p, q
<1>5. FlattenSeq(parts) = FlattenSeq(p) \o FlattenSeq(q)
  BY <1>2, <1>3, FlattenConcat
<1>6. FlattenSeq(q) \in Seq(S) /\ (i = n => FlattenSeq(q) = <<>>)
  BY <1>2, FlattenType, FlattenEmpty
<1> QED  BY <1>4, <1>5, <1>6

(* The parts of a content are read back as they were written.              *)
LEMMA ReadsBack ==
  ASSUME NEW fields, AreFields(fields), NEW parts, ArePartsOf(parts, fields),
         NEW i \in 1..Len(fields)
  PROVE  ReadFields(fields, FlattenSeq(parts))[fields[i]] = parts[i]
<1> DEFINE f == fields[i]
           content == FlattenSeq(parts)
           a == Before(parts, i)
           b == parts[i]
           s == Start(fields, i, content)
<1>0. parts \in Seq(Seq(Byte)) /\ Len(parts) = Len(fields)
  BY DEF ArePartsOf
<1>1. PICK c \in Seq(Byte) : content = (a \o b) \o c /\ (i = Len(parts) => c = <<>>)
  BY <1>0, Around
<1>2. /\ content \in Seq(Byte) /\ a \in Seq(Byte) /\ b \in Seq(Byte)
      /\ Len(content) \in Nat /\ Len(a) \in Nat /\ Len(b) \in Nat
  <2>1. content \in Seq(Byte) /\ a \in Seq(Byte)
    BY <1>0, FlattenType, BeforeSteps
  <2>2. b \in Seq(Byte)
    BY <1>0
  <2> HIDE DEF content, a, b
  <2> QED  BY <2>1, <2>2
<1>3. Offset(fields)[i] = Len(a)
  BY OffsetIs
<1>4. Len(content) = Len(a) + Len(b) + Len(c)
  <2> HIDE DEF content, a, b
  <2>1. a \o b \in Seq(Byte) /\ Len(a \o b) = Len(a) + Len(b)
    BY <1>2, ConcatProperties
  <2> DEFINE ab == a \o b
  <2> HIDE DEF ab
  <2>2. Len(ab \o c) = Len(ab) + Len(c)
    BY <2>1, ConcatProperties DEF ab
  <2> QED  BY <1>1, <2>1, <2>2 DEF ab
<1>5. CASE f \in Fixed
  <2> DEFINE zeros == Zeros(Width[f])
  <2>1. Len(b) = Width[f] /\ zeros \in Seq(Byte)
    BY <1>5, WidthAssumption, ZerosType DEF ArePartsOf
  <2>2. ReadFields(fields, content)[f] = SubSeq(content \o zeros, s + 1, s + Len(b))
    BY <1>5, <2>1, ReadField
  <2> HIDE DEF zeros, f, content
  <2>3. CASE Len(b) = 0
    <3>1. s \in Nat
      BY <1>2, <1>3 DEF Start
    <3> HIDE DEF a, b, s
    <3>2. SubSeq(content \o zeros, s + 1, s + Len(b)) = <<>>
      BY <1>2, <2>3, <3>1, SubSeqEmpty
    <3>3. b = <<>>
      BY <1>2, <2>3
    <3> QED  BY <2>2, <3>2, <3>3 DEF f, content, b
  <2>4. CASE Len(b) # 0
    <3>1. s = Len(a)
      <4> HIDE DEF a, b
      <4>1. Len(a) < Len(content)
        BY <1>2, <1>4, <2>4
      <4> QED  BY <1>3, <4>1 DEF Start
    <3> HIDE DEF a, b, s
    <3>2. content \o zeros = (a \o b) \o (c \o zeros) /\ c \o zeros \in Seq(Byte)
      <4>1. a \o b \in Seq(Byte) /\ c \o zeros \in Seq(Byte)
        BY <1>2, <2>1, ConcatProperties
      <4> DEFINE ab == a \o b
      <4> HIDE DEF ab
      <4>2. ab \in Seq(Byte) /\ zeros \in Seq(Byte)
        BY <2>1, <4>1 DEF ab
      <4>3. (ab \o c) \o zeros = ab \o (c \o zeros)
        BY ONLY <4>2, c \in Seq(Byte), ConcatAssociative
      <4> QED  BY <1>1, <4>1, <4>3 DEF ab
    <3>3. SubSeq(content \o zeros, Len(a) + 1, Len(a) + Len(b)) = b
      BY <1>2, <3>2, Middle
    <3> QED  BY <2>2, <3>1, <3>3 DEF f, content, b
  <2> QED  BY <2>3, <2>4
<1>6. CASE f \notin Fixed
  <2>1. i = Len(parts)
    BY <1>0, <1>6 DEF AreFields
  <2>2. ReadFields(fields, content)[f]
          = SubSeq(content, Len(a) + 1, Len(content))
    <3> HIDE DEF content, a
    <3>1. ReadFields(fields, content)[f]
            = SubSeq(content, Offset(fields)[i] + 1, Len(content))
      BY <1>6, ReadField
    <3> QED  BY <1>3, <3>1, Zenon
  <2>3. Len(content) = Len(a) + Len(b)
    <3>1. Len(c) = 0
      BY <1>1, <2>1
    <3> HIDE DEF content, a, b
    <3> QED  BY <1>2, <1>4, <3>1
  <2> HIDE DEF content, a, b, f
  <2>4. SubSeq(content, Len(a) + 1, Len(a) + Len(b)) = b
    BY <1>1, <1>2, Middle
  <2> QED  BY <2>2, <2>3, <2>4 DEF f, b, content
<1> QED  BY <1>5, <1>6

-----------------------------------------------------------------------------
(* Messages.                                                               *)

(* The messages of a struct.                                               *)
Message(kind) ==
  {m \in [Fields(kind) \cup {"kind"} -> Seq(Byte) \cup {kind}] :
     /\ m["kind"] = kind
     /\ \A f \in Fields(kind) :
          m[f] \in Seq(Byte) /\ (f \in Fixed => Len(m[f]) = Width[f])}
Messages == UNION {Message(kind) : kind \in Kinds}

LEMMA KindsAre ==
  Kinds = {"GetConnStatusRequestMsg", "GetConnStatusResponseMsg", "UpdateClientStatusMsg",
           "SendFileRequestMsg", "SendFileResponseMsg", "UpdateProgressMsg"}
BY DEF Kinds, headerInfo

LEMMA FieldsAre ==
  ASSUME NEW kind \in Kinds
  PROVE  AreFields(FieldsFrom[kind])
<1> USE DEF AreFields, FieldsFrom, Fixed, Names
<1>1. CASE kind = "GetConnStatusRequestMsg"
  BY <1>1 DEF GetConnStatusRequestFrom
<1>2. CASE kind = "GetConnStatusResponseMsg"
  BY <1>2 DEF GetConnStatusResponseFrom
<1>3. CASE kind = "UpdateClientStatusMsg"
  BY <1>3 DEF UpdateClientStatusFrom
<1>4. CASE kind = "SendFileRequestMsg"
  BY <1>4 DEF SendFileRequestFrom
<1>5. CASE kind = "SendFileResponseMsg"
  BY <1>5 DEF SendFileResponseFrom
<1>6. CASE kind = "UpdateProgressMsg"
  BY <1>6 DEF UpdateProgressFrom
<1> QED  BY <1>1, <1>2, <1>3, <1>4, <1>5, <1>6, KindsAre

LEMMA FieldsDomain ==
  ASSUME NEW kind \in Kinds
  PROVE  /\ Fields(kind) = {FieldsFrom[kind][i] : i \in 1..Len(FieldsFrom[kind])}
         /\ "kind" \notin Fields(kind)
<1> DEFINE fields == FieldsFrom[kind]
<1>1. AreFields(fields)
  BY FieldsAre
<1> HIDE DEF fields
<1>2. fields \in Seq(Fixed \cup Names) /\ DOMAIN fields = 1..Len(fields)
  BY <1>1 DEF AreFields
<1>3. Fields(kind) = {fields[i] : i \in 1..Len(fields)}
  BY <1>2 DEF Fields, fields
<1>4. \A i \in 1..Len(fields) : fields[i] # "kind"
  BY <1>2 DEF Fixed, Names
<1> QED  BY <1>3, <1>4 DEF fields

(* What fromByteArray takes for the content.                               *)
ContentIn(kind, data) ==
  IF kind = "GetConnStatusRequestMsg" THEN <<>>
  ELSE SubSeq(data, messageLength + 1, messageLength + contentLength(data))

(* The message m is what a content gives for the fields of the struct.     *)
IsRead(m, kind, content) ==
  /\ m = [f \in Fields(kind) \cup {"kind"} |-> m[f]]
  /\ m["kind"] = kind
  /\ \A i \in 1..Len(FieldsFrom[kind]) :
       m[FieldsFrom[kind][i]] = ReadFields(FieldsFrom[kind], content)[FieldsFrom[kind][i]]

(* A message read from the bytes of another, field by field, is that one.  *)
LEMMA SameMessage ==
  ASSUME NEW kind \in Kinds, NEW m \in Message(kind), NEW r, NEW content,
         IsRead(r, kind, content), \A f \in Fields(kind) : r[f] = m[f]
  PROVE  r = m
<1>1. m = [f \in Fields(kind) \cup {"kind"} |-> m[f]] /\ m["kind"] = kind
  BY DEF Message
<1>2. r = [f \in Fields(kind) \cup {"kind"} |-> r[f]] /\ r["kind"] = kind
  BY DEF IsRead
<1>3. \A f \in Fields(kind) \cup {"kind"} : r[f] = m[f]
  BY <1>1, <1>2
<1>4. [f \in Fields(kind) \cup {"kind"} |-> r[f]] = [f \in Fields(kind) \cup {"kind"} |-> m[f]]
  BY <1>3
<1> QED  BY <1>1, <1>2, <1>4, Zenon

LEMMA FromByteArrayIs ==
  ASSUME NEW kind \in Kinds, NEW data
  PROVE  IsRead(fromByteArray(kind, data), kind, ContentIn(kind, data))
<1> DEFINE fields == FieldsFrom[kind]
           r == ReadFields(fields, ContentIn(kind, data))
           m == fromByteArray(kind, data)
<1>1. m = [f \in DOMAIN r \cup {"kind"} |-> IF f = "kind" THEN kind ELSE r[f]]
  BY DEF fromByteArray, ContentIn
<1>2. DOMAIN r = Fields(kind)
  BY DEF ReadFields, Fields
<1> HIDE DEF m, r
<1>3. m = [f \in Fields(kind) \cup {"kind"} |-> IF f = "kind" THEN kind ELSE r[f]]
  BY <1>1, <1>2
<1>4. \A i \in 1..Len(fields) : fields[i] \in Fields(kind) /\ fields[i] # "kind"
  BY FieldsDomain
<1>5. m = [f \in Fields(kind) \cup {"kind"} |-> m[f]] /\ m["kind"] = kind
  BY <1>3
<1>6. \A i \in 1..Len(fields) : m[fields[i]] = r[fields[i]]
  <2> HIDE DEF fields
  <2> QED  BY <1>3, <1>4
<1> QED  BY <1>5, <1>6 DEF IsRead, m, r

LEMMA ValueExists ==
  ASSUME NEW s \in Seq(Byte)
  PROVE  \A n \in Nat : n <= Len(s) => \E f : IsValue(s, n, f) /\ f[n] \in Nat
<1> DEFINE S == {n \in Nat : n <= Len(s) => \E f : IsValue(s, n, f) /\ f[n] \in Nat}
<1>1. 0 \in S
  <2> DEFINE f == [i \in 0..0 |-> 0]
  <2>1. f = [i \in 0..0 |-> IF i = 0 THEN 0 ELSE f[i - 1] * Base + s[i]] /\ f[0] \in Nat
    OBVIOUS
  <2> QED  BY <2>1 DEF IsValue
<1>2. ASSUME NEW n \in Nat, n \in S PROVE n + 1 \in S
  <2> SUFFICES ASSUME n + 1 <= Len(s) PROVE \E f : IsValue(s, n + 1, f) /\ f[n + 1] \in Nat
    OBVIOUS
  <2>1. PICK f : IsValue(s, n, f) /\ f[n] \in Nat
    <3>1. n <= Len(s)
      OBVIOUS
    <3> QED  BY <1>2, <3>1
  <2> DEFINE g == [i \in 0..(n + 1) |-> IF i <= n THEN f[i] ELSE f[n] * Base + s[n + 1]]
  <2>2. ASSUME NEW i \in 0..(n + 1)
        PROVE  g[i] = IF i = 0 THEN 0 ELSE g[i - 1] * Base + s[i]
    <3>1. CASE i <= n
      <4>1. i \in 0..n /\ (i # 0 => i - 1 \in 0..(n + 1) /\ i - 1 <= n)
        BY <3>1
      <4>2. f[i] = IF i = 0 THEN 0 ELSE f[i - 1] * Base + s[i]
        BY <2>1, <4>1 DEF IsValue
      <4>3. g[i] = f[i] /\ (i # 0 => g[i - 1] = f[i - 1])
        BY <3>1, <4>1
      <4> HIDE DEF g
      <4> QED  BY <4>2, <4>3
    <3>2. CASE i = n + 1
      <4>1. n \in 0..(n + 1) /\ n <= n /\ i # 0 /\ i - 1 = n /\ ~(i <= n)
        BY <3>2
      <4>2. g[i - 1] = f[n] /\ g[i] = f[n] * Base + s[i]
        BY <3>2, <4>1
      <4> HIDE DEF g
      <4> QED  BY <4>1, <4>2
    <3> QED  BY <3>1, <3>2
  <2>3. g[n + 1] \in Nat
    <3>1. s[n + 1] \in Nat /\ Base \in Nat /\ n + 1 \in 0..(n + 1) /\ ~(n + 1 <= n)
      BY SizeAssumption DEF Byte
    <3>2. f[n] * Base \in Nat
      BY <2>1, <3>1
    <3> QED  BY <3>1, <3>2
  <2>4. IsValue(s, n + 1, g)
    <3>1. g = [i \in 0..(n + 1) |-> g[i]]
      OBVIOUS
    <3> HIDE DEF g
    <3>2. [i \in 0..(n + 1) |-> g[i]]
            = [i \in 0..(n + 1) |-> IF i = 0 THEN 0 ELSE g[i - 1] * Base + s[i]]
      BY <2>2
    <3> QED  BY <3>1, <3>2 DEF IsValue
  <2> QED  BY <2>3, <2>4
<1> HIDE DEF S
<1>3. Nat \subseteq S
  BY <1>1, <1>2, Induction
<1> QED  BY <1>3 DEF S

LEMMA UIntOfType ==
  ASSUME NEW s \in Seq(Byte)
  PROVE  UIntOf(s) \in Nat
<1>1. Len(s) \in Nat /\ Len(s) <= Len(s)
  OBVIOUS
<1>2. PICK f : IsValue(s, Len(s), f) /\ f[Len(s)] \in Nat
  BY <1>1, ValueExists
<1> QED  BY <1>1, <1>2, ValueIs

-----------------------------------------------------------------------------
(* Writing and reading a message.                                          *)

LEMMA HeaderType ==
  /\ TAG_NAME \in Seq(Byte) /\ Len(TAG_NAME) \in Nat /\ LenWidth \in Nat \ {0}
  /\ messageLength = Len(TAG_NAME) + 2 + LenWidth /\ messageLength \in Nat
  /\ \A kind \in Kinds : headerInfo[kind].type \in Byte /\ headerInfo[kind].code \in Byte
<1>1. {0, 1, 2, 3, 4, 5} \subseteq Byte
  BY NameAssumption, SizeAssumption DEF Byte
<1>2. \A kind \in Kinds : headerInfo[kind].type \in Byte /\ headerInfo[kind].code \in Byte
  BY <1>1, KindsAre DEF headerInfo, Request, Response, Notify
<1> QED  BY <1>2, WidthAssumption DEF messageLength

(* Bytes behind a header tell where the content is.                        *)
LEMMA ContentType ==
  ASSUME NEW data \in Seq(Byte), HasHeader(data)
  PROVE  /\ contentLength(data) \in Nat
         /\ \A kind \in Kinds : Complete(kind, data) => ContentIn(kind, data) \in Seq(Byte)
<1> DEFINE s == SubSeq(data, Len(TAG_NAME) + 3, messageLength)
           n == messageLength + contentLength(data)
<1>1. messageLength <= Len(data) /\ Len(data) \in Nat
  BY DEF HasHeader
<1>2. s \in Seq(Byte)
  <2>1. \A i \in (Len(TAG_NAME) + 3)..messageLength : data[i] \in Byte
    BY <1>1, HeaderType
  <2> QED  BY <2>1, HeaderType, SubSeqProperties
<1> HIDE DEF s
<1>3. contentLength(data) \in Nat
  BY <1>2, UIntOfType DEF contentLength, s
<1>4. ASSUME NEW kind \in Kinds, Complete(kind, data) PROVE ContentIn(kind, data) \in Seq(Byte)
  <2>1. CASE kind = "GetConnStatusRequestMsg"
    BY <2>1, EmptySeq DEF ContentIn
  <2>2. CASE kind # "GetConnStatusRequestMsg"
    <3>1. n \in Nat /\ n <= Len(data)
      BY <1>1, <1>3, <1>4, <2>2, HeaderType DEF Complete
    <3>2. \A i \in (messageLength + 1)..n : data[i] \in Byte
      BY <1>3, <3>1, HeaderType
    <3> HIDE DEF n
    <3>3. SubSeq(data, messageLength + 1, n) \in Seq(Byte)
      BY <3>1, <3>2, HeaderType, SubSeqProperties
    <3> QED  BY <2>2, <3>3 DEF ContentIn, n
  <2> QED  BY <2>1, <2>2
<1> QED  BY <1>3, <1>4

(* Whatever is read from complete data is a message, though perhaps none   *)
(* that was written.                                                       *)
LEMMA ReadsMessage ==
  ASSUME NEW data \in Seq(Byte), NEW kind \in Kinds, Complete(kind, data)
  PROVE  fromByteArray(kind, data) \in Message(kind) /\ FullLength(kind, data) \in Nat
<1> DEFINE m == fromByteArray(kind, data)
           content == ContentIn(kind, data)
           fields == FieldsFrom[kind]
<1>1. HasHeader(data)
  BY DEF Complete
<1>2. content \in Seq(Byte) /\ contentLength(data) \in Nat
  BY <1>1, ContentType
<1>3. FullLength(kind, data) \in Nat
  <2>1. Width["status"] \in Nat
    BY WidthAssumption DEF Fixed
  <2> QED  BY <1>2, <2>1, HeaderType DEF FullLength
<1>4. /\ m = [f \in Fields(kind) \cup {"kind"} |-> m[f]] /\ m["kind"] = kind
      /\ \A i \in 1..Len(fields) : m[fields[i]] = ReadFields(fields, content)[fields[i]]
  <2> HIDE DEF m, content
  <2>1. IsRead(m, kind, content)
    BY FromByteArrayIs DEF m, content
  <2> QED  BY <2>1, Zenon DEF IsRead
<1> HIDE DEF m, content
<1>5. ASSUME NEW i \in 1..Len(fields)
      PROVE  /\ m[fields[i]] \in Seq(Byte)
             /\ fields[i] \in Fixed => Len(m[fields[i]]) = Width[fields[i]]
  <2>1. AreFields(fields)
    BY FieldsAre
  <2> HIDE DEF fields
  <2> DEFINE r == ReadFields(fields, content)[fields[i]]
  <2>2. r \in Seq(Byte) /\ (fields[i] \in Fixed => Len(r) = Width[fields[i]])
    BY <1>2, <2>1, ReadsBytes
  <2>3. m[fields[i]] = r
    BY <1>4
  <2> HIDE DEF r
  <2> QED  BY <2>2, <2>3
<1>6. \A f \in Fields(kind) : m[f] \in Seq(Byte) /\ (f \in Fixed => Len(m[f]) = Width[f])
  BY <1>5, FieldsDomain
<1>7. m \in [Fields(kind) \cup {"kind"} -> Seq(Byte) \cup {kind}]
  BY <1>4, <1>6
<1>8. m \in Message(kind)
  BY <1>4, <1>6, <1>7 DEF Message
<1> QED  BY <1>3, <1>8 DEF m

(* The fields of a message in the order of its struct.                     *)
Parts(kind, m) == [i \in 1..Len(FieldsFrom[kind]) |-> m[FieldsFrom[kind][i]]]
ContentOf(kind, m) == FlattenSeq(Parts(kind, m))

LEMMA PartsAre ==
  ASSUME NEW kind \in Kinds, NEW m \in Message(kind)
  PROVE  ArePartsOf(Parts(kind, m), FieldsFrom[kind]) /\ ContentOf(kind, m) \in Seq(Byte)
<1> DEFINE fields == FieldsFrom[kind]
           parts == Parts(kind, m)
<1>1. Len(fields) \in Nat
  BY FieldsAre DEF AreFields
<1>2. \A i \in 1..Len(fields) :
        /\ m[fields[i]] \in Seq(Byte)
        /\ fields[i] \in Fixed => Len(m[fields[i]]) = Width[fields[i]]
  BY FieldsDomain DEF Message
<1>3. parts = [i \in 1..Len(fields) |-> m[fields[i]]]
  BY DEF Parts
<1> HIDE DEF parts, fields
<1>4. parts \in Seq(Seq(Byte)) /\ Len(parts) = Len(fields)
  BY <1>1, <1>2, <1>3
<1>5. ArePartsOf(parts, fields)
  BY <1>2, <1>3, <1>4 DEF ArePartsOf
<1>6. FlattenSeq(parts) \in Seq(Byte)
  BY <1>4, FlattenType
<1> QED  BY <1>5, <1>6 DEF ContentOf, parts, fields

LEMMA Unrolled ==
  ASSUME NEW S, NEW p \in Seq(Seq(S))
  PROVE  /\ Len(p) = 0 => FlattenSeq(p) = <<>>
         /\ Len(p) = 1 => FlattenSeq(p) = p[1]
         /\ Len(p) = 5 => FlattenSeq(p) = p[1] \o p[2] \o p[3] \o p[4] \o p[5]
         /\ Len(p) = 6 => FlattenSeq(p) = p[1] \o p[2] \o p[3] \o p[4] \o p[5] \o p[6]
         /\ Len(p) = 7 => FlattenSeq(p) = p[1] \o p[2] \o p[3] \o p[4] \o p[5] \o p[6] \o p[7]
<1>1. Len(p) \in Nat /\ (Len(p) = 0 => p = <<>>)
  OBVIOUS
<1>2. FlattenSeq(p) = Before(p, Len(p) + 1)
  <2>1. (Len(p) + 1) - 1 = Len(p)
    BY <1>1
  <2>2. SubSeq(p, 1, Len(p)) = p
    BY SubSeqFull
  <2> QED  BY <2>1, <2>2 DEF Before
<1>3. \A i \in 1..Len(p) : Before(p, i + 1) = Before(p, i) \o p[i]
  BY BeforeSteps
<1>4. 1 \in 1..Len(p) => p[1] \in Seq(S) /\ Before(p, 1) = <<>>
  BY BeforeSteps
<1>5. 1 \in 1..Len(p) => <<>> \o p[1] = p[1]
  BY <1>4, ConcatEmptySeq
<1>6. 1 \in 1..Len(p) => Before(p, 2) = p[1]
  <2>1. 1 + 1 = 2
    OBVIOUS
  <2>2. 1 \in 1..Len(p) => Before(p, 1 + 1) = Before(p, 1) \o p[1]
    BY <1>3
  <2> QED  BY <1>4, <1>5, <2>1, <2>2
<1>7. \A i \in Nat : i + 1 \in 1..Len(p) => Before(p, (i + 1) + 1) = Before(p, i + 1) \o p[i + 1]
  BY <1>3
<1>8. /\ 2 \in 1..Len(p) => Before(p, 3) = Before(p, 2) \o p[2]
      /\ 3 \in 1..Len(p) => Before(p, 4) = Before(p, 3) \o p[3]
      /\ 4 \in 1..Len(p) => Before(p, 5) = Before(p, 4) \o p[4]
      /\ 5 \in 1..Len(p) => Before(p, 6) = Before(p, 5) \o p[5]
      /\ 6 \in 1..Len(p) => Before(p, 7) = Before(p, 6) \o p[6]
      /\ 7 \in 1..Len(p) => Before(p, 8) = Before(p, 7) \o p[7]
  <2>1. 2 + 1 = 3 /\ 3 + 1 = 4 /\ 4 + 1 = 5 /\ 5 + 1 = 6 /\ 6 + 1 = 7 /\ 7 + 1 = 8
    OBVIOUS
  <2>2. /\ 2 \in 1..Len(p) => Before(p, 2 + 1) = Before(p, 2) \o p[2]
        /\ 3 \in 1..Len(p) => Before(p, 3 + 1) = Before(p, 3) \o p[3]
        /\ 4 \in 1..Len(p) => Before(p, 4 + 1) = Before(p, 4) \o p[4]
        /\ 5 \in 1..Len(p) => Before(p, 5 + 1) = Before(p, 5) \o p[5]
        /\ 6 \in 1..Len(p) => Before(p, 6 + 1) = Before(p, 6) \o p[6]
        /\ 7 \in 1..Len(p) => Before(p, 7 + 1) = Before(p, 7) \o p[7]
    BY <1>3, Zenon
  <2> QED  BY <2>1, <2>2
<1>9. CASE Len(p) = 0
  BY <1>1, <1>9, FlattenEmpty
<1>10. CASE Len(p) = 1
  <2>1. 1 \in 1..Len(p) /\ 1 + 1 = 2
    BY <1>10
  <2> QED  BY <1>2, <1>6, <1>10, <2>1
<1>11. CASE Len(p) = 5
  <2>1. \A i \in {1, 2, 3, 4, 5} : i \in 1..Len(p)
    BY <1>11
  <2>2. 5 + 1 = 6
    OBVIOUS
  <2>3. /\ Before(p, 2) = p[1]
        /\ Before(p, 3) = Before(p, 2) \o p[2]
        /\ Before(p, 4) = Before(p, 3) \o p[3]
        /\ Before(p, 5) = Before(p, 4) \o p[4]
        /\ Before(p, 6) = Before(p, 5) \o p[5]
    BY <1>6, <1>8, <2>1
  <2>4. FlattenSeq(p) = Before(p, 6)
    BY <1>2, <1>11, <2>2
  <2>5. FlattenSeq(p) = p[1] \o p[2] \o p[3] \o p[4] \o p[5]
    BY <2>3, <2>4, Zenon
  <2> QED  BY <1>11, <2>5
<1>12. CASE Len(p) = 6
  <2>1. \A i \in {1, 2, 3, 4, 5, 6} : i \in 1..Len(p)
    BY <1>12
  <2>2. 6 + 1 = 7
    OBVIOUS
  <2>3. /\ Before(p, 2) = p[1]
        /\ Before(p, 3) = Before(p, 2) \o p[2]
        /\ Before(p, 4) = Before(p, 3) \o p[3]
        /\ Before(p, 5) = Before(p, 4) \o p[4]
        /\ Before(p, 6) = Before(p, 5) \o p[5]
        /\ Before(p, 7) = Before(p, 6) \o p[6]
    BY <1>6, <1>8, <2>1
  <2>4. FlattenSeq(p) = Before(p, 7)
    BY <1>2, <1>12, <2>2
  <2>5. FlattenSeq(p) = p[1] \o p[2] \o p[3] \o p[4] \o p[5] \o p[6]
    BY <2>3, <2>4, Zenon
  <2> QED  BY <1>12, <2>5
<1>13. CASE Len(p) = 7
  <2>1. \A i \in {1, 2, 3, 4, 5, 6, 7} : i \in 1..Len(p)
    BY <1>13
  <2>2. 7 + 1 = 8
    OBVIOUS
  <2>3. /\ Before(p, 2) = p[1]
        /\ Before(p, 3) = Before(p, 2) \o p[2]
        /\ Before(p, 4) = Before(p, 3) \o p[3]
        /\ Before(p, 5) = Before(p, 4) \o p[4]
        /\ Before(p, 6) = Before(p, 5) \o p[5]
        /\ Before(p, 7) = Before(p, 6) \o p[6]
        /\ Before(p, 8) = Before(p, 7) \o p[7]
    BY <1>6, <1>8, <2>1
  <2>4. FlattenSeq(p) = Before(p, 8)
    BY <1>2, <1>13, <2>2
  <2>5. FlattenSeq(p) = p[1] \o p[2] \o p[3] \o p[4] \o p[5] \o p[6] \o p[7]
    BY <2>3, <2>4, Zenon
  <2> QED  BY <1>13, <2>5
<1> QED  BY <1>9, <1>10, <1>11, <1>12, <1>13

(* toByteArray writes the header, then the fields in order.                *)
LEMMA ToByteArrayIs ==
  ASSUME NEW kind \in Kinds, NEW m \in Message(kind)
  PROVE  toByteArray(m) = WithHeader(kind, ContentOf(kind, m))
<1> DEFINE p == Parts(kind, m)
           fields == FieldsFrom[kind]
<1>1. p \in Seq(Seq(Byte)) /\ ContentOf(kind, m) = FlattenSeq(p)
  BY PartsAre DEF ArePartsOf, ContentOf
<1>2. m.kind = kind
  BY DEF Message
<1>3. p = [i \in 1..Len(fields) |-> m[fields[i]]]
  BY DEF Parts
<1>4. Len(fields) \in Nat
  BY FieldsAre DEF AreFields
<1>5. Len(p) = Len(fields) /\ \A i \in 1..Len(fields) : p[i] = m[fields[i]]
  <2> HIDE DEF fields, p
  <2> QED  BY <1>3, <1>4
<1> HIDE DEF p
<1>6. CASE kind = "GetConnStatusRequestMsg"
  <2>1. Len(p) = 0
    BY <1>5, <1>6 DEF FieldsFrom, GetConnStatusRequestFrom
  <2>2. FlattenSeq(p) = <<>>
    BY <1>1, <2>1, Unrolled
  <2> QED  BY <1>1, <1>2, <1>6, <2>2 DEF toByteArray, GetConnStatusRequestTo
<1>7. CASE kind = "GetConnStatusResponseMsg"
  <2>1. Len(p) = 1 /\ p[1] = m.status
    BY <1>5, <1>7 DEF FieldsFrom, GetConnStatusResponseFrom
  <2>2. FlattenSeq(p) = m.status
    BY <1>1, <2>1, Unrolled
  <2> QED  BY <1>1, <1>2, <1>7, <2>2 DEF toByteArray, GetConnStatusResponseTo
<1>8. CASE kind = "UpdateClientStatusMsg"
  <2>1. /\ Len(p) = 5
        /\ p[1] = m.status /\ p[2] = m.ip /\ p[3] = m.port /\ p[4] = m.clientID
        /\ p[5] = m.clientName
    BY <1>5, <1>8 DEF FieldsFrom, UpdateClientStatusFrom
  <2>2. FlattenSeq(p) = m.status \o m.ip \o m.port \o m.clientID \o m.clientName
    BY <1>1, <2>1, Unrolled
  <2> QED  BY <1>1, <1>2, <1>8, <2>2 DEF toByteArray, UpdateClientStatusTo
<1>9. CASE kind = "SendFileRequestMsg"
  <2>1. /\ Len(p) = 6
        /\ p[1] = m.ip /\ p[2] = m.port /\ p[3] = m.clientID /\ p[4] = m.fileSize
        /\ p[5] = m.timeStamp /\ p[6] = m.fileName
    BY <1>5, <1>9 DEF FieldsFrom, SendFileRequestFrom
  <2>2. FlattenSeq(p) = m.ip \o m.port \o m.clientID \o m.fileSize \o m.timeStamp \o m.fileName
    BY <1>1, <2>1, Unrolled
  <2> QED  BY <1>1, <1>2, <1>9, <2>2 DEF toByteArray, SendFileRequestTo
<1>10. CASE kind = "SendFileResponseMsg"
  <2>1. /\ Len(p) = 7
        /\ p[1] = m.status /\ p[2] = m.ip /\ p[3] = m.port /\ p[4] = m.clientID
        /\ p[5] = m.fileSize /\ p[6] = m.timeStamp /\ p[7] = m.fileName
    BY <1>5, <1>10 DEF FieldsFrom, SendFileResponseFrom
  <2>2. FlattenSeq(p) = m.status \o m.ip \o m.port \o m.clientID \o m.fileSize
                          \o m.timeStamp \o m.fileName
    BY <1>1, <2>1, Unrolled
  <2> QED  BY <1>1, <1>2, <1>10, <2>2 DEF toByteArray, SendFileResponseTo
<1>11. CASE kind = "UpdateProgressMsg"
  <2>1. /\ Len(p) = 7
        /\ p[1] = m.ip /\ p[2] = m.port /\ p[3] = m.clientID /\ p[4] = m.fileSize
        /\ p[5] = m.sentSize /\ p[6] = m.timeStamp /\ p[7] = m.fileName
    BY <1>5, <1>11 DEF FieldsFrom, UpdateProgressFrom
  <2>2. FlattenSeq(p) = m.ip \o m.port \o m.clientID \o m.fileSize \o m.sentSize
                          \o m.timeStamp \o m.fileName
    BY <1>1, <2>1, Unrolled
  <2> QED  BY <1>1, <1>2, <1>11, <2>2 DEF toByteArray, UpdateProgressTo
<1> QED  BY <1>6, <1>7, <1>8, <1>9, <1>10, <1>11, KindsAre

(* The same elements at the front.                                         *)
Agree(d, b, n) == n \in Nat /\ n <= Len(d) /\ n <= Len(b) /\ \A i \in 1..n : d[i] = b[i]

LEMMA FrontsAgree ==
  ASSUME NEW S, NEW d \in Seq(S), NEW p \in Seq(S), NEW b \in Seq(S), NEW t \in Seq(S),
         d \o p = b \o t
  PROVE  \A n \in Nat : n <= Len(d) /\ n <= Len(b) => Agree(d, b, n)
<1>1. /\ \A i \in 1..(Len(d) + Len(p)) : (d \o p)[i] = IF i <= Len(d) THEN d[i] ELSE p[i - Len(d)]
      /\ \A i \in 1..(Len(b) + Len(t)) : (b \o t)[i] = IF i <= Len(b) THEN b[i] ELSE t[i - Len(b)]
  BY ConcatProperties
<1>2. ASSUME NEW n \in Nat, n <= Len(d), n <= Len(b), NEW i \in 1..n PROVE d[i] = b[i]
  <2>1. /\ i \in 1..(Len(d) + Len(p)) /\ i <= Len(d)
        /\ i \in 1..(Len(b) + Len(t)) /\ i <= Len(b)
    BY <1>2
  <2>2. (d \o p)[i] = d[i] /\ (b \o t)[i] = b[i]
    BY <1>1, <2>1
  <2> QED  BY <2>2
<1> QED  BY <1>2 DEF Agree

LEMMA SamePiece ==
  ASSUME NEW S, NEW d \in Seq(S), NEW b \in Seq(S), NEW n, Agree(d, b, n),
         NEW k \in Nat \ {0}, k <= n + 1
  PROVE  SubSeq(d, k, n) = SubSeq(b, k, n)
<1> DEFINE m == k - 1
           x == SubSeq(d, m + 1, n)
           y == SubSeq(b, m + 1, n)
<1>1. n \in Nat /\ n <= Len(d) /\ n <= Len(b) /\ \A i \in 1..n : d[i] = b[i]
  BY DEF Agree
<1>3. m \in Nat /\ m <= n /\ m + 1 = k
  BY <1>1
<1> HIDE DEF m
<1>4. /\ x \in Seq(S) /\ Len(x) = n - m /\ \A i \in 1..(n - m) : x[i] = d[m + i]
      /\ y \in Seq(S) /\ Len(y) = n - m /\ \A i \in 1..(n - m) : y[i] = b[m + i]
  BY <1>1, <1>3, Slice
<1> HIDE DEF x, y
<1>5. ASSUME NEW i \in 1..(n - m) PROVE x[i] = y[i]
  <2>1. m + i \in 1..n
    BY <1>1, <1>3
  <2>2. d[m + i] = b[m + i]
    BY <1>1, <2>1
  <2> QED  BY <1>4, <2>2
<1>6. x = y
  BY <1>1, <1>3, <1>4, <1>5, SameElements
<1> QED  BY <1>3, <1>6 DEF x, y

(* What a retrieve of n bytes leaves.                                      *)
After(s, n) == IF n < Len(s) THEN SubSeq(s, n + 1, Len(s)) ELSE <<>>

(* Taking off what is in front leaves what was behind it.                  *)
LEMMA DropFirst ==
  ASSUME NEW d \in Seq(Byte), NEW p \in Seq(Byte), NEW b \in Seq(Byte), NEW t \in Seq(Byte),
         d \o p = b \o t, Len(b) <= Len(d)
  PROVE  After(d, Len(b)) \in Seq(Byte) /\ After(d, Len(b)) \o p = t
<1> DEFINE n == Len(b)
           r == SubSeq(d, n + 1, Len(d))
<1>1. n \in Nat /\ Len(d) \in Nat
  OBVIOUS
<1>2. SubSeq(d, 1, n) = SubSeq(b, 1, n)
  <2> HIDE DEF n
  <2>1. n \in Nat /\ n <= Len(d) /\ n <= Len(b)
    BY DEF n
  <2>2. Agree(d, b, n)
    BY ONLY d \in Seq(Byte), p \in Seq(Byte), b \in Seq(Byte), t \in Seq(Byte), d \o p = b \o t,
            <2>1, FrontsAgree
  <2>3. 1 \in Nat \ {0} /\ 1 <= n + 1
    BY <2>1
  <2> QED  BY ONLY d \in Seq(Byte), b \in Seq(Byte), <2>2, <2>3, SamePiece
<1>3. SubSeq(b, 1, n) = b
  BY SubSeqFull
<1>4. r \in Seq(Byte) /\ (~(n < Len(d)) => r = <<>>)
  <2>1. r \in Seq(Byte) /\ Len(r) = Len(d) - n
    BY <1>1, Slice
  <2> HIDE DEF r
  <2> QED  BY <1>1, <2>1
<1>5. d = b \o r
  <2>1. 1 \in 1..(Len(d) + 1) /\ n \in (1 - 1)..Len(d) /\ Len(d) \in n..Len(d)
    BY <1>1
  <2>2. SubSeq(d, 1, n) \o SubSeq(d, n + 1, Len(d)) = SubSeq(d, 1, Len(d))
    BY <2>1, ConcatAdjacentSubSeq
  <2>3. SubSeq(d, 1, Len(d)) = d
    BY SubSeqFull
  <2>4. SubSeq(d, 1, n) = b
    BY <1>2, <1>3
  <2> QED  BY <2>2, <2>3, <2>4
<1> HIDE DEF r
<1>6. d \o p = b \o (r \o p)
  <2>1. r \in Seq(Byte) /\ b \in Seq(Byte) /\ p \in Seq(Byte)
    BY <1>4
  <2>2. (b \o r) \o p = b \o (r \o p)
    BY ONLY <2>1, ConcatAssociative
  <2> QED  BY <1>5, <2>2
<1>7. r \o p \in Seq(Byte)
  BY <1>4, ConcatProperties
<1>8. r \o p = t
  <2> DEFINE q == r \o p
  <2>1. q \in Seq(Byte) /\ b \o q = b \o t
    BY <1>6, <1>7
  <2> HIDE DEF q
  <2>2. q = t
    BY <2>1, ConcatSimplifications
  <2> QED  BY <2>2 DEF q
<1>9. After(d, n) = r
  BY <1>4 DEF After, r
<1> QED  BY <1>4, <1>8, <1>9

LEMMA BytesAssociate ==
  ASSUME NEW s \in Seq(Byte), NEW t \in Seq(Byte), NEW u \in Seq(Byte)
  PROVE  (s \o t) \o u = s \o (t \o u)
BY ConcatAssociative

(* A message as toByteArray lays it out.                                   *)
LEMMA Layout ==
  ASSUME NEW kind \in Kinds, NEW content \in Seq(Byte)
  PROVE  LET b == WithHeader(kind, content)
             n == Len(TAG_NAME)
         IN  /\ b \in Seq(Byte)
             /\ Len(b) = messageLength + Len(content)
             /\ SubSeq(b, 1, n) = TAG_NAME
             /\ b[n + 1] = headerInfo[kind].type
             /\ b[n + 2] = headerInfo[kind].code
             /\ SubSeq(b, n + 3, messageLength) = BigEndian(Len(content), LenWidth)
             /\ SubSeq(b, messageLength + 1, messageLength + Len(content)) = content
<1> DEFINE n == Len(TAG_NAME)
           two == <<headerInfo[kind].type, headerInfo[kind].code>>
           num == BigEndian(Len(content), LenWidth)
           x == TAG_NAME \o two
           y == x \o num
           b == WithHeader(kind, content)
<1>1. /\ TAG_NAME \in Seq(Byte) /\ n \in Nat /\ LenWidth \in Nat
      /\ messageLength = n + 2 + LenWidth /\ Len(content) \in Nat
  BY HeaderType
<1>2. two \in Seq(Byte) /\ Len(two) = 2
  BY HeaderType
<1>3. num \in Seq(Byte) /\ Len(num) = LenWidth
  BY <1>1, BigEndianType
<1>4. b = y \o content
  BY DEF WithHeader
<1>5. two[1] = headerInfo[kind].type /\ two[2] = headerInfo[kind].code
  OBVIOUS
<1> HIDE DEF two, num
<1>6. /\ x \in Seq(Byte) /\ Len(x) = n + 2
      /\ \A i \in 1..(n + 2) : x[i] = IF i <= n THEN TAG_NAME[i] ELSE two[i - n]
  <2>1. TAG_NAME \in Seq(Byte) /\ two \in Seq(Byte)
    BY <1>1, <1>2
  <2>2. /\ TAG_NAME \o two \in Seq(Byte)
        /\ Len(TAG_NAME \o two) = Len(TAG_NAME) + Len(two)
        /\ \A i \in 1..(Len(TAG_NAME) + Len(two)) :
             (TAG_NAME \o two)[i] = IF i <= Len(TAG_NAME) THEN TAG_NAME[i]
                                     ELSE two[i - Len(TAG_NAME)]
    BY ONLY <2>1, ConcatProperties
  <2> QED  BY <1>2, <2>2
<1>7. /\ y \in Seq(Byte) /\ Len(y) = messageLength
  <2> HIDE DEF x
  <2>0. x \in Seq(Byte) /\ num \in Seq(Byte)
    BY <1>3, <1>6
  <2>1. x \o num \in Seq(Byte) /\ Len(x \o num) = Len(x) + Len(num)
    BY ONLY <2>0, ConcatProperties
  <2> QED  BY <1>1, <1>3, <1>6, <2>1
<1>8. y \o content \in Seq(Byte) /\ Len(y \o content) = messageLength + Len(content)
  <2> HIDE DEF y
  <2>1. y \o content \in Seq(Byte) /\ Len(y \o content) = Len(y) + Len(content)
    BY <1>7, ConcatProperties
  <2> QED  BY <1>7, <2>1
<1>9. SubSeq(b, messageLength + 1, messageLength + Len(content)) = content
  <2> HIDE DEF y
  <2>1. (y \o content) \o <<>> = y \o content
    BY <1>8, ConcatEmptySeq
  <2>2. SubSeq((y \o content) \o <<>>, Len(y) + 1, Len(y) + Len(content)) = content
    BY <1>7, EmptySeq, Middle
  <2> QED  BY <1>4, <1>7, <2>1, <2>2
<1>10. SubSeq(b, n + 3, messageLength) = num
  <2> HIDE DEF x
  <2>1. SubSeq((x \o num) \o content, Len(x) + 1, Len(x) + Len(num)) = num
    BY <1>3, <1>6, Middle
  <2>2. Len(x) + 1 = n + 3 /\ Len(x) + Len(num) = messageLength
    BY <1>1, <1>3, <1>6
  <2> QED  BY <1>4, <2>1, <2>2
<1>11. b = x \o (num \o content) /\ num \o content \in Seq(Byte)
  <2> HIDE DEF x
  <2>1. (x \o num) \o content = x \o (num \o content)
    BY <1>3, <1>6, ConcatAssociative
  <2>2. num \o content \in Seq(Byte)
    BY <1>3, ConcatProperties
  <2> QED  BY <1>4, <2>1, <2>2
<1>12. \A i \in 1..(n + 2) : b[i] = x[i]
  <2> DEFINE z == num \o content
  <2>1. z \in Seq(Byte) /\ b = x \o z
    BY <1>11
  <2> HIDE DEF x, z, b
  <2>2. \A i \in 1..(Len(x) + Len(z)) : (x \o z)[i] = IF i <= Len(x) THEN x[i] ELSE z[i - Len(x)]
    BY <1>6, <2>1, ConcatProperties
  <2>3. \A i \in 1..(n + 2) : i \in 1..(Len(x) + Len(z)) /\ i <= Len(x)
    BY <1>1, <1>6, <2>1
  <2> QED  BY <2>1, <2>2, <2>3
<1>13. b[n + 1] = two[1] /\ b[n + 2] = two[2]
  <2>1. /\ n + 1 \in 1..(n + 2) /\ ~(n + 1 <= n) /\ (n + 1) - n = 1
        /\ n + 2 \in 1..(n + 2) /\ ~(n + 2 <= n) /\ (n + 2) - n = 2
    BY <1>1
  <2> HIDE DEF x, b
  <2> QED  BY <1>6, <1>12, <2>1
<1>14. SubSeq(b, 1, n) = TAG_NAME
  <2> DEFINE z == two \o (num \o content)
  <2>1. z \in Seq(Byte) /\ x \o (num \o content) = TAG_NAME \o z
    <3> DEFINE w == num \o content
    <3>1. w \in Seq(Byte)
      BY <1>11
    <3> HIDE DEF w
    <3>2. (TAG_NAME \o two) \o w = TAG_NAME \o (two \o w) /\ two \o w \in Seq(Byte)
      <4>1. TAG_NAME \in Seq(Byte) /\ two \in Seq(Byte) /\ w \in Seq(Byte)
        BY <1>1, <1>2, <3>1
      <4>2. (TAG_NAME \o two) \o w = TAG_NAME \o (two \o w)
        BY ONLY <4>1, ConcatAssociative
      <4>3. two \o w \in Seq(Byte)
        BY ONLY <4>1, ConcatProperties
      <4> QED  BY <4>2, <4>3
    <3> QED  BY <3>2 DEF w
  <2> HIDE DEF z, x
  <2>2. <<>> \o TAG_NAME = TAG_NAME /\ <<>> \in Seq(Byte) /\ Len(<<>>) = 0
    BY <1>1, ConcatEmptySeq, EmptySeq
  <2>3. SubSeq((<<>> \o TAG_NAME) \o z, Len(<<>>) + 1, Len(<<>>) + n) = TAG_NAME
    BY <1>1, <2>1, <2>2, Middle
  <2>4. 0 + 1 = 1 /\ 0 + n = n
    BY <1>1
  <2> QED  BY <1>11, <2>1, <2>2, <2>3, <2>4
<1> HIDE DEF b, y
<1> QED  BY <1>4, <1>5, <1>8, <1>9, <1>10, <1>13, <1>14 DEF num, b

(* The header can say how long the content is.                             *)
Fits(kind, m) == Without(Len(ContentOf(kind, m)), LenWidth) = 0

(* Data that begin with a message, and hold its header, show its header.   *)
LEMMA FirstHeader ==
  ASSUME NEW kind \in Kinds, NEW m \in Message(kind), Fits(kind, m),
         NEW data \in Seq(Byte), NEW pipe \in Seq(Byte), NEW t \in Seq(Byte),
         data \o pipe = toByteArray(m) \o t, messageLength <= Len(data)
  PROVE  /\ HasHeader(data)
         /\ typeOf(data) = headerInfo[kind].type
         /\ codeOf(data) = headerInfo[kind].code
         /\ contentLength(data) = Len(ContentOf(kind, m))
<1> DEFINE content == ContentOf(kind, m)
           b == toByteArray(m)
           n == Len(TAG_NAME)
           num == BigEndian(Len(content), LenWidth)
<1>1. content \in Seq(Byte) /\ b = WithHeader(kind, content)
  BY PartsAre, ToByteArrayIs
<1> HIDE DEF content, b
<1>2. /\ b \in Seq(Byte)
      /\ Len(b) = messageLength + Len(content)
      /\ SubSeq(b, 1, n) = TAG_NAME
      /\ b[n + 1] = headerInfo[kind].type
      /\ b[n + 2] = headerInfo[kind].code
      /\ SubSeq(b, n + 3, messageLength) = num
  BY <1>1, Layout
<1>3. /\ n \in Nat /\ messageLength \in Nat /\ n + 2 <= messageLength /\ n <= messageLength
      /\ messageLength <= Len(b) /\ Len(content) \in Nat /\ LenWidth \in Nat
  BY <1>1, <1>2, HeaderType
<1>4. data \o pipe = b \o t
  BY DEF b
<1>5. \A k \in Nat : k <= Len(data) /\ k <= Len(b) => Agree(data, b, k)
  BY <1>2, <1>4, FrontsAgree
<1>6. /\ \A i \in 1..messageLength : data[i] = b[i]
      /\ SubSeq(data, n + 3, messageLength) = SubSeq(b, n + 3, messageLength)
      /\ SubSeq(data, 1, n) = SubSeq(b, 1, n)
  <2> DEFINE k == n + 3
  <2>1. /\ k \in Nat \ {0} /\ k <= messageLength + 1 /\ 1 \in Nat \ {0} /\ 1 <= n + 1
        /\ n <= Len(data) /\ n <= Len(b)
    BY <1>2, <1>3
  <2>2. Agree(data, b, messageLength) /\ Agree(data, b, n)
    BY <1>3, <1>5, <2>1
  <2> HIDE DEF k, n
  <2>3. SubSeq(data, k, messageLength) = SubSeq(b, k, messageLength)
    <3>1. b \in Seq(Byte)
      BY <1>2
    <3> QED  BY ONLY data \in Seq(Byte), <3>1, <2>1, <2>2, SamePiece
  <2>4. SubSeq(data, 1, n) = SubSeq(b, 1, n)
    <3>1. b \in Seq(Byte)
      BY <1>2
    <3> QED  BY ONLY data \in Seq(Byte), <3>1, <2>1, <2>2, SamePiece
  <2> QED  BY <2>2, <2>3, <2>4 DEF Agree, k
<1>7. HasHeader(data)
  BY <1>2, <1>6 DEF HasHeader
<1>8. typeOf(data) = headerInfo[kind].type /\ codeOf(data) = headerInfo[kind].code
  <2>1. n + 1 \in 1..messageLength /\ n + 2 \in 1..messageLength
    BY <1>3
  <2> QED  BY <1>2, <1>6, <2>1 DEF typeOf, codeOf
<1>9. contentLength(data) = Len(content)
  <2>1. UIntOf(num) = Len(content)
    BY <1>3, NumberReadBack DEF Fits, content
  <2> QED  BY <1>2, <1>6, <2>1 DEF contentLength
<1> QED  BY <1>7, <1>8, <1>9 DEF content

(* The message at the front of the data is read back as it was written,    *)
(* and the rest of the data begins where it ends.                          *)
THEOREM FirstReadBack ==
  ASSUME NEW kind \in Kinds \ {"GetConnStatusRequestMsg"}, NEW m \in Message(kind),
         Fits(kind, m), NEW data \in Seq(Byte), NEW pipe \in Seq(Byte), NEW t \in Seq(Byte),
         data \o pipe = toByteArray(m) \o t, messageLength <= Len(data)
  PROVE  /\ Complete(kind, data) <=> Len(toByteArray(m)) <= Len(data)
         /\ Complete(kind, data) =>
              fromByteArray(kind, data) = m /\ FullLength(kind, data) = Len(toByteArray(m))
<1> DEFINE content == ContentOf(kind, m)
           b == toByteArray(m)
           fields == FieldsFrom[kind]
           parts == Parts(kind, m)
<1>1. content \in Seq(Byte) /\ b = WithHeader(kind, content) /\ ArePartsOf(parts, fields)
  BY PartsAre, ToByteArrayIs
<1>2. HasHeader(data) /\ contentLength(data) = Len(content)
  BY FirstHeader
<1> HIDE DEF content, b
<1>3. /\ b \in Seq(Byte) /\ Len(b) = messageLength + Len(content)
      /\ SubSeq(b, messageLength + 1, messageLength + Len(content)) = content
  BY <1>1, Layout
<1>4. messageLength \in Nat /\ Len(content) \in Nat /\ Len(data) \in Nat /\ Len(b) \in Nat
  BY <1>1, <1>3, HeaderType
<1>5. Complete(kind, data) <=> Len(b) <= Len(data)
  BY <1>2, <1>3, <1>4 DEF Complete
<1>6. ASSUME Complete(kind, data) PROVE FullLength(kind, data) = Len(b)
  <2>1. CASE kind = "GetConnStatusResponseMsg"
    <3>1. Len(fields) = 1 /\ fields[1] = "status" /\ "status" \in Fixed
      BY <2>1 DEF FieldsFrom, GetConnStatusResponseFrom, Fixed
    <3> HIDE DEF parts, fields
    <3>2. parts \in Seq(Seq(Byte)) /\ Len(parts) = 1 /\ Len(parts[1]) = Width["status"]
      BY <1>1, <3>1 DEF ArePartsOf
    <3>3. content = parts[1]
      BY <3>2, Unrolled DEF content, ContentOf, parts
    <3> QED  BY <1>3, <2>1, <3>2, <3>3 DEF FullLength
  <2>2. CASE kind # "GetConnStatusResponseMsg"
    BY <1>2, <1>3, <2>2 DEF FullLength
  <2> QED  BY <2>1, <2>2
<1>7. ASSUME Complete(kind, data) PROVE fromByteArray(kind, data) = m
  <2> DEFINE r == fromByteArray(kind, data)
  <2>1. ContentIn(kind, data) = content
    <3>1. data \o pipe = b \o t
      BY DEF b
    <3> DEFINE e == messageLength + Len(content)
               k == messageLength + 1
    <3>2. /\ e \in Nat /\ k \in Nat \ {0} /\ k <= e + 1 /\ e <= Len(data) /\ e <= Len(b)
          /\ b \in Seq(Byte)
      BY <1>3, <1>4, <1>5, <1>7
    <3> HIDE DEF e, k
    <3>3. SubSeq(data, k, e) = SubSeq(b, k, e)
      <4>1. Agree(data, b, e)
        BY <3>1, <3>2, FrontsAgree
      <4> QED  BY <3>2, <4>1, SamePiece
    <3> QED  BY <1>2, <1>3, <3>3 DEF ContentIn, e, k
  <2>2. IsRead(r, kind, content)
    BY <2>1, FromByteArrayIs
  <2> HIDE DEF r
  <2>3. \A i \in 1..Len(fields) : r[fields[i]] = m[fields[i]]
    <3>1. ASSUME NEW i \in 1..Len(fields) PROVE r[fields[i]] = m[fields[i]]
      <4>1. r[fields[i]] = ReadFields(fields, content)[fields[i]]
        BY <2>2 DEF IsRead
      <4>2. parts[i] = m[fields[i]]
        BY DEF Parts
      <4>3. content = FlattenSeq(parts)
        BY DEF content, ContentOf
      <4>4. AreFields(fields)
        BY FieldsAre
      <4> HIDE DEF parts, fields
      <4>5. ReadFields(fields, FlattenSeq(parts))[fields[i]] = parts[i]
        BY <1>1, <4>4, ReadsBack
      <4> QED  BY <4>1, <4>2, <4>3, <4>5
    <3> QED  BY <3>1
  <2>4. \A f \in Fields(kind) : r[f] = m[f]
    <3>1. Fields(kind) = {fields[i] : i \in 1..Len(fields)}
      BY FieldsDomain
    <3> HIDE DEF fields
    <3> QED  BY <2>3, <3>1
  <2>5. r = m
    BY ONLY kind \in Kinds, m \in Message(kind), <2>2, <2>4, SameMessage
  <2> QED  BY <2>5 DEF r
<1> QED  BY <1>5, <1>6, <1>7 DEF b

-----------------------------------------------------------------------------
(* Streams of messages.                                                    *)

(* The writes of a sequence of messages.                                   *)
Writes(ms) == [i \in DOMAIN ms |-> toByteArray(ms[i])]

LEMMA MessageKind ==
  ASSUME NEW m \in Messages
  PROVE  m.kind \in Kinds /\ m \in Message(m.kind)
BY DEF Messages, Message

LEMMA MessagesAssociate ==
  ASSUME NEW s \in Seq(Messages), NEW t \in Seq(Messages), NEW u \in Seq(Messages)
  PROVE  (s \o t) \o u = s \o (t \o u)
BY ConcatAssociative

LEMMA ToByteArrayType ==
  ASSUME NEW m \in Messages
  PROVE  /\ toByteArray(m) \in Seq(Byte)
         /\ messageLength <= Len(toByteArray(m))
<1> DEFINE content == ContentOf(m.kind, m)
<1>1. content \in Seq(Byte) /\ toByteArray(m) = WithHeader(m.kind, content) /\ m.kind \in Kinds
  BY MessageKind, PartsAre, ToByteArrayIs
<1> HIDE DEF content
<1>2. /\ WithHeader(m.kind, content) \in Seq(Byte)
      /\ Len(WithHeader(m.kind, content)) = messageLength + Len(content)
  BY <1>1, Layout
<1>3. Len(content) \in Nat /\ messageLength \in Nat
  BY <1>1, HeaderType
<1> QED  BY <1>1, <1>2, <1>3

LEMMA WritesType ==
  ASSUME NEW ms \in Seq(Messages)
  PROVE  /\ Writes(ms) \in Seq(Seq(Byte)) /\ Len(Writes(ms)) = Len(ms)
         /\ Encoded(ms) = FlattenSeq(Writes(ms)) /\ Encoded(ms) \in Seq(Byte)
<1>1. \A i \in 1..Len(ms) : toByteArray(ms[i]) \in Seq(Byte)
  BY ToByteArrayType
<1>2. Writes(ms) \in Seq(Seq(Byte)) /\ Len(Writes(ms)) = Len(ms)
  BY <1>1 DEF Writes
<1>3. Encoded(ms) = FlattenSeq(Writes(ms))
  BY DEF Encoded, Writes
<1> QED  BY <1>2, <1>3, FlattenType

LEMMA WritesConcat ==
  ASSUME NEW ms \in Seq(Messages), NEW ns \in Seq(Messages)
  PROVE  /\ ms \o ns \in Seq(Messages)
         /\ Writes(ms \o ns) = Writes(ms) \o Writes(ns)
         /\ Encoded(ms \o ns) = Encoded(ms) \o Encoded(ns)
<1> DEFINE u == ms \o ns
<1>1. /\ u \in Seq(Messages) /\ Len(u) = Len(ms) + Len(ns)
      /\ \A i \in 1..(Len(ms) + Len(ns)) : u[i] = IF i <= Len(ms) THEN ms[i] ELSE ns[i - Len(ms)]
  BY ConcatProperties
<1> HIDE DEF u
<1>2. /\ Writes(ms) \in Seq(Seq(Byte)) /\ Len(Writes(ms)) = Len(ms)
      /\ Writes(ns) \in Seq(Seq(Byte)) /\ Len(Writes(ns)) = Len(ns)
      /\ Writes(u) \in Seq(Seq(Byte)) /\ Len(Writes(u)) = Len(u)
      /\ Encoded(ms) = FlattenSeq(Writes(ms)) /\ Encoded(ns) = FlattenSeq(Writes(ns))
      /\ Encoded(u) = FlattenSeq(Writes(u))
  BY <1>1, WritesType
<1>3. /\ \A i \in 1..Len(ms) : Writes(ms)[i] = toByteArray(ms[i])
      /\ \A i \in 1..Len(ns) : Writes(ns)[i] = toByteArray(ns[i])
      /\ \A i \in 1..Len(u) : Writes(u)[i] = toByteArray(u[i])
  BY <1>1 DEF Writes
<1> DEFINE w == Writes(ms)
           x == Writes(ns)
           y == w \o x
<1>4. /\ y \in Seq(Seq(Byte)) /\ Len(y) = Len(w) + Len(x)
      /\ \A i \in 1..(Len(w) + Len(x)) : y[i] = IF i <= Len(w) THEN w[i] ELSE x[i - Len(w)]
  <2>1. w \in Seq(Seq(Byte)) /\ x \in Seq(Seq(Byte))
    BY <1>2
  <2> HIDE DEF w, x
  <2> QED  BY ONLY <2>1, ConcatProperties
<1> HIDE DEF y
<1>5. ASSUME NEW i \in 1..Len(u) PROVE Writes(u)[i] = y[i]
  <2>1. Len(ms) \in Nat /\ Len(ns) \in Nat
    OBVIOUS
  <2>2. i \in 1..(Len(ms) + Len(ns)) /\ i \in 1..(Len(w) + Len(x)) /\ i \in Nat
    BY <1>1, <1>2, <2>1
  <2>3. CASE i <= Len(ms)
    <3>1. i \in 1..Len(ms) /\ i <= Len(w)
      BY <1>2, <2>1, <2>2, <2>3
    <3>2. u[i] = ms[i]
      BY <1>1, <2>2, <2>3
    <3>3. y[i] = w[i]
      BY <1>4, <2>2, <3>1
    <3> QED  BY <1>3, <3>1, <3>2, <3>3
  <2>4. CASE ~(i <= Len(ms))
    <3>1. i - Len(ms) \in 1..Len(ns) /\ ~(i <= Len(w)) /\ i - Len(w) = i - Len(ms)
      BY <1>2, <2>1, <2>2, <2>4
    <3>2. u[i] = ns[i - Len(ms)]
      BY <1>1, <2>2, <2>4
    <3>3. y[i] = x[i - Len(ms)]
      BY <1>4, <2>2, <3>1
    <3> QED  BY <1>3, <3>1, <3>2, <3>3
  <2> QED  BY <2>3, <2>4
<1>6. Writes(u) = y
  <2>1. Len(Writes(u)) = Len(y) /\ Len(Writes(u)) = Len(u)
    BY <1>1, <1>2, <1>4
  <2>2. \A i \in 1..Len(Writes(u)) : Writes(u)[i] = y[i]
    BY <1>5, <2>1
  <2>3. Writes(u) \in Seq(Seq(Byte)) /\ y \in Seq(Seq(Byte))
    BY <1>2, <1>4
  <2> QED  BY ONLY <2>1, <2>2, <2>3, SameElements
<1>7. FlattenSeq(w \o x) = FlattenSeq(w) \o FlattenSeq(x)
  BY <1>2, FlattenConcat
<1> QED  BY <1>1, <1>2, <1>6, <1>7 DEF u, y

LEMMA WritesEmpty ==
  Writes(<<>>) = <<>> /\ Encoded(<<>>) = <<>> /\ <<>> \in Seq(Messages)
<1>1. <<>> \in Seq(Messages)
  BY EmptySeq
<1>2. Writes(<<>>) \in Seq(Seq(Byte)) /\ Len(Writes(<<>>)) = 0
  BY <1>1, WritesType
<1>3. Writes(<<>>) = <<>>
  BY <1>2
<1>4. Encoded(<<>>) = FlattenSeq(Writes(<<>>))
  BY <1>1, WritesType
<1> QED  BY <1>1, <1>3, <1>4, FlattenEmpty, Zenon

LEMMA WritesOne ==
  ASSUME NEW m \in Messages
  PROVE  /\ <<m>> \in Seq(Messages)
         /\ Writes(<<m>>) = <<toByteArray(m)>> /\ Encoded(<<m>>) = toByteArray(m)
<1>1. <<m>> \in Seq(Messages) /\ Len(<<m>>) = 1 /\ <<m>>[1] = m
  OBVIOUS
<1>2. Writes(<<m>>) = <<toByteArray(m)>>
  BY DEF Writes
<1>3. Encoded(<<m>>) = FlattenSeq(Writes(<<m>>))
  BY <1>1, WritesType
<1>4. FlattenSeq(<<toByteArray(m)>>) = toByteArray(m)
  BY ToByteArrayType, FlattenOne
<1> QED  BY <1>1, <1>2, <1>3, <1>4

LEMMA EncodedFirst ==
  ASSUME NEW ms \in Seq(Messages), ms # <<>>
  PROVE  /\ Head(ms) \in Messages /\ Tail(ms) \in Seq(Messages) /\ Head(ms) = ms[1]
         /\ ms = <<Head(ms)>> \o Tail(ms)
         /\ Encoded(ms) = toByteArray(Head(ms)) \o Encoded(Tail(ms))
<1> DEFINE m == Head(ms)
           ns == Tail(ms)
<1>1. m \in Messages /\ ns \in Seq(Messages) /\ m = ms[1]
  OBVIOUS
<1>2. ms = <<m>> \o ns
  OBVIOUS
<1> HIDE DEF m, ns
<1>3. <<m>> \in Seq(Messages) /\ Encoded(<<m>>) = toByteArray(m)
  BY <1>1, WritesOne
<1>4. Encoded(<<m>> \o ns) = Encoded(<<m>>) \o Encoded(ns)
  BY <1>1, <1>3, WritesConcat
<1> QED  BY <1>1, <1>2, <1>3, <1>4 DEF m, ns

-----------------------------------------------------------------------------
(* Reads.                                                                  *)

(* A read takes bytes off the front of the stream and loses none.          *)
LEMMA ReadSplits ==
  ASSUME NEW pipe \in Seq(Seq(Byte)), NEW t \in Takes(pipe)
  PROVE  /\ Taken(pipe, t) \in Seq(Byte) /\ Rest(pipe, t) \in Seq(Seq(Byte))
         /\ FlattenSeq(pipe) = Taken(pipe, t) \o FlattenSeq(Rest(pipe, t))
         /\ t.part \in Nat /\ t.whole \in Nat
         /\ t.part = 0 => t.whole \in 1..Len(pipe)
<1> DEFINE k == t.whole
           front == SubSeq(pipe, 1, k)
           next == SubSeq(pipe, k + 1, Len(pipe))
<1>1. \/ k \in 1..Len(pipe) /\ t.part = 0
      \/ /\ k + 1 \in 1..Len(pipe) /\ k \in Nat
         /\ t.part \in 1..(Len(pipe[k + 1]) - 1)
  <2>1. CASE t \in {[whole |-> w, part |-> 0] : w \in 1..Len(pipe)}
    BY <2>1
  <2>2. ASSUME NEW w \in DOMAIN pipe,
               t \in {[whole |-> w - 1, part |-> p] : p \in 1..(Len(pipe[w]) - 1)}
        PROVE  /\ k + 1 \in 1..Len(pipe) /\ k \in Nat
               /\ t.part \in 1..(Len(pipe[k + 1]) - 1)
    <3>1. w \in 1..Len(pipe) /\ w \in Nat \ {0}
      OBVIOUS
    <3>2. k = w - 1 /\ t.part \in 1..(Len(pipe[w]) - 1)
      BY <2>2
    <3> QED  BY <3>1, <3>2
  <2> QED  BY <2>1, <2>2 DEF Takes
<1>2. k \in Nat /\ k <= Len(pipe) /\ Len(pipe) \in Nat
  BY <1>1
<1>3. front \in Seq(Seq(Byte)) /\ next \in Seq(Seq(Byte)) /\ Len(next) = Len(pipe) - k
  <2>1. SubSeq(pipe, 0 + 1, k) \in Seq(Seq(Byte))
    <3>1. 0 \in Nat /\ k \in Nat /\ 0 <= k /\ k <= Len(pipe)
      BY <1>2
    <3> QED  BY ONLY pipe \in Seq(Seq(Byte)), <3>1, Slice
  <2>2. next \in Seq(Seq(Byte)) /\ Len(next) = Len(pipe) - k
    <3> DEFINE n == Len(pipe)
    <3>1. n \in Nat /\ k \in Nat /\ k <= n /\ n <= Len(pipe)
      BY <1>2
    <3> HIDE DEF n, k
    <3>2. SubSeq(pipe, k + 1, n) \in Seq(Seq(Byte)) /\ Len(SubSeq(pipe, k + 1, n)) = n - k
      BY ONLY pipe \in Seq(Seq(Byte)), <3>1, Slice
    <3> QED  BY <3>2 DEF n, k
  <2> QED  BY <2>1, <2>2
<1>4. pipe = front \o next
  <2>1. 1 \in 1..(Len(pipe) + 1) /\ k \in (1 - 1)..Len(pipe) /\ Len(pipe) \in k..Len(pipe)
    BY <1>2
  <2>2. front \o next = SubSeq(pipe, 1, Len(pipe))
    BY <2>1, ConcatAdjacentSubSeq
  <2> QED  BY <2>2, SubSeqFull
<1>5. FlattenSeq(pipe) = FlattenSeq(front) \o FlattenSeq(next)
  <2> HIDE DEF front, next
  <2> QED  BY <1>3, <1>4, FlattenConcat
<1>6. FlattenSeq(front) \in Seq(Byte) /\ FlattenSeq(next) \in Seq(Byte)
  BY <1>3, FlattenType
<1>7. CASE k \in 1..Len(pipe) /\ t.part = 0
  <2>1. Rest(pipe, t) = next
    BY <1>7 DEF Rest
  <2>2. Taken(pipe, t) = FlattenSeq(front) \o <<>>
    BY <1>7 DEF Taken
  <2>3. Taken(pipe, t) = FlattenSeq(front)
    BY <1>6, <2>2, ConcatEmptySeq
  <2> QED  BY <1>2, <1>3, <1>5, <1>6, <1>7, <2>1, <2>3
<1>8. CASE k + 1 \in 1..Len(pipe) /\ t.part \in 1..(Len(pipe[k + 1]) - 1)
  <2> DEFINE w == Head(next)
             a == SubSeq(w, 1, t.part)
             b == SubSeq(w, t.part + 1, Len(w))
             tl == Tail(next)
  <2>1. w = pipe[k + 1] /\ w \in Seq(Byte) /\ next # <<>>
    <3>1. \A i \in 1..(Len(pipe) - k) : next[i] = pipe[k + i]
      BY <1>2, Slice
    <3> HIDE DEF next
    <3>2. 1 \in 1..(Len(pipe) - k)
      BY <1>2, <1>8
    <3>3. next # <<>> /\ Head(next) = next[1]
      BY <1>3, <3>2
    <3> QED  BY <1>8, <3>1, <3>2, <3>3
  <2>2. next = <<w>> \o tl /\ tl \in Seq(Seq(Byte))
    <3> HIDE DEF next
    <3> QED  BY <1>3, <2>1
  <2>3. t.part \in Nat \ {0} /\ t.part <= Len(w) /\ Len(w) \in Nat
    <3> HIDE DEF w
    <3> QED  BY <1>8, <2>1
  <2>4. Rest(pipe, t) = <<b>> \o tl
    BY <2>3 DEF Rest
  <2>5. Taken(pipe, t) = FlattenSeq(front) \o a
    <3> HIDE DEF w
    <3> QED  BY <2>1, <2>3 DEF Taken
  <2> HIDE DEF w, tl, next, front
  <2>6. a \in Seq(Byte) /\ b \in Seq(Byte)
    <3>1. SubSeq(w, 0 + 1, t.part) \in Seq(Byte) /\ 0 + 1 = 1
      BY <2>1, <2>3, Slice
    <3>2. b \in Seq(Byte)
      BY <2>1, <2>3, Slice
    <3> QED  BY <3>1, <3>2
  <2>7. w = a \o b
    <3>1. 1 \in 1..(Len(w) + 1) /\ t.part \in (1 - 1)..Len(w) /\ Len(w) \in t.part..Len(w)
      BY <2>3
    <3>2. a \o b = SubSeq(w, 1, Len(w))
      BY <2>1, <3>1, ConcatAdjacentSubSeq
    <3> QED  BY <2>1, <3>2, SubSeqFull
  <2> HIDE DEF a, b
  <2>8. /\ FlattenSeq(<<w>> \o tl) = FlattenSeq(<<w>>) \o FlattenSeq(tl)
        /\ FlattenSeq(<<b>> \o tl) = FlattenSeq(<<b>>) \o FlattenSeq(tl)
        /\ FlattenSeq(<<w>>) = w /\ FlattenSeq(<<b>>) = b
        /\ <<b>> \o tl \in Seq(Seq(Byte))
    <3>1. <<w>> \in Seq(Seq(Byte)) /\ <<b>> \in Seq(Seq(Byte))
      BY <2>1, <2>6
    <3>2. /\ FlattenSeq(<<w>> \o tl) = FlattenSeq(<<w>>) \o FlattenSeq(tl)
          /\ FlattenSeq(<<b>> \o tl) = FlattenSeq(<<b>>) \o FlattenSeq(tl)
      BY <2>2, <3>1, FlattenConcat
    <3>3. <<b>> \o tl \in Seq(Seq(Byte))
      BY <2>2, <3>1, ConcatProperties
    <3> QED  BY <2>1, <2>6, <3>2, <3>3, FlattenOne
  <2> DEFINE F == FlattenSeq(front)
             G == FlattenSeq(tl)
  <2>9. F \in Seq(Byte) /\ G \in Seq(Byte)
    BY <1>3, <2>2, FlattenType
  <2> HIDE DEF F, G
  <2>10. F \o ((a \o b) \o G) = (F \o a) \o (b \o G)
    <3>1. (a \o b) \o G = a \o (b \o G)
      BY ONLY <2>6, <2>9, ConcatAssociative
    <3> DEFINE z == b \o G
    <3>2. z \in Seq(Byte)
      BY ONLY <2>6, <2>9, ConcatProperties
    <3> HIDE DEF z
    <3>3. F \in Seq(Byte) /\ a \in Seq(Byte)
      BY <2>6, <2>9
    <3>4. (F \o a) \o z = F \o (a \o z)
      BY ONLY <3>2, <3>3, ConcatAssociative
    <3> QED  BY <3>1, <3>4, Zenon DEF z
  <2>11. F \o a \in Seq(Byte)
    BY ONLY <2>6, <2>9, ConcatProperties
  <2>12. FlattenSeq(pipe) = F \o (w \o G)
    BY <1>5, <2>2, <2>8, Zenon DEF F, G
  <2>13. FlattenSeq(Rest(pipe, t)) = b \o G
    BY <2>4, <2>8, Zenon DEF G
  <2>14. FlattenSeq(pipe) = Taken(pipe, t) \o FlattenSeq(Rest(pipe, t))
    BY <2>5, <2>7, <2>10, <2>12, <2>13, Zenon DEF F
  <2> QED  BY <1>2, <2>3, <2>4, <2>5, <2>8, <2>11, <2>14 DEF F
<1> QED  BY <1>1, <1>7, <1>8

-----------------------------------------------------------------------------
(* Taking a message off the front of the data.                             *)

(* Messages of these structs, each with a header that can say its length.  *)
Good(ms, ks) == \A i \in DOMAIN ms : ms[i].kind \in ks /\ Fits(ms[i].kind, ms[i])

(* Whichever of these structs the header of the data names, it is kind.    *)
Told(kind, data, ks) ==
  \A k \in ks : typeOf(data) = headerInfo[k].type /\ codeOf(data) = headerInfo[k].code => kind = k

LEMMA HeaderMeansMessage ==
  ASSUME NEW data \in Seq(Byte), NEW p \in Seq(Byte), NEW rest \in Seq(Messages),
         data \o p = Encoded(rest), messageLength <= Len(data)
  PROVE  rest # <<>>
<1> SUFFICES ASSUME rest = <<>> PROVE FALSE
  OBVIOUS
<1>1. Encoded(rest) = <<>>
  BY WritesEmpty
<1>2. data = <<>>
  BY <1>1, ConcatEqualIffEmpty
<1>3. Len(data) = 0
  BY <1>2
<1> QED  BY <1>3, HeaderType

(* The data begin with the first of the messages rest, and go on with p.   *)
BeginsWith(data, p, rest, m) ==
  /\ data \in Seq(Byte) /\ p \in Seq(Byte) /\ rest \in Seq(Messages)
  /\ rest # <<>> /\ m = Head(rest) /\ Fits(m.kind, m) /\ m.kind # "GetConnStatusRequestMsg"
  /\ data \o p = Encoded(rest) /\ messageLength <= Len(data)

LEMMA FirstMessage ==
  ASSUME NEW data, NEW p, NEW rest, NEW m, BeginsWith(data, p, rest, m)
  PROVE  /\ HasHeader(data)
         /\ typeOf(data) = headerInfo[m.kind].type
         /\ codeOf(data) = headerInfo[m.kind].code
         /\ Complete(m.kind, data) <=> Len(toByteArray(m)) <= Len(data)
         /\ Complete(m.kind, data) =>
              /\ fromByteArray(m.kind, data) = m
              /\ After(data, FullLength(m.kind, data)) \in Seq(Byte)
              /\ After(data, FullLength(m.kind, data)) \o p = Encoded(Tail(rest))
<1> DEFINE kind == m.kind
           b == toByteArray(m)
           t == Encoded(Tail(rest))
<1>0. /\ data \in Seq(Byte) /\ p \in Seq(Byte) /\ rest \in Seq(Messages)
      /\ rest # <<>> /\ m = Head(rest) /\ Fits(kind, m) /\ kind # "GetConnStatusRequestMsg"
      /\ data \o p = Encoded(rest) /\ messageLength <= Len(data) /\ m \in Messages
  BY DEF BeginsWith
<1>1. /\ kind \in Kinds \ {"GetConnStatusRequestMsg"} /\ m \in Message(kind) /\ kind \in Kinds
      /\ Fits(kind, m)
  BY <1>0, MessageKind
<1>2. /\ t \in Seq(Byte) /\ data \o p = b \o t
  <2>1. Encoded(rest) = b \o t /\ Tail(rest) \in Seq(Messages)
    BY <1>0, EncodedFirst
  <2> QED  BY <1>0, <2>1, WritesType
<1>3. b \in Seq(Byte)
  BY <1>0, ToByteArrayType
<1>4. data \o p = toByteArray(m) \o t
  BY <1>2
<1> HIDE DEF kind, t
<1>5. /\ HasHeader(data)
      /\ typeOf(data) = headerInfo[kind].type
      /\ codeOf(data) = headerInfo[kind].code
  BY <1>0, <1>1, <1>2, <1>4, FirstHeader
<1>6. /\ Complete(kind, data) <=> Len(b) <= Len(data)
      /\ Complete(kind, data) => fromByteArray(kind, data) = m /\ FullLength(kind, data) = Len(b)
  BY <1>0, <1>1, <1>2, <1>4, FirstReadBack
<1> HIDE DEF b
<1>7. ASSUME Complete(kind, data)
      PROVE  /\ After(data, FullLength(kind, data)) \in Seq(Byte)
             /\ After(data, FullLength(kind, data)) \o p = t
  <2>1. Len(b) <= Len(data) /\ FullLength(kind, data) = Len(b)
    BY <1>6, <1>7
  <2>2. After(data, Len(b)) \in Seq(Byte) /\ After(data, Len(b)) \o p = t
    <3>1. data \in Seq(Byte) /\ p \in Seq(Byte) /\ t \in Seq(Byte) /\ b \in Seq(Byte)
      BY <1>0, <1>2, <1>3
    <3>2. data \o p = b \o t /\ Len(b) <= Len(data)
      BY <1>2, <2>1
    <3> QED  BY ONLY <3>1, <3>2, DropFirst
  <2> QED  BY <2>1, <2>2
<1> QED  BY <1>5, <1>6, <1>7 DEF kind, b, t

(* The messages that are sent to each end.                                 *)
ClientBound ==
  {"GetConnStatusResponseMsg", "UpdateClientStatusMsg", "SendFileRequestMsg", "UpdateProgressMsg"}
ServerBound == {"SendFileRequestMsg", "SendFileResponseMsg"}

LEMMA BoundAre ==
  /\ ClientBound \subseteq Kinds \ {"GetConnStatusRequestMsg"}
  /\ ServerBound \subseteq Kinds \ {"GetConnStatusRequestMsg"}
BY KindsAre DEF ClientBound, ServerBound

LEMMA ClientKindIs ==
  ASSUME NEW data, HasHeader(data)
  PROVE  Told(ClientKind(data), data, ClientBound)
BY DEF Told, ClientKind, ClientBound, headerInfo, Request, Response, Notify

LEMMA ServerKindIs ==
  ASSUME NEW data, HasHeader(data)
  PROVE  Told(ServerKind(data), data, ServerBound)
BY DEF Told, ServerKind, ServerBound, headerInfo, Request, Response, Notify

LEMMA KindType ==
  ASSUME NEW data
  PROVE  ClientKind(data) \in Kinds \cup {"none"} /\ ServerKind(data) \in Kinds \cup {"none"}
<1>1. ClientKind(data) \in Kinds \cup {"none"}
  BY KindsAre DEF ClientKind
<1>2. ServerKind(data) \in Kinds \cup {"none"}
  BY KindsAre DEF ServerKind
<1> QED  BY <1>1, <1>2

(* A decoded message has its type, whether or not it was ever written.     *)
LEMMA DecodedType ==
  ASSUME NEW data \in Seq(Byte), NEW kind \in Kinds \cup {"none"}, NEW m \in Decoded(kind, data)
  PROVE  /\ kind \in Kinds /\ HasHeader(data) /\ Complete(kind, data)
         /\ m = fromByteArray(kind, data) /\ m \in Message(kind)
         /\ m \in Messages /\ m.kind = kind /\ FullLength(kind, data) \in Nat
<1>1. kind \in Kinds /\ Complete(kind, data) /\ m = fromByteArray(kind, data)
  BY DEF Decoded
<1>2. m \in Message(kind) /\ FullLength(kind, data) \in Nat
  BY <1>1, ReadsMessage
<1>3. m.kind = kind
  BY <1>2 DEF Message
<1> QED  BY <1>1, <1>2, <1>3 DEF Complete, Messages

-----------------------------------------------------------------------------
(* One direction of the pipe.                                              *)

(* What was written and not dispatched is in the buffer and on the pipe.   *)
Follows(stream, got, data, pipe) ==
  \E rest \in Seq(Messages) :
    stream = got \o rest /\ data \o FlattenSeq(pipe) = Encoded(rest)

LEMMA FollowsStart ==
  Follows(<<>>, <<>>, <<>>, <<>>)
<1>1. <<>> \o FlattenSeq(<<>>) = Encoded(<<>>)
  BY WritesEmpty, FlattenEmpty, EmptySeq, ConcatEmptySeq
<1>2. <<>> = <<>> \o <<>>
  BY WritesEmpty, ConcatEmptySeq
<1> QED  BY <1>1, <1>2, WritesEmpty DEF Follows

LEMMA FollowsWrite ==
  ASSUME NEW stream \in Seq(Messages), NEW got \in Seq(Messages), NEW data \in Seq(Byte),
         NEW pipe \in Seq(Seq(Byte)), NEW ms \in Seq(Messages),
         Follows(stream, got, data, pipe)
  PROVE  Follows(stream \o ms, got, data, pipe \o Writes(ms))
<1>1. PICK rest \in Seq(Messages) :
        stream = got \o rest /\ data \o FlattenSeq(pipe) = Encoded(rest)
  BY DEF Follows
<1> DEFINE w == Writes(ms)
           p == FlattenSeq(pipe)
           e == Encoded(ms)
<1>2. w \in Seq(Seq(Byte)) /\ e = FlattenSeq(w) /\ e \in Seq(Byte)
  BY WritesType
<1>3. p \in Seq(Byte)
  BY FlattenType
<1>4. rest \o ms \in Seq(Messages) /\ Encoded(rest \o ms) = Encoded(rest) \o e
  BY WritesConcat
<1>5. stream \o ms = got \o (rest \o ms)
  BY <1>1, ConcatAssociative
<1> HIDE DEF w, e
<1>6. FlattenSeq(pipe \o w) = p \o e
  BY <1>2, FlattenConcat
<1> HIDE DEF p
<1>7. (data \o p) \o e = data \o (p \o e)
  <2>1. e \in Seq(Byte)
    BY <1>2
  <2> QED  BY ONLY data \in Seq(Byte), <1>3, <2>1, BytesAssociate
<1>8. data \o FlattenSeq(pipe \o w) = Encoded(rest \o ms)
  BY <1>1, <1>4, <1>6, <1>7, Zenon DEF p
<1> QED  BY <1>4, <1>5, <1>8 DEF Follows, w

LEMMA FollowsRead ==
  ASSUME NEW stream, NEW got, NEW data \in Seq(Byte),
         NEW pipe \in Seq(Seq(Byte)), NEW t \in Takes(pipe),
         Follows(stream, got, data, pipe)
  PROVE  Follows(stream, got, data \o Taken(pipe, t), Rest(pipe, t))
<1> DEFINE a == Taken(pipe, t)
           r == FlattenSeq(Rest(pipe, t))
<1>1. /\ a \in Seq(Byte) /\ Rest(pipe, t) \in Seq(Seq(Byte)) /\ FlattenSeq(pipe) = a \o r
  BY ReadSplits
<1>2. r \in Seq(Byte)
  BY <1>1, FlattenType
<1> HIDE DEF a, r
<1>3. (data \o a) \o r = data \o (a \o r)
  BY ONLY data \in Seq(Byte), <1>1, <1>2, BytesAssociate
<1>4. (data \o a) \o r = data \o FlattenSeq(pipe)
  BY <1>1, <1>3
<1> QED  BY <1>4 DEF Follows, a, r

(* The message a program dispatches is the next one that was written.      *)
LEMMA FollowsTake ==
  ASSUME NEW ks, ks \subseteq Kinds \ {"GetConnStatusRequestMsg"},
         NEW stream \in Seq(Messages), NEW got \in Seq(Messages), NEW data \in Seq(Byte),
         NEW pipe \in Seq(Seq(Byte)), Good(stream, ks), Follows(stream, got, data, pipe),
         NEW kind, HasHeader(data), Told(kind, data, ks), Complete(kind, data)
  PROVE  Follows(stream, Append(got, fromByteArray(kind, data)),
                 After(data, FullLength(kind, data)), pipe)
<1>1. PICK rest \in Seq(Messages) :
        stream = got \o rest /\ data \o FlattenSeq(pipe) = Encoded(rest)
  BY DEF Follows
<1> DEFINE p == FlattenSeq(pipe)
           m == Head(rest)
<1>2. p \in Seq(Byte)
  BY FlattenType
<1>3. messageLength <= Len(data)
  BY HeaderType DEF HasHeader
<1>4. rest # <<>>
  BY <1>1, <1>2, <1>3, HeaderMeansMessage
<1>5. /\ m \in Messages /\ Tail(rest) \in Seq(Messages) /\ m = rest[1]
      /\ rest = <<m>> \o Tail(rest)
  BY <1>4, EncodedFirst
<1>6. Fits(m.kind, m) /\ m.kind \in ks
  <2> DEFINE i == Len(got) + 1
  <2>1. /\ Len(stream) = Len(got) + Len(rest)
        /\ \A j \in 1..(Len(got) + Len(rest)) :
             stream[j] = IF j <= Len(got) THEN got[j] ELSE rest[j - Len(got)]
    BY <1>1, ConcatProperties
  <2>2. /\ i \in 1..(Len(got) + Len(rest)) /\ ~(i <= Len(got)) /\ i - Len(got) = 1
    BY <1>4
  <2> HIDE DEF i, m
  <2>3. stream[i] = rest[i - Len(got)]
    BY <2>1, <2>2
  <2>4. stream[i] = m /\ i \in DOMAIN stream
    <3>1. i \in 1..Len(stream)
      BY <2>1, <2>2
    <3> QED  BY <1>5, <2>2, <2>3, <3>1
  <2> QED  BY <2>4 DEF Good
<1> HIDE DEF m, p
<1>7. /\ typeOf(data) = headerInfo[m.kind].type
      /\ codeOf(data) = headerInfo[m.kind].code
      /\ Complete(m.kind, data) =>
           /\ fromByteArray(m.kind, data) = m
           /\ After(data, FullLength(m.kind, data)) \in Seq(Byte)
           /\ After(data, FullLength(m.kind, data)) \o p = Encoded(Tail(rest))
  <2>1. m.kind # "GetConnStatusRequestMsg" /\ data \o p = Encoded(rest) /\ m = Head(rest)
    BY <1>1, <1>6 DEF m, p
  <2>2. BeginsWith(data, p, rest, m)
    BY <1>2, <1>3, <1>4, <1>5, <1>6, <2>1 DEF BeginsWith
  <2> QED  BY <2>2, FirstMessage
<1>8. kind = m.kind
  BY <1>6, <1>7 DEF Told
<1>9. /\ fromByteArray(kind, data) = m
      /\ After(data, FullLength(kind, data)) \o p = Encoded(Tail(rest))
  BY <1>7, <1>8
<1>10. stream = Append(got, m) \o Tail(rest)
  <2> DEFINE x == <<m>>
             y == Tail(rest)
  <2>1. Append(got, m) = got \o x /\ x \in Seq(Messages) /\ y \in Seq(Messages)
    BY <1>5, AppendIsConcat
  <2> HIDE DEF x, y
  <2>2. (got \o x) \o y = got \o (x \o y)
    <3>1. x \in Seq(Messages)
      BY <2>1
    <3>2. y \in Seq(Messages)
      BY <2>1
    <3> QED  BY ONLY got \in Seq(Messages), <3>1, <3>2, MessagesAssociate
  <2> QED  BY <1>1, <1>5, <2>1, <2>2, Zenon DEF x, y
<1> QED  BY <1>5, <1>9, <1>10 DEF Follows, p

LEMMA FollowsMeans ==
  ASSUME NEW stream \in Seq(Messages), NEW got \in Seq(Messages), NEW data \in Seq(Byte),
         NEW pipe \in Seq(Seq(Byte)), Follows(stream, got, data, pipe)
  PROVE  /\ Encoded(got) \o data \o FlattenSeq(pipe) = Encoded(stream)
         /\ IsPrefix(got, stream)
<1>1. PICK rest \in Seq(Messages) :
        stream = got \o rest /\ data \o FlattenSeq(pipe) = Encoded(rest)
  BY DEF Follows
<1>2. Encoded(stream) = Encoded(got) \o Encoded(rest)
  BY <1>1, WritesConcat
<1> DEFINE p == FlattenSeq(pipe)
           g == Encoded(got)
<1>3. p \in Seq(Byte) /\ g \in Seq(Byte)
  BY FlattenType, WritesType
<1> HIDE DEF p, g
<1>4. (g \o data) \o p = g \o (data \o p)
  BY ONLY data \in Seq(Byte), <1>3, BytesAssociate
<1>5. g \o data \o p = Encoded(stream)
  BY <1>1, <1>2, <1>4, Zenon DEF p, g
<1>6. IsPrefix(got, stream)
  <2> DEFINE n == Len(got)
  <2>1. n \in Nat /\ n <= Len(stream) /\ n <= Len(got)
    BY <1>1
  <2>2. got \o rest = stream \o <<>> /\ <<>> \in Seq(Messages)
    BY <1>1, EmptySeq, ConcatEmptySeq
  <2> HIDE DEF n
  <2>3. Agree(got, stream, n)
    BY ONLY got \in Seq(Messages), stream \in Seq(Messages), rest \in Seq(Messages),
            <2>1, <2>2, FrontsAgree
  <2>4. 1 \in Nat \ {0} /\ 1 <= n + 1
    BY <2>1
  <2>5. SubSeq(got, 1, n) = SubSeq(stream, 1, n)
    BY ONLY got \in Seq(Messages), stream \in Seq(Messages), <2>3, <2>4, SamePiece
  <2> QED  BY <2>1, <2>5 DEF IsPrefix, n
<1> QED  BY <1>5, <1>6 DEF p, g

(* Every read ended where a write did: the buffer and the pipe hold whole  *)
(* messages.                                                               *)
Whole(data, pipe, ks) ==
  \E ms, ps \in Seq(Messages) :
    Good(ms, ks) /\ Good(ps, ks) /\ data = Encoded(ms) /\ pipe = Writes(ps)

LEMMA GoodParts ==
  ASSUME NEW ks, NEW ms \in Seq(Messages), NEW ns \in Seq(Messages)
  PROVE  Good(ms \o ns, ks) <=> Good(ms, ks) /\ Good(ns, ks)
<1> DEFINE u == ms \o ns
<1>1. /\ u \in Seq(Messages) /\ Len(u) = Len(ms) + Len(ns)
      /\ \A i \in 1..(Len(ms) + Len(ns)) : u[i] = IF i <= Len(ms) THEN ms[i] ELSE ns[i - Len(ms)]
  BY ConcatProperties
<1> HIDE DEF u
<1>2. /\ DOMAIN u = 1..(Len(ms) + Len(ns)) /\ Len(ms) \in Nat /\ Len(ns) \in Nat
      /\ DOMAIN ms = 1..Len(ms) /\ DOMAIN ns = 1..Len(ns)
  BY <1>1
<1>3. ASSUME Good(u, ks), NEW i \in DOMAIN ms
      PROVE  ms[i].kind \in ks /\ Fits(ms[i].kind, ms[i])
  <2>1. i \in DOMAIN u /\ i \in 1..(Len(ms) + Len(ns)) /\ i <= Len(ms)
    BY <1>2
  <2>2. u[i] = ms[i]
    BY <1>1, <2>1
  <2> QED  BY <1>3, <2>1, <2>2 DEF Good
<1>4. ASSUME Good(u, ks), NEW i \in DOMAIN ns
      PROVE  ns[i].kind \in ks /\ Fits(ns[i].kind, ns[i])
  <2> DEFINE j == Len(ms) + i
  <2>1. /\ j \in DOMAIN u /\ j \in 1..(Len(ms) + Len(ns)) /\ ~(j <= Len(ms))
        /\ j - Len(ms) = i
    BY <1>2
  <2> HIDE DEF j
  <2>2. u[j] = ns[i]
    BY <1>1, <2>1
  <2> QED  BY <1>4, <2>1, <2>2 DEF Good
<1>5. ASSUME Good(ms, ks), Good(ns, ks), NEW i \in DOMAIN u
      PROVE  u[i].kind \in ks /\ Fits(u[i].kind, u[i])
  <2>0. i \in 1..(Len(ms) + Len(ns))
    BY <1>2
  <2>1. CASE i <= Len(ms)
    <3>1. i \in DOMAIN ms /\ u[i] = ms[i]
      BY <1>1, <1>2, <2>0, <2>1
    <3> QED  BY <1>5, <3>1 DEF Good
  <2>2. CASE ~(i <= Len(ms))
    <3>1. i - Len(ms) \in DOMAIN ns
      BY <1>2, <2>0, <2>2
    <3>2. u[i] = ns[i - Len(ms)]
      BY <1>1, <2>0, <2>2
    <3> QED  BY <1>5, <3>1, <3>2 DEF Good
  <2> QED  BY <2>1, <2>2
<1>6. Good(u, ks) => Good(ms, ks)
  BY <1>3 DEF Good
<1>7. Good(u, ks) => Good(ns, ks)
  BY <1>4 DEF Good
<1>8. Good(ms, ks) /\ Good(ns, ks) => Good(u, ks)
  BY <1>5 DEF Good
<1> QED  BY <1>6, <1>7, <1>8 DEF u

LEMMA GoodEmpty ==
  ASSUME NEW ks
  PROVE  Good(<<>>, ks)
BY DEF Good

LEMMA WholeStart ==
  ASSUME NEW ks
  PROVE  Whole(<<>>, <<>>, ks)
BY WritesEmpty, GoodEmpty DEF Whole

LEMMA WholeBreak ==
  ASSUME NEW ks, NEW data, NEW pipe, Whole(data, pipe, ks)
  PROVE  Whole(data, <<>>, ks)
BY WritesEmpty, GoodEmpty DEF Whole

LEMMA WholeWrite ==
  ASSUME NEW ks, NEW data, NEW pipe, Whole(data, pipe, ks),
         NEW ms \in Seq(Messages), Good(ms, ks)
  PROVE  Whole(data, pipe \o Writes(ms), ks)
<1>1. PICK ns, ps \in Seq(Messages) :
        Good(ns, ks) /\ Good(ps, ks) /\ data = Encoded(ns) /\ pipe = Writes(ps)
  BY DEF Whole
<1> DEFINE qs == ps \o ms
<1>2. qs \in Seq(Messages) /\ Writes(qs) = pipe \o Writes(ms)
  BY <1>1, WritesConcat
<1>3. Good(qs, ks)
  BY <1>1, GoodParts
<1> HIDE DEF qs
<1> QED  BY <1>1, <1>2, <1>3 DEF Whole

LEMMA WholeRead ==
  ASSUME NEW ks, NEW data \in Seq(Byte), NEW pipe \in Seq(Seq(Byte)), Whole(data, pipe, ks),
         NEW t \in Takes(pipe), t.part = 0
  PROVE  Whole(data \o Taken(pipe, t), Rest(pipe, t), ks)
<1>1. PICK ns, ps \in Seq(Messages) :
        Good(ns, ks) /\ Good(ps, ks) /\ data = Encoded(ns) /\ pipe = Writes(ps)
  BY DEF Whole
<1> DEFINE k == t.whole
           n == Len(ps)
           as == SubSeq(ps, 1, k)
           bs == SubSeq(ps, k + 1, n)
<1>2. n \in Nat /\ k \in 1..n /\ Len(pipe) = n
  <2>1. k \in 1..Len(pipe)
    BY ReadSplits
  <2> QED  BY <1>1, <2>1, WritesType
<1>3. as \in Seq(Messages) /\ bs \in Seq(Messages)
  <2> HIDE DEF k
  <2>1. as \in Seq(Messages)
    <3>1. \A i \in 1..k : ps[i] \in Messages
      BY <1>2
    <3> QED  BY <1>2, <3>1, SubSeqProperties
  <2>2. bs \in Seq(Messages)
    <3>1. \A i \in (k + 1)..n : ps[i] \in Messages
      BY <1>2
    <3> QED  BY <1>2, <3>1, SubSeqProperties
  <2> QED  BY <2>1, <2>2
<1>4. ps = as \o bs
  <2> HIDE DEF k
  <2>1. 1 \in 1..(Len(ps) + 1) /\ k \in (1 - 1)..Len(ps) /\ Len(ps) \in k..Len(ps)
    BY <1>2
  <2>2. as \o bs = SubSeq(ps, 1, Len(ps))
    BY <2>1, ConcatAdjacentSubSeq
  <2> QED  BY <2>2, SubSeqFull
<1> HIDE DEF as, bs
<1> DEFINE w == Writes(as)
           x == Writes(bs)
<1>5. /\ w \in Seq(Seq(Byte)) /\ Len(w) = k /\ x \in Seq(Seq(Byte)) /\ Len(x) = n - k
      /\ pipe = w \o x
  <2>1. Len(as) = k /\ Len(bs) = n - k
    <3>1. \A i \in 1..k : ps[i] \in Messages
      BY <1>2
    <3>2. Len(as) = k
      <4> HIDE DEF k
      <4> QED  BY <1>2, <3>1, SubSeqProperties DEF as
    <3>3. Len(ps) = Len(as) + Len(bs)
      BY <1>3, <1>4, ConcatProperties
    <3> QED  BY <1>2, <1>3, <3>2, <3>3
  <2>2. pipe = w \o x
    BY <1>1, <1>3, <1>4, WritesConcat
  <2> QED  BY <1>3, <2>1, <2>2, WritesType
<1> HIDE DEF w, x, k
<1>6. SubSeq(pipe, 1, k) = w /\ SubSeq(pipe, k + 1, n) = x
  <2>1. SubSeq(w \o x, 1, k) = w
    <3>0. <<>> \in Seq(Seq(Byte)) /\ w \in Seq(Seq(Byte)) /\ x \in Seq(Seq(Byte))
      BY <1>5, EmptySeq
    <3>1. SubSeq((<<>> \o w) \o x, Len(<<>>) + 1, Len(<<>>) + Len(w)) = w
      BY ONLY <3>0, Middle
    <3>2. <<>> \o w = w /\ Len(<<>>) + 1 = 1 /\ Len(<<>>) + Len(w) = k
      BY <1>2, <1>5, ConcatEmptySeq
    <3> QED  BY <3>1, <3>2
  <2>2. SubSeq(w \o x, k + 1, n) = x
    <3>0. <<>> \in Seq(Seq(Byte)) /\ w \in Seq(Seq(Byte)) /\ x \in Seq(Seq(Byte))
      BY <1>5, EmptySeq
    <3>1. SubSeq((w \o x) \o <<>>, Len(w) + 1, Len(w) + Len(x)) = x
      BY ONLY <3>0, Middle
    <3>2. w \o x \in Seq(Seq(Byte))
      BY <1>5, ConcatProperties
    <3>3. (w \o x) \o <<>> = w \o x
      BY <3>2, ConcatEmptySeq
    <3>4. Len(w) + 1 = k + 1 /\ Len(w) + Len(x) = n
      BY <1>2, <1>5
    <3> QED  BY <3>1, <3>3, <3>4
  <2> QED  BY <1>5, <2>1, <2>2
<1>7. Taken(pipe, t) = Encoded(as)
  <2>1. Taken(pipe, t) = FlattenSeq(w) \o <<>>
    BY <1>6 DEF Taken, k
  <2>2. FlattenSeq(w) \in Seq(Byte)
    BY <1>5, FlattenType
  <2>3. FlattenSeq(w) \o <<>> = FlattenSeq(w)
    BY <2>2, ConcatEmptySeq
  <2>4. Encoded(as) = FlattenSeq(w)
    BY <1>3, WritesType DEF w
  <2> QED  BY <2>1, <2>3, <2>4, Zenon
<1>8. Rest(pipe, t) = Writes(bs)
  <2>1. Rest(pipe, t) = SubSeq(pipe, k + 1, Len(pipe))
    BY DEF Rest, k
  <2> QED  BY <1>2, <1>6, <2>1 DEF x
<1>9. Good(as, ks) /\ Good(bs, ks)
  BY <1>1, <1>3, <1>4, GoodParts
<1> DEFINE cs == ns \o as
<1>10. cs \in Seq(Messages) /\ Encoded(cs) = data \o Taken(pipe, t)
  <2>1. ns \o as \in Seq(Messages) /\ Encoded(ns \o as) = Encoded(ns) \o Encoded(as)
    BY <1>3, WritesConcat
  <2> QED  BY <1>1, <1>7, <2>1
<1>11. Good(cs, ks)
  BY <1>1, <1>3, <1>9, GoodParts
<1> HIDE DEF cs
<1> QED  BY <1>3, <1>8, <1>9, <1>10, <1>11 DEF Whole

(* Data that are not empty show a header, and the message behind it is     *)
(* complete; when it is taken whole messages are left.                     *)
LEMMA WholeTake ==
  ASSUME NEW ks, ks \subseteq Kinds \ {"GetConnStatusRequestMsg"},
         NEW data \in Seq(Byte), NEW pipe, Whole(data, pipe, ks), data # <<>>
  PROVE  /\ HasHeader(data)
         /\ \A kind : Told(kind, data, ks) =>
              /\ kind \in ks /\ Complete(kind, data)
              /\ Whole(After(data, FullLength(kind, data)), pipe, ks)
<1>1. PICK ms, ps \in Seq(Messages) :
        Good(ms, ks) /\ Good(ps, ks) /\ data = Encoded(ms) /\ pipe = Writes(ps)
  BY DEF Whole
<1> DEFINE m == Head(ms)
           b == toByteArray(m)
           tl == Tail(ms)
<1>2. ms # <<>>
  BY <1>1, WritesEmpty
<1>3. /\ m \in Messages /\ tl \in Seq(Messages) /\ m = ms[1] /\ ms = <<m>> \o tl
      /\ data = b \o Encoded(tl)
  BY <1>1, <1>2, EncodedFirst
<1>4. Fits(m.kind, m) /\ m.kind \in ks
  <2>1. 1 \in DOMAIN ms
    BY <1>2
  <2> QED  BY <1>1, <1>3, <2>1 DEF Good
<1>5. Good(tl, ks)
  <2>1. <<m>> \in Seq(Messages)
    BY <1>3
  <2> HIDE DEF tl, m
  <2>2. Good(<<m>> \o tl, ks)
    BY <1>1, <1>3
  <2> QED  BY <1>3, <2>1, <2>2, GoodParts
<1>6. /\ b \in Seq(Byte) /\ messageLength <= Len(b)
      /\ Encoded(tl) \in Seq(Byte)
  BY <1>3, ToByteArrayType, WritesType
<1> HIDE DEF b, tl
<1>7. Len(b) <= Len(data) /\ messageLength <= Len(data)
  <2>1. Len(data) = Len(b) + Len(Encoded(tl))
    BY <1>3, <1>6, ConcatProperties
  <2>2. Len(b) \in Nat /\ Len(Encoded(tl)) \in Nat /\ messageLength \in Nat
    BY <1>6, HeaderType
  <2> QED  BY <1>6, <2>1, <2>2
<1>8. <<>> \in Seq(Byte) /\ data \o <<>> = Encoded(ms)
  BY <1>1, EmptySeq, ConcatEmptySeq
<1>9. BeginsWith(data, <<>>, ms, m)
  BY <1>2, <1>4, <1>7, <1>8 DEF BeginsWith
<1> DEFINE a == After(data, FullLength(m.kind, data))
<1>10. /\ HasHeader(data)
       /\ typeOf(data) = headerInfo[m.kind].type
       /\ codeOf(data) = headerInfo[m.kind].code
       /\ Complete(m.kind, data) <=> Len(b) <= Len(data)
       /\ Complete(m.kind, data) => a \in Seq(Byte) /\ a \o <<>> = Encoded(Tail(ms))
  <2> HIDE DEF m
  <2> QED  BY <1>9, FirstMessage DEF b
<1>11. Complete(m.kind, data) /\ a \in Seq(Byte) /\ a \o <<>> = Encoded(tl)
  BY <1>7, <1>10 DEF tl
<1> HIDE DEF a
<1>12. a = Encoded(tl)
  BY <1>11, ConcatEmptySeq
<1>13. Whole(a, pipe, ks)
  BY <1>1, <1>3, <1>5, <1>12 DEF Whole
<1>14. ASSUME NEW kind, Told(kind, data, ks) PROVE kind = m.kind
  BY <1>4, <1>10, <1>14 DEF Told
<1> QED  BY <1>4, <1>10, <1>11, <1>13, <1>14 DEF a

-----------------------------------------------------------------------------
(* The messages the programs write.                                        *)

LEMMA FieldSets ==
  /\ Fields("GetConnStatusResponseMsg") = {"status"}
  /\ Fields("UpdateClientStatusMsg") = {"status", "ip", "port", "clientID", "clientName"}
  /\ Fields("SendFileRequestMsg") =
       {"ip", "port", "clientID", "fileSize", "timeStamp", "fileName"}
  /\ Fields("SendFileResponseMsg") =
       {"status", "ip", "port", "clientID", "fileSize", "timeStamp", "fileName"}
  /\ Fields("UpdateProgressMsg") =
       {"ip", "port", "clientID", "fileSize", "sentSize", "timeStamp", "fileName"}
<1> USE KindsAre
<1>1. Fields("GetConnStatusResponseMsg") = {"status"}
  <2>1. FieldsFrom["GetConnStatusResponseMsg"] = <<"status">>
    BY DEF FieldsFrom, GetConnStatusResponseFrom
  <2> QED  BY <2>1 DEF Fields
<1>2. Fields("UpdateClientStatusMsg") = {"status", "ip", "port", "clientID", "clientName"}
  <2>1. FieldsFrom["UpdateClientStatusMsg"] = <<"status", "ip", "port", "clientID", "clientName">>
    BY DEF FieldsFrom, UpdateClientStatusFrom
  <2> QED  BY <2>1 DEF Fields
<1>3. Fields("SendFileRequestMsg") =
        {"ip", "port", "clientID", "fileSize", "timeStamp", "fileName"}
  <2>1. FieldsFrom["SendFileRequestMsg"] =
          <<"ip", "port", "clientID", "fileSize", "timeStamp", "fileName">>
    BY DEF FieldsFrom, SendFileRequestFrom
  <2> QED  BY <2>1 DEF Fields
<1>4. Fields("SendFileResponseMsg") =
        {"status", "ip", "port", "clientID", "fileSize", "timeStamp", "fileName"}
  <2>1. FieldsFrom["SendFileResponseMsg"] =
          <<"status", "ip", "port", "clientID", "fileSize", "timeStamp", "fileName">>
    BY DEF FieldsFrom, SendFileResponseFrom
  <2> QED  BY <2>1 DEF Fields
<1>5. Fields("UpdateProgressMsg") =
        {"ip", "port", "clientID", "fileSize", "sentSize", "timeStamp", "fileName"}
  <2>1. FieldsFrom["UpdateProgressMsg"] =
          <<"ip", "port", "clientID", "fileSize", "sentSize", "timeStamp", "fileName">>
    BY DEF FieldsFrom, UpdateProgressFrom
  <2> QED  BY <2>1 DEF Fields
<1> QED  BY <1>1, <1>2, <1>3, <1>4, <1>5

LEMMA BytesType ==
  ASSUME NEW f \in Fixed, NEW x \in Nat
  PROVE  Bytes(f, x) \in Seq(Byte) /\ Len(Bytes(f, x)) = Width[f]
<1>1. Width[f] \in Nat
  BY WidthAssumption
<1> QED  BY <1>1, BigEndianType DEF Bytes

(* A function that has the fields of a struct is a message.                *)
LEMMA IsMessage ==
  ASSUME NEW kind \in Kinds, NEW m, DOMAIN m = Fields(kind) \cup {"kind"},
         m = [f \in DOMAIN m |-> m[f]], m["kind"] = kind,
         \A f \in Fields(kind) : m[f] \in Seq(Byte) /\ (f \in Fixed => Len(m[f]) = Width[f])
  PROVE  m \in Message(kind) /\ m \in Messages /\ m.kind = kind
<1>1. \A f \in DOMAIN m : m[f] \in Seq(Byte) \cup {kind}
  OBVIOUS
<1>2. m \in [Fields(kind) \cup {"kind"} -> Seq(Byte) \cup {kind}]
  BY <1>1
<1> QED  BY <1>2 DEF Message, Messages

LEMMA ClientStatusType ==
  ASSUME NEW i \in Nat, i < Base
  PROVE  ClientStatus(i) \in Messages /\ ClientStatus(i).kind = "UpdateClientStatusMsg"
<1> DEFINE m == ClientStatus(i)
           kind == "UpdateClientStatusMsg"
<1>1. kind \in Kinds
  BY KindsAre
<1>2. /\ m["kind"] = kind /\ m["status"] = Bytes("status", 1) /\ m["ip"] = Bytes("ip", 1)
      /\ m["port"] = Bytes("port", 1) /\ m["clientID"] = Bytes("clientID", i)
      /\ m["clientName"] = <<i>>
      /\ DOMAIN m = {"kind", "status", "ip", "port", "clientID", "clientName"}
      /\ m = [f \in DOMAIN m |-> m[f]]
  BY DEF ClientStatus
<1>3. <<i>> \in Seq(Byte)
  BY SizeAssumption DEF Byte
<1> HIDE DEF m
<1>4. DOMAIN m = Fields(kind) \cup {"kind"}
  BY <1>2, FieldSets
<1>5. /\ m["status"] \in Seq(Byte) /\ Len(m["status"]) = Width["status"]
      /\ m["ip"] \in Seq(Byte) /\ Len(m["ip"]) = Width["ip"]
      /\ m["port"] \in Seq(Byte) /\ Len(m["port"]) = Width["port"]
      /\ m["clientID"] \in Seq(Byte) /\ Len(m["clientID"]) = Width["clientID"]
  <2>1. {"status", "ip", "port", "clientID"} \subseteq Fixed /\ 1 \in Nat
    BY DEF Fixed
  <2> QED  BY <1>2, <2>1, BytesType
<1>6. "clientName" \notin Fixed
  BY DEF Fixed
<1>7. \A f \in Fields(kind) : m[f] \in Seq(Byte) /\ (f \in Fixed => Len(m[f]) = Width[f])
  BY <1>2, <1>3, <1>5, <1>6, FieldSets
<1> QED  BY <1>1, <1>2, <1>4, <1>7, IsMessage DEF m

ClientIds == {s \in Seq(Byte) : Len(s) = Width["clientID"]}

LEMMA FileRequestType ==
  ASSUME NEW id \in ClientIds, NEW size \in Nat
  PROVE  FileRequest(id, size) \in Messages /\ FileRequest(id, size).kind = "SendFileRequestMsg"
<1> DEFINE m == FileRequest(id, size)
           kind == "SendFileRequestMsg"
<1>1. kind \in Kinds
  BY KindsAre
<1>2. /\ m["kind"] = kind /\ m["ip"] = Bytes("ip", 1)
      /\ m["port"] = Bytes("port", 1) /\ m["clientID"] = id
      /\ m["fileSize"] = Bytes("fileSize", size) /\ m["timeStamp"] = Bytes("timeStamp", 1)
      /\ m["fileName"] = <<1>>
      /\ DOMAIN m = {"kind", "ip", "port", "clientID", "fileSize", "timeStamp", "fileName"}
      /\ m = [f \in DOMAIN m |-> m[f]]
  BY DEF FileRequest
<1>3. <<1>> \in Seq(Byte)
  BY SizeAssumption DEF Byte
<1> HIDE DEF m
<1>4. DOMAIN m = Fields(kind) \cup {"kind"}
  BY <1>2, FieldSets
<1>5. /\ m["ip"] \in Seq(Byte) /\ Len(m["ip"]) = Width["ip"]
      /\ m["port"] \in Seq(Byte) /\ Len(m["port"]) = Width["port"]
      /\ m["clientID"] \in Seq(Byte) /\ Len(m["clientID"]) = Width["clientID"]
      /\ m["fileSize"] \in Seq(Byte) /\ Len(m["fileSize"]) = Width["fileSize"]
      /\ m["timeStamp"] \in Seq(Byte) /\ Len(m["timeStamp"]) = Width["timeStamp"]
  <2>1. {"ip", "port", "fileSize", "timeStamp"} \subseteq Fixed /\ 1 \in Nat
    BY DEF Fixed
  <2> QED  BY <1>2, <2>1, BytesType DEF ClientIds
<1>6. "fileName" \notin Fixed
  BY DEF Fixed
<1>7. \A f \in Fields(kind) : m[f] \in Seq(Byte) /\ (f \in Fixed => Len(m[f]) = Width[f])
  BY <1>2, <1>3, <1>5, <1>6, FieldSets
<1> QED  BY <1>1, <1>2, <1>4, <1>7, IsMessage DEF m

LEMMA FileResponseType ==
  ASSUME NEW request \in Messages, request.kind = "SendFileRequestMsg", NEW status \in {0, 1}
  PROVE  /\ FileResponse(request, status) \in Messages
         /\ FileResponse(request, status).kind = "SendFileResponseMsg"
<1> DEFINE m == FileResponse(request, status)
           kind == "SendFileResponseMsg"
           fields == Fields("SendFileRequestMsg")
<1>1. kind \in Kinds
  BY KindsAre
<1>2. request \in Message("SendFileRequestMsg")
  BY MessageKind
<1>3. /\ DOMAIN request = fields \cup {"kind"}
      /\ \A f \in fields : request[f] \in Seq(Byte) /\ (f \in Fixed => Len(request[f]) = Width[f])
  BY <1>2 DEF Message
<1>4. /\ DOMAIN m = DOMAIN request \cup {"status"}
      /\ m = [f \in DOMAIN m |-> m[f]]
  BY DEF FileResponse
<1>5. DOMAIN m = Fields(kind) \cup {"kind"}
  BY <1>3, <1>4, FieldSets
<1>6. /\ m["kind"] = kind /\ m["status"] = Bytes("status", status)
      /\ m["fileName"] = IF status = 1 THEN <<2>> \o request.fileName ELSE request.fileName
      /\ \A f \in DOMAIN request \ {"kind", "status", "fileName"} : m[f] = request[f]
  <2>1. "kind" \in DOMAIN request /\ "fileName" \in DOMAIN request
    BY <1>3, FieldSets
  <2> QED  BY <2>1 DEF FileResponse
<1> HIDE DEF m, fields
<1>7. m["fileName"] \in Seq(Byte)
  <2>1. request.fileName \in Seq(Byte)
    BY <1>3, FieldSets DEF fields
  <2>2. <<2>> \in Seq(Byte)
    BY NameAssumption, SizeAssumption DEF Byte
  <2>3. <<2>> \o request.fileName \in Seq(Byte)
    BY <2>1, <2>2, ConcatProperties
  <2> QED  BY <1>6, <2>1, <2>3
<1>8. m["status"] \in Seq(Byte) /\ Len(m["status"]) = Width["status"]
  <2>1. "status" \in Fixed /\ status \in Nat
    BY DEF Fixed
  <2> QED  BY <1>6, <2>1, BytesType
<1>9. ASSUME NEW f \in Fields(kind)
      PROVE  m[f] \in Seq(Byte) /\ (f \in Fixed => Len(m[f]) = Width[f])
  <2>1. CASE f \in {"status", "fileName"}
    BY <1>7, <1>8, <2>1 DEF Fixed
  <2>2. CASE f \notin {"status", "fileName"}
    <3>1. f \in fields /\ f # "kind"
      BY <2>2, FieldSets DEF fields
    <3>2. m[f] = request[f]
      BY <1>3, <1>6, <2>2, <3>1
    <3> QED  BY <1>3, <3>1, <3>2
  <2> QED  BY <2>1, <2>2
<1> QED  BY <1>1, <1>4, <1>5, <1>6, <1>9, IsMessage DEF m

(* The answer to a request no client of this version writes.               *)
LEMMA StatusResponseType ==
  LET m == [kind |-> "GetConnStatusResponseMsg", status |-> Bytes("status", 1)]
  IN  m \in Messages /\ m.kind = "GetConnStatusResponseMsg"
<1> DEFINE m == [kind |-> "GetConnStatusResponseMsg", status |-> Bytes("status", 1)]
           kind == "GetConnStatusResponseMsg"
<1>1. kind \in Kinds
  BY KindsAre
<1>2. /\ m["kind"] = kind /\ m["status"] = Bytes("status", 1)
      /\ DOMAIN m = {"kind", "status"} /\ m = [f \in DOMAIN m |-> m[f]]
  OBVIOUS
<1> HIDE DEF m
<1>4. DOMAIN m = Fields(kind) \cup {"kind"}
  BY <1>2, FieldSets
<1>5. \A f \in Fields(kind) : m[f] \in Seq(Byte) /\ (f \in Fixed => Len(m[f]) = Width[f])
  BY <1>2, FieldSets, BytesType DEF Fixed
<1> QED  BY <1>1, <1>2, <1>4, <1>5, IsMessage DEF m

LEMMA SentType ==
  ASSUME NEW v \in Nat, NEW size \in Nat
  PROVE  Sent(v, size) \in Nat
<1>1. size \div Steps \in Nat
  BY LinkAssumption
<1> DEFINE q == size \div Steps
<1> HIDE DEF q
<1>2. (IF q < 1 THEN 1 ELSE q) \in Nat
  BY <1>1 DEF q
<1>3. v * (IF q < 1 THEN 1 ELSE q) \in Nat
  BY <1>2
<1> QED  BY <1>3 DEF Sent, q

LEMMA ProgressType ==
  ASSUME cache \in Messages, cache.kind \in ServerBound, NEW v \in Nat, NEW size \in Nat
  PROVE  Progress(v, size) \in Messages /\ Progress(v, size).kind = "UpdateProgressMsg"
<1> DEFINE m == Progress(v, size)
           kind == "UpdateProgressMsg"
<1>1. kind \in Kinds
  BY KindsAre
<1>2. /\ m["kind"] = kind /\ m["ip"] = cache.ip
      /\ m["port"] = cache.port /\ m["clientID"] = cache.clientID
      /\ m["fileSize"] = Bytes("fileSize", size)
      /\ m["sentSize"] = Bytes("sentSize", Sent(v, size))
      /\ m["timeStamp"] = Bytes("timeStamp", 1)
      /\ m["fileName"] = cache.fileName
      /\ DOMAIN m = {"kind", "ip", "port", "clientID", "fileSize", "sentSize", "timeStamp", "fileName"}
      /\ m = [f \in DOMAIN m |-> m[f]]
  BY DEF Progress
<1>3. \A f \in {"ip", "port", "clientID", "fileName"} :
        cache[f] \in Seq(Byte) /\ (f \in Fixed => Len(cache[f]) = Width[f])
  <2>1. cache \in Message(cache.kind)
    BY MessageKind
  <2>2. {"ip", "port", "clientID", "fileName"} \subseteq Fields(cache.kind)
    BY FieldSets DEF ServerBound
  <2> QED  BY <2>1, <2>2 DEF Message
<1> HIDE DEF m
<1>4. DOMAIN m = Fields(kind) \cup {"kind"}
  BY <1>2, FieldSets
<1>5. /\ Bytes("fileSize", size) \in Seq(Byte) /\ Len(Bytes("fileSize", size)) = Width["fileSize"]
      /\ Bytes("sentSize", Sent(v, size)) \in Seq(Byte)
      /\ Len(Bytes("sentSize", Sent(v, size))) = Width["sentSize"]
      /\ Bytes("timeStamp", 1) \in Seq(Byte) /\ Len(Bytes("timeStamp", 1)) = Width["timeStamp"]
  BY SentType, BytesType DEF Fixed
<1>6. \A f \in Fields(kind) : m[f] \in Seq(Byte) /\ (f \in Fixed => Len(m[f]) = Width[f])
  BY <1>2, <1>3, <1>5, FieldSets
<1> QED  BY <1>1, <1>2, <1>4, <1>6, IsMessage DEF m

-----------------------------------------------------------------------------
(* What holds of each direction, and what a step does to it.               *)

(* on: is there a connection?  busy: may the program still take messages   *)
(* off its buffer before it waits for data?                                *)
Side(on, stale, cut, busy, stream, got, buf, pipe, ks) ==
  /\ (on /\ ~stale) => Follows(stream, got, Readable(buf), pipe)
  /\ (~cut /\ ~stale) =>
       Whole(Readable(buf), pipe, ks) /\ (~busy => Readable(buf) = <<>>)

SideType(stream, got, buf, pipe) ==
  stream \in Seq(Messages) /\ got \in Seq(Messages) /\ IsBuffer(buf) /\ pipe \in Seq(Seq(Byte))

OfKinds(ms, ks) == \A i \in DOMAIN ms : ms[i].kind \in ks
AllFit(ms) == \A i \in DOMAIN ms : Fits(ms[i].kind, ms[i])

LEMMA GoodIs ==
  ASSUME NEW ms, NEW ks
  PROVE  Good(ms, ks) <=> OfKinds(ms, ks) /\ AllFit(ms)
BY DEF Good, OfKinds, AllFit

(* Messages were written, none when there is no connection.                *)
Wrote(on, stream, pipe, stream2, pipe2, ks) ==
  \E ms \in Seq(Messages) :
    /\ OfKinds(ms, ks) /\ (on \/ ms = <<>>)
    /\ stream2 = stream \o ms /\ pipe2 = pipe \o Writes(ms)

LEMMA WroteNothing ==
  ASSUME NEW on, NEW stream \in Seq(Messages), NEW pipe \in Seq(Seq(Byte)), NEW ks
  PROVE  Wrote(on, stream, pipe, stream, pipe, ks)
<1>1. stream = stream \o <<>> /\ pipe = pipe \o Writes(<<>>)
  BY WritesEmpty, ConcatEmptySeq
<1>2. OfKinds(<<>>, ks)
  BY DEF OfKinds
<1> QED  BY <1>1, <1>2, WritesEmpty DEF Wrote

LEMMA WroteType ==
  ASSUME NEW on, NEW stream \in Seq(Messages), NEW pipe \in Seq(Seq(Byte)), NEW ks,
         NEW stream2, NEW pipe2, Wrote(on, stream, pipe, stream2, pipe2, ks),
         OfKinds(stream, ks)
  PROVE  /\ stream2 \in Seq(Messages) /\ pipe2 \in Seq(Seq(Byte)) /\ OfKinds(stream2, ks)
         /\ ~on => pipe2 = pipe
<1>1. PICK ms \in Seq(Messages) :
        /\ OfKinds(ms, ks) /\ (on \/ ms = <<>>)
        /\ stream2 = stream \o ms /\ pipe2 = pipe \o Writes(ms)
  BY DEF Wrote
<1> DEFINE w == Writes(ms)
<1>2. w \in Seq(Seq(Byte))
  BY WritesType
<1> HIDE DEF w
<1>3. pipe \o w \in Seq(Seq(Byte)) /\ stream \o ms \in Seq(Messages)
  BY <1>2, ConcatProperties
<1>4. OfKinds(stream \o ms, ks)
  <2>1. /\ Len(stream \o ms) = Len(stream) + Len(ms) /\ Len(stream) \in Nat /\ Len(ms) \in Nat
        /\ \A i \in 1..(Len(stream) + Len(ms)) :
             (stream \o ms)[i] = IF i <= Len(stream) THEN stream[i] ELSE ms[i - Len(stream)]
    BY ConcatProperties
  <2>2. ASSUME NEW i \in DOMAIN (stream \o ms) PROVE (stream \o ms)[i].kind \in ks
    <3>1. i \in 1..(Len(stream) + Len(ms))
      BY <1>3, <2>1
    <3>2. CASE i <= Len(stream)
      <4>1. i \in DOMAIN stream /\ (stream \o ms)[i] = stream[i]
        BY <2>1, <3>1, <3>2
      <4> QED  BY <4>1 DEF OfKinds
    <3>3. CASE ~(i <= Len(stream))
      <4>1. i - Len(stream) \in DOMAIN ms
        BY <2>1, <3>1, <3>3
      <4>2. (stream \o ms)[i] = ms[i - Len(stream)]
        BY <2>1, <3>1, <3>3
      <4> QED  BY <1>1, <4>1, <4>2 DEF OfKinds
    <3> QED  BY <3>2, <3>3
  <2> QED  BY <2>2 DEF OfKinds
<1>5. ~on => pipe2 = pipe
  <2>1. ASSUME ~on PROVE pipe2 = pipe
    <3>1. pipe2 = pipe \o <<>>
      BY <1>1, <2>1, WritesEmpty
    <3> QED  BY <3>1, ConcatEmptySeq
  <2> QED  BY <2>1
<1> QED  BY <1>1, <1>3, <1>4, <1>5 DEF w

LEMMA SideWrites ==
  ASSUME NEW on, NEW stale, NEW cut, NEW busy, NEW stream, NEW got, NEW buf, NEW pipe, NEW ks,
         Side(on, stale, cut, busy, stream, got, buf, pipe, ks),
         SideType(stream, got, buf, pipe),
         NEW stream2, NEW pipe2, Wrote(on, stream, pipe, stream2, pipe2, ks), Good(stream2, ks)
  PROVE  Side(on, stale, cut, busy, stream2, got, buf, pipe2, ks)
<1>1. PICK ms \in Seq(Messages) :
        /\ OfKinds(ms, ks) /\ (on \/ ms = <<>>)
        /\ stream2 = stream \o ms /\ pipe2 = pipe \o Writes(ms)
  BY DEF Wrote
<1> DEFINE data == Readable(buf)
<1>2. /\ stream \in Seq(Messages) /\ got \in Seq(Messages) /\ pipe \in Seq(Seq(Byte))
      /\ data \in Seq(Byte)
  BY ReadableType DEF SideType
<1>3. Good(ms, ks)
  BY <1>1, <1>2, GoodParts
<1> HIDE DEF data
<1>4. Follows(stream, got, data, pipe) => Follows(stream2, got, data, pipe2)
  BY <1>1, <1>2, FollowsWrite
<1>5. Whole(data, pipe, ks) => Whole(data, pipe2, ks)
  BY <1>1, <1>3, WholeWrite
<1> QED  BY <1>4, <1>5 DEF Side, data

LEMMA SideReads ==
  ASSUME NEW on, NEW stale, NEW cut, NEW busy, NEW stream, NEW got, NEW buf, NEW pipe, NEW ks,
         Side(on, stale, cut, busy, stream, got, buf, pipe, ks),
         SideType(stream, got, buf, pipe), NEW t \in Takes(pipe)
  PROVE  /\ Side(on, stale, cut \/ t.part > 0, TRUE, stream, got,
                 append(buf, Taken(pipe, t)), Rest(pipe, t), ks)
         /\ IsBuffer(append(buf, Taken(pipe, t))) /\ Rest(pipe, t) \in Seq(Seq(Byte))
<1> DEFINE data == Readable(buf)
           a == Taken(pipe, t)
           b2 == append(buf, a)
<1>1. /\ IsBuffer(buf) /\ pipe \in Seq(Seq(Byte)) /\ data \in Seq(Byte)
  BY ReadableType DEF SideType
<1>2. a \in Seq(Byte) /\ Rest(pipe, t) \in Seq(Seq(Byte)) /\ t.part \in Nat
  BY <1>1, ReadSplits
<1>3. IsBuffer(b2) /\ Readable(b2) = data \o a
  BY <1>1, <1>2, AppendReads
<1> HIDE DEF data, b2
<1>4. Follows(stream, got, data, pipe) => Follows(stream, got, data \o a, Rest(pipe, t))
  BY <1>1, FollowsRead
<1>5. ~(t.part > 0) => t.part = 0
  BY <1>2
<1>6. Whole(data, pipe, ks) /\ t.part = 0 => Whole(data \o a, Rest(pipe, t), ks)
  BY <1>1, WholeRead
<1>7. Side(on, stale, cut \/ t.part > 0, TRUE, stream, got, b2, Rest(pipe, t), ks)
  BY <1>3, <1>4, <1>5, <1>6 DEF Side, data
<1> QED  BY <1>2, <1>3, <1>7 DEF b2

LEMMA SideTakes ==
  ASSUME NEW on, NEW stale, NEW cut, NEW busy, NEW stream, NEW got, NEW buf, NEW pipe, NEW ks,
         ks \subseteq Kinds \ {"GetConnStatusRequestMsg"},
         Side(on, stale, cut, busy, stream, got, buf, pipe, ks),
         SideType(stream, got, buf, pipe), Good(stream, ks),
         NEW kind \in Kinds, HasHeader(Readable(buf)), Told(kind, Readable(buf), ks),
         Complete(kind, Readable(buf))
  PROVE  Side(on, stale, cut, TRUE, stream, Append(got, fromByteArray(kind, Readable(buf))),
              retrieve(buf, FullLength(kind, Readable(buf))), pipe, ks)
<1> DEFINE data == Readable(buf)
           m == fromByteArray(kind, data)
           n == FullLength(kind, data)
           b2 == retrieve(buf, n)
<1>1. /\ stream \in Seq(Messages) /\ got \in Seq(Messages) /\ pipe \in Seq(Seq(Byte))
      /\ IsBuffer(buf) /\ data \in Seq(Byte)
  BY ReadableType DEF SideType
<1>2. n \in Nat
  BY <1>1, ReadsMessage
<1>3. Readable(b2) = After(data, n)
  BY <1>1, <1>2, RetrieveReads DEF After
<1>4. HasHeader(data) /\ Told(kind, data, ks) /\ Complete(kind, data)
  OBVIOUS
<1>5. data # <<>>
  <2>1. Len(data) >= messageLength
    BY <1>4 DEF HasHeader
  <2> HIDE DEF data
  <2> QED  BY <2>1, HeaderType
<1> HIDE DEF data, b2
<1>6. Follows(stream, got, data, pipe) => Follows(stream, Append(got, m), After(data, n), pipe)
  BY <1>1, <1>4, FollowsTake
<1>7. Whole(data, pipe, ks) => Whole(After(data, n), pipe, ks)
  BY <1>1, <1>4, <1>5, WholeTake
<1>8. Side(on, stale, cut, TRUE, stream, Append(got, m), b2, pipe, ks)
  <2> HIDE DEF m, n
  <2> QED  BY <1>3, <1>6, <1>7 DEF Side, data
<1> QED  BY <1>8 DEF b2, data

(* A loop that ends has taken all there was.                               *)
LEMMA SideStops ==
  ASSUME NEW on, NEW stale, NEW cut, NEW busy, NEW stream, NEW got, NEW buf, NEW pipe, NEW ks,
         ks \subseteq Kinds \ {"GetConnStatusRequestMsg"},
         Side(on, stale, cut, busy, stream, got, buf, pipe, ks),
         SideType(stream, got, buf, pipe), ~HasHeader(Readable(buf)), NEW busy2
  PROVE  Side(on, stale, cut, busy2, stream, got, buf, pipe, ks)
<1>1. Readable(buf) \in Seq(Byte)
  BY ReadableType DEF SideType
<1>2. Whole(Readable(buf), pipe, ks) => Readable(buf) = <<>>
  BY <1>1, WholeTake
<1> QED  BY <1>2 DEF Side

LEMMA SideBusier ==
  ASSUME NEW on, NEW stale, NEW cut, NEW busy, NEW stream, NEW got, NEW buf, NEW pipe, NEW ks,
         Side(on, stale, cut, busy, stream, got, buf, pipe, ks), NEW busy2, busy => busy2
  PROVE  Side(on, stale, cut, busy2, stream, got, buf, pipe, ks)
BY DEF Side

LEMMA SideBreaks ==
  ASSUME NEW on, NEW stale, NEW cut, NEW busy, NEW stream, NEW got, NEW buf, NEW pipe, NEW ks,
         Side(on, stale, cut, busy, stream, got, buf, pipe, ks)
  PROVE  Side(FALSE, stale, cut, busy, stream, got, buf, <<>>, ks)
BY WholeBreak DEF Side

(* Nothing is left of the old connection, or something is and is stale.    *)
LEMMA SideConnects ==
  ASSUME NEW on, NEW stale, NEW cut, NEW busy, NEW stream, NEW got, NEW buf, NEW ks,
         Side(on, stale, cut, busy, stream, got, buf, <<>>, ks), IsBuffer(buf)
  PROVE  Side(TRUE, stale \/ readableBytes(buf) > 0, cut, busy, <<>>, <<>>, buf, <<>>, ks)
<1>1. /\ Readable(buf) \in Seq(Byte) /\ Len(Readable(buf)) = readableBytes(buf)
  BY ReadableType DEF readableBytes
<1>2. ~(readableBytes(buf) > 0) => Readable(buf) = <<>>
  BY <1>1
<1>3. Readable(buf) = <<>> => Follows(<<>>, <<>>, Readable(buf), <<>>)
  BY FollowsStart
<1> QED  BY <1>2, <1>3 DEF Side

LEMMA NewBufferIs ==
  IsBuffer(NewBuffer) /\ Readable(NewBuffer) = <<>> /\ readableBytes(NewBuffer) = 0
<1> DEFINE z == Zeros(kCheapPrepend + kInitialSize)
           b == [data |-> z, reader |-> kCheapPrepend, writer |-> kCheapPrepend]
<1>1. kCheapPrepend \in Nat /\ kInitialSize \in Nat /\ kCheapPrepend + kInitialSize \in Nat
  BY SizeAssumption
<1>2. z \in Seq(Byte) /\ Len(z) = kCheapPrepend + kInitialSize
  BY <1>1, ZerosType
<1>3. NewBuffer = b /\ b.data = z /\ b.reader = kCheapPrepend /\ b.writer = kCheapPrepend
  BY DEF NewBuffer
<1> HIDE DEF z
<1>4. IsBuffer(b)
  BY <1>1, <1>2, <1>3 DEF IsBuffer
<1> HIDE DEF b
<1>5. Readable(b) \in Seq(Byte) /\ Len(Readable(b)) = 0 /\ readableBytes(b) = 0
  BY <1>1, <1>3, <1>4, ReadableType DEF readableBytes
<1>6. Readable(b) = <<>>
  BY <1>5
<1> QED  BY <1>3, <1>4, <1>5, <1>6

LEMMA SideStarts ==
  ASSUME NEW busy, NEW ks
  PROVE  Side(FALSE, FALSE, FALSE, busy, <<>>, <<>>, NewBuffer, <<>>, ks)
BY NewBufferIs, WholeStart DEF Side

(* What the loop finds when no read was cut.                               *)
LEMMA SideMeans ==
  ASSUME NEW on, NEW stale, NEW cut, NEW busy, NEW stream, NEW got, NEW buf, NEW pipe, NEW ks,
         ks \subseteq Kinds \ {"GetConnStatusRequestMsg"},
         Side(on, stale, cut, busy, stream, got, buf, pipe, ks),
         SideType(stream, got, buf, pipe)
  PROVE  /\ (on /\ ~stale) =>
              /\ Encoded(got) \o Readable(buf) \o FlattenSeq(pipe) = Encoded(stream)
              /\ IsPrefix(got, stream)
         /\ (~cut /\ ~stale) =>
              /\ ~busy => readableBytes(buf) = 0
              /\ HasHeader(Readable(buf)) =>
                   \A kind : Told(kind, Readable(buf), ks) =>
                     kind \in ks /\ Complete(kind, Readable(buf))
<1> DEFINE data == Readable(buf)
<1>1. /\ stream \in Seq(Messages) /\ got \in Seq(Messages) /\ pipe \in Seq(Seq(Byte))
      /\ IsBuffer(buf) /\ data \in Seq(Byte) /\ Len(data) = readableBytes(buf)
  BY ReadableType DEF SideType, readableBytes
<1> HIDE DEF data
<1>2. ASSUME on /\ ~stale
      PROVE  Encoded(got) \o data \o FlattenSeq(pipe) = Encoded(stream) /\ IsPrefix(got, stream)
  <2>1. Follows(stream, got, data, pipe)
    BY <1>2 DEF Side, data
  <2> QED  BY <1>1, <2>1, FollowsMeans
<1>3. ASSUME ~cut /\ ~stale
      PROVE  /\ ~busy => readableBytes(buf) = 0
             /\ HasHeader(data) =>
                  \A kind : Told(kind, data, ks) => kind \in ks /\ Complete(kind, data)
  <2>1. Whole(data, pipe, ks) /\ (~busy => data = <<>>)
    BY <1>3 DEF Side, data
  <2>2. ~busy => readableBytes(buf) = 0
    BY <1>1, <2>1
  <2>3. ASSUME HasHeader(data)
        PROVE  \A kind : Told(kind, data, ks) => kind \in ks /\ Complete(kind, data)
    <3>1. Len(data) >= messageLength
      BY <2>3 DEF HasHeader
    <3>2. data # <<>>
      BY <3>1, HeaderType
    <3> QED  BY <1>1, <2>1, <3>2, WholeTake
  <2> QED  BY <2>2, <2>3
<1> QED  BY <1>2, <1>3 DEF data

-----------------------------------------------------------------------------
(* The types of the variables.                                             *)

Dialog == [msg : {m \in Messages : OpensDialog(m)}, conn : Nat]

LinkType ==
  /\ open \in BOOLEAN /\ connected \in BOOLEAN
  /\ conn \in Nat /\ (open => connected /\ conn # 0)
  /\ toClient \in Seq(Seq(Byte)) /\ toServer \in Seq(Seq(Byte))
  /\ ~open => toClient = <<>> /\ toServer = <<>>

ClientType ==
  /\ IsBuffer(cbuf) /\ cparsing \in BOOLEAN
  /\ dialogs \in Seq(Dialog) /\ \A i \in DOMAIN dialogs : dialogs[i].conn \in 1..conn
  /\ cparsing => conn # 0
  /\ \A c \in clients : c.id \in ClientIds

(* The server has numbers left for the devices it may still add.           *)
ServerType ==
  /\ IsBuffer(sbuf) /\ sparsing \in BOOLEAN /\ timer \in BOOLEAN
  /\ slots \in Nat /\ hellos \in 0..slots /\ index \in Nat \ {0, 1}
  /\ left \in [Resources -> Nat] /\ index + left["adds"] < Base
  /\ cache = None \/ (cache \in Messages /\ cache.kind \in ServerBound)
  /\ timer => cache # None
  /\ val \in 0..Steps

PastType ==
  /\ cstream \in Seq(Messages) /\ cgot \in Seq(Messages) /\ OfKinds(cstream, ClientBound)
  /\ sstream \in Seq(Messages) /\ sgot \in Seq(Messages) /\ OfKinds(sstream, ServerBound)
  /\ ccut \in BOOLEAN /\ cstale \in BOOLEAN /\ scut \in BOOLEAN /\ sstale \in BOOLEAN

TypeInv == LinkType /\ ClientType /\ ServerType /\ PastType

LEMMA NoneIsNone ==
  ASSUME NEW m \in Messages
  PROVE  m # None
<1>1. PICK kind \in Kinds : m \in Message(kind)
  BY DEF Messages
<1>2. m \in [Fields(kind) \cup {"kind"} -> Seq(Byte) \cup {kind}]
  BY <1>1 DEF Message
<1> QED  BY <1>2, NameAssumption

LEMMA SpendType ==
  ASSUME NEW what \in Resources, left \in [Resources -> Nat], Spend(what)
  PROVE  /\ left' \in [Resources -> Nat]
         /\ left'["adds"] = IF what = "adds" THEN left["adds"] - 1 ELSE left["adds"]
BY DEF Spend, Resources

LEMMA ServerWritesAre ==
  ASSUME NEW m \in Messages, m.kind \in ClientBound, ServerWrites(m),
         cstream \in Seq(Messages), toClient \in Seq(Seq(Byte)), slots \in Nat
  PROVE  Wrote(open, cstream, toClient, cstream', toClient', ClientBound)
<1>1. CASE open
  <2> DEFINE ms == [i \in 1..slots |-> m]
  <2>1. ms \in Seq(Messages) /\ OfKinds(ms, ClientBound)
    BY DEF OfKinds
  <2>2. Writes(ms) = [i \in 1..slots |-> toByteArray(m)]
    BY DEF Writes
  <2>3. toClient' = toClient \o Writes(ms) /\ cstream' = cstream \o ms
    BY <1>1, <2>2 DEF ServerWrites
  <2> HIDE DEF ms
  <2> QED  BY <1>1, <2>1, <2>3 DEF Wrote
<1>2. CASE ~open
  <2>1. toClient' = toClient /\ cstream' = cstream
    BY <1>2 DEF ServerWrites
  <2> QED  BY <2>1, WroteNothing
<1> QED  BY <1>1, <1>2

LEMMA ClientWritesAre ==
  ASSUME NEW m \in Messages, m.kind \in ServerBound, ClientWrites(m),
         sstream \in Seq(Messages), toServer \in Seq(Seq(Byte))
  PROVE  Wrote(open, sstream, toServer, sstream', toServer', ServerBound)
<1>1. CASE open
  <2> DEFINE b == toByteArray(m)
             ms == <<m>>
  <2>1. ms \in Seq(Messages) /\ Writes(ms) = <<b>> /\ b \in Seq(Byte)
    BY WritesOne, ToByteArrayType
  <2>2. OfKinds(ms, ServerBound)
    BY DEF OfKinds
  <2>3. toServer' = Append(toServer, b) /\ sstream' = Append(sstream, m)
    BY <1>1 DEF ClientWrites
  <2> HIDE DEF b
  <2>4. Append(toServer, b) = toServer \o <<b>> /\ Append(sstream, m) = sstream \o <<m>>
    BY <2>1, AppendIsConcat
  <2>5. toServer' = toServer \o Writes(ms) /\ sstream' = sstream \o ms
    BY <2>1, <2>3, <2>4
  <2> HIDE DEF ms
  <2> QED  BY <1>1, <2>1, <2>2, <2>5 DEF Wrote
<1>2. CASE ~open
  <2>1. toServer' = toServer /\ sstream' = sstream
    BY <1>2 DEF ClientWrites
  <2> QED  BY <2>1, WroteNothing
<1> QED  BY <1>1, <1>2

(* The types when only the messages to one end change.                     *)
LEMMA ToClientType ==
  ASSUME TypeInv, Wrote(open, cstream, toClient, cstream', toClient', ClientBound),
         UNCHANGED <<open, conn, connected, toServer, cgot, ccut, cstale, spast>>
  PROVE  LinkType' /\ PastType'
<1>1. /\ cstream' \in Seq(Messages) /\ toClient' \in Seq(Seq(Byte))
      /\ OfKinds(cstream', ClientBound) /\ (~open => toClient' = toClient)
  BY WroteType DEF TypeInv, LinkType, PastType
<1>2. LinkType'
  BY <1>1 DEF TypeInv, LinkType
<1>3. PastType'
  BY <1>1 DEF TypeInv, PastType, spast
<1> QED  BY <1>2, <1>3

LEMMA ToServerType ==
  ASSUME TypeInv, Wrote(open, sstream, toServer, sstream', toServer', ServerBound),
         UNCHANGED <<open, conn, connected, toClient, cpast, sgot, scut, sstale>>
  PROVE  LinkType' /\ PastType'
<1>1. /\ sstream' \in Seq(Messages) /\ toServer' \in Seq(Seq(Byte))
      /\ OfKinds(sstream', ServerBound) /\ (~open => toServer' = toServer)
  BY WroteType DEF TypeInv, LinkType, PastType
<1>2. LinkType'
  BY <1>1 DEF TypeInv, LinkType
<1>3. PastType'
  BY <1>1 DEF TypeInv, PastType, cpast
<1> QED  BY <1>2, <1>3

LEMMA InitType ==
  ASSUME Init
  PROVE  TypeInv
<1> USE DEF Init, ClientInit, ServerInit
<1>1. <<>> \in Seq(Messages) /\ <<>> \in Seq(Seq(Byte)) /\ <<>> \in Seq(Dialog)
  BY EmptySeq
<1>2. LinkType
  BY <1>1 DEF LinkType
<1>3. ClientType
  <2>1. IsBuffer(cbuf)
    BY NewBufferIs
  <2>2. dialogs \in Seq(Dialog) /\ \A i \in DOMAIN dialogs : dialogs[i].conn \in 1..conn
    BY <1>1
  <2> QED  BY <2>1, <2>2 DEF ClientType
<1>4. ServerType
  <2>1. left \in [Resources -> Nat] /\ 2 + left["adds"] < Base
    BY LinkAssumption, NameAssumption
  <2>2. 0 \in 0..Steps
    BY LinkAssumption
  <2>3. IsBuffer(sbuf)
    BY NewBufferIs
  <2>4. slots \in Nat /\ hellos \in 0..slots /\ index \in Nat \ {0, 1}
    OBVIOUS
  <2> QED  BY <2>1, <2>2, <2>3, <2>4 DEF ServerType
<1>5. PastType
  <2>1. OfKinds(<<>>, ClientBound) /\ OfKinds(<<>>, ServerBound)
    BY DEF OfKinds
  <2> QED  BY <1>1, <2>1 DEF PastType
<1> QED  BY <1>2, <1>3, <1>4, <1>5 DEF TypeInv

LEMMA ConnectType ==
  ASSUME TypeInv, Connect
  PROVE  TypeInv'
<1> USE DEF TypeInv, Connect
<1>1. LinkType'
  BY DEF LinkType
<1>2. ClientType'
  BY DEF LinkType, ClientType
<1>3. ServerType'
  BY DEF ServerType
<1>4. PastType'
  <2>1. <<>> \in Seq(Messages)
    BY EmptySeq
  <2> QED  BY <2>1 DEF PastType, OfKinds
<1> QED  BY <1>1, <1>2, <1>3, <1>4

LEMMA ReadBudget ==
  ASSUME ServerType, NEW t, IF t.part > 0 THEN Spend("cuts") ELSE UNCHANGED left
  PROVE  left' \in [Resources -> Nat] /\ left'["adds"] = left["adds"]
<1>1. "cuts" \in Resources /\ left \in [Resources -> Nat]
  BY DEF ServerType, Resources
<1> QED  BY <1>1, SpendType

LEMMA ClientReadsType ==
  ASSUME TypeInv, ClientReads
  PROVE  TypeInv'
<1> USE DEF TypeInv
<1>1. PICK t \in Takes(toClient) :
        /\ cbuf' = append(cbuf, Taken(toClient, t)) /\ toClient' = Rest(toClient, t)
        /\ ccut' = (ccut \/ t.part > 0)
        /\ IF t.part > 0 THEN Spend("cuts") ELSE UNCHANGED left
  BY DEF ClientReads
<1>2. toClient \in Seq(Seq(Byte)) /\ IsBuffer(cbuf) /\ open
  BY DEF LinkType, ClientType, ClientReads
<1>3. Taken(toClient, t) \in Seq(Byte) /\ toClient' \in Seq(Seq(Byte))
  BY <1>1, <1>2, ReadSplits
<1>4. IsBuffer(cbuf')
  BY <1>1, <1>2, <1>3, AppendReads
<1>5. left' \in [Resources -> Nat] /\ left'["adds"] = left["adds"]
  BY <1>1, ReadBudget
<1>6. LinkType'
  BY <1>2, <1>3 DEF LinkType, ClientReads
<1>7. ClientType'
  BY <1>2, <1>4 DEF LinkType, ClientType, ClientReads
<1>8. ServerType'
  BY <1>5 DEF ServerType, ClientReads, server
<1>9. PastType'
  BY <1>1 DEF PastType, ClientReads, spast
<1> QED  BY <1>6, <1>7, <1>8, <1>9

LEMMA ServerReadsType ==
  ASSUME TypeInv, ServerReads
  PROVE  TypeInv'
<1> USE DEF TypeInv
<1>1. PICK t \in Takes(toServer) :
        /\ sbuf' = append(sbuf, Taken(toServer, t)) /\ toServer' = Rest(toServer, t)
        /\ scut' = (scut \/ t.part > 0)
        /\ IF t.part > 0 THEN Spend("cuts") ELSE UNCHANGED left
  BY DEF ServerReads
<1>2. toServer \in Seq(Seq(Byte)) /\ IsBuffer(sbuf) /\ open
  BY DEF LinkType, ServerType, ServerReads
<1>3. Taken(toServer, t) \in Seq(Byte) /\ toServer' \in Seq(Seq(Byte))
  BY <1>1, <1>2, ReadSplits
<1>4. IsBuffer(sbuf')
  BY <1>1, <1>2, <1>3, AppendReads
<1>5. left' \in [Resources -> Nat] /\ left'["adds"] = left["adds"]
  BY <1>1, ReadBudget
<1>6. LinkType'
  BY <1>2, <1>3 DEF LinkType, ServerReads, client
<1>7. ClientType'
  BY DEF ClientType, ServerReads, client
<1>8. ServerType'
  BY <1>4, <1>5 DEF ServerType, ServerReads
<1>9. PastType'
  BY <1>1 DEF PastType, ServerReads, cpast
<1> QED  BY <1>6, <1>7, <1>8, <1>9

LEMMA ClientParseEndsType ==
  ASSUME TypeInv, ClientParseEnds
  PROVE  TypeInv'
<1> USE DEF TypeInv, ClientParseEnds
<1>1. LinkType'
  BY DEF LinkType
<1>2. ClientType'
  BY DEF ClientType
<1>3. ServerType'
  BY DEF ServerType, server
<1>4. PastType'
  BY DEF PastType, cpast, spast
<1> QED  BY <1>1, <1>2, <1>3, <1>4

LEMMA ServerParseEndsType ==
  ASSUME TypeInv, ServerParseEnds
  PROVE  TypeInv'
<1> USE DEF TypeInv, ServerParseEnds
<1>1. LinkType'
  BY DEF LinkType, client
<1>2. ClientType'
  BY DEF ClientType, client
<1>3. ServerType'
  BY DEF ServerType
<1>4. PastType'
  BY DEF PastType, cpast, spast
<1> QED  BY <1>1, <1>2, <1>3, <1>4

LEMMA ClientDispatchesType ==
  ASSUME TypeInv, ClientDispatches
  PROVE  TypeInv'
<1> USE DEF TypeInv
<1> DEFINE data == Readable(cbuf)
           kind == ClientKind(data)
<1>1. PICK m \in Decoded(kind, data) :
        /\ cbuf' = retrieve(cbuf, FullLength(m.kind, data))
        /\ cgot' = Append(cgot, m)
        /\ clients' = IF m.kind = "UpdateClientStatusMsg" THEN Listed(m) ELSE clients
        /\ IF OpensDialog(m)
           THEN cparsing' = FALSE /\ dialogs' = Append(dialogs, [msg |-> m, conn |-> conn])
           ELSE UNCHANGED <<cparsing, dialogs>>
  BY DEF ClientDispatches
<1>2. IsBuffer(cbuf) /\ data \in Seq(Byte) /\ kind \in Kinds \cup {"none"}
  BY ReadableType, KindType DEF ClientType
<1> HIDE DEF data, kind
<1>3. m \in Message(kind) /\ m \in Messages /\ m.kind = kind /\ FullLength(kind, data) \in Nat
  BY <1>2, DecodedType
<1>4. IsBuffer(cbuf')
  BY <1>1, <1>2, <1>3, RetrieveReads
<1>5. \A c \in clients' : c.id \in ClientIds
  <2>1. ASSUME m.kind = "UpdateClientStatusMsg" PROVE m.clientID \in ClientIds
    <3>1. m \in Message("UpdateClientStatusMsg") /\ "clientID" \in Fields("UpdateClientStatusMsg")
      BY <1>3, <2>1, FieldSets
    <3>2. "clientID" \in Fixed
      BY DEF Fixed
    <3> QED  BY <3>1, <3>2 DEF Message, ClientIds
  <2> QED  BY <1>1, <2>1 DEF Listed, ClientType
<1>6. /\ conn \in Nat /\ conn # 0 /\ cparsing' \in BOOLEAN
      /\ dialogs' \in Seq(Dialog) /\ \A i \in DOMAIN dialogs' : dialogs'[i].conn \in 1..conn
  <2>1. conn \in Nat /\ conn # 0 /\ cparsing = TRUE
    BY DEF LinkType, ClientType, ClientDispatches
  <2>2. dialogs \in Seq(Dialog) /\ \A i \in DOMAIN dialogs : dialogs[i].conn \in 1..conn
    BY DEF ClientType
  <2>3. CASE OpensDialog(m)
    <3> DEFINE d == [msg |-> m, conn |-> conn]
    <3>1. d \in Dialog /\ d.conn \in 1..conn
      BY <1>3, <2>1, <2>3 DEF Dialog
    <3> HIDE DEF d
    <3>2. dialogs' = Append(dialogs, d) /\ cparsing' = FALSE
      BY <1>1, <2>3 DEF d
    <3>3. /\ Append(dialogs, d) \in Seq(Dialog) /\ Len(Append(dialogs, d)) = Len(dialogs) + 1
          /\ \A i \in 1..Len(dialogs) : Append(dialogs, d)[i] = dialogs[i]
          /\ Append(dialogs, d)[Len(dialogs) + 1] = d
      BY <2>2, <3>1, AppendProperties
    <3>4. ASSUME NEW i \in DOMAIN dialogs' PROVE dialogs'[i].conn \in 1..conn
      <4>1. i \in 1..(Len(dialogs) + 1)
        BY <3>2, <3>3
      <4>2. CASE i \in 1..Len(dialogs)
        BY <2>2, <3>2, <3>3, <4>2
      <4>3. CASE i = Len(dialogs) + 1
        BY <3>1, <3>2, <3>3, <4>3
      <4> QED  BY <2>2, <4>1, <4>2, <4>3
    <3> QED  BY <2>1, <3>2, <3>3, <3>4
  <2>4. CASE ~OpensDialog(m)
    BY <1>1, <2>1, <2>2, <2>4
  <2> QED  BY <2>3, <2>4
<1>7. cgot' \in Seq(Messages)
  BY <1>1, <1>3 DEF PastType
<1>8. LinkType'
  BY DEF LinkType, ClientDispatches
<1>9. ClientType'
  <2>1. conn' = conn
    BY DEF ClientDispatches
  <2> QED  BY <1>4, <1>5, <1>6, <2>1 DEF ClientType
<1>10. ServerType'
  BY DEF ServerType, ClientDispatches, server
<1>11. PastType'
  BY <1>7 DEF PastType, ClientDispatches, spast
<1> QED  BY <1>8, <1>9, <1>10, <1>11

LEMMA DialogEndsType ==
  ASSUME TypeInv, DialogEnds
  PROVE  /\ TypeInv'
         /\ Wrote(open, sstream, toServer, sstream', toServer', ServerBound)
<1> USE DEF TypeInv
<1> DEFINE d == Last(dialogs)
           m == d.msg
<1>1. /\ dialogs \in Seq(Dialog) /\ dialogs # <<>> /\ conn \in Nat
      /\ \A i \in DOMAIN dialogs : dialogs[i].conn \in 1..conn
  BY DEF ClientType, LinkType, DialogEnds
<1>2. m \in Messages
  <2>1. Len(dialogs) \in 1..Len(dialogs)
    BY <1>1
  <2>2. dialogs[Len(dialogs)] \in Dialog
    BY <1>1, <2>1
  <2> QED  BY <2>2 DEF Last, Dialog
<1>3. conn # 0
  <2>1. 1 \in DOMAIN dialogs
    BY <1>1
  <2>2. dialogs[1].conn \in 1..conn
    BY <1>1, <2>1
  <2> QED  BY <1>1, <2>2
<1>4. /\ Front(dialogs) \in Seq(Dialog)
      /\ \A i \in DOMAIN Front(dialogs) : Front(dialogs)[i].conn \in 1..conn
  <2> DEFINE n == Len(dialogs) - 1
  <2>1. n \in Nat /\ n <= Len(dialogs) /\ 0 \in Nat /\ 0 <= n /\ 0 + 1 = 1 /\ n - 0 = n
    BY <1>1
  <2> HIDE DEF n
  <2>2. /\ SubSeq(dialogs, 0 + 1, n) \in Seq(Dialog) /\ Len(SubSeq(dialogs, 0 + 1, n)) = n - 0
        /\ \A i \in 1..(n - 0) : SubSeq(dialogs, 0 + 1, n)[i] = dialogs[0 + i]
    BY <1>1, <2>1, Slice
  <2>3. /\ SubSeq(dialogs, 1, n) \in Seq(Dialog) /\ Len(SubSeq(dialogs, 1, n)) = n
        /\ \A i \in 1..n : SubSeq(dialogs, 1, n)[i] = dialogs[i]
    BY <2>1, <2>2
  <2>4. \A i \in 1..n : i \in DOMAIN dialogs
    BY <1>1, <2>1
  <2>5. Front(dialogs) = SubSeq(dialogs, 1, n)
    BY DEF Front, n
  <2>6. \A i \in 1..n : SubSeq(dialogs, 1, n)[i].conn \in 1..conn
    BY <1>1, <2>3, <2>4
  <2>7. DOMAIN SubSeq(dialogs, 1, n) = 1..n
    BY <2>3
  <2> QED  BY <2>3, <2>5, <2>6, <2>7
<1>5. Wrote(open, sstream, toServer, sstream', toServer', ServerBound)
  <2>1. sstream \in Seq(Messages) /\ toServer \in Seq(Seq(Byte))
    BY DEF LinkType, PastType
  <2>2. \/ m.kind = "SendFileRequestMsg" /\ \E s \in {0, 1} : ClientWrites(FileResponse(m, s))
        \/ UNCHANGED <<toServer, sstream>>
    BY DEF DialogEnds
  <2> HIDE DEF m
  <2>3. ASSUME m.kind = "SendFileRequestMsg", NEW s \in {0, 1}, ClientWrites(FileResponse(m, s))
        PROVE  Wrote(open, sstream, toServer, sstream', toServer', ServerBound)
    <3>1. /\ FileResponse(m, s) \in Messages
          /\ FileResponse(m, s).kind = "SendFileResponseMsg"
      BY <1>2, <2>3, FileResponseType
    <3>2. FileResponse(m, s).kind \in ServerBound
      BY <3>1 DEF ServerBound
    <3> QED  BY <2>1, <2>3, <3>1, <3>2, ClientWritesAre
  <2>4. ASSUME UNCHANGED <<toServer, sstream>>
        PROVE  Wrote(open, sstream, toServer, sstream', toServer', ServerBound)
    BY <2>1, <2>4, WroteNothing
  <2> QED  BY <2>2, <2>3, <2>4
<1>6. LinkType' /\ PastType'
  BY <1>5, ToServerType DEF DialogEnds
<1>7. ClientType'
  <2>1. dialogs' = Front(dialogs) /\ cparsing' = TRUE /\ UNCHANGED <<conn, cbuf, clients>>
    BY DEF DialogEnds
  <2> QED  BY <1>1, <1>3, <1>4, <2>1 DEF ClientType
<1>8. ServerType'
  BY DEF ServerType, DialogEnds, server
<1> QED  BY <1>5, <1>6, <1>7, <1>8

LEMMA UserSendsType ==
  ASSUME TypeInv, UserSends
  PROVE  /\ TypeInv'
         /\ Wrote(open, sstream, toServer, sstream', toServer', ServerBound)
<1> USE DEF TypeInv
<1>1. PICK c \in clients, size \in FileSizes : ClientWrites(FileRequest(c.id, size))
  BY DEF UserSends
<1>2. /\ FileRequest(c.id, size) \in Messages
      /\ FileRequest(c.id, size).kind = "SendFileRequestMsg"
  <2>1. c.id \in ClientIds /\ size \in Nat
    BY LinkAssumption DEF ClientType
  <2> QED  BY <2>1, FileRequestType
<1>3. Wrote(open, sstream, toServer, sstream', toServer', ServerBound)
  <2>1. FileRequest(c.id, size).kind \in ServerBound
    BY <1>2 DEF ServerBound
  <2>2. sstream \in Seq(Messages) /\ toServer \in Seq(Seq(Byte))
    BY DEF LinkType, PastType
  <2> QED  BY <1>1, <1>2, <2>1, <2>2, ClientWritesAre
<1>4. LinkType' /\ PastType'
  BY <1>3, ToServerType DEF UserSends, client
<1>5. ClientType'
  BY DEF ClientType, UserSends, client
<1>6. left' \in [Resources -> Nat] /\ left'["adds"] = left["adds"]
  <2>1. "sends" \in Resources /\ left \in [Resources -> Nat] /\ Spend("sends")
    BY DEF ServerType, Resources, UserSends
  <2> QED  BY <2>1, SpendType
<1>7. ServerType'
  BY <1>6 DEF ServerType, UserSends, server
<1> QED  BY <1>3, <1>4, <1>5, <1>7

LEMMA DisconnectedType ==
  ASSUME TypeInv, Disconnected
  PROVE  TypeInv'
<1> USE DEF TypeInv, Disconnected
<1>1. LinkType'
  BY DEF LinkType
<1>2. ClientType'
  BY DEF ClientType
<1>3. ServerType'
  BY DEF ServerType, server
<1>4. PastType'
  BY DEF PastType, cpast, spast
<1> QED  BY <1>1, <1>2, <1>3, <1>4

LEMMA BoundFor ==
  /\ "UpdateClientStatusMsg" \in ClientBound /\ "SendFileRequestMsg" \in ClientBound
  /\ "GetConnStatusResponseMsg" \in ClientBound /\ "UpdateProgressMsg" \in ClientBound
BY DEF ClientBound

LEMMA HelloType ==
  ASSUME TypeInv, Hello
  PROVE  /\ TypeInv'
         /\ Wrote(open, cstream, toClient, cstream', toClient', ClientBound)
<1> USE DEF TypeInv
<1>1. /\ cstream \in Seq(Messages) /\ toClient \in Seq(Seq(Byte)) /\ slots \in Nat
      /\ ServerWrites(ClientStatus(1))
  BY DEF PastType, LinkType, ServerType, Hello
<1>2. ClientStatus(1) \in Messages /\ ClientStatus(1).kind = "UpdateClientStatusMsg"
  <2>1. 1 \in Nat /\ 1 < Base
    BY SizeAssumption
  <2> QED  BY <2>1, ClientStatusType
<1>3. Wrote(open, cstream, toClient, cstream', toClient', ClientBound)
  BY <1>1, <1>2, BoundFor, ServerWritesAre
<1>4. LinkType' /\ PastType'
  BY <1>3, ToClientType DEF Hello, client
<1>5. ClientType'
  BY DEF ClientType, Hello, client
<1>6. ServerType'
  BY DEF ServerType, Hello
<1> QED  BY <1>3, <1>4, <1>5, <1>6

LEMMA AddTestClientType ==
  ASSUME TypeInv, AddTestClient
  PROVE  /\ TypeInv'
         /\ Wrote(open, cstream, toClient, cstream', toClient', ClientBound)
<1> USE DEF TypeInv
<1>1. /\ cstream \in Seq(Messages) /\ toClient \in Seq(Seq(Byte)) /\ slots \in Nat
      /\ ServerWrites(ClientStatus(index))
  BY DEF PastType, LinkType, ServerType, AddTestClient
<1>2. /\ left \in [Resources -> Nat] /\ left["adds"] \in Nat /\ index \in Nat \ {0, 1}
      /\ index + left["adds"] < Base /\ Base \in Nat /\ "adds" \in Resources
  BY SizeAssumption DEF ServerType, Resources
<1>3. ClientStatus(index) \in Messages /\ ClientStatus(index).kind = "UpdateClientStatusMsg"
  <2>1. index \in Nat /\ index < Base
    BY <1>2
  <2> QED  BY <2>1, ClientStatusType
<1>4. Wrote(open, cstream, toClient, cstream', toClient', ClientBound)
  BY <1>1, <1>3, BoundFor, ServerWritesAre
<1>5. LinkType' /\ PastType'
  BY <1>4, ToClientType DEF AddTestClient, client
<1>6. ClientType'
  BY DEF ClientType, AddTestClient, client
<1>7. left' \in [Resources -> Nat] /\ left'["adds"] = left["adds"] - 1
  BY <1>2, SpendType DEF AddTestClient
<1>8. ServerType'
  <2>1. index' = index + 1 /\ index' \in Nat \ {0, 1} /\ index' + left'["adds"] < Base
    BY <1>2, <1>7 DEF AddTestClient
  <2> QED  BY <1>7, <2>1 DEF ServerType, AddTestClient
<1> QED  BY <1>4, <1>5, <1>6, <1>8

LEMMA SendFileType ==
  ASSUME TypeInv, SendFile
  PROVE  /\ TypeInv'
         /\ Wrote(open, cstream, toClient, cstream', toClient', ClientBound)
<1> USE DEF TypeInv
<1>1. /\ cstream \in Seq(Messages) /\ toClient \in Seq(Seq(Byte)) /\ slots \in Nat
      /\ left \in [Resources -> Nat] /\ "asks" \in Resources /\ "asks" # "adds"
  BY DEF PastType, LinkType, ServerType, Resources
<1>2. PICK size \in FileSizes : ServerWrites(FileRequest(Bytes("clientID", 1), size))
  BY DEF SendFile
<1> DEFINE m == FileRequest(Bytes("clientID", 1), size)
<1>3. m \in Messages /\ m.kind = "SendFileRequestMsg"
  <2>1. "clientID" \in Fixed /\ 1 \in Nat /\ size \in Nat
    BY LinkAssumption DEF Fixed
  <2>2. Bytes("clientID", 1) \in ClientIds
    BY <2>1, BytesType DEF ClientIds
  <2> QED  BY <2>1, <2>2, FileRequestType
<1> HIDE DEF m
<1>4. Wrote(open, cstream, toClient, cstream', toClient', ClientBound)
  <2>1. ServerWrites(m)
    BY <1>2 DEF m
  <2> QED  BY <1>1, <1>3, <2>1, BoundFor, ServerWritesAre
<1>5. LinkType' /\ PastType'
  BY <1>4, ToClientType DEF SendFile, client
<1>6. ClientType'
  BY DEF ClientType, SendFile, client
<1>7. left' \in [Resources -> Nat] /\ left'["adds"] = left["adds"]
  BY <1>1, SpendType DEF SendFile
<1>8. ServerType'
  BY <1>7 DEF ServerType, SendFile, server
<1> QED  BY <1>4, <1>5, <1>6, <1>8

LEMMA ServerDispatchesType ==
  ASSUME TypeInv, ServerDispatches
  PROVE  /\ TypeInv'
         /\ Wrote(open, cstream, toClient, cstream', toClient', ClientBound)
<1> USE DEF TypeInv
<1> DEFINE data == Readable(sbuf)
           kind == ServerKind(data)
           answer == [kind |-> "GetConnStatusResponseMsg", status |-> Bytes("status", 1)]
<1>1. PICK m \in Decoded(kind, data) :
        /\ sbuf' = retrieve(sbuf, FullLength(m.kind, data))
        /\ sgot' = Append(sgot, m)
        /\ Starts(m)
        /\ IF m.kind = "GetConnStatusRequestMsg"
           THEN ServerWrites(answer)
           ELSE UNCHANGED <<toClient, cstream>>
  BY DEF ServerDispatches
<1>2. IsBuffer(sbuf) /\ data \in Seq(Byte) /\ kind \in Kinds \cup {"none"}
  BY ReadableType, KindType DEF ServerType
<1>3. kind \in {"GetConnStatusRequestMsg", "none"} \cup ServerBound
  BY DEF ServerKind, ServerBound
<1>4. answer \in Messages /\ answer.kind = "GetConnStatusResponseMsg"
  BY StatusResponseType
<1> HIDE DEF data, kind, answer
<1>5. /\ m \in Messages /\ m.kind = kind /\ FullLength(kind, data) \in Nat /\ kind \in Kinds
  BY <1>2, DecodedType
<1>6. IsBuffer(sbuf')
  BY <1>1, <1>2, <1>5, RetrieveReads
<1>7. Wrote(open, cstream, toClient, cstream', toClient', ClientBound)
  <2>1. cstream \in Seq(Messages) /\ toClient \in Seq(Seq(Byte)) /\ slots \in Nat
    BY DEF PastType, LinkType, ServerType
  <2>2. CASE m.kind = "GetConnStatusRequestMsg"
    <3>1. ServerWrites(answer)
      BY <1>1, <2>2
    <3> QED  BY <1>4, <2>1, <3>1, BoundFor, ServerWritesAre
  <2>3. CASE m.kind # "GetConnStatusRequestMsg"
    <3>1. toClient' = toClient /\ cstream' = cstream
      BY <1>1, <2>3
    <3> QED  BY <2>1, <3>1, WroteNothing
  <2> QED  BY <2>2, <2>3
<1>8. /\ cache' = None \/ (cache' \in Messages /\ cache'.kind \in ServerBound)
      /\ timer' \in BOOLEAN /\ (timer' => cache' # None) /\ val' \in 0..Steps
  <2>0. /\ cache = None \/ (cache \in Messages /\ cache.kind \in ServerBound)
        /\ timer \in BOOLEAN /\ (timer => cache # None) /\ val \in 0..Steps
    BY DEF ServerType
  <2>1. CASE UNCHANGED <<cache, val, timer>>
    BY <2>0, <2>1
  <2>2. CASE /\ m.kind # "GetConnStatusRequestMsg"
             /\ cache' = m /\ val' = 0 /\ timer' = TRUE
    <3>1. "none" \notin Kinds
      BY KindsAre
    <3>2. m.kind \in ServerBound
      BY <1>3, <1>5, <2>2, <3>1
    <3>3. m # None /\ 0 \in 0..Steps
      BY <1>5, NoneIsNone, LinkAssumption
    <3> QED  BY <1>5, <2>2, <3>2, <3>3
  <2> QED  BY <1>1, <2>1, <2>2 DEF Starts
<1>9. LinkType' /\ cstream' \in Seq(Messages) /\ OfKinds(cstream', ClientBound)
  <2>1. /\ cstream' \in Seq(Messages) /\ toClient' \in Seq(Seq(Byte))
        /\ OfKinds(cstream', ClientBound) /\ (~open => toClient' = toClient)
    BY <1>7, WroteType DEF LinkType, PastType
  <2> QED  BY <2>1 DEF LinkType, ServerDispatches, client
<1>10. sgot' \in Seq(Messages)
  BY <1>1, <1>5 DEF PastType
<1>11. PastType'
  BY <1>9, <1>10 DEF PastType, ServerDispatches
<1>12. ClientType'
  BY DEF ClientType, ServerDispatches, client
<1>13. ServerType'
  BY <1>6, <1>8 DEF ServerType, ServerDispatches
<1> QED  BY <1>7, <1>9, <1>11, <1>12, <1>13

LEMMA SendProgressDataType ==
  ASSUME TypeInv, SendProgressData
  PROVE  /\ TypeInv'
         /\ Wrote(open, cstream, toClient, cstream', toClient', ClientBound)
<1> USE DEF TypeInv
<1>1. cstream \in Seq(Messages) /\ toClient \in Seq(Seq(Byte)) /\ slots \in Nat
  BY DEF PastType, LinkType, ServerType
<1>2. /\ cache \in Messages /\ cache.kind \in ServerBound /\ val \in 0..Steps
      /\ Steps \in Nat
  BY LinkAssumption DEF ServerType, SendProgressData
<1>3. ASSUME ~(val >= Steps), val' = val + 1, UNCHANGED <<timer, cache>>,
             \E size \in FileSizes : ServerWrites(Progress(val + 1, size))
      PROVE  ServerType' /\ Wrote(open, cstream, toClient, cstream', toClient', ClientBound)
  <2>1. PICK size \in FileSizes : ServerWrites(Progress(val + 1, size))
    BY <1>3
  <2> DEFINE m == Progress(val + 1, size)
  <2>2. m \in Messages /\ m.kind = "UpdateProgressMsg"
    <3>1. val + 1 \in Nat /\ size \in Nat
      BY <1>2, LinkAssumption
    <3> QED  BY <1>2, <3>1, ProgressType
  <2>3. ServerWrites(m)
    BY <2>1
  <2> HIDE DEF m
  <2>4. Wrote(open, cstream, toClient, cstream', toClient', ClientBound)
    BY <1>1, <2>2, <2>3, BoundFor, ServerWritesAre
  <2>5. ServerType'
    <3>1. val' \in 0..Steps
      BY <1>2, <1>3
    <3> QED  BY <1>3, <3>1 DEF ServerType, SendProgressData
  <2> QED  BY <2>4, <2>5
<1>4. ASSUME timer' = FALSE, cache' = None, UNCHANGED <<val, toClient, cstream>>
      PROVE  ServerType' /\ Wrote(open, cstream, toClient, cstream', toClient', ClientBound)
  <2>1. Wrote(open, cstream, toClient, cstream', toClient', ClientBound)
    BY <1>1, <1>4, WroteNothing
  <2>2. ServerType'
    BY <1>4 DEF ServerType, SendProgressData
  <2> QED  BY <2>1, <2>2
<1>5. ServerType' /\ Wrote(open, cstream, toClient, cstream', toClient', ClientBound)
  <2>1. CASE val >= Steps
    BY <1>4, <2>1 DEF SendProgressData
  <2>2. CASE ~(val >= Steps)
    BY <1>3, <2>2 DEF SendProgressData
  <2> QED  BY <2>1, <2>2
<1>6. LinkType' /\ PastType'
  BY <1>5, ToClientType DEF SendProgressData, client
<1>7. ClientType'
  BY DEF ClientType, SendProgressData, client
<1> QED  BY <1>5, <1>6, <1>7

LEMMA ClientRestartsType ==
  ASSUME TypeInv, ClientRestarts
  PROVE  TypeInv'
<1> USE DEF TypeInv, ClientRestarts, Break
<1>1. <<>> \in Seq(Messages) /\ <<>> \in Seq(Seq(Byte)) /\ <<>> \in Seq(Dialog)
  BY EmptySeq
<1>2. LinkType'
  BY <1>1 DEF LinkType
<1>3. ClientType'
  <2>1. IsBuffer(cbuf')
    BY NewBufferIs
  <2>2. dialogs' \in Seq(Dialog) /\ \A i \in DOMAIN dialogs' : dialogs'[i].conn \in 1..conn'
    BY <1>1
  <2> QED  BY <2>1, <2>2 DEF ClientType
<1>4. left' \in [Resources -> Nat] /\ left'["adds"] = left["adds"]
  <2>1. "clientEnds" \in Resources /\ left \in [Resources -> Nat]
    BY DEF ServerType, Resources
  <2> QED  BY <2>1, SpendType
<1>5. ServerType'
  BY <1>4 DEF ServerType, server
<1>6. PastType'
  <2>1. OfKinds(<<>>, ClientBound)
    BY DEF OfKinds
  <2> QED  BY <1>1, <2>1 DEF PastType, spast
<1> QED  BY <1>2, <1>3, <1>5, <1>6

LEMMA ServerRestartsType ==
  ASSUME TypeInv, ServerRestarts
  PROVE  TypeInv'
<1> USE DEF TypeInv, ServerRestarts, Break
<1>1. <<>> \in Seq(Messages) /\ <<>> \in Seq(Seq(Byte))
  BY EmptySeq
<1>2. LinkType'
  BY <1>1 DEF LinkType, client
<1>3. ClientType'
  BY DEF ClientType, client
<1>4. left' \in [Resources -> Nat] /\ left'["adds"] = left["adds"] /\ left["adds"] \in Nat
  <2>1. {"serverEnds", "adds"} \subseteq Resources /\ left \in [Resources -> Nat]
    BY DEF ServerType, Resources
  <2> QED  BY <2>1, SpendType
<1>5. ServerType'
  <2>1. IsBuffer(sbuf')
    BY NewBufferIs
  <2>2. index' = 2 /\ index' + left'["adds"] < Base
    <3>1. index \in Nat \ {0, 1} /\ index + left["adds"] < Base /\ Base \in Nat
      BY SizeAssumption DEF ServerType
    <3> QED  BY <1>4, <3>1
  <2>3. slots' \in Nat /\ hellos' \in 0..slots' /\ index' \in Nat \ {0, 1}
    BY <2>2
  <2>4. 0 \in 0..Steps
    BY LinkAssumption
  <2> QED  BY <1>4, <2>1, <2>2, <2>3, <2>4 DEF ServerType
<1>6. PastType'
  <2>1. OfKinds(<<>>, ServerBound)
    BY DEF OfKinds
  <2> QED  BY <1>1, <2>1 DEF PastType, cpast
<1> QED  BY <1>2, <1>3, <1>5, <1>6

LEMMA StutterType ==
  ASSUME TypeInv, UNCHANGED vars
  PROVE  TypeInv'
<1> USE DEF TypeInv, vars
<1>1. LinkType'
  BY DEF LinkType, client
<1>2. ClientType'
  BY DEF ClientType, client
<1>3. ServerType'
  BY DEF ServerType, server
<1>4. PastType'
  BY DEF PastType, cpast, spast
<1> QED  BY <1>1, <1>2, <1>3, <1>4

LEMMA StepType ==
  ASSUME TypeInv, [Next]_vars
  PROVE  TypeInv'
<1>1. CASE ClientLoop
  BY <1>1, ConnectType, ClientReadsType, ClientParseEndsType, ClientDispatchesType,
     DisconnectedType DEF ClientLoop
<1>2. CASE ServerLoop
  BY <1>2, HelloType, ServerReadsType, ServerParseEndsType, ServerDispatchesType,
     SendProgressDataType DEF ServerLoop
<1>3. CASE Users
  BY <1>3, DialogEndsType, UserSendsType, AddTestClientType, SendFileType DEF Users
<1>4. CASE Restarts
  BY <1>4, ClientRestartsType, ServerRestartsType DEF Restarts
<1>5. CASE UNCHANGED vars
  BY <1>5, StutterType
<1> QED  BY <1>1, <1>2, <1>3, <1>4, <1>5 DEF Next

LEMMA TypesHold == Spec => []TypeInv
BY InitType, StepType, PTL DEF Spec

(* The variables have their types in every behaviour: whatever garbage a   *)
(* cut read or an old connection leaves is decoded to something of a       *)
(* message's type, a program has a dialog only of a connection there was,  *)
(* and the server's progress timer has its message.                        *)
THEOREM TypeCorrect == Spec => []TypeOK
<1>1. TypeInv => TypeOK
  <2> SUFFICES ASSUME TypeInv PROVE TypeOK
    OBVIOUS
  <2> USE DEF TypeInv
  <2>1. {open, connected, cparsing, sparsing, timer, ccut, cstale, scut, sstale} \subseteq BOOLEAN
    BY DEF LinkType, ClientType, ServerType, PastType
  <2>2. \A i \in DOMAIN dialogs : dialogs[i].msg.kind \in Kinds /\ dialogs[i].conn \in 1..conn
    <3>1. ASSUME NEW i \in DOMAIN dialogs PROVE dialogs[i].msg.kind \in Kinds
      <4>1. dialogs[i] \in Dialog
        BY DEF ClientType
      <4> QED  BY <4>1, MessageKind DEF Dialog
    <3> QED  BY <3>1 DEF ClientType
  <2> QED  BY <2>1, <2>2 DEF TypeOK, LinkType, ClientType, ServerType
<1> QED  BY <1>1, TypesHold, PTL

-----------------------------------------------------------------------------
(* The streams.                                                            *)

(* The length field of every message that was written can hold the length  *)
(* of its content.                                                         *)
LengthsFit == AllFit(cstream) /\ AllFit(sstream)

ClientSide ==
  Side(open, cstale, ccut, cparsing \/ dialogs # <<>>, cstream, cgot, cbuf, toClient, ClientBound)
ServerSide ==
  Side(open, sstale, scut, sparsing, sstream, sgot, sbuf, toServer, ServerBound)
Sides == ClientSide /\ ServerSide

LEMMA SidesTyped ==
  ASSUME TypeInv
  PROVE  SideType(cstream, cgot, cbuf, toClient) /\ SideType(sstream, sgot, sbuf, toServer)
BY DEF TypeInv, LinkType, ClientType, ServerType, PastType, SideType

LEMMA ClientSideStays ==
  ASSUME ClientSide,
         UNCHANGED <<open, cstale, ccut, cparsing, dialogs, cstream, cgot, cbuf, toClient>>
  PROVE  ClientSide'
BY DEF ClientSide

LEMMA ServerSideStays ==
  ASSUME ServerSide,
         UNCHANGED <<open, sstale, scut, sparsing, sstream, sgot, sbuf, toServer>>
  PROVE  ServerSide'
BY DEF ServerSide

LEMMA ClientSideWritten ==
  ASSUME TypeInv, TypeInv', LengthsFit', ClientSide,
         Wrote(open, cstream, toClient, cstream', toClient', ClientBound),
         UNCHANGED <<open, cstale, ccut, cparsing, dialogs, cgot, cbuf>>
  PROVE  ClientSide'
<1> DEFINE busy == cparsing \/ dialogs # <<>>
<1>1. SideType(cstream, cgot, cbuf, toClient)
  BY SidesTyped
<1>2. Good(cstream', ClientBound)
  BY GoodIs DEF TypeInv, PastType, LengthsFit
<1>3. Side(open, cstale, ccut, busy, cstream, cgot, cbuf, toClient, ClientBound)
  BY DEF ClientSide
<1> HIDE DEF busy
<1>4. Side(open, cstale, ccut, busy, cstream', cgot, cbuf, toClient', ClientBound)
  BY <1>1, <1>2, <1>3, SideWrites
<1> QED  BY <1>4 DEF ClientSide, busy

LEMMA ServerSideWritten ==
  ASSUME TypeInv, TypeInv', LengthsFit', ServerSide,
         Wrote(open, sstream, toServer, sstream', toServer', ServerBound),
         UNCHANGED <<open, sstale, scut, sparsing, sgot, sbuf>>
  PROVE  ServerSide'
<1>1. SideType(sstream, sgot, sbuf, toServer)
  BY SidesTyped
<1>2. Good(sstream', ServerBound)
  BY GoodIs DEF TypeInv, PastType, LengthsFit
<1>3. Side(open, sstale, scut, sparsing, sstream, sgot, sbuf, toServer, ServerBound)
  BY DEF ServerSide
<1>4. Side(open, sstale, scut, sparsing, sstream', sgot, sbuf, toServer', ServerBound)
  BY <1>1, <1>2, <1>3, SideWrites
<1> QED  BY <1>4 DEF ServerSide

LEMMA InitSides ==
  ASSUME Init
  PROVE  Sides
<1>1. ClientSide
  <2>1. Side(FALSE, FALSE, FALSE, FALSE \/ <<>> # <<>>, <<>>, <<>>, NewBuffer, <<>>, ClientBound)
    BY SideStarts
  <2> QED  BY <2>1 DEF ClientSide, Init, ClientInit
<1>2. ServerSide
  <2>1. Side(FALSE, FALSE, FALSE, FALSE, <<>>, <<>>, NewBuffer, <<>>, ServerBound)
    BY SideStarts
  <2> QED  BY <2>1 DEF ServerSide, Init, ServerInit
<1> QED  BY <1>1, <1>2 DEF Sides

LEMMA ConnectSides ==
  ASSUME TypeInv, Sides, Connect
  PROVE  Sides'
<1>1. toClient = <<>> /\ toServer = <<>> /\ IsBuffer(cbuf) /\ IsBuffer(sbuf)
  BY DEF TypeInv, LinkType, ClientType, ServerType, Connect
<1>2. ClientSide'
  <2> DEFINE busy == cparsing \/ dialogs # <<>>
  <2>1. Side(open, cstale, ccut, busy, cstream, cgot, cbuf, <<>>, ClientBound)
    BY <1>1 DEF Sides, ClientSide
  <2> HIDE DEF busy
  <2>2. Side(TRUE, cstale \/ readableBytes(cbuf) > 0, ccut, busy, <<>>, <<>>, cbuf, <<>>,
             ClientBound)
    BY <1>1, <2>1, SideConnects
  <2>3. /\ open' = TRUE /\ cstale' = (cstale \/ readableBytes(cbuf) > 0) /\ ccut' = ccut
        /\ cparsing' = cparsing /\ dialogs' = dialogs /\ cstream' = <<>> /\ cgot' = <<>>
        /\ cbuf' = cbuf /\ toClient' = <<>>
    BY <1>1 DEF Connect
  <2> QED  BY <2>2, <2>3 DEF ClientSide, busy
<1>3. ServerSide'
  <2>1. Side(open, sstale, scut, sparsing, sstream, sgot, sbuf, <<>>, ServerBound)
    BY <1>1 DEF Sides, ServerSide
  <2>2. Side(TRUE, sstale \/ readableBytes(sbuf) > 0, scut, sparsing, <<>>, <<>>, sbuf, <<>>,
             ServerBound)
    BY <1>1, <2>1, SideConnects
  <2>3. /\ open' = TRUE /\ sstale' = (sstale \/ readableBytes(sbuf) > 0) /\ scut' = scut
        /\ sparsing' = sparsing /\ sstream' = <<>> /\ sgot' = <<>>
        /\ sbuf' = sbuf /\ toServer' = <<>>
    BY <1>1 DEF Connect
  <2> QED  BY <2>2, <2>3 DEF ServerSide
<1> QED  BY <1>2, <1>3 DEF Sides

LEMMA ClientReadsSides ==
  ASSUME TypeInv, Sides, ClientReads
  PROVE  Sides'
<1>1. PICK t \in Takes(toClient) :
        /\ cbuf' = append(cbuf, Taken(toClient, t)) /\ toClient' = Rest(toClient, t)
        /\ ccut' = (ccut \/ t.part > 0)
  BY DEF ClientReads
<1>2. ClientSide'
  <2> DEFINE busy == cparsing \/ dialogs # <<>>
  <2>1. Side(open, cstale, ccut, busy, cstream, cgot, cbuf, toClient, ClientBound)
    BY DEF Sides, ClientSide
  <2> HIDE DEF busy
  <2>2. SideType(cstream, cgot, cbuf, toClient)
    BY SidesTyped
  <2>3. Side(open, cstale, ccut \/ t.part > 0, TRUE, cstream, cgot,
             append(cbuf, Taken(toClient, t)), Rest(toClient, t), ClientBound)
    BY <2>1, <2>2, SideReads
  <2>4. /\ UNCHANGED <<open, cstale, cstream, cgot>>
        /\ (cparsing \/ dialogs # <<>>)' = TRUE
    BY DEF ClientReads
  <2> QED  BY <1>1, <2>3, <2>4 DEF ClientSide
<1>3. ServerSide'
  BY ServerSideStays DEF Sides, ClientReads, server, spast
<1> QED  BY <1>2, <1>3 DEF Sides

LEMMA ServerReadsSides ==
  ASSUME TypeInv, Sides, ServerReads
  PROVE  Sides'
<1>1. PICK t \in Takes(toServer) :
        /\ sbuf' = append(sbuf, Taken(toServer, t)) /\ toServer' = Rest(toServer, t)
        /\ scut' = (scut \/ t.part > 0)
  BY DEF ServerReads
<1>2. ServerSide'
  <2>1. Side(open, sstale, scut, sparsing, sstream, sgot, sbuf, toServer, ServerBound)
    BY DEF Sides, ServerSide
  <2>2. SideType(sstream, sgot, sbuf, toServer)
    BY SidesTyped
  <2>3. Side(open, sstale, scut \/ t.part > 0, TRUE, sstream, sgot,
             append(sbuf, Taken(toServer, t)), Rest(toServer, t), ServerBound)
    BY <2>1, <2>2, SideReads
  <2>4. UNCHANGED <<open, sstale, sstream, sgot>> /\ sparsing' = TRUE
    BY DEF ServerReads
  <2> QED  BY <1>1, <2>3, <2>4 DEF ServerSide
<1>3. ClientSide'
  BY ClientSideStays DEF Sides, ServerReads, client, cpast
<1> QED  BY <1>2, <1>3 DEF Sides

LEMMA ParseEndsSides ==
  ASSUME TypeInv, Sides, ClientParseEnds \/ ServerParseEnds
  PROVE  Sides'
<1>0. SideType(cstream, cgot, cbuf, toClient) /\ SideType(sstream, sgot, sbuf, toServer)
  BY SidesTyped
<1>1. CASE ClientParseEnds
  <2> DEFINE busy == cparsing \/ dialogs # <<>>
             busy2 == FALSE \/ dialogs # <<>>
  <2>1. Side(open, cstale, ccut, busy, cstream, cgot, cbuf, toClient, ClientBound)
    BY DEF Sides, ClientSide
  <2>2. ~HasHeader(Readable(cbuf))
    BY <1>1 DEF ClientParseEnds
  <2> HIDE DEF busy, busy2
  <2>3. Side(open, cstale, ccut, busy2, cstream, cgot, cbuf, toClient, ClientBound)
    BY <1>0, <2>1, <2>2, BoundAre, SideStops
  <2>4. /\ UNCHANGED <<open, cstale, ccut, cstream, cgot, cbuf, toClient, dialogs>>
        /\ cparsing' = FALSE
    BY <1>1 DEF ClientParseEnds, cpast
  <2>5. ClientSide'
    BY <2>3, <2>4 DEF ClientSide, busy2
  <2>6. ServerSide'
    BY <1>1, ServerSideStays DEF Sides, ClientParseEnds, server, spast
  <2> QED  BY <2>5, <2>6 DEF Sides
<1>2. CASE ServerParseEnds
  <2>1. Side(open, sstale, scut, sparsing, sstream, sgot, sbuf, toServer, ServerBound)
    BY DEF Sides, ServerSide
  <2>2. ~HasHeader(Readable(sbuf))
    BY <1>2 DEF ServerParseEnds
  <2>3. Side(open, sstale, scut, FALSE, sstream, sgot, sbuf, toServer, ServerBound)
    BY <1>0, <2>1, <2>2, BoundAre, SideStops
  <2>4. UNCHANGED <<open, sstale, scut, sstream, sgot, sbuf, toServer>> /\ sparsing' = FALSE
    BY <1>2 DEF ServerParseEnds, spast
  <2>5. ServerSide'
    BY <2>3, <2>4 DEF ServerSide
  <2>6. ClientSide'
    BY <1>2, ClientSideStays DEF Sides, ServerParseEnds, client, cpast
  <2> QED  BY <2>5, <2>6 DEF Sides
<1> QED  BY <1>1, <1>2

LEMMA ClientDispatchesSides ==
  ASSUME TypeInv, Sides, LengthsFit, ClientDispatches
  PROVE  Sides'
<1> DEFINE data == Readable(cbuf)
           kind == ClientKind(data)
           busy == cparsing \/ dialogs # <<>>
<1>1. PICK m \in Decoded(kind, data) :
        /\ cbuf' = retrieve(cbuf, FullLength(m.kind, data))
        /\ cgot' = Append(cgot, m)
        /\ IF OpensDialog(m)
           THEN cparsing' = FALSE /\ dialogs' = Append(dialogs, [msg |-> m, conn |-> conn])
           ELSE UNCHANGED <<cparsing, dialogs>>
  BY DEF ClientDispatches
<1>2. SideType(cstream, cgot, cbuf, toClient) /\ data \in Seq(Byte)
  BY SidesTyped, ReadableType DEF SideType
<1>3. kind \in Kinds \cup {"none"}
  BY KindType
<1>4. HasHeader(data) => Told(kind, data, ClientBound)
  BY ClientKindIs
<1>5. Side(open, cstale, ccut, busy, cstream, cgot, cbuf, toClient, ClientBound)
  BY DEF Sides, ClientSide
<1>6. Good(cstream, ClientBound)
  BY GoodIs DEF TypeInv, PastType, LengthsFit
<1> HIDE DEF kind, busy
<1>7. /\ kind \in Kinds /\ HasHeader(data) /\ Complete(kind, data)
      /\ m = fromByteArray(kind, data) /\ m.kind = kind
  BY <1>2, <1>3, DecodedType
<1>8. Side(open, cstale, ccut, TRUE, cstream, Append(cgot, fromByteArray(kind, data)),
           retrieve(cbuf, FullLength(kind, data)), toClient, ClientBound)
  BY <1>2, <1>4, <1>5, <1>6, <1>7, BoundAre, SideTakes
<1>9. (cparsing \/ dialogs # <<>>)' = TRUE
  <2>1. dialogs \in Seq(Dialog) /\ cparsing = TRUE
    BY DEF TypeInv, ClientType, ClientDispatches
  <2>2. CASE OpensDialog(m)
    <3>1. dialogs' = Append(dialogs, [msg |-> m, conn |-> conn])
      BY <1>1, <2>2
    <3>2. Len(dialogs') = Len(dialogs) + 1
      BY <2>1, <3>1
    <3>3. dialogs' # <<>>
      BY <2>1, <3>2
    <3> QED  BY <3>3
  <2>3. CASE ~OpensDialog(m)
    BY <1>1, <2>1, <2>3
  <2> QED  BY <2>2, <2>3
<1>10. ClientSide'
  <2>1. /\ UNCHANGED <<open, cstale, ccut, cstream, toClient>>
        /\ cgot' = Append(cgot, fromByteArray(kind, data))
        /\ cbuf' = retrieve(cbuf, FullLength(kind, data))
    BY <1>1, <1>7 DEF ClientDispatches
  <2> QED  BY <1>8, <1>9, <2>1 DEF ClientSide
<1>11. ServerSide'
  BY ServerSideStays DEF Sides, ClientDispatches, server, spast
<1> QED  BY <1>10, <1>11 DEF Sides

LEMMA ServerDispatchesSides ==
  ASSUME TypeInv, TypeInv', Sides, LengthsFit, LengthsFit', ServerDispatches
  PROVE  Sides'
<1> DEFINE data == Readable(sbuf)
           kind == ServerKind(data)
<1>1. PICK m \in Decoded(kind, data) :
        /\ sbuf' = retrieve(sbuf, FullLength(m.kind, data))
        /\ sgot' = Append(sgot, m)
  BY DEF ServerDispatches
<1>2. SideType(sstream, sgot, sbuf, toServer) /\ data \in Seq(Byte)
  BY SidesTyped, ReadableType DEF SideType
<1>3. kind \in Kinds \cup {"none"}
  BY KindType
<1>4. HasHeader(data) => Told(kind, data, ServerBound)
  BY ServerKindIs
<1>5. Side(open, sstale, scut, sparsing, sstream, sgot, sbuf, toServer, ServerBound)
  BY DEF Sides, ServerSide
<1>6. Good(sstream, ServerBound)
  BY GoodIs DEF TypeInv, PastType, LengthsFit
<1> HIDE DEF kind
<1>7. /\ kind \in Kinds /\ HasHeader(data) /\ Complete(kind, data)
      /\ m = fromByteArray(kind, data) /\ m.kind = kind
  BY <1>2, <1>3, DecodedType
<1>8. Side(open, sstale, scut, TRUE, sstream, Append(sgot, fromByteArray(kind, data)),
           retrieve(sbuf, FullLength(kind, data)), toServer, ServerBound)
  BY <1>2, <1>4, <1>5, <1>6, <1>7, BoundAre, SideTakes
<1>9. ServerSide'
  <2>1. /\ UNCHANGED <<open, sstale, scut, sstream, toServer>> /\ sparsing' = TRUE
        /\ sgot' = Append(sgot, fromByteArray(kind, data))
        /\ sbuf' = retrieve(sbuf, FullLength(kind, data))
    BY <1>1, <1>7 DEF ServerDispatches, TypeInv, ServerType
  <2> QED  BY <1>8, <2>1 DEF ServerSide
<1>10. ClientSide'
  <2>1. Wrote(open, cstream, toClient, cstream', toClient', ClientBound)
    BY ServerDispatchesType
  <2>2. UNCHANGED <<open, cstale, ccut, cparsing, dialogs, cgot, cbuf>>
    BY DEF ServerDispatches, client
  <2> QED  BY <2>1, <2>2, ClientSideWritten DEF Sides
<1> QED  BY <1>9, <1>10 DEF Sides

LEMMA ServerWritesSides ==
  ASSUME TypeInv, TypeInv', Sides, LengthsFit',
         Hello \/ AddTestClient \/ SendFile \/ SendProgressData
  PROVE  Sides'
<1>1. Wrote(open, cstream, toClient, cstream', toClient', ClientBound)
  BY HelloType, AddTestClientType, SendFileType, SendProgressDataType
<1>2. /\ UNCHANGED <<open, cstale, ccut, cparsing, dialogs, cgot, cbuf>>
      /\ UNCHANGED <<open, sstale, scut, sparsing, sstream, sgot, sbuf, toServer>>
  <2>1. CASE Hello
    BY <2>1 DEF Hello, client, spast
  <2>2. CASE AddTestClient
    BY <2>2 DEF AddTestClient, client, spast
  <2>3. CASE SendFile
    BY <2>3 DEF SendFile, client, server, spast
  <2>4. CASE SendProgressData
    BY <2>4 DEF SendProgressData, client, spast
  <2> QED  BY <2>1, <2>2, <2>3, <2>4
<1>3. ClientSide'
  BY <1>1, <1>2, ClientSideWritten DEF Sides
<1>4. ServerSide'
  BY <1>2, ServerSideStays DEF Sides
<1> QED  BY <1>3, <1>4 DEF Sides

LEMMA UserSendsSides ==
  ASSUME TypeInv, TypeInv', Sides, LengthsFit', UserSends
  PROVE  Sides'
<1>1. Wrote(open, sstream, toServer, sstream', toServer', ServerBound)
  BY UserSendsType
<1>2. ServerSide'
  BY <1>1, ServerSideWritten DEF Sides, UserSends, server
<1>3. ClientSide'
  BY ClientSideStays DEF Sides, UserSends, client, cpast
<1> QED  BY <1>2, <1>3 DEF Sides

LEMMA DialogEndsSides ==
  ASSUME TypeInv, TypeInv', Sides, LengthsFit', DialogEnds
  PROVE  Sides'
<1>1. Wrote(open, sstream, toServer, sstream', toServer', ServerBound)
  BY DialogEndsType
<1>2. ServerSide'
  BY <1>1, ServerSideWritten DEF Sides, DialogEnds, server
<1>3. ClientSide'
  <2> DEFINE busy == cparsing \/ dialogs # <<>>
  <2>1. Side(open, cstale, ccut, busy, cstream, cgot, cbuf, toClient, ClientBound)
    BY DEF Sides, ClientSide
  <2> HIDE DEF busy
  <2>2. Side(open, cstale, ccut, TRUE, cstream, cgot, cbuf, toClient, ClientBound)
    BY <2>1, SideBusier
  <2>3. /\ UNCHANGED <<open, cstale, ccut, cstream, cgot, cbuf, toClient>>
        /\ (cparsing \/ dialogs # <<>>)' = TRUE
    BY DEF DialogEnds, cpast
  <2> QED  BY <2>2, <2>3 DEF ClientSide
<1> QED  BY <1>2, <1>3 DEF Sides

LEMMA DisconnectedSides ==
  ASSUME Sides, Disconnected \/ UNCHANGED vars
  PROVE  Sides'
<1>1. /\ UNCHANGED <<open, cstale, ccut, cparsing, dialogs, cstream, cgot, cbuf, toClient>>
      /\ UNCHANGED <<open, sstale, scut, sparsing, sstream, sgot, sbuf, toServer>>
  <2>1. CASE Disconnected
    BY <2>1 DEF Disconnected, server, cpast, spast
  <2>2. CASE UNCHANGED vars
    BY <2>2 DEF vars, client, server, cpast, spast
  <2> QED  BY <2>1, <2>2
<1> QED  BY <1>1, ClientSideStays, ServerSideStays DEF Sides

LEMMA RestartsSides ==
  ASSUME Sides, Restarts
  PROVE  Sides'
<1>1. CASE ClientRestarts
  <2>1. Side(FALSE, FALSE, FALSE, FALSE \/ <<>> # <<>>, <<>>, <<>>, NewBuffer, <<>>, ClientBound)
    BY SideStarts
  <2>2. ClientSide'
    BY <1>1, <2>1 DEF ClientSide, ClientRestarts, Break
  <2>3. Side(open, sstale, scut, sparsing, sstream, sgot, sbuf, toServer, ServerBound)
    BY DEF Sides, ServerSide
  <2>4. Side(FALSE, sstale, scut, sparsing, sstream, sgot, sbuf, <<>>, ServerBound)
    BY <2>3, SideBreaks
  <2>5. ServerSide'
    BY <1>1, <2>4 DEF ServerSide, ClientRestarts, Break, server, spast
  <2> QED  BY <2>2, <2>5 DEF Sides
<1>2. CASE ServerRestarts
  <2>1. Side(FALSE, FALSE, FALSE, FALSE, <<>>, <<>>, NewBuffer, <<>>, ServerBound)
    BY SideStarts
  <2>2. ServerSide'
    BY <1>2, <2>1 DEF ServerSide, ServerRestarts, Break
  <2> DEFINE busy == cparsing \/ dialogs # <<>>
  <2>3. Side(open, cstale, ccut, busy, cstream, cgot, cbuf, toClient, ClientBound)
    BY DEF Sides, ClientSide
  <2> HIDE DEF busy
  <2>4. Side(FALSE, cstale, ccut, busy, cstream, cgot, cbuf, <<>>, ClientBound)
    BY <2>3, SideBreaks
  <2>5. ClientSide'
    BY <1>2, <2>4 DEF ClientSide, ServerRestarts, Break, client, cpast, busy
  <2> QED  BY <2>2, <2>5 DEF Sides
<1> QED  BY <1>1, <1>2 DEF Restarts

LEMMA StepSides ==
  ASSUME TypeInv, TypeInv', Sides, LengthsFit, LengthsFit', [Next]_vars
  PROVE  Sides'
<1>1. CASE ClientLoop
  BY <1>1, ConnectSides, ClientReadsSides, ParseEndsSides, ClientDispatchesSides,
     DisconnectedSides DEF ClientLoop
<1>2. CASE ServerLoop
  BY <1>2, ServerWritesSides, ServerReadsSides, ParseEndsSides, ServerDispatchesSides
  DEF ServerLoop
<1>3. CASE Users
  BY <1>3, DialogEndsSides, UserSendsSides, ServerWritesSides DEF Users
<1>4. CASE Restarts
  BY <1>4, RestartsSides
<1>5. CASE UNCHANGED vars
  BY <1>5, DisconnectedSides
<1> QED  BY <1>1, <1>2, <1>3, <1>4, <1>5 DEF Next

LEMMA SidesHold == Spec /\ []LengthsFit => []Sides
BY InitSides, StepSides, TypesHold, PTL DEF Spec

(* What one end wrote, the other has dispatched, holds in its buffer or    *)
(* will still read, byte for byte and in order, however reads cut the      *)
(* stream, for every size of the buffer and every message, as long as a    *)
(* content is not longer than its length field can say.                    *)
THEOREM StreamIntactHolds == Spec /\ []LengthsFit => []StreamIntact
<1>1. TypeInv /\ Sides => StreamIntact
  BY SidesTyped, SideMeans, BoundAre DEF Sides, ClientSide, ServerSide, StreamIntact
<1> QED  BY <1>1, TypesHold, SidesHold, PTL

(* The messages one end dispatches are those the other end wrote, field by *)
(* field, in order, none left out and none twice.                          *)
THEOREM MessagesIntactHolds == Spec /\ []LengthsFit => []MessagesIntact
<1>1. TypeInv /\ Sides => MessagesIntact
  BY SidesTyped, SideMeans, BoundAre DEF Sides, ClientSide, ServerSide, MessagesIntact
<1> QED  BY <1>1, TypesHold, SidesHold, PTL

(* As long as every read ended where a write did, no loop spins on a       *)
(* message that is not complete or not known, and a program that waits for *)
(* data has dispatched all it read.                                        *)
THEOREM WholeReadsNeverSpinHolds == Spec /\ []LengthsFit => []WholeReadsNeverSpin
<1>1. TypeInv /\ Sides => WholeReadsNeverSpin
  <2> SUFFICES ASSUME TypeInv, Sides PROVE WholeReadsNeverSpin
    OBVIOUS
  <2> DEFINE busy == cparsing \/ dialogs # <<>>
  <2>1. /\ SideType(cstream, cgot, cbuf, toClient) /\ SideType(sstream, sgot, sbuf, toServer)
        /\ Side(open, cstale, ccut, busy, cstream, cgot, cbuf, toClient, ClientBound)
        /\ Side(open, sstale, scut, sparsing, sstream, sgot, sbuf, toServer, ServerBound)
    BY SidesTyped DEF Sides, ClientSide, ServerSide
  <2> HIDE DEF busy
  <2>2. ASSUME ~ccut /\ ~cstale
        PROVE  ~ClientSpins /\ (~busy => readableBytes(cbuf) = 0)
    <3> DEFINE kind == ClientKind(Readable(cbuf))
    <3>1. /\ ~busy => readableBytes(cbuf) = 0
          /\ HasHeader(Readable(cbuf)) =>
               \A k : Told(k, Readable(cbuf), ClientBound) =>
                 k \in ClientBound /\ Complete(k, Readable(cbuf))
      BY <2>1, <2>2, BoundAre, SideMeans
    <3>2. HasHeader(Readable(cbuf)) => Told(kind, Readable(cbuf), ClientBound)
      BY ClientKindIs
    <3>3. "none" \notin ClientBound
      BY DEF ClientBound
    <3> HIDE DEF kind
    <3>4. HasHeader(Readable(cbuf)) => kind # "none" /\ Complete(kind, Readable(cbuf))
      BY <3>1, <3>2, <3>3
    <3> QED  BY <3>1, <3>4 DEF ClientSpins, kind
  <2>3. ASSUME ~scut /\ ~sstale
        PROVE  ~ServerSpins /\ (~sparsing => readableBytes(sbuf) = 0)
    <3> DEFINE kind == ServerKind(Readable(sbuf))
    <3>1. /\ ~sparsing => readableBytes(sbuf) = 0
          /\ HasHeader(Readable(sbuf)) =>
               \A k : Told(k, Readable(sbuf), ServerBound) =>
                 k \in ServerBound /\ Complete(k, Readable(sbuf))
      BY <2>1, <2>3, BoundAre, SideMeans
    <3>2. HasHeader(Readable(sbuf)) => Told(kind, Readable(sbuf), ServerBound)
      BY ServerKindIs
    <3>3. "none" \notin ServerBound
      BY DEF ServerBound
    <3> HIDE DEF kind
    <3>4. HasHeader(Readable(sbuf)) => kind # "none" /\ Complete(kind, Readable(sbuf))
      BY <3>1, <3>2, <3>3
    <3> QED  BY <3>1, <3>4 DEF ServerSpins, kind
  <2> QED  BY <2>2, <2>3 DEF WholeReadsNeverSpin, busy
<1> QED  BY <1>1, TypesHold, SidesHold, PTL
================================================================================
